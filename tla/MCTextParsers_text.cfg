SPECIFICATION Spec
CONSTANTS
    Char <- SomeChar
    Fields <- SomeFields
    MaxFields = 4
    SIZE = 4
    MAX_NMEA_TOKENS = 3
    MaxBytes = 9
    MaxSentence = 6
    LastYear = 2037
INVARIANTS TokensAreFields MoreUntilLast WholeSentences FieldsAreSplit EpochIsCalendar
CHECK_DEADLOCK FALSE
