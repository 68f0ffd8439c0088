SPECIFICATION FairSpec
CONSTANTS
    MAX_AUTO_ACTIVATE_RETRY = 3
    OtaDone = 2
    MaxWaits = 1
    OtaLength = 2
    Polls = {"+CSQ:"}
    Lines <- PollLines
    Malformed <- Incomplete
    MaxFaults = 1
INVARIANTS TypeOK CallsBounded ActivatedMeansProgrammed StatusIsCurrent
PROPERTIES ProgrammedIsNoticed ChangeIsReported
