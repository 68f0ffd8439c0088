---------------------------- MODULE TextParsers ----------------------------
(***************************************************************************)
(* The parsers that work on characters: the tokens of an AT response line  *)
(* (src/fwril-100/at_tok.c), and of the GPS HAL                            *)
(* (src/gps/freerunner/gps_freerunner.c) the collection of a sentence from *)
(* single bytes, its tokenizer and the conversion of a date to seconds.    *)
(*                                                                         *)
(* A text is a sequence of characters, a pointer into it an index; the     *)
(* index after the last character is that of the terminator.  The module   *)
(* is a machine that does one of four tasks.  A step writes one more part  *)
(* of the input, calls a parser once, or does one turn of a parser's loop. *)
(***************************************************************************)
EXTENDS Integers, Sequences, FiniteSets, SequencesExt

Comma == ","
Quote == "\""
Colon == ":"
Plus  == "+"
Space == {" ", "\t", "\n", "\f", "\r"}  \* isspace

CONSTANTS
    Char,             \* the characters of AT response lines
    Fields,           \* fields of AT response lines: [quoted, text]
    MaxFields,        \* bound: fields of a line
    SIZE,             \* sizeof(r->in)
    MAX_NMEA_TOKENS,
    MaxBytes,         \* bound: lines kept of a stream and bytes of the line being sent
    MaxSentence,      \* bound: length of the sentences
    LastYear          \* bound: the calendar ends with this year

ASSUME SizeAssumption == SIZE \in Nat /\ SIZE > 1 /\ MAX_NMEA_TOKENS \in Nat

\* The years of a 32-bit time_t.
ASSUME YearAssumption == LastYear \in 1970..2037

ASSUME CharAssumption == {Plus, Colon, Comma, Quote} \subseteq Char

\* No comma outside quotes and no quote inside them; a quote is not the first
\* character of a field without quotes.
ASSUME FieldsAssumption ==
    /\ Fields \subseteq [quoted : BOOLEAN, text : Seq(Char)]
    /\ \A f \in Fields : \A k \in 1..Len(f.text) :
         IF f.quoted THEN f.text[k] # Quote
         ELSE /\ f.text[k] # Comma
              /\ f.text[k] = Quote => \E l \in 1..(k - 1) : f.text[l] \notin Space

VARIABLES
    task,      \* "write" and then "tokens"; "stream"; "sentence" and then "cut"; "date"
    line,      \* tokens: the response line
    fields,    \* tokens: the fields it was written from
    begins,    \* tokens: where in it each field begins
    cur,       \* tokens: *p_cur
    taken,     \* tokens: the number of tokens taken
    in,        \* stream: r->in up to r->pos
    overflow,  \* stream: r->overflow
    parsed,    \* stream: the sentences given to nmea_reader_parse
    kept,      \* stream, reference: the lines that should be parsed
    swallow,   \* stream, reference: the last newline was the byte too much
    sent,      \* stream: the bytes since the last newline; sentence: the sentence
    first,     \* cut: where the loop of nmea_tokenizer_init began
    p,         \* cut: the loop's pointer
    end,       \* cut: the end of the sentence without newline and checksum
    tokens,    \* cut: t->tokens, up to t->count
    date,      \* date: [year, mon, day]
    days       \* date: the days since 1 January 1970

lineVars == <<line, fields, begins, cur, taken>>
streamVars == <<in, overflow, parsed, kept, swallow>>
cutVars == <<first, p, end, tokens>>
dateVars == <<date, days>>
vars == <<task, lineVars, streamVars, sent, cutVars, dateVars>>

---------------------------------------------------------------------------
(* The first character in S, or not in S, from i on, or the terminator:    *)
(* every loop of these parsers looks for one.                              *)

FirstIn(s, i, S) == CHOOSE j \in i..(Len(s) + 1) :
    (j = Len(s) + 1 \/ s[j] \in S) /\ \A k \in i..(j - 1) : s[k] \notin S
FirstNotIn(s, i, S) == CHOOSE j \in i..(Len(s) + 1) :
    (j = Len(s) + 1 \/ s[j] \notin S) /\ \A k \in i..(j - 1) : s[k] \in S

Text(s, i, j) == SubSeq(s, i, j - 1)

---------------------------------------------------------------------------
(* at_tok.c.  A token is <<>> if it is NULL, otherwise <<text>>.           *)

NULL == 0

\* strsep of the C library for one delimiter.
strsep(s, i, c) ==
    LET k == FirstIn(s, i, {c})
    IN  [tok |-> <<Text(s, i, k)>>, cur |-> IF k > Len(s) THEN NULL ELSE k + 1]

at_tok_start(s) ==
    LET k == FirstIn(s, 1, {Colon}) IN IF k > Len(s) THEN NULL ELSE k + 1

skipWhiteSpace(s, i) == FirstNotIn(s, i, Space)

skipNextComma(s, i) ==
    IF i = NULL THEN NULL
    ELSE LET k == FirstIn(s, i, {Comma}) IN IF k > Len(s) THEN k ELSE k + 1

\* FAULTY VARIANT: blanks before a token are not skipped.
nextTokKeepsBlanks(s, i) ==
    IF i = NULL THEN [tok |-> <<>>, cur |-> NULL]
    ELSE IF i <= Len(s) /\ s[i] = Quote
    THEN LET q == strsep(s, i + 1, Quote) IN [q EXCEPT !.cur = skipNextComma(s, @)]
    ELSE strsep(s, i, Comma)

\* A quoted token ends at the next quote, any other at the next comma.
nextTok(s, i) ==
    IF i = NULL THEN [tok |-> <<>>, cur |-> NULL]
    ELSE LET j == skipWhiteSpace(s, i)
         IN  IF j <= Len(s) /\ s[j] = Quote
             THEN LET q == strsep(s, j + 1, Quote) IN [q EXCEPT !.cur = skipNextComma(s, @)]
             ELSE strsep(s, j, Comma)

at_tok_nextstr(s, i) == nextTok(s, i)

Digits == {"0", "1", "2", "3", "4", "5", "6", "7", "8", "9"}
DigitValue(c) == CHOOSE v \in 0..9 : c = ToString(v)

\* The number that digits mean.
Number(s) == FoldLeft(LAMBDA v, c : 10 * v + DigitValue(c), 0, s)

LONG_MAX == 2147483647

\* strtol of a token without sign, base 10: the digits it begins with, at most LONG_MAX.
strtol(s) ==
    LET i == skipWhiteSpace(s, 1)
        n == Text(s, i, FirstNotIn(s, i, Digits))
    IN  [none  |-> n = <<>>, value |-> IF Number(n) <= LONG_MAX THEN Number(n) ELSE LONG_MAX]

\* -1 on failure; *p_cur moves in any case.
at_tok_nextint(s, i) ==
    LET t == nextTok(s, i)
        n == IF t.tok = <<>> THEN [none |-> TRUE, value |-> 0] ELSE strtol(t.tok[1])
    IN  [ret |-> IF n.none THEN -1 ELSE 0, value |-> n.value, cur |-> t.cur]

at_tok_nextbool(s, i) ==
    LET n == at_tok_nextint(s, i)
    IN  [n EXCEPT !.ret = IF n.value \in {0, 1} THEN @ ELSE -1]

\* FAULTY VARIANT: only NULL ends the line.
at_tok_hasmoreNull(s, i) == i # NULL

at_tok_hasmore(s, i) == i # NULL /\ i <= Len(s)

---------------------------------------------------------------------------
(* gps_freerunner.c: bytes, sentences, dates.                              *)

\* FAULTY VARIANT: the rest of a long sentence is taken for a sentence.
nmea_reader_addcForgets(c) ==
    IF Len(in) >= SIZE - 1
    THEN in' = <<>> /\ UNCHANGED <<overflow, parsed>>
    ELSE /\ in' = IF c = "\n" THEN <<>> ELSE Append(in, c)
         /\ parsed' = IF c = "\n" THEN Append(parsed, in) ELSE parsed
         /\ UNCHANGED overflow

\* Too long a sentence is dropped with the byte that is too much, then up to and
\* including the next newline.
nmea_reader_addc(c) ==
    IF overflow
    THEN overflow' = (c # "\n") /\ UNCHANGED <<in, parsed>>
    ELSE IF Len(in) >= SIZE - 1
    THEN overflow' = TRUE /\ in' = <<>> /\ UNCHANGED parsed
    ELSE /\ in' = IF c = "\n" THEN <<>> ELSE Append(in, c)
         /\ parsed' = IF c = "\n" THEN Append(parsed, in) ELSE parsed
         /\ UNCHANGED overflow

\* Where a sentence s ends without its newline and its checksum, if it begins at i.
EndOfSentence(s, i) ==
    LET e  == Len(s) + 1
        e1 == IF e > i /\ s[e - 1] = "\n" THEN e - 1 ELSE e
        e2 == IF e1 < e /\ e1 > i /\ s[e1 - 1] = "\r" THEN e1 - 1 ELSE e1
    IN  IF e2 >= i + 3 /\ s[e2 - 3] = "*" THEN e2 - 3 ELSE e2

\* FAULTY VARIANT: two commas in a row count for one.
CutTokenMerged ==
    LET q == FirstIn(Text(sent, 1, end), p, {Comma})
    IN  /\ tokens' = IF Len(tokens) < MAX_NMEA_TOKENS /\ q > p
                     THEN Append(tokens, [p |-> p, end |-> q]) ELSE tokens
        /\ p' = IF q < end THEN q + 1 ELSE q

\* One turn of the loop over memchr.
CutToken ==
    LET q == FirstIn(Text(sent, 1, end), p, {Comma})
    IN  /\ tokens' = IF Len(tokens) < MAX_NMEA_TOKENS
                     THEN Append(tokens, [p |-> p, end |-> q]) ELSE tokens
        /\ p' = IF q < end THEN q + 1 ELSE q

nmea_tokenizer_get(index) ==
    IF index \in 0..Len(tokens) - 1
    THEN Text(sent, tokens[index + 1].p, tokens[index + 1].end) ELSE <<>>

m_to_d == <<0, 31, 59, 90, 120, 151, 181, 212, 243, 273, 304, 334>>

\* FAULTY VARIANT: February 29 counts from January on.
mkgmtimeLeapEarly(year, mon, day) ==
    LET m  == mon - 1
        y1 == IF m < 0 THEN year - 1 ELSE year + m \div 12
        m1 == IF m < 0 THEN m + 12 ELSE m % 12
        y2 == IF m1 <= 0 THEN y1 - 1 ELSE y1
    IN  86400 * ((y1 - 1970) * 365 + m_to_d[m1 + 1] + ((y2 - 1968) \div 4)
                 - ((y2 - 1900) \div 100) + ((y2 - 1600) \div 400) + day - 1)

\* At midnight; tm_mon = mon - 1, where a month 0 gives -1.
mkgmtime(year, mon, day) ==
    LET m  == mon - 1
        y1 == IF m < 0 THEN year - 1 ELSE year + m \div 12
        m1 == IF m < 0 THEN m + 12 ELSE m % 12
        y2 == IF m1 <= 1 THEN y1 - 1 ELSE y1
    IN  86400 * ((y1 - 1970) * 365 + m_to_d[m1 + 1] + ((y2 - 1968) \div 4)
                 - ((y2 - 1900) \div 100) + ((y2 - 1600) \div 400) + day - 1)

---------------------------------------------------------------------------
(* The machine.                                                            *)

Init ==
    /\ task \in {"write", "stream", "sentence", "date"}
    /\ line = <<Plus, Colon>> /\ fields = <<>> /\ begins = <<>> /\ cur = NULL /\ taken = 0
    /\ in = <<>> /\ overflow = FALSE /\ parsed = <<>> /\ kept = <<>> /\ swallow = FALSE
    /\ sent = <<>>
    /\ first = 1 /\ p = 1 /\ end = 1 /\ tokens = <<>>
    /\ date = [year |-> 1970, mon |-> 1, day |-> 1] /\ days = 0

Written(f) == IF f.quoted THEN <<Quote>> \o f.text \o <<Quote>> ELSE f.text

\* The modem writes one more field.
AddField ==
    /\ task = "write" /\ Len(fields) < MaxFields
    /\ \E f \in Fields :
         LET before == IF fields = <<>> THEN line ELSE Append(line, Comma)
         IN  /\ fields' = Append(fields, f)
             /\ begins' = Append(begins, Len(before) + 1)
             /\ line' = before \o Written(f)
    /\ UNCHANGED <<task, cur, taken, streamVars, sent, cutVars, dateVars>>

StartTokens ==
    /\ task = "write" /\ task' = "tokens"
    /\ cur' = at_tok_start(line)
    /\ UNCHANGED <<line, fields, begins, taken, streamVars, sent, cutVars, dateVars>>

TakeToken ==
    /\ task = "tokens" /\ taken < Len(fields)
    /\ cur' = nextTok(line, cur).cur /\ taken' = taken + 1
    /\ UNCHANGED <<task, line, fields, begins, streamVars, sent, cutVars, dateVars>>

\* The receiver sends one more byte.  The reference decides about a line when its newline
\* comes: it is dropped if it is too long for r->in; if it lacks just one byte of room,
\* the newline is the byte too much, and the next line is swallowed.
SendByte ==
    /\ task = "stream" /\ Len(sent) + Len(kept) < MaxBytes
    /\ \E c \in {"a", "\n"} :
         /\ nmea_reader_addc(c)
         /\ IF c = "\n"
            THEN /\ sent' = <<>> /\ swallow' = (~swallow /\ Len(sent) = SIZE - 1)
                 /\ kept' = IF swallow \/ Len(sent) >= SIZE - 1 THEN kept ELSE Append(kept, sent)
            ELSE sent' = Append(sent, c) /\ UNCHANGED <<kept, swallow>>
    /\ UNCHANGED <<task, lineVars, cutVars, dateVars>>

SentenceChar == {"a", Comma, "$", "*", "\r", "\n"}

AddCharacter ==
    /\ task = "sentence" /\ Len(sent) < MaxSentence
    /\ \E c \in SentenceChar : sent' = Append(sent, c)
    /\ UNCHANGED <<task, lineVars, streamVars, cutVars, dateVars>>

\* nmea_tokenizer_init up to its loop: the initial $ is optional.
nmea_tokenizer_init ==
    /\ task = "sentence" /\ task' = "cut"
    /\ first' = IF sent # <<>> /\ sent[1] = "$" THEN 2 ELSE 1
    /\ p' = first' /\ end' = EndOfSentence(sent, first')
    /\ UNCHANGED <<tokens, sent, lineVars, streamVars, dateVars>>

NextToken ==
    /\ task = "cut" /\ p < end
    /\ CutToken
    /\ UNCHANGED <<task, first, end, sent, lineVars, streamVars, dateVars>>

IsLeap(y) == (y % 4 = 0 /\ y % 100 # 0) \/ y % 400 = 0
DaysIn(y, m) == CASE m \in {4, 6, 9, 11} -> 30
                  [] m = 2 -> IF IsLeap(y) THEN 29 ELSE 28
                  [] OTHER -> 31

\* The calendar goes on by a day.
NextDay ==
    /\ task = "date" /\ days' = days + 1
    /\ \/ /\ date.day < DaysIn(date.year, date.mon)
          /\ date' = [date EXCEPT !.day = @ + 1]
       \/ /\ date.day = DaysIn(date.year, date.mon) /\ date.mon < 12
          /\ date' = [year |-> date.year, mon |-> date.mon + 1, day |-> 1]
       \/ /\ date.day = 31 /\ date.mon = 12 /\ date.year < LastYear
          /\ date' = [year |-> date.year + 1, mon |-> 1, day |-> 1]
    /\ UNCHANGED <<task, lineVars, streamVars, sent, cutVars>>

Next ==
    \/ AddField \/ StartTokens \/ TakeToken
    \/ SendByte
    \/ AddCharacter \/ nmea_tokenizer_init \/ NextToken
    \/ NextDay

Spec == Init /\ [][Next]_vars

---------------------------------------------------------------------------
(* Properties                                                              *)

\* Reference: what a field means.
Meant(f) == IF f.quoted THEN f.text
            ELSE Text(f.text, skipWhiteSpace(f.text, 1), Len(f.text) + 1)
IsNumber(s) == s # <<>> /\ \A k \in 1..Len(s) : s[k] \in Digits

\* at_tok_start and k calls lead to the k-th field whatever the fields before it are,
\* commas inside quotes included; a field that is a number (of 32 bits) is read as that
\* number, and as a truth value only if it is 0 or 1.
TokensAreFields ==
    (task = "tokens" /\ taken < Len(fields)) =>
        LET meant == Meant(fields[taken + 1])
        IN  /\ at_tok_nextstr(line, cur).tok = <<meant>>
            /\ (IsNumber(meant) /\ Number(meant) <= LONG_MAX) =>
                 /\ at_tok_nextint(line, cur).ret = 0
                 /\ at_tok_nextint(line, cur).value = Number(meant)
                 /\ at_tok_nextbool(line, cur).ret = IF Number(meant) \in {0, 1} THEN 0 ELSE -1

\* When at_tok_hasmore says 1 there is a field to take, also after a quoted last one and
\* after skipped commas; when it says 0 there is none, except for a last field that is
\* empty and has no quotes.  That one at_tok_nextstr would still return, as the empty
\* string (TokensAreFields), so that a loop on at_tok_hasmore misses it, and line 184,
\* 'returns 1 on "has more tokens"', does not hold of it.
MoreUntilLast ==
    task = "tokens" =>
        /\ at_tok_hasmore(line, cur) => taken < Len(fields)
        /\ ~at_tok_hasmore(line, cur) =>
               \/ taken = Len(fields)
               \/ taken = Len(fields) - 1 /\ Written(fields[Len(fields)]) = <<>>

\* Only whole sentences are parsed, each once and in order, and none is lost but those
\* too long for r->in and those that follow a line whose newline was the byte too much;
\* r->in keeps room for the byte to come.
WholeSentences == parsed = kept /\ Len(in) < SIZE

\* Reference: the commas of the sentence before position i, and the field from a to b.
Commas(i) == Cardinality({k \in first..(i - 1) : sent[k] = Comma})
IsField(a, b) ==
    /\ a = first \/ sent[a - 1] = Comma
    /\ b = end \/ sent[b] = Comma
    /\ \A k \in a..(b - 1) : sent[k] # Comma

\* nmea_tokenizer_get gives the i-th field of the sentence for every index below
\* MAX_NMEA_TOKENS, empty fields and a comma at the end included; beyond, nothing.
FieldsAreSplit ==
    (task = "cut" /\ p = end) =>
        \A i \in 0..MAX_NMEA_TOKENS + 1 :
            IF i < MAX_NMEA_TOKENS /\ i <= Commas(end)
            THEN \E a \in first..end : \E b \in a..end :
                    /\ IsField(a, b) /\ Commas(a) = i
                    /\ nmea_tokenizer_get(i) = Text(sent, a, b)
            ELSE nmea_tokenizer_get(i) = <<>>

\* mkgmtime agrees with a calendar walked day by day, leap years included, fits a 32-bit
\* time_t up to the last second of the day, and carries a month 0 or beyond 12 (two
\* digits) into the year before or after.
EpochIsCalendar ==
    /\ mkgmtime(date.year, date.mon, date.day) = 86400 * days
    /\ 86400 * days + 86399 <= 2147483647
    /\ date.mon = 12 => mkgmtime(date.year + 1, 0, date.day) = 86400 * days
    /\ \A k \in 0..8 : mkgmtime(date.year - k, date.mon + 12 * k, date.day) = 86400 * days
=============================================================================
