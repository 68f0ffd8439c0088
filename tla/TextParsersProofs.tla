------------------------- MODULE TextParsersProofs -------------------------
(***************************************************************************)
(* The properties of TextParsers for every line, stream, sentence and day. *)
(* The four tasks share no state but sent, so each has an invariant of its *)
(* own: DateInv, StreamInv, CutInv and LineInv.                            *)
(***************************************************************************)
EXTENDS TextParsers, TLAPS, WellFoundedInduction, FiniteSetTheorems, SequenceTheorems

---------------------------------------------------------------------------
(* Dates.                                                                  *)

\* The leap days that mkgmtime counts, and the days before a date of year y.
Leaps(y) == ((y - 1968) \div 4) - ((y - 1900) \div 100) + ((y - 1600) \div 400)
DayNumber(y, m, d) ==
    (y - 1970) * 365 + m_to_d[m] + Leaps(IF m <= 2 THEN y - 1 ELSE y) + d - 1
Midnight(y, m, d) == 86400 * DayNumber(y, m, d)

\* The day that mkgmtime adds from March on is there in leap years only.
LEMMA LeapDay ==
    ASSUME NEW y \in Nat, y >= 1970
    PROVE  Leaps(y) = Leaps(y - 1) + (IF IsLeap(y) THEN 1 ELSE 0) /\ Leaps(y) \in Int
BY DEF Leaps, IsLeap

LEMMA MonthTable ==
    /\ m_to_d[1] = 0 /\ m_to_d[2] = 31 /\ m_to_d[3] = 59 /\ m_to_d[4] = 90
    /\ m_to_d[5] = 120 /\ m_to_d[6] = 151 /\ m_to_d[7] = 181 /\ m_to_d[8] = 212
    /\ m_to_d[9] = 243 /\ m_to_d[10] = 273 /\ m_to_d[11] = 304 /\ m_to_d[12] = 334
BY DEF m_to_d

\* mkgmtime for a month of the year, also if it is counted from an earlier year.
LEMMA MkgmtimeIs ==
    ASSUME NEW y \in Int, NEW m \in 1..12, NEW d \in Int
    PROVE  \A k \in 0..8 : mkgmtime(y - k, m + 12 * k, d) = Midnight(y, m, d)
<1> SUFFICES ASSUME NEW k \in 0..8
             PROVE  mkgmtime(y - k, m + 12 * k, d) = Midnight(y, m, d)
  OBVIOUS
<1>1. ~(m + 12 * k - 1 < 0) /\ (m + 12 * k - 1) \div 12 = k /\ (m + 12 * k - 1) % 12 = m - 1
  OBVIOUS
<1>2. y - k + k = y /\ (m - 1 <= 1 <=> m <= 2) /\ m - 1 + 1 = m
  OBVIOUS
<1>3. m_to_d[m] \in Int
  BY MonthTable
<1> DEFINE z == IF m <= 2 THEN y - 1 ELSE y
<1>4. mkgmtime(y - k, m + 12 * k, d)
        = 86400 * ((y - 1970) * 365 + m_to_d[m] + ((z - 1968) \div 4)
                   - ((z - 1900) \div 100) + ((z - 1600) \div 400) + d - 1)
  BY <1>1, <1>2 DEF mkgmtime
<1>5. z \in Int
  OBVIOUS
<1> HIDE DEF z
<1>6. DayNumber(y, m, d) = (y - 1970) * 365 + m_to_d[m] + ((z - 1968) \div 4)
                           - ((z - 1900) \div 100) + ((z - 1600) \div 400) + d - 1
  BY <1>3, <1>5 DEF DayNumber, Leaps, z
<1> QED BY <1>4, <1>6 DEF Midnight

LEMMA MonthZero ==
    ASSUME NEW y \in Int, NEW d \in Int
    PROVE  mkgmtime(y + 1, 0, d) = 86400 * DayNumber(y, 12, d)
<1>1. 0 - 1 < 0 /\ 0 - 1 + 12 = 11 /\ y + 1 - 1 = y /\ 11 + 1 = 12 /\ ~(11 <= 1) /\ ~(12 <= 2)
  OBVIOUS
<1>2. mkgmtime(y + 1, 0, d)
        = 86400 * ((y - 1970) * 365 + m_to_d[12] + ((y - 1968) \div 4)
                   - ((y - 1900) \div 100) + ((y - 1600) \div 400) + d - 1)
  BY <1>1 DEF mkgmtime
<1>3. DayNumber(y, 12, d) = (y - 1970) * 365 + m_to_d[12] + ((y - 1968) \div 4)
                            - ((y - 1900) \div 100) + ((y - 1600) \div 400) + d - 1
  BY <1>1, MonthTable DEF DayNumber, Leaps
<1> QED BY <1>2, <1>3

\* The next day has the next number.
LEMMA DayStep ==
    ASSUME NEW y \in Nat, y >= 1970, NEW m \in 1..12, NEW d \in 1..31
    PROVE  /\ DayNumber(y, m, d + 1) = DayNumber(y, m, d) + 1
           /\ m < 12 /\ d = DaysIn(y, m) => DayNumber(y, m + 1, 1) = DayNumber(y, m, d) + 1
           /\ m = 12 /\ d = 31 => DayNumber(y + 1, 1, 1) = DayNumber(y, m, d) + 1
<1>1. Leaps(y) \in Int /\ Leaps(y - 1) \in Int
  BY DEF Leaps
<1>2. DayNumber(y, m, d + 1) = DayNumber(y, m, d) + 1
  BY <1>1, MonthTable DEF DayNumber
<1>3. ASSUME m < 12, d = DaysIn(y, m)
      PROVE  DayNumber(y, m + 1, 1) = DayNumber(y, m, d) + 1
  BY <1>1, <1>3, LeapDay, MonthTable DEF DayNumber, DaysIn
<1>4. ASSUME m = 12, d = 31
      PROVE  DayNumber(y + 1, 1, 1) = DayNumber(y, m, d) + 1
  BY <1>1, <1>4, MonthTable DEF DayNumber
<1> QED BY <1>2, <1>3, <1>4

DateInv ==
    /\ date \in [year : 1970..LastYear, mon : 1..12, day : 1..31]
    /\ days = DayNumber(date.year, date.mon, date.day)

LEMMA DateInit == Init => DateInv
<1>1. Leaps(1969) = 0
  BY DEF Leaps
<1> QED BY <1>1, MonthTable, YearAssumption DEF Init, DateInv, DayNumber

LEMMA NextDayStep ==
    ASSUME DateInv, NextDay
    PROVE  DateInv'
<1> DEFINE y == date.year
           m == date.mon
           d == date.day
<1>1. y \in 1970..LastYear /\ m \in 1..12 /\ d \in 1..31 /\ y \in Nat /\ y >= 1970
  BY YearAssumption DEF DateInv
<1>2. days' = DayNumber(y, m, d) + 1
  BY DEF DateInv, NextDay
<1>3. date = [year |-> y, mon |-> m, day |-> d]
  BY DEF DateInv
<1>4. DaysIn(y, m) \in 28..31
  BY <1>1 DEF DaysIn
<1>5. CASE d < DaysIn(y, m) /\ date' = [date EXCEPT !.day = @ + 1]
  <2>1. date' = [year |-> y, mon |-> m, day |-> d + 1] /\ d + 1 \in 1..31
    BY <1>1, <1>3, <1>4, <1>5
  <2> QED BY <1>1, <1>2, <2>1, DayStep DEF DateInv
<1>6. CASE d = DaysIn(y, m) /\ m < 12 /\ date' = [year |-> y, mon |-> m + 1, day |-> 1]
  <2>1. m + 1 \in 1..12 /\ DayNumber(y, m + 1, 1) = DayNumber(y, m, d) + 1
    BY <1>1, <1>6, DayStep
  <2> QED BY <1>1, <1>2, <1>6, <2>1 DEF DateInv
<1>7. CASE d = 31 /\ m = 12 /\ y < LastYear /\ date' = [year |-> y + 1, mon |-> 1, day |-> 1]
  <2>1. y + 1 \in 1970..LastYear
    BY <1>1, <1>7, YearAssumption
  <2> QED BY <1>1, <1>2, <1>7, <2>1, DayStep DEF DateInv
<1> QED BY <1>5, <1>6, <1>7 DEF NextDay

LEMMA DateInvariant == Spec => []DateInv
<1>1. DateInv /\ [Next]_vars => DateInv'
  <2> SUFFICES ASSUME DateInv, [Next]_vars PROVE DateInv'
    OBVIOUS
  <2>1. CASE NextDay
    BY <2>1, NextDayStep
  <2>2. CASE UNCHANGED dateVars
    BY <2>2 DEF dateVars, DateInv
  <2> QED BY <2>1, <2>2 DEF Next, vars, AddField, StartTokens, TakeToken, SendByte,
            AddCharacter, nmea_tokenizer_init, NextToken
<1> QED BY <1>1, DateInit, PTL DEF Spec

\* mkgmtime is the calendar, for every day that a 32-bit time_t can tell: leap years, the
\* turn of the century that is one and the months that the receiver's two digits can make
\* up beyond the year are counted right, and nothing overflows before 2038.
THEOREM EpochCorrect == Spec => []EpochIsCalendar
<1>1. DateInv => EpochIsCalendar
  <2> SUFFICES ASSUME DateInv PROVE EpochIsCalendar
    OBVIOUS
  <2> DEFINE y == date.year
             m == date.mon
             d == date.day
  <2>1. y \in Int /\ m \in 1..12 /\ d \in Int /\ d <= 31 /\ y <= 2037 /\ y >= 1970
    BY YearAssumption DEF DateInv
  <2>2. days = DayNumber(y, m, d)
    BY DEF DateInv
  <2>3. \A yy \in Int, mm \in 1..12, dd \in Int : \A k \in 0..8 :
           mkgmtime(yy - k, mm + 12 * k, dd) = Midnight(yy, mm, dd)
    BY MkgmtimeIs
  <2>4. PICK yy \in Int, mm \in 1..12, dd \in Int : yy = y /\ mm = m /\ dd = d
    BY <2>1
  <2>5. \A k \in 0..8 : mkgmtime(yy - k, mm + 12 * k, dd) = Midnight(yy, mm, dd)
    BY <2>3, Zenon
  <2>6. Midnight(yy, mm, dd) = 86400 * days
    BY <2>2, <2>4 DEF Midnight
  <2>7. mkgmtime(y, m, d) = 86400 * days
    <3>1. yy - 0 = yy /\ mm + 12 * 0 = mm
      OBVIOUS
    <3>2. mkgmtime(yy - 0, mm + 12 * 0, dd) = Midnight(yy, mm, dd)
      BY <2>5
    <3> QED BY <2>4, <2>6, <3>1, <3>2
  <2>8. m = 12 => mkgmtime(y + 1, 0, d) = 86400 * days
    BY <2>1, <2>2, MonthZero
  <2>9. 86400 * days + 86399 <= 2147483647
    <3>1. m_to_d[m] <= 334 /\ m_to_d[m] \in Int
      BY <2>1, MonthTable
    <3>2. \A x \in 1969..2037 : Leaps(x) <= 17 /\ Leaps(x) \in Int
      BY DEF Leaps
    <3> DEFINE l == Leaps(IF m <= 2 THEN y - 1 ELSE y)
               b == m_to_d[m]
    <3>3. l <= 17 /\ l \in Int
      BY <2>1, <3>2
    <3>4. days = (y - 1970) * 365 + b + l + d - 1
      BY <2>2 DEF DayNumber
    <3> HIDE DEF y, m, d, l, b
    <3>5. days <= 24836 /\ days \in Int
      BY <2>1, <3>1, <3>3, <3>4 DEF b
    <3> QED BY <3>5
  <2>10. \A k \in 0..8 : mkgmtime(date.year - k, date.mon + 12 * k, date.day) = 86400 * days
    BY <2>4, <2>5, <2>6
  <2> QED BY <2>7, <2>8, <2>9, <2>10 DEF EpochIsCalendar
<1> QED BY <1>1, DateInvariant, PTL

---------------------------------------------------------------------------
(* The collection of sentences.                                            *)

\* What r->in holds follows from the bytes since the last newline alone: all of them, or
\* none of them once there were too many or the newline before was the byte too much.
StreamInv ==
    /\ parsed = kept
    /\ swallow \in BOOLEAN /\ overflow \in BOOLEAN
    /\ task = "stream" =>
         /\ sent \in Seq(SentenceChar)
         /\ (overflow <=> swallow \/ Len(sent) > SIZE - 1)
         /\ (overflow => in = <<>>) /\ (~overflow => in = sent)
    /\ task # "stream" => in = <<>>

LEMMA SendByteStep ==
    ASSUME StreamInv, SendByte
    PROVE  StreamInv'
<1>1. PICK c \in {"a", "\n"} :
        /\ nmea_reader_addc(c)
        /\ c = "\n" => /\ sent' = <<>> /\ swallow' \in BOOLEAN
                       /\ (swallow' <=> ~swallow /\ Len(sent) = SIZE - 1)
                       /\ kept' = IF swallow \/ Len(sent) >= SIZE - 1 THEN kept
                                  ELSE Append(kept, sent)
        /\ c # "\n" => sent' = Append(sent, c) /\ UNCHANGED <<kept, swallow>>
  BY DEF SendByte
<1>2. /\ task = "stream" /\ task' = "stream" /\ sent \in Seq(SentenceChar)
      /\ parsed = kept /\ swallow \in BOOLEAN /\ overflow \in BOOLEAN
      /\ (overflow <=> swallow \/ Len(sent) > SIZE - 1)
      /\ (overflow => in = <<>>) /\ (~overflow => in = sent)
  BY DEF StreamInv, SendByte
<1>3. Len(sent) \in Nat /\ SIZE \in Nat /\ SIZE > 1
  BY <1>2, SizeAssumption
<1>4. ~overflow => (Len(in) >= SIZE - 1 <=> Len(sent) = SIZE - 1)
  BY <1>2, <1>3
<1>5. CASE c = "\n"
  <2>1. sent' = <<>> /\ Len(sent') = 0 /\ sent' \in Seq(SentenceChar)
    BY <1>1, <1>5
  <2>2. CASE overflow
    <3>1. ~overflow' /\ overflow' \in BOOLEAN /\ in' = <<>> /\ parsed' = parsed
      BY <1>1, <1>2, <1>5, <2>2 DEF nmea_reader_addc
    <3>2. ~swallow' /\ swallow' \in BOOLEAN /\ kept' = kept
      BY <1>1, <1>2, <1>3, <1>5, <2>2
    <3> QED BY <1>2, <1>3, <2>1, <3>1, <3>2 DEF StreamInv
  <2>3. CASE ~overflow /\ Len(sent) = SIZE - 1
    <3>1. overflow' /\ overflow' \in BOOLEAN /\ in' = <<>> /\ parsed' = parsed
      BY <1>1, <1>2, <1>3, <1>4, <1>5, <2>3 DEF nmea_reader_addc
    <3>2. swallow' /\ swallow' \in BOOLEAN /\ kept' = kept
      BY <1>1, <1>2, <1>3, <1>5, <2>3
    <3> QED BY <1>2, <1>3, <2>1, <3>1, <3>2 DEF StreamInv
  <2>4. CASE ~overflow /\ Len(sent) # SIZE - 1
    <3>1. in = sent /\ ~swallow /\ Len(sent) < SIZE - 1
      BY <1>2, <1>3, <2>4
    <3>2. ~overflow' /\ overflow' \in BOOLEAN /\ in' = <<>> /\ parsed' = Append(parsed, sent)
      BY <1>1, <1>2, <1>3, <1>5, <2>4, <3>1 DEF nmea_reader_addc
    <3>3. ~swallow' /\ swallow' \in BOOLEAN /\ kept' = Append(kept, sent)
      BY <1>1, <1>2, <1>3, <1>5, <2>4, <3>1
    <3> QED BY <1>2, <1>3, <2>1, <3>2, <3>3 DEF StreamInv
  <2> QED BY <2>2, <2>3, <2>4
<1>6. CASE c # "\n"
  <2>1. /\ sent' = Append(sent, c) /\ Len(sent') = Len(sent) + 1 /\ sent' \in Seq(SentenceChar)
        /\ kept' = kept /\ swallow' = swallow
    <3>1. sent' = Append(sent, c) /\ kept' = kept /\ swallow' = swallow
      BY <1>1, <1>6, Zenon
    <3>2. c = "a"
      BY <1>6, Zenon
    <3>3. c \in SentenceChar
      BY <3>2 DEF SentenceChar
    <3> QED BY <1>2, <3>1, <3>3
  <2>2. CASE overflow
    <3>1. overflow' /\ overflow' \in BOOLEAN /\ in' = <<>> /\ parsed' = parsed
      BY <1>1, <1>2, <1>6, <2>2 DEF nmea_reader_addc
    <3> QED BY <1>2, <1>3, <2>1, <2>2, <3>1 DEF StreamInv
  <2>3. CASE ~overflow /\ Len(sent) = SIZE - 1
    <3>1. overflow' /\ overflow' \in BOOLEAN /\ in' = <<>> /\ parsed' = parsed
      BY <1>1, <1>2, <1>3, <1>4, <1>6, <2>3 DEF nmea_reader_addc
    <3> QED BY <1>2, <1>3, <2>1, <2>3, <3>1 DEF StreamInv
  <2>4. CASE ~overflow /\ Len(sent) # SIZE - 1
    <3>1. in = sent /\ ~swallow /\ Len(sent) < SIZE - 1
      BY <1>2, <1>3, <2>4
    <3>2. ~overflow' /\ overflow' \in BOOLEAN /\ in' = sent' /\ parsed' = parsed
      BY <1>1, <1>2, <1>3, <1>6, <2>1, <2>4, <3>1 DEF nmea_reader_addc
    <3> QED BY <1>2, <1>3, <2>1, <3>1, <3>2 DEF StreamInv
  <2> QED BY <2>2, <2>3, <2>4
<1> QED BY <1>5, <1>6

LEMMA StreamInvariant == Spec => []StreamInv
<1>1. Init => StreamInv
  <2> SUFFICES ASSUME Init PROVE StreamInv
    OBVIOUS
  <2>1. sent \in Seq(SentenceChar) /\ Len(sent) = 0 /\ ~(Len(sent) > SIZE - 1) /\ in = sent /\ in = <<>>
    BY SizeAssumption DEF Init
  <2>2. ~swallow /\ ~overflow /\ swallow \in BOOLEAN /\ overflow \in BOOLEAN /\ parsed = kept
    BY Zenon DEF Init
  <2> QED BY <2>1, <2>2, Zenon DEF StreamInv
<1>2. StreamInv /\ [Next]_vars => StreamInv'
  <2> SUFFICES ASSUME StreamInv, [Next]_vars PROVE StreamInv'
    OBVIOUS
  <2>1. CASE SendByte
    BY <2>1, SendByteStep
  <2>2. CASE UNCHANGED <<task, sent, streamVars>>
    BY <2>2 DEF streamVars, StreamInv
  <2>3. CASE task # "stream" /\ task' # "stream" /\ UNCHANGED streamVars
    BY <2>3 DEF streamVars, StreamInv
  <2> QED BY <2>1, <2>2, <2>3 DEF Next, vars, AddField, StartTokens, TakeToken,
            AddCharacter, nmea_tokenizer_init, NextToken, NextDay
<1> QED BY <1>1, <1>2, PTL DEF Spec

\* For every size of r->in and every stream: nmea_reader_addc gives nmea_reader_parse
\* exactly the lines it has room for, whole and in order, but for a line that follows one
\* whose newline was the byte too much, and never writes past r->in.
THEOREM SentencesCorrect == Spec => []WholeSentences
<1>1. StreamInv => WholeSentences
  BY SizeAssumption DEF StreamInv, WholeSentences
<1> QED BY <1>1, StreamInvariant, PTL

---------------------------------------------------------------------------
(* Looking for a character.                                                *)

LEMMA LeastElement ==
    ASSUME NEW T, T \subseteq Nat, NEW j \in T
    PROVE  \E m \in T : \A k \in T : m <= k
<1> DEFINE R == {ss \in Nat \X Nat : ss[1] < ss[2]}
<1>1. IsWellFoundedOn(R, Nat)
  BY NatLessThanWellFounded DEF OpToRel
<1>2. \A y, x \in Nat : y < x => <<y, x>> \in R
  OBVIOUS
<1> HIDE DEF R
<1>3. PICK m \in T : \A k \in T : ~(<<k, m>> \in R)
  BY <1>1, WFMin
<1>4. ASSUME NEW k \in T PROVE m <= k
  <2>1. k \in Nat /\ m \in Nat
    OBVIOUS
  <2>2. ~(k < m)
    BY <1>2, <1>3, <2>1, Zenon
  <2> QED BY <2>1, <2>2
<1> QED BY <1>4

\* FirstIn is what its definition asks for: there is such a place.
LEMMA FirstInIs ==
    ASSUME NEW X, NEW s \in Seq(X), NEW S, NEW i \in 1..(Len(s) + 1)
    PROVE  LET f == FirstIn(s, i, S)
           IN  /\ f \in i..(Len(s) + 1)
               /\ f = Len(s) + 1 \/ s[f] \in S
               /\ \A k \in i..(f - 1) : s[k] \notin S
<1> DEFINE n == Len(s) + 1
           T == {k \in i..n : k = n \/ s[k] \in S}
<1>1. n \in Nat /\ n \in T /\ T \subseteq Nat
  OBVIOUS
<1>2. PICK m \in T : \A k \in T : m <= k
  BY <1>1, LeastElement
<1>3. ASSUME NEW k \in i..(m - 1) PROVE s[k] \notin S
  <2>1. k \in i..n /\ k < m
    BY <1>1
  <2>2. k \notin T
    BY <1>2, <2>1
  <2> QED BY <2>1, <2>2
<1>4. m \in i..n /\ (m = n \/ s[m] \in S)
  OBVIOUS
<1> HIDE DEF T
<1> QED BY <1>3, <1>4 DEF FirstIn

LEMMA FirstInUnique ==
    ASSUME NEW X, NEW s \in Seq(X), NEW S, NEW i \in 1..(Len(s) + 1),
           NEW j \in i..(Len(s) + 1), j = Len(s) + 1 \/ s[j] \in S,
           \A k \in i..(j - 1) : s[k] \notin S
    PROVE  FirstIn(s, i, S) = j
<1> DEFINE f == FirstIn(s, i, S)
<1>1. /\ f \in i..(Len(s) + 1)
      /\ f = Len(s) + 1 \/ s[f] \in S
      /\ \A k \in i..(f - 1) : s[k] \notin S
  BY FirstInIs
<1> HIDE DEF f
<1>2. Len(s) \in Nat
  OBVIOUS
<1>3. ~(f < j)
  BY <1>1, <1>2
<1>4. ~(j < f)
  BY <1>1, <1>2
<1> QED BY <1>1, <1>2, <1>3, <1>4 DEF f

\* A loop over the other characters stops at the same kind of place.
LEMMA FirstNotInUnique ==
    ASSUME NEW X, NEW s \in Seq(X), NEW S, NEW i \in 1..(Len(s) + 1),
           NEW j \in i..(Len(s) + 1), j = Len(s) + 1 \/ s[j] \notin S,
           \A k \in i..(j - 1) : s[k] \in S
    PROVE  FirstNotIn(s, i, S) = j
<1> DEFINE f == FirstNotIn(s, i, S)
<1>1. /\ f \in i..(Len(s) + 1)
      /\ f = Len(s) + 1 \/ s[f] \notin S
      /\ \A k \in i..(f - 1) : s[k] \in S
  BY DEF FirstNotIn
<1> HIDE DEF f
<1>2. Len(s) \in Nat
  OBVIOUS
<1>3. ~(f < j)
  BY <1>1, <1>2
<1>4. ~(j < f)
  BY <1>1, <1>2
<1> QED BY <1>1, <1>2, <1>3, <1>4 DEF f

LEMMA FirstNotInIs ==
    ASSUME NEW X, NEW s \in Seq(X), NEW S, NEW i \in 1..(Len(s) + 1)
    PROVE  LET f == FirstNotIn(s, i, S)
           IN  /\ f \in i..(Len(s) + 1)
               /\ f = Len(s) + 1 \/ s[f] \notin S
               /\ \A k \in i..(f - 1) : s[k] \in S
<1> DEFINE n == Len(s) + 1
           T == {k \in i..n : k = n \/ s[k] \notin S}
<1>1. n \in Nat /\ n \in T /\ T \subseteq Nat
  OBVIOUS
<1>2. PICK m \in T : \A k \in T : m <= k
  BY <1>1, LeastElement
<1>3. ASSUME NEW k \in i..(m - 1) PROVE s[k] \in S
  <2>1. k \in i..n /\ k < m
    BY <1>1
  <2>2. k \notin T
    BY <1>2, <2>1
  <2> QED BY <2>1, <2>2
<1>4. m \in i..n /\ (m = n \/ s[m] \notin S)
  OBVIOUS
<1> HIDE DEF T
<1> QED BY <1>3, <1>4 DEF FirstNotIn

---------------------------------------------------------------------------
(* The fields of a sentence.                                               *)

LEMMA EndInSentence ==
    ASSUME NEW s \in Seq(SentenceChar), NEW i \in 1..(Len(s) + 1)
    PROVE  EndOfSentence(s, i) \in i..(Len(s) + 1)
<1>1. Len(s) \in Nat
  OBVIOUS
<1> QED BY <1>1 DEF EndOfSentence

\* The loop's q: the next comma before end, or end.
LEMMA NextComma ==
    ASSUME NEW s \in Seq(SentenceChar), NEW e \in 1..(Len(s) + 1), NEW i \in 1..e
    PROVE  LET q == FirstIn(Text(s, 1, e), i, {Comma})
           IN  /\ q \in i..e
               /\ q = e \/ s[q] = Comma
               /\ \A k \in i..(q - 1) : s[k] # Comma
<1> DEFINE t == Text(s, 1, e)
           q == FirstIn(t, i, {Comma})
<1>1. Len(s) \in Nat /\ \A k \in 1..(e - 1) : s[k] \in SentenceChar
  OBVIOUS
<1>2. t \in Seq(SentenceChar) /\ Len(t) = e - 1 /\ \A k \in 1..(e - 1) : t[k] = s[k]
  <2>1. e - 1 - 1 + 1 = e - 1 /\ (\A k \in 1..(e - 1) : 1 + k - 1 = k) /\ e - 1 \in Int /\ 1 \in Int
    BY <1>1
  <2>2. /\ t \in Seq(SentenceChar) /\ Len(t) = IF 1 <= e - 1 THEN e - 1 - 1 + 1 ELSE 0
        /\ \A k \in 1..(e - 1 - 1 + 1) : t[k] = s[1 + k - 1]
    BY <1>1, <2>1, SubSeqProperties DEF Text
  <2> QED BY <1>1, <2>1, <2>2
<1> HIDE DEF t
<1>3. /\ q \in i..(Len(t) + 1)
      /\ q = Len(t) + 1 \/ t[q] \in {Comma}
      /\ \A k \in i..(q - 1) : t[k] \notin {Comma}
  <2>1. i \in 1..(Len(t) + 1)
    BY <1>1, <1>2
  <2> QED BY <1>2, <2>1, FirstInIs
<1> HIDE DEF q
<1>4. q \in i..e /\ (q = e \/ s[q] = Comma) /\ \A k \in i..(q - 1) : s[k] # Comma
  BY <1>1, <1>2, <1>3
<1> QED BY <1>4 DEF q, t

\* Commas counts: it does not change over a field and goes up by one at a comma.
CommasIn(s, f, i) == Cardinality({k \in f..(i - 1) : s[k] = Comma})

LEMMA CommasCount ==
    ASSUME NEW s, NEW f \in Int, NEW i \in Int, NEW q \in Int, f <= i, i <= q,
           \A k \in i..(q - 1) : s[k] # Comma
    PROVE  /\ CommasIn(s, f, i) \in Nat
           /\ CommasIn(s, f, f) = 0
           /\ CommasIn(s, f, q) = CommasIn(s, f, i)
           /\ s[q] = Comma => CommasIn(s, f, q + 1) = CommasIn(s, f, i) + 1
<1> DEFINE A == {k \in f..(i - 1) : s[k] = Comma}
           B == {k \in f..(q - 1) : s[k] = Comma}
           D == {k \in f..(q + 1 - 1) : s[k] = Comma}
           Z == {k \in f..(f - 1) : s[k] = Comma}
<1>1. IsFiniteSet(A) /\ Cardinality(A) \in Nat
  <2>1. IsFiniteSet(f..(i - 1))
    <3>1. i - 1 \in Int
      OBVIOUS
    <3> QED BY <3>1, FS_Interval
  <2>2. A \in SUBSET (f..(i - 1))
    OBVIOUS
  <2> HIDE DEF A
  <2> QED BY <2>1, <2>2, FS_Subset, FS_CardinalityType
<1>2. Z = {}
  OBVIOUS
<1>3. B = A
  OBVIOUS
<1>4. s[q] = Comma => D = A \cup {q} /\ q \notin A
  OBVIOUS
<1>5. /\ CommasIn(s, f, i) = Cardinality(A) /\ CommasIn(s, f, f) = Cardinality(Z)
      /\ CommasIn(s, f, q) = Cardinality(B) /\ CommasIn(s, f, q + 1) = Cardinality(D)
  BY DEF CommasIn
<1> HIDE DEF A, B, D, Z
<1>6. s[q] = Comma => Cardinality(D) = Cardinality(A) + 1
  BY <1>1, <1>4, FS_AddElement
<1> QED BY <1>1, <1>2, <1>3, <1>5, <1>6, FS_EmptySet

\* A field begins at i, and goes from a to b.
BeginsAt(s, f, i) == i = f \/ s[i - 1] = Comma
FieldIn(s, f, e, a, b) ==
    BeginsAt(s, f, a) /\ (b = e \/ s[b] = Comma) /\ \A k \in a..(b - 1) : s[k] # Comma

\* Each token is the field that its number says.
TokensOf(s, f, e, t) ==
    \A n \in 1..Len(t) :
        /\ t[n].p \in f..e /\ t[n].end \in t[n].p..e
        /\ FieldIn(s, f, e, t[n].p, t[n].end) /\ CommasIn(s, f, t[n].p) = n - 1

AtMost(n, max) == IF n < max THEN n ELSE max

\* The loop stands where a field begins, and has cut the fields before it; or it stands at
\* the end and the last field, which had characters, is cut too.
CutInv ==
    /\ task \in {"sentence", "cut"} => sent \in Seq(SentenceChar)
    /\ task = "sentence" => tokens = <<>>
    /\ task = "cut" =>
         /\ first \in 1..(Len(sent) + 1) /\ end \in first..(Len(sent) + 1) /\ p \in first..end
         /\ tokens \in Seq([p : Int, end : Int])
         /\ TokensOf(sent, first, end, tokens)
         /\ \/ /\ BeginsAt(sent, first, p)
               /\ Len(tokens) = AtMost(CommasIn(sent, first, p), MAX_NMEA_TOKENS)
            \/ /\ p = end
               /\ Len(tokens) = AtMost(CommasIn(sent, first, p) + 1, MAX_NMEA_TOKENS)

LEMMA TokenizerInitStep ==
    ASSUME CutInv, nmea_tokenizer_init
    PROVE  CutInv'
<1>1. sent \in Seq(SentenceChar) /\ sent' = sent /\ task' = "cut" /\ tokens' = <<>>
  BY DEF CutInv, nmea_tokenizer_init
<1>2. Len(sent) \in Nat
  BY <1>1
<1>3. first' \in 1..(Len(sent) + 1) /\ p' = first' /\ end' = EndOfSentence(sent, first')
  BY <1>1, <1>2 DEF nmea_tokenizer_init
<1>4. end' \in first'..(Len(sent) + 1)
  BY <1>1, <1>3, EndInSentence
<1>5. BeginsAt(sent', first', p')
  BY <1>3 DEF BeginsAt
<1>6. CommasIn(sent', first', p') = 0
  <2>1. PICK f \in Int : f = first'
    BY <1>2, <1>3
  <2>2. f <= f /\ \A k \in f..(f - 1) : sent[k] # Comma
    OBVIOUS
  <2>3. CommasIn(sent, f, f) = 0
    BY <2>2, CommasCount
  <2> QED BY <1>1, <1>3, <2>1, <2>3
<1>7. Len(tokens') = 0 /\ tokens' \in Seq([p : Int, end : Int])
  BY <1>1
<1>8. AtMost(0, MAX_NMEA_TOKENS) = 0
  BY SizeAssumption DEF AtMost
<1>9. TokensOf(sent', first', end', tokens')
  BY <1>7 DEF TokensOf
<1>10. p' \in first'..end'
  BY <1>3, <1>4
<1> QED BY <1>1, <1>3, <1>4, <1>5, <1>6, <1>7, <1>8, <1>9, <1>10 DEF CutInv

LEMMA NextTokenStep ==
    ASSUME CutInv, NextToken
    PROVE  CutInv'
<1> DEFINE q == FirstIn(Text(sent, 1, end), p, {Comma})
           c == CommasIn(sent, first, p)
           new == [p |-> p, end |-> q]
<1>1. /\ task = "cut" /\ task' = "cut" /\ sent' = sent /\ first' = first /\ end' = end
      /\ sent \in Seq(SentenceChar)
      /\ first \in 1..(Len(sent) + 1) /\ end \in first..(Len(sent) + 1) /\ p \in first..end
      /\ p < end /\ tokens \in Seq([p : Int, end : Int])
      /\ TokensOf(sent, first, end, tokens)
  BY DEF CutInv, NextToken
<1>2. /\ tokens' = IF Len(tokens) < MAX_NMEA_TOKENS THEN Append(tokens, new) ELSE tokens
      /\ p' = IF q < end THEN q + 1 ELSE q
  BY DEF NextToken, CutToken
<1>3. /\ Len(sent) \in Nat /\ p \in Int /\ first \in Int /\ end \in Int /\ first <= p
      /\ MAX_NMEA_TOKENS \in Nat
  BY <1>1, SizeAssumption
<1>4. BeginsAt(sent, first, p) /\ Len(tokens) = AtMost(c, MAX_NMEA_TOKENS)
  BY <1>1, <1>3 DEF CutInv
<1>5. q \in p..end /\ (q = end \/ sent[q] = Comma) /\ \A k \in p..(q - 1) : sent[k] # Comma
  <2>1. end \in 1..(Len(sent) + 1) /\ p \in 1..end
    BY <1>1, <1>3
  <2> QED BY <1>1, <2>1, NextComma
<1> HIDE DEF q
<1>6. /\ c \in Nat /\ CommasIn(sent, first, q) = c
      /\ sent[q] = Comma => CommasIn(sent, first, q + 1) = c + 1
  <2>1. q \in Int /\ p <= q
    BY <1>3, <1>5
  <2> QED BY <1>3, <1>5, <2>1, CommasCount
<1> HIDE DEF c
<1>7. Len(tokens') = AtMost(c + 1, MAX_NMEA_TOKENS) /\ tokens' \in Seq([p : Int, end : Int])
  <2>1. new \in [p : Int, end : Int]
    BY <1>3, <1>5
  <2> HIDE DEF new
  <2>2. Len(tokens) \in Nat
    BY <1>1
  <2>3. CASE Len(tokens) < MAX_NMEA_TOKENS
    <3>1. tokens' = Append(tokens, new) /\ Len(tokens) = c
      BY <1>2, <1>3, <1>4, <1>6, <2>3 DEF AtMost
    <3>2. Len(tokens') = Len(tokens) + 1 /\ tokens' \in Seq([p : Int, end : Int])
      BY <1>1, <2>1, <3>1, AppendProperties
    <3> QED BY <1>3, <1>6, <2>3, <3>1, <3>2 DEF AtMost
  <2>4. CASE ~(Len(tokens) < MAX_NMEA_TOKENS)
    BY <1>1, <1>2, <1>3, <1>4, <1>6, <2>2, <2>4 DEF AtMost
  <2> QED BY <2>3, <2>4
<1>8. TokensOf(sent, first, end, tokens')
  <2>1. FieldIn(sent, first, end, p, q)
    BY <1>4, <1>5 DEF FieldIn
  <2>2. CASE Len(tokens) < MAX_NMEA_TOKENS
    <3>1. Len(tokens) = c /\ tokens' = Append(tokens, new)
      BY <1>2, <1>3, <1>4, <1>6, <2>2 DEF AtMost
    <3>2. Len(tokens) \in Nat /\ new \in [p : Int, end : Int] /\ new.p = p /\ new.end = q
      BY <1>1, <1>3, <1>5
    <3> HIDE DEF new
    <3>3. /\ Len(tokens') = Len(tokens) + 1 /\ tokens'[Len(tokens) + 1] = new
          /\ \A n \in 1..Len(tokens) : tokens'[n] = tokens[n]
      BY <1>1, <3>1, <3>2, AppendProperties
    <3> SUFFICES ASSUME NEW n \in 1..Len(tokens')
                 PROVE  /\ tokens'[n].p \in first..end /\ tokens'[n].end \in tokens'[n].p..end
                        /\ FieldIn(sent, first, end, tokens'[n].p, tokens'[n].end)
                        /\ CommasIn(sent, first, tokens'[n].p) = n - 1
      BY DEF TokensOf
    <3>4. CASE n \in 1..Len(tokens)
      BY <1>1, <3>3, <3>4 DEF TokensOf
    <3>5. CASE n = Len(tokens) + 1
      <4>1. c = n - 1
        BY <1>6, <3>1, <3>5
      <4> QED BY <1>1, <1>5, <2>1, <3>2, <3>3, <3>5, <4>1 DEF c
    <3> QED BY <3>2, <3>3, <3>4, <3>5
  <2>3. CASE ~(Len(tokens) < MAX_NMEA_TOKENS)
    BY <1>1, <1>2, <2>3
  <2> QED BY <2>2, <2>3
<1>9. CASE q < end
  <2>1. p' = q + 1 /\ sent[q] = Comma /\ p' \in first..end /\ p' - 1 = q
    BY <1>1, <1>2, <1>3, <1>5, <1>9
  <2>2. BeginsAt(sent, first, p') /\ CommasIn(sent, first, p') = c + 1
    BY <1>6, <2>1 DEF BeginsAt
  <2> QED BY <1>1, <1>7, <1>8, <2>1, <2>2 DEF CutInv
<1>10. CASE q = end
  <2>1. p' = end /\ p' \in first..end /\ CommasIn(sent, first, p') = c
    BY <1>1, <1>2, <1>3, <1>5, <1>6, <1>10
  <2> QED BY <1>1, <1>7, <1>8, <2>1 DEF CutInv
<1> QED BY <1>3, <1>5, <1>9, <1>10

LEMMA CutInvariant == Spec => []CutInv
<1>1. Init => CutInv
  BY DEF Init, CutInv
<1>2. CutInv /\ [Next]_vars => CutInv'
  <2> SUFFICES ASSUME CutInv, [Next]_vars PROVE CutInv'
    OBVIOUS
  <2>1. CASE nmea_tokenizer_init
    BY <2>1, TokenizerInitStep
  <2>2. CASE NextToken
    BY <2>2, NextTokenStep
  <2>3. CASE AddCharacter
    <3>1. PICK c \in SentenceChar : sent' = Append(sent, c)
      BY <2>3 DEF AddCharacter
    <3>2. /\ task = "sentence" /\ task' = task /\ sent \in Seq(SentenceChar)
          /\ tokens = <<>> /\ tokens' = tokens
      BY <2>3 DEF AddCharacter, CutInv, cutVars
    <3> QED BY <3>1, <3>2 DEF CutInv
  <2>4. CASE UNCHANGED <<task, sent, cutVars>>
    BY <2>4 DEF cutVars, CutInv
  <2>5. CASE task \notin {"sentence", "cut"} /\ task' \notin {"sentence", "cut"}
    BY <2>5 DEF CutInv
  <2> QED BY <2>1, <2>2, <2>3, <2>4, <2>5 DEF Next, vars, AddField, StartTokens, TakeToken,
            SendByte, NextDay
<1> QED BY <1>1, <1>2, PTL DEF Spec

\* For every MAX_NMEA_TOKENS and every sentence, with or without $, newline and checksum:
\* token i is field i, where a field is what the commas say, empty ones included; past
\* the last field and past MAX_NMEA_TOKENS nmea_tokenizer_get gives the empty token.
THEOREM TokenizerCorrect == Spec => []FieldsAreSplit
<1>1. CutInv => FieldsAreSplit
  <2> SUFFICES ASSUME CutInv, task = "cut", p = end, NEW i \in 0..(MAX_NMEA_TOKENS + 1)
               PROVE  IF i < MAX_NMEA_TOKENS /\ i <= Commas(end)
                      THEN \E a \in first..end : \E b \in a..end :
                              /\ IsField(a, b) /\ Commas(a) = i
                              /\ nmea_tokenizer_get(i) = Text(sent, a, b)
                      ELSE nmea_tokenizer_get(i) = <<>>
    BY DEF FieldsAreSplit
  <2> DEFINE c == CommasIn(sent, first, end)
  <2>1. /\ sent \in Seq(SentenceChar)
        /\ first \in 1..(Len(sent) + 1) /\ end \in first..(Len(sent) + 1)
        /\ tokens \in Seq([p : Int, end : Int])
        /\ TokensOf(sent, first, end, tokens)
        /\ \/ BeginsAt(sent, first, end) /\ Len(tokens) = AtMost(c, MAX_NMEA_TOKENS)
           \/ Len(tokens) = AtMost(c + 1, MAX_NMEA_TOKENS)
    BY DEF CutInv
  <2>2. \A x : Commas(x) = CommasIn(sent, first, x)
    BY DEF Commas, CommasIn
  <2>3. \A a, b : IsField(a, b) <=> FieldIn(sent, first, end, a, b)
    BY DEF IsField, FieldIn, BeginsAt
  <2>4. /\ Len(sent) \in Nat /\ Len(tokens) \in Nat /\ MAX_NMEA_TOKENS \in Nat
        /\ first \in Int /\ end \in Int /\ first <= end /\ i \in Nat
    BY <2>1, SizeAssumption
  <2>5. c \in Nat
    <3>1. \A k \in end..(end - 1) : sent[k] # Comma
      BY <2>4
    <3> QED BY <2>4, <3>1, CommasCount
  <2> HIDE DEF c
  <2>6. CASE i < Len(tokens)
    <3>1. i + 1 \in 1..Len(tokens) /\ i + 1 - 1 = i /\ i \in 0..(Len(tokens) - 1)
      BY <2>4, <2>6
    <3> DEFINE a == tokens[i + 1].p
               b == tokens[i + 1].end
    <3>2. /\ a \in first..end /\ b \in a..end /\ IsField(a, b) /\ Commas(a) = i
      BY <2>1, <2>2, <2>3, <3>1 DEF TokensOf
    <3>3. nmea_tokenizer_get(i) = Text(sent, a, b)
      BY <3>1 DEF nmea_tokenizer_get
    <3>4. i < MAX_NMEA_TOKENS /\ i <= c
      BY <2>1, <2>4, <2>5, <2>6 DEF AtMost
    <3>5. Commas(end) = c
      BY <2>2 DEF c
    <3> HIDE DEF a, b
    <3> QED BY <3>2, <3>3, <3>4, <3>5
  <2>7. CASE ~(i < Len(tokens))
    <3>1. nmea_tokenizer_get(i) = <<>>
      BY <2>4, <2>7 DEF nmea_tokenizer_get
    <3>2. ASSUME i < MAX_NMEA_TOKENS, i <= Commas(end)
          PROVE  \E a \in first..end : \E b \in a..end :
                    /\ IsField(a, b) /\ Commas(a) = i
                    /\ nmea_tokenizer_get(i) = Text(sent, a, b)
      <4>1. Commas(end) = c
        BY <2>2 DEF c
      <4>2. i = c /\ BeginsAt(sent, first, end)
        BY <2>1, <2>4, <2>5, <2>7, <3>2, <4>1 DEF AtMost
      <4>3. IsField(end, end)
        BY <2>3, <2>4, <4>2 DEF FieldIn
      <4>4. Text(sent, end, end) = <<>>
        BY <2>4, SubSeqEmpty DEF Text
      <4>5. end \in first..end /\ end \in end..end
        BY <2>4
      <4> QED BY <3>1, <4>1, <4>2, <4>3, <4>4, <4>5
    <3> QED BY <3>1, <3>2
  <2> QED BY <2>6, <2>7
<1> QED BY <1>1, CutInvariant, PTL

---------------------------------------------------------------------------
(* The tokens of a response line.                                          *)

LEMMA Characters ==
    /\ Comma # Quote /\ Comma \notin Space /\ Quote \notin Space /\ Plus # Colon
    /\ \A c \in Digits : c \notin Space
BY Zenon DEF Comma, Quote, Space, Plus, Colon, Digits

\* The same n characters at i of s and at u of t make the same text.
SameAt(s, i, t, u, n) == \A k \in 0..(n - 1) : s[i + k] = t[u + k]

LEMMA TextEqual ==
    ASSUME NEW X, NEW s \in Seq(X), NEW t \in Seq(X), NEW i \in Nat \ {0}, NEW u \in Nat \ {0},
           NEW n \in Nat, i + n <= Len(s) + 1, u + n <= Len(t) + 1,
           SameAt(s, i, t, u, n)
    PROVE  Text(s, i, i + n) = Text(t, u, u + n) /\ Text(s, i, i + n) \in Seq(X)
<1>1. PICK v \in Int, w \in Int : v = i + n - 1 /\ w = u + n - 1
  OBVIOUS
<1> DEFINE a == SubSeq(s, i, v)
           b == SubSeq(t, u, w)
<1>2. /\ i \in Int /\ u \in Int
      /\ \A k \in i..v : s[k] \in X
      /\ \A k \in u..w : t[k] \in X
  BY <1>1
<1>3. /\ a \in Seq(X) /\ Len(a) = IF i <= v THEN v - i + 1 ELSE 0
      /\ \A k \in 1..(v - i + 1) : a[k] = s[i + k - 1]
  BY <1>2, SubSeqProperties
<1>4. /\ b \in Seq(X) /\ Len(b) = IF u <= w THEN w - u + 1 ELSE 0
      /\ \A k \in 1..(w - u + 1) : b[k] = t[u + k - 1]
  BY <1>2, SubSeqProperties
<1>5. Text(s, i, i + n) = a /\ Text(t, u, u + n) = b
  BY <1>1 DEF Text
<1> HIDE DEF a, b
<1>6. Len(a) = n /\ Len(b) = n
  BY <1>1, <1>3, <1>4
<1>7. ASSUME NEW k \in 1..n PROVE a[k] = b[k]
  <2>1. a[k] = s[i + k - 1] /\ b[k] = t[u + k - 1]
    <3>1. k \in 1..(v - i + 1) /\ k \in 1..(w - u + 1)
      BY <1>1
    <3>2. a[k] = s[i + k - 1]
      BY <1>3, <3>1, Zenon
    <3>3. b[k] = t[u + k - 1]
      BY <1>4, <3>1, Zenon
    <3> QED BY <3>2, <3>3
  <2>2. k - 1 \in 0..(n - 1) /\ i + (k - 1) = i + k - 1 /\ u + (k - 1) = u + k - 1
    OBVIOUS
  <2>3. s[i + (k - 1)] = t[u + (k - 1)]
    BY <2>2 DEF SameAt
  <2> QED BY <2>1, <2>2, <2>3
<1>8. a = b
  BY <1>3, <1>4, <1>6, <1>7, SeqEqual
<1> QED BY <1>3, <1>5, <1>8

LEMMA WholeText ==
    ASSUME NEW X, NEW s \in Seq(X)
    PROVE  Text(s, 1, Len(s) + 1) = s
<1>1. PICK n \in Nat : n = Len(s)
  OBVIOUS
<1>2. n + 1 - 1 = n /\ 1 \in Int /\ n \in Int /\ n - 1 + 1 = n /\ \A k \in 1..n : 1 + k - 1 = k
  OBVIOUS
<1>3. \A k \in 1..n : s[k] \in X
  BY <1>1
<1> DEFINE a == SubSeq(s, 1, n)
<1>4. /\ a \in Seq(X) /\ Len(a) = IF 1 <= n THEN n - 1 + 1 ELSE 0
      /\ \A k \in 1..(n - 1 + 1) : a[k] = s[1 + k - 1]
  BY <1>2, <1>3, SubSeqProperties
<1> HIDE DEF a
<1>5. Len(a) = Len(s) /\ \A k \in 1..Len(s) : a[k] = s[k]
  BY <1>1, <1>2, <1>4
<1>6. a = s
  BY <1>4, <1>5, SeqEqual
<1> QED BY <1>1, <1>2, <1>6 DEF a, Text

\* How a field is written.
LEMMA FieldText ==
    ASSUME NEW f \in Fields
    PROVE  /\ f.text \in Seq(Char) /\ Len(f.text) \in Nat /\ f.quoted \in BOOLEAN
           /\ Written(f) \in Seq(Char) /\ Len(Written(f)) \in Nat
           /\ ~f.quoted => Written(f) = f.text
           /\ f.quoted => /\ Len(Written(f)) = Len(f.text) + 2
                          /\ Written(f)[1] = Quote /\ Written(f)[Len(f.text) + 2] = Quote
                          /\ \A k \in 1..Len(f.text) : Written(f)[k + 1] = f.text[k]
<1>1. f.text \in Seq(Char) /\ f.quoted \in BOOLEAN /\ Quote \in Char
  <2>1. f \in [quoted : BOOLEAN, text : Seq(Char)]
    BY FieldsAssumption
  <2> QED BY <2>1, CharAssumption
<1>2. Len(f.text) \in Nat
  BY <1>1
<1>3. CASE ~f.quoted
  <2>1. Written(f) = f.text
    BY <1>3 DEF Written
  <2> QED BY <1>1, <1>2, <1>3, <2>1
<1>4. CASE f.quoted
  <2> DEFINE t == f.text
             a == <<Quote>> \o t
  <2>1. t \in Seq(Char) /\ Len(t) \in Nat /\ Written(f) = a \o <<Quote>>
    BY <1>1, <1>2, <1>4 DEF Written
  <2> HIDE DEF t
  <2>2. <<Quote>> \in Seq(Char) /\ Len(<<Quote>>) = 1 /\ <<Quote>>[1] = Quote
    BY <1>1
  <2>3. /\ a \in Seq(Char) /\ Len(a) = 1 + Len(t)
        /\ \A k \in 1..(1 + Len(t)) : a[k] = IF k <= 1 THEN <<Quote>>[k] ELSE t[k - 1]
    BY <2>1, <2>2, ConcatProperties
  <2> HIDE DEF a
  <2>4. /\ Written(f) \in Seq(Char) /\ Len(Written(f)) = 1 + Len(t) + 1
        /\ \A k \in 1..(1 + Len(t) + 1) :
              Written(f)[k] = IF k <= 1 + Len(t) THEN a[k] ELSE <<Quote>>[k - (1 + Len(t))]
    BY <2>1, <2>2, <2>3, ConcatProperties
  <2>5. Written(f)[1] = Quote
    BY <2>1, <2>2, <2>3, <2>4
  <2>6. Written(f)[Len(t) + 2] = Quote
    <3>1. Len(t) + 2 \in 1..(1 + Len(t) + 1) /\ ~(Len(t) + 2 <= 1 + Len(t)) /\ Len(t) + 2 - (1 + Len(t)) = 1
      BY <2>1
    <3> QED BY <2>2, <2>4, <3>1
  <2>7. ASSUME NEW k \in 1..Len(t) PROVE Written(f)[k + 1] = t[k]
    <3>1. /\ k + 1 \in 1..(1 + Len(t) + 1) /\ k + 1 <= 1 + Len(t) /\ k + 1 \in 1..(1 + Len(t))
          /\ ~(k + 1 <= 1) /\ k + 1 - 1 = k
      BY <2>1
    <3> QED BY <2>3, <2>4, <3>1
  <2>8. Len(Written(f)) = Len(t) + 2
    BY <2>1, <2>4
  <2> QED BY <1>1, <1>2, <1>4, <2>4, <2>5, <2>6, <2>7, <2>8 DEF t
<1> QED BY <1>1, <1>3, <1>4

\* A field is at b of a line, up to e, where a comma or the end of the line follows.
FieldAt(s, f, b, e) ==
    /\ b \in 1..(Len(s) + 1) /\ e \in b..(Len(s) + 1) /\ e = b + Len(Written(f))
    /\ \A k \in 1..Len(Written(f)) : s[b + k - 1] = Written(f)[k]
    /\ e = Len(s) + 1 \/ s[e] = Comma

\* What nextTok does there.
Taken(s, f, b, e) ==
    /\ nextTok(s, b).tok = <<Meant(f)>>
    /\ e <= Len(s) => nextTok(s, b).cur = e + 1
    /\ e = Len(s) + 1 => nextTok(s, b).cur \in {NULL, e}

LEMMA PlainToken ==
    ASSUME NEW s \in Seq(Char), NEW f \in Fields, NEW b, NEW e, FieldAt(s, f, b, e), ~f.quoted
    PROVE  Taken(s, f, b, e) /\ Meant(f) \in Seq(Char)
<1> DEFINE t == f.text
           g == skipWhiteSpace(t, 1)
<1>1. /\ t \in Seq(Char) /\ Len(t) \in Nat /\ Written(f) = t
      /\ Len(s) \in Nat
      /\ Meant(f) = Text(t, g, Len(t) + 1)
  BY FieldText DEF Meant
<1>2. \A k \in 1..Len(t) : t[k] # Comma /\ (t[k] = Quote => \E l \in 1..(k - 1) : t[l] \notin Space)
  BY FieldsAssumption
<1> HIDE DEF t
<1>3. /\ b \in 1..(Len(s) + 1) /\ e \in b..(Len(s) + 1) /\ e = b + Len(t)
      /\ \A k \in 1..Len(t) : s[b + k - 1] = t[k]
      /\ e = Len(s) + 1 \/ s[e] = Comma
  BY <1>1 DEF FieldAt
<1>4. /\ g \in 1..(Len(t) + 1)
      /\ g = Len(t) + 1 \/ t[g] \notin Space
      /\ \A k \in 1..(g - 1) : t[k] \in Space
  <2>1. 1 \in 1..(Len(t) + 1)
    BY <1>1
  <2> QED BY <1>1, <2>1, FirstNotInIs DEF skipWhiteSpace
<1> HIDE DEF g
<1>5. \A k \in b..(e - 1) : k - b + 1 \in 1..Len(t) /\ s[k] = t[k - b + 1]
  <2> SUFFICES ASSUME NEW k \in b..(e - 1) PROVE k - b + 1 \in 1..Len(t) /\ s[k] = t[k - b + 1]
    OBVIOUS
  <2>1. k - b + 1 \in 1..Len(t) /\ b + (k - b + 1) - 1 = k
    BY <1>1, <1>3
  <2>2. s[b + (k - b + 1) - 1] = t[k - b + 1]
    BY <1>3, <2>1
  <2> QED BY <2>1, <2>2
<1> DEFINE j == b + g - 1
<1>6. j \in b..e /\ j \in 1..(Len(s) + 1) /\ j - b + 1 = g /\ (j = e <=> g = Len(t) + 1)
  <2>1. /\ b \in Int /\ e \in Int /\ g \in Int /\ Len(t) \in Int /\ Len(s) \in Int
        /\ 1 <= b /\ e = b + Len(t) /\ e <= Len(s) + 1 /\ 1 <= g /\ g <= Len(t) + 1
    BY <1>1, <1>3, <1>4
  <2> QED BY <2>1
<1>7. (j = Len(s) + 1 \/ s[j] \notin Space) /\ (j <= Len(s) => s[j] # Quote)
  <2>1. CASE j = e
    BY <1>1, <1>3, <2>1, Characters
  <2>2. CASE j # e
    <3>1. j \in b..(e - 1) /\ g \in 1..Len(t)
      BY <1>1, <1>3, <1>4, <1>6, <2>2
    <3>2. s[j] = t[g] /\ t[g] \notin Space
      BY <1>4, <1>5, <1>6, <2>2, <3>1
    <3>3. t[g] # Quote
      BY <1>2, <1>4, <3>1
    <3> QED BY <3>2, <3>3
  <2> QED BY <2>1, <2>2
<1>8. \A k \in b..(j - 1) : s[k] \in Space
  <2> SUFFICES ASSUME NEW k \in b..(j - 1) PROVE s[k] \in Space
    OBVIOUS
  <2>1. k \in b..(e - 1) /\ k - b + 1 \in 1..(g - 1)
    <3>1. b \in Int /\ e \in Int /\ g \in Int /\ j \in Int /\ j <= e /\ j - b + 1 = g
      BY <1>1, <1>3, <1>4, <1>6
    <3> QED BY <3>1
  <2> QED BY <1>4, <1>5, <2>1
<1> HIDE DEF j
<1>9. skipWhiteSpace(s, b) = j
  <2>1. /\ b \in 1..(Len(s) + 1) /\ j \in b..(Len(s) + 1)
        /\ j = Len(s) + 1 \/ s[j] \notin Space
        /\ \A k \in b..(j - 1) : s[k] \in Space
    BY <1>1, <1>3, <1>6, <1>7, <1>8
  <2> QED BY <2>1, FirstNotInUnique DEF skipWhiteSpace
<1>10. FirstIn(s, j, {Comma}) = e
  <2>1. \A k \in j..(e - 1) : s[k] \notin {Comma}
    <3> SUFFICES ASSUME NEW k \in j..(e - 1) PROVE s[k] # Comma
      OBVIOUS
    <3>1. k \in b..(e - 1)
      BY <1>1, <1>3, <1>6
    <3> QED BY <1>2, <1>5, <3>1
  <2>2. e \in j..(Len(s) + 1) /\ (e = Len(s) + 1 \/ s[e] \in {Comma})
    BY <1>1, <1>3, <1>6
  <2> QED BY <1>6, <2>1, <2>2, FirstInUnique
<1>11. Text(s, j, e) = Meant(f) /\ Meant(f) \in Seq(Char)
  <2>1. PICK n \in Nat : n = e - j
    BY <1>1, <1>3, <1>6
  <2>2. /\ j \in Nat \ {0} /\ g \in Nat \ {0}
        /\ j + n = e /\ g + n = Len(t) + 1 /\ j + n <= Len(s) + 1 /\ g + n <= Len(t) + 1
    <3>1. /\ j \in Int /\ g \in Int /\ b \in Int /\ e \in Int /\ Len(t) \in Nat /\ Len(s) \in Nat
          /\ j >= b /\ b >= 1 /\ j - b + 1 = g /\ e = b + Len(t) /\ e <= Len(s) + 1 /\ g >= 1
      BY <1>1, <1>3, <1>4, <1>6
    <3> QED BY <2>1, <3>1
  <2>3. \A k \in 0..(n - 1) : s[j + k] = t[g + k]
    <3> SUFFICES ASSUME NEW k \in 0..(n - 1) PROVE s[j + k] = t[g + k]
      OBVIOUS
    <3>1. j + k \in b..(e - 1) /\ j + k - b + 1 = g + k
      BY <1>1, <1>3, <1>4, <1>6, <2>1, <2>2
    <3>2. PICK m \in b..(e - 1) : m = j + k
      BY <3>1
    <3>3. s[m] = t[m - b + 1]
      BY <1>5
    <3>4. m - b + 1 = g + k
      <4>1. b \in Int /\ j \in Int /\ g \in Int /\ m \in Int /\ k \in Int
        BY <1>1, <1>3, <1>6, <2>2
      <4> QED BY <3>1, <3>2, <4>1
    <3>5. s[m] = t[g + k]
      BY <3>3, <3>4, Zenon
    <3> QED BY <3>2, <3>5, Zenon
  <2>4. SameAt(s, j, t, g, n)
    BY <2>3 DEF SameAt
  <2>5. Text(s, j, j + n) = Text(t, g, g + n) /\ Text(s, j, j + n) \in Seq(Char)
    BY <1>1, <2>2, <2>4, TextEqual
  <2> QED BY <1>1, <2>2, <2>5
<1>12. nextTok(s, b) = strsep(s, j, Comma)
  <2>1. b # NULL
    BY <1>1, <1>3 DEF NULL
  <2> QED BY <1>7, <1>9, <2>1 DEF nextTok
<1>13. nextTok(s, b) = [tok |-> <<Meant(f)>>, cur |-> IF e > Len(s) THEN NULL ELSE e + 1]
  BY <1>10, <1>11, <1>12 DEF strsep
<1> QED BY <1>1, <1>3, <1>11, <1>13 DEF Taken

LEMMA QuotedToken ==
    ASSUME NEW s \in Seq(Char), NEW f \in Fields, NEW b, NEW e, FieldAt(s, f, b, e), f.quoted
    PROVE  Taken(s, f, b, e) /\ Meant(f) \in Seq(Char)
<1> DEFINE t == f.text
           w == Written(f)
<1>1. /\ t \in Seq(Char) /\ Len(t) \in Nat /\ Len(s) \in Nat /\ Meant(f) = t
      /\ Len(w) = Len(t) + 2 /\ w[1] = Quote /\ w[Len(t) + 2] = Quote
      /\ \A k \in 1..Len(t) : w[k + 1] = t[k]
  <2>1. Len(s) \in Nat /\ Meant(f) = t
    BY DEF Meant
  <2>2. /\ t \in Seq(Char) /\ Len(t) \in Nat
        /\ Len(w) = Len(t) + 2 /\ w[1] = Quote /\ w[Len(t) + 2] = Quote
        /\ \A k \in 1..Len(t) : w[k + 1] = t[k]
    BY FieldText, Zenon
  <2> QED BY <2>1, <2>2, Zenon
<1>2. \A k \in 1..Len(t) : t[k] # Quote
  BY FieldsAssumption
<1>3. /\ b \in 1..(Len(s) + 1) /\ e \in b..(Len(s) + 1) /\ e = b + Len(t) + 2
      /\ \A k \in 1..(Len(t) + 2) : s[b + k - 1] = w[k]
      /\ e = Len(s) + 1 \/ s[e] = Comma
  BY <1>1 DEF FieldAt
<1> HIDE DEF t, w
<1>4. s[b] = Quote /\ s[e - 1] = Quote
  <2>1. 1 \in 1..(Len(t) + 2) /\ b + 1 - 1 = b /\ Len(t) + 2 \in 1..(Len(t) + 2)
        /\ b + (Len(t) + 2) - 1 = e - 1
    BY <1>1, <1>3
  <2>2. s[b + 1 - 1] = w[1] /\ s[b + (Len(t) + 2) - 1] = w[Len(t) + 2]
    BY <1>3, <2>1
  <2> QED BY <1>1, <2>1, <2>2
<1>5. \A k \in 0..(Len(t) - 1) : s[b + 1 + k] = t[1 + k]
  <2> SUFFICES ASSUME NEW k \in 0..(Len(t) - 1) PROVE s[b + 1 + k] = t[1 + k]
    OBVIOUS
  <2>1. k + 2 \in 1..(Len(t) + 2) /\ b + (k + 2) - 1 = b + 1 + k /\ 1 + k \in 1..Len(t) /\ 1 + k + 1 = k + 2
    BY <1>1, <1>3
  <2>2. s[b + (k + 2) - 1] = w[k + 2] /\ w[1 + k + 1] = t[1 + k]
    BY <1>1, <1>3, <2>1
  <2> QED BY <2>1, <2>2
<1>6. skipWhiteSpace(s, b) = b
  <2>1. /\ b \in b..(Len(s) + 1) /\ s[b] \notin Space
        /\ \A k \in b..(b - 1) : s[k] \in Space
    BY <1>1, <1>3, <1>4, Characters
  <2> QED BY <1>3, <2>1, FirstNotInUnique DEF skipWhiteSpace
<1>7. FirstIn(s, b + 1, {Quote}) = e - 1
  <2>1. \A k \in (b + 1)..(e - 1 - 1) : s[k] \notin {Quote}
    <3> SUFFICES ASSUME NEW k \in (b + 1)..(e - 1 - 1) PROVE s[k] # Quote
      OBVIOUS
    <3>1. /\ k - b - 1 \in 0..(Len(t) - 1) /\ b + 1 + (k - b - 1) = k
          /\ 1 + (k - b - 1) \in 1..Len(t)
      BY <1>1, <1>3
    <3>2. s[b + 1 + (k - b - 1)] = t[1 + (k - b - 1)]
      BY <1>5, <3>1
    <3> QED BY <1>2, <3>1, <3>2
  <2>2. b + 1 \in 1..(Len(s) + 1) /\ e - 1 \in (b + 1)..(Len(s) + 1)
    BY <1>1, <1>3
  <2>3. s[e - 1] \in {Quote}
    BY <1>4
  <2> QED BY <2>1, <2>2, <2>3, FirstInUnique
<1>8. Text(s, b + 1, e - 1) = t
  <2>1. /\ b + 1 \in Nat \ {0} /\ 1 \in Nat \ {0}
        /\ b + 1 + Len(t) = e - 1 /\ 1 + Len(t) = Len(t) + 1
        /\ b + 1 + Len(t) <= Len(s) + 1 /\ 1 + Len(t) <= Len(t) + 1
    BY <1>1, <1>3
  <2>2. Text(s, b + 1, b + 1 + Len(t)) = Text(t, 1, 1 + Len(t))
    <3>1. PICK i \in Nat \ {0} : i = b + 1
      BY <2>1
    <3>2. PICK n \in Nat : n = Len(t)
      BY <1>1
    <3>3. i + n <= Len(s) + 1 /\ 1 + n <= Len(t) + 1
      BY <2>1, <3>1, <3>2
    <3>4. SameAt(s, i, t, 1, n)
      BY <1>5, <3>1, <3>2 DEF SameAt
    <3>5. Text(s, i, i + n) = Text(t, 1, 1 + n)
      BY <1>1, <2>1, <3>3, <3>4, TextEqual
    <3> QED BY <3>1, <3>2, <3>5
  <2>3. Text(t, 1, Len(t) + 1) = t
    BY <1>1, WholeText
  <2> QED BY <2>1, <2>2, <2>3
<1>9. strsep(s, b + 1, Quote) = [tok |-> <<t>>, cur |-> e]
  <2>1. ~(e - 1 > Len(s)) /\ e - 1 + 1 = e
    BY <1>1, <1>3
  <2> QED BY <1>7, <1>8, <2>1 DEF strsep
<1>10. FirstIn(s, e, {Comma}) = e
  <2>1. /\ e \in 1..(Len(s) + 1) /\ e \in e..(Len(s) + 1) /\ (e = Len(s) + 1 \/ s[e] \in {Comma})
        /\ \A k \in e..(e - 1) : s[k] \notin {Comma}
    BY <1>1, <1>3
  <2> QED BY <2>1, FirstInUnique
<1>11. skipNextComma(s, e) = IF e > Len(s) THEN e ELSE e + 1
  BY <1>1, <1>3, <1>10 DEF skipNextComma, NULL
<1>12. nextTok(s, b) = [tok |-> <<t>>, cur |-> IF e > Len(s) THEN e ELSE e + 1]
  <2>1. b # NULL /\ b <= Len(s)
    BY <1>1, <1>3 DEF NULL
  <2> QED BY <1>4, <1>6, <1>9, <1>11, <2>1 DEF nextTok
<1> QED BY <1>1, <1>3, <1>12 DEF Taken

LEMMA NextTokIs ==
    ASSUME NEW s \in Seq(Char), NEW f \in Fields, NEW b, NEW e, FieldAt(s, f, b, e)
    PROVE  Taken(s, f, b, e) /\ Meant(f) \in Seq(Char)
BY FieldText, PlainToken, QuotedToken

\* strtol reads a token of digits to its end.
LEMMA StrtolNumber ==
    ASSUME NEW s \in Seq(Char), IsNumber(s), Number(s) <= LONG_MAX
    PROVE  strtol(s) = [none |-> FALSE, value |-> Number(s)]
<1>1. s # <<>> /\ (\A k \in 1..Len(s) : s[k] \in Digits) /\ Len(s) \in Nat /\ Len(s) > 0
  BY DEF IsNumber
<1>2. FirstNotIn(s, 1, Space) = 1
  <2>1. /\ 1 \in 1..(Len(s) + 1) /\ s[1] \notin Space
        /\ \A k \in 1..(1 - 1) : s[k] \in Space
    BY <1>1, Characters
  <2> QED BY <2>1, FirstNotInUnique
<1>3. FirstNotIn(s, 1, Digits) = Len(s) + 1
  <2>1. /\ 1 \in 1..(Len(s) + 1) /\ Len(s) + 1 \in 1..(Len(s) + 1)
        /\ \A k \in 1..(Len(s) + 1 - 1) : s[k] \in Digits
    BY <1>1
  <2> QED BY <2>1, FirstNotInUnique
<1>4. Text(s, 1, Len(s) + 1) = s
  BY WholeText
<1> QED BY <1>1, <1>2, <1>3, <1>4 DEF strtol, skipWhiteSpace

\* Where field n ends.
EndOf(fs, bs, n) == bs[n] + Len(Written(fs[n]))

\* The fields fs are in the line s at bs, one after the other and a comma between two.
Placed(s, fs, bs) ==
    /\ s \in Seq(Char) /\ Len(s) >= 2 /\ s[1] = Plus /\ s[2] = Colon
    /\ fs \in Seq(Fields) /\ bs \in Seq(Int) /\ Len(bs) = Len(fs)
    /\ Len(fs) = 0 => Len(s) = 2
    /\ Len(fs) > 0 => bs[1] = 3 /\ EndOf(fs, bs, Len(fs)) = Len(s) + 1
    /\ \A n \in 1..Len(fs) : FieldAt(s, fs[n], bs[n], EndOf(fs, bs, n))
    /\ \A n \in 1..(Len(fs) - 1) : EndOf(fs, bs, n) <= Len(s) /\ bs[n + 1] = EndOf(fs, bs, n) + 1

\* The cursor is where the next field begins; after the last it is NULL or at the end.
LineInv ==
    /\ task \in {"write", "tokens"} => Placed(line, fields, begins)
    /\ task = "write" => taken = 0
    /\ task = "tokens" =>
         /\ taken \in 0..Len(fields)
         /\ taken < Len(fields) => cur = begins[taken + 1]
         /\ taken = Len(fields) => cur \in {NULL, Len(line) + 1}

\* The line t is s and goes on with a comma.
GoesOn(s, t) == Len(t) > Len(s) /\ (\A k \in 1..Len(s) : t[k] = s[k]) /\ t[Len(s) + 1] = Comma

\* A field stays where it is when the line goes on with a comma.
LEMMA FieldStays ==
    ASSUME NEW s \in Seq(Char), NEW t \in Seq(Char), NEW f \in Fields, NEW b, NEW e,
           FieldAt(s, f, b, e), GoesOn(s, t)
    PROVE  FieldAt(t, f, b, e) /\ e <= Len(t)
<1>1. /\ Len(s) \in Nat /\ Len(t) \in Nat /\ Len(Written(f)) \in Nat
      /\ Len(t) > Len(s) /\ t[Len(s) + 1] = Comma
  BY FieldText DEF GoesOn
<1>2. /\ b \in 1..(Len(s) + 1) /\ e \in b..(Len(s) + 1) /\ e = b + Len(Written(f))
      /\ \A k \in 1..Len(Written(f)) : s[b + k - 1] = Written(f)[k]
      /\ e = Len(s) + 1 \/ s[e] = Comma
  BY DEF FieldAt
<1>3. b \in 1..(Len(t) + 1) /\ e \in b..(Len(t) + 1) /\ e <= Len(t)
  BY <1>1, <1>2
<1>4. ASSUME NEW k \in 1..Len(Written(f)) PROVE t[b + k - 1] = Written(f)[k]
  <2>1. b + k - 1 \in 1..Len(s)
    BY <1>1, <1>2
  <2>2. t[b + k - 1] = s[b + k - 1]
    BY <2>1 DEF GoesOn
  <2> QED BY <1>2, <2>2
<1>5. t[e] = Comma
  <2>1. CASE e = Len(s) + 1
    BY <1>1, <2>1
  <2>2. CASE e # Len(s) + 1
    BY <1>1, <1>2, <2>2 DEF GoesOn
  <2> QED BY <2>1, <2>2
<1> QED BY <1>2, <1>3, <1>4, <1>5 DEF FieldAt

\* One more field, behind what was written before.
LEMMA PlaceField ==
    ASSUME NEW s, NEW fs, NEW bs, Placed(s, fs, bs), NEW f \in Fields, NEW before \in Seq(Char),
           NEW t, t = before \o Written(f),
           before = IF fs = <<>> THEN s ELSE Append(s, Comma)
    PROVE  Placed(t, Append(fs, f), Append(bs, Len(before) + 1))
<1> DEFINE w == Written(f)
           gs == Append(fs, f)
           cs == Append(bs, Len(before) + 1)
           m == Len(fs)
<1>1. /\ s \in Seq(Char) /\ Len(s) \in Nat /\ Len(s) >= 2 /\ s[1] = Plus /\ s[2] = Colon
      /\ fs \in Seq(Fields) /\ bs \in Seq(Int) /\ m \in Nat /\ Len(bs) = m
      /\ Len(before) \in Nat /\ w \in Seq(Char) /\ Len(w) \in Nat /\ Comma \in Char
      /\ (fs = <<>> <=> m = 0)
  BY FieldText, CharAssumption DEF Placed
<1>2. /\ t \in Seq(Char) /\ Len(t) = Len(before) + Len(w)
      /\ \A k \in 1..(Len(before) + Len(w)) :
            t[k] = IF k <= Len(before) THEN before[k] ELSE w[k - Len(before)]
  BY <1>1, ConcatProperties
<1>3. /\ gs \in Seq(Fields) /\ Len(gs) = m + 1 /\ gs[m + 1] = f
      /\ \A n \in 1..m : gs[n] = fs[n]
  BY <1>1, AppendProperties
<1>4. /\ cs \in Seq(Int) /\ Len(cs) = m + 1 /\ cs[m + 1] = Len(before) + 1
      /\ \A n \in 1..m : cs[n] = bs[n]
  <2>1. Len(before) + 1 \in Int
    BY <1>1
  <2> QED BY <1>1, <2>1, AppendProperties
<1>5. /\ m = 0 => before = s
      /\ m > 0 => /\ Len(before) = Len(s) + 1 /\ before[Len(s) + 1] = Comma
                  /\ \A k \in 1..Len(s) : before[k] = s[k]
  BY <1>1, AppendProperties
<1> HIDE DEF w, gs, cs, m
<1>6. Len(before) >= Len(s) /\ (\A k \in 1..Len(s) : t[k] = s[k]) /\ (m > 0 => t[Len(s) + 1] = Comma)
  <2>1. Len(before) >= Len(s) /\ (\A k \in 1..Len(s) : before[k] = s[k])
    BY <1>1, <1>5
  <2>2. ASSUME NEW k \in 1..Len(s) PROVE t[k] = s[k]
    <3>1. k \in 1..(Len(before) + Len(w)) /\ k <= Len(before)
      BY <1>1, <2>1
    <3> QED BY <1>2, <2>1, <3>1
  <2>3. ASSUME m > 0 PROVE t[Len(s) + 1] = Comma
    <3>1. Len(s) + 1 \in 1..(Len(before) + Len(w)) /\ Len(s) + 1 <= Len(before)
      BY <1>1, <1>5, <2>3
    <3> QED BY <1>2, <1>5, <2>3, <3>1
  <2> QED BY <2>1, <2>2, <2>3
<1>7. EndOf(gs, cs, m + 1) = Len(t) + 1
  BY <1>1, <1>2, <1>3, <1>4 DEF EndOf, w
<1>8. FieldAt(t, f, Len(before) + 1, Len(t) + 1)
  <2>1. PICK c \in Nat, l \in Nat, d \in Nat : c = Len(before) /\ l = Len(w) /\ d = Len(t)
    BY <1>1, <1>2
  <2>2. d = c + l
    BY <1>2, <2>1
  <2>3. c + 1 \in 1..(d + 1) /\ d + 1 \in (c + 1)..(d + 1) /\ d + 1 = c + 1 + l
    BY <2>2
  <2>4. \A k \in 1..(c + l) : t[k] = IF k <= c THEN before[k] ELSE w[k - c]
    BY <1>2, <2>1
  <2>5. ASSUME NEW k \in 1..l PROVE t[c + 1 + k - 1] = w[k]
    <3>1. PICK x \in Int : x = c + k
      OBVIOUS
    <3>2. c + 1 + k - 1 = x /\ x - c = k /\ x \in 1..(c + l) /\ ~(x <= c)
      BY <3>1
    <3>3. t[x] = w[x - c]
      BY <2>4, <3>2
    <3> QED BY <3>2, <3>3
  <2>6. FieldAt(t, f, c + 1, d + 1)
    BY <2>1, <2>3, <2>5 DEF FieldAt, w
  <2> QED BY <2>1, <2>6
<1>9. ASSUME NEW n \in 1..m
      PROVE  /\ EndOf(gs, cs, n) = EndOf(fs, bs, n)
             /\ FieldAt(t, gs[n], cs[n], EndOf(gs, cs, n)) /\ EndOf(gs, cs, n) <= Len(t)
             /\ cs[n + 1] = EndOf(gs, cs, n) + 1
  <2>1. /\ n \in 1..Len(fs) /\ m > 0 /\ gs[n] = fs[n] /\ cs[n] = bs[n] /\ fs[n] \in Fields
        /\ FieldAt(s, fs[n], bs[n], EndOf(fs, bs, n))
    BY <1>1, <1>3, <1>4 DEF Placed, m
  <2>2. EndOf(gs, cs, n) = EndOf(fs, bs, n)
    BY <2>1 DEF EndOf
  <2>3. Len(t) > Len(s)
    BY <1>1, <1>2, <1>5, <2>1
  <2>4. FieldAt(t, fs[n], bs[n], EndOf(fs, bs, n)) /\ EndOf(fs, bs, n) <= Len(t)
    <3>1. GoesOn(s, t)
      BY <1>6, <2>1, <2>3 DEF GoesOn
    <3> QED BY <1>1, <1>2, <2>1, <3>1, FieldStays
  <2>5. CASE n < m
    <3>1. n \in 1..(Len(fs) - 1) /\ n + 1 \in 1..m
      BY <1>1, <2>5 DEF m
    <3>2. cs[n + 1] = bs[n + 1] /\ bs[n + 1] = EndOf(fs, bs, n) + 1
      BY <1>4, <3>1 DEF Placed
    <3> QED BY <2>1, <2>2, <2>4, <3>2
  <2>6. CASE n = m
    <3>1. EndOf(fs, bs, n) = Len(s) + 1
      BY <2>1, <2>6 DEF Placed, m
    <3>2. cs[n + 1] = Len(s) + 1 + 1
      BY <1>1, <1>4, <1>5, <2>1, <2>6
    <3> QED BY <2>1, <2>2, <2>4, <3>1, <3>2
  <2> QED BY <1>1, <2>5, <2>6
<1>10. cs[1] = 3
  <2>1. (m = 0 => Len(s) = 2) /\ (m > 0 => bs[1] = 3)
    BY DEF Placed, m
  <2>2. CASE m = 0
    <3>1. Len(before) = 2 /\ m + 1 = 1
      BY <1>5, <2>1, <2>2
    <3>2. cs[m + 1] = Len(before) + 1
      BY <1>4
    <3>3. cs[1] = 2 + 1
      BY <3>1, <3>2, Zenon
    <3> QED BY <3>3
  <2>3. CASE m > 0
    <3>1. 1 \in 1..m
      BY <1>1, <2>3
    <3> QED BY <1>4, <2>1, <2>3, <3>1
  <2> QED BY <1>1, <2>2, <2>3
<1>11. Len(t) >= 2 /\ t[1] = Plus /\ t[2] = Colon
  BY <1>1, <1>2, <1>6
<1>12. ASSUME NEW n \in 1..Len(gs) PROVE FieldAt(t, gs[n], cs[n], EndOf(gs, cs, n))
  <2>1. CASE n \in 1..m
    BY <1>9, <2>1
  <2>2. CASE n = m + 1
    BY <1>3, <1>4, <1>7, <1>8, <2>2
  <2> QED BY <1>1, <1>3, <2>1, <2>2
<1>13. ASSUME NEW n \in 1..(Len(gs) - 1)
       PROVE  EndOf(gs, cs, n) <= Len(t) /\ cs[n + 1] = EndOf(gs, cs, n) + 1
  <2>1. n \in 1..m
    BY <1>1, <1>3
  <2> QED BY <1>9, <2>1
<1>14. Len(cs) = Len(gs) /\ Len(gs) # 0 /\ EndOf(gs, cs, Len(gs)) = Len(t) + 1
  BY <1>1, <1>3, <1>4, <1>7
<1>15. Placed(t, gs, cs)
  BY <1>2, <1>3, <1>4, <1>10, <1>11, <1>12, <1>13, <1>14 DEF Placed
<1> QED BY <1>15 DEF gs, cs

LEMMA AddFieldStep ==
    ASSUME LineInv, AddField
    PROVE  LineInv'
<1> DEFINE before == IF fields = <<>> THEN line ELSE Append(line, Comma)
<1>1. PICK f \in Fields : /\ fields' = Append(fields, f)
                          /\ begins' = Append(begins, Len(before) + 1)
                          /\ line' = before \o Written(f)
  BY DEF AddField
<1>2. task = "write" /\ task' = "write" /\ taken' = taken /\ taken = 0 /\ Placed(line, fields, begins)
  BY DEF AddField, LineInv
<1>3. before \in Seq(Char)
  BY <1>2, CharAssumption DEF Placed
<1>4. before = IF fields = <<>> THEN line ELSE Append(line, Comma)
  OBVIOUS
<1> HIDE DEF before
<1>5. Placed(line', fields', begins')
  BY <1>1, <1>2, <1>3, <1>4, PlaceField
<1> QED BY <1>2, <1>5 DEF LineInv

\* at_tok_start passes the prefix.
LEMMA StartTokensStep ==
    ASSUME LineInv, StartTokens
    PROVE  LineInv'
<1>1. /\ task = "write" /\ task' = "tokens" /\ Placed(line, fields, begins) /\ taken' = 0
      /\ line' = line /\ fields' = fields /\ begins' = begins /\ cur' = at_tok_start(line)
  BY DEF StartTokens, LineInv
<1>2. /\ line \in Seq(Char) /\ Len(line) \in Nat /\ Len(line) >= 2 /\ line[1] = Plus /\ line[2] = Colon
      /\ Len(fields) \in Nat /\ (Len(fields) = 0 => Len(line) = 2) /\ (Len(fields) > 0 => begins[1] = 3)
  BY <1>1 DEF Placed
<1>3. FirstIn(line, 1, {Colon}) = 2
  <2>1. /\ 1 \in 1..(Len(line) + 1) /\ 2 \in 1..(Len(line) + 1) /\ line[2] \in {Colon}
        /\ \A k \in 1..(2 - 1) : line[k] \notin {Colon}
    BY <1>2, Characters
  <2> QED BY <1>2, <2>1, FirstInUnique
<1>4. cur' = 3
  BY <1>1, <1>2, <1>3 DEF at_tok_start
<1>5. /\ taken' \in 0..Len(fields) /\ taken' + 1 = 1
      /\ taken' < Len(fields) => begins[1] = 3
      /\ taken' = Len(fields) => Len(line) + 1 = 3
  <2>1. taken' = 0
    BY <1>1
  <2>2. 0 \in 0..Len(fields) /\ 0 + 1 = 1
    BY <1>2
  <2>3. 0 < Len(fields) => begins[1] = 3
    BY <1>2
  <2>4. Len(fields) = 0 => Len(line) = 2
    BY <1>2, Zenon
  <2>5. Len(line) = 2 => Len(line) + 1 = 3
    <3>1. Len(line) = 2 => Len(line) + 1 = 2 + 1
      BY Zenon
    <3> QED BY <3>1
  <2>6. taken' \in 0..Len(fields) /\ taken' + 1 = 1
    BY <2>1, <2>2, Zenon
  <2>7. taken' < Len(fields) => begins[1] = 3
    BY <2>1, <2>3, Zenon
  <2> QED BY <2>1, <2>4, <2>5, <2>6, <2>7, Zenon
<1> QED BY <1>1, <1>4, <1>5 DEF LineInv

LEMMA NextField ==
    ASSUME Placed(line, fields, begins), NEW n \in 1..Len(fields)
    PROVE  /\ Taken(line, fields[n], begins[n], EndOf(fields, begins, n))
           /\ Meant(fields[n]) \in Seq(Char)
<1>1. line \in Seq(Char) /\ fields[n] \in Fields
  BY DEF Placed
<1>2. FieldAt(line, fields[n], begins[n], EndOf(fields, begins, n))
  BY DEF Placed
<1> QED BY <1>1, <1>2, NextTokIs

LEMMA TakeTokenStep ==
    ASSUME LineInv, TakeToken
    PROVE  LineInv'
<1> DEFINE n == taken + 1
           e == EndOf(fields, begins, n)
<1>1. /\ task = "tokens" /\ task' = "tokens" /\ Placed(line, fields, begins)
      /\ line' = line /\ fields' = fields /\ begins' = begins
      /\ taken \in 0..Len(fields) /\ taken < Len(fields) /\ taken' = n
      /\ cur = begins[n] /\ cur' = nextTok(line, cur).cur
  BY DEF LineInv, TakeToken
<1>2. Len(fields) \in Nat /\ Len(line) \in Nat
  BY <1>1 DEF Placed
<1>3. n \in 1..Len(fields)
  BY <1>1, <1>2
<1>4. /\ e <= Len(line) => cur' = e + 1
      /\ e = Len(line) + 1 => cur' \in {NULL, e}
  BY <1>1, <1>3, NextField DEF Taken
<1> HIDE DEF e
<1>5. CASE n < Len(fields)
  <2>1. n \in 1..(Len(fields) - 1)
    BY <1>2, <1>3, <1>5
  <2>2. e <= Len(line) /\ begins[n + 1] = e + 1
    BY <1>1, <2>1 DEF Placed, e
  <2>3. taken' \in 0..Len(fields) /\ taken' # Len(fields)
    BY <1>1, <1>2, <1>3, <1>5
  <2> QED BY <1>1, <1>4, <2>2, <2>3 DEF LineInv
<1>6. CASE n = Len(fields)
  <2>1. e = Len(line) + 1
    BY <1>1, <1>2, <1>3, <1>6 DEF Placed, e
  <2>2. taken' \in 0..Len(fields) /\ ~(taken' < Len(fields))
    BY <1>1, <1>2, <1>3, <1>6
  <2> QED BY <1>1, <1>4, <2>1, <2>2 DEF LineInv
<1> QED BY <1>2, <1>3, <1>5, <1>6

LEMMA LineInvariant == Spec => []LineInv
<1>1. Init => LineInv
  <2> SUFFICES ASSUME Init PROVE LineInv
    OBVIOUS
  <2>1. /\ line = <<Plus, Colon>> /\ fields = <<>> /\ begins = <<>> /\ taken = 0 /\ task # "tokens"
    BY DEF Init
  <2>2. line \in Seq(Char) /\ Len(line) = 2 /\ line[1] = Plus /\ line[2] = Colon
    BY <2>1, CharAssumption
  <2>3. fields \in Seq(Fields) /\ begins \in Seq(Int) /\ Len(fields) = 0 /\ Len(begins) = 0
    BY <2>1
  <2>4. Placed(line, fields, begins)
    BY <2>2, <2>3 DEF Placed
  <2> QED BY <2>1, <2>4 DEF LineInv
<1>2. LineInv /\ [Next]_vars => LineInv'
  <2> SUFFICES ASSUME LineInv, [Next]_vars PROVE LineInv'
    OBVIOUS
  <2>1. CASE AddField
    BY <2>1, AddFieldStep
  <2>2. CASE StartTokens
    BY <2>2, StartTokensStep
  <2>3. CASE TakeToken
    BY <2>3, TakeTokenStep
  <2>4. CASE UNCHANGED <<task, lineVars>>
    BY <2>4 DEF lineVars, LineInv
  <2>5. CASE task \notin {"write", "tokens"} /\ task' \notin {"write", "tokens"}
    BY <2>5 DEF LineInv
  <2> QED BY <2>1, <2>2, <2>3, <2>4, <2>5 DEF Next, vars, SendByte, AddCharacter,
            nmea_tokenizer_init, NextToken, NextDay
<1> QED BY <1>1, <1>2, PTL DEF Spec

\* For every line made of fields that follow the rules of FieldsAssumption: the tokens are
\* the fields, in order, and numbers are read whole.
THEOREM TokensCorrect == Spec => []TokensAreFields
<1>1. LineInv => TokensAreFields
  <2> SUFFICES ASSUME LineInv, task = "tokens", taken < Len(fields) PROVE TokensAreFields
    BY DEF TokensAreFields
  <2> DEFINE n == taken + 1
             m == Meant(fields[n])
  <2>1. Placed(line, fields, begins) /\ taken \in 0..Len(fields) /\ cur = begins[n]
    BY DEF LineInv
  <2>2. n \in 1..Len(fields)
    BY <2>1 DEF Placed
  <2>3. nextTok(line, cur).tok = <<m>> /\ m \in Seq(Char)
    BY <2>1, <2>2, NextField DEF Taken
  <2> HIDE DEF m
  <2>4. at_tok_nextstr(line, cur).tok = <<m>>
    BY <2>3 DEF at_tok_nextstr
  <2>5. ASSUME IsNumber(m), Number(m) <= LONG_MAX
        PROVE  /\ at_tok_nextint(line, cur).ret = 0
               /\ at_tok_nextint(line, cur).value = Number(m)
               /\ at_tok_nextbool(line, cur).ret = IF Number(m) \in {0, 1} THEN 0 ELSE -1
    <3>1. strtol(m) = [none |-> FALSE, value |-> Number(m)]
      BY <2>3, <2>5, StrtolNumber
    <3>2. nextTok(line, cur).tok # <<>> /\ nextTok(line, cur).tok[1] = m
      BY <2>3
    <3>3. at_tok_nextint(line, cur)
            = [ret |-> 0, value |-> Number(m), cur |-> nextTok(line, cur).cur]
      BY <3>1, <3>2 DEF at_tok_nextint
    <3> QED BY <3>3 DEF at_tok_nextbool
  <2> QED BY <2>4, <2>5 DEF TokensAreFields, m
<1> QED BY <1>1, LineInvariant, PTL

\* For every such line: at_tok_hasmore never promises a field that is not there, and
\* denies none but an empty last one without quotes.
THEOREM HasMoreCorrect == Spec => []MoreUntilLast
<1>1. LineInv => MoreUntilLast
  <2> SUFFICES ASSUME LineInv, task = "tokens"
               PROVE  at_tok_hasmore(line, cur) <=>
                        /\ taken < Len(fields)
                        /\ ~(taken = Len(fields) - 1 /\ Written(fields[Len(fields)]) = <<>>)
    <3>1. LineInv /\ task = "tokens" => taken = Len(fields) \/ taken < Len(fields)
      BY DEF LineInv, Placed
    <3> QED BY <3>1 DEF MoreUntilLast
  <2>1. /\ Placed(line, fields, begins) /\ taken \in 0..Len(fields)
        /\ taken < Len(fields) => cur = begins[taken + 1]
        /\ taken = Len(fields) => cur \in {NULL, Len(line) + 1}
    BY DEF LineInv
  <2>2. Len(fields) \in Nat /\ Len(line) \in Nat
    BY <2>1 DEF Placed
  <2>3. CASE taken = Len(fields)
    BY <2>1, <2>2, <2>3 DEF at_tok_hasmore, NULL
  <2>4. CASE taken < Len(fields)
    <3> DEFINE n == taken + 1
               w == Written(fields[n])
               e == EndOf(fields, begins, n)
    <3>1. n \in 1..Len(fields)
      BY <2>1, <2>2, <2>4
    <3>2. fields[n] \in Fields /\ FieldAt(line, fields[n], begins[n], e)
      BY <2>1, <3>1 DEF Placed
    <3>3. w \in Seq(Char) /\ Len(w) \in Nat /\ (w = <<>> <=> Len(w) = 0)
      BY <3>2, FieldText
    <3>4. cur \in 1..(Len(line) + 1) /\ e = cur + Len(w)
      BY <2>1, <2>4, <3>2 DEF FieldAt
    <3>5. CASE n < Len(fields)
      <4>1. n \in 1..(Len(fields) - 1) /\ taken # Len(fields) - 1
        BY <2>1, <2>2, <3>1, <3>5
      <4>2. e <= Len(line)
        BY <2>1, <4>1 DEF Placed
      <4> HIDE DEF e, w
      <4>3. cur # NULL /\ cur <= Len(line)
        BY <2>2, <3>3, <3>4, <4>2 DEF NULL
      <4> QED BY <2>4, <4>1, <4>3 DEF at_tok_hasmore
    <3>6. CASE n = Len(fields)
      <4>1. taken = Len(fields) - 1 /\ w = Written(fields[Len(fields)])
        BY <2>1, <2>2, <3>6
      <4>2. e = Len(line) + 1
        BY <2>1, <2>2, <3>1, <3>6 DEF Placed
      <4> HIDE DEF e, w
      <4>3. cur # NULL /\ (cur <= Len(line) <=> w # <<>>)
        BY <2>2, <3>3, <3>4, <4>2 DEF NULL
      <4> QED BY <2>4, <4>1, <4>3 DEF at_tok_hasmore
    <3> QED BY <2>2, <3>1, <3>5, <3>6
  <2> QED BY <2>1, <2>2, <2>3, <2>4
<1> QED BY <1>1, LineInvariant, PTL
=============================================================================
