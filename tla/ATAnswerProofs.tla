--------------------------- MODULE ATAnswerProofs ---------------------------
(***************************************************************************)
(* Answers reach the command they were sent for, for every set of threads, *)
(* every set of commands and unsolicited lines and every bound:            *)
(* OwnResponse, UnsolicitedInOrder and PduAnswersOwnPrompt.                *)
(*                                                                         *)
(* The channel tells answers from unsolicited lines by their text only, so *)
(* `mistaken' divides the argument.  The order of the unsolicited lines    *)
(* does not depend on it (UnsolInv).  Which command a line answers is kept *)
(* as long as no unsolicited line ends a command or counts as a prompt     *)
(* (FlowInv).  That what the modem has sent and not yet sent continues     *)
(* exactly where the response under construction ends needs that no        *)
(* unsolicited line has been taken for an answer at all (CountInv).        *)
(***************************************************************************)
EXTENDS ATChannelProofs

-----------------------------------------------------------------------------
(* The lines in flight.  A line with id 0 answers no command. *)

Answer(l) == l.id # 0
Final(l)  == l.text \in {"OK", "ERROR"}
Prompt(l) == l.text = "> "

(* How many intermediate lines of its answer precede the line. *)
Before(l) == IF Final(l) \/ Prompt(l) THEN l.n ELSE l.n - 1

(* No answer line strictly between positions i and j. *)
Quiet(ls, i, j) == \A k \in 1..Len(ls) : (i < k /\ k < j) => ls[k].id = 0

(* The answer line at i, or the response under construction (i = 0), which  *)
(* holds c intermediate lines.                                              *)
Stop(ls, i)     == i = 0 \/ ls[i].id # 0
Passed(ls, i, c) == IF i = 0 THEN c ELSE ls[i].n

(* The answer lines continue a response of c lines without a gap ... *)
Chain(ls, c) ==
    \A i \in 0..Len(ls), j \in 1..Len(ls) :
        (i < j /\ Stop(ls, i) /\ Answer(ls[j]) /\ Quiet(ls, i, j)) =>
            Before(ls[j]) = Passed(ls, i, c)

(* ... and m intermediate lines are counted at their end. *)
EndsAt(ls, c, m) ==
    \A i \in 0..Len(ls) :
        (Stop(ls, i) /\ Quiet(ls, i, Len(ls) + 1)) => Passed(ls, i, c) = m

NoAnswers(ls) == \A i \in 1..Len(ls) : ls[i].id = 0

(* A line of the answer to call k (with id) that has the shape the modem    *)
(* gives it.                                                                *)
Shaped(l, k) ==
    /\ l.id = k.id
    /\ \/ Final(l)
       \/ Prompt(l) /\ k.cmd.pdu
       \/ /\ l.text \in InterTexts(k.cmd)
          /\ 1 <= l.n /\ l.n <= InterLimit(k.cmd.type)

-----------------------------------------------------------------------------
(* The inductive invariant. *)

(* A thread inside a call has numbered its command, and so the modem knows  *)
(* it.                                                                      *)
CallsNumbered ==
    /\ \A t \in Threads : pc[t] \notin {"idle", "opening"} => call[t].id # 0
    /\ \A i \in 1..Len(modem.queue) : modem.queue[i].id # 0

(* A channel is closed only after all has been read from a modem that hung  *)
(* up, and a modem that hung up forgets what it was asked.                  *)
ClosedInv ==
    /\ (s_readerClosed \/ reader \in {"eof", "closing"}) => (hungup /\ lines = <<>>)
    /\ hungup => modem = IdleModem

(* Unsolicited lines are numbered in order and go on where the handler's    *)
(* last one was; an SMS indication is whole unless the modem hung up.       *)
Fresh(ls, us) ==
    \A i \in 1..Len(ls) : ls[i].id = 0 =>
        /\ ls[i].n <= nUnsol
        /\ \A k \in 1..Len(us) : us[k][1] = 0 => us[k][2] < ls[i].n

Ordered(ls) ==
    \A i, j \in 1..Len(ls) :
        (i < j /\ ls[i].id = 0 /\ ls[j].id = 0) =>
            ls[i].n < ls[j].n \/ (ls[i].text = "+CMT:" /\ j = i + 1)

Paired(ls, cut) ==
    \A i \in 1..Len(ls) : ls[i].text = "+CMT:" =>
        /\ ls[i].id = 0
        /\ \/ i = Len(ls) /\ cut
           \/ i < Len(ls) /\ ls[i + 1].id = 0 /\ ls[i + 1].text = "other"

UnsolInv ==
    /\ Fresh(lines, unsol) /\ Ordered(lines) /\ Paired(lines, hungup)
    /\ \A k \in 1..Len(unsol) : unsol[k][1] = 0 => unsol[k][2] <= nUnsol
    /\ reader = "smsPdu" =>
          \/ lines = <<>> /\ hungup
          \/ lines # <<>> /\ lines[1].id = 0 /\ lines[1].text = "other"

Pending == sp_response # NULL /\ sp_response.final = NULL
Asked   == call[sp_response.owner]

(* Without an unanswered command the modem owes nothing. *)
QuietInv == ~Pending => modem = IdleModem /\ NoAnswers(lines)

(* The response under construction is of its owner's command. *)
ResponseInv ==
    sp_response # NULL =>
        /\ sp_response.id = Asked.id
        /\ s_type = Asked.cmd.type /\ s_responsePrefix = Asked.cmd.prefix
        /\ s_smsPDU \in {NULL, sp_response.id}
        /\ sp_response.final # NULL => sp_response.final.id = sp_response.id

(* The lines in flight answer it. *)
FlightInv ==
    Pending =>
        /\ modem.queue \in {<<>>, <<Asked>>}
        /\ \A i \in 1..Len(lines) : Answer(lines[i]) => Shaped(lines[i], Asked)

(* The prompt comes first, the final line last. *)
PromptInv ==
    Pending =>
        /\ \A i \in 1..Len(lines) : (Answer(lines[i]) /\ Prompt(lines[i])) =>
              /\ s_smsPDU # NULL
              /\ \A j \in 1..Len(lines) : Answer(lines[j]) => j = i
              /\ modem.queue # <<>> => modem.pdu = "prompted"
        /\ (modem.queue # <<>> /\ Asked.cmd.pdu /\ modem.pdu = "none") =>
              s_smsPDU # NULL /\ NoAnswers(lines) /\ modem.n = 0
        /\ \A i \in 1..Len(lines) : (Answer(lines[i]) /\ Final(lines[i])) =>
              /\ modem = IdleModem
              /\ \A j \in 1..Len(lines) : j > i => lines[j].id = 0

FlowInv == QuietInv /\ ResponseInv /\ FlightInv /\ PromptInv

(* The lines of the response are numbered without a gap, the newest first,  *)
(* and the answer in flight goes on where they end.                         *)
Numbered(r) ==
    /\ \A i \in 1..Len(r.inter) : r.inter[i].id = r.id /\ r.inter[i].n = Len(r.inter) + 1 - i
    /\ r.final # NULL => r.final.n = Len(r.inter)

Continued(ls, r, m) ==
    /\ Chain(ls, Len(r.inter))
    /\ m.queue # <<>> => EndsAt(ls, Len(r.inter), m.n)

CountInv ==
    /\ sp_response # NULL => Numbered(sp_response)
    /\ Pending => Continued(lines, sp_response, modem)

(* No unsolicited line has been taken for a line of an answer. *)
Exact == Undisturbed /\ mistaken = {}

AnswerInv ==
    /\ CallsNumbered /\ ClosedInv /\ UnsolInv
    /\ NoneCutShort => FlowInv
    /\ Exact => CountInv


-----------------------------------------------------------------------------
(* Sequences of lines: reading the first, appending, losing the last ones.  *)

LEMMA TailFacts ==
    ASSUME NEW ls \in Seq(Line), ls # <<>>
    PROVE  /\ Tail(ls) \in Seq(Line) /\ Len(Tail(ls)) = Len(ls) - 1 /\ Len(ls) \in Nat \ {0}
           /\ \A i \in 1..Len(Tail(ls)) : i + 1 \in 1..Len(ls) /\ Tail(ls)[i] = ls[i + 1]
           /\ Head(ls) = ls[1] /\ 1 \in 1..Len(ls) /\ ls[1] \in Line
OBVIOUS

LEMMA AppendFacts ==
    ASSUME NEW ls \in Seq(Line), NEW l \in Line
    PROVE  /\ Append(ls, l) \in Seq(Line) /\ Len(Append(ls, l)) = Len(ls) + 1 /\ Len(ls) \in Nat
           /\ \A i \in 1..Len(ls) : i \in 1..Len(Append(ls, l)) /\ Append(ls, l)[i] = ls[i]
           /\ Append(ls, l)[Len(ls) + 1] = l
           /\ \A i \in 1..Len(Append(ls, l)) : i \in 1..Len(ls) \/ i = Len(ls) + 1
OBVIOUS

LEMMA PrefixFacts ==
    ASSUME NEW ls \in Seq(Line), NEW k \in 0..Len(ls)
    PROVE  /\ SubSeq(ls, 1, k) \in Seq(Line) /\ Len(SubSeq(ls, 1, k)) = k /\ k \in Nat
           /\ Len(ls) \in Nat
           /\ \A i \in 1..k : i \in 1..Len(ls) /\ SubSeq(ls, 1, k)[i] = ls[i]
OBVIOUS

LEMMA ChainNone ==
    ASSUME NEW ls \in Seq(Line), NEW c \in Nat, NoAnswers(ls)
    PROVE  Chain(ls, c) /\ EndsAt(ls, c, c)
<1>1. Len(ls) \in Nat
  OBVIOUS
<1> QED
  BY <1>1 DEF NoAnswers, Chain, EndsAt, Answer, Stop, Passed

(* Reading an unsolicited line. *)
LEMMA ChainSkips ==
    ASSUME NEW ls \in Seq(Line), ls # <<>>, ls[1].id = 0, NEW c \in Nat, NEW m \in Nat
    PROVE  /\ Chain(ls, c) => Chain(Tail(ls), c)
           /\ EndsAt(ls, c, m) => EndsAt(Tail(ls), c, m)
<1> DEFINE q == Tail(ls)
<1>1. /\ Len(ls) \in Nat /\ Len(q) = Len(ls) - 1 /\ Len(q) \in Nat
      /\ \A i \in 1..Len(q) : i + 1 \in 1..Len(ls) /\ q[i] = ls[i + 1]
  BY TailFacts
<1> HIDE DEF q
<1>2. ASSUME NEW i \in 0..Len(q), NEW j \in Nat, Stop(q, i), Quiet(q, i, j)
      PROVE  LET h == IF i = 0 THEN 0 ELSE i + 1
             IN  /\ h \in 0..Len(ls) /\ Stop(ls, h) /\ Quiet(ls, h, j + 1)
                 /\ Passed(ls, h, c) = Passed(q, i, c)
  <2> DEFINE h == IF i = 0 THEN 0 ELSE i + 1
  <2>1. h \in 0..Len(ls) /\ Stop(ls, h) /\ Passed(ls, h, c) = Passed(q, i, c)
    BY <1>1, <1>2 DEF Stop, Passed
  <2>2. ASSUME NEW k \in 1..Len(ls), h < k, k < j + 1 PROVE ls[k].id = 0
    <3>1. CASE k = 1
      BY <3>1
    <3>2. CASE k # 1
      <4>1. k - 1 \in 1..Len(q) /\ i < k - 1 /\ k - 1 < j
        BY <1>1, <2>2, <3>2
      <4>2. q[k - 1].id = 0
        BY <4>1, <1>2 DEF Quiet
      <4>3. q[k - 1] = ls[(k - 1) + 1] /\ (k - 1) + 1 = k
        BY <4>1, <1>1
      <4> QED
        BY <4>2, <4>3
    <3> QED
      BY <3>1, <3>2
  <2>3. Quiet(ls, h, j + 1)
    BY <2>2 DEF Quiet
  <2> QED
    BY <2>1, <2>3
<1>3. ASSUME Chain(ls, c) PROVE Chain(q, c)
  <2> SUFFICES ASSUME NEW i \in 0..Len(q), NEW j \in 1..Len(q),
                      i < j, Stop(q, i), Answer(q[j]), Quiet(q, i, j)
               PROVE  Before(q[j]) = Passed(q, i, c)
    BY DEF Chain
  <2> DEFINE h == IF i = 0 THEN 0 ELSE i + 1
  <2>1. /\ h \in 0..Len(ls) /\ Stop(ls, h) /\ Quiet(ls, h, j + 1)
        /\ Passed(ls, h, c) = Passed(q, i, c)
    BY <1>2
  <2>2. j + 1 \in 1..Len(ls) /\ q[j] = ls[j + 1] /\ h < j + 1
    BY <1>1
  <2> HIDE DEF h
  <2> QED
    BY <1>3, <2>1, <2>2 DEF Chain
<1>4. ASSUME EndsAt(ls, c, m) PROVE EndsAt(q, c, m)
  <2> SUFFICES ASSUME NEW i \in 0..Len(q), Stop(q, i), Quiet(q, i, Len(q) + 1)
               PROVE  Passed(q, i, c) = m
    BY DEF EndsAt
  <2> DEFINE h == IF i = 0 THEN 0 ELSE i + 1
  <2>1. /\ h \in 0..Len(ls) /\ Stop(ls, h) /\ Quiet(ls, h, (Len(q) + 1) + 1)
        /\ Passed(ls, h, c) = Passed(q, i, c)
    BY <1>1, <1>2
  <2>2. (Len(q) + 1) + 1 = Len(ls) + 1
    BY <1>1
  <2> HIDE DEF h
  <2> QED
    BY <1>4, <2>1, <2>2 DEF EndsAt
<1> QED
  BY <1>3, <1>4 DEF q

(* Reading a line of the answer. *)
LEMMA ChainTakes ==
    ASSUME NEW ls \in Seq(Line), ls # <<>>, ls[1].id # 0, NEW c \in Nat, NEW m \in Nat,
           Chain(ls, c)
    PROVE  /\ Before(ls[1]) = c
           /\ Chain(Tail(ls), ls[1].n)
           /\ EndsAt(ls, c, m) => EndsAt(Tail(ls), ls[1].n, m)
<1> DEFINE q == Tail(ls)
           d == ls[1].n
<1>1. /\ Len(ls) \in Nat /\ Len(q) = Len(ls) - 1 /\ Len(q) \in Nat
      /\ \A i \in 1..Len(q) : i + 1 \in 1..Len(ls) /\ q[i] = ls[i + 1]
      /\ 0 \in 0..Len(ls) /\ 1 \in 1..Len(ls)
  BY TailFacts
<1> HIDE DEF q
<1>2. Before(ls[1]) = c
  <2>1. Stop(ls, 0) /\ Quiet(ls, 0, 1) /\ Passed(ls, 0, c) = c /\ Answer(ls[1])
    BY <1>1 DEF Stop, Quiet, Passed, Answer
  <2> QED
    BY <1>1, <2>1 DEF Chain
<1>3. ASSUME NEW i \in 0..Len(q), NEW j \in Nat, Stop(q, i), Quiet(q, i, j)
      PROVE  /\ i + 1 \in 0..Len(ls) /\ Stop(ls, i + 1) /\ Quiet(ls, i + 1, j + 1)
             /\ Passed(ls, i + 1, c) = Passed(q, i, d)
  <2>1. i + 1 \in 0..Len(ls) /\ Stop(ls, i + 1) /\ Passed(ls, i + 1, c) = Passed(q, i, d)
    BY <1>1, <1>3 DEF Stop, Passed
  <2>2. ASSUME NEW k \in 1..Len(ls), i + 1 < k, k < j + 1 PROVE ls[k].id = 0
    <3>1. k - 1 \in 1..Len(q) /\ i < k - 1 /\ k - 1 < j
      BY <1>1, <2>2
    <3>2. q[k - 1].id = 0
      BY <3>1, <1>3 DEF Quiet
    <3>3. q[k - 1] = ls[(k - 1) + 1] /\ (k - 1) + 1 = k
      BY <3>1, <1>1
    <3> QED
      BY <3>2, <3>3
  <2>3. Quiet(ls, i + 1, j + 1)
    BY <2>2 DEF Quiet
  <2> QED
    BY <2>1, <2>3
<1> HIDE DEF d
<1>4. Chain(q, d)
  <2> SUFFICES ASSUME NEW i \in 0..Len(q), NEW j \in 1..Len(q),
                      i < j, Stop(q, i), Answer(q[j]), Quiet(q, i, j)
               PROVE  Before(q[j]) = Passed(q, i, d)
    BY DEF Chain
  <2>1. /\ i + 1 \in 0..Len(ls) /\ Stop(ls, i + 1) /\ Quiet(ls, i + 1, j + 1)
        /\ Passed(ls, i + 1, c) = Passed(q, i, d)
    BY <1>3
  <2>2. j + 1 \in 1..Len(ls) /\ q[j] = ls[j + 1] /\ i + 1 < j + 1
    BY <1>1
  <2> QED
    BY <2>1, <2>2 DEF Chain
<1>5. ASSUME EndsAt(ls, c, m) PROVE EndsAt(q, d, m)
  <2> SUFFICES ASSUME NEW i \in 0..Len(q), Stop(q, i), Quiet(q, i, Len(q) + 1)
               PROVE  Passed(q, i, d) = m
    BY DEF EndsAt
  <2>1. /\ i + 1 \in 0..Len(ls) /\ Stop(ls, i + 1) /\ Quiet(ls, i + 1, (Len(q) + 1) + 1)
        /\ Passed(ls, i + 1, c) = Passed(q, i, d)
    BY <1>1, <1>3
  <2>2. (Len(q) + 1) + 1 = Len(ls) + 1
    BY <1>1
  <2> QED
    BY <1>5, <2>1, <2>2 DEF EndsAt
<1> QED
  BY <1>2, <1>4, <1>5 DEF q, d

(* The modem sends the next line of the answer. *)
LEMMA ChainGrows ==
    ASSUME NEW ls \in Seq(Line), NEW l \in Line, NEW c \in Nat, NEW m \in Nat,
           Chain(ls, c), EndsAt(ls, c, m), l.id # 0, Before(l) = m
    PROVE  Chain(Append(ls, l), c) /\ EndsAt(Append(ls, l), c, l.n)
<1> DEFINE q == Append(ls, l)
           z == Len(ls) + 1
<1>1. /\ Len(ls) \in Nat /\ Len(q) = z /\ z \in 1..Len(q) /\ q[z] = l
      /\ \A i \in 1..Len(ls) : i \in 1..Len(q) /\ q[i] = ls[i]
      /\ \A i \in 1..Len(q) : i \in 1..Len(ls) \/ i = z
  BY AppendFacts
<1> HIDE DEF q
<1>2. ASSUME NEW i \in 0..Len(ls), NEW j \in 1..z
      PROVE  /\ Stop(q, i) <=> Stop(ls, i)
             /\ Quiet(q, i, j) => Quiet(ls, i, j)
             /\ Passed(q, i, c) = Passed(ls, i, c)
  BY <1>1 DEF Stop, Quiet, Passed
<1>3. Chain(q, c)
  <2> SUFFICES ASSUME NEW i \in 0..Len(q), NEW j \in 1..Len(q),
                      i < j, Stop(q, i), Answer(q[j]), Quiet(q, i, j)
               PROVE  Before(q[j]) = Passed(q, i, c)
    BY DEF Chain
  <2>1. i \in 0..Len(ls) /\ j \in 1..z
    BY <1>1
  <2>2. Stop(ls, i) /\ Quiet(ls, i, j) /\ Passed(q, i, c) = Passed(ls, i, c)
    BY <1>2, <2>1
  <2>3. CASE j = z
    BY <1>1, <2>1, <2>2, <2>3 DEF EndsAt
  <2>4. CASE j # z
    <3>1. j \in 1..Len(ls) /\ q[j] = ls[j]
      BY <1>1, <2>4
    <3> QED
      BY <2>1, <2>2, <3>1 DEF Chain
  <2> QED
    BY <2>3, <2>4
<1>4. EndsAt(q, c, l.n)
  <2> SUFFICES ASSUME NEW i \in 0..Len(q), Stop(q, i), Quiet(q, i, Len(q) + 1)
               PROVE  Passed(q, i, c) = l.n
    BY DEF EndsAt
  <2>1. i = z
    BY <1>1 DEF Quiet
  <2> QED
    BY <1>1, <2>1 DEF Passed
<1> QED
  BY <1>3, <1>4 DEF q

(* The modem sends an unsolicited line. *)
LEMMA ChainInterleaves ==
    ASSUME NEW ls \in Seq(Line), NEW l \in Line, NEW c \in Nat, NEW m \in Nat, l.id = 0
    PROVE  /\ Chain(ls, c) => Chain(Append(ls, l), c)
           /\ EndsAt(ls, c, m) => EndsAt(Append(ls, l), c, m)
<1> DEFINE q == Append(ls, l)
           z == Len(ls) + 1
<1>1. /\ Len(ls) \in Nat /\ Len(q) = z /\ z \in 1..Len(q) /\ q[z] = l
      /\ \A i \in 1..Len(ls) : i \in 1..Len(q) /\ q[i] = ls[i]
      /\ \A i \in 1..Len(q) : i \in 1..Len(ls) \/ i = z
  BY AppendFacts
<1> HIDE DEF q
<1>2. ASSUME NEW i \in 0..Len(ls), NEW j \in Nat
      PROVE  /\ Stop(q, i) <=> Stop(ls, i)
             /\ Quiet(q, i, j) => Quiet(ls, i, j)
             /\ Passed(q, i, c) = Passed(ls, i, c)
  BY <1>1 DEF Stop, Quiet, Passed
<1>3. \A i \in 0..Len(q) : Stop(q, i) => i \in 0..Len(ls)
  BY <1>1 DEF Stop
<1>4. ASSUME Chain(ls, c) PROVE Chain(q, c)
  <2> SUFFICES ASSUME NEW i \in 0..Len(q), NEW j \in 1..Len(q),
                      i < j, Stop(q, i), Answer(q[j]), Quiet(q, i, j)
               PROVE  Before(q[j]) = Passed(q, i, c)
    BY DEF Chain
  <2>1. i \in 0..Len(ls) /\ j \in 1..Len(ls) /\ q[j] = ls[j]
    BY <1>1, <1>3 DEF Answer
  <2>2. Stop(ls, i) /\ Quiet(ls, i, j) /\ Passed(q, i, c) = Passed(ls, i, c)
    BY <1>2, <2>1
  <2> QED
    BY <1>4, <2>1, <2>2 DEF Chain
<1>5. ASSUME EndsAt(ls, c, m) PROVE EndsAt(q, c, m)
  <2> SUFFICES ASSUME NEW i \in 0..Len(q), Stop(q, i), Quiet(q, i, Len(q) + 1)
               PROVE  Passed(q, i, c) = m
    BY DEF EndsAt
  <2>1. i \in 0..Len(ls)
    BY <1>3
  <2>2. Quiet(q, i, Len(ls) + 1)
    BY <1>1 DEF Quiet
  <2>3. Stop(ls, i) /\ Quiet(ls, i, Len(ls) + 1) /\ Passed(q, i, c) = Passed(ls, i, c)
    BY <1>1, <1>2, <2>1, <2>2
  <2> QED
    BY <1>5, <2>1, <2>3 DEF EndsAt
<1> QED
  BY <1>4, <1>5 DEF q

(* The last lines are lost. *)
LEMMA ChainCut ==
    ASSUME NEW ls \in Seq(Line), NEW k \in 0..Len(ls), NEW c \in Nat, Chain(ls, c)
    PROVE  Chain(SubSeq(ls, 1, k), c)
<1> DEFINE q == SubSeq(ls, 1, k)
<1>1. /\ Len(q) = k /\ k \in Nat /\ Len(ls) \in Nat /\ k <= Len(ls)
      /\ \A i \in 1..k : i \in 1..Len(ls) /\ q[i] = ls[i]
  BY PrefixFacts
<1> HIDE DEF q
<1> SUFFICES ASSUME NEW i \in 0..Len(q), NEW j \in 1..Len(q),
                    i < j, Stop(q, i), Answer(q[j]), Quiet(q, i, j)
             PROVE  Before(q[j]) = Passed(q, i, c)
  BY DEF Chain, q
<1>2. i \in 0..Len(ls) /\ j \in 1..Len(ls) /\ q[j] = ls[j]
  BY <1>1
<1>3. Stop(ls, i) /\ Passed(q, i, c) = Passed(ls, i, c)
  BY <1>1, <1>2 DEF Stop, Passed
<1>4. Quiet(ls, i, j)
  BY <1>1, <1>2 DEF Quiet
<1> QED
  BY <1>2, <1>3, <1>4 DEF Chain

(* Unsolicited lines: reading one ... *)
LEMMA UnsolReads ==
    ASSUME NEW ls \in Seq(Line), ls # <<>>, NEW us, NEW cut \in BOOLEAN,
           Ordered(ls), Paired(ls, cut), Fresh(ls, us)
    PROVE  Ordered(Tail(ls)) /\ Paired(Tail(ls), cut) /\ Fresh(Tail(ls), us)
<1> DEFINE q == Tail(ls)
<1>1. /\ Len(ls) \in Nat /\ Len(q) = Len(ls) - 1 /\ Len(q) \in Nat
      /\ \A i \in 1..Len(q) : i + 1 \in 1..Len(ls) /\ q[i] = ls[i + 1]
  BY TailFacts
<1> HIDE DEF q
<1>2. Ordered(q)
  BY <1>1 DEF Ordered
<1>3. Fresh(q, us)
  BY <1>1 DEF Fresh
<1>4. ASSUME NEW i \in 1..Len(q), q[i].text = "+CMT:"
      PROVE  /\ q[i].id = 0
             /\ \/ i = Len(q) /\ cut
                \/ i < Len(q) /\ q[i + 1].id = 0 /\ q[i + 1].text = "other"
  <2>1. i + 1 \in 1..Len(ls) /\ ls[i + 1].text = "+CMT:" /\ q[i] = ls[i + 1]
    BY <1>1, <1>4
  <2>2. /\ ls[i + 1].id = 0
        /\ \/ i + 1 = Len(ls) /\ cut
           \/ i + 1 < Len(ls) /\ ls[(i + 1) + 1].id = 0 /\ ls[(i + 1) + 1].text = "other"
    BY <2>1 DEF Paired
  <2>3. i + 1 < Len(ls) => i < Len(q) /\ i + 1 \in 1..Len(q) /\ q[i + 1] = ls[(i + 1) + 1]
    BY <1>1
  <2> QED
    BY <1>1, <2>1, <2>2, <2>3
<1> QED
  BY <1>2, <1>3, <1>4 DEF Paired, q

(* ... and giving it to the handler. *)
LEMMA UnsolDelivers ==
    ASSUME NEW ls \in Seq(Line), ls # <<>>, NEW us \in Seq(Nat \X Nat),
           Ordered(ls), Fresh(ls, us), ls[1].text # "+CMT:"
    PROVE  Fresh(Tail(ls), Append(us, <<ls[1].id, ls[1].n>>))
<1> DEFINE q == Tail(ls)
           e == <<ls[1].id, ls[1].n>>
           vs == Append(us, e)
<1>1. /\ Len(ls) \in Nat /\ Len(q) = Len(ls) - 1 /\ Len(q) \in Nat
      /\ \A i \in 1..Len(q) : i + 1 \in 1..Len(ls) /\ q[i] = ls[i + 1]
      /\ 1 \in 1..Len(ls) /\ ls[1] \in Line
  BY TailFacts
<1>2. e \in Nat \X Nat /\ e[1] = ls[1].id /\ e[2] = ls[1].n
  BY <1>1 DEF Line
<1>3. /\ Len(vs) = Len(us) + 1 /\ Len(us) \in Nat /\ vs[Len(us) + 1] = e
      /\ \A k \in 1..Len(us) : vs[k] = us[k]
  BY <1>2
<1> HIDE DEF q, e, vs
<1> SUFFICES ASSUME NEW i \in 1..Len(q), q[i].id = 0
             PROVE  /\ q[i].n <= nUnsol
                    /\ \A k \in 1..Len(vs) : vs[k][1] = 0 => vs[k][2] < q[i].n
  BY DEF Fresh, q, vs, e
<1>4. i + 1 \in 1..Len(ls) /\ q[i] = ls[i + 1] /\ 1 < i + 1
  BY <1>1
<1>5. ls[1].id = 0 => ls[1].n < q[i].n
  BY <1>1, <1>4 DEF Ordered
<1>6. /\ q[i].n <= nUnsol
      /\ \A k \in 1..Len(us) : us[k][1] = 0 => us[k][2] < q[i].n
  BY <1>4 DEF Fresh
<1>7. ASSUME NEW k \in 1..Len(vs), vs[k][1] = 0 PROVE vs[k][2] < q[i].n
  <2>1. CASE k \in 1..Len(us)
    BY <1>3, <1>6, <1>7, <2>1
  <2>2. CASE k = Len(us) + 1
    <3>1. vs[k] = e
      BY <1>3, <2>2
    <3> QED
      BY <1>2, <1>5, <1>7, <3>1
  <2> QED
    BY <1>3, <2>1, <2>2
<1> QED
  BY <1>6, <1>7

(* The modem sends a line of an answer ... *)
LEMMA UnsolAnswers ==
    ASSUME NEW ls \in Seq(Line), NEW l \in Line, NEW us, Ordered(ls), Paired(ls, FALSE),
           Fresh(ls, us), l.id # 0, l.text # "+CMT:"
    PROVE  Ordered(Append(ls, l)) /\ Paired(Append(ls, l), FALSE) /\ Fresh(Append(ls, l), us)
<1> DEFINE q == Append(ls, l)
<1>1. /\ Len(ls) \in Nat /\ Len(q) = Len(ls) + 1 /\ q[Len(ls) + 1] = l
      /\ \A i \in 1..Len(ls) : i \in 1..Len(q) /\ q[i] = ls[i]
      /\ \A i \in 1..Len(q) : i \in 1..Len(ls) \/ i = Len(ls) + 1
  BY AppendFacts
<1> HIDE DEF q
<1>2. Ordered(q)
  BY <1>1 DEF Ordered
<1>3. Fresh(q, us)
  BY <1>1 DEF Fresh
<1>4. Paired(q, FALSE)
  BY <1>1 DEF Paired
<1> QED
  BY <1>2, <1>3, <1>4 DEF q

(* ... or an unsolicited one. *)
LEMMA UnsolSends ==
    ASSUME NEW ls \in Seq(Line), NEW l \in Line, NEW us, Ordered(ls), l.id = 0,
           \A i \in 1..Len(ls) : ls[i].id = 0 =>
               ls[i].n < l.n \/ (i = Len(ls) /\ ls[i].text = "+CMT:")
    PROVE  Ordered(Append(ls, l))
<1> DEFINE q == Append(ls, l)
<1>1. /\ Len(ls) \in Nat /\ Len(q) = Len(ls) + 1 /\ q[Len(ls) + 1] = l
      /\ \A i \in 1..Len(ls) : i \in 1..Len(q) /\ q[i] = ls[i]
      /\ \A i \in 1..Len(q) : i \in 1..Len(ls) \/ i = Len(ls) + 1
  BY AppendFacts
<1> HIDE DEF q
<1>2. Ordered(q)
  BY <1>1 DEF Ordered
<1> QED
  BY <1>2 DEF q

(* The last lines are lost. *)
LEMMA UnsolCut ==
    ASSUME NEW ls \in Seq(Line), NEW k \in 0..Len(ls), NEW us, NEW cut \in BOOLEAN,
           Ordered(ls), Paired(ls, cut), Fresh(ls, us)
    PROVE  /\ Ordered(SubSeq(ls, 1, k)) /\ Paired(SubSeq(ls, 1, k), TRUE)
           /\ Fresh(SubSeq(ls, 1, k), us)
<1> DEFINE q == SubSeq(ls, 1, k)
<1>1. /\ Len(q) = k /\ k \in Nat /\ Len(ls) \in Nat /\ k <= Len(ls)
      /\ \A i \in 1..k : i \in 1..Len(ls) /\ q[i] = ls[i]
  BY PrefixFacts
<1> HIDE DEF q
<1>2. Ordered(q)
  BY <1>1 DEF Ordered
<1>3. Fresh(q, us)
  BY <1>1 DEF Fresh
<1>4. Paired(q, TRUE)
  BY <1>1 DEF Paired
<1> QED
  BY <1>2, <1>3, <1>4 DEF q

-----------------------------------------------------------------------------
(* The unconditional parts. *)

LEMMA SignalMoves ==
    ASSUME TypeOK, Signal \/ UNCHANGED pc
    PROVE  \A t \in Threads : pc'[t] = pc[t] \/ (pc[t] = "waiting" /\ pc'[t] = "woken")
BY DEF Signal, TypeOK

LEMMA ReaderMoves ==
    ASSUME Reader
    PROVE  (Signal \/ UNCHANGED pc) /\ UNCHANGED call
BY DEF Reader, processLine, handleFinalResponse, ReadSmsHeader, ReadSmsPdu, ReadEOF,
       onReaderClosed, at_close, threadVars

LEMMA ModemKept ==
    ASSUME ModemServes \/ ModemDrops \/ ModemUnsolicited \/ Hangup
    PROVE  ModemKeeps /\ ModemUp
BY DEF ModemServes, ModemPrompt, ModemIntermediate, ModemFinal, ModemDrops,
       ModemUnsolicited, Hangup, Answering

LEMMA NumberedThreads ==
    ASSUME TypeOK, CallsNumbered, [Next]_vars
    PROVE  \A t \in Threads : pc'[t] \notin {"idle", "opening"} => call'[t].id # 0
<1> DEFINE Good == \A t \in Threads : pc'[t] \notin {"idle", "opening"} => call'[t].id # 0
<1>0. pc \in [Threads -> ThreadStates] /\ call \in [Threads -> Call] /\ nCmd + 1 # 0
  BY ConstantsAssumption DEF TypeOK
<1>1. ASSUME NEW t \in Threads, CommandThread(t) PROVE Good
  <2>1. \E c : call' = [call EXCEPT ![t] = [cmd |-> c, id |-> nCmd + 1]]
    BY <1>1 DEF CommandThread, SendWhilePending, SendFails, SendAndWait, Entering,
                HandshakeStart
  <2>2. \A u \in Threads : u # t => pc'[u] = pc[u]
    BY <1>0, <1>1 DEF CommandThread, SendWhilePending, SendFails, SendAndWait, StartWaiting,
                      HandshakeStart
  <2> QED
    BY <1>0, <2>1, <2>2 DEF CallsNumbered
<1>2. ASSUME NEW t \in Threads, InsideCall(t) \/ SpuriousWake(t) \/ WaitExpires(t)
      PROVE  Good
  <2>1. pc[t] \notin {"idle", "opening"} /\ UNCHANGED call
    BY <1>2 DEF InsideCall, WakeToNull, WaitAgain, FinishCommand, HandshakeTryFails,
                HandshakeTrySends, Trying, Resuming, HandshakeTimesOut, HandshakeAnswered,
                HandshakeReturns, SpuriousWake, WaitExpires
  <2>2. \A u \in Threads : u # t => pc'[u] = pc[u]
    BY <1>0, <1>2 DEF InsideCall, WakeToNull, WaitAgain, FinishCommand, HandshakeTryFails,
                HandshakeTrySends, StartWaiting, HandshakeTimesOut, HandshakeAnswered,
                HandshakeReturns, SpuriousWake, WaitExpires
  <2> QED
    BY <2>1, <2>2 DEF CallsNumbered
<1>3. CASE Reader
  BY <1>3, ReaderMoves, SignalMoves DEF CallsNumbered
<1>4. CASE at_open \/ at_open_reset
  <2>1. UNCHANGED call /\ \A u \in Threads : u # Main => pc'[u] = pc[u]
    BY <1>0, <1>4 DEF at_open, at_open_reset
  <2>2. pc'[Main] \in {"idle", "opening"}
    BY <1>0, <1>4, ConstantsAssumption DEF at_open, at_open_reset
  <2> QED
    BY <2>1, <2>2 DEF CallsNumbered
<1>5. CASE ModemServes \/ ModemDrops \/ ModemUnsolicited \/ Hangup
  BY <1>5, ModemKept DEF ModemKeeps, threadVars, CallsNumbered
<1>6. CASE UNCHANGED vars
  BY <1>6 DEF vars, threadVars, CallsNumbered
<1> QED
  BY <1>1, <1>2, <1>3, <1>4, <1>5, <1>6 DEF Next

(* The modem's queue grows by the command of a thread inside a call. *)
LEMMA QueueSteps ==
    ASSUME TypeOK, CallsNumbered, [Next]_vars
    PROVE  \/ modem'.queue \in {modem.queue, <<>>}
           \/ modem.queue # <<>> /\ modem'.queue = Tail(modem.queue)
           \/ \E c \in Command, id \in Nat \ {0} :
                 modem'.queue = Append(modem.queue, [cmd |-> c, id |-> id])
<1>0. nCmd + 1 \in Nat \ {0}
  BY ConstantsAssumption DEF TypeOK
<1>1. ASSUME NEW t \in Threads, NEW c \in Command, NEW id \in Nat \ {0},
             StartWaiting(t, c, id)
      PROVE  \/ modem'.queue = modem.queue
             \/ modem'.queue = Append(modem.queue, [cmd |-> c, id |-> id])
  BY <1>1 DEF StartWaiting, TypeOK
<1>2. ASSUME NEW t \in Threads, CommandThread(t)
      PROVE  UNCHANGED modem \/ \E c \in Command, id \in Nat \ {0} : StartWaiting(t, c, id)
  <2>1. ASSUME NEW c \in Commands, SendWhilePending(t, c) \/ SendFails(t, c)
        PROVE  UNCHANGED modem
    BY <2>1 DEF SendWhilePending, SendFails
  <2>2. ASSUME NEW c \in Commands, SendAndWait(t, c)
        PROVE  c \in Command /\ StartWaiting(t, c, nCmd + 1)
    BY <2>2, CommandsAssumption DEF SendAndWait
  <2>3. CASE HandshakeStart(t)
    BY <2>3 DEF HandshakeStart, modemVars
  <2> QED
    BY <1>0, <1>2, <2>1, <2>2, <2>3 DEF CommandThread
<1>3. ASSUME NEW t \in Threads, InsideCall(t)
      PROVE  UNCHANGED modem \/ \E c \in Command, id \in Nat \ {0} : StartWaiting(t, c, id)
  <2>1. CASE HandshakeTrySends(t)
    <3>1. pc[t] = "hsTry" /\ StartWaiting(t, call[t].cmd, call[t].id)
      BY <2>1 DEF HandshakeTrySends, Trying
    <3>2. call[t].cmd \in Command /\ call[t].id \in Nat \ {0}
      BY <3>1 DEF TypeOK, Call, CallsNumbered
    <3> QED
      BY <3>1, <3>2
  <2>2. CASE ~HandshakeTrySends(t)
    BY <1>3, <2>2 DEF InsideCall, WakeToNull, WaitAgain, FinishCommand, HandshakeTryFails,
                Resuming, HandshakeTimesOut, HandshakeAnswered, HandshakeReturns, modemVars
  <2> QED
    BY <2>1, <2>2
<1>4. ASSUME NEW t \in Threads, SpuriousWake(t) \/ WaitExpires(t) PROVE UNCHANGED modem
  BY <1>4 DEF SpuriousWake, WaitExpires, modemVars
<1>5. ASSUME Reader PROVE modem'.queue = modem.queue
  BY <1>5 DEF Reader, processLine, writeCtrlZ, ReadSmsHeader, ReadSmsPdu, ReadEOF,
              onReaderClosed, at_close, modemVars, TypeOK
<1>6. ASSUME at_open \/ at_open_reset \/ Hangup
      PROVE  UNCHANGED modem \/ modem'.queue = <<>>
  BY <1>6 DEF at_open, at_open_reset, Hangup, IdleModem, modemVars
<1>7. ASSUME ModemServes \/ ModemDrops
      PROVE  \/ modem'.queue = modem.queue
             \/ modem.queue # <<>> /\ modem'.queue = Tail(modem.queue)
  BY <1>7 DEF ModemServes, ModemPrompt, ModemIntermediate, ModemFinal, ModemDrops, Answering,
              IdleModem, TypeOK
<1>8. ASSUME ModemUnsolicited \/ UNCHANGED vars PROVE UNCHANGED modem
  BY <1>8 DEF ModemUnsolicited, vars, modemVars
<1> QED
  BY <1>1, <1>2, <1>3, <1>4, <1>5, <1>6, <1>7, <1>8 DEF Next

LEMMA NumberedStep ==
    ASSUME TypeOK, CallsNumbered, [Next]_vars
    PROVE  CallsNumbered'
<1>0. modem.queue \in Seq(Call) /\ \A i \in 1..Len(modem.queue) : modem.queue[i].id # 0
  BY DEF TypeOK, CallsNumbered
<1>1. CASE modem'.queue \in {modem.queue, <<>>}
  BY <1>0, <1>1, NumberedThreads DEF CallsNumbered
<1>2. CASE modem.queue # <<>> /\ modem'.queue = Tail(modem.queue)
  <2>1. \A i \in 1..Len(Tail(modem.queue)) :
           i + 1 \in 1..Len(modem.queue) /\ Tail(modem.queue)[i] = modem.queue[i + 1]
    BY <1>0, <1>2
  <2> QED
    BY <1>0, <1>2, <2>1, NumberedThreads DEF CallsNumbered
<1>3. ASSUME NEW c \in Command, NEW id \in Nat \ {0},
             modem'.queue = Append(modem.queue, [cmd |-> c, id |-> id])
      PROVE  CallsNumbered'
  <2> DEFINE k == [cmd |-> c, id |-> id]
  <2>1. k \in Call /\ k.id # 0
    BY DEF Call
  <2> HIDE DEF k
  <2>2. \A i \in 1..Len(Append(modem.queue, k)) :
           \/ i \in 1..Len(modem.queue) /\ Append(modem.queue, k)[i] = modem.queue[i]
           \/ Append(modem.queue, k)[i] = k
    BY <1>0, <2>1
  <2>3. modem'.queue = Append(modem.queue, k)
    BY <1>3 DEF k
  <2> QED
    BY <1>0, <2>1, <2>2, <2>3, NumberedThreads DEF CallsNumbered
<1> QED
  BY <1>1, <1>2, <1>3, QueueSteps

LEMMA ClosedStep ==
    ASSUME TypeOK, ClosedInv, [Next]_vars
    PROVE  ClosedInv'
<1>1. ASSUME NEW t \in Threads,
             CommandThread(t) \/ InsideCall(t) \/ SpuriousWake(t) \/ WaitExpires(t)
      PROVE  ClosedInv'
  <2>1. UNCHANGED <<s_readerClosed, reader, lines, hungup>>
    BY <1>1 DEF CommandThread, SendWhilePending, SendFails, SendAndWait, Entering,
                HandshakeStart, InsideCall, WakeToNull, WaitAgain, FinishCommand,
                HandshakeTryFails, HandshakeTrySends, Trying, Resuming, HandshakeTimesOut,
                HandshakeAnswered, HandshakeReturns, SpuriousWake, WaitExpires, modemVars
  <2>2. hungup => UNCHANGED modem
    BY <1>1 DEF CommandThread, SendWhilePending, SendFails, SendAndWait, StartWaiting,
                HandshakeStart, InsideCall, WakeToNull, WaitAgain, FinishCommand,
                HandshakeTryFails, HandshakeTrySends, Resuming, HandshakeTimesOut,
                HandshakeAnswered, HandshakeReturns, SpuriousWake, WaitExpires, modemVars
  <2> QED
    BY <2>1, <2>2 DEF ClosedInv
<1>2. CASE processLine
  <2>1. UNCHANGED <<s_readerClosed, reader, hungup>> /\ lines # <<>> /\ reader = "reading"
    BY <1>2 DEF processLine
  <2>2. hungup => UNCHANGED modem
    BY <1>2 DEF processLine, writeCtrlZ
  <2> QED
    BY <2>1, <2>2 DEF ClosedInv
<1>3. CASE ReadSmsHeader \/ ReadSmsPdu
  BY <1>3 DEF ReadSmsHeader, ReadSmsPdu, ClosedInv
<1>4. CASE ReadEOF \/ onReaderClosed \/ at_close
  BY <1>4 DEF ReadEOF, onReaderClosed, at_close, modemVars, ClosedInv
<1>5. CASE at_open
  BY <1>5 DEF at_open, ClosedInv
<1>6. CASE at_open_reset
  BY <1>6 DEF at_open_reset, modemVars, ClosedInv
<1>7. CASE Hangup
  <2>1. lines = <<>> => lines' = <<>>
    <3> SUFFICES ASSUME lines = <<>> PROVE lines' = <<>>
      OBVIOUS
    <3>1. PICK k \in 0..Len(lines) : lines' = SubSeq(lines, 1, k)
      BY <1>7 DEF Hangup
    <3> QED
      BY <3>1
  <2>2. UNCHANGED <<s_readerClosed, reader>> /\ hungup' /\ modem' = IdleModem /\ ~hungup
    BY <1>7 DEF Hangup, ModemKeeps, ModemUp
  <2> QED
    BY <2>1, <2>2 DEF ClosedInv
<1>8. CASE ModemServes \/ ModemDrops \/ ModemUnsolicited
  <2>1. UNCHANGED <<s_readerClosed, reader, hungup>> /\ ~hungup
    BY <1>8, ModemKept DEF ModemKeeps, ModemUp, ModemServes, ModemPrompt,
       ModemIntermediate, ModemFinal, ModemDrops, ModemUnsolicited
  <2> QED
    BY <2>1 DEF ClosedInv
<1>9. CASE UNCHANGED vars
  BY <1>9 DEF vars, modemVars, ClosedInv
<1> QED
  BY <1>1, <1>2, <1>3, <1>4, <1>5, <1>6, <1>7, <1>8, <1>9 DEF Next, Reader

(* A disturbance is never forgotten, and neither is a mistake. *)
LEMMA ExpiredStays ==
    ASSUME [Next]_vars, expired
    PROVE  expired'
<1>1. ASSUME NEW t \in Threads, CommandThread(t) PROVE expired'
  BY <1>1 DEF CommandThread, SendWhilePending, SendFails, SendAndWait, Entering,
              HandshakeStart, history
<1>2. ASSUME NEW t \in Threads, InsideCall(t) PROVE expired'
  BY <1>2 DEF InsideCall, WakeToNull, WaitAgain, FinishCommand, HandshakeTryFails,
              HandshakeTrySends, HandshakeTimesOut, HandshakeAnswered, Trying, Resuming,
              HandshakeReturns
<1>3. ASSUME NEW t \in Threads, SpuriousWake(t) \/ WaitExpires(t) PROVE expired'
  BY <1>3 DEF SpuriousWake, WaitExpires, history
<1>4. CASE Reader
  BY <1>4 DEF Reader, processLine, ReadSmsHeader, ReadSmsPdu, ReadEOF, onReaderClosed,
              at_close, history
<1>5. CASE at_open \/ at_open_reset
  BY <1>5 DEF at_open, at_open_reset, history
<1>6. CASE ModemServes \/ ModemDrops \/ ModemUnsolicited \/ Hangup
  BY <1>6, ModemKept DEF ModemKeeps, history
<1>7. CASE UNCHANGED vars
  BY <1>7 DEF vars, history
<1> QED
  BY <1>1, <1>2, <1>3, <1>4, <1>5, <1>6, <1>7 DEF Next

LEMMA MistakenSteps ==
    ASSUME [Next]_vars
    PROVE  UNCHANGED mistaken \/ processLine
<1>1. ASSUME NEW t \in Threads, CommandThread(t) PROVE UNCHANGED mistaken
  BY <1>1 DEF CommandThread, SendWhilePending, SendFails, SendAndWait, Entering,
              HandshakeStart, history
<1>2. ASSUME NEW t \in Threads, InsideCall(t) PROVE UNCHANGED mistaken
  BY <1>2 DEF InsideCall, WakeToNull, WaitAgain, FinishCommand, HandshakeTryFails,
              HandshakeTrySends, HandshakeTimesOut, HandshakeAnswered, Trying, Resuming,
              HandshakeReturns
<1>3. ASSUME NEW t \in Threads, SpuriousWake(t) \/ WaitExpires(t) PROVE UNCHANGED mistaken
  BY <1>3 DEF SpuriousWake, WaitExpires, history
<1>4. CASE ReadSmsHeader \/ ReadSmsPdu \/ ReadEOF \/ onReaderClosed \/ at_close
  BY <1>4 DEF ReadSmsHeader, ReadSmsPdu, ReadEOF, onReaderClosed, at_close, history
<1>5. CASE at_open \/ at_open_reset
  BY <1>5 DEF at_open, at_open_reset, history
<1>6. CASE ModemServes \/ ModemDrops \/ ModemUnsolicited \/ Hangup
  BY <1>6, ModemKept DEF ModemKeeps, history
<1>7. CASE UNCHANGED vars
  BY <1>7 DEF vars, history
<1> QED
  BY <1>1, <1>2, <1>3, <1>4, <1>5, <1>6, <1>7 DEF Next, Reader

LEMMA DisturbedStays ==
    ASSUME TypeOK, [Next]_vars
    PROVE  /\ Undisturbed' => Undisturbed
           /\ NoneCutShort' => NoneCutShort
           /\ Exact' => Exact /\ NoneCutShort'
<1>1. Undisturbed' => Undisturbed
  BY RacedStays, ExpiredStays DEF Undisturbed
<1>2. mistaken \subseteq mistaken'
  BY MistakenSteps DEF processLine
<1> QED
  BY <1>1, <1>2 DEF NoneCutShort, Exact

-----------------------------------------------------------------------------
(* The unsolicited lines keep their order whatever else goes wrong. *)

LEMMA UnsolKept ==
    ASSUME UnsolInv, UNCHANGED <<lines, hungup, unsol, nUnsol>>,
           reader' = "smsPdu" => reader = "smsPdu"
    PROVE  UnsolInv'
BY DEF UnsolInv, Fresh, Ordered, Paired

(* What reading a line leaves of the lines' own order. *)
LEMMA FirstRead ==
    ASSUME TypeOK, UnsolInv, lines # <<>>, lines' = Tail(lines),
           UNCHANGED <<hungup, nUnsol>>
    PROVE  /\ lines' \in Seq(Line)
           /\ Ordered(lines)' /\ Paired(lines, hungup)' /\ Fresh(lines', unsol)
           /\ Len(lines') \in Nat
           /\ \A i \in 1..Len(lines') : i + 1 \in 1..Len(lines) /\ lines'[i] = lines[i + 1]
<1>1. lines \in Seq(Line) /\ hungup \in BOOLEAN
  BY DEF TypeOK
<1>2. /\ Tail(lines) \in Seq(Line) /\ Len(Tail(lines)) \in Nat
      /\ \A i \in 1..Len(Tail(lines)) :
            i + 1 \in 1..Len(lines) /\ Tail(lines)[i] = lines[i + 1]
  BY <1>1, TailFacts
<1>3. Ordered(lines) /\ Paired(lines, hungup) /\ Fresh(lines, unsol)
  BY DEF UnsolInv
<1>4. /\ Ordered(Tail(lines)) /\ Paired(Tail(lines), hungup)
      /\ Fresh(Tail(lines), unsol)
  BY <1>1, <1>3, UnsolReads
<1> QED
  BY <1>2, <1>4 DEF Ordered, Paired

(* The reader keeps a line for the response ... *)
LEMMA UnsolRead ==
    ASSUME TypeOK, UnsolInv, lines # <<>>, lines' = Tail(lines),
           UNCHANGED <<hungup, nUnsol, unsol>>, reader' # "smsPdu"
    PROVE  UnsolInv'
<1>1. Ordered(lines)' /\ Paired(lines, hungup)' /\ Fresh(lines', unsol)
  BY FirstRead
<1> QED
  BY <1>1 DEF UnsolInv, Fresh

(* ... or hands it to the handler. *)
LEMMA UnsolHanded ==
    ASSUME TypeOK, UnsolInv, lines # <<>>, lines' = Tail(lines), lines[1].text # "+CMT:",
           unsol' = Append(unsol, <<lines[1].id, lines[1].n>>),
           UNCHANGED <<hungup, nUnsol>>, reader' # "smsPdu"
    PROVE  UnsolInv'
<1>1. Ordered(lines)' /\ Paired(lines, hungup)'
  BY FirstRead
<1>2. lines \in Seq(Line) /\ unsol \in Seq(Nat \X Nat) /\ Ordered(lines) /\ Fresh(lines, unsol)
  BY DEF TypeOK, UnsolInv
<1>3. Fresh(lines', unsol')
  BY <1>2, UnsolDelivers
<1>4. \A k \in 1..Len(unsol') : unsol'[k][1] = 0 => unsol'[k][2] <= nUnsol
  <2> DEFINE e == <<lines[1].id, lines[1].n>>
  <2>1. lines[1] \in Line /\ (lines[1].id = 0 => lines[1].n <= nUnsol)
    BY <1>2, TailFacts DEF Fresh
  <2>2. e \in Nat \X Nat /\ (e[1] = 0 => e[2] <= nUnsol)
    BY <2>1 DEF Line
  <2>3. /\ Len(unsol') = Len(unsol) + 1 /\ Len(unsol) \in Nat /\ unsol'[Len(unsol) + 1] = e
        /\ \A k \in 1..Len(unsol) : unsol'[k] = unsol[k]
    BY <1>2, <2>2
  <2> HIDE DEF e
  <2>4. \A k \in 1..Len(unsol) : unsol[k][1] = 0 => unsol[k][2] <= nUnsol
    BY DEF UnsolInv
  <2> SUFFICES ASSUME NEW k \in 1..Len(unsol')
               PROVE  unsol'[k][1] = 0 => unsol'[k][2] <= nUnsol
    OBVIOUS
  <2>5. CASE k \in 1..Len(unsol)
    BY <2>3, <2>4, <2>5
  <2>6. CASE k = Len(unsol) + 1
    BY <2>2, <2>3, <2>6
  <2> QED
    BY <2>3, <2>5, <2>6
<1> QED
  BY <1>1, <1>3, <1>4 DEF UnsolInv, Fresh

(* What processLine does with the first line, wherever it goes. *)
LEMMA LineRoutes ==
    ASSUME TypeOK, processLine
    PROVE  /\ lines # <<>> /\ lines' = Tail(lines) /\ Head(lines) = lines[1]
           /\ lines[1] \in Line /\ lines[1].text # "+CMT:" /\ reader = "reading"
           /\ UNCHANGED <<s_type, s_responsePrefix, call, result, reader, hungup, nUnsol>>
           /\ \/ /\ Route(lines[1]) = "unsolicited"
                 /\ unsol' = Append(unsol, <<lines[1].id, lines[1].n>>)
                 /\ UNCHANGED <<sp_response, s_smsPDU, pdus, modem>>
              \/ /\ Route(lines[1]) = "final"
                 /\ sp_response' = [sp_response EXCEPT !.final = lines[1],
                                        !.success = isFinalResponseSuccess(lines[1])]
                 /\ UNCHANGED <<s_smsPDU, unsol, pdus, modem>>
              \/ /\ Route(lines[1]) = "prompt"
                 /\ pdus' = pdus \cup {<<s_smsPDU, lines[1].id>>}
                 /\ modem' = IF hungup THEN modem ELSE [modem EXCEPT !.pdu = "received"]
                 /\ s_smsPDU' = NULL
                 /\ UNCHANGED <<sp_response, unsol>>
              \/ /\ Route(lines[1]) = "intermediate"
                 /\ sp_response' = [sp_response EXCEPT !.inter = <<lines[1]>> \o @]
                 /\ UNCHANGED <<s_smsPDU, unsol, pdus, modem>>
           /\ mistaken' = mistaken \cup (IF lines[1].id = 0
                                         THEN {Route(lines[1])} \ {"unsolicited"} ELSE {})
<1>1. lines # <<>> /\ lines' = Tail(lines) /\ ~isSMSUnsolicited(Head(lines))
  BY DEF processLine
<1>2. Head(lines) = lines[1] /\ lines[1] \in Line
  BY <1>1, TailFacts DEF TypeOK
<1>3. lines[1].text # "+CMT:"
  BY <1>1, <1>2 DEF isSMSUnsolicited
<1>4. reader = "reading"
      /\ UNCHANGED <<s_type, s_responsePrefix, call, result, reader, hungup, nUnsol>>
  BY DEF processLine
<1>5. mistaken' = mistaken \cup (IF lines[1].id = 0
                                 THEN {Route(lines[1])} \ {"unsolicited"} ELSE {})
  BY <1>2 DEF processLine
<1>6. \/ /\ Route(lines[1]) = "unsolicited"
         /\ unsol' = Append(unsol, <<lines[1].id, lines[1].n>>)
         /\ UNCHANGED <<sp_response, s_smsPDU, pdus, modem>>
      \/ /\ Route(lines[1]) = "final"
         /\ sp_response' = [sp_response EXCEPT !.final = lines[1],
                                !.success = isFinalResponseSuccess(lines[1])]
         /\ UNCHANGED <<s_smsPDU, unsol, pdus, modem>>
      \/ /\ Route(lines[1]) = "prompt"
         /\ pdus' = pdus \cup {<<s_smsPDU, lines[1].id>>}
         /\ modem' = IF hungup THEN modem ELSE [modem EXCEPT !.pdu = "received"]
         /\ s_smsPDU' = NULL
         /\ UNCHANGED <<sp_response, unsol>>
      \/ /\ Route(lines[1]) = "intermediate"
         /\ sp_response' = [sp_response EXCEPT !.inter = <<lines[1]>> \o @]
         /\ UNCHANGED <<s_smsPDU, unsol, pdus, modem>>
  BY <1>2 DEF processLine, handleUnsolicited, handleFinalResponse, writeCtrlZ,
              addIntermediate
<1> QED
  BY <1>1, <1>2, <1>3, <1>4, <1>5, <1>6

(* The header of an SMS indication, and the line after it. *)
LEMMA HeaderRead ==
    ASSUME TypeOK, UnsolInv, ReadSmsHeader
    PROVE  /\ lines # <<>> /\ lines' = Tail(lines) /\ lines[1].id = 0
           /\ UNCHANGED <<pendingVars, modem, hungup, nUnsol, call, unsol, mistaken>>
           /\ UnsolInv'
<1>1. /\ lines # <<>> /\ lines' = Tail(lines) /\ Head(lines).text = "+CMT:"
      /\ UNCHANGED <<pendingVars, modem, hungup, nUnsol, call, unsol, mistaken>>
  BY DEF ReadSmsHeader, isSMSUnsolicited, threadVars, history
<1>2. /\ lines \in Seq(Line) /\ Head(lines) = lines[1] /\ 1 \in 1..Len(lines)
      /\ Len(lines) \in Nat \ {0} /\ lines[1] \in Line
  BY <1>1, TailFacts DEF TypeOK
<1>3. /\ lines[1].id = 0
      /\ \/ 1 = Len(lines) /\ hungup
         \/ 1 < Len(lines) /\ lines[1 + 1].id = 0 /\ lines[1 + 1].text = "other"
  BY <1>1, <1>2 DEF UnsolInv, Paired
<1>4. /\ Ordered(lines)' /\ Paired(lines, hungup)' /\ Fresh(lines', unsol)
      /\ Len(lines') \in Nat
  BY <1>1, FirstRead
<1>5. \/ lines' = <<>> /\ hungup
      \/ lines' # <<>> /\ lines'[1].id = 0 /\ lines'[1].text = "other"
  <2>1. 1 = Len(lines) => lines' = <<>>
    BY <1>1, <1>2
  <2>2. 1 < Len(lines) => lines' # <<>> /\ lines'[1] = lines[1 + 1]
    <3>1. /\ Len(lines') = Len(lines) - 1
          /\ \A i \in 1..Len(lines') : lines'[i] = lines[i + 1]
      BY <1>1, <1>2, TailFacts
    <3>2. 1 < Len(lines) => 1 \in 1..Len(lines') /\ Len(lines') # 0
      BY <1>2, <3>1
    <3> QED
      BY <3>1, <3>2
  <2> QED
    BY <1>3, <2>1, <2>2
<1>6. UnsolInv'
  BY <1>1, <1>4, <1>5 DEF UnsolInv, Fresh
<1> QED
  BY <1>1, <1>3, <1>6

LEMMA PduRead ==
    ASSUME TypeOK, UnsolInv, ReadSmsPdu
    PROVE  /\ lines # <<>> /\ lines' = Tail(lines) /\ lines[1].id = 0
           /\ unsol' = Append(unsol, <<lines[1].id, lines[1].n>>)
           /\ UNCHANGED <<pendingVars, modem, hungup, nUnsol, call, mistaken>>
           /\ UnsolInv'
<1>1. /\ reader = "smsPdu" /\ lines # <<>> /\ lines' = Tail(lines) /\ reader' = "reading"
      /\ unsol' = Append(unsol, <<Head(lines).id, Head(lines).n>>)
      /\ UNCHANGED <<pendingVars, modem, hungup, nUnsol, call, mistaken>>
  BY DEF ReadSmsPdu, handleUnsolicited, threadVars
<1>2. lines[1].id = 0 /\ lines[1].text = "other" /\ Head(lines) = lines[1]
  BY <1>1, TailFacts DEF UnsolInv, TypeOK
<1>3. UnsolInv'
  BY <1>1, <1>2, UnsolHanded
<1> QED
  BY <1>1, <1>2, <1>3

(* The texts of the lines of an answer are not those that end it, ask for   *)
(* the PDU or announce an SMS.                                              *)
LEMMA InterIsPlain ==
    ASSUME NEW c \in Command, c.type # "NO_RESULT", NEW x \in InterTexts(c)
    PROVE  x \in Texts /\ x \notin {"OK", "ERROR", "> ", "+CMT:"}
<1>1. c.type \in {"NUMERIC", "SINGLELINE", "MULTILINE"}
  BY DEF Command, ATCommandType
<1>2. c.type # "NUMERIC" =>
         c.prefix \in Prefixes /\ c.prefix \notin {"ERROR", "> ", "+CMT:"}
  BY <1>1, PrefixesAssumption DEF Command
<1>3. CASE c.type = "NUMERIC"
  BY <1>3 DEF InterTexts, Texts
<1>4. CASE c.type # "NUMERIC" /\ c.prefix = AnyLine
  BY <1>4 DEF InterTexts, Texts
<1>5. CASE c.type # "NUMERIC" /\ c.prefix # AnyLine
  BY <1>2, <1>5 DEF InterTexts, Texts
<1> QED
  BY <1>3, <1>4, <1>5

(* What the modem sends for a command. *)
LEMMA AnswerSent ==
    ASSUME TypeOK, CallsNumbered, ModemServes
    PROVE  /\ Answering /\ ModemKeeps /\ hungup = FALSE /\ UNCHANGED <<hungup, nUnsol>>
           /\ Answered \in Call /\ Answered.id \in Nat \ {0} /\ modem.n \in Nat
           /\ \E l \in Line :
                /\ lines' = Append(lines, l) /\ l.id = Answered.id /\ l.text # "+CMT:"
                /\ \/ /\ Answered.cmd.pdu /\ modem.pdu = "none" /\ Prompt(l) /\ ~Final(l)
                      /\ l.n = 0 /\ modem' = [modem EXCEPT !.pdu = "prompted"]
                   \/ /\ l.text \in InterTexts(Answered.cmd) /\ ~Prompt(l) /\ ~Final(l)
                      /\ l.n = modem.n + 1 /\ l.n <= InterLimit(Answered.cmd.type)
                      /\ Answered.cmd.pdu => modem.pdu = "received"
                      /\ modem' = [modem EXCEPT !.n = @ + 1]
                   \/ /\ Final(l) /\ ~Prompt(l) /\ l.n = modem.n /\ modem.pdu # "prompted"
                      /\ modem' = [IdleModem EXCEPT !.queue = Tail(modem.queue)]
<1>1. Answering /\ ModemKeeps /\ hungup = FALSE /\ UNCHANGED <<hungup, nUnsol>>
  BY DEF ModemServes, ModemPrompt, ModemIntermediate, ModemFinal, Answering, ModemUp, TypeOK
<1>2. Answered \in Call /\ modem.n \in Nat /\ Answered.cmd \in Command
  BY <1>1, ModemFieldTypes DEF Call
<1>3. Answered.id \in Nat \ {0}
  <2>1. modem.queue \in Seq(Call) /\ modem.queue # <<>>
    BY <1>1 DEF TypeOK, Answering
  <2>2. 1 \in 1..Len(modem.queue) /\ Head(modem.queue) = modem.queue[1]
    BY <2>1
  <2> QED
    BY <1>2, <2>2 DEF CallsNumbered, Answered, Call
<1>4. CASE ModemPrompt
  <2> DEFINE l == [text |-> "> ", id |-> Answered.id, n |-> 0]
  <2>1. /\ lines' = Append(lines, l) /\ Answered.cmd.pdu /\ modem.pdu = "none"
        /\ modem' = [modem EXCEPT !.pdu = "prompted"]
    BY <1>4 DEF ModemPrompt, Emit
  <2>2. /\ l \in Line /\ l.id = Answered.id /\ l.text = "> " /\ l.n = 0
    BY <1>3 DEF Line, Texts
  <2> HIDE DEF l
  <2>3. Prompt(l) /\ ~Final(l) /\ l.text # "+CMT:"
    BY <2>2 DEF Prompt, Final
  <2> QED
    BY <1>1, <1>2, <1>3, <2>1, <2>2, <2>3
<1>5. CASE ModemIntermediate
  <2>1. /\ modem.n < InterLimit(Answered.cmd.type)
        /\ Answered.cmd.pdu => modem.pdu = "received"
        /\ modem' = [modem EXCEPT !.n = @ + 1]
    BY <1>5 DEF ModemIntermediate
  <2>2. PICK x \in InterTexts(Answered.cmd) :
           lines' = Append(lines, [text |-> x, id |-> Answered.id, n |-> modem.n + 1])
    BY <1>5 DEF ModemIntermediate, Emit
  <2> DEFINE l == [text |-> x, id |-> Answered.id, n |-> modem.n + 1]
  <2>3. Answered.cmd.type # "NO_RESULT"
    BY <1>2, <2>1 DEF InterLimit
  <2>4. x \in Texts /\ x \notin {"OK", "ERROR", "> ", "+CMT:"}
    BY <1>2, <2>3, InterIsPlain
  <2>5. /\ l \in Line /\ l.id = Answered.id /\ l.text = x /\ l.n = modem.n + 1
    <3>1. Answered.id \in Nat /\ modem.n + 1 \in Nat
      BY <1>2, <1>3
    <3>2. x \in Texts
      BY <2>4
    <3> QED
      BY <3>1, <3>2 DEF Line
  <2>6. lines' = Append(lines, l)
    BY <2>2
  <2> HIDE DEF l
  <2>7. InterLimit(Answered.cmd.type) \in Nat
    BY <1>2, ConstantsAssumption DEF InterLimit, Command, ATCommandType
  <2>8. l.n <= InterLimit(Answered.cmd.type)
    BY <1>2, <2>1, <2>5, <2>7
  <2>9. ~Prompt(l) /\ ~Final(l) /\ l.text # "+CMT:"
    BY <2>4, <2>5 DEF Prompt, Final
  <2> QED
    BY <1>1, <1>2, <1>3, <2>1, <2>5, <2>6, <2>8, <2>9
<1>6. CASE ModemFinal
  <2>1. modem.pdu # "prompted" /\ modem' = [IdleModem EXCEPT !.queue = Tail(modem.queue)]
    BY <1>6 DEF ModemFinal
  <2>2. PICK x \in {"OK", "ERROR"} :
           lines' = Append(lines, [text |-> x, id |-> Answered.id, n |-> modem.n])
    BY <1>6 DEF ModemFinal, Emit
  <2> DEFINE l == [text |-> x, id |-> Answered.id, n |-> modem.n]
  <2>3. /\ l \in Line /\ l.id = Answered.id /\ l.text = x /\ l.n = modem.n
    <3>1. x \in Texts
      BY DEF Texts
    <3> QED
      BY <1>2, <1>3, <3>1 DEF Line
  <2>4. lines' = Append(lines, l)
    BY <2>2
  <2> HIDE DEF l
  <2>5. ~Prompt(l) /\ Final(l) /\ l.text # "+CMT:"
    BY <2>3 DEF Prompt, Final
  <2> QED
    BY <1>1, <1>2, <1>3, <2>1, <2>3, <2>4, <2>5
<1> QED
  BY <1>4, <1>5, <1>6 DEF ModemServes

LEMMA UnsolAnswered ==
    ASSUME TypeOK, CallsNumbered, UnsolInv, ModemServes
    PROVE  UnsolInv'
<1>1. PICK l \in Line : lines' = Append(lines, l) /\ l.id # 0 /\ l.text # "+CMT:"
  BY AnswerSent
<1>2. hungup = FALSE /\ UNCHANGED <<unsol, reader, hungup, nUnsol>>
  BY AnswerSent DEF ModemKeeps, history
<1>3. /\ lines \in Seq(Line) /\ Len(lines) \in Nat /\ Len(lines') = Len(lines) + 1
      /\ \A i \in 1..Len(lines) : i \in 1..Len(lines') /\ lines'[i] = lines[i]
  BY <1>1, AppendFacts DEF TypeOK
<1>4. Ordered(lines) /\ Paired(lines, FALSE) /\ Fresh(lines, unsol)
  BY <1>2 DEF UnsolInv, Paired
<1>5. Ordered(lines') /\ Paired(lines', FALSE) /\ Fresh(lines', unsol)
  BY <1>1, <1>3, <1>4, UnsolAnswers
<1>6. Ordered(lines)' /\ Paired(lines, hungup)' /\ Fresh(lines, unsol)'
  BY <1>2, <1>5 DEF Ordered, Paired, Fresh
<1>7. reader = "smsPdu" => lines # <<>> /\ lines[1].id = 0 /\ lines[1].text = "other"
  BY <1>2 DEF UnsolInv
<1>8. lines # <<>> => 1 \in 1..Len(lines) /\ lines' # <<>>
  BY <1>3
<1> QED
  BY <1>2, <1>3, <1>6, <1>7, <1>8 DEF UnsolInv

(* What it sends of its own accord: one line, or the two of an SMS.         *)
LEMMA UnsolSent ==
    ASSUME TypeOK, ModemUnsolicited
    PROVE  /\ ModemKeeps /\ UNCHANGED <<modem, hungup>> /\ nUnsol' = nUnsol + 1
           /\ hungup = FALSE
           /\ \E u, v \in Line :
                /\ u.id = 0 /\ u.n = nUnsol + 1
                /\ v.id = 0 /\ v.n = nUnsol + 1 /\ v.text = "other"
                /\ \/ u.text # "+CMT:" /\ lines' = Append(lines, u)
                   \/ u.text = "+CMT:" /\ lines' = Append(Append(lines, u), v)
<1>0. lines \in Seq(Line) /\ nUnsol \in Nat
  BY ConstantsAssumption DEF TypeOK
<1>1. /\ ModemKeeps /\ UNCHANGED <<modem, hungup>> /\ nUnsol' = nUnsol + 1 /\ hungup = FALSE
  BY DEF ModemUnsolicited, ModemUp, TypeOK
<1>2. PICK text \in UnsolTexts :
         LET u == [text |-> text, id |-> 0, n |-> nUnsol + 1]
         IN  lines' = lines \o (IF text = "+CMT:" THEN <<u, [u EXCEPT !.text = "other"]>>
                                ELSE <<u>>)
  BY DEF ModemUnsolicited
<1> DEFINE u == [text |-> text, id |-> 0, n |-> nUnsol + 1]
           v == [text |-> "other", id |-> 0, n |-> nUnsol + 1]
<1>3. /\ u \in Line /\ u.id = 0 /\ u.n = nUnsol + 1 /\ u.text = text
      /\ v \in Line /\ v.id = 0 /\ v.n = nUnsol + 1 /\ v.text = "other"
      /\ [u EXCEPT !.text = "other"] = v
  <2>1. text \in Texts /\ "other" \in Texts
    BY UnsolTextsAssumption DEF Texts
  <2>2. 0 \in Nat /\ nUnsol + 1 \in Nat
    BY <1>0
  <2>3. u \in Line
    BY <2>1, <2>2 DEF Line
  <2>4. v \in Line
    BY <2>1, <2>2 DEF Line
  <2>5. [u EXCEPT !.text = "other"] = v
    OBVIOUS
  <2> QED
    BY <2>3, <2>4, <2>5
<1>4. \/ u.text # "+CMT:" /\ lines' = lines \o <<u>>
      \/ u.text = "+CMT:" /\ lines' = lines \o <<u, v>>
  BY <1>2, <1>3
<1> HIDE DEF u, v
<1>5. lines \o <<u>> = Append(lines, u)
  BY <1>0, <1>3
<1>6. lines \o <<u, v>> = Append(Append(lines, u), v)
  BY <1>0, <1>3
<1>7. \/ u.text # "+CMT:" /\ lines' = Append(lines, u)
      \/ u.text = "+CMT:" /\ lines' = Append(Append(lines, u), v)
  BY <1>4, <1>5, <1>6
<1> QED
  BY <1>1, <1>3, <1>7

LEMMA UnsolJoins ==
    ASSUME TypeOK, UnsolInv, ModemUnsolicited
    PROVE  UnsolInv'
<1>0. /\ lines \in Seq(Line) /\ nUnsol \in Nat /\ Len(lines) \in Nat
      /\ unsol \in Seq(Nat \X Nat) /\ Len(unsol) \in Nat
  BY ConstantsAssumption DEF TypeOK
<1>1. nUnsol' = nUnsol + 1 /\ hungup = FALSE /\ UNCHANGED <<unsol, reader, hungup>>
  BY UnsolSent DEF ModemKeeps, history
<1>2. PICK u \in Line, v \in Line :
                /\ u.id = 0 /\ u.n = nUnsol + 1
                /\ v.id = 0 /\ v.n = nUnsol + 1 /\ v.text = "other"
                /\ \/ u.text # "+CMT:" /\ lines' = Append(lines, u)
                   \/ u.text = "+CMT:" /\ lines' = Append(Append(lines, u), v)
  BY UnsolSent
<1> DEFINE q == Append(lines, u)
           r == Append(q, v)
<1>3. /\ q \in Seq(Line) /\ Len(q) = Len(lines) + 1 /\ q[Len(lines) + 1] = u
      /\ \A i \in 1..Len(lines) : i \in 1..Len(q) /\ q[i] = lines[i]
      /\ \A i \in 1..Len(q) : i \in 1..Len(lines) \/ i = Len(lines) + 1
  BY <1>0, AppendFacts
<1>4. /\ r \in Seq(Line) /\ Len(r) = Len(q) + 1 /\ r[Len(q) + 1] = v
      /\ \A i \in 1..Len(q) : i \in 1..Len(r) /\ r[i] = q[i]
      /\ \A i \in 1..Len(r) : i \in 1..Len(q) \/ i = Len(q) + 1
  BY <1>3, AppendFacts
<1>5. \A i \in 1..Len(lines) : lines[i].n \in Nat
  <2>1. \A i \in 1..Len(lines) : lines[i] \in Line
    BY <1>0
  <2> QED
    BY <2>1 DEF Line
<1>6. Ordered(q) /\ (u.text = "+CMT:" => Ordered(r))
  <2>1. \A i \in 1..Len(lines) : lines[i].id = 0 => lines[i].n < nUnsol + 1
    <3>1. \A i \in 1..Len(lines) : lines[i].id = 0 => lines[i].n <= nUnsol
      BY DEF UnsolInv, Fresh
    <3> QED
      BY <1>0, <1>5, <3>1
  <2>2. Ordered(lines)
    BY DEF UnsolInv
  <2>3. Ordered(q)
    BY <1>0, <1>2, <2>1, <2>2, UnsolSends
  <2>4. \A i \in 1..Len(q) : q[i].id = 0 =>
           q[i].n < v.n \/ (i = Len(q) /\ q[i].text = u.text)
    BY <1>2, <1>3, <2>1
  <2> HIDE DEF q
  <2>5. u.text = "+CMT:" => Ordered(Append(q, v))
    BY <1>2, <1>3, <2>3, <2>4, UnsolSends
  <2> QED
    BY <2>3, <2>5
<1>7. ASSUME NEW i \in 1..Len(lines), lines[i].id = 0
      PROVE  /\ lines[i].n <= nUnsol'
             /\ \A k \in 1..Len(unsol) : unsol[k][1] = 0 => unsol[k][2] < lines[i].n
  <2>1. /\ lines[i].n <= nUnsol
        /\ \A k \in 1..Len(unsol) : unsol[k][1] = 0 => unsol[k][2] < lines[i].n
    BY <1>7 DEF UnsolInv, Fresh
  <2>2. lines[i].n \in Nat
    BY <1>5
  <2> QED
    BY <1>0, <1>1, <2>1, <2>2
<1>8. \A k \in 1..Len(unsol) : unsol[k][1] = 0 =>
         unsol[k][2] < nUnsol + 1 /\ unsol[k][2] <= nUnsol'
  <2>1. \A k \in 1..Len(unsol) : (unsol[k][1] = 0 => unsol[k][2] <= nUnsol)
                                  /\ unsol[k][2] \in Nat
    BY <1>0 DEF UnsolInv
  <2> QED
    BY <1>0, <1>1, <2>1
<1>9. \A i \in 1..Len(lines) : lines[i].text = "+CMT:" =>
         /\ lines[i].id = 0
         /\ i < Len(lines) /\ lines[i + 1].id = 0 /\ lines[i + 1].text = "other"
  BY <1>1 DEF UnsolInv, Paired
<1>10. reader = "smsPdu" => lines # <<>> /\ lines[1].id = 0 /\ lines[1].text = "other"
  BY <1>1 DEF UnsolInv
<1>11. lines # <<>> => 1 \in 1..Len(lines)
  BY <1>0
<1> HIDE DEF q, r
<1>12. CASE u.text # "+CMT:"
  <2>1. lines' = q
    BY <1>2, <1>12 DEF q
  <2>2. Fresh(lines, unsol)'
    <3> SUFFICES ASSUME NEW i \in 1..Len(q), q[i].id = 0
                 PROVE  /\ q[i].n <= nUnsol'
                        /\ \A k \in 1..Len(unsol) : unsol[k][1] = 0 => unsol[k][2] < q[i].n
      BY <1>1, <2>1 DEF Fresh
    <3>1. CASE i \in 1..Len(lines)
      BY <1>3, <1>7, <3>1
    <3>2. CASE i = Len(lines) + 1
      BY <1>0, <1>1, <1>2, <1>3, <1>8, <3>2
    <3> QED
      BY <1>3, <3>1, <3>2
  <2>3. Paired(lines, hungup)'
    BY <1>2, <1>3, <1>9, <1>12, <2>1 DEF Paired
  <2>4. Ordered(lines)'
    BY <1>6, <2>1 DEF Ordered
  <2>5. lines # <<>> => lines' # <<>> /\ lines'[1] = lines[1]
    BY <1>0, <1>3, <1>11, <2>1
  <2> QED
    BY <1>1, <1>8, <1>10, <2>1, <2>2, <2>3, <2>4, <2>5 DEF UnsolInv
<1>13. CASE u.text = "+CMT:"
  <2>1. lines' = r
    BY <1>2, <1>13 DEF r, q
  <2>2. /\ Len(r) = Len(lines) + 2 /\ r[Len(lines) + 1] = u /\ r[Len(lines) + 2] = v
        /\ \A i \in 1..Len(lines) : r[i] = lines[i]
        /\ \A i \in 1..Len(r) : i \in 1..Len(lines) \/ i = Len(lines) + 1
                                \/ i = Len(lines) + 2
    <3>1. Len(q) + 1 = Len(lines) + 2 /\ Len(lines) + 1 \in 1..Len(q)
      BY <1>0, <1>3
    <3>2. Len(r) = Len(lines) + 2 /\ r[Len(lines) + 2] = v /\ r[Len(lines) + 1] = u
      BY <1>3, <1>4, <3>1
    <3>3. \A i \in 1..Len(lines) : r[i] = lines[i]
      BY <1>3, <1>4
    <3>4. \A i \in 1..Len(r) : i \in 1..Len(q) \/ i = Len(lines) + 2
      BY <1>4, <3>1
    <3> QED
      BY <1>3, <3>2, <3>3, <3>4
  <2>3. Fresh(lines, unsol)'
    <3> SUFFICES ASSUME NEW i \in 1..Len(r), r[i].id = 0
                 PROVE  /\ r[i].n <= nUnsol'
                        /\ \A k \in 1..Len(unsol) : unsol[k][1] = 0 => unsol[k][2] < r[i].n
      BY <1>1, <2>1 DEF Fresh
    <3>1. CASE i \in 1..Len(lines)
      BY <1>7, <2>2, <3>1
    <3>2. CASE r[i] = u \/ r[i] = v
      BY <1>0, <1>1, <1>2, <1>8, <3>2
    <3> QED
      BY <2>2, <3>1, <3>2
  <2>4. Paired(lines, hungup)'
    <3> SUFFICES ASSUME NEW i \in 1..Len(r), r[i].text = "+CMT:"
                 PROVE  /\ r[i].id = 0
                        /\ i < Len(r) /\ r[i + 1].id = 0 /\ r[i + 1].text = "other"
      BY <2>1 DEF Paired
    <3>1. CASE i \in 1..Len(lines)
      <4>1. /\ lines[i].id = 0
            /\ i < Len(lines) /\ lines[i + 1].id = 0 /\ lines[i + 1].text = "other"
        BY <1>9, <2>2, <3>1
      <4>2. i + 1 \in 1..Len(lines) /\ i < Len(r)
        BY <1>0, <2>2, <4>1
      <4> QED
        BY <2>2, <3>1, <4>1, <4>2
    <3>2. CASE i = Len(lines) + 1
      <4>1. i + 1 = Len(lines) + 2 /\ i < Len(r)
        BY <1>0, <2>2, <3>2
      <4> QED
        BY <1>2, <2>2, <3>2, <4>1
    <3>3. CASE i = Len(lines) + 2
      BY <1>2, <2>2, <3>3
    <3> QED
      BY <2>2, <3>1, <3>2, <3>3
  <2>5. Ordered(lines)'
    BY <1>6, <1>13, <2>1 DEF Ordered
  <2>6. lines # <<>> => lines' # <<>> /\ lines'[1] = lines[1]
    BY <1>0, <1>4, <1>11, <2>1, <2>2
  <2> QED
    BY <1>1, <1>8, <1>10, <2>1, <2>3, <2>4, <2>5, <2>6 DEF UnsolInv
<1> QED
  BY <1>12, <1>13

(* What the loss of the line leaves to read. *)
LEMMA LinesLost ==
    ASSUME TypeOK, Hangup
    PROVE  /\ lines' \in Seq(Line) /\ Len(lines') \in Nat
           /\ \A i \in 1..Len(lines') : i \in 1..Len(lines) /\ lines'[i] = lines[i]
           /\ \E k \in 0..Len(lines) : lines' = SubSeq(lines, 1, k)
<1>1. PICK k \in 0..Len(lines) : lines' = SubSeq(lines, 1, k)
  BY DEF Hangup
<1> QED
  BY <1>1, PrefixFacts DEF TypeOK

LEMMA UnsolLost ==
    ASSUME TypeOK, UnsolInv, Hangup
    PROVE  UnsolInv'
<1>0. UNCHANGED <<unsol, reader, nUnsol>> /\ hungup'
  BY DEF Hangup, ModemKeeps, history
<1>1. PICK k \in 0..Len(lines) : lines' = SubSeq(lines, 1, k)
  BY LinesLost
<1>2. lines \in Seq(Line) /\ hungup \in BOOLEAN
  BY DEF TypeOK
<1>3. Ordered(lines) /\ Paired(lines, hungup) /\ Fresh(lines, unsol)
  BY DEF UnsolInv
<1>4. Ordered(lines') /\ Paired(lines', TRUE) /\ Fresh(lines', unsol)
  BY <1>1, <1>2, <1>3, UnsolCut
<1>5. Ordered(lines)' /\ Paired(lines, hungup)' /\ Fresh(lines, unsol)'
  BY <1>0, <1>4 DEF Ordered, Paired, Fresh
<1>6. \/ lines' = <<>>
      \/ lines' # <<>> /\ lines # <<>> /\ lines'[1] = lines[1]
  BY <1>1, <1>2, LinesLost
<1>7. \A i \in 1..Len(unsol) : unsol[i][1] = 0 => unsol[i][2] <= nUnsol
  BY DEF UnsolInv
<1>8. reader = "smsPdu" =>
        lines = <<>> \/ (lines[1].id = 0 /\ lines[1].text = "other")
  BY DEF UnsolInv
<1> QED
  BY <1>0, <1>5, <1>6, <1>7, <1>8 DEF UnsolInv

LEMMA UnsolStep ==
    ASSUME TypeOK, CallsNumbered, UnsolInv, [Next]_vars
    PROVE  UnsolInv'
<1>1. ASSUME NEW t \in Threads,
             CommandThread(t) \/ InsideCall(t) \/ SpuriousWake(t) \/ WaitExpires(t)
      PROVE  UNCHANGED <<lines, hungup, unsol, nUnsol, reader>>
  BY <1>1 DEF CommandThread, SendWhilePending, SendFails, SendAndWait, Entering,
              HandshakeStart, InsideCall, WakeToNull, WaitAgain, FinishCommand,
              HandshakeTryFails, HandshakeTrySends, Trying, Resuming, HandshakeTimesOut,
              HandshakeAnswered, HandshakeReturns, SpuriousWake, WaitExpires, history,
              modemVars
<1>2. CASE processLine
  <2>1. /\ lines # <<>> /\ lines' = Tail(lines) /\ lines[1].text # "+CMT:"
        /\ reader' # "smsPdu" /\ UNCHANGED <<hungup, nUnsol>>
        /\ \/ unsol' = Append(unsol, <<lines[1].id, lines[1].n>>)
           \/ UNCHANGED unsol
    BY <1>2, LineRoutes
  <2> QED
    BY <2>1, UnsolRead, UnsolHanded
<1>3. CASE ReadSmsHeader \/ ReadSmsPdu
  BY <1>3, HeaderRead, PduRead
<1>4. CASE ReadEOF \/ onReaderClosed \/ at_close
  <2>1. UNCHANGED <<lines, hungup, unsol, nUnsol>> /\ reader' # "smsPdu"
    BY <1>4 DEF ReadEOF, onReaderClosed, at_close, modemVars, history
  <2> QED
    BY <2>1, UnsolKept
<1>5. CASE at_open
  <2>1. lines' = <<>> /\ reader' # "smsPdu" /\ UNCHANGED <<unsol, nUnsol>>
    BY <1>5 DEF at_open, history
  <2> QED
    BY <2>1 DEF UnsolInv, Fresh, Ordered, Paired
<1>6. CASE at_open_reset
  <2>1. UNCHANGED <<lines, hungup, unsol, nUnsol>> /\ reader' # "smsPdu"
    BY <1>6 DEF at_open_reset, modemVars
  <2> QED
    BY <2>1, UnsolKept
<1>7. CASE ModemDrops \/ UNCHANGED vars
  <2>1. UNCHANGED <<lines, hungup, unsol, nUnsol, reader>>
    BY <1>7 DEF ModemDrops, ModemKeeps, vars, modemVars, history
  <2> QED
    BY <2>1, UnsolKept
<1>8. CASE ModemServes \/ ModemUnsolicited \/ Hangup
  BY <1>8, UnsolAnswered, UnsolJoins, UnsolLost
<1> QED
  BY <1>1, <1>2, <1>3, <1>4, <1>5, <1>6, <1>7, <1>8, UnsolKept DEF Next, Reader

-----------------------------------------------------------------------------
(* The command threads.  They leave the lines alone and clear, start or     *)
(* keep the pending command.                                                *)

LEMMA FlowKept ==
    ASSUME TypeOK, FlowInv, UNCHANGED <<pendingVars, modemVars>>,
           sp_response # NULL => call'[sp_response.owner] = call[sp_response.owner]
    PROVE  FlowInv' /\ (CountInv => CountInv')
<1>1. UNCHANGED <<sp_response, s_type, s_responsePrefix, s_smsPDU, lines, modem>>
  BY DEF pendingVars, modemVars
<1>2. CountInv => CountInv'
  BY <1>1 DEF CountInv, Pending, Numbered, Continued
<1>3. QuietInv'
  BY <1>1 DEF FlowInv, QuietInv, Pending, NoAnswers
<1>4. sp_response # NULL => Asked' = Asked
  BY <1>1 DEF Asked
<1>5. ResponseInv'
  BY <1>1, <1>4 DEF FlowInv, ResponseInv
<1>6. FlightInv'
  BY <1>1, <1>4 DEF FlowInv, FlightInv, Pending
<1>7. PromptInv'
  BY <1>1, <1>4 DEF FlowInv, PromptInv, Pending
<1> QED
  BY <1>2, <1>3, <1>5, <1>6, <1>7 DEF FlowInv

(* The pending command is taken or there was none. *)
LEMMA FlowCleared ==
    ASSUME sp_response' = NULL, UNCHANGED modemVars, modem = IdleModem, NoAnswers(lines)
    PROVE  FlowInv' /\ (CountInv => CountInv')
<1>1. UNCHANGED <<lines, modem>>
  BY DEF modemVars
<1>2. CountInv'
  BY DEF CountInv, Pending
<1> QED
  BY <1>1, <1>2 DEF FlowInv, QuietInv, ResponseInv, FlightInv, PromptInv, Pending, NoAnswers

(* clearPendingCommand by a thread outside the wait loop destroys another's *)
(* command or nothing.                                                      *)
LEMMA NothingCleared ==
    ASSUME TypeOK, PendingIsWaited, NEW t \in Threads, clearPendingCommand(t), ~InWait(t),
           Undisturbed, Undisturbed'
    PROVE  sp_response = NULL
BY DEF PendingIsWaited, clearPendingCommand, Undisturbed

LEMMA FlowStarted ==
    ASSUME TypeOK, FlowInv, ClosedInv, NEW t \in Threads, NEW c \in Command,
           NEW id \in Nat \ {0}, sp_response = NULL, StartWaiting(t, c, id),
           call' \in [Threads -> Call], call'[t] = [cmd |-> c, id |-> id],
           UNCHANGED lines
    PROVE  FlowInv' /\ (CountInv => CountInv')
<1>2. modem = IdleModem /\ NoAnswers(lines)
  BY DEF FlowInv, QuietInv, Pending
<1>3. /\ sp_response' = [owner |-> t, id |-> id, success |-> FALSE, final |-> NULL,
                         inter |-> <<>>]
      /\ s_type' = c.type /\ s_responsePrefix' = c.prefix
      /\ s_smsPDU' = IF c.pdu THEN id ELSE NULL
  BY DEF StartWaiting, at_response_new
<1>4. sp_response' # NULL /\ Asked' = [cmd |-> c, id |-> id]
  BY <1>3, NewResponseType, NullResponseAssumption DEF Asked, at_response_new
<1>5. modem' \in {IdleModem, [IdleModem EXCEPT !.queue = <<[cmd |-> c, id |-> id]>>]}
  BY <1>2 DEF StartWaiting, IdleModem
<1>6. modem'.n = 0 /\ modem'.pdu = "none" /\ modem'.queue \in {<<>>, <<Asked'>>}
  BY <1>4, <1>5 DEF IdleModem
<1>7. NoAnswers(lines') /\ lines' \in Seq(Line)
  BY <1>2 DEF TypeOK
<1>8. Chain(lines', 0) /\ EndsAt(lines', 0, 0)
  BY <1>7, ChainNone
<1>9. QuietInv' /\ ResponseInv'
  BY <1>3, <1>4 DEF QuietInv, ResponseInv, Pending
<1>1. CountInv'
  <2>1. sp_response'.inter = <<>> /\ sp_response'.final = NULL
    BY <1>3
  <2>2. Numbered(sp_response)'
    BY <2>1 DEF Numbered
  <2>3. Continued(lines, sp_response, modem)'
    BY <1>6, <1>8, <2>1 DEF Continued
  <2> QED
    BY <2>2, <2>3 DEF CountInv
<1>10. FlightInv'
  <2>2. \A i \in 1..Len(lines') : ~Answer(lines'[i])
    BY <1>7 DEF NoAnswers, Answer
  <2> QED
    BY <1>6, <2>2 DEF FlightInv
<1>11. PromptInv'
  <2>1. \A i \in 1..Len(lines') : ~Answer(lines'[i])
    BY <1>7 DEF NoAnswers, Answer
  <2>2. Asked'.cmd.pdu => s_smsPDU' # NULL
    BY <1>3, <1>4, ConstantsAssumption
  <2> QED
    BY <1>6, <1>7, <2>1, <2>2 DEF PromptInv
<1> QED
  BY <1>1, <1>9, <1>10, <1>11 DEF FlowInv

LEMMA FlowSend ==
    ASSUME TypeOK, FlowInv, ClosedInv, PendingIsWaited, Undisturbed, Undisturbed',
           NEW t \in Threads, CommandThread(t)
    PROVE  FlowInv' /\ (CountInv => CountInv')
<1>0. call \in [Threads -> Call] /\ nCmd + 1 \in Nat \ {0}
  BY ConstantsAssumption DEF TypeOK
<1>1. CASE HandshakeStart(t)
  <2>1. /\ UNCHANGED <<pendingVars, modemVars>> /\ pc[t] = "idle"
        /\ call' = [call EXCEPT ![t] = [cmd |-> HandshakeCommand, id |-> nCmd + 1]]
    BY <1>1 DEF HandshakeStart
  <2>2. sp_response # NULL => sp_response.owner \in Threads /\ InWait(sp_response.owner)
    BY DEF TypeOK, ATResponse, PendingIsWaited, Undisturbed
  <2>3. sp_response # NULL => call'[sp_response.owner] = call[sp_response.owner]
    BY <1>0, <2>1, <2>2 DEF InWait
  <2> QED
    BY <2>1, <2>3, FlowKept
<1>2. ASSUME NEW c \in Commands, SendWhilePending(t, c) \/ SendFails(t, c)
      PROVE  FlowInv' /\ (CountInv => CountInv')
  <2>1. pc[t] = "idle" /\ clearPendingCommand(t) /\ UNCHANGED modemVars
    BY <1>2 DEF SendWhilePending, SendFails, Entering, modemVars
  <2>2. sp_response = NULL
    BY <2>1, NothingCleared DEF InWait
  <2>3. modem = IdleModem /\ NoAnswers(lines)
    BY <2>2 DEF FlowInv, QuietInv, Pending
  <2> QED
    BY <2>1, <2>3, FlowCleared DEF clearPendingCommand
<1>3. ASSUME NEW c \in Commands, SendAndWait(t, c)
      PROVE  FlowInv' /\ (CountInv => CountInv')
  <2>1. /\ sp_response = NULL /\ StartWaiting(t, c, nCmd + 1)
        /\ call' = [call EXCEPT ![t] = [cmd |-> c, id |-> nCmd + 1]]
        /\ UNCHANGED lines
    BY <1>3 DEF SendAndWait, Entering
  <2>2. c \in Command
    BY CommandsAssumption
  <2>3. call' \in [Threads -> Call] /\ call'[t] = [cmd |-> c, id |-> nCmd + 1]
    BY <1>0, <2>1, <2>2 DEF Call
  <2> QED
    BY <1>0, <2>1, <2>2, <2>3, FlowStarted
<1> QED
  BY <1>1, <1>2, <1>3 DEF CommandThread

LEMMA FlowInside ==
    ASSUME TypeOK, FlowInv, ClosedInv, CallsNumbered, PendingIsWaited, Undisturbed,
           Undisturbed', NEW t \in Threads,
           InsideCall(t) \/ SpuriousWake(t) \/ WaitExpires(t)
    PROVE  FlowInv' /\ (CountInv => CountInv')
<1>0. UNCHANGED call
  BY DEF InsideCall, WakeToNull, WaitAgain, FinishCommand, HandshakeTryFails,
         HandshakeTrySends, Trying, Resuming, HandshakeTimesOut, HandshakeAnswered,
         HandshakeReturns, SpuriousWake, WaitExpires
<1>1. CASE WakeToNull(t) \/ WaitAgain(t) \/ HandshakeReturns(t)
           \/ SpuriousWake(t) \/ WaitExpires(t)
  <2>1. UNCHANGED <<pendingVars, modemVars>>
    BY <1>1 DEF WakeToNull, WaitAgain, Resuming, HandshakeReturns, SpuriousWake, WaitExpires
  <2> QED
    BY <1>0, <2>1, FlowKept
<1>2. CASE FinishCommand(t) \/ HandshakeAnswered(t)
  <2>1. /\ sp_response # NULL /\ (sp_response.final # NULL \/ s_readerClosed)
        /\ sp_response' = NULL /\ UNCHANGED modemVars
    BY <1>2 DEF FinishCommand, HandshakeAnswered, Resuming
  <2>2. modem = IdleModem /\ NoAnswers(lines)
    <3>1. CASE s_readerClosed
      BY <3>1 DEF ClosedInv, NoAnswers
    <3>2. CASE sp_response.final # NULL
      BY <3>2 DEF FlowInv, QuietInv, Pending
    <3> QED
      BY <2>1, <3>1, <3>2
  <2> QED
    BY <1>0, <2>1, <2>2, FlowCleared
<1>3. CASE HandshakeTryFails(t)
  <2>1. pc[t] = "hsTry" /\ clearPendingCommand(t) /\ UNCHANGED modemVars
    BY <1>3 DEF HandshakeTryFails, Trying, modemVars
  <2>2. sp_response = NULL
    BY <2>1, NothingCleared DEF InWait
  <2>3. modem = IdleModem /\ NoAnswers(lines)
    BY <2>2 DEF FlowInv, QuietInv, Pending
  <2> QED
    BY <1>0, <2>1, <2>3, FlowCleared DEF clearPendingCommand
<1>4. CASE HandshakeTimesOut(t)
  <2>1. /\ sp_response' = NULL /\ UNCHANGED modemVars
        /\ expired' = (expired \/ sp_response = NULL \/ sp_response.final = NULL)
    BY <1>4 DEF HandshakeTimesOut, clearPendingCommand
  <2>2. ~Pending
    BY <2>1 DEF Undisturbed, Pending
  <2>3. modem = IdleModem /\ NoAnswers(lines)
    BY <2>2 DEF FlowInv, QuietInv
  <2> QED
    BY <1>0, <2>1, <2>3, FlowCleared
<1>5. CASE HandshakeTrySends(t)
  <2>1. /\ sp_response = NULL /\ StartWaiting(t, call[t].cmd, call[t].id)
        /\ UNCHANGED lines /\ pc[t] = "hsTry"
    BY <1>5 DEF HandshakeTrySends, Trying
  <2>2. /\ call[t] \in Call /\ call[t].cmd \in Command /\ call[t].id \in Nat
        /\ call[t] = [cmd |-> call[t].cmd, id |-> call[t].id]
    BY DEF TypeOK, Call
  <2>3. call[t].id \in Nat \ {0}
    BY <2>1, <2>2 DEF CallsNumbered
  <2>4. call' \in [Threads -> Call] /\ call'[t] = [cmd |-> call[t].cmd, id |-> call[t].id]
    BY <1>0, <2>2 DEF TypeOK
  <2> QED
    BY <1>0, <2>1, <2>2, <2>3, <2>4, FlowStarted
<1> QED
  BY <1>1, <1>2, <1>3, <1>4, <1>5 DEF InsideCall

-----------------------------------------------------------------------------
(* The reader. *)

LEMMA AskedType ==
    ASSUME TypeOK, sp_response # NULL
    PROVE  /\ sp_response \in ATResponse /\ sp_response.owner \in Threads
           /\ Asked \in Call /\ Asked.cmd \in Command /\ Asked.id \in Nat
           /\ sp_response.inter \in Seq(Line) /\ Len(sp_response.inter) \in Nat
BY DEF TypeOK, ATResponse, Asked, Call

(* The final line and the prompt of an answer are recognised.  Its other    *)
(* lines are too, unless an unsolicited line has taken the place of one.    *)
LEMMA RouteAnswer ==
    ASSUME TypeOK, FlowInv, lines # <<>>, lines[1].id # 0
    PROVE  /\ Pending /\ lines[1] \in Line /\ lines[1].id = sp_response.id
           /\ Shaped(lines[1], Asked)
           /\ Final(lines[1]) => Route(lines[1]) = "final"
           /\ Prompt(lines[1]) => ~Final(lines[1]) /\ Route(lines[1]) = "prompt"
           /\ (~Final(lines[1]) /\ ~Prompt(lines[1])) =>
                 Route(lines[1]) \in {"intermediate", "unsolicited"}
           /\ CountInv => /\ Before(lines[1]) = Len(sp_response.inter)
                          /\ Route(lines[1]) # "unsolicited"
<1>0. lines \in Seq(Line) /\ 1 \in 1..Len(lines) /\ lines[1] \in Line
  BY TailFacts DEF TypeOK
<1>1. Pending
  BY <1>0 DEF FlowInv, QuietInv, NoAnswers
<1>2. sp_response # NULL /\ sp_response.final = NULL
  BY <1>1 DEF Pending
<1>3. /\ Asked.cmd \in Command /\ Len(sp_response.inter) \in Nat
      /\ sp_response.inter \in Seq(Line)
  BY <1>2, AskedType
<1>4. Shaped(lines[1], Asked)
  BY <1>0, <1>1 DEF FlowInv, FlightInv, Answer
<1>5. lines[1].id = sp_response.id
  BY <1>2, <1>4 DEF Shaped, FlowInv, ResponseInv
<1>6. CountInv => Before(lines[1]) = Len(sp_response.inter)
  BY <1>0, <1>1, <1>3, ChainTakes DEF CountInv, Continued
<1>7. ASSUME Final(lines[1]) PROVE Route(lines[1]) = "final"
  BY <1>2, <1>7 DEF Route, Final, isFinalResponse, isFinalResponseSuccess,
                    isFinalResponseError
<1>8. ASSUME Prompt(lines[1]) PROVE ~Final(lines[1]) /\ Route(lines[1]) = "prompt"
  <2>1. s_smsPDU # NULL
    BY <1>0, <1>1, <1>8 DEF FlowInv, PromptInv, Answer
  <2> QED
    BY <1>2, <1>8, <2>1 DEF Route, Final, Prompt, isFinalResponse, isFinalResponseSuccess,
                            isFinalResponseError
<1>9. ASSUME ~Final(lines[1]), ~Prompt(lines[1])
      PROVE  /\ Route(lines[1]) \in {"intermediate", "unsolicited"}
             /\ CountInv => Route(lines[1]) # "unsolicited"
  <2>1. /\ lines[1].text \in InterTexts(Asked.cmd)
        /\ 1 <= lines[1].n /\ lines[1].n <= InterLimit(Asked.cmd.type)
    BY <1>4, <1>9 DEF Shaped
  <2>2. s_type = Asked.cmd.type /\ s_responsePrefix = Asked.cmd.prefix
        /\ s_type \in ATCommandType
    BY <1>2 DEF FlowInv, ResponseInv, TypeOK
  <2>3. lines[1].n \in Nat
    BY <1>0 DEF Line
  <2>4. s_type # "NO_RESULT"
    BY <2>1, <2>2, <2>3 DEF InterLimit
  <2>5. ASSUME CountInv PROVE s_type \in {"NUMERIC", "SINGLELINE"} => sp_response.inter = <<>>
    <3>1. Len(sp_response.inter) = lines[1].n - 1
      BY <1>6, <1>9, <2>5 DEF Before
    <3> QED
      BY <1>3, <2>1, <2>2, <2>3, <3>1 DEF InterLimit
  <2>6. s_type = "NUMERIC" => lines[1].text = "digit"
    BY <2>1, <2>2 DEF InterTexts
  <2>7. ASSUME s_type # "NUMERIC" PROVE HasPrefix(lines[1])
    <3>1. Asked.cmd.prefix # AnyLine => lines[1].text = Asked.cmd.prefix
      BY <2>1, <2>2, <2>7 DEF InterTexts
    <3> QED
      BY <2>2, <3>1 DEF HasPrefix
  <2>8. CountInv => TakesIntermediate(lines[1])
    BY <2>2, <2>4, <2>5, <2>6, <2>7 DEF TakesIntermediate, ATCommandType
  <2> QED
    BY <1>2, <1>9, <2>8 DEF Route, Final, Prompt, isFinalResponse, isFinalResponseSuccess,
                            isFinalResponseError
<1> QED
  BY <1>0, <1>1, <1>4, <1>5, <1>6, <1>7, <1>8, <1>9

(* What processLine does, by the kind of line, if it does not take an       *)
(* unsolicited line for a final line or a prompt.                           *)
LEMMA LineCases ==
    ASSUME TypeOK, FlowInv, processLine, NoneCutShort'
    PROVE  \/ /\ unsol' = Append(unsol, <<lines[1].id, lines[1].n>>)
              /\ UNCHANGED <<sp_response, s_smsPDU, pdus, modem>>
              /\ CountInv => lines[1].id = 0
           \/ /\ lines[1].id # 0 /\ Final(lines[1])
              /\ sp_response' = [sp_response EXCEPT !.final = lines[1],
                                     !.success = isFinalResponseSuccess(lines[1])]
              /\ UNCHANGED <<s_smsPDU, unsol, pdus, modem>>
           \/ /\ lines[1].id # 0 /\ Prompt(lines[1]) /\ ~Final(lines[1])
              /\ pdus' = pdus \cup {<<s_smsPDU, lines[1].id>>}
              /\ modem' = IF hungup THEN modem ELSE [modem EXCEPT !.pdu = "received"]
              /\ s_smsPDU' = NULL
              /\ UNCHANGED <<sp_response, unsol>>
           \/ /\ sp_response # NULL
              /\ sp_response' = [sp_response EXCEPT !.inter = <<lines[1]>> \o @]
              /\ Exact' => lines[1].id # 0 /\ ~Prompt(lines[1]) /\ ~Final(lines[1])
              /\ UNCHANGED <<s_smsPDU, unsol, pdus, modem>>
<1>1. lines # <<>>
  BY LineRoutes
<1>2. ASSUME lines[1].id = 0
      PROVE  /\ Route(lines[1]) \in {"unsolicited", "intermediate"}
             /\ Exact' => Route(lines[1]) = "unsolicited"
  <2>1. Route(lines[1]) \in mistaken' \cup {"unsolicited"}
    BY <1>2, LineRoutes
  <2> QED
    BY <2>1 DEF NoneCutShort, Exact
<1>3. Route(lines[1]) # "unsolicited" => sp_response # NULL
  BY DEF Route
<1>4. ASSUME lines[1].id # 0
      PROVE  /\ Final(lines[1]) => Route(lines[1]) = "final"
             /\ Prompt(lines[1]) => ~Final(lines[1]) /\ Route(lines[1]) = "prompt"
             /\ (~Final(lines[1]) /\ ~Prompt(lines[1])) =>
                   Route(lines[1]) \in {"intermediate", "unsolicited"}
             /\ CountInv => Route(lines[1]) # "unsolicited"
  BY <1>1, <1>4, RouteAnswer
<1>5. CASE Route(lines[1]) = "unsolicited"
  BY <1>4, <1>5, LineRoutes
<1>6. CASE Route(lines[1]) = "final"
  BY <1>2, <1>4, <1>6, LineRoutes
<1>7. CASE Route(lines[1]) = "prompt"
  BY <1>2, <1>4, <1>7, LineRoutes
<1>8. CASE Route(lines[1]) = "intermediate"
  BY <1>2, <1>3, <1>4, <1>8, LineRoutes
<1> QED
  BY <1>5, <1>6, <1>7, <1>8, LineRoutes

(* A line is read that does not change how far the command is. *)
LEMMA FlowReads ==
    ASSUME TypeOK, FlowInv, lines # <<>>, lines' = Tail(lines),
           UNCHANGED <<s_type, s_responsePrefix, s_smsPDU, modem, call>>,
           sp_response' = NULL <=> sp_response = NULL,
           sp_response # NULL => /\ sp_response'.owner = sp_response.owner
                                 /\ sp_response'.id = sp_response.id
                                 /\ sp_response'.final = sp_response.final
    PROVE  FlowInv'
<1>1. /\ lines' \in Seq(Line) /\ Len(lines') \in Nat /\ Len(lines) \in Nat
      /\ \A i \in 1..Len(lines') : i + 1 \in 1..Len(lines) /\ lines'[i] = lines[i + 1]
  BY TailFacts DEF TypeOK
<1>2. (sp_response # NULL => Asked' = Asked) /\ (Pending' <=> Pending)
  BY DEF Asked, Pending
<1>3. NoAnswers(lines) => NoAnswers(lines')
  BY <1>1 DEF NoAnswers
<1>4. QuietInv'
  BY <1>2, <1>3 DEF FlowInv, QuietInv, NoAnswers
<1>5. ResponseInv'
  BY <1>2 DEF FlowInv, ResponseInv
<1>6. ASSUME Pending PROVE FlightInv'
  <2>1. \A i \in 1..Len(lines') : Answer(lines'[i]) => Shaped(lines'[i], Asked)
    BY <1>1, <1>6 DEF FlowInv, FlightInv
  <2> QED
    BY <1>2, <1>6, <2>1 DEF FlowInv, FlightInv, Pending
<1>7. ASSUME Pending PROVE PromptInv'
  <2>1. PromptInv /\ Asked' = Asked
    BY <1>2, <1>7 DEF FlowInv, Pending
  <2>2. ASSUME NEW i \in 1..Len(lines'), Answer(lines'[i]), Prompt(lines'[i])
        PROVE  /\ s_smsPDU # NULL
               /\ \A j \in 1..Len(lines') : Answer(lines'[j]) => j = i
               /\ modem.queue # <<>> => modem.pdu = "prompted"
    <3>1. /\ s_smsPDU # NULL
          /\ \A j \in 1..Len(lines) : Answer(lines[j]) => j = i + 1
          /\ modem.queue # <<>> => modem.pdu = "prompted"
      BY <1>1, <1>7, <2>1, <2>2 DEF PromptInv
    <3>2. ASSUME NEW j \in 1..Len(lines'), Answer(lines'[j]) PROVE j = i
      BY <1>1, <3>1, <3>2
    <3> QED
      BY <3>1, <3>2
  <2>3. ASSUME NEW i \in 1..Len(lines'), Answer(lines'[i]), Final(lines'[i])
        PROVE  modem = IdleModem /\ \A j \in 1..Len(lines') : j > i => lines'[j].id = 0
    <3>1. /\ modem = IdleModem
          /\ \A j \in 1..Len(lines) : j > i + 1 => lines[j].id = 0
      BY <1>1, <1>7, <2>1, <2>3 DEF PromptInv
    <3>2. ASSUME NEW j \in 1..Len(lines'), j > i PROVE lines'[j].id = 0
      BY <1>1, <3>1, <3>2
    <3> QED
      BY <3>1, <3>2
  <2>4. (modem.queue # <<>> /\ Asked.cmd.pdu /\ modem.pdu = "none") =>
             s_smsPDU # NULL /\ NoAnswers(lines') /\ modem.n = 0
    BY <1>3, <1>7, <2>1 DEF PromptInv
  <2> QED
    BY <2>1, <2>2, <2>3, <2>4 DEF PromptInv, NoAnswers
<1>8. ~Pending => FlightInv' /\ PromptInv'
  BY <1>2 DEF FlightInv, PromptInv
<1> QED
  BY <1>4, <1>5, <1>6, <1>7, <1>8 DEF FlowInv

(* An unsolicited line is passed over. *)
LEMMA CountSkips ==
    ASSUME TypeOK, CountInv, lines # <<>>, lines' = Tail(lines), lines[1].id = 0,
           UNCHANGED <<sp_response, modem>>
    PROVE  CountInv'
<1>1. sp_response # NULL => Numbered(sp_response)'
  BY DEF CountInv, Numbered
<1>2. ASSUME Pending PROVE Continued(lines, sp_response, modem)'
  <2>1. Len(sp_response.inter) \in Nat /\ modem.n \in Nat /\ lines \in Seq(Line)
    BY <1>2, AskedType DEF Pending, TypeOK
  <2> QED
    BY <1>2, <2>1, ChainSkips DEF CountInv, Continued
<1> QED
  BY <1>1, <1>2 DEF CountInv, Pending

(* The final line completes the response and ends the answer. *)
LEMMA FlowFinal ==
    ASSUME TypeOK, FlowInv, lines # <<>>, lines' = Tail(lines),
           lines[1].id # 0, Final(lines[1]),
           sp_response' = [sp_response EXCEPT !.final = lines[1],
                               !.success = isFinalResponseSuccess(lines[1])],
           UNCHANGED <<s_type, s_responsePrefix, s_smsPDU, call, modem>>
    PROVE  FlowInv' /\ (CountInv => CountInv')
<1>1. /\ Pending /\ lines[1] \in Line /\ lines[1].id = sp_response.id
      /\ CountInv => Before(lines[1]) = Len(sp_response.inter)
  BY RouteAnswer
<1>2. sp_response # NULL /\ sp_response.final = NULL /\ sp_response \in ATResponse
  BY <1>1, AskedType DEF Pending
<1>3. /\ sp_response'.final = lines[1] /\ sp_response'.inter = sp_response.inter
      /\ sp_response'.id = sp_response.id /\ sp_response'.owner = sp_response.owner
  BY <1>2 DEF ATResponse
<1>4. lines[1] # NULL
  BY <1>1, NullLineAssumption
<1>5. ~Pending' /\ Asked' = Asked
  BY <1>3, <1>4 DEF Pending, Asked
<1>6. modem = IdleModem /\ \A j \in 1..Len(lines) : j > 1 => lines[j].id = 0
  BY <1>1, TailFacts DEF FlowInv, PromptInv, Answer, TypeOK
<1>7. NoAnswers(lines')
  BY <1>6, TailFacts DEF NoAnswers, TypeOK
<1>8. QuietInv'
  BY <1>6, <1>7 DEF QuietInv, NoAnswers
<1>9. ResponseInv'
  <2>1. ResponseInv
    BY DEF FlowInv
  <2> QED
    BY <1>1, <1>2, <1>3, <1>5, <2>1 DEF ResponseInv
<1>10. FlightInv' /\ PromptInv'
  BY <1>5 DEF FlightInv, PromptInv
<1>11. ASSUME CountInv PROVE CountInv'
  <2>1. lines[1].n = Len(sp_response.inter)
    BY <1>1, <1>11 DEF Before
  <2>2. Numbered(sp_response)
    BY <1>2, <1>11 DEF CountInv
  <2>3. Numbered(sp_response)'
    BY <1>3, <2>1, <2>2 DEF Numbered
  <2> QED
    BY <1>5, <2>3 DEF CountInv
<1> QED
  BY <1>8, <1>9, <1>10, <1>11 DEF FlowInv

(* The prompt, which is answered by the PDU. *)
LEMMA FlowPrompt ==
    ASSUME TypeOK, FlowInv, ClosedInv, lines # <<>>, lines' = Tail(lines),
           lines[1].id # 0, Prompt(lines[1]), ~Final(lines[1]),
           s_smsPDU' = NULL,
           modem' = IF hungup THEN modem ELSE [modem EXCEPT !.pdu = "received"],
           UNCHANGED <<sp_response, s_type, s_responsePrefix, call>>
    PROVE  FlowInv' /\ (CountInv => CountInv')
<1>0. lines \in Seq(Line)
  BY DEF TypeOK
<1>1. /\ Pending /\ lines[1] \in Line
      /\ CountInv => Before(lines[1]) = Len(sp_response.inter)
  BY RouteAnswer
<1>2. sp_response # NULL /\ Len(sp_response.inter) \in Nat /\ modem.n \in Nat
  BY <1>1, AskedType DEF Pending, TypeOK
<1>3. Pending' /\ Asked' = Asked
  BY <1>1 DEF Pending, Asked
<1>4. /\ modem'.queue = modem.queue /\ modem'.n = modem.n
      /\ modem'.queue # <<>> => modem'.pdu = "received"
  BY DEF TypeOK, ClosedInv, IdleModem
<1>5. \A j \in 1..Len(lines) : Answer(lines[j]) => j = 1
  BY <1>1, TailFacts DEF FlowInv, PromptInv, Answer, TypeOK
<1>6. \A i \in 1..Len(lines') : ~Answer(lines'[i])
  <2> SUFFICES ASSUME NEW i \in 1..Len(lines') PROVE ~Answer(lines'[i])
    OBVIOUS
  <2>1. i + 1 \in 1..Len(lines) /\ lines'[i] = lines[i + 1] /\ i + 1 # 1
    BY <1>0, TailFacts
  <2> QED
    BY <1>5, <2>1
<1>7. QuietInv'
  BY <1>3 DEF QuietInv
<1>8. ResponseInv'
  <2>1. ResponseInv
    BY DEF FlowInv
  <2> QED
    BY <1>3, <2>1 DEF ResponseInv
<1>9. FlightInv'
  BY <1>1, <1>3, <1>4, <1>6 DEF FlowInv, FlightInv
<1>10. PromptInv'
  BY <1>4, <1>6 DEF PromptInv
<1>11. ASSUME CountInv PROVE CountInv'
  <2>1. lines[1].n = Len(sp_response.inter)
    BY <1>1, <1>11 DEF Before
  <2>2. /\ Chain(lines', Len(sp_response.inter))
        /\ modem.queue # <<>> => EndsAt(lines', Len(sp_response.inter), modem.n)
    BY <1>0, <1>1, <1>2, <1>11, <2>1, ChainTakes DEF CountInv, Continued
  <2>3. Continued(lines, sp_response, modem)'
    BY <1>4, <2>2 DEF Continued
  <2>4. Numbered(sp_response)'
    BY <1>2, <1>11 DEF CountInv, Numbered
  <2> QED
    BY <2>3, <2>4 DEF CountInv
<1> QED
  BY <1>7, <1>8, <1>9, <1>10, <1>11 DEF FlowInv

(* An intermediate line is the next of the answer. *)
LEMMA CountTakes ==
    ASSUME TypeOK, FlowInv, CountInv, lines # <<>>, lines' = Tail(lines),
           lines[1].id # 0, ~Prompt(lines[1]), ~Final(lines[1]),
           sp_response' = [sp_response EXCEPT !.inter = <<lines[1]>> \o @], UNCHANGED modem
    PROVE  CountInv'
<1>0. lines \in Seq(Line) /\ 1 \in 1..Len(lines)
  BY TailFacts DEF TypeOK
<1>1. /\ Pending /\ lines[1] \in Line /\ lines[1].id = sp_response.id
      /\ Before(lines[1]) = Len(sp_response.inter)
  BY RouteAnswer
<1>2. /\ sp_response # NULL /\ sp_response.final = NULL /\ sp_response \in ATResponse
      /\ sp_response.inter \in Seq(Line) /\ Len(sp_response.inter) \in Nat /\ modem.n \in Nat
  BY <1>1, AskedType DEF Pending, TypeOK
<1> DEFINE s == sp_response.inter
           l == lines[1]
<1>3. l.n \in Nat /\ l.n = Len(s) + 1
  BY <1>1, <1>2 DEF Before, Line
<1>4. /\ Len(<<l>> \o s) = Len(s) + 1 /\ (<<l>> \o s)[1] = l
      /\ \A i \in 2..(Len(s) + 1) : i - 1 \in 1..Len(s) /\ (<<l>> \o s)[i] = s[i - 1]
      /\ <<l>> \o s \in Seq(Line)
  BY <1>1, <1>2
<1>5. /\ sp_response'.final = NULL /\ sp_response'.inter = <<l>> \o s
      /\ sp_response'.id = sp_response.id
  BY <1>2 DEF ATResponse
<1>6. Numbered(sp_response)
  BY <1>2 DEF CountInv
<1>7. ASSUME NEW i \in 1..Len(sp_response'.inter)
      PROVE  /\ sp_response'.inter[i].id = sp_response'.id
             /\ sp_response'.inter[i].n = Len(sp_response'.inter) + 1 - i
  <2>1. CASE i = 1
    BY <1>1, <1>3, <1>4, <1>5, <2>1
  <2>2. CASE i # 1
    <3>1. i \in 2..(Len(s) + 1) /\ i - 1 \in 1..Len(s) /\ sp_response'.inter[i] = s[i - 1]
      BY <1>2, <1>4, <1>5, <2>2
    <3>2. s[i - 1].id = sp_response.id /\ s[i - 1].n = Len(s) + 1 - (i - 1)
      BY <1>6, <3>1 DEF Numbered
    <3>3. Len(s) + 1 - (i - 1) = Len(sp_response'.inter) + 1 - i
      BY <1>2, <1>4, <1>5, <3>1
    <3> QED
      BY <1>5, <3>1, <3>2, <3>3
  <2> QED
    BY <2>1, <2>2
<1>8. Numbered(sp_response)'
  BY <1>5, <1>7 DEF Numbered
<1>9. /\ Chain(lines', l.n)
      /\ modem.queue # <<>> => EndsAt(lines', l.n, modem.n)
  BY <1>0, <1>1, <1>2, ChainTakes DEF CountInv, Continued
<1>10. Continued(lines, sp_response, modem)'
  BY <1>3, <1>4, <1>5, <1>9 DEF Continued
<1> QED
  BY <1>8, <1>10 DEF CountInv

LEMMA FlowReader ==
    ASSUME TypeOK, UnsolInv, FlowInv, ClosedInv, Reader, NoneCutShort'
    PROVE  FlowInv' /\ (Exact' /\ CountInv => CountInv')
<1>1. CASE processLine
  <2>1. /\ lines # <<>> /\ lines' = Tail(lines)
        /\ UNCHANGED <<s_type, s_responsePrefix, call>>
    BY <1>1, LineRoutes
  <2>2. CASE /\ UNCHANGED <<sp_response, s_smsPDU, modem>>
             /\ CountInv => lines[1].id = 0
    BY <2>1, <2>2, FlowReads, CountSkips
  <2>3. CASE /\ lines[1].id # 0 /\ Final(lines[1])
             /\ sp_response' = [sp_response EXCEPT !.final = lines[1],
                                    !.success = isFinalResponseSuccess(lines[1])]
             /\ UNCHANGED <<s_smsPDU, unsol, modem>>
    BY <2>1, <2>3, FlowFinal
  <2>4. CASE /\ lines[1].id # 0 /\ Prompt(lines[1]) /\ ~Final(lines[1])
             /\ modem' = IF hungup THEN modem ELSE [modem EXCEPT !.pdu = "received"]
             /\ s_smsPDU' = NULL
             /\ UNCHANGED <<sp_response, unsol>>
    BY <2>1, <2>4, FlowPrompt
  <2>5. CASE /\ sp_response # NULL
             /\ sp_response' = [sp_response EXCEPT !.inter = <<lines[1]>> \o @]
             /\ Exact' => lines[1].id # 0 /\ ~Prompt(lines[1]) /\ ~Final(lines[1])
             /\ UNCHANGED <<s_smsPDU, modem>>
    <3>1. /\ sp_response \in ATResponse /\ sp_response.inter \in Seq(Line)
          /\ lines[1] \in Line
      BY <2>1, <2>5, AskedType, TailFacts DEF TypeOK
    <3>2. /\ sp_response'.owner = sp_response.owner /\ sp_response'.id = sp_response.id
          /\ sp_response'.final = sp_response.final
      BY <2>5, <3>1 DEF ATResponse
    <3>3. sp_response' # NULL
      <4>1. <<lines[1]>> \o sp_response.inter \in Seq(Line)
        BY <3>1
      <4>2. sp_response' \in ATResponse
        BY <2>5, <3>1, <4>1 DEF ATResponse
      <4> QED
        BY <4>2, NullResponseAssumption
    <3>4. FlowInv'
      BY <2>1, <2>5, <3>2, <3>3, FlowReads
    <3> QED
      BY <2>1, <2>5, <3>4, CountTakes
  <2> QED
    BY <1>1, <2>2, <2>3, <2>4, <2>5, LineCases
<1>2. CASE ReadSmsHeader \/ ReadSmsPdu
  <2>1. /\ lines # <<>> /\ lines' = Tail(lines) /\ lines[1].id = 0
        /\ UNCHANGED <<sp_response, s_type, s_responsePrefix, s_smsPDU, modem, call>>
    BY <1>2, HeaderRead, PduRead DEF pendingVars
  <2> QED
    BY <2>1, FlowReads, CountSkips
<1>3. CASE ReadEOF \/ onReaderClosed \/ at_close
  <2>1. UNCHANGED <<pendingVars, modemVars, call>>
    BY <1>3 DEF ReadEOF, onReaderClosed, at_close, threadVars
  <2> QED
    BY <2>1, FlowKept
<1> QED
  BY <1>1, <1>2, <1>3 DEF Reader

(* Opening the channel. *)
LEMMA FlowOpen ==
    ASSUME TypeOK, FlowInv, PendingIsWaited, Undisturbed, Undisturbed',
           at_open \/ at_open_reset
    PROVE  FlowInv' /\ (CountInv => CountInv')
<1>1. CASE at_open
  <2>1. lines' = <<>> /\ modem' = IdleModem /\ UNCHANGED <<pendingVars, call>>
    BY <1>1 DEF at_open
  <2>2. UNCHANGED <<sp_response, s_type, s_responsePrefix, s_smsPDU>>
    BY <2>1 DEF pendingVars
  <2>4. /\ NoAnswers(lines') /\ lines' \in Seq(Line) /\ Len(lines') = 0
        /\ modem'.queue = <<>>
    BY <2>1 DEF NoAnswers, IdleModem
  <2>5. QuietInv'
    BY <2>1, <2>4 DEF QuietInv, NoAnswers
  <2>6. Asked' = Asked /\ (Pending' <=> Pending)
    BY <2>1, <2>2 DEF Asked, Pending
  <2>7. ResponseInv'
    BY <2>2, <2>6 DEF FlowInv, ResponseInv
  <2>8. FlightInv' /\ PromptInv'
    BY <2>1, <2>4 DEF FlightInv, PromptInv
  <2>9. ASSUME CountInv PROVE CountInv'
    <3>1. sp_response # NULL => Numbered(sp_response)'
      BY <2>2, <2>9 DEF CountInv, Numbered
    <3>2. Pending => Chain(lines', Len(sp_response.inter))
      BY <2>4, ChainNone, AskedType DEF Pending
    <3>3. Pending => Continued(lines, sp_response, modem)'
      BY <2>2, <2>4, <3>2 DEF Continued
    <3> QED
      BY <2>2, <2>6, <3>1, <3>3 DEF CountInv
  <2> QED
    BY <2>5, <2>7, <2>8, <2>9 DEF FlowInv
<1>2. CASE at_open_reset
  <2>1. /\ pc[Main] = "opening" /\ clearPendingCommand(Main) /\ UNCHANGED modemVars
        /\ Main \in Threads
    BY <1>2, ConstantsAssumption DEF at_open_reset
  <2>2. sp_response = NULL
    BY <2>1, NothingCleared DEF InWait
  <2>3. modem = IdleModem /\ NoAnswers(lines)
    BY <2>2 DEF FlowInv, QuietInv, Pending
  <2> QED
    BY <2>1, <2>3, FlowCleared DEF clearPendingCommand
<1> QED
  BY <1>1, <1>2


-----------------------------------------------------------------------------
(* The modem. *)

LEMMA AnsweringFacts ==
    ASSUME TypeOK, FlowInv, Answering
    PROVE  /\ Pending /\ modem.queue = <<Asked>> /\ Answered = Asked
           /\ Tail(modem.queue) = <<>> /\ modem # IdleModem
           /\ Asked.cmd \in Command
           /\ sp_response # NULL /\ Len(sp_response.inter) \in Nat
<1>1. modem.queue # <<>> /\ modem # IdleModem
  BY DEF Answering, IdleModem
<1>2. Pending
  BY <1>1 DEF FlowInv, QuietInv
<1>3. sp_response # NULL /\ Asked.cmd \in Command /\ Len(sp_response.inter) \in Nat
  BY <1>2, AskedType DEF Pending
<1>4. modem.queue = <<Asked>>
  BY <1>1, <1>2 DEF FlowInv, FlightInv
<1>5. Answered = Asked /\ Tail(modem.queue) = <<>>
  BY <1>4 DEF Answered
<1> QED
  BY <1>1, <1>2, <1>3, <1>4, <1>5

(* One more line of the answer under way. *)
LEMMA FlowEmits ==
    ASSUME TypeOK, FlowInv, Pending, modem.queue # <<>>, NEW l \in Line,
           lines' = Append(lines, l), Shaped(l, Asked), l.id # 0, ModemKeeps
    PROVE  /\ QuietInv' /\ ResponseInv' /\ Pending' /\ Asked' = Asked
           /\ UNCHANGED <<s_smsPDU, sp_response>>
           /\ \A i \in 1..Len(lines') : Answer(lines'[i]) => Shaped(lines'[i], Asked)
           /\ Len(lines) \in Nat /\ Len(lines') = Len(lines) + 1 /\ lines'[Len(lines) + 1] = l
           /\ \A i \in 1..Len(lines) : lines'[i] = lines[i]
           /\ \A i \in 1..Len(lines') : i \in 1..Len(lines) \/ i = Len(lines) + 1
<1>1. UNCHANGED <<sp_response, s_type, s_responsePrefix, s_smsPDU, call>>
  BY DEF ModemKeeps, pendingVars, threadVars
<1>2. Pending' /\ Asked' = Asked
  BY <1>1 DEF Pending, Asked
<1>3. QuietInv'
  BY <1>2 DEF QuietInv
<1>4. ResponseInv'
  BY <1>1, <1>2 DEF FlowInv, ResponseInv
<1>5. /\ lines \in Seq(Line) /\ Len(lines) \in Nat /\ Len(lines') = Len(lines) + 1
      /\ lines'[Len(lines) + 1] = l
      /\ \A i \in 1..Len(lines) : i \in 1..Len(lines') /\ lines'[i] = lines[i]
      /\ \A i \in 1..Len(lines') : i \in 1..Len(lines) \/ i = Len(lines) + 1
  BY AppendFacts DEF TypeOK
<1>6. \A i \in 1..Len(lines') : Answer(lines'[i]) => Shaped(lines'[i], Asked)
  BY <1>5 DEF FlowInv, FlightInv
<1> QED
  BY <1>1, <1>2, <1>3, <1>4, <1>5, <1>6

(* ... which the modem counts. *)
LEMMA CountEmits ==
    ASSUME TypeOK, CountInv, Pending, modem.queue # <<>>, NEW l \in Line,
           lines' = Append(lines, l), l.id # 0, Before(l) = modem.n, ModemKeeps,
           modem'.queue # <<>> => modem'.n = l.n
    PROVE  CountInv'
<1>1. UNCHANGED sp_response
  BY DEF ModemKeeps, pendingVars
<1>2. Len(sp_response.inter) \in Nat /\ modem.n \in Nat /\ lines \in Seq(Line)
  BY AskedType DEF Pending, TypeOK
<1>3. Chain(lines, Len(sp_response.inter)) /\ EndsAt(lines, Len(sp_response.inter), modem.n)
  BY DEF CountInv, Continued
<1>4. Chain(lines', Len(sp_response.inter)) /\ EndsAt(lines', Len(sp_response.inter), l.n)
  BY <1>2, <1>3, ChainGrows
<1>5. Continued(lines', sp_response', modem')
  BY <1>1, <1>4 DEF Continued
<1>6. sp_response' # NULL => Numbered(sp_response')
  BY <1>1 DEF CountInv
<1>7. Continued(lines, sp_response, modem)'
  BY <1>5 DEF Continued, Chain, EndsAt
<1>8. (sp_response # NULL => Numbered(sp_response))'
  BY <1>6 DEF Numbered
<1> QED
  BY <1>7, <1>8 DEF CountInv

LEMMA FlowAnswers ==
    ASSUME TypeOK, FlowInv, CallsNumbered, ModemServes
    PROVE  FlowInv' /\ (CountInv => CountInv')
<1>0. /\ Answering /\ ModemKeeps /\ Answered.id \in Nat \ {0} /\ modem.n \in Nat
  BY AnswerSent
<1>1. /\ Pending /\ modem.queue = <<Asked>> /\ Answered = Asked /\ modem.queue # <<>>
      /\ Tail(modem.queue) = <<>> /\ modem # IdleModem
      /\ Asked.cmd \in Command
      /\ sp_response # NULL /\ Len(sp_response.inter) \in Nat
  BY <1>0, AnsweringFacts DEF Answering
<1>2. PromptInv /\ FlightInv
  BY DEF FlowInv
<1>3. \A i \in 1..Len(lines) : Answer(lines[i]) => ~Final(lines[i])
  BY <1>1, <1>2 DEF PromptInv
<1>4. PICK l \in Line :
        /\ lines' = Append(lines, l) /\ l.id = Asked.id /\ l.id # 0
        /\ \/ /\ Asked.cmd.pdu /\ modem.pdu = "none" /\ Prompt(l) /\ ~Final(l)
              /\ l.n = 0 /\ modem' = [modem EXCEPT !.pdu = "prompted"]
           \/ /\ l.text \in InterTexts(Asked.cmd) /\ ~Prompt(l) /\ ~Final(l)
              /\ l.n = modem.n + 1 /\ l.n <= InterLimit(Asked.cmd.type)
              /\ Asked.cmd.pdu => modem.pdu = "received"
              /\ modem' = [modem EXCEPT !.n = @ + 1]
           \/ /\ Final(l) /\ ~Prompt(l) /\ l.n = modem.n /\ modem.pdu # "prompted"
              /\ modem' = [IdleModem EXCEPT !.queue = Tail(modem.queue)]
  <2>1. PICK l \in Line :
          /\ lines' = Append(lines, l) /\ l.id = Answered.id
          /\ \/ /\ Answered.cmd.pdu /\ modem.pdu = "none" /\ Prompt(l) /\ ~Final(l)
                /\ l.n = 0 /\ modem' = [modem EXCEPT !.pdu = "prompted"]
             \/ /\ l.text \in InterTexts(Answered.cmd) /\ ~Prompt(l) /\ ~Final(l)
                /\ l.n = modem.n + 1 /\ l.n <= InterLimit(Answered.cmd.type)
                /\ Answered.cmd.pdu => modem.pdu = "received"
                /\ modem' = [modem EXCEPT !.n = @ + 1]
             \/ /\ Final(l) /\ ~Prompt(l) /\ l.n = modem.n /\ modem.pdu # "prompted"
                /\ modem' = [IdleModem EXCEPT !.queue = Tail(modem.queue)]
    BY AnswerSent
  <2> QED
    BY <1>0, <1>1, <2>1
<1>5. CASE /\ Asked.cmd.pdu /\ modem.pdu = "none" /\ Prompt(l) /\ ~Final(l)
           /\ l.n = 0 /\ modem' = [modem EXCEPT !.pdu = "prompted"]
  <2>1. s_smsPDU # NULL /\ NoAnswers(lines) /\ modem.n = 0
    BY <1>1, <1>2, <1>5 DEF PromptInv
  <2>2. Shaped(l, Asked) /\ Before(l) = modem.n
    BY <1>4, <1>5, <2>1 DEF Shaped, Before
  <2>3. /\ QuietInv' /\ ResponseInv' /\ Pending' /\ Asked' = Asked
        /\ UNCHANGED <<s_smsPDU, sp_response>>
        /\ \A i \in 1..Len(lines') : Answer(lines'[i]) => Shaped(lines'[i], Asked)
        /\ Len(lines) \in Nat /\ Len(lines') = Len(lines) + 1 /\ lines'[Len(lines) + 1] = l
        /\ \A i \in 1..Len(lines) : lines'[i] = lines[i]
        /\ \A i \in 1..Len(lines') : i \in 1..Len(lines) \/ i = Len(lines) + 1
    BY <1>0, <1>1, <1>4, <2>2, FlowEmits
  <2>4. modem'.queue = modem.queue /\ modem'.n = modem.n /\ modem'.pdu = "prompted"
    BY <1>5 DEF TypeOK
  <2>5. FlightInv'
    BY <1>1, <2>3, <2>4 DEF FlightInv
  <2>6. \A i \in 1..Len(lines') : Answer(lines'[i]) => i = Len(lines) + 1
    BY <2>1, <2>3 DEF NoAnswers, Answer
  <2>7. PromptInv'
    BY <1>5, <2>1, <2>3, <2>4, <2>6 DEF PromptInv
  <2>8. CountInv => CountInv'
    BY <1>0, <1>1, <1>4, <1>5, <2>1, <2>2, <2>4, CountEmits
  <2> QED
    BY <2>3, <2>5, <2>7, <2>8 DEF FlowInv
<1>6. CASE /\ l.text \in InterTexts(Asked.cmd) /\ ~Prompt(l) /\ ~Final(l)
           /\ l.n = modem.n + 1 /\ l.n <= InterLimit(Asked.cmd.type)
           /\ Asked.cmd.pdu => modem.pdu = "received"
           /\ modem' = [modem EXCEPT !.n = @ + 1]
  <2>1. 1 <= l.n /\ Before(l) = modem.n
    BY <1>0, <1>6 DEF Before
  <2>2. Shaped(l, Asked)
    BY <1>4, <1>6, <2>1 DEF Shaped
  <2>3. /\ QuietInv' /\ ResponseInv' /\ Pending' /\ Asked' = Asked
        /\ UNCHANGED <<s_smsPDU, sp_response>>
        /\ \A i \in 1..Len(lines') : Answer(lines'[i]) => Shaped(lines'[i], Asked)
        /\ Len(lines) \in Nat /\ Len(lines') = Len(lines) + 1 /\ lines'[Len(lines) + 1] = l
        /\ \A i \in 1..Len(lines) : lines'[i] = lines[i]
        /\ \A i \in 1..Len(lines') : i \in 1..Len(lines) \/ i = Len(lines) + 1
    BY <1>0, <1>1, <1>4, <2>2, FlowEmits
  <2>4. modem'.queue = modem.queue /\ modem'.n = modem.n + 1 /\ modem'.pdu = modem.pdu
    BY <1>6 DEF TypeOK
  <2>5. FlightInv'
    BY <1>1, <2>3, <2>4 DEF FlightInv
  <2>6. Asked.cmd.type # "NO_RESULT"
    BY <1>0, <1>6 DEF InterLimit
  <2>7. \A i \in 1..Len(lines) : Answer(lines[i]) => ~Prompt(lines[i])
    <3> SUFFICES ASSUME NEW i \in 1..Len(lines), Answer(lines[i]), Prompt(lines[i])
                 PROVE  FALSE
      OBVIOUS
    <3>1. modem.pdu = "prompted"
      BY <1>1, <1>2 DEF PromptInv
    <3>2. Asked.cmd.pdu
      <4>1. Shaped(lines[i], Asked)
        BY <1>1, <1>2 DEF FlightInv
      <4>2. lines[i].text \notin InterTexts(Asked.cmd)
        BY <1>1, <2>6, InterIsPlain DEF Prompt
      <4> QED
        BY <4>1, <4>2 DEF Shaped, Prompt, Final
    <3> QED
      BY <1>6, <3>1, <3>2
  <2>8. \A i \in 1..Len(lines') : Answer(lines'[i]) => ~Prompt(lines'[i]) /\ ~Final(lines'[i])
    BY <1>3, <1>6, <2>3, <2>7
  <2>9. PromptInv'
    BY <1>6, <2>3, <2>4, <2>8 DEF PromptInv
  <2>10. CountInv => CountInv'
    BY <1>0, <1>1, <1>4, <1>6, <2>1, <2>4, CountEmits
  <2> QED
    BY <2>3, <2>5, <2>9, <2>10 DEF FlowInv
<1>7. CASE /\ Final(l) /\ ~Prompt(l) /\ l.n = modem.n /\ modem.pdu # "prompted"
           /\ modem' = [IdleModem EXCEPT !.queue = Tail(modem.queue)]
  <2>1. modem' = IdleModem /\ modem'.queue = <<>>
    BY <1>1, <1>7 DEF IdleModem
  <2>2. Shaped(l, Asked) /\ Before(l) = modem.n
    BY <1>4, <1>7 DEF Shaped, Before
  <2>3. /\ QuietInv' /\ ResponseInv' /\ Pending' /\ Asked' = Asked
        /\ UNCHANGED <<s_smsPDU, sp_response>>
        /\ \A i \in 1..Len(lines') : Answer(lines'[i]) => Shaped(lines'[i], Asked)
        /\ Len(lines) \in Nat /\ Len(lines') = Len(lines) + 1 /\ lines'[Len(lines) + 1] = l
        /\ \A i \in 1..Len(lines) : lines'[i] = lines[i]
        /\ \A i \in 1..Len(lines') : i \in 1..Len(lines) \/ i = Len(lines) + 1
    BY <1>0, <1>1, <1>4, <2>2, FlowEmits
  <2>4. FlightInv'
    BY <2>1, <2>3 DEF FlightInv
  <2>5. \A i \in 1..Len(lines) : Answer(lines[i]) => ~Prompt(lines[i])
    BY <1>1, <1>2, <1>7 DEF PromptInv
  <2>6. \A i \in 1..Len(lines') : Answer(lines'[i]) => ~Prompt(lines'[i])
    BY <1>7, <2>3, <2>5
  <2>7. \A i \in 1..Len(lines') : (Answer(lines'[i]) /\ Final(lines'[i])) => i = Len(lines')
    BY <1>3, <2>3
  <2>8. \A i \in 1..Len(lines') : (Answer(lines'[i]) /\ Final(lines'[i])) =>
            \A j \in 1..Len(lines') : j > i => lines'[j].id = 0
    BY <2>3, <2>7
  <2>9. PromptInv'
    BY <2>1, <2>6, <2>8 DEF PromptInv
  <2>10. CountInv => CountInv'
    BY <1>0, <1>1, <1>4, <2>1, <2>2, CountEmits
  <2> QED
    BY <2>3, <2>4, <2>9, <2>10 DEF FlowInv
<1> QED
  BY <1>4, <1>5, <1>6, <1>7

(* The answer in flight, with ls for the lines. *)
Flight(ls) ==
    /\ ~Pending => NoAnswers(ls)
    /\ Pending =>
        /\ \A i \in 1..Len(ls) : Answer(ls[i]) => Shaped(ls[i], Asked)
        /\ \A i \in 1..Len(ls) : (Answer(ls[i]) /\ Prompt(ls[i])) =>
              /\ s_smsPDU # NULL
              /\ \A j \in 1..Len(ls) : Answer(ls[j]) => j = i
              /\ modem.queue # <<>> => modem.pdu = "prompted"
        /\ (modem.queue # <<>> /\ Asked.cmd.pdu /\ modem.pdu = "none") =>
              s_smsPDU # NULL /\ NoAnswers(ls) /\ modem.n = 0
        /\ \A i \in 1..Len(ls) : (Answer(ls[i]) /\ Final(ls[i])) =>
              /\ modem = IdleModem
              /\ \A j \in 1..Len(ls) : j > i => ls[j].id = 0

LEMMA FlightNow ==
    ASSUME FlowInv
    PROVE  Flight(lines)
BY DEF FlowInv, QuietInv, FlightInv, PromptInv, Flight

(* An unsolicited line joins the answer in flight. *)
LEMMA FlightJoined ==
    ASSUME TypeOK, NEW ls \in Seq(Line), NEW l \in Line, l.id = 0
    PROVE  /\ Flight(ls) => Flight(Append(ls, l))
           /\ (Pending /\ Continued(ls, sp_response, modem)) =>
                 Continued(Append(ls, l), sp_response, modem)
<1> DEFINE q == Append(ls, l)
<1>1. /\ Len(ls) \in Nat /\ Len(q) = Len(ls) + 1 /\ q[Len(ls) + 1] = l
      /\ \A i \in 1..Len(ls) : i \in 1..Len(q) /\ q[i] = ls[i]
      /\ \A i \in 1..Len(q) : i \in 1..Len(ls) \/ i = Len(ls) + 1
  BY AppendFacts
<1>2. ASSUME Pending, Continued(ls, sp_response, modem)
      PROVE  Continued(q, sp_response, modem)
  <2>1. Len(sp_response.inter) \in Nat /\ modem.n \in Nat
    BY <1>2, AskedType DEF Pending, TypeOK
  <2>2. /\ Chain(q, Len(sp_response.inter))
        /\ EndsAt(ls, Len(sp_response.inter), modem.n) =>
              EndsAt(q, Len(sp_response.inter), modem.n)
    BY <1>2, <2>1, ChainInterleaves DEF Continued
  <2> HIDE DEF q
  <2> QED
    BY <1>2, <2>2 DEF Continued
<1> HIDE DEF q
<1>3. \A i \in 1..Len(q) : Answer(q[i]) => i \in 1..Len(ls) /\ q[i] = ls[i]
  BY <1>1 DEF Answer
<1>4. NoAnswers(ls) => NoAnswers(q)
  BY <1>1 DEF NoAnswers
<1>5. ASSUME Flight(ls) PROVE Flight(q)
  <2>1. ASSUME Pending
        PROVE  \A i \in 1..Len(q) : (Answer(q[i]) /\ Prompt(q[i])) =>
                  /\ s_smsPDU # NULL
                  /\ \A j \in 1..Len(q) : Answer(q[j]) => j = i
                  /\ modem.queue # <<>> => modem.pdu = "prompted"
    BY <1>3, <1>5, <2>1 DEF Flight
  <2>2. ASSUME Pending, NEW i \in 1..Len(q), Answer(q[i]), Final(q[i])
        PROVE  modem = IdleModem /\ \A j \in 1..Len(q) : j > i => q[j].id = 0
    <3>1. modem = IdleModem /\ \A j \in 1..Len(ls) : j > i => ls[j].id = 0
      BY <1>3, <1>5, <2>2 DEF Flight
    <3> QED
      BY <1>1, <3>1
  <2>3. ASSUME Pending PROVE \A i \in 1..Len(q) : Answer(q[i]) => Shaped(q[i], Asked)
    BY <1>3, <1>5, <2>3 DEF Flight
  <2> QED
    BY <1>4, <1>5, <2>1, <2>2, <2>3 DEF Flight
<1> QED
  BY <1>2, <1>5 DEF q

LEMMA FlowUnsolicited ==
    ASSUME TypeOK, FlowInv, ModemUnsolicited
    PROVE  FlowInv' /\ (CountInv => CountInv')
<1>1. ModemKeeps /\ UNCHANGED modem /\ lines \in Seq(Line)
  BY UnsolSent DEF TypeOK
<1>2. UNCHANGED <<sp_response, s_type, s_responsePrefix, s_smsPDU, call>>
  BY <1>1 DEF ModemKeeps, pendingVars, threadVars
<1>3. /\ Flight(lines')
      /\ (Pending /\ Continued(lines, sp_response, modem)) =>
            Continued(lines', sp_response, modem)
  <2>1. PICK u \in Line, v \in Line :
           /\ u.id = 0 /\ v.id = 0
           /\ lines' = Append(lines, u) \/ lines' = Append(Append(lines, u), v)
    BY UnsolSent
  <2>2. /\ Append(lines, u) \in Seq(Line) /\ Flight(Append(lines, u))
        /\ (Pending /\ Continued(lines, sp_response, modem)) =>
              Continued(Append(lines, u), sp_response, modem)
    BY <1>1, <2>1, FlightNow, FlightJoined, AppendFacts
  <2>3. /\ Flight(Append(Append(lines, u), v))
        /\ (Pending /\ Continued(Append(lines, u), sp_response, modem)) =>
              Continued(Append(Append(lines, u), v), sp_response, modem)
    BY <2>1, <2>2, FlightJoined
  <2> QED
    BY <2>1, <2>2, <2>3
<1>4. (Pending' <=> Pending) /\ Asked' = Asked
  BY <1>2 DEF Pending, Asked
<1>5. QuietInv'
  BY <1>1, <1>3, <1>4 DEF Flight, FlowInv, QuietInv, NoAnswers
<1>6. ResponseInv'
  BY <1>2, <1>4 DEF FlowInv, ResponseInv
<1>7. FlightInv'
  BY <1>1, <1>2, <1>3, <1>4 DEF Flight, FlowInv, FlightInv
<1>8. PromptInv'
  BY <1>1, <1>2, <1>3, <1>4 DEF Flight, PromptInv, NoAnswers
<1>9. ASSUME CountInv PROVE CountInv'
  <2>1. Pending => Continued(lines', sp_response', modem')
    BY <1>1, <1>2, <1>3, <1>9 DEF CountInv
  <2>2. (Pending => Continued(lines, sp_response, modem))'
    BY <1>4, <2>1 DEF Continued, Chain, EndsAt
  <2>3. (sp_response # NULL => Numbered(sp_response))'
    BY <1>2, <1>9 DEF CountInv, Numbered
  <2> QED
    BY <2>2, <2>3 DEF CountInv
<1> QED
  BY <1>5, <1>6, <1>7, <1>8, <1>9 DEF FlowInv

(* A command the modem forgets; its answer goes no further. *)
LEMMA FlowDropped ==
    ASSUME TypeOK, FlowInv, ModemDrops
    PROVE  FlowInv' /\ (CountInv => CountInv')
<1>0. UNCHANGED <<sp_response, s_type, s_responsePrefix, s_smsPDU, call, lines>>
  BY DEF ModemDrops, ModemKeeps, pendingVars, threadVars
<1>1. Pending /\ modem' = IdleModem /\ modem # IdleModem
  BY AnsweringFacts DEF ModemDrops, IdleModem
<1>2. modem'.queue = <<>>
  BY <1>1 DEF IdleModem
<1>3. Pending' /\ Asked' = Asked
  BY <1>0, <1>1 DEF Pending, Asked
<1>4. QuietInv'
  BY <1>3 DEF QuietInv
<1>5. ResponseInv'
  BY <1>0, <1>3 DEF FlowInv, ResponseInv
<1>6. FlightInv'
  BY <1>0, <1>1, <1>2, <1>3 DEF FlowInv, FlightInv
<1>7. PromptInv'
  BY <1>0, <1>1, <1>2, <1>3 DEF FlowInv, PromptInv
<1>8. CountInv => CountInv'
  BY <1>0, <1>1, <1>2, <1>3 DEF CountInv, Numbered, Continued, Chain
<1> QED
  BY <1>4, <1>5, <1>6, <1>7, <1>8 DEF FlowInv

LEMMA FlowHangup ==
    ASSUME TypeOK, FlowInv, Hangup
    PROVE  FlowInv' /\ (CountInv => CountInv')
<1>0. UNCHANGED <<sp_response, s_type, s_responsePrefix, s_smsPDU, call>>
  BY DEF Hangup, ModemKeeps, pendingVars, threadVars
<1>1. modem' = IdleModem /\ modem'.queue = <<>>
  BY DEF Hangup, IdleModem
<1>2. \A i \in 1..Len(lines') : i \in 1..Len(lines) /\ lines'[i] = lines[i]
  BY LinesLost
<1>3. (Pending' <=> Pending) /\ Asked' = Asked
  BY <1>0 DEF Pending, Asked
<1>4. QuietInv'
  BY <1>1, <1>2, <1>3 DEF FlowInv, QuietInv, NoAnswers
<1>5. ResponseInv'
  BY <1>0, <1>3 DEF FlowInv, ResponseInv
<1>6. FlightInv'
  BY <1>1, <1>2, <1>3 DEF FlowInv, FlightInv
<1>7. PromptInv'
  <2>1. PromptInv
    BY DEF FlowInv
  <2> QED
    BY <1>0, <1>1, <1>2, <1>3, <2>1 DEF PromptInv
<1>8. ASSUME CountInv PROVE CountInv'
  <2>1. ASSUME Pending PROVE Chain(lines', Len(sp_response.inter))
    <3>1. PICK k \in 0..Len(lines) : lines' = SubSeq(lines, 1, k)
      BY LinesLost
    <3>2. lines \in Seq(Line) /\ Len(sp_response.inter) \in Nat
      BY <2>1, AskedType DEF Pending, TypeOK
    <3>3. Chain(lines, Len(sp_response.inter))
      BY <1>8, <2>1 DEF CountInv, Continued
    <3> QED
      BY <3>1, <3>2, <3>3, ChainCut
  <2>2. (Pending => Continued(lines, sp_response, modem))'
    BY <1>0, <1>1, <1>3, <2>1 DEF Continued, Chain
  <2>3. (sp_response # NULL => Numbered(sp_response))'
    BY <1>0, <1>8 DEF CountInv, Numbered
  <2> QED
    BY <2>2, <2>3 DEF CountInv
<1> QED
  BY <1>4, <1>5, <1>6, <1>7, <1>8 DEF FlowInv

-----------------------------------------------------------------------------
(* The invariant. *)

LEMMA AnswerInit == Init => AnswerInv
<1> SUFFICES ASSUME Init PROVE AnswerInv
  OBVIOUS
<1>1. CallsNumbered /\ ClosedInv
  BY DEF Init, CallsNumbered, ClosedInv, IdleModem
<1>2. lines = <<>> /\ Len(lines) = 0 /\ Len(unsol) = 0 /\ sp_response = NULL
      /\ modem = IdleModem /\ reader = "none"
  BY DEF Init
<1>3. UnsolInv
  BY <1>2 DEF UnsolInv, Fresh, Ordered, Paired
<1>4. QuietInv /\ ResponseInv /\ FlightInv /\ PromptInv /\ CountInv
  BY <1>2 DEF QuietInv, ResponseInv, FlightInv, PromptInv, CountInv, Pending, NoAnswers
<1> QED
  BY <1>1, <1>3, <1>4 DEF AnswerInv, FlowInv

LEMMA FlowStep ==
    ASSUME TypeOK, PendingIsWaited, CallsNumbered, ClosedInv, UnsolInv, FlowInv,
           NoneCutShort, NoneCutShort', [Next]_vars
    PROVE  FlowInv' /\ (Exact' /\ CountInv => CountInv')
<1>1. Undisturbed /\ Undisturbed'
  BY DEF NoneCutShort
<1>2. ASSUME NEW t \in Threads,
             CommandThread(t) \/ InsideCall(t) \/ SpuriousWake(t) \/ WaitExpires(t)
      PROVE  FlowInv' /\ (CountInv => CountInv')
  BY <1>1, <1>2, FlowSend, FlowInside
<1>3. CASE Reader
  BY <1>3, FlowReader
<1>4. CASE at_open \/ at_open_reset
  BY <1>1, <1>4, FlowOpen
<1>5. CASE ModemServes \/ ModemDrops
  BY <1>5, FlowAnswers, FlowDropped
<1>6. CASE ModemUnsolicited \/ Hangup
  BY <1>6, FlowUnsolicited, FlowHangup
<1>7. CASE UNCHANGED vars
  <2>1. UNCHANGED <<pendingVars, modemVars, call>>
    BY <1>7 DEF vars, threadVars
  <2> QED
    BY <2>1, FlowKept
<1> QED
  BY <1>2, <1>3, <1>4, <1>5, <1>6, <1>7 DEF Next

LEMMA AnswerStep ==
    ASSUME TypeOK, PendingIsWaited, AnswerInv, [Next]_vars
    PROVE  AnswerInv'
<1>1. CallsNumbered /\ ClosedInv /\ UnsolInv
  BY DEF AnswerInv
<1>2. CallsNumbered' /\ ClosedInv' /\ UnsolInv'
  BY <1>1, NumberedStep, ClosedStep, UnsolStep
<1>3. ASSUME NoneCutShort' PROVE FlowInv' /\ (Exact' /\ CountInv => CountInv')
  <2>1. NoneCutShort /\ FlowInv
    BY <1>3, DisturbedStays DEF AnswerInv
  <2> QED
    BY <1>1, <1>3, <2>1, FlowStep
<1>4. ASSUME Exact' PROVE CountInv'
  <2>1. Exact /\ NoneCutShort' /\ CountInv
    BY <1>4, DisturbedStays DEF AnswerInv
  <2> QED
    BY <1>3, <1>4, <2>1
<1> QED
  BY <1>2, <1>3, <1>4 DEF AnswerInv

(* What is in flight between the modem and the caller belongs to the        *)
(* pending command unless a pending command was thrown away or an           *)
(* unsolicited line ended one; and the answer in flight continues the       *)
(* response under construction if no unsolicited line got into it.          *)
THEOREM AnswerCorrect == Spec => []AnswerInv
<1>1. TypeOK /\ PendingIsWaited /\ AnswerInv /\ [Next]_vars => AnswerInv'
  BY AnswerStep
<1> QED
  BY <1>1, AnswerInit, TypeCorrect, PendingCorrect, PTL DEF Spec

-----------------------------------------------------------------------------
(* What the callers see. *)

(* What a call returns, when a step returns one. *)
LEMMA ResultSteps ==
    ASSUME TypeOK, [Next]_vars
    PROVE  \/ UNCHANGED result
           \/ \E t \in Threads, e \in Errors, id \in Nat :
                  result' = [result EXCEPT ![t] = [err |-> e, id |-> id, resp |-> NULL]]
           \/ \E t \in Threads : FinishCommand(t)
<1> DEFINE Some == \E t \in Threads, e \in Errors, id \in Nat :
                  result' = [result EXCEPT ![t] = [err |-> e, id |-> id, resp |-> NULL]]
<1>0. writeline \subseteq Errors /\ "COMMAND_PENDING" \in Errors /\ "TIMEOUT" \in Errors
      /\ nCmd + 1 \in Nat
  BY ConstantsAssumption DEF writeline, Errors, TypeOK
<1>1. ASSUME NEW t \in Threads, CommandThread(t) PROVE UNCHANGED result \/ Some
  <2>1. ASSUME NEW c \in Commands, SendWhilePending(t, c) \/ SendFails(t, c) PROVE Some
    BY <1>0, <2>1 DEF SendWhilePending, SendFails, Returns
  <2>2. ASSUME NEW c \in Commands, SendAndWait(t, c) PROVE UNCHANGED result
    BY <2>2 DEF SendAndWait
  <2>3. CASE HandshakeStart(t)
    BY <2>3 DEF HandshakeStart
  <2> HIDE DEF Some
  <2> QED
    BY <1>1, <2>1, <2>2, <2>3 DEF CommandThread
<1>2. ASSUME NEW t \in Threads, InsideCall(t)
      PROVE  UNCHANGED result \/ Some \/ FinishCommand(t)
  <2>1. call[t].id \in Nat
    BY DEF TypeOK, Call
  <2>2. CASE HandshakeTryFails(t) \/ HandshakeTimesOut(t)
    BY <1>0, <2>1, <2>2 DEF HandshakeTryFails, HandshakeTimesOut, HandshakeErr
  <2>3. CASE HandshakeAnswered(t)
    <3>1. FinishErr(call[t].cmd, sp_response) \in Errors
      BY DEF FinishErr, Errors
    <3> QED
      BY <2>1, <2>3, <3>1 DEF HandshakeAnswered, HandshakeErr
  <2>4. CASE WakeToNull(t) \/ WaitAgain(t) \/ HandshakeTrySends(t) \/ HandshakeReturns(t)
    BY <2>4 DEF WakeToNull, WaitAgain, HandshakeTrySends, HandshakeReturns
  <2> HIDE DEF Some
  <2> QED
    BY <1>2, <2>2, <2>3, <2>4 DEF InsideCall
<1>3. ASSUME NEW t \in Threads, SpuriousWake(t) \/ WaitExpires(t) PROVE UNCHANGED result
  BY <1>3 DEF SpuriousWake, WaitExpires
<1>4. ASSUME Reader PROVE UNCHANGED result
  BY <1>4 DEF Reader, processLine, ReadSmsHeader, ReadSmsPdu, ReadEOF, onReaderClosed,
              at_close, threadVars
<1>5. ASSUME at_open \/ at_open_reset PROVE UNCHANGED result
  BY <1>5 DEF at_open, at_open_reset
<1>6. ASSUME ModemServes \/ ModemDrops \/ ModemUnsolicited \/ Hangup PROVE UNCHANGED result
  BY <1>6, ModemKept DEF ModemKeeps, threadVars
<1>7. ASSUME UNCHANGED vars PROVE UNCHANGED result
  BY <1>7 DEF vars, threadVars
<1> HIDE DEF Some
<1>8. UNCHANGED result \/ Some \/ \E t \in Threads : FinishCommand(t)
  BY <1>1, <1>2, <1>3, <1>4, <1>5, <1>6, <1>7 DEF Next
<1> QED
  BY <1>8 DEF Some

(* What one result must be: of its own command, and whole. *)
Owned(x) ==
    x.resp # NULL =>
        /\ x.resp.id = x.id
        /\ x.err = "OK" => x.resp.final # NULL /\ x.resp.final.id = x.resp.id

Whole(x) ==
    x.resp # NULL =>
        /\ \A i \in 1..Len(x.resp.inter) :
              x.resp.inter[i].id = x.resp.id /\ x.resp.inter[i].n = i
        /\ x.err = "OK" => x.resp.final.n = Len(x.resp.inter)

OwnedResults ==
    /\ NoneCutShort => \A t \in Threads : Owned(result[t])
    /\ (NoneCutShort /\ mistaken = {}) => \A t \in Threads : Whole(result[t])

LEMMA OwnResponseIsOwned ==
    ASSUME TypeOK
    PROVE  OwnResponse <=> OwnedResults
<1>1. ASSUME NEW t \in Threads, result[t].resp # NULL
      PROVE  DOMAIN result[t].resp.inter = 1..Len(result[t].resp.inter)
  <2>1. result[t].resp.inter \in Seq(Line)
    BY <1>1 DEF TypeOK, Result, ATResponse
  <2> QED
    BY <2>1
<1> QED
  BY <1>1 DEF OwnResponse, OwnedResults, Owned, Whole

(* The response of a finished command. *)
LEMMA FinishOwned ==
    ASSUME TypeOK, WaiterOwnsPending, FlowInv, Undisturbed, NEW t \in Threads,
           FinishCommand(t)
    PROVE  \E x : result' = [result EXCEPT ![t] = x] /\ Owned(x) /\ (CountInv => Whole(x))
<1> DEFINE c == call[t].cmd
           e == FinishErr(c, sp_response)
           x == [err |-> e, id |-> call[t].id,
                 resp |-> IF c.out /\ e # "INVALID_RESPONSE"
                          THEN reverseIntermediates(sp_response) ELSE NULL]
<1>1. /\ result' = [result EXCEPT ![t] = x] /\ sp_response # NULL /\ pc[t] = "woken"
      /\ sp_response.final # NULL \/ s_readerClosed
  BY DEF FinishCommand, Resuming
<1>2. sp_response.owner = t
  BY <1>1 DEF WaiterOwnsPending, Undisturbed, InWait
<1>3. sp_response \in ATResponse /\ sp_response.inter \in Seq(Line)
      /\ Len(sp_response.inter) \in Nat
  BY <1>1, AskedType
<1>4. /\ sp_response.id = call[t].id
      /\ sp_response.final # NULL => sp_response.final.id = sp_response.id
  BY <1>1, <1>2 DEF FlowInv, ResponseInv, Asked
<1>5. CountInv =>
      /\ \A i \in 1..Len(sp_response.inter) :
            /\ sp_response.inter[i].id = sp_response.id
            /\ sp_response.inter[i].n = Len(sp_response.inter) + 1 - i
      /\ sp_response.final # NULL => sp_response.final.n = Len(sp_response.inter)
  BY <1>1 DEF CountInv, Numbered
<1>6. e = "OK" => ~s_readerClosed
  BY DEF FinishErr
<1> DEFINE s == sp_response.inter
           r == reverseIntermediates(sp_response)
<1>7. /\ r.id = sp_response.id /\ r.final = sp_response.final /\ r.inter = Reversed(s)
  BY <1>3 DEF reverseIntermediates, ATResponse
<1>8. /\ Len(Reversed(s)) = Len(s)
      /\ \A i \in 1..Len(s) : Reversed(s)[i] = s[Len(s) + 1 - i]
  BY <1>3 DEF Reversed
<1>9. ASSUME CountInv, NEW i \in 1..Len(s)
      PROVE  r.inter[i].id = r.id /\ r.inter[i].n = i
  <2> DEFINE j == Len(s) + 1 - i
  <2>1. j \in 1..Len(s) /\ Len(s) + 1 - j = i
    BY <1>3
  <2>2. r.inter[i] = s[j]
    BY <1>7, <1>8
  <2> HIDE DEF j
  <2>3. s[j].id = sp_response.id /\ s[j].n = Len(s) + 1 - j
    BY <1>5, <1>9, <2>1
  <2> QED
    BY <1>7, <2>1, <2>2, <2>3
<1> HIDE DEF r, s
<1>10. x.id = call[t].id /\ x.err = e /\ (x.resp = NULL \/ x.resp = r)
  BY DEF r
<1> HIDE DEF x, e, c
<1>11. Owned(x)
  BY <1>1, <1>4, <1>6, <1>7, <1>10 DEF Owned
<1>12. ASSUME CountInv PROVE Whole(x)
  <2>1. Len(r.inter) = Len(s)
    BY <1>7, <1>8
  <2> QED
    BY <1>1, <1>5, <1>6, <1>7, <1>9, <1>10, <1>12, <2>1 DEF Whole, s
<1> QED
  BY <1>1, <1>11, <1>12

LEMMA OwnStep ==
    ASSUME TypeOK, WaiterOwnsPending, AnswerInv, OwnedResults, [Next]_vars
    PROVE  OwnedResults'
<1>1. result \in [Threads -> Result]
  BY DEF TypeOK
<1>2. ASSUME NEW t \in Threads, NEW x, result' = [result EXCEPT ![t] = x]
      PROVE  \A u \in Threads : result'[u] \in {result[u], x}
  BY <1>1, <1>2
<1>3. ASSUME NEW t \in Threads, NEW e \in Errors, NEW id \in Nat,
             result' = [result EXCEPT ![t] = [err |-> e, id |-> id, resp |-> NULL]],
             NEW u \in Threads
      PROVE  (Owned(result[u]) => Owned(result'[u])) /\ (Whole(result[u]) => Whole(result'[u]))
  <2> DEFINE x == [err |-> e, id |-> id, resp |-> NULL]
  <2>1. Owned(x) /\ Whole(x)
    BY DEF Owned, Whole
  <2>2. result'[u] \in {result[u], x}
    BY <1>2, <1>3
  <2> HIDE DEF x
  <2> QED
    BY <2>1, <2>2
<1>4. ASSUME NEW t \in Threads, FinishCommand(t), FlowInv, Undisturbed, NEW u \in Threads
      PROVE  /\ Owned(result[u]) => Owned(result'[u])
             /\ (CountInv /\ Whole(result[u])) => Whole(result'[u])
  <2>1. PICK x : result' = [result EXCEPT ![t] = x] /\ Owned(x) /\ (CountInv => Whole(x))
    BY <1>4, FinishOwned
  <2>2. result'[u] \in {result[u], x}
    BY <1>2, <2>1
  <2> QED
    BY <2>1, <2>2
<1>5. ASSUME FlowInv, Undisturbed, NEW u \in Threads
      PROVE  /\ Owned(result[u]) => Owned(result'[u])
             /\ (CountInv /\ Whole(result[u])) => Whole(result'[u])
  <2>1. CASE UNCHANGED result
    BY <2>1
  <2>2. CASE \E t \in Threads, e \in Errors, id \in Nat :
                result' = [result EXCEPT ![t] = [err |-> e, id |-> id, resp |-> NULL]]
    BY <1>3, <2>2
  <2>3. CASE \E t \in Threads : FinishCommand(t)
    BY <1>4, <1>5, <2>3
  <2> QED
    BY <2>1, <2>2, <2>3, ResultSteps
<1>6. ASSUME NoneCutShort', NEW u \in Threads PROVE Owned(result'[u])
  <2>1. NoneCutShort /\ Undisturbed /\ FlowInv /\ Owned(result[u])
    BY <1>6, DisturbedStays DEF AnswerInv, OwnedResults, NoneCutShort
  <2> QED
    BY <1>5, <2>1
<1>7. ASSUME NoneCutShort', mistaken' = {}, NEW u \in Threads PROVE Whole(result'[u])
  <2>1. Exact'
    BY <1>7 DEF Exact, NoneCutShort
  <2>2. NoneCutShort /\ Exact
    BY <1>7, <2>1, DisturbedStays
  <2>3. Undisturbed /\ FlowInv /\ CountInv /\ Whole(result[u])
    BY <2>2 DEF AnswerInv, OwnedResults, Exact
  <2> QED
    BY <1>5, <2>3
<1> QED
  BY <1>6, <1>7 DEF OwnedResults, Owned, Whole

(* The response a caller is handed is that of its own command, as long as   *)
(* no thread destroys another's pending command, no attempt of at_handshake *)
(* is given up unanswered and no unsolicited line ends a command; it is the *)
(* whole answer if no unsolicited line got into it either.  There is no     *)
(* assumption on what the modem sends unasked.                              *)
THEOREM OwnResponseCorrect == Spec => []OwnResponse
<1>1. Init => OwnedResults
  BY DEF Init, OwnedResults, Owned, Whole
<1>2. TypeOK /\ WaiterOwnsPending /\ AnswerInv /\ OwnedResults /\ [Next]_vars
        => OwnedResults'
  BY OwnStep
<1>3. TypeOK /\ OwnedResults => OwnResponse
  BY OwnResponseIsOwned
<1> QED
  BY <1>1, <1>2, <1>3, AnswerCorrect, TypeCorrect, OwnershipCorrect, PTL DEF Spec

(* What a step gives to the handler of unsolicited lines. *)
LEMMA HandlerSteps ==
    ASSUME TypeOK, UnsolInv, [Next]_vars
    PROVE  \/ UNCHANGED unsol
           \/ /\ lines # <<>> /\ lines[1] \in Line
              /\ unsol' = Append(unsol, <<lines[1].id, lines[1].n>>)
              /\ (Exact' /\ FlowInv /\ CountInv) => lines[1].id = 0
<1>1. ASSUME NEW t \in Threads,
             CommandThread(t) \/ InsideCall(t) \/ SpuriousWake(t) \/ WaitExpires(t)
      PROVE  UNCHANGED unsol
  BY <1>1 DEF CommandThread, SendWhilePending, SendFails, SendAndWait, Entering,
              HandshakeStart, InsideCall, WakeToNull, WaitAgain, FinishCommand,
              HandshakeTryFails, HandshakeTrySends, Trying, Resuming, HandshakeTimesOut,
              HandshakeAnswered, HandshakeReturns, SpuriousWake, WaitExpires, history
<1>2. CASE processLine
  <2>1. /\ lines # <<>> /\ lines[1] \in Line
        /\ unsol' \in {unsol, Append(unsol, <<lines[1].id, lines[1].n>>)}
    BY <1>2, LineRoutes
  <2>2. ASSUME Exact', FlowInv, CountInv PROVE UNCHANGED unsol \/ lines[1].id = 0
    <3>1. NoneCutShort'
      BY <2>2, DisturbedStays
    <3> QED
      BY <1>2, <2>2, <3>1, LineCases
  <2> QED
    BY <2>1, <2>2
<1>3. CASE ReadSmsPdu
  <2>1. lines \in Seq(Line)
    BY DEF TypeOK
  <2> QED
    BY <1>3, <2>1, PduRead, TailFacts
<1>4. CASE ReadSmsHeader \/ ReadEOF \/ onReaderClosed \/ at_close
  BY <1>4 DEF ReadSmsHeader, ReadEOF, onReaderClosed, at_close, history
<1>5. CASE at_open \/ at_open_reset
  BY <1>5 DEF at_open, at_open_reset, history
<1>6. CASE ModemServes \/ ModemDrops \/ ModemUnsolicited \/ Hangup
  BY <1>6, ModemKept DEF ModemKeeps, history
<1>7. CASE UNCHANGED vars
  BY <1>7 DEF vars, history
<1> QED
  BY <1>1, <1>2, <1>3, <1>4, <1>5, <1>6, <1>7 DEF Next, Reader

LEMMA InOrderStep ==
    ASSUME TypeOK, AnswerInv, UnsolicitedInOrder, [Next]_vars
    PROVE  UnsolicitedInOrder'
<1>1. /\ unsol \in Seq(Nat \X Nat) /\ DOMAIN unsol = 1..Len(unsol) /\ Len(unsol) \in Nat
      /\ lines \in Seq(Line)
  BY DEF TypeOK
<1>2. UnsolInv
  BY DEF AnswerInv
<1>3. /\ \A i, j \in 1..Len(unsol) :
            (i < j /\ unsol[i][1] = 0 /\ unsol[j][1] = 0) => unsol[i][2] < unsol[j][2]
      /\ Exact => \A i \in 1..Len(unsol) : unsol[i][1] = 0
  BY <1>1 DEF UnsolicitedInOrder, Exact
<1>4. Exact' => Exact /\ FlowInv /\ CountInv
  BY DisturbedStays DEF AnswerInv
<1>5. CASE UNCHANGED unsol
  <2>1. \A i, j \in DOMAIN unsol' : (i < j /\ unsol'[i][1] = 0 /\ unsol'[j][1] = 0)
                                    => unsol'[i][2] < unsol'[j][2]
    BY <1>1, <1>3, <1>5
  <2>2. Exact' => \A i \in DOMAIN unsol' : unsol'[i][1] = 0
    BY <1>1, <1>3, <1>4, <1>5
  <2> QED
    BY <2>1, <2>2 DEF UnsolicitedInOrder, Exact
<1>6. CASE /\ lines # <<>> /\ lines[1] \in Line
           /\ unsol' = Append(unsol, <<lines[1].id, lines[1].n>>)
           /\ (Exact' /\ FlowInv /\ CountInv) => lines[1].id = 0
  <2> DEFINE e == <<lines[1].id, lines[1].n>>
             z == Len(unsol) + 1
  <2>1. 1 \in 1..Len(lines)
    BY <1>1, <1>6, TailFacts
  <2>2. e \in Nat \X Nat /\ e[1] = lines[1].id /\ e[2] = lines[1].n
    BY <1>6 DEF Line
  <2>3. e[1] = 0 => \A k \in 1..Len(unsol) : unsol[k][1] = 0 => unsol[k][2] < e[2]
    BY <1>2, <2>1, <2>2 DEF UnsolInv, Fresh
  <2>4. /\ DOMAIN unsol' = 1..z /\ unsol'[z] = e
        /\ \A k \in 1..Len(unsol) : unsol'[k] = unsol[k]
    BY <1>1, <1>6, <2>2
  <2>5. Exact' => e[1] = 0
    BY <1>4, <1>6, <2>2
  <2> HIDE DEF e
  <2>6. ASSUME Exact', NEW i \in 1..z PROVE unsol'[i][1] = 0
    <3>1. \A k \in 1..Len(unsol) : unsol[k][1] = 0
      BY <1>3, <1>4, <2>6
    <3>2. e[1] = 0
      BY <2>5, <2>6
    <3>3. i = z \/ i \in 1..Len(unsol)
      BY <1>1
    <3> QED
      BY <2>4, <3>1, <3>2, <3>3
  <2>7. ASSUME NEW i \in 1..z, NEW j \in 1..z, i < j, unsol'[i][1] = 0, unsol'[j][1] = 0
        PROVE  unsol'[i][2] < unsol'[j][2]
    <3>1. i \in 1..Len(unsol)
      BY <1>1, <2>7
    <3>2. CASE j = z
      BY <2>3, <2>4, <2>7, <3>1, <3>2
    <3>3. CASE j \in 1..Len(unsol)
      BY <1>3, <2>4, <2>7, <3>1, <3>3
    <3> QED
      BY <1>1, <3>2, <3>3
  <2>8. \A i, j \in DOMAIN unsol' : (i < j /\ unsol'[i][1] = 0 /\ unsol'[j][1] = 0)
                                    => unsol'[i][2] < unsol'[j][2]
    BY <2>4, <2>7
  <2>9. Exact' => \A i \in DOMAIN unsol' : unsol'[i][1] = 0
    BY <2>4, <2>6
  <2> QED
    BY <2>8, <2>9 DEF UnsolicitedInOrder, Exact
<1> QED
  BY <1>2, <1>5, <1>6, HandlerSteps

(* The handler of unsolicited lines sees each at most once and in order,    *)
(* always; and no answer of a command as long as no pending command was     *)
(* thrown away and no unsolicited line was taken for part of an answer.     *)
(* (A line that is taken so never reaches the handler.)                     *)
THEOREM UnsolicitedCorrect == Spec => []UnsolicitedInOrder
<1>1. Init => UnsolicitedInOrder
  BY DEF Init, UnsolicitedInOrder
<1>2. TypeOK /\ AnswerInv /\ UnsolicitedInOrder /\ [Next]_vars => UnsolicitedInOrder'
  BY InOrderStep
<1> QED
  BY <1>1, <1>2, AnswerCorrect, TypeCorrect, PTL DEF Spec

LEMMA PduStep ==
    ASSUME TypeOK, AnswerInv, PduAnswersOwnPrompt, [Next]_vars
    PROVE  PduAnswersOwnPrompt'
<1> SUFFICES ASSUME NoneCutShort' PROVE \A p \in pdus' : p[1] = p[2]
  BY DEF PduAnswersOwnPrompt
<1>1. FlowInv /\ \A p \in pdus : p[1] = p[2]
  BY DisturbedStays DEF AnswerInv, PduAnswersOwnPrompt
<1>2. CASE UNCHANGED pdus
  BY <1>1, <1>2
<1>3. CASE processLine
  <2>1. CASE UNCHANGED pdus
    BY <1>2, <2>1
  <2>2. CASE /\ lines[1].id # 0 /\ Prompt(lines[1])
             /\ pdus' = pdus \cup {<<s_smsPDU, lines[1].id>>}
    <3>1. lines # <<>> /\ lines \in Seq(Line)
      BY <1>3 DEF processLine, TypeOK
    <3>2. Pending /\ lines[1].id = sp_response.id /\ 1 \in 1..Len(lines)
      BY <1>1, <2>2, <3>1, RouteAnswer, TailFacts
    <3>3. s_smsPDU # NULL
      BY <1>1, <2>2, <3>2 DEF FlowInv, PromptInv, Answer
    <3>4. s_smsPDU = sp_response.id
      BY <1>1, <3>2, <3>3 DEF FlowInv, ResponseInv, Pending
    <3> QED
      BY <1>1, <2>2, <3>2, <3>4
  <2> QED
    BY <1>1, <1>3, <2>1, <2>2, LineCases
<1>4. ASSUME NEW t \in Threads,
             CommandThread(t) \/ InsideCall(t) \/ SpuriousWake(t) \/ WaitExpires(t)
      PROVE  UNCHANGED pdus
  BY <1>4 DEF CommandThread, SendWhilePending, SendFails, SendAndWait, Entering,
              HandshakeStart, InsideCall, WakeToNull, WaitAgain, FinishCommand,
              HandshakeTryFails, HandshakeTrySends, Trying, Resuming, HandshakeTimesOut,
              HandshakeAnswered, HandshakeReturns, SpuriousWake, WaitExpires, history
<1>5. ASSUME ReadSmsHeader \/ ReadSmsPdu \/ ReadEOF \/ onReaderClosed \/ at_close
      PROVE  UNCHANGED pdus
  BY <1>5 DEF ReadSmsHeader, ReadSmsPdu, ReadEOF, onReaderClosed, at_close, history
<1>6. ASSUME at_open \/ at_open_reset PROVE UNCHANGED pdus
  BY <1>6 DEF at_open, at_open_reset, history
<1>7. ASSUME ModemServes \/ ModemDrops \/ ModemUnsolicited \/ Hangup PROVE UNCHANGED pdus
  BY <1>7, ModemKept DEF ModemKeeps, history
<1>8. ASSUME UNCHANGED vars PROVE UNCHANGED pdus
  BY <1>8 DEF vars, history
<1> QED
  BY <1>2, <1>3, <1>4, <1>5, <1>6, <1>7, <1>8 DEF Next, Reader

(* An SMS PDU is written only to the prompt of its own command, unless a    *)
(* pending command was thrown away or an unsolicited line ended one.        *)
THEOREM PduCorrect == Spec => []PduAnswersOwnPrompt
<1>1. Init => PduAnswersOwnPrompt
  BY DEF Init, PduAnswersOwnPrompt
<1>2. TypeOK /\ AnswerInv /\ PduAnswersOwnPrompt /\ [Next]_vars => PduAnswersOwnPrompt'
  BY PduStep
<1> QED
  BY <1>1, <1>2, AnswerCorrect, TypeCorrect, PTL DEF Spec
=============================================================================
