------------------------- MODULE RILRequestsProofs -------------------------
(***************************************************************************)
(* Proofs about RILRequests: the safety properties of the request          *)
(* handlers, for every number of tries and of pppd processes.              *)
(*                                                                         *)
(* A handler is a program whose instructions carry the programs that       *)
(* follow their failure.  In the handlers these are nested three deep, so  *)
(* each condition on a program ("completes once", "frees what it stores",  *)
(* "uses nothing it has freed") is defined level by level: level n is      *)
(* stated in terms of level n - 1 for the alternatives.  The proof then    *)
(* has three parts:                                                        *)
(*   - every handler satisfies the conditions when onRequest starts it, up *)
(*     to the exceptions the properties name (HandlersWellFormed);         *)
(*   - executing one instruction of a program that satisfies a condition   *)
(*     leaves one that does, on success and on failure (CompletingStep,    *)
(*     FreesStep, ReturnsStep, UntouchedStep, TidyStep);                   *)
(*   - the program that is left and the variables agree at every point     *)
(*     (the parts of IInv).                                                *)
(* Six handlers are followed point by point as well: the three that may    *)
(* complete twice, the one of the screen and the two of the data call.     *)
(***************************************************************************)
EXTENDS RILRequests, TLAPS, SequenceTheorems, FiniteSetTheorems

---------------------------------------------------------------------------
(* Programs.                                                               *)

Codes == {"SUCCESS", "GENERIC_FAILURE", "PASSWORD_INCORRECT", "REQUEST_NOT_SUPPORTED",
          "RADIO_NOT_AVAILABLE"}
Branching == {"send", "parse", "try", "either", "monitor", "pppd", "poll"}

\* Instructions without an alternative, instructions with an alternative in A, and those
\* that touch radio state, screen state or pppd.
Plain ==
    [op : {"tell"}] \cup [op : {"complete"}, code : Codes, uses : SUBSET Pointers]
    \cup [op : {"alloc", "sprintf", "free"}, v : Pointers]
Branch(A) == [op : {"send", "parse"}, v : Pointers, alt : A] \cup [op : {"try", "either"}, alt : A]
Special(A) ==
    [op : {"radio"}, to : {"OFF", "ON"}] \cup [op : {"screen", "connected"}, to : BOOLEAN]
    \cup [op : {"kill"}] \cup [op : {"monitor"}, m : Monitors, on : BOOLEAN, alt : A]
    \cup [op : {"pppd", "poll"}, alt : A]

\* Programs by the depth to which alternatives are nested; what follows a failure is
\* never special.
Programs0 == Seq(Plain)
Programs1 == Seq(Plain \cup Branch(Programs0))
Programs2 == Seq(Plain \cup Branch(Programs1) \cup Special(Programs0))

Stores(x, v) == x.op \in {"send", "alloc", "sprintf"} /\ x.v = v
Reads(x, v) == (x.op = "parse" /\ x.v = v) \/ (x.op = "complete" /\ v \in x.uses)
Releases(x, v) == x.op = "free" /\ x.v = v

---------------------------------------------------------------------------
(* One completion.                                                         *)

\* The programs of P that complete the request once, whichever way they take; alternatives
\* are in A, and none comes after the completion.
Completing(P, A) ==
    {p \in P : \E k \in 1..Len(p) :
        /\ p[k].op = "complete"
        /\ \A i \in 1..Len(p) :
            /\ i # k => p[i].op # "complete"
            /\ p[i].op \in Branching => i < k /\ p[i].alt \in A}
Completing0 == Completing(Programs0, {})
Completing1 == Completing(Programs1, Completing0)
Completing2 == Completing(Programs2, Completing1)

\* What is left after the completion.
Completed == {p \in Programs2 : \A i \in 1..Len(p) : p[i].op \notin Branching \cup {"complete"}}

---------------------------------------------------------------------------
(* Responses are freed.                                                    *)

\* After its first n instructions p frees v before it stores v again; the alternatives on
\* the way are in A.
FreesAfter(p, n, v, A) ==
    \E k \in (n + 1)..Len(p) :
        /\ Releases(p[k], v)
        /\ \A i \in (n + 1)..(k - 1) :
            ~Stores(p[i], v) /\ (p[i].op \in Branching => p[i].alt \in A)

Frees(P, F) == [v \in Pointers |-> {p \in P : FreesAfter(p, 0, v, F[v])}]
Frees0 == Frees(Programs0, [v \in Pointers |-> {}])
Frees1 == Frees(Programs1, Frees0)
Frees2 == Frees(Programs2, Frees1)

\* The programs of P that free whatever they store; alternatives are in R, and free v if
\* they are in F[v].
Returns(P, F, R) ==
    {p \in P : \A i \in 1..Len(p) :
        /\ p[i].op \in Branching => p[i].alt \in R
        /\ \A v \in Pointers : Stores(p[i], v) =>
            FreesAfter(p, i, v, F[v]) /\ (p[i].op = "send" => p[i].alt \in F[v])}
Returns0 == Returns(Programs0, [v \in Pointers |-> {}], {})
Returns1 == Returns(Programs1, Frees0, Returns0)
Returns2 == Returns(Programs2, Frees1, Returns1)

---------------------------------------------------------------------------
(* Nothing freed is used.                                                  *)

Untouched(P, U) ==
    [v \in Pointers |-> {p \in P : \A i \in 1..Len(p) :
        /\ ~Reads(p[i], v) /\ ~Releases(p[i], v)
        /\ p[i].op \in Branching => p[i].alt \in U[v]}]
Untouched0 == Untouched(Programs0, [v \in Pointers |-> {}])
Untouched1 == Untouched(Programs1, Untouched0)
Untouched2 == Untouched(Programs2, Untouched1)

\* What p reads it has stored before, or it is in the set L.
StoredFirst(p, L) ==
    \A i \in 1..Len(p) : \A v \in Pointers \ L :
        Reads(p[i], v) => \E j \in 1..(i - 1) : Stores(p[j], v)

\* p has no sprintf, and what it frees it leaves alone afterwards; its alternatives are in T and rely on nothing.
Tidy(P, U, T) ==
    {p \in P : \A i \in 1..Len(p) :
        /\ p[i].op # "sprintf"
        /\ p[i].op \in Branching => p[i].alt \in T /\ StoredFirst(p[i].alt, {})
        /\ \A v \in Pointers : Releases(p[i], v) => \A j \in (i + 1)..Len(p) :
            /\ ~Reads(p[j], v) /\ ~Releases(p[j], v)
            /\ p[j].op \in Branching => p[j].alt \in U[v]}
Tidy0 == Tidy(Programs0, [v \in Pointers |-> {}], {})
Tidy1 == Tidy(Programs1, Untouched0, Tidy0)
Tidy2 == Tidy(Programs2, Untouched1, Tidy1)

---------------------------------------------------------------------------
(* The inductive invariant.                                                *)

TypeInv ==
    /\ radio \in {"OFF", "ON", "UNAVAILABLE"}
    /\ request \in Requests \cup {NoRequest}
    /\ program \in Programs2
    /\ holds \in [Pointers -> {"null", "live", "freed"}]
    /\ leaked \in Nat /\ dangling \in BOOLEAN /\ completions \in Seq(Codes) /\ tries \in Nat
    /\ screenState \in BOOLEAN /\ monitors \in SUBSET Monitors /\ screenSet \in BOOLEAN
    /\ inDataCall \in BOOLEAN /\ linkUp \in BOOLEAN /\ strayPppd \in BOOLEAN
    /\ pppd \in Nat /\ ending \in 0..pppd

IdleInv ==
    request = NoRequest =>
        /\ program = <<>> /\ holds = Nothing /\ leaked = 0 /\ dangling = FALSE
        /\ completions = <<>>

\* Which handlers have which special instructions.
SpecialOps == {"radio", "screen", "monitor", "pppd", "poll", "kill", "connected"}
SpecialKinds(op) ==
    CASE op = "radio" -> {"RADIO_POWER"}
      [] op \in {"screen", "monitor"} -> {"SCREEN_STATE"}
      [] op \in {"pppd", "poll"} -> {"SETUP_DATA_CALL"}
      [] op = "kill" -> {"DEACTIVATE_DATA_CALL"}
      [] op = "connected" -> {"SETUP_DATA_CALL", "DEACTIVATE_DATA_CALL"}
Permitted(p, kind) ==
    \A i \in 1..Len(p) : p[i].op \in SpecialOps => kind \in SpecialKinds(p[i].op)
SpecialInv == Permitted(program, request.kind)

TwoKinds == {"SMS_ACKNOWLEDGE", "SIGNAL_STRENGTH", "DATA_CALL_LIST"}
CompletionInv ==
    request # NoRequest /\ request.kind \notin TwoKinds =>
        \/ completions = <<>> /\ program \in Completing2
        \/ Len(completions) = 1 /\ program \in Completed

LeakingKinds == {"BASEBAND_VERSION", "GET_CURRENT_CALLS"}
ReturnInv ==
    request.kind \notin LeakingKinds =>
        /\ leaked = 0 /\ program \in Returns2
        /\ \A v \in Pointers : holds[v] = "live" => program \in Frees2[v]

Live == {v \in Pointers : holds[v] = "live"}
DanglingKinds == {"OPERATOR", "QUERY_AVAILABLE_NETWORKS", "GET_IMSI"}
TidyInv ==
    request.kind \notin DanglingKinds =>
        /\ ~dangling /\ program \in Tidy2
        /\ \A v \in Pointers : holds[v] = "freed" => program \in Untouched2[v]
        /\ StoredFirst(program, Live)

Refused == <<Complete("RADIO_NOT_AVAILABLE", {})>>

\* The three handlers that may complete twice: where they are after none, one and two
\* completions.
free == Free("p_response")
Signal1 == <<Parse("p_response", <<Fail, free>>), Succeed, free>>
Signal0 == <<Send("p_response", <<Fail, Fail, free>>), Parse("p_response", <<Fail, free>>),
             Succeed, free>>
Before == {Signal0, Signal1, <<Succeed, free>>, <<Fail, Fail, free>>, <<Fail, free>>,
           <<Tell, Succeed, Fail>>, <<Succeed, Fail>>, <<Fail>>, Refused}
Between == {<<free>>, <<Fail, free>>, <<Fail>>, <<>>}
TwiceInv ==
    request.kind \in TwoKinds =>
        \/ completions = <<>> /\ program \in Before
        \/ Len(completions) = 1 /\ program \in Between
        \/ Len(completions) = 2 /\ program \in {<<free>>, <<>>}

OffInv ==
    radio = "OFF" /\ request # NoRequest /\ request.kind \notin OffKinds
        => program \in {Refused, <<>>}

Wanted == IF screenState THEN Monitors ELSE {}
\* What is left of requestScreenState(on) after n of its commands.
Rest4(on) == <<SetScreen(on = 1), Succeed>>
Rest3(on) == <<SetMonitor("VSER", on = 1, <<Fail>>), SetScreen(on = 1), Succeed>>
Rest2(on) == <<SetMonitor("VMCCMNC", on = 1, <<Fail>>), SetMonitor("VSER", on = 1, <<Fail>>),
               SetScreen(on = 1), Succeed>>
Rest1(on) == <<SetMonitor("CREG", on = 1, <<Fail>>), SetMonitor("VMCCMNC", on = 1, <<Fail>>),
               SetMonitor("VSER", on = 1, <<Fail>>), SetScreen(on = 1), Succeed>>
ScreenRest(on, n) == <<Rest1(on), Rest2(on), Rest3(on), Rest4(on)>>[n]
Switched(n) == {m \in Monitors : \E i \in 1..n : <<"ARSI", "CREG", "VMCCMNC", "VSER">>[i] = m}
ScreenInv ==
    /\ request.kind # "SCREEN_STATE" /\ screenSet => monitors = Wanted
    /\ request.kind = "SCREEN_STATE" =>
        \/ /\ program \in {<<Fail>>, <<>>, <<Succeed>>, requestScreenState(request.arg)}
           /\ screenSet => monitors = Wanted
        \/ \E n \in 1..4 :
            /\ request.arg \in {0, 1} /\ program = ScreenRest(request.arg, n)
            /\ screenSet => \A m \in Switched(n) : m \in monitors <=> request.arg = 1

\* What is left of the two handlers of the data call.
Polling == <<Poll(<<Fail>>), Connected(TRUE), Succeed>>
Connecting == <<Connected(TRUE), Succeed>>
Killing == <<Kill, Connected(FALSE), Succeed>>
Disconnecting == <<Connected(FALSE), Succeed>>
SetupRest == {Polling, Connecting}
PppdInv ==
    /\ ~strayPppd => pppd <= 1
    /\ request.kind = "SETUP_DATA_CALL" =>
        program \in SetupRest \cup {requestSetupDataCallEVDO, <<Fail>>, <<Succeed>>, Refused, <<>>}
    /\ request.kind = "DEACTIVATE_DATA_CALL" =>
        program \in {requestDeactivateDataCallEVDO, Killing,
                     Disconnecting, <<Succeed>>, Refused, <<>>}
    /\ ~strayPppd /\ pppd # ending =>
        \/ /\ inDataCall
           /\ request.kind = "DEACTIVATE_DATA_CALL" => program # Disconnecting
        \/ request.kind = "SETUP_DATA_CALL" /\ program \in SetupRest

IInv == TypeInv /\ IdleInv /\ SpecialInv /\ CompletionInv /\ ReturnInv /\ TidyInv
        /\ TwiceInv /\ OffInv /\ ScreenInv /\ PppdInv

---------------------------------------------------------------------------
(* Lemmas about programs.                                                  *)

\* A program of a lower level is one of every higher level.
LEMMA ProgramsNest == Programs0 \subseteq Programs1 /\ Programs1 \subseteq Programs2
<1>1. Plain \subseteq Plain \cup Branch(Programs0)
  OBVIOUS
<1>2. Programs0 \subseteq Programs1
  BY <1>1, SeqMonotonic DEF Programs0, Programs1
<1>3. Plain \cup Branch(Programs0) \subseteq Plain \cup Branch(Programs1) \cup Special(Programs0)
  BY <1>2 DEF Branch
<1>4. Programs1 \subseteq Programs2
  BY <1>3, SeqMonotonic DEF Programs1, Programs2
<1> QED BY <1>2, <1>4

\* What is in which field.
LEMMA Fields ==
    ASSUME NEW A, NEW B, NEW x \in Plain \cup Branch(A) \cup Special(B)
    PROVE  /\ x.op \in {"send", "parse"} => x.v \in Pointers /\ x.alt \in A
           /\ x.op \in {"try", "either"} => x.alt \in A
           /\ x.op \in {"alloc", "sprintf", "free"} => x.v \in Pointers
           /\ x.op = "complete" => x.code \in Codes /\ x.uses \in SUBSET Pointers
           /\ x.op \in {"monitor", "pppd", "poll"} => x.alt \in B
           /\ x.op = "monitor" => x.m \in Monitors /\ x.on \in BOOLEAN
           /\ x.op = "radio" => x.to \in {"OFF", "ON"}
           /\ x.op \in {"screen", "connected"} => x.to \in BOOLEAN
           /\ x.op \in Branching => x.alt \in A \cup B
<1>1. CASE x \in Plain
  BY <1>1 DEF Plain, Branching
<1>2. CASE x \in Branch(A)
  BY <1>2 DEF Branch, Branching
<1>3. CASE x \in Special(B)
  BY <1>3 DEF Special, Branching
<1> QED BY <1>1, <1>2, <1>3

\* The alternative of an instruction is a program of the level below.
LEMMA Instructions ==
    ASSUME NEW p \in Programs2, NEW i \in 1..Len(p)
    PROVE  /\ p[i].op \in {"send", "parse", "try", "either"} => p[i].alt \in Programs1
           /\ p[i].op \in {"monitor", "pppd", "poll"} => p[i].alt \in Programs0
           /\ p[i].op \in Branching => p[i].alt \in Programs1
           /\ p[i].op \in {"send", "parse", "alloc", "sprintf", "free"} => p[i].v \in Pointers
           /\ p[i].op = "complete" => p[i].code \in Codes /\ p[i].uses \in SUBSET Pointers
           /\ p[i].op = "monitor" => p[i].m \in Monitors /\ p[i].on \in BOOLEAN
           /\ p[i].op = "radio" => p[i].to \in {"OFF", "ON"}
           /\ p[i].op \in {"screen", "connected"} => p[i].to \in BOOLEAN
<1>1. p[i] \in Plain \cup Branch(Programs1) \cup Special(Programs0)
  BY ElementOfSeq DEF Programs2
<1>2. Programs0 \subseteq Programs1
  BY ProgramsNest
<1>3. /\ p[i].op \in {"send", "parse"} => p[i].v \in Pointers /\ p[i].alt \in Programs1
      /\ p[i].op \in {"try", "either"} => p[i].alt \in Programs1
      /\ p[i].op \in {"alloc", "sprintf", "free"} => p[i].v \in Pointers
      /\ p[i].op = "complete" => p[i].code \in Codes /\ p[i].uses \in SUBSET Pointers
      /\ p[i].op \in {"monitor", "pppd", "poll"} => p[i].alt \in Programs0
      /\ p[i].op = "monitor" => p[i].m \in Monitors /\ p[i].on \in BOOLEAN
      /\ p[i].op = "radio" => p[i].to \in {"OFF", "ON"}
      /\ p[i].op \in {"screen", "connected"} => p[i].to \in BOOLEAN
      /\ p[i].op \in Branching => p[i].alt \in Programs1 \cup Programs0
  BY <1>1, Fields, Zenon
<1>4. p[i].op \in Branching => p[i].alt \in Programs1
  BY <1>2, <1>3
<1>5. p[i].op \in {"send", "parse", "try", "either"} => p[i].alt \in Programs1
  BY <1>3
<1>6. p[i].op \in {"send", "parse", "alloc", "sprintf", "free"} => p[i].v \in Pointers
  BY <1>3
<1> QED BY <1>3, <1>4, <1>5, <1>6, Zenon

\* Alternatives are not special.
LEMMA AlternativesPermitted ==
    ASSUME NEW p \in Programs1, NEW kind
    PROVE  Permitted(p, kind)
<1>1. \A i \in 1..Len(p) : p[i] \in Plain \cup Branch(Programs0)
  BY ElementOfSeq DEF Programs1
<1>2. \A i \in 1..Len(p) :
        p[i].op \in {"tell", "complete", "alloc", "sprintf", "free", "send", "parse", "try", "either"}
  BY <1>1 DEF Plain, Branch
<1> QED BY <1>2 DEF Permitted, SpecialOps

\* The program after its first instruction.
LEMMA TailOf ==
    ASSUME NEW p \in Programs2, p # <<>>
    PROVE  /\ Tail(p) \in Programs2
           /\ Len(p) \in Nat \ {0} /\ Len(Tail(p)) = Len(p) - 1
           /\ Head(p) = p[1]
           /\ \A i \in 1..(Len(p) - 1) : Tail(p)[i] = p[i + 1]
BY HeadTailProperties, EmptySeq DEF Programs2

\* The levels of completing programs are nested.
LEMMA CompletingNest ==
    /\ Completing0 \subseteq Completing1 /\ Completing1 \subseteq Completing2
<1>1. ASSUME NEW p \in Completing0 PROVE p \in Completing1
  BY ProgramsNest DEF Completing0, Completing1, Completing
<1>2. ASSUME NEW p \in Completing1 PROVE p \in Completing2
  BY <1>1, ProgramsNest DEF Completing1, Completing2, Completing
<1> QED BY <1>1, <1>2

\* One step of a program that is to complete the request.
LEMMA CompletingStep ==
    ASSUME NEW p \in Completing2
    PROVE  /\ p # <<>>
           /\ Head(p).op # "complete" => Tail(p) \in Completing2
           /\ Head(p).op \in Branching => Head(p).alt \in Completing2
           /\ Head(p).op = "complete" => Tail(p) \in Completed
<1> DEFINE t == Tail(p)
<1>1. PICK k \in 1..Len(p) :
        /\ p[k].op = "complete"
        /\ \A i \in 1..Len(p) :
            /\ i # k => p[i].op # "complete"
            /\ p[i].op \in Branching => i < k /\ p[i].alt \in Completing1
  BY DEF Completing2, Completing
<1>2. p \in Programs2 /\ p # <<>>
  BY <1>1, EmptySeq DEF Completing2, Completing
<1>3. /\ t \in Programs2 /\ Len(p) \in Nat \ {0} /\ Len(t) = Len(p) - 1 /\ Head(p) = p[1]
      /\ \A i \in 1..(Len(p) - 1) : t[i] = p[i + 1]
  BY <1>2, TailOf
<1> HIDE DEF t
<1>4. ASSUME Head(p).op # "complete" PROVE t \in Completing2
  <2>1. k - 1 \in 1..Len(t) /\ t[k - 1].op = "complete"
    BY <1>1, <1>3, <1>4
  <2>2. \A i \in 1..Len(t) :
            /\ i # k - 1 => t[i].op # "complete"
            /\ t[i].op \in Branching => i < k - 1 /\ t[i].alt \in Completing1
    BY <1>1, <1>3
  <2> QED BY <1>3, <2>1, <2>2 DEF Completing2, Completing
<1>5. ASSUME Head(p).op \in Branching PROVE Head(p).alt \in Completing2
  BY <1>1, <1>3, <1>5, CompletingNest
<1>6. ASSUME Head(p).op = "complete" PROVE t \in Completed
  BY <1>1, <1>3, <1>6 DEF Completed
<1> QED BY <1>2, <1>4, <1>5, <1>6 DEF t

\* A program that has completed only moves on.
LEMMA CompletedStep ==
    ASSUME NEW p \in Completed, p # <<>>
    PROVE  Tail(p) \in Completed /\ Head(p).op \notin Branching \cup {"complete"}
<1>1. p \in Programs2 /\ \A i \in 1..Len(p) : p[i].op \notin Branching \cup {"complete"}
  BY DEF Completed
<1>2. /\ Tail(p) \in Programs2 /\ Len(p) \in Nat \ {0} /\ Len(Tail(p)) = Len(p) - 1
      /\ Head(p) = p[1] /\ \A i \in 1..(Len(p) - 1) : Tail(p)[i] = p[i + 1]
  BY <1>1, TailOf
<1>3. ASSUME NEW i \in 1..Len(Tail(p))
      PROVE  Tail(p)[i].op \notin Branching \cup {"complete"}
  <2>1. Tail(p)[i] = p[i + 1] /\ i + 1 \in 1..Len(p)
    BY <1>2
  <2> QED BY <1>1, <2>1
<1>4. 1 \in 1..Len(p)
  BY <1>2
<1> QED BY <1>1, <1>2, <1>3, <1>4 DEF Completed

---------------------------------------------------------------------------

\* More alternatives that free v leave more programs that do.
LEMMA FreesAfterMonotonic ==
    ASSUME NEW p, NEW n, NEW v, NEW A, NEW B, A \subseteq B, FreesAfter(p, n, v, A)
    PROVE  FreesAfter(p, n, v, B)
BY DEF FreesAfter

\* The levels of programs that free v are nested.
LEMMA FreesNest ==
    ASSUME NEW v \in Pointers
    PROVE  Frees0[v] \subseteq Frees1[v] /\ Frees1[v] \subseteq Frees2[v]
<1>1. /\ Frees0[v] = {p \in Programs0 : FreesAfter(p, 0, v, {})}
      /\ Frees1[v] = {p \in Programs1 : FreesAfter(p, 0, v, Frees0[v])}
      /\ Frees2[v] = {p \in Programs2 : FreesAfter(p, 0, v, Frees1[v])}
  BY DEF Frees0, Frees1, Frees2, Frees
<1>2. ASSUME NEW p \in Frees0[v] PROVE p \in Frees1[v]
  BY <1>1, ProgramsNest, FreesAfterMonotonic
<1>3. ASSUME NEW p \in Frees1[v] PROVE p \in Frees2[v]
  BY <1>1, <1>2, ProgramsNest, FreesAfterMonotonic
<1> QED BY <1>2, <1>3

\* Past an instruction that does not concern v, v is still freed.
LEMMA FreesTail ==
    ASSUME NEW p \in Programs2, p # <<>>, NEW n \in Nat, NEW v, NEW A,
           FreesAfter(p, n + 1, v, A)
    PROVE  FreesAfter(Tail(p), n, v, A)
<1> DEFINE t == Tail(p)
<1>1. /\ t \in Programs2 /\ Len(p) \in Nat \ {0} /\ Len(t) = Len(p) - 1 /\ Head(p) = p[1]
      /\ \A i \in 1..(Len(p) - 1) : t[i] = p[i + 1]
  BY TailOf
<1>2. PICK k \in (n + 2)..Len(p) :
        /\ Releases(p[k], v)
        /\ \A i \in (n + 2)..(k - 1) :
            ~Stores(p[i], v) /\ (p[i].op \in Branching => p[i].alt \in A)
  BY DEF FreesAfter
<1> HIDE DEF t
<1>3. k - 1 \in (n + 1)..Len(t) /\ t[k - 1] = p[k]
  BY <1>1, <1>2
<1>4. ASSUME NEW i \in (n + 1)..(k - 2)
      PROVE  ~Stores(t[i], v) /\ (t[i].op \in Branching => t[i].alt \in A)
  <2>1. t[i] = p[i + 1] /\ i + 1 \in (n + 2)..(k - 1)
    BY <1>1, <1>2
  <2> QED BY <1>2, <2>1
<1> QED BY <1>2, <1>3, <1>4 DEF FreesAfter, t

\* A program that is to free v either does it now or does not store v and goes on with
\* one that is to free v.
LEMMA FreesStep ==
    ASSUME NEW v \in Pointers, NEW p \in Frees2[v]
    PROVE  /\ p # <<>> /\ ~Stores(Head(p), v)
           /\ ~Releases(Head(p), v) => Tail(p) \in Frees2[v]
           /\ Head(p).op \in Branching => Head(p).alt \in Frees2[v]
<1>1. p \in Programs2 /\ FreesAfter(p, 0, v, Frees1[v])
  BY DEF Frees2, Frees
<1>2. PICK k \in 1..Len(p) :
        /\ Releases(p[k], v)
        /\ \A i \in 1..(k - 1) :
            ~Stores(p[i], v) /\ (p[i].op \in Branching => p[i].alt \in Frees1[v])
  BY <1>1 DEF FreesAfter
<1>3. p # <<>>
  BY <1>1, <1>2, EmptySeq
<1>4. Head(p) = p[1] /\ Len(p) \in Nat \ {0} /\ Tail(p) \in Programs2
  BY <1>1, <1>3, TailOf
<1>5. CASE k = 1
  BY <1>2, <1>3, <1>4, <1>5 DEF Releases, Stores, Branching
<1>6. CASE k # 1
  <2>1. k \in 2..Len(p) /\ 1 \in 1..(k - 1)
    BY <1>4, <1>6
  <2>2. FreesAfter(p, 0 + 1, v, Frees1[v])
    BY <1>2, <2>1 DEF FreesAfter
  <2>3. Tail(p) \in Frees2[v]
    BY <1>1, <1>3, <1>4, <2>2, FreesTail DEF Frees2, Frees
  <2> QED BY <1>2, <1>3, <1>4, <2>1, <2>3, FreesNest
<1> QED BY <1>5, <1>6

\* The levels of programs that free what they store are nested.
LEMMA ReturnsNest == Returns0 \subseteq Returns1 /\ Returns1 \subseteq Returns2
<1>1. ASSUME NEW p \in Returns0 PROVE p \in Returns1
  <2>1. p \in Programs1
    BY ProgramsNest DEF Returns0, Returns
  <2>2. ASSUME NEW i \in 1..Len(p)
        PROVE  /\ p[i].op \in Branching => p[i].alt \in Returns0
               /\ \A v \in Pointers : Stores(p[i], v) =>
                    FreesAfter(p, i, v, Frees0[v]) /\ (p[i].op = "send" => p[i].alt \in Frees0[v])
    <3>1. p[i].op \notin Branching
      BY DEF Returns0, Returns
    <3>2. ASSUME NEW v \in Pointers, Stores(p[i], v)
          PROVE  FreesAfter(p, i, v, Frees0[v]) /\ (p[i].op = "send" => p[i].alt \in Frees0[v])
      <4>1. FreesAfter(p, i, v, {})
        BY <3>2 DEF Returns0, Returns
      <4> QED BY <3>1, <4>1, FreesAfterMonotonic DEF Branching
    <3> QED BY <3>1, <3>2
  <2> QED BY <2>1, <2>2 DEF Returns1, Returns
<1>2. ASSUME NEW p \in Returns1 PROVE p \in Returns2
  <2>1. p \in Programs2
    BY ProgramsNest DEF Returns1, Returns
  <2>2. ASSUME NEW i \in 1..Len(p)
        PROVE  /\ p[i].op \in Branching => p[i].alt \in Returns1
               /\ \A v \in Pointers : Stores(p[i], v) =>
                    FreesAfter(p, i, v, Frees1[v]) /\ (p[i].op = "send" => p[i].alt \in Frees1[v])
    <3>1. p[i].op \in Branching => p[i].alt \in Returns1
      BY <1>1 DEF Returns1, Returns
    <3>2. ASSUME NEW v \in Pointers, Stores(p[i], v)
          PROVE  FreesAfter(p, i, v, Frees1[v]) /\ (p[i].op = "send" => p[i].alt \in Frees1[v])
      <4>1. FreesAfter(p, i, v, Frees0[v]) /\ (p[i].op = "send" => p[i].alt \in Frees0[v])
        BY <3>2 DEF Returns1, Returns
      <4>2. Frees0[v] \subseteq Frees1[v]
        BY FreesNest
      <4> QED BY <4>1, <4>2, FreesAfterMonotonic
    <3> QED BY <3>1, <3>2
  <2> QED BY <2>1, <2>2 DEF Returns2, Returns
<1> QED BY <1>1, <1>2

\* One step of a program that frees what it stores.
LEMMA ReturnsStep ==
    ASSUME NEW p \in Returns2, p # <<>>
    PROVE  /\ Tail(p) \in Returns2
           /\ Head(p).op \in Branching => Head(p).alt \in Returns2
           /\ \A v \in Pointers : Stores(Head(p), v) =>
                Tail(p) \in Frees2[v] /\ (Head(p).op = "send" => Head(p).alt \in Frees2[v])
<1> DEFINE t == Tail(p)
<1>1. p \in Programs2
  BY DEF Returns2, Returns
<1>2. /\ t \in Programs2 /\ Len(p) \in Nat \ {0} /\ Len(t) = Len(p) - 1 /\ Head(p) = p[1]
      /\ \A i \in 1..(Len(p) - 1) : t[i] = p[i + 1]
  BY <1>1, TailOf
<1>3. \A i \in 1..Len(p) :
        /\ p[i].op \in Branching => p[i].alt \in Returns1
        /\ \A v \in Pointers : Stores(p[i], v) =>
            FreesAfter(p, i, v, Frees1[v]) /\ (p[i].op = "send" => p[i].alt \in Frees1[v])
  BY DEF Returns2, Returns
<1>4. ASSUME NEW i \in Nat, NEW v, FreesAfter(p, i + 1, v, Frees1[v])
      PROVE  FreesAfter(t, i, v, Frees1[v])
  BY <1>1, <1>4, FreesTail
<1> HIDE DEF t
<1>5. t \in Returns2
  <2>1. ASSUME NEW i \in 1..Len(t)
        PROVE  /\ t[i].op \in Branching => t[i].alt \in Returns1
               /\ \A v \in Pointers : Stores(t[i], v) =>
                    FreesAfter(t, i, v, Frees1[v]) /\ (t[i].op = "send" => t[i].alt \in Frees1[v])
    <3>1. t[i] = p[i + 1] /\ i + 1 \in 1..Len(p) /\ i \in Nat
      BY <1>2
    <3> QED BY <1>3, <1>4, <3>1
  <2> QED BY <1>2, <2>1 DEF Returns2, Returns
<1>6. Head(p).op \in Branching => Head(p).alt \in Returns2
  BY <1>2, <1>3, ReturnsNest
<1>7. ASSUME NEW v \in Pointers, Stores(Head(p), v)
      PROVE  t \in Frees2[v] /\ (Head(p).op = "send" => Head(p).alt \in Frees2[v])
  <2>1. FreesAfter(p, 0 + 1, v, Frees1[v]) /\ (p[1].op = "send" => p[1].alt \in Frees1[v])
    BY <1>2, <1>3, <1>7
  <2>2. FreesAfter(t, 0, v, Frees1[v])
    BY <1>4, <2>1
  <2> QED BY <1>2, <2>1, <2>2, FreesNest DEF Frees2, Frees
<1> QED BY <1>5, <1>6, <1>7 DEF t

---------------------------------------------------------------------------

\* The levels of programs that leave v alone are nested.
LEMMA UntouchedNest ==
    ASSUME NEW v \in Pointers
    PROVE  Untouched0[v] \subseteq Untouched1[v] /\ Untouched1[v] \subseteq Untouched2[v]
<1>1. ASSUME NEW p \in Untouched0[v] PROVE p \in Untouched1[v]
  BY ProgramsNest DEF Untouched0, Untouched1, Untouched
<1>2. ASSUME NEW p \in Untouched1[v] PROVE p \in Untouched2[v]
  BY <1>1, ProgramsNest DEF Untouched1, Untouched2, Untouched
<1> QED BY <1>1, <1>2

\* A program that leaves v alone goes on to one that does.
LEMMA UntouchedStep ==
    ASSUME NEW v \in Pointers, NEW p \in Untouched2[v], p # <<>>
    PROVE  /\ ~Reads(Head(p), v) /\ ~Releases(Head(p), v)
           /\ Tail(p) \in Untouched2[v]
           /\ Head(p).op \in Branching => Head(p).alt \in Untouched2[v]
<1> DEFINE t == Tail(p)
<1>1. /\ p \in Programs2
      /\ \A i \in 1..Len(p) :
            /\ ~Reads(p[i], v) /\ ~Releases(p[i], v)
            /\ p[i].op \in Branching => p[i].alt \in Untouched1[v]
  BY DEF Untouched2, Untouched
<1>2. /\ t \in Programs2 /\ Len(p) \in Nat \ {0} /\ Len(t) = Len(p) - 1 /\ Head(p) = p[1]
      /\ \A i \in 1..(Len(p) - 1) : t[i] = p[i + 1]
  BY <1>1, TailOf
<1> HIDE DEF t
<1>3. ASSUME NEW i \in 1..Len(t)
      PROVE  /\ ~Reads(t[i], v) /\ ~Releases(t[i], v)
             /\ t[i].op \in Branching => t[i].alt \in Untouched1[v]
  <2>1. t[i] = p[i + 1] /\ i + 1 \in 1..Len(p)
    BY <1>2
  <2> QED BY <1>1, <2>1
<1>4. t \in Untouched2[v]
  BY <1>2, <1>3 DEF Untouched2, Untouched
<1>5. 1 \in 1..Len(p)
  BY <1>2
<1>6. /\ ~Reads(Head(p), v) /\ ~Releases(Head(p), v)
      /\ Head(p).op \in Branching => Head(p).alt \in Untouched2[v]
  BY <1>1, <1>2, <1>5, UntouchedNest
<1> QED BY <1>4, <1>6 DEF t

\* What an instruction stores, the rest of the program may rely on.
LEMMA StoredFirstTail ==
    ASSUME NEW p \in Programs2, p # <<>>, NEW L, NEW M, StoredFirst(p, L),
           \A v \in Pointers : v \in L \/ Stores(Head(p), v) => v \in M
    PROVE  StoredFirst(Tail(p), M)
<1> DEFINE t == Tail(p)
<1>1. /\ t \in Programs2 /\ Len(p) \in Nat \ {0} /\ Len(t) = Len(p) - 1 /\ Head(p) = p[1]
      /\ \A i \in 1..(Len(p) - 1) : t[i] = p[i + 1]
  BY TailOf
<1> HIDE DEF t
<1>2. ASSUME NEW i \in 1..Len(t), NEW v \in Pointers \ M, Reads(t[i], v)
      PROVE  \E j \in 1..(i - 1) : Stores(t[j], v)
  <2>1. t[i] = p[i + 1] /\ i + 1 \in 1..Len(p) /\ v \in Pointers \ L
    BY <1>1
  <2>2. PICK j \in 1..((i + 1) - 1) : Stores(p[j], v)
    BY <1>2, <2>1 DEF StoredFirst
  <2>3. j # 1
    BY <1>1, <2>2
  <2>4. j - 1 \in 1..(i - 1) /\ t[j - 1] = p[j]
    BY <1>1, <2>3
  <2> QED BY <2>2, <2>4
<1> QED BY <1>2 DEF StoredFirst, t

\* A program that leaves v alone does not rely on it.
LEMMA StoredFirstUntouched ==
    ASSUME NEW v \in Pointers, NEW p \in Untouched2[v], NEW L, StoredFirst(p, L)
    PROVE  StoredFirst(p, L \ {v})
<1>1. \A i \in 1..Len(p) : ~Reads(p[i], v)
  BY DEF Untouched2, Untouched
<1> QED BY <1>1 DEF StoredFirst

\* A program relies on no more when more pointers are set.
LEMMA StoredFirstMonotonic ==
    ASSUME NEW p, NEW L, NEW M, StoredFirst(p, L), L \subseteq M
    PROVE  StoredFirst(p, M)
BY DEF StoredFirst

\* The levels of tidy programs are nested.
LEMMA TidyNest == Tidy0 \subseteq Tidy1 /\ Tidy1 \subseteq Tidy2
<1>1. ASSUME NEW p \in Tidy0 PROVE p \in Tidy1
  BY ProgramsNest DEF Tidy0, Tidy1, Tidy
<1>2. ASSUME NEW p \in Tidy1 PROVE p \in Tidy2
  BY <1>1, ProgramsNest, UntouchedNest DEF Tidy1, Tidy2, Tidy
<1> QED BY <1>1, <1>2

\* One step of a program that leaves alone what it has freed.
LEMMA TidyStep ==
    ASSUME NEW p \in Tidy2, p # <<>>
    PROVE  /\ Tail(p) \in Tidy2
           /\ Head(p).op \in Branching => Head(p).alt \in Tidy2 /\ StoredFirst(Head(p).alt, {})
           /\ \A v \in Pointers : Releases(Head(p), v) => Tail(p) \in Untouched2[v]
           /\ Head(p).op # "sprintf"
<1> DEFINE t == Tail(p)
<1>1. /\ p \in Programs2
      /\ \A i \in 1..Len(p) :
            /\ p[i].op # "sprintf"
            /\ p[i].op \in Branching => p[i].alt \in Tidy1 /\ StoredFirst(p[i].alt, {})
            /\ \A v \in Pointers : Releases(p[i], v) => \A j \in (i + 1)..Len(p) :
                /\ ~Reads(p[j], v) /\ ~Releases(p[j], v)
                /\ p[j].op \in Branching => p[j].alt \in Untouched1[v]
  BY DEF Tidy2, Tidy
<1>2. /\ t \in Programs2 /\ Len(p) \in Nat \ {0} /\ Len(t) = Len(p) - 1 /\ Head(p) = p[1]
      /\ \A i \in 1..(Len(p) - 1) : t[i] = p[i + 1]
  BY <1>1, TailOf
<1> HIDE DEF t
<1>3. \A i \in 1..Len(t) : i + 1 \in 1..Len(p) /\ t[i] = p[i + 1]
  BY <1>2
<1>4. ASSUME NEW i \in 1..Len(t)
      PROVE  /\ t[i].op # "sprintf"
             /\ t[i].op \in Branching => t[i].alt \in Tidy1 /\ StoredFirst(t[i].alt, {})
             /\ \A v \in Pointers : Releases(t[i], v) => \A j \in (i + 1)..Len(t) :
                /\ ~Reads(t[j], v) /\ ~Releases(t[j], v)
                /\ t[j].op \in Branching => t[j].alt \in Untouched1[v]
  <2>1. \A j \in (i + 1)..Len(t) : j + 1 \in (i + 2)..Len(p) /\ t[j] = p[j + 1]
    BY <1>2
  <2>2. i + 1 \in 1..Len(p) /\ t[i] = p[i + 1] /\ (i + 1) + 1 = i + 2
    BY <1>3
  <2> QED BY <1>1, <2>1, <2>2
<1>5. t \in Tidy2
  BY <1>2, <1>4 DEF Tidy2, Tidy
<1>6. 1 \in 1..Len(p) /\ \A i \in 1..Len(t) : i + 1 \in (1 + 1)..Len(p)
  BY <1>2
<1>7. /\ Head(p).op \in Branching => Head(p).alt \in Tidy2 /\ StoredFirst(Head(p).alt, {})
      /\ Head(p).op # "sprintf"
  BY <1>1, <1>2, <1>6, TidyNest
<1>8. ASSUME NEW v \in Pointers, Releases(Head(p), v) PROVE t \in Untouched2[v]
  <2>1. ASSUME NEW i \in 1..Len(t)
        PROVE  /\ ~Reads(t[i], v) /\ ~Releases(t[i], v)
               /\ t[i].op \in Branching => t[i].alt \in Untouched1[v]
    BY <1>1, <1>2, <1>3, <1>6, <1>8
  <2> QED BY <1>2, <2>1 DEF Untouched2, Untouched
<1> QED BY <1>5, <1>7, <1>8 DEF t

---------------------------------------------------------------------------
(* Programs that satisfy all three conditions.                             *)

Sound(C, R, T) == C \cap R \cap {p \in T : StoredFirst(p, {})}
Sound0 == Sound(Completing0, Returns0, Tidy0)
Sound1 == Sound(Completing1, Returns1, Tidy1)
Sound2 == Sound(Completing2, Returns2, Tidy2)

\* The levels of sound programs are nested.
LEMMA SoundNest == Sound0 \subseteq Sound1 /\ Sound1 \subseteq Sound2
BY CompletingNest, ReturnsNest, TidyNest DEF Sound0, Sound1, Sound2, Sound

\* Programs that only complete the request and free, in any order, what they were given.
LEMMA ErrorProgram ==
    ASSUME NEW p \in Programs0, NEW c \in 1..Len(p),
           \A i \in 1..Len(p) : p[i].op \in {"complete", "free"} /\ (p[i].op = "complete" <=> i = c),
           p[c].uses = {},
           \A i, j \in 1..Len(p) : p[i].op = "free" /\ p[j].op = "free" /\ p[i].v = p[j].v => i = j
    PROVE  /\ p \in Sound0
           /\ \A i \in 1..Len(p) : p[i].op = "free" /\ p[i].v \in Pointers => p \in Frees0[p[i].v]
<1>1. \A i \in 1..Len(p) : p[i].op \notin Branching
  BY DEF Branching
<1>2. \A i \in 1..Len(p) : \A v \in Pointers : ~Stores(p[i], v) /\ ~Reads(p[i], v)
  BY DEF Stores, Reads
<1>3. p \in Completing0
  BY <1>1 DEF Completing0, Completing
<1>4. p \in Returns0
  BY <1>1, <1>2 DEF Returns0, Returns
<1>5. \A i, j \in 1..Len(p) : \A v \in Pointers : Releases(p[i], v) /\ Releases(p[j], v) => i = j
  BY DEF Releases
<1>6. Len(p) \in Nat
  BY LenProperties DEF Programs0
<1>7. \A i \in 1..Len(p) : \A j \in (i + 1)..Len(p) : j \in 1..Len(p) /\ i # j
  BY <1>6
<1>8. p \in Tidy0
  BY <1>1, <1>2, <1>5, <1>7 DEF Tidy0, Tidy
<1>9. StoredFirst(p, {})
  BY <1>2 DEF StoredFirst
<1>10. ASSUME NEW i \in 1..Len(p), p[i].op = "free", p[i].v \in Pointers
       PROVE  p \in Frees0[p[i].v]
  <2>1. \A j \in (0 + 1)..(i - 1) : j \in 1..Len(p)
    BY <1>6
  <2>2. i \in (0 + 1)..Len(p) /\ Releases(p[i], p[i].v)
    BY <1>10 DEF Releases
  <2>3. FreesAfter(p, 0, p[i].v, {})
    BY <1>1, <1>2, <1>10, <2>1, <2>2 DEF FreesAfter
  <2> QED BY <1>10, <2>3 DEF Frees0, Frees
<1> QED BY <1>3, <1>4, <1>8, <1>9, <1>10 DEF Sound0, Sound

\* Handlers without a response: one completion, at c, after the last that may fail.
WithoutResponse(p, c) ==
    /\ c \in 1..Len(p) /\ p[c].uses = {}
    /\ \A i \in 1..Len(p) :
        /\ p[i].op \notin {"send", "parse", "alloc", "sprintf", "free"}
        /\ p[i].op = "complete" <=> i = c
        /\ p[i].op \in Branching => i < c /\ p[i].alt \in Sound1

\* A program that uses no memory and completes once is sound.
LEMMA NoResponse ==
    ASSUME NEW p \in Programs2, NEW c, WithoutResponse(p, c)
    PROVE  p \in Sound2
<1> USE DEF WithoutResponse
<1>1. \A i \in 1..Len(p) : \A v \in Pointers :
        ~Stores(p[i], v) /\ ~Reads(p[i], v) /\ ~Releases(p[i], v)
  BY DEF Stores, Reads, Releases
<1>2. \A i \in 1..Len(p) : p[i].op \in Branching =>
        p[i].alt \in Completing1 /\ p[i].alt \in Returns1 /\ p[i].alt \in Tidy1
        /\ StoredFirst(p[i].alt, {})
  BY DEF Sound1, Sound
<1>3. p \in Completing2
  BY <1>2 DEF Completing2, Completing
<1>4. p \in Returns2
  BY <1>1, <1>2 DEF Returns2, Returns
<1>5. p \in Tidy2 /\ StoredFirst(p, {})
  BY <1>1, <1>2 DEF Tidy2, Tidy, StoredFirst
<1> QED BY <1>3, <1>4, <1>5 DEF Sound2, Sound

\* Handlers with one response: it is stored at s and freed at f, and read only in
\* between; what may fail does so in between and before the completion at c, and its
\* alternative frees the response.
ErrorsFreeing(v) == Sound1 \cap Frees1[v]
WithResponse(p, v, s, c, f) ==
    /\ s \in 1..Len(p) /\ c \in 1..Len(p) /\ f \in 1..Len(p) /\ s < f
    /\ \A i \in 1..Len(p) :
        /\ p[i].op = "complete" <=> i = c
        /\ p[i].op \in {"send", "alloc"} <=> i = s
        /\ p[i].op = "free" <=> i = f
        /\ p[i].op # "sprintf"
        /\ p[i].op = "parse" => p[i].v = v /\ s < i
        /\ p[i].op \in Branching => s <= i /\ i < c /\ i < f /\ p[i].alt \in ErrorsFreeing(v)
    /\ p[s].v = v /\ p[f].v = v /\ p[c].uses \subseteq {v} /\ (p[c].uses = {} \/ (s < c /\ c < f))

\* A program that gets one response, completes and frees it is sound.
LEMMA OneResponse ==
    ASSUME NEW p \in Programs2, NEW v \in Pointers, NEW s, NEW c, NEW f,
           WithResponse(p, v, s, c, f)
    PROVE  p \in Sound2
<1> USE DEF WithResponse
<1>1. Len(p) \in Nat
  BY LenProperties DEF Programs2
<1>2. \A i \in 1..Len(p) : \A w \in Pointers :
        /\ Stores(p[i], w) <=> i = s /\ w = v
        /\ Releases(p[i], w) <=> i = f /\ w = v
  BY DEF Stores, Releases
<1>3. \A i \in 1..Len(p) : \A w \in Pointers : Reads(p[i], w) => w = v /\ s < i /\ i < f
  BY DEF Reads, Branching
<1>4. \A i \in 1..Len(p) : p[i].op \in Branching =>
        /\ p[i].alt \in Completing1 /\ p[i].alt \in Returns1 /\ p[i].alt \in Tidy1
        /\ StoredFirst(p[i].alt, {}) /\ p[i].alt \in Frees1[v]
  BY DEF ErrorsFreeing, Sound1, Sound
<1>5. p \in Completing2
  BY <1>4 DEF Completing2, Completing
<1>6. p \in Returns2
  <2>1. f \in (s + 1)..Len(p) /\ \A i \in (s + 1)..(f - 1) : i \in 1..Len(p) /\ i # s
    BY <1>1
  <2>2. FreesAfter(p, s, v, Frees1[v])
    BY <1>2, <1>4, <2>1 DEF FreesAfter
  <2>3. p[s].op = "send" => p[s].alt \in Frees1[v]
    BY <1>4 DEF Branching
  <2> QED BY <1>2, <1>4, <2>2, <2>3 DEF Returns2, Returns
<1>7. p \in Tidy2
  <2>1. \A j \in (f + 1)..Len(p) : j \in 1..Len(p) /\ ~(j < f) /\ j # f
    BY <1>1
  <2>2. \A j \in (f + 1)..Len(p) : ~Reads(p[j], v) /\ ~Releases(p[j], v) /\ p[j].op \notin Branching
    BY <1>2, <1>3, <2>1
  <2> QED BY <1>2, <1>4, <2>2 DEF Tidy2, Tidy
<1>8. StoredFirst(p, {})
  <2>1. \A i \in 1..Len(p) : s < i => s \in 1..(i - 1)
    BY <1>1
  <2> QED BY <1>2, <1>3, <2>1 DEF StoredFirst
<1> QED BY <1>5, <1>6, <1>7, <1>8 DEF Sound2, Sound

---------------------------------------------------------------------------
(* The handlers.                                                           *)

\* What follows a failure.
LEMMA Errors ==
    /\ <<Fail>> \in Sound0
    /\ <<Fail, Free("p_response")>> \in Sound0 \cap Frees0["p_response"]
    /\ <<Free("p_response"), Fail>> \in Sound0 \cap Frees0["p_response"]
    /\ <<Complete("PASSWORD_INCORRECT", {}), Free("p_response")>> \in Sound0 \cap Frees0["p_response"]
<1>1. <<Fail>> \in Sound0
  <2> DEFINE p == <<Fail>>
  <2>1. p \in Programs0
    BY DEF Programs0, Plain, Fail, Complete, Codes, Pointers
  <2>2. Len(p) = 1 /\ p[1].op = "complete" /\ p[1].uses = {}
    BY DEF Fail, Complete
  <2> HIDE DEF p
  <2>3. 1 \in 1..Len(p) /\ \A i \in 1..Len(p) : i = 1
    BY <2>2
  <2>4. p \in Sound0
    BY <2>1, <2>2, <2>3, ErrorProgram
  <2> QED BY <2>4 DEF p
<1>2. ASSUME NEW code \in Codes
      PROVE  <<Complete(code, {}), Free("p_response")>> \in Sound0 \cap Frees0["p_response"]
  <2> DEFINE p == <<Complete(code, {}), Free("p_response")>>
  <2>1. p \in Programs0
    BY DEF Programs0, Plain, Free, Complete, Pointers
  <2>2. /\ Len(p) = 2 /\ p[1].op = "complete" /\ p[1].uses = {}
        /\ p[2].op = "free" /\ p[2].v = "p_response"
    BY DEF Free, Complete
  <2> HIDE DEF p
  <2>3. 1 \in 1..Len(p) /\ 2 \in 1..Len(p) /\ \A i \in 1..Len(p) : i \in {1, 2}
    BY <2>2
  <2>4. /\ \A i \in 1..Len(p) : p[i].op \in {"complete", "free"} /\ (p[i].op = "complete" <=> i = 1)
        /\ \A i, j \in 1..Len(p) : p[i].op = "free" /\ p[j].op = "free" /\ p[i].v = p[j].v => i = j
    BY <2>2, <2>3
  <2>5. p \in Sound0 /\ p \in Frees0["p_response"]
    BY <2>1, <2>2, <2>3, <2>4, ErrorProgram DEF Pointers
  <2> QED BY <2>5 DEF p
<1>3. <<Free("p_response"), Fail>> \in Sound0 \cap Frees0["p_response"]
  <2> DEFINE p == <<Free("p_response"), Fail>>
  <2>1. p \in Programs0
    BY DEF Programs0, Plain, Free, Fail, Complete, Codes, Pointers
  <2>2. /\ Len(p) = 2 /\ p[2].op = "complete" /\ p[2].uses = {}
        /\ p[1].op = "free" /\ p[1].v = "p_response"
    BY DEF Free, Fail, Complete
  <2> HIDE DEF p
  <2>3. 1 \in 1..Len(p) /\ 2 \in 1..Len(p) /\ \A i \in 1..Len(p) : i \in {1, 2}
    BY <2>2
  <2>4. /\ \A i \in 1..Len(p) : p[i].op \in {"complete", "free"} /\ (p[i].op = "complete" <=> i = 2)
        /\ \A i, j \in 1..Len(p) : p[i].op = "free" /\ p[j].op = "free" /\ p[i].v = p[j].v => i = j
    BY <2>2, <2>3
  <2>5. p \in Sound0 /\ p \in Frees0["p_response"]
    BY <2>1, <2>2, <2>3, <2>4, ErrorProgram DEF Pointers
  <2> QED BY <2>5 DEF p
<1> QED BY <1>1, <1>2, <1>3 DEF Fail, Codes

\* The error labels free the response.
LEMMA ErrorsFree ==
    /\ <<Fail>> \in Sound1
    /\ <<Fail, Free("p_response")>> \in ErrorsFreeing("p_response")
    /\ <<Free("p_response"), Fail>> \in ErrorsFreeing("p_response")
    /\ <<Complete("PASSWORD_INCORRECT", {}), Free("p_response")>> \in ErrorsFreeing("p_response")
<1>1. "p_response" \in Pointers
  BY DEF Pointers
<1> QED BY <1>1, Errors, SoundNest, FreesNest DEF ErrorsFreeing

\* requestGetIMEI, requestSIM_IO and the two queries of modes.
LEMMA QueryHandler ==
    ASSUME NEW e \in ErrorsFreeing("p_response"), NEW U \in SUBSET {"p_response"}, NEW kind
    PROVE  LET p == <<Send("p_response", e), Parse("p_response", e),
                      Complete("SUCCESS", U), Free("p_response")>>
           IN  p \in Sound2 /\ Permitted(p, kind)
<1> DEFINE p == <<Send("p_response", e), Parse("p_response", e),
                  Complete("SUCCESS", U), Free("p_response")>>
<1>1. /\ e \in Programs1 /\ e \in ErrorsFreeing("p_response")
      /\ "p_response" \in Pointers /\ U \subseteq Pointers
  BY DEF ErrorsFreeing, Sound1, Sound, Completing1, Completing, Pointers
<1>2. p \in Programs2
  BY <1>1 DEF Programs2, Plain, Branch, Send, Parse, Complete, Free, Codes
<1>3. /\ Len(p) = 4
      /\ p[1].op = "send" /\ p[1].v = "p_response" /\ p[1].alt = e
      /\ p[2].op = "parse" /\ p[2].v = "p_response" /\ p[2].alt = e
      /\ p[3].op = "complete" /\ p[3].uses = U
      /\ p[4].op = "free" /\ p[4].v = "p_response"
  BY DEF Send, Parse, Complete, Free
<1> HIDE DEF p
<1>4. \A i \in 1..Len(p) : i \in {1, 2, 3, 4}
  BY <1>3
<1>5. WithResponse(p, "p_response", 1, 3, 4)
  BY <1>1, <1>3, <1>4 DEF WithResponse, Branching
<1>6. p \in Sound2
  BY <1>1, <1>2, <1>5, OneResponse
<1>7. Permitted(p, kind)
  BY <1>3, <1>4 DEF Permitted, SpecialOps
<1> QED BY <1>6, <1>7 DEF p

\* requestWriteSmsToSim, requestEnterSimPin, CANCEL_USSD and DELETE_SMS_ON_SIM.
LEMMA CommandHandler ==
    ASSUME NEW e \in ErrorsFreeing("p_response"), NEW U \in SUBSET {"p_response"}, NEW kind
    PROVE  LET p == <<Send("p_response", e), Complete("SUCCESS", U),
                      Free("p_response")>>
           IN  p \in Sound2 /\ Permitted(p, kind)
<1> DEFINE p == <<Send("p_response", e), Complete("SUCCESS", U), Free("p_response")>>
<1>1. /\ e \in Programs1 /\ e \in ErrorsFreeing("p_response")
      /\ "p_response" \in Pointers /\ U \subseteq Pointers
  BY DEF ErrorsFreeing, Sound1, Sound, Completing1, Completing, Pointers
<1>2. p \in Programs2
  BY <1>1 DEF Programs2, Plain, Branch, Send, Complete, Free, Codes
<1>3. /\ Len(p) = 3
      /\ p[1].op = "send" /\ p[1].v = "p_response" /\ p[1].alt = e
      /\ p[2].op = "complete" /\ p[2].uses = U
      /\ p[3].op = "free" /\ p[3].v = "p_response"
  BY DEF Send, Complete, Free
<1> HIDE DEF p
<1>4. \A i \in 1..Len(p) : i \in {1, 2, 3}
  BY <1>3
<1>5. WithResponse(p, "p_response", 1, 2, 3)
  BY <1>1, <1>3, <1>4 DEF WithResponse, Branching
<1>6. p \in Sound2
  BY <1>1, <1>2, <1>5, OneResponse
<1>7. Permitted(p, kind)
  BY <1>3, <1>4 DEF Permitted, SpecialOps
<1> QED BY <1>6, <1>7 DEF p

\* requestSendSMSEVDO.
LEMMA SendSMSHandler ==
    ASSUME NEW e \in ErrorsFreeing("p_response"), NEW kind
    PROVE  LET p == <<Tell, Send("p_response", e), Succeed, Free("p_response")>>
           IN  p \in Sound2 /\ Permitted(p, kind)
<1> DEFINE p == <<Tell, Send("p_response", e), Succeed, Free("p_response")>>
<1>1. e \in Programs1 /\ e \in ErrorsFreeing("p_response") /\ "p_response" \in Pointers
  BY DEF ErrorsFreeing, Sound1, Sound, Completing1, Completing, Pointers
<1>2. p \in Programs2
  BY <1>1 DEF Programs2, Plain, Branch, Tell, Send, Complete, Succeed, Free, Codes
<1>3. /\ Len(p) = 4
      /\ p[1].op = "tell"
      /\ p[2].op = "send" /\ p[2].v = "p_response" /\ p[2].alt = e
      /\ p[3].op = "complete" /\ p[3].uses = {}
      /\ p[4].op = "free" /\ p[4].v = "p_response"
  BY DEF Tell, Send, Complete, Succeed, Free
<1> HIDE DEF p
<1>4. \A i \in 1..Len(p) : i \in {1, 2, 3, 4}
  BY <1>3
<1>5. WithResponse(p, "p_response", 2, 3, 4)
  BY <1>1, <1>3, <1>4 DEF WithResponse, Branching
<1>6. p \in Sound2
  BY <1>1, <1>2, <1>5, OneResponse
<1>7. Permitted(p, kind)
  BY <1>3, <1>4 DEF Permitted, SpecialOps
<1> QED BY <1>6, <1>7 DEF p

\* getCardStatus.
LEMMA CardStatusHandler ==
    ASSUME NEW kind
    PROVE  LET p == <<Alloc("card"), Complete("SUCCESS", {"card"}), Free("card")>>
           IN  p \in Sound2 /\ Permitted(p, kind)
<1> DEFINE p == <<Alloc("card"), Complete("SUCCESS", {"card"}), Free("card")>>
<1>1. "card" \in Pointers
  BY DEF Pointers
<1>2. p \in Programs2
  BY <1>1 DEF Programs2, Plain, Branch, Alloc, Complete, Free, Codes
<1>3. /\ Len(p) = 3
      /\ p[1].op = "alloc" /\ p[1].v = "card"
      /\ p[2].op = "complete" /\ p[2].uses = {"card"}
      /\ p[3].op = "free" /\ p[3].v = "card"
  BY DEF Alloc, Complete, Free
<1> HIDE DEF p
<1>4. \A i \in 1..Len(p) : i \in {1, 2, 3}
  BY <1>3
<1>5. WithResponse(p, "card", 1, 2, 3)
  BY <1>1, <1>3, <1>4 DEF WithResponse, Branching
<1>6. p \in Sound2
  BY <1>1, <1>2, <1>5, OneResponse
<1>7. Permitted(p, kind)
  BY <1>3, <1>4 DEF Permitted, SpecialOps
<1> QED BY <1>6, <1>7 DEF p

\* requestRadioPower, when the state has to change.
LEMMA PowerHandler ==
    ASSUME NEW e \in ErrorsFreeing("p_response"), NEW s \in {"OFF", "ON"}
    PROVE  LET p == <<Send("p_response", e), SetRadio(s), Free("p_response"), Succeed>>
           IN  p \in Sound2 /\ Permitted(p, "RADIO_POWER")
<1> DEFINE p == <<Send("p_response", e), SetRadio(s), Free("p_response"), Succeed>>
<1>1. e \in Programs1 /\ e \in ErrorsFreeing("p_response") /\ "p_response" \in Pointers
  BY DEF ErrorsFreeing, Sound1, Sound, Completing1, Completing, Pointers
<1>2. p \in Programs2
  BY <1>1 DEF Programs2, Plain, Branch, Special, Send, SetRadio, Free, Complete, Succeed, Codes
<1>3. /\ Len(p) = 4
      /\ p[1].op = "send" /\ p[1].v = "p_response" /\ p[1].alt = e
      /\ p[2].op = "radio" /\ p[2].to = s
      /\ p[3].op = "free" /\ p[3].v = "p_response"
      /\ p[4].op = "complete" /\ p[4].uses = {}
  BY DEF Send, SetRadio, Free, Complete, Succeed
<1> HIDE DEF p
<1>4. \A i \in 1..Len(p) : i \in {1, 2, 3, 4}
  BY <1>3
<1>5. WithResponse(p, "p_response", 1, 4, 3)
  BY <1>1, <1>3, <1>4 DEF WithResponse, Branching
<1>6. p \in Sound2
  BY <1>1, <1>2, <1>5, OneResponse
<1>7. Permitted(p, "RADIO_POWER")
  BY <1>3, <1>4 DEF Permitted, SpecialOps, SpecialKinds
<1> QED BY <1>6, <1>7 DEF p

\* Handlers that only answer.
LEMMA AnswerHandler ==
    ASSUME NEW code \in Codes, NEW kind
    PROVE  LET p == <<Complete(code, {})>>
           IN  p \in Sound2 /\ Permitted(p, kind)
<1> DEFINE p == <<Complete(code, {})>>
<1>1. {} \subseteq Pointers
  OBVIOUS
<1>2. p \in Programs2
  BY <1>1 DEF Programs2, Plain, Branch, Complete, Codes
<1>3. /\ Len(p) = 1
      /\ p[1].op = "complete" /\ p[1].uses = {}
  BY DEF Complete
<1> HIDE DEF p
<1>4. \A i \in 1..Len(p) : i \in {1}
  BY <1>3
<1>5. WithoutResponse(p, 1)
  BY <1>1, <1>3, <1>4 DEF WithoutResponse, Branching
<1>6. p \in Sound2
  BY <1>2, <1>5, NoResponse
<1>7. Permitted(p, kind)
  BY <1>3, <1>4 DEF Permitted, SpecialOps
<1> QED BY <1>6, <1>7 DEF p

\* Handlers that send a command and ignore its result.
LEMMA TellHandler ==
    ASSUME NEW kind
    PROVE  LET p == <<Tell, Succeed>>
           IN  p \in Sound2 /\ Permitted(p, kind)
<1> DEFINE p == <<Tell, Succeed>>
<1>1. {} \subseteq Pointers
  OBVIOUS
<1>2. p \in Programs2
  BY <1>1 DEF Programs2, Plain, Branch, Tell, Complete, Succeed, Codes
<1>3. /\ Len(p) = 2
      /\ p[1].op = "tell"
      /\ p[2].op = "complete" /\ p[2].uses = {}
  BY DEF Tell, Complete, Succeed
<1> HIDE DEF p
<1>4. \A i \in 1..Len(p) : i \in {1, 2}
  BY <1>3
<1>5. WithoutResponse(p, 2)
  BY <1>1, <1>3, <1>4 DEF WithoutResponse, Branching
<1>6. p \in Sound2
  BY <1>2, <1>5, NoResponse
<1>7. Permitted(p, kind)
  BY <1>3, <1>4 DEF Permitted, SpecialOps
<1> QED BY <1>6, <1>7 DEF p

\* requestSetPreferredNetworkType.
LEMMA TryHandler ==
    ASSUME NEW e \in ErrorsFreeing("p_response"), NEW kind
    PROVE  LET p == <<Try(e), Succeed>>
           IN  p \in Sound2 /\ Permitted(p, kind)
<1> DEFINE p == <<Try(e), Succeed>>
<1>1. e \in Programs1 /\ e \in Sound1
  BY DEF ErrorsFreeing, Sound1, Sound, Completing1, Completing
<1>2. p \in Programs2
  BY <1>1 DEF Programs2, Plain, Branch, Try, Complete, Succeed, Codes
<1>3. /\ Len(p) = 2
      /\ p[1].op = "try" /\ p[1].alt = e
      /\ p[2].op = "complete" /\ p[2].uses = {}
  BY DEF Try, Complete, Succeed
<1> HIDE DEF p
<1>4. \A i \in 1..Len(p) : i \in {1, 2}
  BY <1>3
<1>5. WithoutResponse(p, 2)
  BY <1>1, <1>3, <1>4 DEF WithoutResponse, Branching
<1>6. p \in Sound2
  BY <1>2, <1>5, NoResponse
<1>7. Permitted(p, kind)
  BY <1>3, <1>4 DEF Permitted, SpecialOps
<1> QED BY <1>6, <1>7 DEF p

\* requestScreenState.
LEMMA ScreenHandler ==
    ASSUME NEW on \in BOOLEAN
    PROVE  LET p == <<SetMonitor("ARSI", on, <<Fail>>),
                      SetMonitor("CREG", on, <<Fail>>),
                      SetMonitor("VMCCMNC", on, <<Fail>>),
                      SetMonitor("VSER", on, <<Fail>>), SetScreen(on), Succeed>>
           IN  p \in Sound2 /\ Permitted(p, "SCREEN_STATE")
<1> DEFINE p == <<SetMonitor("ARSI", on, <<Fail>>), SetMonitor("CREG", on, <<Fail>>),
                  SetMonitor("VMCCMNC", on, <<Fail>>),
                  SetMonitor("VSER", on, <<Fail>>), SetScreen(on), Succeed>>
<1>1. <<Fail>> \in Sound1 /\ <<Fail>> \in Programs0
  BY Errors, ErrorsFree DEF Sound0, Sound, Completing0, Completing
<1>2. p \in Programs2
  BY <1>1 DEF Programs2, Plain, Branch, Special, SetMonitor, SetScreen, Complete, Succeed, Codes, Monitors
<1>3. /\ Len(p) = 6
      /\ p[1].op = "monitor" /\ p[1].m = "ARSI" /\ p[1].on = on /\ p[1].alt = <<Fail>>
      /\ p[2].op = "monitor" /\ p[2].m = "CREG" /\ p[2].on = on /\ p[2].alt = <<Fail>>
      /\ p[3].op = "monitor" /\ p[3].m = "VMCCMNC" /\ p[3].on = on /\ p[3].alt = <<Fail>>
      /\ p[4].op = "monitor" /\ p[4].m = "VSER" /\ p[4].on = on /\ p[4].alt = <<Fail>>
      /\ p[5].op = "screen" /\ p[5].to = on
      /\ p[6].op = "complete" /\ p[6].uses = {}
  BY DEF SetMonitor, SetScreen, Complete, Succeed
<1> HIDE DEF p
<1>4. \A i \in 1..Len(p) : i \in {1, 2, 3, 4, 5, 6}
  BY <1>3
<1>5. WithoutResponse(p, 6)
  BY <1>1, <1>3, <1>4 DEF WithoutResponse, Branching
<1>6. p \in Sound2
  BY <1>2, <1>5, NoResponse
<1>7. Permitted(p, "SCREEN_STATE")
  BY <1>3, <1>4 DEF Permitted, SpecialOps, SpecialKinds
<1> QED BY <1>6, <1>7 DEF p

\* requestSetupDataCallEVDO.
LEMMA SetupHandler ==
    LET p == <<StartPppd(<<Fail>>), Poll(<<Fail>>), Connected(TRUE), Succeed>>
    IN  p \in Sound2 /\ Permitted(p, "SETUP_DATA_CALL")
<1> DEFINE p == <<StartPppd(<<Fail>>), Poll(<<Fail>>), Connected(TRUE), Succeed>>
<1>1. <<Fail>> \in Sound1 /\ <<Fail>> \in Programs0
  BY Errors, ErrorsFree DEF Sound0, Sound, Completing0, Completing
<1>2. p \in Programs2
  BY <1>1 DEF Programs2, Plain, Branch, Special, StartPppd, Poll, Connected, Complete, Succeed, Codes
<1>3. /\ Len(p) = 4
      /\ p[1].op = "pppd" /\ p[1].alt = <<Fail>>
      /\ p[2].op = "poll" /\ p[2].alt = <<Fail>>
      /\ p[3].op = "connected" /\ p[3].to = TRUE
      /\ p[4].op = "complete" /\ p[4].uses = {}
  BY DEF StartPppd, Poll, Connected, Complete, Succeed
<1> HIDE DEF p
<1>4. \A i \in 1..Len(p) : i \in {1, 2, 3, 4}
  BY <1>3
<1>5. WithoutResponse(p, 4)
  BY <1>1, <1>3, <1>4 DEF WithoutResponse, Branching
<1>6. p \in Sound2
  BY <1>2, <1>5, NoResponse
<1>7. Permitted(p, "SETUP_DATA_CALL")
  BY <1>3, <1>4 DEF Permitted, SpecialOps, SpecialKinds
<1> QED BY <1>6, <1>7 DEF p

\* requestDeactivateDataCallEVDO.
LEMMA DeactivateHandler ==
    LET p == <<Tell, Kill, Connected(FALSE), Succeed>>
    IN  p \in Sound2 /\ Permitted(p, "DEACTIVATE_DATA_CALL")
<1> DEFINE p == <<Tell, Kill, Connected(FALSE), Succeed>>
<1>1. {} \subseteq Pointers
  OBVIOUS
<1>2. p \in Programs2
  BY <1>1 DEF Programs2, Plain, Branch, Special, Tell, Kill, Connected, Complete, Succeed, Codes
<1>3. /\ Len(p) = 4
      /\ p[1].op = "tell"
      /\ p[2].op = "kill"
      /\ p[3].op = "connected" /\ p[3].to = FALSE
      /\ p[4].op = "complete" /\ p[4].uses = {}
  BY DEF Tell, Kill, Connected, Complete, Succeed
<1> HIDE DEF p
<1>4. \A i \in 1..Len(p) : i \in {1, 2, 3, 4}
  BY <1>3
<1>5. WithoutResponse(p, 4)
  BY <1>1, <1>3, <1>4 DEF WithoutResponse, Branching
<1>6. p \in Sound2
  BY <1>2, <1>5, NoResponse
<1>7. Permitted(p, "DEACTIVATE_DATA_CALL")
  BY <1>3, <1>4 DEF Permitted, SpecialOps, SpecialKinds
<1> QED BY <1>6, <1>7 DEF p

---------------------------------------------------------------------------
(* Handlers that are put together from parts.                              *)

Joined(x, y, l) ==
    /\ Len(l) = Len(x) + Len(y)
    /\ \A i \in 1..Len(x) : l[i] = x[i]
    /\ \A i \in 1..Len(y) : l[Len(x) + i] = y[i]

\* Two sequences joined, given element by element.
LEMMA Join ==
    ASSUME NEW S, NEW x \in Seq(S), NEW y \in Seq(S), NEW l \in Seq(S), Joined(x, y, l)
    PROVE  x \o y = l
<1> USE DEF Joined
<1>1. /\ x \o y \in Seq(S) /\ Len(x \o y) = Len(x) + Len(y)
      /\ \A i \in 1..(Len(x) + Len(y)) :
            (x \o y)[i] = IF i <= Len(x) THEN x[i] ELSE y[i - Len(x)]
  BY ConcatProperties
<1>2. Len(x) \in Nat /\ Len(y) \in Nat
  BY LenProperties
<1>3. ASSUME NEW i \in 1..Len(x \o y) PROVE (x \o y)[i] = l[i]
  <2>1. CASE i <= Len(x)
    BY <1>1, <1>2, <2>1
  <2>2. CASE ~(i <= Len(x))
    <3>1. i - Len(x) \in 1..Len(y) /\ Len(x) + (i - Len(x)) = i
      BY <1>1, <1>2, <2>2
    <3> QED BY <1>1, <2>2, <3>1
  <2> QED BY <2>1, <2>2
<1> QED BY <1>1, <1>3, SeqEqual

\* The joins that the handlers are put together with, JoinM_N for M and N elements.
LEMMA Join1_2 ==
    ASSUME NEW a, NEW b, NEW c
    PROVE  <<a>> \o <<b, c>> = <<a, b, c>>
<1> DEFINE S == {a, b, c}
<1>1. <<a>> \in Seq(S) /\ <<b, c>> \in Seq(S) /\ <<a, b, c>> \in Seq(S)
  OBVIOUS
<1>2. Joined(<<a>>, <<b, c>>, <<a, b, c>>)
  BY DEF Joined
<1> QED BY <1>1, <1>2, Join

LEMMA Join1_3 ==
    ASSUME NEW a, NEW b, NEW c, NEW d
    PROVE  <<a>> \o <<b, c, d>> = <<a, b, c, d>>
<1> DEFINE S == {a, b, c, d}
<1>1. <<a>> \in Seq(S) /\ <<b, c, d>> \in Seq(S) /\ <<a, b, c, d>> \in Seq(S)
  OBVIOUS
<1>2. Joined(<<a>>, <<b, c, d>>, <<a, b, c, d>>)
  BY DEF Joined
<1> QED BY <1>1, <1>2, Join

LEMMA Join1_4 ==
    ASSUME NEW a, NEW b, NEW c, NEW d, NEW e
    PROVE  <<a>> \o <<b, c, d, e>> = <<a, b, c, d, e>>
<1> DEFINE S == {a, b, c, d, e}
<1>1. <<a>> \in Seq(S) /\ <<b, c, d, e>> \in Seq(S) /\ <<a, b, c, d, e>> \in Seq(S)
  OBVIOUS
<1>2. Joined(<<a>>, <<b, c, d, e>>, <<a, b, c, d, e>>)
  BY DEF Joined
<1> QED BY <1>1, <1>2, Join

LEMMA Join2_1 ==
    ASSUME NEW a, NEW b, NEW c
    PROVE  <<a, b>> \o <<c>> = <<a, b, c>>
<1> DEFINE S == {a, b, c}
<1>1. <<a, b>> \in Seq(S) /\ <<c>> \in Seq(S) /\ <<a, b, c>> \in Seq(S)
  OBVIOUS
<1>2. Joined(<<a, b>>, <<c>>, <<a, b, c>>)
  BY DEF Joined
<1> QED BY <1>1, <1>2, Join

LEMMA Join2_2 ==
    ASSUME NEW a, NEW b, NEW c, NEW d
    PROVE  <<a, b>> \o <<c, d>> = <<a, b, c, d>>
<1> DEFINE S == {a, b, c, d}
<1>1. <<a, b>> \in Seq(S) /\ <<c, d>> \in Seq(S) /\ <<a, b, c, d>> \in Seq(S)
  OBVIOUS
<1>2. Joined(<<a, b>>, <<c, d>>, <<a, b, c, d>>)
  BY DEF Joined
<1> QED BY <1>1, <1>2, Join

LEMMA Join2_3 ==
    ASSUME NEW a, NEW b, NEW c, NEW d, NEW e
    PROVE  <<a, b>> \o <<c, d, e>> = <<a, b, c, d, e>>
<1> DEFINE S == {a, b, c, d, e}
<1>1. <<a, b>> \in Seq(S) /\ <<c, d, e>> \in Seq(S) /\ <<a, b, c, d, e>> \in Seq(S)
  OBVIOUS
<1>2. Joined(<<a, b>>, <<c, d, e>>, <<a, b, c, d, e>>)
  BY DEF Joined
<1> QED BY <1>1, <1>2, Join

LEMMA Join4_1 ==
    ASSUME NEW a, NEW b, NEW c, NEW d, NEW e
    PROVE  <<a, b, c, d>> \o <<e>> = <<a, b, c, d, e>>
<1> DEFINE S == {a, b, c, d, e}
<1>1. <<a, b, c, d>> \in Seq(S) /\ <<e>> \in Seq(S) /\ <<a, b, c, d, e>> \in Seq(S)
  OBVIOUS
<1>2. Joined(<<a, b, c, d>>, <<e>>, <<a, b, c, d, e>>)
  BY DEF Joined
<1> QED BY <1>1, <1>2, Join

LEMMA Join4_2 ==
    ASSUME NEW a, NEW b, NEW c, NEW d, NEW e, NEW f
    PROVE  <<a, b, c, d>> \o <<e, f>> = <<a, b, c, d, e, f>>
<1> DEFINE S == {a, b, c, d, e, f}
<1>1. <<a, b, c, d>> \in Seq(S) /\ <<e, f>> \in Seq(S) /\ <<a, b, c, d, e, f>> \in Seq(S)
  OBVIOUS
<1>2. Joined(<<a, b, c, d>>, <<e, f>>, <<a, b, c, d, e, f>>)
  BY DEF Joined
<1> QED BY <1>1, <1>2, Join

LEMMA Join4_3 ==
    ASSUME NEW a, NEW b, NEW c, NEW d, NEW e, NEW f, NEW g
    PROVE  <<a, b, c, d>> \o <<e, f, g>> = <<a, b, c, d, e, f, g>>
<1> DEFINE S == {a, b, c, d, e, f, g}
<1>1. <<a, b, c, d>> \in Seq(S) /\ <<e, f, g>> \in Seq(S) /\ <<a, b, c, d, e, f, g>> \in Seq(S)
  OBVIOUS
<1>2. Joined(<<a, b, c, d>>, <<e, f, g>>, <<a, b, c, d, e, f, g>>)
  BY DEF Joined
<1> QED BY <1>1, <1>2, Join

LEMMA Join4_4 ==
    ASSUME NEW a, NEW b, NEW c, NEW d, NEW e, NEW f, NEW g, NEW h
    PROVE  <<a, b, c, d>> \o <<e, f, g, h>> = <<a, b, c, d, e, f, g, h>>
<1> DEFINE S == {a, b, c, d, e, f, g, h}
<1>1. <<a, b, c, d>> \in Seq(S) /\ <<e, f, g, h>> \in Seq(S) /\ <<a, b, c, d, e, f, g, h>> \in Seq(S)
  OBVIOUS
<1>2. Joined(<<a, b, c, d>>, <<e, f, g, h>>, <<a, b, c, d, e, f, g, h>>)
  BY DEF Joined
<1> QED BY <1>1, <1>2, Join

LEMMA Join6_1 ==
    ASSUME NEW a, NEW b, NEW c, NEW d, NEW e, NEW f, NEW g
    PROVE  <<a, b, c, d, e, f>> \o <<g>> = <<a, b, c, d, e, f, g>>
<1> DEFINE S == {a, b, c, d, e, f, g}
<1>1. <<a, b, c, d, e, f>> \in Seq(S) /\ <<g>> \in Seq(S) /\ <<a, b, c, d, e, f, g>> \in Seq(S)
  OBVIOUS
<1>2. Joined(<<a, b, c, d, e, f>>, <<g>>, <<a, b, c, d, e, f, g>>)
  BY DEF Joined
<1> QED BY <1>1, <1>2, Join

LEMMA Join6_2 ==
    ASSUME NEW a, NEW b, NEW c, NEW d, NEW e, NEW f, NEW g, NEW h
    PROVE  <<a, b, c, d, e, f>> \o <<g, h>> = <<a, b, c, d, e, f, g, h>>
<1> DEFINE S == {a, b, c, d, e, f, g, h}
<1>1. <<a, b, c, d, e, f>> \in Seq(S) /\ <<g, h>> \in Seq(S) /\ <<a, b, c, d, e, f, g, h>> \in Seq(S)
  OBVIOUS
<1>2. Joined(<<a, b, c, d, e, f>>, <<g, h>>, <<a, b, c, d, e, f, g, h>>)
  BY DEF Joined
<1> QED BY <1>1, <1>2, Join

LEMMA Join7_1 ==
    ASSUME NEW a, NEW b, NEW c, NEW d, NEW e, NEW f, NEW g, NEW h
    PROVE  <<a, b, c, d, e, f, g>> \o <<h>> = <<a, b, c, d, e, f, g, h>>
<1> DEFINE S == {a, b, c, d, e, f, g, h}
<1>1. <<a, b, c, d, e, f, g>> \in Seq(S) /\ <<h>> \in Seq(S) /\ <<a, b, c, d, e, f, g, h>> \in Seq(S)
  OBVIOUS
<1>2. Joined(<<a, b, c, d, e, f, g>>, <<h>>, <<a, b, c, d, e, f, g, h>>)
  BY DEF Joined
<1> QED BY <1>1, <1>2, Join

LEMMA Join7_4 ==
    ASSUME NEW a, NEW b, NEW c, NEW d, NEW e, NEW f, NEW g, NEW h, NEW i, NEW j, NEW k
    PROVE  <<a, b, c, d, e, f, g>> \o <<h, i, j, k>> = <<a, b, c, d, e, f, g, h, i, j, k>>
<1> DEFINE S == {a, b, c, d, e, f, g, h, i, j, k}
<1>1. <<a, b, c, d, e, f, g>> \in Seq(S) /\ <<h, i, j, k>> \in Seq(S) /\ <<a, b, c, d, e, f, g, h, i, j, k>> \in Seq(S)
  OBVIOUS
<1>2. Joined(<<a, b, c, d, e, f, g>>, <<h, i, j, k>>, <<a, b, c, d, e, f, g, h, i, j, k>>)
  BY DEF Joined
<1> QED BY <1>1, <1>2, Join

LEMMA Join8_1 ==
    ASSUME NEW a, NEW b, NEW c, NEW d, NEW e, NEW f, NEW g, NEW h, NEW i
    PROVE  <<a, b, c, d, e, f, g, h>> \o <<i>> = <<a, b, c, d, e, f, g, h, i>>
<1> DEFINE S == {a, b, c, d, e, f, g, h, i}
<1>1. <<a, b, c, d, e, f, g, h>> \in Seq(S) /\ <<i>> \in Seq(S) /\ <<a, b, c, d, e, f, g, h, i>> \in Seq(S)
  OBVIOUS
<1>2. Joined(<<a, b, c, d, e, f, g, h>>, <<i>>, <<a, b, c, d, e, f, g, h, i>>)
  BY DEF Joined
<1> QED BY <1>1, <1>2, Join

LEMMA Join9_4 ==
    ASSUME NEW a, NEW b, NEW c, NEW d, NEW e, NEW f,
           NEW g, NEW h, NEW i, NEW j, NEW k, NEW l, NEW m
    PROVE  <<a, b, c, d, e, f, g, h, i>> \o <<j, k, l, m>> = <<a, b, c, d, e, f, g, h, i, j, k, l, m>>
<1> DEFINE S == {a, b, c, d, e, f, g, h, i, j, k, l, m}
<1>1. <<a, b, c, d, e, f, g, h, i>> \in Seq(S) /\ <<j, k, l, m>> \in Seq(S) /\ <<a, b, c, d, e, f, g, h, i, j, k, l, m>> \in Seq(S)
  OBVIOUS
<1>2. Joined(<<a, b, c, d, e, f, g, h, i>>, <<j, k, l, m>>, <<a, b, c, d, e, f, g, h, i, j, k, l, m>>)
  BY DEF Joined
<1> QED BY <1>1, <1>2, Join

\* The end of requestRadioPower.
LEMMA DoneProgram ==
    LET p == <<Free("p_response"), Succeed>>
    IN  p \in Sound0 /\ p \in Frees0["p_response"]
<1> DEFINE p == <<Free("p_response"), Succeed>>
<1>1. p \in Programs0
  BY DEF Programs0, Plain, Free, Complete, Succeed, Codes, Pointers
<1>2. /\ Len(p) = 2
      /\ p[1].op = "free" /\ p[1].v = "p_response"
      /\ p[2].op = "complete" /\ p[2].uses = {}
  BY DEF Free, Complete, Succeed
<1> HIDE DEF p
<1>3. /\ 1 \in 1..Len(p) /\ 2 \in 1..Len(p)
      /\ \A i \in 1..Len(p) : i \in {1, 2}
  BY <1>2
<1>4. \A i \in 1..Len(p) : p[i].op \in {"complete", "free"} /\ (p[i].op = "complete" <=> i = 2)
  BY <1>2, <1>3
<1>5. \A i, j \in 1..Len(p) : p[i].op = "free" /\ p[j].op = "free" /\ p[i].v = p[j].v => i = j
  BY <1>2, <1>3
<1>6. p \in Sound0 /\ \A i \in 1..Len(p) : p[i].op = "free" /\ p[i].v \in Pointers => p \in Frees0[p[i].v]
  BY <1>1, <1>2, <1>3, <1>4, <1>5, ErrorProgram
<1>7. p \in Frees0["p_response"]
  BY <1>2, <1>3, <1>6 DEF Pointers
<1> QED BY <1>6, <1>7 DEF p

\* What follows the query of requestRadioPower.
LEMMA PowerError ==
    LET p == <<Free("p_response2"), Free("p_response"), Fail>>
    IN  p \in Sound0 /\ p \in Frees0["p_response2"] /\ p \in Frees0["p_response"]
<1> DEFINE p == <<Free("p_response2"), Free("p_response"), Fail>>
<1>1. p \in Programs0
  BY DEF Programs0, Plain, Free, Complete, Fail, Codes, Pointers
<1>2. /\ Len(p) = 3
      /\ p[1].op = "free" /\ p[1].v = "p_response2"
      /\ p[2].op = "free" /\ p[2].v = "p_response"
      /\ p[3].op = "complete" /\ p[3].uses = {}
  BY DEF Free, Complete, Fail
<1> HIDE DEF p
<1>3. /\ 1 \in 1..Len(p) /\ 2 \in 1..Len(p) /\ 3 \in 1..Len(p)
      /\ \A i \in 1..Len(p) : i \in {1, 2, 3}
  BY <1>2
<1>4. \A i \in 1..Len(p) : p[i].op \in {"complete", "free"} /\ (p[i].op = "complete" <=> i = 3)
  BY <1>2, <1>3
<1>5. \A i, j \in 1..Len(p) : p[i].op = "free" /\ p[j].op = "free" /\ p[i].v = p[j].v => i = j
  BY <1>2, <1>3
<1>6. p \in Sound0 /\ \A i \in 1..Len(p) : p[i].op = "free" /\ p[i].v \in Pointers => p \in Frees0[p[i].v]
  BY <1>1, <1>2, <1>3, <1>4, <1>5, ErrorProgram
<1>7. p \in Frees0["p_response2"] /\ p \in Frees0["p_response"]
  BY <1>2, <1>3, <1>6 DEF Pointers
<1> QED BY <1>6, <1>7 DEF p

\* The error labels of getNetworkInfo, for requestOperator.
LEMMA NetworkError ==
    LET p == <<Free("p_response"), Free("p_response2"), Fail>>
    IN  p \in Sound0 /\ p \in Frees0["p_response"] /\ p \in Frees0["p_response2"]
<1> DEFINE p == <<Free("p_response"), Free("p_response2"), Fail>>
<1>1. p \in Programs0
  BY DEF Programs0, Plain, Free, Complete, Fail, Codes, Pointers
<1>2. /\ Len(p) = 3
      /\ p[1].op = "free" /\ p[1].v = "p_response"
      /\ p[2].op = "free" /\ p[2].v = "p_response2"
      /\ p[3].op = "complete" /\ p[3].uses = {}
  BY DEF Free, Complete, Fail
<1> HIDE DEF p
<1>3. /\ 1 \in 1..Len(p) /\ 2 \in 1..Len(p) /\ 3 \in 1..Len(p)
      /\ \A i \in 1..Len(p) : i \in {1, 2, 3}
  BY <1>2
<1>4. \A i \in 1..Len(p) : p[i].op \in {"complete", "free"} /\ (p[i].op = "complete" <=> i = 3)
  BY <1>2, <1>3
<1>5. \A i, j \in 1..Len(p) : p[i].op = "free" /\ p[j].op = "free" /\ p[i].v = p[j].v => i = j
  BY <1>2, <1>3
<1>6. p \in Sound0 /\ \A i \in 1..Len(p) : p[i].op = "free" /\ p[i].v \in Pointers => p \in Frees0[p[i].v]
  BY <1>1, <1>2, <1>3, <1>4, <1>5, ErrorProgram
<1>7. p \in Frees0["p_response"] /\ p \in Frees0["p_response2"]
  BY <1>2, <1>3, <1>6 DEF Pointers
<1> QED BY <1>6, <1>7 DEF p

\* The same, after the operator was looked up.
LEMMA NetworkError2 ==
    LET p == <<Free("mccmnc"), Free("p_response"), Free("p_response2"), Fail>>
    IN  p \in Sound0 /\ p \in Frees0["mccmnc"] /\ p \in Frees0["p_response"]
        /\ p \in Frees0["p_response2"]
<1> DEFINE p == <<Free("mccmnc"), Free("p_response"), Free("p_response2"), Fail>>
<1>1. p \in Programs0
  BY DEF Programs0, Plain, Free, Complete, Fail, Codes, Pointers
<1>2. /\ Len(p) = 4
      /\ p[1].op = "free" /\ p[1].v = "mccmnc"
      /\ p[2].op = "free" /\ p[2].v = "p_response"
      /\ p[3].op = "free" /\ p[3].v = "p_response2"
      /\ p[4].op = "complete" /\ p[4].uses = {}
  BY DEF Free, Complete, Fail
<1> HIDE DEF p
<1>3. /\ 1 \in 1..Len(p) /\ 2 \in 1..Len(p) /\ 3 \in 1..Len(p) /\ 4 \in 1..Len(p)
      /\ \A i \in 1..Len(p) : i \in {1, 2, 3, 4}
  BY <1>2
<1>4. \A i \in 1..Len(p) : p[i].op \in {"complete", "free"} /\ (p[i].op = "complete" <=> i = 4)
  BY <1>2, <1>3
<1>5. \A i, j \in 1..Len(p) : p[i].op = "free" /\ p[j].op = "free" /\ p[i].v = p[j].v => i = j
  BY <1>2, <1>3
<1>6. p \in Sound0 /\ \A i \in 1..Len(p) : p[i].op = "free" /\ p[i].v \in Pointers => p \in Frees0[p[i].v]
  BY <1>1, <1>2, <1>3, <1>4, <1>5, ErrorProgram
<1>7. p \in Frees0["mccmnc"] /\ p \in Frees0["p_response"] /\ p \in Frees0["p_response2"]
  BY <1>2, <1>3, <1>6 DEF Pointers
<1> QED BY <1>6, <1>7 DEF p

\* The error label of requestGetIMSI.
LEMMA IMSIError ==
    LET p == <<Fail, Free("p_response3")>>
    IN  p \in Sound0 /\ p \in Frees0["p_response3"]
<1> DEFINE p == <<Fail, Free("p_response3")>>
<1>1. p \in Programs0
  BY DEF Programs0, Plain, Complete, Fail, Free, Codes, Pointers
<1>2. /\ Len(p) = 2
      /\ p[1].op = "complete" /\ p[1].uses = {}
      /\ p[2].op = "free" /\ p[2].v = "p_response3"
  BY DEF Complete, Fail, Free
<1> HIDE DEF p
<1>3. /\ 1 \in 1..Len(p) /\ 2 \in 1..Len(p)
      /\ \A i \in 1..Len(p) : i \in {1, 2}
  BY <1>2
<1>4. \A i \in 1..Len(p) : p[i].op \in {"complete", "free"} /\ (p[i].op = "complete" <=> i = 1)
  BY <1>2, <1>3
<1>5. \A i, j \in 1..Len(p) : p[i].op = "free" /\ p[j].op = "free" /\ p[i].v = p[j].v => i = j
  BY <1>2, <1>3
<1>6. p \in Sound0 /\ \A i \in 1..Len(p) : p[i].op = "free" /\ p[i].v \in Pointers => p \in Frees0[p[i].v]
  BY <1>1, <1>2, <1>3, <1>4, <1>5, ErrorProgram
<1>7. p \in Frees0["p_response3"]
  BY <1>2, <1>3, <1>6 DEF Pointers
<1> QED BY <1>6, <1>7 DEF p

\* The error label of getNetworkInfo, for requestGetIMSI.
LEMMA IMSIError1 ==
    LET p == <<Free("p_response"), Free("p_response2"), Fail, Free("p_response3")>>
    IN  p \in Sound0 /\ p \in Frees0["p_response"] /\ p \in Frees0["p_response2"]
        /\ p \in Frees0["p_response3"]
<1> DEFINE p == <<Free("p_response"), Free("p_response2"), Fail, Free("p_response3")>>
<1>1. p \in Programs0
  BY DEF Programs0, Plain, Free, Complete, Fail, Codes, Pointers
<1>2. /\ Len(p) = 4
      /\ p[1].op = "free" /\ p[1].v = "p_response"
      /\ p[2].op = "free" /\ p[2].v = "p_response2"
      /\ p[3].op = "complete" /\ p[3].uses = {}
      /\ p[4].op = "free" /\ p[4].v = "p_response3"
  BY DEF Free, Complete, Fail
<1> HIDE DEF p
<1>3. /\ 1 \in 1..Len(p) /\ 2 \in 1..Len(p) /\ 3 \in 1..Len(p) /\ 4 \in 1..Len(p)
      /\ \A i \in 1..Len(p) : i \in {1, 2, 3, 4}
  BY <1>2
<1>4. \A i \in 1..Len(p) : p[i].op \in {"complete", "free"} /\ (p[i].op = "complete" <=> i = 3)
  BY <1>2, <1>3
<1>5. \A i, j \in 1..Len(p) : p[i].op = "free" /\ p[j].op = "free" /\ p[i].v = p[j].v => i = j
  BY <1>2, <1>3
<1>6. p \in Sound0 /\ \A i \in 1..Len(p) : p[i].op = "free" /\ p[i].v \in Pointers => p \in Frees0[p[i].v]
  BY <1>1, <1>2, <1>3, <1>4, <1>5, ErrorProgram
<1>7. p \in Frees0["p_response"] /\ p \in Frees0["p_response2"] /\ p \in Frees0["p_response3"]
  BY <1>2, <1>3, <1>6 DEF Pointers
<1> QED BY <1>6, <1>7 DEF p

\* The same, after the operator was looked up.
LEMMA IMSIError2 ==
    LET p == <<Free("mccmnc"), Free("p_response"), Free("p_response2"), Fail,
               Free("p_response3")>>
    IN  p \in Sound0 /\ p \in Frees0["mccmnc"] /\ p \in Frees0["p_response"]
        /\ p \in Frees0["p_response2"] /\ p \in Frees0["p_response3"]
<1> DEFINE p == <<Free("mccmnc"), Free("p_response"), Free("p_response2"), Fail,
                  Free("p_response3")>>
<1>1. p \in Programs0
  BY DEF Programs0, Plain, Free, Complete, Fail, Codes, Pointers
<1>2. /\ Len(p) = 5
      /\ p[1].op = "free" /\ p[1].v = "mccmnc"
      /\ p[2].op = "free" /\ p[2].v = "p_response"
      /\ p[3].op = "free" /\ p[3].v = "p_response2"
      /\ p[4].op = "complete" /\ p[4].uses = {}
      /\ p[5].op = "free" /\ p[5].v = "p_response3"
  BY DEF Free, Complete, Fail
<1> HIDE DEF p
<1>3. /\ 1 \in 1..Len(p) /\ 2 \in 1..Len(p) /\ 3 \in 1..Len(p) /\ 4 \in 1..Len(p) /\ 5 \in 1..Len(p)
      /\ \A i \in 1..Len(p) : i \in {1, 2, 3, 4, 5}
  BY <1>2
<1>4. \A i \in 1..Len(p) : p[i].op \in {"complete", "free"} /\ (p[i].op = "complete" <=> i = 4)
  BY <1>2, <1>3
<1>5. \A i, j \in 1..Len(p) : p[i].op = "free" /\ p[j].op = "free" /\ p[i].v = p[j].v => i = j
  BY <1>2, <1>3
<1>6. p \in Sound0 /\ \A i \in 1..Len(p) : p[i].op = "free" /\ p[i].v \in Pointers => p \in Frees0[p[i].v]
  BY <1>1, <1>2, <1>3, <1>4, <1>5, ErrorProgram
<1>7. p \in Frees0["mccmnc"] /\ p \in Frees0["p_response"] /\ p \in Frees0["p_response2"] /\ p \in Frees0["p_response3"]
  BY <1>2, <1>3, <1>6 DEF Pointers
<1> QED BY <1>6, <1>7 DEF p

\* The error label of requestRegistrationStateEVDO.
LEMMA RegistrationError ==
    LET p == <<Fail, Free("p_response"), Free("p_response2"), Free("p_response3"),
               Free("p_response4")>>
    IN  p \in Sound0 /\ p \in Frees0["p_response"] /\ p \in Frees0["p_response2"]
        /\ p \in Frees0["p_response3"] /\ p \in Frees0["p_response4"]
<1> DEFINE p == <<Fail, Free("p_response"), Free("p_response2"), Free("p_response3"),
                  Free("p_response4")>>
<1>1. p \in Programs0
  BY DEF Programs0, Plain, Complete, Fail, Free, Codes, Pointers
<1>2. /\ Len(p) = 5
      /\ p[1].op = "complete" /\ p[1].uses = {}
      /\ p[2].op = "free" /\ p[2].v = "p_response"
      /\ p[3].op = "free" /\ p[3].v = "p_response2"
      /\ p[4].op = "free" /\ p[4].v = "p_response3"
      /\ p[5].op = "free" /\ p[5].v = "p_response4"
  BY DEF Complete, Fail, Free
<1> HIDE DEF p
<1>3. /\ 1 \in 1..Len(p) /\ 2 \in 1..Len(p) /\ 3 \in 1..Len(p) /\ 4 \in 1..Len(p) /\ 5 \in 1..Len(p)
      /\ \A i \in 1..Len(p) : i \in {1, 2, 3, 4, 5}
  BY <1>2
<1>4. \A i \in 1..Len(p) : p[i].op \in {"complete", "free"} /\ (p[i].op = "complete" <=> i = 1)
  BY <1>2, <1>3
<1>5. \A i, j \in 1..Len(p) : p[i].op = "free" /\ p[j].op = "free" /\ p[i].v = p[j].v => i = j
  BY <1>2, <1>3
<1>6. p \in Sound0 /\ \A i \in 1..Len(p) : p[i].op = "free" /\ p[i].v \in Pointers => p \in Frees0[p[i].v]
  BY <1>1, <1>2, <1>3, <1>4, <1>5, ErrorProgram
<1>7. p \in Frees0["p_response"] /\ p \in Frees0["p_response2"] /\ p \in Frees0["p_response3"] /\ p \in Frees0["p_response4"]
  BY <1>2, <1>3, <1>6 DEF Pointers
<1> QED BY <1>6, <1>7 DEF p

\* isRadioOn, run after a refused CPON: p_response is still there.
LEMMA PowerQuery ==
    ASSUME NEW e \in Sound0,
           e \in Frees0["p_response"],
           e \in Frees0["p_response2"]
    PROVE  LET p == <<Send("p_response2", e), Parse("p_response2", e),
                      Free("p_response2"), Free("p_response"), Fail>>
           IN  p \in Sound1 /\ p \in Frees1["p_response"]
<1> DEFINE p == <<Send("p_response2", e), Parse("p_response2", e), Free("p_response2"),
                  Free("p_response"), Fail>>
<1>1. e \in Programs0 /\ e \in Completing0 /\ e \in Returns0 /\ e \in Tidy0 /\ StoredFirst(e, {})
  BY DEF Sound0, Sound, Completing0, Completing
<1>2. p \in Programs1
  BY <1>1 DEF Programs1, Plain, Branch, Send, Parse, Free, Complete, Fail, Codes, Pointers
<1>3. /\ Len(p) = 5
      /\ p[1].op = "send" /\ p[1].v = "p_response2" /\ p[1].alt = e
      /\ p[2].op = "parse" /\ p[2].v = "p_response2" /\ p[2].alt = e
      /\ p[3].op = "free" /\ p[3].v = "p_response2"
      /\ p[4].op = "free" /\ p[4].v = "p_response"
      /\ p[5].op = "complete" /\ p[5].uses = {}
  BY DEF Send, Parse, Free, Complete, Fail
<1> HIDE DEF p
<1>4. \A i \in 1..Len(p) : i \in {1, 2, 3, 4, 5}
  BY <1>3
<1>5. \A i \in 1..Len(p) : \A v \in Pointers :
        /\ Stores(p[i], v) <=> (i = 1 /\ v = "p_response2")
        /\ Reads(p[i], v) <=> (i = 2 /\ v = "p_response2")
        /\ Releases(p[i], v) <=> (i = 3 /\ v = "p_response2")
            \/ (i = 4 /\ v = "p_response")
  BY <1>3, <1>4 DEF Stores, Reads, Releases
<1>6. \A i \in 1..Len(p) : p[i].op \in Branching =>
        (i \in {1, 2} /\ p[i].alt = e)
  BY <1>3, <1>4 DEF Branching
<1>7. p \in Completing1
  <2>1. 5 \in 1..Len(p) /\ \A i \in 1..Len(p) : p[i].op = "complete" <=> i = 5
    BY <1>3, <1>4
  <2>2. \A i \in 1..Len(p) : p[i].op \in Branching => i < 5 /\ p[i].alt \in Completing0
    BY <1>1, <1>6
  <2> QED BY <1>2, <2>1, <2>2 DEF Completing1, Completing
<1>8. p \in Returns1
  <2>1. FreesAfter(p, 1, "p_response2", Frees0["p_response2"])
    <3>1. 3 \in (1 + 1)..Len(p) /\ 3 \in 1..Len(p) /\ Releases(p[3], "p_response2")
      BY <1>3 DEF Releases
    <3>2. \A i \in (1 + 1)..(3 - 1) : i \in 1..Len(p) /\ i \in {2}
      BY <1>3
    <3>3. \A i \in (1 + 1)..(3 - 1) : ~Stores(p[i], "p_response2")
      BY <1>5, <3>2 DEF Pointers
    <3>4. \A i \in (1 + 1)..(3 - 1) : p[i].op \in Branching => p[i].alt \in Frees0["p_response2"]
      BY <1>1, <1>6, <3>2
    <3> QED BY <3>1, <3>3, <3>4 DEF FreesAfter
  <2>2. \A i \in 1..Len(p) : p[i].op \in Branching => p[i].alt \in Returns0
    BY <1>1, <1>6
  <2>3. p[1].alt \in Frees0["p_response2"]
    BY <1>1, <1>3
  <2>4. \A i \in 1..Len(p) : \A v \in Pointers : Stores(p[i], v) =>
          FreesAfter(p, i, v, Frees0[v]) /\ (p[i].op = "send" => p[i].alt \in Frees0[v])
    BY <1>5, <2>1, <2>2, <2>3
  <2> QED BY <1>2, <2>2, <2>4 DEF Returns1, Returns
<1>9. p \in Tidy1
  <2>1. \A i \in 1..Len(p) : p[i].op \in Branching =>
          p[i].alt \in Tidy0 /\ StoredFirst(p[i].alt, {})
    BY <1>1, <1>6
  <2>2. \A i \in 1..Len(p) : \A j \in (i + 1)..Len(p) : j \in 1..Len(p) /\ i < j
    BY <1>3
  <2>3. \A i \in 1..Len(p) : \A v \in Pointers : Releases(p[i], v) =>
          \A j \in (i + 1)..Len(p) : ~Reads(p[j], v) /\ ~Releases(p[j], v) /\ p[j].op \notin Branching
    BY <1>5, <1>6, <2>2
  <2>4. \A i \in 1..Len(p) : p[i].op # "sprintf"
    BY <1>3, <1>4
  <2> QED BY <1>2, <2>1, <2>3, <2>4 DEF Tidy1, Tidy
<1>10. StoredFirst(p, {})
  <2>1. \A i \in 1..Len(p) : \A v \in Pointers : Reads(p[i], v) =>
          (v = "p_response2" /\ 1 \in 1..(i - 1) /\ Stores(p[1], v))
    BY <1>3, <1>5
  <2> QED BY <2>1 DEF StoredFirst
<1>11. p \in Frees1["p_response"]
  <2>1. FreesAfter(p, 0, "p_response", Frees0["p_response"])
    <3>1. 4 \in (0 + 1)..Len(p) /\ 4 \in 1..Len(p) /\ Releases(p[4], "p_response")
      BY <1>3 DEF Releases
    <3>2. \A i \in (0 + 1)..(4 - 1) : i \in 1..Len(p) /\ i \in {1, 2, 3}
      BY <1>3
    <3>3. \A i \in (0 + 1)..(4 - 1) : ~Stores(p[i], "p_response")
      BY <1>5, <3>2 DEF Pointers
    <3>4. \A i \in (0 + 1)..(4 - 1) : p[i].op \in Branching => p[i].alt \in Frees0["p_response"]
      BY <1>1, <1>6, <3>2
    <3> QED BY <3>1, <3>3, <3>4 DEF FreesAfter
  <2> QED BY <1>2, <2>1 DEF Frees1, Frees, Pointers
<1> QED BY <1>2, <1>7, <1>8, <1>9, <1>10, <1>11 DEF Sound1, Sound, p

\* The second query of getNetworkInfo, for requestOperator.
LEMMA NetworkLookup ==
    ASSUME NEW e \in Completing0 \cap Returns0,
           e \in Frees0["p_response"],
           e \in Frees0["p_response2"],
           e \in Frees0["mccmnc"]
    PROVE  LET p == <<Send("p_response2", e), Free("p_response"), Free("p_response2"),
                      Free("mccmnc"), Succeed>>
           IN  p \in Programs1 /\ p \in Completing1 /\ p \in Returns1
               /\ p \in Frees1["p_response"] /\ p \in Frees1["mccmnc"]
<1> DEFINE p == <<Send("p_response2", e), Free("p_response"), Free("p_response2"),
                  Free("mccmnc"), Succeed>>
<1>1. e \in Programs0 /\ e \in Completing0 /\ e \in Returns0
  BY DEF Completing0, Completing
<1>2. p \in Programs1
  BY <1>1 DEF Programs1, Plain, Branch, Send, Free, Complete, Succeed, Codes, Pointers
<1>3. /\ Len(p) = 5
      /\ p[1].op = "send" /\ p[1].v = "p_response2" /\ p[1].alt = e
      /\ p[2].op = "free" /\ p[2].v = "p_response"
      /\ p[3].op = "free" /\ p[3].v = "p_response2"
      /\ p[4].op = "free" /\ p[4].v = "mccmnc"
      /\ p[5].op = "complete" /\ p[5].uses = {}
  BY DEF Send, Free, Complete, Succeed
<1> HIDE DEF p
<1>4. \A i \in 1..Len(p) : i \in {1, 2, 3, 4, 5}
  BY <1>3
<1>5. \A i \in 1..Len(p) : \A v \in Pointers :
        /\ Stores(p[i], v) <=> (i = 1 /\ v = "p_response2")
        /\ Releases(p[i], v) <=> (i = 2 /\ v = "p_response")
            \/ (i = 3 /\ v = "p_response2") \/ (i = 4 /\ v = "mccmnc")
  BY <1>3, <1>4 DEF Stores, Reads, Releases
<1>6. \A i \in 1..Len(p) : p[i].op \in Branching =>
        (i \in {1} /\ p[i].alt = e)
  BY <1>3, <1>4 DEF Branching
<1>7. p \in Completing1
  <2>1. 5 \in 1..Len(p) /\ \A i \in 1..Len(p) : p[i].op = "complete" <=> i = 5
    BY <1>3, <1>4
  <2>2. \A i \in 1..Len(p) : p[i].op \in Branching => i < 5 /\ p[i].alt \in Completing0
    BY <1>1, <1>6
  <2> QED BY <1>2, <2>1, <2>2 DEF Completing1, Completing
<1>8. p \in Returns1
  <2>1. FreesAfter(p, 1, "p_response2", Frees0["p_response2"])
    <3>1. 3 \in (1 + 1)..Len(p) /\ 3 \in 1..Len(p) /\ Releases(p[3], "p_response2")
      BY <1>3 DEF Releases
    <3>2. \A i \in (1 + 1)..(3 - 1) : i \in 1..Len(p) /\ i \in {2}
      BY <1>3
    <3>3. \A i \in (1 + 1)..(3 - 1) : ~Stores(p[i], "p_response2")
      BY <1>5, <3>2 DEF Pointers
    <3>4. \A i \in (1 + 1)..(3 - 1) : p[i].op \in Branching => p[i].alt \in Frees0["p_response2"]
      BY <1>1, <1>6, <3>2
    <3> QED BY <3>1, <3>3, <3>4 DEF FreesAfter
  <2>2. \A i \in 1..Len(p) : p[i].op \in Branching => p[i].alt \in Returns0
    BY <1>1, <1>6
  <2>3. p[1].alt \in Frees0["p_response2"]
    BY <1>1, <1>3
  <2>4. \A i \in 1..Len(p) : \A v \in Pointers : Stores(p[i], v) =>
          FreesAfter(p, i, v, Frees0[v]) /\ (p[i].op = "send" => p[i].alt \in Frees0[v])
    BY <1>5, <2>1, <2>2, <2>3
  <2> QED BY <1>2, <2>2, <2>4 DEF Returns1, Returns
<1>9. p \in Frees1["p_response"]
  <2>1. FreesAfter(p, 0, "p_response", Frees0["p_response"])
    <3>1. 2 \in (0 + 1)..Len(p) /\ 2 \in 1..Len(p) /\ Releases(p[2], "p_response")
      BY <1>3 DEF Releases
    <3>2. \A i \in (0 + 1)..(2 - 1) : i \in 1..Len(p) /\ i \in {1}
      BY <1>3
    <3>3. \A i \in (0 + 1)..(2 - 1) : ~Stores(p[i], "p_response")
      BY <1>5, <3>2 DEF Pointers
    <3>4. \A i \in (0 + 1)..(2 - 1) : p[i].op \in Branching => p[i].alt \in Frees0["p_response"]
      BY <1>1, <1>6, <3>2
    <3> QED BY <3>1, <3>3, <3>4 DEF FreesAfter
  <2> QED BY <1>2, <2>1 DEF Frees1, Frees, Pointers
<1>10. p \in Frees1["mccmnc"]
  <2>1. FreesAfter(p, 0, "mccmnc", Frees0["mccmnc"])
    <3>1. 4 \in (0 + 1)..Len(p) /\ 4 \in 1..Len(p) /\ Releases(p[4], "mccmnc")
      BY <1>3 DEF Releases
    <3>2. \A i \in (0 + 1)..(4 - 1) : i \in 1..Len(p) /\ i \in {1, 2, 3}
      BY <1>3
    <3>3. \A i \in (0 + 1)..(4 - 1) : ~Stores(p[i], "mccmnc")
      BY <1>5, <3>2 DEF Pointers
    <3>4. \A i \in (0 + 1)..(4 - 1) : p[i].op \in Branching => p[i].alt \in Frees0["mccmnc"]
      BY <1>1, <1>6, <3>2
    <3> QED BY <3>1, <3>3, <3>4 DEF FreesAfter
  <2> QED BY <1>2, <2>1 DEF Frees1, Frees, Pointers
<1> QED BY <1>2, <1>7, <1>8, <1>9, <1>10 DEF p

\* requestOperator and requestQueryAvailableNetworks.
LEMMA OperatorHandler ==
    ASSUME NEW e \in Completing1 \cap Returns1,
           NEW g \in Completing1 \cap Returns1,
           e \in Frees1["p_response"],
           g \in Frees1["p_response"],
           g \in Frees1["mccmnc"],
           NEW kind
    PROVE  LET p == <<Send("p_response", e), Parse("p_response", e), Sprintf("mccmnc"),
                      Either(g), Free("p_response"), Free("p_response2"),
                      Free("mccmnc"), Complete("SUCCESS", {"mccmnc"})>>
           IN  p \in Programs2 /\ p \in Completing2 /\ p \in Returns2 /\ Permitted(p, kind)
<1> DEFINE p == <<Send("p_response", e), Parse("p_response", e), Sprintf("mccmnc"),
                  Either(g), Free("p_response"), Free("p_response2"), Free("mccmnc"),
                  Complete("SUCCESS", {"mccmnc"})>>
<1>1. /\ e \in Programs1 /\ e \in Completing1 /\ e \in Returns1
      /\ g \in Programs1 /\ g \in Completing1 /\ g \in Returns1
  BY DEF Completing1, Completing
<1>2. p \in Programs2
  BY <1>1 DEF Programs2, Plain, Branch, Send, Parse, Sprintf, Either, Free, Complete, Codes, Pointers
<1>3. /\ Len(p) = 8
      /\ p[1].op = "send" /\ p[1].v = "p_response" /\ p[1].alt = e
      /\ p[2].op = "parse" /\ p[2].v = "p_response" /\ p[2].alt = e
      /\ p[3].op = "sprintf" /\ p[3].v = "mccmnc"
      /\ p[4].op = "either" /\ p[4].alt = g
      /\ p[5].op = "free" /\ p[5].v = "p_response"
      /\ p[6].op = "free" /\ p[6].v = "p_response2"
      /\ p[7].op = "free" /\ p[7].v = "mccmnc"
      /\ p[8].op = "complete" /\ p[8].uses = {"mccmnc"}
  BY DEF Send, Parse, Sprintf, Either, Free, Complete
<1> HIDE DEF p
<1>4. \A i \in 1..Len(p) : i \in {1, 2, 3, 4, 5, 6, 7, 8}
  BY <1>3
<1>5. \A i \in 1..Len(p) : \A v \in Pointers :
        /\ Stores(p[i], v) <=> (i = 1 /\ v = "p_response") \/ (i = 3 /\ v = "mccmnc")
        /\ Releases(p[i], v) <=> (i = 5 /\ v = "p_response")
            \/ (i = 6 /\ v = "p_response2") \/ (i = 7 /\ v = "mccmnc")
  BY <1>3, <1>4 DEF Stores, Reads, Releases
<1>6. \A i \in 1..Len(p) : p[i].op \in Branching =>
        (i \in {1, 2} /\ p[i].alt = e) \/ (i \in {4} /\ p[i].alt = g)
  BY <1>3, <1>4 DEF Branching
<1>7. p \in Completing2
  <2>1. 8 \in 1..Len(p) /\ \A i \in 1..Len(p) : p[i].op = "complete" <=> i = 8
    BY <1>3, <1>4
  <2>2. \A i \in 1..Len(p) : p[i].op \in Branching => i < 8 /\ p[i].alt \in Completing1
    BY <1>1, <1>6
  <2> QED BY <1>2, <2>1, <2>2 DEF Completing2, Completing
<1>8. p \in Returns2
  <2>1. FreesAfter(p, 1, "p_response", Frees1["p_response"])
    <3>1. 5 \in (1 + 1)..Len(p) /\ 5 \in 1..Len(p) /\ Releases(p[5], "p_response")
      BY <1>3 DEF Releases
    <3>2. \A i \in (1 + 1)..(5 - 1) : i \in 1..Len(p) /\ i \in {2, 3, 4}
      BY <1>3
    <3>3. \A i \in (1 + 1)..(5 - 1) : ~Stores(p[i], "p_response")
      BY <1>5, <3>2 DEF Pointers
    <3>4. \A i \in (1 + 1)..(5 - 1) : p[i].op \in Branching => p[i].alt \in Frees1["p_response"]
      BY <1>1, <1>6, <3>2
    <3> QED BY <3>1, <3>3, <3>4 DEF FreesAfter
  <2>2. FreesAfter(p, 3, "mccmnc", Frees1["mccmnc"])
    <3>1. 7 \in (3 + 1)..Len(p) /\ 7 \in 1..Len(p) /\ Releases(p[7], "mccmnc")
      BY <1>3 DEF Releases
    <3>2. \A i \in (3 + 1)..(7 - 1) : i \in 1..Len(p) /\ i \in {4, 5, 6}
      BY <1>3
    <3>3. \A i \in (3 + 1)..(7 - 1) : ~Stores(p[i], "mccmnc")
      BY <1>5, <3>2 DEF Pointers
    <3>4. \A i \in (3 + 1)..(7 - 1) : p[i].op \in Branching => p[i].alt \in Frees1["mccmnc"]
      BY <1>1, <1>6, <3>2
    <3> QED BY <3>1, <3>3, <3>4 DEF FreesAfter
  <2>3. \A i \in 1..Len(p) : p[i].op \in Branching => p[i].alt \in Returns1
    BY <1>1, <1>6
  <2>4. p[1].alt \in Frees1["p_response"]
    BY <1>1, <1>3
  <2>5. p[3].op # "send"
    BY <1>3
  <2>6. \A i \in 1..Len(p) : \A v \in Pointers : Stores(p[i], v) =>
          FreesAfter(p, i, v, Frees1[v]) /\ (p[i].op = "send" => p[i].alt \in Frees1[v])
    BY <1>5, <2>1, <2>2, <2>3, <2>4, <2>5
  <2> QED BY <1>2, <2>3, <2>6 DEF Returns2, Returns
<1>9. Permitted(p, kind)
  BY <1>3, <1>4 DEF Permitted, SpecialOps
<1> QED BY <1>2, <1>7, <1>8, <1>9 DEF p

\* The second query of getNetworkInfo and the rest of requestGetIMSI.
LEMMA IMSILookup ==
    ASSUME NEW e \in Completing0 \cap Returns0,
           NEW d \in Completing0 \cap Returns0,
           e \in Frees0["p_response"],
           e \in Frees0["p_response2"],
           e \in Frees0["mccmnc"],
           d \in Frees0["p_response3"]
    PROVE  LET p == <<Send("p_response2", e), Free("p_response"), Free("p_response2"),
                      Free("mccmnc"), Send("p_response3", d), Parse("p_response3", d),
                      Succeed, Free("p_response3")>>
           IN  p \in Programs1 /\ p \in Completing1 /\ p \in Returns1
               /\ p \in Frees1["p_response"] /\ p \in Frees1["mccmnc"]
<1> DEFINE p == <<Send("p_response2", e), Free("p_response"), Free("p_response2"),
                  Free("mccmnc"), Send("p_response3", d), Parse("p_response3", d),
                  Succeed, Free("p_response3")>>
<1>1. /\ e \in Programs0 /\ e \in Completing0 /\ e \in Returns0
      /\ d \in Programs0 /\ d \in Completing0 /\ d \in Returns0
  BY DEF Completing0, Completing
<1>2. p \in Programs1
  BY <1>1 DEF Programs1, Plain, Branch, Send, Free, Parse, Complete, Succeed, Codes, Pointers
<1>3. /\ Len(p) = 8
      /\ p[1].op = "send" /\ p[1].v = "p_response2" /\ p[1].alt = e
      /\ p[2].op = "free" /\ p[2].v = "p_response"
      /\ p[3].op = "free" /\ p[3].v = "p_response2"
      /\ p[4].op = "free" /\ p[4].v = "mccmnc"
      /\ p[5].op = "send" /\ p[5].v = "p_response3" /\ p[5].alt = d
      /\ p[6].op = "parse" /\ p[6].v = "p_response3" /\ p[6].alt = d
      /\ p[7].op = "complete" /\ p[7].uses = {}
      /\ p[8].op = "free" /\ p[8].v = "p_response3"
  BY DEF Send, Free, Parse, Complete, Succeed
<1> HIDE DEF p
<1>4. \A i \in 1..Len(p) : i \in {1, 2, 3, 4, 5, 6, 7, 8}
  BY <1>3
<1>5. \A i \in 1..Len(p) : \A v \in Pointers :
        /\ Stores(p[i], v) <=> (i = 1 /\ v = "p_response2") \/ (i = 5 /\ v = "p_response3")
        /\ Releases(p[i], v) <=> (i = 2 /\ v = "p_response")
            \/ (i = 3 /\ v = "p_response2") \/ (i = 4 /\ v = "mccmnc")
            \/ (i = 8 /\ v = "p_response3")
  BY <1>3, <1>4 DEF Stores, Reads, Releases
<1>6. \A i \in 1..Len(p) : p[i].op \in Branching =>
        (i \in {1} /\ p[i].alt = e) \/ (i \in {5, 6} /\ p[i].alt = d)
  BY <1>3, <1>4 DEF Branching
<1>7. p \in Completing1
  <2>1. 7 \in 1..Len(p) /\ \A i \in 1..Len(p) : p[i].op = "complete" <=> i = 7
    BY <1>3, <1>4
  <2>2. \A i \in 1..Len(p) : p[i].op \in Branching => i < 7 /\ p[i].alt \in Completing0
    BY <1>1, <1>6
  <2> QED BY <1>2, <2>1, <2>2 DEF Completing1, Completing
<1>8. p \in Returns1
  <2>1. FreesAfter(p, 1, "p_response2", Frees0["p_response2"])
    <3>1. 3 \in (1 + 1)..Len(p) /\ 3 \in 1..Len(p) /\ Releases(p[3], "p_response2")
      BY <1>3 DEF Releases
    <3>2. \A i \in (1 + 1)..(3 - 1) : i \in 1..Len(p) /\ i \in {2}
      BY <1>3
    <3>3. \A i \in (1 + 1)..(3 - 1) : ~Stores(p[i], "p_response2")
      BY <1>5, <3>2 DEF Pointers
    <3>4. \A i \in (1 + 1)..(3 - 1) : p[i].op \in Branching => p[i].alt \in Frees0["p_response2"]
      BY <1>1, <1>6, <3>2
    <3> QED BY <3>1, <3>3, <3>4 DEF FreesAfter
  <2>2. FreesAfter(p, 5, "p_response3", Frees0["p_response3"])
    <3>1. 8 \in (5 + 1)..Len(p) /\ 8 \in 1..Len(p) /\ Releases(p[8], "p_response3")
      BY <1>3 DEF Releases
    <3>2. \A i \in (5 + 1)..(8 - 1) : i \in 1..Len(p) /\ i \in {6, 7}
      BY <1>3
    <3>3. \A i \in (5 + 1)..(8 - 1) : ~Stores(p[i], "p_response3")
      BY <1>5, <3>2 DEF Pointers
    <3>4. \A i \in (5 + 1)..(8 - 1) : p[i].op \in Branching => p[i].alt \in Frees0["p_response3"]
      BY <1>1, <1>6, <3>2
    <3> QED BY <3>1, <3>3, <3>4 DEF FreesAfter
  <2>3. \A i \in 1..Len(p) : p[i].op \in Branching => p[i].alt \in Returns0
    BY <1>1, <1>6
  <2>4. p[1].alt \in Frees0["p_response2"] /\ p[5].alt \in Frees0["p_response3"]
    BY <1>1, <1>3
  <2>5. \A i \in 1..Len(p) : \A v \in Pointers : Stores(p[i], v) =>
          FreesAfter(p, i, v, Frees0[v]) /\ (p[i].op = "send" => p[i].alt \in Frees0[v])
    BY <1>5, <2>1, <2>2, <2>3, <2>4
  <2> QED BY <1>2, <2>3, <2>5 DEF Returns1, Returns
<1>9. p \in Frees1["p_response"]
  <2>1. FreesAfter(p, 0, "p_response", Frees0["p_response"])
    <3>1. 2 \in (0 + 1)..Len(p) /\ 2 \in 1..Len(p) /\ Releases(p[2], "p_response")
      BY <1>3 DEF Releases
    <3>2. \A i \in (0 + 1)..(2 - 1) : i \in 1..Len(p) /\ i \in {1}
      BY <1>3
    <3>3. \A i \in (0 + 1)..(2 - 1) : ~Stores(p[i], "p_response")
      BY <1>5, <3>2 DEF Pointers
    <3>4. \A i \in (0 + 1)..(2 - 1) : p[i].op \in Branching => p[i].alt \in Frees0["p_response"]
      BY <1>1, <1>6, <3>2
    <3> QED BY <3>1, <3>3, <3>4 DEF FreesAfter
  <2> QED BY <1>2, <2>1 DEF Frees1, Frees, Pointers
<1>10. p \in Frees1["mccmnc"]
  <2>1. FreesAfter(p, 0, "mccmnc", Frees0["mccmnc"])
    <3>1. 4 \in (0 + 1)..Len(p) /\ 4 \in 1..Len(p) /\ Releases(p[4], "mccmnc")
      BY <1>3 DEF Releases
    <3>2. \A i \in (0 + 1)..(4 - 1) : i \in 1..Len(p) /\ i \in {1, 2, 3}
      BY <1>3
    <3>3. \A i \in (0 + 1)..(4 - 1) : ~Stores(p[i], "mccmnc")
      BY <1>5, <3>2 DEF Pointers
    <3>4. \A i \in (0 + 1)..(4 - 1) : p[i].op \in Branching => p[i].alt \in Frees0["mccmnc"]
      BY <1>1, <1>6, <3>2
    <3> QED BY <3>1, <3>3, <3>4 DEF FreesAfter
  <2> QED BY <1>2, <2>1 DEF Frees1, Frees, Pointers
<1> QED BY <1>2, <1>7, <1>8, <1>9, <1>10 DEF p

\* requestGetIMSI.
LEMMA IMSIHandler ==
    ASSUME NEW e \in Completing1 \cap Returns1,
           NEW g \in Completing1 \cap Returns1,
           NEW d \in Completing1 \cap Returns1,
           e \in Frees1["p_response"],
           g \in Frees1["p_response"],
           g \in Frees1["mccmnc"],
           d \in Frees1["p_response3"],
           NEW kind
    PROVE  LET p == <<Send("p_response", e), Parse("p_response", e), Sprintf("mccmnc"),
                      Either(g), Free("p_response"), Free("p_response2"),
                      Free("mccmnc"), Send("p_response3", d), Parse("p_response3", d),
                      Complete("SUCCESS", {"mccmnc"}), Free("p_response3")>>
           IN  p \in Programs2 /\ p \in Completing2 /\ p \in Returns2 /\ Permitted(p, kind)
<1> DEFINE p == <<Send("p_response", e), Parse("p_response", e), Sprintf("mccmnc"),
                  Either(g), Free("p_response"), Free("p_response2"), Free("mccmnc"),
                  Send("p_response3", d), Parse("p_response3", d),
                  Complete("SUCCESS", {"mccmnc"}), Free("p_response3")>>
<1>1. /\ e \in Programs1 /\ e \in Completing1 /\ e \in Returns1
      /\ g \in Programs1 /\ g \in Completing1 /\ g \in Returns1
      /\ d \in Programs1 /\ d \in Completing1 /\ d \in Returns1
  BY DEF Completing1, Completing
<1>2. p \in Programs2
  BY <1>1 DEF Programs2, Plain, Branch, Send, Parse, Sprintf, Either, Free, Complete, Codes, Pointers
<1>3. /\ Len(p) = 11
      /\ p[1].op = "send" /\ p[1].v = "p_response" /\ p[1].alt = e
      /\ p[2].op = "parse" /\ p[2].v = "p_response" /\ p[2].alt = e
      /\ p[3].op = "sprintf" /\ p[3].v = "mccmnc"
      /\ p[4].op = "either" /\ p[4].alt = g
      /\ p[5].op = "free" /\ p[5].v = "p_response"
      /\ p[6].op = "free" /\ p[6].v = "p_response2"
      /\ p[7].op = "free" /\ p[7].v = "mccmnc"
      /\ p[8].op = "send" /\ p[8].v = "p_response3" /\ p[8].alt = d
      /\ p[9].op = "parse" /\ p[9].v = "p_response3" /\ p[9].alt = d
      /\ p[10].op = "complete" /\ p[10].uses = {"mccmnc"}
      /\ p[11].op = "free" /\ p[11].v = "p_response3"
  BY DEF Send, Parse, Sprintf, Either, Free, Complete
<1> HIDE DEF p
<1>4. \A i \in 1..Len(p) : i \in {1, 2, 3, 4, 5, 6, 7, 8, 9, 10, 11}
  BY <1>3
<1>5. \A i \in 1..Len(p) : \A v \in Pointers :
        /\ Stores(p[i], v) <=> (i = 1 /\ v = "p_response") \/ (i = 3 /\ v = "mccmnc")
            \/ (i = 8 /\ v = "p_response3")
        /\ Releases(p[i], v) <=> (i = 5 /\ v = "p_response")
            \/ (i = 6 /\ v = "p_response2") \/ (i = 7 /\ v = "mccmnc")
            \/ (i = 11 /\ v = "p_response3")
  BY <1>3, <1>4 DEF Stores, Reads, Releases
<1>6. \A i \in 1..Len(p) : p[i].op \in Branching =>
        (i \in {1, 2} /\ p[i].alt = e) \/ (i \in {4} /\ p[i].alt = g) \/ (i \in {8, 9} /\ p[i].alt = d)
  BY <1>3, <1>4 DEF Branching
<1>7. p \in Completing2
  <2>1. 10 \in 1..Len(p) /\ \A i \in 1..Len(p) : p[i].op = "complete" <=> i = 10
    BY <1>3, <1>4
  <2>2. \A i \in 1..Len(p) : p[i].op \in Branching => i < 10 /\ p[i].alt \in Completing1
    BY <1>1, <1>6
  <2> QED BY <1>2, <2>1, <2>2 DEF Completing2, Completing
<1>8. p \in Returns2
  <2>1. FreesAfter(p, 1, "p_response", Frees1["p_response"])
    <3>1. 5 \in (1 + 1)..Len(p) /\ 5 \in 1..Len(p) /\ Releases(p[5], "p_response")
      BY <1>3 DEF Releases
    <3>2. \A i \in (1 + 1)..(5 - 1) : i \in 1..Len(p) /\ i \in {2, 3, 4}
      BY <1>3
    <3>3. \A i \in (1 + 1)..(5 - 1) : ~Stores(p[i], "p_response")
      BY <1>5, <3>2 DEF Pointers
    <3>4. \A i \in (1 + 1)..(5 - 1) : p[i].op \in Branching => p[i].alt \in Frees1["p_response"]
      BY <1>1, <1>6, <3>2
    <3> QED BY <3>1, <3>3, <3>4 DEF FreesAfter
  <2>2. FreesAfter(p, 3, "mccmnc", Frees1["mccmnc"])
    <3>1. 7 \in (3 + 1)..Len(p) /\ 7 \in 1..Len(p) /\ Releases(p[7], "mccmnc")
      BY <1>3 DEF Releases
    <3>2. \A i \in (3 + 1)..(7 - 1) : i \in 1..Len(p) /\ i \in {4, 5, 6}
      BY <1>3
    <3>3. \A i \in (3 + 1)..(7 - 1) : ~Stores(p[i], "mccmnc")
      BY <1>5, <3>2 DEF Pointers
    <3>4. \A i \in (3 + 1)..(7 - 1) : p[i].op \in Branching => p[i].alt \in Frees1["mccmnc"]
      BY <1>1, <1>6, <3>2
    <3> QED BY <3>1, <3>3, <3>4 DEF FreesAfter
  <2>3. FreesAfter(p, 8, "p_response3", Frees1["p_response3"])
    <3>1. 11 \in (8 + 1)..Len(p) /\ 11 \in 1..Len(p) /\ Releases(p[11], "p_response3")
      BY <1>3 DEF Releases
    <3>2. \A i \in (8 + 1)..(11 - 1) : i \in 1..Len(p) /\ i \in {9, 10}
      BY <1>3
    <3>3. \A i \in (8 + 1)..(11 - 1) : ~Stores(p[i], "p_response3")
      BY <1>5, <3>2 DEF Pointers
    <3>4. \A i \in (8 + 1)..(11 - 1) : p[i].op \in Branching => p[i].alt \in Frees1["p_response3"]
      BY <1>1, <1>6, <3>2
    <3> QED BY <3>1, <3>3, <3>4 DEF FreesAfter
  <2>4. \A i \in 1..Len(p) : p[i].op \in Branching => p[i].alt \in Returns1
    BY <1>1, <1>6
  <2>5. p[1].alt \in Frees1["p_response"] /\ p[8].alt \in Frees1["p_response3"]
    BY <1>1, <1>3
  <2>6. p[3].op # "send"
    BY <1>3
  <2>7. \A i \in 1..Len(p) : \A v \in Pointers : Stores(p[i], v) =>
          FreesAfter(p, i, v, Frees1[v]) /\ (p[i].op = "send" => p[i].alt \in Frees1[v])
    BY <1>5, <2>1, <2>2, <2>3, <2>4, <2>5, <2>6
  <2> QED BY <1>2, <2>4, <2>7 DEF Returns2, Returns
<1>9. Permitted(p, kind)
  BY <1>3, <1>4 DEF Permitted, SpecialOps
<1> QED BY <1>2, <1>7, <1>8, <1>9 DEF p

\* requestRegistrationStateEVDO.
LEMMA RegistrationHandler ==
    ASSUME NEW e \in Sound1,
           e \in Frees1["p_response"],
           e \in Frees1["p_response2"],
           e \in Frees1["p_response3"],
           e \in Frees1["p_response4"],
           NEW kind
    PROVE  LET p == <<Send("p_response", e), Parse("p_response", e),
                      Send("p_response2", e), Parse("p_response2", e),
                      Send("p_response3", e), Parse("p_response3", e),
                      Send("p_response4", e), Parse("p_response4", e),
                      Complete("SUCCESS", {"p_response", "p_response3", "p_response4"}),
                      Free("p_response"), Free("p_response2"), Free("p_response3"),
                      Free("p_response4")>>
           IN  p \in Sound2 /\ Permitted(p, kind)
<1> DEFINE p == <<Send("p_response", e), Parse("p_response", e),
                  Send("p_response2", e), Parse("p_response2", e),
                  Send("p_response3", e), Parse("p_response3", e),
                  Send("p_response4", e), Parse("p_response4", e),
                  Complete("SUCCESS", {"p_response", "p_response3", "p_response4"}),
                  Free("p_response"), Free("p_response2"), Free("p_response3"),
                  Free("p_response4")>>
<1>1. e \in Programs1 /\ e \in Completing1 /\ e \in Returns1 /\ e \in Tidy1 /\ StoredFirst(e, {})
  BY DEF Sound1, Sound, Completing1, Completing
<1>2. p \in Programs2
  BY <1>1 DEF Programs2, Plain, Branch, Send, Parse, Complete, Free, Codes, Pointers
<1>3. /\ Len(p) = 13
      /\ p[1].op = "send" /\ p[1].v = "p_response" /\ p[1].alt = e
      /\ p[2].op = "parse" /\ p[2].v = "p_response" /\ p[2].alt = e
      /\ p[3].op = "send" /\ p[3].v = "p_response2" /\ p[3].alt = e
      /\ p[4].op = "parse" /\ p[4].v = "p_response2" /\ p[4].alt = e
      /\ p[5].op = "send" /\ p[5].v = "p_response3" /\ p[5].alt = e
      /\ p[6].op = "parse" /\ p[6].v = "p_response3" /\ p[6].alt = e
      /\ p[7].op = "send" /\ p[7].v = "p_response4" /\ p[7].alt = e
      /\ p[8].op = "parse" /\ p[8].v = "p_response4" /\ p[8].alt = e
      /\ p[9].op = "complete" /\ p[9].uses = {"p_response", "p_response3", "p_response4"}
      /\ p[10].op = "free" /\ p[10].v = "p_response"
      /\ p[11].op = "free" /\ p[11].v = "p_response2"
      /\ p[12].op = "free" /\ p[12].v = "p_response3"
      /\ p[13].op = "free" /\ p[13].v = "p_response4"
  BY DEF Send, Parse, Complete, Free
<1> HIDE DEF p
<1>4. \A i \in 1..Len(p) : i \in {1, 2, 3, 4, 5, 6, 7, 8, 9, 10, 11, 12, 13}
  BY <1>3
<1>5. \A i \in 1..Len(p) : \A v \in Pointers :
        /\ Stores(p[i], v) <=> (i = 1 /\ v = "p_response") \/ (i = 3 /\ v = "p_response2")
            \/ (i = 5 /\ v = "p_response3") \/ (i = 7 /\ v = "p_response4")
        /\ Reads(p[i], v) <=> (i = 2 /\ v = "p_response") \/ (i = 4 /\ v = "p_response2")
            \/ (i = 6 /\ v = "p_response3") \/ (i = 8 /\ v = "p_response4")
            \/ (i = 9 /\ v = "p_response") \/ (i = 9 /\ v = "p_response3")
            \/ (i = 9 /\ v = "p_response4")
        /\ Releases(p[i], v) <=> (i = 10 /\ v = "p_response")
            \/ (i = 11 /\ v = "p_response2") \/ (i = 12 /\ v = "p_response3")
            \/ (i = 13 /\ v = "p_response4")
  BY <1>3, <1>4 DEF Stores, Reads, Releases
<1>6. \A i \in 1..Len(p) : p[i].op \in Branching =>
        (i \in {1, 2, 3, 4, 5, 6, 7, 8} /\ p[i].alt = e)
  BY <1>3, <1>4 DEF Branching
<1>7. p \in Completing2
  <2>1. 9 \in 1..Len(p) /\ \A i \in 1..Len(p) : p[i].op = "complete" <=> i = 9
    BY <1>3, <1>4
  <2>2. \A i \in 1..Len(p) : p[i].op \in Branching => i < 9 /\ p[i].alt \in Completing1
    BY <1>1, <1>6
  <2> QED BY <1>2, <2>1, <2>2 DEF Completing2, Completing
<1>8. p \in Returns2
  <2>1. FreesAfter(p, 1, "p_response", Frees1["p_response"])
    <3>1. 10 \in (1 + 1)..Len(p) /\ 10 \in 1..Len(p) /\ Releases(p[10], "p_response")
      BY <1>3 DEF Releases
    <3>2. \A i \in (1 + 1)..(10 - 1) : i \in 1..Len(p) /\ i \in {2, 3, 4, 5, 6, 7, 8, 9}
      BY <1>3
    <3>3. \A i \in (1 + 1)..(10 - 1) : ~Stores(p[i], "p_response")
      BY <1>5, <3>2 DEF Pointers
    <3>4. \A i \in (1 + 1)..(10 - 1) : p[i].op \in Branching => p[i].alt \in Frees1["p_response"]
      BY <1>1, <1>6, <3>2
    <3> QED BY <3>1, <3>3, <3>4 DEF FreesAfter
  <2>2. FreesAfter(p, 3, "p_response2", Frees1["p_response2"])
    <3>1. 11 \in (3 + 1)..Len(p) /\ 11 \in 1..Len(p) /\ Releases(p[11], "p_response2")
      BY <1>3 DEF Releases
    <3>2. \A i \in (3 + 1)..(11 - 1) : i \in 1..Len(p) /\ i \in {4, 5, 6, 7, 8, 9, 10}
      BY <1>3
    <3>3. \A i \in (3 + 1)..(11 - 1) : ~Stores(p[i], "p_response2")
      BY <1>5, <3>2 DEF Pointers
    <3>4. \A i \in (3 + 1)..(11 - 1) : p[i].op \in Branching => p[i].alt \in Frees1["p_response2"]
      BY <1>1, <1>6, <3>2
    <3> QED BY <3>1, <3>3, <3>4 DEF FreesAfter
  <2>3. FreesAfter(p, 5, "p_response3", Frees1["p_response3"])
    <3>1. 12 \in (5 + 1)..Len(p) /\ 12 \in 1..Len(p) /\ Releases(p[12], "p_response3")
      BY <1>3 DEF Releases
    <3>2. \A i \in (5 + 1)..(12 - 1) : i \in 1..Len(p) /\ i \in {6, 7, 8, 9, 10, 11}
      BY <1>3
    <3>3. \A i \in (5 + 1)..(12 - 1) : ~Stores(p[i], "p_response3")
      BY <1>5, <3>2 DEF Pointers
    <3>4. \A i \in (5 + 1)..(12 - 1) : p[i].op \in Branching => p[i].alt \in Frees1["p_response3"]
      BY <1>1, <1>6, <3>2
    <3> QED BY <3>1, <3>3, <3>4 DEF FreesAfter
  <2>4. FreesAfter(p, 7, "p_response4", Frees1["p_response4"])
    <3>1. 13 \in (7 + 1)..Len(p) /\ 13 \in 1..Len(p) /\ Releases(p[13], "p_response4")
      BY <1>3 DEF Releases
    <3>2. \A i \in (7 + 1)..(13 - 1) : i \in 1..Len(p) /\ i \in {8, 9, 10, 11, 12}
      BY <1>3
    <3>3. \A i \in (7 + 1)..(13 - 1) : ~Stores(p[i], "p_response4")
      BY <1>5, <3>2 DEF Pointers
    <3>4. \A i \in (7 + 1)..(13 - 1) : p[i].op \in Branching => p[i].alt \in Frees1["p_response4"]
      BY <1>1, <1>6, <3>2
    <3> QED BY <3>1, <3>3, <3>4 DEF FreesAfter
  <2>5. \A i \in 1..Len(p) : p[i].op \in Branching => p[i].alt \in Returns1
    BY <1>1, <1>6
  <2>6. p[1].alt \in Frees1["p_response"] /\ p[3].alt \in Frees1["p_response2"] /\ p[5].alt \in Frees1["p_response3"] /\ p[7].alt \in Frees1["p_response4"]
    BY <1>1, <1>3
  <2>7. \A i \in 1..Len(p) : \A v \in Pointers : Stores(p[i], v) =>
          FreesAfter(p, i, v, Frees1[v]) /\ (p[i].op = "send" => p[i].alt \in Frees1[v])
    BY <1>5, <2>1, <2>2, <2>3, <2>4, <2>5, <2>6
  <2> QED BY <1>2, <2>5, <2>7 DEF Returns2, Returns
<1>9. p \in Tidy2
  <2>1. \A i \in 1..Len(p) : p[i].op \in Branching =>
          p[i].alt \in Tidy1 /\ StoredFirst(p[i].alt, {})
    BY <1>1, <1>6
  <2>2. \A i \in 1..Len(p) : \A j \in (i + 1)..Len(p) : j \in 1..Len(p) /\ i < j
    BY <1>3
  <2>3. \A i \in 1..Len(p) : \A v \in Pointers : Releases(p[i], v) =>
          \A j \in (i + 1)..Len(p) : ~Reads(p[j], v) /\ ~Releases(p[j], v) /\ p[j].op \notin Branching
    BY <1>5, <1>6, <2>2
  <2>4. \A i \in 1..Len(p) : p[i].op # "sprintf"
    BY <1>3, <1>4
  <2> QED BY <1>2, <2>1, <2>3, <2>4 DEF Tidy2, Tidy
<1>10. StoredFirst(p, {})
  <2>1. \A i \in 1..Len(p) : \A v \in Pointers : Reads(p[i], v) =>
          (v = "p_response" /\ 1 \in 1..(i - 1) /\ Stores(p[1], v))
          \/ (v = "p_response2" /\ 3 \in 1..(i - 1) /\ Stores(p[3], v))
          \/ (v = "p_response3" /\ 5 \in 1..(i - 1) /\ Stores(p[5], v))
          \/ (v = "p_response4" /\ 7 \in 1..(i - 1) /\ Stores(p[7], v))
    BY <1>3, <1>5
  <2> QED BY <2>1 DEF StoredFirst
<1>11. Permitted(p, kind)
  BY <1>3, <1>4 DEF Permitted, SpecialOps
<1> QED BY <1>2, <1>7, <1>8, <1>9, <1>10, <1>11 DEF Sound2, Sound, p

\* requestBasebandVersion.
LEMMA BasebandHandler ==
    ASSUME NEW kind
    PROVE  LET p == <<Send("p_response", <<Fail>>), Parse("p_response", <<Fail>>),
                      Send("p_response", <<Fail>>), Parse("p_response", <<Fail>>),
                      Send("p_response", <<Fail>>), Parse("p_response", <<Fail>>),
                      Complete("SUCCESS", {"p_response"})>>
           IN  p \in Programs2 /\ p \in Completing2 /\ p \in Tidy2 /\ StoredFirst(p, {})
               /\ Permitted(p, kind)
<1> DEFINE p == <<Send("p_response", <<Fail>>), Parse("p_response", <<Fail>>),
                  Send("p_response", <<Fail>>), Parse("p_response", <<Fail>>),
                  Send("p_response", <<Fail>>), Parse("p_response", <<Fail>>),
                  Complete("SUCCESS", {"p_response"})>>
<1>1. /\ <<Fail>> \in Programs1 /\ <<Fail>> \in Completing1 /\ <<Fail>> \in Returns1
      /\ <<Fail>> \in Tidy1 /\ StoredFirst(<<Fail>>, {})
  BY ErrorsFree DEF Sound1, Sound, Completing1, Completing
<1>2. p \in Programs2
  BY <1>1 DEF Programs2, Plain, Branch, Send, Parse, Complete, Codes, Pointers
<1>3. /\ Len(p) = 7
      /\ p[1].op = "send" /\ p[1].v = "p_response" /\ p[1].alt = <<Fail>>
      /\ p[2].op = "parse" /\ p[2].v = "p_response" /\ p[2].alt = <<Fail>>
      /\ p[3].op = "send" /\ p[3].v = "p_response" /\ p[3].alt = <<Fail>>
      /\ p[4].op = "parse" /\ p[4].v = "p_response" /\ p[4].alt = <<Fail>>
      /\ p[5].op = "send" /\ p[5].v = "p_response" /\ p[5].alt = <<Fail>>
      /\ p[6].op = "parse" /\ p[6].v = "p_response" /\ p[6].alt = <<Fail>>
      /\ p[7].op = "complete" /\ p[7].uses = {"p_response"}
  BY DEF Send, Parse, Complete
<1> HIDE DEF p
<1>4. \A i \in 1..Len(p) : i \in {1, 2, 3, 4, 5, 6, 7}
  BY <1>3
<1>5. \A i \in 1..Len(p) : \A v \in Pointers :
        /\ Stores(p[i], v) <=> (i = 1 /\ v = "p_response") \/ (i = 3 /\ v = "p_response")
            \/ (i = 5 /\ v = "p_response")
        /\ Reads(p[i], v) <=> (i = 2 /\ v = "p_response") \/ (i = 4 /\ v = "p_response")
            \/ (i = 6 /\ v = "p_response") \/ (i = 7 /\ v = "p_response")
        /\ ~Releases(p[i], v)
  BY <1>3, <1>4 DEF Stores, Reads, Releases
<1>6. \A i \in 1..Len(p) : p[i].op \in Branching =>
        (i \in {1, 2, 3, 4, 5, 6} /\ p[i].alt = <<Fail>>)
  BY <1>3, <1>4 DEF Branching
<1>7. p \in Completing2
  <2>1. 7 \in 1..Len(p) /\ \A i \in 1..Len(p) : p[i].op = "complete" <=> i = 7
    BY <1>3, <1>4
  <2>2. \A i \in 1..Len(p) : p[i].op \in Branching => i < 7 /\ p[i].alt \in Completing1
    BY <1>1, <1>6
  <2> QED BY <1>2, <2>1, <2>2 DEF Completing2, Completing
<1>8. p \in Tidy2
  <2>1. \A i \in 1..Len(p) : p[i].op \in Branching =>
          p[i].alt \in Tidy1 /\ StoredFirst(p[i].alt, {})
    BY <1>1, <1>6
  <2>2. \A i \in 1..Len(p) : \A j \in (i + 1)..Len(p) : j \in 1..Len(p) /\ i < j
    BY <1>3
  <2>3. \A i \in 1..Len(p) : \A v \in Pointers : Releases(p[i], v) =>
          \A j \in (i + 1)..Len(p) : ~Reads(p[j], v) /\ ~Releases(p[j], v) /\ p[j].op \notin Branching
    BY <1>5, <1>6, <2>2
  <2>4. \A i \in 1..Len(p) : p[i].op # "sprintf"
    BY <1>3, <1>4
  <2> QED BY <1>2, <2>1, <2>3, <2>4 DEF Tidy2, Tidy
<1>9. StoredFirst(p, {})
  <2>1. \A i \in 1..Len(p) : \A v \in Pointers : Reads(p[i], v) =>
          (v = "p_response" /\ 1 \in 1..(i - 1) /\ Stores(p[1], v))
    BY <1>3, <1>5
  <2> QED BY <2>1 DEF StoredFirst
<1>10. Permitted(p, kind)
  BY <1>3, <1>4 DEF Permitted, SpecialOps
<1> QED BY <1>2, <1>7, <1>8, <1>9, <1>10 DEF p

\* requestGetCurrentCallsEVDO.
LEMMA CurrentCallsHandler ==
    ASSUME NEW kind
    PROVE  LET p == <<Send("p_response", <<Fail>>),
                      Complete("SUCCESS", {"p_response"}), Free("p_response")>>
           IN  p \in Programs2 /\ p \in Completing2 /\ p \in Tidy2 /\ StoredFirst(p, {})
               /\ Permitted(p, kind)
<1> DEFINE p == <<Send("p_response", <<Fail>>), Complete("SUCCESS", {"p_response"}),
                  Free("p_response")>>
<1>1. /\ <<Fail>> \in Programs1 /\ <<Fail>> \in Completing1 /\ <<Fail>> \in Returns1
      /\ <<Fail>> \in Tidy1 /\ StoredFirst(<<Fail>>, {})
  BY ErrorsFree DEF Sound1, Sound, Completing1, Completing
<1>2. p \in Programs2
  BY <1>1 DEF Programs2, Plain, Branch, Send, Complete, Free, Codes, Pointers
<1>3. /\ Len(p) = 3
      /\ p[1].op = "send" /\ p[1].v = "p_response" /\ p[1].alt = <<Fail>>
      /\ p[2].op = "complete" /\ p[2].uses = {"p_response"}
      /\ p[3].op = "free" /\ p[3].v = "p_response"
  BY DEF Send, Complete, Free
<1> HIDE DEF p
<1>4. \A i \in 1..Len(p) : i \in {1, 2, 3}
  BY <1>3
<1>5. \A i \in 1..Len(p) : \A v \in Pointers :
        /\ Stores(p[i], v) <=> (i = 1 /\ v = "p_response")
        /\ Reads(p[i], v) <=> (i = 2 /\ v = "p_response")
        /\ Releases(p[i], v) <=> (i = 3 /\ v = "p_response")
  BY <1>3, <1>4 DEF Stores, Reads, Releases
<1>6. \A i \in 1..Len(p) : p[i].op \in Branching =>
        (i \in {1} /\ p[i].alt = <<Fail>>)
  BY <1>3, <1>4 DEF Branching
<1>7. p \in Completing2
  <2>1. 2 \in 1..Len(p) /\ \A i \in 1..Len(p) : p[i].op = "complete" <=> i = 2
    BY <1>3, <1>4
  <2>2. \A i \in 1..Len(p) : p[i].op \in Branching => i < 2 /\ p[i].alt \in Completing1
    BY <1>1, <1>6
  <2> QED BY <1>2, <2>1, <2>2 DEF Completing2, Completing
<1>8. p \in Tidy2
  <2>1. \A i \in 1..Len(p) : p[i].op \in Branching =>
          p[i].alt \in Tidy1 /\ StoredFirst(p[i].alt, {})
    BY <1>1, <1>6
  <2>2. \A i \in 1..Len(p) : \A j \in (i + 1)..Len(p) : j \in 1..Len(p) /\ i < j
    BY <1>3
  <2>3. \A i \in 1..Len(p) : \A v \in Pointers : Releases(p[i], v) =>
          \A j \in (i + 1)..Len(p) : ~Reads(p[j], v) /\ ~Releases(p[j], v) /\ p[j].op \notin Branching
    BY <1>5, <1>6, <2>2
  <2>4. \A i \in 1..Len(p) : p[i].op # "sprintf"
    BY <1>3, <1>4
  <2> QED BY <1>2, <2>1, <2>3, <2>4 DEF Tidy2, Tidy
<1>9. StoredFirst(p, {})
  <2>1. \A i \in 1..Len(p) : \A v \in Pointers : Reads(p[i], v) =>
          (v = "p_response" /\ 1 \in 1..(i - 1) /\ Stores(p[1], v))
    BY <1>3, <1>5
  <2> QED BY <2>1 DEF StoredFirst
<1>10. Permitted(p, kind)
  BY <1>3, <1>4 DEF Permitted, SpecialOps
<1> QED BY <1>2, <1>7, <1>8, <1>9, <1>10 DEF p

\* The error label of requestSignalStrength, after a failed command.
LEMMA SignalError ==
    LET p == <<Fail, Fail, Free("p_response")>>
    IN  p \in Programs0 /\ p \in Returns0 /\ p \in Tidy0 /\ StoredFirst(p, {})
        /\ p \in Frees0["p_response"]
<1> DEFINE p == <<Fail, Fail, Free("p_response")>>
<1>2. p \in Programs0
  BY DEF Programs0, Plain, Complete, Fail, Free, Codes, Pointers
<1>3. /\ Len(p) = 3
      /\ p[1].op = "complete" /\ p[1].uses = {}
      /\ p[2].op = "complete" /\ p[2].uses = {}
      /\ p[3].op = "free" /\ p[3].v = "p_response"
  BY DEF Complete, Fail, Free
<1> HIDE DEF p
<1>4. \A i \in 1..Len(p) : i \in {1, 2, 3}
  BY <1>3
<1>5. \A i \in 1..Len(p) : \A v \in Pointers :
        /\ ~Stores(p[i], v)
        /\ ~Reads(p[i], v)
        /\ Releases(p[i], v) <=> (i = 3 /\ v = "p_response")
  BY <1>3, <1>4 DEF Stores, Reads, Releases
<1>6. \A i \in 1..Len(p) : p[i].op \notin Branching
  BY <1>3, <1>4 DEF Branching
<1>7. p \in Returns0
  <2>1. \A i \in 1..Len(p) : p[i].op \in Branching => p[i].alt \in {}
    BY <1>6
  <2> QED BY <1>2, <1>5, <2>1 DEF Returns0, Returns
<1>8. p \in Tidy0
  <2>1. \A i \in 1..Len(p) : p[i].op \in Branching =>
          p[i].alt \in {} /\ StoredFirst(p[i].alt, {})
    BY <1>6
  <2>2. \A i \in 1..Len(p) : \A j \in (i + 1)..Len(p) : j \in 1..Len(p) /\ i < j
    BY <1>3
  <2>3. \A i \in 1..Len(p) : \A v \in Pointers : Releases(p[i], v) =>
          \A j \in (i + 1)..Len(p) : ~Reads(p[j], v) /\ ~Releases(p[j], v) /\ p[j].op \notin Branching
    BY <1>5, <1>6, <2>2
  <2>4. \A i \in 1..Len(p) : p[i].op # "sprintf"
    BY <1>3, <1>4
  <2> QED BY <1>2, <2>1, <2>3, <2>4 DEF Tidy0, Tidy
<1>9. StoredFirst(p, {})
  BY <1>5 DEF StoredFirst
<1>10. p \in Frees0["p_response"]
  <2>1. FreesAfter(p, 0, "p_response", {})
    <3>1. 3 \in (0 + 1)..Len(p) /\ 3 \in 1..Len(p) /\ Releases(p[3], "p_response")
      BY <1>3 DEF Releases
    <3>2. \A i \in (0 + 1)..(3 - 1) : i \in 1..Len(p) /\ i \in {1, 2}
      BY <1>3
    <3>3. \A i \in (0 + 1)..(3 - 1) : ~Stores(p[i], "p_response")
      BY <1>5, <3>2 DEF Pointers
    <3>4. \A i \in (0 + 1)..(3 - 1) : p[i].op \in Branching => p[i].alt \in {}
      BY <1>6, <3>2
    <3> QED BY <3>1, <3>3, <3>4 DEF FreesAfter
  <2> QED BY <1>2, <2>1 DEF Frees0, Frees, Pointers
<1> QED BY <1>2, <1>7, <1>8, <1>9, <1>10 DEF p

\* requestSignalStrength.
LEMMA SignalHandler ==
    ASSUME NEW e \in Returns1 \cap Tidy1,
           NEW d \in Returns1 \cap Tidy1,
           e \in Frees1["p_response"],
           d \in Frees1["p_response"],
           StoredFirst(e, {}),
           StoredFirst(d, {}),
           NEW kind
    PROVE  LET p == <<Send("p_response", d), Parse("p_response", e), Succeed,
                      Free("p_response")>>
           IN  p \in Programs2 /\ p \in Returns2 /\ p \in Tidy2 /\ StoredFirst(p, {})
               /\ Permitted(p, kind)
<1> DEFINE p == <<Send("p_response", d), Parse("p_response", e), Succeed,
                  Free("p_response")>>
<1>1. /\ e \in Programs1 /\ e \in Returns1 /\ e \in Tidy1
      /\ d \in Programs1 /\ d \in Returns1 /\ d \in Tidy1
  BY DEF Returns1, Returns
<1>2. p \in Programs2
  BY <1>1 DEF Programs2, Plain, Branch, Send, Parse, Complete, Succeed, Free, Codes, Pointers
<1>3. /\ Len(p) = 4
      /\ p[1].op = "send" /\ p[1].v = "p_response" /\ p[1].alt = d
      /\ p[2].op = "parse" /\ p[2].v = "p_response" /\ p[2].alt = e
      /\ p[3].op = "complete" /\ p[3].uses = {}
      /\ p[4].op = "free" /\ p[4].v = "p_response"
  BY DEF Send, Parse, Complete, Succeed, Free
<1> HIDE DEF p
<1>4. \A i \in 1..Len(p) : i \in {1, 2, 3, 4}
  BY <1>3
<1>5. \A i \in 1..Len(p) : \A v \in Pointers :
        /\ Stores(p[i], v) <=> (i = 1 /\ v = "p_response")
        /\ Reads(p[i], v) <=> (i = 2 /\ v = "p_response")
        /\ Releases(p[i], v) <=> (i = 4 /\ v = "p_response")
  BY <1>3, <1>4 DEF Stores, Reads, Releases
<1>6. \A i \in 1..Len(p) : p[i].op \in Branching =>
        (i \in {1} /\ p[i].alt = d) \/ (i \in {2} /\ p[i].alt = e)
  BY <1>3, <1>4 DEF Branching
<1>7. p \in Returns2
  <2>1. FreesAfter(p, 1, "p_response", Frees1["p_response"])
    <3>1. 4 \in (1 + 1)..Len(p) /\ 4 \in 1..Len(p) /\ Releases(p[4], "p_response")
      BY <1>3 DEF Releases
    <3>2. \A i \in (1 + 1)..(4 - 1) : i \in 1..Len(p) /\ i \in {2, 3}
      BY <1>3
    <3>3. \A i \in (1 + 1)..(4 - 1) : ~Stores(p[i], "p_response")
      BY <1>5, <3>2 DEF Pointers
    <3>4. \A i \in (1 + 1)..(4 - 1) : p[i].op \in Branching => p[i].alt \in Frees1["p_response"]
      BY <1>1, <1>6, <3>2
    <3> QED BY <3>1, <3>3, <3>4 DEF FreesAfter
  <2>2. \A i \in 1..Len(p) : p[i].op \in Branching => p[i].alt \in Returns1
    BY <1>1, <1>6
  <2>3. p[1].alt \in Frees1["p_response"]
    BY <1>1, <1>3
  <2>4. \A i \in 1..Len(p) : \A v \in Pointers : Stores(p[i], v) =>
          FreesAfter(p, i, v, Frees1[v]) /\ (p[i].op = "send" => p[i].alt \in Frees1[v])
    BY <1>5, <2>1, <2>2, <2>3
  <2> QED BY <1>2, <2>2, <2>4 DEF Returns2, Returns
<1>8. p \in Tidy2
  <2>1. \A i \in 1..Len(p) : p[i].op \in Branching =>
          p[i].alt \in Tidy1 /\ StoredFirst(p[i].alt, {})
    BY <1>1, <1>6
  <2>2. \A i \in 1..Len(p) : \A j \in (i + 1)..Len(p) : j \in 1..Len(p) /\ i < j
    BY <1>3
  <2>3. \A i \in 1..Len(p) : \A v \in Pointers : Releases(p[i], v) =>
          \A j \in (i + 1)..Len(p) : ~Reads(p[j], v) /\ ~Releases(p[j], v) /\ p[j].op \notin Branching
    BY <1>5, <1>6, <2>2
  <2>4. \A i \in 1..Len(p) : p[i].op # "sprintf"
    BY <1>3, <1>4
  <2> QED BY <1>2, <2>1, <2>3, <2>4 DEF Tidy2, Tidy
<1>9. StoredFirst(p, {})
  <2>1. \A i \in 1..Len(p) : \A v \in Pointers : Reads(p[i], v) =>
          (v = "p_response" /\ 1 \in 1..(i - 1) /\ Stores(p[1], v))
    BY <1>3, <1>5
  <2> QED BY <2>1 DEF StoredFirst
<1>10. Permitted(p, kind)
  BY <1>3, <1>4 DEF Permitted, SpecialOps
<1> QED BY <1>2, <1>7, <1>8, <1>9, <1>10 DEF p

\* requestSMSAcknowledge.
LEMMA AcknowledgeHandler ==
    ASSUME NEW kind
    PROVE  LET p == <<Tell, Succeed, Fail>>
           IN  p \in Programs2 /\ p \in Returns2 /\ p \in Tidy2 /\ StoredFirst(p, {})
               /\ Permitted(p, kind)
<1> DEFINE p == <<Tell, Succeed, Fail>>
<1>2. p \in Programs2
  BY DEF Programs2, Plain, Branch, Tell, Complete, Succeed, Fail, Codes, Pointers
<1>3. /\ Len(p) = 3
      /\ p[1].op = "tell"
      /\ p[2].op = "complete" /\ p[2].uses = {}
      /\ p[3].op = "complete" /\ p[3].uses = {}
  BY DEF Tell, Complete, Succeed, Fail
<1> HIDE DEF p
<1>4. \A i \in 1..Len(p) : i \in {1, 2, 3}
  BY <1>3
<1>5. \A i \in 1..Len(p) : \A v \in Pointers :
        /\ ~Stores(p[i], v)
        /\ ~Reads(p[i], v)
        /\ ~Releases(p[i], v)
  BY <1>3, <1>4 DEF Stores, Reads, Releases
<1>6. \A i \in 1..Len(p) : p[i].op \in Branching =>
        FALSE
  BY <1>3, <1>4 DEF Branching
<1>7. p \in Returns2
  <2>1. \A i \in 1..Len(p) : p[i].op \in Branching => p[i].alt \in Returns1
    BY <1>6
  <2> QED BY <1>2, <1>5, <2>1 DEF Returns2, Returns
<1>8. p \in Tidy2
  <2>1. \A i \in 1..Len(p) : p[i].op \in Branching =>
          p[i].alt \in Tidy1 /\ StoredFirst(p[i].alt, {})
    BY <1>6
  <2>2. \A i \in 1..Len(p) : \A j \in (i + 1)..Len(p) : j \in 1..Len(p) /\ i < j
    BY <1>3
  <2>3. \A i \in 1..Len(p) : \A v \in Pointers : Releases(p[i], v) =>
          \A j \in (i + 1)..Len(p) : ~Reads(p[j], v) /\ ~Releases(p[j], v) /\ p[j].op \notin Branching
    BY <1>5, <1>6, <2>2
  <2>4. \A i \in 1..Len(p) : p[i].op # "sprintf"
    BY <1>3, <1>4
  <2> QED BY <1>2, <2>1, <2>3, <2>4 DEF Tidy2, Tidy
<1>9. StoredFirst(p, {})
  BY <1>5 DEF StoredFirst
<1>10. Permitted(p, kind)
  BY <1>3, <1>4 DEF Permitted, SpecialOps
<1> QED BY <1>2, <1>7, <1>8, <1>9, <1>10 DEF p

\* requestDataCallList.
LEMMA CallListHandler ==
    ASSUME NEW kind
    PROVE  LET p == <<Succeed, Fail>>
           IN  p \in Programs2 /\ p \in Returns2 /\ p \in Tidy2 /\ StoredFirst(p, {})
               /\ Permitted(p, kind)
<1> DEFINE p == <<Succeed, Fail>>
<1>2. p \in Programs2
  BY DEF Programs2, Plain, Branch, Complete, Succeed, Fail, Codes, Pointers
<1>3. /\ Len(p) = 2
      /\ p[1].op = "complete" /\ p[1].uses = {}
      /\ p[2].op = "complete" /\ p[2].uses = {}
  BY DEF Complete, Succeed, Fail
<1> HIDE DEF p
<1>4. \A i \in 1..Len(p) : i \in {1, 2}
  BY <1>3
<1>5. \A i \in 1..Len(p) : \A v \in Pointers :
        /\ ~Stores(p[i], v)
        /\ ~Reads(p[i], v)
        /\ ~Releases(p[i], v)
  BY <1>3, <1>4 DEF Stores, Reads, Releases
<1>6. \A i \in 1..Len(p) : p[i].op \in Branching =>
        FALSE
  BY <1>3, <1>4 DEF Branching
<1>7. p \in Returns2
  <2>1. \A i \in 1..Len(p) : p[i].op \in Branching => p[i].alt \in Returns1
    BY <1>6
  <2> QED BY <1>2, <1>5, <2>1 DEF Returns2, Returns
<1>8. p \in Tidy2
  <2>1. \A i \in 1..Len(p) : p[i].op \in Branching =>
          p[i].alt \in Tidy1 /\ StoredFirst(p[i].alt, {})
    BY <1>6
  <2>2. \A i \in 1..Len(p) : \A j \in (i + 1)..Len(p) : j \in 1..Len(p) /\ i < j
    BY <1>3
  <2>3. \A i \in 1..Len(p) : \A v \in Pointers : Releases(p[i], v) =>
          \A j \in (i + 1)..Len(p) : ~Reads(p[j], v) /\ ~Releases(p[j], v) /\ p[j].op \notin Branching
    BY <1>5, <1>6, <2>2
  <2>4. \A i \in 1..Len(p) : p[i].op # "sprintf"
    BY <1>3, <1>4
  <2> QED BY <1>2, <2>1, <2>3, <2>4 DEF Tidy2, Tidy
<1>9. StoredFirst(p, {})
  BY <1>5 DEF StoredFirst
<1>10. Permitted(p, kind)
  BY <1>3, <1>4 DEF Permitted, SpecialOps
<1> QED BY <1>2, <1>7, <1>8, <1>9, <1>10 DEF p

---------------------------------------------------------------------------
(* Every handler is well formed, up to the exceptions its kind makes.      *)

WellFormed(p, kind) ==
    /\ p \in Programs2 /\ Permitted(p, kind)
    /\ kind \notin TwoKinds => p \in Completing2
    /\ kind \notin LeakingKinds => p \in Returns2
    /\ kind \notin DanglingKinds => p \in Tidy2 /\ StoredFirst(p, {})

\* A sound handler without special instructions is well formed for every kind.
LEMMA SoundIsWellFormed ==
    ASSUME NEW p \in Sound2, NEW kind, Permitted(p, kind)
    PROVE  WellFormed(p, kind)
BY DEF WellFormed, Sound2, Sound, Completing2, Completing

\* Handlers without a response.
LEMMA SimpleHandlers ==
    ASSUME NEW kind
    PROVE  /\ WellFormed(requestDial, kind) /\ WellFormed(requestHangup, kind)
           /\ WellFormed(CallControl, kind) /\ WellFormed(RIL_REQUEST_DTMF, kind)
           /\ WellFormed(SetNetworkSelection, kind)
           /\ \A party : WellFormed(RIL_REQUEST_SEPARATE_CONNECTION(party), kind)
           /\ WellFormed(requestSendUSSD, kind) /\ WellFormed(OemHook, kind)
           /\ WellFormed(requestDataCallFailCause, kind) /\ WellFormed(Refused, kind)
           /\ WellFormed(<<Fail>>, kind) /\ WellFormed(getCardStatus, kind)
<1>1. WellFormed(<<Tell, Succeed>>, kind)
  BY TellHandler, SoundIsWellFormed
<1>2. ASSUME NEW code \in Codes PROVE WellFormed(<<Complete(code, {})>>, kind)
  BY AnswerHandler, SoundIsWellFormed
<1>3. /\ WellFormed(<<Succeed>>, kind) /\ WellFormed(<<Fail>>, kind) /\ WellFormed(Refused, kind)
      /\ WellFormed(requestSendUSSD, kind)
  BY <1>2 DEF Codes, Succeed, Fail, Refused, requestSendUSSD
<1>4. WellFormed(getCardStatus, kind)
  BY CardStatusHandler, SoundIsWellFormed DEF getCardStatus
<1> QED BY <1>1, <1>3, <1>4 DEF requestDial, requestHangup, CallControl, RIL_REQUEST_DTMF,
             SetNetworkSelection, RIL_REQUEST_SEPARATE_CONNECTION, OemHook,
             requestDataCallFailCause

\* Handlers with one response.
LEMMA ResponseHandlers ==
    ASSUME NEW kind
    PROVE  /\ WellFormed(requestGetIMEI, kind) /\ WellFormed(requestSIM_IO, kind)
           /\ WellFormed(requestGetPreferredNetworkType, kind)
           /\ WellFormed(requestQueryNetworkSelectionMode, kind)
           /\ WellFormed(requestWriteSmsToSim, kind)
           /\ \A strings : WellFormed(requestEnterSimPin(strings), kind)
           /\ WellFormed(RIL_REQUEST_CANCEL_USSD, kind)
           /\ WellFormed(RIL_REQUEST_DELETE_SMS_ON_SIM, kind)
           /\ WellFormed(requestSendSMSEVDO, kind)
           /\ \A mode : WellFormed(requestSetPreferredNetworkType(mode), kind)
<1> DEFINE e1 == <<Fail, Free("p_response")>>
<1> DEFINE e2 == <<Free("p_response"), Fail>>
<1> DEFINE e3 == <<Complete("PASSWORD_INCORRECT", {}), Free("p_response")>>
<1>1. ASSUME NEW e \in ErrorsFreeing("p_response"), NEW U \in SUBSET {"p_response"}
      PROVE  /\ WellFormed(<<Send("p_response", e), Parse("p_response", e),
                             Complete("SUCCESS", U), Free("p_response")>>, kind)
             /\ WellFormed(<<Send("p_response", e), Complete("SUCCESS", U), Free("p_response")>>, kind)
  BY QueryHandler, CommandHandler, SoundIsWellFormed
<1>2. ASSUME NEW e \in ErrorsFreeing("p_response")
      PROVE  /\ WellFormed(<<Tell, Send("p_response", e), Succeed, Free("p_response")>>, kind)
             /\ WellFormed(<<Try(e), Succeed>>, kind)
  BY SendSMSHandler, TryHandler, SoundIsWellFormed
<1>3. /\ e1 \in ErrorsFreeing("p_response") /\ e2 \in ErrorsFreeing("p_response")
      /\ e3 \in ErrorsFreeing("p_response")
  BY ErrorsFree
<1>4. WellFormed(e1, kind) /\ WellFormed(e3, kind)
  <2>1. e1 \in Sound1 /\ e1 \in Sound2 /\ e3 \in Sound1 /\ e3 \in Sound2
    BY <1>3, SoundNest DEF ErrorsFreeing
  <2>2. e1 \in Programs1 /\ e3 \in Programs1
    BY <2>1 DEF Sound1, Sound, Completing1, Completing
  <2> QED BY <2>1, <2>2, AlternativesPermitted, SoundIsWellFormed
<1>5. {} \in SUBSET {"p_response"} /\ {"p_response"} \in SUBSET {"p_response"}
  OBVIOUS
<1>6. WellFormed(requestGetIMEI, kind) /\ WellFormed(requestSIM_IO, kind)
  BY <1>1, <1>3, <1>5 DEF requestGetIMEI, requestSIM_IO
<1>7. /\ WellFormed(requestGetPreferredNetworkType, kind)
      /\ WellFormed(requestQueryNetworkSelectionMode, kind)
  BY <1>1, <1>3, <1>5 DEF requestGetPreferredNetworkType, requestQueryNetworkSelectionMode, Succeed
<1>8. WellFormed(requestWriteSmsToSim, kind) /\ WellFormed(RIL_REQUEST_DELETE_SMS_ON_SIM, kind)
  BY <1>1, <1>3, <1>5 DEF requestWriteSmsToSim, RIL_REQUEST_DELETE_SMS_ON_SIM, Succeed
<1>9. WellFormed(RIL_REQUEST_CANCEL_USSD, kind)
  BY <1>1, <1>3, <1>5 DEF RIL_REQUEST_CANCEL_USSD
<1>10. ASSUME NEW strings PROVE WellFormed(requestEnterSimPin(strings), kind)
  BY <1>1, <1>3, <1>4, <1>5 DEF requestEnterSimPin, Succeed
<1>11. WellFormed(requestSendSMSEVDO, kind)
  BY <1>2, <1>3 DEF requestSendSMSEVDO
<1>12. ASSUME NEW mode PROVE WellFormed(requestSetPreferredNetworkType(mode), kind)
  BY <1>2, <1>3, <1>4 DEF requestSetPreferredNetworkType
<1> QED BY <1>6, <1>7, <1>8, <1>9, <1>10, <1>11, <1>12

\* requestRadioPower, in each of its cases.
LEMMA PowerHandlers ==
    ASSUME NEW onOff, NEW state
    PROVE  WellFormed(requestRadioPower(onOff, state), "RADIO_POWER")
<1> DEFINE error == <<Free("p_response"), Fail>>
<1> DEFINE done == <<Free("p_response"), Succeed>>
<1> DEFINE out == <<Free("p_response2"), Free("p_response"), Fail>>
<1>1. isRadioOn(error) = <<Send("p_response2", out), Parse("p_response2", out),
                           Free("p_response2"), Free("p_response"), Fail>>
  <2>1. <<Free("p_response2")>> \o error = out
    BY Join1_2
  <2> QED BY <2>1, Join2_3 DEF isRadioOn
<1>2. isRadioOn(error) \in ErrorsFreeing("p_response")
  BY <1>1, PowerError, PowerQuery DEF ErrorsFreeing
<1>3. ASSUME NEW e \in ErrorsFreeing("p_response"), NEW s \in {"OFF", "ON"}
      PROVE  WellFormed(<<Send("p_response", e), SetRadio(s)>> \o done, "RADIO_POWER")
  <2>1. <<Send("p_response", e), SetRadio(s)>> \o done
            = <<Send("p_response", e), SetRadio(s), Free("p_response"), Succeed>>
    BY Join2_2
  <2>2. WellFormed(<<Send("p_response", e), SetRadio(s), Free("p_response"), Succeed>>, "RADIO_POWER")
    BY PowerHandler, SoundIsWellFormed
  <2> QED BY <2>1, <2>2
<1>4. WellFormed(done, "RADIO_POWER")
  <2>1. done \in Sound0
    BY DoneProgram
  <2>2. done \in Sound2 /\ done \in Programs1
    BY <2>1, SoundNest, ProgramsNest DEF Sound0, Sound, Completing0, Completing
  <2> QED BY <2>2, AlternativesPermitted, SoundIsWellFormed
<1>5. error \in ErrorsFreeing("p_response")
  BY ErrorsFree
<1>6. requestRadioPower(onOff, state) \in
        {<<Send("p_response", error), SetRadio("OFF")>> \o done,
         <<Send("p_response", isRadioOn(error)), SetRadio("ON")>> \o done, done}
  BY DEF requestRadioPower
<1> QED BY <1>2, <1>3, <1>4, <1>5, <1>6

\* requestOperator and requestQueryAvailableNetworks.
LEMMA NetworkHandlers ==
    /\ WellFormed(requestOperator, "OPERATOR")
    /\ WellFormed(requestQueryAvailableNetworks, "QUERY_AVAILABLE_NETWORKS")
<1> DEFINE e == <<Free("p_response"), Free("p_response2"), Fail>>
<1> DEFINE d == <<Free("mccmnc"), Free("p_response"), Free("p_response2"), Fail>>
<1> DEFINE g == <<Send("p_response2", d), Free("p_response"), Free("p_response2"), Free("mccmnc"),
                  Succeed>>
<1> DEFINE p == <<Send("p_response", e), Parse("p_response", e), Sprintf("mccmnc"), Either(g),
                  Free("p_response"), Free("p_response2"), Free("mccmnc"),
                  Complete("SUCCESS", {"mccmnc"})>>
<1>1. getNetworkInfo(<<Complete("SUCCESS", {"mccmnc"})>>, <<Succeed>>, <<Fail>>) = p
  <2>1. <<Free("p_response"), Free("p_response2")>> \o <<Fail>> = e
    BY Join2_1
  <2>2. <<Free("mccmnc")>> \o e = d
    BY Join1_3
  <2> DEFINE done == <<Free("p_response"), Free("p_response2"), Free("mccmnc")>>
  <2>3. <<Send("p_response2", d)>> \o done
            = <<Send("p_response2", d), Free("p_response"), Free("p_response2"), Free("mccmnc")>>
    BY Join1_3
  <2>4. <<Send("p_response2", d)>> \o done \o <<Succeed>> = g
    BY <2>3, Join4_1
  <2> DEFINE first == <<Send("p_response", e), Parse("p_response", e), Sprintf("mccmnc"), Either(g)>>
  <2> DEFINE most == <<Send("p_response", e), Parse("p_response", e), Sprintf("mccmnc"), Either(g),
                       Free("p_response"), Free("p_response2"), Free("mccmnc")>>
  <2>5. first \o done = most
    BY Join4_3
  <2>6. most \o <<Complete("SUCCESS", {"mccmnc"})>> = p
    BY Join7_1
  <2>7. getNetworkInfo(<<Complete("SUCCESS", {"mccmnc"})>>, <<Succeed>>, <<Fail>>)
            = first \o done \o <<Complete("SUCCESS", {"mccmnc"})>>
    <3> HIDE DEF e, d, g
    <3> QED BY <2>1, <2>2, <2>4 DEF getNetworkInfo
  <2> HIDE DEF first, done, most
  <2> QED BY <2>5, <2>6, <2>7
<1>2. d \in Completing0 \cap Returns0 /\ e \in Completing0 \cap Returns0 /\ e \in Frees0["p_response"]
  BY NetworkError, NetworkError2 DEF Sound0, Sound
<1>3. g \in Completing1 \cap Returns1 /\ g \in Frees1["p_response"] /\ g \in Frees1["mccmnc"]
  BY <1>2, NetworkError2, NetworkLookup
<1>4. e \in Completing1 \cap Returns1 /\ e \in Frees1["p_response"]
  BY <1>2, CompletingNest, ReturnsNest, FreesNest DEF Pointers
<1> HIDE DEF e, d, g
<1>5. ASSUME NEW kind \in DanglingKinds PROVE WellFormed(p, kind)
  BY <1>3, <1>4, OperatorHandler DEF WellFormed
<1> QED BY <1>1, <1>5 DEF requestOperator, requestQueryAvailableNetworks, DanglingKinds

\* requestGetIMSI, with the second look-up in its error paths.
LEMMA SubscriberHandler == WellFormed(requestGetIMSI, "GET_IMSI")
<1> DEFINE c == <<Fail, Free("p_response3")>>
<1> DEFINE e == <<Free("p_response"), Free("p_response2"), Fail, Free("p_response3")>>
<1> DEFINE d == <<Free("mccmnc"), Free("p_response"), Free("p_response2"), Fail, Free("p_response3")>>
<1> DEFINE rest(uses) == <<Send("p_response3", c), Parse("p_response3", c),
                           Complete("SUCCESS", uses), Free("p_response3")>>
<1> DEFINE g == <<Send("p_response2", d), Free("p_response"), Free("p_response2"), Free("mccmnc"),
                  Send("p_response3", c), Parse("p_response3", c), Succeed, Free("p_response3")>>
<1> DEFINE p == <<Send("p_response", e), Parse("p_response", e), Sprintf("mccmnc"), Either(g),
                  Free("p_response"), Free("p_response2"), Free("mccmnc"),
                  Send("p_response3", c), Parse("p_response3", c),
                  Complete("SUCCESS", {"mccmnc"}), Free("p_response3")>>
<1>1. requestGetIMSI = getNetworkInfo(rest({"mccmnc"}), rest({}), c)
  BY DEF requestGetIMSI
<1>2. getNetworkInfo(rest({"mccmnc"}), rest({}), c) = p
  <2>1. <<Free("p_response"), Free("p_response2")>> \o c = e
    BY Join2_2
  <2>2. <<Free("mccmnc")>> \o e = d
    BY Join1_4
  <2> DEFINE done == <<Free("p_response"), Free("p_response2"), Free("mccmnc")>>
  <2>3. <<Send("p_response2", d)>> \o done
            = <<Send("p_response2", d), Free("p_response"), Free("p_response2"), Free("mccmnc")>>
    BY Join1_3
  <2>4. <<Send("p_response2", d), Free("p_response"), Free("p_response2"), Free("mccmnc")>> \o rest({})
            = g
    BY Join4_4 DEF Succeed
  <2> DEFINE first == <<Send("p_response", e), Parse("p_response", e), Sprintf("mccmnc"), Either(g)>>
  <2> DEFINE most == <<Send("p_response", e), Parse("p_response", e), Sprintf("mccmnc"), Either(g),
                       Free("p_response"), Free("p_response2"), Free("mccmnc")>>
  <2>5. first \o done = most
    BY Join4_3
  <2>6. most \o rest({"mccmnc"}) = p
    BY Join7_4
  <2>7. <<Send("p_response2", d)>> \o done \o rest({}) = g
    <3> HIDE DEF rest, g
    <3> QED BY <2>3, <2>4
  <2>8. getNetworkInfo(rest({"mccmnc"}), rest({}), c) = first \o done \o rest({"mccmnc"})
    <3> HIDE DEF c, e, d, g, rest
    <3> QED BY <2>1, <2>2, <2>7 DEF getNetworkInfo
  <2> HIDE DEF first, done, most, rest
  <2> QED BY <2>5, <2>6, <2>8
<1>3. /\ d \in Completing0 \cap Returns0 /\ e \in Completing0 \cap Returns0 /\ e \in Frees0["p_response"]
      /\ c \in Completing0 \cap Returns0 /\ c \in Frees0["p_response3"]
  BY IMSIError, IMSIError1, IMSIError2 DEF Sound0, Sound
<1>4. g \in Completing1 \cap Returns1 /\ g \in Frees1["p_response"] /\ g \in Frees1["mccmnc"]
  BY <1>3, IMSIError2, IMSILookup
<1>5. /\ e \in Completing1 \cap Returns1 /\ e \in Frees1["p_response"]
      /\ c \in Completing1 \cap Returns1 /\ c \in Frees1["p_response3"]
  BY <1>3, CompletingNest, ReturnsNest, FreesNest DEF Pointers
<1> HIDE DEF c, e, d, g
<1>6. WellFormed(p, "GET_IMSI")
  BY <1>4, <1>5, IMSIHandler DEF WellFormed, DanglingKinds
<1> QED BY <1>1, <1>2, <1>6

\* requestRegistrationStateEVDO, with its four responses.
LEMMA RegistrationStateHandler ==
    ASSUME NEW kind
    PROVE  WellFormed(requestRegistrationStateEVDO, kind)
<1> DEFINE all == <<"p_response", "p_response2", "p_response3", "p_response4">>
<1> DEFINE frees == [i \in 1..4 |-> Free(all[i])]
<1> DEFINE e == <<Fail, Free("p_response"), Free("p_response2"), Free("p_response3"),
                  Free("p_response4")>>
<1> DEFINE last == Complete("SUCCESS", {"p_response", "p_response3", "p_response4"})
<1> DEFINE p == <<Send("p_response", e), Parse("p_response", e), Send("p_response2", e),
                  Parse("p_response2", e), Send("p_response3", e), Parse("p_response3", e),
                  Send("p_response4", e), Parse("p_response4", e), last, Free("p_response"),
                  Free("p_response2"), Free("p_response3"), Free("p_response4")>>
<1> DEFINE ask(i) == <<Send(all[i], e), Parse(all[i], e)>>
<1>1. frees = <<Free("p_response"), Free("p_response2"), Free("p_response3"), Free("p_response4")>>
  OBVIOUS
<1>2. <<Fail>> \o frees = e
  BY <1>1, Join1_4
<1> DEFINE q2 == <<Send("p_response", e), Parse("p_response", e), Send("p_response2", e),
                   Parse("p_response2", e)>>
<1> DEFINE q3 == <<Send("p_response", e), Parse("p_response", e), Send("p_response2", e),
                   Parse("p_response2", e), Send("p_response3", e), Parse("p_response3", e)>>
<1> DEFINE q4 == <<Send("p_response", e), Parse("p_response", e), Send("p_response2", e),
                   Parse("p_response2", e), Send("p_response3", e), Parse("p_response3", e),
                   Send("p_response4", e), Parse("p_response4", e)>>
<1> DEFINE q5 == <<Send("p_response", e), Parse("p_response", e), Send("p_response2", e),
                   Parse("p_response2", e), Send("p_response3", e), Parse("p_response3", e),
                   Send("p_response4", e), Parse("p_response4", e), last>>
<1>3. ask(1) \o ask(2) \o ask(3) \o ask(4) \o <<last>> \o frees = p
  <2>1. ask(1) \o ask(2) = q2
    BY Join2_2
  <2>2. q2 \o ask(3) = q3
    BY Join4_2
  <2>3. q3 \o ask(4) = q4
    BY Join6_2
  <2>4. q4 \o <<last>> = q5
    BY Join8_1
  <2>5. q5 \o <<Free("p_response"), Free("p_response2"), Free("p_response3"), Free("p_response4")>> = p
    BY Join9_4
  <2>6. q5 \o frees = p
    BY <1>1, <2>5
  <2> HIDE DEF ask, q2, q3, q4, q5, frees, p, last
  <2> QED BY <2>1, <2>2, <2>3, <2>4, <2>6
<1>4. requestRegistrationStateEVDO = ask(1) \o ask(2) \o ask(3) \o ask(4) \o <<last>> \o frees
  <2> HIDE DEF e, frees
  <2> QED BY <1>2 DEF requestRegistrationStateEVDO, frees
<1>5. e \in Sound1 /\ e \in Frees1["p_response"] /\ e \in Frees1["p_response2"]
      /\ e \in Frees1["p_response3"] /\ e \in Frees1["p_response4"]
  BY RegistrationError, SoundNest, FreesNest DEF Pointers
<1> HIDE DEF e
<1>6. WellFormed(p, kind)
  BY <1>5, RegistrationHandler, SoundIsWellFormed
<1> QED BY <1>3, <1>4, <1>6

\* The handlers that leak or may complete twice.
LEMMA ExceptionalHandlers ==
    /\ WellFormed(requestBasebandVersion, "BASEBAND_VERSION")
    /\ WellFormed(requestGetCurrentCallsEVDO, "GET_CURRENT_CALLS")
    /\ WellFormed(requestSignalStrength, "SIGNAL_STRENGTH")
    /\ \A ack : WellFormed(requestSMSAcknowledge(ack), "SMS_ACKNOWLEDGE")
    /\ WellFormed(requestDataCallList, "DATA_CALL_LIST")
<1>1. WellFormed(requestBasebandVersion, "BASEBAND_VERSION")
  <2> DEFINE a == Send("p_response", <<Fail>>)
  <2> DEFINE b == Parse("p_response", <<Fail>>)
  <2> DEFINE c == Complete("SUCCESS", {"p_response"})
  <2>1. <<a, b>> \o <<a, b>> = <<a, b, a, b>>
    BY Join2_2
  <2>2. <<a, b, a, b>> \o <<a, b>> = <<a, b, a, b, a, b>>
    BY Join4_2
  <2>3. <<a, b, a, b, a, b>> \o <<c>> = <<a, b, a, b, a, b, c>>
    BY Join6_1
  <2>4. WellFormed(<<a, b, a, b, a, b, c>>, "BASEBAND_VERSION")
    BY BasebandHandler DEF WellFormed, LeakingKinds
  <2>5. requestBasebandVersion = <<a, b>> \o <<a, b>> \o <<a, b>> \o <<c>>
    BY DEF requestBasebandVersion
  <2> HIDE DEF a, b, c
  <2> QED BY <2>1, <2>2, <2>3, <2>4, <2>5
<1>2. WellFormed(requestGetCurrentCallsEVDO, "GET_CURRENT_CALLS")
  BY CurrentCallsHandler DEF WellFormed, LeakingKinds, requestGetCurrentCallsEVDO
<1>3. WellFormed(requestSignalStrength, "SIGNAL_STRENGTH")
  <2> DEFINE e == <<Fail, Free("p_response")>>
  <2> DEFINE d == <<Fail, Fail, Free("p_response")>>
  <2>1. <<Fail>> \o e = d
    BY Join1_2
  <2>2. requestSignalStrength
            = <<Send("p_response", d), Parse("p_response", e), Succeed, Free("p_response")>>
    BY <2>1 DEF requestSignalStrength
  <2>3. "p_response" \in Pointers
    BY DEF Pointers
  <2>4. /\ e \in Returns1 \cap Tidy1 /\ e \in Frees1["p_response"] /\ StoredFirst(e, {})
    BY ErrorsFree DEF ErrorsFreeing, Sound1, Sound
  <2>5. /\ d \in Returns1 \cap Tidy1 /\ d \in Frees1["p_response"] /\ StoredFirst(d, {})
    BY <2>3, SignalError, ReturnsNest, TidyNest, FreesNest
  <2> HIDE DEF e, d
  <2> QED BY <2>2, <2>4, <2>5, SignalHandler DEF WellFormed, TwoKinds
<1>4. ASSUME NEW ack PROVE WellFormed(requestSMSAcknowledge(ack), "SMS_ACKNOWLEDGE")
  <2>1. WellFormed(<<Fail>>, "SMS_ACKNOWLEDGE")
    BY SimpleHandlers
  <2>2. WellFormed(<<Tell, Succeed, Fail>>, "SMS_ACKNOWLEDGE")
    BY AcknowledgeHandler DEF WellFormed, TwoKinds
  <2> QED BY <2>1, <2>2 DEF requestSMSAcknowledge
<1>5. WellFormed(requestDataCallList, "DATA_CALL_LIST")
  BY CallListHandler DEF WellFormed, TwoKinds, requestDataCallList
<1> QED BY <1>1, <1>2, <1>3, <1>4, <1>5

\* The handlers of the screen and of the data call.
LEMMA SpecialHandlers ==
    /\ \A on : WellFormed(requestScreenState(on), "SCREEN_STATE")
    /\ WellFormed(requestSetupDataCallEVDO, "SETUP_DATA_CALL")
    /\ WellFormed(requestDeactivateDataCallEVDO, "DEACTIVATE_DATA_CALL")
<1>1. ASSUME NEW on PROVE WellFormed(requestScreenState(on), "SCREEN_STATE")
  <2>1. WellFormed(<<Fail>>, "SCREEN_STATE")
    BY SimpleHandlers
  <2>2. (on = 1) \in BOOLEAN
    OBVIOUS
  <2> DEFINE b == (on = 1)
  <2> DEFINE p == <<SetMonitor("ARSI", b, <<Fail>>), SetMonitor("CREG", b, <<Fail>>),
                    SetMonitor("VMCCMNC", b, <<Fail>>), SetMonitor("VSER", b, <<Fail>>),
                    SetScreen(b), Succeed>>
  <2>3. WellFormed(p, "SCREEN_STATE")
    <3> HIDE DEF b
    <3>1. b \in BOOLEAN
      BY <2>2 DEF b
    <3>2. p \in Sound2 /\ Permitted(p, "SCREEN_STATE")
      BY <3>1, ScreenHandler, Zenon
    <3> QED BY <3>2, SoundIsWellFormed, Zenon
  <2>4. requestScreenState(on) = p \/ requestScreenState(on) = <<Fail>>
    BY DEF requestScreenState
  <2> HIDE DEF p
  <2> QED BY <2>1, <2>3, <2>4
<1>2. WellFormed(requestSetupDataCallEVDO, "SETUP_DATA_CALL")
  BY SetupHandler, SoundIsWellFormed DEF requestSetupDataCallEVDO
<1>3. WellFormed(requestDeactivateDataCallEVDO, "DEACTIVATE_DATA_CALL")
  BY DeactivateHandler, SoundIsWellFormed DEF requestDeactivateDataCallEVDO
<1> QED BY <1>1, <1>2, <1>3

\* The switch of onRequest selects a well-formed handler for every request.
LEMMA HandlersWellFormed ==
    ASSUME NEW r \in Requests, NEW state
    PROVE  WellFormed(Handler(r, state), r.kind)
<1> DEFINE k == r.kind
<1>1. /\ k \in {"DIAL", "HANGUP", "CALL_CONTROL", "DTMF", "SET_NETWORK_SELECTION",
                "SEPARATE_CONNECTION", "SEND_USSD", "OEM_HOOK", "LAST_DATA_CALL_FAIL_CAUSE",
                "GET_SIM_STATUS"} => WellFormed(Handler(r, state), k)
  BY SimpleHandlers DEF Handler
<1>2. k \in {"GET_IMEI", "SIM_IO", "GET_PREFERRED_NETWORK_TYPE", "QUERY_NETWORK_SELECTION_MODE",
             "WRITE_SMS_TO_SIM", "ENTER_SIM_PIN", "CANCEL_USSD", "DELETE_SMS_ON_SIM", "SEND_SMS",
             "SET_PREFERRED_NETWORK_TYPE"} => WellFormed(Handler(r, state), k)
  BY ResponseHandlers DEF Handler
<1>3. k \in {"RADIO_POWER", "OPERATOR", "QUERY_AVAILABLE_NETWORKS", "GET_IMSI", "REGISTRATION_STATE"}
        => WellFormed(Handler(r, state), k)
  BY PowerHandlers, NetworkHandlers, SubscriberHandler, RegistrationStateHandler DEF Handler
<1>4. k \in {"BASEBAND_VERSION", "GET_CURRENT_CALLS", "SIGNAL_STRENGTH", "SMS_ACKNOWLEDGE",
             "DATA_CALL_LIST"} => WellFormed(Handler(r, state), k)
  BY ExceptionalHandlers DEF Handler
<1>5. k \in {"SCREEN_STATE", "SETUP_DATA_CALL", "DEACTIVATE_DATA_CALL"}
        => WellFormed(Handler(r, state), k)
  BY SpecialHandlers DEF Handler
<1>6. k = "UNKNOWN" => WellFormed(Handler(r, state), k)
  BY SimpleHandlers DEF Handler, Refused
<1>7. k \in {"GET_SIM_STATUS", "GET_CURRENT_CALLS", "DIAL", "HANGUP", "CALL_CONTROL",
         "SIGNAL_STRENGTH", "REGISTRATION_STATE", "OPERATOR", "DTMF", "SEND_SMS",
         "SETUP_DATA_CALL", "DEACTIVATE_DATA_CALL", "LAST_DATA_CALL_FAIL_CAUSE",
         "GET_IMSI", "BASEBAND_VERSION", "GET_IMEI", "GET_PREFERRED_NETWORK_TYPE",
         "SIM_IO", "SEND_USSD", "CANCEL_USSD", "QUERY_NETWORK_SELECTION_MODE",
         "SET_NETWORK_SELECTION", "QUERY_AVAILABLE_NETWORKS", "DATA_CALL_LIST",
         "OEM_HOOK", "WRITE_SMS_TO_SIM", "DELETE_SMS_ON_SIM", "UNKNOWN", "RADIO_POWER",
         "SCREEN_STATE", "SMS_ACKNOWLEDGE", "SET_PREFERRED_NETWORK_TYPE",
         "SEPARATE_CONNECTION", "ENTER_SIM_PIN"}
  BY DEF Requests
<1> QED BY <1>1, <1>2, <1>3, <1>4, <1>5, <1>6, <1>7

\* What onRequest starts.
LEMMA GateWellFormed ==
    ASSUME NEW r \in Requests
    PROVE  WellFormed(Gate(r), r.kind)
BY HandlersWellFormed, SimpleHandlers DEF Gate, Refused

---------------------------------------------------------------------------
(* The steps.                                                              *)

\* What a step of a handler does to its program, its completions and its memory.
Moved ==
    \/ program' = Tail(program)
    \/ Head(program).op \in Branching /\ program' = Head(program).alt
    \/ Head(program).op = "poll" /\ program' = program
Answered ==
    \/ /\ Head(program).op = "complete" /\ program' = Tail(program)
       /\ completions' = Append(completions, Head(program).code)
    \/ Head(program).op # "complete" /\ completions' = completions
Remembered ==
    \/ SendCommand \/ ParseLine \/ RIL_onRequestComplete \/ Allocate \/ SprintfCode
    \/ at_response_free
    \/ /\ Head(program).op \notin {"send", "parse", "complete", "alloc", "sprintf", "free"}
       /\ UNCHANGED <<holds, leaked, dangling>>

\* Every instruction moves the program on, and answers and remembers as above.
LEMMA ExecuteMoves ==
    ASSUME Execute
    PROVE  program # <<>> /\ request' = request /\ Moved /\ Answered /\ Remembered
<1> USE DEF At, This, Go, GoElse, Moved, Answered, Remembered, Branching
<1>1. CASE SendCommand
  BY <1>1 DEF SendCommand
<1>2. CASE SendPlain
  BY <1>2 DEF SendPlain
<1>3. CASE ParseLine
  BY <1>3 DEF ParseLine
<1>4. CASE RIL_onRequestComplete
  BY <1>4 DEF RIL_onRequestComplete
<1>5. CASE Allocate
  BY <1>5 DEF Allocate
<1>6. CASE at_response_free
  BY <1>6 DEF at_response_free
<1>7. CASE setRadioState
  BY <1>7 DEF setRadioState
<1>8. CASE SwitchMonitor
  BY <1>8 DEF SwitchMonitor
<1>9. CASE StoreScreen
  BY <1>9 DEF StoreScreen
<1>10. CASE RunPppd
  BY <1>10 DEF RunPppd
<1>11. CASE poll_ppp_linkstate
  BY <1>11 DEF poll_ppp_linkstate
<1>12. CASE killPppd
  BY <1>12 DEF killPppd
<1>13. CASE StoreConnected
  BY <1>13 DEF StoreConnected
<1>14. CASE SprintfCode
  BY <1>14 DEF SprintfCode
<1> QED BY <1>1, <1>2, <1>3, <1>4, <1>5, <1>6, <1>7, <1>8, <1>9, <1>10, <1>11, <1>12, <1>13, <1>14
        DEF Execute

\* The surroundings and stuttering leave the handlers alone.
LEMMA OthersKeep ==
    ASSUME Surroundings \/ UNCHANGED vars
    PROVE  UNCHANGED <<request, program, holds, leaked, dangling, completions>>
BY DEF Surroundings, RadioLost, RadioBack, PppdEnds, LinkChanges, handler, vars

\* The next program is a program.
LEMMA MovedType ==
    ASSUME program \in Programs2, program # <<>>, Moved
    PROVE  program' \in Programs2
<1>1. Tail(program) \in Programs2 /\ Head(program) = program[1] /\ 1 \in 1..Len(program)
  BY TailOf
<1>2. Head(program).op \in Branching => Head(program).alt \in Programs2
  BY <1>1, Instructions, ProgramsNest
<1> QED BY <1>1, <1>2 DEF Moved

---------------------------------------------------------------------------

\* The invariant holds initially.
LEMMA InitInv == Init => IInv
<1> SUFFICES ASSUME Init PROVE IInv
  OBVIOUS
<1> USE DEF Init
<1>1. program \in Programs2 /\ Len(program) = 0 /\ 1..Len(program) = {}
  BY EmptySeq DEF Programs2
<1>2. TypeInv
  <2>1. completions \in Seq(Codes) /\ holds \in [Pointers -> {"null", "live", "freed"}]
    BY EmptySeq DEF Nothing
  <2>2. pppd \in Nat /\ ending \in 0..pppd /\ leaked \in Nat /\ tries \in Nat
    OBVIOUS
  <2> QED BY <1>1, <2>1, <2>2 DEF TypeInv
<1>3. IdleInv /\ SpecialInv /\ CompletionInv
  BY <1>1 DEF IdleInv, SpecialInv, Permitted, CompletionInv
<1>4. ReturnInv
  <2>1. program \in Returns2
    BY <1>1 DEF Returns2, Returns
  <2> QED BY <2>1 DEF ReturnInv, Nothing
<1>5. TidyInv
  <2>1. program \in Tidy2 /\ StoredFirst(program, Live)
    BY <1>1 DEF Tidy2, Tidy, StoredFirst
  <2> QED BY <2>1 DEF TidyInv, Nothing
<1>6. TwiceInv /\ OffInv /\ ScreenInv /\ PppdInv
  BY DEF TwiceInv, TwoKinds, NoRequest, OffInv, ScreenInv, PppdInv
<1> QED BY <1>2, <1>3, <1>4, <1>5, <1>6 DEF IInv

\* Every step keeps the types.
LEMMA TypeStep ==
    ASSUME TypeInv, IdleInv, [Next]_vars
    PROVE  TypeInv'
<1> USE DEF TypeInv
<1>1. CASE onRequest
  <2>1. PICK r \in Requests : request' = r /\ program' = Gate(r)
    BY <1>1 DEF onRequest
  <2>2. program' \in Programs2
    BY <2>1, GateWellFormed DEF WellFormed
  <2> QED BY <1>1, <2>1, <2>2 DEF onRequest, screen, call
<1>2. CASE Return
  BY <1>2, EmptySeq DEF Return, Nothing, screen, call
<1>3. CASE Execute
  <2>1. program # <<>> /\ program' \in Programs2 /\ request' = request
    BY <1>3, ExecuteMoves, MovedType
  <2>2. Head(program) = program[1] /\ 1 \in 1..Len(program)
    BY <2>1, TailOf
  <2> DEFINE x == Head(program)
  <2>3. /\ x.op \in {"send", "parse", "alloc", "sprintf", "free"} => x.v \in Pointers
        /\ x.op = "complete" => x.code \in Codes /\ x.uses \in SUBSET Pointers
        /\ x.op = "monitor" => x.m \in Monitors /\ x.on \in BOOLEAN
        /\ x.op = "radio" => x.to \in {"OFF", "ON"}
        /\ x.op \in {"screen", "connected"} => x.to \in BOOLEAN
    BY <2>2, Instructions
  <2> HIDE DEF x
  <2> USE DEF At, This, x
  <2>4. CASE SendCommand
    BY <2>1, <2>3, <2>4 DEF SendCommand, Store, screen, call
  <2>5. CASE SendPlain
    BY <2>1, <2>5 DEF SendPlain, screen, call
  <2>6. CASE ParseLine
    BY <2>1, <2>6 DEF ParseLine, screen, call
  <2>7. CASE RIL_onRequestComplete
    BY <2>1, <2>3, <2>7 DEF RIL_onRequestComplete, screen, call
  <2>8. CASE Allocate
    BY <2>1, <2>3, <2>8 DEF Allocate, Store, screen, call
  <2>9. CASE at_response_free
    BY <2>1, <2>3, <2>9 DEF at_response_free, screen, call
  <2>10. CASE setRadioState
    BY <2>1, <2>3, <2>10 DEF setRadioState, screen, call
  <2>11. CASE SwitchMonitor
    BY <2>1, <2>3, <2>11 DEF SwitchMonitor, screen, call
  <2>12. CASE StoreScreen
    BY <2>1, <2>3, <2>12 DEF StoreScreen, screen, call
  <2>13. CASE RunPppd
    <3>1. strayPppd' \in BOOLEAN
      BY <2>13, Zenon DEF RunPppd
    <3>2. pppd' \in Nat /\ ending' \in 0..pppd'
      BY <2>13 DEF RunPppd
    <3> QED BY <2>1, <2>13, <3>1, <3>2 DEF RunPppd, screen
  <2>14. CASE poll_ppp_linkstate
    <3>1. strayPppd' \in BOOLEAN
      BY <2>14, Zenon DEF poll_ppp_linkstate
    <3>2. tries' \in Nat
      BY <2>14 DEF poll_ppp_linkstate
    <3> QED BY <2>1, <2>14, <3>1, <3>2 DEF poll_ppp_linkstate, screen
  <2>15. CASE killPppd
    BY <2>1, <2>15 DEF killPppd, screen, call
  <2>16. CASE StoreConnected
    BY <2>1, <2>3, <2>16 DEF StoreConnected, screen, call
  <2>17. CASE SprintfCode
    <3>1. dangling' \in BOOLEAN
      BY <2>17 DEF SprintfCode
    <3>2. holds' \in [Pointers -> {"null", "live", "freed"}] /\ leaked' \in Nat
      BY <2>3, <2>17 DEF SprintfCode, Store
    <3> QED BY <2>1, <2>17, <3>1, <3>2 DEF SprintfCode, screen, call
  <2> QED BY <1>3, <2>4, <2>5, <2>6, <2>7, <2>8, <2>9, <2>10, <2>11, <2>12, <2>13, <2>14, <2>15,
             <2>16, <2>17 DEF Execute
<1>4. CASE RadioLost \/ RadioBack
  <2>1. monitors' \in SUBSET Monitors
    BY <1>4 DEF RadioLost, RadioBack, atcommand_init, Monitors
  <2> QED BY <1>4, <2>1 DEF RadioLost, RadioBack, handler, call
<1>5. CASE PppdEnds
  <2>1. linkUp' \in BOOLEAN /\ strayPppd' \in BOOLEAN
    BY <1>5, Zenon DEF PppdEnds
  <2>2. pppd' \in Nat /\ ending' \in 0..pppd'
    BY <1>5 DEF PppdEnds
  <2> QED BY <1>5, <2>1, <2>2 DEF PppdEnds, handler, screen
<1>6. CASE LinkChanges
  BY <1>6 DEF LinkChanges, handler, screen
<1>7. CASE UNCHANGED vars
  BY <1>7 DEF vars, handler, screen, call
<1> QED BY <1>1, <1>2, <1>3, <1>4, <1>5, <1>6, <1>7 DEF Next, Surroundings

\* Between requests there is nothing to hold or free.
LEMMA IdleStep ==
    ASSUME TypeInv, IdleInv, [Next]_vars
    PROVE  IdleInv'
<1>1. CASE onRequest
  <2>1. PICK r \in Requests : request' = r
    BY <1>1 DEF onRequest
  <2>2. r # NoRequest
    BY DEF Requests, NoRequest
  <2> QED BY <2>1, <2>2 DEF IdleInv
<1>2. CASE Return
  BY <1>2 DEF Return, IdleInv
<1>3. CASE Execute
  BY <1>3, ExecuteMoves DEF IdleInv
<1>4. CASE Surroundings \/ UNCHANGED vars
  BY <1>4, OthersKeep DEF IdleInv
<1> QED BY <1>1, <1>2, <1>3, <1>4 DEF Next

\* Special instructions stay with their requests.
LEMMA SpecialStep ==
    ASSUME TypeInv, SpecialInv, [Next]_vars
    PROVE  SpecialInv'
<1> USE DEF SpecialInv
<1>1. CASE onRequest
  BY <1>1, GateWellFormed DEF onRequest, WellFormed
<1>2. CASE Return
  <2>1. program' = <<>> /\ 1..Len(<<>>) = {}
    BY <1>2 DEF Return
  <2> QED BY <2>1 DEF Permitted
<1>3. CASE Execute
  <2>1. program # <<>> /\ request' = request /\ Moved
    BY <1>3, ExecuteMoves
  <2>2. /\ Len(program) \in Nat \ {0} /\ Len(Tail(program)) = Len(program) - 1
        /\ Head(program) = program[1]
        /\ \A i \in 1..(Len(program) - 1) : Tail(program)[i] = program[i + 1]
    BY <2>1, TailOf DEF TypeInv
  <2>3. \A i \in 1..Len(Tail(program)) :
            i + 1 \in 1..Len(program) /\ Tail(program)[i] = program[i + 1]
    BY <2>2
  <2>4. Permitted(Tail(program), request.kind)
    BY <2>3 DEF Permitted
  <2>5. Head(program).op \in Branching => Permitted(Head(program).alt, request.kind)
    <3>1. 1 \in 1..Len(program) /\ program \in Programs2
      BY <2>2 DEF TypeInv
    <3> QED BY <2>2, <3>1, Instructions, AlternativesPermitted
  <2> QED BY <2>1, <2>4, <2>5 DEF Moved
<1>4. CASE Surroundings \/ UNCHANGED vars
  BY <1>4, OthersKeep
<1> QED BY <1>1, <1>2, <1>3, <1>4 DEF Next

\* One completion, and nothing after it that could fail.
LEMMA CompletionStep ==
    ASSUME TypeInv, IdleInv, CompletionInv, [Next]_vars
    PROVE  CompletionInv'
<1>1. CASE onRequest
  BY <1>1, GateWellFormed DEF onRequest, WellFormed, CompletionInv, IdleInv
<1>2. CASE Return
  BY <1>2 DEF Return, CompletionInv
<1>3. CASE Execute
  <2>1. program # <<>> /\ request' = request /\ Moved /\ Answered
    BY <1>3, ExecuteMoves
  <2>2. request # NoRequest
    BY <2>1 DEF IdleInv
  <2>3. SUFFICES ASSUME request.kind \notin TwoKinds
                 PROVE  \/ completions' = <<>> /\ program' \in Completing2
                        \/ Len(completions') = 1 /\ program' \in Completed
    BY <2>1 DEF CompletionInv
  <2>4. CASE completions = <<>> /\ program \in Completing2
    <3>1. CASE Head(program).op = "complete"
      <4>1. program' = Tail(program) /\ completions' = Append(completions, Head(program).code)
        BY <2>1, <3>1 DEF Answered
      <4>2. Len(completions') = 1
        BY <2>4, <4>1
      <4>3. program' \in Completed
        BY <2>4, <3>1, <4>1, CompletingStep
      <4> QED BY <4>2, <4>3
    <3>2. CASE Head(program).op # "complete"
      BY <2>1, <2>4, <3>2, CompletingStep DEF Answered, Moved
    <3> QED BY <3>1, <3>2
  <2>5. CASE Len(completions) = 1 /\ program \in Completed
    <3>1. Tail(program) \in Completed /\ Head(program).op \notin Branching
          /\ Head(program).op # "complete"
      BY <2>1, <2>5, CompletedStep
    <3> QED BY <2>1, <2>5, <3>1 DEF Answered, Moved
  <2> QED BY <2>2, <2>3, <2>4, <2>5 DEF CompletionInv
<1>4. CASE Surroundings \/ UNCHANGED vars
  BY <1>4, OthersKeep DEF CompletionInv
<1> QED BY <1>1, <1>2, <1>3, <1>4 DEF Next

\* What the pointers hold after a step, and what is left to be done with it.
LEMMA ReturnStep ==
    ASSUME TypeInv, IdleInv, ReturnInv, [Next]_vars
    PROVE  ReturnInv'
<1>1. CASE onRequest
  <2>1. holds' = Nothing /\ leaked' = 0
    BY <1>1 DEF onRequest, IdleInv
  <2>2. \A v \in Pointers : holds'[v] # "live"
    BY <2>1 DEF Nothing
  <2>3. request'.kind \notin LeakingKinds => program' \in Returns2
    BY <1>1, GateWellFormed DEF onRequest, WellFormed
  <2> QED BY <2>1, <2>2, <2>3 DEF ReturnInv
<1>2. CASE Return
  <2>1. program' = <<>> /\ program' \in Programs2 /\ 1..Len(<<>>) = {}
    BY <1>2 DEF Return, TypeInv
  <2>2. program' \in Returns2
    BY <2>1 DEF Returns2, Returns
  <2>3. \A v \in Pointers : holds'[v] # "live"
    BY <1>2 DEF Return, Nothing
  <2> QED BY <1>2, <2>2, <2>3 DEF Return, ReturnInv
<1>3. CASE Execute
  <2>1. program # <<>> /\ request' = request /\ Moved /\ Remembered
    BY <1>3, ExecuteMoves
  <2>2. SUFFICES ASSUME request.kind \notin LeakingKinds
                 PROVE  /\ leaked' = 0 /\ program' \in Returns2
                        /\ \A v \in Pointers : holds'[v] = "live" => program' \in Frees2[v]
    BY <2>1 DEF ReturnInv
  <2> DEFINE x == Head(program)
  <2>3. /\ leaked = 0 /\ program \in Returns2
        /\ \A v \in Pointers : holds[v] = "live" => program \in Frees2[v]
    BY <2>2 DEF ReturnInv
  <2>4. /\ Tail(program) \in Returns2 /\ (x.op \in Branching => x.alt \in Returns2)
        /\ \A v \in Pointers : Stores(x, v) =>
            Tail(program) \in Frees2[v] /\ (x.op = "send" => x.alt \in Frees2[v])
    BY <2>1, <2>3, ReturnsStep
  <2>5. \A v \in Pointers : holds[v] = "live" =>
            /\ ~Stores(x, v)
            /\ ~Releases(x, v) => Tail(program) \in Frees2[v]
            /\ x.op \in Branching => x.alt \in Frees2[v]
    BY <2>3, FreesStep
  <2>6. program' \in Returns2
    BY <2>1, <2>3, <2>4 DEF Moved
  <2>7. x.op \in {"send", "parse", "alloc", "sprintf", "free"} => x.v \in Pointers
    BY <2>1, TailOf, Instructions DEF TypeInv
  <2>8. holds \in [Pointers -> {"null", "live", "freed"}]
    BY DEF TypeInv
  \* Whatever is live and stays so is still to be freed.
  <2>9. ASSUME NEW v \in Pointers, holds[v] = "live", ~Releases(x, v)
        PROVE  program' \in Frees2[v]
    BY <2>1, <2>3, <2>5, <2>9 DEF Moved
  <2> HIDE DEF x
  <2>10. CASE SendCommand
    <3>1. x.op = "send" /\ x.v \in Pointers /\ Stores(x, x.v)
          /\ \A v \in Pointers : ~Releases(x, v)
      BY <2>7, <2>10 DEF SendCommand, At, x, Stores, Releases
    <3>2. holds[x.v] # "live"
      BY <2>5, <3>1
    <3>3. leaked' = 0
      BY <2>3, <2>10, <3>2 DEF SendCommand, Store, This, x
    <3>4. \A v \in Pointers : v # x.v => holds'[v] = holds[v]
      BY <2>8, <2>10 DEF SendCommand, Store, This, x
    <3>5. program' = Tail(program) \/ program' = x.alt
      BY <2>10 DEF SendCommand, Go, GoElse, This, x
    <3>6. program' \in Frees2[x.v]
      BY <2>4, <3>1, <3>5
    <3> QED BY <2>6, <2>9, <3>1, <3>3, <3>4, <3>6
  <2>11. CASE Allocate
    <3>1. x.op = "alloc" /\ x.v \in Pointers /\ Stores(x, x.v)
          /\ \A v \in Pointers : ~Releases(x, v)
      BY <2>7, <2>11 DEF Allocate, At, x, Stores, Releases
    <3>2. holds[x.v] # "live"
      BY <2>5, <3>1
    <3>3. leaked' = 0
      BY <2>3, <2>11, <3>2 DEF Allocate, Store, This, x
    <3>4. \A v \in Pointers : v # x.v => holds'[v] = holds[v]
      BY <2>8, <2>11 DEF Allocate, Store, This, x
    <3>5. program' \in Frees2[x.v]
      BY <2>4, <2>11, <3>1 DEF Allocate, Go
    <3> QED BY <2>6, <2>9, <3>1, <3>3, <3>4, <3>5
  <2>12. CASE at_response_free
    <3>1. x.op = "free" /\ x.v \in Pointers /\ leaked' = leaked
      BY <2>7, <2>12 DEF at_response_free, At, x
    <3>2. \A v \in Pointers : holds'[v] = "live" => holds[v] = "live" /\ v # x.v
      BY <2>8, <2>12, <3>1 DEF at_response_free, This, x
    <3>3. \A v \in Pointers : v # x.v => ~Releases(x, v)
      BY DEF Releases
    <3> QED BY <2>3, <2>6, <2>9, <3>1, <3>2, <3>3
  <2>13. CASE ParseLine \/ RIL_onRequestComplete
         \/ (x.op \notin {"send", "parse", "complete", "alloc", "sprintf", "free"} /\ UNCHANGED <<holds, leaked>>)
    <3>1. x.op # "free" /\ holds' = holds /\ leaked' = leaked
      BY <2>13 DEF ParseLine, RIL_onRequestComplete, At, x
    <3>2. \A v \in Pointers : ~Releases(x, v)
      BY <3>1 DEF Releases
    <3> QED BY <2>3, <2>6, <2>9, <3>1, <3>2
  <2>14. CASE SprintfCode
    <3>1. x.op = "sprintf" /\ x.v \in Pointers /\ Stores(x, x.v)
          /\ \A v \in Pointers : ~Releases(x, v)
      BY <2>7, <2>14 DEF SprintfCode, At, x, Stores, Releases
    <3>2. holds[x.v] # "live"
      BY <2>5, <3>1
    <3>3. leaked' = 0
      BY <2>3, <2>14, <3>2 DEF SprintfCode, Store, This, x
    <3>4. \A v \in Pointers : v # x.v => holds'[v] = holds[v]
      BY <2>8, <2>14 DEF SprintfCode, Store, This, x
    <3>5. program' \in Frees2[x.v]
      BY <2>4, <2>14, <3>1 DEF SprintfCode, Go
    <3> QED BY <2>6, <2>9, <3>1, <3>3, <3>4, <3>5
  <2> QED BY <2>1, <2>10, <2>11, <2>12, <2>13, <2>14 DEF Remembered, x
<1>4. CASE Surroundings \/ UNCHANGED vars
  BY <1>4, OthersKeep DEF ReturnInv
<1> QED BY <1>1, <1>2, <1>3, <1>4 DEF Next

\* Nothing freed is used, nothing is used before it is stored.
LEMMA TidyInvStep ==
    ASSUME TypeInv, IdleInv, TidyInv, [Next]_vars
    PROVE  TidyInv'
<1>1. CASE onRequest
  <2>1. holds' = Nothing /\ ~dangling'
    BY <1>1 DEF onRequest, IdleInv
  <2>2. \A v \in Pointers : holds'[v] # "freed"
    BY <2>1 DEF Nothing
  <2>3. request'.kind \notin DanglingKinds => program' \in Tidy2 /\ StoredFirst(program', {})
    BY <1>1, GateWellFormed DEF onRequest, WellFormed
  <2>4. request'.kind \notin DanglingKinds => StoredFirst(program', Live')
    BY <2>3, StoredFirstMonotonic
  <2> QED BY <2>1, <2>2, <2>3, <2>4 DEF TidyInv
<1>2. CASE Return
  <2>1. program' = <<>> /\ program' \in Programs2 /\ 1..Len(<<>>) = {}
    BY <1>2 DEF Return, TypeInv
  <2>2. program' \in Tidy2 /\ StoredFirst(program', Live')
    BY <2>1 DEF Tidy2, Tidy, StoredFirst
  <2>3. \A v \in Pointers : holds'[v] # "freed"
    BY <1>2 DEF Return, Nothing
  <2> QED BY <1>2, <2>2, <2>3 DEF Return, TidyInv
<1>3. CASE Execute
  <2>1. program # <<>> /\ request' = request /\ Moved /\ Remembered /\ program \in Programs2
    BY <1>3, ExecuteMoves DEF TypeInv
  <2>2. SUFFICES ASSUME request.kind \notin DanglingKinds
                 PROVE  /\ ~dangling' /\ program' \in Tidy2
                        /\ \A v \in Pointers : holds'[v] = "freed" => program' \in Untouched2[v]
                        /\ StoredFirst(program', Live')
    BY <2>1 DEF TidyInv
  <2> DEFINE x == Head(program)
  <2>3. /\ ~dangling /\ program \in Tidy2
        /\ \A v \in Pointers : holds[v] = "freed" => program \in Untouched2[v]
        /\ StoredFirst(program, Live)
    BY <2>2 DEF TidyInv
  <2>4. /\ Tail(program) \in Tidy2
        /\ x.op \in Branching => x.alt \in Tidy2 /\ StoredFirst(x.alt, {})
        /\ \A v \in Pointers : Releases(x, v) => Tail(program) \in Untouched2[v]
        /\ x.op # "sprintf"
    BY <2>1, <2>3, TidyStep
  <2>5. \A v \in Pointers : holds[v] = "freed" =>
            /\ ~Reads(x, v) /\ ~Releases(x, v) /\ Tail(program) \in Untouched2[v]
            /\ x.op \in Branching => x.alt \in Untouched2[v]
    BY <2>1, <2>3, UntouchedStep
  <2>6. program' \in Tidy2
    BY <2>1, <2>3, <2>4 DEF Moved
  <2>7. x = program[1] /\ 1 \in 1..Len(program)
    BY <2>1, TailOf
  <2>8. /\ x.op \in {"send", "parse", "alloc", "sprintf", "free"} => x.v \in Pointers
        /\ x.op = "complete" => x.uses \in SUBSET Pointers
    BY <2>1, <2>7, Instructions
  <2>9. holds \in [Pointers -> {"null", "live", "freed"}]
    BY DEF TypeInv
  \* What was freed stays alone, and what is read now is live.
  <2>10. \A v \in Pointers : holds[v] = "freed" => program' \in Untouched2[v]
    BY <2>1, <2>3, <2>5 DEF Moved
  <2>11. \A v \in Pointers : Reads(x, v) => holds[v] = "live"
    <3>1. \A v \in Pointers : Reads(x, v) /\ v \notin Live => \E j \in 1..(1 - 1) : TRUE
      BY <2>3, <2>7 DEF StoredFirst
    <3> QED BY <3>1 DEF Live
  \* What the rest needs is live or will be stored.
  <2>12. ASSUME NEW M, \A v \in Pointers : v \in Live \/ Stores(x, v) => v \in M
         PROVE  StoredFirst(Tail(program), M)
    BY <2>1, <2>3, <2>12, StoredFirstTail
  <2>13. x.op \in Branching => StoredFirst(x.alt, Live')
    BY <2>4, StoredFirstMonotonic
  <2> HIDE DEF x
  <2>14. CASE SendCommand
    <3>1. x.op = "send" /\ x.v \in Pointers /\ x.op \in Branching /\ dangling' = dangling
      BY <2>8, <2>14 DEF SendCommand, At, x, Branching
    <3>2. \A v \in Pointers : Stores(x, v) => v = x.v
      BY DEF Stores
    <3>3. \A v \in Pointers : holds'[v] = "freed" => holds[v] = "freed"
      BY <2>9, <2>14 DEF SendCommand, Store, This, x
    <3>4. StoredFirst(program', Live')
      <4>1. CASE program' = x.alt
        BY <2>13, <3>1, <4>1
      <4>2. CASE program' # x.alt
        <5>1. holds' = [holds EXCEPT ![x.v] = "live"] /\ program' = Tail(program)
          BY <2>14, <4>2 DEF SendCommand, Store, Go, GoElse, This, x
        <5>2. \A v \in Pointers : v \in Live \/ Stores(x, v) => v \in Live'
          BY <2>9, <3>1, <3>2, <5>1 DEF Live
        <5> QED BY <2>12, <5>1, <5>2
      <4> QED BY <4>1, <4>2
    <3> QED BY <2>3, <2>6, <2>10, <3>1, <3>3, <3>4
  <2>15. CASE Allocate
    <3>1. /\ x.op = "alloc" /\ x.v \in Pointers /\ dangling' = dangling
          /\ holds' = [holds EXCEPT ![x.v] = "live"] /\ program' = Tail(program)
      BY <2>8, <2>15 DEF Allocate, Store, Go, At, This, x
    <3>2. \A v \in Pointers : Stores(x, v) => v = x.v
      BY DEF Stores
    <3>3. \A v \in Pointers : holds'[v] = "freed" => holds[v] = "freed"
      BY <2>9, <3>1
    <3>4. \A v \in Pointers : v \in Live \/ Stores(x, v) => v \in Live'
      BY <2>9, <3>1, <3>2 DEF Live
    <3> QED BY <2>3, <2>6, <2>10, <2>12, <3>1, <3>3, <3>4
  <2>16. CASE at_response_free
    <3>1. /\ x.op = "free" /\ x.v \in Pointers /\ program' = Tail(program) /\ Releases(x, x.v)
          /\ holds' = IF holds[x.v] = "live" THEN [holds EXCEPT ![x.v] = "freed"] ELSE holds
          /\ dangling' = (dangling \/ holds[x.v] = "freed")
      BY <2>8, <2>16 DEF at_response_free, Go, At, This, x, Releases
    <3>2. holds[x.v] # "freed"
      BY <2>5, <3>1
    <3>3. ~dangling'
      BY <2>3, <3>1, <3>2
    <3>4. program' \in Untouched2[x.v]
      BY <2>4, <3>1
    <3>5. \A v \in Pointers : holds'[v] = "freed" => holds[v] = "freed" \/ v = x.v
      BY <2>9, <3>1
    <3>6. \A v \in Pointers : ~Stores(x, v)
      BY <3>1 DEF Stores
    <3>7. StoredFirst(program', Live)
      BY <2>12, <3>1, <3>6
    <3>8. StoredFirst(program', Live \ {x.v})
      BY <3>1, <3>4, <3>7, StoredFirstUntouched
    <3>9. Live \ {x.v} \subseteq Live'
      BY <2>9, <3>1 DEF Live
    <3>10. StoredFirst(program', Live')
      BY <3>8, <3>9, StoredFirstMonotonic
    <3> QED BY <2>6, <2>10, <3>3, <3>4, <3>5, <3>10
  <2>17. ASSUME holds' = holds, x.op \notin {"send", "alloc", "sprintf"}
         PROVE  /\ \A v \in Pointers : holds'[v] = "freed" => program' \in Untouched2[v]
                /\ StoredFirst(program', Live')
    <3>1. Live' = Live /\ \A v \in Pointers : ~Stores(x, v)
      BY <2>17 DEF Live, Stores
    <3>2. StoredFirst(Tail(program), Live')
      BY <2>12, <3>1
    <3>3. StoredFirst(program', Live')
      BY <2>1, <2>3, <2>13, <3>1, <3>2 DEF Moved, x
    <3> QED BY <2>10, <2>17, <3>3
  <2>18. CASE ParseLine
    <3>1. x.op = "parse" /\ x.v \in Pointers /\ holds' = holds /\ Reads(x, x.v)
      BY <2>8, <2>18 DEF ParseLine, At, x, Reads
    <3>2. ~dangling'
      BY <2>3, <2>11, <2>18, <3>1 DEF ParseLine, This, x
    <3> QED BY <2>6, <2>17, <3>1, <3>2
  <2>19. CASE RIL_onRequestComplete
    <3>1. x.op = "complete" /\ x.uses \in SUBSET Pointers /\ holds' = holds
      BY <2>8, <2>19 DEF RIL_onRequestComplete, At, x
    <3>2. \A v \in x.uses : holds[v] = "live"
      BY <2>11, <3>1 DEF Reads
    <3>3. ~dangling'
      BY <2>3, <2>19, <3>2 DEF RIL_onRequestComplete, This, x
    <3> QED BY <2>6, <2>17, <3>1, <3>3
  <2>20. CASE /\ x.op \notin {"send", "parse", "complete", "alloc", "sprintf", "free"}
              /\ UNCHANGED <<holds, leaked, dangling>>
    BY <2>3, <2>6, <2>17, <2>20
  <2>21. ~SprintfCode
    BY <2>4 DEF SprintfCode, At, x
  <2> QED BY <2>1, <2>14, <2>15, <2>16, <2>18, <2>19, <2>20, <2>21 DEF Remembered, x
<1>4. CASE Surroundings \/ UNCHANGED vars
  BY <1>4, OthersKeep DEF TidyInv, Live
<1> QED BY <1>1, <1>2, <1>3, <1>4 DEF Next

---------------------------------------------------------------------------
(* The handlers whose steps are followed one by one.                       *)

\* Head and tail of short programs.
LEMMA Tail1 ==
    ASSUME NEW a
    PROVE  <<a>> # <<>> /\ Head(<<a>>) = a /\ Tail(<<a>>) = <<>>
<1>1. <<a>> \in Seq({a})
  OBVIOUS
<1> QED BY <1>1

LEMMA Tail2 ==
    ASSUME NEW a, NEW b
    PROVE  <<a, b>> # <<>> /\ Head(<<a, b>>) = a /\ Tail(<<a, b>>) = <<b>>
<1>1. <<a, b>> \in Seq({a, b})
  OBVIOUS
<1> QED BY <1>1

LEMMA Tail3 ==
    ASSUME NEW a, NEW b, NEW c
    PROVE  <<a, b, c>> # <<>> /\ Head(<<a, b, c>>) = a /\ Tail(<<a, b, c>>) = <<b, c>>
<1>1. <<a, b, c>> \in Seq({a, b, c})
  OBVIOUS
<1> QED BY <1>1

LEMMA Tail4 ==
    ASSUME NEW a, NEW b, NEW c, NEW d
    PROVE  <<a, b, c, d>> # <<>> /\ Head(<<a, b, c, d>>) = a /\ Tail(<<a, b, c, d>>) = <<b, c, d>>
<1>1. <<a, b, c, d>> \in Seq({a, b, c, d})
  OBVIOUS
<1> QED BY <1>1

LEMMA Tail5 ==
    ASSUME NEW a, NEW b, NEW c, NEW d, NEW e
    PROVE  <<a, b, c, d, e>> # <<>> /\ Head(<<a, b, c, d, e>>) = a /\ Tail(<<a, b, c, d, e>>) = <<b, c, d, e>>
<1>1. <<a, b, c, d, e>> \in Seq({a, b, c, d, e})
  OBVIOUS
<1> QED BY <1>1

LEMMA Tail6 ==
    ASSUME NEW a, NEW b, NEW c, NEW d, NEW e, NEW f
    PROVE  <<a, b, c, d, e, f>> # <<>> /\ Head(<<a, b, c, d, e, f>>) = a /\ Tail(<<a, b, c, d, e, f>>) = <<b, c, d, e, f>>
<1>1. <<a, b, c, d, e, f>> \in Seq({a, b, c, d, e, f})
  OBVIOUS
<1> QED BY <1>1

\* One more element, whatever it is.
LEMMA LenAppend ==
    ASSUME NEW S, NEW s \in Seq(S), NEW e
    PROVE  Len(Append(s, e)) = Len(s) + 1
<1>1. s \in Seq(S \cup {e})
  BY SeqMonotonic
<1> QED BY <1>1

\* requestSignalStrength with its error label copied out.
LEMMA SignalProgram == requestSignalStrength = Signal0
<1>1. <<Fail>> \o <<Fail, free>> = <<Fail, Fail, free>>
  BY Join1_2
<1> QED BY <1>1 DEF requestSignalStrength, Signal0, free

\* A step before the first completion, and one after it.
LEMMA TwicePoints ==
    /\ \A p \in Before :
        /\ Head(p).op = "complete" => Tail(p) \in Between
        /\ Head(p).op # "complete" => Tail(p) \in Before
        /\ Head(p).op \in Branching => Head(p).alt \in Before
        /\ Head(p).op # "poll"
    /\ \A p \in Between \ {<<>>} :
        /\ Head(p).op = "complete" => Tail(p) \in {<<free>>, <<>>}
        /\ Head(p).op # "complete" => Tail(p) \in {<<free>>, <<>>}
        /\ Head(p).op \notin Branching
    /\ Tail(<<free>>) = <<>> /\ Head(<<free>>).op = "free" /\ <<free>> # <<>>
<1>1. /\ Head(Signal0) = Send("p_response", <<Fail, Fail, free>>) /\ Tail(Signal0) = Signal1
      /\ Head(Signal1) = Parse("p_response", <<Fail, free>>) /\ Tail(Signal1) = <<Succeed, free>>
  BY Tail4, Tail3 DEF Signal0, Signal1
<1>2. /\ Head(<<Succeed, free>>) = Succeed /\ Tail(<<Succeed, free>>) = <<free>>
      /\ Head(<<Fail, Fail, free>>) = Fail /\ Tail(<<Fail, Fail, free>>) = <<Fail, free>>
      /\ Head(<<Fail, free>>) = Fail /\ Tail(<<Fail, free>>) = <<free>>
      /\ Head(<<Tell, Succeed, Fail>>) = Tell /\ Tail(<<Tell, Succeed, Fail>>) = <<Succeed, Fail>>
      /\ Head(<<Succeed, Fail>>) = Succeed /\ Tail(<<Succeed, Fail>>) = <<Fail>>
      /\ Head(<<Fail>>) = Fail /\ Tail(<<Fail>>) = <<>>
      /\ Head(<<free>>) = free /\ Tail(<<free>>) = <<>> /\ <<free>> # <<>>
  BY Tail1, Tail2, Tail3
<1>3. Head(Refused) = Complete("RADIO_NOT_AVAILABLE", {}) /\ Tail(Refused) = <<>>
  BY Tail1 DEF Refused
<1>4. /\ Succeed.op = "complete" /\ Fail.op = "complete" /\ Tell.op = "tell" /\ free.op = "free"
      /\ Complete("RADIO_NOT_AVAILABLE", {}).op = "complete"
  BY DEF Succeed, Fail, Tell, free, Free, Complete
<1>5. /\ Send("p_response", <<Fail, Fail, free>>).op = "send"
      /\ Send("p_response", <<Fail, Fail, free>>).alt = <<Fail, Fail, free>>
      /\ Parse("p_response", <<Fail, free>>).op = "parse"
      /\ Parse("p_response", <<Fail, free>>).alt = <<Fail, free>>
  BY DEF Send, Parse
<1>6. \A p \in Before :
        /\ Head(p).op = "complete" => Tail(p) \in Between
        /\ Head(p).op # "complete" => Tail(p) \in Before
        /\ Head(p).op \in Branching => Head(p).alt \in Before
        /\ Head(p).op # "poll"
  BY <1>1, <1>2, <1>3, <1>4, <1>5 DEF Before, Between, Branching
<1>7. \A p \in Between \ {<<>>} :
        /\ Tail(p) \in {<<free>>, <<>>} /\ Head(p).op \notin Branching
  BY <1>2, <1>4 DEF Between, Branching
<1> QED BY <1>2, <1>4, <1>6, <1>7

\* The three handlers that may complete twice complete once or twice.
LEMMA TwiceStep ==
    ASSUME TypeInv, IdleInv, TwiceInv, [Next]_vars
    PROVE  TwiceInv'
<1>1. CASE onRequest
  <2>1. PICK r \in Requests : request' = r /\ program' = Gate(r)
    BY <1>1 DEF onRequest
  <2>2. r.kind \in TwoKinds => Gate(r) \in {requestSignalStrength, requestDataCallList,
                                            requestSMSAcknowledge(r.arg), Refused}
    BY DEF Gate, Handler, TwoKinds, Refused
  <2>3. /\ requestSignalStrength \in Before /\ Refused \in Before /\ requestDataCallList \in Before
        /\ requestSMSAcknowledge(r.arg) \in Before
    BY SignalProgram DEF Before, requestDataCallList, requestSMSAcknowledge
  <2>4. completions' = <<>>
    BY <1>1 DEF onRequest, IdleInv
  <2> QED BY <2>1, <2>2, <2>3, <2>4 DEF TwiceInv
<1>2. CASE Return
  BY <1>2 DEF Return, TwiceInv, TwoKinds, NoRequest
<1>3. CASE Execute
  <2>1. program # <<>> /\ request' = request /\ Moved /\ Answered
    BY <1>3, ExecuteMoves
  <2>2. SUFFICES ASSUME request.kind \in TwoKinds
                 PROVE  \/ completions' = <<>> /\ program' \in Before
                        \/ Len(completions') = 1 /\ program' \in Between
                        \/ Len(completions') = 2 /\ program' \in {<<free>>, <<>>}
    BY <2>1 DEF TwiceInv
  <2>3. CASE completions = <<>> /\ program \in Before
    <3>1. CASE Head(program).op = "complete"
      <4>1. program' = Tail(program) /\ completions' = Append(<<>>, Head(program).code)
        BY <2>1, <2>3, <3>1 DEF Answered
      <4>2. Len(completions') = 1
        BY <4>1
      <4> QED BY <2>3, <3>1, <4>1, <4>2, TwicePoints
    <3>2. CASE Head(program).op # "complete"
      BY <2>1, <2>3, <3>2, TwicePoints DEF Answered, Moved
    <3> QED BY <3>1, <3>2
  <2>4. CASE Len(completions) = 1 /\ program \in Between
    <3>1. Tail(program) \in {<<free>>, <<>>} /\ Head(program).op \notin Branching
      BY <2>1, <2>4, TwicePoints
    <3>2. program' = Tail(program)
      BY <2>1, <3>1 DEF Moved, Branching
    <3>3. Len(completions') \in {1, 2}
      <4>1. completions \in Seq(Codes)
        BY DEF TypeInv
      <4>2. Len(Append(completions, Head(program).code)) = Len(completions) + 1
        BY <4>1, LenAppend, Zenon
      <4>3. Len(Append(completions, Head(program).code)) = 2
        BY <2>4, <4>2
      <4> QED BY <2>1, <2>4, <4>3 DEF Answered
    <3> QED BY <3>1, <3>2, <3>3 DEF Between
  <2>5. CASE Len(completions) = 2 /\ program \in {<<free>>, <<>>}
    <3>1. Tail(program) = <<>> /\ Head(program).op = "free"
      BY <2>1, <2>5, TwicePoints
    <3>2. program' = Tail(program) /\ completions' = completions
      BY <2>1, <3>1 DEF Moved, Answered, Branching
    <3> QED BY <2>5, <3>1, <3>2
  <2> QED BY <2>2, <2>3, <2>4, <2>5 DEF TwiceInv
<1>4. CASE Surroundings \/ UNCHANGED vars
  BY <1>4, OthersKeep DEF TwiceInv
<1> QED BY <1>1, <1>2, <1>3, <1>4 DEF Next

\* A refused request is answered and done.
LEMMA RefusedStep ==
    ASSUME program = Refused, Execute
    PROVE  program' = <<>>
<1>1. Head(Refused).op = "complete" /\ Tail(Refused) = <<>>
  BY Tail1 DEF Refused, Complete
<1> QED BY <1>1, ExecuteMoves DEF Moved, Branching

\* The radio is turned off by a power request or while no handler runs.
LEMMA OffStep ==
    ASSUME TypeInv, SpecialInv, OffInv, [Next]_vars
    PROVE  OffInv'
<1>1. CASE onRequest
  BY <1>1 DEF onRequest, Gate, OffInv, Refused
<1>2. CASE Return
  BY <1>2 DEF Return, OffInv
<1>3. CASE Execute
  <2>1. program # <<>> /\ request' = request
    BY <1>3, ExecuteMoves
  <2>2. SUFFICES ASSUME radio' = "OFF", request # NoRequest, request.kind \notin OffKinds
                 PROVE  program' \in {Refused, <<>>}
    BY <2>1 DEF OffInv
  <2>3. CASE radio = "OFF"
    BY <1>3, <2>1, <2>2, <2>3, RefusedStep DEF OffInv
  <2>4. CASE radio # "OFF"
    <3>1. At("radio")
      BY <1>3, <2>2, <2>4 DEF Execute, SendCommand, SendPlain, ParseLine, RIL_onRequestComplete,
           Allocate, SprintfCode, at_response_free, setRadioState, SwitchMonitor, StoreScreen, RunPppd,
           poll_ppp_linkstate, killPppd, StoreConnected
    <3>2. program[1].op = "radio" /\ 1 \in 1..Len(program)
      BY <2>1, <3>1, TailOf DEF At, TypeInv
    <3>3. request.kind = "RADIO_POWER"
      BY <3>2 DEF SpecialInv, Permitted, SpecialOps, SpecialKinds
    <3> QED BY <2>2, <3>3 DEF OffKinds
  <2> QED BY <2>3, <2>4
<1>4. CASE RadioLost
  BY <1>4 DEF RadioLost, OffInv
<1>5. CASE RadioBack
  BY <1>5 DEF RadioBack, handler, OffInv
<1>6. CASE PppdEnds \/ LinkChanges \/ UNCHANGED vars
  BY <1>6 DEF PppdEnds, LinkChanges, handler, vars, OffInv
<1> QED BY <1>1, <1>2, <1>3, <1>4, <1>5, <1>6 DEF Next, Surroundings


\* Which action executes which instruction, and what the others leave alone.
LEMMA Executes ==
    ASSUME Execute
    PROVE  /\ Head(program).op = "monitor" => SwitchMonitor
           /\ Head(program).op = "screen" => StoreScreen
           /\ Head(program).op = "pppd" => RunPppd
           /\ Head(program).op = "poll" => poll_ppp_linkstate
           /\ Head(program).op = "kill" => killPppd
           /\ Head(program).op = "connected" => StoreConnected
           /\ Head(program).op \notin {"monitor", "screen"} => UNCHANGED screen
           /\ Head(program).op \notin {"pppd", "poll", "kill", "connected"} => UNCHANGED call
<1> USE DEF At, screen, call
<1>1. CASE SendCommand
  BY <1>1 DEF SendCommand
<1>2. CASE SendPlain
  BY <1>2 DEF SendPlain
<1>3. CASE ParseLine
  BY <1>3 DEF ParseLine
<1>4. CASE RIL_onRequestComplete
  BY <1>4 DEF RIL_onRequestComplete
<1>5. CASE Allocate
  BY <1>5 DEF Allocate
<1>6. CASE at_response_free
  BY <1>6 DEF at_response_free
<1>7. CASE setRadioState
  BY <1>7 DEF setRadioState
<1>8. CASE SwitchMonitor
  BY <1>8 DEF SwitchMonitor
<1>9. CASE StoreScreen
  BY <1>9 DEF StoreScreen
<1>10. CASE RunPppd
  BY <1>10 DEF RunPppd
<1>11. CASE poll_ppp_linkstate
  BY <1>11 DEF poll_ppp_linkstate
<1>12. CASE killPppd
  BY <1>12 DEF killPppd
<1>13. CASE StoreConnected
  BY <1>13 DEF StoreConnected
<1>14. CASE SprintfCode
  BY <1>14 DEF SprintfCode
<1> QED BY <1>1, <1>2, <1>3, <1>4, <1>5, <1>6, <1>7, <1>8, <1>9, <1>10, <1>11, <1>12, <1>13, <1>14
        DEF Execute

\* The special instructions are executed for the requests they belong to only.
LEMMA SpecialHead ==
    ASSUME TypeInv, SpecialInv, program # <<>>, Head(program).op \in SpecialOps
    PROVE  request.kind \in SpecialKinds(Head(program).op)
<1>1. 1 \in 1..Len(program) /\ Head(program) = program[1]
  BY TailOf DEF TypeInv
<1> QED BY <1>1 DEF SpecialInv, Permitted

Switch(i, m, on) == i = SetMonitor(m, on = 1, <<Fail>>)

\* A notification is as asked, unless the command was refused or failed, which is noted.
Switching(m, on) ==
    \/ screenSet' = FALSE
    \/ /\ screenSet' = (screenSet \/ m = "ARSI")
       /\ \A x : x \in monitors' <=> (x = m /\ on = 1) \/ (x # m /\ x \in monitors)

\* One notification command: done, refused or failed.
LEMMA MonitorStep ==
    ASSUME Execute, NEW m, NEW on \in {0, 1}, Switch(Head(program), m, on)
    PROVE  \/ program' = Tail(program) /\ Switching(m, on)
           \/ program' = <<Fail>> /\ screenSet' = FALSE
<1>1. /\ Head(program).op = "monitor" /\ Head(program).m = m
      /\ Head(program).on = (on = 1) /\ Head(program).alt = <<Fail>>
  BY DEF SetMonitor, Switch
<1>2. SwitchMonitor
  BY <1>1, Executes
<1>3. \/ /\ monitors' = IF on = 1 THEN monitors \cup {m} ELSE monitors \ {m}
         /\ program' = Tail(program) /\ screenSet' = (screenSet \/ m = "ARSI")
      \/ program' = Tail(program) /\ screenSet' = FALSE
      \/ program' = <<Fail>> /\ screenSet' = FALSE
  BY <1>1, <1>2 DEF SwitchMonitor, This, Go, GoElse
<1> QED BY <1>3 DEF Switching

\* The points of requestScreenState.
LEMMA ScreenPoints ==
    ASSUME NEW on \in {0, 1}
    PROVE  /\ Switch(Head(requestScreenState(on)), "ARSI", on)
           /\ Tail(requestScreenState(on)) = Rest1(on)
           /\ Switch(Head(Rest1(on)), "CREG", on) /\ Tail(Rest1(on)) = Rest2(on)
           /\ Switch(Head(Rest2(on)), "VMCCMNC", on) /\ Tail(Rest2(on)) = Rest3(on)
           /\ Switch(Head(Rest3(on)), "VSER", on) /\ Tail(Rest3(on)) = Rest4(on)
           /\ Head(Rest4(on)) = SetScreen(on = 1) /\ Tail(Rest4(on)) = <<Succeed>>
<1>1. requestScreenState(on) =
        <<SetMonitor("ARSI", on = 1, <<Fail>>), SetMonitor("CREG", on = 1, <<Fail>>),
          SetMonitor("VMCCMNC", on = 1, <<Fail>>), SetMonitor("VSER", on = 1, <<Fail>>),
          SetScreen(on = 1), Succeed>>
  BY DEF requestScreenState
<1>2. /\ Switch(Head(requestScreenState(on)), "ARSI", on)
      /\ Tail(requestScreenState(on)) = Rest1(on)
  BY <1>1, Tail6 DEF Switch, Rest1
<1>3. Switch(Head(Rest1(on)), "CREG", on) /\ Tail(Rest1(on)) = Rest2(on)
  BY Tail5 DEF Switch, Rest1, Rest2
<1>4. Switch(Head(Rest2(on)), "VMCCMNC", on) /\ Tail(Rest2(on)) = Rest3(on)
  BY Tail4 DEF Switch, Rest2, Rest3
<1>5. Switch(Head(Rest3(on)), "VSER", on) /\ Tail(Rest3(on)) = Rest4(on)
  BY Tail3 DEF Switch, Rest3, Rest4
<1>6. Head(Rest4(on)) = SetScreen(on = 1) /\ Tail(Rest4(on)) = <<Succeed>>
  BY Tail2 DEF Rest4
<1> QED BY <1>2, <1>3, <1>4, <1>5, <1>6

\* The last completion changes neither screen nor call.
LEMMA OneCompletionStep ==
    ASSUME Execute, program \in {<<Fail>>, <<Succeed>>, Refused}
    PROVE  program' = <<>> /\ UNCHANGED screen /\ UNCHANGED call
<1>1. Head(program) \in {Fail, Succeed, Complete("RADIO_NOT_AVAILABLE", {})} /\ Tail(program) = <<>>
  BY Tail1 DEF Refused
<1>2. Head(program).op = "complete"
  BY <1>1 DEF Complete, Fail, Succeed
<1> QED BY <1>1, <1>2, ExecuteMoves, Executes DEF Moved, Branching

\* The notifications the first n commands have switched are as asked.
AsAsked(on, n) == screenSet => \A m \in Switched(n) : m \in monitors <=> on = 1

\* Which notifications the first commands switch.
LEMMA Switches ==
    /\ Switched(1) = {"ARSI"} /\ Switched(2) = {"ARSI", "CREG"}
    /\ Switched(3) = {"ARSI", "CREG", "VMCCMNC"} /\ Switched(4) = Monitors
<1>1. 1..1 = {1} /\ 1..2 = {1, 2} /\ 1..3 = {1, 2, 3} /\ 1..4 = {1, 2, 3, 4}
  OBVIOUS
<1> QED BY <1>1 DEF Switched, Monitors

\* The notifications follow the screen requests that succeed.
LEMMA ScreenStep ==
    ASSUME TypeInv, SpecialInv, ScreenInv, [Next]_vars
    PROVE  ScreenInv'
<1>1. CASE onRequest
  <2>1. PICK r \in Requests : request' = r /\ program' = Gate(r)
    BY <1>1 DEF onRequest
  <2>2. r.kind = "SCREEN_STATE" => Gate(r) = requestScreenState(r.arg)
    BY DEF Gate, Handler, OffKinds
  <2>3. screenSet => monitors = Wanted
    BY <1>1 DEF onRequest, ScreenInv, NoRequest
  <2> QED BY <1>1, <2>1, <2>2, <2>3 DEF onRequest, screen, ScreenInv, Wanted
<1>2. CASE Return
  <2>1. UNCHANGED screen /\ request'.kind = "NONE" /\ program = <<>>
    BY <1>2 DEF Return, NoRequest
  <2>2. \A n \in 1..4 : ScreenRest(request.arg, n) # <<>>
    BY Tail2, Tail3, Tail4, Tail5 DEF ScreenRest, Rest1, Rest2, Rest3, Rest4
  <2>3. screenSet => monitors = Wanted
    BY <2>1, <2>2 DEF ScreenInv
  <2> QED BY <2>1, <2>3 DEF ScreenInv, Wanted, screen
<1>3. CASE Execute
  <2>1. program # <<>> /\ request' = request
    BY <1>3, ExecuteMoves
  <2>2. CASE request.kind # "SCREEN_STATE"
    <3>1. Head(program).op \notin {"monitor", "screen"}
      BY <2>1, <2>2, SpecialHead DEF SpecialOps, SpecialKinds
    <3> QED BY <1>3, <2>1, <2>2, <3>1, Executes DEF ScreenInv, Wanted, screen
  <2>3. CASE request.kind = "SCREEN_STATE"
    <3>0. PICK on : on = request.arg
      OBVIOUS
    <3>1. SUFFICES \/ program' \in {<<Fail>>, <<>>, <<Succeed>>} /\ (screenSet => monitors = Wanted)'
                   \/ \E n \in 1..4 : /\ on \in {0, 1} /\ program' = ScreenRest(on, n)
                                      /\ AsAsked(on, n)'
      BY <2>1, <2>3, <3>0 DEF ScreenInv, AsAsked
    <3>2. on \notin {0, 1} => requestScreenState(on) = <<Fail>>
      BY DEF requestScreenState
    <3>3. \/ program \in {<<Fail>>, <<Succeed>>} /\ (screenSet => monitors = Wanted)
          \/ program = requestScreenState(on) /\ on \in {0, 1}
          \/ \E n \in 1..4 : on \in {0, 1} /\ program = ScreenRest(on, n) /\ AsAsked(on, n)
      BY <2>1, <2>3, <3>0, <3>2 DEF ScreenInv, AsAsked
    <3>4. CASE program \in {<<Fail>>, <<Succeed>>} /\ (screenSet => monitors = Wanted)
      BY <1>3, <3>4, OneCompletionStep DEF screen, Wanted
    <3>5. CASE program = requestScreenState(on) /\ on \in {0, 1}
      <4>1. \/ program' = Rest1(on) /\ Switching("ARSI", on)
            \/ program' = <<Fail>> /\ screenSet' = FALSE
        BY <1>3, <3>5, MonitorStep, ScreenPoints
      <4>2. ScreenRest(on, 1) = Rest1(on)
        BY DEF ScreenRest
      <4>3. Switching("ARSI", on) => AsAsked(on, 1)'
        BY <3>5, Switches DEF AsAsked, Switching
      <4> QED BY <3>5, <4>1, <4>2, <4>3
    <3>6. CASE on \in {0, 1} /\ program = ScreenRest(on, 1) /\ AsAsked(on, 1)
      <4>1. ScreenRest(on, 1) = Rest1(on) /\ ScreenRest(on, 2) = Rest2(on)
        BY DEF ScreenRest
      <4>2. \/ program' = Rest2(on) /\ Switching("CREG", on)
            \/ program' = <<Fail>> /\ screenSet' = FALSE
        <5>1. on \in {0, 1} /\ Switch(Head(program), "CREG", on) /\ Tail(program) = Rest2(on)
          BY <3>6, <4>1, ScreenPoints
        <5> QED BY <1>3, <5>1, MonitorStep
      <4>3. Switching("CREG", on) => AsAsked(on, 2)'
        BY <3>6, Switches DEF AsAsked, Switching
      <4> QED BY <3>6, <4>1, <4>2, <4>3
    <3>7. CASE on \in {0, 1} /\ program = ScreenRest(on, 2) /\ AsAsked(on, 2)
      <4>1. ScreenRest(on, 2) = Rest2(on) /\ ScreenRest(on, 3) = Rest3(on)
        BY DEF ScreenRest
      <4>2. \/ program' = Rest3(on) /\ Switching("VMCCMNC", on)
            \/ program' = <<Fail>> /\ screenSet' = FALSE
        <5>1. on \in {0, 1} /\ Switch(Head(program), "VMCCMNC", on) /\ Tail(program) = Rest3(on)
          BY <3>7, <4>1, ScreenPoints
        <5> QED BY <1>3, <5>1, MonitorStep
      <4>3. Switching("VMCCMNC", on) => AsAsked(on, 3)'
        BY <3>7, Switches DEF AsAsked, Switching
      <4> QED BY <3>7, <4>1, <4>2, <4>3
    <3>8. CASE on \in {0, 1} /\ program = ScreenRest(on, 3) /\ AsAsked(on, 3)
      <4>1. ScreenRest(on, 3) = Rest3(on) /\ ScreenRest(on, 4) = Rest4(on)
        BY DEF ScreenRest
      <4>2. \/ program' = Rest4(on) /\ Switching("VSER", on)
            \/ program' = <<Fail>> /\ screenSet' = FALSE
        <5>1. on \in {0, 1} /\ Switch(Head(program), "VSER", on) /\ Tail(program) = Rest4(on)
          BY <3>8, <4>1, ScreenPoints
        <5> QED BY <1>3, <5>1, MonitorStep
      <4>3. Switching("VSER", on) => AsAsked(on, 4)'
        BY <3>8, Switches DEF AsAsked, Switching, Monitors
      <4> QED BY <3>8, <4>1, <4>2, <4>3
    <3>9. CASE on \in {0, 1} /\ program = ScreenRest(on, 4) /\ AsAsked(on, 4)
      <4>1. Head(program) = SetScreen(on = 1) /\ Tail(program) = <<Succeed>>
        BY <3>9, ScreenPoints DEF ScreenRest
      <4>2. Head(program).op = "screen" /\ Head(program).to = (on = 1)
        BY <4>1 DEF SetScreen
      <4>3. StoreScreen
        BY <1>3, <4>2, Executes
      <4>4. program' = <<Succeed>> /\ screenState' = (on = 1) /\ UNCHANGED <<monitors, screenSet>>
        BY <4>1, <4>2, <4>3 DEF StoreScreen, This, Go
      <4>5. screenSet => monitors = IF on = 1 THEN Monitors ELSE {}
        BY <3>9, Switches DEF AsAsked, TypeInv
      <4> QED BY <4>4, <4>5 DEF Wanted
    <3> QED BY <3>3, <3>4, <3>5, <3>6, <3>7, <3>8, <3>9
  <2> QED BY <2>2, <2>3
<1>4. CASE Surroundings \/ UNCHANGED vars
  <2>1. UNCHANGED screen \/ (UNCHANGED screenState /\ screenSet' = FALSE)
    BY <1>4 DEF screen, Surroundings, RadioLost, RadioBack, PppdEnds, LinkChanges, vars
  <2>2. request' = request /\ program' = program
    BY <1>4, OthersKeep
  <2>3. CASE UNCHANGED screen
    BY <2>2, <2>3 DEF ScreenInv, Wanted, screen
  <2>4. CASE screenSet' = FALSE
    BY <2>2, <2>4 DEF ScreenInv
  <2> QED BY <2>1, <2>3, <2>4
<1> QED BY <1>1, <1>2, <1>3, <1>4 DEF Next

\* The points of the two handlers of the data call.
LEMMA CallPoints ==
    /\ Head(requestSetupDataCallEVDO) = StartPppd(<<Fail>>)
    /\ Tail(requestSetupDataCallEVDO) = Polling
    /\ Head(Polling) = Poll(<<Fail>>) /\ Tail(Polling) = Connecting
    /\ Head(Connecting) = Connected(TRUE) /\ Tail(Connecting) = <<Succeed>>
    /\ Head(requestDeactivateDataCallEVDO) = Tell
    /\ Tail(requestDeactivateDataCallEVDO) = Killing
    /\ Head(Killing) = Kill /\ Tail(Killing) = Disconnecting
    /\ Head(Disconnecting) = Connected(FALSE) /\ Tail(Disconnecting) = <<Succeed>>
<1>1. PICK x : x = Connected(TRUE)
  OBVIOUS
<1>2. PICK y : y = Connected(FALSE)
  OBVIOUS
<1>3. PICK f : f = <<Fail>>
  OBVIOUS
<1>4. /\ requestSetupDataCallEVDO = <<StartPppd(f), Poll(f), x, Succeed>>
      /\ Polling = <<Poll(f), x, Succeed>> /\ Connecting = <<x, Succeed>>
      /\ requestDeactivateDataCallEVDO = <<Tell, Kill, y, Succeed>>
      /\ Killing = <<Kill, y, Succeed>> /\ Disconnecting = <<y, Succeed>>
  BY <1>1, <1>2, <1>3 DEF requestSetupDataCallEVDO, Polling, Connecting,
       requestDeactivateDataCallEVDO, Killing, Disconnecting
<1>5. Head(requestSetupDataCallEVDO) = StartPppd(f) /\ Tail(requestSetupDataCallEVDO) = Polling
  BY <1>4, Tail4
<1>6. Head(requestDeactivateDataCallEVDO) = Tell /\ Tail(requestDeactivateDataCallEVDO) = Killing
  BY <1>4, Tail4
<1>7. Head(Polling) = Poll(f) /\ Tail(Polling) = Connecting
  BY <1>4, Tail3
<1>8. Head(Killing) = Kill /\ Tail(Killing) = Disconnecting
  BY <1>4, Tail3
<1>9. Head(Connecting) = x /\ Tail(Connecting) = <<Succeed>>
  BY <1>4, Tail2
<1>10. Head(Disconnecting) = y /\ Tail(Disconnecting) = <<Succeed>>
  BY <1>4, Tail2
<1> QED BY <1>1, <1>2, <1>3, <1>5, <1>6, <1>7, <1>8, <1>9, <1>10

\* The points differ in what they begin with.
LEMMA CallPointsDiffer ==
    /\ requestSetupDataCallEVDO \notin SetupRest \cup {Disconnecting}
    /\ Polling # Disconnecting
    /\ requestDeactivateDataCallEVDO # Disconnecting
    /\ Killing # Disconnecting
    /\ \A p \in {<<Fail>>, <<Succeed>>, Refused, <<>>} :
        p \notin SetupRest \cup {Disconnecting}
<1>1. /\ Len(requestSetupDataCallEVDO) = 4 /\ Len(requestDeactivateDataCallEVDO) = 4
      /\ Len(Polling) = 3
      /\ Len(Killing) = 3
      /\ Len(Disconnecting) = 2 /\ Len(Connecting) = 2
      /\ Len(<<Fail>>) = 1 /\ Len(<<Succeed>>) = 1 /\ Len(Refused) = 1 /\ Len(<<>>) = 0
  BY DEF requestSetupDataCallEVDO, requestDeactivateDataCallEVDO, Refused, Polling, Killing,
       Disconnecting, Connecting
<1>2. \A p \in SetupRest : Len(p) \in {2, 3}
  BY <1>1 DEF SetupRest
<1>3. \A p \in {<<Fail>>, <<Succeed>>, Refused, <<>>} : Len(p) \in {0, 1}
  BY <1>1
<1>4. requestSetupDataCallEVDO \notin SetupRest
  BY <1>1, <1>2
<1>5. \A p \in {<<Fail>>, <<Succeed>>, Refused, <<>>} : p \notin SetupRest
  BY <1>2, <1>3
<1>6. \A p \in {<<Fail>>, <<Succeed>>, Refused, <<>>} : p # Disconnecting
  BY <1>1, <1>3
<1>7. /\ requestSetupDataCallEVDO # Disconnecting /\ Polling # Disconnecting
      /\ requestDeactivateDataCallEVDO # Disconnecting /\ Killing # Disconnecting
  BY <1>1
<1> QED BY <1>4, <1>5, <1>6, <1>7

\* A pppd that runs belongs to the call or to a set-up under way.
LEMMA PppdStep ==
    ASSUME TypeInv, SpecialInv, PppdInv, [Next]_vars
    PROVE  PppdInv'
<1>1. CASE onRequest
  <2>1. PICK r \in Requests : request' = r /\ program' = Gate(r)
    BY <1>1 DEF onRequest
  <2>2. r.kind = "SETUP_DATA_CALL" => Gate(r) \in {requestSetupDataCallEVDO, Refused}
    BY DEF Gate, Handler, Refused
  <2>3. r.kind = "DEACTIVATE_DATA_CALL" => Gate(r) \in {requestDeactivateDataCallEVDO, Refused}
    BY DEF Gate, Handler, Refused
  <2>4. request.kind = "NONE" /\ UNCHANGED <<inDataCall, pppd, ending, linkUp, strayPppd>>
    BY <1>1 DEF onRequest, NoRequest, call
  <2> QED BY <2>1, <2>2, <2>3, <2>4, CallPointsDiffer DEF PppdInv
<1>2. CASE Return
  <2>1. /\ request'.kind = "NONE" /\ program = <<>> /\ program' = <<>>
        /\ UNCHANGED <<inDataCall, pppd, ending, linkUp, strayPppd>>
    BY <1>2 DEF Return, NoRequest, call
  <2> QED BY <2>1, CallPointsDiffer DEF PppdInv
<1>3. CASE Execute
  <2>1. program # <<>> /\ request' = request /\ Moved
    BY <1>3, ExecuteMoves
  <2>2. CASE request.kind \notin {"SETUP_DATA_CALL", "DEACTIVATE_DATA_CALL"}
    <3>1. Head(program).op \notin {"pppd", "poll", "kill", "connected"}
      BY <2>1, <2>2, SpecialHead DEF SpecialOps, SpecialKinds
    <3>2. UNCHANGED call
      BY <1>3, <3>1, Executes
    <3> QED BY <2>1, <2>2, <3>2 DEF PppdInv, call
  <2>3. CASE program \in {<<Fail>>, <<Succeed>>, Refused}
    <3>1. program' = <<>> /\ UNCHANGED call
      BY <1>3, <2>3, OneCompletionStep
    <3> QED BY <2>1, <2>3, <3>1, CallPointsDiffer DEF PppdInv, call
  <2>4. CASE request.kind = "SETUP_DATA_CALL" /\ program = requestSetupDataCallEVDO
    <3>1. Head(program).op = "pppd" /\ Head(program).alt = <<Fail>>
      BY <2>4, CallPoints DEF StartPppd
    <3>2. RunPppd
      BY <1>3, <3>1, Executes
    <3>3. UNCHANGED <<inDataCall, ending>>
      BY <3>2 DEF RunPppd
    <3>4. \/ /\ program' = Polling
             /\ pppd' = pppd + 1 /\ strayPppd' = (strayPppd \/ pppd > 0)
          \/ /\ program' \in {Polling, <<Fail>>}
             /\ UNCHANGED <<pppd, strayPppd>>
      BY <2>4, <3>1, <3>2, CallPoints DEF RunPppd, This, Go, GoElse
    <3>5. ~strayPppd' => pppd' <= 1
      <4>1. pppd \in Nat /\ (~strayPppd => pppd <= 1)
        BY DEF PppdInv, TypeInv
      <4>2. CASE pppd' = pppd + 1 /\ strayPppd' = (strayPppd \/ pppd > 0)
        <5>1. ~strayPppd' => ~(pppd > 0)
          BY <4>2, Zenon
        <5> QED BY <4>1, <4>2, <5>1
      <4>3. CASE UNCHANGED <<pppd, strayPppd>>
        BY <4>1, <4>3
      <4> QED BY <3>4, <4>2, <4>3
    <3>6. program' = Polling => program' \in SetupRest
      BY DEF SetupRest
    <3>7. ~strayPppd /\ pppd # ending => inDataCall
      BY <2>4, CallPointsDiffer DEF PppdInv
    <3>8. CASE program' = Polling
      BY <2>1, <2>4, <3>5, <3>6, <3>8 DEF PppdInv
    <3>9. CASE program' = <<Fail>> /\ UNCHANGED <<pppd, strayPppd>>
      BY <2>1, <2>4, <3>3, <3>5, <3>7, <3>9 DEF PppdInv
    <3> QED BY <3>4, <3>8, <3>9
  <2>5. CASE request.kind = "SETUP_DATA_CALL"
             /\ program = Polling
    <3>1. Head(program).op = "poll" /\ Head(program).alt = <<Fail>>
      BY <2>5, CallPoints DEF Poll
    <3>2. poll_ppp_linkstate
      BY <1>3, <3>1, Executes
    <3>3. UNCHANGED <<inDataCall, ending, pppd>>
      BY <3>2 DEF poll_ppp_linkstate
    <3>4. \/ /\ program' \in {program, Connecting}
             /\ UNCHANGED strayPppd
          \/ program' = <<Fail>> /\ strayPppd' = (strayPppd \/ pppd > 0)
      BY <2>5, <3>1, <3>2, CallPoints DEF poll_ppp_linkstate, This, Go, GoElse
    <3>5. ~strayPppd' => pppd' <= 1
      BY <3>3, <3>4 DEF PppdInv, TypeInv
    <3>6. CASE program' \in {program, Connecting} /\ UNCHANGED strayPppd
      <4>1. program' \in SetupRest
        BY <2>5, <3>6 DEF SetupRest
      <4> QED BY <2>1, <2>5, <3>5, <4>1 DEF PppdInv
    <3>7. CASE program' = <<Fail>> /\ strayPppd' = (strayPppd \/ pppd > 0)
      <4>1. ~strayPppd' => pppd' = ending'
        <5>1. ~strayPppd' => ~(pppd > 0)
          BY <3>7, Zenon
        <5>2. ~(pppd > 0) => pppd = ending
          BY DEF TypeInv
        <5> QED BY <3>3, <5>1, <5>2
      <4> QED BY <2>1, <2>5, <3>5, <3>7, <4>1 DEF PppdInv
    <3> QED BY <3>4, <3>6, <3>7
  <2>6. CASE request.kind = "SETUP_DATA_CALL" /\ program = Connecting
    <3>1. Head(program).op = "connected" /\ Head(program).to = TRUE
      BY <2>6, CallPoints DEF Connected
    <3>2. StoreConnected
      BY <1>3, <3>1, Executes
    <3>3. inDataCall' = TRUE /\ program' = <<Succeed>> /\ UNCHANGED <<pppd, ending, strayPppd>>
      BY <2>6, <3>1, <3>2, CallPoints DEF StoreConnected, This, Go
    <3> QED BY <2>1, <2>6, <3>3 DEF PppdInv
  <2>7. CASE request.kind = "DEACTIVATE_DATA_CALL" /\ program = requestDeactivateDataCallEVDO
    <3>1. Head(program).op = "tell"
      BY <2>7, CallPoints DEF Tell
    <3>2. UNCHANGED call /\ program' = Killing
      BY <1>3, <2>1, <2>7, <3>1, Executes, CallPoints DEF Moved, Branching
    <3> QED BY <2>1, <2>7, <3>2, CallPointsDiffer DEF PppdInv, call
  <2>8. CASE request.kind = "DEACTIVATE_DATA_CALL"
             /\ program = Killing
    <3>1. Head(program).op = "kill"
      BY <2>8, CallPoints DEF Kill
    <3>2. killPppd
      BY <1>3, <3>1, Executes
    <3>3. UNCHANGED <<inDataCall, pppd, strayPppd>>
      BY <3>2 DEF killPppd
    <3>4. program' = Disconnecting
      BY <2>8, <3>2, CallPoints DEF killPppd, Go
    <3>5. ~strayPppd => pppd = ending'
      BY <3>2 DEF killPppd, PppdInv, TypeInv
    <3> QED BY <2>1, <2>8, <3>3, <3>4, <3>5 DEF PppdInv
  <2>9. CASE request.kind = "DEACTIVATE_DATA_CALL" /\ program = Disconnecting
    <3>1. Head(program).op = "connected"
      BY <2>9, CallPoints DEF Connected
    <3>2. StoreConnected
      BY <1>3, <3>1, Executes
    <3>3. program' = <<Succeed>> /\ UNCHANGED <<pppd, ending, strayPppd>>
      BY <2>9, <3>2, CallPoints DEF StoreConnected, Go
    <3>4. ~strayPppd => pppd = ending
      BY <2>9 DEF PppdInv
    <3> QED BY <2>1, <2>9, <3>3, <3>4 DEF PppdInv
  <2> QED BY <2>1, <2>2, <2>3, <2>4, <2>5, <2>6, <2>7, <2>8, <2>9 DEF PppdInv, SetupRest
<1>4. CASE PppdEnds
  <2>1. UNCHANGED <<request, program, inDataCall>>
    BY <1>4 DEF PppdEnds, handler
  <2>2. /\ pppd > 0 /\ pppd' = pppd - 1 /\ ending' \in 0..pppd'
        /\ strayPppd' = (strayPppd /\ pppd' > 0)
    BY <1>4 DEF PppdEnds
  <2>3. ~strayPppd' => pppd' = 0 /\ ending' = 0
    BY <2>2 DEF PppdInv, TypeInv
  <2>4. ~strayPppd' => pppd' <= 1 /\ pppd' = ending'
    BY <2>3
  <2> QED BY <2>1, <2>4 DEF PppdInv
<1>5. CASE RadioLost \/ RadioBack \/ LinkChanges \/ UNCHANGED vars
  BY <1>5 DEF RadioLost, RadioBack, LinkChanges, handler, call, vars, PppdInv
<1> QED BY <1>1, <1>2, <1>3, <1>4, <1>5 DEF Next, Surroundings

---------------------------------------------------------------------------
(* The theorems.                                                           *)

\* The invariant holds from the start, and every step keeps it.
THEOREM Invariant == Spec => []IInv
<1>1. IInv /\ [Next]_vars => IInv'
  <2> SUFFICES ASSUME IInv, [Next]_vars
               PROVE  IInv'
    OBVIOUS
  <2>1. /\ TypeInv /\ IdleInv /\ SpecialInv /\ CompletionInv /\ ReturnInv /\ TidyInv
        /\ TwiceInv /\ OffInv /\ ScreenInv /\ PppdInv
    BY DEF IInv
  <2>2. TypeInv' /\ IdleInv' /\ SpecialInv'
    BY <2>1, TypeStep, IdleStep, SpecialStep
  <2>3. CompletionInv' /\ ReturnInv' /\ TidyInv'
    BY <2>1, CompletionStep, ReturnStep, TidyInvStep
  <2>4. TwiceInv' /\ OffInv' /\ ScreenInv' /\ PppdInv'
    BY <2>1, TwiceStep, OffStep, ScreenStep, PppdStep
  <2> QED BY <2>2, <2>3, <2>4 DEF IInv
<1> QED BY <1>1, InitInv, PTL DEF Spec

\* A request is completed by exactly one call of RIL_onRequestComplete, whichever of its
\* handler's commands fail, and by at most two in the three handlers that run into their
\* error label.
THEOREM CompletionCorrect == Spec => []CompletedOnce
<1>1. IInv => CompletedOnce
  <2> SUFFICES ASSUME IInv, Returning
               PROVE  \/ Len(completions) = 1
                      \/ Len(completions) = 2 /\ request.kind \in TwoKinds
    BY DEF CompletedOnce, TwoKinds
  <2>1. request # NoRequest /\ program = <<>>
    BY DEF Returning
  <2>2. CASE request.kind \notin TwoKinds
    <3>1. <<>> \notin Completing2
      BY DEF Completing2, Completing
    <3> QED BY <2>1, <2>2, <3>1 DEF IInv, CompletionInv
  <2>3. CASE request.kind \in TwoKinds
    <3>1. <<>> \notin Before
      BY Tail1, Tail2, Tail3, Tail4 DEF Before, Signal0, Signal1, Refused
    <3> QED BY <2>1, <2>3, <3>1 DEF IInv, TwiceInv
  <2> QED BY <2>2, <2>3
<1> QED BY <1>1, Invariant, PTL

\* Every response a handler obtained from the AT channel has been freed when it returns,
\* whichever way it took, but for the two handlers that do not free theirs.
THEOREM ResponsesCorrect == Spec => []ResponsesReturned
<1>1. IInv => ResponsesReturned
  <2> SUFFICES ASSUME IInv, Returning, request.kind \notin LeakingKinds
               PROVE  ~(Unfreed > 0)
    BY DEF ResponsesReturned, LeakingKinds
  <2>1. program = <<>> /\ leaked = 0 /\ \A v \in Pointers : holds[v] = "live" => program \in Frees2[v]
    BY DEF IInv, ReturnInv, Returning
  <2>2. \A v \in Pointers : <<>> \notin Frees2[v]
    <3>1. \A v \in Pointers : ~FreesAfter(<<>>, 0, v, Frees1[v])
      BY DEF FreesAfter
    <3> QED BY <3>1 DEF Frees2, Frees
  <2>3. {v \in Pointers : holds[v] = "live"} = {}
    BY <2>1, <2>2
  <2>4. Unfreed = 0
    <3>1. Cardinality({v \in Pointers : holds[v] = "live"}) = Cardinality({})
      BY <2>3, Zenon
    <3>2. Unfreed = leaked + Cardinality({})
      BY <3>1, Zenon DEF Unfreed
    <3>3. Cardinality({}) = 0
      BY FS_EmptySet
    <3> QED BY <2>1, <3>2, <3>3
  <2> QED BY <2>4
<1> QED BY <1>1, Invariant, PTL

\* No handler parses, passes on or frees a response that is not allocated, on any of its
\* paths, but for the three that use the array of getNetworkInfo after it has returned.
THEOREM MemoryCorrect == Spec => []NothingDangles
<1>1. IInv => NothingDangles
  BY DEF IInv, TidyInv, NothingDangles, DanglingKinds
<1> QED BY <1>1, Invariant, PTL

\* While the radio is off no handler but those of the power, card status and screen requests
\* is about to talk to the modem or to start pppd: the radio is not turned off between
\* onRequest's test and the commands it admits.
THEOREM SilenceCorrect == Spec => []SilentWhileOff
<1>1. IInv => SilentWhileOff
  <2> SUFFICES ASSUME IInv, radio = "OFF", program # <<>>, request.kind \notin OffKinds
               PROVE  This.op \notin {"send", "try", "tell", "pppd", "monitor"}
    BY DEF SilentWhileOff
  <2>1. request # NoRequest
    BY DEF IInv, IdleInv
  <2>2. program = Refused
    BY <2>1 DEF IInv, OffInv
  <2>3. This = Complete("RADIO_NOT_AVAILABLE", {})
    BY <2>2, Tail1 DEF Refused, This
  <2> QED BY <2>3 DEF Complete
<1> QED BY <1>1, Invariant, PTL

\* After a screen request that succeeded, none of its commands refused, the modem's
\* notifications are as ctx->screenState says, until the next such request, the modem's
\* restart or the next initializeCallback.
THEOREM ScreenCorrect == Spec => []ScreenStateHonoured
<1>1. IInv => ScreenStateHonoured
  <2> SUFFICES ASSUME IInv, screenSet, request.kind # "SCREEN_STATE" \/ program = <<>>
               PROVE  monitors = Wanted
    BY DEF ScreenStateHonoured, Returning, Wanted
  <2>1. \A n \in 1..4 : ScreenRest(request.arg, n) # <<>>
    BY Tail2, Tail3, Tail4, Tail5 DEF ScreenRest, Rest1, Rest2, Rest3, Rest4
  <2> QED BY <2>1 DEF IInv, ScreenInv
<1> QED BY <1>1, Invariant, PTL

\* Between requests, with the data call down and no set-up having failed or overlapped,
\* every pppd there is has been told to end.
THEOREM PppdCorrect == Spec => []NoPppdWithoutCall
<1>1. IInv => NoPppdWithoutCall
  BY DEF IInv, PppdInv, NoPppdWithoutCall, NoRequest
<1> QED BY <1>1, Invariant, PTL
====
