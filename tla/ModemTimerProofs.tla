-------------------------- MODULE ModemTimerProofs --------------------------
(***************************************************************************)
(* The number of over-the-air calls and the verdict on the module, for     *)
(* every retry limit, every length of the wait and of the call, and every  *)
(* number of failing commands and lost sessions.                           *)
(***************************************************************************)
EXTENDS ModemTimer, TLAPS

Counting == at \in {"query", "limit", "call", "wait", "verdict"}

(* While activateHelper works the module is neither activated nor given up; *)
(* a call that is counted off and not yet made is the one of "call"; and    *)
(* the counter is used up exactly when the module is given up.              *)
Counted ==
    /\ moduleActivateRetry \in Nat /\ calls \in Nat
    /\ Counting => moduleIsActivated = 0
    /\ moduleIsActivated = 2 => moduleActivateRetry = 0 /\ calls = MAX_AUTO_ACTIVATE_RETRY - 1
    /\ moduleIsActivated # 2 =>
           /\ moduleActivateRetry > 0
           /\ calls + moduleActivateRetry =
                  MAX_AUTO_ACTIVATE_RETRY - (IF at = "call" THEN 1 ELSE 0)

LEMMA CountedKept ==
    ASSUME Counted, UNCHANGED <<moduleActivateRetry, moduleIsActivated, calls>>,
           Counting' => Counting, at' = "call" <=> at = "call"
    PROVE  Counted'
BY DEF Counted

LEMMA CountedMain ==
    ASSUME Counted, mainLoop
    PROVE  Counted'
<1>1. CASE WakeUp
  BY <1>1, BoundsAssumption DEF WakeUp, Goes, Counted, Counting, module
<1>2. CASE CheckClosed \/ Reopen \/ QueryFails \/ WaitForOta \/ rilWriteStatus \/ fw100ModemTimer
  BY <1>2, CountedKept DEF CheckClosed, Reopen, QueryFails, WaitForOta, rilWriteStatus,
                           fw100ModemTimer, Goes, Counting, module
<1>3. CASE Query
  BY <1>3 DEF Query, AfterQuery, Goes, Counted, Counting
<1>4. CASE LimitRetries
  <2>1. at = "limit" /\ moduleIsActivated = 0
    BY <1>4 DEF LimitRetries, Goes, Counted, Counting
  <2>2. moduleActivateRetry' = moduleActivateRetry - 1 /\ UNCHANGED calls
    BY <1>4, <2>1 DEF LimitRetries, Counted
  <2>3. CASE moduleActivateRetry = 1
    <3>1. moduleIsActivated' = 2 /\ at' = "status"
      BY <1>4, <2>3 DEF LimitRetries, Goes
    <3> QED
      BY <2>1, <2>2, <2>3, <3>1, BoundsAssumption DEF Counted, Counting
  <2>4. CASE moduleActivateRetry # 1
    <3>1. moduleIsActivated' = 0 /\ at' = "call"
      BY <1>4, <2>1, <2>4 DEF LimitRetries, Goes, Counted
    <3> QED
      BY <2>1, <2>2, <2>4, <3>1, BoundsAssumption DEF Counted, Counting
  <2> QED
    BY <2>3, <2>4
<1>5. CASE PlaceCall
  BY <1>5, BoundsAssumption DEF PlaceCall, Goes, Counted, Counting, module
<1>6. CASE Verdict
  BY <1>6 DEF Verdict, Goes, Counted, Counting
<1> QED
  BY <1>1, <1>2, <1>3, <1>4, <1>5, <1>6 DEF mainLoop, activateHelper

(* However often commands fail or the session is lost in between, at most   *)
(* MAX_AUTO_ACTIVATE_RETRY over-the-air calls are made, and a module that   *)
(* is given up was called for at least once less than that; Counted tells   *)
(* more, namely that it is always once less.                                *)
THEOREM CallsAreBounded == Spec => []CallsBounded
<1>1. Init => Counted
  BY BoundsAssumption DEF Init, Counted, Counting
<1>2. Counted /\ [Next]_vars => Counted'
  <2> SUFFICES ASSUME Counted, [Next]_vars PROVE Counted'
    OBVIOUS
  <2>1. CASE onUnsolicited \/ ReaderClosed
    BY <2>1, CountedKept
       DEF onUnsolicited, OtaMessage, StoreCount, CopyMessage, ReaderClosed, Counting, module
  <2>2. CASE Available \/ requestScreenState \/ FormatStatus \/ CloseStatus \/ SignalChanges
    BY <2>2, CountedKept
       DEF Available, requestScreenState, FormatStatus, CloseStatus, SignalChanges, Counting,
           module
  <2>3. CASE UNCHANGED vars
    BY <2>3, CountedKept DEF vars, module, Counting
  <2> QED
    BY <2>1, <2>2, <2>3, CountedMain DEF Next
<1>3. Counted => CallsBounded
  BY BoundsAssumption DEF Counted, CallsBounded
<1> QED
  BY <1>1, <1>2, <1>3, PTL DEF Spec

(* MSG:8 is heard only from a modem that has its number, and is kept longer *)
(* than the call that sent it.                                              *)
Heard ==
    /\ reader.msg = "MSG:8" => programmed
    /\ otaMsg = "MSG:8" => programmed
    /\ moduleIsActivated = 1 => programmed

LEMMA HeardMain ==
    ASSUME Heard, mainLoop
    PROVE  Heard'
<1>1. CASE Query \/ LimitRetries \/ Verdict
  BY <1>1 DEF Query, LimitRetries, Verdict, Heard, messages, modem
<1>2. CASE PlaceCall
  BY <1>2 DEF PlaceCall, Heard, messages, module
<1>3. CASE WakeUp \/ CheckClosed \/ Reopen \/ QueryFails \/ WaitForOta \/ rilWriteStatus \/ fw100ModemTimer
  BY <1>3 DEF WakeUp, CheckClosed, Reopen, QueryFails, WaitForOta, rilWriteStatus,
              fw100ModemTimer, Heard, messages, module, modem
<1> QED
  BY <1>1, <1>2, <1>3 DEF mainLoop, activateHelper

LEMMA HeardReader ==
    ASSUME Heard, onUnsolicited
    PROVE  Heard'
<1>1. CASE OtaMessage
  <2>1. PICK m : /\ programmed' = (programmed \/ m = "MSG:8")
                 /\ reader' = IF unavailable THEN Idle
                             ELSE [at |-> "count", msg |-> m, cnt |-> otaMsgCnt]
    BY <1>1 DEF OtaMessage
  <2>2. reader'.msg = "MSG:8" => m = "MSG:8"
    BY <2>1 DEF Idle
  <2>3. UNCHANGED <<otaMsg, moduleIsActivated>>
    BY <1>1 DEF OtaMessage, module
  <2> QED
    BY <2>1, <2>2, <2>3 DEF Heard
<1>2. CASE StoreCount
  <2>1. reader'.msg = "MSG:8" => reader.msg = "MSG:8"
    BY <1>2 DEF StoreCount
  <2> QED
    BY <1>2, <2>1 DEF StoreCount, Heard, module, modem
<1>3. CASE CopyMessage
  BY <1>3 DEF CopyMessage, Heard, Idle, module, modem
<1> QED
  BY <1>1, <1>2, <1>3 DEF onUnsolicited

(* The driver takes a module for activated only if it is, although otaMsg   *)
(* is read while the reader thread writes it and may be of an earlier call. *)
THEOREM ActivatedIsProgrammed == Spec => []ActivatedMeansProgrammed
<1>1. Init => Heard
  BY DEF Init, Heard, Idle
<1>2. Heard /\ [Next]_vars => Heard'
  <2> SUFFICES ASSUME Heard, [Next]_vars PROVE Heard'
    OBVIOUS
  <2>1. CASE ReaderClosed \/ Available \/ requestScreenState \/ FormatStatus \/ CloseStatus
             \/ SignalChanges
    BY <2>1 DEF ReaderClosed, Available, requestScreenState, FormatStatus, CloseStatus,
                SignalChanges, Heard, messages, module, modem
  <2>2. CASE UNCHANGED vars
    BY <2>2 DEF vars, Heard, messages, module, modem
  <2> QED
    BY <2>1, <2>2, HeardMain, HeardReader DEF Next
<1>3. Heard => ActivatedMeansProgrammed
  BY DEF Heard, ActivatedMeansProgrammed
<1> QED
  BY <1>1, <1>2, <1>3, PTL DEF Spec

(* The state of the module changes only inside activateHelper, which ends   *)
(* with rilWriteStatus on every path; so a text that was formatted after    *)
(* the helper's last write, and what was written from such a text, is of    *)
(* the present state, unless the helper is about to write a newer one.      *)
Published ==
    /\ at # "status" /\ writing # "none" /\ ~crossed => writing = StatusText
    /\ at # "status" /\ statusFile # "none" /\ ~overtaken => statusFile = StatusText
    /\ crossed \in BOOLEAN /\ overtaken \in BOOLEAN

LEMMA PublishedKept ==
    ASSUME Published, UNCHANGED <<statusFile, writing, crossed, overtaken, moduleIsActivated>>,
           at' = "status" \/ at # "status"
    PROVE  Published'
BY DEF Published, StatusText

LEMMA PublishedMain ==
    ASSUME Published, mainLoop
    PROVE  Published'
<1>1. CASE rilWriteStatus
  <2>1. StatusText' = StatusText /\ UNCHANGED writing /\ crossed' = (writing # "none")
    BY <1>1 DEF rilWriteStatus, StatusText, module
  <2>2. \/ statusFile' = StatusText /\ overtaken' = FALSE
        \/ overtaken' = TRUE
    BY <1>1 DEF rilWriteStatus
  <2> QED
    BY <2>1, <2>2 DEF Published
<1>2. CASE Query
  <2>1. CASE programmed
    BY <1>2, <2>1 DEF Query, AfterQuery, Goes, Published, status
  <2>2. CASE ~programmed
    BY <1>2, <2>2, PublishedKept DEF Query, Goes, status
  <2> QED
    BY <2>1, <2>2
<1>3. CASE LimitRetries
  <2>1. at' = "status" \/ UNCHANGED moduleIsActivated
    BY <1>3 DEF LimitRetries, Goes
  <2>2. at # "status" /\ UNCHANGED <<statusFile, writing, crossed, overtaken>>
    BY <1>3 DEF LimitRetries, Goes, status
  <2> QED
    BY <2>1, <2>2, PublishedKept DEF Published
<1>4. CASE Verdict
  BY <1>4 DEF Verdict, Goes, Published, status
<1>5. CASE WakeUp \/ CheckClosed \/ Reopen \/ QueryFails \/ PlaceCall \/ WaitForOta
           \/ fw100ModemTimer
  BY <1>5, PublishedKept DEF WakeUp, CheckClosed, Reopen, QueryFails, PlaceCall, WaitForOta,
                             fw100ModemTimer, Goes, status, module
<1> QED
  BY <1>1, <1>2, <1>3, <1>4, <1>5 DEF mainLoop, activateHelper

(* After activateHelper the status file tells the state of the module if it *)
(* was last written by the helper, or from a text the request thread        *)
(* formatted after the helper's last write, for every retry limit and every *)
(* way the helper can end.                                                  *)
THEOREM StatusPublished == Spec => []StatusIsCurrent
<1>1. Init => Published
  BY DEF Init, Published
<1>2. Published /\ [Next]_vars => Published'
  <2> SUFFICES ASSUME Published, [Next]_vars PROVE Published'
    OBVIOUS
  <2>1. CASE FormatStatus
    BY <2>1 DEF FormatStatus, Published, StatusText, module
  <2>2. CASE CloseStatus
    BY <2>2 DEF CloseStatus, Published, StatusText, module
  <2>3. CASE onUnsolicited \/ ReaderClosed
    BY <2>3, PublishedKept DEF onUnsolicited, OtaMessage, StoreCount, CopyMessage,
                               ReaderClosed, status, module
  <2>4. CASE Available \/ requestScreenState \/ SignalChanges
    BY <2>4, PublishedKept DEF Available, requestScreenState, SignalChanges, status, module
  <2>5. CASE UNCHANGED vars
    BY <2>5, PublishedKept DEF vars, status, module
  <2> QED
    BY <2>1, <2>2, <2>3, <2>4, <2>5, PublishedMain DEF Next
<1>3. Published => StatusIsCurrent
  BY DEF Published, StatusIsCurrent
<1> QED
  BY <1>1, <1>2, <1>3, PTL DEF Spec

-----------------------------------------------------------------------------
(* The wait of activateHelper: its counter is back at 0 whenever nobody     *)
(* waits, so that every call gets the whole wait, and no more than that.    *)
Waited ==
    /\ at \notin {"wait", "verdict"} => retry = 0
    /\ at = "wait" => retry <= MaxWaits

TypeInv == TypeOK /\ Waited

Messages == {"none", "other", "MSG:8"}

LEMMA PolledType ==
    ASSUME TypeOK, NEW c \in Polls
    PROVE  Polled(c).saved \in Lines \cup {<<>>} /\ Polled(c).told \in Lines \cup {<<>>}
<1>1. pollSaved[c] \in Lines \cup {<<>>} /\ told[c] \in Lines \cup {<<>>} /\ line[c] \in Lines
  BY DEF TypeOK
<1> QED
  BY <1>1 DEF Polled

LEMMA TypeMain ==
    ASSUME TypeInv, mainLoop
    PROVE  TypeInv'
<1> USE BoundsAssumption
<1>1. CASE WakeUp \/ CheckClosed \/ Reopen
  <2>1. /\ at \notin {"wait", "verdict"} /\ at' \in {"query", "check", "reopen", "poll", "sleep"}
        /\ UNCHANGED <<unavailable, module, messages, retry, screenState, polling, status, modem,
                       calls, outlived, faults>>
    BY <1>1 DEF WakeUp, CheckClosed, Reopen, Goes, session
  <2>2. s_closed' \in BOOLEAN
    BY <1>1, Zenon DEF WakeUp, CheckClosed, Reopen, session, TypeInv, TypeOK
  <2> QED
    BY <2>1, <2>2 DEF TypeInv, TypeOK, Waited, Helper, module, messages, polling, status, modem
<1>8. CASE QueryFails
  <2>1. faults' \in 0..MaxFaults
    BY <1>8 DEF QueryFails, TypeInv, TypeOK
  <2> QED
    BY <1>8, <2>1 DEF QueryFails, Goes, TypeInv, TypeOK, Waited, Helper, session, module,
                      messages, polling, status, modem
<1>9. CASE Query
  BY <1>9 DEF Query, AfterQuery, Goes, TypeInv, TypeOK, Waited, Helper, session, module,
              messages, polling, status, modem
<1>2. CASE LimitRetries
  BY <1>2 DEF LimitRetries, Goes, TypeInv, TypeOK, Waited, Helper, session, module, messages,
              polling, status, modem
<1>3. CASE PlaceCall
  BY <1>3 DEF PlaceCall, Goes, TypeInv, TypeOK, Waited, Helper, session, module, messages,
              polling, status, modem
<1>4. CASE WaitForOta
  <2>1. retry' \in 0..MaxWaits + 1 /\ at' \in {"wait", "verdict"} /\ Waited'
    BY <1>4 DEF WaitForOta, Goes, TypeInv, TypeOK, Waited
  <2> QED
    BY <1>4, <2>1 DEF WaitForOta, TypeInv, TypeOK, Helper, session, module, messages, polling,
                      status, modem
<1>5. CASE Verdict
  BY <1>5 DEF Verdict, Goes, TypeInv, TypeOK, Waited, Helper, session, module, messages,
              polling, status, modem
<1>6. CASE rilWriteStatus
  <2>1. faults' \in 0..MaxFaults /\ statusFile' \in StatusTexts
    BY <1>6 DEF rilWriteStatus, StatusText, StatusTexts, TypeInv, TypeOK
  <2>2. crossed' \in BOOLEAN /\ overtaken' \in BOOLEAN
    BY <1>6, Zenon DEF rilWriteStatus
  <2> QED
    BY <1>6, <2>1, <2>2 DEF rilWriteStatus, Goes, TypeInv, TypeOK, Waited, Helper,
                      session, module, messages, polling, status, modem
<1>7. CASE fw100ModemTimer
  <2>1. /\ pollSaved' \in [Polls -> Lines \cup {<<>>}] /\ told' \in [Polls -> Lines \cup {<<>>}]
        /\ faults' \in 0..MaxFaults
    <3>1. PICK answered \in SUBSET Polls :
            /\ IF s_closed THEN answered = {} /\ UNCHANGED faults
               ELSE \/ answered = Polls /\ UNCHANGED faults
                    \/ answered # Polls /\ faults < MaxFaults /\ faults' = faults + 1
            /\ pollSaved' = [c \in Polls |-> IF c \in answered THEN Polled(c).saved ELSE pollSaved[c]]
            /\ told' = [c \in Polls |-> IF c \in answered THEN Polled(c).told ELSE told[c]]
      BY <1>7 DEF fw100ModemTimer
    <3>2. faults' \in 0..MaxFaults
      BY <3>1 DEF TypeInv, TypeOK
    <3>3. pollSaved' \in [Polls -> Lines \cup {<<>>}]
      BY <3>1, PolledType DEF TypeInv, TypeOK
    <3>4. told' \in [Polls -> Lines \cup {<<>>}]
      BY <3>1, PolledType DEF TypeInv, TypeOK
    <3> QED
      BY <3>2, <3>3, <3>4
  <2> QED
    BY <1>7, <2>1 DEF fw100ModemTimer, Goes, TypeInv, TypeOK, Waited, Helper, session, module,
                      messages, polling, status, modem
<1> QED
  BY <1>1, <1>2, <1>3, <1>4, <1>5, <1>6, <1>7, <1>8, <1>9 DEF mainLoop, activateHelper

LEMMA TypeReader ==
    ASSUME TypeInv, onUnsolicited
    PROVE  TypeInv'
<1> USE BoundsAssumption
<1>1. CASE OtaMessage
  <2>1. PICK m \in {"other", "MSG:8"} :
            /\ programmed' = (programmed \/ m = "MSG:8")
            /\ reader' = IF unavailable THEN Idle
                         ELSE [at |-> "count", msg |-> m, cnt |-> otaMsgCnt]
    BY <1>1 DEF OtaMessage
  <2>2. reader' \in [at : {"idle", "count", "copy"}, msg : Messages, cnt : Nat]
    BY <2>1 DEF Idle, Messages, TypeInv, TypeOK
  <2>3. programmed' \in BOOLEAN /\ ota' \in 0..OtaLength
    BY <1>1, <2>1 DEF OtaMessage, TypeInv, TypeOK
  <2> QED
    BY <1>1, <2>2, <2>3 DEF OtaMessage, TypeInv, TypeOK, Messages, Waited, Helper, session,
                            module, messages, polling, status, modem
<1>2. CASE StoreCount \/ CopyMessage
  <2>1. reader' \in [at : {"idle", "count", "copy"}, msg : Messages, cnt : Nat]
    BY <1>2 DEF StoreCount, CopyMessage, Idle, Messages, TypeInv, TypeOK
  <2>2. otaMsgCnt' \in Nat /\ otaMsg' \in Messages
    BY <1>2 DEF StoreCount, CopyMessage, Messages, TypeInv, TypeOK
  <2> QED
    BY <1>2, <2>1, <2>2 DEF StoreCount, CopyMessage, TypeInv, TypeOK, Messages, Waited, Helper,
                            session, module, messages, polling, status, modem
<1> QED
  BY <1>1, <1>2 DEF onUnsolicited

(* For every retry limit, wait and call: every variable keeps its type, and *)
(* neither the wait of activateHelper nor its retries leave their limits,   *)
(* whatever fails and whenever the session is lost.                         *)
THEOREM TimerTypeCorrect == Spec => []TypeOK
<1> USE BoundsAssumption
<1>1. Init => TypeInv
  <2> SUFFICES ASSUME Init PROVE TypeInv
    OBVIOUS
  <2>1. /\ pollSaved \in [Polls -> Lines \cup {<<>>}] /\ told \in [Polls -> Lines \cup {<<>>}]
        /\ line \in [Polls -> Lines]
    BY DEF Init
  <2>2. /\ moduleAutoActivate \in BOOLEAN /\ s_closed \in BOOLEAN /\ unavailable \in BOOLEAN
        /\ screenState \in BOOLEAN /\ crossed \in BOOLEAN /\ overtaken \in BOOLEAN
        /\ outlived \in BOOLEAN
        /\ programmed \in BOOLEAN
    BY Zenon DEF Init, rilReadControl
  <2>3. reader \in [at : {"idle", "count", "copy"}, msg : Messages, cnt : Nat]
    BY DEF Init, Idle, Messages
  <2>4. /\ moduleIsActivated \in 0..2 /\ moduleActivateRetry \in 0..MAX_AUTO_ACTIVATE_RETRY
        /\ otaMsgCnt \in Nat /\ retry \in 0..MaxWaits + 1 /\ ota \in 0..OtaLength
        /\ calls \in Nat /\ faults \in 0..MaxFaults
    BY DEF Init
  <2> QED
    BY <2>1, <2>2, <2>3, <2>4
       DEF Init, TypeInv, TypeOK, Waited, Helper, StatusTexts, Messages
<1>2. TypeInv /\ [Next]_vars => TypeInv'
  <2> SUFFICES ASSUME TypeInv, [Next]_vars PROVE TypeInv'
    OBVIOUS
  <2>1. CASE ReaderClosed
    <3>1. faults' \in 0..MaxFaults /\ ota' \in 0..OtaLength
      BY <2>1 DEF ReaderClosed, TypeInv, TypeOK
    <3> QED
      BY <2>1, <3>1 DEF ReaderClosed, TypeInv, TypeOK, Waited, session, module, messages,
                        polling, status, modem
  <2>5. CASE Available \/ requestScreenState
    <3>1. unavailable' \in BOOLEAN /\ screenState' \in BOOLEAN
      BY <2>5, Zenon DEF Available, requestScreenState, session, TypeInv, TypeOK
    <3> QED
      BY <2>5, <3>1 DEF Available, requestScreenState, TypeInv, TypeOK, Waited, session, module,
                        messages, polling, status, modem
  <2>2. CASE FormatStatus \/ CloseStatus
    <3>1. statusFile' \in StatusTexts /\ writing' \in StatusTexts
      BY <2>2 DEF FormatStatus, CloseStatus, StatusText, StatusTexts, TypeInv, TypeOK
    <3>2. crossed' \in BOOLEAN /\ overtaken' \in BOOLEAN
      BY <2>2, Zenon DEF FormatStatus, CloseStatus, TypeInv, TypeOK
    <3> QED
      BY <2>2, <3>1, <3>2 DEF FormatStatus, CloseStatus, TypeInv, TypeOK, Waited, session, module,
                        messages, polling, status, modem
  <2>3. CASE SignalChanges
    <3>1. line' \in [Polls -> Lines]
      BY <2>3 DEF SignalChanges, TypeInv, TypeOK
    <3> QED
      BY <2>3, <3>1 DEF SignalChanges, TypeInv, TypeOK, Waited, Helper, session, module, messages,
                polling, status, modem
  <2>4. CASE UNCHANGED vars
    BY <2>4 DEF vars, TypeInv, TypeOK, Waited, session, module, messages, polling, status, modem
  <2> QED
    BY <2>1, <2>2, <2>3, <2>4, <2>5, TypeMain, TypeReader DEF Next
<1> QED
  BY <1>1, <1>2, PTL DEF Spec, TypeInv
=============================================================================
