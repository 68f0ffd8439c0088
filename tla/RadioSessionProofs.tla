------------------------- MODULE RadioSessionProofs -------------------------
(***************************************************************************)
(* Proofs about modem sessions for any number of sessions and requests.    *)
(***************************************************************************)
EXTENDS RadioSession, TLAPS

LEMMA ActorFacts == /\ NoOne \notin Actors /\ Request \in Actors
                    /\ Request \notin Sessions
                    /\ \A n \in Sessions : n \in Actors
BY BoundsAssumption DEF NoOne, Actors, Request, Sessions

Settings == [step : Steps, new : RadioStates, old : RadioStates]

LEMMA SetType ==
    ASSUME TypeOK, NEW a \in Actors, NEW new \in RadioStates, setRadioState(a, new)
    PROVE  setting' \in [Actors -> Settings]
BY DEF TypeOK, setRadioState, Settings, Steps

LEMMA StepType ==
    ASSUME TypeOK, NEW a \in Actors, NEW step \in Steps, StepTo(a, step)
    PROVE  setting' \in [Actors -> Settings]
BY DEF TypeOK, StepTo, Settings

(* Every variable of the session keeps its type. *)
THEOREM SessionTypeCorrect == Spec => []TypeOK
<1>1. Init => TypeOK
  <2> SUFFICES ASSUME Init PROVE TypeOK
    OBVIOUS
  <2>1. setting \in [Actors -> Settings] /\ readerPc \in [Sessions -> ReaderPcs]
    BY DEF Init, Settings, Steps, RadioStates, ReaderPcs
  <2>2. opens \in 0..MaxOpens /\ s_fd \in 0..MaxOpens /\ onIn \in 0..MaxOpens
        /\ nRequests \in 0..MaxRequests /\ callbacks \in Nat /\ served \in Nat
    BY BoundsAssumption DEF Init
  <2> QED
    BY <2>1, <2>2 DEF Init, TypeOK, Settings, RadioStates, MainPcs, RequestPcs
<1>2. TypeOK /\ [Next]_vars => TypeOK'
  <2> SUFFICES ASSUME TypeOK, [Next]_vars PROVE TypeOK'
    OBVIOUS
  <2> USE ActorFacts
  <2>1. ASSUME NEW a \in Actors, RunSetRadioState(a) PROVE TypeOK'
    <3>1. CASE Lock(a)
      <4>1. setting' \in [Actors -> Settings]
        BY <3>1 DEF Lock, TypeOK, Settings, Steps, RadioStates
      <4> QED
        BY <2>1, <3>1, <4>1
           DEF RunSetRadioState, Lock, TypeOK, Settings, mainVars, requestVars
    <3>2. CASE Store(a)
      <4>1. setting' \in [Actors -> Settings] /\ sState' \in RadioStates
        BY <3>2, StepType DEF Store, TypeOK, Steps
      <4> QED
        BY <2>1, <3>2, <4>1
           DEF RunSetRadioState, Store, TypeOK, Settings, mainVars, requestVars
    <3>3. CASE Notify(a)
      <4>1. setting' \in [Actors -> Settings]
        BY <3>3, StepType DEF Notify, Steps
      <4> QED
        BY <2>1, <3>3, <4>1
           DEF RunSetRadioState, Notify, TypeOK, Settings, mainVars, requestVars
    <3> QED
      BY <2>1, <3>1, <3>2, <3>3 DEF RunSetRadioState
  <2>2. CASE mainLoop
    <3>1. opens' \in 0..MaxOpens
      BY <2>2, BoundsAssumption
         DEF mainLoop, OpenDevice, sync_modem, ClearClosed, at_open, QueueCallback, SeeClosed, TypeOK
    <3>2. mainPc' \in MainPcs /\ callbacks' \in Nat /\ readerPc' \in [Sessions -> ReaderPcs]
      BY <2>2
         DEF mainLoop, OpenDevice, sync_modem, ClearClosed, at_open, QueueCallback, SeeClosed, Main,
             TypeOK, MainPcs, ReaderPcs, requestVars
    <3>3. s_closed' \in BOOLEAN /\ s_readerClosed' \in BOOLEAN /\ s_fd' \in 0..MaxOpens
      BY <2>2
         DEF mainLoop, OpenDevice, sync_modem, ClearClosed, at_open, QueueCallback, SeeClosed, TypeOK
    <3>4. UNCHANGED <<stateVars, setting, requestPc, served, onOff, reply, nRequests, rf,
                      vpon, onIn, gone>>
      BY <2>2
         DEF mainLoop, OpenDevice, sync_modem, ClearClosed, at_open, QueueCallback, SeeClosed, requestVars
    <3> QED
      BY <3>1, <3>2, <3>3, <3>4 DEF TypeOK, stateVars
  <2>3. ASSUME NEW n \in Sessions, readerLoop(n) PROVE TypeOK'
    <3>1. readerPc' \in [Sessions -> ReaderPcs]
      BY <2>3 DEF readerLoop, onReaderClosed, at_close, ReportClose, ReaderDies, ReaderAt,
                  TypeOK, ReaderPcs
    <3>2. setting' \in [Actors -> Settings]
      BY <2>3, SetType DEF readerLoop, onReaderClosed, at_close, ReportClose, ReaderDies,
                  TypeOK, Settings, RadioStates
    <3>3. s_closed' \in BOOLEAN /\ s_readerClosed' \in BOOLEAN /\ s_fd' \in {s_fd, 0}
      BY <2>3 DEF readerLoop, onReaderClosed, at_close, ReportClose, ReaderDies, TypeOK
    <3>5. s_fd' \in 0..MaxOpens
      BY <3>3, BoundsAssumption DEF TypeOK
    <3>4. UNCHANGED <<stateVars, mainVars, requestVars, gone>>
      BY <2>3 DEF readerLoop, onReaderClosed, at_close, ReportClose, ReaderDies
    <3> QED
      BY <3>1, <3>2, <3>3, <3>4, <3>5 DEF TypeOK, Settings, stateVars, mainVars, requestVars
  <2>4. CASE RequestThread
    <3>1. setting' \in [Actors -> Settings]
      BY <2>4, SetType
         DEF RequestThread, initializeCallback, FinishInitialize, PowerOff, PowerOn,
             PowerOnError, PowerOnCheck, PowerComplete, Fails, TypeOK, Settings, RadioStates
    <3>2. callbacks' \in Nat /\ served' \in Nat
      BY <2>4
         DEF RequestThread, initializeCallback, FinishInitialize, PowerOff, PowerOn,
             PowerOnError, PowerOnCheck, PowerComplete, TypeOK
    <3>3. requestPc' \in RequestPcs /\ reply' \in {"none", "SUCCESS", "GENERIC_FAILURE"}
      BY <2>4
         DEF RequestThread, initializeCallback, FinishInitialize, PowerOff, PowerOn,
             PowerOnError, PowerOnCheck, PowerComplete, Fails, RequestAt, RequestPcs, TypeOK
    <3>4. vpon' \in {"none", "on", "off"} /\ rf' \in BOOLEAN
      BY <2>4
         DEF RequestThread, initializeCallback, FinishInitialize, PowerOff, PowerOn,
             PowerOnError, PowerOnCheck, PowerComplete, VPONAnswers, NoAnswer, Answered, TypeOK
    <3>5. onIn' \in 0..MaxOpens /\ UNCHANGED <<sessionVars, onOff, nRequests>>
      BY <2>4
         DEF RequestThread, initializeCallback, FinishInitialize, PowerOff, PowerOn,
             PowerOnError, PowerOnCheck, PowerComplete, TypeOK
    <3> QED
      BY <3>1, <3>2, <3>3, <3>4, <3>5
         DEF TypeOK, sessionVars, stateVars, mainVars, Settings
  <2>5. ASSUME NEW on \in BOOLEAN, requestRadioPower(on) PROVE TypeOK'
    <3>1. nRequests' \in 0..MaxRequests
      BY <2>5, BoundsAssumption DEF requestRadioPower, TypeOK
    <3>2. requestPc' \in RequestPcs
      BY <2>5 DEF requestRadioPower, RequestAt, PowerCommand, RequestPcs
    <3> QED
      BY <2>5, <3>1, <3>2 DEF requestRadioPower, TypeOK, sessionVars, stateVars, mainVars
  <2>6. CASE Hangup
    <3>1. opens \in Sessions
      BY <2>6, BoundsAssumption DEF Hangup, Sessions
    <3>2. gone' \subseteq Sessions
      BY <2>6, <3>1 DEF Hangup, TypeOK
    <3>3. rf' \in BOOLEAN
      BY <2>6 DEF Hangup, TypeOK
    <3> QED
      BY <2>6, <3>2, <3>3 DEF Hangup, TypeOK, stateVars, mainVars
  <2>7. CASE UNCHANGED vars
    BY <2>7 DEF vars, TypeOK, stateVars, mainVars, requestVars
  <2> QED
    BY <2>1, <2>2, <2>3, <2>4, <2>5, <2>6, <2>7 DEF Next
<1> QED
  BY <1>1, <1>2, PTL DEF Spec

-----------------------------------------------------------------------------
(* The strengthening.  Only the holder of s_state_mutex is storing, and it  *)
(* still sees the state it read; a reader sets UNAVAILABLE and nothing      *)
(* else, at its end; the reader of a session still to be started does not    *)
(* exist yet; while the session is closed the close is about to be          *)
(* reported, or it was and nobody is about to store anything else; and a    *)
(* state the framework has not read yet has somebody who will notify it.    *)
MutexInv ==
    \A a \in Actors : setting[a].step = "store" =>
                          s_state_mutex = a /\ setting[a].old = sState

ReaderInv ==
    \A n \in Sessions : setting[n].step # "done" =>
                            setting[n].new = "UNAVAILABLE" /\ readerPc[n] = "reporting"

FreshInv ==
    \A n \in Sessions :
        n > opens \/ (n = opens /\ mainPc \in {"syncing", "opened", "starting"}) => readerPc[n] = "none"

ClosedInv ==
    s_closed => \/ \E n \in Sessions : Reporting(n)
                \/ /\ sState = "UNAVAILABLE"
                   /\ \A a \in Actors : setting[a].step = "store" =>
                                            setting[a].new = "UNAVAILABLE"

KnownInv ==
    known # sState => \E a \in Actors : setting[a].step = "notify" /\ setting[a].old # sState

SettingInv == MutexInv /\ ReaderInv /\ FreshInv /\ ClosedInv /\ KnownInv

(* A step that leaves setRadioState and its callers alone. *)
LEMMA SettingKept ==
    ASSUME SettingInv, FreshInv', UNCHANGED <<sState, s_state_mutex, known, setting>>,
           \A n \in Sessions : setting[n].step = "done" \/ readerPc'[n] = readerPc[n],
           s_closed' => s_closed
    PROVE  SettingInv'
<1>1. MutexInv' /\ ReaderInv' /\ KnownInv'
  BY DEF SettingInv, MutexInv, ReaderInv, KnownInv
<1>2. ClosedInv'
  BY DEF SettingInv, ClosedInv, Reporting
<1> QED
  BY <1>1, <1>2 DEF SettingInv

(* A call of setRadioState by a caller that is not inside it. *)
LEMMA SettingCalled ==
    ASSUME TypeOK, SettingInv, FreshInv', NEW a \in Actors, NEW new \in RadioStates,
           Done(a), setRadioState(a, new),
           a \in Sessions => new = "UNAVAILABLE" /\ readerPc'[a] = "reporting",
           \A n \in Sessions : n # a => readerPc'[n] = readerPc[n],
           UNCHANGED <<sState, s_state_mutex, known>>,
           a = Request => s_closed' = s_closed
    PROVE  SettingInv'
<1> USE ActorFacts
<1>1. /\ setting'[a] = [step |-> "lock", new |-> new, old |-> sState]
      /\ \A b \in Actors : b # a => setting'[b] = setting[b]
  BY DEF TypeOK, setRadioState
<1>2. MutexInv'
  BY <1>1 DEF SettingInv, MutexInv
<1>3. ReaderInv'
  BY <1>1 DEF SettingInv, ReaderInv
<1>4. ClosedInv'
  <2>1. CASE a = Request
    <3>1. \A n \in Sessions : setting'[n] = setting[n] /\ readerPc'[n] = readerPc[n]
      BY <1>1, <2>1
    <3>2. \A n \in Sessions : Reporting(n) => Reporting(n)'
      BY <3>1 DEF Reporting
    <3>3. \A b \in Actors : setting'[b].step = "store" => setting'[b] = setting[b]
      BY <1>1
    <3>4. CASE \E n \in Sessions : Reporting(n)
      BY <3>2, <3>4 DEF ClosedInv
    <3>5. CASE ~\E n \in Sessions : Reporting(n)
      BY <2>1, <3>3, <3>5 DEF SettingInv, ClosedInv
    <3> QED
      BY <3>4, <3>5
  <2>2. CASE a \in Sessions
    BY <1>1, <2>2 DEF ClosedInv, Reporting
  <2> QED
    BY <2>1, <2>2 DEF Actors
<1>5. KnownInv'
  BY <1>1 DEF SettingInv, KnownInv, Done
<1> QED
  BY <1>2, <1>3, <1>4, <1>5 DEF SettingInv

LEMMA SettingRun ==
    ASSUME TypeOK, SettingInv, NEW a \in Actors, RunSetRadioState(a)
    PROVE  SettingInv'
<1> USE ActorFacts
<1>0. FreshInv'
  BY DEF SettingInv, FreshInv, RunSetRadioState, mainVars
<1>1. CASE Lock(a)
  <2>1. /\ setting'[a].step = "store" /\ setting'[a].old = sState
        /\ setting'[a].new = IF s_closed THEN "UNAVAILABLE" ELSE setting[a].new
        /\ \A b \in Actors : b # a => setting'[b] = setting[b]
        /\ setting[a].step = "lock" /\ s_state_mutex = NoOne /\ s_state_mutex' = a
        /\ UNCHANGED <<sState, known, s_closed, readerPc>>
    BY <1>1 DEF Lock, TypeOK, RunSetRadioState
  <2>2. MutexInv'
    BY <2>1 DEF SettingInv, MutexInv
  <2>3. ReaderInv'
    BY <2>1 DEF SettingInv, ReaderInv
  <2>4. ClosedInv'
    BY <2>1 DEF SettingInv, ClosedInv, Reporting
  <2>5. KnownInv'
    BY <2>1 DEF SettingInv, KnownInv
  <2> QED
    BY <1>0, <2>2, <2>3, <2>4, <2>5 DEF SettingInv
<1>2. CASE Store(a)
  <2>1. /\ setting'[a].step = "notify" /\ setting'[a].old = setting[a].old
        /\ setting'[a].new = setting[a].new
        /\ \A b \in Actors : b # a => setting'[b] = setting[b]
        /\ setting[a].step = "store" /\ sState' = setting[a].new /\ s_state_mutex' = NoOne
        /\ UNCHANGED <<known, s_closed, readerPc>>
    BY <1>2 DEF Store, StepTo, TypeOK, RunSetRadioState
  <2>2. \A b \in Actors : setting[b].step = "store" => b = a
    BY <2>1 DEF SettingInv, MutexInv
  <2>3. MutexInv'
    BY <2>1, <2>2 DEF SettingInv, MutexInv
  <2>4. ReaderInv'
    BY <2>1 DEF SettingInv, ReaderInv
  <2>5. ClosedInv'
    BY <2>1, <2>2 DEF SettingInv, ClosedInv, ReaderInv, Reporting
  <2>6. KnownInv'
    BY <2>1, <2>2 DEF SettingInv, KnownInv, MutexInv
  <2> QED
    BY <1>0, <2>3, <2>4, <2>5, <2>6 DEF SettingInv
<1>3. CASE Notify(a)
  <2>1. /\ setting'[a].step = "done"
        /\ \A b \in Actors : b # a => setting'[b] = setting[b]
        /\ setting[a].step = "notify"
        /\ known' = IF sState # setting[a].old THEN sState ELSE known
        /\ UNCHANGED <<sState, s_state_mutex, s_closed, readerPc>>
    BY <1>3 DEF Notify, StepTo, TypeOK, RunSetRadioState
  <2>2. MutexInv'
    BY <2>1 DEF SettingInv, MutexInv
  <2>3. ReaderInv'
    BY <2>1 DEF SettingInv, ReaderInv
  <2>4. ClosedInv'
    BY <2>1 DEF SettingInv, ClosedInv, Reporting
  <2>5. KnownInv'
    BY <2>1 DEF SettingInv, KnownInv
  <2> QED
    BY <1>0, <2>2, <2>3, <2>4, <2>5 DEF SettingInv
<1> QED
  BY <1>1, <1>2, <1>3 DEF RunSetRadioState

LEMMA SettingInductive == TypeOK /\ SettingInv /\ [Next]_vars => SettingInv'
<1> SUFFICES ASSUME TypeOK, SettingInv, [Next]_vars PROVE SettingInv'
  OBVIOUS
<1> USE ActorFacts
<1>1. CASE mainLoop
  <2>1. opens \in Nat /\ opens' \in Nat
    BY <1>1, BoundsAssumption
       DEF mainLoop, OpenDevice, sync_modem, ClearClosed, at_open, QueueCallback, SeeClosed, TypeOK
  <2>2. FreshInv' /\ \A n \in Sessions : setting[n].step = "done" \/ readerPc'[n] = readerPc[n]
    <3>1. CASE at_open
      BY <2>1, <3>1 DEF at_open, Main, SettingInv, FreshInv, ReaderInv, TypeOK, Sessions
    <3>2. CASE OpenDevice
      BY <2>1, <3>2 DEF OpenDevice, Main, SettingInv, FreshInv, Sessions
    <3>3. CASE sync_modem \/ ClearClosed \/ QueueCallback \/ SeeClosed
      BY <3>3 DEF sync_modem, ClearClosed, QueueCallback, SeeClosed, Main, SettingInv, FreshInv
    <3> QED
      BY <1>1, <3>1, <3>2, <3>3 DEF mainLoop
  <2>3. UNCHANGED <<sState, s_state_mutex, known, setting>> /\ (s_closed' => s_closed)
    BY <1>1 DEF mainLoop, OpenDevice, sync_modem, ClearClosed, at_open, QueueCallback, SeeClosed, stateVars
  <2> QED
    BY <2>2, <2>3, SettingKept
<1>2. ASSUME NEW n \in Sessions, readerLoop(n) PROVE SettingInv'
  <2>1. /\ readerPc[n] # "none"
        /\ \A m \in Sessions : m # n => readerPc'[m] = readerPc[m]
        /\ UNCHANGED <<sState, s_state_mutex, known, opens, mainPc>>
    BY <1>2 DEF readerLoop, onReaderClosed, at_close, ReportClose, ReaderDies, ReaderAt, TypeOK,
                stateVars, mainVars
  <2>2. FreshInv'
    BY <2>1 DEF SettingInv, FreshInv
  <2>3. Done(n)
    BY <1>2 DEF readerLoop, onReaderClosed, at_close, ReportClose, ReaderDies, ReaderAt, TypeOK,
                Done, SettingInv, ReaderInv
  <2>4. CASE ReportClose(n)
    <3>1. setRadioState(n, "UNAVAILABLE") /\ readerPc'[n] = "reporting"
      BY <2>4 DEF ReportClose, ReaderAt, TypeOK
    <3> QED
      BY <2>1, <2>2, <2>3, <3>1, SettingCalled DEF RadioStates
  <2>5. CASE ~ReportClose(n)
    <3>1. UNCHANGED <<setting, s_closed>>
      BY <1>2, <2>5 DEF readerLoop, onReaderClosed, at_close, ReaderDies
    <3> QED
      BY <2>1, <2>2, <2>3, <3>1, SettingKept DEF Done
  <2> QED
    BY <2>4, <2>5
<1>3. CASE RequestThread \/ \E on \in BOOLEAN : requestRadioPower(on)
  <2>1. Done(Request) /\ UNCHANGED sessionVars
    BY <1>3 DEF RequestThread, initializeCallback, FinishInitialize, PowerOff, PowerOn,
                PowerOnError, PowerOnCheck, PowerComplete, requestRadioPower, RequestAt
  <2>2. UNCHANGED setting \/ \E new \in RadioStates : setRadioState(Request, new)
    BY <1>3 DEF RequestThread, initializeCallback, FinishInitialize, PowerOff, PowerOn,
                PowerOnError, PowerOnCheck, PowerComplete, requestRadioPower, Fails, RadioStates
  <2>3. FreshInv' /\ UNCHANGED <<sState, s_state_mutex, known, s_closed, readerPc>>
    BY <2>1 DEF SettingInv, FreshInv, sessionVars, stateVars, mainVars
  <2> QED
    BY <2>1, <2>2, <2>3, SettingKept, SettingCalled
<1>4. CASE Hangup \/ UNCHANGED vars
  <2>1. UNCHANGED <<sState, s_state_mutex, known, setting, s_closed, readerPc, mainPc, opens>>
    BY <1>4 DEF Hangup, vars, stateVars, mainVars
  <2>2. FreshInv'
    BY <2>1 DEF SettingInv, FreshInv
  <2> QED
    BY <2>1, <2>2, SettingKept
<1> QED
  BY <1>1, <1>2, <1>3, <1>4, SettingRun DEF Next

LEMMA SettingAlways == Spec => []SettingInv
<1>1. Init => SettingInv
  BY ActorFacts DEF Init, SettingInv, MutexInv, ReaderInv, FreshInv, ClosedInv, KnownInv
<1> QED
  BY <1>1, SettingInductive, SessionTypeCorrect, PTL DEF Spec

(* For any number of sessions and requests: once its reader has reported it *)
(* a closed session is UNAVAILABLE for as long as it stays marked closed.   *)
THEOREM ClosedCorrect == Spec => []ClosedMeansUnavailable
<1>1. SettingInv => ClosedMeansUnavailable
  BY DEF SettingInv, ClosedInv, ClosedMeansUnavailable
<1> QED
  BY <1>1, SettingAlways, PTL

(* For any number of sessions and requests: no interleaving of callers of   *)
(* setRadioState loses the notification of the state that stays.            *)
THEOREM NotificationCorrect == Spec => []FrameworkKnowsState
<1>1. SettingInv => FrameworkKnowsState
  BY DEF SettingInv, KnownInv, FrameworkKnowsState
<1> QED
  BY <1>1, SettingAlways, PTL

-----------------------------------------------------------------------------
(* What one session owes to the one before it.  mainLoop opens a port only  *)
(* after the reader of the last one has marked its session closed, so at    *)
(* most the reader of the current session is still reading or closing, and  *)
(* the channel's descriptor is the current session's or none.               *)
Ended == {"reporting", "dead"}

EndedInv ==
    \A n \in Sessions : n < opens \/ (n = opens /\ mainPc = "open") => readerPc[n] \in Ended

MarkedInv ==
    s_closed /\ mainPc \in {"starting", "started", "watching"} =>
        mainPc # "starting" /\ readerPc[opens] \in Ended

DescriptorInv ==
    s_fd # 0 => /\ s_fd = opens /\ mainPc \in {"started", "watching"}
                /\ readerPc[opens] \in {"reading", "closing"}

ReadingInv == \A n \in Sessions : readerPc[n] = "reading" => ~s_readerClosed

SessionInv == EndedInv /\ MarkedInv /\ DescriptorInv /\ ReadingInv

(* A reader that has not reported its end yet is the current session's. *)
LEMMA LiveReader ==
    ASSUME TypeOK, SettingInv, SessionInv, NEW n \in Sessions,
           readerPc[n] \in {"reading", "closing", "closed"}
    PROVE  n = opens /\ mainPc \in {"started", "watching"} /\ ~s_closed
<1>1. opens \in Nat /\ n \in Nat
  BY BoundsAssumption DEF TypeOK, Sessions
<1>2. ~(n < opens) /\ ~(n > opens)
  BY DEF SettingInv, FreshInv, SessionInv, EndedInv, Ended
<1>3. n = opens
  BY <1>1, <1>2
<1>4. mainPc \in {"started", "watching"}
  BY <1>3 DEF SettingInv, FreshInv, SessionInv, EndedInv, Ended, TypeOK, MainPcs
<1>5. ~s_closed
  BY <1>3, <1>4 DEF SessionInv, MarkedInv, Ended
<1> QED
  BY <1>3, <1>4, <1>5

LEMMA SessionInductive == TypeOK /\ SettingInv /\ SessionInv /\ [Next]_vars => SessionInv'
<1> SUFFICES ASSUME TypeOK, SettingInv, SessionInv, [Next]_vars PROVE SessionInv'
  OBVIOUS
<1>0. opens \in Nat /\ \A n \in Sessions : n \in Nat \ {0}
  BY BoundsAssumption DEF TypeOK, Sessions
<1>1. CASE OpenDevice
  <2>1. opens' = opens + 1 /\ mainPc = "open" /\ mainPc' = "syncing"
        /\ UNCHANGED <<readerPc, s_closed, s_fd, s_readerClosed>>
    BY <1>1 DEF OpenDevice, Main
  <2>2. s_fd = 0
    BY <2>1 DEF SessionInv, DescriptorInv
  <2>3. EndedInv'
    BY <1>0, <2>1 DEF SessionInv, EndedInv
  <2> QED
    BY <2>1, <2>2, <2>3 DEF SessionInv, MarkedInv, DescriptorInv, ReadingInv
<1>2. CASE sync_modem \/ ClearClosed \/ QueueCallback
  BY <1>2 DEF sync_modem, ClearClosed, QueueCallback, Main,
              SessionInv, EndedInv, MarkedInv, DescriptorInv, ReadingInv
<1>3. CASE SeeClosed
  <2>1. /\ s_closed /\ mainPc = "watching" /\ mainPc' = "open"
        /\ UNCHANGED <<readerPc, s_closed, s_fd, s_readerClosed, opens>>
    BY <1>3 DEF SeeClosed, Main
  <2>2. readerPc[opens] \in Ended
    BY <2>1 DEF SessionInv, MarkedInv
  <2>3. s_fd = 0
    BY <2>2 DEF SessionInv, DescriptorInv, Ended
  <2> QED
    BY <2>1, <2>2, <2>3 DEF SessionInv, EndedInv, MarkedInv, DescriptorInv, ReadingInv
<1>4. CASE at_open
  <2>1. /\ mainPc = "starting" /\ mainPc' = "started" /\ s_fd' = opens
        /\ s_readerClosed' = FALSE /\ UNCHANGED <<s_closed, opens>>
        /\ readerPc' = [readerPc EXCEPT ![opens] = "reading"]
    BY <1>4 DEF at_open, Main
  <2>2. ~s_closed
    BY <2>1 DEF SessionInv, MarkedInv
  <2>3. EndedInv'
    BY <1>0, <2>1 DEF SessionInv, EndedInv, TypeOK
  <2>4. DescriptorInv'
    <3>1. opens # 0 => opens \in Sessions
      BY BoundsAssumption DEF TypeOK, Sessions
    <3> QED
      BY <2>1, <3>1 DEF DescriptorInv, TypeOK
  <2> QED
    BY <2>1, <2>2, <2>3, <2>4 DEF SessionInv, MarkedInv, ReadingInv
<1>5. ASSUME NEW n \in Sessions, readerLoop(n) PROVE SessionInv'
  <2>0. /\ UNCHANGED <<mainPc, opens>>
        /\ \A m \in Sessions : m # n => readerPc'[m] = readerPc[m]
    BY <1>5 DEF readerLoop, onReaderClosed, at_close, ReportClose, ReaderDies, ReaderAt,
                mainVars, TypeOK
  <2>1. CASE onReaderClosed(n)
    <3>1. /\ readerPc[n] = "reading" /\ s_readerClosed' = TRUE /\ UNCHANGED <<s_closed, s_fd>>
          /\ readerPc'[n] = IF s_readerClosed THEN "dead" ELSE "closing"
      BY <2>1 DEF onReaderClosed, ReaderAt, TypeOK
    <3>2. n = opens /\ mainPc \in {"started", "watching"} /\ ~s_closed
      BY <3>1, LiveReader
    <3>3. readerPc'[n] = "closing"
      BY <3>1 DEF SessionInv, ReadingInv
    <3>4. \A m \in Sessions : readerPc'[m] # "reading"
      BY <2>0, <3>2, <3>3, LiveReader
    <3> QED
      BY <1>0, <2>0, <3>1, <3>2, <3>3, <3>4
         DEF SessionInv, EndedInv, MarkedInv, DescriptorInv, ReadingInv
  <2>2. CASE at_close(n)
    <3>1. /\ readerPc[n] = "closing" /\ readerPc'[n] = "closed"
          /\ s_fd' = 0 /\ UNCHANGED s_closed
      BY <2>2 DEF at_close, ReaderAt, TypeOK
    <3>2. n = opens /\ mainPc \in {"started", "watching"} /\ ~s_closed
      BY <3>1, LiveReader
    <3>3. \A m \in Sessions : readerPc'[m] # "reading"
      BY <2>0, <3>1, <3>2, LiveReader
    <3> QED
      BY <1>0, <2>0, <3>1, <3>2, <3>3
         DEF SessionInv, EndedInv, MarkedInv, DescriptorInv, ReadingInv
  <2>3. CASE ReportClose(n)
    <3>1. /\ readerPc[n] = "closed" /\ readerPc'[n] = "reporting"
          /\ UNCHANGED <<s_fd, s_readerClosed>>
      BY <2>3 DEF ReportClose, ReaderAt, TypeOK
    <3>2. n = opens /\ mainPc \in {"started", "watching"} /\ s_fd = 0
      BY <3>1, LiveReader DEF SessionInv, DescriptorInv
    <3> QED
      BY <1>0, <2>0, <3>1, <3>2
         DEF SessionInv, EndedInv, MarkedInv, DescriptorInv, ReadingInv, Ended
  <2>4. CASE ReaderDies(n)
    <3>1. /\ readerPc[n] = "reporting" /\ readerPc'[n] = "dead"
          /\ UNCHANGED <<s_fd, s_readerClosed, s_closed>>
      BY <2>4 DEF ReaderDies, ReaderAt, TypeOK
    <3>2. s_fd # 0 => n # opens
      BY <3>1 DEF SessionInv, DescriptorInv
    <3>3. s_fd # 0 => opens \in Sessions
      BY <1>0, BoundsAssumption DEF SessionInv, DescriptorInv, TypeOK, Sessions
    <3>4. DescriptorInv'
      BY <2>0, <3>1, <3>2, <3>3 DEF SessionInv, DescriptorInv
    <3>5. MarkedInv'
      <4>1. CASE opens \in Sessions
        BY <2>0, <3>1, <4>1 DEF SessionInv, MarkedInv, Ended
      <4>2. CASE opens \notin Sessions
        <5>1. readerPc'[opens] = readerPc[opens]
          BY <2>4, <4>2, <2>0 DEF ReaderDies, ReaderAt, TypeOK
        <5> QED
          BY <2>0, <3>1, <5>1 DEF SessionInv, MarkedInv
      <4> QED
        BY <4>1, <4>2
    <3> QED
      BY <2>0, <3>1, <3>4, <3>5 DEF SessionInv, EndedInv, ReadingInv, Ended
  <2> QED
    BY <1>5, <2>1, <2>2, <2>3, <2>4 DEF readerLoop
<1>6. CASE \/ \E a \in Actors : RunSetRadioState(a)
           \/ RequestThread \/ \E on \in BOOLEAN : requestRadioPower(on)
           \/ Hangup \/ UNCHANGED vars
  <2>1. UNCHANGED <<mainPc, opens, readerPc, s_closed, s_fd, s_readerClosed>>
    BY <1>6 DEF RunSetRadioState, RequestThread, initializeCallback, FinishInitialize, PowerOff,
                PowerOn, PowerOnError, PowerOnCheck, PowerComplete, requestRadioPower, Hangup,
                vars, sessionVars, mainVars
  <2> QED
    BY <2>1 DEF SessionInv, EndedInv, MarkedInv, DescriptorInv, ReadingInv
<1> QED
  BY <1>1, <1>2, <1>3, <1>4, <1>5, <1>6 DEF Next, mainLoop

LEMMA SessionAlways == Spec => []SessionInv
<1>1. Init => SessionInv
  BY BoundsAssumption DEF Init, SessionInv, EndedInv, MarkedInv, DescriptorInv, ReadingInv, Sessions
<1> QED
  BY <1>1, SessionInductive, SettingAlways, SessionTypeCorrect, PTL DEF Spec

-----------------------------------------------------------------------------
(* While mainLoop watches a session and the session's initializeCallback    *)
(* has begun: a radio that counts as on although AT+CPON did not succeed in *)
(* this session is about to be set to something else by the request thread; *)
(* and, unless a reader was late, so is one that counts as unavailable.     *)
Initialized == mainPc = "watching" /\ callbacks = 0

Overwriting == setting[Request].step \in {"lock", "store"}

OnInv ==
    Initialized /\ onIn # opens =>
        /\ Overwriting => setting[Request].new # "SIM_NOT_READY"
        /\ sState = "SIM_NOT_READY" => Overwriting

AvailableInv ==
    Initialized /\ ~s_closed /\ ~late =>
        /\ Overwriting => setting[Request].new # "UNAVAILABLE"
        /\ sState = "UNAVAILABLE" => Overwriting
        /\ \A n \in Sessions : setting[n].step = "store" => setting[Request].step = "lock"

RadioInv == OnInv /\ AvailableInv

(* setRadioState called by the request thread: the new state is none that   *)
(* the invariants forbid.                                                   *)
LEMMA RadioSet ==
    ASSUME TypeOK, RadioInv, NEW new \in {"OFF", "SIM_NOT_READY"}, setRadioState(Request, new),
           new = "SIM_NOT_READY" => onIn' = opens,
           UNCHANGED <<sState, mainPc, opens, s_closed, late>>
    PROVE  RadioInv'
<1> USE ActorFacts
<1>1. setting'[Request].step = "lock" /\ setting'[Request].new = new
  BY DEF TypeOK, setRadioState
<1> QED
  BY <1>1 DEF RadioInv, OnInv, AvailableInv, Overwriting

LEMMA RadioRun ==
    ASSUME TypeOK, SettingInv, SettingInv', RadioInv, NEW a \in Actors, RunSetRadioState(a)
    PROVE  RadioInv'
<1> USE ActorFacts
<1>0. UNCHANGED <<mainPc, callbacks, onIn, opens, s_closed>>
  BY DEF RunSetRadioState, mainVars, requestVars
<1>1. CASE Lock(a)
  <2>1. /\ setting[a].step = "lock" /\ setting'[a].step = "store"
        /\ setting'[a].new = IF s_closed THEN "UNAVAILABLE" ELSE setting[a].new
        /\ \A b \in Actors : b # a => setting'[b] = setting[b]
        /\ late' = (late \/ (a # Request /\ ~s_closed))
        /\ s_state_mutex' = a /\ UNCHANGED sState
    BY <1>1 DEF Lock, TypeOK
  <2>2. OnInv'
    BY <1>0, <2>1 DEF RadioInv, OnInv, Initialized, Overwriting
  <2>3. AvailableInv'
    <3>1. CASE a = Request
      <4>1. \A n \in Sessions : setting'[n].step # "store"
        BY <2>1, <3>1 DEF SettingInv, MutexInv
      <4> QED
        BY <1>0, <2>1, <3>1, <4>1 DEF RadioInv, AvailableInv, Initialized, Overwriting
    <3>2. CASE a # Request
      BY <1>0, <2>1, <3>2 DEF AvailableInv
    <3> QED
      BY <3>1, <3>2
  <2> QED
    BY <2>2, <2>3 DEF RadioInv
<1>2. CASE Store(a)
  <2>1. /\ setting[a].step = "store" /\ setting'[a].step = "notify"
        /\ sState' = setting[a].new /\ UNCHANGED late
        /\ \A b \in Actors : b # a => setting'[b] = setting[b]
    BY <1>2 DEF Store, StepTo, TypeOK
  <2>2. a # Request => a \in Sessions /\ sState' = "UNAVAILABLE"
    BY <2>1 DEF SettingInv, ReaderInv, Actors
  <2>3. \A b \in Actors : setting[b].step = "store" => b = a
    BY <2>1 DEF SettingInv, MutexInv
  <2>4. CASE a = Request
    BY <1>0, <2>1, <2>3, <2>4 DEF RadioInv, OnInv, AvailableInv, Initialized, Overwriting
  <2>5. CASE a # Request
    BY <1>0, <2>1, <2>2, <2>3, <2>5 DEF RadioInv, OnInv, AvailableInv, Initialized, Overwriting
  <2> QED
    BY <2>4, <2>5
<1>3. CASE Notify(a)
  <2>1. /\ setting[a].step = "notify" /\ setting'[a].step = "done"
        /\ UNCHANGED <<late, sState>>
        /\ \A b \in Actors : b # a => setting'[b] = setting[b]
    BY <1>3 DEF Notify, StepTo, TypeOK
  <2> QED
    BY <1>0, <2>1 DEF RadioInv, OnInv, AvailableInv, Initialized, Overwriting
<1> QED
  BY <1>1, <1>2, <1>3 DEF RunSetRadioState

LEMMA RadioInductive ==
    TypeOK /\ SettingInv /\ SettingInv' /\ SessionInv /\ RadioInv /\ [Next]_vars => RadioInv'
<1> SUFFICES ASSUME TypeOK, SettingInv, SettingInv', SessionInv, RadioInv, [Next]_vars
             PROVE  RadioInv'
  OBVIOUS
<1> USE ActorFacts
<1>1. CASE mainLoop
  <2>1. ~Initialized'
    BY <1>1 DEF mainLoop, OpenDevice, sync_modem, ClearClosed, at_open, QueueCallback, SeeClosed,
                Main, Initialized, TypeOK
  <2> QED
    BY <2>1 DEF RadioInv, OnInv, AvailableInv
<1>2. ASSUME NEW n \in Sessions, readerLoop(n) PROVE RadioInv'
  <2>1. UNCHANGED <<sState, mainPc, callbacks, opens, onIn, late>>
    BY <1>2 DEF readerLoop, onReaderClosed, at_close, ReportClose, ReaderDies,
                stateVars, mainVars, requestVars
  <2>2. /\ UNCHANGED setting[Request]
        /\ \A m \in Sessions : setting'[m].step = "store" => setting[m].step = "store"
    BY <1>2 DEF readerLoop, onReaderClosed, at_close, ReportClose, ReaderDies, setRadioState, TypeOK
  <2>3. s_closed' \/ UNCHANGED s_closed
    BY <1>2 DEF readerLoop, onReaderClosed, at_close, ReportClose, ReaderDies
  <2> QED
    BY <2>1, <2>2, <2>3 DEF RadioInv, OnInv, AvailableInv, Initialized, Overwriting
<1>3. CASE RequestThread \/ \E on \in BOOLEAN : requestRadioPower(on)
  <2>1. UNCHANGED <<sState, mainPc, opens, s_closed, late>>
    BY <1>3 DEF RequestThread, initializeCallback, FinishInitialize, PowerOff, PowerOn,
                PowerOnError, PowerOnCheck, PowerComplete, requestRadioPower,
                sessionVars, stateVars, mainVars
  <2>2. CASE initializeCallback
    BY <2>1, <2>2, RadioSet DEF initializeCallback
  <2>3. CASE PowerOn
    BY <2>1, <2>3, RadioSet DEF PowerOn, Answered, SessionInv, DescriptorInv
  <2>4. CASE PowerOff /\ setRadioState(Request, "OFF")
    BY <2>1, <2>4, RadioSet DEF PowerOff
  <2>5. CASE ~initializeCallback /\ ~PowerOn /\ ~(PowerOff /\ setRadioState(Request, "OFF"))
    <3>1. UNCHANGED <<setting, callbacks, onIn>>
      BY <1>3, <2>5 DEF RequestThread, FinishInitialize, PowerOff, PowerOnError, PowerOnCheck,
                        PowerComplete, requestRadioPower, Fails, isRadioOn
    <3> QED
      BY <2>1, <3>1 DEF RadioInv, OnInv, AvailableInv, Initialized, Overwriting
  <2> QED
    BY <2>2, <2>3, <2>4, <2>5
<1>4. CASE Hangup \/ UNCHANGED vars
  BY <1>4 DEF Hangup, vars, stateVars, mainVars, requestVars,
              RadioInv, OnInv, AvailableInv, Initialized, Overwriting
<1> QED
  BY <1>1, <1>2, <1>3, <1>4, RadioRun DEF Next

LEMMA RadioAlways == Spec => []RadioInv
<1>1. Init => RadioInv
  BY DEF Init, RadioInv, OnInv, AvailableInv, Initialized
<1> QED
  BY <1>1, RadioInductive, SessionAlways, SettingAlways, SessionTypeCorrect, PTL DEF Spec

(* For any number of sessions and requests: in a settled session a radio    *)
(* that counts as on was turned on by an AT+CPON of this very session.      *)
THEOREM OnCorrect == Spec => []OnMeansOnInThisSession
<1>1. RadioInv => OnMeansOnInThisSession
  BY ActorFacts
     DEF RadioInv, OnInv, OnMeansOnInThisSession, Settled, Initialized, Overwriting, Done
<1> QED
  BY <1>1, RadioAlways, PTL

(* For any number of sessions and requests: a settled session whose         *)
(* predecessors were reported closed in time has an available radio.        *)
THEOREM AvailableCorrect == Spec => []SettledMeansAvailable
<1>1. RadioInv => SettledMeansAvailable
  BY ActorFacts
     DEF RadioInv, AvailableInv, SettledMeansAvailable, Settled, Initialized, Overwriting, Done
<1> QED
  BY <1>1, RadioAlways, PTL
=============================================================================
