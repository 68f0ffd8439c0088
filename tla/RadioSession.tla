---------------------------- MODULE RadioSession ----------------------------
(***************************************************************************)
(* The life of a modem session in fwril-100/fw100-ril.c: mainLoop opens    *)
(* the AT port, starts a reader thread and queues initializeCallback; a    *)
(* reader that meets the end of its line closes the session; and the       *)
(* request thread runs initializeCallback and requestRadioPower.  They     *)
(* share sState, guarded by s_state_mutex, and s_closed, which is not.     *)
(*                                                                         *)
(* AT commands matter here by their outcome alone (ATChannel models how    *)
(* they get it); activateHelper and fw100ModemTimer, which mainLoop calls  *)
(* between two tests of s_closed, leave all of this state alone.           *)
(***************************************************************************)
EXTENDS Naturals

CONSTANTS
    MaxOpens,     \* bound: modem sessions
    MaxRequests   \* bound: RIL_REQUEST_RADIO_POWER requests

ASSUME BoundsAssumption == MaxOpens \in Nat \ {0} /\ MaxRequests \in Nat

(* pollSIMState, the only way to RADIO_STATE_SIM_READY, is never scheduled. *)
RadioStates == {"OFF", "UNAVAILABLE", "SIM_NOT_READY"}

(* The callers of setRadioState: the request thread and one reader thread   *)
(* per session.                                                             *)
Sessions == 1..MaxOpens
Request  == 0
Actors   == {Request} \cup Sessions
NoOne    == MaxOpens + 1

VARIABLES
    sState, s_closed,
    s_state_mutex,    \* its holder
    setting,          \* each caller's progress through setRadioState
    s_fd,             \* session of the channel's descriptor, 0: closed
    s_readerClosed,
    mainPc, readerPc, requestPc,
    opens,            \* descriptors mainLoop has opened
    callbacks,        \* initializeCallbacks queued
    served,           \* initializeCallbacks finished
    onOff,            \* argument of the current requestRadioPower
    reply,            \* RIL_onRequestComplete of the last requestRadioPower
    nRequests,
    known,            \* external: the state the phone framework last read
    gone,             \* external: sessions whose line has been lost
    rf,               \* external: is the modem's radio on?
    vpon,             \* history: what the last answered AT+VPON? said
    onIn,             \* history: session in which AT+CPON last succeeded
    late              \* history: a reader reported the close of its session
                      \* after mainLoop had begun the next one

stateVars   == <<sState, s_state_mutex, known, late>>
mainVars    == <<mainPc, opens>>
requestVars == <<requestPc, callbacks, served, onOff, reply, nRequests, rf, vpon, onIn>>
vars == <<stateVars, setting, s_closed, s_fd, s_readerClosed, mainVars, readerPc,
          requestVars, gone>>

Init ==   \* RIL_Init and initSessionContext
    /\ sState = "OFF" /\ s_closed = FALSE /\ s_state_mutex = NoOne
    /\ setting = [a \in Actors |-> [step |-> "done", new |-> "OFF", old |-> "OFF"]]
    /\ s_fd = 0 /\ s_readerClosed = FALSE
    /\ mainPc = "open" /\ opens = 0
    /\ readerPc = [n \in Sessions |-> "none"]
    /\ requestPc = "idle" /\ callbacks = 0 /\ served = 0
    /\ onOff = FALSE /\ reply = "none" /\ nRequests = 0
    /\ known = "OFF" /\ gone = {} /\ rf \in BOOLEAN
    /\ vpon = "none" /\ onIn = 0 /\ late = FALSE

-----------------------------------------------------------------------------
(* setRadioState(new), called by a: wait for the mutex; read the old state  *)
(* and s_closed; store and unlock; then, outside the mutex, compare and     *)
(* tell the framework.                                                      *)

setRadioState(a, new) ==
    setting' = [setting EXCEPT ![a] = [step |-> "lock", new |-> new, old |-> sState]]

Done(a) == setting[a].step = "done"

StepTo(a, step) == setting' = [setting EXCEPT ![a].step = step]

(* Faulty variant: the override for a closed session is missing. *)
LockUnguarded(a) ==
    /\ setting[a].step = "lock" /\ s_state_mutex = NoOne
    /\ s_state_mutex' = a
    /\ setting' = [setting EXCEPT ![a].step = "store", ![a].old = sState]
    /\ late' = (late \/ (a # Request /\ ~s_closed))
    /\ UNCHANGED <<sState, known>>

(* Faulty variant: oldState is read before the mutex is taken. *)
LockWithEarlierOld(a) ==
    /\ setting[a].step = "lock" /\ s_state_mutex = NoOne
    /\ s_state_mutex' = a
    /\ setting' = [setting EXCEPT
            ![a].step = "store",
            ![a].new = IF s_closed THEN "UNAVAILABLE" ELSE setting[a].new]
    /\ late' = (late \/ (a # Request /\ ~s_closed))
    /\ UNCHANGED <<sState, known>>

Lock(a) ==
    /\ setting[a].step = "lock" /\ s_state_mutex = NoOne
    /\ s_state_mutex' = a
    /\ setting' = [setting EXCEPT ![a] =
            [step |-> "store", old |-> sState,
             new |-> IF s_closed THEN "UNAVAILABLE" ELSE setting[a].new]]
    /\ late' = (late \/ (a # Request /\ ~s_closed))
    /\ UNCHANGED <<sState, known>>

Store(a) ==
    /\ setting[a].step = "store"
    /\ sState' = setting[a].new
    /\ s_state_mutex' = NoOne
    /\ StepTo(a, "notify")
    /\ UNCHANGED <<known, late>>

(* RIL_UNSOL_RESPONSE_RADIO_STATE_CHANGED makes the framework read          *)
(* currentState().  (onRadioPowerOn only sends another notification.)       *)
Notify(a) ==
    /\ setting[a].step = "notify"
    /\ known' = IF sState # setting[a].old THEN sState ELSE known
    /\ StepTo(a, "done")
    /\ UNCHANGED <<sState, s_state_mutex, late>>

RunSetRadioState(a) ==
    /\ Lock(a) \/ Store(a) \/ Notify(a)
    /\ UNCHANGED <<s_closed, s_fd, s_readerClosed, mainVars, readerPc, requestVars, gone>>

-----------------------------------------------------------------------------
(* mainLoop. *)

Main(from, to) == mainPc = from /\ mainPc' = to

(* The open loop retries until the device is there and configure_modem_fd   *)
(* can set it up.                                                           *)
OpenDevice ==
    /\ Main("open", "syncing")
    /\ opens < MaxOpens
    /\ opens' = opens + 1
    /\ UNCHANGED <<stateVars, setting, s_closed, s_fd, s_readerClosed, readerPc,
                   requestVars, gone>>

(* sync_modem writes AT and blocks in read() until OK comes.  On a line     *)
(* that is lost its 100 tries fail, and it returns 0 all the same.          *)
sync_modem ==
    /\ Main("syncing", "opened")
    /\ UNCHANGED <<stateVars, setting, s_closed, s_fd, s_readerClosed, opens, readerPc,
                   requestVars, gone>>

ClearClosed ==
    /\ Main("opened", "starting")
    /\ s_closed' = FALSE
    /\ UNCHANGED <<stateVars, setting, s_fd, s_readerClosed, opens, readerPc,
                   requestVars, gone>>

at_open ==
    /\ Main("starting", "started")
    /\ s_fd' = opens /\ s_readerClosed' = FALSE
    /\ readerPc' = [readerPc EXCEPT ![opens] = "reading"]
    /\ UNCHANGED <<stateVars, setting, s_closed, opens, requestVars, gone>>

QueueCallback ==
    /\ Main("started", "watching")
    /\ callbacks' = callbacks + 1
    /\ UNCHANGED <<stateVars, setting, s_closed, s_fd, s_readerClosed, opens,
                   readerPc, requestPc, served, onOff, reply, nRequests, rf, vpon, onIn, gone>>

SeeClosed ==
    /\ Main("watching", "open")
    /\ s_closed
    /\ UNCHANGED <<stateVars, setting, s_closed, s_fd, s_readerClosed, opens,
                   readerPc, requestVars, gone>>

mainLoop == OpenDevice \/ sync_modem \/ ClearClosed \/ at_open \/ QueueCallback \/ SeeClosed

-----------------------------------------------------------------------------
(* The end of a reader thread: onReaderClosed and onATReaderClosed. *)

ReaderAt(n, from, to) ==
    readerPc[n] = from /\ readerPc' = [readerPc EXCEPT ![n] = to]

onReaderClosed(n) ==
    /\ n \in gone
    /\ ReaderAt(n, "reading", IF s_readerClosed THEN "dead" ELSE "closing")
    /\ s_readerClosed' = TRUE
    /\ UNCHANGED <<stateVars, setting, s_closed, s_fd, mainVars, requestVars, gone>>

at_close(n) ==
    /\ ReaderAt(n, "closing", "closed")
    /\ s_fd' = 0 /\ s_readerClosed' = TRUE
    /\ UNCHANGED <<stateVars, setting, s_closed, mainVars, requestVars, gone>>

(* Faulty variant: the session is not marked as closed. *)
ReportCloseUnmarked(n) ==
    /\ ReaderAt(n, "closed", "reporting")
    /\ setRadioState(n, "UNAVAILABLE")
    /\ UNCHANGED <<stateVars, s_closed, s_fd, s_readerClosed, mainVars, requestVars, gone>>

ReportClose(n) ==
    /\ ReaderAt(n, "closed", "reporting")
    /\ s_closed' = TRUE
    /\ setRadioState(n, "UNAVAILABLE")
    /\ UNCHANGED <<stateVars, s_fd, s_readerClosed, mainVars, requestVars, gone>>

ReaderDies(n) ==
    /\ ReaderAt(n, "reporting", "dead")
    /\ Done(n)
    /\ UNCHANGED <<stateVars, setting, s_closed, s_fd, s_readerClosed, mainVars,
                   requestVars, gone>>

readerLoop(n) == onReaderClosed(n) \/ at_close(n) \/ ReportClose(n) \/ ReaderDies(n)

-----------------------------------------------------------------------------
(* The request thread. *)

RequestAt(from, to) == requestPc = from /\ Done(Request) /\ requestPc' = to

sessionVars == <<stateVars, s_closed, s_fd, s_readerClosed, mainVars, readerPc, gone>>

(* A command is answered by the modem of session s_fd. *)
Answered == s_fd # 0 /\ ~s_readerClosed /\ s_fd \notin gone

(* Faulty variant: the state of the previous session is kept. *)
initializeCallbackKeeps ==
    /\ callbacks > 0
    /\ RequestAt("idle", "initialize")
    /\ callbacks' = callbacks - 1
    /\ UNCHANGED <<sessionVars, setting, served, onOff, reply, nRequests, rf, vpon, onIn>>

initializeCallback ==
    /\ callbacks > 0
    /\ RequestAt("idle", "initialize")
    /\ callbacks' = callbacks - 1
    /\ setRadioState(Request, "OFF")
    /\ UNCHANGED <<sessionVars, served, onOff, reply, nRequests, rf, vpon, onIn>>

(* What isRadioOn returns once AT+VPON? has been sent: 0 whatever the modem *)
(* said ("internal mode workaround"), -1 if it gave no proper answer.       *)
NoAnswer == "error"
isRadioOn(answer) == IF answer = NoAnswer THEN "-1" ELSE "0"

VPONAnswers == {NoAnswer} \cup (IF Answered THEN {IF rf THEN "on" ELSE "off"} ELSE {})

(* at_handshake and atcommand_init, whose results are not used; then the    *)
(* query of the radio.                                                      *)
FinishInitialize ==
    /\ RequestAt("initialize", "idle")
    /\ \E answer \in VPONAnswers :
          /\ vpon' = IF answer = NoAnswer THEN vpon ELSE answer
          /\ IF isRadioOn(answer) = "1" THEN setRadioState(Request, "SIM_NOT_READY")
                                        ELSE UNCHANGED setting
    /\ served' = served + 1
    /\ UNCHANGED <<sessionVars, callbacks, onOff, reply, nRequests, rf, onIn>>

(* requestRadioPower: which command the request calls for. *)
PowerCommand(on) ==
    IF ~on /\ sState # "OFF" THEN "CPOF"
    ELSE IF on /\ sState = "OFF" THEN "CPON"
    ELSE "complete"

requestRadioPower(on) ==
    /\ nRequests < MaxRequests
    /\ nRequests' = nRequests + 1
    /\ RequestAt("idle", PowerCommand(on))
    /\ onOff' = on /\ reply' = "none" /\ vpon' = "none"
    /\ UNCHANGED <<sessionVars, setting, callbacks, served, rf, onIn>>

Fails == reply' = "GENERIC_FAILURE" /\ UNCHANGED setting

(* AT+CPOF is answered OK, or it fails: an error line, a busy or a closed   *)
(* channel.                                                                 *)
PowerOff ==
    /\ \/ /\ Answered
          /\ RequestAt("CPOF", "complete")
          /\ rf' = FALSE
          /\ setRadioState(Request, "OFF")
          /\ UNCHANGED reply
       \/ /\ RequestAt("CPOF", "idle")
          /\ Fails
          /\ UNCHANGED rf
    /\ UNCHANGED <<sessionVars, callbacks, served, onOff, nRequests, vpon, onIn>>

(* Faulty variant: the SIM is taken to be ready at once. *)
PowerOnReady ==
    /\ Answered
    /\ RequestAt("CPON", "complete")
    /\ rf' = TRUE /\ onIn' = s_fd
    /\ setRadioState(Request, "SIM_READY")
    /\ UNCHANGED <<sessionVars, callbacks, served, onOff, reply, nRequests, vpon>>

PowerOn ==
    /\ Answered
    /\ RequestAt("CPON", "complete")
    /\ rf' = TRUE /\ onIn' = s_fd
    /\ setRadioState(Request, "SIM_NOT_READY")
    /\ UNCHANGED <<sessionVars, callbacks, served, onOff, reply, nRequests, vpon>>

(* AT+CPON fails, though an answering modem may have turned its radio on.   *)
PowerOnError ==
    /\ RequestAt("CPON", "VPON")
    /\ rf' \in {rf, rf \/ Answered}
    /\ UNCHANGED <<sessionVars, setting, callbacks, served, onOff, reply, nRequests, vpon, onIn>>

PowerOnCheck ==
    /\ \E answer \in VPONAnswers :
          /\ vpon' = IF answer = NoAnswer THEN vpon ELSE answer
          /\ IF isRadioOn(answer) # "1"
             THEN RequestAt("VPON", "idle") /\ Fails
             ELSE /\ RequestAt("VPON", "complete")
                  /\ setRadioState(Request, "SIM_NOT_READY")
                  /\ UNCHANGED reply
    /\ UNCHANGED <<sessionVars, callbacks, served, onOff, nRequests, rf, onIn>>

PowerComplete ==
    /\ RequestAt("complete", "idle")
    /\ reply' = "SUCCESS"
    /\ UNCHANGED <<sessionVars, setting, callbacks, served, onOff, nRequests, rf, vpon, onIn>>

RequestThread ==
    \/ initializeCallback \/ FinishInitialize
    \/ PowerOff \/ PowerOn \/ PowerOnError \/ PowerOnCheck \/ PowerComplete

-----------------------------------------------------------------------------
(* External: the line of the current session is lost; the modem may or may  *)
(* not have restarted.                                                      *)
Hangup ==
    /\ opens \in 1..(MaxOpens - 1) /\ opens \notin gone
    /\ gone' = gone \cup {opens}
    /\ rf' \in {rf, FALSE}
    /\ UNCHANGED <<stateVars, setting, s_closed, s_fd, s_readerClosed, mainVars, readerPc,
                   requestPc, callbacks, served, onOff, reply, nRequests, vpon, onIn>>

Next ==
    \/ \E a \in Actors : RunSetRadioState(a)
    \/ mainLoop
    \/ \E n \in Sessions : readerLoop(n)
    \/ RequestThread
    \/ \E on \in BOOLEAN : requestRadioPower(on)
    \/ Hangup

Spec == Init /\ [][Next]_vars

(* Threads run; the device is enumerated again at some time after a loss,   *)
(* which makes open() succeed, and a modem whose line is up answers AT,     *)
(* which lets sync_modem return; a mutex is held for a few instructions and *)
(* wanted by a bounded number of callers.                                   *)
Fairness ==
    /\ \A a \in Actors : WF_vars(RunSetRadioState(a))
    /\ WF_vars(mainLoop)
    /\ \A n \in Sessions : WF_vars(readerLoop(n))
    /\ WF_vars(RequestThread)

FairSpec == Spec /\ Fairness

-----------------------------------------------------------------------------
Steps      == {"done", "lock", "store", "notify"}
MainPcs    == {"open", "syncing", "opened", "starting", "started", "watching"}
ReaderPcs  == {"none", "reading", "closing", "closed", "reporting", "dead"}
RequestPcs == {"idle", "initialize", "CPOF", "CPON", "VPON", "complete"}

(* Every variable keeps its type; a descriptor of the channel belongs to a  *)
(* session that was opened.                                                 *)
TypeOK ==
    /\ sState \in RadioStates /\ known \in RadioStates
    /\ s_closed \in BOOLEAN /\ s_readerClosed \in BOOLEAN
    /\ s_state_mutex \in Actors \cup {NoOne}
    /\ setting \in [Actors -> [step : Steps, new : RadioStates, old : RadioStates]]
    /\ opens \in 0..MaxOpens /\ s_fd \in 0..MaxOpens
    /\ mainPc \in MainPcs /\ requestPc \in RequestPcs
    /\ readerPc \in [Sessions -> ReaderPcs]
    /\ callbacks \in Nat /\ served \in Nat /\ nRequests \in 0..MaxRequests
    /\ onOff \in BOOLEAN /\ rf \in BOOLEAN /\ late \in BOOLEAN
    /\ reply \in {"none", "SUCCESS", "GENERIC_FAILURE"}
    /\ vpon \in {"none", "on", "off"}
    /\ gone \subseteq Sessions /\ onIn \in 0..MaxOpens

(* A reader that marked its session closed but has not stored UNAVAILABLE.  *)
Reporting(n) == readerPc[n] = "reporting" /\ setting[n].step \in {"lock", "store"}

(* Once the reader has reported the close, and for as long as the session   *)
(* is marked closed, the radio is UNAVAILABLE, although the request thread  *)
(* may be in the middle of setting another state and s_closed is written    *)
(* without s_state_mutex (setRadioState, onATReaderClosed).                 *)
ClosedMeansUnavailable ==
    (s_closed /\ \A n \in Sessions : ~Reporting(n)) => sState = "UNAVAILABLE"

(* When nobody has a notification to give, the framework has read the       *)
(* current state, although setRadioState compares the state with the old    *)
(* one after it has released the mutex.                                     *)
FrameworkKnowsState ==
    (\A a \in Actors : setting[a].step # "notify") => known = sState

(* The session is open and its initializeCallback is done; nobody is inside *)
(* setRadioState.                                                           *)
Settled ==
    /\ mainPc = "watching" /\ ~s_closed
    /\ callbacks = 0 /\ requestPc = "idle"
    /\ \A a \in Actors : Done(a)

(* In a settled session the radio counts as on only if AT+CPON succeeded in *)
(* this very session: a command answered in an earlier one, whose result    *)
(* was stored after the reopen, is always undone by initializeCallback.     *)
OnMeansOnInThisSession ==
    (Settled /\ sState = "SIM_NOT_READY") => onIn = opens

(* In a settled session the radio is available, unless a reader was so late *)
(* with reporting the close of an earlier session that mainLoop had already *)
(* reset s_closed (onATReaderClosed sets s_closed before the state).        *)
SettledMeansAvailable == (Settled /\ ~late) => sState # "UNAVAILABLE"

(* After each loss of the line mainLoop opens the port again and the        *)
(* initializeCallback of the new session runs to its end.                   *)
EveryLossIsRecovered ==
    \A n \in Sessions : (n \in gone) ~> (served > n)
=============================================================================
