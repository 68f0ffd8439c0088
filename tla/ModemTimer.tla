----------------------------- MODULE ModemTimer -----------------------------
(***************************************************************************)
(* What mainLoop does every ten seconds of a session: activateHelper       *)
(* (src/fwril-100/fw100-ril-utils.c), which may make a call that programs  *)
(* the module over the air, and the polls of fw100-ril-timer.c.  The       *)
(* reader thread counts and keeps the messages of that call in otaMsgCnt   *)
(* and otaMsg (onUnsolicited), without a lock; the request thread writes   *)
(* the same status file (getNetworkInfo) and switches screenState.         *)
(* The AT channel is seen from outside: a command is answered or fails.    *)
(***************************************************************************)
EXTENDS Naturals, Sequences, SequencesExt

CONSTANTS
    MAX_AUTO_ACTIVATE_RETRY,
    OtaDone,      \* messages after which the wait ends (5 in the code)
    MaxWaits,     \* further seconds of the wait (30 in the code)
    OtaLength,    \* messages of an over-the-air call
    Polls,        \* the commands polled: "+CSQ:" and "+CREG:" in the code
    Lines,        \* what the modem answers to a poll: sequences of characters
    Malformed,    \* those of them that cannot be parsed
    MaxFaults     \* bound on failing commands, failing fopens and lost sessions

ASSUME BoundsAssumption ==
    /\ MAX_AUTO_ACTIVATE_RETRY \in Nat \ {0}
    /\ OtaDone \in Nat /\ MaxWaits \in Nat /\ OtaLength \in Nat \ {0} /\ MaxFaults \in Nat
ASSUME LinesAssumption ==
    /\ Polls \subseteq {"+CSQ:", "+CREG:"} /\ <<>> \notin Lines /\ Malformed \subseteq Lines
    \* A line that begins like a well-formed one and goes on is well-formed.
    /\ \A m \in Malformed, l \in Lines \ Malformed : ~IsPrefix(l, m)

VARIABLES
    at,           \* where mainLoop is
    s_closed,     \* the session is closed
    unavailable,  \* sState is RADIO_STATE_UNAVAILABLE
    moduleAutoActivate, moduleIsActivated, moduleActivateRetry,
    otaMsgCnt,    \* messages counted in the present call
    otaMsg,       \* the last message: "MSG:8", "other" or none yet
    retry,        \* activateHelper's local variable
    reader,       \* onUnsolicited: its next step, the message, the count it loaded
    screenState,
    pollSaved,    \* pollSavedCSQ and pollSavedCREG
    told,         \* per poll: the line the framework was last notified of
    statusFile,   \* ModuleIsActivated in the status file
    writing,      \* what the request thread is about to write there, or none
    line,         \* modem: what it would answer to each poll
    carrier,      \* modem: what AT$QCMIPGETP=0 tells; "other" is sprint or unknown
    ota,          \* modem: messages the over-the-air call has yet to send
    programmed,   \* modem: has a valid MDN
    calls,        \* history: over-the-air calls made
    crossed,      \* history: activateHelper wrote its status after writing was formatted
    overtaken,    \* history: the file holds a text so crossed, or the helper's fopen failed
    outlived,     \* history: the module was given up while a call was under way
    faults

session == <<s_closed, unavailable>>
module == <<moduleAutoActivate, moduleIsActivated, moduleActivateRetry>>
messages == <<otaMsgCnt, otaMsg, reader>>
polling == <<pollSaved, told>>
status == <<statusFile, writing, crossed, overtaken>>
modem == <<line, carrier, ota, programmed>>
vars == <<at, session, module, messages, retry, screenState, polling, status, modem,
          calls, outlived, faults>>

Idle == [at |-> "idle", msg |-> "none", cnt |-> 0]
Helper == {"query", "limit", "call", "wait", "verdict", "status"}
StatusTexts == {"none", "No", "Yes", "Fail"}

\* Type invariant; the wait of activateHelper and its retries stay within their limits.
TypeOK ==
    /\ at \in {"sleep", "check", "poll", "reopen"} \cup Helper
    /\ s_closed \in BOOLEAN /\ unavailable \in BOOLEAN /\ screenState \in BOOLEAN
    /\ moduleAutoActivate \in BOOLEAN /\ moduleIsActivated \in 0..2
    /\ moduleActivateRetry \in 0..MAX_AUTO_ACTIVATE_RETRY
    /\ otaMsgCnt \in Nat /\ otaMsg \in {"none", "other", "MSG:8"}
    /\ retry \in 0..MaxWaits + 1
    /\ reader \in [at : {"idle", "count", "copy"}, msg : {"none", "other", "MSG:8"}, cnt : Nat]
    /\ pollSaved \in [Polls -> Lines \cup {<<>>}] /\ told \in [Polls -> Lines \cup {<<>>}]
    /\ statusFile \in StatusTexts /\ writing \in StatusTexts
    /\ line \in [Polls -> Lines] /\ carrier \in {"vzw", "other"}
    /\ ota \in 0..OtaLength /\ programmed \in BOOLEAN
    /\ calls \in Nat /\ crossed \in BOOLEAN /\ overtaken \in BOOLEAN /\ outlived \in BOOLEAN
    /\ faults \in 0..MaxFaults

\* AutoActivate in the control file, "Yes" or "yes"; without the file or the line the
\* value of initSessionContext stays.
rilReadControl(options) ==
    "AutoActivate" \in options => "Yes" \in options \/ "yes" \in options

Init ==
    /\ at = "sleep" /\ s_closed = FALSE /\ unavailable = FALSE
    /\ \E options \in SUBSET {"AutoActivate", "Yes", "yes"} :
            moduleAutoActivate = rilReadControl(options)
    /\ moduleIsActivated = 0 /\ moduleActivateRetry = MAX_AUTO_ACTIVATE_RETRY
    /\ otaMsgCnt = 0 /\ otaMsg = "none" /\ reader = Idle /\ retry = 0
    /\ screenState = FALSE
    /\ pollSaved = [c \in Polls |-> <<>>] /\ told = [c \in Polls |-> <<>>]
    /\ statusFile = "none" /\ writing = "none" /\ crossed = FALSE /\ overtaken = FALSE
    /\ \E l \in Lines : line = [c \in Polls |-> l]
    /\ carrier \in {"vzw", "other"} /\ ota = 0 /\ programmed \in BOOLEAN
    /\ calls = 0 /\ outlived = FALSE /\ faults = 0

---------------------------------------------------------------------------
(* mainLoop                                                                *)

Goes(from, to) == at = from /\ at' = to

\* sleep(10), then the helper if the module is not known to be activated or failed.
WakeUp ==
    /\ Goes("sleep", IF moduleIsActivated = 0 THEN "query" ELSE "check")
    /\ UNCHANGED <<session, module, messages, retry, screenState, polling, status, modem,
                   calls, outlived, faults>>

\* A closed session is left for the re-open; otherwise the polls, if the screen is on.
CheckClosed ==
    /\ Goes("check", IF s_closed THEN "reopen" ELSE IF screenState THEN "poll" ELSE "sleep")
    /\ UNCHANGED <<session, module, messages, retry, screenState, polling, status, modem,
                   calls, outlived, faults>>

\* The device is opened again and at_open starts a new reader.
Reopen ==
    /\ Goes("reopen", "sleep") /\ s_closed' = FALSE
    /\ UNCHANGED <<unavailable, module, messages, retry, screenState, polling, status, modem,
                   calls, outlived, faults>>

---------------------------------------------------------------------------
(* activateHelper                                                          *)

\* One of AT^MEID, AT+VMDN? and AT$QCMIPGETP=0 fails: done, with nothing changed.
QueryFails ==
    /\ Goes("query", "status")
    /\ \/ s_closed /\ UNCHANGED faults
       \/ ~s_closed /\ faults < MaxFaults /\ faults' = faults + 1
    /\ UNCHANGED <<session, module, messages, retry, screenState, polling, status, modem,
                   calls, outlived>>

\* Only Verizon modules are programmed over the air, and only if that is wanted.
AfterQuery ==
    IF ~programmed /\ carrier = "vzw" /\ moduleAutoActivate THEN "limit" ELSE "status"

\* FAULTY VARIANT: the valid MDN is saved, but not noted as activation.
QueryOnly ==
    /\ Goes("query", AfterQuery) /\ ~s_closed
    /\ UNCHANGED <<session, module, messages, retry, screenState, polling, status, modem,
                   calls, outlived, faults>>

\* The three are answered.  An MDN that does not begin with 000 means that the module
\* is activated.
Query ==
    /\ Goes("query", AfterQuery) /\ ~s_closed
    /\ moduleIsActivated' = IF programmed THEN 1 ELSE moduleIsActivated
    /\ UNCHANGED <<session, moduleAutoActivate, moduleActivateRetry, messages, retry,
                   screenState, polling, status, modem, calls, outlived, faults>>

\* FAULTY VARIANT: a call that sent no message is not counted off.
LimitRetriesOnMessages ==
    LET left == IF moduleActivateRetry > 0 /\ (calls = 0 \/ otaMsgCnt > 0)
                THEN moduleActivateRetry - 1 ELSE moduleActivateRetry
    IN  /\ Goes("limit", IF left = 0 THEN "status" ELSE "call")
        /\ moduleActivateRetry' = left
        /\ moduleIsActivated' = IF left = 0 THEN 2 ELSE moduleIsActivated
        /\ otaMsgCnt' = IF left = 0 THEN otaMsgCnt ELSE 0
        /\ outlived' = (outlived \/ (left = 0 /\ (ota > 0 \/ programmed)))
        /\ UNCHANGED <<session, moduleAutoActivate, otaMsg, reader, retry, screenState,
                       polling, status, modem, calls, faults>>

\* moduleActivateRetry counts down; at 0 the module has failed for good.
LimitRetries ==
    LET left == IF moduleActivateRetry > 0 THEN moduleActivateRetry - 1 ELSE 0
    IN  /\ Goes("limit", IF left = 0 THEN "status" ELSE "call")
        /\ moduleActivateRetry' = left
        /\ moduleIsActivated' = IF left = 0 THEN 2 ELSE moduleIsActivated
        /\ otaMsgCnt' = IF left = 0 THEN otaMsgCnt ELSE 0
        /\ outlived' = (outlived \/ (left = 0 /\ (ota > 0 \/ programmed)))
        /\ UNCHANGED <<session, moduleAutoActivate, otaMsg, reader, retry, screenState,
                       polling, status, modem, calls, faults>>

\* AT+CDV=*22899.  Its result is ignored, and with it whether there is a call.
PlaceCall ==
    /\ Goes("call", "wait")
    /\ calls' = calls + 1
    /\ IF s_closed \/ ota > 0 \/ programmed THEN UNCHANGED ota ELSE ota' \in {0, OtaLength}
    /\ UNCHANGED <<session, module, messages, retry, screenState, polling, status, line,
                   carrier, programmed, outlived, faults>>

\* FAULTY VARIANT: one more second.
WaitForOtaLonger ==
    /\ Goes("wait", IF otaMsgCnt < OtaDone /\ retry <= MaxWaits THEN "wait" ELSE "verdict")
    /\ retry' = IF otaMsgCnt < OtaDone THEN retry + 1 ELSE retry
    /\ UNCHANGED <<session, module, messages, screenState, polling, status, modem, calls,
                   outlived, faults>>

\* One second, then the test of do ... while.
WaitForOta ==
    /\ Goes("wait", IF otaMsgCnt < OtaDone /\ retry < MaxWaits THEN "wait" ELSE "verdict")
    /\ retry' = IF otaMsgCnt < OtaDone THEN retry + 1 ELSE retry
    /\ UNCHANGED <<session, module, messages, screenState, polling, status, modem, calls,
                   outlived, faults>>

\* FAULTY VARIANT: a call with all its messages passes for a success.
VerdictByCount ==
    /\ Goes("verdict", "status")
    /\ moduleIsActivated' = IF otaMsgCnt >= OtaDone THEN 1 ELSE moduleIsActivated
    /\ retry' = 0
    /\ UNCHANGED <<session, moduleAutoActivate, moduleActivateRetry, messages, screenState,
                   polling, status, modem, calls, outlived, faults>>

\* Whatever otaMsg holds: the message being copied may not be in it yet, and one of
\* an earlier call may still be.  Messages differ in one byte only, so that a copy
\* that is half done reads as the old or as the new one.  (The number that is then
\* asked for is only kept for the status file.)
Verdict ==
    /\ Goes("verdict", "status")
    /\ moduleIsActivated' = IF otaMsg = "MSG:8" THEN 1 ELSE moduleIsActivated
    /\ retry' = 0
    /\ UNCHANGED <<session, moduleAutoActivate, moduleActivateRetry, messages, screenState,
                   polling, status, modem, calls, outlived, faults>>

StatusText == CASE moduleIsActivated = 0 -> "No"
                [] moduleIsActivated = 1 -> "Yes"
                [] OTHER -> "Fail"

\* FAULTY VARIANT: the file is only written for a module that is activated.
rilWriteStatusIfActivated ==
    /\ Goes("status", "check")
    /\ statusFile' = IF moduleIsActivated = 1 THEN "Yes" ELSE statusFile
    /\ crossed' = (writing # "none") /\ overtaken' = FALSE
    /\ UNCHANGED <<session, module, messages, retry, screenState, polling, writing, modem,
                   calls, outlived, faults>>

\* The end of activateHelper.  fopen may fail; a status the request thread has
\* formatted and not yet closed will replace this one.
rilWriteStatus ==
    /\ Goes("status", "check")
    /\ crossed' = (writing # "none")
    /\ \/ statusFile' = StatusText /\ overtaken' = FALSE /\ UNCHANGED faults
       \/ /\ faults < MaxFaults /\ faults' = faults + 1
          /\ overtaken' = TRUE /\ UNCHANGED statusFile
    /\ UNCHANGED <<session, module, messages, retry, screenState, polling, writing, modem,
                   calls, outlived>>

activateHelper ==
    \/ QueryFails \/ Query \/ LimitRetries \/ PlaceCall \/ WaitForOta \/ Verdict
    \/ rilWriteStatus

---------------------------------------------------------------------------
(* fw100ModemTimer: pollSignalStrength, then pollNetworkRegistration.      *)

\* FAULTY VARIANT: compared over the length of the saved line.
UnchangedSaved(c) == IsPrefix(pollSaved[c], line[c])

\* strncmp over the length of the new line.
Unchanged(c) == IsPrefix(line[c], pollSaved[c])

\* A new line is saved before it is parsed; only the signal strength is parsed.
\* (A response with an unchanged line is never freed.)
Polled(c) ==
    [saved |-> IF Unchanged(c) THEN pollSaved[c] ELSE line[c],
     told  |-> IF Unchanged(c) \/ (c = "+CSQ:" /\ line[c] \in Malformed)
               THEN told[c] ELSE line[c]]

fw100ModemTimer ==
    /\ Goes("poll", "sleep")
    /\ \E answered \in SUBSET Polls :
         /\ IF s_closed THEN answered = {} /\ UNCHANGED faults
            ELSE \/ answered = Polls /\ UNCHANGED faults
                 \/ answered # Polls /\ faults < MaxFaults /\ faults' = faults + 1
         /\ pollSaved' = [c \in Polls |-> IF c \in answered THEN Polled(c).saved ELSE pollSaved[c]]
         /\ told' = [c \in Polls |-> IF c \in answered THEN Polled(c).told ELSE told[c]]
    /\ UNCHANGED <<session, module, messages, retry, screenState, status, modem, calls, outlived>>

mainLoop == WakeUp \/ CheckClosed \/ Reopen \/ activateHelper \/ fw100ModemTimer

---------------------------------------------------------------------------
(* The reader thread: onUnsolicited for a line ^OTACMSG:.                  *)

\* The modem sends the next message; the last one of a call that succeeds is MSG:8,
\* and the module has its number then.  While the radio is UNAVAILABLE the line is
\* ignored, otherwise otaMsgCnt++ begins by loading the count.
OtaMessage ==
    /\ reader.at = "idle" /\ ota > 0 /\ ~s_closed
    /\ ota' = ota - 1
    /\ \E m \in IF ota = 1 THEN {"other", "MSG:8"} ELSE {"other"} :
         /\ programmed' = (programmed \/ m = "MSG:8")
         /\ reader' = IF unavailable THEN Idle ELSE [at |-> "count", msg |-> m, cnt |-> otaMsgCnt]
    /\ UNCHANGED <<at, session, module, otaMsgCnt, otaMsg, retry, screenState, polling, status,
                   line, carrier, calls, outlived, faults>>

StoreCount ==
    /\ reader.at = "count"
    /\ otaMsgCnt' = reader.cnt + 1
    /\ reader' = [reader EXCEPT !.at = "copy"]
    /\ UNCHANGED <<at, session, module, otaMsg, retry, screenState, polling, status, modem,
                   calls, outlived, faults>>

CopyMessage ==
    /\ reader.at = "copy"
    /\ otaMsg' = reader.msg
    /\ reader' = Idle
    /\ UNCHANGED <<at, session, module, otaMsgCnt, retry, screenState, polling, status, modem,
                   calls, outlived, faults>>

\* onATReaderClosed: the line is lost, and with it the call.
ReaderClosed ==
    /\ ~s_closed /\ reader.at = "idle"
    /\ faults < MaxFaults /\ faults' = faults + 1
    /\ s_closed' = TRUE /\ unavailable' = TRUE /\ ota' = 0
    /\ UNCHANGED <<at, module, messages, retry, screenState, polling, status, line, carrier,
                   programmed, calls, outlived>>

onUnsolicited == OtaMessage \/ StoreCount \/ CopyMessage

---------------------------------------------------------------------------
(* The request thread and the modem.                                       *)

\* initializeCallback.
Available ==
    /\ unavailable /\ ~s_closed /\ unavailable' = FALSE
    /\ UNCHANGED <<at, s_closed, module, messages, retry, screenState, polling, status, modem,
                   calls, outlived, faults>>

requestScreenState ==
    /\ screenState' = ~screenState
    /\ UNCHANGED <<at, session, module, messages, retry, polling, status, modem, calls,
                   outlived, faults>>

\* rilWriteStatus called by getNetworkInfo: the text is formatted ...
FormatStatus ==
    /\ writing = "none"
    /\ writing' = StatusText /\ crossed' = FALSE
    /\ UNCHANGED <<at, session, module, messages, retry, screenState, polling, statusFile,
                   overtaken, modem, calls, outlived, faults>>

\* ... and reaches the file with fclose.
CloseStatus ==
    /\ writing # "none"
    /\ statusFile' = writing /\ writing' = "none"
    /\ crossed' = FALSE /\ overtaken' = crossed
    /\ UNCHANGED <<at, session, module, messages, retry, screenState, polling, modem, calls,
                   outlived, faults>>

SignalChanges ==
    /\ \E c \in Polls, l \in Lines : l # line[c] /\ line' = [line EXCEPT ![c] = l]
    /\ UNCHANGED <<at, session, module, messages, retry, screenState, polling, status, carrier,
                   ota, programmed, calls, outlived, faults>>

---------------------------------------------------------------------------
Next ==
    \/ mainLoop \/ onUnsolicited \/ ReaderClosed
    \/ Available \/ requestScreenState \/ FormatStatus \/ CloseStatus \/ SignalChanges

Spec == Init /\ [][Next]_vars

\* The three threads run, and the modem ends its calls; sleep() returns.
FairSpec == Spec /\ WF_vars(mainLoop) /\ WF_vars(onUnsolicited) /\ WF_vars(Available)
                 /\ WF_vars(CloseStatus)

---------------------------------------------------------------------------
(* Properties                                                              *)

\* A module that is not activated is called for at most MAX_AUTO_ACTIVATE_RETRY times
\* in the life of the driver, sessions lost and commands failing in between included:
\* every call is counted off before it is made.  A module that is given up
\* (moduleIsActivated = 2) has been called for, but once less often than the header
\* says (fw100-ril.h:68, "max attempts to auto activate"): the counter is tested after
\* it was counted down, before the call (utils.c:150-151).
CallsBounded ==
    /\ calls <= MAX_AUTO_ACTIVATE_RETRY
    /\ moduleIsActivated = 2 => calls >= MAX_AUTO_ACTIVATE_RETRY - 1

\* The driver never takes a module for activated that is not, although it judges by a
\* message that another thread copies without a lock and that may be one of an earlier
\* call (activateHelper, lines 157-170).
ActivatedMeansProgrammed == moduleIsActivated = 1 => programmed

\* Two threads write the status file without a lock.  It tells the state of the module
\* whenever activateHelper is done, if either the helper wrote last, or the request
\* thread did with a text it formatted after the helper's last write, whatever the
\* helper changed, and on whichever path it ended, since then.  (A text formatted
\* before that write and closed after it, or a failed fopen, leaves an older state.)
StatusIsCurrent ==
    at \in {"check", "poll"} /\ statusFile # "none" /\ ~overtaken => statusFile = StatusText

\* A module that has been programmed is noticed, if not by its last message then by
\* its number in a later round, whatever was missed in between; unless the driver had
\* given it up while the last call was still under way.
ProgrammedIsNoticed == programmed ~> (moduleIsActivated = 1 \/ outlived)

\* While screen and session are on, the framework gets to know the modem's signal and
\* registration again and again: it was last told of the very line the modem answers,
\* except for a line that is a proper prefix of the one it was told of.  That change is
\* never reported, although fw100-ril-timer.c:86 and 148 say "if no change": strncmp
\* runs over the length of the new line only.
ChangeIsReported ==
    \A c \in Polls :
        (screenState /\ ~s_closed)
            ~> \/ told[c] = line[c] \/ IsStrictPrefix(line[c], told[c])
               \/ line[c] \in Malformed \/ ~screenState \/ s_closed
=============================================================================
