------------------------------ MODULE ATChannel ------------------------------
(***************************************************************************)
(* The AT command channel of the RIL driver (fwril-100/atchannel.c).       *)
(*                                                                         *)
(* Command threads send one AT command at a time and sleep on              *)
(* s_commandcond; the reader thread routes each line of the modem either   *)
(* into the response under construction (sp_response) or to the            *)
(* unsolicited handler, and wakes the sender on the final line.  A section *)
(* of code between pthread_mutex_lock and the next unlock or wait on       *)
(* s_commandmutex is one action; `holder' records the mutex only where it  *)
(* stays locked from one action to the next (at_handshake).                *)
(***************************************************************************)
EXTENDS Naturals, Sequences

CONSTANTS
    Threads,      \* threads that issue AT commands
    Main,         \* the mainLoop thread, the only caller of at_open
    Handshakers,  \* threads that call at_handshake
    Commands,     \* the commands callers send, see at_send_command...
    Prefixes,     \* response prefixes, such as "+CSQ:"; the driver also passes
                  \* "OK" and "", with which every line begins
    UnsolTexts,   \* texts of the unsolicited lines of this modem
    NULL,
    HANDSHAKE_RETRY_COUNT,
    MaxCommands,  \* bound: commands and handshakes started
    MaxUnsol,     \* bound: unsolicited lines sent by the modem
    MaxInter,     \* bound: intermediate lines of one multi-line answer
    MaxOpens,     \* bound: calls of at_open
    Lossy         \* may the modem leave a command without any answer?

ASSUME ConstantsAssumption ==
    /\ Main \in Threads /\ NULL \notin Threads
    /\ Handshakers \subseteq Threads
    /\ NULL \notin Prefixes
    /\ NULL \notin Nat
    /\ HANDSHAKE_RETRY_COUNT \in Nat \ {0}
    /\ MaxCommands \in Nat /\ MaxUnsol \in Nat /\ MaxInter \in Nat /\ MaxOpens \in Nat
    /\ Lossy \in BOOLEAN

-----------------------------------------------------------------------------
(* ATCommandType and the public senders.  A command is its type, the prefix *)
(* of its intermediate lines, whether it has an SMS PDU to give at the      *)
(* prompt, whether the caller passed pp_outResponse, and whether the wait   *)
(* is timed (only at_handshake does that).                                  *)

ATCommandType == {"NO_RESULT", "NUMERIC", "SINGLELINE", "MULTILINE"}

Command ==
    {c \in [type : ATCommandType, prefix : Prefixes \cup {NULL},
            pdu : BOOLEAN, out : BOOLEAN, timed : BOOLEAN] :
        c.type \in {"SINGLELINE", "MULTILINE"} => c.prefix # NULL}

ATCommand(type, prefix, pdu, out) ==
    [type |-> type, prefix |-> prefix, pdu |-> pdu, out |-> out, timed |-> FALSE]

at_send_command(out)                == ATCommand("NO_RESULT", NULL, FALSE, out)
at_send_command_singleline(p, out)  == ATCommand("SINGLELINE", p, FALSE, out)
at_send_command_numeric(out)        == ATCommand("NUMERIC", NULL, FALSE, out)
at_send_command_sms(p, out)         == ATCommand("SINGLELINE", p, TRUE, out)
at_send_command_multiline(p, out)   == ATCommand("MULTILINE", p, FALSE, out)

HandshakeCommand ==
    [type |-> "NO_RESULT", prefix |-> NULL, pdu |-> FALSE, out |-> FALSE, timed |-> TRUE]

ASSUME CommandsAssumption ==
    \A c \in Commands : c \in Command /\ ~c.timed

(* Lines are classes of text: "OK" stands for every final success line,     *)
(* "ERROR" for every final error line, "digit" for a line that starts with  *)
(* 0-9, "+CMT:" for the first line of a two-line SMS indication.            *)
(* `id' and `n' are history: the command the modem answers (0: none) and    *)
(* the position of the line in that answer (a final line carries the number *)
(* of intermediate lines before it, an unsolicited line its own number).    *)
(* An unsolicited line can have any text, that of an answer too: the driver *)
(* turns on reports of +CREG: and +CSQ:, which it also asks for, and NO      *)
(* CARRIER, an "ERROR" here, is sometimes unsolicited.                       *)
AnyLine == ""
Texts == {"OK", "ERROR", "> ", "digit", "+CMT:", "other"} \cup (Prefixes \ {AnyLine})
Line  == [text : Texts, id : Nat, n : Nat]

ASSUME UnsolTextsAssumption == UnsolTexts \subseteq Texts
ASSUME PrefixesAssumption ==
    Prefixes \cap {"ERROR", "> ", "digit", "+CMT:", "other"} = {}
ASSUME NullLineAssumption   == NULL \notin Line

(* ATResponse; the owner and the command id are history.                    *)
ATResponse == [owner : Threads, id : Nat, success : BOOLEAN,
               final : Line \cup {NULL}, inter : Seq(Line)]

ASSUME NullResponseAssumption == NULL \notin ATResponse

Errors == {"NONE", "OK", "GENERIC", "COMMAND_PENDING", "CHANNEL_CLOSED",
           "TIMEOUT", "INVALID_RESPONSE"}

Call   == [cmd : Command, id : Nat]
Result == [err : Errors, id : Nat, resp : ATResponse \cup {NULL}]

-----------------------------------------------------------------------------
VARIABLES
    s_fd,              \* is the AT channel's descriptor open (s_fd >= 0)?
    s_readerClosed,
    s_type, s_responsePrefix,
    s_smsPDU,          \* NULL, or the id of the command the PDU belongs to
    sp_response,
    holder,            \* who keeps s_commandmutex between actions
    pc,                \* where each command thread is
    call,              \* its current (or last) command
    tries,             \* handshake attempts left
    result,            \* what its last call returned
    reader,            \* where the reader thread is
    lines,             \* lines of the modem not yet read
    modem,             \* external: commands received and not fully answered
    hungup,            \* external: the modem side of the line is gone
    unsol,             \* history: lines given to s_unsolHandler
    pdus,              \* history: <<PDU's command, prompt's command>> written
    unread,            \* history: answers of these commands were still unread
                       \* when the pause of at_handshake ended
    raced,             \* history: a thread destroyed another's sp_response
    expired,           \* history: an attempt of at_handshake was given up
                       \* before its final line had been read
    mistaken,          \* history: what unsolicited lines were taken for
    crashed,           \* a NULL sp_response was dereferenced
    nCmd, nUnsol, nOpen

pendingVars == <<s_type, s_responsePrefix, s_smsPDU, sp_response>>
threadVars  == <<pc, call, tries, result>>
modemVars   == <<lines, modem, hungup, nUnsol>>
history     == <<unsol, pdus, unread, raced, expired, mistaken>>
vars == <<s_fd, s_readerClosed, pendingVars, holder, threadVars, reader,
          modemVars, history, crashed, nCmd, nOpen>>

ThreadStates == {"idle", "opening", "waiting", "woken", "timedOut", "hsTry", "hsPause"}
ReaderStates == {"none", "reading", "smsPdu", "eof", "closing", "dead"}

(* Inside the wait loop of at_send_command_full_nolock. *)
InWait(t) == pc[t] \in {"waiting", "woken", "timedOut"}

IdleModem == [queue |-> <<>>, n |-> 0, pdu |-> "none"]

Init ==
    /\ s_fd = FALSE /\ s_readerClosed = FALSE
    /\ s_type = "NO_RESULT" /\ s_responsePrefix = NULL
    /\ s_smsPDU = NULL /\ sp_response = NULL
    /\ holder = NULL
    /\ pc = [t \in Threads |-> "idle"]
    /\ call = [t \in Threads |-> [cmd |-> HandshakeCommand, id |-> 0]]
    /\ tries = [t \in Threads |-> 0]
    /\ result = [t \in Threads |-> [err |-> "NONE", id |-> 0, resp |-> NULL]]
    /\ reader = "none"
    /\ lines = <<>> /\ modem = IdleModem /\ hungup = FALSE
    /\ unsol = <<>> /\ pdus = {} /\ unread = {} /\ raced = FALSE /\ expired = FALSE
    /\ mistaken = {}
    /\ crashed = FALSE
    /\ nCmd = 0 /\ nUnsol = 0 /\ nOpen = 0

-----------------------------------------------------------------------------
(* Sending a command: at_send_command_full and its _nolock body.            *)

(* writeline: what it may return now.  A write to a line that has hung up   *)
(* fails, or disappears in the driver's buffer.                             *)
writeline == IF ~s_fd \/ s_readerClosed THEN {"CHANNEL_CLOSED"}
             ELSE IF hungup THEN {"GENERIC", "OK"} ELSE {"OK"}

(* clearPendingCommand, called by thread t. *)
clearPendingCommand(t) ==
    /\ sp_response' = NULL /\ s_responsePrefix' = NULL /\ s_smsPDU' = NULL
    /\ raced' = (raced \/ (sp_response # NULL /\ sp_response.owner # t))
    /\ UNCHANGED s_type

at_response_new(t, id) ==
    [owner |-> t, id |-> id, success |-> FALSE, final |-> NULL, inter |-> <<>>]

(* The command line is on the wire and t goes to sleep on s_commandcond.    *)
(* A line written to a hung-up modem reaches nobody.                        *)
StartWaiting(t, c, id) ==
    /\ s_type' = c.type /\ s_responsePrefix' = c.prefix
    /\ s_smsPDU' = IF c.pdu THEN id ELSE NULL
    /\ sp_response' = at_response_new(t, id)
    /\ pc' = [pc EXCEPT ![t] = "waiting"]
    /\ modem' = IF hungup THEN modem
                ELSE [modem EXCEPT !.queue = Append(@, [cmd |-> c, id |-> id])]
    /\ UNCHANGED raced

Entering(t, c) ==
    /\ pc[t] = "idle" /\ holder = NULL /\ nCmd < MaxCommands
    /\ nCmd' = nCmd + 1
    /\ call' = [call EXCEPT ![t] = [cmd |-> c, id |-> nCmd + 1]]
    /\ UNCHANGED <<s_fd, s_readerClosed, holder, tries, reader, lines, hungup, nUnsol,
                   unsol, pdus, unread, expired, mistaken, crashed, nOpen>>

Returns(t, e) ==
    result' = [result EXCEPT ![t] = [err |-> e, id |-> nCmd + 1, resp |-> NULL]]

(* sp_response is already in use. *)
SendWhilePending(t, c) ==
    /\ Entering(t, c)
    /\ sp_response # NULL
    /\ Returns(t, "COMMAND_PENDING")
    /\ clearPendingCommand(t)
    /\ UNCHANGED <<pc, modem>>

SendFails(t, c) ==
    /\ Entering(t, c)
    /\ sp_response = NULL
    /\ \E e \in writeline \ {"OK"} : Returns(t, e)
    /\ clearPendingCommand(t)
    /\ UNCHANGED <<pc, modem>>

(* Faulty variant: the test for a pending command is missing. *)
SendAndWaitUnchecked(t, c) ==
    /\ Entering(t, c)
    /\ "OK" \in writeline
    /\ StartWaiting(t, c, nCmd + 1)
    /\ UNCHANGED result

SendAndWait(t, c) ==
    /\ Entering(t, c)
    /\ sp_response = NULL
    /\ "OK" \in writeline
    /\ StartWaiting(t, c, nCmd + 1)
    /\ UNCHANGED result

-----------------------------------------------------------------------------
(* Waking up: the loop around pthread_cond_wait and what follows it.        *)

Reversed(s) == [i \in 1..Len(s) |-> s[Len(s) + 1 - i]]

(* Faulty variant: the list is handed out as it was built. *)
keepIntermediates(r) == r

(* reverseIntermediates on the way out. *)
reverseIntermediates(r) == [r EXCEPT !.inter = Reversed(@)]

(* POSIX lets pthread_cond_wait return without a signal. *)
SpuriousWake(t) ==
    /\ pc[t] = "waiting"
    /\ pc' = [pc EXCEPT ![t] = "woken"]
    /\ UNCHANGED <<s_fd, s_readerClosed, pendingVars, holder, call, tries, result, reader,
                   modemVars, history, crashed, nCmd, nOpen>>

(* The timed wait of at_handshake expires, final line or not. *)
WaitExpires(t) ==
    /\ pc[t] = "waiting" /\ call[t].cmd.timed
    /\ pc' = [pc EXCEPT ![t] = "timedOut"]
    /\ UNCHANGED <<s_fd, s_readerClosed, pendingVars, holder, call, tries, result, reader,
                   modemVars, history, crashed, nCmd, nOpen>>

Resuming(t) ==
    /\ pc[t] = "woken" /\ holder = NULL
    /\ UNCHANGED <<s_fd, s_readerClosed, call, tries, reader, modemVars, unsol, pdus, unread,
                   expired, mistaken, nCmd, nOpen>>

(* sp_response->finalResponse with sp_response NULL. *)
WakeToNull(t) ==
    /\ Resuming(t)
    /\ sp_response = NULL
    /\ crashed' = TRUE
    /\ UNCHANGED <<pendingVars, holder, pc, result, raced>>

WaitAgain(t) ==
    /\ Resuming(t)
    /\ sp_response # NULL /\ sp_response.final = NULL /\ ~s_readerClosed
    /\ pc' = [pc EXCEPT ![t] = "waiting"]
    /\ UNCHANGED <<pendingVars, holder, result, raced, crashed>>

(* The single-line, numeric and SMS senders reject a success without an     *)
(* intermediate line, and free it.                                          *)
InvalidResponse(c, r) ==
    /\ c.type \in {"SINGLELINE", "NUMERIC"} /\ c.out
    /\ r.success /\ r.inter = <<>>

FinishErr(c, r) == IF s_readerClosed THEN "CHANNEL_CLOSED"
                   ELSE IF InvalidResponse(c, r) THEN "INVALID_RESPONSE" ELSE "OK"

(* Faulty variant: the pending command is not cleared on the way out. *)
FinishCommandKeeps(t) ==
    /\ Resuming(t)
    /\ ~call[t].cmd.timed
    /\ sp_response # NULL /\ (sp_response.final # NULL \/ s_readerClosed)
    /\ LET c == call[t].cmd
           e == FinishErr(c, sp_response)
       IN  result' = [result EXCEPT ![t] =
               [err |-> e, id |-> call[t].id,
                resp |-> IF c.out /\ e # "INVALID_RESPONSE"
                         THEN reverseIntermediates(sp_response) ELSE NULL]]
    /\ pc' = [pc EXCEPT ![t] = "idle"]
    /\ UNCHANGED <<pendingVars, holder, raced, crashed>>

(* Faulty variant: `if' for `while' around pthread_cond_wait, so that any   *)
(* wake-up ends the command.                                                *)
FinishCommandOnWake(t) ==
    /\ Resuming(t)
    /\ ~call[t].cmd.timed
    /\ sp_response # NULL
    /\ LET c == call[t].cmd
           e == FinishErr(c, sp_response)
       IN  result' = [result EXCEPT ![t] =
               [err |-> e, id |-> call[t].id,
                resp |-> IF c.out /\ e # "INVALID_RESPONSE"
                         THEN reverseIntermediates(sp_response) ELSE NULL]]
    /\ pc' = [pc EXCEPT ![t] = "idle"]
    /\ sp_response' = NULL /\ s_responsePrefix' = NULL /\ s_smsPDU' = NULL
    /\ UNCHANGED <<s_type, holder, raced, crashed>>

(* The thread leaves the loop with whatever sp_response holds.              *)
FinishCommand(t) ==
    /\ Resuming(t)
    /\ ~call[t].cmd.timed
    /\ sp_response # NULL /\ (sp_response.final # NULL \/ s_readerClosed)
    /\ LET c == call[t].cmd
           e == FinishErr(c, sp_response)
       IN  result' = [result EXCEPT ![t] =
               [err |-> e, id |-> call[t].id,
                resp |-> IF c.out /\ e # "INVALID_RESPONSE"
                         THEN reverseIntermediates(sp_response) ELSE NULL]]
    /\ pc' = [pc EXCEPT ![t] = "idle"]
    /\ sp_response' = NULL /\ s_responsePrefix' = NULL /\ s_smsPDU' = NULL
    /\ UNCHANGED <<s_type, holder, raced, crashed>>

-----------------------------------------------------------------------------
(* at_handshake: the mutex is held over all attempts, except while waiting. *)

(* Faulty variant: `i <= HANDSHAKE_RETRY_COUNT'. *)
HandshakeStartOneMore(t) ==
    /\ pc[t] = "idle" /\ holder = NULL /\ nCmd < MaxCommands
    /\ holder' = t
    /\ pc' = [pc EXCEPT ![t] = "hsTry"]
    /\ tries' = [tries EXCEPT ![t] = HANDSHAKE_RETRY_COUNT + 1]
    /\ call' = [call EXCEPT ![t] = [cmd |-> HandshakeCommand, id |-> nCmd + 1]]
    /\ nCmd' = nCmd + 1
    /\ UNCHANGED <<s_fd, s_readerClosed, pendingVars, result, reader, modemVars, history,
                   crashed, nOpen>>

HandshakeStart(t) ==
    /\ pc[t] = "idle" /\ holder = NULL /\ nCmd < MaxCommands
    /\ holder' = t
    /\ pc' = [pc EXCEPT ![t] = "hsTry"]
    /\ tries' = [tries EXCEPT ![t] = HANDSHAKE_RETRY_COUNT]
    /\ call' = [call EXCEPT ![t] = [cmd |-> HandshakeCommand, id |-> nCmd + 1]]
    /\ nCmd' = nCmd + 1
    /\ UNCHANGED <<s_fd, s_readerClosed, pendingVars, result, reader, modemVars, history,
                   crashed, nOpen>>

Trying(t) ==
    /\ pc[t] = "hsTry" /\ tries[t] > 0
    /\ tries' = [tries EXCEPT ![t] = @ - 1]
    /\ UNCHANGED <<s_fd, s_readerClosed, call, reader, lines, hungup, nUnsol,
                   unsol, pdus, unread, expired, mistaken, crashed, nCmd, nOpen>>

HandshakeErr(t, e) ==
    result' = [result EXCEPT ![t] = [err |-> e, id |-> call[t].id, resp |-> NULL]]

(* An attempt that fails before anything is sent is followed by the next.   *)
HandshakeTryFails(t) ==
    /\ Trying(t)
    /\ \/ sp_response # NULL /\ HandshakeErr(t, "COMMAND_PENDING")
       \/ /\ sp_response = NULL
          /\ \E e \in writeline \ {"OK"} : HandshakeErr(t, e)
    /\ clearPendingCommand(t)
    /\ UNCHANGED <<holder, pc, modem>>

HandshakeTrySends(t) ==
    /\ Trying(t)
    /\ sp_response = NULL /\ "OK" \in writeline
    /\ StartWaiting(t, call[t].cmd, call[t].id)
    /\ holder' = NULL
    /\ UNCHANGED result

(* Faulty variant: ETIMEDOUT is taken for a spurious wake-up. *)
HandshakeIgnoresTimeout(t) ==
    /\ pc[t] = "timedOut" /\ holder = NULL
    /\ pc' = [pc EXCEPT ![t] = "waiting"]
    /\ UNCHANGED <<s_fd, s_readerClosed, pendingVars, holder, call, tries, result, reader,
                   modemVars, history, crashed, nCmd, nOpen>>

(* ETIMEDOUT: the attempt is given up even if its answer came in meanwhile. *)
HandshakeTimesOut(t) ==
    /\ pc[t] = "timedOut" /\ holder = NULL
    /\ clearPendingCommand(t)
    /\ expired' = (expired \/ sp_response = NULL \/ sp_response.final = NULL)
    /\ HandshakeErr(t, "TIMEOUT")
    /\ holder' = t
    /\ pc' = [pc EXCEPT ![t] = "hsTry"]
    /\ UNCHANGED <<s_fd, s_readerClosed, call, tries, reader, modemVars, unsol, pdus, unread,
                   mistaken, crashed, nCmd, nOpen>>

(* Answered: pause with the mutex held; channel closed: next attempt.       *)
HandshakeAnswered(t) ==
    /\ Resuming(t)
    /\ call[t].cmd.timed
    /\ sp_response # NULL /\ (sp_response.final # NULL \/ s_readerClosed)
    /\ HandshakeErr(t, FinishErr(call[t].cmd, sp_response))
    /\ pc' = [pc EXCEPT ![t] = IF s_readerClosed THEN "hsTry" ELSE "hsPause"]
    /\ holder' = t
    /\ sp_response' = NULL /\ s_responsePrefix' = NULL /\ s_smsPDU' = NULL
    /\ UNCHANGED <<s_type, raced, crashed>>

HandshakeReturns(t) ==
    /\ \/ pc[t] = "hsPause"
       \/ pc[t] = "hsTry" /\ tries[t] = 0
    /\ holder' = NULL
    /\ pc' = [pc EXCEPT ![t] = "idle"]
    /\ unread' = IF pc[t] = "hsPause" THEN unread \cup {lines[i].id : i \in DOMAIN lines}
                 ELSE unread
    /\ UNCHANGED <<s_fd, s_readerClosed, pendingVars, call, tries, result, reader,
                   modemVars, unsol, pdus, raced, expired, mistaken, crashed, nCmd, nOpen>>

-----------------------------------------------------------------------------
(* The reader thread: readerLoop, processLine, onReaderClosed, at_close.    *)

(* pthread_cond_signal wakes one thread that sleeps on s_commandcond. *)
Signal ==
    LET waiters == {t \in Threads : pc[t] = "waiting"}
    IN  IF waiters = {} THEN UNCHANGED pc
        ELSE \E t \in waiters : pc' = [pc EXCEPT ![t] = "woken"]

isFinalResponseSuccess(line) == line.text = "OK"
isFinalResponseError(line)   == line.text = "ERROR"
isFinalResponse(line) == isFinalResponseSuccess(line) \/ isFinalResponseError(line)
isSMSUnsolicited(line)       == line.text = "+CMT:"

(* strStartsWith for the prefix of the pending command. *)
HasPrefix(line) == s_responsePrefix \in {AnyLine, line.text}

(* Faulty variant: a multi-line answer keeps only its first line. *)
TakesFirstIntermediate(line) ==
    CASE s_type = "NO_RESULT"  -> FALSE
      [] s_type = "NUMERIC"    -> sp_response.inter = <<>> /\ line.text = "digit"
      [] OTHER -> sp_response.inter = <<>> /\ HasPrefix(line)

(* Does the switch on s_type in processLine keep the line? *)
TakesIntermediate(line) ==
    CASE s_type = "NO_RESULT"  -> FALSE
      [] s_type = "NUMERIC"    -> sp_response.inter = <<>> /\ line.text = "digit"
      [] s_type = "SINGLELINE" -> sp_response.inter = <<>> /\ HasPrefix(line)
      [] s_type = "MULTILINE"  -> HasPrefix(line)

(* Where processLine sends a line. *)
Route(line) ==
    IF sp_response = NULL THEN "unsolicited"
    ELSE IF isFinalResponse(line) THEN "final"
    ELSE IF s_smsPDU # NULL /\ line.text = "> " THEN "prompt"
    ELSE IF TakesIntermediate(line) THEN "intermediate"
    ELSE "unsolicited"

handleUnsolicited(line) == unsol' = Append(unsol, <<line.id, line.n>>)

(* Faulty variant: the waiting thread is not signalled. *)
storeFinalResponse(line) ==
    /\ sp_response' = [sp_response EXCEPT !.final = line,
                                          !.success = isFinalResponseSuccess(line)]
    /\ UNCHANGED pc

handleFinalResponse(line) ==
    /\ sp_response' = [sp_response EXCEPT !.final = line,
                                          !.success = isFinalResponseSuccess(line)]
    /\ Signal

(* addIntermediate puts the line at the head of the list. *)
addIntermediate(line) ==
    sp_response' = [sp_response EXCEPT !.inter = <<line>> \o @]

(* writeCtrlZ of the PDU, which the waiting modem receives. *)
writeCtrlZ(line) ==
    /\ pdus' = pdus \cup {<<s_smsPDU, line.id>>}
    /\ modem' = IF hungup THEN modem ELSE [modem EXCEPT !.pdu = "received"]

processLine ==
    /\ reader = "reading" /\ lines # <<>> /\ holder = NULL
    /\ LET line == Head(lines) IN
       /\ ~isSMSUnsolicited(line)
       /\ \/ /\ Route(line) = "unsolicited"
             /\ handleUnsolicited(line)
             /\ UNCHANGED <<sp_response, s_smsPDU, pc, pdus, modem>>
          \/ /\ Route(line) = "final"
             /\ handleFinalResponse(line)
             /\ UNCHANGED <<s_smsPDU, unsol, pdus, modem>>
          \/ /\ Route(line) = "prompt"
             /\ writeCtrlZ(line)
             /\ s_smsPDU' = NULL
             /\ UNCHANGED <<sp_response, pc, unsol>>
          \/ /\ Route(line) = "intermediate"
             /\ addIntermediate(line)
             /\ UNCHANGED <<s_smsPDU, pc, unsol, pdus, modem>>
       /\ mistaken' = mistaken \cup (IF line.id = 0 THEN {Route(line)} \ {"unsolicited"} ELSE {})
    /\ lines' = Tail(lines)
    /\ UNCHANGED <<s_fd, s_readerClosed, s_type, s_responsePrefix, holder, call, tries,
                   result, reader, hungup, nUnsol, unread, raced, expired, crashed, nCmd,
                   nOpen>>

(* First line of +CMT:, +CDS:, +CBM: the reader goes on to the PDU line ... *)
ReadSmsHeader ==
    /\ reader = "reading" /\ lines # <<>> /\ isSMSUnsolicited(Head(lines))
    /\ reader' = "smsPdu"
    /\ lines' = Tail(lines)
    /\ UNCHANGED <<s_fd, s_readerClosed, pendingVars, holder, threadVars, modem, hungup,
                   nUnsol, history, crashed, nCmd, nOpen>>

(* ... and hands both to the handler without taking the mutex.              *)
ReadSmsPdu ==
    /\ reader = "smsPdu" /\ lines # <<>>
    /\ handleUnsolicited(Head(lines))
    /\ reader' = "reading"
    /\ lines' = Tail(lines)
    /\ UNCHANGED <<s_fd, s_readerClosed, pendingVars, holder, threadVars, modem, hungup,
                   nUnsol, pdus, unread, raced, expired, mistaken, crashed, nCmd, nOpen>>

(* readline returns NULL: EOF or a read error. *)
ReadEOF ==
    /\ reader \in {"reading", "smsPdu"} /\ lines = <<>> /\ hungup
    /\ reader' = "eof"
    /\ UNCHANGED <<s_fd, s_readerClosed, pendingVars, holder, threadVars, modemVars,
                   history, crashed, nCmd, nOpen>>

onReaderClosed ==
    /\ reader = "eof" /\ holder = NULL
    /\ s_readerClosed' = TRUE
    /\ Signal
    /\ reader' = "closing"
    /\ UNCHANGED <<s_fd, pendingVars, holder, call, tries, result, modemVars, history,
                   crashed, nCmd, nOpen>>

(* at_close, called by onATReaderClosed on the reader thread; after it the  *)
(* driver's s_closed is set, which lets mainLoop open the port again.       *)
at_close ==
    /\ reader = "closing" /\ holder = NULL
    /\ s_fd' = FALSE /\ s_readerClosed' = TRUE
    /\ Signal
    /\ reader' = "dead"
    /\ UNCHANGED <<pendingVars, holder, call, tries, result, modemVars, history, crashed,
                   nCmd, nOpen>>

-----------------------------------------------------------------------------
(* at_open takes no lock: its stores are seen in two steps by the others.   *)

at_open ==
    /\ pc[Main] = "idle" /\ reader \in {"none", "dead"} /\ nOpen < MaxOpens
    /\ s_fd' = TRUE /\ s_readerClosed' = FALSE
    /\ pc' = [pc EXCEPT ![Main] = "opening"]
    /\ lines' = <<>> /\ modem' = IdleModem /\ hungup' = FALSE
    /\ nOpen' = nOpen + 1
    /\ UNCHANGED <<pendingVars, holder, call, tries, result, reader, nUnsol, history,
                   crashed, nCmd>>

at_open_reset ==
    /\ pc[Main] = "opening"
    /\ clearPendingCommand(Main)
    /\ reader' = "reading"
    /\ pc' = [pc EXCEPT ![Main] = "idle"]
    /\ UNCHANGED <<s_fd, s_readerClosed, holder, call, tries, result, modemVars, unsol,
                   pdus, unread, expired, mistaken, crashed, nCmd, nOpen>>

-----------------------------------------------------------------------------
(* The modem, from how atchannel.c talks to it: commands are answered in    *)
(* the order received, each by the intermediate lines its type allows and   *)
(* one final line.                                                          *)

ModemUp == s_fd /\ ~hungup

Emit(line) == lines' = Append(lines, line)

ModemKeeps == UNCHANGED <<s_fd, s_readerClosed, pendingVars, holder, threadVars, reader,
                          history, crashed, nCmd, nOpen>>

Answering == ModemUp /\ modem.queue # <<>>
Answered  == Head(modem.queue)

(* How the intermediate lines of a command begin.  A command whose prefix   *)
(* is "OK" has none; one that accepts any line is answered by some text.    *)
InterTexts(c) == IF c.type = "NUMERIC" THEN {"digit"}
                 ELSE IF c.prefix = AnyLine THEN {"other"} ELSE {c.prefix} \ {"OK"}

InterLimit(type) == CASE type = "NO_RESULT" -> 0
                      [] type = "MULTILINE" -> MaxInter
                      [] OTHER              -> 1

ModemPrompt ==
    /\ Answering /\ Answered.cmd.pdu /\ modem.pdu = "none"
    /\ Emit([text |-> "> ", id |-> Answered.id, n |-> 0])
    /\ modem' = [modem EXCEPT !.pdu = "prompted"]
    /\ UNCHANGED <<hungup, nUnsol>> /\ ModemKeeps

ModemIntermediate ==
    /\ Answering /\ modem.n < InterLimit(Answered.cmd.type)
    /\ Answered.cmd.pdu => modem.pdu = "received"
    /\ \E text \in InterTexts(Answered.cmd) :
          Emit([text |-> text, id |-> Answered.id, n |-> modem.n + 1])
    /\ modem' = [modem EXCEPT !.n = @ + 1]
    /\ UNCHANGED <<hungup, nUnsol>> /\ ModemKeeps

ModemFinal ==
    /\ Answering /\ modem.pdu # "prompted"
    /\ \E text \in {"OK", "ERROR"} :
        /\ (Answered.cmd.pdu /\ modem.pdu = "none") => text = "ERROR"
        /\ Emit([text |-> text, id |-> Answered.id, n |-> modem.n])
    /\ modem' = [IdleModem EXCEPT !.queue = Tail(modem.queue)]
    /\ UNCHANGED <<hungup, nUnsol>> /\ ModemKeeps

(* A command that is never answered. *)
ModemDrops ==
    /\ Lossy /\ Answering
    /\ modem' = [IdleModem EXCEPT !.queue = Tail(modem.queue)]
    /\ UNCHANGED <<lines, hungup, nUnsol>> /\ ModemKeeps

(* Unsolicited lines fall between the lines of an answer; the two lines of  *)
(* an SMS indication come together.                                         *)
ModemUnsolicited ==
    /\ ModemUp /\ nUnsol < MaxUnsol
    /\ \E text \in UnsolTexts :
        LET u == [text |-> text, id |-> 0, n |-> nUnsol + 1]
        IN  lines' = lines \o (IF text = "+CMT:" THEN <<u, [u EXCEPT !.text = "other"]>>
                               ELSE <<u>>)
    /\ nUnsol' = nUnsol + 1
    /\ UNCHANGED <<modem, hungup>> /\ ModemKeeps

(* The device goes away; what it sent last may be lost with it. *)
Hangup ==
    /\ ModemUp
    /\ hungup' = TRUE
    /\ \E k \in 0..Len(lines) : lines' = SubSeq(lines, 1, k)
    /\ modem' = IdleModem
    /\ UNCHANGED nUnsol /\ ModemKeeps

-----------------------------------------------------------------------------
(* The modem finishes the answer to every command it does not lose. *)
ModemServes == ModemPrompt \/ ModemIntermediate \/ ModemFinal

CommandThread(t) ==
    \/ \E c \in Commands : \/ SendWhilePending(t, c)
                           \/ SendFails(t, c)
                           \/ SendAndWait(t, c)
    \/ t \in Handshakers /\ HandshakeStart(t)

(* What a thread does once it is inside a call. *)
InsideCall(t) ==
    \/ WakeToNull(t) \/ WaitAgain(t) \/ FinishCommand(t)
    \/ HandshakeTryFails(t) \/ HandshakeTrySends(t)
    \/ HandshakeTimesOut(t) \/ HandshakeAnswered(t) \/ HandshakeReturns(t)

Reader == processLine \/ ReadSmsHeader \/ ReadSmsPdu \/ ReadEOF \/ onReaderClosed \/ at_close

Next ==
    /\ ~crashed
    /\ \/ \E t \in Threads : \/ CommandThread(t)
                             \/ InsideCall(t)
                             \/ SpuriousWake(t)
                             \/ WaitExpires(t)
       \/ Reader
       \/ at_open \/ at_open_reset
       \/ ModemServes \/ ModemDrops \/ ModemUnsolicited \/ Hangup

Spec == Init /\ [][Next]_vars

(* The kernel runs every runnable thread.  Strong fairness of WaitExpires   *)
(* says that a timed wait is not interrupted by wake-ups for ever: the      *)
(* Android build starts the whole relative timeout again after each of them *)
(* (the others wait until an absolute time).  Nothing is asked of the       *)
(* modem.                                                                   *)
Fairness ==
    /\ \A t \in Threads : /\ WF_vars(~crashed /\ InsideCall(t))
                          /\ SF_vars(~crashed /\ WaitExpires(t))
    /\ WF_vars(~crashed /\ Reader)
    /\ WF_vars(~crashed /\ at_open_reset)

-----------------------------------------------------------------------------
(* Properties *)

(* Type invariant. *)
TypeOK ==
    /\ s_fd \in BOOLEAN /\ s_readerClosed \in BOOLEAN
    /\ s_type \in ATCommandType
    /\ s_responsePrefix \in Prefixes \cup {NULL}
    /\ s_smsPDU \in Nat \cup {NULL}
    /\ sp_response \in ATResponse \cup {NULL}
    /\ holder \in Threads \cup {NULL}
    /\ pc \in [Threads -> ThreadStates]
    /\ call \in [Threads -> Call]
    /\ tries \in [Threads -> 0..HANDSHAKE_RETRY_COUNT]
    /\ result \in [Threads -> Result]
    /\ reader \in ReaderStates
    /\ lines \in Seq(Line)
    /\ modem \in [queue : Seq(Call), n : Nat, pdu : {"none", "prompted", "received"}]
    /\ hungup \in BOOLEAN
    /\ unsol \in Seq(Nat \X Nat)
    /\ pdus \subseteq (Nat \X Nat) /\ unread \subseteq Nat
    /\ raced \in BOOLEAN /\ expired \in BOOLEAN /\ crashed \in BOOLEAN
    /\ mistaken \subseteq {"final", "prompt", "intermediate"}
    /\ nCmd \in 0..MaxCommands /\ nUnsol \in 0..MaxUnsol /\ nOpen \in 0..MaxOpens

(* As long as no thread has thrown away another's sp_response, a thread in  *)
(* the wait loop of at_send_command_full_nolock finds sp_response there and *)
(* its own (so two threads never wait at once), and the dereference of      *)
(* sp_response in the loop condition is safe.                               *)
WaiterOwnsPending ==
    ~raced => /\ \A t \in Threads : InWait(t) => /\ sp_response # NULL
                                                 /\ sp_response.owner = t
              /\ ~crashed

(* No pending command was thrown away, neither another thread's nor the     *)
(* unanswered one of a handshake attempt that timed out.                    *)
Undisturbed == ~raced /\ ~expired

(* No unsolicited line has ended a command or been taken for a prompt.  One *)
(* may have "snuck in" among the intermediate lines.                        *)
NoneCutShort == Undisturbed /\ mistaken \subseteq {"intermediate"}

(* The response a caller is handed ends with the final line sent for its    *)
(* command, even if an unsolicited +CREG: or the like has got into it.      *)
(* Unless one has, its intermediate lines are all the lines of the answer,  *)
(* in the order the modem sent them.  (On a closed channel the answer may   *)
(* stop early.)                                                             *)
OwnResponse ==
    NoneCutShort => \A t \in Threads :
        LET r == result[t].resp IN
        r # NULL =>
            /\ r.id = result[t].id
            /\ result[t].err = "OK" => r.final # NULL /\ r.final.id = r.id
            /\ mistaken = {} =>
                  /\ \A i \in DOMAIN r.inter : r.inter[i].id = r.id /\ r.inter[i].n = i
                  /\ result[t].err = "OK" => r.final.n = Len(r.inter)

(* The handler registered with at_open sees unsolicited lines at most once  *)
(* and in the order of the modem, whatever threads, timeouts and look-alike *)
(* lines do; and it sees no answer to a command as long as nothing was      *)
(* thrown away or taken for what it is not.                                 *)
UnsolicitedInOrder ==
    /\ \A i, j \in DOMAIN unsol :
          (i < j /\ unsol[i][1] = 0 /\ unsol[j][1] = 0) => unsol[i][2] < unsol[j][2]
    /\ (Undisturbed /\ mistaken = {}) => \A i \in DOMAIN unsol : unsol[i][1] = 0

(* processLine gives an SMS PDU to the prompt of its own AT+CMGS command,   *)
(* unless an unsolicited NO CARRIER has ended a command early.              *)
PduAnswersOwnPrompt == NoneCutShort => \A p \in pdus : p[1] = p[2]

(* What the comment above the pending-command variables promises ("these    *)
(* are protected by s_commandmutex"): the wait loop never meets a NULL      *)
(* sp_response.                                                             *)
NoNullDereference == ~crashed

(* What the comment in at_handshake promises of its pause: OKs that match   *)
(* no attempt any more drain and "will appear as extraneous unsolicited     *)
(* responses"; so no answer that was in the input when the pause ended      *)
(* completes a later command.                                               *)
UnmatchedOKsAreUnsolicited ==
    \A t \in Threads : LET r == result[t].resp IN
        (r # NULL /\ r.final # NULL /\ r.final.id # r.id) => r.final.id \notin unread

(* The modem has not answered: an ordinary command has no timeout, so that  *)
(* its caller rightly sleeps on.                                            *)
Unanswered(t) ==
    /\ InWait(t) /\ ~call[t].cmd.timed /\ ~hungup
    /\ sp_response # NULL /\ sp_response.final = NULL
    /\ ~\E i \in DOMAIN lines : lines[i].id = call[t].id /\ isFinalResponse(lines[i])

(* No wake-up is lost: once the modem has sent the final line, has hung up  *)
(* or the time is over, the wait of at_send_command_full_nolock ends and    *)
(* the call returns.                                                        *)
AnsweredCallReturns ==
    \A t \in Threads :
        (pc[t] \notin {"idle", "opening"} /\ ~Unanswered(t)) ~> (pc[t] = "idle" \/ raced)

(* at_handshake gives up after HANDSHAKE_RETRY_COUNT timed attempts whatever *)
(* the modem does.                                                          *)
HandshakeEnds ==
    \A t \in Handshakers :
        (pc[t] # "idle" /\ call[t].cmd.timed) ~> (pc[t] = "idle" \/ raced)

FairSpec == Spec /\ Fairness

=============================================================================
