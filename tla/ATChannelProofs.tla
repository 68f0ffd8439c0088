--------------------------- MODULE ATChannelProofs ---------------------------
(***************************************************************************)
(* Proofs about the AT channel for every set of command threads, every     *)
(* set of commands and every bound: its invariants, and that it implements *)
(* ATService.                                                              *)
(***************************************************************************)
EXTENDS ATChannelService, TLAPS

(* The tuple form of the variables, for stuttering steps. *)
LEMMA StutterTypeOK == TypeOK /\ UNCHANGED vars => TypeOK'
BY DEF TypeOK, vars, pendingVars, threadVars, modemVars, history

LEMMA HandshakeCommandType == HandshakeCommand \in Command
BY DEF HandshakeCommand, Command, ATCommandType

LEMMA InitTypeOK == Init => TypeOK
<1> SUFFICES ASSUME Init PROVE TypeOK
  OBVIOUS
<1>1. call \in [Threads -> Call]
  BY HandshakeCommandType DEF Init, Call
<1>2. result \in [Threads -> Result]
  BY DEF Init, Result, Errors
<1>3. tries \in [Threads -> 0..HANDSHAKE_RETRY_COUNT]
  BY ConstantsAssumption DEF Init
<1>4. pc \in [Threads -> ThreadStates] /\ reader \in ReaderStates
  BY DEF Init, ThreadStates, ReaderStates
<1>5. modem \in [queue : Seq(Call), n : Nat, pdu : {"none", "prompted", "received"}]
  BY DEF Init, IdleModem
<1>6. lines \in Seq(Line) /\ unsol \in Seq(Nat \X Nat)
  BY DEF Init
<1>7. nCmd \in 0..MaxCommands /\ nUnsol \in 0..MaxUnsol /\ nOpen \in 0..MaxOpens
  BY ConstantsAssumption DEF Init
<1> QED
  BY <1>1, <1>2, <1>3, <1>4, <1>5, <1>6, <1>7 DEF Init, TypeOK, ATCommandType

LEMMA ClearType ==
    ASSUME TypeOK, NEW t \in Threads, clearPendingCommand(t)
    PROVE  /\ sp_response' \in ATResponse \cup {NULL}
           /\ s_responsePrefix' \in Prefixes \cup {NULL}
           /\ s_smsPDU' \in Nat \cup {NULL}
           /\ s_type' \in ATCommandType
           /\ raced' \in BOOLEAN
BY DEF TypeOK, clearPendingCommand

LEMMA NewResponseType ==
    ASSUME NEW t \in Threads, NEW id \in Nat
    PROVE  at_response_new(t, id) \in ATResponse
BY DEF at_response_new, ATResponse
LEMMA StartWaitingType ==
    ASSUME TypeOK, NEW t \in Threads, NEW c \in Command, NEW id \in Nat,
           StartWaiting(t, c, id)
    PROVE  /\ sp_response' \in ATResponse \cup {NULL}
           /\ s_responsePrefix' \in Prefixes \cup {NULL}
           /\ s_smsPDU' \in Nat \cup {NULL}
           /\ s_type' \in ATCommandType
           /\ pc' \in [Threads -> ThreadStates]
           /\ modem' \in [queue : Seq(Call), n : Nat, pdu : {"none", "prompted", "received"}]
           /\ raced' \in BOOLEAN
<1>1. [cmd |-> c, id |-> id] \in Call
  BY DEF Call
<1>2. modem' \in [queue : Seq(Call), n : Nat, pdu : {"none", "prompted", "received"}]
  <2>1. Append(modem.queue, [cmd |-> c, id |-> id]) \in Seq(Call)
    BY <1>1 DEF TypeOK
  <2>2. modem' = modem \/ modem' = [modem EXCEPT !.queue = Append(@, [cmd |-> c, id |-> id])]
    BY DEF StartWaiting
  <2> QED
    BY <2>1, <2>2 DEF TypeOK
<1>3. sp_response' \in ATResponse \cup {NULL}
  BY NewResponseType DEF StartWaiting
<1>4. pc' \in [Threads -> ThreadStates]
  BY DEF TypeOK, StartWaiting, ThreadStates
<1> QED
  BY <1>2, <1>3, <1>4 DEF TypeOK, StartWaiting, Command

LEMMA SendType ==
    ASSUME TypeOK, NEW t \in Threads, NEW c \in Commands,
           SendWhilePending(t, c) \/ SendFails(t, c) \/ SendAndWait(t, c)
    PROVE  TypeOK'
<1>1. c \in Command
  BY CommandsAssumption
<1>2. nCmd + 1 \in Nat /\ nCmd' \in 0..MaxCommands
  BY ConstantsAssumption
     DEF TypeOK, Entering, SendWhilePending, SendFails, SendAndWait
<1>3. call' \in [Threads -> Call]
  <2>1. [cmd |-> c, id |-> nCmd + 1] \in Call
    BY <1>1, <1>2 DEF Call
  <2>2. call' = [call EXCEPT ![t] = [cmd |-> c, id |-> nCmd + 1]]
    BY DEF Entering, SendWhilePending, SendFails, SendAndWait
  <2> QED
    BY <2>1, <2>2 DEF TypeOK
<1>4. result' \in [Threads -> Result]
  <2>1. ASSUME NEW e \in Errors PROVE [err |-> e, id |-> nCmd + 1, resp |-> NULL] \in Result
    BY <1>2 DEF Result
  <2>2. writeline \subseteq Errors /\ "COMMAND_PENDING" \in Errors
    BY DEF writeline, Errors
  <2>3. CASE \E e \in Errors : Returns(t, e)
    BY <2>1, <2>3 DEF TypeOK, Returns
  <2>4. CASE UNCHANGED result
    BY <2>4 DEF TypeOK
  <2> QED
    BY <2>2, <2>3, <2>4 DEF SendWhilePending, SendFails, SendAndWait
<1>5. CASE SendWhilePending(t, c) \/ SendFails(t, c)
  <2>1. clearPendingCommand(t)
    BY <1>5 DEF SendWhilePending, SendFails
  <2>2. Entering(t, c) /\ UNCHANGED <<pc, modem>>
    BY <1>5 DEF SendWhilePending, SendFails
  <2> QED
    BY <1>2, <1>3, <1>4, <2>1, <2>2, ClearType DEF TypeOK, Entering
<1>6. CASE SendAndWait(t, c)
  <2>1. StartWaiting(t, c, nCmd + 1)
    BY <1>6 DEF SendAndWait
  <2> QED
    BY <1>1, <1>2, <1>3, <1>4, <1>6, <2>1, StartWaitingType
       DEF TypeOK, SendAndWait, Entering
<1> QED
  BY <1>5, <1>6

(* Waking up and taking the response. *)

LEMMA ReversedType ==
    ASSUME NEW r \in ATResponse
    PROVE  reverseIntermediates(r) \in ATResponse
<1>1. r.inter \in Seq(Line)
  BY DEF ATResponse
<1>2. Reversed(r.inter) \in Seq(Line)
  BY <1>1 DEF Reversed
<1> QED
  BY <1>2 DEF reverseIntermediates, ATResponse

LEMMA WakeType ==
    ASSUME TypeOK, NEW t \in Threads, SpuriousWake(t) \/ WaitExpires(t)
    PROVE  TypeOK'
<1>1. pc' \in [Threads -> ThreadStates]
  BY DEF TypeOK, SpuriousWake, WaitExpires, ThreadStates
<1> QED
  BY <1>1 DEF TypeOK, SpuriousWake, WaitExpires, pendingVars, modemVars, history

LEMMA ResumeType ==
    ASSUME TypeOK, NEW t \in Threads, WakeToNull(t) \/ WaitAgain(t) \/ FinishCommand(t)
    PROVE  TypeOK'
<1>1. CASE WakeToNull(t)
  BY <1>1 DEF TypeOK, WakeToNull, Resuming, pendingVars, modemVars
<1>2. CASE WaitAgain(t)
  <2>1. pc' \in [Threads -> ThreadStates]
    BY <1>2 DEF TypeOK, WaitAgain, ThreadStates
  <2> QED
    BY <1>2, <2>1 DEF TypeOK, WaitAgain, Resuming, pendingVars, modemVars
<1>3. CASE FinishCommand(t)
  <2>1. pc' \in [Threads -> ThreadStates]
    BY <1>3 DEF TypeOK, FinishCommand, ThreadStates
  <2> DEFINE c == call[t].cmd
             e == FinishErr(c, sp_response)
             r == IF c.out /\ e # "INVALID_RESPONSE"
                  THEN reverseIntermediates(sp_response) ELSE NULL
  <2>2. r \in ATResponse \cup {NULL}
    BY <1>3, ReversedType DEF TypeOK, FinishCommand
  <2>3. e \in Errors
    BY DEF FinishErr, Errors
  <2>4. call[t].id \in Nat
    BY DEF TypeOK, Call
  <2>5. [err |-> e, id |-> call[t].id, resp |-> r] \in Result
    BY <2>2, <2>3, <2>4 DEF Result
  <2>6. result' = [result EXCEPT ![t] = [err |-> e, id |-> call[t].id, resp |-> r]]
    BY <1>3 DEF FinishCommand
  <2>7. result' \in [Threads -> Result]
    BY <2>5, <2>6 DEF TypeOK
  <2> QED
    BY <1>3, <2>1, <2>7 DEF TypeOK, FinishCommand, Resuming, modemVars
<1> QED
  BY <1>1, <1>2, <1>3

(* at_handshake. *)

LEMMA HandshakeErrType ==
    ASSUME TypeOK, NEW t \in Threads, NEW e \in Errors, HandshakeErr(t, e)
    PROVE  result' \in [Threads -> Result]
<1>1. [err |-> e, id |-> call[t].id, resp |-> NULL] \in Result
  BY DEF TypeOK, Call, Result
<1> QED
  BY <1>1 DEF TypeOK, HandshakeErr

LEMMA HandshakeType ==
    ASSUME TypeOK, NEW t \in Threads,
           \/ HandshakeStart(t) \/ HandshakeTryFails(t) \/ HandshakeTrySends(t)
           \/ HandshakeTimesOut(t) \/ HandshakeAnswered(t) \/ HandshakeReturns(t)
    PROVE  TypeOK'
<1>1. CASE HandshakeStart(t)
  <2>1. nCmd + 1 \in Nat /\ nCmd' \in 0..MaxCommands
    BY <1>1, ConstantsAssumption DEF TypeOK, HandshakeStart
  <2>2. [cmd |-> HandshakeCommand, id |-> nCmd + 1] \in Call
    BY <2>1, HandshakeCommandType DEF Call
  <2>3. call' \in [Threads -> Call]
    BY <1>1, <2>2 DEF TypeOK, HandshakeStart
  <2>4. tries' \in [Threads -> 0..HANDSHAKE_RETRY_COUNT]
    BY <1>1, ConstantsAssumption DEF TypeOK, HandshakeStart
  <2>5. pc' \in [Threads -> ThreadStates]
    BY <1>1 DEF TypeOK, HandshakeStart, ThreadStates
  <2> QED
    BY <1>1, <2>1, <2>3, <2>4, <2>5
       DEF TypeOK, HandshakeStart, pendingVars, modemVars, history
<1>2. ASSUME Trying(t) PROVE tries' \in [Threads -> 0..HANDSHAKE_RETRY_COUNT]
  BY <1>2, ConstantsAssumption DEF TypeOK, Trying
<1>3. CASE HandshakeTryFails(t)
  <2>1. writeline \subseteq Errors /\ "COMMAND_PENDING" \in Errors
    BY DEF writeline, Errors
  <2>2. result' \in [Threads -> Result]
    BY <1>3, <2>1, HandshakeErrType DEF HandshakeTryFails
  <2>3. clearPendingCommand(t) /\ Trying(t)
    BY <1>3 DEF HandshakeTryFails
  <2> QED
    BY <1>2, <1>3, <2>2, <2>3, ClearType DEF TypeOK, HandshakeTryFails, Trying
<1>4. CASE HandshakeTrySends(t)
  <2>1. call[t].cmd \in Command /\ call[t].id \in Nat
    BY DEF TypeOK, Call
  <2>2. StartWaiting(t, call[t].cmd, call[t].id) /\ Trying(t)
    BY <1>4 DEF HandshakeTrySends
  <2> QED
    BY <1>2, <1>4, <2>1, <2>2, StartWaitingType DEF TypeOK, HandshakeTrySends, Trying
<1>5. CASE HandshakeTimesOut(t)
  <2>1. clearPendingCommand(t) /\ HandshakeErr(t, "TIMEOUT") /\ "TIMEOUT" \in Errors
    BY <1>5 DEF HandshakeTimesOut, Errors
  <2>2. pc' \in [Threads -> ThreadStates]
    BY <1>5 DEF TypeOK, HandshakeTimesOut, ThreadStates
  <2> QED
    BY <1>5, <2>1, <2>2, ClearType, HandshakeErrType
       DEF TypeOK, HandshakeTimesOut, modemVars
<1>6. CASE HandshakeAnswered(t)
  <2>1. FinishErr(call[t].cmd, sp_response) \in Errors
    BY DEF FinishErr, Errors
  <2>2. result' \in [Threads -> Result]
    BY <1>6, <2>1, HandshakeErrType DEF HandshakeAnswered
  <2>3. pc' \in [Threads -> ThreadStates]
    BY <1>6 DEF TypeOK, HandshakeAnswered, ThreadStates
  <2> QED
    BY <1>6, <2>2, <2>3 DEF TypeOK, HandshakeAnswered, Resuming, modemVars
<1>7. CASE HandshakeReturns(t)
  <2>1. pc' \in [Threads -> ThreadStates]
    BY <1>7 DEF TypeOK, HandshakeReturns, ThreadStates
  <2>2. \A i \in DOMAIN lines : lines[i].id \in Nat
    <3> SUFFICES ASSUME NEW i \in DOMAIN lines PROVE lines[i].id \in Nat
      OBVIOUS
    <3>1. lines \in Seq(Line)
      BY DEF TypeOK
    <3>2. lines[i] \in Line
      BY <3>1
    <3> QED
      BY <3>2 DEF Line
  <2>3. unread' \subseteq Nat
    BY <1>7, <2>2 DEF TypeOK, HandshakeReturns
  <2> QED
    BY <1>7, <2>1, <2>3 DEF TypeOK, HandshakeReturns, pendingVars, modemVars
<1> QED
  BY <1>1, <1>3, <1>4, <1>5, <1>6, <1>7

(* The reader thread. *)

LEMMA SignalType ==
    ASSUME TypeOK, Signal
    PROVE  pc' \in [Threads -> ThreadStates]
BY DEF TypeOK, Signal, ThreadStates

LEMMA ReadLineType ==
    ASSUME TypeOK, lines # <<>>
    PROVE  Head(lines) \in Line /\ Tail(lines) \in Seq(Line)
BY DEF TypeOK

LEMMA HandlerType ==
    ASSUME TypeOK, NEW line \in Line, handleUnsolicited(line)
    PROVE  unsol' \in Seq(Nat \X Nat)
<1>1. <<line.id, line.n>> \in Nat \X Nat
  BY DEF Line
<1> QED
  BY <1>1 DEF TypeOK, handleUnsolicited

LEMMA ProcessLineType ==
    ASSUME TypeOK, processLine
    PROVE  TypeOK'
<1> DEFINE line == Head(lines)
<1>1. line \in Line /\ lines' \in Seq(Line)
  BY ReadLineType DEF processLine
<1>2. Route(line) # "unsolicited" => sp_response \in ATResponse
  BY DEF TypeOK, Route
<1>7. mistaken' \subseteq {"final", "prompt", "intermediate"}
  <2>1. Route(line) \in {"unsolicited", "final", "prompt", "intermediate"}
    BY DEF Route
  <2>2. mistaken' = mistaken \cup (IF line.id = 0 THEN {Route(line)} \ {"unsolicited"} ELSE {})
    BY DEF processLine
  <2> QED
    BY <2>1, <2>2 DEF TypeOK
<1>3. CASE Route(line) = "unsolicited"
  <2>1. handleUnsolicited(line)
    BY <1>3 DEF processLine
  <2>2. UNCHANGED <<sp_response, s_smsPDU, pc, pdus, modem>>
    BY <1>3 DEF processLine
  <2>3. unsol' \in Seq(Nat \X Nat)
    BY <1>1, <2>1, HandlerType
  <2> HIDE DEF line
  <2> QED
    BY <1>1, <1>7, <2>2, <2>3 DEF TypeOK, processLine
<1>4. CASE Route(line) = "final"
  <2>1. handleFinalResponse(line) /\ UNCHANGED <<s_smsPDU, unsol, pdus, modem>>
    BY <1>4 DEF processLine
  <2>2. sp_response' \in ATResponse
    BY <1>1, <1>2, <1>4, <2>1
       DEF handleFinalResponse, ATResponse, isFinalResponseSuccess
  <2>3. pc' \in [Threads -> ThreadStates]
    BY <2>1, SignalType DEF handleFinalResponse
  <2> QED
    BY <1>1, <1>7, <2>1, <2>2, <2>3 DEF TypeOK, processLine
<1>5. CASE Route(line) = "prompt"
  <2>1. writeCtrlZ(line) /\ s_smsPDU' = NULL /\ UNCHANGED <<sp_response, pc, unsol>>
    BY <1>5 DEF processLine
  <2>2. s_smsPDU \in Nat
    BY <1>5 DEF TypeOK, Route
  <2>3. <<s_smsPDU, line.id>> \in Nat \X Nat
    BY <1>1, <2>2 DEF Line
  <2>4. pdus' \subseteq Nat \X Nat
    BY <2>1, <2>3 DEF TypeOK, writeCtrlZ
  <2>5. modem' \in [queue : Seq(Call), n : Nat, pdu : {"none", "prompted", "received"}]
    BY <2>1 DEF TypeOK, writeCtrlZ
  <2> QED
    BY <1>1, <1>7, <2>1, <2>4, <2>5 DEF TypeOK, processLine
<1>6. CASE Route(line) = "intermediate"
  <2>1. addIntermediate(line) /\ UNCHANGED <<s_smsPDU, pc, unsol, pdus, modem>>
    BY <1>6 DEF processLine
  <2>2. sp_response.inter \in Seq(Line)
    BY <1>2, <1>6 DEF ATResponse
  <2>3. <<line>> \o sp_response.inter \in Seq(Line)
    BY <1>1, <2>2
  <2>4. sp_response' \in ATResponse
    BY <1>2, <1>6, <2>1, <2>3 DEF addIntermediate, ATResponse
  <2> QED
    BY <1>1, <1>7, <2>1, <2>4 DEF TypeOK, processLine
<1> QED
  BY <1>3, <1>4, <1>5, <1>6 DEF processLine

LEMMA ReaderType ==
    ASSUME TypeOK, Reader
    PROVE  TypeOK'
<1>1. CASE processLine
  BY <1>1, ProcessLineType
<1>2. CASE ReadSmsHeader
  <2>1. lines' \in Seq(Line) /\ reader' \in ReaderStates
    BY <1>2, ReadLineType DEF ReadSmsHeader, ReaderStates
  <2> QED
    BY <1>2, <2>1 DEF TypeOK, ReadSmsHeader, pendingVars, threadVars, history
<1>3. CASE ReadSmsPdu
  <2>1. lines' \in Seq(Line) /\ reader' \in ReaderStates /\ Head(lines) \in Line
    BY <1>3, ReadLineType DEF ReadSmsPdu, ReaderStates
  <2>2. unsol' \in Seq(Nat \X Nat)
    BY <1>3, <2>1, HandlerType DEF ReadSmsPdu
  <2> QED
    BY <1>3, <2>1, <2>2 DEF TypeOK, ReadSmsPdu, pendingVars, threadVars
<1>4. CASE ReadEOF
  BY <1>4 DEF TypeOK, ReadEOF, ReaderStates, pendingVars, threadVars, modemVars, history
<1>5. CASE onReaderClosed
  <2>1. pc' \in [Threads -> ThreadStates]
    BY <1>5, SignalType DEF onReaderClosed
  <2> QED
    BY <1>5, <2>1 DEF TypeOK, onReaderClosed, ReaderStates, pendingVars, modemVars, history
<1>6. CASE at_close
  <2>1. pc' \in [Threads -> ThreadStates]
    BY <1>6, SignalType DEF at_close
  <2> QED
    BY <1>6, <2>1 DEF TypeOK, at_close, ReaderStates, pendingVars, modemVars, history
<1> QED
  BY <1>1, <1>2, <1>3, <1>4, <1>5, <1>6 DEF Reader

LEMMA OpenType ==
    ASSUME TypeOK, at_open \/ at_open_reset
    PROVE  TypeOK'
<1>1. Main \in Threads
  BY ConstantsAssumption
<1>2. pc' \in [Threads -> ThreadStates]
  BY DEF TypeOK, at_open, at_open_reset, ThreadStates
<1>3. CASE at_open
  <2>1. nOpen' \in 0..MaxOpens
    BY <1>3, ConstantsAssumption DEF TypeOK, at_open
  <2>2. /\ lines' \in Seq(Line)
        /\ modem' \in [queue : Seq(Call), n : Nat, pdu : {"none", "prompted", "received"}]
    BY <1>3 DEF at_open, IdleModem
  <2> QED
    BY <1>2, <1>3, <2>1, <2>2 DEF TypeOK, at_open, pendingVars, history
<1>4. CASE at_open_reset
  <2>1. clearPendingCommand(Main)
    BY <1>4 DEF at_open_reset
  <2> QED
    BY <1>1, <1>2, <1>4, <2>1, ClearType DEF TypeOK, at_open_reset, ReaderStates, modemVars
<1> QED
  BY <1>3, <1>4

(* The modem. *)

LEMMA ModemFieldTypes ==
    ASSUME TypeOK, Answering
    PROVE  /\ Answered \in Call
           /\ Tail(modem.queue) \in Seq(Call)
           /\ modem.n \in Nat
BY DEF TypeOK, Answering, Answered

LEMMA EmitType ==
    ASSUME TypeOK, NEW line \in Line, Emit(line)
    PROVE  lines' \in Seq(Line)
BY DEF TypeOK, Emit

LEMMA ModemType ==
    ASSUME TypeOK,
           ModemPrompt \/ ModemIntermediate \/ ModemFinal \/ ModemDrops
    PROVE  TypeOK'
<1>1. Answering
  BY DEF ModemPrompt, ModemIntermediate, ModemFinal, ModemDrops
<1>2. Answered.id \in Nat /\ Answered.cmd \in Command
  BY <1>1, ModemFieldTypes DEF Call
<1>3. lines' \in Seq(Line)
  <2>1. CASE ModemPrompt
    <3>1. [text |-> "> ", id |-> Answered.id, n |-> 0] \in Line
      BY <1>2 DEF Line, Texts
    <3> QED
      BY <2>1, <3>1, EmitType DEF ModemPrompt
  <2>2. CASE ModemIntermediate
    <3>0. PICK text \in InterTexts(Answered.cmd) :
            Emit([text |-> text, id |-> Answered.id, n |-> modem.n + 1])
      BY <2>2 DEF ModemIntermediate
    <3>1. text \in Texts
      <4>1. Answered.cmd.type # "NO_RESULT"
        BY <1>1, <2>2, ModemFieldTypes DEF ModemIntermediate, InterLimit
      <4>2. Answered.cmd.type \in {"SINGLELINE", "MULTILINE"} => Answered.cmd.prefix \in Prefixes
        BY <1>2 DEF Command
      <4>3. Answered.cmd.type \in ATCommandType
        BY <1>2 DEF Command
      <4> QED
        BY <4>1, <4>2, <4>3 DEF InterTexts, Texts, ATCommandType
    <3>2. [text |-> text, id |-> Answered.id, n |-> modem.n + 1] \in Line
      BY <1>1, <1>2, <3>1, ModemFieldTypes DEF Line
    <3> QED
      BY <3>0, <3>2, EmitType
  <2>3. CASE ModemFinal
    <3>1. PICK text \in {"OK", "ERROR"} :
            Emit([text |-> text, id |-> Answered.id, n |-> modem.n])
      BY <2>3 DEF ModemFinal
    <3>2. [text |-> text, id |-> Answered.id, n |-> modem.n] \in Line
      BY <1>1, <1>2, ModemFieldTypes DEF Line, Texts
    <3> QED
      BY <3>1, <3>2, EmitType
  <2>4. CASE ModemDrops
    BY <2>4 DEF TypeOK, ModemDrops
  <2> QED
    BY <2>1, <2>2, <2>3, <2>4
<1>4. modem' \in [queue : Seq(Call), n : Nat, pdu : {"none", "prompted", "received"}]
  <2>1. CASE ModemPrompt \/ ModemIntermediate
    <3>1. modem.n + 1 \in Nat
      BY <1>1, ModemFieldTypes
    <3>2. \/ modem' = [modem EXCEPT !.pdu = "prompted"]
          \/ modem' = [modem EXCEPT !.n = @ + 1]
      BY <2>1 DEF ModemPrompt, ModemIntermediate
    <3> QED
      BY <3>1, <3>2 DEF TypeOK
  <2>2. CASE ModemFinal \/ ModemDrops
    <3>1. modem' = [queue |-> Tail(modem.queue), n |-> 0, pdu |-> "none"]
      BY <2>2 DEF ModemFinal, ModemDrops, IdleModem
    <3> QED
      BY <1>1, <3>1, ModemFieldTypes
  <2> QED
    BY <2>1, <2>2
<1>5. ModemKeeps /\ UNCHANGED <<hungup, nUnsol>>
  BY DEF ModemPrompt, ModemIntermediate, ModemFinal, ModemDrops
<1> QED
  BY <1>3, <1>4, <1>5 DEF TypeOK, ModemKeeps, pendingVars, threadVars, history

LEMMA ModemSideType ==
    ASSUME TypeOK, ModemUnsolicited \/ Hangup
    PROVE  TypeOK'
<1>1. CASE ModemUnsolicited
  <2>1. nUnsol + 1 \in Nat /\ nUnsol' \in 0..MaxUnsol
    BY <1>1, ConstantsAssumption DEF TypeOK, ModemUnsolicited
  <2> DEFINE u(text) == [text |-> text, id |-> 0, n |-> nUnsol + 1]
  <2>2. PICK text \in UnsolTexts :
          lines' = lines \o (IF text = "+CMT:" THEN <<u(text), [u(text) EXCEPT !.text = "other"]>>
                             ELSE <<u(text)>>)
    BY <1>1 DEF ModemUnsolicited
  <2>3. u(text) \in Line /\ [u(text) EXCEPT !.text = "other"] \in Line
    BY <2>1, UnsolTextsAssumption DEF Line, Texts
  <2>4. lines' \in Seq(Line)
    <3> HIDE DEF u
    <3>1. CASE text = "+CMT:"
      <4>1. <<u(text), [u(text) EXCEPT !.text = "other"]>> \in Seq(Line)
        BY <2>3
      <4> QED
        BY <2>2, <3>1, <4>1 DEF TypeOK
    <3>2. CASE text # "+CMT:"
      <4>1. <<u(text)>> \in Seq(Line)
        BY <2>3
      <4> QED
        BY <2>2, <3>2, <4>1 DEF TypeOK
    <3> QED
      BY <3>1, <3>2
  <2> QED
    BY <1>1, <2>1, <2>4
       DEF TypeOK, ModemUnsolicited, ModemKeeps, pendingVars, threadVars, history
<1>2. CASE Hangup
  <2>1. lines' \in Seq(Line)
    BY <1>2 DEF TypeOK, Hangup
  <2>2. modem' \in [queue : Seq(Call), n : Nat, pdu : {"none", "prompted", "received"}]
    BY <1>2 DEF Hangup, IdleModem
  <2> QED
    BY <1>2, <2>1, <2>2
       DEF TypeOK, Hangup, ModemKeeps, pendingVars, threadVars, history
<1> QED
  BY <1>1, <1>2

(* The type invariant holds in every state of the specification.            *)
THEOREM TypeCorrect == Spec => []TypeOK
<1>1. Init => TypeOK
  BY InitTypeOK
<1>2. TypeOK /\ [Next]_vars => TypeOK'
  <2> SUFFICES ASSUME TypeOK, Next PROVE TypeOK'
    BY StutterTypeOK
  <2>1. ASSUME NEW t \in Threads, CommandThread(t) PROVE TypeOK'
    BY <2>1, SendType, HandshakeType DEF CommandThread
  <2>2. ASSUME NEW t \in Threads, InsideCall(t) PROVE TypeOK'
    BY <2>2, ResumeType, HandshakeType DEF InsideCall
  <2>3. ASSUME NEW t \in Threads, SpuriousWake(t) \/ WaitExpires(t) PROVE TypeOK'
    BY <2>3, WakeType
  <2> QED
    BY <2>1, <2>2, <2>3, ReaderType, OpenType, ModemType, ModemSideType
       DEF Next, ModemServes
<1> QED
  BY <1>1, <1>2, PTL DEF Spec

(***************************************************************************)
(* Ownership of sp_response.  WaiterOwnsPending is inductive relative to   *)
(* TypeOK: the only stores that could take sp_response from a waiting      *)
(* thread are those of clearPendingCommand by another thread, which raise  *)
(* `raced', and those of the waiting thread itself.                        *)
(***************************************************************************)

(* A step that leaves sp_response, raced and crashed alone and moves threads *)
(* at most within the wait loop.                                            *)
LEMMA OwnerKept ==
    ASSUME TypeOK, WaiterOwnsPending,
           UNCHANGED <<raced, crashed>>,
           sp_response # NULL => sp_response' # NULL /\ sp_response'.owner = sp_response.owner,
           \A t \in Threads : InWait(t)' => InWait(t)
    PROVE  WaiterOwnsPending'
BY DEF WaiterOwnsPending

(* clearPendingCommand by a thread that is not in the wait loop any more. *)
LEMMA OwnerCleared ==
    ASSUME TypeOK, WaiterOwnsPending, NEW t \in Threads, clearPendingCommand(t),
           UNCHANGED crashed,
           \A u \in Threads : u # t => pc'[u] = pc[u],
           ~InWait(t)'
    PROVE  WaiterOwnsPending'
<1> SUFFICES ASSUME ~raced' PROVE /\ \A u \in Threads : ~InWait(u)'
                                  /\ ~crashed'
  BY DEF WaiterOwnsPending
<1>1. ~raced /\ (sp_response # NULL => sp_response.owner = t)
  BY DEF clearPendingCommand
<1>2. ASSUME NEW u \in Threads, u # t PROVE ~InWait(u)
  BY <1>1, <1>2 DEF WaiterOwnsPending
<1> QED
  BY <1>1, <1>2 DEF WaiterOwnsPending, InWait

(* A thread that finds no pending command sends one. *)
LEMMA OwnerStarted ==
    ASSUME TypeOK, WaiterOwnsPending, NEW t \in Threads, NEW c, NEW id \in Nat,
           sp_response = NULL, StartWaiting(t, c, id), UNCHANGED crashed
    PROVE  WaiterOwnsPending'
<1> SUFFICES ASSUME ~raced'
             PROVE  /\ \A u \in Threads : InWait(u)' => sp_response' # NULL
                                                     /\ sp_response'.owner = u
                    /\ ~crashed'
  BY DEF WaiterOwnsPending
<1>1. ~raced /\ pc' = [pc EXCEPT ![t] = "waiting"]
      /\ sp_response' = [owner |-> t, id |-> id, success |-> FALSE, final |-> NULL, inter |-> <<>>]
  BY DEF StartWaiting, at_response_new
<1>2. \A u \in Threads : ~InWait(u)
  BY <1>1 DEF WaiterOwnsPending
<1>3. \A u \in Threads : InWait(u)' => u = t
  BY <1>1, <1>2 DEF InWait, TypeOK
<1>4. sp_response' # NULL
  BY NewResponseType, NullResponseAssumption DEF StartWaiting
<1> QED
  BY <1>1, <1>3, <1>4 DEF WaiterOwnsPending

LEMMA OwnerSend ==
    ASSUME TypeOK, WaiterOwnsPending, NEW t \in Threads, NEW c \in Commands,
           SendWhilePending(t, c) \/ SendFails(t, c) \/ SendAndWait(t, c)
    PROVE  WaiterOwnsPending'
<1>1. CASE SendWhilePending(t, c) \/ SendFails(t, c)
  <2>1. pc[t] = "idle" /\ clearPendingCommand(t) /\ UNCHANGED <<pc, crashed>>
    BY <1>1 DEF SendWhilePending, SendFails, Entering
  <2> QED
    BY <2>1, OwnerCleared DEF InWait
<1>2. CASE SendAndWait(t, c)
  <2>1. sp_response = NULL /\ StartWaiting(t, c, nCmd + 1) /\ UNCHANGED crashed
        /\ nCmd + 1 \in Nat
    BY <1>2, ConstantsAssumption DEF TypeOK, SendAndWait, Entering
  <2> QED
    BY <2>1, OwnerStarted
<1> QED
  BY <1>1, <1>2

(* The waiting thread takes its own response and leaves the loop. *)
LEMMA OwnerTakes ==
    ASSUME TypeOK, WaiterOwnsPending, NEW t \in Threads, InWait(t),
           UNCHANGED <<raced, crashed>>,
           \A u \in Threads : u # t => pc'[u] = pc[u],
           ~InWait(t)'
    PROVE  WaiterOwnsPending'
<1> SUFFICES ASSUME ~raced PROVE \A u \in Threads : ~InWait(u)'
  BY DEF WaiterOwnsPending
<1>1. sp_response.owner = t
  BY DEF WaiterOwnsPending
<1>2. \A u \in Threads : u # t => ~InWait(u)
  BY <1>1 DEF WaiterOwnsPending
<1> QED
  BY <1>2 DEF InWait

LEMMA OwnerInsideCall ==
    ASSUME TypeOK, WaiterOwnsPending, NEW t \in Threads, InsideCall(t)
    PROVE  WaiterOwnsPending'
<1>0. pc \in [Threads -> ThreadStates]
  BY DEF TypeOK
<1>1. CASE WakeToNull(t)
  <2>1. pc[t] = "woken" /\ sp_response = NULL /\ UNCHANGED raced
    BY <1>1 DEF WakeToNull, Resuming
  <2> QED
    BY <2>1 DEF WaiterOwnsPending, InWait
<1>2. CASE WaitAgain(t)
  <2>1. /\ pc[t] = "woken" /\ pc' = [pc EXCEPT ![t] = "waiting"]
        /\ UNCHANGED <<sp_response, raced, crashed>>
    BY <1>2 DEF WaitAgain, Resuming, pendingVars
  <2> QED
    BY <1>0, <2>1, OwnerKept DEF InWait
<1>3. CASE FinishCommand(t)
  <2>1. /\ pc[t] = "woken" /\ pc' = [pc EXCEPT ![t] = "idle"]
        /\ UNCHANGED <<raced, crashed>>
    BY <1>3 DEF FinishCommand, Resuming
  <2> QED
    BY <1>0, <2>1, OwnerTakes DEF InWait
<1>4. CASE HandshakeTryFails(t)
  <2>1. pc[t] = "hsTry" /\ clearPendingCommand(t) /\ UNCHANGED <<pc, crashed>>
    BY <1>4 DEF HandshakeTryFails, Trying
  <2> QED
    BY <2>1, OwnerCleared DEF InWait
<1>5. CASE HandshakeTrySends(t)
  <2>1. /\ sp_response = NULL /\ StartWaiting(t, call[t].cmd, call[t].id)
        /\ UNCHANGED crashed /\ call[t].id \in Nat
    BY <1>5 DEF TypeOK, Call, HandshakeTrySends, Trying
  <2> QED
    BY <2>1, OwnerStarted
<1>6. CASE HandshakeTimesOut(t)
  <2>1. /\ pc' = [pc EXCEPT ![t] = "hsTry"]
        /\ clearPendingCommand(t) /\ UNCHANGED crashed
    BY <1>6 DEF HandshakeTimesOut
  <2> QED
    BY <1>0, <2>1, OwnerCleared DEF InWait
<1>7. CASE HandshakeAnswered(t)
  <2>1. /\ pc[t] = "woken" /\ UNCHANGED <<raced, crashed>>
        /\ pc' = [pc EXCEPT ![t] = IF s_readerClosed THEN "hsTry" ELSE "hsPause"]
    BY <1>7 DEF HandshakeAnswered, Resuming
  <2> QED
    BY <1>0, <2>1, OwnerTakes DEF InWait
<1>8. CASE HandshakeReturns(t)
  <2>1. /\ pc' = [pc EXCEPT ![t] = "idle"]
        /\ UNCHANGED <<sp_response, raced, crashed>>
    BY <1>8 DEF HandshakeReturns, pendingVars
  <2> QED
    BY <1>0, <2>1, OwnerKept DEF InWait
<1> QED
  BY <1>1, <1>2, <1>3, <1>4, <1>5, <1>6, <1>7, <1>8 DEF InsideCall

LEMMA OwnerReader ==
    ASSUME TypeOK, WaiterOwnsPending, Reader
    PROVE  WaiterOwnsPending'
<1>1. UNCHANGED <<raced, crashed>>
  BY DEF Reader, processLine, ReadSmsHeader, ReadSmsPdu, ReadEOF, onReaderClosed, at_close,
         history
<1>2. \A t \in Threads : InWait(t)' => InWait(t)
  <2>1. Signal \/ UNCHANGED pc
    BY DEF Reader, processLine, handleFinalResponse, ReadSmsHeader, ReadSmsPdu, ReadEOF,
           onReaderClosed, at_close, threadVars
  <2> QED
    BY <2>1 DEF Signal, InWait, TypeOK
<1>3. sp_response # NULL => sp_response' # NULL /\ sp_response'.owner = sp_response.owner
  <2> SUFFICES ASSUME sp_response # NULL
               PROVE  sp_response' # NULL /\ sp_response'.owner = sp_response.owner
    OBVIOUS
  <2>1. CASE processLine
    <3>1. sp_response \in ATResponse /\ TypeOK'
      BY <2>1, ProcessLineType DEF TypeOK
    <3>2. \/ UNCHANGED sp_response
          \/ sp_response' = [sp_response EXCEPT !.final = Head(lines),
                                  !.success = isFinalResponseSuccess(Head(lines))]
          \/ sp_response' = [sp_response EXCEPT !.inter = <<Head(lines)>> \o @]
      BY <2>1 DEF processLine, handleFinalResponse, addIntermediate
    <3>3. sp_response'.owner = sp_response.owner
      BY <3>1, <3>2 DEF ATResponse
    <3>4. sp_response' # NULL
      <4>1. \A l \in Line, b \in BOOLEAN :
              [sp_response EXCEPT !.final = l, !.success = b] \in ATResponse
        BY <3>1 DEF ATResponse
      <4>2. ASSUME NEW l \in Line
            PROVE  [sp_response EXCEPT !.inter = <<l>> \o @] \in ATResponse
        <5>1. sp_response.inter \in Seq(Line)
          BY <3>1 DEF ATResponse
        <5>2. <<l>> \o sp_response.inter \in Seq(Line)
          BY <5>1
        <5> QED
          BY <3>1, <5>2 DEF ATResponse
      <4>3. Head(lines) \in Line
        BY <2>1, ReadLineType DEF processLine
      <4> QED
        BY <3>2, <4>1, <4>2, <4>3, NullResponseAssumption DEF isFinalResponseSuccess
    <3> QED
      BY <3>3, <3>4
  <2>2. CASE ~processLine
    BY <2>2 DEF Reader, ReadSmsHeader, ReadSmsPdu, ReadEOF, onReaderClosed, at_close,
                pendingVars
  <2> QED
    BY <2>1, <2>2
<1> QED
  BY <1>1, <1>2, <1>3, OwnerKept

(* As long as no thread destroys another's pending command, a waiting thread *)
(* owns sp_response and the wait loop's dereference of it is safe, for any   *)
(* number of threads, any commands and any behaviour of the modem.           *)
THEOREM OwnershipCorrect == Spec => []WaiterOwnsPending
<1>1. Init => WaiterOwnsPending
  BY DEF Init, WaiterOwnsPending, InWait
<1>2. TypeOK /\ WaiterOwnsPending /\ [Next]_vars => WaiterOwnsPending'
  <2> SUFFICES ASSUME TypeOK, WaiterOwnsPending, [Next]_vars PROVE WaiterOwnsPending'
    OBVIOUS
  <2>1. ASSUME NEW t \in Threads, CommandThread(t) PROVE WaiterOwnsPending'
    <3>1. CASE HandshakeStart(t)
      <4>1. pc' = [pc EXCEPT ![t] = "hsTry"] /\ UNCHANGED <<sp_response, raced, crashed>>
        BY <3>1 DEF HandshakeStart, pendingVars, history
      <4> QED
        BY <4>1, OwnerKept DEF InWait, TypeOK
    <3> QED
      BY <2>1, <3>1, OwnerSend DEF CommandThread
  <2>2. ASSUME NEW t \in Threads, SpuriousWake(t) \/ WaitExpires(t) PROVE WaiterOwnsPending'
    <3>1. /\ pc[t] = "waiting"
          /\ pc' = [pc EXCEPT ![t] = "woken"] \/ pc' = [pc EXCEPT ![t] = "timedOut"]
          /\ UNCHANGED <<sp_response, raced, crashed>>
      BY <2>2 DEF SpuriousWake, WaitExpires, pendingVars, history
    <3> QED
      BY <3>1, OwnerKept DEF InWait, TypeOK
  <2>3. CASE at_open
    <3>1. pc' = [pc EXCEPT ![Main] = "opening"] /\ UNCHANGED <<sp_response, raced, crashed>>
      BY <2>3 DEF at_open, pendingVars, history
    <3> QED
      BY <3>1, OwnerKept DEF InWait, TypeOK
  <2>4. CASE at_open_reset
    <3>1. /\ clearPendingCommand(Main) /\ pc' = [pc EXCEPT ![Main] = "idle"]
          /\ UNCHANGED crashed /\ Main \in Threads
      BY <2>4, ConstantsAssumption DEF at_open_reset
    <3> QED
      BY <3>1, OwnerCleared DEF InWait, TypeOK
  <2>5. CASE ModemServes \/ ModemDrops \/ ModemUnsolicited \/ Hangup
    <3>1. ModemKeeps
      BY <2>5 DEF ModemServes, ModemPrompt, ModemIntermediate, ModemFinal, ModemDrops,
                  ModemUnsolicited, Hangup
    <3> QED
      BY <3>1, OwnerKept DEF ModemKeeps, pendingVars, threadVars, history, InWait
  <2>6. CASE UNCHANGED vars
    BY <2>6, OwnerKept DEF vars, pendingVars, threadVars, history, InWait
  <2> QED
    BY <2>1, <2>2, <2>3, <2>4, <2>5, <2>6, OwnerInsideCall, OwnerReader DEF Next
<1> QED
  BY <1>1, <1>2, TypeCorrect, PTL DEF Spec

(* With one command thread nothing is raced for: the dereferences of        *)
(* sp_response in the wait loop are safe for any commands, at_handshake and *)
(* reopening included.  The race that breaks NoNullDereference needs two.   *)
THEOREM SingleThreadSafe ==
    ASSUME Threads = {Main}
    PROVE  Spec => []NoNullDereference
<1>1. Init => ~raced
  BY DEF Init
<1>2. TypeOK /\ ~raced /\ [Next]_vars => ~raced'
  <2> SUFFICES ASSUME TypeOK, ~raced, [Next]_vars PROVE ~raced'
    OBVIOUS
  <2>1. ASSUME NEW t \in Threads, clearPendingCommand(t) PROVE ~raced'
    BY <2>1, NullResponseAssumption DEF clearPendingCommand, TypeOK, ATResponse
  <2>2. ASSUME NEW t \in Threads, CommandThread(t) PROVE ~raced'
    BY <2>1, <2>2 DEF CommandThread, SendWhilePending, SendFails, SendAndWait, StartWaiting,
                      HandshakeStart, history
  <2>3. ASSUME NEW t \in Threads, InsideCall(t) PROVE ~raced'
    BY <2>1, <2>3 DEF InsideCall, WakeToNull, WaitAgain, FinishCommand, HandshakeTryFails,
                      HandshakeTrySends, HandshakeTimesOut, HandshakeAnswered,
                      HandshakeReturns, StartWaiting, history
  <2>4. ASSUME NEW t \in Threads, SpuriousWake(t) \/ WaitExpires(t) PROVE ~raced'
    BY <2>4 DEF SpuriousWake, WaitExpires, history
  <2>5. CASE Reader
    BY <2>5 DEF Reader, processLine, ReadSmsHeader, ReadSmsPdu, ReadEOF, onReaderClosed,
                at_close, history
  <2>6. CASE at_open \/ at_open_reset
    BY <2>1, <2>6, ConstantsAssumption DEF at_open, at_open_reset, history
  <2>7. CASE ModemServes \/ ModemDrops \/ ModemUnsolicited \/ Hangup
    BY <2>7 DEF ModemServes, ModemPrompt, ModemIntermediate, ModemFinal, ModemDrops,
                ModemUnsolicited, Hangup, ModemKeeps, history
  <2>8. CASE UNCHANGED vars
    BY <2>8 DEF vars, history
  <2> QED
    BY <2>2, <2>3, <2>4, <2>5, <2>6, <2>7, <2>8 DEF Next
<1>3. ~raced /\ WaiterOwnsPending => NoNullDereference
  BY DEF WaiterOwnsPending, NoNullDereference
<1> QED
  BY <1>1, <1>2, <1>3, TypeCorrect, OwnershipCorrect, PTL DEF Spec

---------------------------------------------------------------------------
(* The channel implements ATService.  Besides the invariants above the     *)
(* refinement needs the converse of WaiterOwnsPending: a pending command   *)
(* always has its thread in the wait loop, so a caller that finds one has  *)
(* found somebody else's.                                                  *)

(* Nobody leaves the wait loop without clearing sp_response. *)
PendingIsWaited == (~raced /\ sp_response # NULL) => InWait(sp_response.owner)

LEMMA WaitedKept ==
    ASSUME PendingIsWaited, UNCHANGED <<raced, sp_response>>,
           \A t \in Threads : InWait(t) => InWait(t)',
           TypeOK
    PROVE  PendingIsWaited'
<1>1. sp_response # NULL => sp_response.owner \in Threads
  BY DEF TypeOK, ATResponse
<1> QED
  BY <1>1 DEF PendingIsWaited, InWait

LEMMA WaitedStarted ==
    ASSUME TypeOK, NEW t \in Threads, NEW c, NEW id, StartWaiting(t, c, id)
    PROVE  PendingIsWaited'
<1>1. sp_response'.owner = t /\ pc'[t] = "waiting"
  BY DEF StartWaiting, at_response_new, TypeOK
<1> QED
  BY <1>1 DEF PendingIsWaited, InWait

LEMMA WaitedCleared ==
    ASSUME sp_response' = NULL
    PROVE  PendingIsWaited'
BY DEF PendingIsWaited

LEMMA WaitedThread ==
    ASSUME TypeOK, PendingIsWaited, NEW t \in Threads,
           CommandThread(t) \/ InsideCall(t) \/ SpuriousWake(t) \/ WaitExpires(t)
    PROVE  PendingIsWaited'
<1>0. pc \in [Threads -> ThreadStates]
  BY DEF TypeOK
<1>1. CASE CommandThread(t)
  <2>1. CASE HandshakeStart(t)
    <3>1. pc[t] = "idle" /\ pc' = [pc EXCEPT ![t] = "hsTry"] /\ UNCHANGED <<sp_response, raced>>
      BY <2>1 DEF HandshakeStart, pendingVars, history
    <3> QED
      BY <1>0, <3>1, WaitedKept DEF InWait
  <2>2. ASSUME NEW c \in Commands, SendWhilePending(t, c) \/ SendFails(t, c)
        PROVE  PendingIsWaited'
    BY <2>2, WaitedCleared DEF SendWhilePending, SendFails, clearPendingCommand
  <2>3. ASSUME NEW c \in Commands, SendAndWait(t, c) PROVE PendingIsWaited'
    BY <2>3, WaitedStarted DEF SendAndWait
  <2> QED
    BY <1>1, <2>1, <2>2, <2>3 DEF CommandThread
<1>2. CASE InsideCall(t)
  <2>1. CASE WakeToNull(t)
    BY <2>1, WaitedKept DEF WakeToNull, pendingVars, InWait
  <2>2. CASE WaitAgain(t)
    <3>1. pc' = [pc EXCEPT ![t] = "waiting"] /\ UNCHANGED <<sp_response, raced>>
      BY <2>2 DEF WaitAgain, pendingVars
    <3> QED
      BY <1>0, <3>1, WaitedKept DEF InWait
  <2>3. CASE FinishCommand(t) \/ HandshakeAnswered(t)
    BY <2>3, WaitedCleared DEF FinishCommand, HandshakeAnswered
  <2>4. CASE HandshakeTryFails(t) \/ HandshakeTimesOut(t)
    BY <2>4, WaitedCleared DEF HandshakeTryFails, HandshakeTimesOut, clearPendingCommand
  <2>5. CASE HandshakeTrySends(t)
    BY <2>5, WaitedStarted DEF HandshakeTrySends
  <2>6. CASE HandshakeReturns(t)
    <3>1. /\ pc[t] \in {"hsPause", "hsTry"} /\ pc' = [pc EXCEPT ![t] = "idle"]
          /\ UNCHANGED <<sp_response, raced>>
      BY <2>6 DEF HandshakeReturns, pendingVars
    <3> QED
      BY <1>0, <3>1, WaitedKept DEF InWait
  <2> QED
    BY <1>2, <2>1, <2>2, <2>3, <2>4, <2>5, <2>6 DEF InsideCall
<1>3. CASE SpuriousWake(t) \/ WaitExpires(t)
  <2>1. /\ pc' = [pc EXCEPT ![t] = "woken"] \/ pc' = [pc EXCEPT ![t] = "timedOut"]
        /\ UNCHANGED <<sp_response, raced>>
    BY <1>3 DEF SpuriousWake, WaitExpires, pendingVars, history
  <2> QED
    BY <1>0, <2>1, WaitedKept DEF InWait
<1> QED
  BY <1>1, <1>2, <1>3

(* What a line does to the response under construction. *)
LEMMA LineEffect ==
    ASSUME TypeOK, processLine
    PROVE  /\ UNCHANGED <<raced, result>>
           /\ Signal \/ UNCHANGED pc
           /\ \/ UNCHANGED sp_response
              \/ /\ sp_response \in ATResponse /\ Head(lines) \in Line
                 /\ \/ sp_response' = [sp_response EXCEPT !.final = Head(lines),
                                           !.success = isFinalResponseSuccess(Head(lines))]
                    \/ sp_response' = [sp_response EXCEPT !.inter = <<Head(lines)>> \o @]
<1>1. Head(lines) \in Line
  BY ReadLineType DEF processLine
<1>2. Route(Head(lines)) # "unsolicited" => sp_response \in ATResponse
  BY DEF TypeOK, Route
<1> QED
  BY <1>1, <1>2 DEF processLine, handleFinalResponse, addIntermediate

LEMMA WaitedReader ==
    ASSUME TypeOK, PendingIsWaited, Reader
    PROVE  PendingIsWaited'
<1>1. \A t \in Threads : InWait(t) => InWait(t)'
  <2>1. Signal \/ UNCHANGED pc
    BY DEF Reader, processLine, handleFinalResponse, ReadSmsHeader, ReadSmsPdu, ReadEOF,
           onReaderClosed, at_close, threadVars
  <2> QED
    BY <2>1 DEF Signal, InWait, TypeOK
<1>2. CASE processLine
  <2>1. CASE UNCHANGED sp_response
    BY <1>1, <1>2, <2>1, LineEffect, WaitedKept
  <2>2. CASE ~UNCHANGED sp_response
    <3>1. sp_response \in ATResponse /\ UNCHANGED raced
          /\ sp_response'.owner = sp_response.owner
      BY <1>2, <2>2, LineEffect DEF ATResponse
    <3> QED
      BY <1>1, <3>1, NullResponseAssumption DEF PendingIsWaited, ATResponse, InWait
  <2> QED
    BY <2>1, <2>2
<1>3. CASE ~processLine
  <2>1. UNCHANGED <<raced, sp_response>>
    BY <1>3 DEF Reader, ReadSmsHeader, ReadSmsPdu, ReadEOF, onReaderClosed, at_close,
                pendingVars, history
  <2> QED
    BY <1>1, <2>1, WaitedKept
<1> QED
  BY <1>2, <1>3

(* A pending command that nobody has thrown away is waited for. *)
THEOREM PendingCorrect == Spec => []PendingIsWaited
<1>1. Init => PendingIsWaited
  BY DEF Init, PendingIsWaited
<1>2. TypeOK /\ PendingIsWaited /\ [Next]_vars => PendingIsWaited'
  <2> SUFFICES ASSUME TypeOK, PendingIsWaited, [Next]_vars PROVE PendingIsWaited'
    OBVIOUS
  <2>1. CASE at_open
    <3>1. /\ pc[Main] = "idle" /\ pc' = [pc EXCEPT ![Main] = "opening"]
          /\ UNCHANGED <<sp_response, raced>>
      BY <2>1 DEF at_open, pendingVars, history
    <3> QED
      BY <3>1, WaitedKept DEF InWait, TypeOK
  <2>2. CASE at_open_reset
    BY <2>2, WaitedCleared DEF at_open_reset, clearPendingCommand
  <2>3. CASE ModemServes \/ ModemDrops \/ ModemUnsolicited \/ Hangup
    <3>1. ModemKeeps
      BY <2>3 DEF ModemServes, ModemPrompt, ModemIntermediate, ModemFinal, ModemDrops,
                  ModemUnsolicited, Hangup
    <3> QED
      BY <3>1, WaitedKept DEF ModemKeeps, pendingVars, threadVars, history, InWait
  <2>4. CASE UNCHANGED vars
    BY <2>4, WaitedKept DEF vars, pendingVars, threadVars, history, InWait
  <2> QED
    BY <2>1, <2>2, <2>3, <2>4, WaitedThread, WaitedReader DEF Next
<1> QED
  BY <1>1, <1>2, TypeCorrect, PTL DEF Spec

(***************************************************************************)
(* The step simulation.  The barred variables depend on sp_response,       *)
(* result and raced only, so that a step is described by what it does to   *)
(* these three.                                                            *)
(***************************************************************************)

LEMMA StutterStep ==
    ASSUME UNCHANGED <<sp_response, result, raced>>
    PROVE  UNCHANGED Service!svars
BY DEF Service!svars, pendingBar, outcomeBar, outcomeOf

(* Once the promise is broken it stays so, and nothing more is visible. *)
LEMMA BreakStep ==
    ASSUME raced' = TRUE
    PROVE  Service!Next
<1>1. pendingBar' = NULL
  BY DEF pendingBar
<1>2. outcomeBar' = Service!NoOutcome
  BY DEF outcomeBar, Service!NoOutcome, Service!Returned
<1> QED
  BY <1>1, <1>2 DEF Service!Next, Service!Break

(* A list turned round, and one more line in front of it. *)
LEMMA ReversedSeq ==
    ASSUME NEW s \in Seq(Line)
    PROVE  Reversed(s) \in Seq(Line) /\ Len(Reversed(s)) = Len(s)
BY DEF Reversed

LEMMA ReversedGrows ==
    ASSUME NEW s \in Seq(Line), NEW l \in Line
    PROVE  /\ Len(Reversed(<<l>> \o s)) = Len(Reversed(s)) + 1
           /\ \A i \in 1..Len(Reversed(s)) : Reversed(<<l>> \o s)[i] = Reversed(s)[i]
<1>1. <<l>> \o s \in Seq(Line) /\ Len(<<l>> \o s) = Len(s) + 1
  OBVIOUS
<1>2. Len(Reversed(<<l>> \o s)) = Len(s) + 1 /\ Len(Reversed(s)) = Len(s)
  BY <1>1, ReversedSeq
<1>3. ASSUME NEW i \in 1..Len(s) PROVE Reversed(<<l>> \o s)[i] = Reversed(s)[i]
  <2>1. Reversed(s)[i] = s[Len(s) + 1 - i]
    BY DEF Reversed
  <2>2. Reversed(<<l>> \o s)[i] = (<<l>> \o s)[Len(s) + 2 - i]
    BY <1>1 DEF Reversed
  <2>3. (<<l>> \o s)[Len(s) + 2 - i] = s[Len(s) + 1 - i]
    OBVIOUS
  <2> QED
    BY <2>1, <2>2, <2>3
<1> QED
  BY <1>2, <1>3

LEMMA PendingSome ==
    ASSUME NEW r \in ATResponse
    PROVE  [owner |-> r.owner, lines |-> Reversed(r.inter), final |-> r.final] # NULL
<1>1. r.owner \in Threads /\ r.inter \in Seq(Line) /\ r.final \in Line \cup {NULL}
  BY DEF ATResponse
<1>2. Reversed(r.inter) \in Seq(Line)
  BY <1>1, ReversedSeq
<1>3. [owner |-> r.owner, lines |-> Reversed(r.inter), final |-> r.final]
        \in [owner : Threads, lines : Seq(Line), final : Line \cup {NULL}]
  BY <1>1, <1>2
<1> QED
  BY <1>3, NullPendingAssumption

LEMMA TakeStep ==
    ASSUME TypeOK, NEW t \in Threads, NEW c, NEW id \in Nat, sp_response = NULL,
           StartWaiting(t, c, id), UNCHANGED result, raced = FALSE
    PROVE  Service!Next
<1>1. raced' = FALSE /\ sp_response' = at_response_new(t, id)
  BY DEF StartWaiting
<1>2. sp_response' # NULL
  BY <1>1, NewResponseType, NullResponseAssumption
<1>3. Reversed(<<>>) = <<>>
  BY DEF Reversed
<1>4. pendingBar' = [owner |-> t, lines |-> <<>>, final |-> NULL]
  BY <1>1, <1>2, <1>3 DEF pendingBar, at_response_new
<1>5. pendingBar = NULL
  BY DEF pendingBar
<1>6. outcomeBar' = outcomeBar
  BY <1>1 DEF outcomeBar, outcomeOf
<1> QED
  BY <1>1, <1>4, <1>5, <1>6 DEF Service!Next, Service!Take

(* What the caller sees when its result is set to q. *)
LEMMA OutcomeSet ==
    ASSUME TypeOK, NEW t \in Threads, NEW q, raced = FALSE, raced' = FALSE,
           result' = [result EXCEPT ![t] = q]
    PROVE  outcomeBar' = [outcomeBar EXCEPT ![t] = outcomeOf(q)]
<1>1. outcomeBar = [u \in Threads |-> outcomeOf(result[u])]
  BY DEF outcomeBar
<1>2. outcomeBar' = [u \in Threads |-> outcomeOf(result'[u])]
  BY DEF outcomeBar, outcomeOf
<1>3. \A u \in Threads : result'[u] = IF u = t THEN q ELSE result[u]
  BY DEF TypeOK
<1> QED
  BY <1>1, <1>2, <1>3

LEMMA RefuseStep ==
    ASSUME TypeOK, NEW t \in Threads, NEW e \in Errors \ {"OK"}, NEW id,
           sp_response = NULL, sp_response' = NULL, raced = FALSE, raced' = FALSE,
           result' = [result EXCEPT ![t] = [err |-> e, id |-> id, resp |-> NULL]]
    PROVE  Service!Next
<1>1. outcomeBar' = [outcomeBar EXCEPT ![t] = Service!Returned(e, <<>>, NULL)]
  <2>1. outcomeOf([err |-> e, id |-> id, resp |-> NULL]) = Service!Returned(e, <<>>, NULL)
    BY DEF outcomeOf, Service!Returned
  <2> QED
    BY <2>1, OutcomeSet
<1>2. pendingBar = NULL /\ pendingBar' = NULL
  BY DEF pendingBar
<1> QED
  BY <1>1, <1>2 DEF Service!Next, Service!Refuse

LEMMA ReturnStep ==
    ASSUME TypeOK, NEW t \in Threads, NEW e \in Errors, NEW id, NEW resp,
           sp_response # NULL, sp_response.owner = t, sp_response' = NULL,
           raced = FALSE, raced' = FALSE,
           e = "OK" => sp_response.final # NULL,
           resp = NULL \/ resp = reverseIntermediates(sp_response),
           result' = [result EXCEPT ![t] = [err |-> e, id |-> id, resp |-> resp]]
    PROVE  Service!Next
<1>1. /\ pendingBar = [owner |-> t, lines |-> Reversed(sp_response.inter),
                       final |-> sp_response.final]
      /\ pendingBar' = NULL
  BY DEF pendingBar
<1>2. pendingBar # NULL
  <2>1. sp_response \in ATResponse
    BY DEF TypeOK
  <2> QED
    BY <1>1, <2>1, PendingSome
<1>3. outcomeBar' = [outcomeBar EXCEPT ![t] = outcomeOf([err |-> e, id |-> id, resp |-> resp])]
  BY OutcomeSet
<1>4. \/ outcomeOf([err |-> e, id |-> id, resp |-> resp])
           = Service!Returned(e, pendingBar.lines, pendingBar.final)
      \/ outcomeOf([err |-> e, id |-> id, resp |-> resp]) = Service!Returned(e, <<>>, NULL)
  <2>1. CASE resp = NULL
    BY <2>1 DEF outcomeOf, Service!Returned
  <2>2. CASE resp # NULL
    <3>1. sp_response \in ATResponse /\ resp = [sp_response EXCEPT !.inter = Reversed(@)]
      BY <2>2 DEF TypeOK, reverseIntermediates
    <3>2. resp.inter = Reversed(sp_response.inter) /\ resp.final = sp_response.final
      BY <3>1 DEF ATResponse
    <3> QED
      BY <1>1, <2>2, <3>2 DEF outcomeOf, Service!Returned
  <2> QED
    BY <2>1, <2>2
<1> QED
  BY <1>1, <1>2, <1>3, <1>4 DEF Service!Next, Service!Return

(* A line for the response under construction. *)
LEMMA LineStep ==
    ASSUME TypeOK, processLine, raced = FALSE
    PROVE  Service!Next \/ UNCHANGED Service!svars
<1> DEFINE l == Head(lines)
<1>0. raced' = FALSE /\ UNCHANGED result
  BY LineEffect
<1>1. CASE UNCHANGED sp_response
  BY <1>0, <1>1, StutterStep
<1>2. CASE ~UNCHANGED sp_response
  <2>1. sp_response \in ATResponse /\ l \in Line
    BY <1>2, LineEffect
  <2>2. sp_response' \in ATResponse
    <3>1. TypeOK'
      BY ProcessLineType
    <3>2. sp_response' # NULL
      <4>1. sp_response.inter \in Seq(Line)
        BY <2>1 DEF ATResponse
      <4>2. <<l>> \o sp_response.inter \in Seq(Line)
        BY <2>1, <4>1
      <4>3. [sp_response EXCEPT !.inter = <<l>> \o @] \in ATResponse
        BY <2>1, <4>2 DEF ATResponse
      <4>4. [sp_response EXCEPT !.final = l, !.success = isFinalResponseSuccess(l)] \in ATResponse
        BY <2>1 DEF ATResponse, isFinalResponseSuccess
      <4> QED
        BY <1>2, <4>3, <4>4, LineEffect, NullResponseAssumption
    <3> QED
      BY <3>1, <3>2 DEF TypeOK
  <2>3. /\ pendingBar = [owner |-> sp_response.owner, lines |-> Reversed(sp_response.inter),
                         final |-> sp_response.final]
        /\ pendingBar # NULL
    BY <2>1, PendingSome, NullResponseAssumption DEF pendingBar
  <2>4. /\ pendingBar' = [owner |-> sp_response'.owner, lines |-> Reversed(sp_response'.inter),
                          final |-> sp_response'.final]
        /\ pendingBar' # NULL
    BY <1>0, <2>2, PendingSome, NullResponseAssumption DEF pendingBar
  <2>5. outcomeBar' = outcomeBar
    BY <1>0 DEF outcomeBar, outcomeOf
  <2>6. CASE sp_response' = [sp_response EXCEPT !.final = l,
                                                !.success = isFinalResponseSuccess(l)]
    <3>1. /\ sp_response'.owner = sp_response.owner /\ sp_response'.inter = sp_response.inter
          /\ sp_response'.final = l
      BY <2>1, <2>6 DEF ATResponse
    <3>2. l # NULL
      BY <2>1, NullLineAssumption
    <3> QED
      BY <1>0, <2>3, <2>4, <2>5, <3>1, <3>2 DEF Service!Next, Service!Conclude
  <2>7. CASE sp_response' = [sp_response EXCEPT !.inter = <<l>> \o @]
    <3>1. /\ sp_response'.owner = sp_response.owner /\ sp_response'.final = sp_response.final
          /\ sp_response'.inter = <<l>> \o sp_response.inter
      BY <2>1, <2>7 DEF ATResponse
    <3>2. sp_response.inter \in Seq(Line)
      BY <2>1 DEF ATResponse
    <3>3. /\ Len(pendingBar'.lines) = Len(pendingBar.lines) + 1
          /\ \A i \in 1..Len(pendingBar.lines) : pendingBar'.lines[i] = pendingBar.lines[i]
      BY <2>1, <2>3, <2>4, <3>1, <3>2, ReversedGrows
    <3> QED
      BY <1>0, <2>3, <2>4, <2>5, <3>1, <3>3 DEF Service!Next, Service!Hear
  <2> QED
    BY <1>2, <2>6, <2>7, LineEffect
<1> QED
  BY <1>1, <1>2

(* clearPendingCommand by a thread outside the wait loop: it finds nothing, *)
(* or it breaks the promise.                                                *)
LEMMA ClearStep ==
    ASSUME TypeOK, PendingIsWaited, NEW t \in Threads, ~InWait(t), clearPendingCommand(t),
           raced = FALSE
    PROVE  IF sp_response = NULL THEN raced' = FALSE /\ sp_response' = NULL ELSE raced' = TRUE
BY DEF PendingIsWaited, clearPendingCommand

LEMMA CallStep ==
    ASSUME TypeOK, PendingIsWaited, NEW t \in Threads, CommandThread(t), raced = FALSE
    PROVE  Service!Next \/ UNCHANGED Service!svars
<1>1. CASE HandshakeStart(t)
  BY <1>1, StutterStep DEF HandshakeStart, pendingVars, history
<1>2. ASSUME NEW c \in Commands, SendWhilePending(t, c)
      PROVE  Service!Next
  <2>1. ~InWait(t) /\ clearPendingCommand(t) /\ sp_response # NULL
    BY <1>2 DEF SendWhilePending, Entering, InWait
  <2> QED
    BY <2>1, ClearStep, BreakStep
<1>3. ASSUME NEW c \in Commands, SendFails(t, c)
      PROVE  Service!Next
  <2>1. ~InWait(t) /\ clearPendingCommand(t) /\ sp_response = NULL
    BY <1>3 DEF SendFails, Entering, InWait
  <2>2. raced' = FALSE /\ sp_response' = NULL
    BY <2>1, ClearStep
  <2>3. PICK e \in writeline \ {"OK"} : Returns(t, e)
    BY <1>3 DEF SendFails
  <2>4. e \in Errors \ {"OK"}
    BY <2>3 DEF writeline, Errors
  <2> QED
    BY <2>1, <2>2, <2>3, <2>4, RefuseStep DEF Returns
<1>4. ASSUME NEW c \in Commands, SendAndWait(t, c)
      PROVE  Service!Next
  <2>1. sp_response = NULL /\ StartWaiting(t, c, nCmd + 1) /\ UNCHANGED result
    BY <1>4 DEF SendAndWait
  <2>2. nCmd + 1 \in Nat
    BY ConstantsAssumption DEF TypeOK
  <2> QED
    BY <2>1, <2>2, TakeStep
<1> QED
  BY <1>1, <1>2, <1>3, <1>4 DEF CommandThread

(* FinishErr is AT_ERROR_OK only behind the final line. *)
LEMMA FinishErrSound ==
    ASSUME NEW c, NEW r, sp_response.final # NULL \/ s_readerClosed
    PROVE  FinishErr(c, r) \in Errors /\ (FinishErr(c, r) = "OK" => sp_response.final # NULL)
BY DEF FinishErr, Errors

LEMMA InsideStep ==
    ASSUME TypeOK, PendingIsWaited, WaiterOwnsPending, NEW t \in Threads, InsideCall(t),
           raced = FALSE
    PROVE  Service!Next \/ UNCHANGED Service!svars
<1>1. CASE WakeToNull(t) \/ WaitAgain(t) \/ HandshakeReturns(t)
  BY <1>1, StutterStep DEF WakeToNull, WaitAgain, HandshakeReturns, pendingVars
<1>2. CASE FinishCommand(t)
  <2> DEFINE e == FinishErr(call[t].cmd, sp_response)
             resp == IF call[t].cmd.out /\ e # "INVALID_RESPONSE"
                     THEN reverseIntermediates(sp_response) ELSE NULL
  <2>1. /\ sp_response # NULL /\ sp_response.owner = t
        /\ sp_response' = NULL /\ raced' = FALSE
    BY <1>2 DEF FinishCommand, Resuming, WaiterOwnsPending, InWait
  <2>2. e \in Errors /\ (e = "OK" => sp_response.final # NULL)
    BY <1>2, FinishErrSound DEF FinishCommand
  <2>3. resp = NULL \/ resp = reverseIntermediates(sp_response)
    OBVIOUS
  <2>4. result' = [result EXCEPT ![t] = [err |-> e, id |-> call[t].id, resp |-> resp]]
    BY <1>2 DEF FinishCommand
  <2> HIDE DEF e, resp
  <2> QED
    BY <2>1, <2>2, <2>3, <2>4, ReturnStep
<1>3. CASE HandshakeTryFails(t)
  <2>1. ~InWait(t) /\ clearPendingCommand(t)
    BY <1>3 DEF HandshakeTryFails, Trying, InWait
  <2>2. CASE sp_response # NULL
    BY <2>1, <2>2, ClearStep, BreakStep
  <2>3. CASE sp_response = NULL
    <3>1. raced' = FALSE /\ sp_response' = NULL
      BY <2>1, <2>3, ClearStep
    <3>2. PICK e \in writeline \ {"OK"} : HandshakeErr(t, e)
      BY <1>3, <2>3 DEF HandshakeTryFails
    <3>3. e \in Errors \ {"OK"}
      BY <3>2 DEF writeline, Errors
    <3> QED
      BY <2>3, <3>1, <3>2, <3>3, RefuseStep DEF HandshakeErr
  <2> QED
    BY <2>2, <2>3
<1>4. CASE HandshakeTrySends(t)
  <2>1. /\ sp_response = NULL /\ StartWaiting(t, call[t].cmd, call[t].id) /\ UNCHANGED result
        /\ call[t].id \in Nat
    BY <1>4 DEF HandshakeTrySends, TypeOK, Call
  <2> QED
    BY <2>1, TakeStep
<1>5. CASE HandshakeTimesOut(t)
  <2>1. sp_response # NULL /\ sp_response.owner = t
    BY <1>5 DEF HandshakeTimesOut, WaiterOwnsPending, InWait
  <2>2. sp_response' = NULL /\ raced' = FALSE
    BY <1>5, <2>1 DEF HandshakeTimesOut, clearPendingCommand
  <2>3. result' = [result EXCEPT ![t] = [err |-> "TIMEOUT", id |-> call[t].id, resp |-> NULL]]
    BY <1>5 DEF HandshakeTimesOut, HandshakeErr
  <2>4. "TIMEOUT" \in Errors
    BY DEF Errors
  <2> QED
    BY <2>1, <2>2, <2>3, <2>4, ReturnStep
<1>6. CASE HandshakeAnswered(t)
  <2> DEFINE e == FinishErr(call[t].cmd, sp_response)
  <2>1. /\ sp_response # NULL /\ sp_response.owner = t
        /\ sp_response' = NULL /\ raced' = FALSE
    BY <1>6 DEF HandshakeAnswered, Resuming, WaiterOwnsPending, InWait
  <2>2. e \in Errors /\ (e = "OK" => sp_response.final # NULL)
    BY <1>6, FinishErrSound DEF HandshakeAnswered
  <2>3. result' = [result EXCEPT ![t] = [err |-> e, id |-> call[t].id, resp |-> NULL]]
    BY <1>6 DEF HandshakeAnswered, HandshakeErr
  <2> HIDE DEF e
  <2> QED
    BY <2>1, <2>2, <2>3, ReturnStep
<1> QED
  BY <1>1, <1>2, <1>3, <1>4, <1>5, <1>6 DEF InsideCall

(* Once raised, raced stays. *)
LEMMA RacedStays ==
    ASSUME TypeOK, raced, [Next]_vars
    PROVE  raced' = TRUE
<1>1. ASSUME NEW t \in Threads, CommandThread(t) PROVE raced' = TRUE
  BY <1>1 DEF CommandThread, SendWhilePending, SendFails, SendAndWait, StartWaiting,
              HandshakeStart, clearPendingCommand, history, TypeOK
<1>2. ASSUME NEW t \in Threads, InsideCall(t) PROVE raced' = TRUE
  BY <1>2 DEF InsideCall, WakeToNull, WaitAgain, FinishCommand, HandshakeTryFails,
              HandshakeTrySends, HandshakeTimesOut, HandshakeAnswered,
              HandshakeReturns, StartWaiting, clearPendingCommand, history, TypeOK
<1>3. ASSUME NEW t \in Threads, SpuriousWake(t) \/ WaitExpires(t) PROVE raced' = TRUE
  BY <1>3 DEF SpuriousWake, WaitExpires, history, TypeOK
<1>4. CASE Reader
  BY <1>4 DEF Reader, processLine, ReadSmsHeader, ReadSmsPdu, ReadEOF, onReaderClosed,
              at_close, history, TypeOK
<1>5. CASE at_open \/ at_open_reset
  BY <1>5 DEF at_open, at_open_reset, clearPendingCommand, history, TypeOK
<1>6. CASE ModemServes \/ ModemDrops \/ ModemUnsolicited \/ Hangup
  BY <1>6 DEF ModemServes, ModemPrompt, ModemIntermediate, ModemFinal, ModemDrops,
              ModemUnsolicited, Hangup, ModemKeeps, history, TypeOK
<1>7. CASE UNCHANGED vars
  BY <1>7 DEF vars, history, TypeOK
<1> QED
  BY <1>1, <1>2, <1>3, <1>4, <1>5, <1>6, <1>7 DEF Next

LEMMA StepImplements ==
    ASSUME TypeOK, PendingIsWaited, WaiterOwnsPending, [Next]_vars
    PROVE  Service!Next \/ UNCHANGED Service!svars
<1>1. CASE raced
  BY <1>1, RacedStays, BreakStep
<1>2. CASE raced = FALSE
  <2>1. ASSUME NEW t \in Threads, SpuriousWake(t) \/ WaitExpires(t)
        PROVE  UNCHANGED Service!svars
    BY <2>1, StutterStep DEF SpuriousWake, WaitExpires, pendingVars, history
  <2>2. CASE Reader
    <3>1. CASE processLine
      BY <1>2, <3>1, LineStep
    <3>2. CASE ~processLine
      BY <2>2, <3>2, StutterStep
         DEF Reader, ReadSmsHeader, ReadSmsPdu, ReadEOF, onReaderClosed, at_close,
             pendingVars, threadVars, history
    <3> QED
      BY <3>1, <3>2
  <2>3. CASE at_open
    BY <2>3, StutterStep DEF at_open, pendingVars, history
  <2>4. CASE at_open_reset
    <3>1. Main \in Threads /\ ~InWait(Main) /\ clearPendingCommand(Main) /\ UNCHANGED result
      BY <2>4, ConstantsAssumption DEF at_open_reset, InWait
    <3>2. CASE sp_response = NULL
      BY <1>2, <3>1, <3>2, ClearStep, StutterStep
    <3>3. CASE sp_response # NULL
      BY <1>2, <3>1, <3>3, ClearStep, BreakStep
    <3> QED
      BY <3>2, <3>3
  <2>5. CASE ModemServes \/ ModemDrops \/ ModemUnsolicited \/ Hangup
    <3>1. ModemKeeps
      BY <2>5 DEF ModemServes, ModemPrompt, ModemIntermediate, ModemFinal, ModemDrops,
                  ModemUnsolicited, Hangup
    <3> QED
      BY <3>1, StutterStep DEF ModemKeeps, pendingVars, threadVars, history
  <2>6. CASE UNCHANGED vars
    BY <2>6, StutterStep DEF vars, pendingVars, threadVars, history
  <2> QED
    BY <1>2, <2>1, <2>2, <2>3, <2>4, <2>5, <2>6, CallStep, InsideStep DEF Next
<1> QED
  BY <1>1, <1>2 DEF TypeOK

LEMMA InitImplements == Init => Service!Init
<1> SUFFICES ASSUME Init PROVE Service!Init
  OBVIOUS
<1>1. pendingBar = NULL
  BY DEF Init, pendingBar
<1>2. outcomeBar = Service!NoOutcome
  BY DEF Init, outcomeBar, outcomeOf, Service!NoOutcome, Service!Returned
<1> QED
  BY <1>1, <1>2 DEF Init, Service!Init

(* atchannel.c implements ATService: a command is taken only when none is   *)
(* pending, its response grows in the order of the lines and goes, whole or *)
(* not at all, to the thread that asked, until a caller throws away the     *)
(* pending command of another.                                              *)
THEOREM ServiceImplemented == Spec => ServiceKept
<1>1. Init => Service!Init
  BY InitImplements
<1>2. TypeOK /\ PendingIsWaited /\ WaiterOwnsPending /\ [Next]_vars
        => [Service!Next]_(Service!svars)
  BY StepImplements
<1> QED
  BY <1>1, <1>2, TypeCorrect, OwnershipCorrect, PendingCorrect, PTL
     DEF Spec, ServiceKept, Service!Spec

=============================================================================
