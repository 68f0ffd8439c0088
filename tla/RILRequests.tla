---------------------------- MODULE RILRequests ----------------------------
(***************************************************************************)
(* The handlers of the RIL's requests (src/fwril-100/fw100-ril.c           *)
(* onRequest, fw100-ril-rqst.c, fw100-ril-data.c).  libril calls onRequest *)
(* in one thread.  A handler is a program: a sequence of instructions, in  *)
(* which one that may fail carries the program that follows its failure.   *)
(* The actions below execute the instructions one at a time, so that the   *)
(* line can be lost and pppd can die in between.  The AT channel is seen   *)
(* from outside: a command is answered, refused or fails.                  *)
(***************************************************************************)
EXTENDS Naturals, Sequences, FiniteSets

CONSTANTS PollTries,    \* tries of poll_ppp_linkstate (30 in the code)
          MaxPppd       \* bound on the pppd processes there can be, ending ones included

ASSUME PollTriesAssumption == PollTries \in Nat \ {0}
ASSUME MaxPppdAssumption == MaxPppd \in Nat \ {0}

VARIABLES
    radio,       \* fw100Ctx.sState: OFF, ON (any state of a SIM) or UNAVAILABLE
    request,     \* the request onRequest was called with, or NoRequest
    program,     \* what remains of its handler
    holds,       \* what each pointer of the handler points to
    leaked,      \* responses the handler can no longer free
    dangling,    \* the handler used or freed what was no longer allocated
    completions, \* the results passed to RIL_onRequestComplete for the request
    tries,       \* poll_ppp_linkstate: tries made
    screenState, \* ctx->screenState
    monitors,    \* modem: the notifications that are enabled
    screenSet,   \* history: the last SCREEN_STATE request succeeded, nothing refused, and
                 \* the modem has neither restarted nor been initialised since
    inDataCall,  \* ctx->inDataCall
    pppd,        \* system: number of pppd processes
    ending,      \* system: number of pppd processes that got SIGTERM
    linkUp,      \* system: ppp0 is up
    strayPppd    \* history: a set-up failed, or began while an earlier pppd was there

handler == <<request, program, holds, leaked, dangling, completions, tries>>
screen == <<screenState, monitors, screenSet>>
call == <<inDataCall, pppd, ending, linkUp, strayPppd>>
vars == <<radio, handler, screen, call>>

Pointers == {"p_response", "p_response2", "p_response3", "p_response4", "mccmnc", "card"}
NoRequest == [kind |-> "NONE", arg |-> 0]
Monitors == {"ARSI", "CREG", "VMCCMNC", "VSER"}

---------------------------------------------------------------------------
(* Instructions.                                                           *)

\* at_send_command*(..., &v), with err and p_response->success tested.
Send(v, alt) == [op |-> "send", v |-> v, alt |-> alt]
\* at_send_command(..., NULL), with err tested or not tested.
Try(alt) == [op |-> "try", alt |-> alt]
Tell == [op |-> "tell"]
\* at_tok_*: may fail on a line that is not as expected.
Parse(v, alt) == [op |-> "parse", v |-> v, alt |-> alt]
\* RIL_onRequestComplete, with data in the memory that uses names.
Complete(code, uses) == [op |-> "complete", code |-> code, uses |-> uses]
Alloc(v) == [op |-> "alloc", v |-> v]
Free(v) == [op |-> "free", v |-> v]
\* sprintf into a local array, of tokens one of which may be an uninitialised pointer.
Sprintf(v) == [op |-> "sprintf", v |-> v]
\* A test of what the modem said, both ways possible.
Either(alt) == [op |-> "either", alt |-> alt]
SetRadio(s) == [op |-> "radio", to |-> s]
SetScreen(s) == [op |-> "screen", to |-> s]
SetMonitor(m, on, alt) == [op |-> "monitor", m |-> m, on |-> on, alt |-> alt]
StartPppd(alt) == [op |-> "pppd", alt |-> alt]
Poll(alt) == [op |-> "poll", alt |-> alt]
Kill == [op |-> "kill"]
Connected(b) == [op |-> "connected", to |-> b]

Succeed == Complete("SUCCESS", {})
Fail == Complete("GENERIC_FAILURE", {})

---------------------------------------------------------------------------
(* fw100-ril.c                                                             *)

\* Commands whose result is ignored: the framework asks for the calls afterwards.
\* (The network selection mode that is remembered only serves to answer the query.)
requestDial == <<Tell, Succeed>>
requestHangup == <<Tell, Succeed>>
CallControl == <<Tell, Succeed>>
RIL_REQUEST_DTMF == <<Tell, Succeed>>
SetNetworkSelection == <<Tell, Succeed>>

\* The query of requestRadioPower; its answer is never 1.
isRadioOn(next) ==
    LET out == <<Free("p_response2")>> \o next
    IN  <<Send("p_response2", out), Parse("p_response2", out)>> \o out

\* CPOF or CPON, if the radio is not yet as asked.
requestRadioPower(onOff, state) ==
    LET error == <<Free("p_response"), Fail>>
        done  == <<Free("p_response"), Succeed>>
    IN  CASE onOff = 0 /\ state # "OFF" ->
                <<Send("p_response", error), SetRadio("OFF")>> \o done
          [] onOff > 0 /\ state = "OFF" ->
                <<Send("p_response", isRadioOn(error)), SetRadio("ON")>> \o done
          [] OTHER -> done

requestQueryNetworkSelectionMode ==
    LET error == <<Free("p_response"), Fail>>
    IN  <<Send("p_response", error), Parse("p_response", error), Succeed, Free("p_response")>>

\* FAULTY VARIANT: the response is freed on success only.
requestWriteSmsToSimLeaks ==
    <<Send("p_response", <<Fail>>), Succeed, Free("p_response")>>

requestWriteSmsToSim ==
    <<Send("p_response", <<Fail, Free("p_response")>>), Succeed, Free("p_response")>>

\* A command that fails completes the request before the error label does.
requestSignalStrength ==
    LET error == <<Fail, Free("p_response")>>
    IN  <<Send("p_response", <<Fail>> \o error), Parse("p_response", error),
          Succeed, Free("p_response")>>

\* The success path runs into the error label.
requestSMSAcknowledge(ackSuccess) ==
    IF ackSuccess \in {0, 1} THEN <<Tell, Succeed, Fail>> ELSE <<Fail>>

\* FAULTY VARIANT: the response is freed before the framework has copied it.
requestSIM_IOFreesFirst ==
    LET error == <<Fail, Free("p_response")>>
    IN  <<Send("p_response", error), Parse("p_response", error),
          Free("p_response"), Complete("SUCCESS", {"p_response"})>>

requestSIM_IO ==
    LET error == <<Fail, Free("p_response")>>
    IN  <<Send("p_response", error), Parse("p_response", error),
          Complete("SUCCESS", {"p_response"}), Free("p_response")>>

\* The error label lies inside the if; the free is common.
requestEnterSimPin(strings) ==
    LET error == <<Complete("PASSWORD_INCORRECT", {}), Free("p_response")>>
    IN  IF strings \in {1, 2}
        THEN <<Send("p_response", error), Succeed, Free("p_response")>>
        ELSE error

requestSendUSSD == <<Complete("REQUEST_NOT_SUPPORTED", {})>>

RIL_REQUEST_CANCEL_USSD ==
    <<Send("p_response", <<Fail, Free("p_response")>>),
      Complete("SUCCESS", {"p_response"}), Free("p_response")>>

RIL_REQUEST_DELETE_SMS_ON_SIM ==
    <<Send("p_response", <<Fail, Free("p_response")>>), Succeed, Free("p_response")>>

RIL_REQUEST_SEPARATE_CONNECTION(party) ==
    IF party \in 1..9 THEN <<Tell, Succeed>> ELSE <<Fail>>

OemHook == <<Succeed>>

\* getSIMStatus always says SIM_READY.
getCardStatus == <<Alloc("card"), Complete("SUCCESS", {"card"}), Free("card")>>

---------------------------------------------------------------------------
(* fw100-ril-rqst.c                                                        *)

\* Three commands into one pointer, and no free: the texts are still used.
requestBasebandVersion ==
    LET ask == <<Send("p_response", <<Fail>>), Parse("p_response", <<Fail>>)>>
    IN  ask \o ask \o ask \o <<Complete("SUCCESS", {"p_response"})>>

requestGetIMEI ==
    LET error == <<Fail, Free("p_response")>>
    IN  <<Send("p_response", error), Parse("p_response", error),
          Complete("SUCCESS", {"p_response"}), Free("p_response")>>

\* The operator's code is put together in a local array, of a token whose parse is tested
\* and of one whose parse is not (line 526), and response[2] points to it unless
\* the code is not in the table; then a second query decides the operator.
\* The caller goes on with local, where response[2] is the array, with fixed, where it
\* is a constant, or with alt on an error.
getNetworkInfo(local, fixed, alt) ==
    LET error == <<Free("p_response"), Free("p_response2")>> \o alt
        done  == <<Free("p_response"), Free("p_response2"), Free("mccmnc")>>
    IN  <<Send("p_response", error), Parse("p_response", error), Sprintf("mccmnc"),
          Either(<<Send("p_response2", <<Free("mccmnc")>> \o error)>> \o done \o fixed)>>
        \o done \o local

requestGetIMSI ==
    LET error == <<Fail, Free("p_response3")>>
        concatenate(uses) ==
            <<Send("p_response3", error), Parse("p_response3", error),
              Complete("SUCCESS", uses), Free("p_response3")>>
    IN  getNetworkInfo(concatenate({"mccmnc"}), concatenate({}), error)

requestOperator ==
    getNetworkInfo(<<Complete("SUCCESS", {"mccmnc"})>>, <<Succeed>>, <<Fail>>)

requestQueryAvailableNetworks ==
    getNetworkInfo(<<Complete("SUCCESS", {"mccmnc"})>>, <<Succeed>>, <<Fail>>)

\* CREG, SYSINFO, CSNID and VROM, each into a pointer of its own.
requestRegistrationStateEVDO ==
    LET all   == <<"p_response", "p_response2", "p_response3", "p_response4">>
        frees == [i \in 1..4 |-> Free(all[i])]
        error == <<Fail>> \o frees
        ask(i) == <<Send(all[i], error), Parse(all[i], error)>>
    IN  ask(1) \o ask(2) \o ask(3) \o ask(4)
        \o <<Complete("SUCCESS", {"p_response", "p_response3", "p_response4"})>> \o frees

requestGetPreferredNetworkType ==
    LET error == <<Fail, Free("p_response")>>
    IN  <<Send("p_response", error), Parse("p_response", error), Succeed, Free("p_response")>>

\* FAULTY VARIANT: an unknown mode is ignored without an answer.
requestSetPreferredNetworkTypeSilent(mode) ==
    IF mode \in 4..6 THEN <<Try(<<Fail, Free("p_response")>>), Succeed>> ELSE <<>>

requestSetPreferredNetworkType(mode) ==
    LET error == <<Fail, Free("p_response")>>
    IN  IF mode \in 4..6 THEN <<Try(error), Succeed>> ELSE error

\* FAULTY VARIANT: the service notification is only ever turned on.
requestScreenStateKeepsVSER(on) ==
    IF on \in {0, 1}
    THEN <<SetMonitor("ARSI", on = 1, <<Fail>>), SetMonitor("CREG", on = 1, <<Fail>>),
           SetMonitor("VMCCMNC", on = 1, <<Fail>>), SetMonitor("VSER", TRUE, <<Fail>>),
           SetScreen(on = 1), Succeed>>
    ELSE <<Fail>>

\* Four commands; the first that fails ends the request.
requestScreenState(on) ==
    IF on \in {0, 1}
    THEN <<SetMonitor("ARSI", on = 1, <<Fail>>), SetMonitor("CREG", on = 1, <<Fail>>),
           SetMonitor("VMCCMNC", on = 1, <<Fail>>), SetMonitor("VSER", on = 1, <<Fail>>),
           SetScreen(on = 1), Succeed>>
    ELSE <<Fail>>

requestSendSMSEVDO ==
    <<Tell, Send("p_response", <<Fail, Free("p_response")>>), Succeed, Free("p_response")>>

\* A refused command returns at once, without the free.
requestGetCurrentCallsEVDO ==
    <<Send("p_response", <<Fail>>), Complete("SUCCESS", {"p_response"}), Free("p_response")>>

---------------------------------------------------------------------------
(* fw100-ril-data.c                                                        *)

\* The success path runs into the error label.
requestDataCallList == <<Succeed, Fail>>

\* A set-up that fails leaves pppd as it is.
requestSetupDataCallEVDO ==
    <<StartPppd(<<Fail>>), Poll(<<Fail>>), Connected(TRUE), Succeed>>

\* FAULTY VARIANT: pppd is left to the framework.
requestDeactivateDataCallEVDOKeeps == <<Tell, Connected(FALSE), Succeed>>

requestDeactivateDataCallEVDO == <<Tell, Kill, Connected(FALSE), Succeed>>

requestDataCallFailCause == <<Succeed>>

---------------------------------------------------------------------------
(* onRequest                                                               *)

\* The requests onRequest tells apart, with the arguments their handlers test:
\* 2 stands for a value that is out of range.
Requests ==
    {[kind |-> k, arg |-> 0] : k \in
        {"GET_SIM_STATUS", "GET_CURRENT_CALLS", "DIAL", "HANGUP", "CALL_CONTROL",
         "SIGNAL_STRENGTH", "REGISTRATION_STATE", "OPERATOR", "DTMF", "SEND_SMS",
         "SETUP_DATA_CALL", "DEACTIVATE_DATA_CALL", "LAST_DATA_CALL_FAIL_CAUSE",
         "GET_IMSI", "BASEBAND_VERSION", "GET_IMEI", "GET_PREFERRED_NETWORK_TYPE",
         "SIM_IO", "SEND_USSD", "CANCEL_USSD", "QUERY_NETWORK_SELECTION_MODE",
         "SET_NETWORK_SELECTION", "QUERY_AVAILABLE_NETWORKS", "DATA_CALL_LIST",
         "OEM_HOOK", "WRITE_SMS_TO_SIM", "DELETE_SMS_ON_SIM", "UNKNOWN"}}
    \cup [kind : {"RADIO_POWER"}, arg : {0, 1}]
    \cup [kind : {"SCREEN_STATE", "SMS_ACKNOWLEDGE"}, arg : {0, 1, 2}]
    \cup [kind : {"SET_PREFERRED_NETWORK_TYPE"}, arg : {0, 4}]
    \cup [kind : {"SEPARATE_CONNECTION", "ENTER_SIM_PIN"}, arg : {0, 1}]

\* The switch of onRequest.
Handler(r, state) ==
    CASE r.kind = "GET_SIM_STATUS"               -> getCardStatus
      [] r.kind = "GET_CURRENT_CALLS"            -> requestGetCurrentCallsEVDO
      [] r.kind = "SCREEN_STATE"                 -> requestScreenState(r.arg)
      [] r.kind = "DIAL"                         -> requestDial
      [] r.kind = "HANGUP"                       -> requestHangup
      [] r.kind = "CALL_CONTROL"                 -> CallControl
      [] r.kind = "SEPARATE_CONNECTION"          -> RIL_REQUEST_SEPARATE_CONNECTION(r.arg)
      [] r.kind = "SIGNAL_STRENGTH"              -> requestSignalStrength
      [] r.kind = "REGISTRATION_STATE"           -> requestRegistrationStateEVDO
      [] r.kind = "OPERATOR"                     -> requestOperator
      [] r.kind = "RADIO_POWER"                  -> requestRadioPower(r.arg, state)
      [] r.kind = "DTMF"                         -> RIL_REQUEST_DTMF
      [] r.kind = "SEND_SMS"                     -> requestSendSMSEVDO
      [] r.kind = "SETUP_DATA_CALL"              -> requestSetupDataCallEVDO
      [] r.kind = "DEACTIVATE_DATA_CALL"         -> requestDeactivateDataCallEVDO
      [] r.kind = "LAST_DATA_CALL_FAIL_CAUSE"    -> requestDataCallFailCause
      [] r.kind = "SMS_ACKNOWLEDGE"              -> requestSMSAcknowledge(r.arg)
      [] r.kind = "GET_IMSI"                     -> requestGetIMSI
      [] r.kind = "BASEBAND_VERSION"             -> requestBasebandVersion
      [] r.kind = "GET_IMEI"                     -> requestGetIMEI
      [] r.kind = "SET_PREFERRED_NETWORK_TYPE"   -> requestSetPreferredNetworkType(r.arg)
      [] r.kind = "GET_PREFERRED_NETWORK_TYPE"   -> requestGetPreferredNetworkType
      [] r.kind = "SIM_IO"                       -> requestSIM_IO
      [] r.kind = "SEND_USSD"                    -> requestSendUSSD
      [] r.kind = "CANCEL_USSD"                  -> RIL_REQUEST_CANCEL_USSD
      [] r.kind = "QUERY_NETWORK_SELECTION_MODE" -> requestQueryNetworkSelectionMode
      [] r.kind = "SET_NETWORK_SELECTION"        -> SetNetworkSelection
      [] r.kind = "QUERY_AVAILABLE_NETWORKS"     -> requestQueryAvailableNetworks
      [] r.kind = "DATA_CALL_LIST"               -> requestDataCallList
      [] r.kind = "OEM_HOOK"                     -> OemHook
      [] r.kind = "WRITE_SMS_TO_SIM"             -> requestWriteSmsToSim
      [] r.kind = "DELETE_SMS_ON_SIM"            -> RIL_REQUEST_DELETE_SMS_ON_SIM
      [] r.kind = "ENTER_SIM_PIN"                -> requestEnterSimPin(r.arg)
      [] OTHER                                   -> <<Complete("RADIO_NOT_AVAILABLE", {})>>

OffKinds == {"RADIO_POWER", "GET_SIM_STATUS", "SCREEN_STATE"}

\* FAULTY VARIANT: requests are handled whatever the state of the radio.
GateOpen(r) == Handler(r, radio)

\* Most requests are refused while the radio is off.
Gate(r) ==
    IF radio = "OFF" /\ r.kind \notin OffKinds
    THEN <<Complete("RADIO_NOT_AVAILABLE", {})>>
    ELSE Handler(r, radio)

Nothing == [v \in Pointers |-> "null"]

\* initSessionContext: the radio counts as off until a modem says otherwise.
Init ==
    /\ radio = "OFF" /\ request = NoRequest /\ program = <<>>
    /\ holds = Nothing /\ leaked = 0 /\ dangling = FALSE /\ completions = <<>> /\ tries = 0
    /\ screenState = FALSE /\ monitors = {} /\ screenSet = FALSE
    /\ inDataCall = FALSE /\ pppd = 0 /\ ending = 0 /\ linkUp = FALSE /\ strayPppd = FALSE

onRequest ==
    /\ request = NoRequest
    /\ \E r \in Requests : request' = r /\ program' = Gate(r)
    /\ UNCHANGED <<radio, holds, leaked, dangling, completions, tries, screen, call>>

\* The handler is through: libril takes the next request.
Return ==
    /\ request # NoRequest /\ program = <<>>
    /\ request' = NoRequest
    /\ holds' = Nothing /\ leaked' = 0 /\ dangling' = FALSE /\ completions' = <<>> /\ tries' = 0
    /\ UNCHANGED <<radio, program, screen, call>>

---------------------------------------------------------------------------
(* The instructions.                                                       *)

At(op) == program # <<>> /\ Head(program).op = op
This == Head(program)
Go == program' = Tail(program)
GoElse == program' = This.alt

\* The pointer is overwritten; what it pointed to can no longer be freed.
Store(x) ==
    /\ holds' = [holds EXCEPT ![This.v] = x]
    /\ leaked' = leaked + (IF holds[This.v] = "live" THEN 1 ELSE 0)

\* An answer with OK; an answer with an error; OK without the line asked for, which
\* at_send_command_singleline turns into an error; no answer at all.
SendCommand ==
    /\ At("send")
    /\ \/ Store("live") /\ Go
       \/ Store("live") /\ GoElse
       \/ Store("null") /\ GoElse
       \/ UNCHANGED <<holds, leaked>> /\ GoElse
    /\ UNCHANGED <<radio, request, dangling, completions, tries, screen, call>>

SendPlain ==
    /\ \/ At("try") /\ (Go \/ GoElse)
       \/ At("tell") /\ Go
       \/ At("either") /\ (Go \/ GoElse)
    /\ UNCHANGED <<radio, request, holds, leaked, dangling, completions, tries, screen, call>>

ParseLine ==
    /\ At("parse") /\ (Go \/ GoElse)
    /\ dangling' = (dangling \/ holds[This.v] # "live")
    /\ UNCHANGED <<radio, request, holds, leaked, completions, tries, screen, call>>

RIL_onRequestComplete ==
    /\ At("complete") /\ Go
    /\ completions' = Append(completions, This.code)
    /\ dangling' = (dangling \/ \E v \in This.uses : holds[v] # "live")
    /\ UNCHANGED <<radio, request, holds, leaked, tries, screen, call>>

Allocate ==
    /\ At("alloc") /\ Store("live") /\ Go
    /\ UNCHANGED <<radio, request, dangling, completions, tries, screen, call>>

\* A line without the second token leaves mnctoken as it was: anything, in the code's stack.
SprintfCode ==
    /\ At("sprintf") /\ Store("live") /\ Go
    /\ dangling' \in {dangling, TRUE}
    /\ UNCHANGED <<radio, request, completions, tries, screen, call>>

\* at_response_free: nothing to do for NULL.
at_response_free ==
    /\ At("free") /\ Go
    /\ holds' = IF holds[This.v] = "live" THEN [holds EXCEPT ![This.v] = "freed"] ELSE holds
    /\ dangling' = (dangling \/ holds[This.v] = "freed")
    /\ UNCHANGED <<radio, request, leaked, completions, tries, screen, call>>

\* setRadioState keeps UNAVAILABLE while the session is closed, but not in an open
\* session whose initializeCallback has not run yet.
setRadioState ==
    /\ At("radio") /\ Go
    /\ radio' = This.to \/ (radio = "UNAVAILABLE" /\ UNCHANGED radio)
    /\ UNCHANGED <<request, holds, leaked, dangling, completions, tries, screen, call>>

\* A refusal goes unnoticed: only err is tested, not the answer.
SwitchMonitor ==
    /\ At("monitor")
    /\ \/ /\ monitors' = IF This.on THEN monitors \cup {This.m} ELSE monitors \ {This.m}
          /\ Go
          /\ screenSet' = (screenSet \/ This.m = "ARSI")
       \/ Go /\ screenSet' = FALSE /\ UNCHANGED monitors
       \/ GoElse /\ screenSet' = FALSE /\ UNCHANGED monitors
    /\ UNCHANGED <<radio, request, holds, leaked, dangling, completions, tries, screenState, call>>

StoreScreen ==
    /\ At("screen") /\ Go
    /\ screenState' = This.to
    /\ UNCHANGED <<radio, request, holds, leaked, dangling, completions, tries,
                   monitors, screenSet, call>>

\* system("pppd call ..."): a process is started, or pppd gives up at once, or
\* system() itself fails.
RunPppd ==
    /\ At("pppd")
    /\ \/ /\ pppd < MaxPppd /\ Go
          /\ pppd' = pppd + 1
          /\ strayPppd' = (strayPppd \/ pppd > 0)
       \/ (Go \/ GoElse) /\ UNCHANGED <<pppd, strayPppd>>
    /\ UNCHANGED <<radio, request, holds, leaked, dangling, completions, tries, screen,
                   inDataCall, ending, linkUp>>

\* FAULTY VARIANT: the count of the tries starts again.
poll_ppp_linkstateForEver ==
    /\ At("poll")
    /\ \/ linkUp /\ Go /\ UNCHANGED tries
       \/ ~linkUp /\ tries' = (tries + 1) % PollTries /\ UNCHANGED program
    /\ UNCHANGED <<radio, request, holds, leaked, dangling, completions, screen, call>>

\* One try a second; ifc_init may fail too.
poll_ppp_linkstate ==
    /\ At("poll")
    /\ \/ /\ linkUp /\ tries < PollTries /\ Go
          /\ UNCHANGED <<tries, strayPppd>>
       \/ /\ ~linkUp /\ tries < PollTries
          /\ tries' = tries + 1
          /\ UNCHANGED <<program, strayPppd>>
       \/ /\ tries \in {0, PollTries} /\ GoElse
          /\ strayPppd' = (strayPppd \/ pppd > 0)
          /\ UNCHANGED tries
    /\ UNCHANGED <<radio, request, holds, leaked, dangling, completions, screen,
                   inDataCall, pppd, ending, linkUp>>

\* The first process of that name gets the signal, which may be one that is
\* ending already.
killPppd ==
    /\ At("kill") /\ Go
    /\ \/ ending < pppd /\ ending' = ending + 1
       \/ (pppd = 0 \/ ending > 0) /\ UNCHANGED ending
    /\ UNCHANGED <<radio, request, holds, leaked, dangling, completions, tries, screen,
                   inDataCall, pppd, linkUp, strayPppd>>

StoreConnected ==
    /\ At("connected") /\ Go
    /\ inDataCall' = This.to
    /\ UNCHANGED <<radio, request, holds, leaked, dangling, completions, tries, screen,
                   pppd, ending, linkUp, strayPppd>>

Execute ==
    \/ SendCommand \/ SendPlain \/ ParseLine \/ RIL_onRequestComplete \/ Allocate
    \/ SprintfCode \/ at_response_free \/ setRadioState \/ SwitchMonitor \/ StoreScreen
    \/ RunPppd \/ poll_ppp_linkstate \/ killPppd \/ StoreConnected

---------------------------------------------------------------------------
(* The surroundings.                                                       *)

\* onATReaderClosed, in the reader thread.  A modem that restarts notifies of nothing.
RadioLost ==
    /\ radio # "UNAVAILABLE" /\ radio' = "UNAVAILABLE"
    /\ \/ UNCHANGED monitors /\ UNCHANGED screenSet
       \/ monitors' = {} /\ screenSet' = FALSE
    /\ UNCHANGED <<handler, screenState, call>>

\* AT+CREG=1, AT+VMCCMNC=0 and AT+ARSI=1,4, whatever screenState is.  The answers are not
\* looked at, so that each command may be without effect.
atcommand_init ==
    \E done \in SUBSET {"ARSI", "CREG", "VMCCMNC"} :
        monitors' = (monitors \cup (done \ {"VMCCMNC"})) \ (done \cap {"VMCCMNC"})

\* initializeCallback: a timed callback, run by the thread of the requests; a session
\* in which the radio was turned on before it ran starts again from OFF.
RadioBack ==
    /\ request = NoRequest
    /\ radio' = "OFF" /\ atcommand_init /\ screenSet' = FALSE
    /\ UNCHANGED <<handler, screenState, call>>

\* A pppd ends, told to or by itself; the last one takes the link with it.
PppdEnds ==
    /\ pppd > 0 /\ pppd' = pppd - 1
    /\ ending' \in {ending - 1, ending} \cap 0..pppd'
    /\ linkUp' = (linkUp /\ pppd' > 0)
    /\ strayPppd' = (strayPppd /\ pppd' > 0)
    /\ UNCHANGED <<radio, handler, screen, inDataCall>>

LinkChanges ==
    /\ pppd > 0 /\ linkUp' = ~linkUp
    /\ UNCHANGED <<radio, handler, screen, inDataCall, pppd, ending, strayPppd>>

Surroundings == RadioLost \/ RadioBack \/ PppdEnds \/ LinkChanges

Next == onRequest \/ Return \/ Execute \/ Surroundings

Spec == Init /\ [][Next]_vars

\* The thread that runs the handlers is scheduled; every AT command returns (which
\* is ATChannel's part).
FairSpec == Spec /\ WF_vars(Execute \/ Return)

---------------------------------------------------------------------------
(* Properties                                                              *)

Returning == request # NoRequest /\ program = <<>>
Unfreed == leaked + Cardinality({v \in Pointers : holds[v] = "live"})

\* As the comment of onRequest has it (fw100-ril.c:686): "Must be completed with a
\* call to RIL_onRequestComplete()", one call per token.
CompletedByOneCall == Returning => Len(completions) = 1

\* No request is left without an answer whatever fails on its way, and only three
\* handlers, which run on into their error label, ever answer twice.
CompletedOnce ==
    Returning =>
        \/ Len(completions) = 1
        \/ /\ Len(completions) = 2
           /\ request.kind \in {"SMS_ACKNOWLEDGE", "SIGNAL_STRENGTH", "DATA_CALL_LIST"}

\* Whichever command or parse fails, a handler has freed its responses when it returns
\* (atchannel.c:829 leaves them to the caller), but for the two that return without.
ResponsesReturned ==
    Returning /\ Unfreed > 0 => request.kind \in {"BASEBAND_VERSION", "GET_CURRENT_CALLS"}

\* No handler uses or frees a response it does not have, on any path; the three that
\* report the operator's code point into the stack of getNetworkInfo (line 535).
NothingDangles ==
    dangling => request.kind \in {"OPERATOR", "QUERY_AVAILABLE_NETWORKS", "GET_IMSI"}

\* While the radio is off no request but those for power and screen state sends a command:
\* the test at the start of onRequest still holds when its handler sends.  (The polls of
\* mainLoop and initializeCallback, which are not requests, do send.)
SilentWhileOff ==
    radio = "OFF" /\ program # <<>> /\ This.op \in {"send", "try", "tell", "pppd", "monitor"}
        => request.kind \in OffKinds

\* A screen request that succeeded, none of its commands having been refused, leaves all
\* four notifications and screenState as asked, and nothing changes them before the next
\* such request, the modem's restart or the next initializeCallback (which turns on two of
\* them whatever screenState says).  Only err is tested, so that a refused command passes
\* for one that was obeyed: such a request is not among those that succeeded here.
ScreenStateHonoured ==
    (request.kind # "SCREEN_STATE" \/ (Returning /\ completions = <<"SUCCESS">>)) /\ screenSet
        => monitors = IF screenState THEN Monitors ELSE {}

\* When the data call is down no pppd goes on running, unless an earlier set-up failed
\* after starting it or started a second one.
NoPppdWithoutCall ==
    request = NoRequest /\ ~inDataCall /\ ~strayPppd => pppd = ending

\* onRequest returns, so that libril can pass the next request.
EveryRequestReturns == request # NoRequest ~> request = NoRequest
=============================================================================
