------------------------------- MODULE GpsHal -------------------------------
(***************************************************************************)
(* The GPS HAL (src/gps/freerunner/gps_freerunner.c).  The framework's     *)
(* thread calls the interface; start, stop and cleanup are commands        *)
(* written to a socket and read by gps_state_thread, which also reads the  *)
(* receiver's sentences.  A session has a timer thread that reports the    *)
(* fix and then sleeps for fix_freq seconds.  The reader's fields are      *)
(* guarded by the semaphore fix_sem; init and fix_freq are not guarded.    *)
(***************************************************************************)
EXTENDS NmeaParser, Sequences

CONSTANTS Timers,      \* the timer threads there can be
          NoTimer,     \* a tmr_thread that was never created
          Cycle,       \* what the receiver sends: a sequence of sets of sentences
          Freqs,       \* the frequencies the framework asks for
          MaxQueue     \* bound on the commands in the socket

ASSUME MaxQueueAssumption == MaxQueue \in Nat \ {0}
ASSUME NoTimerAssumption == NoTimer \notin Timers
ASSUME FreqsAssumption == Freqs \subseteq Nat
ASSUME CycleAssumption ==
    /\ Len(Cycle) \in Nat \ {0} /\ DOMAIN Cycle = 1..Len(Cycle)
    /\ \A i \in DOMAIN Cycle : Cycle[i] # {}
    /\ \A i \in DOMAIN Cycle : \A s \in Cycle[i] :
         /\ s.kind = "GSV" => s \in GSVSentences
         /\ s.kind \in {"RMC", "ZDA"} => s.year \in -1..99

VARIABLES
    init,        \* state->init: QUIT (zeroed memory), INIT or START
    fd,          \* state->fd: -1, 0 after the memset, or OpenFd
    fix_freq,    \* state->fix_freq, seconds
    fix_sem,     \* value of the semaphore
    callbacks,   \* state->callbacks are set
    first_fix,   \* state->first_fix
    reader,      \* state->reader
    control,     \* commands in the socket pair, oldest first
    started,     \* gps_state_thread's local variable
    tmr_thread,  \* state->tmr_thread
    fw,          \* where the framework's thread is, and where it goes after gps_state_done
    gps,         \* where gps_state_thread is
    tmr,         \* per timer thread: where it is and the sleep it was told
    dev,         \* the receiver: off, slow or fast message rate
    cursor,      \* the next position of the receiver's cycle
    status,      \* the last status the framework was told
    gap,         \* history: a GSV sentence was missed, and no list begun anew since
    orphaned     \* history: a timer thread was left running by an earlier gps_state_thread

state == <<init, fd, fix_freq, fix_sem, callbacks, first_fix, reader>>
threads == <<started, tmr_thread, gps, tmr>>
receiver == <<dev, cursor, gap>>
vars == <<state, control, threads, fw, receiver, status, orphaned>>

OpenFd == 3

Running(t) == tmr[t].at # "none"
Idle == [at |-> "idle", next |-> "idle"]
NoThread == [at |-> "none", nap |-> 0]

\* Static storage: all zero.
Init ==
    /\ init = "QUIT" /\ fd = 0 /\ fix_freq = 0 /\ fix_sem = 0
    /\ callbacks = FALSE /\ first_fix = FALSE /\ reader = nmea_reader_init
    /\ control = <<>> /\ started = FALSE /\ tmr_thread = NoTimer
    /\ fw = Idle /\ gps = "none" /\ tmr = [t \in Timers |-> NoThread]
    /\ dev \in {"off", "slow"} /\ cursor = 1 /\ status = "NONE"
    /\ gap = FALSE /\ orphaned = FALSE

---------------------------------------------------------------------------
(* The interface, called by the framework's thread.                        *)

GPS_STATUS_CB(s) == status' = IF callbacks THEN s ELSE status

\* The assignments at the head of gps_state_init, with the outcome for fd.
StateReset(newfd) ==
    /\ init' = "INIT" /\ fd' = newfd /\ fix_freq' = -1 /\ first_fix' = FALSE
    /\ UNCHANGED <<callbacks, reader>>

\* gps_state_init fails before the device is open: it just returns, and so does
\* freerunner_gps_init, with -1; only sem_init may have been done.
InitWithoutDevice ==
    /\ fw.at = "idle" /\ init = "QUIT"
    /\ StateReset(-1)
    /\ fix_sem' \in {fix_sem, 1}
    /\ UNCHANGED <<control, threads, fw, receiver, status, orphaned>>

\* The socket pair or the thread cannot be created: gps_state_done, which sends
\* QUIT, joins no thread and clears everything; fd is then 0, not negative, so
\* freerunner_gps_init goes on as if it had succeeded.
InitFails ==
    /\ fw.at = "idle" /\ init = "QUIT"
    /\ StateReset(OpenFd) /\ fix_sem' = 1
    /\ control' = <<"QUIT">>
    /\ fw' = [at |-> "quit", next |-> "register"]
    /\ UNCHANGED <<threads, receiver, status, orphaned>>

InitStartsThread ==
    /\ fw.at = "idle" /\ init = "QUIT"
    /\ StateReset(OpenFd) /\ fix_sem' = 1
    /\ gps' = "boot" /\ started' = FALSE
    /\ fw' = [at |-> "register", next |-> "idle"]
    /\ orphaned' = \E t \in Timers : Running(t)
    /\ UNCHANGED <<control, tmr_thread, tmr, receiver, status>>

\* A second init of an initialised HAL only registers the callbacks.
InitAgain ==
    /\ fw.at = "idle" /\ init # "QUIT" /\ fd >= 0
    /\ fw' = [at |-> "register", next |-> "idle"]
    /\ UNCHANGED <<state, control, threads, receiver, status, orphaned>>

\* freerunner_gps_init after gps_state_init has returned.
RegisterCallbacks ==
    /\ fw.at = "register"
    /\ callbacks' = TRUE
    /\ fw' = Idle
    /\ UNCHANGED <<init, fd, fix_freq, fix_sem, first_fix, reader, control, threads,
                   receiver, status, orphaned>>

\* A write to control[0]; it fails silently if the socket was not created.
Written(cmd) == IF fd = OpenFd THEN Append(control, cmd) ELSE control

Command(cmd) ==
    /\ fw.at = "idle" /\ init # "QUIT"
    /\ Len(control) < MaxQueue
    /\ control' = Written(cmd)
    /\ UNCHANGED <<state, threads, receiver, status, orphaned>>

freerunner_gps_start == Command("START") /\ UNCHANGED fw
freerunner_gps_stop == Command("STOP") /\ UNCHANGED fw
freerunner_gps_cleanup == Command("QUIT") /\ fw' = [at |-> "quit", next |-> "idle"]

SetFreq(f) ==
    /\ fw.at = "idle" /\ init # "QUIT"
    /\ fix_freq' = f
    /\ UNCHANGED <<init, fd, fix_sem, callbacks, first_fix, reader, control, threads,
                   fw, receiver, status, orphaned>>

freerunner_gps_set_position_mode == \E f \in Freqs : SetFreq(f)
freerunner_gps_set_fix_frequency == \E f \in Freqs : SetFreq(IF f <= 0 THEN 1 ELSE f)

\* gps_state_done after the write of QUIT: wait for the thread to end.
JoinThread ==
    /\ fw.at = "quit" /\ gps \in {"none", "exited"}
    /\ init' = "QUIT" /\ fix_freq' = -1 /\ gps' = "none"
    /\ fw' = [fw EXCEPT !.at = "wipe"]
    /\ UNCHANGED <<fd, fix_sem, callbacks, first_fix, reader, control, started,
                   tmr_thread, tmr, receiver, status, orphaned>>

\* Sockets and device are closed, the semaphore is destroyed, all is set to 0.  (The
\* reader's utc_year is then 0, which nobody sees: Boot initialises it before any use.)
Wipe ==
    /\ fw.at = "wipe"
    /\ init' = "QUIT" /\ fd' = 0 /\ fix_freq' = 0 /\ fix_sem' = 0
    /\ callbacks' = FALSE /\ first_fix' = FALSE /\ reader' = nmea_reader_init
    /\ control' = <<>> /\ tmr_thread' = NoTimer
    /\ fw' = [at |-> fw.next, next |-> "idle"]
    /\ UNCHANGED <<started, gps, tmr, receiver, status, orphaned>>

---------------------------------------------------------------------------
(* gps_state_thread                                                        *)

\* What becomes of a receiver in state d: its power, which stays as it is if the power
\* interface has no name or cannot be opened; and the rate of its sentences, which a
\* receiver without power does not hear of.
gps_dev_power(d, on) == {d, IF ~on THEN "off" ELSE IF d = "off" THEN "slow" ELSE d}
gps_dev_set_message_rate(d, rate) == IF d = "off" THEN d ELSE rate
gps_dev_start(d) == gps_dev_set_message_rate(d, "fast")
gps_dev_stop(d) == gps_dev_set_message_rate(d, "slow")
gps_dev_init(d) == {gps_dev_stop(p) : p \in gps_dev_power(d, TRUE)}
gps_dev_deinit(d) == gps_dev_power(d, FALSE)

\* The receiver is in the middle of a satellite list.
Mid(i) == \E s \in Cycle[i] : s.kind = "GSV" /\ s.sentence > 1

\* nmea_reader_init, gps_dev_init (power on, slow rate), ENGINE_ON.  A receiver that had
\* power already, because nobody or a failing gps_dev_power turned it off, goes on with
\* its cycle wherever it is.
Boot ==
    /\ gps = "boot"
    /\ reader' = nmea_reader_init
    /\ dev' \in gps_dev_init(dev)
    /\ cursor' \in IF dev = "off" THEN {1} ELSE DOMAIN Cycle
    /\ gap' = Mid(cursor')
    /\ GPS_STATUS_CB("ENGINE_ON")
    /\ gps' = "loop"
    /\ UNCHANGED <<init, fd, fix_freq, fix_sem, callbacks, first_fix, control, started,
                   tmr_thread, tmr, fw, orphaned>>

\* The label Exit: ENGINE_OFF, power off.  The timer thread is left alone.
Exit ==
    /\ gps' = "exited" /\ dev' \in gps_dev_deinit(dev)
    /\ GPS_STATUS_CB("ENGINE_OFF")
    /\ UNCHANGED <<cursor, gap>>

Receive(cmd) == gps = "loop" /\ control # <<>> /\ Head(control) = cmd /\ control' = Tail(control)

Quit ==
    /\ Receive("QUIT")
    /\ Exit
    /\ orphaned' = (orphaned \/ started)
    /\ UNCHANGED <<state, started, tmr_thread, tmr, fw>>

\* epoll_wait reports EPOLLERR or EPOLLHUP.
LineError ==
    /\ gps = "loop" /\ Exit
    /\ orphaned' = (orphaned \/ started)
    /\ UNCHANGED <<state, control, started, tmr_thread, tmr, fw>>

\* The timer thread is created, and may run at once.
StartSession ==
    /\ Receive("START") /\ ~started
    /\ started' = TRUE /\ init' = "START" /\ dev' = gps_dev_start(dev)
    /\ GPS_STATUS_CB("SESSION_BEGIN")
    /\ \E t \in Timers :
         /\ tmr[t].at = "none"
         /\ tmr' = [tmr EXCEPT ![t] = [at |-> "lock", nap |-> 0]]
         /\ tmr_thread' = t
    /\ UNCHANGED <<fd, fix_freq, fix_sem, callbacks, first_fix, reader, gps, fw,
                   cursor, gap, orphaned>>

\* The timer thread cannot be created: SESSION_BEGIN, then straight to Exit.
StartFails ==
    /\ Receive("START") /\ ~started
    /\ init' = "INIT"
    /\ Exit
    /\ UNCHANGED <<fd, fix_freq, fix_sem, callbacks, first_fix, reader, started,
                   tmr_thread, tmr, fw, orphaned>>

\* FAULTY VARIANT: the session is reported ended without waiting for the timer.
StopSessionNoJoin ==
    /\ Receive("STOP") /\ started
    /\ started' = FALSE /\ init' = "INIT" /\ dev' = gps_dev_stop(dev)
    /\ GPS_STATUS_CB("SESSION_END")
    /\ UNCHANGED <<fd, fix_freq, fix_sem, callbacks, first_fix, reader, tmr_thread, tmr,
                   gps, fw, cursor, gap, orphaned>>

\* FAULTY VARIANT: the timer thread is not told to end.
StopSessionSilently ==
    /\ Receive("STOP") /\ started
    /\ started' = FALSE /\ dev' = gps_dev_stop(dev) /\ gps' = "join"
    /\ UNCHANGED <<state, tmr_thread, tmr, fw, cursor, gap, status, orphaned>>

StopSession ==
    /\ Receive("STOP") /\ started
    /\ started' = FALSE /\ init' = "INIT" /\ dev' = gps_dev_stop(dev) /\ gps' = "join"
    /\ UNCHANGED <<fd, fix_freq, fix_sem, callbacks, first_fix, reader, tmr_thread, tmr,
                   fw, cursor, gap, status, orphaned>>

JoinTimer ==
    /\ gps = "join" /\ tmr[tmr_thread].at = "none"
    /\ GPS_STATUS_CB("SESSION_END")
    /\ gps' = "loop"
    /\ UNCHANGED <<state, control, started, tmr_thread, tmr, fw, receiver, orphaned>>

\* A START in a session, a STOP outside one.
IgnoreCommand ==
    /\ (Receive("START") /\ started) \/ (Receive("STOP") /\ ~started)
    /\ UNCHANGED <<state, threads, fw, receiver, status, orphaned>>

ReadCommand == Quit \/ StartSession \/ StartFails \/ StopSession \/ IgnoreCommand

\* nmea_reader_addc has put a whole sentence together and waits for the fix.
ReadSentence ==
    /\ gps = "loop" /\ dev # "off"
    /\ gps' = "lock"
    /\ UNCHANGED <<state, control, started, tmr_thread, tmr, fw, receiver, status, orphaned>>

\* A sentence too long for the buffer, or one the serial driver dropped.
LoseSentence ==
    /\ gps = "loop" /\ dev # "off"
    /\ cursor' = (cursor % Len(Cycle)) + 1
    /\ gap' = (gap \/ \E s \in Cycle[cursor] : s.kind = "GSV")
    /\ UNCHANGED <<state, control, threads, fw, dev, status, orphaned>>

ParserLock ==
    /\ gps = "lock" /\ fix_sem > 0
    /\ fix_sem' = fix_sem - 1 /\ gps' = "parse"
    /\ UNCHANGED <<init, fd, fix_freq, callbacks, first_fix, reader, control, started,
                   tmr_thread, tmr, fw, receiver, status, orphaned>>

\* The first GSV sentence of a list.
BeginsList(s) == s.kind = "GSV" /\ s.sentence = 1 /\ s.satellites > 0

\* nmea_reader_parse, with the delivery of the first fix outside a session, which a
\* short sentence does not come to.
Parse ==
    /\ gps = "parse"
    /\ \E s \in Cycle[cursor] :
         LET r == nmea_reader_parse(reader, s)
             first == /\ ~first_fix /\ init = "INIT" /\ "LAT_LONG" \in r.flags
                      /\ s.kind # "short"
         IN  /\ reader' = IF first /\ callbacks THEN [r EXCEPT !.flags = {}] ELSE r
             /\ first_fix' = (first_fix \/ first)
             /\ gap' = (gap /\ ~BeginsList(s))
    /\ fix_sem' = fix_sem + 1 /\ gps' = "loop"
    /\ cursor' = (cursor % Len(Cycle)) + 1
    /\ UNCHANGED <<init, fd, fix_freq, callbacks, control, started, tmr_thread, tmr, fw,
                   dev, status, orphaned>>

---------------------------------------------------------------------------
(* gps_timer_thread                                                        *)

Goes(t, from, to) == tmr[t].at = from /\ tmr' = [tmr EXCEPT ![t] = [at |-> to, nap |-> 0]]

others == <<init, fd, control, started, tmr_thread, gps, fw, receiver, status, orphaned>>

\* FAULTY VARIANT: the reader's fields are read without the semaphore.
TimerLockFree(t) ==
    /\ Goes(t, "lock", "fix")
    /\ UNCHANGED <<fix_sem, fix_freq, callbacks, first_fix, reader, others>>

TimerLock(t) ==
    /\ fix_sem > 0 /\ Goes(t, "lock", "fix")
    /\ fix_sem' = fix_sem - 1
    /\ UNCHANGED <<fix_freq, callbacks, first_fix, reader, others>>

\* FAULTY VARIANT: the flags stay set although the fix was reported.
ReportFixKeeps(t) ==
    /\ Goes(t, "fix", IF reader.flags # {} /\ fix_freq = 0 THEN "single" ELSE "sv")
    /\ first_fix' = (first_fix \/ (reader.flags # {} /\ callbacks))
    /\ UNCHANGED <<reader, fix_sem, fix_freq, callbacks, others>>

\* location_cb, if there is anything to report.
ReportFix(t) ==
    /\ Goes(t, "fix", IF reader.flags # {} /\ fix_freq = 0 THEN "single" ELSE "sv")
    /\ reader' = IF callbacks THEN [reader EXCEPT !.flags = {}] ELSE reader
    /\ first_fix' = (first_fix \/ (reader.flags # {} /\ callbacks))
    /\ UNCHANGED <<fix_sem, fix_freq, callbacks, others>>

\* The second half of "if fix_freq is 0, set it to -1": the framework may have
\* set another frequency in between.
EndSingle(t) ==
    /\ Goes(t, "single", "sv")
    /\ fix_freq' = -1
    /\ UNCHANGED <<fix_sem, callbacks, first_fix, reader, others>>

\* sv_status_cb, sem_post and the call of sleep.
ReportSatellites(t) ==
    /\ tmr[t].at = "sv"
    /\ reader' = IF callbacks THEN [reader EXCEPT !.sv_status_changed = FALSE] ELSE reader
    /\ fix_sem' = fix_sem + 1
    /\ tmr' = [tmr EXCEPT ![t] = [at |-> "sleep", nap |-> fix_freq]]
    /\ UNCHANGED <<fix_freq, callbacks, first_fix, others>>

\* sleep(-1) sleeps for 2^32 - 1 seconds: it does not return.
Wake(t) ==
    /\ tmr[t].nap >= 0
    /\ Goes(t, "sleep", IF init = "START" THEN "lock" ELSE "none")
    /\ UNCHANGED <<fix_sem, fix_freq, callbacks, first_fix, reader, others>>

TimerStep(t) == ReportFix(t) \/ EndSingle(t) \/ ReportSatellites(t) \/ Wake(t)

---------------------------------------------------------------------------
Framework ==
    \/ InitWithoutDevice \/ InitFails \/ InitStartsThread \/ InitAgain
    \/ freerunner_gps_start \/ freerunner_gps_stop \/ freerunner_gps_cleanup
    \/ freerunner_gps_set_position_mode \/ freerunner_gps_set_fix_frequency

InsideCall == RegisterCallbacks \/ JoinThread \/ Wipe
GpsThread == Boot \/ ReadCommand \/ LineError \/ JoinTimer \/ ReadSentence \/ ParserLock \/ Parse

Next ==
    \/ Framework \/ InsideCall \/ GpsThread \/ LoseSentence
    \/ \E t \in Timers : TimerLock(t) \/ TimerStep(t)

Spec == Init /\ [][Next]_vars

(***************************************************************************)
(* Threads run.  epoll_wait reports both descriptors when both are ready,  *)
(* so a command is not starved by sentences; nor is a thread starved at    *)
(* the semaphore, which is free while the others read or sleep.  The       *)
(* framework need not call anything.                                       *)
(***************************************************************************)
Fairness ==
    /\ WF_vars(InsideCall)
    /\ WF_vars(Boot \/ JoinTimer \/ Parse)
    /\ SF_vars(ReadCommand) /\ SF_vars(ParserLock)
    /\ \A t \in Timers : SF_vars(TimerLock(t)) /\ WF_vars(TimerStep(t))

FairSpec == Spec /\ Fairness

---------------------------------------------------------------------------
(* Properties                                                              *)

InSection(t) == tmr[t].at \in {"fix", "single", "sv"}

\* A timer thread sleeps without end: fix_freq was -1, its initial value or the
\* one left after a single fix.
SleepsForEver(t) == tmr[t].at = "sleep" /\ tmr[t].nap = -1

\* The semaphore (lines 81-90) keeps the reader's fix and satellite list to one
\* thread: gps_state_thread parsing (nmea_reader_addc) or a timer thread
\* reporting.  It is lost once gps_state_thread has left a timer thread behind and
\* gps_state_done has destroyed the semaphore under it.
FixIsExclusive ==
    ~orphaned =>
        /\ \A t, u \in Timers : InSection(t) /\ InSection(u) => t = u
        /\ gps = "parse" => \A t \in Timers : ~InSection(t)

\* After SESSION_END the framework gets no report of the timer thread: CMD_STOP
\* waits for it first.  (Again unless a session was cut short by QUIT or an error.)
QuietAfterSession ==
    ~orphaned /\ (status = "SESSION_END" \/ (~started /\ gps # "join"))
        => \A t \in Timers : ~Running(t)

\* Every sentence of the receiver that gives a date gives a date of six digits (RMC) or
\* a whole one (ZDA), and a time with it.  The year may be garbled.
DatesAreWhole ==
    \A i \in DOMAIN Cycle : \A s \in Cycle[i] :
        s.kind \in {"RMC", "ZDA"} => {"date", "time"} \subseteq s.tokens

\* The years of the receiver's dates; and 1999, if one of its RMC sentences has a garbled
\* year: str2int gives -1, and 2000 is added before the check for a negative number.
YearsSent ==
    {y \in 2000..2099 : \E i \in DOMAIN Cycle : \E s \in Cycle[i] :
                           s.kind \in {"RMC", "ZDA"} /\ y = s.year + 2000}
MadeUp(y) == y = 1999 /\ \E i \in DOMAIN Cycle : \E s \in Cycle[i] : s.kind = "RMC" /\ s.year = -1

\* A position waiting to be reported has a timestamp, of a year that the receiver sent,
\* whichever sentences were lost: GGA and GLL are ignored until there is a date (lines
\* 591 and 616), and date and time are set together.  The timestamp may be older than a
\* position of GGA or GLL.  The one year that is made up, although line 349 says "never
\* ever make up a date", is the 1999 of a garbled year.  An RMC sentence without a usable
\* date, which is not ignored, or a date without a time would break this.
PositionHasTime ==
    DatesAreWhole /\ "LAT_LONG" \in reader.flags =>
        reader.timestamp \in YearsSent \/ MadeUp(reader.timestamp)

\* The receiver sends the GSV sentences of a list in order, one right after the other,
\* and as many of them as the list needs.
WholeLists ==
    \A i \in DOMAIN Cycle : \A s \in Cycle[i] : s.kind = "GSV" =>
        /\ Cycle[i] = {s}
        /\ s.sentence \in 1..s.sentences
        /\ s.satellites <= 4 * s.sentences
        /\ 4 * (s.sentences - 1) < s.satellites \/ (s.satellites = 0 /\ s.sentences = 1)
        /\ s.sentence < s.sentences =>
               i < Len(Cycle) /\ Cycle[i + 1] = {[s EXCEPT !.sentence = s.sentence + 1]}
        /\ s.sentence > 1 => i > 1 /\ Cycle[i - 1] = {[s EXCEPT !.sentence = s.sentence - 1]}

\* The satellites of no list yet, or of a whole one.
WholeList(n) ==
    n = 0 \/ \E i \in DOMAIN Cycle : \E s \in Cycle[i] : s.kind = "GSV" /\ n = s.satellites

\* The timer thread is not shown half a satellite list: sv_status_changed is reset by
\* the first GSV sentence and set by the last.  A GSV sentence that is lost, or a thread
\* that is started in the middle of a list, spoils this until the first sentence of the
\* next list, and no longer.
ListIsWhole ==
    WholeLists /\ ~gap /\ reader.sv_status_changed => WholeList(reader.num_svs)

\* gps_state_done "tell[s] the thread to quit, and wait[s] for it" (line 878): the
\* call returns, unless the thread itself waits for a timer thread in sleep(-1).
CleanupReturns ==
    fw.at = "quit" ~> (fw.at # "quit" \/ (gps = "join" /\ SleepsForEver(tmr_thread)))

\* As line 878 says it, without the exception.
CleanupAlwaysReturns == fw.at = "quit" ~> fw.at # "quit"

\* A fix parsed in a session is reported, unless the session ends or its timer thread
\* sleeps without end.
FixIsReported ==
    (init = "START" /\ callbacks /\ reader.flags # {})
        ~> \/ reader.flags = {}
           \/ init # "START"
           \/ \E t \in Timers : SleepsForEver(t)
=============================================================================
