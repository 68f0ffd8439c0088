---------------------------- MODULE GpsHalProofs ----------------------------
(***************************************************************************)
(* Mutual exclusion on the fix and the quiet after a session, for every    *)
(* set of timer threads, every receiver and every length of the socket's   *)
(* queue.                                                                  *)
(*                                                                         *)
(* The argument has three parts.  A session has one timer thread, the one  *)
(* tmr_thread names, from CMD_START until the join of CMD_STOP has ended   *)
(* (OneTimer), as long as no session is cut short.  gps_state_done frees   *)
(* nothing under a running gps_state_thread (Lifetime), so that the        *)
(* semaphore is set up before and destroyed after the threads that use it. *)
(* In between the semaphore is 0 or 1 and 0 while anybody is inside        *)
(* (Semaphore).                                                            *)
(*                                                                         *)
(* Then what the framework is shown: positions carry a timestamp of a year *)
(* the receiver sent, or of the one that is made up of a garbled year, for *)
(* every receiver whose dates have all their tokens; and satellite lists   *)
(* are whole from the first sentence of one on, for any number of GSV      *)
(* sentences, until one is missed.                                         *)
(***************************************************************************)
EXTENDS GpsHal, TLAPS

TimerStates == {"none", "lock", "fix", "single", "sv", "sleep"}
TimerShape == tmr \in [Timers -> [at : TimerStates, nap : Int]] /\ fix_freq \in Int

InThread == gps \in {"loop", "lock", "parse", "join"}
Live == InThread \/ gps = "boot"

Lifetime ==
    /\ init = "QUIT" => gps = "none"
    /\ fw.at = "wipe" => gps = "none"
    /\ gps = "join" => ~started

OneTimer ==
    ~orphaned => /\ \A t \in Timers : Running(t) => /\ t = tmr_thread /\ InThread
                                                    /\ started \/ gps = "join"
                 /\ started => InThread

Semaphore ==
    ~orphaned /\ Live =>
        /\ fix_sem \in {0, 1}
        /\ gps = "parse" => fix_sem = 0 /\ \A t \in Timers : ~InSection(t)
        /\ \A t \in Timers : InSection(t) => fix_sem = 0

(* SESSION_END is followed by SESSION_BEGIN or ENGINE_OFF before anything   *)
(* else happens to the session.                                             *)
Ended == status = "SESSION_END" => callbacks /\ InThread /\ gps # "join" /\ ~started

IInv == TimerShape /\ Lifetime /\ OneTimer /\ Semaphore /\ Ended

(* Each part depends on a few variables. *)
LEMMA Kept ==
    /\ TimerShape /\ UNCHANGED <<tmr, fix_freq>> => TimerShape'
    /\ Lifetime /\ UNCHANGED <<init, gps, fw, started>> => Lifetime'
    /\ OneTimer /\ UNCHANGED <<orphaned, tmr, tmr_thread, gps, started>> => OneTimer'
    /\ Semaphore /\ UNCHANGED <<orphaned, gps, fix_sem, tmr>> => Semaphore'
    /\ Ended /\ UNCHANGED <<status, callbacks, gps, started>> => Ended'
BY DEF TimerShape, Lifetime, OneTimer, Running, Semaphore, InSection, Live, Ended, InThread

LEMMA FrameworkStep ==
    ASSUME IInv, Framework
    PROVE  IInv'
<1>1. CASE InitWithoutDevice
  <2>1. TimerShape'
    BY <1>1 DEF IInv, InitWithoutDevice, StateReset, threads, TimerShape, TimerStates
  <2>2. Lifetime'
    BY <1>1 DEF IInv, InitWithoutDevice, StateReset, threads, Lifetime
  <2>3. Semaphore'
    BY <1>1 DEF IInv, InitWithoutDevice, StateReset, threads, Semaphore, InSection,
       Live, InThread, Lifetime
  <2> QED
    BY <1>1, <2>1, <2>2, <2>3, Kept DEF IInv, InitWithoutDevice, StateReset, threads
<1>2. CASE InitFails
  <2>1. TimerShape'
    BY <1>2 DEF IInv, InitFails, StateReset, threads, TimerShape, TimerStates
  <2>2. Lifetime'
    BY <1>2 DEF IInv, InitFails, StateReset, threads, Lifetime
  <2>3. Semaphore'
    BY <1>2 DEF IInv, InitFails, StateReset, threads, Semaphore, InSection, Live,
       InThread, Lifetime
  <2> QED
    BY <1>2, <2>1, <2>2, <2>3, Kept DEF IInv, InitFails, StateReset, threads
<1>3. CASE InitStartsThread
  <2>1. TimerShape'
    BY <1>3 DEF IInv, InitStartsThread, StateReset, TimerShape, TimerStates
  <2>2. Lifetime'
    BY <1>3 DEF IInv, InitStartsThread, StateReset, Lifetime, Ended
  <2>3. OneTimer'
    BY <1>3 DEF IInv, InitStartsThread, StateReset, OneTimer, Running, InThread
  <2>4. Semaphore'
    BY <1>3 DEF IInv, InitStartsThread, StateReset, Semaphore, InSection, Live,
       InThread, Running
  <2>5. Ended'
    BY <1>3 DEF IInv, InitStartsThread, StateReset, Ended, InThread, Lifetime
  <2> QED
    BY <1>3, <2>1, <2>2, <2>3, <2>4, <2>5, Kept DEF IInv, InitStartsThread, StateReset
<1>4. CASE InitAgain
  <2>1. Lifetime'
    BY <1>4 DEF IInv, InitAgain, state, threads, Lifetime
  <2> QED
    BY <1>4, <2>1, Kept DEF IInv, InitAgain, state, threads
<1>5. CASE freerunner_gps_start \/ freerunner_gps_stop \/ freerunner_gps_cleanup
  <2>1. Lifetime'
    BY <1>5 DEF IInv, freerunner_gps_start, freerunner_gps_stop,
           freerunner_gps_cleanup, Command, state, threads, Lifetime
  <2> QED
    BY <1>5, <2>1, Kept DEF IInv, freerunner_gps_start, freerunner_gps_stop,
           freerunner_gps_cleanup, Command, state, threads
<1>6. CASE freerunner_gps_set_position_mode \/ freerunner_gps_set_fix_frequency
  <2>1. TimerShape'
    BY <1>6, FreqsAssumption DEF IInv, freerunner_gps_set_position_mode,
           freerunner_gps_set_fix_frequency, SetFreq, threads, TimerShape, TimerStates
  <2> QED
    BY <1>6, <2>1, Kept DEF IInv, freerunner_gps_set_position_mode,
           freerunner_gps_set_fix_frequency, SetFreq, threads
<1> QED
  BY <1>1, <1>2, <1>3, <1>4, <1>5, <1>6 DEF Framework

LEMMA InsideCallStep ==
    ASSUME IInv, InsideCall
    PROVE  IInv'
<1>1. CASE RegisterCallbacks
  <2>1. Lifetime'
    BY <1>1 DEF IInv, RegisterCallbacks, Idle, threads, Lifetime
  <2>2. Ended'
    BY <1>1 DEF IInv, RegisterCallbacks, Idle, threads, Ended, InThread
  <2> QED
    BY <1>1, <2>1, <2>2, Kept DEF IInv, RegisterCallbacks, Idle, threads
<1>2. CASE JoinThread
  <2>1. TimerShape'
    BY <1>2 DEF IInv, JoinThread, TimerShape, TimerStates
  <2>2. Lifetime'
    BY <1>2 DEF IInv, JoinThread, Lifetime
  <2>3. OneTimer'
    BY <1>2 DEF IInv, JoinThread, OneTimer, Running, InThread
  <2>4. Semaphore'
    BY <1>2 DEF IInv, JoinThread, Semaphore, InSection, Live, InThread
  <2>5. Ended'
    BY <1>2 DEF IInv, JoinThread, Ended, InThread
  <2> QED
    BY <1>2, <2>1, <2>2, <2>3, <2>4, <2>5, Kept DEF IInv, JoinThread
<1>3. CASE Wipe
  <2>1. TimerShape'
    BY <1>3 DEF IInv, Wipe, TimerShape, TimerStates
  <2>2. Lifetime'
    BY <1>3 DEF IInv, Wipe, Lifetime
  <2>3. OneTimer'
    BY <1>3 DEF IInv, Wipe, OneTimer, Running, InThread, Lifetime
  <2>4. Semaphore'
    BY <1>3 DEF IInv, Wipe, Semaphore, InSection, Live, InThread, Lifetime
  <2>5. Ended'
    BY <1>3 DEF IInv, Wipe, Ended, InThread, Lifetime
  <2> QED
    BY <1>3, <2>1, <2>2, <2>3, <2>4, <2>5, Kept DEF IInv, Wipe
<1> QED
  BY <1>1, <1>2, <1>3 DEF InsideCall

LEMMA GpsThreadStep ==
    ASSUME IInv, GpsThread \/ LoseSentence
    PROVE  IInv'
<1>1. CASE Boot
  <2>1. Lifetime'
    BY <1>1 DEF IInv, Boot, GPS_STATUS_CB, Lifetime
  <2>2. OneTimer'
    BY <1>1 DEF IInv, Boot, GPS_STATUS_CB, OneTimer, Running, InThread
  <2>3. Semaphore'
    BY <1>1 DEF IInv, Boot, GPS_STATUS_CB, Semaphore, InSection, Live, InThread
  <2>4. Ended'
    BY <1>1 DEF IInv, Boot, GPS_STATUS_CB, Ended, InThread
  <2> QED
    BY <1>1, <2>1, <2>2, <2>3, <2>4, Kept DEF IInv, Boot, GPS_STATUS_CB
<1>2. CASE Quit \/ LineError
  <2>1. Lifetime'
    BY <1>2 DEF IInv, Quit, LineError, Receive, Exit, GPS_STATUS_CB, state, Lifetime
  <2>2. OneTimer'
    BY <1>2 DEF IInv, Quit, LineError, Receive, Exit, GPS_STATUS_CB, state,
       OneTimer, Running, InThread
  <2>3. Semaphore'
    BY <1>2 DEF IInv, Quit, LineError, Receive, Exit, GPS_STATUS_CB, state,
       Semaphore, InSection, Live, InThread
  <2>4. Ended'
    BY <1>2 DEF IInv, Quit, LineError, Receive, Exit, GPS_STATUS_CB, state, Ended, InThread
  <2> QED
    BY <1>2, <2>1, <2>2, <2>3, <2>4, Kept DEF IInv, Quit, LineError, Receive, Exit,
       GPS_STATUS_CB, state
<1>3. CASE StartSession
  <2>1. TimerShape'
    BY <1>3 DEF IInv, StartSession, Receive, GPS_STATUS_CB, TimerShape, TimerStates
  <2>2. Lifetime'
    BY <1>3 DEF IInv, StartSession, Receive, GPS_STATUS_CB, Lifetime
  <2>3. OneTimer'
    BY <1>3 DEF IInv, StartSession, Receive, GPS_STATUS_CB, OneTimer, Running,
       InThread, TimerShape
  <2>4. Semaphore'
    BY <1>3 DEF IInv, StartSession, Receive, GPS_STATUS_CB, Semaphore, InSection,
       Live, InThread, TimerShape
  <2>5. Ended'
    BY <1>3 DEF IInv, StartSession, Receive, GPS_STATUS_CB, Ended, InThread
  <2> QED
    BY <1>3, <2>1, <2>2, <2>3, <2>4, <2>5, Kept DEF IInv, StartSession, Receive,
       GPS_STATUS_CB
<1>4. CASE StartFails
  <2>1. Lifetime'
    BY <1>4 DEF IInv, StartFails, Receive, Exit, GPS_STATUS_CB, Lifetime
  <2>2. OneTimer'
    BY <1>4 DEF IInv, StartFails, Receive, Exit, GPS_STATUS_CB, OneTimer, Running, InThread
  <2>3. Semaphore'
    BY <1>4 DEF IInv, StartFails, Receive, Exit, GPS_STATUS_CB, Semaphore,
       InSection, Live, InThread
  <2>4. Ended'
    BY <1>4 DEF IInv, StartFails, Receive, Exit, GPS_STATUS_CB, Ended, InThread
  <2> QED
    BY <1>4, <2>1, <2>2, <2>3, <2>4, Kept DEF IInv, StartFails, Receive, Exit, GPS_STATUS_CB
<1>5. CASE StopSession
  <2>1. Lifetime'
    BY <1>5 DEF IInv, StopSession, Receive, Lifetime
  <2>2. OneTimer'
    BY <1>5 DEF IInv, StopSession, Receive, OneTimer, Running, InThread
  <2>3. Semaphore'
    BY <1>5 DEF IInv, StopSession, Receive, Semaphore, InSection, Live, InThread
  <2>4. Ended'
    BY <1>5 DEF IInv, StopSession, Receive, Ended, InThread
  <2> QED
    BY <1>5, <2>1, <2>2, <2>3, <2>4, Kept DEF IInv, StopSession, Receive
<1>6. CASE JoinTimer
  <2>1. Lifetime'
    BY <1>6 DEF IInv, JoinTimer, GPS_STATUS_CB, state, Lifetime
  <2>2. OneTimer'
    BY <1>6 DEF IInv, JoinTimer, GPS_STATUS_CB, state, OneTimer, Running, InThread
  <2>3. Semaphore'
    BY <1>6 DEF IInv, JoinTimer, GPS_STATUS_CB, state, Semaphore, InSection, Live, InThread
  <2>4. Ended'
    BY <1>6 DEF IInv, JoinTimer, GPS_STATUS_CB, state, Ended, InThread, Lifetime
  <2> QED
    BY <1>6, <2>1, <2>2, <2>3, <2>4, Kept DEF IInv, JoinTimer, GPS_STATUS_CB, state
<1>7. CASE IgnoreCommand
  <2> QED
    BY <1>7, Kept DEF IInv, IgnoreCommand, state, threads
<1>8. CASE ReadSentence
  <2>1. Lifetime'
    BY <1>8 DEF IInv, ReadSentence, state, Lifetime
  <2>2. OneTimer'
    BY <1>8 DEF IInv, ReadSentence, state, OneTimer, Running, InThread
  <2>3. Semaphore'
    BY <1>8 DEF IInv, ReadSentence, state, Semaphore, InSection, Live, InThread
  <2>4. Ended'
    BY <1>8 DEF IInv, ReadSentence, state, Ended, InThread
  <2> QED
    BY <1>8, <2>1, <2>2, <2>3, <2>4, Kept DEF IInv, ReadSentence, state
<1>9. CASE LoseSentence
  <2> QED
    BY <1>9, Kept DEF IInv, LoseSentence, state, threads
<1>10. CASE ParserLock
  <2>1. Lifetime'
    BY <1>10 DEF IInv, ParserLock, Lifetime
  <2>2. OneTimer'
    BY <1>10 DEF IInv, ParserLock, OneTimer, Running, InThread
  <2>3. Semaphore'
    BY <1>10 DEF IInv, ParserLock, Semaphore, InSection, Live, InThread
  <2>4. Ended'
    BY <1>10 DEF IInv, ParserLock, Ended, InThread
  <2> QED
    BY <1>10, <2>1, <2>2, <2>3, <2>4, Kept DEF IInv, ParserLock
<1>11. CASE Parse
  <2>1. Lifetime'
    BY <1>11 DEF IInv, Parse, Lifetime
  <2>2. OneTimer'
    BY <1>11 DEF IInv, Parse, OneTimer, Running, InThread
  <2>3. Semaphore'
    BY <1>11 DEF IInv, Parse, Semaphore, InSection, Live, InThread
  <2>4. Ended'
    BY <1>11 DEF IInv, Parse, Ended, InThread
  <2> QED
    BY <1>11, <2>1, <2>2, <2>3, <2>4, Kept DEF IInv, Parse
<1> QED
  BY <1>1, <1>2, <1>3, <1>4, <1>5, <1>6, <1>7, <1>8, <1>9, <1>10, <1>11 DEF GpsThread,
     ReadCommand

LEMMA TimerThreadStep ==
    ASSUME IInv, NEW t \in Timers, TimerLock(t) \/ TimerStep(t)
    PROVE  IInv'
<1>1. CASE TimerLock(t)
  <2>1. TimerShape'
    BY <1>1 DEF IInv, TimerLock, Goes, others, TimerShape, TimerStates
  <2>2. OneTimer'
    BY <1>1 DEF IInv, TimerLock, Goes, others, OneTimer, Running, InThread, TimerShape
  <2>3. Semaphore'
    BY <1>1 DEF IInv, TimerLock, Goes, others, Semaphore, InSection, Live, InThread,
       TimerShape, OneTimer, Running
  <2> QED
    BY <1>1, <2>1, <2>2, <2>3, Kept DEF IInv, TimerLock, Goes, others
<1>2. CASE ReportFix(t)
  <2>1. TimerShape'
    BY <1>2 DEF IInv, ReportFix, Goes, others, TimerShape, TimerStates
  <2>2. OneTimer'
    BY <1>2 DEF IInv, ReportFix, Goes, others, OneTimer, Running, InThread, TimerShape
  <2>3. Semaphore'
    BY <1>2 DEF IInv, ReportFix, Goes, others, Semaphore, InSection, Live, InThread,
       TimerShape
  <2> QED
    BY <1>2, <2>1, <2>2, <2>3, Kept DEF IInv, ReportFix, Goes, others
<1>3. CASE EndSingle(t)
  <2>1. TimerShape'
    BY <1>3 DEF IInv, EndSingle, Goes, others, TimerShape, TimerStates
  <2>2. OneTimer'
    BY <1>3 DEF IInv, EndSingle, Goes, others, OneTimer, Running, InThread, TimerShape
  <2>3. Semaphore'
    BY <1>3 DEF IInv, EndSingle, Goes, others, Semaphore, InSection, Live, InThread,
       TimerShape
  <2> QED
    BY <1>3, <2>1, <2>2, <2>3, Kept DEF IInv, EndSingle, Goes, others
<1>4. CASE ReportSatellites(t)
  <2>1. TimerShape'
    BY <1>4 DEF IInv, ReportSatellites, others, TimerShape, TimerStates
  <2>2. OneTimer'
    BY <1>4 DEF IInv, ReportSatellites, others, OneTimer, Running, InThread, TimerShape
  <2>3. Semaphore'
    BY <1>4 DEF IInv, ReportSatellites, others, Semaphore, InSection, Live,
       InThread, TimerShape, OneTimer, Running
  <2> QED
    BY <1>4, <2>1, <2>2, <2>3, Kept DEF IInv, ReportSatellites, others
<1>5. CASE Wake(t)
  <2>1. TimerShape'
    BY <1>5 DEF IInv, Wake, Goes, others, TimerShape, TimerStates
  <2>2. OneTimer'
    BY <1>5 DEF IInv, Wake, Goes, others, OneTimer, Running, InThread, TimerShape
  <2>3. Semaphore'
    BY <1>5 DEF IInv, Wake, Goes, others, Semaphore, InSection, Live, InThread, TimerShape
  <2> QED
    BY <1>5, <2>1, <2>2, <2>3, Kept DEF IInv, Wake, Goes, others
<1> QED
  BY <1>1, <1>2, <1>3, <1>4, <1>5 DEF TimerStep

(* The inductive invariant. *)
THEOREM Inductive == Spec => []IInv
<1>1. Init => IInv
  BY DEF Init, IInv, TimerShape, TimerStates, Lifetime, OneTimer, Running, Semaphore, Live,
         InThread, Ended, Idle, NoThread
<1>2. IInv /\ [Next]_vars => IInv'
  <2>1. IInv /\ UNCHANGED vars => IInv'
    BY Kept DEF IInv, vars, state, threads
  <2> QED
    BY <2>1, FrameworkStep, InsideCallStep, GpsThreadStep, TimerThreadStep DEF Next
<1> QED
  BY <1>1, <1>2, PTL DEF Spec

(* The fix and the satellite list belong to one thread at a time: the       *)
(* parser in gps_state_thread or one timer thread, as long as no session    *)
(* has been cut short.                                                      *)
THEOREM FixExclusion == Spec => []FixIsExclusive
<1>1. IInv => FixIsExclusive
  BY DEF IInv, FixIsExclusive, OneTimer, Running, Semaphore, InSection, Live, InThread
<1> QED
  BY <1>1, Inductive, PTL

(* Nothing is reported for a session after its SESSION_END. *)
THEOREM SessionQuiet == Spec => []QuietAfterSession
<1>1. IInv => QuietAfterSession
  BY DEF IInv, QuietAfterSession, OneTimer, Ended, InThread
<1> QED
  BY <1>1, Inductive, PTL

-----------------------------------------------------------------------------
(* The parser: what a sentence does to the reader. *)

Flags == {"LAT_LONG", "ALTITUDE", "ACCURACY", "BEARING", "SPEED"}
Readers == [utc_year : Int, timestamp : Int, flags : SUBSET Flags, num_svs : Int,
            sv_status_changed : BOOLEAN]

(* A year that the timestamp may have. *)
Known(y) == y \in YearsSent \/ MadeUp(y)

(* The date of a reader comes with a time, and so does its position. *)
Stamped(r) == Known(r.timestamp)
Dated(r) == Stamped(r) \/ (r.utc_year < 0 /\ "LAT_LONG" \notin r.flags)

WholeDate(s) ==
    s.kind \in {"RMC", "ZDA"} =>
        /\ {"date", "time"} \subseteq s.tokens /\ s.year \in -1..99
        /\ s.kind = "RMC" \/ s.year >= 0 => Known(s.year + 2000)

(* Only GSA and GSV sentences are about satellites. *)
SameList(r, q) == q.num_svs = r.num_svs /\ q.sv_status_changed = r.sv_status_changed

(* A flag changes nothing but the flags, and only that of the position      *)
(* matters here.                                                            *)
LEMMA FlagFacts ==
    ASSUME NEW r \in Readers, NEW flag \in Flags
    PROVE  /\ WithFlag(r, flag) \in Readers
           /\ SameList(r, WithFlag(r, flag))
           /\ WithFlag(r, flag).utc_year = r.utc_year
           /\ WithFlag(r, flag).timestamp = r.timestamp
           /\ flag # "LAT_LONG" => ("LAT_LONG" \in WithFlag(r, flag).flags <=> "LAT_LONG" \in r.flags)
BY DEF WithFlag, Readers, SameList

LEMMA TimeFacts ==
    ASSUME NEW r \in Readers, NEW s, NEW q, q = nmea_reader_update_time(r, s)
    PROVE  /\ q \in Readers /\ SameList(r, q)
           /\ q.utc_year = r.utc_year /\ q.flags = r.flags
           /\ q.timestamp = IF "time" \in s.tokens /\ r.utc_year >= 0
                            THEN r.utc_year ELSE r.timestamp
BY DEF nmea_reader_update_time, Readers, SameList

LEMMA PlacedFacts ==
    ASSUME NEW r \in Readers, NEW s, NEW q, q = nmea_reader_update_latlong(r, s)
    PROVE  q \in Readers /\ SameList(r, q) /\ (Stamped(r) => Dated(q))
BY FlagFacts DEF nmea_reader_update_latlong, Dated, Stamped, SameList, Flags

LEMMA OtherFlagFacts ==
    ASSUME NEW r \in Readers, NEW s, NEW q,
           \/ q = nmea_reader_update_altitude(r, s)
           \/ q = nmea_reader_update_accuracy(r, s)
           \/ q = nmea_reader_update_bearing(r, s)
           \/ q = nmea_reader_update_speed(r, s)
    PROVE  q \in Readers /\ SameList(r, q) /\ (Dated(r) => Dated(q))
BY FlagFacts DEF nmea_reader_update_altitude, nmea_reader_update_accuracy,
   nmea_reader_update_bearing, nmea_reader_update_speed, Dated, Stamped, SameList, Flags

(* Every sentence leaves a reader; a date with a time, if it had one; and   *)
(* the satellites alone, unless it is about them.                           *)
LEMMA ParseFacts ==
    ASSUME NEW r \in Readers, NEW s, NEW q, q = nmea_reader_parse(r, s),
           s.kind = "GSV" => s \in GSVSentences,
           s.kind \in {"RMC", "ZDA"} => s.year \in -1..99
    PROVE  /\ q \in Readers
           /\ WholeDate(s) /\ Dated(r) => Dated(q)
           /\ s.kind # "GSV" => q.num_svs = r.num_svs
           /\ s.kind \notin {"GSA", "GSV"} => q.sv_status_changed = r.sv_status_changed
<1>1. CASE s.kind = "GGA"
  <2>1. CASE s.fix /\ r.utc_year >= 0
    <3> DEFINE p == nmea_reader_update_latlong(r, s)
    <3>1. p \in Readers /\ SameList(r, p) /\ (Stamped(r) => Dated(p))
      BY PlacedFacts
    <3>2. q = nmea_reader_update_altitude(p, s)
      BY <1>1, <2>1 DEF nmea_reader_parse, GGA
    <3>3. q \in Readers /\ SameList(p, q) /\ (Dated(p) => Dated(q))
      BY <3>1, <3>2, OtherFlagFacts
    <3>4. Dated(r) => Stamped(r)
      BY <2>1 DEF Dated, Readers
    <3> QED
      BY <1>1, <3>1, <3>3, <3>4 DEF SameList
  <2>2. CASE ~(s.fix /\ r.utc_year >= 0)
    BY <1>1, <2>2 DEF nmea_reader_parse, GGA
  <2> QED
    BY <2>1, <2>2
<1>2. CASE s.kind = "GLL"
  <2>1. CASE s.fix /\ r.utc_year >= 0
    <3>1. q \in Readers /\ SameList(r, q) /\ (Stamped(r) => Dated(q))
      BY <1>2, <2>1, PlacedFacts DEF nmea_reader_parse, GLL
    <3>2. Dated(r) => Stamped(r)
      BY <2>1 DEF Dated, Readers
    <3> QED
      BY <1>2, <3>1, <3>2 DEF SameList
  <2>2. CASE ~(s.fix /\ r.utc_year >= 0)
    BY <1>2, <2>2 DEF nmea_reader_parse, GLL
  <2> QED
    BY <2>1, <2>2
<1>3. CASE s.kind = "GSA"
  <2>1. CASE s.fix
    <3> DEFINE p == nmea_reader_update_accuracy(r, s)
    <3>1. p \in Readers /\ SameList(r, p) /\ (Dated(r) => Dated(p))
      BY OtherFlagFacts
    <3>2. q = [p EXCEPT !.sv_status_changed = p.sv_status_changed \/ s.used > 0]
      BY <1>3, <2>1 DEF nmea_reader_parse, GSA
    <3>3. q \in Readers /\ q.num_svs = p.num_svs /\ (Dated(p) => Dated(q))
      <4> HIDE DEF p
      <4> QED
        BY <3>1, <3>2 DEF Readers, Dated, Stamped
    <3> QED
      BY <1>3, <3>1, <3>3 DEF SameList
  <2>2. CASE ~s.fix
    BY <1>3, <2>2 DEF nmea_reader_parse, GSA
  <2> QED
    BY <2>1, <2>2
<1>4. CASE s.kind = "GSV"
  <2>1. CASE s.satellites > 0
    <3> DEFINE start == IF s.sentence = 1 THEN 0 ELSE r.num_svs
               added == IF start < s.satellites THEN AtMost(4, s.satellites - start) ELSE 0
               num == start + added
               changed == s.sentence = s.sentences \/ (s.sentence # 1 /\ r.sv_status_changed)
    <3>1. q = [r EXCEPT !.num_svs = num, !.sv_status_changed = changed]
      BY <1>4, <2>1 DEF nmea_reader_parse, GSV
    <3>2. num \in Int
      BY <1>4 DEF GSVSentences, AtMost, Readers
    <3>3. changed \in BOOLEAN
      OBVIOUS
    <3> HIDE DEF num, changed
    <3> QED
      BY <1>4, <3>1, <3>2, <3>3 DEF Readers, Dated, Stamped
  <2>2. CASE ~(s.satellites > 0)
    BY <1>4, <2>2 DEF nmea_reader_parse, GSV
  <2> QED
    BY <2>1, <2>2
<1>5. CASE s.kind = "RMC"
  <2>1. CASE s.fix
    <3> DEFINE d == nmea_reader_update_date(r, s)
               p == nmea_reader_update_latlong(d, s)
               b == nmea_reader_update_bearing(p, s)
    <3>1. d \in Readers /\ SameList(r, d) /\ (WholeDate(s) => Stamped(d))
      <4>1. CASE "date" \in s.tokens
        <5> DEFINE y == [r EXCEPT !.utc_year = s.year + 2000]
        <5>1. s.year \in -1..99
          BY <1>5
        <5>2. y \in Readers /\ y.utc_year = s.year + 2000 /\ y.utc_year >= 0 /\ SameList(r, y)
          BY <5>1 DEF Readers, SameList
        <5>3. d = nmea_reader_update_time(y, s)
          BY <4>1 DEF nmea_reader_update_date
        <5>4. /\ d \in Readers /\ SameList(y, d)
              /\ d.timestamp = IF "time" \in s.tokens /\ y.utc_year >= 0
                               THEN y.utc_year ELSE y.timestamp
          <6>1. y \in Readers
            BY <5>2
          <6> HIDE DEF y, d
          <6> QED
            BY <5>3, <6>1, TimeFacts
        <5>5. "time" \in s.tokens => d.timestamp = s.year + 2000
          <6> HIDE DEF y, d
          <6> QED
            BY <5>2, <5>4
        <5>6. WholeDate(s) => Stamped(d)
          <6> HIDE DEF d
          <6> QED
            BY <1>5, <5>5 DEF WholeDate, Stamped
        <5> QED
          BY <5>2, <5>4, <5>6 DEF SameList
      <4>2. CASE "date" \notin s.tokens
        BY <1>5, <4>2 DEF nmea_reader_update_date, SameList, WholeDate
      <4> QED
        BY <4>1, <4>2
    <3>2. p \in Readers /\ SameList(d, p) /\ (Stamped(d) => Dated(p))
      BY <3>1, PlacedFacts
    <3>3. b \in Readers /\ SameList(p, b) /\ (Dated(p) => Dated(b))
      BY <3>2, OtherFlagFacts
    <3>4. q = nmea_reader_update_speed(b, s)
      BY <1>5, <2>1 DEF nmea_reader_parse, RMC
    <3>5. q \in Readers /\ SameList(b, q) /\ (Dated(b) => Dated(q))
      BY <3>3, <3>4, OtherFlagFacts
    <3> QED
      BY <3>1, <3>2, <3>3, <3>5 DEF SameList
  <2>2. CASE ~s.fix
    BY <1>5, <2>2 DEF nmea_reader_parse, RMC
  <2> QED
    BY <2>1, <2>2
<1>6. CASE s.kind = "VTG"
  <2>1. CASE s.fix
    <3> DEFINE b == nmea_reader_update_bearing(r, s)
    <3>1. b \in Readers /\ SameList(r, b) /\ (Dated(r) => Dated(b))
      BY OtherFlagFacts
    <3>2. q = nmea_reader_update_speed(b, s)
      BY <1>6, <2>1 DEF nmea_reader_parse, VTG
    <3>3. q \in Readers /\ SameList(b, q) /\ (Dated(b) => Dated(q))
      BY <3>1, <3>2, OtherFlagFacts
    <3> QED
      BY <3>1, <3>3 DEF SameList
  <2>2. CASE ~s.fix
    BY <1>6, <2>2 DEF nmea_reader_parse, VTG
  <2> QED
    BY <2>1, <2>2
<1>7. CASE s.kind = "ZDA"
  <2>1. CASE s.fix
    <3> DEFINE d == nmea_reader_update_cdate(r, s)
    <3>1. /\ d \in Readers /\ SameList(r, d) /\ d.flags = r.flags /\ d.timestamp = r.timestamp
          /\ d.utc_year >= 0 \/ d.utc_year < 0
          /\ "date" \in s.tokens /\ d.utc_year >= 0 => s.year >= 0 /\ d.utc_year = s.year + 2000
      BY <1>7 DEF nmea_reader_update_cdate, Readers, SameList
    <3>2. q = nmea_reader_update_time(d, s)
      BY <1>7, <2>1 DEF nmea_reader_parse, ZDA
    <3>3. /\ q \in Readers /\ SameList(d, q) /\ q.utc_year = d.utc_year /\ q.flags = d.flags
          /\ q.timestamp = IF "time" \in s.tokens /\ d.utc_year >= 0
                           THEN d.utc_year ELSE d.timestamp
      <4>1. d \in Readers
        BY <3>1
      <4> HIDE DEF d
      <4> QED
        BY <3>2, <4>1 DEF nmea_reader_update_time, Readers, SameList
    <3>4. WholeDate(s) /\ Dated(r) => Dated(q)
      BY <1>7, <3>1, <3>3 DEF WholeDate, Dated, Stamped
    <3> QED
      BY <3>1, <3>3, <3>4 DEF SameList
  <2>2. CASE ~s.fix
    BY <1>7, <2>2 DEF nmea_reader_parse, ZDA
  <2> QED
    BY <2>1, <2>2
<1>8. CASE s.kind \notin {"GGA", "GLL", "GSA", "GSV", "RMC", "VTG", "ZDA"}
  BY <1>8 DEF nmea_reader_parse
<1> QED
  BY <1>1, <1>2, <1>3, <1>4, <1>5, <1>6, <1>7, <1>8

-----------------------------------------------------------------------------
(* The position and its time.  Only parsing, reporting and starting afresh  *)
(* touch the reader.                                                        *)
ReaderInv == reader \in Readers /\ (DatesAreWhole => Dated(reader))

LEMMA FreshReader == nmea_reader_init \in Readers /\ Dated(nmea_reader_init)
BY DEF nmea_reader_init, Readers, Dated

LEMMA ReportedReader ==
    ASSUME NEW r \in Readers
    PROVE  /\ [r EXCEPT !.flags = {}] \in Readers
           /\ [r EXCEPT !.sv_status_changed = FALSE] \in Readers
           /\ Dated(r) => Dated([r EXCEPT !.flags = {}])
           /\ Dated(r) => Dated([r EXCEPT !.sv_status_changed = FALSE])
           /\ SameList(r, [r EXCEPT !.flags = {}])
           /\ [r EXCEPT !.sv_status_changed = FALSE].num_svs = r.num_svs
           /\ ~[r EXCEPT !.sv_status_changed = FALSE].sv_status_changed
BY DEF Readers, Dated, Stamped, SameList

(* The steps that leave the reader alone. *)
LEMMA OtherSteps ==
    ASSUME [Next]_vars, ~Wipe, ~Boot, ~Parse,
           \A t \in Timers : ~ReportFix(t) /\ ~ReportSatellites(t)
    PROVE  UNCHANGED reader
<1>1. CASE Framework
  BY <1>1 DEF Framework, InitWithoutDevice, InitFails, InitStartsThread, InitAgain, StateReset,
              freerunner_gps_start, freerunner_gps_stop, freerunner_gps_cleanup, Command,
              freerunner_gps_set_position_mode, freerunner_gps_set_fix_frequency, SetFreq, state
<1>2. CASE InsideCall \/ LoseSentence \/ UNCHANGED vars
  BY <1>2 DEF InsideCall, RegisterCallbacks, JoinThread, LoseSentence, vars, state
<1>3. CASE GpsThread
  BY <1>3 DEF GpsThread, ReadCommand, Quit, StartSession, StartFails, StopSession,
              IgnoreCommand, LineError, JoinTimer, ReadSentence, ParserLock, state
<1>4. ASSUME NEW t \in Timers, TimerLock(t) \/ TimerStep(t) PROVE UNCHANGED reader
  BY <1>4 DEF TimerLock, TimerStep, EndSingle, Wake
<1> QED
  BY <1>1, <1>2, <1>3, <1>4 DEF Next

LEMMA CursorMoves ==
    ASSUME NEW c \in DOMAIN Cycle
    PROVE  /\ (c % Len(Cycle)) + 1 \in DOMAIN Cycle
           /\ (c % Len(Cycle)) + 1 = IF c = Len(Cycle) THEN 1 ELSE c + 1
BY CycleAssumption

(* Where the receiver is, and what is parsed there. *)
LEMMA ParseStep ==
    ASSUME cursor \in DOMAIN Cycle, reader \in Readers, Parse
    PROVE  \E s \in Cycle[cursor] :
             LET r == nmea_reader_parse(reader, s)
             IN  /\ reader' \in {r, [r EXCEPT !.flags = {}]}
                 /\ r \in Readers
                 /\ WholeDate(s) /\ Dated(reader) => Dated(r)
                 /\ s.kind # "GSV" => r.num_svs = reader.num_svs
                 /\ gap' = (gap /\ ~BeginsList(s))
<1>1. PICK s \in Cycle[cursor] :
        /\ reader' \in {nmea_reader_parse(reader, s),
                        [nmea_reader_parse(reader, s) EXCEPT !.flags = {}]}
        /\ gap' = (gap /\ ~BeginsList(s))
  BY DEF Parse
<1>2. /\ s.kind = "GSV" => s \in GSVSentences
      /\ s.kind \in {"RMC", "ZDA"} => s.year \in -1..99
  BY <1>1, CycleAssumption
<1> DEFINE r == nmea_reader_parse(reader, s)
<1>3. /\ r \in Readers
      /\ WholeDate(s) /\ Dated(reader) => Dated(r)
      /\ s.kind # "GSV" => r.num_svs = reader.num_svs
  BY <1>2, ParseFacts
<1> QED
  BY <1>1, <1>3

CursorInv == cursor \in DOMAIN Cycle

(* The receiver never leaves its cycle. *)
LEMMA CursorAlways == Spec => []CursorInv
<1>1. Init => CursorInv
  BY CycleAssumption DEF Init, CursorInv
<1>2. CursorInv /\ [Next]_vars => CursorInv'
  <2> SUFFICES ASSUME CursorInv, [Next]_vars PROVE CursorInv'
    OBVIOUS
  <2>1. CASE Parse \/ LoseSentence
    BY <2>1, CursorMoves DEF Parse, LoseSentence, CursorInv
  <2>2. CASE Boot
    BY <2>2, CycleAssumption DEF Boot, CursorInv
  <2>3. CASE ~Parse /\ ~LoseSentence /\ ~Boot
    <3>1. UNCHANGED cursor
      <4>1. CASE Framework \/ InsideCall \/ UNCHANGED vars
        BY <4>1 DEF Framework, InitWithoutDevice, InitFails, InitStartsThread, InitAgain,
                    freerunner_gps_start, freerunner_gps_stop, freerunner_gps_cleanup, Command,
                    freerunner_gps_set_position_mode, freerunner_gps_set_fix_frequency, SetFreq,
                    InsideCall, RegisterCallbacks, JoinThread, Wipe, receiver, vars
      <4>2. CASE GpsThread
        BY <2>3, <4>2 DEF GpsThread, ReadCommand, Quit, StartSession, StartFails, StopSession,
                    IgnoreCommand, LineError, JoinTimer, ReadSentence, ParserLock, Exit, receiver
      <4>3. ASSUME NEW t \in Timers, TimerLock(t) \/ TimerStep(t) PROVE UNCHANGED cursor
        BY <4>3 DEF TimerLock, TimerStep, ReportFix, EndSingle, ReportSatellites, Wake, others,
                    receiver
      <4> QED
        BY <2>3, <4>1, <4>2, <4>3 DEF Next
    <3> QED
      BY <3>1 DEF CursorInv
  <2> QED
    BY <2>1, <2>2, <2>3
<1> QED
  BY <1>1, <1>2, PTL DEF Spec

LEMMA ReaderAlways == Spec => []ReaderInv
<1>1. Init => ReaderInv
  BY FreshReader DEF Init, ReaderInv
<1>2. CursorInv /\ ReaderInv /\ [Next]_vars => ReaderInv'
  <2> SUFFICES ASSUME CursorInv, ReaderInv, [Next]_vars PROVE ReaderInv'
    OBVIOUS
  <2>1. CASE Wipe \/ Boot
    BY <2>1, FreshReader DEF Wipe, Boot, ReaderInv
  <2>2. ASSUME NEW t \in Timers, ReportFix(t) \/ ReportSatellites(t) PROVE ReaderInv'
    BY <2>2, ReportedReader DEF ReportFix, ReportSatellites, ReaderInv
  <2>3. CASE Parse
    <3>1. PICK s \in Cycle[cursor] :
            LET r == nmea_reader_parse(reader, s)
            IN  /\ reader' \in {r, [r EXCEPT !.flags = {}]}
                /\ r \in Readers
                /\ WholeDate(s) /\ Dated(reader) => Dated(r)
      BY <2>3, ParseStep DEF CursorInv, ReaderInv
    <3>2. DatesAreWhole => WholeDate(s)
      <4>1. ASSUME s.kind \in {"RMC", "ZDA"}, s.kind = "RMC" \/ s.year >= 0
            PROVE  Known(s.year + 2000)
        <5>1. s.year \in -1..99 /\ cursor \in DOMAIN Cycle
          BY <4>1, CycleAssumption DEF CursorInv
        <5>2. CASE s.year >= 0
          BY <4>1, <5>1, <5>2 DEF Known, YearsSent
        <5>3. CASE s.year = -1
          BY <4>1, <5>1, <5>3 DEF Known, MadeUp
        <5> QED
          BY <5>1, <5>2, <5>3
      <4> QED
        BY <4>1, CycleAssumption DEF DatesAreWhole, WholeDate, CursorInv
    <3>3. DatesAreWhole => Dated(nmea_reader_parse(reader, s))
      BY <3>1, <3>2 DEF ReaderInv
    <3> QED
      BY <3>1, <3>3, ReportedReader DEF ReaderInv
  <2>4. CASE UNCHANGED reader
    BY <2>4 DEF ReaderInv
  <2> QED
    BY <2>1, <2>2, <2>3, <2>4, OtherSteps
<1> QED
  BY <1>1, <1>2, CursorAlways, PTL DEF Spec

(* Whatever the receiver sends and whichever sentences are lost: if its     *)
(* dates have all their tokens, a position waiting to be reported has a     *)
(* timestamp, of a year the receiver sent or of the made-up 1999 of a       *)
(* garbled one.  (It is not said that position and timestamp are of the     *)
(* same sentence: those of GGA and GLL are not.)                            *)
THEOREM PositionsAreTimed == Spec => []PositionHasTime
<1>1. ReaderInv => PositionHasTime
  BY DEF ReaderInv, PositionHasTime, Dated, Stamped, Known
<1> QED
  BY <1>1, ReaderAlways, PTL

-----------------------------------------------------------------------------
(* The satellite list.  While gps_state_thread runs and has not missed a    *)
(* GSV sentence since a list began, the receiver's place in its cycle tells *)
(* how much of a list there is: in the middle of one all the sentences      *)
(* before it have been counted and the list is not marked changed,          *)
(* elsewhere the list is whole.                                             *)
ListInv ==
    WholeLists /\ ~gap =>
        /\ reader.sv_status_changed => WholeList(reader.num_svs)
        /\ InThread /\ ~Mid(cursor) => WholeList(reader.num_svs)
        /\ InThread => \A s \in Cycle[cursor] : s.kind = "GSV" /\ s.sentence > 1 =>
                           reader.num_svs = 4 * (s.sentence - 1) /\ ~reader.sv_status_changed

(* The sentence after one that does not end a list goes on with it; after   *)
(* any other one the receiver is not in the middle of a list.               *)
LEMMA NextPlace ==
    ASSUME WholeLists, NEW c \in DOMAIN Cycle, NEW d, d = (c % Len(Cycle)) + 1,
           NEW s \in Cycle[c]
    PROVE  /\ s.kind = "GSV" /\ s.sentence < s.sentences =>
                  Mid(d) /\ \A g \in Cycle[d] : g.kind = "GSV" /\ g.sentence = s.sentence + 1
           /\ ~(s.kind = "GSV" /\ s.sentence < s.sentences) => ~Mid(d)
<1>1. d \in DOMAIN Cycle /\ d = IF c = Len(Cycle) THEN 1 ELSE c + 1
  BY CursorMoves
<1>2. c \in Int /\ d \in Int
  BY <1>1, CycleAssumption
<1>3. ASSUME s.kind = "GSV", s.sentence < s.sentences
      PROVE  Mid(d) /\ \A g \in Cycle[d] : g.kind = "GSV" /\ g.sentence = s.sentence + 1
  <2> DEFINE n == [s EXCEPT !.sentence = s.sentence + 1]
  <2>1. s \in GSVSentences /\ s.sentence \in 1..s.sentences
    BY <1>3, CycleAssumption DEF WholeLists
  <2>2. c < Len(Cycle) /\ Cycle[c + 1] = {n}
    BY <1>3 DEF WholeLists
  <2>3. d = c + 1
    BY <1>1, <2>2, CycleAssumption
  <2>4. n.kind = "GSV" /\ n.sentence = s.sentence + 1 /\ n.sentence > 1
    BY <2>1 DEF GSVSentences
  <2> HIDE DEF n
  <2> QED
    BY <2>2, <2>3, <2>4 DEF Mid
<1>4. ASSUME Mid(d) PROVE s.kind = "GSV" /\ s.sentence < s.sentences
  <2>1. PICK g \in Cycle[d] : g.kind = "GSV" /\ g.sentence > 1
    BY <1>4 DEF Mid
  <2> DEFINE q == [g EXCEPT !.sentence = g.sentence - 1]
  <2>2. g \in GSVSentences
    BY <1>1, <2>1, CycleAssumption
  <2>3. d > 1 /\ Cycle[d - 1] = {q} /\ g.sentence \in 1..g.sentences
    BY <1>1, <2>1 DEF WholeLists
  <2>4. d - 1 = c
    BY <1>1, <1>2, <2>3
  <2>5. q.kind = "GSV" /\ q.sentence = g.sentence - 1 /\ q.sentences = g.sentences
    BY <2>2 DEF GSVSentences
  <2>6. s = q
    BY <2>3, <2>4
  <2>7. g.sentence - 1 < g.sentences
    BY <2>2, <2>3 DEF GSVSentences
  <2> HIDE DEF q
  <2> QED
    BY <2>5, <2>6, <2>7
<1> QED
  BY <1>3, <1>4

(* A GSV sentence in its place completes the list or goes on with it. *)
LEMMA GSVStep ==
    ASSUME WholeLists, NEW c \in DOMAIN Cycle, NEW s \in Cycle[c], s.kind = "GSV",
           NEW r \in Readers, NEW q, q = nmea_reader_parse(r, s),
           s.sentence = 1 => WholeList(r.num_svs) \/ s.satellites > 0,
           s.sentence > 1 => r.num_svs = 4 * (s.sentence - 1) /\ ~r.sv_status_changed
    PROVE  IF s.sentence < s.sentences
           THEN q.num_svs = 4 * s.sentence /\ ~q.sv_status_changed
           ELSE WholeList(q.num_svs)
<1>1. /\ s \in GSVSentences /\ s.sentence \in 1..s.sentences
      /\ s.satellites <= 4 * s.sentences
      /\ 4 * (s.sentences - 1) < s.satellites \/ (s.satellites = 0 /\ s.sentences = 1)
  BY CycleAssumption DEF WholeLists
<1>2. s.sentence \in Int /\ s.sentences \in Int /\ s.satellites \in Int
  BY <1>1 DEF GSVSentences
<1>3. CASE s.satellites > 0
  <2> DEFINE start == 4 * (s.sentence - 1)
             added == IF start < s.satellites THEN AtMost(4, s.satellites - start) ELSE 0
  <2>1. start = IF s.sentence = 1 THEN 0 ELSE r.num_svs
    BY <1>1, <1>2
  <2>2. q = [r EXCEPT !.num_svs = start + added,
                      !.sv_status_changed = \/ s.sentence = s.sentences
                                            \/ s.sentence # 1 /\ r.sv_status_changed]
    BY <1>3, <2>1 DEF nmea_reader_parse, GSV
  <2>3. /\ q.num_svs = start + added
        /\ q.sv_status_changed <=> s.sentence = s.sentences \/ (s.sentence # 1 /\ r.sv_status_changed)
    <3> HIDE DEF start, added
    <3> QED
      BY <2>2 DEF Readers
  <2>4. CASE s.sentence < s.sentences
    <3>1. start + added = 4 * s.sentence
      BY <1>1, <1>2, <1>3, <2>4 DEF AtMost
    <3>2. ~q.sv_status_changed
      BY <1>1, <1>2, <2>3, <2>4
    <3> QED
      BY <2>3, <2>4, <3>1, <3>2
  <2>5. CASE ~(s.sentence < s.sentences)
    <3>1. start + added = s.satellites
      BY <1>1, <1>2, <1>3, <2>5 DEF AtMost
    <3> QED
      BY <2>3, <2>5, <3>1 DEF WholeList
  <2> QED
    BY <2>4, <2>5
<1>4. CASE ~(s.satellites > 0)
  <2>1. q = r
    BY <1>4 DEF nmea_reader_parse, GSV
  <2>2. s.sentence = 1 /\ s.sentences = 1
    BY <1>1, <1>2, <1>4
  <2> QED
    BY <1>4, <2>1, <2>2
<1> QED
  BY <1>3, <1>4

LEMMA ListParse ==
    ASSUME CursorInv, ReaderInv, ListInv, Parse
    PROVE  ListInv'
<1> SUFFICES ASSUME WholeLists, ~gap' PROVE
        /\ (InThread /\ ~Mid(cursor) => WholeList(reader.num_svs))'
        /\ (InThread => \A s \in Cycle[cursor] : s.kind = "GSV" /\ s.sentence > 1 =>
                reader.num_svs = 4 * (s.sentence - 1) /\ ~reader.sv_status_changed)'
        /\ (reader.sv_status_changed => WholeList(reader.num_svs))'
  BY DEF ListInv, Parse, WholeLists
<1> USE DEF CursorInv
<1>1. InThread /\ cursor' = (cursor % Len(Cycle)) + 1
  BY DEF Parse, InThread
<1>2. PICK s \in Cycle[cursor] :
        LET r == nmea_reader_parse(reader, s)
        IN  /\ reader' \in {r, [r EXCEPT !.flags = {}]}
            /\ r \in Readers
            /\ s.kind # "GSV" => r.num_svs = reader.num_svs
            /\ gap' = (gap /\ ~BeginsList(s))
  BY ParseStep DEF ReaderInv
<1>7. ~gap \/ (s.kind = "GSV" /\ s.sentence = 1 /\ s.satellites > 0)
  BY <1>2 DEF BeginsList
<1> DEFINE r == nmea_reader_parse(reader, s)
<1>3. reader'.num_svs = r.num_svs /\ reader'.sv_status_changed = r.sv_status_changed
  BY <1>2, ReportedReader DEF SameList
<1>4. ~gap /\ ~Mid(cursor) => WholeList(reader.num_svs)
  BY <1>1 DEF ListInv
<1>5. CASE s.kind = "GSV"
  <2>1. Cycle[cursor] = {s} /\ s.sentence \in 1..s.sentences /\ s \in GSVSentences
    BY <1>5, CycleAssumption DEF WholeLists
  <2>2. s.sentence = 1 => ~Mid(cursor)
    BY <2>1 DEF Mid
  <2>3. s.sentence > 1 => reader.num_svs = 4 * (s.sentence - 1) /\ ~reader.sv_status_changed
    BY <1>1, <1>5, <1>7 DEF ListInv
  <2>4. IF s.sentence < s.sentences
        THEN r.num_svs = 4 * s.sentence /\ ~r.sv_status_changed
        ELSE WholeList(r.num_svs)
    BY <1>4, <1>5, <1>7, <2>2, <2>3, GSVStep DEF ReaderInv
  <2>5. CASE s.sentence < s.sentences
    <3>1. Mid(cursor') /\ \A g \in Cycle[cursor'] : g.sentence = s.sentence + 1
      BY <1>1, <1>5, <2>5, NextPlace
    <3>2. s.sentence \in Int
      BY <2>1 DEF GSVSentences
    <3> HIDE DEF r
    <3>3. \A g \in Cycle[cursor'] : reader'.num_svs = 4 * (g.sentence - 1)
      BY <1>3, <2>4, <2>5, <3>1, <3>2
    <3> QED
      BY <1>3, <2>4, <2>5, <3>1, <3>3 DEF Mid
  <2>6. CASE ~(s.sentence < s.sentences)
    <3>1. ~Mid(cursor')
      BY <1>1, <2>6, NextPlace
    <3> QED
      BY <1>3, <2>4, <2>6, <3>1 DEF Mid, WholeList
  <2> QED
    BY <2>5, <2>6
<1>6. CASE s.kind # "GSV"
  <2>1. ~Mid(cursor)
    <3>1. ASSUME NEW g \in Cycle[cursor], g.kind = "GSV" PROVE Cycle[cursor] = {g}
      BY <3>1, Zenon DEF WholeLists
    <3> QED
      BY <1>6, <3>1 DEF Mid
  <2>2. ~Mid(cursor')
    BY <1>1, <1>6, NextPlace
  <2>3. WholeList(reader'.num_svs)
    BY <1>2, <1>3, <1>4, <1>6, <1>7, <2>1
  <2> QED
    BY <2>2, <2>3 DEF Mid, WholeList
<1> QED
  BY <1>5, <1>6

(* Whatever the receiver's lists are, sent whole and in order, and wherever *)
(* in its cycle the thread was started: from the first GSV sentence of a    *)
(* list until one is lost the framework is never shown half a list.         *)
THEOREM ListsAreWhole == Spec => []ListIsWhole
<1>1. Init => ListInv
  BY DEF Init, ListInv, InThread, nmea_reader_init
<1>2. IInv /\ CursorInv /\ ReaderInv /\ ListInv /\ [Next]_vars => ListInv'
  <2> SUFFICES ASSUME IInv, CursorInv, ReaderInv, ListInv, [Next]_vars PROVE ListInv'
    OBVIOUS
  <2>1. CASE Boot
    <3>1. reader'.num_svs = 0 /\ reader'.sv_status_changed = FALSE /\ gap' = Mid(cursor')
      BY <2>1 DEF Boot, nmea_reader_init
    <3> QED
      BY <3>1 DEF ListInv, Mid, WholeList, WholeLists
  <2>2. CASE Wipe
    <3>1. reader'.num_svs = 0 /\ reader'.sv_status_changed = FALSE /\ gps' = gps
      BY <2>2 DEF Wipe, nmea_reader_init
    <3>2. ~InThread'
      BY <2>2, <3>1 DEF Wipe, IInv, Lifetime, InThread
    <3> QED
      BY <3>1, <3>2 DEF ListInv
  <2>3. ASSUME NEW t \in Timers, ReportFix(t) \/ ReportSatellites(t) PROVE ListInv'
    <3>1. /\ reader'.num_svs = reader.num_svs
          /\ reader'.sv_status_changed => reader.sv_status_changed
          /\ UNCHANGED <<gps, cursor, gap>>
      BY <2>3, ReportedReader
         DEF ReportFix, ReportSatellites, others, receiver, ReaderInv, SameList
    <3> QED
      BY <3>1 DEF ListInv, InThread, Mid, WholeList, WholeLists
  <2>4. CASE LoseSentence
    <3> SUFFICES ASSUME WholeLists, ~gap' PROVE ListInv'
      BY DEF ListInv, WholeLists
    <3>1. /\ ~gap /\ \A s \in Cycle[cursor] : s.kind # "GSV"
          /\ UNCHANGED <<reader, gps>> /\ InThread
          /\ cursor' = (cursor % Len(Cycle)) + 1
      BY <2>4 DEF LoseSentence, state, threads, InThread
    <3>2. ~Mid(cursor) /\ WholeList(reader.num_svs)
      BY <3>1 DEF Mid, ListInv
    <3>3. ~Mid(cursor')
      <4>1. PICK s : s \in Cycle[cursor]
        BY CycleAssumption DEF CursorInv
      <4> QED
        BY <3>1, <4>1, NextPlace DEF CursorInv
    <3> QED
      BY <3>1, <3>2, <3>3 DEF ListInv, Mid, WholeList, WholeLists
  <2>5. CASE /\ ~Wipe /\ ~Boot /\ ~Parse /\ ~LoseSentence
             /\ \A t \in Timers : ~ReportFix(t) /\ ~ReportSatellites(t)
    <3>1. UNCHANGED reader
      BY <2>5, OtherSteps
    <3>2. UNCHANGED <<cursor, gap>> /\ (InThread' => InThread)
      <4>1. CASE Framework \/ InsideCall \/ UNCHANGED vars
        BY <2>5, <4>1
           DEF Framework, InitWithoutDevice, InitFails, InitStartsThread, InitAgain,
               freerunner_gps_start, freerunner_gps_stop, freerunner_gps_cleanup, Command,
               freerunner_gps_set_position_mode, freerunner_gps_set_fix_frequency, SetFreq,
               InsideCall, RegisterCallbacks, JoinThread, receiver, threads, vars, InThread
      <4>2. CASE GpsThread
        BY <2>5, <4>2
           DEF GpsThread, ReadCommand, Quit, StartSession, StartFails, StopSession,
               IgnoreCommand, LineError, JoinTimer, ReadSentence, ParserLock, Exit, Receive,
               receiver, threads, InThread
      <4>3. ASSUME NEW t \in Timers, TimerLock(t) \/ TimerStep(t)
            PROVE  UNCHANGED <<cursor, gap>> /\ (InThread' => InThread)
        BY <2>5, <4>3 DEF TimerLock, TimerStep, EndSingle, Wake, others, receiver, InThread
      <4> QED
        BY <2>5, <4>1, <4>2, <4>3 DEF Next
    <3> QED
      BY <3>1, <3>2 DEF ListInv, Mid, WholeList, WholeLists
  <2> QED
    BY <2>1, <2>2, <2>3, <2>4, <2>5, ListParse
<1>3. ListInv => ListIsWhole
  BY DEF ListInv, ListIsWhole
<1> QED
  BY <1>1, <1>2, <1>3, Inductive, CursorAlways, ReaderAlways, PTL DEF Spec
=============================================================================
