----------------------------- MODULE NmeaParser -----------------------------
(***************************************************************************)
(* The NMEA sentence parser of the GPS HAL                                 *)
(* (src/gps/freerunner/gps_freerunner.c, nmea_reader_parse).  A sentence   *)
(* is a record: its kind, whether its status token reports a fix, and the  *)
(* set of its other tokens that can be used (long enough, and for a date   *)
(* of six digits the day and the month are numbers); year is the last two  *)
(* digits of its date token, -1 if they are not a number.  A sentence of   *)
(* kind "short" has less than nine bytes or an id of less than five.  The  *)
(* reader keeps of the date and of the timestamp the year, of the          *)
(* coordinates only whether they are set, of the satellite list its length.*)
(***************************************************************************)
EXTENDS Integers, FiniteSets

\* NmeaReader: utc_year, the year of fix.timestamp (0: never set), the bits of fix.flags,
\* sv_status.num_svs and sv_status_changed.
nmea_reader_init ==
    [utc_year |-> -1, timestamp |-> 0, flags |-> {},
     num_svs |-> 0, sv_status_changed |-> FALSE]

---------------------------------------------------------------------------
(* The updates of single fields; each leaves the reader alone if its token *)
(* is too short.                                                           *)

WithFlag(r, flag) == [r EXCEPT !.flags = @ \cup {flag}]

\* A time without a date is not used.
nmea_reader_update_time(r, s) ==
    IF "time" \in s.tokens /\ r.utc_year >= 0 THEN [r EXCEPT !.timestamp = r.utc_year] ELSE r

\* ZDA: the four-digit date; the caller updates the time whatever came of it.
nmea_reader_update_cdate(r, s) ==
    IF "date" \in s.tokens
    THEN [r EXCEPT !.utc_year = IF s.year = -1 THEN -1 ELSE s.year + 2000]
    ELSE r

\* RMC: the six-digit date, followed by the time.  The check for a negative
\* number comes after the addition, so a garbled year becomes 1999.
nmea_reader_update_date(r, s) ==
    IF "date" \in s.tokens
    THEN nmea_reader_update_time([r EXCEPT !.utc_year = s.year + 2000], s)
    ELSE r

nmea_reader_update_latlong(r, s) ==
    IF "latlong" \in s.tokens THEN WithFlag(r, "LAT_LONG") ELSE r

nmea_reader_update_altitude(r, s) ==
    IF "altitude" \in s.tokens THEN WithFlag(r, "ALTITUDE") ELSE r

\* The receiver's 99.99 means "unknown", but fix.accuracy, a float in Android's gps.h, is
\* never equal to the double 99.99: the flag is set all the same.
nmea_reader_update_accuracy(r, s) ==
    IF "accuracy" \in s.tokens THEN WithFlag(r, "ACCURACY") ELSE r

nmea_reader_update_bearing(r, s) ==
    IF "bearing" \in s.tokens THEN WithFlag(r, "BEARING") ELSE r

nmea_reader_update_speed(r, s) ==
    IF "speed" \in s.tokens THEN WithFlag(r, "SPEED") ELSE r

---------------------------------------------------------------------------
(* One operator per kind of sentence.                                      *)

\* FAULTY VARIANT: the position is taken although no date is known yet.
GGAUndated(r, s) ==
    IF s.fix THEN nmea_reader_update_altitude(nmea_reader_update_latlong(r, s), s) ELSE r

GGA(r, s) ==
    IF s.fix /\ r.utc_year >= 0
    THEN nmea_reader_update_altitude(nmea_reader_update_latlong(r, s), s)
    ELSE r

GLL(r, s) == IF s.fix /\ r.utc_year >= 0 THEN nmea_reader_update_latlong(r, s) ELSE r

\* The mask of the satellites used is rebuilt (s.used is their number); the list counts as changed if a satellite is in it.
GSA(r, s) ==
    IF s.fix
    THEN [nmea_reader_update_accuracy(r, s) EXCEPT
             !.sv_status_changed = @ \/ s.used > 0]
    ELSE r

\* The tokens of a GSV sentence that are used.
GSVSentences == [kind : {"GSV"}, sentence : Int, sentences : Int, satellites : Int]

AtMost(a, b) == IF a < b THEN a ELSE b

\* FAULTY VARIANT: the list counts as changed from the first sentence on.
GSVEarly(r, s) ==
    LET start == IF s.sentence = 1 THEN 0 ELSE r.num_svs
        added == IF start < s.satellites THEN AtMost(4, s.satellites - start) ELSE 0
    IN  IF s.satellites > 0
        THEN [r EXCEPT !.num_svs = start + added, !.sv_status_changed = TRUE]
        ELSE r

\* Sentence number s.sentence of s.sentences, each with up to four of
\* s.satellites; the first one starts the list anew.
GSV(r, s) ==
    LET start == IF s.sentence = 1 THEN 0 ELSE r.num_svs
        added == IF start < s.satellites THEN AtMost(4, s.satellites - start) ELSE 0
    IN  IF s.satellites > 0
        THEN [r EXCEPT !.num_svs = start + added,
                       !.sv_status_changed =
                           \/ s.sentence = s.sentences
                           \/ s.sentence # 1 /\ @]
        ELSE r

RMC(r, s) ==
    IF s.fix
    THEN LET placed == nmea_reader_update_latlong(nmea_reader_update_date(r, s), s)
         IN  nmea_reader_update_speed(nmea_reader_update_bearing(placed, s), s)
    ELSE r

VTG(r, s) ==
    IF s.fix THEN nmea_reader_update_speed(nmea_reader_update_bearing(r, s), s) ELSE r

\* Here the status says that the year and the time are not empty.
ZDA(r, s) ==
    IF s.fix THEN nmea_reader_update_time(nmea_reader_update_cdate(r, s), s) ELSE r

\* nmea_reader_parse up to the delivery of the first fix.
nmea_reader_parse(r, s) ==
    CASE s.kind = "GGA" -> GGA(r, s)
      [] s.kind = "GLL" -> GLL(r, s)
      [] s.kind = "GSA" -> GSA(r, s)
      [] s.kind = "GSV" -> GSV(r, s)
      [] s.kind = "RMC" -> RMC(r, s)
      [] s.kind = "VTG" -> VTG(r, s)
      [] s.kind = "ZDA" -> ZDA(r, s)
      [] OTHER          -> r
=============================================================================
