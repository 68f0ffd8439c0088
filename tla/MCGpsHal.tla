------------------------------ MODULE MCGpsHal ------------------------------
(***************************************************************************)
(* An instance of GpsHal for TLC: a receiver that sends a sentence about   *)
(* the fix and then two GSV sentences for five satellites, in turn.        *)
(***************************************************************************)
EXTENDS GpsHal

Plain(k, fix, tokens) ==
    [kind |-> k, fix |-> fix, tokens |-> tokens, year |-> 11]
Garbled(s) == [s EXCEPT !.year = -1]
Positioned == Plain("RMC", TRUE, {"date", "time", "latlong"})

Sentences ==
    << {Positioned, Garbled(Positioned), Plain("GGA", TRUE, {"latlong"}),
        Plain("GLL", TRUE, {"latlong"}), Plain("ZDA", TRUE, {"date", "time"}),
        [kind |-> "GSA", fix |-> TRUE, tokens |-> {}, used |-> 1],
        Plain("short", FALSE, {})},
       {[kind |-> "GSV", sentence |-> 1, sentences |-> 2, satellites |-> 5]},
       {[kind |-> "GSV", sentence |-> 2, sentences |-> 2, satellites |-> 5]} >>
=============================================================================
