---------------------------- MODULE MCModemTimer ----------------------------
(***************************************************************************)
(* An instance of ModemTimer for TLC: an incomplete line, one that begins  *)
(* like it, and one that is a proper prefix of that.                       *)
(***************************************************************************)
EXTENDS ModemTimer

Incomplete == {<<"1">>}
PollLines == {<<"1", "2">>, <<"1", "2", "3">>} \cup Incomplete
=============================================================================
