--------------------------- MODULE MCATLineReader ---------------------------
(* Instances of ATLineReader for TLC. *)
EXTENDS ATLineReader

(* Every stream of at most five bytes without a prompt, two longer ones,    *)
(* and a prompt before, after and between other lines.                      *)
SomeStreams == UNION {[1..n -> {"a", "\n"}] : n \in 0..5} \cup
               {<<"a", "b", "\n", "b", "a", "\n">>, <<"\n", "\n", "b", "a", "b", "b">>,
                <<">", " ">>, <<">", " ", "b", "\n">>, <<"a", "\n", ">", " ", "b", "\n">>}
=============================================================================
