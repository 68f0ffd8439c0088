--------------------------- MODULE MCTextParsers ---------------------------
(***************************************************************************)
(* An instance of TextParsers for TLC: fields that are empty, numbers,     *)
(* blank or hold a comma (in quotes).                                      *)
(***************************************************************************)
EXTENDS TextParsers

Plain(s) == [quoted |-> FALSE, text |-> s]
Quoted(s) == [quoted |-> TRUE, text |-> s]

SomeChar == {"+", ":", ",", "\"", " ", "0", "1", "2", "a"}
SomeFields == {Plain(<<>>), Plain(<<"1">>), Plain(<<" ", "1", "2">>), Plain(<<"a">>),
               Quoted(<<>>), Quoted(<<"0">>), Quoted(<<"a", ",", " ">>)}
=============================================================================
