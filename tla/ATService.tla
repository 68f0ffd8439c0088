----------------------------- MODULE ATService -----------------------------
(***************************************************************************)
(* What the AT channel (src/fwril-100/atchannel.c, atchannel.h) promises   *)
(* its callers: it is a server that works on one command at a time, and a  *)
(* caller gets the lines of the response in the order in which they came.  *)
(* The promise ends (broken) when a caller has thrown away the command of  *)
(* another.                                                                *)
(***************************************************************************)
EXTENDS Naturals, Sequences

CONSTANTS Threads, NULL, Errors

VARIABLES pending,   \* the command being worked on and its response so far, or NULL
          outcome,   \* what the last call of each thread returned
          broken

svars == <<pending, outcome, broken>>

Returned(e, ls, f) == [err |-> e, lines |-> ls, final |-> f]
NoOutcome == [t \in Threads |-> Returned("NONE", <<>>, NULL)]

Init == pending = NULL /\ outcome = NoOutcome /\ broken = FALSE

\* A call whose command is taken: nobody else's is being worked on.
Take(t) ==
    /\ pending = NULL
    /\ pending' = [owner |-> t, lines |-> <<>>, final |-> NULL]
    /\ UNCHANGED <<outcome, broken>>

\* A call that returns an error at once.
Refuse(t) ==
    /\ pending = NULL
    /\ \E e \in Errors \ {"OK"} : outcome' = [outcome EXCEPT ![t] = Returned(e, <<>>, NULL)]
    /\ UNCHANGED <<pending, broken>>

\* One more line of the response.
Hear ==
    /\ pending # NULL /\ pending' # NULL
    /\ pending'.owner = pending.owner /\ pending'.final = pending.final
    /\ Len(pending'.lines) = Len(pending.lines) + 1
    /\ \A i \in 1..Len(pending.lines) : pending'.lines[i] = pending.lines[i]
    /\ UNCHANGED <<outcome, broken>>

\* The final line.
Conclude ==
    /\ pending # NULL /\ pending' # NULL
    /\ pending'.owner = pending.owner /\ pending'.lines = pending.lines
    /\ pending'.final # NULL
    /\ UNCHANGED <<outcome, broken>>

\* The call returns to the thread that made it, with all that came or without the
\* response, and without an error only after the final line.
Return(t) ==
    /\ pending # NULL /\ pending.owner = t
    /\ \E e \in Errors :
         /\ e = "OK" => pending.final # NULL
         /\ \/ outcome' = [outcome EXCEPT ![t] = Returned(e, pending.lines, pending.final)]
            \/ outcome' = [outcome EXCEPT ![t] = Returned(e, <<>>, NULL)]
    /\ pending' = NULL
    /\ UNCHANGED broken

Break == pending' = NULL /\ outcome' = NoOutcome /\ broken' = TRUE

Next == Break \/ Hear \/ Conclude \/ \E t \in Threads : Take(t) \/ Refuse(t) \/ Return(t)

Spec == Init /\ [][Next]_svars
=============================================================================
