-------------------------- MODULE ATChannelService --------------------------
(***************************************************************************)
(* The AT channel implements ATService.  The response under construction   *)
(* is a list with the newest line in front (addIntermediate) that is       *)
(* turned round when the call returns (reverseIntermediates).              *)
(***************************************************************************)
EXTENDS ATChannel

ASSUME NullPendingAssumption ==
    NULL \notin [owner : Threads, lines : Seq(Line), final : Line \cup {NULL}]

pendingBar ==
    IF raced \/ sp_response = NULL THEN NULL
    ELSE [owner |-> sp_response.owner, lines |-> Reversed(sp_response.inter),
          final |-> sp_response.final]

outcomeOf(r) ==
    [err |-> r.err,
     lines |-> IF r.resp = NULL THEN <<>> ELSE r.resp.inter,
     final |-> IF r.resp = NULL THEN NULL ELSE r.resp.final]

outcomeBar ==
    [t \in Threads |-> IF raced THEN [err |-> "NONE", lines |-> <<>>, final |-> NULL]
                       ELSE outcomeOf(result[t])]

Service == INSTANCE ATService
           WITH pending <- pendingBar, outcome <- outcomeBar, broken <- raced

(* The channel of atchannel.c keeps the promise of ATService: whatever      *)
(* lines, spurious wake-ups, time-outs and losses of the line come in       *)
(* between, a command is taken only when none is pending, and the response  *)
(* goes to the thread that asked, whole and in order.                       *)
ServiceKept == Service!Spec
=============================================================================
