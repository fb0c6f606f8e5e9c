------------------------- MODULE OutboundRefinement -------------------------
(***************************************************************************)
(* OutboundQueue implements AtLeastOnce: how the rows, the attempt in the  *)
(* air and the history variables stand for the abstract phases.            *)
(***************************************************************************)
EXTENDS OutboundQueue

PhaseIn(t, last, trying, i) ==
    CASE i > last -> "absent"
      [] i <= last /\ i \notin DOMAIN t -> "erased"
      [] i \in DOMAIN t /\ IsPending(t[i]) -> IF i \in trying THEN "trying" ELSE "waiting"
      [] i \in DOMAIN t /\ ~IsPending(t[i]) ->
            IF t[i].state = "failed" THEN "failed" ELSE "delivered"

Phase == [i \in Ids |-> PhaseIn(messages, lastId, InFlight, i)]

Oversized == {i \in DOMAIN messages : messages[i].big}

Abstract == INSTANCE AtLeastOnce
    WITH Messages <- Ids, phase <- Phase, oversized <- Oversized,
         tries <- sends, lost <- unrecorded

\* Every behaviour of the queue, with its stops, failed writes and user
\* deletions, is one the at-least-once contract allows (network.rs:326-355,
\* 1050-1088 and db.rs:996).
ImplementsAtLeastOnce == Abstract!Spec
=============================================================================
