----------------------------- MODULE AtLeastOnce -----------------------------
(***************************************************************************)
(* What the outbound queue promises, without tables, channels or tasks: an *)
(* accepted message is tried one at a time and at least once; it is given  *)
(* up only when MaxAttempts tries have been seen to fail or when it can    *)
(* never fit the transport asked for; a try whose outcome nobody saw is    *)
(* not counted, which is why a message may be transmitted more than once;  *)
(* and what was delivered or given up stays so until it is erased.         *)
(***************************************************************************)
EXTENDS Integers, FiniteSets

CONSTANTS
    Messages,     \* the messages there may be
    MaxAttempts   \* failures seen before a message is given up

VARIABLES
    phase,      \* where each message is
    oversized,  \* the messages a transport may refuse for their size
    tries,      \* tries begun, by message
    lost        \* tries whose outcome was lost, by message

vars == <<phase, oversized, tries, lost>>

Settled == {"delivered", "failed"}
Phases == {"absent", "waiting", "trying", "erased"} \cup Settled

In(p) == {m \in Messages : phase[m] = p}

\* The types of the phases and of the counts of tries.
TypeOK ==
    /\ phase \in [Messages -> Phases]
    /\ oversized \subseteq Messages
    /\ tries \in [Messages -> Nat]
    /\ lost \in [Messages -> Nat]

Init ==
    /\ phase = [m \in Messages |-> "absent"]
    /\ oversized = {}
    /\ tries = [m \in Messages |-> 0]
    /\ lost = [m \in Messages |-> 0]

\* A message is accepted; settled ones may be dropped to make room.
Accept(m) ==
    /\ phase[m] = "absent"
    /\ \E dropped \in SUBSET (In("delivered") \cup In("failed")) :
        /\ phase' = [n \in Messages |-> IF n = m THEN "waiting"
                                        ELSE IF n \in dropped THEN "erased" ELSE phase[n]]
        /\ oversized' \in {oversized \ dropped, (oversized \ dropped) \cup {m}}
    /\ UNCHANGED <<tries, lost>>

Try(m) ==
    /\ phase[m] = "waiting"
    /\ In("trying") = {}
    /\ tries[m] - lost[m] < MaxAttempts
    /\ phase' = [phase EXCEPT ![m] = "trying"]
    /\ tries' = [tries EXCEPT ![m] = @ + 1]
    /\ UNCHANGED <<oversized, lost>>

\* The outcome of a try is seen.
Settle(m, p) ==
    /\ phase[m] = "trying"
    /\ phase' = [phase EXCEPT ![m] = p]
    /\ UNCHANGED <<oversized, tries, lost>>

Deliver(m) == Settle(m, "delivered")

Retry(m) ==
    /\ tries[m] - lost[m] < MaxAttempts
    /\ Settle(m, "waiting")

GiveUp(m) ==
    /\ tries[m] - lost[m] = MaxAttempts \/ m \in oversized
    /\ Settle(m, "failed")

\* The outcome is not seen: the process stopped or could not record it.
Lose(m) ==
    /\ phase[m] = "trying"
    /\ phase' = [phase EXCEPT ![m] = "waiting"]
    /\ lost' = [lost EXCEPT ![m] = @ + 1]
    /\ UNCHANGED <<oversized, tries>>

\* The user deletes messages.
Erase(erased) ==
    /\ erased \cap In("absent") = {}
    /\ phase' = [m \in Messages |-> IF m \in erased THEN "erased" ELSE phase[m]]
    /\ oversized' = oversized \ erased
    /\ UNCHANGED <<tries, lost>>

Next ==
    \/ \E m \in Messages :
        \/ Accept(m)
        \/ Try(m)
        \/ Deliver(m)
        \/ Retry(m)
        \/ GiveUp(m)
        \/ Lose(m)
    \/ \E erased \in SUBSET Messages : Erase(erased)

Spec == Init /\ [][Next]_vars
=============================================================================
