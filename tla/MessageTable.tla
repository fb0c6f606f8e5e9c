---------------------------- MODULE MessageTable ----------------------------
(***************************************************************************)
(* The `messages` table of src/src/db.rs and the statements the program    *)
(* runs on it, as operators on a table value.  A table is a function from  *)
(* row ids to rows; ids come from an AUTOINCREMENT key, so an id is never  *)
(* given out twice, not even after its row is deleted.                     *)
(*                                                                         *)
(* `due` stands for the column next_attempt: the seconds between now and   *)
(* next_attempt.  The column value 0 (the Unix epoch), which every new     *)
(* row is stored with, is Epoch, older than every time the program ever    *)
(* computes.  A time further than Horizon in the past is kept as -Horizon. *)
(***************************************************************************)
EXTENDS Integers, FiniteSets, Functions

CONSTANTS
    HistoryLimit,  \* MESSAGE_HISTORY_PER_CONVERSATION
    Horizon        \* how far into the past times are told apart

ASSUME HistoryLimitAssumption == HistoryLimit \in Nat
ASSUME HorizonAssumption == Horizon \in Nat

Epoch == -Horizon - 1

PendingStates == {"queued", "retrying", "sending"}
OutboundFinalStates == {"delivered", "stored_on_node", "failed"}
InboundStates == {"delivered", "invalid_signature", "source_unknown"}
MessageStates == PendingStates \cup OutboundFinalStates \cup InboundStates

\* outbound = 1 AND state IN ('queued', 'retrying', 'sending')
IsPending(row) == row.outbound /\ row.state \in PendingStates

PendingIds(t) == {i \in DOMAIN t : IsPending(t[i])}

Conversation(t, peer) == {i \in DOMAIN t : t[i].peer = peer}

\* ORDER BY timestamp DESC, id DESC puts row j before row i of its conversation.
ComesBefore(rowj, j, rowi, i) ==
    /\ rowj.peer = rowi.peer
    /\ \/ rowj.timestamp > rowi.timestamp
       \/ rowj.timestamp = rowi.timestamp /\ j > i

NewerThan(t, i) == {j \in DOMAIN t : ComesBefore(t[j], j, t[i], i)}

\* Mutant: the prune forgets its AND NOT (... IN ('queued', ...)) clause.
RetainedByAge(t, peer) ==
    {i \in DOMAIN t : t[i].peer # peer \/ Cardinality(NewerThan(t, i)) < HistoryLimit}

\* The rows prune_message_history keeps when it prunes peer's conversation.
Retained(t, peer) ==
    {i \in DOMAIN t :
        \/ t[i].peer # peer
        \/ Cardinality(NewerThan(t, i)) < HistoryLimit
        \/ IsPending(t[i])}

PruneHistory(t, peer) == Restrict(t, Retained(t, peer))

AddRow(t, id, row) == [i \in DOMAIN t \cup {id} |-> IF i = id THEN row ELSE t[i]]

\* store_message and queue_message: INSERT and prune in one transaction.
InsertMessage(t, id, row) == PruneHistory(AddRow(t, id, row), row.peer)

\* The columns that describe a row's delivery.
SetDelivery(row, state, method, attempts, due) ==
    [row EXCEPT !.state = state, !.method = method, !.attempts = attempts, !.due = due]

\* update_message_delivery: no row has the id once it was deleted.
UpdateDelivery(t, id, state, method, attempts, due) ==
    [i \in DOMAIN t |->
        IF i = id THEN SetDelivery(t[i], state, method, attempts, due) ELSE t[i]]

RetryNow(row) == SetDelivery(row, "retrying", row.method, row.attempts, 0)

\* Mutants: the recovery is forgotten, or its WHERE clause is too wide.
RecoverNothing(t) == t

RecoverAnyPending(t) ==
    [i \in DOMAIN t |-> IF IsPending(t[i]) THEN RetryNow(t[i]) ELSE t[i]]

RecoverAnyOutbound(t) ==
    [i \in DOMAIN t |-> IF t[i].outbound THEN RetryNow(t[i]) ELSE t[i]]

\* recover_interrupted_outbound
RecoverInterrupted(t) ==
    [i \in DOMAIN t |->
        IF t[i].outbound /\ t[i].state = "sending" THEN RetryNow(t[i]) ELSE t[i]]

\* Mutant: messages left in state sending are not taken up again.
DueIdsButSending(t) ==
    {i \in PendingIds(t) : t[i].due <= 0 /\ t[i].state # "sending"}

\* pending_messages(now, 1): next_attempt <= now ORDER BY next_attempt, id
\* LIMIT 1.  Which of two rows that are both -Horizon old was due first is
\* not recorded, so either may be the one.
DueIds(t) == {i \in PendingIds(t) : t[i].due <= 0}
NextDue(t) ==
    {i \in DueIds(t) : \A j \in DueIds(t) :
        \/ t[i].due < t[j].due
        \/ t[i].due = t[j].due /\ (i <= j \/ t[i].due = -Horizon)}

\* conversation_has_pending
HasPending(t, peer) == \E i \in PendingIds(t) : t[i].peer = peer

\* clear_conversation
ClearConversation(t, peer) == Restrict(t, DOMAIN t \ Conversation(t, peer))

\* One second of wall-clock time, seen by the rows.
Later(due) == IF due = Epoch THEN Epoch
              ELSE IF due <= -Horizon THEN -Horizon ELSE due - 1
Age(t) == [i \in DOMAIN t |-> [t[i] EXCEPT !.due = Later(@)]]
=============================================================================
