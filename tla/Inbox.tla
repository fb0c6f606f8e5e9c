-------------------------------- MODULE Inbox --------------------------------
(***************************************************************************)
(* Inbound LXMF messages: the network loop of src/src/network.rs takes     *)
(* copies of messages from four paths, verifies, deduplicates and stores   *)
(* them, while HTTP handlers mark conversations as read and clear them.    *)
(*                                                                         *)
(* A message stands for its hash: two copies are the same message.  Only   *)
(* inbound rows are kept here; OutboundQueue has the others.               *)
(***************************************************************************)
EXTENDS MessageTable

CONSTANTS
    Peers,       \* source hashes
    Timestamps,  \* the senders' clocks
    MaxCopies,   \* bound: copies taken in a behaviour
    MaxFaults,   \* bound: database statements that fail
    MaxStops     \* bound: stops of the process

ASSUME InboxAssumption ==
    /\ Timestamps \subseteq Int
    /\ MaxCopies \in Nat /\ MaxFaults \in Nat /\ MaxStops \in Nat

\* `genuine`: the signature is the one the source's key makes.
Messages == [source: Peers, timestamp: Timestamps, genuine: BOOLEAN]

\* Link packets and completed resources are handled alike.
Paths == {"link", "opportunistic", "propagated"}

VARIABLES
    messages,   \* the inbound rows of the table, persistent
    lastId,     \* the AUTOINCREMENT counter, persistent
    lastRead,   \* conversation_state.last_read_id, 0 when absent, persistent
    known,      \* sources whose announce Reticulum can recall
    up,         \* the process runs, with its network loop
    receiving,  \* the copy the loop is handling, or Idle
    copies, faults, stops,  \* what the bounds count
    fresh,      \* history: rows stored since their conversation was marked read
    proven,     \* history: messages whose delivery was proven to the sender
    kept,       \* history: messages some row was stored for
    lost        \* history: messages whose handling a stop or a fault cut short

table == <<messages, lastId, lastRead>>
bounds == <<copies, faults, stops>>
history == <<fresh, proven, kept, lost>>
vars == <<table, known, up, receiving, bounds, history>>

Idle == [phase |-> "idle"]
Row == [peer: Peers, message: Messages, outbound: {FALSE}, timestamp: Timestamps,
        state: InboundStates]
Copy == [phase: {"verify"}, message: Messages]
        \cup [phase: {"check", "store"}, message: Messages, state: InboundStates]

Fault == faults < MaxFaults /\ faults' = faults + 1
NoFault == faults' = faults

Init ==
    /\ messages = <<>>
    /\ lastId = 0
    /\ lastRead = [p \in Peers |-> 0]
    /\ known \in SUBSET Peers
    /\ up = TRUE
    /\ receiving = Idle
    /\ copies = 0 /\ faults = 0 /\ stops = 0
    /\ fresh = {} /\ proven = {} /\ kept = {} /\ lost = {}
-----------------------------------------------------------------------------
(* The environment                                                         *)

\* An announce makes the source's public key known to Reticulum.
Announce(p) ==
    /\ p \notin known
    /\ known' = known \cup {p}
    /\ UNCHANGED <<table, up, receiving, bounds, history>>

Restart ==
    /\ ~up
    /\ up' = TRUE
    /\ UNCHANGED <<table, known, receiving, bounds, history>>

\* The process stops; a copy being handled is lost.
Stop ==
    /\ up
    /\ stops < MaxStops
    /\ stops' = stops + 1
    /\ up' = FALSE
    /\ receiving' = Idle
    /\ lost' = IF receiving = Idle THEN lost ELSE lost \cup {receiving.message}
    /\ UNCHANGED <<table, known, copies, faults, fresh, proven, kept>>
-----------------------------------------------------------------------------
(* The network loop handles one copy at a time                             *)

\* A packet is proven to its sender before the message is looked at.
Proves(path) == path = "opportunistic"

Take(m, path) ==
    /\ up
    /\ receiving = Idle
    /\ copies < MaxCopies
    /\ copies' = copies + 1
    /\ receiving' = [phase |-> "verify", message |-> m]
    /\ proven' = IF Proves(path) THEN proven \cup {m} ELSE proven
    /\ UNCHANGED <<table, known, up, faults, stops, fresh, kept, lost>>

\* Mutant: an unverified message is shown in a state of outbound ones.
VerdictOrFailed(m) ==
    IF m.source \notin known THEN "failed"
    ELSE IF m.genuine THEN "delivered" ELSE "invalid_signature"

\* verify_message
Verdict(m) ==
    IF m.source \notin known THEN "source_unknown"
    ELSE IF m.genuine THEN "delivered" ELSE "invalid_signature"

Verify ==
    /\ receiving.phase = "verify"
    /\ receiving' = [phase |-> "check", message |-> receiving.message,
                     state |-> Verdict(receiving.message)]
    /\ UNCHANGED <<table, known, up, bounds, history>>

\* message_hash_exists
HashExists(m) == \E i \in DOMAIN messages : messages[i].message = m

\* Mutant: a hash that cannot be looked up is taken for a duplicate.
TreatedAsDuplicateIfUnsure(m) == (NoFault /\ HashExists(m)) \/ Fault

\* unwrap_or(false): a hash that cannot be looked up is taken for a new one.
TreatedAsDuplicate(m) == NoFault /\ HashExists(m)
TreatedAsNew(m) == (NoFault /\ ~HashExists(m)) \/ Fault

Check ==
    /\ receiving.phase = "check"
    /\ \/ TreatedAsDuplicate(receiving.message) /\ receiving' = Idle
       \/ /\ TreatedAsNew(receiving.message)
          /\ receiving' = [receiving EXCEPT !.phase = "store"]
    /\ UNCHANGED <<table, known, up, copies, stops, history>>

NewRow(copy) ==
    [peer |-> copy.message.source, message |-> copy.message, outbound |-> FALSE,
     timestamp |-> copy.message.timestamp, state |-> copy.state]

\* Mutant: the index of message hashes is not unique.
IndexAcceptsAll(m) == TRUE

\* The index messages_message_hash accepts the message's hash.
IndexAccepts(m) == ~HashExists(m)

\* store_message: INSERT and prune in one transaction, or an error.
Store ==
    /\ receiving.phase = "store"
    /\ receiving' = Idle
    /\ \/ /\ NoFault
          /\ IndexAccepts(receiving.message)
          /\ messages' = InsertMessage(messages, lastId + 1, NewRow(receiving))
          /\ lastId' = lastId + 1
          /\ fresh' = fresh \cup {lastId + 1}
          /\ kept' = kept \cup {receiving.message}
          /\ UNCHANGED lost
       \/ /\ NoFault
          /\ ~IndexAccepts(receiving.message)
          /\ UNCHANGED <<messages, lastId, fresh, kept, lost>>
       \/ /\ Fault
          /\ lost' = lost \cup {receiving.message}
          /\ UNCHANGED <<messages, lastId, fresh, kept>>
    /\ UNCHANGED <<lastRead, known, up, copies, stops, proven>>
-----------------------------------------------------------------------------
(* HTTP handlers                                                           *)

\* Mutant: the number of rows instead of the largest id.
IsRowCount(p, id) == id = Cardinality(Conversation(messages, p))

\* id is COALESCE((SELECT MAX(id) FROM messages WHERE destination_hash = p), 0)
IsMaxId(p, id) ==
    LET ids == Conversation(messages, p)
    IN  id \in (IF ids = {} THEN {0} ELSE ids) /\ \A i \in ids : i <= id

\* POST /api/v1/conversations/{p}/read
MarkRead(p) ==
    /\ up
    /\ \E id \in 0..lastId :
          IsMaxId(p, id) /\ lastRead' = [lastRead EXCEPT ![p] = id]
    /\ fresh' = fresh \ Conversation(messages, p)
    /\ UNCHANGED <<messages, lastId, known, up, receiving, bounds, proven, kept, lost>>

\* DELETE /api/v1/conversations/{p}, once no outbound message is pending.
Clear(p) ==
    /\ up
    /\ messages' = ClearConversation(messages, p)
    /\ lastRead' = [lastRead EXCEPT ![p] = 0]
    /\ fresh' = fresh \ Conversation(messages, p)
    /\ UNCHANGED <<lastId, known, up, receiving, bounds, proven, kept, lost>>
-----------------------------------------------------------------------------
Next ==
    \/ \E p \in Peers : Announce(p) \/ MarkRead(p) \/ Clear(p)
    \/ Restart
    \/ Stop
    \/ \E m \in Messages, path \in Paths : Take(m, path)
    \/ Verify
    \/ Check
    \/ Store

Spec == Init /\ [][Next]_vars
-----------------------------------------------------------------------------
(* Properties                                                              *)

\* The types of the inbound rows, the read marks and the copy being handled.
TypeOK ==
    /\ lastId \in Nat
    /\ DOMAIN messages \subseteq 1..lastId
    /\ \A i \in DOMAIN messages :
          messages[i] \in Row /\ messages[i].peer = messages[i].message.source
    /\ lastRead \in [Peers -> 0..lastId]
    /\ known \subseteq Peers
    /\ up \in BOOLEAN
    /\ receiving \in Copy \cup {Idle}
    /\ copies \in Nat /\ faults \in Nat /\ stops \in Nat
    /\ fresh \subseteq 1..lastId
    /\ proven \subseteq Messages /\ kept \subseteq Messages /\ lost \subseteq Messages

\* However many copies arrive over whatever paths, and whichever check or
\* statement fails, a conversation shows a message once (network.rs:701,
\* db.rs:201).
NoDuplicates ==
    \A i, j \in DOMAIN messages : messages[i].message = messages[j].message => i = j

\* The rows conversations() counts as unread.
Unread(p) == {i \in Conversation(messages, p) : i > lastRead[p]}

\* The unread count is exactly the rows stored since the conversation was last
\* marked as read, over pruned and cleared rows and restarts (db.rs:674, 726).
UnreadIsExact ==
    \A p \in Peers : Unread(p) = fresh \cap Conversation(messages, p)

\* A message whose delivery was proven to its sender has been stored or is
\* being handled, unless a stop or a failed INSERT came in between; a failed
\* duplicate check loses nothing (network.rs:1151, 701).
ProvenIsKept ==
    proven \subseteq kept \cup lost
                \cup (IF receiving = Idle THEN {} ELSE {receiving.message})
=============================================================================
