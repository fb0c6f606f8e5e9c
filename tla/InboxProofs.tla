---------------------------- MODULE InboxProofs ----------------------------
(***************************************************************************)
(* Theorems about Inbox, for every value of its constants.                 *)
(***************************************************************************)
EXTENDS Inbox, TLAPS

\* What an INSERT leaves: old rows unchanged, perhaps fewer of them, perhaps
\* the new row.
LEMMA InsertKeeps ==
    ASSUME NEW t, NEW id, NEW row
    PROVE  LET u == InsertMessage(t, id, row)
           IN  /\ DOMAIN u \subseteq DOMAIN t \cup {id}
               /\ id \in DOMAIN u => u[id] = row
               /\ \A i \in DOMAIN u : i # id => u[i] = t[i]
<1> DEFINE a == AddRow(t, id, row)
           u == InsertMessage(t, id, row)
<1>1. /\ DOMAIN a = DOMAIN t \cup {id}
      /\ a[id] = row
      /\ \A i \in DOMAIN t : i # id => a[i] = t[i]
  BY DEF AddRow
<1>2. /\ DOMAIN u = Retained(a, row.peer)
      /\ \A i \in DOMAIN u : u[i] = a[i]
  BY DEF InsertMessage, PruneHistory, Restrict
<1>3. Retained(a, row.peer) \subseteq DOMAIN a
  BY DEF Retained
<1> QED
  BY <1>1, <1>2, <1>3

\* Clearing a conversation deletes its rows and changes no other.
LEMMA ClearKeeps ==
    ASSUME NEW t, NEW p
    PROVE  /\ DOMAIN ClearConversation(t, p) = DOMAIN t \ Conversation(t, p)
           /\ \A i \in DOMAIN ClearConversation(t, p) : ClearConversation(t, p)[i] = t[i]
BY DEF ClearConversation, Restrict

-----------------------------------------------------------------------------
(* Type correctness                                                        *)

LEMMA InitTypes == Init => TypeOK
<1> SUFFICES ASSUME Init PROVE TypeOK
  OBVIOUS
<1>1. DOMAIN messages = {}
  BY DEF Init
<1> QED
  BY <1>1 DEF Init, TypeOK

\* The phases of a copy.
LEMMA CopyPhases ==
    ASSUME TypeOK, receiving # Idle
    PROVE  /\ receiving.message \in Messages
           /\ receiving.phase # "verify" => receiving.state \in InboundStates
BY DEF TypeOK, Copy

LEMMA VerdictType == ASSUME NEW mm PROVE Verdict(mm) \in InboundStates
BY DEF Verdict, InboundStates

LEMMA NewRowType ==
    ASSUME NEW copy, copy.message \in Messages, copy.state \in InboundStates
    PROVE  /\ NewRow(copy) \in Row
           /\ NewRow(copy).peer = NewRow(copy).message.source
           /\ NewRow(copy).message = copy.message
BY DEF NewRow, Row, Messages

LEMMA NextTypes == TypeOK /\ [Next]_vars => TypeOK'
<1> SUFFICES ASSUME TypeOK, [Next]_vars PROVE TypeOK'
  OBVIOUS
<1>1. ASSUME NEW p \in Peers, Announce(p) PROVE TypeOK'
  BY <1>1 DEF TypeOK, Announce, table, bounds, history
<1>2. ASSUME NEW p \in Peers, MarkRead(p) PROVE TypeOK'
  <2>1. PICK id \in 0..lastId : lastRead' = [lastRead EXCEPT ![p] = id]
    BY <1>2 DEF MarkRead
  <2>2. lastRead' \in [Peers -> 0..lastId]
    BY <2>1 DEF TypeOK
  <2>3. fresh' \subseteq 1..lastId
    BY <1>2 DEF MarkRead, TypeOK
  <2> QED
    BY <1>2, <2>2, <2>3 DEF TypeOK, MarkRead, bounds
<1>3. ASSUME NEW p \in Peers, Clear(p) PROVE TypeOK'
  <2>1. lastRead' \in [Peers -> 0..lastId]
    BY <1>3 DEF TypeOK, Clear
  <2>2. /\ DOMAIN messages' \subseteq DOMAIN messages
        /\ \A i \in DOMAIN messages' : messages'[i] = messages[i]
    BY <1>3, ClearKeeps DEF Clear
  <2>3. fresh' \subseteq 1..lastId
    BY <1>3 DEF Clear, TypeOK
  <2> QED
    BY <1>3, <2>1, <2>2, <2>3 DEF TypeOK, Clear, bounds
<1>4. CASE Restart
  BY <1>4 DEF TypeOK, Restart, table, bounds, history
<1>5. CASE Stop
  <2>1. lost' \subseteq Messages
    BY <1>5, CopyPhases DEF Stop, TypeOK
  <2>2. up' \in BOOLEAN /\ receiving' \in Copy \cup {Idle}
    BY <1>5 DEF Stop
  <2>3. stops' \in Nat
    BY <1>5 DEF Stop, TypeOK
  <2> QED
    BY <1>5, <2>1, <2>2, <2>3 DEF TypeOK, Stop, table
<1>6. ASSUME NEW m \in Messages, NEW path \in Paths, Take(m, path) PROVE TypeOK'
  <2>1. receiving' \in Copy
    BY <1>6 DEF Take, Copy
  <2>2. proven' \subseteq Messages
    BY <1>6 DEF Take, TypeOK
  <2> QED
    BY <1>6, <2>1, <2>2 DEF TypeOK, Take, table
<1>7. CASE Verify
  <2>1. receiving' \in Copy
    BY <1>7, CopyPhases, VerdictType DEF Verify, Copy, Idle
  <2> QED
    BY <1>7, <2>1 DEF TypeOK, Verify, table, bounds, history
<1>8. CASE Check
  <2>1. receiving' \in Copy \cup {Idle}
    BY <1>8, CopyPhases DEF Check, TypeOK, Copy, Idle
  <2>2. faults' \in Nat
    BY <1>8 DEF Check, TreatedAsDuplicate, TreatedAsNew, NoFault, Fault, TypeOK
  <2> QED
    BY <1>8, <2>1, <2>2 DEF TypeOK, Check, table, history
<1>9. CASE Store
  <2>1. /\ receiving # Idle /\ receiving.message \in Messages
        /\ receiving.state \in InboundStates
    BY <1>9, CopyPhases DEF Store, Idle
  <2>2. faults' \in Nat /\ lost' \subseteq Messages /\ kept' \subseteq Messages
    BY <1>9, <2>1 DEF Store, NoFault, Fault, TypeOK
  <2>3. CASE messages' = InsertMessage(messages, lastId + 1, NewRow(receiving))
             /\ lastId' = lastId + 1 /\ fresh' = fresh \cup {lastId + 1}
    <3>0. lastId \in Nat /\ lastId' = lastId + 1 /\ lastId' \in Nat
      BY <2>3 DEF TypeOK
    <3>1. /\ DOMAIN messages' \subseteq 1..lastId'
          /\ fresh' \subseteq 1..lastId'
      <4>1. DOMAIN messages' \subseteq DOMAIN messages \cup {lastId'}
        BY <2>3, <3>0, InsertKeeps
      <4> QED
        BY <2>3, <3>0, <4>1 DEF TypeOK
    <3>3. lastRead \in [Peers -> 0..lastId']
      <4>1. \A p \in Peers : lastRead[p] \in 0..lastId'
        BY <3>0 DEF TypeOK
      <4> QED
        BY <4>1 DEF TypeOK
    <3>2. \A i \in DOMAIN messages' :
              messages'[i] \in Row /\ messages'[i].peer = messages'[i].message.source
      BY <2>1, <2>3, InsertKeeps, NewRowType DEF TypeOK
    <3> QED
      BY <1>9, <2>2, <3>0, <3>1, <3>2, <3>3 DEF TypeOK, Store
  <2>4. CASE UNCHANGED <<messages, lastId, fresh>>
    BY <1>9, <2>2, <2>4 DEF TypeOK, Store
  <2> QED
    BY <1>9, <2>3, <2>4 DEF Store, TypeOK
<1>10. CASE UNCHANGED vars
  BY <1>10 DEF TypeOK, vars, table, bounds, history
<1> QED
  BY <1>1, <1>2, <1>3, <1>4, <1>5, <1>6, <1>7, <1>8, <1>9, <1>10 DEF Next

\* Every reachable state of the inbox is well typed.
THEOREM TypeCorrect == Spec => []TypeOK
<1> QED
  BY InitTypes, NextTypes, PTL DEF Spec

-----------------------------------------------------------------------------
(* Safety                                                                  *)

\* Every row's message is one that was kept.
RowsAreKept == \A i \in DOMAIN messages : messages[i].message \in kept

InboxInvariant ==
    TypeOK /\ NoDuplicates /\ UnreadIsExact /\ RowsAreKept /\ ProvenIsKept

LEMMA InitInvariant == Init => InboxInvariant
<1> SUFFICES ASSUME Init PROVE InboxInvariant
  OBVIOUS
<1>1. DOMAIN messages = {} /\ proven = {}
  BY DEF Init
<1>2. NoDuplicates /\ RowsAreKept /\ ProvenIsKept
  BY <1>1 DEF NoDuplicates, RowsAreKept, ProvenIsKept
<1>3. UnreadIsExact
  BY <1>1 DEF UnreadIsExact, Unread, Conversation
<1> QED
  BY <1>2, <1>3, InitTypes DEF InboxInvariant

\* The two ways a step changes the rows and the read marks.
Shrunk ==
    /\ DOMAIN messages' \subseteq DOMAIN messages
    /\ \A i \in DOMAIN messages' : messages'[i] = messages[i]
    /\ kept' = kept

Grown ==
    /\ DOMAIN messages' \subseteq DOMAIN messages \cup {lastId + 1}
    /\ \A i \in DOMAIN messages' : i # lastId + 1 => messages'[i] = messages[i]
    /\ lastId + 1 \in DOMAIN messages' =>
          messages'[lastId + 1].message = receiving.message
    /\ ~HashExists(receiving.message)
    /\ kept' = kept \cup {receiving.message}
    /\ fresh' = fresh \cup {lastId + 1}
    /\ lastRead' = lastRead

LEMMA StoreShape ==
    ASSUME TypeOK, Store
    PROVE  Grown \/ UNCHANGED <<messages, kept, fresh, lastRead>>
<1>1. CASE IndexAccepts(receiving.message)
           /\ messages' = InsertMessage(messages, lastId + 1, NewRow(receiving))
           /\ fresh' = fresh \cup {lastId + 1}
           /\ kept' = kept \cup {receiving.message}
  <2>1. lastRead' = lastRead
    BY DEF Store
  <2>2. NewRow(receiving).message = receiving.message
    BY DEF NewRow
  <2> QED
    BY <1>1, <2>1, <2>2, InsertKeeps DEF Grown, IndexAccepts
<1>2. CASE UNCHANGED <<messages, kept, fresh, lastRead>>
  BY <1>2
<1> QED
  BY <1>1, <1>2 DEF Store

LEMMA StepShape ==
    ASSUME TypeOK, [Next]_vars
    PROVE  Shrunk \/ Grown
<1>1. ASSUME NEW p \in Peers, Announce(p) PROVE Shrunk
  BY <1>1 DEF Announce, Shrunk, table, history
<1>2. ASSUME NEW p \in Peers, MarkRead(p) PROVE Shrunk
  BY <1>2 DEF MarkRead, Shrunk
<1>3. ASSUME NEW p \in Peers, Clear(p) PROVE Shrunk
  BY <1>3, ClearKeeps DEF Clear, Shrunk
<1>4. CASE Restart
  BY <1>4 DEF Restart, Shrunk, table, history
<1>5. CASE Stop
  BY <1>5 DEF Stop, Shrunk, table
<1>6. ASSUME NEW m \in Messages, NEW path \in Paths, Take(m, path) PROVE Shrunk
  BY <1>6 DEF Take, Shrunk, table
<1>7. CASE Verify
  BY <1>7 DEF Verify, Shrunk, table, history
<1>8. CASE Check
  BY <1>8 DEF Check, Shrunk, table, history
<1>9. CASE Store
  BY <1>9, StoreShape DEF Shrunk
<1>10. CASE UNCHANGED vars
  BY <1>10 DEF vars, table, history, Shrunk
<1> QED
  BY <1>1, <1>2, <1>3, <1>4, <1>5, <1>6, <1>7, <1>8, <1>9, <1>10 DEF Next

LEMMA NextRows ==
    ASSUME TypeOK, NoDuplicates, RowsAreKept, [Next]_vars
    PROVE  NoDuplicates' /\ RowsAreKept'
<1>1. CASE Shrunk
  BY <1>1 DEF Shrunk, NoDuplicates, RowsAreKept
<1>2. CASE Grown
  <2>1. RowsAreKept'
    BY <1>2 DEF Grown, RowsAreKept
  <2>2. \A i \in DOMAIN messages : messages[i].message # receiving.message
    BY <1>2 DEF Grown, HashExists
  <2>3. NoDuplicates'
    BY <1>2, <2>2 DEF Grown, NoDuplicates
  <2> QED
    BY <2>1, <2>3
<1> QED
  BY <1>1, <1>2, StepShape

LEMMA NextUnread ==
    ASSUME TypeOK, UnreadIsExact, [Next]_vars
    PROVE  UnreadIsExact'
<1> USE DEF UnreadIsExact, Unread, Conversation
<1>1. ASSUME NEW p \in Peers, MarkRead(p) PROVE UnreadIsExact'
  <2>1. PICK id \in 0..lastId : IsMaxId(p, id) /\ lastRead' = [lastRead EXCEPT ![p] = id]
    BY <1>1 DEF MarkRead
  <2>2. /\ messages' = messages
        /\ fresh' = fresh \ Conversation(messages, p)
    BY <1>1 DEF MarkRead
  <2>3. \A i \in Conversation(messages, p) : i <= id /\ i \in Int
    BY <2>1 DEF IsMaxId, TypeOK
  <2>4. lastRead'[p] = id /\ \A q \in Peers : q # p => lastRead'[q] = lastRead[q]
    BY <2>1 DEF TypeOK
  <2>5. ASSUME NEW q \in Peers
        PROVE  Unread(q)' = fresh' \cap Conversation(messages', q)
    <3>1. CASE q = p
      BY <2>2, <2>3, <2>4, <3>1
    <3>2. CASE q # p
      BY <2>2, <2>4, <3>2
    <3> QED
      BY <3>1, <3>2
  <2> QED
    BY <2>5
<1>2. ASSUME NEW p \in Peers, Clear(p) PROVE UnreadIsExact'
  <2>1. /\ DOMAIN messages' = DOMAIN messages \ Conversation(messages, p)
        /\ \A i \in DOMAIN messages' : messages'[i] = messages[i]
    <3>1. messages' = ClearConversation(messages, p)
      BY <1>2 DEF Clear
    <3> QED
      BY <3>1 DEF ClearConversation, Restrict
  <2>2. /\ fresh' = fresh \ Conversation(messages, p)
        /\ \A q \in Peers : q # p => lastRead'[q] = lastRead[q]
    BY <1>2 DEF Clear, TypeOK
  <2>3. ASSUME NEW q \in Peers
        PROVE  Unread(q)' = fresh' \cap Conversation(messages', q)
    <3>1. CASE q = p
      BY <2>1, <3>1
    <3>2. CASE q # p
      BY <2>1, <2>2, <3>2
    <3> QED
      BY <3>1, <3>2
  <2> QED
    BY <2>3
<1>3. CASE Grown
  <2>1. \A q \in Peers : lastRead[q] \in 0..lastId
    BY DEF TypeOK
  <2>2. lastId \in Nat /\ lastId + 1 \notin DOMAIN messages
    BY DEF TypeOK
  <2>3. ASSUME NEW q \in Peers
        PROVE  Unread(q)' = fresh' \cap Conversation(messages', q)
    BY <1>3, <2>1, <2>2 DEF Grown
  <2> QED
    BY <2>3
<1>4. CASE UNCHANGED <<messages, fresh, lastRead>>
  BY <1>4
<1>5. CASE Store
  BY <1>3, <1>4, <1>5, StoreShape
<1>6. CASE \/ \E p \in Peers : Announce(p)
           \/ Restart \/ Stop \/ Verify \/ Check
           \/ \E m \in Messages, path \in Paths : Take(m, path)
  BY <1>4, <1>6 DEF Announce, Restart, Stop, Verify, Check, Take, table, history
<1>7. CASE UNCHANGED vars
  BY <1>4, <1>7 DEF vars, table, history
<1> QED
  BY <1>1, <1>2, <1>5, <1>6, <1>7 DEF Next

\* The copy in the loop, if any, and the messages that are accounted for.
Accounted == kept \cup lost \cup (IF receiving = Idle THEN {} ELSE {receiving.message})

LEMMA NextProven ==
    ASSUME TypeOK, RowsAreKept, ProvenIsKept, [Next]_vars
    PROVE  ProvenIsKept'
<1> SUFFICES proven' \subseteq Accounted'
  BY DEF ProvenIsKept, Accounted
<1>0. proven \subseteq Accounted
  BY DEF ProvenIsKept, Accounted
<1>1. CASE UNCHANGED <<proven, kept, lost, receiving>>
  BY <1>0, <1>1 DEF Accounted
<1>2. CASE Stop
  BY <1>0, <1>2 DEF Stop, Accounted
<1>3. ASSUME NEW m \in Messages, NEW path \in Paths, Take(m, path)
      PROVE  proven' \subseteq Accounted'
  <2>1. receiving' # Idle /\ receiving'.message = m
    BY <1>3 DEF Take, Idle
  <2>2. Accounted \cup {m} \subseteq Accounted'
    BY <1>3, <2>1 DEF Take, Accounted
  <2> QED
    BY <1>0, <1>3, <2>2 DEF Take
<1>4. CASE Verify
  <2>1. receiving # Idle /\ receiving' # Idle /\ receiving'.message = receiving.message
    BY <1>4 DEF Verify, Idle
  <2> QED
    BY <1>0, <1>4, <2>1 DEF Verify, history, Accounted
<1>5. CASE Check
  <2>1. receiving # Idle /\ UNCHANGED <<proven, kept, lost>>
    BY <1>5 DEF Check, Idle, history
  <2>2. CASE TreatedAsDuplicate(receiving.message)
    <3>1. receiving.message \in kept
      BY <2>2 DEF TreatedAsDuplicate, HashExists, RowsAreKept
    <3> QED
      BY <1>0, <2>1, <3>1 DEF Accounted
  <2>3. CASE receiving' = [receiving EXCEPT !.phase = "store"]
    <3>1. receiving'.phase = "store" /\ receiving'.message = receiving.message
      BY <2>1, <2>3 DEF TypeOK, Copy
    <3>2. receiving' # Idle
      BY <3>1 DEF Idle
    <3> QED
      BY <1>0, <2>1, <3>1, <3>2 DEF Accounted
  <2> QED
    BY <1>5, <2>2, <2>3 DEF Check
<1>6. CASE Store
  <2>1. receiving # Idle /\ receiving' = Idle /\ proven' = proven
    BY <1>6 DEF Store, Idle
  <2>2. receiving.message \in kept' \cup lost' /\ kept \subseteq kept' /\ lost \subseteq lost'
    <3>1. ~IndexAccepts(receiving.message) => receiving.message \in kept
      BY DEF IndexAccepts, HashExists, RowsAreKept
    <3> QED
      BY <1>6, <3>1 DEF Store
  <2> QED
    BY <1>0, <2>1, <2>2 DEF Accounted
<1>7. CASE \/ \E p \in Peers : Announce(p) \/ MarkRead(p) \/ Clear(p)
           \/ Restart
  BY <1>1, <1>7 DEF Announce, MarkRead, Clear, Restart, history
<1>8. CASE UNCHANGED vars
  BY <1>1, <1>8 DEF vars, history
<1> QED
  BY <1>2, <1>3, <1>4, <1>5, <1>6, <1>7, <1>8 DEF Next

LEMMA AlwaysInvariant == Spec => []InboxInvariant
<1>1. InboxInvariant /\ [Next]_vars => InboxInvariant'
  BY NextTypes, NextRows, NextUnread, NextProven DEF InboxInvariant
<1> QED
  BY <1>1, InitInvariant, PTL DEF Spec

\* A conversation shows a message once, however many copies arrive and
\* whichever statement fails (network.rs:701, db.rs:201).
THEOREM MessagesStayUnique == Spec => []NoDuplicates
BY AlwaysInvariant, PTL DEF InboxInvariant

\* The unread count is exactly what was stored since the conversation was last
\* marked as read (db.rs:674, 726).
THEOREM UnreadStaysExact == Spec => []UnreadIsExact
BY AlwaysInvariant, PTL DEF InboxInvariant

\* A proven message is stored, being handled, or was cut short by a stop or a
\* failed INSERT (network.rs:1151, 701).
THEOREM ProvenStaysKept == Spec => []ProvenIsKept
BY AlwaysInvariant, PTL DEF InboxInvariant
=============================================================================
