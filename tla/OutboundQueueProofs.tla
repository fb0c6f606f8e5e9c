------------------------ MODULE OutboundQueueProofs ------------------------
(***************************************************************************)
(* OutboundQueue for every value of its constants.  Its invariants: its    *)
(* types, that one attempt is in the air, that attempts are counted,       *)
(* copies current and final states honest.  And what a step may do: final  *)
(* messages stay as they are, retries wait out their delay, the prune      *)
(* spares the queue, and every step is one that AtLeastOnce allows.        *)
(*                                                                         *)
(* Every step is one of five shapes (StepShapes); what is said of the      *)
(* messages is then proved once per shape.                                 *)
(***************************************************************************)
EXTENDS OutboundRefinement, FiniteSetTheorems, WellFoundedInduction, TLAPS

-----------------------------------------------------------------------------
(* Lemmas about the statements on the table                                *)

\* A retained row is one of the table's, and no pending row is dropped.
LEMMA RetainedFacts ==
    ASSUME NEW t, NEW peer
    PROVE  /\ Retained(t, peer) \subseteq DOMAIN t
           /\ PendingIds(t) \subseteq Retained(t, peer)
BY DEF Retained, PendingIds

\* Inserting a pending row adds it, drops no pending row and changes none.
LEMMA InsertFacts ==
    ASSUME NEW t, NEW id, NEW row, IsPending(row)
    PROVE  LET u == InsertMessage(t, id, row)
           IN  /\ DOMAIN u \subseteq DOMAIN t \cup {id}
               /\ id \in DOMAIN u
               /\ u[id] = row
               /\ \A i \in DOMAIN u : i # id => i \in DOMAIN t /\ u[i] = t[i]
               /\ \A i \in PendingIds(t) : i \in DOMAIN u
<1> DEFINE a == AddRow(t, id, row)
           u == InsertMessage(t, id, row)
<1>1. /\ DOMAIN a = DOMAIN t \cup {id}
      /\ a[id] = row
      /\ \A i \in DOMAIN t : i # id => a[i] = t[i]
  BY DEF AddRow
<1>2. /\ DOMAIN u = Retained(a, row.peer)
      /\ \A i \in DOMAIN u : u[i] = a[i]
  BY DEF InsertMessage, PruneHistory, Restrict
<1>3. Retained(a, row.peer) \subseteq DOMAIN a /\ PendingIds(a) \subseteq Retained(a, row.peer)
  BY RetainedFacts
<1>4. id \in PendingIds(a)
  BY <1>1 DEF PendingIds
<1>5. \A i \in PendingIds(t) : i \in PendingIds(a)
  BY <1>1, <1>4 DEF PendingIds
<1> QED
  BY <1>1, <1>2, <1>3, <1>4, <1>5

\* update_message_delivery changes one row.
LEMMA UpdateFacts ==
    ASSUME NEW t, NEW id, NEW state, NEW method, NEW attempts, NEW due
    PROVE  /\ DOMAIN UpdateDelivery(t, id, state, method, attempts, due) = DOMAIN t
           /\ \A i \in DOMAIN t :
                 UpdateDelivery(t, id, state, method, attempts, due)[i] =
                    IF i = id THEN SetDelivery(t[i], state, method, attempts, due) ELSE t[i]
BY DEF UpdateDelivery

\* ... and only the columns it is given.
LEMMA SetDeliveryFacts ==
    ASSUME NEW row \in Row, NEW state \in PendingStates \cup OutboundFinalStates,
           NEW method \in Methods, NEW attempts \in Nat, NEW due \in Int
    PROVE  LET new == SetDelivery(row, state, method, attempts, due)
           IN  /\ new \in Row
               /\ new.big = row.big
               /\ new.peer = row.peer
               /\ new.outbound = row.outbound
               /\ new.timestamp = row.timestamp
               /\ new.state = state
               /\ new.method = method
               /\ new.attempts = attempts
               /\ new.due = due
<1> DEFINE a == [row EXCEPT !.state = state]
           b == [a EXCEPT !.method = method]
           c == [b EXCEPT !.attempts = attempts]
           d == [c EXCEPT !.due = due]
<1>1. a \in Row /\ a.big = row.big /\ a.peer = row.peer /\ a.outbound = row.outbound
      /\ a.timestamp = row.timestamp /\ a.state = state
  BY DEF Row
<1> HIDE DEF a
<1>2. b \in Row /\ b.big = a.big /\ b.peer = a.peer /\ b.outbound = a.outbound
      /\ b.timestamp = a.timestamp /\ b.state = a.state /\ b.method = method
  BY <1>1 DEF Row
<1> HIDE DEF b
<1>3. c \in Row /\ c.big = b.big /\ c.peer = b.peer /\ c.outbound = b.outbound
      /\ c.timestamp = b.timestamp /\ c.state = b.state /\ c.method = b.method
      /\ c.attempts = attempts
  BY <1>2 DEF Row
<1> HIDE DEF c
<1>4. d \in Row /\ d.big = c.big /\ d.peer = c.peer /\ d.outbound = c.outbound
      /\ d.timestamp = c.timestamp /\ d.state = c.state /\ d.method = c.method
      /\ d.attempts = c.attempts /\ d.due = due
  BY <1>3 DEF Row
<1>5. SetDelivery(row, state, method, attempts, due) = d
  BY Zenon DEF SetDelivery, a, b, c, d
<1> HIDE DEF d
<1> QED
  BY <1>1, <1>2, <1>3, <1>4, <1>5

\* The delay after an attempt, read from a table of the powers of two.
LEMMA BackoffIsDelay == ASSUME NEW n \in Nat \ {0} PROVE Backoff(n) \in Nat
<1> DEFINE k == IF n <= 6 THEN n ELSE 6
           shifted == <<2, 4, 8, 16, 32, 64>>[k]
<1>1. k \in 1..6
  OBVIOUS
<1>2. shifted \in Nat
  BY <1>1
<1> HIDE DEF shifted
<1>3. BackoffBase * shifted \in Nat
  BY <1>2, OutboundAssumption
<1>4. Backoff(n) = IF BackoffBase * shifted <= MaxBackoff THEN BackoffBase * shifted ELSE MaxBackoff
  BY DEF Backoff, shifted
<1> QED
  BY <1>3, <1>4, OutboundAssumption

\* The columns finish_outbound writes.
LEMMA OutcomeTypes ==
    ASSUME NEW r \in Result
    PROVE  /\ r.message.attempts + 1 \in Nat
           /\ r.method \in Methods
           /\ Status(r) \in {"retrying", "delivered", "stored_on_node", "failed"}
           /\ Status(r) \in PendingStates \cup OutboundFinalStates
           /\ NextAttempt(r) \in Int
<1>1. r.message.attempts + 1 \in Nat /\ r.method \in Methods
  BY DEF Result, PendingMessage
<1>2. Status(r) \in {"retrying", "delivered", "stored_on_node", "failed"}
  BY DEF Status
<1>3. Status(r) \in PendingStates \cup OutboundFinalStates
  BY <1>2 DEF PendingStates, OutboundFinalStates
<1>4. r.message.attempts + 1 \in Nat \ {0}
  BY DEF Result, PendingMessage
<1>5. NextAttempt(r) \in Int
  BY <1>4, BackoffIsDelay, HorizonAssumption DEF NextAttempt, Epoch
<1> QED
  BY <1>1, <1>2, <1>3, <1>5

-----------------------------------------------------------------------------
(* Type correctness                                                        *)

\* The rows of the table are rows, whatever statement runs on it.
TableOK(t, last) == DOMAIN t \subseteq 1..last /\ \A i \in DOMAIN t : t[i] \in Row

LEMMA TableInsert ==
    ASSUME NEW t, NEW last \in Nat, TableOK(t, last),
           NEW command \in Command, NEW timestamp \in Timestamps
    PROVE  TableOK(InsertMessage(t, last + 1, NewRow(command, timestamp)), last + 1)
<1>1. NewRow(command, timestamp) \in Row
  BY HorizonAssumption DEF NewRow, Command, Row, PendingStates, Epoch
<1>2. IsPending(NewRow(command, timestamp))
  BY DEF NewRow, IsPending, PendingStates
<1> QED
  BY <1>1, <1>2, InsertFacts DEF TableOK

LEMMA TableUpdate ==
    ASSUME NEW t, NEW last \in Nat, TableOK(t, last), NEW id,
           NEW state \in PendingStates \cup OutboundFinalStates,
           NEW method \in Methods, NEW attempts \in Nat, NEW due \in Int
    PROVE  TableOK(UpdateDelivery(t, id, state, method, attempts, due), last)
<1> DEFINE u == UpdateDelivery(t, id, state, method, attempts, due)
<1>1. DOMAIN u = DOMAIN t
  BY UpdateFacts
<1>2. ASSUME NEW i \in DOMAIN t PROVE u[i] \in Row
  <2>1. CASE i = id
    <3>1. u[i] = SetDelivery(t[id], state, method, attempts, due)
      BY <2>1, UpdateFacts
    <3>2. t[id] \in Row
      BY <2>1 DEF TableOK
    <3> QED
      BY <3>1, <3>2, SetDeliveryFacts
  <2>2. CASE i # id
    BY <2>2, UpdateFacts DEF TableOK
  <2> QED
    BY <2>1, <2>2
<1> QED
  BY <1>1, <1>2 DEF TableOK

LEMMA TableRecover ==
    ASSUME NEW t, NEW last \in Nat, TableOK(t, last)
    PROVE  TableOK(RecoverInterrupted(t), last)
<1>1. ASSUME NEW row \in Row PROVE RetryNow(row) \in Row
  <2>1. /\ "retrying" \in PendingStates \cup OutboundFinalStates
        /\ row.method \in Methods /\ row.attempts \in Nat /\ 0 \in Int
    BY DEF Row, PendingStates
  <2> QED
    BY <2>1, SetDeliveryFacts DEF RetryNow
<1> QED
  BY <1>1 DEF TableOK, RecoverInterrupted

LEMMA TableClear ==
    ASSUME NEW t, NEW last \in Nat, TableOK(t, last), NEW peer
    PROVE  TableOK(ClearConversation(t, peer), last)
BY DEF TableOK, ClearConversation, Restrict

LEMMA TableAge ==
    ASSUME NEW t, NEW last \in Nat, TableOK(t, last)
    PROVE  TableOK(Age(t), last)
<1>1. ASSUME NEW due \in Int PROVE Later(due) \in Int
  BY HorizonAssumption DEF Later, Epoch
<1> QED
  BY <1>1 DEF TableOK, Age, Row

\* What an attempt reports is a result.
LEMMA ReportTypes ==
    ASSUME TypeOK, NEW f \in flights, NEW method \in Methods, NEW outcome \in Outcomes,
           Report(f, method, outcome)
    PROVE  flights' \subseteq Flight /\ results' \in Seq(Result)
<1>1. [message |-> f.message, method |-> method, outcome |-> outcome] \in Result
  BY DEF TypeOK, Flight, Result
<1> QED
  BY <1>1 DEF Report, TypeOK

LEMMA AttemptTypes ==
    ASSUME TypeOK, Attempt
    PROVE  flights' \subseteq Flight /\ results' \in Seq(Result)
<1>1. PICK f \in flights : AttemptFails(f) \/ AttemptSucceeds(f) \/ AttemptExceedsMtu(f)
  BY DEF Attempt
<1>2. f \in Flight /\ f.message.method \in Methods /\ f.stage \in Methods
  BY DEF TypeOK, Flight, PendingMessage, Stages, Methods
<1>3. "ok" \in Outcomes /\ "mtu" \in Outcomes /\ "error" \in Outcomes
  BY DEF Outcomes
<1>4. CASE AttemptFails(f)
  BY <1>2, <1>3, <1>4, ReportTypes DEF AttemptFails
<1>5. CASE AttemptSucceeds(f)
  BY <1>2, <1>3, <1>5, ReportTypes DEF AttemptSucceeds, MethodUsed
<1>6. CASE AttemptExceedsMtu(f)
  <2>1. CASE f.message.method = "automatic"
    BY <1>2, <1>6, <2>1 DEF AttemptExceedsMtu, TypeOK, Flight, Stages
  <2>2. CASE f.message.method # "automatic"
    BY <1>2, <1>3, <1>6, <2>2, ReportTypes DEF AttemptExceedsMtu
  <2> QED
    BY <2>1, <2>2
<1> QED
  BY <1>1, <1>4, <1>5, <1>6

LEMMA EmptySequence ==
    ASSUME NEW S PROVE << >> \in Seq(S) /\ Len(<< >>) = 0
OBVIOUS

LEMMA UnrecordTypes ==
    ASSUME unrecorded \in [Ids -> Nat], NEW ids, Unrecord(ids)
    PROVE  unrecorded' \in [Ids -> Nat]
BY DEF Unrecord

\* What is left of the loop when its task ends.
LEMMA DropLoopTypes ==
    ASSUME TypeOK, DropLoop
    PROVE  /\ commands' \in Seq(Command) /\ Len(commands') = 0
           /\ results' \in Seq(Result)
           /\ flights' \subseteq Flight
           /\ outboundActive' \in BOOLEAN
           /\ unrecorded' \in [Ids -> Nat]
<1>1. unrecorded' \in [Ids -> Nat]
  BY UnrecordTypes DEF TypeOK, DropLoop
<1>2. /\ commands' \in Seq(Command) /\ Len(commands') = 0
      /\ results' \in Seq(Result)
      /\ flights' \subseteq Flight
      /\ outboundActive' \in BOOLEAN
  BY EmptySequence DEF DropLoop
<1> QED
  BY <1>1, <1>2

LEMMA InitTypes == Init => TypeOK
<1> SUFFICES ASSUME Init PROVE TypeOK
  OBVIOUS
<1>1. DOMAIN messages = {} /\ lastId = 0 /\ 0 \in 0..MaxMessages
  BY OutboundAssumption DEF Init
<1>2. commands \in Seq(Command) /\ Len(commands) = 0 /\ results \in Seq(Result)
  BY DEF Init
<1>3. sends \in [Ids -> Nat] /\ unrecorded \in [Ids -> Nat]
  BY DEF Init
<1>4. /\ net = "down" /\ outboundActive = FALSE /\ flights = {} /\ clearing = {}
      /\ faults = 0 /\ stops = 0 /\ stranded = {}
  BY DEF Init
<1> QED
  <2>1. faults \in 0..MaxFaults /\ stops \in 0..MaxStops
    BY <1>4, OutboundAssumption
  <2>2. lastId + Len(commands) <= MaxMessages
    BY <1>1, <1>2, OutboundAssumption
  <2> QED
    BY <1>1, <1>2, <1>3, <1>4, <2>1, <2>2 DEF TypeOK

LEMMA NextTypes == TypeOK /\ [Next]_vars => TypeOK'
<1> SUFFICES ASSUME TypeOK, [Next]_vars PROVE TypeOK'
  OBVIOUS
<1> USE OutboundAssumption
<1>0. TableOK(messages, lastId) /\ lastId \in Nat
  BY DEF TypeOK, TableOK
<1>1. CASE Start
  BY <1>1 DEF TypeOK, Start, rows, loop, history
<1>2. CASE Recover
  <2>1. TableOK(messages', lastId)
    BY <1>0, <1>2, TableRecover DEF Recover
  <2> QED
    BY <1>2, <2>1 DEF TypeOK, TableOK, Recover, loop, NoFault, Fault
<1>3. CASE Stop
  <2>1. DropLoop
    BY <1>3 DEF Stop
  <2> QED
    BY <1>3, <2>1, DropLoopTypes DEF TypeOK, Stop, rows
<1>4. CASE Elapse
  <2>1. TableOK(messages', lastId)
    BY <1>0, <1>4, TableAge DEF Elapse
  <2> QED
    BY <1>4, <2>1 DEF TypeOK, TableOK, Elapse, loop, history
<1>5. ASSUME NEW peer \in Peers, NEW method \in Requested, NEW big \in BOOLEAN,
             SendMessage(peer, method, big)
      PROVE  TypeOK'
  <2>1. [peer |-> peer, method |-> method, big |-> big] \in Command
    BY DEF Command
  <2>2. commands' \in Seq(Command) /\ Len(commands') = Len(commands) + 1
    BY <1>5, <2>1 DEF TypeOK, SendMessage
  <2> QED
    BY <1>5, <2>2 DEF TypeOK, SendMessage, rows, history
<1>6. ASSUME NEW peer \in Peers, ClearCheck(peer) PROVE TypeOK'
  BY <1>6 DEF TypeOK, ClearCheck, rows, loop, history
<1>7. ASSUME NEW peer \in Peers, ClearCommit(peer) PROVE TypeOK'
  <2>1. TableOK(messages', lastId)
    BY <1>0, <1>7, TableClear DEF ClearCommit
  <2> QED
    BY <1>7, <2>1 DEF TypeOK, TableOK, ClearCommit, loop, history, NoFault, Fault
<1>8. CASE QueueOutbound
  <2>1. Head(commands) \in Command /\ commands' \in Seq(Command)
        /\ Len(commands') = Len(commands) - 1 /\ Len(commands) > 0
    BY <1>8 DEF TypeOK, QueueOutbound
  <2>2. TableOK(messages', lastId') /\ lastId' \in {lastId, lastId + 1}
    BY <1>0, <1>8, <2>1, TableInsert DEF QueueOutbound, rows
  <2> QED
    BY <1>8, <2>1, <2>2 DEF TypeOK, TableOK, QueueOutbound, history, NoFault, Fault
<1>9. CASE StartAttempt
  <2>1. PICK i \in NextDue(messages) :
          /\ \/ /\ NoFault
                /\ messages' = UpdateDelivery(messages, i, "sending", messages[i].method,
                                              messages[i].attempts, Lease)
             \/ Fault /\ UNCHANGED messages
          /\ flights' = flights \cup
                {[message |-> Pending(i), stage |-> FirstStage(messages[i].method)]}
          /\ sends' = [sends EXCEPT ![i] = @ + 1]
          /\ stranded' = stranded \ {i}
    BY <1>9 DEF StartAttempt
  <2>2. i \in DOMAIN messages /\ i \in Ids /\ messages[i] \in Row
    BY <2>1 DEF NextDue, DueIds, PendingIds, TypeOK, Ids
  <2>3. messages[i].method \in Methods /\ messages[i].attempts \in Nat /\ Lease \in Int
        /\ messages[i].big \in BOOLEAN
    BY <2>2 DEF Row
  <2>4. "sending" \in PendingStates \cup OutboundFinalStates
    BY DEF PendingStates
  <2>5. TableOK(messages', lastId)
    BY <1>0, <2>1, <2>3, <2>4, TableUpdate
  <2>6. [message |-> Pending(i), stage |-> FirstStage(messages[i].method)] \in Flight
    BY <2>2, <2>3 DEF Flight, PendingMessage, Pending, FirstStage, Stages, Methods
  <2>7. sends' \in [Ids -> Nat]
    BY <2>1, <2>2 DEF TypeOK
  <2> QED
    BY <1>9, <2>1, <2>5, <2>6, <2>7, SMTT(20) DEF TypeOK, TableOK, StartAttempt, NoFault, Fault
<1>10. CASE QueueUnreadable
  <2>1. DropLoop
    BY <1>10 DEF QueueUnreadable
  <2> QED
    BY <1>10, <2>1, DropLoopTypes DEF TypeOK, QueueUnreadable, rows, Fault
<1>11. CASE FinishOutbound
  <2>1. Head(results) \in Result /\ results' \in Seq(Result)
    BY <1>11 DEF TypeOK, FinishOutbound
  <2>2. TableOK(messages', lastId)
    BY <1>0, <1>11, <2>1, OutcomeTypes, TableUpdate DEF FinishOutbound, Finished
  <2>3. unrecorded' \in [Ids -> Nat]
    <3>1. CASE UNCHANGED unrecorded
      BY <3>1 DEF TypeOK
    <3>2. CASE Unrecord({Head(results).message.id})
      BY <3>2, UnrecordTypes DEF TypeOK
    <3> QED
      BY <1>11, <3>1, <3>2 DEF FinishOutbound
  <2>4. Head(results).message.id \in Ids
    BY <2>1 DEF Result, PendingMessage
  <2>5. stranded' \subseteq Ids /\ faults' \in 0..MaxFaults
    BY <1>11, <2>4 DEF TypeOK, FinishOutbound, NoFault, Fault
  <2> QED
    BY <1>11, <2>1, <2>2, <2>3, <2>5 DEF TypeOK, TableOK, FinishOutbound
<1>12. CASE Attempt
  BY <1>12, AttemptTypes DEF TypeOK, Attempt, rows, history
<1>13. CASE UNCHANGED vars
  BY <1>13 DEF TypeOK, vars, rows, loop, history
<1> QED
  BY <1>1, <1>2, <1>3, <1>4, <1>5, <1>6, <1>7, <1>8, <1>9, <1>10, <1>11, <1>12, <1>13
     DEF Next

\* Every reachable state of the queue is well typed: rows, commands, attempts
\* and results have the shapes the code gives them (network.rs, db.rs).
THEOREM TypeCorrect == Spec => []TypeOK
BY InitTypes, NextTypes, PTL DEF Spec

-----------------------------------------------------------------------------
(* The attempt in the air                                                  *)

\* What an attempt may claim about its outcome.
Truthful(r) ==
    /\ r.outcome = "ok" =>
          /\ r.method \in Stages
          /\ r.method = "opportunistic" => ~r.message.big
    /\ r.outcome = "mtu" => r.message.big

ResultsAreTruthful == \A k \in DOMAIN results : Truthful(results[k])

\* The messages attempts hold are those in the air or in the result channel.
LEMMA HeldCases ==
    ASSUME TypeOK, SingleFlight
    PROVE  /\ InFlight = {m.id : m \in Held}
           /\ Held \subseteq PendingMessage
           /\ ~outboundActive => Held = {} /\ InFlight = {}
           /\ \A f : flights = {f} /\ results = << >> =>
                 Held = {f.message} /\ InFlight = {f.message.id}
           /\ Len(results) = 1 /\ flights = {} =>
                 Held = {Head(results).message} /\ InFlight = {Head(results).message.id}
<1>1. InFlight = {m.id : m \in Held}
  BY DEF InFlight, FlightIds, ResultIds, Held
<1>2. Held \subseteq PendingMessage
  <2>1. \A k \in DOMAIN results : results[k] \in Result
    BY DEF TypeOK
  <2>2. \A r \in Result : r.message \in PendingMessage
    BY DEF Result
  <2>3. \A f \in flights : f.message \in PendingMessage
    BY DEF TypeOK, Flight
  <2> QED
    BY <2>1, <2>2, <2>3 DEF Held
<1>3. ~outboundActive => Held = {}
  BY DEF SingleFlight, Held
<1>4. ASSUME NEW f, flights = {f}, results = << >> PROVE Held = {f.message}
  BY <1>4 DEF Held
<1>5. ASSUME Len(results) = 1, flights = {} PROVE Held = {Head(results).message}
  <2>1. DOMAIN results = {1} /\ Head(results) = results[1]
    BY <1>5 DEF TypeOK
  <2> QED
    BY <1>5, <2>1 DEF Held
<1> QED
  BY <1>1, <1>2, <1>3, <1>4, <1>5

\* A result that is handled was the only one, and nothing was in the air.
LEMMA HandledResult ==
    ASSUME TypeOK, SingleFlight, FinishOutbound
    PROVE  /\ flights = {} /\ results' = << >> /\ Len(results) = 1
           /\ Head(results) \in Result /\ Head(results) = results[1] /\ 1 \in DOMAIN results
<1>1. outboundActive
  BY DEF FinishOutbound, SingleFlight
<1>2. flights = {} /\ Len(results) = 1
  BY <1>1 DEF FinishOutbound, SingleFlight
<1> QED
  BY <1>2 DEF FinishOutbound, TypeOK

\* A step of an attempt keeps the one it is, in the air or as its result.
LEMMA AttemptCases ==
    ASSUME TypeOK, SingleFlight, Attempt
    PROVE  \E f \in Flight :
             /\ flights = {f} /\ results = << >> /\ outboundActive
             /\ \/ /\ flights' = {[f EXCEPT !.stage = "direct"]}
                   /\ results' = << >>
                \/ \E r \in Result :
                     /\ r.message = f.message
                     /\ Truthful(r)
                     /\ flights' = {}
                     /\ results' = <<r>>
<1>1. PICK f \in flights : AttemptFails(f) \/ AttemptSucceeds(f) \/ AttemptExceedsMtu(f)
  BY DEF Attempt
<1>2. flights = {f} /\ results = << >> /\ outboundActive
  BY <1>1 DEF SingleFlight
<1>3. f \in Flight /\ f.message.method \in Methods /\ f.stage \in Methods /\ f.stage \in Stages
  BY <1>1 DEF TypeOK, Flight, PendingMessage, Stages, Methods
<1>4. ASSUME NEW method \in Methods, NEW outcome \in Outcomes, Report(f, method, outcome),
             outcome = "ok" => method \in Stages /\ (method = "opportunistic" => ~f.message.big),
             outcome = "mtu" => f.message.big
      PROVE  \E r \in Result : /\ r.message = f.message
                               /\ Truthful(r)
                               /\ flights' = {}
                               /\ results' = <<r>>
  <2> DEFINE r == [message |-> f.message, method |-> method, outcome |-> outcome]
  <2>1. r \in Result /\ r.message = f.message
    BY <1>3 DEF Result, Flight
  <2>2. Truthful(r)
    BY <1>4 DEF Truthful
  <2>3. flights' = {} /\ results' = <<r>>
    BY <1>2, <1>4 DEF Report
  <2> QED
    BY <2>1, <2>2, <2>3
<1>5. "ok" \in Outcomes /\ "mtu" \in Outcomes /\ "error" \in Outcomes
  BY DEF Outcomes
<1>6. CASE AttemptFails(f)
  BY <1>2, <1>3, <1>4, <1>5, <1>6 DEF AttemptFails
<1>7. CASE AttemptSucceeds(f)
  BY <1>2, <1>3, <1>4, <1>5, <1>7 DEF AttemptSucceeds, MethodUsed
<1>8. CASE AttemptExceedsMtu(f)
  <2>1. CASE f.message.method = "automatic"
    BY <1>2, <1>3, <1>8, <2>1 DEF AttemptExceedsMtu
  <2>2. CASE f.message.method # "automatic"
    BY <1>2, <1>3, <1>4, <1>5, <1>8, <2>2 DEF AttemptExceedsMtu
  <2> QED
    BY <2>1, <2>2
<1> QED
  BY <1>1, <1>6, <1>7, <1>8

\* ... so it holds the same message.
LEMMA AttemptHolds ==
    ASSUME TypeOK, SingleFlight, Attempt
    PROVE  Held' = Held /\ InFlight' = InFlight
<1>1. PICK f \in Flight :
         /\ flights = {f} /\ results = << >>
         /\ \/ /\ flights' = {[f EXCEPT !.stage = "direct"]}
               /\ results' = << >>
            \/ \E r \in Result :
                 /\ r.message = f.message
                 /\ flights' = {}
                 /\ results' = <<r>>
  BY AttemptCases
<1>2. Held = {f.message} /\ InFlight = {f.message.id}
  BY <1>1, HeldCases
<1>3. Held' = {f.message} /\ InFlight' = {f.message.id}
  <2>1. CASE flights' = {[f EXCEPT !.stage = "direct"]} /\ results' = << >>
    BY <2>1 DEF Held, InFlight, FlightIds, ResultIds, Flight
  <2>2. CASE \E r \in Result :
                 /\ r.message = f.message
                 /\ flights' = {}
                 /\ results' = <<r>>
    <3>1. PICK r \in Result : r.message = f.message /\ flights' = {} /\ results' = <<r>>
      BY <2>2
    <3>2. DOMAIN results' = {1} /\ results'[1] = r
      BY <3>1
    <3> QED
      BY <3>1, <3>2 DEF Held, InFlight, FlightIds, ResultIds
  <2> QED
    BY <1>1, <2>1, <2>2
<1> QED
  BY <1>2, <1>3

LEMMA InitSingleFlight == Init => SingleFlight
BY DEF Init, SingleFlight

LEMMA NextSingleFlight == TypeOK /\ SingleFlight /\ [Next]_vars => SingleFlight'
<1> SUFFICES ASSUME TypeOK, SingleFlight, [Next]_vars PROVE SingleFlight'
  OBVIOUS
<1>1. CASE net' = net /\ UNCHANGED <<outboundActive, flights, results>>
  BY <1>1 DEF SingleFlight
<1>2. CASE DropLoop
  BY <1>2 DEF DropLoop, SingleFlight
<1>3. CASE Start
  BY <1>3 DEF Start, loop, SingleFlight
<1>4. CASE Recover
  BY <1>4 DEF Recover, loop, SingleFlight
<1>5. CASE StartAttempt
  <2>1. outboundActive' /\ net' = "online" /\ flights = {} /\ results' = << >>
    BY <1>5 DEF StartAttempt, MayAttempt, SingleFlight
  <2>2. \E f : flights' = {f}
    BY <1>5, <2>1 DEF StartAttempt
  <2>3. \E f \in flights' : flights' = {f}
    BY <2>2
  <2> QED
    BY <2>1, <2>3 DEF SingleFlight
<1>6. CASE FinishOutbound
  BY <1>6, HandledResult DEF FinishOutbound, SingleFlight
<1>7. CASE Attempt
  <2>1. outboundActive' /\ net' = "online"
    BY <1>7, AttemptCases DEF Attempt, SingleFlight
  <2>2. \/ results' = << >> /\ \E f \in flights' : flights' = {f}
        \/ flights' = {} /\ Len(results') = 1
    <3>1. CASE \E f : flights' = {f} /\ results' = << >>
      BY <3>1
    <3>2. CASE \E r : flights' = {} /\ results' = <<r>>
      BY <3>2
    <3> QED
      BY <1>7, <3>1, <3>2, AttemptCases
  <2> QED
    BY <2>1, <2>2 DEF SingleFlight
<1> QED
  BY <1>1, <1>2, <1>3, <1>4, <1>5, <1>6, <1>7
     DEF Next, Stop, Elapse, SendMessage, ClearCheck, ClearCommit, QueueOutbound,
         QueueUnreadable, loop, vars

\* At most one attempt is between its spawn and the handling of its result
\* (network.rs:326-355, 290-295), however the process stops and starts.
THEOREM AlwaysSingleFlight == Spec => []SingleFlight
BY InitTypes, NextTypes, InitSingleFlight, NextSingleFlight, PTL DEF Spec
-----------------------------------------------------------------------------
(* What the statements keep of a row                                       *)

\* Whether a row is settled and how, and what attempts went into it.
SameOutcome(row, new) ==
    /\ new.peer = row.peer
    /\ new.big = row.big
    /\ new.method = row.method
    /\ new.attempts = row.attempts
    /\ IsPending(new) <=> IsPending(row)
    /\ ~IsPending(row) => new.state = row.state

TableKept(t, u) ==
    /\ DOMAIN u \subseteq DOMAIN t
    /\ \A i \in DOMAIN u : SameOutcome(t[i], u[i])

LEMMA KeptUnchanged == ASSUME NEW t PROVE TableKept(t, t)
BY DEF TableKept, SameOutcome

LEMMA KeptByAge == ASSUME NEW t, NEW last, TableOK(t, last) PROVE TableKept(t, Age(t))
<1>1. ASSUME NEW row \in Row PROVE SameOutcome(row, [row EXCEPT !.due = Later(@)])
  BY DEF SameOutcome, IsPending, Row
<1> QED
  BY <1>1 DEF TableKept, Age, TableOK

LEMMA KeptByClear ==
    ASSUME NEW t, NEW peer PROVE TableKept(t, ClearConversation(t, peer))
BY DEF TableKept, ClearConversation, Restrict, SameOutcome

\* A pending row that is marked as being sent, or to be retried, stays pending.
LEMMA KeptByMark ==
    ASSUME NEW row \in Row, IsPending(row), NEW state \in PendingStates, NEW due \in Int
    PROVE  SameOutcome(row, SetDelivery(row, state, row.method, row.attempts, due))
<1>1. row.method \in Methods /\ row.attempts \in Nat /\ row.outbound = TRUE
  BY DEF Row
<1> QED
  BY <1>1, SetDeliveryFacts DEF SameOutcome, IsPending

LEMMA KeptByRecovery ==
    ASSUME NEW t, NEW last, TableOK(t, last) PROVE TableKept(t, RecoverInterrupted(t))
<1>1. ASSUME NEW row \in Row, row.state = "sending" PROVE SameOutcome(row, RetryNow(row))
  <2>1. row.outbound
    BY Zenon DEF Row
  <2>2. IsPending(row)
    BY <1>1, <2>1 DEF IsPending, PendingStates
  <2>3. "retrying" \in PendingStates /\ 0 \in Int
    BY DEF PendingStates
  <2> QED
    BY <2>2, <2>3, KeptByMark DEF RetryNow
<1> QED
  BY <1>1 DEF TableKept, RecoverInterrupted, TableOK, SameOutcome

LEMMA KeptBySending ==
    ASSUME NEW t, NEW last, TableOK(t, last), NEW i \in PendingIds(t)
    PROVE  TableKept(t, UpdateDelivery(t, i, "sending", t[i].method, t[i].attempts, Lease))
<1>1. i \in DOMAIN t /\ t[i] \in Row /\ IsPending(t[i]) /\ Lease \in Int
      /\ "sending" \in PendingStates
  BY OutboundAssumption DEF PendingIds, TableOK, PendingStates
<1>2. SameOutcome(t[i], SetDelivery(t[i], "sending", t[i].method, t[i].attempts, Lease))
  BY <1>1, KeptByMark
<1> QED
  BY <1>2, UpdateFacts DEF TableKept, SameOutcome

-----------------------------------------------------------------------------
(* The shapes of a step                                                    *)

Quiet ==
    /\ TableKept(messages, messages')
    /\ lastId' = lastId
    /\ Held' = Held /\ InFlight' = InFlight
    /\ UNCHANGED <<sends, unrecorded>>

Accepted(row) ==
    /\ IsPending(row) /\ row.attempts = 0
    /\ lastId < MaxMessages
    /\ messages' = InsertMessage(messages, lastId + 1, row)
    /\ lastId' = lastId + 1
    /\ Held' = Held /\ InFlight' = InFlight
    /\ UNCHANGED <<sends, unrecorded>>

Started(i) ==
    /\ TableKept(messages, messages') /\ DOMAIN messages' = DOMAIN messages
    /\ lastId' = lastId
    /\ InFlight = {}
    /\ Held' = {Pending(i)} /\ InFlight' = {i}
    /\ sends' = [sends EXCEPT ![i] = @ + 1]
    /\ unrecorded' = unrecorded

Dropped ==
    /\ messages' = messages
    /\ lastId' = lastId
    /\ Held' = {} /\ InFlight' = {}
    /\ sends' = sends
    /\ Unrecord(InFlight)

Concluded(r) ==
    /\ messages' = Finished(messages, r)
    /\ lastId' = lastId
    /\ Held = {r.message} /\ InFlight = {r.message.id}
    /\ Held' = {} /\ InFlight' = {}
    /\ UNCHANGED <<sends, unrecorded>>

LEMMA StartShape ==
    ASSUME TypeOK, SingleFlight, StartAttempt
    PROVE  \E i \in PendingIds(messages) : Started(i)
<1>1. PICK i \in NextDue(messages) :
        /\ \/ /\ NoFault
              /\ messages' = UpdateDelivery(messages, i, "sending", messages[i].method,
                                            messages[i].attempts, Lease)
           \/ Fault /\ UNCHANGED messages
        /\ flights' = flights \cup
              {[message |-> Pending(i), stage |-> FirstStage(messages[i].method)]}
        /\ sends' = [sends EXCEPT ![i] = @ + 1]
  BY DEF StartAttempt
<1>2. i \in PendingIds(messages) /\ TableOK(messages, lastId)
  BY DEF NextDue, DueIds, TypeOK, TableOK
<1>3. TableKept(messages, messages')
  BY <1>1, <1>2, KeptBySending, KeptUnchanged
<1>4. DOMAIN messages' = DOMAIN messages
  BY <1>1, UpdateFacts
<1>5. ~outboundActive /\ flights = {} /\ results = << >> /\ results' = << >>
  BY DEF StartAttempt, MayAttempt, SingleFlight
<1>6. InFlight = {}
  BY <1>5, HeldCases
<1>7. Held' = {Pending(i)} /\ InFlight' = {i}
  <2>1. flights' = {[message |-> Pending(i), stage |-> FirstStage(messages[i].method)]}
    BY <1>1, <1>5
  <2>2. Pending(i).id = i
    BY DEF Pending
  <2> QED
    BY <1>5, <2>1, <2>2 DEF Held, InFlight, FlightIds, ResultIds
<1> QED
  BY <1>1, <1>2, <1>3, <1>4, <1>6, <1>7 DEF Started, StartAttempt

LEMMA QueueShape ==
    ASSUME TypeOK, QueueOutbound
    PROVE  Quiet \/ \E row \in Row : Accepted(row)
<1>1. Held' = Held /\ InFlight' = InFlight /\ UNCHANGED <<sends, unrecorded>>
  BY DEF QueueOutbound, Held, InFlight, FlightIds, ResultIds, history
<1>2. CASE UNCHANGED rows
  BY <1>1, <1>2, KeptUnchanged DEF Quiet, rows
<1>3. CASE ~UNCHANGED rows
  <2>1. PICK timestamp \in Timestamps :
          messages' = InsertMessage(messages, lastId + 1, NewRow(Head(commands), timestamp))
    BY <1>3 DEF QueueOutbound
  <2>2. lastId' = lastId + 1
    BY <1>3 DEF QueueOutbound
  <2>3. Head(commands) \in Command /\ lastId < MaxMessages
    BY OutboundAssumption DEF TypeOK, QueueOutbound
  <2>4. NewRow(Head(commands), timestamp) \in Row
    BY <2>3, HorizonAssumption DEF NewRow, Command, Row, PendingStates, Epoch
  <2>5. /\ IsPending(NewRow(Head(commands), timestamp))
        /\ NewRow(Head(commands), timestamp).attempts = 0
    BY DEF NewRow, IsPending, PendingStates
  <2> QED
    BY <1>1, <2>1, <2>2, <2>3, <2>4, <2>5 DEF Accepted
<1> QED
  BY <1>2, <1>3

LEMMA DropShape ==
    ASSUME DropLoop, UNCHANGED <<messages, lastId, sends>>
    PROVE  Dropped
<1>1. flights' = {} /\ results' = << >>
  BY DEF DropLoop
<1>2. Held' = {} /\ InFlight' = {}
  BY <1>1 DEF Held, InFlight, FlightIds, ResultIds
<1> QED
  BY <1>2 DEF Dropped, DropLoop

LEMMA FinishShape ==
    ASSUME TypeOK, SingleFlight, ResultsAreTruthful, FinishOutbound
    PROVE  Dropped \/ \E r \in Result : Truthful(r) /\ Concluded(r)
<1> DEFINE r == Head(results)
<1>1. /\ flights = {} /\ results' = << >> /\ Len(results) = 1
      /\ r \in Result /\ r = results[1] /\ 1 \in DOMAIN results
  BY HandledResult
<1>2. Held = {r.message} /\ InFlight = {r.message.id}
  BY <1>1, HeldCases
<1>3. flights' = {}
  BY <1>1 DEF FinishOutbound
<1>4. Held' = {} /\ InFlight' = {}
  BY <1>1, <1>3 DEF Held, InFlight, FlightIds, ResultIds
<1>5. Truthful(r)
  BY <1>1 DEF ResultsAreTruthful
<1>6. lastId' = lastId /\ sends' = sends
  BY DEF FinishOutbound
<1>7. CASE messages' = Finished(messages, r) /\ UNCHANGED unrecorded
  BY <1>1, <1>2, <1>4, <1>5, <1>6, <1>7 DEF Concluded
<1>8. CASE Unrecord({r.message.id}) /\ UNCHANGED messages
  BY <1>2, <1>4, <1>6, <1>8 DEF Dropped
<1> QED
  BY <1>7, <1>8 DEF FinishOutbound

LEMMA StepShapes ==
    ASSUME TypeOK, SingleFlight, ResultsAreTruthful, [Next]_vars
    PROVE  \/ Quiet
           \/ \E row \in Row : Accepted(row)
           \/ \E i \in PendingIds(messages) : Started(i)
           \/ Dropped
           \/ \E r \in Result : Truthful(r) /\ Concluded(r)
<1>0. TableOK(messages, lastId)
  BY DEF TypeOK, TableOK
<1>1. ASSUME UNCHANGED <<lastId, flights, results, sends, unrecorded>>,
             TableKept(messages, messages')
      PROVE  Quiet
  BY <1>1 DEF Quiet, Held, InFlight, FlightIds, ResultIds
<1>2. CASE Start
  BY <1>1, <1>2, KeptUnchanged DEF Start, rows, loop, history
<1>3. CASE Recover
  BY <1>0, <1>1, <1>3, KeptUnchanged, KeptByRecovery DEF Recover, loop
<1>4. CASE Stop
  BY <1>4, DropShape DEF Stop, rows
<1>5. CASE Elapse
  BY <1>0, <1>1, <1>5, KeptByAge DEF Elapse, loop, history
<1>6. ASSUME NEW peer \in Peers, NEW method \in Requested, NEW big \in BOOLEAN,
             SendMessage(peer, method, big)
      PROVE  Quiet
  BY <1>1, <1>6, KeptUnchanged DEF SendMessage, rows, history
<1>7. ASSUME NEW peer \in Peers, ClearCheck(peer) PROVE Quiet
  BY <1>1, <1>7, KeptUnchanged DEF ClearCheck, rows, loop, history
<1>8. ASSUME NEW peer \in Peers, ClearCommit(peer) PROVE Quiet
  BY <1>1, <1>8, KeptUnchanged, KeptByClear DEF ClearCommit, loop, history
<1>9. CASE QueueUnreadable
  BY <1>9, DropShape DEF QueueUnreadable, rows
<1>10. CASE Attempt
  BY <1>10, AttemptHolds, KeptUnchanged DEF Attempt, rows, history, Quiet
<1>11. CASE UNCHANGED vars
  BY <1>1, <1>11, KeptUnchanged DEF vars, rows, loop, history
<1> QED
  BY <1>2, <1>3, <1>4, <1>5, <1>6, <1>7, <1>8, <1>9, <1>10, <1>11,
     QueueShape, StartShape, FinishShape
     DEF Next

-----------------------------------------------------------------------------
(* Results are truthful                                                    *)

LEMMA InitTruthful == Init => ResultsAreTruthful
BY DEF Init, ResultsAreTruthful

LEMMA NextTruthful ==
    TypeOK /\ SingleFlight /\ ResultsAreTruthful /\ [Next]_vars => ResultsAreTruthful'
<1> SUFFICES ASSUME TypeOK, SingleFlight, ResultsAreTruthful, [Next]_vars
             PROVE  ResultsAreTruthful'
  OBVIOUS
<1>1. CASE results' = results
  BY <1>1 DEF ResultsAreTruthful
<1>2. CASE results' = << >>
  BY <1>2 DEF ResultsAreTruthful
<1>3. CASE Attempt
  <2>1. \/ results' = << >>
        \/ \E r \in Result : Truthful(r) /\ results' = <<r>>
    BY <1>3, AttemptCases
  <2>2. ASSUME NEW r \in Result, Truthful(r), results' = <<r>> PROVE ResultsAreTruthful'
    <3>1. DOMAIN results' = {1} /\ results'[1] = r
      BY <2>2
    <3> QED
      BY <2>2, <3>1 DEF ResultsAreTruthful
  <2> QED
    BY <1>2, <2>1, <2>2
<1> QED
  BY <1>1, <1>2, <1>3, HandledResult
     DEF Next, Start, Recover, Stop, Elapse, SendMessage, ClearCheck, ClearCommit,
         QueueOutbound, StartAttempt, QueueUnreadable, DropLoop, loop, vars

-----------------------------------------------------------------------------
(* The invariant: copies are current, attempts are counted, final states   *)
(* are honest                                                              *)

\* A message that was not accepted yet has no history.
FreshIds == \A i \in Ids : i > lastId => sends[i] = 0 /\ unrecorded[i] = 0

QueueInvariant ==
    /\ TypeOK
    /\ SingleFlight
    /\ ResultsAreTruthful
    /\ FreshIds
    /\ CopiesAreCurrent
    /\ AttemptBudget
    /\ OutcomeMatchesTransport

LEMMA InitInvariant == Init => QueueInvariant
<1> SUFFICES ASSUME Init PROVE QueueInvariant
  OBVIOUS
<1>1. TypeOK /\ SingleFlight /\ ResultsAreTruthful
  BY InitTypes, InitSingleFlight, InitTruthful
<1>2. Held = {} /\ DOMAIN messages = {}
  BY DEF Init, Held
<1>3. FreshIds
  BY DEF Init, FreshIds
<1> QED
  BY <1>1, <1>2, <1>3
     DEF QueueInvariant, CopiesAreCurrent, AttemptBudget, OutcomeMatchesTransport

LEMMA NextFreshIds ==
    ASSUME QueueInvariant, [Next]_vars PROVE FreshIds'
<1> USE DEF QueueInvariant
<1>1. lastId \in Nat
  BY DEF TypeOK
<1>2. CASE Quiet
  BY <1>2 DEF Quiet, FreshIds
<1>3. CASE \E row \in Row : Accepted(row)
  BY <1>1, <1>3 DEF Accepted, FreshIds, Ids
<1>4. CASE \E i \in PendingIds(messages) : Started(i)
  BY <1>1, <1>4 DEF Started, FreshIds, PendingIds, TypeOK, Ids
<1>5. CASE Dropped
  BY <1>1, <1>5 DEF Dropped, Unrecord, FreshIds, TypeOK, Ids
<1>6. CASE \E r \in Result : Concluded(r)
  BY <1>6 DEF Concluded, FreshIds
<1> QED
  BY <1>2, <1>3, <1>4, <1>5, <1>6, StepShapes

\* A kept row leaves a current copy current.
LEMMA CurrentCopy ==
    ASSUME NEW i \in DOMAIN messages, NEW m, i \in DOMAIN messages',
           SameOutcome(messages[i], messages'[i]),
           IsPending(messages[i]), m = Pending(i)
    PROVE  IsPending(messages'[i]) /\ m = Pending(i)'
BY DEF SameOutcome, Pending

LEMMA NextCopies ==
    ASSUME QueueInvariant, [Next]_vars PROVE CopiesAreCurrent'
<1> USE DEF QueueInvariant
<1>1. lastId \in Nat
  BY DEF TypeOK
<1>2. CASE Quiet
  <2>1. Held' = Held /\ lastId' = lastId /\ TableKept(messages, messages')
    BY <1>2 DEF Quiet
  <2>2. ASSUME NEW m \in Held
        PROVE  /\ m.id <= lastId'
               /\ m.id \in DOMAIN messages' =>
                     IsPending(messages'[m.id]) /\ m = Pending(m.id)'
    BY <2>1, <2>2, CurrentCopy DEF TableKept, CopiesAreCurrent
  <2> QED
    BY <2>1, <2>2 DEF CopiesAreCurrent
<1>3. CASE \E row \in Row : Accepted(row)
  <2>1. PICK row \in Row : Accepted(row)
    BY <1>3
  <2>2. Held' = Held /\ lastId' = lastId + 1 /\ IsPending(row)
        /\ messages' = InsertMessage(messages, lastId + 1, row)
    BY <2>1 DEF Accepted
  <2>3. ASSUME NEW m \in Held
        PROVE  /\ m.id <= lastId'
               /\ m.id \in DOMAIN messages' =>
                     IsPending(messages'[m.id]) /\ m = Pending(m.id)'
    <3>1. m.id <= lastId /\ m.id \in Nat
      BY HeldCases DEF CopiesAreCurrent, PendingMessage, Ids
    <3>2. m.id # lastId + 1 /\ m.id <= lastId'
      BY <1>1, <2>2, <3>1
    <3>3. m.id \in DOMAIN messages' =>
             m.id \in DOMAIN messages /\ messages'[m.id] = messages[m.id]
      BY <2>2, <3>2, InsertFacts
    <3> QED
      BY <3>2, <3>3 DEF CopiesAreCurrent, Pending
  <2> QED
    BY <2>2, <2>3 DEF CopiesAreCurrent
<1>4. CASE \E i \in PendingIds(messages) : Started(i)
  <2>1. PICK i \in PendingIds(messages) : Started(i)
    BY <1>4
  <2>2. i \in DOMAIN messages' /\ SameOutcome(messages[i], messages'[i])
        /\ IsPending(messages[i]) /\ i \in DOMAIN messages /\ i <= lastId'
    BY <2>1 DEF Started, TableKept, PendingIds, TypeOK
  <2>3. IsPending(messages'[i]) /\ Pending(i) = Pending(i)'
    BY <2>2, CurrentCopy
  <2>4. Held' = {Pending(i)} /\ Pending(i).id = i
    BY <2>1 DEF Started, Pending
  <2> QED
    BY <2>2, <2>3, <2>4 DEF CopiesAreCurrent
<1>5. CASE Held' = {}
  BY <1>5 DEF CopiesAreCurrent
<1> QED
  BY <1>2, <1>3, <1>4, <1>5, StepShapes DEF Dropped, Concluded

LEMMA NextBudget ==
    ASSUME QueueInvariant, [Next]_vars PROVE AttemptBudget'
<1> USE DEF QueueInvariant
<1>1. lastId \in Nat /\ sends \in [Ids -> Nat] /\ unrecorded \in [Ids -> Nat]
      /\ DOMAIN messages \subseteq Ids /\ MaxAttempts \in Nat \ {0}
  BY OutboundAssumption DEF TypeOK, Ids
<1>r. \A i \in DOMAIN messages : messages[i].attempts \in Nat
  BY DEF TypeOK, Row
<1>2. CASE Quiet
  BY <1>2 DEF Quiet, TableKept, SameOutcome, AttemptBudget
<1>3. CASE \E row \in Row : Accepted(row)
  <2>1. PICK row \in Row : Accepted(row)
    BY <1>3
  <2> DEFINE id == lastId + 1
  <2>2. /\ InFlight' = InFlight /\ sends' = sends /\ unrecorded' = unrecorded
        /\ row.attempts = 0 /\ IsPending(row) /\ lastId < MaxMessages
        /\ messages' = InsertMessage(messages, id, row)
    BY <2>1 DEF Accepted
  <2>6. id \in Ids
    BY <1>1, <2>2, OutboundAssumption DEF Ids
  <2>3. sends[id] = 0 /\ unrecorded[id] = 0
    BY <1>1, <2>6 DEF FreshIds
  <2>4. id \notin InFlight
    <3>1. \A m \in Held : m.id <= lastId /\ m.id \in Nat
      BY HeldCases DEF CopiesAreCurrent, PendingMessage, Ids
    <3> QED
      BY <1>1, <3>1, HeldCases
  <2>5. \A i \in DOMAIN messages' :
           \/ i = id /\ messages'[i] = row
           \/ i # id /\ i \in DOMAIN messages /\ messages'[i] = messages[i]
    BY <2>2, InsertFacts
  <2> QED
    BY <1>1, <2>2, <2>3, <2>4, <2>5, <2>6 DEF AttemptBudget
<1>4. CASE \E i \in PendingIds(messages) : Started(i)
  <2>1. PICK i \in PendingIds(messages) : Started(i)
    BY <1>4
  <2>2. /\ TableKept(messages, messages') /\ InFlight = {} /\ InFlight' = {i}
        /\ sends' = [sends EXCEPT ![i] = @ + 1] /\ unrecorded' = unrecorded
        /\ i \in Ids
    BY <1>1, <2>1 DEF Started, PendingIds
  <2>3. ASSUME NEW j \in DOMAIN messages'
        PROVE  /\ sends'[j] = messages'[j].attempts + unrecorded'[j]
                              + (IF j \in InFlight' THEN 1 ELSE 0)
               /\ messages'[j].attempts <= MaxAttempts
               /\ IsPending(messages'[j]) => messages'[j].attempts < MaxAttempts
    <3>1. /\ j \in DOMAIN messages /\ messages'[j].attempts = messages[j].attempts
          /\ IsPending(messages'[j]) <=> IsPending(messages[j])
      BY <2>2 DEF TableKept, SameOutcome
    <3>2. /\ sends[j] = messages[j].attempts + unrecorded[j]
          /\ messages[j].attempts <= MaxAttempts
          /\ IsPending(messages[j]) => messages[j].attempts < MaxAttempts
      BY <1>1, <1>r, <2>2, <3>1 DEF AttemptBudget
    <3>3. sends'[j] = IF j = i THEN sends[j] + 1 ELSE sends[j]
      BY <1>1, <2>2, <3>1
    <3> QED
      BY <1>1, <1>r, <2>2, <3>1, <3>2, <3>3
  <2> QED
    BY <2>3 DEF AttemptBudget
<1>5. CASE Dropped
  <2>1. /\ messages' = messages /\ sends' = sends /\ InFlight' = {}
        /\ \A i \in DOMAIN messages :
              unrecorded'[i] = IF i \in InFlight THEN unrecorded[i] + 1 ELSE unrecorded[i]
    BY <1>1, <1>5 DEF Dropped, Unrecord
  <2> QED
    BY <1>1, <1>r, <2>1 DEF AttemptBudget
<1>6. CASE \E r \in Result : Concluded(r)
  <2>1. PICK r \in Result : Concluded(r)
    BY <1>6
  <2> DEFINE id == r.message.id
  <2>2. /\ messages' = Finished(messages, r) /\ InFlight = {id} /\ InFlight' = {}
        /\ r.message \in Held /\ sends' = sends /\ unrecorded' = unrecorded
    BY <2>1 DEF Concluded
  <2>3. DOMAIN messages' = DOMAIN messages
        /\ \A i \in DOMAIN messages : i # id => messages'[i] = messages[i]
    BY <2>2, UpdateFacts DEF Finished
  <2>4. ASSUME id \in DOMAIN messages
        PROVE  /\ messages'[id].attempts = messages[id].attempts + 1
               /\ messages[id].attempts < MaxAttempts
               /\ messages'[id].state = Status(r)
               /\ r.message.attempts = messages[id].attempts
    <3>1. IsPending(messages[id]) /\ r.message = Pending(id)
      BY <2>2, <2>4 DEF CopiesAreCurrent
    <3>2. r.message.attempts = messages[id].attempts
      BY <3>1 DEF Pending
    <3>3. messages'[id] = SetDelivery(messages[id], Status(r), r.method,
                                      r.message.attempts + 1, NextAttempt(r))
      BY <2>2, <2>4, UpdateFacts DEF Finished
    <3>4. messages[id] \in Row
      BY <2>4 DEF TypeOK
    <3>5. messages'[id].attempts = r.message.attempts + 1 /\ messages'[id].state = Status(r)
      BY <3>3, <3>4, OutcomeTypes, SetDeliveryFacts
    <3> QED
      BY <2>4, <3>1, <3>2, <3>5 DEF AttemptBudget
  <2>5. ASSUME id \in DOMAIN messages, IsPending(messages'[id])
        PROVE  messages'[id].attempts < MaxAttempts
    <3>1. Status(r) = "retrying"
      BY <2>4, <2>5, OutcomeTypes DEF IsPending, PendingStates
    <3>2. ~GiveUp(r.message.attempts + 1, r.outcome)
      BY <3>1 DEF Status
    <3> QED
      BY <1>1, <1>r, <2>4, <2>5, <3>2 DEF GiveUp
  <2>6. ASSUME NEW j \in DOMAIN messages'
        PROVE  /\ sends'[j] = messages'[j].attempts + unrecorded'[j]
               /\ messages'[j].attempts <= MaxAttempts
               /\ IsPending(messages'[j]) => messages'[j].attempts < MaxAttempts
    <3>1. CASE j = id
      BY <1>1, <1>r, <2>2, <2>3, <2>4, <2>5, <3>1 DEF AttemptBudget
    <3>2. CASE j # id
      <4>1. j \in DOMAIN messages /\ messages'[j] = messages[j] /\ j \notin InFlight
        BY <2>2, <2>3, <3>2
      <4> QED
        BY <1>1, <1>r, <2>2, <4>1 DEF AttemptBudget
    <3> QED
      BY <3>1, <3>2
  <2>7. DOMAIN messages' \subseteq Ids
    BY <1>1, <2>3
  <2>8. \A j \in DOMAIN messages' : messages'[j].attempts + unrecorded'[j] \in Nat
    BY <1>1, <1>r, <2>2, <2>3, <2>4
  <2> QED
    BY <2>2, <2>6, <2>8 DEF AttemptBudget
<1> QED
  BY <1>2, <1>3, <1>4, <1>5, <1>6, StepShapes

\* What a row says of its transport, once it is settled.
HonestRow(row) ==
    /\ row.state = "delivered" =>
          row.method \in (IF row.big THEN {"direct"} ELSE {"opportunistic", "direct"})
    /\ row.state = "stored_on_node" => row.method = "propagated"

LEMMA HonestIfKept ==
    ASSUME NEW row, NEW new, SameOutcome(row, new), HonestRow(row)
    PROVE  HonestRow(new)
<1>1. CASE IsPending(row)
  <2>1. new.state \in PendingStates
    BY <1>1 DEF SameOutcome, IsPending
  <2> QED
    BY <2>1 DEF HonestRow, PendingStates
<1>2. CASE ~IsPending(row)
  <2>1. new.state = row.state /\ new.method = row.method /\ new.big = row.big
    BY <1>2 DEF SameOutcome
  <2> QED
    BY <2>1 DEF HonestRow
<1> QED
  BY <1>1, <1>2

\* The row that a truthful result settles is honest.
LEMMA HonestIfConcluded ==
    ASSUME QueueInvariant, NEW r \in Result, Truthful(r), Concluded(r),
           r.message.id \in DOMAIN messages
    PROVE  HonestRow(messages'[r.message.id])
<1> DEFINE id == r.message.id
           new == messages'[id]
<1>1. messages[id] \in Row /\ r.message = Pending(id)
  BY DEF QueueInvariant, TypeOK, CopiesAreCurrent, Concluded
<1>2. new = SetDelivery(messages[id], Status(r), r.method,
                        r.message.attempts + 1, NextAttempt(r))
  BY UpdateFacts DEF Concluded, Finished
<1> HIDE DEF new
<1>3. new.state = Status(r) /\ new.method = r.method /\ new.big = messages[id].big
  <2>1. /\ Status(r) \in PendingStates \cup OutboundFinalStates /\ r.method \in Methods
        /\ r.message.attempts + 1 \in Nat /\ NextAttempt(r) \in Int
    BY OutcomeTypes
  <2> QED
    BY <1>1, <1>2, <2>1, SetDeliveryFacts
<1>4. r.message.big = new.big
  BY <1>1, <1>3 DEF Pending
<1>5. new.state \in {"delivered", "stored_on_node"} => r.outcome = "ok"
  BY <1>3 DEF Status
<1>6. new.state = "stored_on_node" => r.method = "propagated"
  BY <1>3 DEF Status
<1>7. new.state = "delivered" => r.method # "propagated"
  BY <1>3, <1>5 DEF Status
<1>8. HonestRow(new)
  BY <1>3, <1>4, <1>5, <1>6, <1>7 DEF HonestRow, Truthful, Stages
<1> QED
  BY <1>8 DEF new

LEMMA NextOutcome ==
    ASSUME QueueInvariant, [Next]_vars PROVE OutcomeMatchesTransport'
<1> USE DEF QueueInvariant
<1>1. \A i \in DOMAIN messages : HonestRow(messages[i])
  BY DEF OutcomeMatchesTransport, HonestRow
<1>2. CASE TableKept(messages, messages')
  BY <1>1, <1>2, HonestIfKept DEF TableKept, OutcomeMatchesTransport, HonestRow
<1>3. CASE \E row \in Row : Accepted(row)
  <2>1. PICK row \in Row : Accepted(row)
    BY <1>3
  <2>2. HonestRow(row)
    BY <2>1 DEF Accepted, IsPending, PendingStates, HonestRow
  <2>3. \A i \in DOMAIN messages' :
           messages'[i] = row \/ (i \in DOMAIN messages /\ messages'[i] = messages[i])
    BY <2>1, InsertFacts DEF Accepted
  <2>4. \A i \in DOMAIN messages' : HonestRow(messages'[i])
    BY <1>1, <2>2, <2>3
  <2> QED
    BY <2>4 DEF OutcomeMatchesTransport, HonestRow
<1>4. CASE \E r \in Result : Truthful(r) /\ Concluded(r)
  <2>1. PICK r \in Result : Truthful(r) /\ Concluded(r)
    BY <1>4
  <2>2. DOMAIN messages' = DOMAIN messages
        /\ \A i \in DOMAIN messages : i # r.message.id => messages'[i] = messages[i]
    BY <2>1, UpdateFacts DEF Concluded, Finished
  <2>3. \A i \in DOMAIN messages' : HonestRow(messages'[i])
    BY <1>1, <2>1, <2>2, HonestIfConcluded
  <2> QED
    BY <2>3 DEF OutcomeMatchesTransport, HonestRow
<1> QED
  BY <1>2, <1>3, <1>4, StepShapes, KeptUnchanged DEF Quiet, Started, Dropped

LEMMA NextInvariant == QueueInvariant /\ [Next]_vars => QueueInvariant'
<1> SUFFICES ASSUME QueueInvariant, [Next]_vars PROVE QueueInvariant'
  OBVIOUS
<1>1. TypeOK' /\ SingleFlight' /\ ResultsAreTruthful'
  BY NextTypes, NextSingleFlight, NextTruthful DEF QueueInvariant
<1>2. FreshIds' /\ CopiesAreCurrent' /\ AttemptBudget' /\ OutcomeMatchesTransport'
  BY NextFreshIds, NextCopies, NextBudget, NextOutcome
<1> QED
  BY <1>1, <1>2 DEF QueueInvariant

LEMMA AlwaysInvariant == Spec => []QueueInvariant
BY InitInvariant, NextInvariant, PTL DEF Spec

\* The copy of a row that an attempt works on for minutes is still what the
\* row says when its result is written (network.rs:326-352, 1051).
THEOREM CopiesStayCurrent == Spec => []CopiesAreCurrent
BY AlwaysInvariant, PTL DEF QueueInvariant

\* Attempts are counted: transmissions exceed the stored count only by the
\* outcomes that a stop or a failed write lost, and nothing is tried after
\* MaxAttempts (network.rs:1051-1066).
THEOREM AttemptsAreCounted == Spec => []AttemptBudget
BY AlwaysInvariant, PTL DEF QueueInvariant

\* The state shown to the user names the transport that reached it: what is
\* too large for a packet is never shown delivered by one (network.rs:820-870).
THEOREM OutcomesAreHonest == Spec => []OutcomeMatchesTransport
BY AlwaysInvariant, PTL DEF QueueInvariant

-----------------------------------------------------------------------------
(* A message shown as being sent is being sent                             *)

LEMMA NextSendingIsOwned ==
    ASSUME QueueInvariant, SendingIsOwned, [Next]_vars PROVE SendingIsOwned'
<1> USE DEF QueueInvariant
<1>0. TableOK(messages, lastId)
  BY DEF TypeOK, TableOK
<1>1. CASE net' # "online"
  BY <1>1 DEF SendingIsOwned
<1>2. ASSUME net' = net, InFlight' = InFlight, stranded' = stranded,
             \A i \in DOMAIN messages' :
                messages'[i].state = "sending" =>
                    i \in DOMAIN messages /\ messages[i].state = "sending"
      PROVE  SendingIsOwned'
  BY <1>2 DEF SendingIsOwned
<1>3. CASE Recover
  <2>1. ASSUME net' = "online", NEW i \in DOMAIN messages'
        PROVE  messages'[i].state # "sending"
    <3>1. messages' = RecoverInterrupted(messages)
      BY <1>3, <2>1 DEF Recover
    <3>2. i \in DOMAIN messages /\ messages[i] \in Row
      BY <1>0, <2>1, <3>1 DEF RecoverInterrupted, TableOK
    <3>3. messages[i].outbound
      BY <3>2, Zenon DEF Row
    <3>4. messages[i].method \in Methods /\ messages[i].attempts \in Nat /\ 0 \in Int
          /\ "retrying" \in PendingStates \cup OutboundFinalStates
      BY <3>2 DEF Row, PendingStates
    <3>5. RetryNow(messages[i]).state = "retrying"
      BY <3>2, <3>4, SetDeliveryFacts DEF RetryNow
    <3> QED
      BY <3>1, <3>2, <3>3, <3>5 DEF RecoverInterrupted
  <2> QED
    BY <2>1 DEF SendingIsOwned
<1>4. CASE Elapse
  <2>1. ASSUME NEW i \in DOMAIN messages' 
        PROVE  i \in DOMAIN messages /\ messages'[i].state = messages[i].state
    BY <1>0, <1>4, <2>1 DEF Elapse, Age, TableOK, Row
  <2> QED
    BY <1>2, <1>4, <2>1 DEF Elapse, loop, history, InFlight, FlightIds, ResultIds
<1>5. ASSUME NEW peer \in Peers, ClearCommit(peer) PROVE SendingIsOwned'
  <2>1. ASSUME NEW i \in DOMAIN messages' 
        PROVE  i \in DOMAIN messages /\ messages'[i] = messages[i]
    BY <1>5, <2>1 DEF ClearCommit, ClearConversation, Restrict
  <2> QED
    BY <1>2, <1>5, <2>1 DEF ClearCommit, loop, history, InFlight, FlightIds, ResultIds
<1>6. CASE QueueOutbound
  <2>1. ASSUME NEW i \in DOMAIN messages', messages'[i].state = "sending"
        PROVE  i \in DOMAIN messages /\ messages[i].state = "sending"
    <3>1. CASE messages' = messages
      BY <2>1, <3>1
    <3>2. ASSUME NEW timestamp \in Timestamps,
                 messages' = InsertMessage(messages, lastId + 1,
                                           NewRow(Head(commands), timestamp))
          PROVE  i \in DOMAIN messages /\ messages[i].state = "sending"
      <4>1. /\ IsPending(NewRow(Head(commands), timestamp))
            /\ NewRow(Head(commands), timestamp).state # "sending"
        BY DEF NewRow, IsPending, PendingStates
      <4> QED
        BY <2>1, <3>2, <4>1, InsertFacts
    <3> QED
      BY <1>6, <3>1, <3>2 DEF QueueOutbound, rows
  <2> QED
    BY <1>2, <1>6, <2>1 DEF QueueOutbound, history, InFlight, FlightIds, ResultIds
<1>7. CASE StartAttempt
  <2>1. PICK i \in NextDue(messages) :
          /\ \/ messages' = UpdateDelivery(messages, i, "sending", messages[i].method,
                                           messages[i].attempts, Lease)
             \/ messages' = messages
          /\ flights' = flights \cup
                {[message |-> Pending(i), stage |-> FirstStage(messages[i].method)]}
          /\ stranded' = stranded \ {i}
    BY <1>7 DEF StartAttempt
  <2>2. net = "online" /\ flights = {} /\ results = << >> /\ results' = << >>
    BY <1>7 DEF StartAttempt, MayAttempt, SingleFlight
  <2>3. InFlight = {} /\ i \in InFlight'
    <3>1. InFlight = {}
      BY <1>7, HeldCases DEF StartAttempt, MayAttempt
    <3> DEFINE f == [message |-> Pending(i), stage |-> FirstStage(messages[i].method)]
    <3>2. f \in flights' /\ f.message.id = i
      BY <2>1 DEF Pending
    <3> HIDE DEF f
    <3>3. i \in FlightIds'
      BY <3>2 DEF FlightIds
    <3> QED
      BY <3>1, <3>3 DEF InFlight
  <2>4. ASSUME NEW j \in DOMAIN messages', messages'[j].state = "sending", j # i
        PROVE  j \in stranded'
    <3>1. j \in DOMAIN messages /\ messages'[j] = messages[j]
      BY <2>1, <2>4, UpdateFacts
    <3>2. j \in stranded
      BY <2>2, <2>3, <2>4, <3>1 DEF SendingIsOwned
    <3> QED
      BY <2>1, <2>4, <3>2
  <2> QED
    BY <2>3, <2>4 DEF SendingIsOwned
<1>8. CASE FinishOutbound
  <2> DEFINE r == Head(results)
             id == r.message.id
  <2>1. r \in Result /\ InFlight = {id} /\ net = "online"
    BY <1>8, HandledResult, HeldCases DEF FinishOutbound
  <2>2. CASE stranded' = stranded \cup {id} /\ messages' = messages
    BY <2>1, <2>2 DEF SendingIsOwned
  <2>3. CASE messages' = Finished(messages, r) /\ stranded' = stranded
    <3>1. ASSUME NEW j \in DOMAIN messages', messages'[j].state = "sending", j # id
          PROVE  j \in stranded'
      BY <2>1, <2>3, <3>1, UpdateFacts DEF Finished, SendingIsOwned
    <3>2. ASSUME id \in DOMAIN messages' PROVE messages'[id].state # "sending"
      <4>1. id \in DOMAIN messages /\ messages[id] \in Row
        BY <1>0, <2>3, <3>2, UpdateFacts DEF Finished, TableOK
      <4>2. messages'[id] = SetDelivery(messages[id], Status(r), r.method,
                                        r.message.attempts + 1, NextAttempt(r))
        BY <2>3, <4>1, UpdateFacts DEF Finished
      <4>3. /\ Status(r) \in PendingStates \cup OutboundFinalStates /\ r.method \in Methods
            /\ r.message.attempts + 1 \in Nat /\ NextAttempt(r) \in Int
            /\ Status(r) # "sending"
        BY <2>1, OutcomeTypes
      <4> QED
        BY <4>1, <4>2, <4>3, SetDeliveryFacts
    <3> QED
      BY <3>1, <3>2 DEF SendingIsOwned
  <2> QED
    BY <1>8, <2>2, <2>3 DEF FinishOutbound
<1>9. CASE Attempt
  BY <1>2, <1>9, AttemptHolds DEF Attempt, rows, history
<1>10. CASE UNCHANGED <<messages, net, flights, results, stranded>>
  BY <1>2, <1>10 DEF InFlight, FlightIds, ResultIds
<1> QED
  BY <1>1, <1>3, <1>4, <1>5, <1>6, <1>7, <1>8, <1>9, <1>10
     DEF Next, Start, Stop, SendMessage, ClearCheck, QueueUnreadable, rows, loop,
         history, vars

LEMMA InitSendingIsOwned == Init => SendingIsOwned
BY DEF Init, SendingIsOwned

\* While the loop runs, a message shown as being sent is held by an attempt,
\* unless the result of its attempt could not be written: what an earlier
\* process left behind was recovered (db.rs:996).
THEOREM SendingStaysOwned == Spec => []SendingIsOwned
BY AlwaysInvariant, InitSendingIsOwned, NextSendingIsOwned, PTL DEF Spec

-----------------------------------------------------------------------------
(* Final states are final                                                  *)

FinalRowsKept ==
    \A i \in DOMAIN messages \cap DOMAIN messages' :
        ~IsPending(messages[i]) =>
            /\ messages'[i].state = messages[i].state
            /\ messages'[i].method = messages[i].method
            /\ messages'[i].attempts = messages[i].attempts

LEMMA StepKeepsFinal ==
    ASSUME QueueInvariant, [Next]_vars PROVE FinalRowsKept
<1> USE DEF QueueInvariant
<1>1. CASE TableKept(messages, messages')
  BY <1>1 DEF TableKept, SameOutcome, FinalRowsKept
<1>2. CASE \E row \in Row : Accepted(row)
  <2>1. PICK row \in Row : Accepted(row)
    BY <1>2
  <2>2. lastId + 1 \notin DOMAIN messages
    BY DEF TypeOK
  <2>3. \A i \in DOMAIN messages \cap DOMAIN messages' : messages'[i] = messages[i]
    BY <2>1, <2>2, InsertFacts DEF Accepted
  <2> QED
    BY <2>3 DEF FinalRowsKept
<1>3. CASE \E r \in Result : Concluded(r)
  <2>1. PICK r \in Result : Concluded(r)
    BY <1>3
  <2>2. r.message.id \in DOMAIN messages => IsPending(messages[r.message.id])
    BY <2>1 DEF Concluded, CopiesAreCurrent
  <2>3. \A i \in DOMAIN messages : i # r.message.id => messages'[i] = messages[i]
    BY <2>1, UpdateFacts DEF Concluded, Finished
  <2> QED
    BY <2>2, <2>3 DEF FinalRowsKept
<1> QED
  BY <1>1, <1>2, <1>3, StepShapes, KeptUnchanged DEF Quiet, Started, Dropped

\* A message that was delivered, stored on a node or given up never changes
\* again: no late result and no restart revives it (network.rs:1050, db.rs:996).
THEOREM FinalStaysFinal == Spec => FinalIsFinal
<1>1. QueueInvariant /\ [Next]_vars => [FinalRowsKept]_vars
  BY StepKeepsFinal
<1> QED
  BY <1>1, AlwaysInvariant, PTL DEF Spec, FinalIsFinal, FinalRowsKept

-----------------------------------------------------------------------------
(* A retry waits out its delay                                             *)

\* No row is due before Epoch, so the wait that Later leaves of an unchanged
\* row is never more than it was.
DueIsKnown == \A i \in DOMAIN messages : messages[i].due >= Epoch

\* What an attempt holds was due when the attempt began; it may still say
\* "retrying" when marking it as being sent failed.
HeldIsDue ==
    \A m \in Held :
        m.id \in DOMAIN messages /\ messages[m.id].state = "retrying" => messages[m.id].due <= 0

DueInvariant == DueIsKnown /\ HeldIsDue

\* What a step does to the wait of one row ...
WaitKept(row, new) ==
    /\ new.due >= Epoch
    /\ row.state = "retrying" /\ new.state = "retrying" => new.due >= Later(row.due)

\* ... and, but for the result of its attempt, to a row that is due.
DueKept(row, new) ==
    new.state = "retrying" /\ (row.state = "retrying" => row.due <= 0) => new.due <= 0

RowsWait == \A i \in DOMAIN messages \cap DOMAIN messages' : WaitKept(messages[i], messages'[i])

RowsStayDue == \A i \in DOMAIN messages \cap DOMAIN messages' : DueKept(messages[i], messages'[i])

LEMMA LaterBounds ==
    ASSUME NEW due \in Int, due >= Epoch
    PROVE  /\ Later(due) \in Int /\ Later(due) >= Epoch /\ Later(due) <= due
           /\ due <= 0 => Later(due) <= 0
BY HorizonAssumption DEF Later, Epoch

LEMMA UnchangedWait ==
    ASSUME NEW row \in Row, row.due >= Epoch PROVE WaitKept(row, row) /\ DueKept(row, row)
<1>1. row.due \in Int
  BY DEF Row
<1> QED
  BY <1>1, LaterBounds DEF WaitKept, DueKept

LEMMA AgedWait ==
    ASSUME NEW row \in Row, row.due >= Epoch
    PROVE  LET new == [row EXCEPT !.due = Later(@)] IN WaitKept(row, new) /\ DueKept(row, new)
<1>1. row.due \in Int
  BY DEF Row
<1>2. [row EXCEPT !.due = Later(@)].due = Later(row.due) /\ [row EXCEPT !.due = Later(@)].state = row.state
  BY DEF Row
<1> QED
  BY <1>1, <1>2, LaterBounds DEF WaitKept, DueKept

LEMMA RetriedWait ==
    ASSUME NEW row \in Row, row.state = "sending"
    PROVE  WaitKept(row, RetryNow(row)) /\ DueKept(row, RetryNow(row))
<1>1. /\ "retrying" \in PendingStates \cup OutboundFinalStates
      /\ row.method \in Methods /\ row.attempts \in Nat /\ 0 \in Int
  BY DEF Row, PendingStates
<1>2. RetryNow(row).due = 0
  BY <1>1, SetDeliveryFacts DEF RetryNow
<1> QED
  BY <1>2, HorizonAssumption DEF WaitKept, DueKept, Epoch

LEMMA SentWait ==
    ASSUME NEW row \in Row
    PROVE  LET new == SetDelivery(row, "sending", row.method, row.attempts, Lease)
           IN  WaitKept(row, new) /\ DueKept(row, new)
<1> DEFINE new == SetDelivery(row, "sending", row.method, row.attempts, Lease)
<1>1. /\ "sending" \in PendingStates \cup OutboundFinalStates
      /\ row.method \in Methods /\ row.attempts \in Nat /\ Lease \in Nat
  BY OutboundAssumption DEF Row, PendingStates
<1>2. new.due = Lease /\ new.state = "sending"
  BY <1>1, SetDeliveryFacts
<1> QED
  BY <1>1, <1>2, HorizonAssumption DEF WaitKept, DueKept, Epoch

LEMMA InitDue == Init => DueInvariant
BY HeldCases DEF Init, DueInvariant, DueIsKnown, HeldIsDue, Held

\* Whatever a step does to the rows, the strengthening follows for those that
\* are still held.
LEMMA DueFollows ==
    ASSUME DueInvariant, RowsWait, RowsStayDue, DOMAIN messages' \subseteq DOMAIN messages,
           Held' \subseteq Held
    PROVE  DueInvariant'
<1>1. DueIsKnown'
  BY DEF DueIsKnown, RowsWait, WaitKept
<1>2. ASSUME NEW m \in Held', m.id \in DOMAIN messages', messages'[m.id].state = "retrying"
      PROVE  messages'[m.id].due <= 0
  <2>1. m.id \in DOMAIN messages \cap DOMAIN messages' /\ m \in Held
    BY <1>2
  <2> QED
    BY <1>2, <2>1 DEF DueInvariant, HeldIsDue, RowsStayDue, DueKept
<1> QED
  BY <1>1, <1>2 DEF DueInvariant, HeldIsDue

LEMMA UnchangedRows ==
    ASSUME TypeOK, DueInvariant,
           \A i \in DOMAIN messages \cap DOMAIN messages' : messages'[i] = messages[i]
    PROVE  RowsWait /\ RowsStayDue
BY UnchangedWait DEF TypeOK, DueInvariant, DueIsKnown, RowsWait, RowsStayDue

\* A statement of the loop or a second of time that changes some rows.
LEMMA NextDueRows ==
    ASSUME TypeOK, DueInvariant, Recover \/ Elapse
    PROVE  RowsWait /\ RowsStayDue /\ DOMAIN messages' = DOMAIN messages
<1>1. \A i \in DOMAIN messages : messages[i] \in Row /\ messages[i].due >= Epoch
  BY DEF TypeOK, DueInvariant, DueIsKnown
<1>2. CASE messages' = RecoverInterrupted(messages)
  BY <1>1, <1>2, RetriedWait, UnchangedWait DEF RecoverInterrupted, RowsWait, RowsStayDue
<1>3. CASE messages' = Age(messages)
  BY <1>1, <1>3, AgedWait DEF Age, RowsWait, RowsStayDue
<1>4. CASE UNCHANGED messages
  BY <1>4, UnchangedRows
<1> QED
  BY <1>2, <1>3, <1>4 DEF Recover, Elapse

LEMMA StartDue ==
    ASSUME TypeOK, SingleFlight, DueInvariant, StartAttempt
    PROVE  DueInvariant' /\ RowsWait
<1> USE DEF TypeOK, DueInvariant, DueIsKnown
<1>1. PICK i \in NextDue(messages) :
        /\ \/ messages' = UpdateDelivery(messages, i, "sending", messages[i].method,
                                          messages[i].attempts, Lease)
           \/ UNCHANGED messages
        /\ flights' = flights \cup
              {[message |-> Pending(i), stage |-> FirstStage(messages[i].method)]}
  BY DEF StartAttempt
<1>2. i \in DOMAIN messages /\ messages[i].due <= 0
  BY DEF NextDue, DueIds, PendingIds
<1>3. flights = {} /\ results = << >> /\ results' = << >>
  BY DEF StartAttempt, MayAttempt, SingleFlight
<1>4. Held' = {Pending(i)} /\ Pending(i).id = i
  BY <1>1, <1>3 DEF Held, Pending
<1>5. RowsWait /\ RowsStayDue /\ DOMAIN messages' = DOMAIN messages
  <2>1. CASE UNCHANGED messages
    BY <2>1, UnchangedRows
  <2>2. CASE messages' = UpdateDelivery(messages, i, "sending", messages[i].method,
                                        messages[i].attempts, Lease)
    <3>1. \A j \in DOMAIN messages : j # i => messages'[j] = messages[j]
      BY <2>2, UpdateFacts
    <3>2. DOMAIN messages' = DOMAIN messages
          /\ messages'[i] = SetDelivery(messages[i], "sending", messages[i].method,
                                        messages[i].attempts, Lease)
      BY <1>2, <2>2, UpdateFacts
    <3> QED
      BY <1>2, <3>1, <3>2, SentWait, UnchangedWait DEF RowsWait, RowsStayDue
  <2> QED
    BY <1>1, <2>1, <2>2
<1>6. DueIsKnown'
  BY <1>5 DEF RowsWait, WaitKept
<1>7. HeldIsDue'
  BY <1>2, <1>4, <1>5 DEF HeldIsDue, RowsStayDue, DueKept
<1> QED
  BY <1>5, <1>6, <1>7

LEMMA FinishDue ==
    ASSUME TypeOK, SingleFlight, DueInvariant, FinishOutbound
    PROVE  DueInvariant' /\ RowsWait
<1> DEFINE r == Head(results)
           i == r.message.id
<1>1. flights = {} /\ results' = << >> /\ r \in Result /\ r = results[1] /\ 1 \in DOMAIN results
  BY HandledResult
<1>2. Held' = {} /\ r.message \in Held
  BY <1>1 DEF FinishOutbound, Held
<1>3. CASE UNCHANGED messages
  BY <1>2, <1>3, UnchangedRows, DueFollows
<1>4. CASE messages' = Finished(messages, r)
  <2>1. /\ DOMAIN messages' = DOMAIN messages
        /\ \A j \in DOMAIN messages : messages'[j] =
              IF j = i THEN SetDelivery(messages[j], Status(r), r.method, r.message.attempts + 1, NextAttempt(r))
              ELSE messages[j]
    BY <1>4, UpdateFacts DEF Finished
  <2>2. NextAttempt(r) \in Int /\ NextAttempt(r) >= Epoch
        /\ (Status(r) = "retrying" => NextAttempt(r) >= 0)
    <3>1. r.message.attempts + 1 \in Nat \ {0}
      BY <1>1 DEF Result, PendingMessage
    <3> QED
      BY <3>1, BackoffIsDelay, HorizonAssumption DEF NextAttempt, Epoch
  <2>3. ASSUME i \in DOMAIN messages PROVE WaitKept(messages[i], messages'[i])
    <3>1. messages[i] \in Row /\ messages[i].due \in Int /\ messages[i].due >= Epoch
      BY <2>3 DEF TypeOK, DueInvariant, DueIsKnown, Row
    <3>2. messages'[i].due = NextAttempt(r) /\ messages'[i].state = Status(r)
      BY <1>1, <2>1, <2>3, <3>1, OutcomeTypes, SetDeliveryFacts
    <3>3. messages[i].state = "retrying" => messages[i].due <= 0
      BY <1>2, <2>3 DEF DueInvariant, HeldIsDue
    <3> QED
      BY <2>2, <3>1, <3>2, <3>3, LaterBounds DEF WaitKept
  <2>4. RowsWait
    BY <2>1, <2>3, UnchangedWait DEF RowsWait, TypeOK, DueInvariant, DueIsKnown
  <2>5. DueIsKnown'
    BY <2>1, <2>4 DEF RowsWait, WaitKept, DueIsKnown
  <2> QED
    BY <1>2, <2>4, <2>5 DEF DueInvariant, HeldIsDue
<1> QED
  BY <1>3, <1>4 DEF FinishOutbound

LEMMA QueueDue ==
    ASSUME TypeOK, SingleFlight, CopiesAreCurrent, DueInvariant, QueueOutbound
    PROVE  DueInvariant' /\ RowsWait
<1>1. Held' = Held
  BY DEF QueueOutbound, Held
<1>2. CASE UNCHANGED messages
  BY <1>1, <1>2, UnchangedRows, DueFollows
<1>3. CASE ~UNCHANGED messages
  <2>1. PICK timestamp \in Timestamps :
          messages' = InsertMessage(messages, lastId + 1, NewRow(Head(commands), timestamp))
    BY <1>3 DEF QueueOutbound, rows
  <2> DEFINE row == NewRow(Head(commands), timestamp)
  <2>2. IsPending(row) /\ row.due = Epoch /\ row.state = "queued" /\ Epoch \in Int
    BY HorizonAssumption DEF NewRow, IsPending, PendingStates, Epoch
  <2>3. lastId \in Nat /\ lastId + 1 \notin DOMAIN messages
    BY DEF TypeOK
  <2> HIDE DEF row
  <2>4. /\ messages'[lastId + 1] = row
        /\ \A i \in DOMAIN messages' : i # lastId + 1 => i \in DOMAIN messages /\ messages'[i] = messages[i]
    BY <2>1, <2>2, InsertFacts DEF row
  <2>5. RowsWait
    BY <2>3, <2>4, UnchangedRows
  <2>6. DueIsKnown'
    BY <2>2, <2>4 DEF DueInvariant, DueIsKnown
  <2>7. HeldIsDue'
    <3> SUFFICES ASSUME NEW m \in Held, m.id \in DOMAIN messages', messages'[m.id].state = "retrying"
                 PROVE  messages'[m.id].due <= 0
      BY <1>1 DEF HeldIsDue
    <3>1. m.id # lastId + 1
      BY <2>2, <2>4
    <3> QED
      BY <2>4, <3>1 DEF DueInvariant, HeldIsDue
  <2> QED
    BY <2>5, <2>6, <2>7 DEF DueInvariant
<1> QED
  BY <1>2, <1>3

LEMMA NextDueKept ==
    ASSUME TypeOK, SingleFlight, DueInvariant, CopiesAreCurrent, [Next]_vars
    PROVE  DueInvariant' /\ RowsWait
<1>1. ASSUME UNCHANGED <<messages, flights, results>> PROVE DueInvariant' /\ RowsWait
  BY <1>1, UnchangedRows, DueFollows DEF Held
<1>2. CASE Start
  BY <1>1, <1>2 DEF Start, rows, loop
<1>3. CASE Recover \/ Elapse
  BY <1>3, NextDueRows, DueFollows DEF Recover, Elapse, loop, Held
<1>4. CASE Stop
  BY <1>4, UnchangedRows, DueFollows DEF Stop, rows, DropLoop, Held
<1>5. ASSUME NEW peer \in Peers, NEW method \in Requested, NEW big \in BOOLEAN,
             SendMessage(peer, method, big)
      PROVE  DueInvariant' /\ RowsWait
  BY <1>1, <1>5 DEF SendMessage, rows
<1>6. ASSUME NEW peer \in Peers, ClearCheck(peer) PROVE DueInvariant' /\ RowsWait
  BY <1>1, <1>6 DEF ClearCheck, rows, loop
<1>7. ASSUME NEW peer \in Peers, ClearCommit(peer) PROVE DueInvariant' /\ RowsWait
  <2>1. \A i \in DOMAIN messages' : i \in DOMAIN messages /\ messages'[i] = messages[i]
    BY <1>7 DEF ClearCommit, ClearConversation, Restrict
  <2>2. Held' = Held
    BY <1>7 DEF ClearCommit, loop, Held
  <2> QED
    BY <2>1, <2>2, UnchangedRows, DueFollows
<1>8. CASE QueueUnreadable
  BY <1>8, UnchangedRows, DueFollows DEF QueueUnreadable, rows, DropLoop, Held
<1>9. CASE Attempt
  BY <1>9, AttemptHolds, UnchangedRows, DueFollows DEF Attempt, rows
<1>10. CASE UNCHANGED vars
  BY <1>1, <1>10 DEF vars, rows, loop
<1> QED
  BY <1>2, <1>3, <1>4, <1>5, <1>6, <1>7, <1>8, <1>9, <1>10, QueueDue, StartDue, FinishDue DEF Next

\* Neither a restart nor the handling of another message brings a retry
\* forward: a retrying message waits out its delay (network.rs:1066).
THEOREM RetriesWaitTheirDelay == Spec => BackoffIsKept
<1>1. RowsWait => \A i \in DOMAIN messages \cap DOMAIN messages' :
          /\ messages[i].state = "retrying"
          /\ messages'[i].state = "retrying"
          => messages'[i].due >= Later(messages[i].due)
  BY DEF RowsWait, WaitKept
<1>2. QueueInvariant /\ DueInvariant /\ [Next]_vars => DueInvariant' /\ RowsWait
  BY NextDueKept DEF QueueInvariant
<1> QED
  BY <1>1, <1>2, AlwaysInvariant, InitDue, PTL DEF Spec, BackoffIsKept

-----------------------------------------------------------------------------
(* The prune spares the queue                                              *)

LEMMA LeastNumber ==
    ASSUME NEW T, T \subseteq Nat, T # {}
    PROVE  \E x \in T : \A y \in T : x <= y
<1> DEFINE R == OpToRel(<, Nat)
<1>1. IsWellFoundedOn(R, Nat)
  BY NatLessThanWellFounded
<1>2. ASSUME NEW x \in Nat, NEW y \in Nat, <<x, y>> \notin R PROVE y <= x
  BY <1>2 DEF OpToRel
<1> HIDE DEF R
<1>3. PICK x \in T : \A y \in T : <<y, x>> \notin R
  BY <1>1, WFMin
<1> QED
  BY <1>2, <1>3

\* The rows before a row, newest first, are before every row after it.
LEMMA OrderFacts ==
    ASSUME NEW t, NEW last \in Nat, TableOK(t, last), NEW i \in DOMAIN t
    PROVE  /\ IsFiniteSet(NewerThan(t, i)) /\ Cardinality(NewerThan(t, i)) \in Nat
           /\ NewerThan(t, i) \subseteq DOMAIN t /\ i \notin NewerThan(t, i)
           /\ \A j \in NewerThan(t, i) :
                 /\ NewerThan(t, j) \subseteq NewerThan(t, i)
                 /\ Cardinality(NewerThan(t, j)) < Cardinality(NewerThan(t, i))
<1>1. IsFiniteSet(DOMAIN t)
  BY FS_Interval, FS_Subset DEF TableOK
<1>0. ASSUME NEW j \in DOMAIN t PROVE j \in Int /\ t[j].timestamp \in Int
  <2>1. t[j] \in Row /\ j \in 1..last
    BY DEF TableOK
  <2>2. t[j].timestamp \in Timestamps
    BY <2>1 DEF Row
  <2> QED
    <3>1. t[j].timestamp \in Int
      BY <2>2, OutboundAssumption
    <3>2. j \in Int
      BY <2>1
    <3> QED
      BY <3>1, <3>2
<1>2. \A j \in DOMAIN t : NewerThan(t, j) \subseteq DOMAIN t /\ j \notin NewerThan(t, j)
  BY <1>0 DEF NewerThan, ComesBefore
<1>3. \A j \in DOMAIN t : IsFiniteSet(NewerThan(t, j)) /\ Cardinality(NewerThan(t, j)) \in Nat
  BY <1>1, <1>2, FS_Subset, FS_CardinalityType
<1>4. ASSUME NEW j \in NewerThan(t, i)
      PROVE  /\ NewerThan(t, j) \subseteq NewerThan(t, i)
             /\ Cardinality(NewerThan(t, j)) < Cardinality(NewerThan(t, i))
  <2>1. ASSUME NEW k \in NewerThan(t, j) PROVE k \in NewerThan(t, i)
    <3>1. /\ i \in DOMAIN t /\ j \in DOMAIN t /\ k \in DOMAIN t
          /\ ComesBefore(t[j], j, t[i], i) /\ ComesBefore(t[k], k, t[j], j)
      BY DEF NewerThan
    <3>2. /\ t[i].timestamp \in Int /\ t[j].timestamp \in Int /\ t[k].timestamp \in Int
          /\ i \in Int /\ j \in Int /\ k \in Int
      BY <1>0, <3>1
    <3>3. ComesBefore(t[k], k, t[i], i)
      BY <3>1, <3>2 DEF ComesBefore
    <3> QED
      BY <3>1, <3>3 DEF NewerThan
  <2>2. j \in DOMAIN t /\ j \notin NewerThan(t, j) /\ NewerThan(t, j) # NewerThan(t, i)
    BY <1>2
  <2> QED
    BY <1>3, <2>1, <2>2, FS_Subset
<1> QED
  BY <1>2, <1>3, <1>4

\* A row is dropped only for HistoryLimit newer rows of its conversation that
\* stay: the newest dropped row before it would otherwise have been kept.
LEMMA EnoughStay ==
    ASSUME NEW t, NEW last \in Nat, TableOK(t, last), NEW peer,
           NEW i \in DOMAIN t, i \notin Retained(t, peer)
    PROVE  Cardinality(NewerThan(t, i) \cap Retained(t, peer)) >= HistoryLimit
<1> DEFINE Staying == NewerThan(t, i) \cap Retained(t, peer)
           Lost == NewerThan(t, i) \ Retained(t, peer)
           Rank(j) == Cardinality(NewerThan(t, j))
<1>1. IsFiniteSet(Staying) /\ Cardinality(Staying) \in Nat
  BY OrderFacts, FS_Subset, FS_CardinalityType
<1>2. \A j \in DOMAIN t : Rank(j) \in Nat
  BY OrderFacts
<1>3. ~(Rank(i) < HistoryLimit)
  BY DEF Retained
<1> SUFFICES ASSUME Cardinality(Staying) < HistoryLimit PROVE FALSE
  BY <1>1, HistoryLimitAssumption
<1>4. Lost # {}
  <2>1. Lost = {} => Staying = NewerThan(t, i)
    OBVIOUS
  <2> QED
    BY <1>3, <2>1
<1>5. Lost \subseteq DOMAIN t
  BY OrderFacts
<1>6. PICK j \in Lost : \A k \in Lost : Rank(j) <= Rank(k)
  <2> DEFINE Ranks == {Rank(k) : k \in Lost}
  <2>1. Ranks \subseteq Nat /\ Ranks # {}
    BY <1>2, <1>4, <1>5
  <2>2. PICK x \in Ranks : \A y \in Ranks : x <= y
    BY <2>1, LeastNumber
  <2> QED
    BY <2>2
<1>7. NewerThan(t, j) \subseteq Staying
  <2> SUFFICES ASSUME NEW k \in NewerThan(t, j), k \in Lost PROVE FALSE
    BY OrderFacts
  <2>1. Rank(k) < Rank(j)
    BY <1>5, OrderFacts
  <2> QED
    BY <1>2, <1>5, <1>6, <2>1
<1>8. Rank(j) < HistoryLimit
  BY <1>1, <1>2, <1>5, <1>7, FS_Subset, HistoryLimitAssumption
<1> QED
  BY <1>5, <1>8 DEF Retained

RetentionStep ==
    lastId' # lastId =>
          /\ lastId' \in DOMAIN messages'
          /\ \A i \in DOMAIN messages \ DOMAIN messages' :
                /\ ~IsPending(messages[i])
                /\ Cardinality({j \in DOMAIN messages' :
                        ComesBefore(messages'[j], j, messages[i], i)}) >= HistoryLimit
          /\ \A i \in Conversation(messages', messages'[lastId'].peer)
                    \ PendingIds(messages') :
                Cardinality(NewerThan(messages', i)) < HistoryLimit

LEMMA StepSparesQueue == ASSUME QueueInvariant, [Next]_vars PROVE RetentionStep
<1> SUFFICES ASSUME lastId' # lastId PROVE RetentionStep
  BY DEF RetentionStep
<1>1. PICK row \in Row : Accepted(row)
  BY StepShapes DEF QueueInvariant, Quiet, Started, Dropped, Concluded
<1> DEFINE id == lastId + 1
           added == AddRow(messages, id, row)
<1>2. /\ lastId' = id /\ lastId' \in Nat
      /\ messages' = PruneHistory(added, row.peer)
  BY <1>1 DEF Accepted, InsertMessage, QueueInvariant, TypeOK
<1>3. /\ DOMAIN added = DOMAIN messages \cup {id} /\ added[id] = row
      /\ \A i \in DOMAIN messages : i # id /\ added[i] = messages[i]
  BY DEF AddRow, QueueInvariant, TypeOK
<1>4. TableOK(added, lastId')
  <2>1. lastId \in Nat /\ DOMAIN messages \subseteq 1..lastId
        /\ \A i \in DOMAIN messages : messages[i] \in Row
    BY DEF QueueInvariant, TypeOK
  <2>2. DOMAIN added \subseteq 1..lastId'
    BY <1>2, <1>3, <2>1
  <2>3. \A i \in DOMAIN added : added[i] \in Row
    BY <1>3, <2>1
  <2> QED
    BY <2>2, <2>3 DEF TableOK
<1> HIDE DEF added, id
<1>5. /\ DOMAIN messages' = Retained(added, row.peer) /\ DOMAIN messages' \subseteq DOMAIN added
      /\ \A i \in DOMAIN messages' : messages'[i] = added[i]
  BY <1>2, RetainedFacts DEF PruneHistory, Restrict
<1>6. id \in DOMAIN messages' /\ messages'[id] = row
  BY <1>1, <1>3, <1>5 DEF Retained, Accepted
<1>7. ASSUME NEW i \in DOMAIN messages, i \notin DOMAIN messages'
      PROVE  /\ ~IsPending(messages[i])
             /\ Cardinality({j \in DOMAIN messages' :
                    ComesBefore(messages'[j], j, messages[i], i)}) >= HistoryLimit
  <2>1. i \in DOMAIN added /\ i \notin Retained(added, row.peer) /\ added[i] = messages[i]
    BY <1>3, <1>5, <1>7
  <2>2. {j \in DOMAIN messages' : ComesBefore(messages'[j], j, messages[i], i)}
          = NewerThan(added, i) \cap Retained(added, row.peer)
    BY <1>5, <2>1 DEF NewerThan
  <2> QED
    BY <1>2, <1>4, <2>1, <2>2, EnoughStay DEF Retained
<1>8. ASSUME NEW i \in Conversation(messages', row.peer) \ PendingIds(messages')
      PROVE  Cardinality(NewerThan(messages', i)) < HistoryLimit
  <2>1. i \in Retained(added, row.peer) /\ i \in DOMAIN added
        /\ added[i].peer = row.peer /\ ~IsPending(added[i])
    BY <1>5 DEF Conversation, PendingIds
  <2>2. Cardinality(NewerThan(added, i)) < HistoryLimit
    BY <2>1 DEF Retained
  <2>3. NewerThan(messages', i) \subseteq NewerThan(added, i)
    BY <1>5, <2>1 DEF NewerThan, Conversation
  <2>4. IsFiniteSet(NewerThan(added, i)) /\ Cardinality(NewerThan(added, i)) \in Nat
    BY <1>2, <1>4, <2>1, OrderFacts
  <2>5. Cardinality(NewerThan(messages', i)) <= Cardinality(NewerThan(added, i))
        /\ Cardinality(NewerThan(messages', i)) \in Nat
    BY <2>3, <2>4, FS_Subset, FS_CardinalityType
  <2> QED
    BY <2>2, <2>4, <2>5, HistoryLimitAssumption
<1> QED
  BY <1>2, <1>6, <1>7, <1>8 DEF RetentionStep

\* Accepting a message never drops one awaiting delivery, drops another only
\* for HistoryLimit newer ones that stay, and leaves none too old in its
\* conversation (db.rs:1096).
THEOREM AcceptingSparesQueue == Spec => RetentionSparesQueue
<1>1. QueueInvariant /\ [Next]_vars => [RetentionStep]_vars
  BY StepSparesQueue
<1> QED
  BY <1>1, AlwaysInvariant, PTL DEF Spec, RetentionSparesQueue, RetentionStep

-----------------------------------------------------------------------------
(* Transmissions are bounded                                               *)

\* Every transmission that finish_outbound does not count is lost with a stop
\* or a failed statement, whatever became of the row since.
SendsAreBounded ==
    \A i \in Ids :
        /\ unrecorded[i] <= faults + stops
        /\ sends[i] <= MaxAttempts + faults + stops

LEMMA LossesAreCounted ==
    ASSUME TypeOK, DropLoop \/ Unrecord({Head(results).message.id}),
           faults' + stops' = faults + stops + 1, UNCHANGED sends, SendsAreBounded, TypeOK'
    PROVE  SendsAreBounded'
<1> SUFFICES ASSUME NEW i \in Ids
             PROVE  /\ unrecorded'[i] <= faults' + stops'
                    /\ sends'[i] <= MaxAttempts + faults' + stops'
  BY DEF SendsAreBounded
<1>1. /\ faults \in Nat /\ stops \in Nat /\ faults' \in Nat /\ stops' \in Nat
      /\ unrecorded[i] \in Nat /\ sends[i] \in Nat /\ MaxAttempts \in Nat
  BY OutboundAssumption DEF TypeOK
<1>2. unrecorded'[i] \in {unrecorded[i], unrecorded[i] + 1}
  BY DEF DropLoop, Unrecord
<1>3. unrecorded[i] <= faults + stops /\ sends[i] <= MaxAttempts + faults + stops
  BY DEF SendsAreBounded
<1> QED
  BY <1>1, <1>2, <1>3

LEMMA NextSendsAreBounded ==
    ASSUME QueueInvariant, SendsAreBounded, [Next]_vars
    PROVE  SendsAreBounded'
<1> USE DEF QueueInvariant
<1>1. /\ faults \in Nat /\ stops \in Nat /\ MaxAttempts \in Nat \ {0}
      /\ sends \in [Ids -> Nat] /\ unrecorded \in [Ids -> Nat]
  BY OutboundAssumption DEF TypeOK
<1>2. TypeOK'
  BY NextTypes
<1>3. ASSUME UNCHANGED <<sends, unrecorded>>, faults' \in {faults, faults + 1}, stops' = stops
      PROVE  SendsAreBounded'
  <2> SUFFICES ASSUME NEW i \in Ids
               PROVE  /\ unrecorded[i] <= faults' + stops
                      /\ sends[i] <= MaxAttempts + faults' + stops
    BY <1>3 DEF SendsAreBounded
  <2>1. unrecorded[i] <= faults + stops /\ sends[i] <= MaxAttempts + faults + stops
    BY DEF SendsAreBounded
  <2>2. unrecorded[i] \in Nat /\ sends[i] \in Nat
    BY <1>1
  <2> QED
    BY <1>1, <1>3, <2>1, <2>2
<1>4. CASE Start \/ Elapse \/ QueueOutbound \/ Attempt
           \/ (\E peer \in Peers, method \in Requested, big \in BOOLEAN :
                  SendMessage(peer, method, big))
           \/ (\E peer \in Peers : ClearCheck(peer) \/ ClearCommit(peer))
  <2>1. /\ UNCHANGED <<sends, unrecorded, stops>>
        /\ faults' \in {faults, faults + 1}
    BY <1>4 DEF Start, Elapse, QueueOutbound, Attempt, SendMessage, ClearCheck, ClearCommit,
       history, Fault, NoFault
  <2> QED
    BY <1>3, <2>1
<1>5. CASE Recover
  BY <1>3, <1>5 DEF Recover, Fault, NoFault
<1>6. CASE Stop
  <2>1. faults' + stops' = faults + stops + 1
    BY <1>1, <1>6 DEF Stop
  <2> QED
    BY <1>2, <1>6, <2>1, LossesAreCounted DEF Stop
<1>7. CASE QueueUnreadable
  <2>1. faults' + stops' = faults + stops + 1
    BY <1>1, <1>7 DEF QueueUnreadable, Fault
  <2> QED
    BY <1>2, <1>7, <2>1, LossesAreCounted DEF QueueUnreadable
<1>8. CASE FinishOutbound
  <2>1. CASE UNCHANGED unrecorded
    BY <1>3, <1>8, <2>1 DEF FinishOutbound, Fault, NoFault
  <2>2. CASE Fault /\ Unrecord({Head(results).message.id})
    <3>1. faults' + stops' = faults + stops + 1
      BY <1>1, <1>8, <2>2 DEF FinishOutbound, Fault
    <3> QED
      BY <1>2, <1>8, <2>2, <3>1, LossesAreCounted DEF FinishOutbound
  <2> QED
    BY <1>8, <2>1, <2>2 DEF FinishOutbound
<1>9. CASE StartAttempt
  <2>1. PICK i \in PendingIds(messages) : Started(i)
    BY <1>9, StartShape
  <2>2. /\ InFlight = {} /\ sends' = [sends EXCEPT ![i] = @ + 1] /\ unrecorded' = unrecorded
        /\ i \in DOMAIN messages /\ i \in Ids /\ IsPending(messages[i])
    <3>1. DOMAIN messages \subseteq Ids
      BY OutboundAssumption DEF TypeOK, Ids
    <3> QED
      BY <2>1, <3>1 DEF Started, PendingIds
  <2>3. /\ messages[i].attempts \in Nat /\ messages[i].attempts < MaxAttempts
        /\ sends[i] = messages[i].attempts + unrecorded[i]
    <3>1. messages[i] \in Row /\ messages[i].attempts \in Nat
      BY <2>2 DEF TypeOK, Row
    <3>2. /\ messages[i].attempts < MaxAttempts
          /\ sends[i] = messages[i].attempts + unrecorded[i] + 0
      BY <2>2 DEF AttemptBudget
    <3> QED
      BY <1>1, <2>2, <3>1, <3>2
  <2>4. sends[i] + 1 <= MaxAttempts + unrecorded[i] /\ unrecorded[i] \in Nat
    BY <1>1, <2>2, <2>3
  <2>5. stops' = stops /\ faults' \in {faults, faults + 1}
    BY <1>9 DEF StartAttempt, Fault, NoFault
  <2>6. ASSUME NEW j \in Ids
        PROVE  /\ unrecorded'[j] <= faults' + stops'
               /\ sends'[j] <= MaxAttempts + faults' + stops'
    <3>1. unrecorded[j] <= faults + stops /\ sends[j] <= MaxAttempts + faults + stops
      BY DEF SendsAreBounded
    <3>2. unrecorded[j] \in Nat /\ sends[j] \in Nat
      BY <1>1
    <3>3. CASE j = i
      BY <1>1, <2>2, <2>4, <2>5, <3>1, <3>2, <3>3
    <3>4. CASE j # i
      BY <1>1, <2>2, <2>5, <3>1, <3>2, <3>4
    <3> QED
      BY <3>3, <3>4
  <2> QED
    BY <2>6 DEF SendsAreBounded
<1>10. CASE UNCHANGED vars
  BY <1>3, <1>10 DEF vars, history
<1> QED
  BY <1>4, <1>5, <1>6, <1>7, <1>8, <1>9, <1>10 DEF Next

LEMMA InitSendsAreBounded == Init => SendsAreBounded
BY OutboundAssumption DEF Init, SendsAreBounded

\* However often the process stops and statements fail, and whether or not the
\* user deletes the conversation meanwhile, a message is transmitted at most
\* MaxAttempts times and once more for each of them (network.rs:1051-1075).
THEOREM TransmissionsAreBounded == Spec => []SendsAreBounded
<1> QED
  BY AlwaysInvariant, InitSendsAreBounded, NextSendsAreBounded, PTL DEF Spec

-----------------------------------------------------------------------------
(* The queue always goes on                                                *)

\* The longest that a row of the queue is put off.
LongestWait == IF Lease > MaxBackoff THEN Lease ELSE MaxBackoff

WaitsAreBounded == \A i \in DOMAIN messages : messages[i].due <= LongestWait

\* The guards of the steps that Fairness speaks of, that of time when every
\* row of the queue is put off.
QueueStepReady ==
    \/ net \in {"down", "starting"}
    \/ flights # {}
    \/ net = "online" /\ results # <<>>
    \/ MayAttempt /\ NextDue(messages) # {}
    \/ MayAttempt /\ \A i \in PendingIds(messages) : messages[i].due \in 1..LongestWait

\* While a message awaits delivery, the task comes back, an attempt is under
\* way or handled, or one begins, now or within LongestWait.
QueueGoesOn == PendingIds(messages) # {} /\ net # "failed" => QueueStepReady

\* LIMIT 1 of a query that has rows is a row.
LEMMA SomethingIsNext ==
    ASSUME TypeOK, DueIsKnown, DueIds(messages) # {}
    PROVE  NextDue(messages) # {}
<1>1. /\ DueIds(messages) \subseteq Nat /\ Epoch \in Int
      /\ \A i \in DueIds(messages) : messages[i].due \in Int /\ messages[i].due - Epoch \in Nat
  <2>1. Epoch \in Int
    BY HorizonAssumption DEF Epoch
  <2>2. DueIds(messages) \subseteq DOMAIN messages
    BY DEF DueIds, PendingIds
  <2>3. DOMAIN messages \subseteq Nat /\ \A i \in DOMAIN messages : messages[i].due \in Int
    <3>1. lastId \in Nat /\ DOMAIN messages \subseteq 1..lastId
      BY DEF TypeOK
    <3>2. \A i \in DOMAIN messages : messages[i] \in Row
      BY DEF TypeOK
    <3>3. \A row \in Row : row.due \in Int
      BY DEF Row
    <3> QED
      BY <3>1, <3>2, <3>3
  <2>4. \A i \in DOMAIN messages : messages[i].due >= Epoch
    BY DEF DueIsKnown
  <2> QED
    BY <2>1, <2>2, <2>3, <2>4
<1> DEFINE waits == {messages[i].due - Epoch : i \in DueIds(messages)}
<1>2. waits \subseteq Nat /\ waits # {}
  BY <1>1
<1>3. PICK w \in waits : \A x \in waits : w <= x
  BY <1>2, LeastNumber
<1> DEFINE first == {i \in DueIds(messages) : messages[i].due - Epoch = w}
<1>4. first \subseteq Nat /\ first # {}
  BY <1>1, <1>3
<1>5. PICK i \in first : \A j \in first : i <= j
  BY <1>4, LeastNumber
<1>6. ASSUME NEW j \in DueIds(messages)
      PROVE  \/ messages[i].due < messages[j].due
             \/ messages[i].due = messages[j].due /\ i <= j
  <2>1. /\ messages[i].due \in Int /\ messages[j].due \in Int /\ i \in DueIds(messages)
        /\ messages[i].due - Epoch = w /\ w <= messages[j].due - Epoch
    BY <1>1, <1>3, <1>5
  <2>2. CASE messages[j].due - Epoch = w
    BY <1>1, <1>5, <2>1, <2>2
  <2>3. CASE messages[j].due - Epoch # w
    BY <1>1, <2>1, <2>3
  <2> QED
    BY <2>2, <2>3
<1> QED
  BY <1>5, <1>6 DEF NextDue

LEMMA BackoffIsBounded == ASSUME NEW n \in Nat \ {0} PROVE Backoff(n) <= LongestWait
<1> DEFINE k == IF n <= 6 THEN n ELSE 6
           shifted == <<2, 4, 8, 16, 32, 64>>[k]
<1>1. k \in 1..6
  OBVIOUS
<1>2. shifted \in Nat
  BY <1>1
<1> HIDE DEF shifted
<1>3. BackoffBase * shifted \in Nat
  BY <1>2, OutboundAssumption
<1>4. Backoff(n) = IF BackoffBase * shifted <= MaxBackoff THEN BackoffBase * shifted ELSE MaxBackoff
  BY DEF Backoff, shifted
<1> QED
  BY <1>3, <1>4, OutboundAssumption DEF LongestWait

LEMMA WaitsByShrinking ==
    ASSUME WaitsAreBounded,
           \A i \in DOMAIN messages' : i \in DOMAIN messages /\ messages'[i] = messages[i]
    PROVE  WaitsAreBounded'
BY DEF WaitsAreBounded, LongestWait

LEMMA NextWaits ==
    ASSUME TypeOK, SingleFlight, DueIsKnown, WaitsAreBounded, [Next]_vars
    PROVE  WaitsAreBounded'
<1>1. /\ LongestWait \in Nat /\ Lease <= LongestWait /\ Epoch \in Int /\ Epoch <= LongestWait
      /\ Lease \in Nat
  BY OutboundAssumption, HorizonAssumption DEF LongestWait, Epoch
<1>2. \A i \in DOMAIN messages :
         messages[i] \in Row /\ messages[i].due \in Int /\ messages[i].due <= LongestWait
  BY DEF TypeOK, Row, WaitsAreBounded
<1>3. ASSUME \A i \in DOMAIN messages' : i \in DOMAIN messages /\ messages'[i].due <= LongestWait
      PROVE  WaitsAreBounded'
  BY <1>3 DEF WaitsAreBounded, LongestWait
<1>4. CASE UNCHANGED messages
  BY <1>4, WaitsByShrinking
<1>5. CASE messages' = RecoverInterrupted(messages)
  <2> SUFFICES ASSUME NEW i \in DOMAIN messages' PROVE i \in DOMAIN messages /\ messages'[i].due <= LongestWait
    BY <1>3
  <2>1. i \in DOMAIN messages /\ messages'[i] \in {messages[i], RetryNow(messages[i])}
    BY <1>5 DEF RecoverInterrupted
  <2>2. RetryNow(messages[i]).due = 0
    <3>1. PICK row \in Row : row = messages[i]
      BY <1>2, <2>1
    <3>2. /\ "retrying" \in PendingStates \cup OutboundFinalStates
          /\ row.method \in Methods /\ row.attempts \in Nat /\ 0 \in Int
      BY DEF Row, PendingStates
    <3> QED
      BY <3>1, <3>2, SetDeliveryFacts DEF RetryNow
  <2> QED
    BY <1>1, <1>2, <2>1, <2>2
<1>6. CASE messages' = Age(messages)
  <2> SUFFICES ASSUME NEW i \in DOMAIN messages' PROVE i \in DOMAIN messages /\ messages'[i].due <= LongestWait
    BY <1>3
  <2>1. i \in DOMAIN messages /\ messages'[i].due = Later(messages[i].due)
    BY <1>2, <1>6 DEF Age, Row
  <2>2. Later(messages[i].due) \in Int /\ Later(messages[i].due) <= messages[i].due
    BY <1>2, <2>1, LaterBounds DEF DueIsKnown
  <2> QED
    BY <1>1, <1>2, <2>1, <2>2
<1>7. ASSUME NEW peer \in Peers, messages' = ClearConversation(messages, peer)
      PROVE  WaitsAreBounded'
  BY <1>7, WaitsByShrinking DEF ClearConversation, Restrict
<1>8. CASE QueueOutbound
  <2> SUFFICES ASSUME ~UNCHANGED messages PROVE WaitsAreBounded'
    BY <1>4
  <2>1. PICK timestamp \in Timestamps :
          messages' = InsertMessage(messages, lastId + 1, NewRow(Head(commands), timestamp))
    BY <1>8 DEF QueueOutbound, rows
  <2>2. NewRow(Head(commands), timestamp).due = Epoch /\ IsPending(NewRow(Head(commands), timestamp))
    BY DEF NewRow, IsPending, PendingStates
  <2>3. \A i \in DOMAIN messages' :
           \/ messages'[i].due = Epoch
           \/ i \in DOMAIN messages /\ messages'[i] = messages[i]
    BY <2>1, <2>2, InsertFacts
  <2> QED
    BY <1>1, <1>2, <2>3 DEF WaitsAreBounded, LongestWait
<1>9. CASE StartAttempt
  <2> SUFFICES ASSUME ~UNCHANGED messages PROVE WaitsAreBounded'
    BY <1>4
  <2>1. PICK i \in NextDue(messages) :
          messages' = UpdateDelivery(messages, i, "sending", messages[i].method,
                                     messages[i].attempts, Lease)
    BY <1>9 DEF StartAttempt
  <2>2. i \in DOMAIN messages
    BY DEF NextDue, DueIds, PendingIds
  <2>3. /\ DOMAIN messages' = DOMAIN messages
        /\ \A j \in DOMAIN messages : j # i => messages'[j] = messages[j]
        /\ messages'[i] = SetDelivery(messages[i], "sending", messages[i].method,
                                      messages[i].attempts, Lease)
    BY <2>1, <2>2, UpdateFacts
  <2>4. messages'[i].due = Lease
    <3>1. PICK row \in Row : row = messages[i]
      BY <1>2, <2>2
    <3>2. /\ "sending" \in PendingStates \cup OutboundFinalStates
          /\ row.method \in Methods /\ row.attempts \in Nat /\ Lease \in Int
      BY <1>1 DEF Row, PendingStates
    <3> QED
      BY <2>3, <3>1, <3>2, SetDeliveryFacts
  <2> QED
    BY <1>1, <1>2, <1>3, <2>3, <2>4
<1>10. CASE FinishOutbound
  <2> SUFFICES ASSUME ~UNCHANGED messages PROVE WaitsAreBounded'
    BY <1>4
  <2> DEFINE r == Head(results)
             i == r.message.id
  <2>1. messages' = Finished(messages, r) /\ r \in Result
    BY <1>10, HandledResult DEF FinishOutbound
  <2>2. /\ DOMAIN messages' = DOMAIN messages
        /\ \A j \in DOMAIN messages : messages'[j] =
              IF j = i THEN SetDelivery(messages[j], Status(r), r.method, r.message.attempts + 1, NextAttempt(r))
              ELSE messages[j]
    BY <2>1, UpdateFacts DEF Finished
  <2>3. NextAttempt(r) \in Int /\ NextAttempt(r) <= LongestWait
    <3>1. r.message.attempts + 1 \in Nat \ {0}
      BY <2>1 DEF Result, PendingMessage
    <3> QED
      BY <1>1, <3>1, BackoffIsDelay, BackoffIsBounded DEF NextAttempt
  <2>4. ASSUME i \in DOMAIN messages PROVE messages'[i].due = NextAttempt(r)
    BY <1>2, <2>1, <2>2, <2>4, OutcomeTypes, SetDeliveryFacts
  <2> HIDE DEF r, i
  <2>5. \A j \in DOMAIN messages' : j \in DOMAIN messages /\ messages'[j].due <= LongestWait
    BY <1>2, <2>2, <2>3, <2>4
  <2> QED
    BY <1>3, <2>5
<1>11. ASSUME NEW peer \in Peers, NEW method \in Requested, NEW big \in BOOLEAN,
             SendMessage(peer, method, big)
      PROVE  UNCHANGED messages
  BY <1>11 DEF SendMessage, rows
<1>12. ASSUME NEW peer \in Peers, ClearCheck(peer) PROVE UNCHANGED messages
  BY <1>12 DEF ClearCheck, rows
<1>13. ASSUME NEW peer \in Peers, ClearCommit(peer) PROVE WaitsAreBounded'
  BY <1>4, <1>7, <1>13 DEF ClearCommit
<1> QED
  BY <1>4, <1>5, <1>6, <1>8, <1>9, <1>10, <1>11, <1>12, <1>13
  DEF Next, Start, Recover, Stop, Elapse, QueueUnreadable, Attempt, rows, vars

LEMMA QueueCanGoOn ==
    ASSUME TypeOK, SingleFlight, DueIsKnown, WaitsAreBounded
    PROVE  QueueGoesOn
<1> SUFFICES ASSUME net = "online", ~outboundActive PROVE QueueStepReady
  <2>1. outboundActive => flights # {} \/ results # << >>
    BY DEF SingleFlight
  <2> QED
    BY <2>1 DEF QueueGoesOn, QueueStepReady, SingleFlight, TypeOK
<1>1. CASE DueIds(messages) # {}
  BY <1>1, SomethingIsNext DEF QueueStepReady, MayAttempt
<1>2. CASE DueIds(messages) = {}
  <2>1. LongestWait \in Nat
    BY OutboundAssumption DEF LongestWait
  <2>2. \A i \in PendingIds(messages) : messages[i].due \in 1..LongestWait
    <3> SUFFICES ASSUME NEW i \in PendingIds(messages) PROVE messages[i].due \in 1..LongestWait
      OBVIOUS
    <3>1. i \in DOMAIN messages /\ ~(messages[i].due <= 0)
      BY <1>2 DEF DueIds, PendingIds
    <3>2. messages[i].due \in Int /\ messages[i].due <= LongestWait
      BY <3>1 DEF TypeOK, Row, WaitsAreBounded
    <3> QED
      BY <2>1, <3>1, <3>2
  <2> QED
    BY <2>2 DEF QueueStepReady, MayAttempt
<1> QED
  BY <1>1, <1>2

\* The flag, the attempts and the delays never hold the queue up: whatever was
\* lost or failed before, a message that awaits delivery has something to wait
\* for that comes (network.rs:290-355).
THEOREM QueueNeverSticks == Spec => []QueueGoesOn
<1>1. Spec => [](QueueInvariant /\ DueInvariant)
  <2>1. QueueInvariant /\ DueInvariant /\ [Next]_vars => DueInvariant'
    BY NextDueKept DEF QueueInvariant
  <2> QED
    BY <2>1, AlwaysInvariant, InitDue, PTL DEF Spec
<1>2. QueueInvariant /\ DueInvariant => TypeOK /\ SingleFlight /\ DueIsKnown
  BY DEF QueueInvariant, DueInvariant
<1>3. Init => WaitsAreBounded
  BY DEF Init, WaitsAreBounded
<1>4. TypeOK /\ SingleFlight /\ DueIsKnown /\ WaitsAreBounded /\ [Next]_vars => WaitsAreBounded'
  BY NextWaits
<1>5. TypeOK /\ SingleFlight /\ DueIsKnown /\ WaitsAreBounded => QueueGoesOn
  BY QueueCanGoOn
<1> QED
  BY <1>1, <1>2, <1>3, <1>4, <1>5, PTL DEF Spec

-----------------------------------------------------------------------------
(* The abstract phases                                                     *)

LEMMA PhaseFacts ==
    ASSUME NEW t, NEW last \in Nat, NEW trying, NEW i \in Nat, DOMAIN t \subseteq 1..last
    PROVE  /\ i \notin DOMAIN t =>
                 PhaseIn(t, last, trying, i) = IF i > last THEN "absent" ELSE "erased"
           /\ i \in DOMAIN t /\ IsPending(t[i]) =>
                 PhaseIn(t, last, trying, i) = IF i \in trying THEN "trying" ELSE "waiting"
           /\ i \in DOMAIN t /\ ~IsPending(t[i]) =>
                 PhaseIn(t, last, trying, i) =
                    IF t[i].state = "failed" THEN "failed" ELSE "delivered"
<1>1. CASE i > last
  <2>1. i \notin DOMAIN t /\ ~(i <= last)
    BY <1>1
  <2> QED
    BY <1>1, <2>1 DEF PhaseIn
<1>2. CASE i <= last
  <2>1. ~(i > last)
    BY <1>2
  <2> QED
    BY <1>2, <2>1 DEF PhaseIn
<1> QED
  BY <1>1, <1>2

LEMMA IdsBounded ==
    ASSUME TypeOK
    PROVE  lastId \in Nat /\ DOMAIN messages \subseteq 1..lastId /\ DOMAIN messages \subseteq Ids
BY OutboundAssumption DEF TypeOK, Ids

\* The abstract phases, before and after a step.
LEMMA PhaseNow ==
    ASSUME TypeOK
    PROVE  /\ Phase \in [Ids -> Abstract!Phases]
           /\ \A i \in Ids :
                /\ i \in Nat
                /\ i \notin DOMAIN messages =>
                      Phase[i] = IF i > lastId THEN "absent" ELSE "erased"
                /\ i \in DOMAIN messages => i <= lastId
                /\ i \in DOMAIN messages /\ IsPending(messages[i]) =>
                      Phase[i] = IF i \in InFlight THEN "trying" ELSE "waiting"
                /\ i \in DOMAIN messages /\ ~IsPending(messages[i]) =>
                      Phase[i] = IF messages[i].state = "failed" THEN "failed" ELSE "delivered"
<1>1. lastId \in Nat /\ DOMAIN messages \subseteq 1..lastId
  BY DEF TypeOK
<1>2. \A i \in Ids : i \in Nat /\ (i \in DOMAIN messages => i <= lastId)
  BY <1>1 DEF Ids
<1>3. \A i \in Ids : Phase[i] = PhaseIn(messages, lastId, InFlight, i)
  BY DEF Phase
<1>4. \A i \in Ids :
         /\ i \notin DOMAIN messages =>
               Phase[i] = IF i > lastId THEN "absent" ELSE "erased"
         /\ i \in DOMAIN messages /\ IsPending(messages[i]) =>
               Phase[i] = IF i \in InFlight THEN "trying" ELSE "waiting"
         /\ i \in DOMAIN messages /\ ~IsPending(messages[i]) =>
               Phase[i] = IF messages[i].state = "failed" THEN "failed" ELSE "delivered"
  BY <1>1, <1>2, <1>3, PhaseFacts
<1>5. \A i \in Ids : Phase[i] \in Abstract!Phases
  BY <1>1, <1>2, <1>4 DEF Abstract!Phases, Abstract!Settled
<1> QED
  BY <1>2, <1>4, <1>5 DEF Phase

LEMMA PhaseNext ==
    ASSUME TypeOK'
    PROVE  /\ Phase' \in [Ids -> Abstract!Phases]
           /\ \A i \in Ids :
                /\ i \notin DOMAIN messages' =>
                      Phase'[i] = IF i > lastId' THEN "absent" ELSE "erased"
                /\ i \in DOMAIN messages' => i <= lastId'
                /\ i \in DOMAIN messages' /\ IsPending(messages'[i]) =>
                      Phase'[i] = IF i \in InFlight' THEN "trying" ELSE "waiting"
                /\ i \in DOMAIN messages' /\ ~IsPending(messages'[i]) =>
                      Phase'[i] = IF messages'[i].state = "failed" THEN "failed" ELSE "delivered"
<1>1. lastId' \in Nat /\ DOMAIN messages' \subseteq 1..lastId'
  BY DEF TypeOK
<1>2. \A i \in Ids : i \in Nat /\ (i \in DOMAIN messages' => i <= lastId')
  BY <1>1 DEF Ids
<1>3. \A i \in Ids : Phase'[i] = PhaseIn(messages', lastId', InFlight', i)
  BY DEF Phase
<1>4. \A i \in Ids :
         /\ i \notin DOMAIN messages' =>
               Phase'[i] = IF i > lastId' THEN "absent" ELSE "erased"
         /\ i \in DOMAIN messages' /\ IsPending(messages'[i]) =>
               Phase'[i] = IF i \in InFlight' THEN "trying" ELSE "waiting"
         /\ i \in DOMAIN messages' /\ ~IsPending(messages'[i]) =>
               Phase'[i] = IF messages'[i].state = "failed" THEN "failed" ELSE "delivered"
  BY <1>1, <1>2, <1>3, PhaseFacts
<1>5. \A i \in Ids : Phase'[i] \in Abstract!Phases
  BY <1>1, <1>2, <1>4 DEF Abstract!Phases, Abstract!Settled
<1> QED
  BY <1>2, <1>4, <1>5 DEF Phase

-----------------------------------------------------------------------------
(* Every shape of a step is an abstract step or changes nothing            *)

LEMMA QuietErases ==
    ASSUME TypeOK, TypeOK', Quiet
    PROVE  Abstract!Erase(DOMAIN messages \ DOMAIN messages')
<1> DEFINE erased == DOMAIN messages \ DOMAIN messages'
<1>1. /\ DOMAIN messages' \subseteq DOMAIN messages
      /\ \A i \in DOMAIN messages' : SameOutcome(messages[i], messages'[i])
      /\ lastId' = lastId /\ InFlight' = InFlight
  BY DEF Quiet, TableKept
<1>2. DOMAIN messages \subseteq Ids
  BY IdsBounded
<1>3. erased \cap Abstract!In("absent") = {}
  BY <1>2, PhaseNow, PhaseNext DEF Abstract!In
<1>4. ASSUME NEW i \in Ids
      PROVE  Phase'[i] = IF i \in erased THEN "erased" ELSE Phase[i]
  <2>1. CASE i \in erased
    <3>1. ~(i > lastId')
      BY <1>1, <2>1, IdsBounded DEF Ids
    <3> QED
      BY <2>1, <3>1, PhaseNext
  <2>2. CASE i \in DOMAIN messages'
    <3>1. CASE IsPending(messages[i])
      BY <1>1, <2>2, <3>1, PhaseNow, PhaseNext DEF SameOutcome
    <3>2. CASE ~IsPending(messages[i])
      BY <1>1, <2>2, <3>2, PhaseNow, PhaseNext DEF SameOutcome
    <3> QED
      BY <3>1, <3>2
  <2>3. CASE i \notin DOMAIN messages
    BY <1>1, <2>3, PhaseNow, PhaseNext
  <2> QED
    BY <2>1, <2>2, <2>3
<1>5. Phase' = [m \in Ids |-> IF m \in erased THEN "erased" ELSE Phase[m]]
  BY <1>4 DEF Phase
<1>6. Oversized' = Oversized \ erased
  BY <1>1 DEF Oversized, SameOutcome
<1> QED
  BY <1>3, <1>5, <1>6 DEF Abstract!Erase, Quiet

LEMMA AcceptedAccepts ==
    ASSUME QueueInvariant, TypeOK', NEW row \in Row, Accepted(row)
    PROVE  lastId + 1 \in Ids /\ Abstract!Accept(lastId + 1)
<1> USE DEF QueueInvariant
<1> DEFINE id == lastId + 1
           dropped == DOMAIN messages \ DOMAIN messages'
<1>1. lastId \in Nat /\ id \in Ids /\ DOMAIN messages \subseteq 1..lastId
      /\ DOMAIN messages \subseteq Ids
  BY OutboundAssumption DEF Accepted, TypeOK, Ids
<1>2. id \notin DOMAIN messages /\ InFlight' = InFlight /\ lastId' = id
  BY <1>1 DEF Accepted
<1>3. /\ DOMAIN messages' \subseteq DOMAIN messages \cup {id}
      /\ id \in DOMAIN messages' /\ messages'[id] = row /\ IsPending(row)
      /\ \A i \in DOMAIN messages' : i # id => i \in DOMAIN messages /\ messages'[i] = messages[i]
      /\ \A i \in PendingIds(messages) : i \in DOMAIN messages'
  BY InsertFacts DEF Accepted
<1>4. id \notin InFlight
  <2>1. \A m \in Held : m.id <= lastId /\ m.id \in Nat
    BY HeldCases DEF CopiesAreCurrent, PendingMessage, Ids
  <2> QED
    BY <1>1, <2>1, HeldCases
<1>5. Phase[id] = "absent"
  BY <1>1, PhaseNow, PhaseNext
<1>6. dropped \in SUBSET (Abstract!In("delivered") \cup Abstract!In("failed"))
  <2>1. ASSUME NEW i \in dropped PROVE i \in Ids /\ Phase[i] \in {"delivered", "failed"}
    <3>1. i \in DOMAIN messages /\ ~IsPending(messages[i]) /\ i \in Ids
      BY <1>1, <1>3 DEF PendingIds
    <3> QED
      BY <3>1, PhaseNow, PhaseNext
  <2> QED
    BY <2>1 DEF Abstract!In
<1>7. ASSUME NEW i \in Ids
      PROVE  Phase'[i] = IF i = id THEN "waiting"
                         ELSE IF i \in dropped THEN "erased" ELSE Phase[i]
  <2>1. CASE i = id
    BY <1>2, <1>3, <1>4, <2>1, PhaseNow, PhaseNext
  <2>2. CASE i # id /\ i \in dropped
    BY <1>1, <1>2, <2>2, PhaseNow, PhaseNext
  <2>3. CASE i # id /\ i \in DOMAIN messages'
    <3>1. i \in DOMAIN messages /\ messages'[i] = messages[i]
      BY <1>3, <2>3
    <3>2. CASE IsPending(messages[i])
      BY <1>2, <2>3, <3>1, <3>2, PhaseNow, PhaseNext
    <3>3. CASE ~IsPending(messages[i])
      BY <1>2, <2>3, <3>1, <3>3, PhaseNow, PhaseNext
    <3> QED
      BY <2>3, <3>2, <3>3
  <2>4. CASE i # id /\ i \notin DOMAIN messages /\ i \notin DOMAIN messages'
    <3>1. CASE i > lastId
      BY <1>1, <1>2, <2>4, <3>1, PhaseNow, PhaseNext
    <3>2. CASE i <= lastId
      BY <1>1, <1>2, <2>4, <3>2, PhaseNow, PhaseNext
    <3> QED
      BY <1>1, <3>1, <3>2, PhaseNow, PhaseNext
  <2> QED
    BY <2>1, <2>2, <2>3, <2>4
<1>8. Phase' = [n \in Ids |-> IF n = id THEN "waiting"
                              ELSE IF n \in dropped THEN "erased" ELSE Phase[n]]
  BY <1>7 DEF Phase
<1>9. Oversized' \in {Oversized \ dropped, (Oversized \ dropped) \cup {id}}
  BY <1>2, <1>3 DEF Oversized
<1> QED
  BY <1>1, <1>5, <1>6, <1>8, <1>9 DEF Abstract!Accept, Accepted

LEMMA StartedTries ==
    ASSUME QueueInvariant, TypeOK', NEW i \in PendingIds(messages), Started(i)
    PROVE  i \in Ids /\ Abstract!Try(i)
<1> USE DEF QueueInvariant
<1>1. /\ DOMAIN messages \subseteq Ids /\ lastId' = lastId /\ InFlight = {} /\ InFlight' = {i}
      /\ DOMAIN messages' = DOMAIN messages
      /\ \A j \in DOMAIN messages : SameOutcome(messages[j], messages'[j])
      /\ i \in DOMAIN messages /\ IsPending(messages[i])
  BY IdsBounded DEF Started, TableKept, PendingIds
<1>2. Phase[i] = "waiting" /\ Abstract!In("trying") = {}
  <2>1. ASSUME NEW j \in Ids PROVE Phase[j] # "trying"
    BY <1>1, PhaseNow, PhaseNext
  <2> QED
    BY <1>1, <2>1, PhaseNow, PhaseNext DEF Abstract!In
<1>3. sends[i] - unrecorded[i] < MaxAttempts
  <2>2. unrecorded[i] \in Nat /\ messages[i].attempts \in Nat /\ MaxAttempts \in Nat
    BY <1>1, OutboundAssumption DEF TypeOK, Row
  <2>1. sends[i] = messages[i].attempts + unrecorded[i] /\ messages[i].attempts < MaxAttempts
    BY <1>1, <2>2 DEF AttemptBudget
  <2> QED
    BY <2>1, <2>2
<1>4. ASSUME NEW j \in Ids
      PROVE  Phase'[j] = IF j = i THEN "trying" ELSE Phase[j]
  <2>1. CASE j \in DOMAIN messages /\ IsPending(messages[j])
    BY <1>1, <2>1, PhaseNow, PhaseNext DEF SameOutcome
  <2>2. CASE j \in DOMAIN messages /\ ~IsPending(messages[j])
    BY <1>1, <2>2, PhaseNow, PhaseNext DEF SameOutcome
  <2>3. CASE j \notin DOMAIN messages
    BY <1>1, <2>3, PhaseNow, PhaseNext DEF TypeOK
  <2> QED
    BY <2>1, <2>2, <2>3
<1>5. Phase' = [Phase EXCEPT ![i] = "trying"]
  BY <1>4 DEF Phase
<1>6. Oversized' = Oversized
  BY <1>1 DEF Oversized, SameOutcome
<1> QED
  BY <1>1, <1>2, <1>3, <1>5, <1>6 DEF Abstract!Try, Started

LEMMA DroppedLoses ==
    ASSUME QueueInvariant, TypeOK', Dropped
    PROVE  UNCHANGED Abstract!vars \/ \E i \in Ids : Abstract!Lose(i)
<1> USE DEF QueueInvariant
<1>0. Unrecord(InFlight)
  BY DEF Dropped
<1>1. messages' = messages /\ lastId' = lastId /\ InFlight' = {} /\ sends' = sends
      /\ DOMAIN messages \subseteq Ids
  BY IdsBounded DEF Dropped
<1>2. Oversized' = Oversized
  BY <1>1 DEF Oversized
<1>3. CASE InFlight \cap DOMAIN messages = {}
  <2>1. unrecorded' = unrecorded
    BY <1>0, <1>3 DEF Unrecord, TypeOK
  <2>2. ASSUME NEW j \in Ids PROVE Phase'[j] = Phase[j]
    <3>1. CASE j \in DOMAIN messages /\ IsPending(messages[j])
      BY <1>1, <1>3, <3>1, PhaseNow, PhaseNext
    <3>2. CASE j \in DOMAIN messages /\ ~IsPending(messages[j])
      BY <1>1, <3>2, PhaseNow, PhaseNext
    <3>3. CASE j \notin DOMAIN messages
      BY <1>1, <3>3, PhaseNow, PhaseNext DEF TypeOK
    <3> QED
      BY <3>1, <3>2, <3>3
  <2>3. Phase' = Phase
    BY <2>2 DEF Phase
  <2> QED
    BY <1>1, <1>2, <2>1, <2>3 DEF Abstract!vars
<1>4. ASSUME NEW i \in InFlight \cap DOMAIN messages PROVE Abstract!Lose(i)
  <2>1. InFlight = {i}
    <3>1. \E m : InFlight = {m}
      BY <1>4, HeldCases DEF SingleFlight
    <3> QED
      BY <1>4, <3>1
  <2>2. IsPending(messages[i]) /\ i \in Ids
    BY <1>1, <1>4, HeldCases DEF CopiesAreCurrent
  <2>3. Phase[i] = "trying"
    BY <1>4, <2>2, PhaseNow, PhaseNext
  <2>4. unrecorded' = [unrecorded EXCEPT ![i] = @ + 1]
    BY <1>0, <1>4, <2>1, <2>2 DEF Unrecord, TypeOK
  <2>5. ASSUME NEW j \in Ids PROVE Phase'[j] = IF j = i THEN "waiting" ELSE Phase[j]
    <3>1. CASE j \in DOMAIN messages /\ IsPending(messages[j])
      BY <1>1, <2>1, <3>1, PhaseNow, PhaseNext
    <3>2. CASE j \in DOMAIN messages /\ ~IsPending(messages[j])
      BY <1>1, <2>2, <3>2, PhaseNow, PhaseNext
    <3>3. CASE j \notin DOMAIN messages
      BY <1>1, <1>4, <3>3, PhaseNow, PhaseNext DEF TypeOK
    <3> QED
      BY <3>1, <3>2, <3>3
  <2>6. Phase' = [Phase EXCEPT ![i] = "waiting"]
    BY <2>5 DEF Phase
  <2> QED
    BY <1>1, <1>2, <2>3, <2>4, <2>6 DEF Abstract!Lose
<1> QED
  BY <1>1, <1>3, <1>4

LEMMA ConcludedSettles ==
    ASSUME QueueInvariant, TypeOK', NEW r \in Result, Truthful(r), Concluded(r)
    PROVE  \/ UNCHANGED Abstract!vars
           \/ \E i \in Ids : Abstract!Deliver(i) \/ Abstract!Retry(i) \/ Abstract!GiveUp(i)
<1> USE DEF QueueInvariant
<1> DEFINE id == r.message.id
<1>1. /\ lastId' = lastId /\ InFlight = {id} /\ InFlight' = {} /\ r.message \in Held
      /\ sends' = sends /\ unrecorded' = unrecorded /\ DOMAIN messages \subseteq Ids
      /\ id \in Ids
  <2>1. id \in Ids
    BY DEF Result, PendingMessage
  <2>2. DOMAIN messages \subseteq Ids
    BY IdsBounded
  <2>3. /\ lastId' = lastId /\ InFlight = {id} /\ InFlight' = {} /\ r.message \in Held
        /\ sends' = sends /\ unrecorded' = unrecorded
    BY DEF Concluded
  <2> QED
    BY <2>1, <2>2, <2>3
<1>2. DOMAIN messages' = DOMAIN messages
      /\ \A i \in DOMAIN messages : i # id => messages'[i] = messages[i]
  BY UpdateFacts DEF Concluded, Finished
<1>3. ASSUME NEW j \in Ids, j # id PROVE Phase'[j] = Phase[j]
  <2>1. CASE j \in DOMAIN messages /\ IsPending(messages[j])
    BY <1>1, <1>2, <1>3, <2>1, PhaseNow, PhaseNext
  <2>2. CASE j \in DOMAIN messages /\ ~IsPending(messages[j])
    BY <1>1, <1>2, <1>3, <2>2, PhaseNow, PhaseNext
  <2>3. CASE j \notin DOMAIN messages
    BY <1>1, <1>2, <2>3, PhaseNow, PhaseNext DEF TypeOK
  <2> QED
    BY <2>1, <2>2, <2>3
<1>4. CASE id \notin DOMAIN messages
  <2>1. Phase'[id] = Phase[id]
    BY <1>1, <1>2, <1>4, PhaseNow, PhaseNext, SMTT(20) DEF TypeOK
  <2>2. Phase' = Phase
    BY <1>3, <2>1 DEF Phase
  <2>3. Oversized' = Oversized
    BY <1>2, <1>4 DEF Oversized
  <2> QED
    BY <1>1, <2>2, <2>3 DEF Abstract!vars
<1>5. CASE id \in DOMAIN messages
  <2>1. IsPending(messages[id]) /\ r.message = Pending(id) /\ messages[id] \in Row
    BY <1>1, <1>5 DEF CopiesAreCurrent, TypeOK
  <2>2. Phase[id] = "trying"
    BY <1>1, <1>5, <2>1, PhaseNow, PhaseNext
  <2>3. messages'[id] = SetDelivery(messages[id], Status(r), r.method,
                                    r.message.attempts + 1, NextAttempt(r))
    BY <1>5, UpdateFacts DEF Concluded, Finished
  <2>4. messages'[id].state = Status(r) /\ messages'[id].big = messages[id].big
        /\ messages'[id].outbound = messages[id].outbound
    <3>1. /\ Status(r) \in PendingStates \cup OutboundFinalStates /\ r.method \in Methods
          /\ r.message.attempts + 1 \in Nat /\ NextAttempt(r) \in Int
      BY OutcomeTypes
    <3> QED
      BY <2>1, <2>3, <3>1, SetDeliveryFacts
  <2>5. Oversized' = Oversized
    BY <1>2, <1>5, <2>4 DEF Oversized
  <2>6. /\ sends[id] - unrecorded[id] = r.message.attempts + 1
        /\ r.message.attempts < MaxAttempts
        /\ r.message.attempts \in Nat /\ MaxAttempts \in Nat
    <3>0. r.message.attempts = messages[id].attempts
      BY <2>1 DEF Pending
    <3>1. messages[id].attempts \in Nat /\ unrecorded[id] \in Nat /\ MaxAttempts \in Nat
      BY <1>1, <2>1, OutboundAssumption DEF Row, TypeOK
    <3>2. sends[id] = messages[id].attempts + unrecorded[id] + 1
          /\ messages[id].attempts < MaxAttempts
      BY <1>1, <1>5, <2>1 DEF AttemptBudget
    <3> QED
      BY <3>0, <3>1, <3>2
  <2>7. ASSUME NEW p, Phase'[id] = p PROVE Phase' = [Phase EXCEPT ![id] = p]
    BY <1>1, <1>3, <2>7 DEF Phase
  <2>8. messages[id].outbound
    BY <2>1, Zenon DEF IsPending
  <2>9. CASE Status(r) \in {"delivered", "stored_on_node"}
    <3>1. Phase'[id] = "delivered"
      <4>1. ~IsPending(messages'[id])
        BY <2>4, <2>9 DEF IsPending, PendingStates
      <4> QED
        BY <1>1, <1>2, <1>5, <2>4, <2>9, <4>1, PhaseNext
    <3> QED
      BY <1>1, <2>2, <2>5, <2>7, <3>1 DEF Abstract!Deliver, Abstract!Settle
  <2>10. CASE Status(r) = "retrying"
    <3>1. Phase'[id] = "waiting"
      <4>1. IsPending(messages'[id])
        BY <2>4, <2>8, <2>10 DEF IsPending, PendingStates
      <4> QED
        BY <1>1, <1>2, <1>5, <4>1, PhaseNow, PhaseNext
    <3>2. sends[id] - unrecorded[id] < MaxAttempts
      <4>1. ~GiveUp(r.message.attempts + 1, r.outcome)
        BY <2>10 DEF Status
      <4> QED
        BY <2>6, <4>1 DEF GiveUp
    <3> QED
      BY <1>1, <2>2, <2>5, <2>7, <3>1, <3>2 DEF Abstract!Retry, Abstract!Settle
  <2>11. CASE Status(r) = "failed"
    <3>1. Phase'[id] = "failed"
      <4>1. ~IsPending(messages'[id])
        BY <2>4, <2>11 DEF IsPending, PendingStates
      <4> QED
        BY <1>1, <1>2, <1>5, <2>4, <2>11, <4>1, PhaseNext
    <3>2. GiveUp(r.message.attempts + 1, r.outcome)
      BY <2>11 DEF Status
    <3>3. sends[id] - unrecorded[id] = MaxAttempts \/ id \in Oversized
      <4>1. CASE r.outcome = "mtu"
        BY <1>5, <2>1, <4>1 DEF Truthful, Pending, Oversized
      <4>2. CASE r.outcome # "mtu"
        BY <2>6, <3>2, <4>2 DEF GiveUp
      <4> QED
        BY <4>1, <4>2
    <3> QED
      BY <1>1, <2>2, <2>5, <2>7, <3>1, <3>3 DEF Abstract!GiveUp, Abstract!Settle
  <2> QED
    BY <1>1, <2>9, <2>10, <2>11, OutcomeTypes
<1> QED
  BY <1>4, <1>5

LEMMA StepRefines ==
    ASSUME QueueInvariant, [Next]_vars
    PROVE  [Abstract!Next]_(Abstract!vars)
<1>1. TypeOK /\ TypeOK' /\ SingleFlight /\ ResultsAreTruthful
  BY NextTypes DEF QueueInvariant
<1>2. CASE Quiet
  <2>1. DOMAIN messages \subseteq Ids
    BY <1>1, IdsBounded
  <2> QED
    BY <1>1, <1>2, <2>1, QuietErases DEF Abstract!Next
<1>3. CASE \E row \in Row : Accepted(row)
  BY <1>1, <1>3, AcceptedAccepts DEF Abstract!Next
<1>4. CASE \E i \in PendingIds(messages) : Started(i)
  BY <1>1, <1>4, StartedTries DEF Abstract!Next
<1>5. CASE Dropped
  BY <1>1, <1>5, DroppedLoses DEF Abstract!Next
<1>6. CASE \E r \in Result : Truthful(r) /\ Concluded(r)
  BY <1>1, <1>6, ConcludedSettles DEF Abstract!Next
<1> QED
  BY <1>1, <1>2, <1>3, <1>4, <1>5, <1>6, StepShapes

LEMMA InitRefines == Init => Abstract!Init
<1> SUFFICES ASSUME Init PROVE Abstract!Init
  OBVIOUS
<1>1. TypeOK /\ lastId = 0 /\ DOMAIN messages = {}
  BY InitTypes DEF Init
<1>2. Phase = [m \in Ids |-> "absent"]
  <2>1. \A i \in Ids : i > lastId
    BY <1>1 DEF Ids
  <2> QED
    BY <1>1, <2>1, PhaseNow DEF Phase
<1>3. Oversized = {}
  BY <1>1 DEF Oversized
<1> QED
  BY <1>2, <1>3 DEF Abstract!Init, Init

\* The queue, with its stops, failed writes, retention and deletions, keeps the
\* at-least-once contract (network.rs:326-355, 1050-1088, db.rs:996).
THEOREM QueueImplementsAtLeastOnce == Spec => ImplementsAtLeastOnce
<1>1. QueueInvariant /\ [Next]_vars => [Abstract!Next]_(Abstract!vars)
  BY StepRefines
<1> QED
  BY <1>1, InitRefines, AlwaysInvariant, PTL DEF Spec, ImplementsAtLeastOnce, Abstract!Spec
=============================================================================
