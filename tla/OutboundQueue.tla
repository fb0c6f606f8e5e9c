---------------------------- MODULE OutboundQueue ----------------------------
(***************************************************************************)
(* The persistent queue of outbound LXMF messages: the rows in SQLite, the *)
(* network task that takes them one at a time (src/src/network.rs), the    *)
(* delivery attempt it spawns, and the HTTP handlers that add messages and *)
(* clear conversations (src/src/api.rs).                                   *)
(*                                                                         *)
(* The rows survive a stop of the process; the command channel, the        *)
(* attempt in flight, its result channel and the handlers do not.          *)
(***************************************************************************)
EXTENDS MessageTable, Sequences

CONSTANTS
    Peers,            \* destination hashes of the recipients
    Requested,        \* the delivery methods the user asks for
    Timestamps,       \* readings of the wall clock a row may be stamped with
    MaxAttempts,      \* attempts before a message is given up (5)
    BackoffBase,      \* the retry delay is BackoffBase * 2^attempts (5) ...
    MaxBackoff,       \* ... and at most this (300)
    Lease,            \* next_attempt of a message being sent (180)
    CommandCapacity,  \* capacity of the command channel (64)
    MaxMessages,      \* bound: messages accepted in a behaviour
    MaxFaults,        \* bound: database statements that fail
    MaxStops          \* bound: stops of the process

Methods == {"automatic", "opportunistic", "direct", "propagated"}

ASSUME OutboundAssumption ==
    /\ Requested \subseteq Methods
    /\ Timestamps \subseteq Int
    /\ MaxAttempts \in Nat \ {0}
    /\ BackoffBase \in Nat /\ MaxBackoff \in Nat /\ Lease \in Nat
    /\ CommandCapacity \in Nat /\ MaxMessages \in Nat
    /\ MaxFaults \in Nat /\ MaxStops \in Nat

VARIABLES
    messages,        \* the table, persistent
    lastId,          \* the AUTOINCREMENT counter of the table, persistent
    net,             \* the process and its network task
    commands,        \* the channel of SendMessage commands
    outboundActive,  \* the flag of the network loop
    flights,         \* spawned delivery attempts that have not reported
    results,         \* the channel of attempt results
    clearing,        \* peers whose clear handler has passed its check
    faults, stops,   \* what the bounds count
    sends,           \* history: attempts started, by message
    unrecorded,      \* history: attempts whose outcome was never recorded
    stranded         \* history: messages whose result could not be written

rows == <<messages, lastId>>
loop == <<commands, outboundActive, flights, results>>
history == <<sends, unrecorded, stranded>>
vars == <<rows, net, loop, clearing, faults, stops, history>>

Ids == 1..MaxMessages
Stages == {"opportunistic", "direct", "propagated"}
Outcomes == {"ok", "mtu", "error"}

\* `big`: the packed message exceeds the MTU of a Reticulum packet.
Row == [peer: Peers, big: BOOLEAN, outbound: {TRUE}, timestamp: Timestamps,
        state: PendingStates \cup OutboundFinalStates, method: Methods,
        attempts: Nat, due: Int]
Command == [peer: Peers, method: Methods, big: BOOLEAN]
PendingMessage == [id: Ids, method: Methods, attempts: Nat, big: BOOLEAN]
Flight == [message: PendingMessage, stage: Stages]
Result == [message: PendingMessage, method: Methods, outcome: Outcomes]

NewRow(command, timestamp) ==
    [peer |-> command.peer, big |-> command.big, outbound |-> TRUE,
     timestamp |-> timestamp, state |-> "queued", method |-> command.method,
     attempts |-> 0, due |-> Epoch]

Pending(i) ==
    [id |-> i, method |-> messages[i].method,
     attempts |-> messages[i].attempts, big |-> messages[i].big]

\* The messages some attempt holds: not reported, or reported and not handled.
FlightIds == {f.message.id : f \in flights}
ResultIds == {results[k].message.id : k \in DOMAIN results}
InFlight == FlightIds \cup ResultIds

\* A database statement fails, or does not.
Fault == faults < MaxFaults /\ faults' = faults + 1
NoFault == faults' = faults

Unrecord(ids) ==
    unrecorded' = [i \in Ids |-> IF i \in ids \cap DOMAIN messages
                                 THEN unrecorded[i] + 1 ELSE unrecorded[i]]

Init ==
    /\ messages = <<>>
    /\ lastId = 0
    /\ net = "down"
    /\ commands = <<>>
    /\ outboundActive = FALSE
    /\ flights = {}
    /\ results = <<>>
    /\ clearing = {}
    /\ faults = 0
    /\ stops = 0
    /\ sends = [i \in Ids |-> 0]
    /\ unrecorded = [i \in Ids |-> 0]
    /\ stranded = {}
-----------------------------------------------------------------------------
(* The process                                                             *)

Start ==
    /\ net = "down"
    /\ net' = "starting"
    /\ UNCHANGED <<rows, loop, clearing, faults, stops, history>>

\* run(): the last fallible step before the loop is recover_interrupted_outbound.
Recover ==
    /\ net = "starting"
    /\ \/ /\ NoFault
          /\ net' = "online"
          /\ messages' = RecoverInterrupted(messages)
          /\ stranded' = {}
       \/ /\ Fault
          /\ net' = "failed"
          /\ UNCHANGED <<messages, stranded>>
    /\ UNCHANGED <<lastId, loop, clearing, stops, sends, unrecorded>>

\* The network task ends: its commands are dropped, its attempts are aborted.
DropLoop ==
    /\ commands' = <<>>
    /\ outboundActive' = FALSE
    /\ flights' = {}
    /\ results' = <<>>
    /\ Unrecord(InFlight)

\* SIGTERM, a crash or a loss of power; handlers in progress are lost.
Stop ==
    /\ net # "down"
    /\ stops < MaxStops
    /\ stops' = stops + 1
    /\ net' = "down"
    /\ clearing' = {}
    /\ DropLoop
    /\ UNCHANGED <<rows, faults, sends, stranded>>

\* A second of wall-clock time.
Elapse ==
    /\ messages' = Age(messages)
    /\ UNCHANGED <<lastId, net, loop, clearing, faults, stops, history>>
-----------------------------------------------------------------------------
(* HTTP handlers                                                           *)

\* POST /api/v1/messages
SendMessage(peer, method, big) ==
    /\ net = "online"
    /\ Len(commands) < CommandCapacity
    /\ lastId + Len(commands) < MaxMessages
    /\ commands' = Append(commands, [peer |-> peer, method |-> method, big |-> big])
    /\ UNCHANGED <<rows, net, outboundActive, flights, results, clearing,
                   faults, stops, history>>

\* DELETE /api/v1/conversations/{peer}: the check and the deletion lock the
\* database separately.
ClearCheck(peer) ==
    /\ net # "down"
    /\ peer \notin clearing
    /\ ~HasPending(messages, peer)
    /\ clearing' = clearing \cup {peer}
    /\ UNCHANGED <<rows, net, loop, faults, stops, history>>

ClearCommit(peer) ==
    /\ peer \in clearing
    /\ clearing' = clearing \ {peer}
    /\ \/ NoFault /\ messages' = ClearConversation(messages, peer)
       \/ Fault /\ UNCHANGED messages
    /\ UNCHANGED <<lastId, net, loop, stops, history>>
-----------------------------------------------------------------------------
(* The network loop                                                        *)

\* NetworkCommand::SendMessage
QueueOutbound ==
    /\ net = "online"
    /\ commands # <<>>
    /\ commands' = Tail(commands)
    /\ \/ /\ NoFault
          /\ \E timestamp \in Timestamps :
                messages' = InsertMessage(messages, lastId + 1,
                                          NewRow(Head(commands), timestamp))
          /\ lastId' = lastId + 1
       \/ Fault /\ UNCHANGED rows
    /\ UNCHANGED <<net, outboundActive, flights, results, clearing, stops, history>>

\* Mutant: the method is taken for the transport.
StageIsMethod(method) == method

FirstStage(method) == IF method = "automatic" THEN "opportunistic" ELSE method

\* Mutant: the tick does not look at the flag.
MayAttemptAnyTime == net = "online"

MayAttempt == net = "online" /\ ~outboundActive

\* The tick takes the next due message.  When marking it as being sent fails
\* the attempt is made all the same.
StartAttempt ==
    /\ MayAttempt
    /\ \E i \in NextDue(messages) :
        /\ \/ /\ NoFault
              /\ messages' = UpdateDelivery(messages, i, "sending", messages[i].method,
                                            messages[i].attempts, Lease)
           \/ Fault /\ UNCHANGED messages
        /\ flights' = flights \cup
              {[message |-> Pending(i), stage |-> FirstStage(messages[i].method)]}
        /\ sends' = [sends EXCEPT ![i] = @ + 1]
        /\ stranded' = stranded \ {i}
    /\ outboundActive' = TRUE
    /\ UNCHANGED <<lastId, net, commands, results, clearing, stops, unrecorded>>

\* The tick cannot read the queue: run() returns the error.
QueueUnreadable ==
    /\ MayAttempt
    /\ Fault
    /\ net' = "failed"
    /\ DropLoop
    /\ UNCHANGED <<rows, clearing, stops, sends, stranded>>

\* The delay of the retry after `attempts` failures.
Backoff(attempts) ==
    LET shifted == <<2, 4, 8, 16, 32, 64>>[IF attempts <= 6 THEN attempts ELSE 6]
        delay == BackoffBase * shifted
    IN  IF delay <= MaxBackoff THEN delay ELSE MaxBackoff

\* Mutants: one attempt too many, one too few.
GiveUpLate(attempts, outcome) == attempts > MaxAttempts \/ outcome = "mtu"

GiveUpEarly(attempts, outcome) == attempts + 1 >= MaxAttempts \/ outcome = "mtu"

GiveUp(attempts, outcome) == attempts >= MaxAttempts \/ outcome = "mtu"

\* finish_outbound: the state after result r, when the message is next due,
\* and the table.
Status(r) ==
    IF r.outcome = "ok"
    THEN IF r.method = "propagated" THEN "stored_on_node" ELSE "delivered"
    ELSE IF GiveUp(r.message.attempts + 1, r.outcome) THEN "failed" ELSE "retrying"

NextAttempt(r) ==
    IF Status(r) = "retrying" THEN Backoff(r.message.attempts + 1) ELSE Epoch

Finished(t, r) ==
    UpdateDelivery(t, r.message.id, Status(r), r.method, r.message.attempts + 1,
                   NextAttempt(r))

\* The loop receives an attempt's result.
FinishOutbound ==
    /\ net = "online"
    /\ results # <<>>
    /\ results' = Tail(results)
    /\ outboundActive' = FALSE
    /\ \/ /\ NoFault
          /\ messages' = Finished(messages, Head(results))
          /\ UNCHANGED <<unrecorded, stranded>>
       \/ /\ Fault
          /\ Unrecord({Head(results).message.id})
          /\ stranded' = stranded \cup {Head(results).message.id}
          /\ UNCHANGED messages
    /\ UNCHANGED <<lastId, net, commands, flights, clearing, stops, sends>>
-----------------------------------------------------------------------------
(* A delivery attempt, attempt_outbound                                    *)

Report(f, method, outcome) ==
    /\ flights' = flights \ {f}
    /\ results' = Append(results, [message |-> f.message, method |-> method,
                                   outcome |-> outcome])

\* The link or the proof fails: no path, no identity, no link, a timeout.
AttemptFails(f) == Report(f, f.message.method, "error")

\* Mutant: the method asked for is reported, not the one that worked.
MethodRequested(f) == f.message.method

MethodUsed(f) == f.stage

AttemptSucceeds(f) ==
    /\ f.stage = "opportunistic" => ~f.message.big
    /\ Report(f, MethodUsed(f), "ok")

\* The packet is too large: only automatic delivery falls back to a link.
AttemptExceedsMtu(f) ==
    /\ f.stage = "opportunistic"
    /\ f.message.big
    /\ IF f.message.method = "automatic"
       THEN /\ flights' = (flights \ {f}) \cup {[f EXCEPT !.stage = "direct"]}
            /\ UNCHANGED results
       ELSE Report(f, f.message.method, "mtu")

Attempt ==
    /\ \E f \in flights :
        \/ AttemptFails(f)
        \/ AttemptSucceeds(f)
        \/ AttemptExceedsMtu(f)
    /\ UNCHANGED <<rows, net, commands, outboundActive, clearing, faults, stops, history>>
-----------------------------------------------------------------------------
Next ==
    \/ Start
    \/ Recover
    \/ Stop
    \/ Elapse
    \/ \E peer \in Peers, method \in Requested, big \in BOOLEAN :
          SendMessage(peer, method, big)
    \/ \E peer \in Peers : ClearCheck(peer) \/ ClearCommit(peer)
    \/ QueueOutbound
    \/ StartAttempt
    \/ QueueUnreadable
    \/ FinishOutbound
    \/ Attempt

Spec == Init /\ [][Next]_vars

\* Time passes; a stopped process is restarted (Restart=on-failure); every
\* arm of the loop that stays ready is taken; every wait of an attempt has a
\* timeout.
Fairness ==
    /\ WF_vars(Elapse)
    /\ WF_vars(Start)
    /\ WF_vars(Recover)
    /\ WF_vars(QueueOutbound)
    /\ WF_vars(StartAttempt)
    /\ WF_vars(FinishOutbound)
    /\ WF_vars(Attempt)

FairSpec == Spec /\ Fairness
-----------------------------------------------------------------------------
(* Properties                                                              *)

\* The types of the table, of what is in flight and of the histories: rows are
\* outbound ones of the queue, and ids stay below the AUTOINCREMENT counter.
TypeOK ==
    /\ lastId \in 0..MaxMessages
    /\ DOMAIN messages \subseteq 1..lastId
    /\ \A i \in DOMAIN messages : messages[i] \in Row
    /\ net \in {"down", "starting", "online", "failed"}
    /\ commands \in Seq(Command)
    /\ lastId + Len(commands) <= MaxMessages
    /\ outboundActive \in BOOLEAN
    /\ flights \subseteq Flight
    /\ results \in Seq(Result)
    /\ clearing \subseteq Peers
    /\ faults \in 0..MaxFaults
    /\ stops \in 0..MaxStops
    /\ sends \in [Ids -> Nat]
    /\ unrecorded \in [Ids -> Nat]
    /\ stranded \subseteq Ids

\* The flag, the tasks and the result channel agree: at most one attempt is
\* between its spawn and the handling of its result, and the flag is set
\* exactly then (network.rs:326-355, 290-295).
SingleFlight ==
    /\ outboundActive => \/ results = <<>> /\ \E f \in flights : flights = {f}
                         \/ flights = {} /\ Len(results) = 1
    /\ ~outboundActive => flights = {} /\ results = <<>>
    /\ outboundActive => net = "online"

\* While the loop runs, a message shown as being sent is really in the hands
\* of an attempt, unless its result could not be written: what an earlier
\* process left in that state was recovered (db.rs:996).
SendingIsOwned ==
    net = "online" =>
        \A i \in DOMAIN messages :
            messages[i].state = "sending" => i \in InFlight \cup stranded

Held == {f.message : f \in flights} \cup {results[k].message : k \in DOMAIN results}

\* An attempt works for minutes on the copy of the row it was spawned with and
\* its result overwrites the row: meanwhile the row, if it is still there,
\* stays as it was copied, and pending (network.rs:326-352, 1051).
CopiesAreCurrent ==
    \A m \in Held :
        /\ m.id <= lastId
        /\ m.id \in DOMAIN messages => IsPending(messages[m.id]) /\ m = Pending(m.id)

\* A message is not transmitted more often than finish_outbound counts, but
\* for the attempts whose outcome a stop or a failed write lost; the count
\* never passes MaxAttempts and only a message with attempts left is pending.
AttemptBudget ==
    \A i \in DOMAIN messages :
        LET row == messages[i]
            open == IF i \in InFlight THEN 1 ELSE 0
        IN  /\ sends[i] = row.attempts + unrecorded[i] + open
            /\ row.attempts <= MaxAttempts
            /\ IsPending(row) => row.attempts < MaxAttempts

\* A final state names the transport that reached it: nothing too large for
\* a packet is delivered in one, and only a deposit is stored on a node.
OutcomeMatchesTransport ==
    \A i \in DOMAIN messages :
        LET row == messages[i]
        IN  /\ row.state = "delivered" =>
                  row.method \in (IF row.big THEN {"direct"} ELSE {"opportunistic", "direct"})
            /\ row.state = "stored_on_node" => row.method = "propagated"

\* Once delivered, stored on a node or given up, a message never changes
\* again: no late result, lease or recovery sends it once more.
FinalIsFinal ==
    [][\A i \in DOMAIN messages \cap DOMAIN messages' :
          ~IsPending(messages[i]) =>
              /\ messages'[i].state = messages[i].state
              /\ messages'[i].method = messages[i].method
              /\ messages'[i].attempts = messages[i].attempts]_vars

\* Accepting a message never drops one awaiting delivery, nor a row among the
\* HistoryLimit newest of its conversation, and leaves no other row in its
\* own conversation (db.rs:1096).
RetentionSparesQueue ==
    [][lastId' # lastId =>
          /\ lastId' \in DOMAIN messages'
          /\ \A i \in DOMAIN messages \ DOMAIN messages' :
                /\ ~IsPending(messages[i])
                /\ Cardinality({j \in DOMAIN messages' :
                        ComesBefore(messages'[j], j, messages[i], i)}) >= HistoryLimit
          /\ \A i \in Conversation(messages', messages'[lastId'].peer)
                    \ PendingIds(messages') :
                Cardinality(NewerThan(messages', i)) < HistoryLimit]_vars

\* "conversation has messages awaiting delivery" (api.rs:956): clearing a
\* conversation never deletes a message that still waits to be delivered.
ClearSparesQueue ==
    [][lastId' = lastId =>
          \A i \in PendingIds(messages) : i \in DOMAIN messages']_vars

\* Neither a restart nor the handling of another message brings a retry
\* forward: a retrying message waits out its delay (network.rs:1066).
BackoffIsKept ==
    [][\A i \in DOMAIN messages \cap DOMAIN messages' :
          /\ messages[i].state = "retrying"
          /\ messages'[i].state = "retrying"
          => messages'[i].due >= Later(messages[i].due)]_vars

\* Every accepted message is eventually delivered, stored on a node, given up
\* or deleted by the user, unless the network task has failed.
EveryMessageSettles ==
    \A i \in Ids :
        i \in PendingIds(messages) ~> (i \notin PendingIds(messages) \/ net = "failed")
=============================================================================
