------------------------------- MODULE Service -------------------------------
(***************************************************************************)
(* The life of the process: the web server, the network task and the RRC   *)
(* task, and the requests that travel from an HTTP handler over a command  *)
(* channel to one of the two tasks and back over a oneshot channel         *)
(* (src/src/main.rs, app.rs, network.rs, rrc.rs, api.rs).                  *)
(*                                                                         *)
(* Both command receivers wait in AppState until their task takes them.    *)
(* Dropping a receiver answers its commands with an error, 503.            *)
(***************************************************************************)
EXTENDS Naturals, Sequences

CONSTANTS
    Requests,   \* bound: HTTP requests in a behaviour
    Offline,    \* the option --offline
    Capacity,   \* capacity of each command channel (64)
    EarlyFaults,\* bound: failures of run() before the RRC task is spawned
    LateFaults  \* bound: failures of run() later

ASSUME ServiceAssumption ==
    /\ Offline \in BOOLEAN
    /\ Capacity \in Nat \ {0}
    /\ EarlyFaults \in Nat /\ LateFaults \in Nat

\* Handlers that send to the network task, and those that send to the RRC task.
NetworkKinds == {"message", "fetch"}
RrcKinds == {"session", "part", "query"}
Kinds == NetworkKinds \cup RrcKinds

\* Handlers that answer 503 at once unless the network state is Online:
\* messages, pages and files, and RRC connect, join and send.
ChecksOnline == {"message", "fetch", "session"}

\* Commands that are handled in a task of their own, with timeouts.
Spawned == {"fetch", "query"}

VARIABLES
    server,     \* the web server and main()
    shutdown,   \* the shutdown signal of AppState
    network,    \* how far the network task is
    online,     \* NetworkSnapshot.state is Online
    rrc,        \* how far the RRC task is
    netRx,      \* the receiver of network commands
    rrcRx,      \* the receiver of RRC commands
    netQueue, rrcQueue,  \* the channels
    tasks,      \* requests handled by spawned tasks
    current,    \* the request the RRC loop is handling, if any
    kind,       \* the kind of each request
    phase,      \* how far each request is
    early, late \* what the bounds count

signals == <<server, shutdown>>
net == <<network, online, netRx, netQueue>>
chat == <<rrc, rrcRx, rrcQueue, current>>
clients == <<kind, phase>>
faults == <<early, late>>
vars == <<signals, net, chat, tasks, clients, faults>>

Open == {r \in Requests : phase[r] \in {"checked", "waiting"}}
Elements(q) == {q[k] : k \in DOMAIN q}

Init ==
    /\ server = "serving"
    /\ shutdown = FALSE
    /\ network = IF Offline THEN "none" ELSE "starting"
    /\ online = FALSE
    /\ rrc = "none"
    /\ netRx = "unclaimed" /\ rrcRx = "unclaimed"
    /\ netQueue = <<>> /\ rrcQueue = <<>>
    /\ tasks = {}
    /\ current = {}
    /\ kind \in [Requests -> Kinds]
    /\ phase = [r \in Requests |-> "new"]
    /\ early = 0 /\ late = 0

\* The requests rs get their answer, unless their client has gone.
Answered(rs) ==
    phase' = [r \in Requests |-> IF r \in rs /\ phase[r] = "waiting"
                                 THEN "answered" ELSE phase[r]]
-----------------------------------------------------------------------------
(* HTTP handlers                                                           *)

\* Mutant: the handler does not look at the network state.
RefusedNever(r) == FALSE

Refused(r) == kind[r] \in ChecksOnline /\ ~online

Arrive(r) ==
    /\ server = "serving"
    /\ phase[r] = "new"
    /\ phase' = [phase EXCEPT ![r] = IF Refused(r) THEN "answered" ELSE "checked"]
    /\ UNCHANGED <<signals, net, chat, tasks, kind, faults>>

\* The command is sent once the channel has room; a channel without a
\* receiver refuses it.
SendCommand(r) ==
    /\ phase[r] = "checked"
    /\ \/ /\ kind[r] \in NetworkKinds /\ netRx # "dropped" /\ Len(netQueue) < Capacity
          /\ netQueue' = Append(netQueue, r)
          /\ phase' = [phase EXCEPT ![r] = "waiting"]
          /\ UNCHANGED rrcQueue
       \/ /\ kind[r] \in RrcKinds /\ rrcRx # "dropped" /\ Len(rrcQueue) < Capacity
          /\ rrcQueue' = Append(rrcQueue, r)
          /\ phase' = [phase EXCEPT ![r] = "waiting"]
          /\ UNCHANGED netQueue
       \/ /\ IF kind[r] \in NetworkKinds THEN netRx = "dropped" ELSE rrcRx = "dropped"
          /\ phase' = [phase EXCEPT ![r] = "answered"]
          /\ UNCHANGED <<netQueue, rrcQueue>>
    /\ UNCHANGED <<signals, network, online, netRx, rrc, rrcRx, current, tasks, kind,
                   faults>>

\* The client closes the connection; a command it has sent stays sent.
Leave(r) ==
    /\ r \in Open
    /\ phase' = [phase EXCEPT ![r] = "gone"]
    /\ UNCHANGED <<signals, net, chat, tasks, kind, faults>>
-----------------------------------------------------------------------------
(* The network task, run()                                                 *)

SpawnRrc ==
    /\ network = "starting"
    /\ network' = "spawned"
    /\ rrc' = "spawned"
    /\ UNCHANGED <<signals, online, netRx, netQueue, rrcRx, rrcQueue, current, tasks,
                   clients, faults>>

TakeNetworkReceiver ==
    /\ network = "spawned"
    /\ network' = "taken"
    /\ netRx' = "taken"
    /\ UNCHANGED <<signals, online, netQueue, chat, tasks, clients, faults>>

\* The queue is recovered and refresh_interfaces reports Online.
GoOnline ==
    /\ network = "taken"
    /\ network' = "looping"
    /\ online' = TRUE
    /\ UNCHANGED <<signals, netRx, netQueue, chat, tasks, clients, faults>>

\* run() returns an error before the RRC task exists ...
FailEarly ==
    /\ network = "starting"
    /\ early < EarlyFaults
    /\ early' = early + 1
    /\ network' = "failed"
    /\ UNCHANGED <<signals, online, netRx, netQueue, chat, tasks, clients, late>>

NetTasks == {r \in tasks : kind[r] \in NetworkKinds}

\* Mutant: the receiver stays where other handlers keep sending to it.
KeepNetworkReceiver ==
    /\ UNCHANGED <<netRx, netQueue>>
    /\ Answered(NetTasks)

\* The receiver goes out of scope, and the tasks of its commands with it.
DropNetworkReceiver ==
    /\ netRx' = "dropped"
    /\ netQueue' = <<>>
    /\ Answered(Elements(netQueue) \cup NetTasks)

\* ... or later: the receiver, if it was taken, and the tasks are dropped,
\* the RRC task is not.
FailLate ==
    /\ network \in {"spawned", "taken", "looping"}
    /\ late < LateFaults
    /\ late' = late + 1
    /\ network' = "failing"
    /\ tasks' = tasks \ NetTasks
    /\ IF netRx = "taken" THEN DropNetworkReceiver
                          ELSE UNCHANGED <<netRx, netQueue, phase>>
    /\ UNCHANGED <<signals, online, chat, kind, early>>

ReportFailed ==
    /\ network = "failing"
    /\ network' = "failed"
    /\ online' = FALSE
    /\ UNCHANGED <<signals, netRx, netQueue, chat, tasks, clients, faults>>

HandleNetworkCommand ==
    /\ network = "looping"
    /\ netQueue # <<>>
    /\ netQueue' = Tail(netQueue)
    /\ IF kind[Head(netQueue)] \in Spawned
       THEN tasks' = tasks \cup {Head(netQueue)} /\ UNCHANGED phase
       ELSE Answered({Head(netQueue)}) /\ UNCHANGED tasks
    /\ UNCHANGED <<signals, network, online, netRx, chat, kind, faults>>

\* A spawned task is done, or its timeout is over.
FinishTask(r) ==
    /\ r \in tasks
    /\ tasks' = tasks \ {r}
    /\ Answered({r})
    /\ UNCHANGED <<signals, net, chat, kind, faults>>

\* The loop sees the signal, aborts its tasks and waits for the RRC task.
CloseNetwork ==
    /\ network = "looping"
    /\ shutdown
    /\ network' = "closing"
    /\ tasks' = tasks \ NetTasks
    /\ Answered(NetTasks)
    /\ UNCHANGED <<signals, online, netRx, netQueue, chat, kind, faults>>

EndNetwork ==
    /\ network = "closing"
    /\ rrc = "ended"
    /\ network' = "ended"
    /\ netRx' = "dropped"
    /\ netQueue' = <<>>
    /\ Answered(Elements(netQueue))
    /\ UNCHANGED <<signals, online, chat, tasks, kind, faults>>
-----------------------------------------------------------------------------
(* The RRC task                                                            *)

TakeRrcReceiver ==
    /\ rrc = "spawned"
    /\ rrc' = "looping"
    /\ rrcRx' = "taken"
    /\ UNCHANGED <<signals, net, rrcQueue, current, tasks, clients, faults>>

\* Queries get a task of their own, the loop waits for everything else.
HandleRrcCommand ==
    /\ rrc = "looping"
    /\ current = {}
    /\ rrcQueue # <<>>
    /\ rrcQueue' = Tail(rrcQueue)
    /\ IF kind[Head(rrcQueue)] \in Spawned
       THEN tasks' = tasks \cup {Head(rrcQueue)} /\ UNCHANGED current
       ELSE current' = {Head(rrcQueue)} /\ UNCHANGED tasks
    /\ UNCHANGED <<signals, net, rrc, rrcRx, clients, faults>>

FinishRrcCommand ==
    /\ current # {}
    /\ current' = {}
    /\ Answered(current)
    /\ UNCHANGED <<signals, net, rrc, rrcRx, rrcQueue, tasks, kind, faults>>

EndRrc ==
    /\ rrc = "looping"
    /\ current = {}
    /\ shutdown
    /\ rrc' = "ended"
    /\ rrcRx' = "dropped"
    /\ rrcQueue' = <<>>
    /\ tasks' = NetTasks
    /\ Answered(Elements(rrcQueue) \cup (tasks \ NetTasks))
    /\ UNCHANGED <<signals, net, current, kind, faults>>
-----------------------------------------------------------------------------
(* main()                                                                  *)

\* SIGTERM or Ctrl-C: no new connections.
Signal ==
    /\ server = "serving"
    /\ server' = "draining"
    /\ UNCHANGED <<shutdown, net, chat, tasks, clients, faults>>

\* Mutant: a request whose client has gone is still waited for.
ServerDoneWithAll ==
    server = "draining" /\ \A r \in Requests : phase[r] \in {"new", "answered"}

\* The server returns when the last request is answered.
ServerDrained == server = "draining" /\ Open = {}

TriggerShutdown ==
    /\ ServerDrained
    /\ server' = "closing"
    /\ shutdown' = TRUE
    /\ UNCHANGED <<net, chat, tasks, clients, faults>>

Exit ==
    /\ server = "closing"
    /\ network \in {"none", "failed", "ended"}
    /\ server' = "stopped"
    /\ UNCHANGED <<shutdown, net, chat, tasks, clients, faults>>
-----------------------------------------------------------------------------
Running == server # "stopped"

Handlers == \E r \in Requests : Arrive(r) \/ SendCommand(r) \/ Leave(r)

Tasks ==
    \/ SpawnRrc \/ TakeNetworkReceiver \/ GoOnline
    \/ FailEarly \/ FailLate \/ ReportFailed
    \/ HandleNetworkCommand \/ CloseNetwork \/ EndNetwork
    \/ TakeRrcReceiver \/ HandleRrcCommand \/ FinishRrcCommand \/ EndRrc
    \/ \E r \in Requests : FinishTask(r)

Main == Signal \/ TriggerShutdown \/ Exit

Next == Running /\ (Handlers \/ Tasks \/ Main)

Spec == Init /\ [][Next]_vars

\* The tasks are scheduled, every select loop takes an arm that stays ready,
\* every remote call has a timeout and a channel with room lets a sender in.
\* Of the steps that one disjunction joins at most one is enabled at a time.
\* Nobody has to send a signal, leave or make a request.
Fairness ==
    /\ \A r \in Requests :
          WF_vars(Running /\ SendCommand(r)) /\ WF_vars(Running /\ FinishTask(r))
    /\ WF_vars(Running /\ (SpawnRrc \/ TakeNetworkReceiver \/ GoOnline \/ ReportFailed \/ EndNetwork))
    /\ WF_vars(Running /\ HandleNetworkCommand)
    /\ WF_vars(Running /\ CloseNetwork)
    /\ WF_vars(Running /\ (TakeRrcReceiver \/ FinishRrcCommand))
    /\ WF_vars(Running /\ HandleRrcCommand)
    /\ WF_vars(Running /\ EndRrc)
    /\ WF_vars(Running /\ (TriggerShutdown \/ Exit))

FairSpec == Spec /\ Fairness
-----------------------------------------------------------------------------
(* Properties                                                              *)

\* The types of the parts of the process; a receiver is in the hands of the
\* loop that took it, exactly while that loop exists.
TypeOK ==
    /\ server \in {"serving", "draining", "closing", "stopped"}
    /\ shutdown \in BOOLEAN
    /\ network \in {"none", "starting", "spawned", "taken", "looping", "failing",
                    "failed", "closing", "ended"}
    /\ online \in BOOLEAN
    /\ rrc \in {"none", "spawned", "looping", "ended"}
    /\ netRx \in {"unclaimed", "taken", "dropped"}
    /\ rrcRx \in {"unclaimed", "taken", "dropped"}
    /\ netQueue \in Seq(Requests) /\ rrcQueue \in Seq(Requests)
    /\ tasks \subseteq Requests
    /\ current \subseteq Requests
    /\ kind \in [Requests -> Kinds]
    /\ phase \in [Requests -> {"new", "checked", "waiting", "answered", "gone"}]
    /\ early \in 0..EarlyFaults /\ late \in 0..LateFaults
    /\ netRx = "taken" <=> network \in {"taken", "looping", "closing"}
    /\ rrcRx = "taken" <=> rrc = "looping"

\* A request that waits is held by someone who can still answer it: the queue
\* of a channel whose receiver was not dropped, a task or the RRC loop
\* (network.rs:243-267, rrc.rs:84-96).  Once the tasks are told to stop, no
\* request whose client still waits is left for them to drop (main.rs:53-61).
WaitingIsHeld ==
    /\ \A r \in Requests : phase[r] = "waiting" =>
          \/ r \in Elements(netQueue) /\ network \in {"taken", "looping", "closing"}
          \/ r \in Elements(netQueue) /\ netRx = "unclaimed"
          \/ r \in Elements(rrcQueue) /\ rrcRx # "dropped"
          \/ r \in tasks
          \/ r \in current
    /\ shutdown => Open = {}

\* A request that was let through because the network was online is answered,
\* whatever fails or stops meanwhile (api.rs:217-255, 1023-1118).
CheckedIsAnswered ==
    \A r \in Requests :
        (kind[r] \in ChecksOnline /\ r \in Open) ~> r \notin Open

\* An RRC request waits for a task that will never exist: nothing checks
\* that the RRC task was started before the command is sent (api.rs:303-508).
Abandoned ==
    /\ rrc = "none"
    /\ network \in {"none", "failed"}
    /\ \E r \in Open : kind[r] \in RrcKinds \ ChecksOnline

\* A signal stops the process, however many requests are open and whatever
\* fails, unless a request was abandoned (main.rs:53-61).
SignalStops == (server = "draining") ~> (server = "stopped" \/ Abandoned)

\* "coalesced RRC LIST, per-room WHO, and PING requests with visible loading,
\* empty-result, failure, and timeout states" (src/README.md:68): such a
\* request always comes to an end.
QueryIsAnswered ==
    \A r \in Requests : (kind[r] = "query" /\ r \in Open) ~> r \notin Open
=============================================================================
