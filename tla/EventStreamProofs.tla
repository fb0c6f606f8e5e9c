-------------------------- MODULE EventStreamProofs --------------------------
(***************************************************************************)
(* Theorems about Service and EventStream, for every value of their        *)
(* constants.                                                              *)
(***************************************************************************)
EXTENDS EventStream, FiniteSets, FiniteSetTheorems, TLAPS

-----------------------------------------------------------------------------
(* Channels                                                                *)

LEMMA ElementsOfEmpty == Elements(<<>>) = {}
BY DEF Elements

LEMMA ElementsOfAppend ==
    ASSUME NEW S, NEW q \in Seq(S), NEW x \in S
    PROVE  Elements(Append(q, x)) = Elements(q) \cup {x}
<1>1. DOMAIN Append(q, x) = 1..Len(q) + 1 /\ DOMAIN q = 1..Len(q)
  OBVIOUS
<1>2. \A k \in 1..Len(q) : Append(q, x)[k] = q[k]
  OBVIOUS
<1>3. Append(q, x)[Len(q) + 1] = x
  OBVIOUS
<1> QED
  BY <1>1, <1>2, <1>3 DEF Elements

\* What is taken from a channel is its first element; all others stay.
LEMMA ElementsOfTail ==
    ASSUME NEW S, NEW q \in Seq(S), q # <<>>
    PROVE  Elements(q) = {Head(q)} \cup Elements(Tail(q))
<1>1. /\ Tail(q) \in Seq(S) /\ Len(Tail(q)) = Len(q) - 1
      /\ Len(q) \in Nat \ {0} /\ DOMAIN q = 1..Len(q)
  OBVIOUS
<1>2. \A k \in 1..Len(q) - 1 : Tail(q)[k] = q[k + 1]
  OBVIOUS
<1>3. Elements(q) \subseteq {Head(q)} \cup Elements(Tail(q))
  <2> SUFFICES ASSUME NEW k \in 1..Len(q), k # 1 PROVE q[k] \in Elements(Tail(q))
    BY <1>1 DEF Elements
  <2>1. k - 1 \in 1..Len(q) - 1 /\ Tail(q)[k - 1] = q[k]
    BY <1>1, <1>2
  <2>2. DOMAIN Tail(q) = 1..Len(q) - 1
    BY <1>1
  <2> QED
    BY <2>1, <2>2 DEF Elements
<1>4. Elements(Tail(q)) \subseteq Elements(q)
  BY <1>1, <1>2 DEF Elements
<1>5. Head(q) \in Elements(q)
  BY <1>1 DEF Elements
<1> QED
  BY <1>3, <1>4, <1>5

-----------------------------------------------------------------------------
(* Service: type correctness                                               *)

Phases == {"new", "checked", "waiting", "answered", "gone"}

LEMMA AnsweredTypes ==
    ASSUME NEW rs, TypeOK, Answered(rs)
    PROVE  phase' \in [Requests -> Phases]
BY DEF TypeOK, Answered, Phases

\* What the stages of the tasks say of each other: the signal is given by main()
\* alone, the RRC task is spawned by run(), the receiver of the network commands
\* is not taken before that, and no command is handled before it is taken.
Stages ==
    /\ (shutdown <=> server \in {"closing", "stopped"})
    /\ network = "starting" => rrc = "none"
    /\ network \in {"none", "starting", "spawned"} => netRx = "unclaimed"
    /\ netRx = "unclaimed" => NetTasks = {}

LEMMA InitTypes == Init => TypeOK
<1> SUFFICES ASSUME Init PROVE TypeOK
  OBVIOUS
<1>1. network \in {"none", "starting"}
  BY DEF Init
<1>2. kind \in [Requests -> Kinds] /\ phase \in [Requests -> Phases]
  BY DEF Init, Phases
<1>3. early \in 0..EarlyFaults /\ late \in 0..LateFaults
  BY ServiceAssumption DEF Init
<1>4. netQueue \in Seq(Requests) /\ rrcQueue \in Seq(Requests)
  BY DEF Init
<1>5. /\ server = "serving" /\ rrc = "none"
      /\ netRx = "unclaimed" /\ rrcRx = "unclaimed"
      /\ tasks = {} /\ current = {}
  BY DEF Init
<1>6. shutdown \in BOOLEAN /\ online \in BOOLEAN
  BY DEF Init
<1> QED
  BY <1>1, <1>2, <1>3, <1>4, <1>5, <1>6 DEF TypeOK, Phases

LEMMA HandlerTypes ==
    ASSUME TypeOK, NEW r \in Requests, Arrive(r) \/ SendCommand(r) \/ Leave(r)
    PROVE  TypeOK'
<1> USE DEF signals, net, chat, clients, faults, TypeOK
<1>1. CASE Arrive(r)
  BY <1>1 DEF Arrive
<1>2. CASE SendCommand(r)
  <2>1. CASE netQueue' = Append(netQueue, r) /\ UNCHANGED rrcQueue
    BY <1>2, <2>1 DEF SendCommand
  <2>2. CASE rrcQueue' = Append(rrcQueue, r) /\ UNCHANGED netQueue
    BY <1>2, <2>2, SMTT(20) DEF SendCommand
  <2>3. CASE UNCHANGED <<netQueue, rrcQueue>>
    BY <1>2, <2>3 DEF SendCommand
  <2> QED
    BY <1>2, <2>1, <2>2, <2>3, SMTT(20) DEF SendCommand
<1>3. CASE Leave(r)
  BY <1>3 DEF Leave
<1> QED
  BY <1>1, <1>2, <1>3

LEMMA NetworkTypes ==
    ASSUME TypeOK, Stages,
           \/ SpawnRrc \/ TakeNetworkReceiver \/ GoOnline
           \/ FailEarly \/ FailLate \/ ReportFailed
           \/ HandleNetworkCommand \/ CloseNetwork \/ EndNetwork
    PROVE  TypeOK'
<1> USE ServiceAssumption DEF signals, net, chat, clients, faults
<1>1. CASE SpawnRrc
  BY <1>1 DEF SpawnRrc, TypeOK, Stages
<1>2. CASE TakeNetworkReceiver
  BY <1>2 DEF TakeNetworkReceiver, TypeOK
<1>3. CASE GoOnline
  BY <1>3 DEF GoOnline, TypeOK
<1>4. CASE FailEarly
  BY <1>4 DEF FailEarly, TypeOK
<1>5. CASE FailLate
  <2>1. phase' \in [Requests -> Phases]
    BY <1>5, AnsweredTypes DEF FailLate, DropNetworkReceiver, TypeOK, Phases
  <2>2. netRx' \in {"unclaimed", "dropped"} /\ netQueue' \in Seq(Requests)
    <3>1. CASE netRx = "taken"
      BY <1>5, <3>1 DEF FailLate, DropNetworkReceiver
    <3>2. CASE netRx # "taken"
      BY <1>5, <3>2 DEF FailLate, TypeOK
    <3> QED
      BY <3>1, <3>2
  <2> QED
    BY <1>5, <2>1, <2>2 DEF FailLate, TypeOK, Phases
<1>6. CASE ReportFailed
  BY <1>6 DEF ReportFailed, TypeOK
<1>7. CASE HandleNetworkCommand
  <2>1. phase' \in [Requests -> Phases]
    BY <1>7, AnsweredTypes DEF HandleNetworkCommand, TypeOK, Phases
  <2> QED
    BY <1>7, <2>1 DEF HandleNetworkCommand, TypeOK, Phases
<1>8. CASE CloseNetwork
  <2>1. phase' \in [Requests -> Phases]
    BY <1>8, AnsweredTypes DEF CloseNetwork
  <2> QED
    BY <1>8, <2>1 DEF CloseNetwork, TypeOK, Phases
<1>9. CASE EndNetwork
  <2>1. phase' \in [Requests -> Phases]
    BY <1>9, AnsweredTypes DEF EndNetwork
  <2> QED
    BY <1>9, <2>1 DEF EndNetwork, TypeOK, Phases
<1> QED
  BY <1>1, <1>2, <1>3, <1>4, <1>5, <1>6, <1>7, <1>8, <1>9

LEMMA RrcTypes ==
    ASSUME TypeOK,
           \/ TakeRrcReceiver \/ HandleRrcCommand \/ FinishRrcCommand \/ EndRrc
           \/ \E r \in Requests : FinishTask(r)
    PROVE  TypeOK'
<1> USE DEF signals, net, chat, clients, faults
<1>1. CASE TakeRrcReceiver
  BY <1>1 DEF TakeRrcReceiver, TypeOK
<1>2. CASE HandleRrcCommand
  BY <1>2 DEF HandleRrcCommand, TypeOK
<1>3. CASE FinishRrcCommand
  <2>1. phase' \in [Requests -> Phases]
    BY <1>3, AnsweredTypes DEF FinishRrcCommand
  <2> QED
    BY <1>3, <2>1 DEF FinishRrcCommand, TypeOK, Phases
<1>4. CASE EndRrc
  <2>1. phase' \in [Requests -> Phases]
    BY <1>4, AnsweredTypes DEF EndRrc
  <2> QED
    BY <1>4, <2>1 DEF EndRrc, TypeOK, Phases, NetTasks
<1>5. ASSUME NEW r \in Requests, FinishTask(r) PROVE TypeOK'
  <2>1. phase' \in [Requests -> Phases]
    BY <1>5, AnsweredTypes DEF FinishTask
  <2> QED
    BY <1>5, <2>1 DEF FinishTask, TypeOK, Phases
<1> QED
  BY <1>1, <1>2, <1>3, <1>4, <1>5

LEMMA MainTypes == ASSUME TypeOK, Main PROVE TypeOK'
<1> USE DEF net, chat, clients, faults
<1>1. CASE Signal
  BY <1>1 DEF Signal, TypeOK
<1>2. CASE TriggerShutdown
  BY <1>2 DEF TriggerShutdown, TypeOK
<1>3. CASE Exit
  BY <1>3 DEF Exit, TypeOK
<1> QED
  BY <1>1, <1>2, <1>3 DEF Main

LEMMA NextTypes == TypeOK /\ Stages /\ [Next]_vars => TypeOK'
<1> SUFFICES ASSUME TypeOK, Stages, [Next]_vars PROVE TypeOK'
  OBVIOUS
<1>1. CASE Next
  BY <1>1, HandlerTypes, NetworkTypes, RrcTypes, MainTypes DEF Next, Handlers, Tasks
<1>2. CASE UNCHANGED vars
  BY <1>2 DEF TypeOK, vars, signals, net, chat, clients, faults
<1> QED
  BY <1>1, <1>2
-----------------------------------------------------------------------------
(* Service: who holds a request                                            *)

\* A channel without a receiver is empty, and only RRC commands get to the
\* RRC task.
Channels ==
    /\ netRx = "dropped" => netQueue = <<>>
    /\ rrcRx = "dropped" => rrcQueue = <<>>
    /\ \A r \in Elements(rrcQueue) : kind[r] \in RrcKinds

Holders == Elements(netQueue) \cup Elements(rrcQueue) \cup tasks \cup current

Held == \A r \in Requests : phase[r] = "waiting" => r \in Holders

NoneOpen == shutdown => Open = {}

ServiceInvariant == TypeOK /\ Stages /\ Channels /\ Held /\ NoneOpen

\* The invariant is what WaitingIsHeld says, and more.
LEMMA InvariantHolds == ServiceInvariant => WaitingIsHeld
<1> SUFFICES ASSUME ServiceInvariant,
                    NEW r \in Requests, phase[r] = "waiting",
                    r \notin tasks \cup current
             PROVE  \/ /\ r \in Elements(netQueue)
                       /\ network \in {"taken", "looping", "closing"} \/ netRx = "unclaimed"
                    \/ r \in Elements(rrcQueue) /\ rrcRx # "dropped"
  BY DEF WaitingIsHeld, ServiceInvariant, NoneOpen
<1>1. r \in Elements(netQueue) \/ r \in Elements(rrcQueue)
  BY DEF ServiceInvariant, Held, Holders
<1>2. CASE r \in Elements(netQueue)
  <2>1. netRx # "dropped"
    BY <1>2, ElementsOfEmpty DEF ServiceInvariant, Channels
  <2> QED
    BY <1>2, <2>1 DEF ServiceInvariant, TypeOK
<1>3. CASE r \in Elements(rrcQueue)
  BY <1>3, ElementsOfEmpty DEF ServiceInvariant, Channels
<1> QED
  BY <1>1, <1>2, <1>3

LEMMA InitInvariant == Init => ServiceInvariant
<1> SUFFICES ASSUME Init PROVE ServiceInvariant
  OBVIOUS
<1>1. TypeOK
  BY InitTypes
<1>2. Stages
  <2>1. NetTasks = {}
    BY DEF Init, NetTasks
  <2>2. (shutdown <=> server \in {"closing", "stopped"})
    <3>1. shutdown = FALSE /\ server \notin {"closing", "stopped"}
      BY DEF Init
    <3> QED
      BY <3>1
  <2> QED
    BY <2>1, <2>2 DEF Init, Stages
<1>3. Channels
  BY ElementsOfEmpty DEF Init, Channels
<1>4. Held /\ NoneOpen
  BY DEF Init, Held, NoneOpen
<1> QED
  BY <1>1, <1>2, <1>3, <1>4 DEF ServiceInvariant

\* A command that the RRC loop takes is not one of the network task.
LEMMA HeadOfRrcQueue ==
    ASSUME TypeOK, Channels, rrcQueue # <<>>
    PROVE  kind[Head(rrcQueue)] \in RrcKinds \ NetworkKinds
<1>1. Head(rrcQueue) \in Elements(rrcQueue)
  BY ElementsOfTail DEF TypeOK
<1> QED
  BY <1>1 DEF Channels, RrcKinds, NetworkKinds

LEMMA NextStages ==
    ASSUME TypeOK, Stages, Channels, [Next]_vars
    PROVE  Stages'
<1> USE DEF signals, net, chat, clients, faults
<1>1. ASSUME NEW r \in Requests, Arrive(r) \/ SendCommand(r) \/ Leave(r) PROVE Stages'
  <2>1. UNCHANGED <<signals, network, online, netRx, rrc, tasks, kind>>
    BY <1>1 DEF Arrive, SendCommand, Leave
  <2> QED
    BY <2>1 DEF Stages, NetTasks
<1>2. CASE SpawnRrc
  BY <1>2 DEF SpawnRrc, Stages, NetTasks
<1>3. CASE TakeNetworkReceiver
  BY <1>3 DEF TakeNetworkReceiver, Stages, NetTasks
<1>4. CASE GoOnline
  BY <1>4 DEF GoOnline, Stages, NetTasks
<1>5. CASE FailEarly
  BY <1>5 DEF FailEarly, Stages, NetTasks
<1>6. CASE FailLate
  <2>1. NetTasks' = {}
    BY <1>6 DEF FailLate, NetTasks
  <2> QED
    BY <1>6, <2>1 DEF FailLate, Stages
<1>7. CASE ReportFailed
  BY <1>7 DEF ReportFailed, Stages, NetTasks
<1>8. CASE HandleNetworkCommand
  <2>1. netRx = "taken"
    BY <1>8 DEF HandleNetworkCommand, TypeOK
  <2> QED
    BY <1>8, <2>1 DEF HandleNetworkCommand, Stages
<1>9. CASE CloseNetwork
  <2>1. NetTasks' = {}
    BY <1>9 DEF CloseNetwork, NetTasks
  <2> QED
    BY <1>9, <2>1 DEF CloseNetwork, Stages
<1>10. CASE EndNetwork
  BY <1>10 DEF EndNetwork, Stages
<1>11. CASE TakeRrcReceiver
  BY <1>11 DEF TakeRrcReceiver, Stages, NetTasks
<1>12. CASE HandleRrcCommand
  <2>1. NetTasks' = NetTasks
    BY <1>12, HeadOfRrcQueue DEF HandleRrcCommand, NetTasks
  <2> QED
    BY <1>12, <2>1 DEF HandleRrcCommand, Stages
<1>13. CASE FinishRrcCommand
  BY <1>13 DEF FinishRrcCommand, Stages, NetTasks
<1>14. CASE EndRrc
  <2>1. NetTasks' = NetTasks
    BY <1>14 DEF EndRrc, NetTasks
  <2> QED
    BY <1>14, <2>1 DEF EndRrc, Stages
<1>15. ASSUME NEW r \in Requests, FinishTask(r) PROVE Stages'
  <2>1. NetTasks' \subseteq NetTasks
    BY <1>15 DEF FinishTask, NetTasks
  <2> QED
    BY <1>15, <2>1 DEF FinishTask, Stages
<1>16. CASE Main
  <2>1. UNCHANGED <<net, chat, tasks, clients>>
    BY <1>16 DEF Main, Signal, TriggerShutdown, Exit
  <2>2. NetTasks' = NetTasks
    BY <2>1 DEF NetTasks, clients
  <2>3. (shutdown' <=> server' \in {"closing", "stopped"})
    <3>1. CASE Signal
      BY <3>1 DEF Signal, Stages
    <3>2. CASE TriggerShutdown
      BY <3>2 DEF TriggerShutdown
    <3>3. CASE Exit
      BY <3>3 DEF Exit, Stages
    <3> QED
      BY <1>16, <3>1, <3>2, <3>3 DEF Main
  <2> QED
    BY <2>1, <2>2, <2>3 DEF Stages, net, chat
<1>17. CASE UNCHANGED vars
  BY <1>17 DEF vars, Stages, NetTasks
<1> QED
  BY <1>1, <1>2, <1>3, <1>4, <1>5, <1>6, <1>7, <1>8, <1>9, <1>10, <1>11, <1>12, <1>13,
     <1>14, <1>15, <1>16, <1>17 DEF Next, Handlers, Tasks

LEMMA NextChannels ==
    ASSUME TypeOK, Stages, Channels, [Next]_vars
    PROVE  Channels'
<1> USE DEF signals, net, chat, clients, faults
<1>1. ASSUME NEW r \in Requests, SendCommand(r) PROVE Channels'
  <2>1. CASE kind[r] \in RrcKinds /\ rrcRx # "dropped" /\ rrcQueue' = Append(rrcQueue, r)
             /\ UNCHANGED netQueue
    <3>1. Elements(rrcQueue)' = Elements(rrcQueue) \cup {r}
      BY <2>1, ElementsOfAppend DEF TypeOK
    <3> QED
      BY <1>1, <2>1, <3>1 DEF SendCommand, Channels
  <2>2. CASE netRx # "dropped" /\ UNCHANGED rrcQueue
    BY <1>1, <2>2 DEF SendCommand, Channels
  <2>3. CASE UNCHANGED <<netQueue, rrcQueue>>
    BY <1>1, <2>3 DEF SendCommand, Channels
  <2> QED
    BY <1>1, <2>1, <2>2, <2>3 DEF SendCommand
<1>2. CASE FailLate
  <2>1. netRx' = "dropped" => netQueue' = <<>>
    <3>1. CASE netRx = "taken"
      BY <1>2, <3>1 DEF FailLate, DropNetworkReceiver
    <3>2. CASE netRx # "taken"
      BY <1>2, <3>2 DEF FailLate, Channels
    <3> QED
      BY <3>1, <3>2
  <2> QED
    BY <1>2, <2>1 DEF FailLate, Channels
<1>3. CASE HandleNetworkCommand
  <2>1. netRx = "taken"
    BY <1>3 DEF HandleNetworkCommand, TypeOK
  <2> QED
    BY <1>3, <2>1 DEF HandleNetworkCommand, Channels
<1>4. CASE EndNetwork
  BY <1>4 DEF EndNetwork, Channels
<1>5. CASE HandleRrcCommand
  <2>1. rrcRx = "taken"
    BY <1>5 DEF HandleRrcCommand, TypeOK
  <2>2. Elements(rrcQueue)' \subseteq Elements(rrcQueue)
    BY <1>5, ElementsOfTail DEF HandleRrcCommand, TypeOK
  <2> QED
    BY <1>5, <2>1, <2>2 DEF HandleRrcCommand, Channels
<1>6. CASE EndRrc
  BY <1>6, ElementsOfEmpty DEF EndRrc, Channels
<1>7. CASE TakeNetworkReceiver \/ TakeRrcReceiver
  BY <1>7 DEF TakeNetworkReceiver, TakeRrcReceiver, Channels
<1>8. CASE UNCHANGED <<netRx, rrcRx, netQueue, rrcQueue, kind>>
  BY <1>8 DEF Channels
<1>9. ASSUME NEW r \in Requests, Arrive(r) \/ Leave(r) \/ FinishTask(r)
      PROVE  UNCHANGED <<netRx, rrcRx, netQueue, rrcQueue, kind>>
  BY <1>9 DEF Arrive, Leave, FinishTask
<1>10. CASE SpawnRrc \/ GoOnline \/ FailEarly \/ ReportFailed \/ CloseNetwork
            \/ FinishRrcCommand \/ Main \/ UNCHANGED vars
  <2>1. UNCHANGED <<netRx, rrcRx, netQueue, rrcQueue, kind>>
    BY <1>10 DEF SpawnRrc, GoOnline, FailEarly, ReportFailed, CloseNetwork,
       FinishRrcCommand, Main, Signal, TriggerShutdown, Exit, vars
  <2> QED
    BY <1>8, <2>1
<1> QED
  BY <1>1, <1>2, <1>3, <1>4, <1>5, <1>6, <1>7, <1>8, <1>9, <1>10 DEF Next, Handlers, Tasks

\* Only those who lose a holder without an answer could break Held.
LEMMA HeldByAnswer ==
    ASSUME TypeOK, Held, NEW rs, Answered(rs), Holders \subseteq Holders' \cup rs
    PROVE  Held'
<1> SUFFICES ASSUME NEW r \in Requests, phase'[r] = "waiting" PROVE r \in Holders'
  BY DEF Held
<1>1. phase[r] = "waiting" /\ r \notin rs
  BY DEF Answered, TypeOK
<1> QED
  BY <1>1 DEF Held

LEMMA HeldByAll ==
    ASSUME Held, UNCHANGED phase, Holders \subseteq Holders'
    PROVE  Held'
BY DEF Held

LEMMA HandlersHold ==
    ASSUME TypeOK, Held, NEW r \in Requests, Arrive(r) \/ SendCommand(r) \/ Leave(r)
    PROVE  Held'
<1> USE DEF signals, net, chat, clients, faults
<1>1. CASE Arrive(r) \/ Leave(r)
  <2>1. \A x \in Requests : phase'[x] = "waiting" => phase[x] = "waiting"
    BY <1>1 DEF Arrive, Leave, TypeOK
  <2>2. Holders' = Holders
    BY <1>1 DEF Arrive, Leave, Holders
  <2> QED
    BY <2>1, <2>2 DEF Held
<1>2. CASE SendCommand(r)
  <2>1. \A x \in Requests \ {r} : phase'[x] = phase[x]
    BY <1>2 DEF SendCommand, TypeOK
  <2>2. CASE netQueue' = Append(netQueue, r) /\ UNCHANGED rrcQueue
    <3>1. Elements(netQueue)' = Elements(netQueue) \cup {r}
      BY <2>2, ElementsOfAppend DEF TypeOK
    <3> QED
      BY <1>2, <2>1, <2>2, <3>1 DEF SendCommand, Held, Holders
  <2>3. CASE rrcQueue' = Append(rrcQueue, r) /\ UNCHANGED netQueue
    <3>1. Elements(rrcQueue)' = Elements(rrcQueue) \cup {r}
      BY <2>3, ElementsOfAppend DEF TypeOK
    <3> QED
      BY <1>2, <2>1, <2>3, <3>1 DEF SendCommand, Held, Holders
  <2>4. CASE UNCHANGED <<netQueue, rrcQueue>> /\ phase' = [phase EXCEPT ![r] = "answered"]
    <3>1. phase'[r] = "answered"
      BY <2>4 DEF TypeOK
    <3> QED
      BY <1>2, <2>1, <2>4, <3>1 DEF SendCommand, Held, Holders
  <2> QED
    BY <1>2, <2>2, <2>3, <2>4 DEF SendCommand
<1> QED
  BY <1>1, <1>2

LEMMA NetworkHolds ==
    ASSUME TypeOK, Stages, Channels, Held,
           \/ FailLate \/ HandleNetworkCommand \/ CloseNetwork \/ EndNetwork
    PROVE  Held'
<1> USE DEF signals, net, chat, clients, faults
<1>1. CASE FailLate
  <2>1. CASE netRx = "taken"
    BY <1>1, <2>1, HeldByAnswer DEF FailLate, DropNetworkReceiver, Holders
  <2>2. CASE netRx = "unclaimed"
    BY <1>1, <2>2, HeldByAll DEF FailLate, Stages, Holders
  <2>3. netRx # "dropped"
    BY <1>1 DEF FailLate, TypeOK, Stages
  <2> QED
    BY <2>1, <2>2, <2>3 DEF TypeOK
<1>2. CASE HandleNetworkCommand
  <2>1. Elements(netQueue) = {Head(netQueue)} \cup Elements(netQueue)'
    BY <1>2, ElementsOfTail DEF HandleNetworkCommand, TypeOK
  <2>2. CASE tasks' = tasks \cup {Head(netQueue)} /\ UNCHANGED phase
    BY <1>2, <2>1, <2>2, HeldByAll DEF HandleNetworkCommand, Holders
  <2>3. CASE Answered({Head(netQueue)}) /\ UNCHANGED tasks
    BY <1>2, <2>1, <2>3, HeldByAnswer DEF HandleNetworkCommand, Holders
  <2> QED
    BY <1>2, <2>2, <2>3 DEF HandleNetworkCommand
<1>3. CASE CloseNetwork
  BY <1>3, HeldByAnswer DEF CloseNetwork, Holders
<1>4. CASE EndNetwork
  BY <1>4, HeldByAnswer DEF EndNetwork, Holders
<1> QED
  BY <1>1, <1>2, <1>3, <1>4

LEMMA RrcHolds ==
    ASSUME TypeOK, Stages, Channels, Held,
           \/ HandleRrcCommand \/ FinishRrcCommand \/ EndRrc
           \/ \E r \in Requests : FinishTask(r)
    PROVE  Held'
<1> USE DEF signals, net, chat, clients, faults
<1>1. CASE HandleRrcCommand
  <2>1. Elements(rrcQueue) = {Head(rrcQueue)} \cup Elements(rrcQueue)'
    BY <1>1, ElementsOfTail DEF HandleRrcCommand, TypeOK
  <2>2. tasks \cup current \cup {Head(rrcQueue)} = tasks' \cup current'
    BY <1>1 DEF HandleRrcCommand
  <2> QED
    BY <1>1, <2>1, <2>2, HeldByAll DEF HandleRrcCommand, Holders
<1>2. CASE FinishRrcCommand
  BY <1>2, HeldByAnswer DEF FinishRrcCommand, Holders
<1>3. CASE EndRrc
  BY <1>3, HeldByAnswer DEF EndRrc, Holders
<1>4. ASSUME NEW r \in Requests, FinishTask(r) PROVE Held'
  BY <1>4, HeldByAnswer DEF FinishTask, Holders
<1> QED
  BY <1>1, <1>2, <1>3, <1>4

LEMMA NextHeld ==
    ASSUME TypeOK, Stages, Channels, Held, [Next]_vars
    PROVE  Held'
<1>1. CASE SpawnRrc \/ TakeNetworkReceiver \/ GoOnline \/ FailEarly \/ ReportFailed
           \/ TakeRrcReceiver \/ Main \/ UNCHANGED vars
  <2>1. UNCHANGED <<phase, netQueue, rrcQueue, tasks, current>>
    BY <1>1 DEF SpawnRrc, TakeNetworkReceiver, GoOnline, FailEarly, ReportFailed,
       TakeRrcReceiver, Main, Signal, TriggerShutdown, Exit, vars, net, chat, clients
  <2> QED
    BY <2>1, HeldByAll DEF Holders
<1> QED
  BY <1>1, HandlersHold, NetworkHolds, RrcHolds DEF Next, Handlers, Tasks

\* Only a server that still serves lets a request in.
LEMMA NextOpen ==
    ASSUME TypeOK, Stages, NoneOpen, [Next]_vars
    PROVE  NoneOpen'
<1> USE DEF signals, net, chat, clients, faults
<1>1. ASSUME NEW r \in Requests, Arrive(r) PROVE NoneOpen'
  <2>1. ~shutdown'
    BY <1>1 DEF Arrive, Stages
  <2> QED
    BY <2>1 DEF NoneOpen
<1>2. ASSUME UNCHANGED shutdown, Open' \subseteq Open PROVE NoneOpen'
  BY <1>2 DEF NoneOpen
<1>3. ASSUME NEW r \in Requests, SendCommand(r) \/ Leave(r) PROVE NoneOpen'
  <2>1. Open' \subseteq Open
    BY <1>3 DEF SendCommand, Leave, Open, TypeOK
  <2>2. UNCHANGED shutdown
    BY <1>3 DEF SendCommand, Leave
  <2> QED
    BY <1>2, <2>1, <2>2
<1>4. ASSUME NEW rs, Answered(rs) PROVE Open' \subseteq Open
  BY <1>4 DEF Answered, Open, TypeOK
<1>5. ASSUME UNCHANGED phase PROVE Open' = Open
  BY <1>5 DEF Open
<1>6. CASE FailLate
  <2>1. Open' \subseteq Open
    BY <1>4, <1>5, <1>6 DEF FailLate, DropNetworkReceiver
  <2> QED
    BY <1>2, <1>6, <2>1 DEF FailLate
<1>7. CASE HandleNetworkCommand
  <2>1. Open' \subseteq Open
    BY <1>4, <1>5, <1>7 DEF HandleNetworkCommand
  <2> QED
    BY <1>2, <1>7, <2>1 DEF HandleNetworkCommand
<1>8. CASE CloseNetwork \/ EndNetwork \/ FinishRrcCommand \/ EndRrc
  <2>1. Open' \subseteq Open
    BY <1>4, <1>8 DEF CloseNetwork, EndNetwork, FinishRrcCommand, EndRrc
  <2>2. UNCHANGED shutdown
    BY <1>8 DEF CloseNetwork, EndNetwork, FinishRrcCommand, EndRrc
  <2> QED
    BY <1>2, <2>1, <2>2
<1>9. ASSUME NEW r \in Requests, FinishTask(r) PROVE NoneOpen'
  BY <1>2, <1>4, <1>9 DEF FinishTask
<1>10. CASE TriggerShutdown
  BY <1>5, <1>10 DEF TriggerShutdown, ServerDrained, NoneOpen
<1>11. CASE \/ SpawnRrc \/ TakeNetworkReceiver \/ GoOnline \/ FailEarly \/ ReportFailed
            \/ TakeRrcReceiver \/ HandleRrcCommand \/ Signal \/ Exit \/ UNCHANGED vars
  <2>1. UNCHANGED <<shutdown, phase>>
    BY <1>11 DEF SpawnRrc, TakeNetworkReceiver, GoOnline, FailEarly, ReportFailed,
       TakeRrcReceiver, HandleRrcCommand, Signal, Exit, vars
  <2> QED
    BY <1>2, <1>5, <2>1
<1> QED
  BY <1>1, <1>3, <1>6, <1>7, <1>8, <1>9, <1>10, <1>11 DEF Next, Handlers, Tasks, Main

LEMMA NextInvariant == ServiceInvariant /\ [Next]_vars => ServiceInvariant'
BY NextTypes, NextStages, NextChannels, NextHeld, NextOpen DEF ServiceInvariant

\* Every reachable state of the process satisfies the invariant.
LEMMA ServiceCorrect == Spec => []ServiceInvariant
<1> QED
  BY InitInvariant, NextInvariant, PTL DEF Spec

\* However the tasks start, fail and stop, a request whose client waits is held
\* by a channel with a receiver to come, a task or a loop, and the tasks are
\* told to stop only when no client waits (network.rs:243-267, rrc.rs:84-96,
\* main.rs:53-61).
THEOREM NoRequestIsDropped == Spec => []WaitingIsHeld
<1> QED
  BY ServiceCorrect, InvariantHolds, PTL

-----------------------------------------------------------------------------
(* Service: a request is in one place                                      *)

Once(q) == \A i, j \in DOMAIN q : q[i] = q[j] => i = j

\* A request is in one channel once, or with one task, and in none before its
\* command is sent.
OnePlace ==
    /\ \A r \in Requests : phase[r] \in {"new", "checked"} => r \notin Holders
    /\ Once(netQueue) /\ Once(rrcQueue)
    /\ Elements(netQueue) \cap Elements(rrcQueue) = {}
    /\ (Elements(netQueue) \cup Elements(rrcQueue)) \cap (tasks \cup current) = {}
    /\ tasks \cap current = {}

LEMMA OnceByAppend ==
    ASSUME NEW q \in Seq(Requests), NEW r \in Requests, Once(q), r \notin Elements(q)
    PROVE  Once(Append(q, r))
<1>1. /\ DOMAIN Append(q, r) = 1..Len(q) + 1 /\ DOMAIN q = 1..Len(q)
      /\ Append(q, r)[Len(q) + 1] = r /\ Len(q) \in Nat
      /\ \A k \in 1..Len(q) : Append(q, r)[k] = q[k] /\ q[k] # r
  BY DEF Elements
<1> QED
  BY <1>1 DEF Once

LEMMA OnceByTail ==
    ASSUME NEW q \in Seq(Requests), q # <<>>, Once(q)
    PROVE  Once(Tail(q)) /\ Head(q) \notin Elements(Tail(q))
<1>1. /\ Len(q) \in Nat \ {0} /\ DOMAIN q = 1..Len(q)
      /\ Tail(q) \in Seq(Requests) /\ Len(Tail(q)) = Len(q) - 1
      /\ DOMAIN Tail(q) = 1..Len(q) - 1 /\ Head(q) = q[1]
      /\ \A k \in 1..Len(q) - 1 : Tail(q)[k] = q[k + 1]
  OBVIOUS
<1>2. \A k \in 1..Len(q) - 1 : k + 1 \in DOMAIN q /\ k + 1 # 1 /\ 1 \in DOMAIN q
  BY <1>1
<1>3. \A i, j \in 1..Len(q) - 1 : i + 1 = j + 1 => i = j
  BY <1>1
<1> QED
  BY <1>1, <1>2, <1>3 DEF Once, Elements

LEMMA OnceOfEmpty == Once(<<>>)
BY DEF Once

\* No step moves a request to a place it was not taken from.
LEMMA OnePlaceByLoss ==
    ASSUME TypeOK, OnePlace, Once(netQueue'), Once(rrcQueue'),
           Elements(netQueue)' \subseteq Elements(netQueue),
           Elements(rrcQueue)' \subseteq Elements(rrcQueue),
           tasks' \subseteq tasks, current' \subseteq current,
           \A r \in Requests : phase'[r] \in {"new", "checked"} => phase[r] \in {"new", "checked"}
    PROVE  OnePlace'
BY DEF OnePlace, Holders, Elements, Once

LEMMA AnsweredWereSent ==
    ASSUME TypeOK, NEW rs, Answered(rs)
    PROVE  \A r \in Requests : phase'[r] \in {"new", "checked"} => phase[r] \in {"new", "checked"}
BY DEF TypeOK, Answered

LEMMA HandlersMoveOnce ==
    ASSUME TypeOK, OnePlace, NEW r \in Requests, Arrive(r) \/ SendCommand(r) \/ Leave(r)
    PROVE  OnePlace'
<1> USE DEF signals, net, chat, clients, faults
<1>1. \A x \in Requests \ {r} : phase'[x] = phase[x]
  BY DEF TypeOK, Arrive, SendCommand, Leave
<1>2. CASE Arrive(r) \/ Leave(r)
  <2>1. UNCHANGED <<netQueue, rrcQueue, tasks, current>>
    BY <1>2 DEF Arrive, Leave
  <2>2. phase'[r] \in {"new", "checked"} => phase[r] \in {"new", "checked"}
    BY <1>2 DEF Arrive, Leave, TypeOK
  <2> QED
    BY <1>1, <2>1, <2>2 DEF OnePlace, Holders, Elements, Once
<1>3. CASE SendCommand(r)
  <2>1. r \notin Holders /\ UNCHANGED <<tasks, current>>
    BY <1>3 DEF SendCommand, OnePlace
  <2>2. phase'[r] \notin {"new", "checked"}
    BY <1>3 DEF SendCommand, TypeOK
  <2>3. CASE netQueue' = Append(netQueue, r) /\ UNCHANGED rrcQueue
    <3>1. Elements(netQueue)' = Elements(netQueue) \cup {r} /\ Elements(rrcQueue)' = Elements(rrcQueue)
      BY <2>3, ElementsOfAppend DEF TypeOK
    <3>2. Once(netQueue)' /\ Once(rrcQueue)'
      BY <2>1, <2>3, OnceByAppend DEF OnePlace, Holders, TypeOK, Once
    <3> QED
      BY <1>1, <2>1, <2>2, <3>1, <3>2 DEF OnePlace, Holders
  <2>4. CASE rrcQueue' = Append(rrcQueue, r) /\ UNCHANGED netQueue
    <3>1. Elements(rrcQueue)' = Elements(rrcQueue) \cup {r} /\ Elements(netQueue)' = Elements(netQueue)
      BY <2>4, ElementsOfAppend DEF TypeOK
    <3>2. Once(netQueue)' /\ Once(rrcQueue)'
      BY <2>1, <2>4, OnceByAppend DEF OnePlace, Holders, TypeOK, Once
    <3> QED
      BY <1>1, <2>1, <2>2, <3>1, <3>2 DEF OnePlace, Holders
  <2>5. CASE UNCHANGED <<netQueue, rrcQueue>>
    BY <1>1, <2>1, <2>2, <2>5 DEF OnePlace, Holders, Elements, Once
  <2> QED
    BY <1>3, <2>3, <2>4, <2>5 DEF SendCommand
<1> QED
  BY <1>2, <1>3

LEMMA NetworkMovesOnce ==
    ASSUME TypeOK, OnePlace,
           \/ FailLate \/ HandleNetworkCommand \/ CloseNetwork \/ EndNetwork
    PROVE  OnePlace'
<1> USE DEF signals, net, chat, clients, faults
<1>1. CASE FailLate
  <2>1. CASE netRx = "taken"
    <3>1. netQueue' = <<>> /\ tasks' \subseteq tasks /\ UNCHANGED <<rrcQueue, current>>
      BY <1>1, <2>1 DEF FailLate, DropNetworkReceiver
    <3>2. \A r \in Requests : phase'[r] \in {"new", "checked"} => phase[r] \in {"new", "checked"}
      BY <1>1, <2>1, AnsweredWereSent DEF FailLate, DropNetworkReceiver
    <3> QED
      BY <3>1, <3>2, OnceOfEmpty, ElementsOfEmpty, OnePlaceByLoss DEF OnePlace
  <2>2. CASE netRx # "taken"
    <3>1. tasks' \subseteq tasks /\ UNCHANGED <<netQueue, rrcQueue, current, phase>>
      BY <1>1, <2>2 DEF FailLate
    <3> QED
      BY <3>1, OnePlaceByLoss DEF OnePlace
  <2> QED
    BY <2>1, <2>2
<1>2. CASE HandleNetworkCommand
  <2>1. PICK r \in Requests : r = Head(netQueue)
    BY <1>2 DEF HandleNetworkCommand, TypeOK
  <2>2. /\ Elements(netQueue) = {r} \cup Elements(netQueue)'
        /\ Once(netQueue)' /\ r \notin Elements(netQueue)'
    BY <1>2, <2>1, ElementsOfTail, OnceByTail DEF HandleNetworkCommand, TypeOK, OnePlace
  <2>3. /\ Elements(rrcQueue)' = Elements(rrcQueue) /\ Once(rrcQueue)'
        /\ current' = current /\ tasks' \subseteq tasks \cup {r}
    BY <1>2, <2>1 DEF HandleNetworkCommand, OnePlace
  <2>4. \A x \in Requests : phase'[x] \in {"new", "checked"} => phase[x] \in {"new", "checked"}
    BY <1>2, AnsweredWereSent DEF HandleNetworkCommand
  <2> QED
    BY <2>2, <2>3, <2>4 DEF OnePlace, Holders
<1>3. CASE CloseNetwork
  <2>1. \A r \in Requests : phase'[r] \in {"new", "checked"} => phase[r] \in {"new", "checked"}
    BY <1>3, AnsweredWereSent DEF CloseNetwork
  <2> QED
    BY <1>3, <2>1, OnePlaceByLoss DEF CloseNetwork, OnePlace
<1>4. CASE EndNetwork
  <2>1. \A r \in Requests : phase'[r] \in {"new", "checked"} => phase[r] \in {"new", "checked"}
    BY <1>4, AnsweredWereSent DEF EndNetwork
  <2> QED
    BY <1>4, <2>1, OnceOfEmpty, ElementsOfEmpty, OnePlaceByLoss DEF EndNetwork, OnePlace
<1> QED
  BY <1>1, <1>2, <1>3, <1>4

LEMMA RrcMovesOnce ==
    ASSUME TypeOK, OnePlace,
           \/ HandleRrcCommand \/ FinishRrcCommand \/ EndRrc
           \/ \E r \in Requests : FinishTask(r)
    PROVE  OnePlace'
<1> USE DEF signals, net, chat, clients, faults
<1>1. CASE HandleRrcCommand
  <2>1. PICK r \in Requests : r = Head(rrcQueue)
    BY <1>1 DEF HandleRrcCommand, TypeOK
  <2>2. /\ Elements(rrcQueue) = {r} \cup Elements(rrcQueue)'
        /\ Once(rrcQueue)' /\ r \notin Elements(rrcQueue)'
    BY <1>1, <2>1, ElementsOfTail, OnceByTail DEF HandleRrcCommand, TypeOK, OnePlace
  <2>3. /\ Elements(netQueue)' = Elements(netQueue) /\ Once(netQueue)' /\ phase' = phase
        /\ \/ current' = current /\ tasks' = tasks \cup {r}
           \/ current' = {r} /\ tasks' = tasks
    BY <1>1, <2>1 DEF HandleRrcCommand, OnePlace
  <2> QED
    BY <2>2, <2>3 DEF OnePlace, Holders
<1>2. CASE FinishRrcCommand
  <2>1. \A r \in Requests : phase'[r] \in {"new", "checked"} => phase[r] \in {"new", "checked"}
    BY <1>2, AnsweredWereSent DEF FinishRrcCommand
  <2> QED
    BY <1>2, <2>1, OnePlaceByLoss DEF FinishRrcCommand, OnePlace
<1>3. CASE EndRrc
  <2>1. \A r \in Requests : phase'[r] \in {"new", "checked"} => phase[r] \in {"new", "checked"}
    BY <1>3, AnsweredWereSent DEF EndRrc
  <2>2. tasks' \subseteq tasks
    BY <1>3 DEF EndRrc, NetTasks
  <2> QED
    BY <1>3, <2>1, <2>2, OnceOfEmpty, ElementsOfEmpty, OnePlaceByLoss DEF EndRrc, OnePlace
<1>4. ASSUME NEW r \in Requests, FinishTask(r) PROVE OnePlace'
  <2>1. \A x \in Requests : phase'[x] \in {"new", "checked"} => phase[x] \in {"new", "checked"}
    BY <1>4, AnsweredWereSent DEF FinishTask
  <2> QED
    BY <1>4, <2>1, OnePlaceByLoss DEF FinishTask, OnePlace
<1> QED
  BY <1>1, <1>2, <1>3, <1>4

LEMMA NextOnePlace == TypeOK /\ OnePlace /\ [Next]_vars => OnePlace'
<1> SUFFICES ASSUME TypeOK, OnePlace, [Next]_vars PROVE OnePlace'
  OBVIOUS
<1>1. CASE SpawnRrc \/ TakeNetworkReceiver \/ GoOnline \/ FailEarly \/ ReportFailed
           \/ TakeRrcReceiver \/ Main \/ UNCHANGED vars
  <2>1. UNCHANGED <<phase, netQueue, rrcQueue, tasks, current>>
    BY <1>1 DEF SpawnRrc, TakeNetworkReceiver, GoOnline, FailEarly, ReportFailed,
       TakeRrcReceiver, Main, Signal, TriggerShutdown, Exit, vars, net, chat, clients
  <2> QED
    BY <2>1 DEF OnePlace, Holders, Once, Elements
<1> QED
  BY <1>1, HandlersMoveOnce, NetworkMovesOnce, RrcMovesOnce DEF Next, Handlers, Tasks

LEMMA InitOnePlace == Init => OnePlace
BY ElementsOfEmpty, OnceOfEmpty DEF Init, OnePlace, Holders

\* No command is in two places or in one place twice, so that none is handled
\* twice, whatever fails and stops (network.rs:243-267, rrc.rs:84-96).
THEOREM CommandsAreInOnePlace == Spec => []OnePlace
<1>1. Spec => []TypeOK
  <2>1. ServiceInvariant => TypeOK
    BY DEF ServiceInvariant
  <2> QED
    BY <2>1, ServiceCorrect, PTL
<1> QED
  BY <1>1, InitOnePlace, NextOnePlace, PTL DEF Spec

-----------------------------------------------------------------------------
(* Service: a step is always ready                                         *)

\* The RRC task is there once run() got that far, the tasks end only when they
\* are told to, and a request that passed the check of the network state came
\* when both receivers were, or were about to be, in the hands of a task.
Order ==
    /\ network \in {"spawned", "taken", "looping", "failing", "closing", "ended"} => rrc # "none"
    /\ network \in {"closing", "ended"} => shutdown
    /\ rrc = "ended" => shutdown
    /\ online => rrc # "none" /\ netRx # "unclaimed"
    /\ \A r \in Open : kind[r] \in ChecksOnline => rrc # "none" /\ netRx # "unclaimed"
    /\ \A r \in Elements(netQueue) : kind[r] \in NetworkKinds

\* What each step leaves, but for the stages of the tasks.
LEMMA OrderKept ==
    ASSUME Order, UNCHANGED <<network, online, kind>>,
           rrc # "none" => rrc' # "none", netRx # "unclaimed" => netRx' # "unclaimed",
           shutdown => shutdown', rrc' = "ended" => shutdown',
           Open' \subseteq Open, Elements(netQueue)' \subseteq Elements(netQueue)
    PROVE  Order'
BY DEF Order

LEMMA AnsweredAreClosed == ASSUME TypeOK, NEW rs, Answered(rs) PROVE Open' \subseteq Open
BY DEF Answered, Open, TypeOK

LEMMA HandlersKeepOrder ==
    ASSUME TypeOK, Order, NEW r \in Requests, Arrive(r) \/ SendCommand(r) \/ Leave(r)
    PROVE  Order'
<1> USE DEF signals, net, chat, clients, faults
<1>1. CASE Arrive(r)
  <2>1. Open' = Open \/ (Open' = Open \cup {r} /\ ~Refused(r))
    BY <1>1 DEF Arrive, Open, TypeOK
  <2>2. kind[r] \in ChecksOnline /\ ~Refused(r) => online
    BY DEF Refused
  <2> QED
    BY <1>1, <2>1, <2>2 DEF Arrive, Order, Elements
<1>2. CASE SendCommand(r)
  <2>1. Open' \subseteq Open
    BY <1>2 DEF SendCommand, Open, TypeOK
  <2>2. \A x \in Elements(netQueue)' : kind[x] \in NetworkKinds
    <3>1. CASE netQueue' = Append(netQueue, r) /\ kind[r] \in NetworkKinds
      <4>1. Elements(netQueue)' = Elements(netQueue) \cup {r}
        BY <3>1, ElementsOfAppend DEF TypeOK
      <4> QED
        BY <3>1, <4>1 DEF Order
    <3>2. CASE UNCHANGED netQueue
      BY <3>2 DEF Order, Elements
    <3> QED
      BY <1>2, <3>1, <3>2 DEF SendCommand
  <2> QED
    BY <1>2, <2>1, <2>2 DEF SendCommand, Order
<1>3. CASE Leave(r)
  <2>1. Open' \subseteq Open
    BY <1>3 DEF Leave, Open, TypeOK
  <2> QED
    BY <1>3, <2>1, OrderKept DEF Leave, Elements, Order
<1> QED
  BY <1>1, <1>2, <1>3

LEMMA NetworkKeepsOrder ==
    ASSUME TypeOK, Stages, Order,
           \/ SpawnRrc \/ TakeNetworkReceiver \/ GoOnline
           \/ FailEarly \/ FailLate \/ ReportFailed
           \/ HandleNetworkCommand \/ CloseNetwork \/ EndNetwork
    PROVE  Order'
<1> USE DEF signals, net, chat, clients, faults
<1>1. CASE SpawnRrc
  BY <1>1 DEF SpawnRrc, Order, Open, Elements
<1>2. CASE TakeNetworkReceiver
  BY <1>2 DEF TakeNetworkReceiver, Order, Open, Elements
<1>3. CASE GoOnline
  <2>1. netRx # "unclaimed"
    BY <1>3 DEF GoOnline, TypeOK
  <2> QED
    BY <1>3, <2>1 DEF GoOnline, Order, Open, Elements
<1>4. CASE FailEarly
  BY <1>4 DEF FailEarly, Order, Open, Elements
<1>5. CASE FailLate
  <2>1. Open' \subseteq Open /\ Elements(netQueue)' \subseteq Elements(netQueue)
        /\ (netRx # "unclaimed" => netRx' # "unclaimed")
    <3>1. CASE netRx = "taken"
      BY <1>5, <3>1, AnsweredAreClosed, ElementsOfEmpty DEF FailLate, DropNetworkReceiver
    <3>2. CASE netRx # "taken"
      BY <1>5, <3>2 DEF FailLate, Open, Elements
    <3> QED
      BY <3>1, <3>2
  <2> QED
    BY <1>5, <2>1 DEF FailLate, Order
<1>6. CASE ReportFailed
  BY <1>6 DEF ReportFailed, Order, Open, Elements
<1>7. CASE HandleNetworkCommand
  <2>1. Elements(netQueue)' \subseteq Elements(netQueue)
    BY <1>7, ElementsOfTail DEF HandleNetworkCommand, TypeOK
  <2>2. Open' \subseteq Open
    BY <1>7, AnsweredAreClosed DEF HandleNetworkCommand, Open
  <2> QED
    BY <1>7, <2>1, <2>2 DEF HandleNetworkCommand, Order
<1>8. CASE CloseNetwork
  <2>1. Open' \subseteq Open
    BY <1>8, AnsweredAreClosed DEF CloseNetwork
  <2> QED
    BY <1>8, <2>1 DEF CloseNetwork, Order, Elements
<1>9. CASE EndNetwork
  <2>1. Open' \subseteq Open /\ Elements(netQueue)' = {}
    BY <1>9, AnsweredAreClosed, ElementsOfEmpty DEF EndNetwork
  <2> QED
    BY <1>9, <2>1 DEF EndNetwork, Order
<1> QED
  BY <1>1, <1>2, <1>3, <1>4, <1>5, <1>6, <1>7, <1>8, <1>9

LEMMA RrcKeepsOrder ==
    ASSUME TypeOK, Order,
           \/ TakeRrcReceiver \/ HandleRrcCommand \/ FinishRrcCommand \/ EndRrc
           \/ \E r \in Requests : FinishTask(r)
    PROVE  Order'
<1> USE DEF signals, net, chat, clients, faults
<1>1. CASE TakeRrcReceiver
  BY <1>1, OrderKept DEF TakeRrcReceiver, Open, Elements
<1>2. CASE HandleRrcCommand
  BY <1>2, OrderKept DEF HandleRrcCommand, Open, Elements
<1>3. CASE FinishRrcCommand
  <2>1. Open' \subseteq Open
    BY <1>3, AnsweredAreClosed DEF FinishRrcCommand
  <2> QED
    BY <1>3, <2>1 DEF FinishRrcCommand, Order, Elements
<1>4. CASE EndRrc
  <2>1. Open' \subseteq Open
    BY <1>4, AnsweredAreClosed DEF EndRrc
  <2> QED
    BY <1>4, <2>1 DEF EndRrc, Order, Elements
<1>5. ASSUME NEW r \in Requests, FinishTask(r) PROVE Order'
  <2>1. Open' \subseteq Open
    BY <1>5, AnsweredAreClosed DEF FinishTask
  <2> QED
    BY <1>5, <2>1 DEF FinishTask, Order, Elements
<1> QED
  BY <1>1, <1>2, <1>3, <1>4, <1>5

LEMMA NextOrder == TypeOK /\ Stages /\ Order /\ [Next]_vars => Order'
<1> SUFFICES ASSUME TypeOK, Stages, Order, [Next]_vars PROVE Order'
  OBVIOUS
<1> USE DEF signals, net, chat, clients, faults
<1>1. CASE Main
  <2>1. /\ UNCHANGED <<network, online, netRx, netQueue, rrc, phase, kind>>
        /\ shutdown => shutdown'
    BY <1>1 DEF Main, Signal, TriggerShutdown, Exit
  <2> QED
    BY <2>1 DEF Order, Open, Elements
<1>2. CASE UNCHANGED vars
  BY <1>2 DEF vars, Order, Open, Elements
<1> QED
  BY <1>1, <1>2, HandlersKeepOrder, NetworkKeepsOrder, RrcKeepsOrder DEF Next, Handlers, Tasks

LEMMA OrderHolds == Spec => []Order
<1>1. Init => Order
  BY ElementsOfEmpty DEF Init, Order, Open
<1>2. ServiceInvariant => TypeOK /\ Stages
  BY DEF ServiceInvariant
<1> QED
  BY <1>1, <1>2, NextOrder, ServiceCorrect, PTL DEF Spec

\* A handler can send its command, or is refused it.
SendReady(r) ==
    /\ phase[r] = "checked"
    /\ IF kind[r] \in NetworkKinds
       THEN netRx = "dropped" \/ Len(netQueue) < Capacity
       ELSE rrcRx = "dropped" \/ Len(rrcQueue) < Capacity

\* The guards of the steps that Fairness speaks of.
StepReady ==
    \/ \E r \in Requests : SendReady(r)
    \/ network \in {"starting", "spawned", "taken", "failing"}
    \/ network = "looping" /\ (netQueue # <<>> \/ shutdown)
    \/ network = "closing" /\ rrc = "ended"
    \/ rrc = "spawned" \/ current # {} \/ tasks # {}
    \/ rrc = "looping" /\ current = {} /\ (rrcQueue # <<>> \/ shutdown)
    \/ ServerDrained
    \/ server = "closing" /\ network \in {"none", "failed", "ended"}

\* While a request is open or the process is to stop, some step that is bound
\* to be taken is ready, unless an RRC request was abandoned.
NothingIsStuck ==
    Running /\ (server # "serving" \/ Open # {}) /\ ~Abandoned => StepReady

LEMMA InvariantIsNotStuck == ServiceInvariant /\ Order => NothingIsStuck
<1> SUFFICES ASSUME ServiceInvariant, Order, Running, server # "serving" \/ Open # {},
                    ~Abandoned, ~StepReady
             PROVE  FALSE
  BY DEF NothingIsStuck
<1>1. TypeOK /\ Stages /\ Channels /\ Held /\ NoneOpen
  BY DEF ServiceInvariant
<1>2. /\ network \in {"none", "looping", "failed", "closing", "ended"}
      /\ rrc \in {"none", "looping", "ended"} /\ current = {} /\ tasks = {}
      /\ network = "looping" => netQueue = <<>> /\ ~shutdown
      /\ rrc = "looping" => rrcQueue = <<>> /\ ~shutdown
  BY <1>1 DEF StepReady, TypeOK
<1>3. CASE Open = {}
  <2>1. server = "closing" /\ shutdown
    BY <1>1, <1>3 DEF Running, StepReady, ServerDrained, Stages, TypeOK
  <2>2. network = "closing" /\ rrc # "ended"
    BY <1>2, <2>1 DEF StepReady
  <2> QED
    BY <1>2, <2>1, <2>2 DEF Order
<1>4. ASSUME NEW r \in Open PROVE FALSE
  <2>1. r \in Requests /\ phase[r] \in {"checked", "waiting"} /\ kind[r] \in Kinds /\ ~shutdown
    BY <1>1, <1>4 DEF Open, NoneOpen, TypeOK
  <2>2. network \in {"none", "looping", "failed"} /\ rrc \in {"none", "looping"}
    BY <1>2, <2>1 DEF Order
  <2>3. CASE kind[r] \in NetworkKinds
    <3>1. netRx # "unclaimed"
      BY <1>4, <2>3 DEF Order, NetworkKinds, ChecksOnline
    <3>2. netQueue = <<>>
      BY <1>1, <1>2, <2>2, <3>1 DEF TypeOK, Channels
    <3>3. r \notin Elements(netQueue) /\ r \notin Elements(rrcQueue)
      BY <1>1, <2>3, <3>2, ElementsOfEmpty DEF Channels, NetworkKinds, RrcKinds
    <3>4. phase[r] = "checked"
      BY <1>1, <1>2, <2>1, <3>3 DEF Held, Holders
    <3>5. Len(netQueue) < Capacity
      BY <3>2, ServiceAssumption
    <3> QED
      BY <2>1, <2>3, <3>4, <3>5 DEF StepReady, SendReady
  <2>4. CASE kind[r] \in RrcKinds \ NetworkKinds
    <3>1. rrc = "looping"
      <4> SUFFICES ASSUME rrc = "none" PROVE FALSE
        BY <2>2
      <4>1. network \in {"none", "failed"}
        BY <2>2 DEF Order
      <4>2. kind[r] \notin ChecksOnline
        BY <1>4 DEF Order
      <4> QED
        BY <1>4, <2>4, <4>1, <4>2 DEF Abandoned
    <3>2. rrcQueue = <<>>
      BY <1>2, <3>1
    <3>3. r \notin Elements(rrcQueue) /\ r \notin Elements(netQueue)
      BY <2>4, <3>2, ElementsOfEmpty DEF Order
    <3>4. phase[r] = "checked"
      BY <1>1, <1>2, <2>1, <3>3 DEF Held, Holders
    <3>5. Len(rrcQueue) < Capacity
      BY <3>2, ServiceAssumption
    <3> QED
      BY <2>1, <2>4, <3>4, <3>5 DEF StepReady, SendReady
  <2> QED
    BY <2>1, <2>3, <2>4 DEF Kinds
<1> QED
  BY <1>3, <1>4

\* Whatever fails, whoever waits for whom and however full the channels are,
\* the server, its requests and the two tasks never all wait for each other
\* (main.rs:53-61, network.rs:243-267, rrc.rs:84-96).
THEOREM NobodyWaitsForEver == Spec => []NothingIsStuck
<1> QED
  BY ServiceCorrect, OrderHolds, InvariantIsNotStuck, PTL

-----------------------------------------------------------------------------
(* Service: what a stop has to do                                          *)

Unsent == {r \in Requests : phase[r] = "checked"}
Unhandled == Unsent \cup Elements(netQueue) \cup Elements(rrcQueue)
Unfinished == Unsent \cup Holders

\* How many stages are ahead of the server and of each task.
ServerAhead == [serving |-> 3, draining |-> 2, closing |-> 1, stopped |-> 0]
NetworkAhead == [starting |-> 5, spawned |-> 4, taken |-> 3, looping |-> 2, failing |-> 1,
                 closing |-> 1, none |-> 0, failed |-> 0, ended |-> 0]
RrcAhead == [none |-> 3, spawned |-> 2, looping |-> 1, ended |-> 0]

StagesAhead == ServerAhead[server] + NetworkAhead[network] + RrcAhead[rrc]

\* Nothing is added to what is open, unsent, unhandled or unfinished ...
NothingIsAdded ==
    /\ Open' \subseteq Open /\ Unsent' \subseteq Unsent
    /\ Unhandled' \subseteq Unhandled /\ Unfinished' \subseteq Unfinished

\* ... and something is taken from it, or a stage is over.
SomethingIsDone ==
    \/ Open' # Open \/ Unsent' # Unsent
    \/ Unhandled' # Unhandled \/ Unfinished' # Unfinished
    \/ StagesAhead' < StagesAhead

LEMMA StagesAheadIs ==
    ASSUME TypeOK
    PROVE  /\ ServerAhead[server] \in Nat /\ NetworkAhead[network] \in Nat
           /\ RrcAhead[rrc] \in Nat /\ StagesAhead \in Nat
<1>1. ServerAhead[server] \in Nat
  BY DEF TypeOK, ServerAhead
<1>2. NetworkAhead[network] \in Nat
  BY DEF TypeOK, NetworkAhead
<1>3. RrcAhead[rrc] \in Nat
  BY DEF TypeOK, RrcAhead
<1> QED
  BY <1>1, <1>2, <1>3 DEF StagesAhead

LEMMA NextStagesAheadIs ==
    ASSUME TypeOK'
    PROVE  /\ ServerAhead[server'] \in Nat /\ NetworkAhead[network'] \in Nat
           /\ RrcAhead[rrc'] \in Nat
           /\ StagesAhead' = ServerAhead[server'] + NetworkAhead[network'] + RrcAhead[rrc']
<1>1. ServerAhead[server'] \in Nat
  BY DEF TypeOK, ServerAhead
<1>2. NetworkAhead[network'] \in Nat
  BY DEF TypeOK, NetworkAhead
<1>3. RrcAhead[rrc'] \in Nat
  BY DEF TypeOK, RrcAhead
<1>4. StagesAhead' = ServerAhead[server'] + NetworkAhead[network'] + RrcAhead[rrc']
  BY DEF StagesAhead, ServerAhead, NetworkAhead, RrcAhead
<1> QED
  BY <1>1, <1>2, <1>3, <1>4

\* What one step does that lets no request in.
Forward == NothingIsAdded /\ SomethingIsDone /\ StagesAhead' <= StagesAhead

\* A stage is over.
LEMMA ForwardByStage ==
    ASSUME TypeOK, TypeOK', UNCHANGED <<phase, netQueue, rrcQueue, tasks, current>>,
           \/ /\ ServerAhead[server'] < ServerAhead[server] /\ UNCHANGED <<network, rrc>>
           \/ /\ NetworkAhead[network'] < NetworkAhead[network] /\ UNCHANGED server
              /\ RrcAhead[rrc'] <= RrcAhead[rrc]
           \/ /\ RrcAhead[rrc'] < RrcAhead[rrc] /\ UNCHANGED <<server, network>>
    PROVE  Forward
<1>1. StagesAhead' < StagesAhead
  BY StagesAheadIs, NextStagesAheadIs DEF StagesAhead
<1>2. NothingIsAdded
  BY DEF NothingIsAdded, Open, Unsent, Unhandled, Unfinished, Holders, Elements
<1> QED
  BY <1>1, <1>2, StagesAheadIs, NextStagesAheadIs DEF Forward, SomethingIsDone, StagesAhead

LEMMA AnsweredAreSent == ASSUME TypeOK, NEW rs, Answered(rs) PROVE Unsent' = Unsent
BY DEF Answered, Unsent, TypeOK

LEMMA NetworkGoesForward ==
    ASSUME TypeOK, TypeOK', Stages, OnePlace,
           \/ SpawnRrc \/ TakeNetworkReceiver \/ GoOnline
           \/ FailEarly \/ FailLate \/ ReportFailed
           \/ HandleNetworkCommand \/ CloseNetwork \/ EndNetwork
    PROVE  Forward
<1> USE DEF signals, net, chat, clients, faults
<1>1. CASE SpawnRrc
  BY <1>1, ForwardByStage DEF SpawnRrc, Stages, NetworkAhead, RrcAhead
<1>2. CASE TakeNetworkReceiver \/ GoOnline \/ FailEarly \/ ReportFailed
  <2>1. /\ UNCHANGED <<phase, netQueue, rrcQueue, tasks, current, server, rrc>>
        /\ NetworkAhead[network'] < NetworkAhead[network]
    BY <1>2 DEF TakeNetworkReceiver, GoOnline, FailEarly, ReportFailed, NetworkAhead
  <2>2. RrcAhead[rrc'] <= RrcAhead[rrc]
    BY <2>1, StagesAheadIs
  <2> QED
    BY <2>1, <2>2, ForwardByStage
<1>3. ASSUME NothingIsAdded, UNCHANGED <<server, rrc>>,
             NetworkAhead[network'] < NetworkAhead[network]
      PROVE  Forward
  <2>1. StagesAhead' < StagesAhead
    BY <1>3, StagesAheadIs, NextStagesAheadIs DEF StagesAhead
  <2> QED
    BY <1>3, <2>1, StagesAheadIs, NextStagesAheadIs DEF Forward, SomethingIsDone
<1>4. CASE FailLate
  <2>1. UNCHANGED <<server, rrc>> /\ NetworkAhead[network'] < NetworkAhead[network]
    BY <1>4 DEF FailLate, NetworkAhead
  <2>2. CASE netRx = "taken"
    <3>1. Answered(Elements(netQueue) \cup NetTasks) /\ netQueue' = <<>>
          /\ tasks' \subseteq tasks /\ UNCHANGED <<rrcQueue, current>>
      BY <1>4, <2>2 DEF FailLate, DropNetworkReceiver
    <3>2. Open' \subseteq Open /\ Unsent' = Unsent /\ Elements(netQueue)' = {}
      BY <3>1, AnsweredAreClosed, AnsweredAreSent, ElementsOfEmpty
    <3>3. NothingIsAdded
      BY <3>1, <3>2 DEF NothingIsAdded, Unhandled, Unfinished, Holders, Elements
    <3> QED
      BY <1>3, <2>1, <3>3
  <2>3. CASE netRx # "taken"
    <3>1. tasks' \subseteq tasks /\ UNCHANGED <<phase, netQueue, rrcQueue, current>>
      BY <1>4, <2>3 DEF FailLate
    <3>2. NothingIsAdded
      BY <3>1 DEF NothingIsAdded, Open, Unsent, Unhandled, Unfinished, Holders, Elements
    <3> QED
      BY <1>3, <2>1, <3>2
  <2> QED
    BY <2>2, <2>3
<1>5. CASE HandleNetworkCommand
  <2>1. PICK r \in Requests : r = Head(netQueue)
    BY <1>5 DEF HandleNetworkCommand, TypeOK
  <2>2. Elements(netQueue) = {r} \cup Elements(netQueue)' /\ r \notin Elements(netQueue)'
    BY <1>5, <2>1, ElementsOfTail, OnceByTail DEF HandleNetworkCommand, TypeOK, OnePlace
  <2>3. /\ Elements(rrcQueue)' = Elements(rrcQueue) /\ tasks' \subseteq tasks \cup {r}
        /\ UNCHANGED <<server, network, rrc, current>>
    BY <1>5, <2>1 DEF HandleNetworkCommand
  <2>4. Open' \subseteq Open /\ Unsent' = Unsent
    BY <1>5, AnsweredAreClosed, AnsweredAreSent DEF HandleNetworkCommand, Open, Unsent
  <2>5. r \notin Unsent /\ r \notin Elements(rrcQueue)
    BY <2>2 DEF OnePlace, Holders, Unsent
  <2>6. NothingIsAdded
    BY <2>2, <2>3, <2>4 DEF NothingIsAdded, Unhandled, Unfinished, Holders
  <2>7. r \in Unhandled /\ r \notin Unhandled'
    BY <2>2, <2>3, <2>4, <2>5 DEF Unhandled
  <2>8. StagesAhead' = StagesAhead
    BY <2>3 DEF StagesAhead
  <2> QED
    BY <2>6, <2>7, <2>8, StagesAheadIs DEF Forward, SomethingIsDone
<1>6. CASE CloseNetwork
  <2>1. /\ UNCHANGED <<server, rrc, netQueue, rrcQueue, current>> /\ tasks' \subseteq tasks
        /\ NetworkAhead[network'] < NetworkAhead[network]
    BY <1>6 DEF CloseNetwork, NetworkAhead
  <2>2. Open' \subseteq Open /\ Unsent' = Unsent
    BY <1>6, AnsweredAreClosed, AnsweredAreSent DEF CloseNetwork
  <2>3. NothingIsAdded
    BY <2>1, <2>2 DEF NothingIsAdded, Unhandled, Unfinished, Holders, Elements
  <2> QED
    BY <1>3, <2>1, <2>3
<1>7. CASE EndNetwork
  <2>1. /\ UNCHANGED <<server, rrc, rrcQueue, tasks, current>> /\ netQueue' = <<>>
        /\ NetworkAhead[network'] < NetworkAhead[network]
    BY <1>7 DEF EndNetwork, NetworkAhead
  <2>2. Open' \subseteq Open /\ Unsent' = Unsent /\ Elements(netQueue)' = {}
    BY <1>7, <2>1, AnsweredAreClosed, AnsweredAreSent, ElementsOfEmpty DEF EndNetwork
  <2>3. NothingIsAdded
    BY <2>1, <2>2 DEF NothingIsAdded, Unhandled, Unfinished, Holders, Elements
  <2> QED
    BY <1>3, <2>1, <2>3
<1> QED
  BY <1>1, <1>2, <1>4, <1>5, <1>6, <1>7

LEMMA RrcGoesForward ==
    ASSUME TypeOK, TypeOK', OnePlace,
           \/ TakeRrcReceiver \/ HandleRrcCommand \/ FinishRrcCommand \/ EndRrc
           \/ \E r \in Requests : FinishTask(r)
    PROVE  Forward
<1> USE DEF signals, net, chat, clients, faults
<1>1. CASE TakeRrcReceiver
  BY <1>1, ForwardByStage DEF TakeRrcReceiver, RrcAhead
<1>2. CASE HandleRrcCommand
  <2>1. PICK r \in Requests : r = Head(rrcQueue)
    BY <1>2 DEF HandleRrcCommand, TypeOK
  <2>2. Elements(rrcQueue) = {r} \cup Elements(rrcQueue)' /\ r \notin Elements(rrcQueue)'
    BY <1>2, <2>1, ElementsOfTail, OnceByTail DEF HandleRrcCommand, TypeOK, OnePlace
  <2>3. /\ UNCHANGED <<server, network, rrc, netQueue, phase>>
        /\ tasks' \subseteq tasks \cup {r} /\ current' \subseteq current \cup {r}
    BY <1>2, <2>1 DEF HandleRrcCommand
  <2>4. Open' = Open /\ Unsent' = Unsent /\ Elements(netQueue)' = Elements(netQueue)
    BY <2>3 DEF Open, Unsent, Elements
  <2>5. r \notin Unsent /\ r \notin Elements(netQueue)
    BY <2>2 DEF OnePlace, Holders, Unsent
  <2>6. NothingIsAdded
    BY <2>2, <2>3, <2>4 DEF NothingIsAdded, Unhandled, Unfinished, Holders
  <2>7. r \in Unhandled /\ r \notin Unhandled'
    BY <2>2, <2>4, <2>5 DEF Unhandled
  <2>8. StagesAhead' = StagesAhead
    BY <2>3 DEF StagesAhead
  <2> QED
    BY <2>6, <2>7, <2>8, StagesAheadIs DEF Forward, SomethingIsDone
<1>3. ASSUME NEW r \in tasks \cup current,
             tasks' \subseteq tasks, current' \subseteq current, r \notin tasks' \cup current',
             UNCHANGED <<server, network, rrc, netQueue, rrcQueue>>,
             NEW rs, Answered(rs)
      PROVE  Forward
  <2>1. Open' \subseteq Open /\ Unsent' = Unsent
    BY <1>3, AnsweredAreClosed, AnsweredAreSent
  <2>2. NothingIsAdded
    BY <1>3, <2>1 DEF NothingIsAdded, Unhandled, Unfinished, Holders, Elements
  <2>3. r \notin Unsent /\ r \notin Elements(netQueue) \cup Elements(rrcQueue)
    BY <1>3 DEF OnePlace, Holders, Unsent
  <2>4. r \in Unfinished /\ r \notin Unfinished'
    BY <1>3, <2>1, <2>3 DEF Unfinished, Holders, Elements
  <2>5. StagesAhead' = StagesAhead
    BY <1>3 DEF StagesAhead
  <2> QED
    BY <2>2, <2>4, <2>5, StagesAheadIs DEF Forward, SomethingIsDone
<1>4. CASE FinishRrcCommand
  <2>1. PICK r \in current : TRUE
    BY <1>4 DEF FinishRrcCommand
  <2>2. r \notin tasks
    BY DEF OnePlace
  <2> QED
    BY <1>3, <1>4, <2>1, <2>2 DEF FinishRrcCommand
<1>5. ASSUME NEW r \in Requests, FinishTask(r) PROVE Forward
  <2>1. r \in tasks /\ r \notin current
    BY <1>5 DEF FinishTask, OnePlace
  <2> QED
    BY <1>3, <1>5, <2>1 DEF FinishTask
<1>6. CASE EndRrc
  <2>1. /\ UNCHANGED <<server, network, netQueue, current>> /\ tasks' \subseteq tasks
        /\ rrcQueue' = <<>> /\ RrcAhead[rrc'] < RrcAhead[rrc]
    BY <1>6 DEF EndRrc, NetTasks, RrcAhead
  <2>2. Open' \subseteq Open /\ Unsent' = Unsent /\ Elements(rrcQueue)' = {}
    BY <1>6, <2>1, AnsweredAreClosed, AnsweredAreSent, ElementsOfEmpty DEF EndRrc
  <2>3. NothingIsAdded
    BY <2>1, <2>2 DEF NothingIsAdded, Unhandled, Unfinished, Holders, Elements
  <2>4. StagesAhead' < StagesAhead
    BY <2>1, StagesAheadIs, NextStagesAheadIs DEF StagesAhead
  <2> QED
    BY <2>3, <2>4, StagesAheadIs, NextStagesAheadIs DEF Forward, SomethingIsDone
<1> QED
  BY <1>1, <1>2, <1>4, <1>5, <1>6

LEMMA HandlersGoForward ==
    ASSUME TypeOK, TypeOK', NEW r \in Requests, SendCommand(r) \/ Leave(r)
    PROVE  Forward
<1> USE DEF signals, net, chat, clients, faults
<1>1. UNCHANGED <<server, network, rrc, tasks, current>>
  BY DEF SendCommand, Leave
<1>2. StagesAhead' = StagesAhead
  BY <1>1 DEF StagesAhead
<1>3. CASE SendCommand(r)
  <2>1. r \in Unsent /\ Unsent' = Unsent \ {r} /\ Open' \subseteq Open
    BY <1>3 DEF SendCommand, Unsent, Open, TypeOK
  <2>2. /\ Elements(netQueue)' \subseteq Elements(netQueue) \cup {r}
        /\ Elements(rrcQueue)' \subseteq Elements(rrcQueue) \cup {r}
    <3>1. \A q \in Seq(Requests) : Elements(Append(q, r)) = Elements(q) \cup {r}
      BY ElementsOfAppend
    <3>2. /\ netQueue' \in {netQueue, Append(netQueue, r)}
          /\ rrcQueue' \in {rrcQueue, Append(rrcQueue, r)}
      BY <1>3 DEF SendCommand
    <3>3. Elements(netQueue)' = Elements(netQueue') /\ Elements(rrcQueue)' = Elements(rrcQueue')
      BY DEF Elements
    <3> QED
      BY <3>1, <3>2, <3>3 DEF TypeOK
  <2>3. NothingIsAdded
    BY <1>1, <2>1, <2>2 DEF NothingIsAdded, Unhandled, Unfinished, Holders
  <2> QED
    BY <1>2, <2>1, <2>3, StagesAheadIs DEF Forward, SomethingIsDone
<1>4. CASE Leave(r)
  <2>1. r \in Open /\ r \notin Open' /\ Open' \subseteq Open /\ Unsent' \subseteq Unsent
    BY <1>4 DEF Leave, Unsent, Open, TypeOK
  <2>2. UNCHANGED <<netQueue, rrcQueue>>
    BY <1>4 DEF Leave
  <2>3. NothingIsAdded
    BY <1>1, <2>1, <2>2 DEF NothingIsAdded, Unhandled, Unfinished, Holders, Elements
  <2> QED
    BY <1>2, <2>1, <2>3, StagesAheadIs DEF Forward, SomethingIsDone
<1> QED
  BY <1>3, <1>4

LEMMA StopGoesForward ==
    ASSUME TypeOK, TypeOK', Stages, OnePlace, Next, server # "serving"
    PROVE  Forward
<1>1. ASSUME NEW r \in Requests, Arrive(r) PROVE FALSE
  BY <1>1 DEF Arrive
<1>2. CASE Main
  <2>1. UNCHANGED <<phase, netQueue, rrcQueue, tasks, current, network, rrc>>
    BY <1>2 DEF Main, Signal, TriggerShutdown, Exit, net, chat, clients
  <2>2. ServerAhead[server'] < ServerAhead[server]
    BY <1>2 DEF Main, Signal, TriggerShutdown, ServerDrained, Exit, ServerAhead
  <2> QED
    BY <2>1, <2>2, ForwardByStage
<1> QED
  BY <1>1, <1>2, HandlersGoForward, NetworkGoesForward, RrcGoesForward
  DEF Next, Handlers, Tasks

\* What a stop has still to do.
WorkLeft ==
    Cardinality(Open) + Cardinality(Unsent) + Cardinality(Unhandled) + Cardinality(Unfinished)
        + StagesAhead

LEMMA LessIsLeft ==
    ASSUME TypeOK, TypeOK', IsFiniteSet(Requests), Forward
    PROVE  WorkLeft \in Nat /\ WorkLeft' \in Nat /\ WorkLeft' < WorkLeft
<1>1. Open \subseteq Requests /\ Unsent \subseteq Requests
  BY DEF Open, Unsent
<1>2. Unhandled \subseteq Requests /\ Unfinished \subseteq Requests
  BY <1>1 DEF Unhandled, Unfinished, Holders, Elements, TypeOK
<1>3. ASSUME NEW S, NEW T, S \subseteq Requests, T \subseteq S
      PROVE  /\ Cardinality(S) \in Nat /\ Cardinality(T) \in Nat
             /\ Cardinality(T) <= Cardinality(S)
             /\ T # S => Cardinality(T) < Cardinality(S)
  <2>1. IsFiniteSet(S)
    BY <1>3, FS_Subset
  <2>2. IsFiniteSet(T) /\ Cardinality(T) <= Cardinality(S)
        /\ (Cardinality(S) = Cardinality(T) => S = T)
    BY <1>3, <2>1, FS_Subset
  <2>3. Cardinality(S) \in Nat /\ Cardinality(T) \in Nat
    BY <2>1, <2>2, FS_CardinalityType
  <2> QED
    BY <2>2, <2>3
<1>4. /\ Cardinality(Open) \in Nat /\ Cardinality(Open') \in Nat
      /\ Cardinality(Open') <= Cardinality(Open)
      /\ Open' # Open => Cardinality(Open') < Cardinality(Open)
  BY <1>1, <1>3 DEF Forward, NothingIsAdded
<1>5. /\ Cardinality(Unsent) \in Nat /\ Cardinality(Unsent') \in Nat
      /\ Cardinality(Unsent') <= Cardinality(Unsent)
      /\ Unsent' # Unsent => Cardinality(Unsent') < Cardinality(Unsent)
  BY <1>1, <1>3 DEF Forward, NothingIsAdded
<1>6. /\ Cardinality(Unhandled) \in Nat /\ Cardinality(Unhandled') \in Nat
      /\ Cardinality(Unhandled') <= Cardinality(Unhandled)
      /\ Unhandled' # Unhandled => Cardinality(Unhandled') < Cardinality(Unhandled)
  BY <1>2, <1>3 DEF Forward, NothingIsAdded
<1>7. /\ Cardinality(Unfinished) \in Nat /\ Cardinality(Unfinished') \in Nat
      /\ Cardinality(Unfinished') <= Cardinality(Unfinished)
      /\ Unfinished' # Unfinished => Cardinality(Unfinished') < Cardinality(Unfinished)
  BY <1>2, <1>3 DEF Forward, NothingIsAdded
<1>8. StagesAhead \in Nat /\ StagesAhead' \in Nat /\ StagesAhead' <= StagesAhead
  BY StagesAheadIs, NextStagesAheadIs DEF Forward
<1>9. PICK a \in Nat, b \in Nat, c \in Nat, d \in Nat, e \in Nat :
         /\ a = Cardinality(Open) /\ b = Cardinality(Unsent) /\ c = Cardinality(Unhandled)
         /\ d = Cardinality(Unfinished) /\ e = StagesAhead
  BY <1>4, <1>5, <1>6, <1>7, <1>8
<1>10. PICK a1 \in Nat, b1 \in Nat, c1 \in Nat, d1 \in Nat, e1 \in Nat :
         /\ a1 = Cardinality(Open') /\ b1 = Cardinality(Unsent') /\ c1 = Cardinality(Unhandled')
         /\ d1 = Cardinality(Unfinished') /\ e1 = StagesAhead'
  BY <1>4, <1>5, <1>6, <1>7, <1>8
<1>11. a1 <= a /\ b1 <= b /\ c1 <= c /\ d1 <= d /\ e1 <= e
  BY <1>4, <1>5, <1>6, <1>7, <1>8, <1>9, <1>10
<1>12. a1 < a \/ b1 < b \/ c1 < c \/ d1 < d \/ e1 < e
  BY <1>4, <1>5, <1>6, <1>7, <1>9, <1>10 DEF Forward, SomethingIsDone
<1>13. a1 + b1 + c1 + d1 + e1 < a + b + c + d + e
  BY <1>11, <1>12
<1>14. WorkLeft = a + b + c + d + e /\ WorkLeft' = a1 + b1 + c1 + d1 + e1
  BY <1>9, <1>10 DEF WorkLeft
<1> QED
  BY <1>13, <1>14

\* Once the process is told to stop, every step that anyone takes uses up some
\* of a finite amount of work: nothing is restarted, sent again or handled
\* twice, so that the process stops after at most WorkLeft steps of whoever is
\* ready (main.rs:53-61).
StopIsWorkedOff == [][server # "serving" => WorkLeft' < WorkLeft /\ WorkLeft' \in Nat]_vars

\* A stop comes to its end in finitely many steps, and NobodyWaitsForEver finds it
\* the next one; only that somebody takes it is left to the scheduler
\* (main.rs:53-61).
THEOREM StopsAreFinite == IsFiniteSet(Requests) => (Spec => StopIsWorkedOff)
<1> SUFFICES ASSUME IsFiniteSet(Requests) PROVE Spec => StopIsWorkedOff
  OBVIOUS
<1>1. ServiceInvariant => TypeOK /\ Stages
  BY DEF ServiceInvariant
<1>2. TypeOK /\ TypeOK' /\ Stages /\ OnePlace /\ [Next]_vars
        => [server # "serving" => WorkLeft' < WorkLeft /\ WorkLeft' \in Nat]_vars
  BY StopGoesForward, LessIsLeft
<1> QED
  BY <1>1, <1>2, ServiceCorrect, CommandsAreInOnePlace, PTL DEF Spec, StopIsWorkedOff

-----------------------------------------------------------------------------
(* EventStream: type correctness                                           *)

LEMMA SnapshotIs ==
    Snapshot = IF online THEN "online"
               ELSE IF network = "none" THEN "offline"
               ELSE IF network = "failed" THEN "failed" ELSE "starting"
BY Zenon DEF Snapshot

LEMMA SnapshotType == Snapshot \in States
BY SnapshotIs DEF States

LEMMA NextSnapshotType == (Snapshot \in States)'
BY SnapshotType, PTL

Sent == States \cup {"other"}

\* The newest event is the last one in the channel; those before it are the
\* old ones, without the first if the channel was full.
LEMMA PushShifts ==
    ASSUME StreamTypeOK, NEW event \in Sent, Push(event)
    PROVE  /\ channel' \in Seq(Sent) /\ Len(channel') \in 1..Limit
           /\ channel'[Len(channel')] = event
           /\ \E d \in {0, 1} :
                 /\ Len(channel) = Len(channel') - 1 + d
                 /\ \A k \in 1..Len(channel') - 1 : channel'[k] = channel[k + d]
<1>1. channel \in Seq(Sent) /\ Len(channel) \in 0..Limit /\ Limit \in Nat \ {0}
  BY StreamAssumption DEF StreamTypeOK, Sent
<1>2. CASE Len(channel) = Limit
  <2> DEFINE room == Tail(channel)
  <2>1. /\ room \in Seq(Sent) /\ Len(room) = Len(channel) - 1
        /\ \A k \in 1..Len(room) : room[k] = channel[k + 1]
    BY <1>1, <1>2
  <2>2. channel' = Append(room, event)
    BY <1>2 DEF Push
  <2> HIDE DEF room
  <2>3. /\ channel' \in Seq(Sent) /\ Len(channel') = Len(channel)
        /\ channel'[Len(channel')] = event
        /\ \A k \in 1..Len(channel') - 1 : channel'[k] = channel[k + 1]
    BY <1>1, <2>1, <2>2
  <2> QED
    BY <1>1, <1>2, <2>3
<1>3. CASE Len(channel) # Limit
  <2>1. channel' = Append(channel, event)
    BY <1>3 DEF Push
  <2>2. /\ channel' \in Seq(Sent) /\ Len(channel') = Len(channel) + 1
        /\ channel'[Len(channel')] = event
        /\ \A k \in 1..Len(channel') - 1 : channel'[k] = channel[k + 0]
    BY <1>1, <2>1
  <2> QED
    BY <1>1, <1>3, <2>2
<1> QED
  BY <1>2, <1>3

\* What a step of the service does to the client.
LEMMA ServiceStepCases ==
    ASSUME ServiceStep
    PROVE  \/ Hangup
           \/ SetNetwork(Snapshot') /\ UNCHANGED <<socket, shown>>
           \/ Snapshot' = Snapshot /\ UNCHANGED <<socket, channel, shown, missed>>
BY Zenon DEF ServiceStep

LEMMA SetNetworkTypes ==
    ASSUME StreamTypeOK, NEW state \in States, SetNetwork(state), UNCHANGED socket
    PROVE  /\ channel' \in Seq(Sent) /\ Len(channel') <= Limit
           /\ socket' # "subscribed" => channel' = <<>>
           /\ missed' \in BOOLEAN
<1>1. CASE socket = "subscribed"
  <2>1. Push(state) /\ missed' = FALSE
    BY <1>1 DEF SetNetwork, Broadcast
  <2>2. state \in Sent
    BY DEF Sent
  <2>3. channel' \in Seq(Sent) /\ Len(channel') \in 1..Limit
    BY <2>1, <2>2, PushShifts
  <2>4. socket' = "subscribed"
    BY <1>1
  <2>5. missed' \in BOOLEAN
    BY <2>1, Zenon
  <2> QED
    BY <2>3, <2>4, <2>5, StreamAssumption
<1>2. CASE socket # "subscribed"
  <2>1. UNCHANGED channel /\ missed' = (socket = "greeted" /\ state # shown)
    BY <1>2 DEF SetNetwork, Broadcast
  <2>2. missed' \in BOOLEAN
    BY <2>1
  <2> QED
    BY <1>2, <2>1, <2>2 DEF StreamTypeOK, Sent
<1> QED
  BY <1>1, <1>2

LEMMA HangupTypes ==
    ASSUME Hangup
    PROVE  /\ channel' \in Seq(Sent) /\ Len(channel') <= Limit
           /\ socket' \in {"closed", "greeted", "subscribed"}
           /\ shown' \in States \cup {"nothing", "reconnecting"}
           /\ socket' # "subscribed" => channel' = <<>>
           /\ missed' \in BOOLEAN
<1>1. channel' = <<>> /\ socket' = "closed" /\ shown' = "reconnecting" /\ missed' = FALSE
  BY DEF Hangup
<1>2. <<>> \in Seq(Sent) /\ Len(<<>>) = 0 /\ 0 <= Limit
  BY StreamAssumption
<1>3. missed' \in BOOLEAN
  BY <1>1, Zenon
<1> QED
  BY <1>1, <1>2, <1>3

LEMMA StreamInitTypes == StreamInit => StreamTypeOK
<1> SUFFICES ASSUME StreamInit PROVE StreamTypeOK
  OBVIOUS
<1>1. TypeOK
  BY InitTypes DEF StreamInit
<1>2. channel \in Seq(States \cup {"other"}) /\ Len(channel) <= Limit
  BY StreamAssumption DEF StreamInit
<1>3. others \in 0..MaxOthers /\ losses \in 0..MaxLosses
  BY StreamAssumption DEF StreamInit
<1>4. missed \in BOOLEAN
  BY DEF StreamInit
<1> QED
  BY <1>1, <1>2, <1>3, <1>4 DEF StreamInit, StreamTypeOK

LEMMA StreamStepIsServiceStep == [StreamNext]_streamVars => [Next]_vars
BY DEF StreamNext, ServiceStep, Refresh, OtherEvent, Greet, SubscribeSocket, Relay,
   LoseSocket, streamVars

LEMMA StreamNextTypes ==
    ASSUME StreamTypeOK, Stages, [StreamNext]_streamVars
    PROVE  StreamTypeOK'
<1>1. TypeOK'
  BY NextTypes, StreamStepIsServiceStep DEF StreamTypeOK
<1>2. CASE ServiceStep
  <2>1. Snapshot' \in States
    BY NextSnapshotType
  <2>2. /\ channel' \in Seq(Sent) /\ Len(channel') <= Limit
        /\ socket' \in {"closed", "greeted", "subscribed"}
        /\ shown' \in States \cup {"nothing", "reconnecting"}
        /\ socket' # "subscribed" => channel' = <<>>
        /\ missed' \in BOOLEAN
    <3>1. CASE Hangup
      BY <3>1, HangupTypes
    <3>2. CASE SetNetwork(Snapshot') /\ UNCHANGED <<socket, shown>>
      BY <2>1, <3>2, SetNetworkTypes DEF StreamTypeOK
    <3>3. CASE UNCHANGED <<socket, channel, shown, missed>>
      BY <3>3 DEF StreamTypeOK, Sent
    <3> QED
      BY <1>2, <3>1, <3>2, <3>3, ServiceStepCases
  <2>3. others' = others /\ losses' = losses
    BY <1>2 DEF ServiceStep
  <2> QED
    BY <1>1, <2>2, <2>3 DEF StreamTypeOK, Sent
<1>3. CASE Refresh
  <2>1. "online" \in States
    BY DEF States
  <2> QED
    BY <1>1, <1>3, <2>1, SetNetworkTypes DEF Refresh, Report, StreamTypeOK, Sent
<1>4. CASE OtherEvent
  <2>1. channel' \in Seq(Sent) /\ Len(channel') <= Limit
    BY <1>4, PushShifts, StreamAssumption DEF OtherEvent, Sent
  <2>2. missed' \in BOOLEAN
    BY <1>4 DEF OtherEvent, StreamTypeOK
  <2>3. others' \in 0..MaxOthers
    BY <1>4, StreamAssumption DEF OtherEvent, StreamTypeOK
  <2>4. UNCHANGED <<socket, shown, losses>> /\ socket = "subscribed"
    BY <1>4 DEF OtherEvent
  <2> QED
    BY <1>1, <2>1, <2>2, <2>3, <2>4 DEF StreamTypeOK, Sent
<1>5. CASE Greet
  <2>1. missed' \in BOOLEAN
    BY <1>5 DEF Greet
  <2>2. shown' \in States
    BY <1>5, SnapshotType DEF Greet
  <2> QED
    BY <1>1, <1>5, <2>1, <2>2 DEF Greet, StreamTypeOK
<1>6. CASE SubscribeSocket
  BY <1>1, <1>6 DEF SubscribeSocket, StreamTypeOK
<1>7. CASE Relay
  <2>1. channel' \in Seq(Sent) /\ Len(channel') <= Limit
    BY <1>7, StreamAssumption DEF Relay, StreamTypeOK, Sent
  <2>2. shown' \in States \cup {"nothing", "reconnecting"}
    BY <1>7 DEF Relay, StreamTypeOK
  <2> QED
    BY <1>1, <1>7, <2>1, <2>2 DEF Relay, StreamTypeOK, Sent
<1>8. CASE LoseSocket
  <2>1. losses' \in 0..MaxLosses
    BY <1>8, StreamAssumption DEF LoseSocket, StreamTypeOK
  <2> QED
    BY <1>1, <1>8, <2>1, HangupTypes DEF LoseSocket, StreamTypeOK, Sent
<1>9. CASE UNCHANGED streamVars
  BY <1>1, <1>9 DEF streamVars, client, StreamTypeOK
<1> QED
  BY <1>2, <1>3, <1>4, <1>5, <1>6, <1>7, <1>8, <1>9 DEF StreamNext

-----------------------------------------------------------------------------
(* EventStream: what the client shows                                      *)

\* The network loop runs only when it has reported that it is online.
OnlineInLoop == network = "looping" => online

Newest(c, k) ==
    /\ k \in DOMAIN c /\ c[k] \in States
    /\ \A j \in DOMAIN c : j > k => c[j] \notin States

\* The state that was pushed last is the one the network has ...
NewestIsCurrent == \A k \in DOMAIN channel : Newest(channel, k) => channel[k] = Snapshot

\* ... and so is the one shown, once no state is left in the channel. A socket
\* that has not yet subscribed counts as well.
NothingNewIsShown ==
    socket # "closed" /\ ~HasState(channel) /\ ~missed => shown = Snapshot

StreamInvariant ==
    StreamTypeOK /\ ServiceInvariant /\ OnlineInLoop /\ NewestIsCurrent /\ NothingNewIsShown

LEMMA StreamInitInvariant == StreamInit => StreamInvariant
<1> SUFFICES ASSUME StreamInit PROVE StreamInvariant
  OBVIOUS
<1>1. StreamTypeOK
  BY StreamInitTypes
<1>2. ServiceInvariant
  BY InitInvariant DEF StreamInit
<1>3. OnlineInLoop
  BY DEF StreamInit, Init, OnlineInLoop
<1>4. NewestIsCurrent
  <2>1. DOMAIN channel = {}
    BY DEF StreamInit
  <2> QED
    BY <2>1 DEF NewestIsCurrent
<1>5. NothingNewIsShown
  BY DEF StreamInit, NothingNewIsShown
<1> QED
  BY <1>1, <1>2, <1>3, <1>4, <1>5 DEF StreamInvariant

LEMMA NextOnline ==
    ASSUME TypeOK, OnlineInLoop, [Next]_vars
    PROVE  OnlineInLoop'
<1> USE DEF OnlineInLoop
<1>1. CASE SpawnRrc \/ TakeNetworkReceiver \/ FailEarly \/ FailLate \/ ReportFailed
           \/ CloseNetwork \/ EndNetwork
  <2>1. network' # "looping"
    BY <1>1 DEF SpawnRrc, TakeNetworkReceiver, FailEarly, FailLate, ReportFailed,
       CloseNetwork, EndNetwork
  <2> QED
    BY <2>1
<1>2. CASE GoOnline
  BY <1>2 DEF GoOnline
<1>3. ASSUME UNCHANGED <<network, online>> PROVE OnlineInLoop'
  BY <1>3
<1>4. ASSUME NEW r \in Requests, Arrive(r) \/ SendCommand(r) \/ Leave(r) \/ FinishTask(r)
      PROVE  UNCHANGED <<network, online>>
  BY <1>4 DEF Arrive, SendCommand, Leave, FinishTask, net
<1>5. CASE HandleNetworkCommand \/ TakeRrcReceiver \/ HandleRrcCommand \/ FinishRrcCommand
           \/ EndRrc \/ Main \/ UNCHANGED vars
  <2>1. UNCHANGED <<network, online>>
    BY <1>5 DEF HandleNetworkCommand, TakeRrcReceiver, HandleRrcCommand, FinishRrcCommand,
       EndRrc, Main, Signal, TriggerShutdown, Exit, vars, net
  <2> QED
    BY <1>3, <2>1
<1> QED
  BY <1>1, <1>2, <1>3, <1>4, <1>5 DEF Next, Handlers, Tasks

\* An empty channel has nothing that is out of date.
LEMMA EmptyIsCurrent ==
    ASSUME channel' = <<>>
    PROVE  NewestIsCurrent'
<1>1. DOMAIN channel' = {}
  OBVIOUS
<1> QED
  BY <1>1 DEF NewestIsCurrent

LEMMA SetNetworkIsCurrent ==
    ASSUME StreamTypeOK, SetNetwork(Snapshot'), UNCHANGED <<socket, shown>>
    PROVE  NewestIsCurrent' /\ NothingNewIsShown'
<1>1. Snapshot' \in States /\ Snapshot' \in Sent
  BY NextSnapshotType DEF Sent
<1> DEFINE state == Snapshot'
<1>2. CASE socket = "subscribed"
  <2>1. Push(state) /\ missed' = FALSE
    BY <1>2 DEF SetNetwork, Broadcast
  <2>2. /\ channel' \in Seq(Sent) /\ Len(channel') \in 1..Limit
        /\ channel'[Len(channel')] = state
    BY <1>1, <2>1, PushShifts
  <2>3. DOMAIN channel' = 1..Len(channel') /\ Len(channel') \in DOMAIN channel'
    BY <2>2, StreamAssumption
  <2>4. NewestIsCurrent'
    <3> SUFFICES ASSUME NEW k \in DOMAIN channel', Newest(channel', k)
                 PROVE  channel'[k] = state
      BY DEF NewestIsCurrent, Newest
    <3>1. k = Len(channel')
      BY <1>1, <2>2, <2>3, StreamAssumption DEF Newest
    <3> QED
      BY <2>2, <3>1
  <2>5. HasState(channel')
    BY <1>1, <2>2, <2>3 DEF HasState
  <2>6. NothingNewIsShown'
    BY <2>5 DEF NothingNewIsShown, HasState
  <2> QED
    BY <2>4, <2>6
<1>3. CASE socket # "subscribed"
  <2>1. UNCHANGED channel /\ missed' = (socket = "greeted" /\ state # shown)
    BY <1>3 DEF SetNetwork, Broadcast
  <2>2. channel' = <<>>
    BY <1>3, <2>1 DEF StreamTypeOK
  <2>3. NothingNewIsShown'
    BY <1>3, <2>1 DEF NothingNewIsShown, StreamTypeOK
  <2> QED
    BY <2>2, <2>3, EmptyIsCurrent
<1> QED
  BY <1>2, <1>3

\* An event that is not a state.
LEMMA OtherIsCurrent ==
    ASSUME StreamTypeOK, NewestIsCurrent, NothingNewIsShown, OtherEvent
    PROVE  NewestIsCurrent' /\ NothingNewIsShown'
<1>1. PICK d \in {0, 1} :
         /\ Len(channel) = Len(channel') - 1 + d
         /\ \A k \in 1..Len(channel') - 1 : channel'[k] = channel[k + d]
  BY PushShifts DEF OtherEvent, Sent
<1>2. /\ channel' \in Seq(Sent) /\ Len(channel') \in 1..Limit
      /\ channel'[Len(channel')] = "other"
  BY PushShifts DEF OtherEvent, Sent
<1>3. /\ DOMAIN channel' = 1..Len(channel') /\ DOMAIN channel = 1..Len(channel)
      /\ Len(channel') \in Nat /\ Len(channel) \in Nat
  BY <1>2 DEF StreamTypeOK
<1>4. "other" \notin States
  BY DEF States
<1>5. Snapshot' = Snapshot
  BY DEF OtherEvent, vars, net, Snapshot
<1>6. NewestIsCurrent'
  <2> SUFFICES ASSUME NEW k \in DOMAIN channel', Newest(channel', k)
               PROVE  channel'[k] = Snapshot
    BY <1>5 DEF NewestIsCurrent, Newest
  <2>1. k \in 1..Len(channel') - 1
    BY <1>2, <1>3, <1>4 DEF Newest
  <2>2. k + d \in DOMAIN channel /\ channel[k + d] = channel'[k]
    <3>1. d \in Nat /\ k \in Nat /\ Len(channel) = Len(channel') - 1 + d
      BY <1>1, <1>3
    <3>2. k + d \in 1..Len(channel)
      BY <1>3, <2>1, <3>1
    <3> QED
      BY <1>1, <1>3, <2>1, <3>2
  <2>3. ASSUME NEW j \in DOMAIN channel, j > k + d PROVE channel[j] \notin States
    <3>1. j - d \in 1..Len(channel') - 1 /\ j - d > k /\ j - d + d = j
      BY <1>1, <1>3, <2>1, <2>3
    <3>2. channel'[j - d] = channel[j]
      BY <1>1, <3>1
    <3>3. j - d \in DOMAIN channel'
      BY <1>3, <3>1
    <3> QED
      BY <3>1, <3>2, <3>3 DEF Newest
  <2>4. Newest(channel, k + d)
    BY <2>2, <2>3 DEF Newest
  <2> QED
    BY <2>2, <2>4 DEF NewestIsCurrent
<1>7. NothingNewIsShown'
  <2> SUFFICES ASSUME ~HasState(channel'), ~missed' PROVE shown' = Snapshot'
    BY DEF NothingNewIsShown, HasState
  <2>1. ~missed /\ ~HasState(channel)
    BY DEF OtherEvent, StreamTypeOK
  <2> QED
    BY <1>5, <2>1 DEF NothingNewIsShown, OtherEvent
<1> QED
  BY <1>6, <1>7

LEMMA RelayIsCurrent ==
    ASSUME StreamTypeOK, NewestIsCurrent, NothingNewIsShown, Relay
    PROVE  NewestIsCurrent' /\ NothingNewIsShown'
<1>1. /\ channel \in Seq(Sent) /\ channel # <<>>
      /\ channel' = Tail(channel)
  BY DEF Relay, StreamTypeOK, Sent
<1>2. /\ Len(channel) \in Nat \ {0} /\ DOMAIN channel = 1..Len(channel)
      /\ DOMAIN channel' = 1..Len(channel) - 1
      /\ \A k \in 1..Len(channel) - 1 : channel'[k] = channel[k + 1]
      /\ Head(channel) = channel[1]
  BY <1>1
<1>3. Snapshot' = Snapshot
  BY DEF Relay, vars, net, Snapshot
<1>4. socket = "subscribed"
  BY DEF Relay, StreamTypeOK
<1>5. NewestIsCurrent'
  <2> SUFFICES ASSUME NEW k \in DOMAIN channel', Newest(channel', k)
               PROVE  channel'[k] = Snapshot
    BY <1>3 DEF NewestIsCurrent, Newest
  <2>1. k + 1 \in DOMAIN channel /\ channel[k + 1] = channel'[k]
    BY <1>2
  <2>2. ASSUME NEW j \in DOMAIN channel, j > k + 1 PROVE channel[j] \notin States
    <3>1. j - 1 \in DOMAIN channel' /\ j - 1 > k /\ channel'[j - 1] = channel[j]
      BY <1>2, <2>2
    <3> QED
      BY <3>1 DEF Newest
  <2>3. Newest(channel, k + 1)
    BY <2>1, <2>2 DEF Newest
  <2> QED
    BY <2>1, <2>3 DEF NewestIsCurrent
<1>6. NothingNewIsShown'
  <2> SUFFICES ASSUME ~HasState(channel'), ~missed' PROVE shown' = Snapshot
    BY <1>3 DEF NothingNewIsShown, HasState
  <2>1. ~missed
    BY DEF Relay
  <2>2. ASSUME NEW j \in DOMAIN channel, j > 1 PROVE channel[j] \notin States
    <3>1. j - 1 \in DOMAIN channel' /\ channel'[j - 1] = channel[j]
      BY <1>2, <2>2
    <3> QED
      BY <3>1 DEF HasState
  <2>3. CASE Head(channel) \in States
    <3>1. Newest(channel, 1)
      BY <1>2, <2>2, <2>3 DEF Newest
    <3>2. shown' = Head(channel)
      BY <2>3 DEF Relay
    <3> QED
      BY <1>2, <3>1, <3>2 DEF NewestIsCurrent
  <2>4. CASE Head(channel) \notin States
    <3>1. ~HasState(channel)
      BY <1>2, <2>2, <2>4 DEF HasState
    <3>2. shown' = shown
      BY <2>4 DEF Relay
    <3> QED
      BY <1>4, <2>1, <3>1, <3>2 DEF NothingNewIsShown
  <2> QED
    BY <2>3, <2>4
<1> QED
  BY <1>5, <1>6

LEMMA HangupIsCurrent == ASSUME Hangup PROVE NewestIsCurrent' /\ NothingNewIsShown'
<1>1. NewestIsCurrent'
  BY EmptyIsCurrent DEF Hangup
<1>2. NothingNewIsShown'
  BY DEF Hangup, NothingNewIsShown
<1> QED
  BY <1>1, <1>2

LEMMA StreamNextCurrent ==
    ASSUME StreamTypeOK, OnlineInLoop, NewestIsCurrent, NothingNewIsShown,
           [StreamNext]_streamVars
    PROVE  NewestIsCurrent' /\ NothingNewIsShown'
<1>1. ASSUME Snapshot' = Snapshot, UNCHANGED <<socket, channel, shown, missed>>
      PROVE  NewestIsCurrent' /\ NothingNewIsShown'
  BY <1>1 DEF NewestIsCurrent, NothingNewIsShown, Newest, HasState
<1>2. CASE ServiceStep
  BY <1>1, <1>2, ServiceStepCases, SetNetworkIsCurrent, HangupIsCurrent
<1>3. CASE Refresh
  <2>1. Snapshot' = "online"
    <3>1. Snapshot = "online"
      BY <1>3, SnapshotIs DEF Refresh, OnlineInLoop
    <3> QED
      BY <1>3, <3>1 DEF Refresh, vars, net, Snapshot
  <2> QED
    BY <1>3, <2>1, SetNetworkIsCurrent DEF Refresh, Report
<1>4. CASE OtherEvent
  BY <1>4, OtherIsCurrent
<1>5. CASE Greet
  <2>1. Snapshot' = Snapshot
    BY <1>5 DEF Greet, vars, net, Snapshot
  <2>2. channel' = <<>>
    BY <1>5 DEF Greet, StreamTypeOK
  <2>3. NothingNewIsShown'
    BY <1>5, <2>1 DEF Greet, NothingNewIsShown
  <2> QED
    BY <2>2, <2>3, EmptyIsCurrent
<1>6. CASE SubscribeSocket
  <2>1. Snapshot' = Snapshot
    BY <1>6 DEF SubscribeSocket, vars, net, Snapshot
  <2>2. channel' = <<>>
    BY <1>6 DEF SubscribeSocket, StreamTypeOK
  <2>3. NothingNewIsShown'
    BY <1>6, <2>1 DEF SubscribeSocket, NothingNewIsShown, HasState
  <2> QED
    BY <2>2, <2>3, EmptyIsCurrent
<1>7. CASE Relay
  BY <1>7, RelayIsCurrent
<1>8. CASE LoseSocket
  BY <1>8, HangupIsCurrent DEF LoseSocket
<1>9. CASE UNCHANGED streamVars
  <2>1. Snapshot' = Snapshot
    BY <1>9 DEF streamVars, vars, net, Snapshot
  <2> QED
    BY <1>1, <1>9, <2>1 DEF streamVars, client
<1> QED
  BY <1>2, <1>3, <1>4, <1>5, <1>6, <1>7, <1>8, <1>9 DEF StreamNext

LEMMA StreamNextInvariant == StreamInvariant /\ [StreamNext]_streamVars => StreamInvariant'
<1> SUFFICES ASSUME StreamInvariant, [StreamNext]_streamVars PROVE StreamInvariant'
  OBVIOUS
<1>1. [Next]_vars
  BY StreamStepIsServiceStep
<1>2. StreamTypeOK'
  BY StreamNextTypes DEF StreamInvariant, ServiceInvariant
<1>3. ServiceInvariant'
  BY <1>1, NextInvariant DEF StreamInvariant
<1>4. OnlineInLoop'
  BY <1>1, NextOnline DEF StreamInvariant, StreamTypeOK
<1>5. NewestIsCurrent' /\ NothingNewIsShown'
  BY StreamNextCurrent DEF StreamInvariant
<1> QED
  BY <1>2, <1>3, <1>4, <1>5 DEF StreamInvariant

LEMMA StreamCorrect == StreamSpec => []StreamInvariant
<1> QED
  BY StreamInitInvariant, StreamNextInvariant, PTL DEF StreamSpec

\* Every reachable state of the process and its web client is well typed; a
\* receiver is in the hands of the loop that took it, exactly while it runs.
THEOREM StreamTypeCorrect == StreamSpec => []StreamTypeOK
<1>1. StreamInvariant => StreamTypeOK
  BY DEF StreamInvariant
<1> QED
  BY <1>1, StreamCorrect, PTL

\* A client that has relayed every state it was sent shows the state of the
\* network, however the channel overflowed and the socket was lost and greeted
\* again, unless the newest state went past it (api.rs:1195).
THEOREM ClientShowsTheNetwork == StreamSpec => []ShownIsCurrent
<1>1. StreamInvariant => ShownIsCurrent
  BY DEF StreamInvariant, NothingNewIsShown, ShownIsCurrent
<1> QED
  BY <1>1, StreamCorrect, PTL

\* The service goes on under its own specification, fairness included,
\* whatever the event stream does: what holds of every behaviour of Service
\* holds with clients that listen.
THEOREM StreamKeepsTheService == StreamSpec => FairSpec
<1>1. StreamInit => Init
  BY DEF StreamInit
<1>2. [StreamNext]_streamVars => [Next]_vars
  BY StreamStepIsServiceStep
<1> QED
  BY <1>1, <1>2, PTL DEF StreamSpec, StreamFairness, FairSpec, Spec
=============================================================================
