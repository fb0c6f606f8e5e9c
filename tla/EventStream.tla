----------------------------- MODULE EventStream -----------------------------
(***************************************************************************)
(* How a web client learns the state of the network: Service together with *)
(* the broadcast channel of AppState, the event socket and the client that *)
(* shows what it is told and connects again after a lost socket            *)
(* (src/src/app.rs, api.rs, network.rs, src/web/app.js).                   *)
(*                                                                         *)
(* Other events count only for the room they take in the channel.  There   *)
(* is one client: clients do not see each other.  The state that a page    *)
(* loads once with its other data is left out, and so is the moment before *)
(* the network task reports that it is starting.                           *)
(***************************************************************************)
EXTENDS Service

CONSTANTS
    Limit,     \* capacity of the broadcast channel (256)
    MaxOthers, \* bound: other events
    MaxLosses  \* bound: sockets that are lost

ASSUME StreamAssumption == Limit \in Nat \ {0} /\ MaxOthers \in Nat /\ MaxLosses \in Nat

States == {"offline", "starting", "online", "failed"}

VARIABLES
    socket,  \* the event socket: "closed", "greeted" or "subscribed"
    channel, \* what the receiver of the socket has not relayed
    shown,   \* what the client shows
    missed,  \* the newest state of the network went past the client
    others, losses  \* what the bounds count

client == <<socket, channel, shown, missed>>
streamVars == <<vars, client, others, losses>>

\* NetworkSnapshot.state
Snapshot ==
    CASE online -> "online"
      [] ~online /\ network = "none" -> "offline"
      [] ~online /\ network = "failed" -> "failed"
      [] OTHER -> "starting"

StreamTypeOK ==
    /\ TypeOK
    /\ socket \in {"closed", "greeted", "subscribed"}
    /\ channel \in Seq(States \cup {"other"}) /\ Len(channel) <= Limit
    /\ socket # "subscribed" => channel = <<>>
    /\ shown \in States \cup {"nothing", "reconnecting"}
    /\ missed \in BOOLEAN
    /\ others \in 0..MaxOthers /\ losses \in 0..MaxLosses

StreamInit ==
    /\ Init
    /\ socket = "closed" /\ channel = <<>>
    /\ shown = "nothing" /\ missed = FALSE
    /\ others = 0 /\ losses = 0
-----------------------------------------------------------------------------
(* The server                                                              *)

HasState(events) == \E k \in DOMAIN events : events[k] \in States

\* A full channel drops its oldest event and the receiver lags.
Push(event) ==
    LET room == IF Len(channel) = Limit THEN Tail(channel) ELSE channel IN
    channel' = Append(room, event)

\* set_network: a socket that is greeted and not yet subscribed hears nothing.
Broadcast(state) ==
    IF socket = "subscribed"
    THEN Push(state) /\ missed' = FALSE
    ELSE UNCHANGED channel /\ missed' = (socket = "greeted" /\ state # shown)

\* Mutant: a failure is written to AppState and not sent.
SetNetworkSilently(state) ==
    IF state = "failed" THEN UNCHANGED <<channel, missed>> ELSE Broadcast(state)

SetNetwork(state) == Broadcast(state)

\* The web socket ends with the process.
Hangup == socket' = "closed" /\ channel' = <<>> /\ missed' = FALSE /\ shown' = "reconnecting"

ServiceStep ==
    /\ Next
    /\ CASE server' = "stopped"  -> Hangup
         [] Snapshot' # Snapshot -> SetNetwork(Snapshot') /\ UNCHANGED <<socket, shown>>
         [] OTHER                -> UNCHANGED <<socket, channel, shown, missed>>
    /\ UNCHANGED <<others, losses>>

\* Mutant: the tick does not tell of a state that it has told already.
RefreshOnce == UNCHANGED <<channel, missed>>

Report == SetNetwork("online")

\* refresh_interfaces at every tick of the loop
Refresh ==
    /\ Running /\ network = "looping"
    /\ Report
    /\ UNCHANGED <<vars, socket, shown, others, losses>>

\* A message, an announce or an event of the RRC task.
OtherEvent ==
    /\ Running /\ others < MaxOthers /\ socket = "subscribed"
    /\ others' = others + 1
    /\ Push("other")
    /\ missed' = (missed \/ (HasState(channel) /\ ~HasState(channel')))
    /\ UNCHANGED <<vars, socket, shown, losses>>

\* event_socket: the snapshot is sent ...
Greet ==
    /\ server = "serving" /\ socket = "closed"
    /\ socket' = "greeted"
    /\ shown' = Snapshot
    /\ missed' = FALSE
    /\ UNCHANGED <<vars, channel, others, losses>>

\* ... then the socket subscribes ...
SubscribeSocket ==
    /\ Running /\ socket = "greeted"
    /\ socket' = "subscribed"
    /\ UNCHANGED <<vars, channel, shown, missed, others, losses>>

\* ... and relays events until it is lost.
Relay ==
    /\ Running /\ channel # <<>>
    /\ channel' = Tail(channel)
    /\ shown' = IF Head(channel) \in States THEN Head(channel) ELSE shown
    /\ UNCHANGED <<vars, socket, missed, others, losses>>

LoseSocket ==
    /\ Running /\ socket # "closed" /\ losses < MaxLosses
    /\ losses' = losses + 1
    /\ Hangup
    /\ UNCHANGED <<vars, others>>

StreamNext ==
    \/ ServiceStep
    \/ Refresh \/ OtherEvent
    \/ Greet \/ SubscribeSocket \/ Relay \/ LoseSocket

\* The client connects again after a loss, the tick and the socket's task run:
\* of Greet, SubscribeSocket and Relay at most one is enabled.
StreamFairness ==
    /\ Fairness
    /\ WF_streamVars(Refresh)
    /\ WF_streamVars(Greet \/ SubscribeSocket \/ Relay)

StreamSpec == StreamInit /\ [][StreamNext]_streamVars /\ StreamFairness
-----------------------------------------------------------------------------
(* Properties                                                              *)

\* When the socket has relayed every state, the client shows the state of the
\* network, unless the newest one was set between the snapshot and the
\* subscription or was pushed out by other events (api.rs:1195).
ShownIsCurrent ==
    socket = "subscribed" /\ ~HasState(channel) /\ ~missed => shown = Snapshot

\* A client of a process that is online and serves comes to show it and keeps
\* showing it, whatever it missed (network.rs:304).
OnlineIsShown ==
    <>[](network = "looping" /\ server = "serving") => <>[](shown = "online")
=============================================================================
