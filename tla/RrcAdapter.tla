----------------------------- MODULE RrcAdapter ------------------------------
(***************************************************************************)
(* The RRC task (src/src/rrc.rs) between the commands of the user, the RRC *)
(* client library and the tables rrc_hubs and rrc_rooms: commands one at a *)
(* time, a task for each hub that is restored at startup, and the events   *)
(* of the library on their way to the web clients.                         *)
(*                                                                         *)
(* The library is outside the repository.  As rrc.rs uses it, connect()    *)
(* opens a session that gets connected later, join() needs a connected     *)
(* session, every call may fail, a session that loses its link keeps its   *)
(* rooms, and each change of a session is an event.  Messages and queries  *)
(* change nothing here; what the client shows of them is RrcPane.          *)
(***************************************************************************)
EXTENDS Naturals, Sequences, Functions

CONSTANTS
    Hubs,       \* hubs, by destination hash
    Spellings,  \* names of rooms as users type them
    Rooms,      \* normalized names
    Normal,     \* normalize_room, a function from spellings to rooms
    Nothing,    \* no command, no task, nothing promised
    EventLimit, \* capacity of the library's event channel
    MaxCommands,\* bound: commands
    MaxTaskStops,\* bound: stops of the process
    MaxDrops,   \* bound: links that are lost
    MaxFailures \* bound: failures of calls and statements

Commands ==
    [op : {"connect", "disconnect", "nick"}, hub : Hubs]
        \cup [op : {"join", "part"}, hub : Hubs, room : Spellings]

Restorations == [step : {"connect", "wait", "join"}, rooms : SUBSET Rooms]

ASSUME AdapterAssumption ==
    /\ Normal \in [Spellings -> Rooms]
    /\ Hubs \cap (Hubs \X Rooms) = {}
    /\ Nothing \notin Commands \cup Restorations \cup BOOLEAN
    /\ EventLimit \in Nat \ {0}
    /\ MaxCommands \in Nat /\ MaxTaskStops \in Nat /\ MaxDrops \in Nat /\ MaxFailures \in Nat

VARIABLES
    running,    \* the RRC task runs
    command,    \* the command handle_command works on
    result,     \* whether the library has done it: "asked", "ok" or "error"
    restoring,  \* the task that restores a hub: how far it is and the rooms to join
    session,    \* the library's session with each hub
    joined,     \* the rooms it is in
    events,     \* the library's events that the task has not read
    savedHubs,  \* rrc_hubs
    savedRooms, \* rrc_rooms, pairs of a hub and a room
    told,       \* the hubs that the newest event forwarded says are connected
    promised,   \* for a hub or a room, whether the user was told that it is kept
    late,       \* rooms that a restoration could not join and nobody has joined since
    skipped,    \* hubs whose newest event got lost
    commands, taskStops, drops, failures  \* what the bounds count

library == <<session, joined, events, skipped>>
tables == <<savedHubs, savedRooms>>
work == <<command, result>>
clients == <<told, promised>>
spent == <<commands, taskStops, drops, failures>>
adapterVars == <<running, work, restoring, library, tables, clients, late, spent>>

Things == Hubs \cup (Hubs \X Rooms)
RoomsSaved(h) == {r \in Rooms : <<h, r>> \in savedRooms}
Task(step, rooms) == [step |-> step, rooms |-> rooms]

AdapterTypeOK ==
    /\ running \in BOOLEAN
    /\ command \in Commands \cup {Nothing}
    /\ result \in {"asked", "ok", "error"}
    /\ restoring \in [Hubs -> Restorations \cup {Nothing}]
    /\ session \in [Hubs -> {"none", "connecting", "connected"}]
    /\ joined \in [Hubs -> SUBSET Rooms]
    /\ events \in Seq([hub : Hubs, connected : BOOLEAN]) /\ Len(events) <= EventLimit
    /\ savedHubs \subseteq Hubs
    /\ savedRooms \subseteq savedHubs \X Rooms   \* the foreign key
    /\ told \subseteq Hubs /\ skipped \subseteq Hubs
    /\ late \subseteq Hubs \X Rooms
    /\ promised \in [Things -> BOOLEAN \cup {Nothing}]
    /\ commands \in 0..MaxCommands /\ taskStops \in 0..MaxTaskStops
    /\ drops \in 0..MaxDrops /\ failures \in 0..MaxFailures

AdapterInit ==
    /\ running = FALSE
    /\ command = Nothing /\ result = "asked"
    /\ restoring = [h \in Hubs |-> Nothing]
    /\ session = [h \in Hubs |-> "none"]
    /\ joined = [h \in Hubs |-> {}]
    /\ events = <<>> /\ skipped = {}
    /\ savedHubs = {} /\ savedRooms = {}
    /\ told = {}
    /\ promised = [x \in Things |-> FALSE]
    /\ late = {}
    /\ commands = 0 /\ taskStops = 0 /\ drops = 0 /\ failures = 0

-----------------------------------------------------------------------------
(* The library                                                             *)

\* An event is sent; a channel that is full drops its oldest one.
Emit(h) ==
    LET full == Len(events) = EventLimit
        kept == IF full THEN Tail(events) ELSE events
        lost == skipped \cup IF full THEN {Head(events).hub} ELSE {} IN
    /\ events' = Append(kept, [hub |-> h, connected |-> session'[h] = "connected"])
    /\ skipped' = {g \in lost \ {h} : \A k \in DOMAIN kept : kept[k].hub # g}

\* connect(): a session that is there stays.
OpenSession(h) ==
    /\ session' = [session EXCEPT ![h] = IF @ = "none" THEN "connecting" ELSE @]
    /\ UNCHANGED joined
    /\ Emit(h)

JoinRoom(h, r) ==
    /\ session[h] = "connected"
    /\ joined' = [joined EXCEPT ![h] = @ \cup {r}]
    /\ UNCHANGED session
    /\ Emit(h)

PartRoom(h, r) ==
    /\ session[h] # "none"
    /\ joined' = [joined EXCEPT ![h] = @ \ {r}]
    /\ UNCHANGED session
    /\ Emit(h)

CloseSession(h) ==
    /\ session[h] # "none"
    /\ session' = [session EXCEPT ![h] = "none"]
    /\ joined' = [joined EXCEPT ![h] = {}]
    /\ Emit(h)

SetNick(h) ==
    /\ session[h] # "none"
    /\ UNCHANGED <<session, joined>>
    /\ Emit(h)

Call(c) ==
    CASE c.op = "connect"    -> OpenSession(c.hub)
      [] c.op = "disconnect" -> CloseSession(c.hub)
      [] c.op = "nick"       -> SetNick(c.hub)
      [] c.op = "join"       -> JoinRoom(c.hub, Normal[c.room])
      [] c.op = "part"       -> PartRoom(c.hub, Normal[c.room])

SessionReady(h) ==
    /\ session[h] = "connecting"
    /\ session' = [session EXCEPT ![h] = "connected"]
    /\ Emit(h)
    /\ UNCHANGED <<running, work, restoring, joined, tables, clients, late, spent>>

LinkLost(h) ==
    /\ session[h] = "connected" /\ drops < MaxDrops
    /\ drops' = drops + 1
    /\ session' = [session EXCEPT ![h] = "connecting"]
    /\ Emit(h)
    /\ UNCHANGED <<running, work, restoring, joined, tables, clients, late, commands, taskStops,
                   failures>>
-----------------------------------------------------------------------------
(* handle_command                                                          *)

Receive(c) ==
    /\ running /\ command = Nothing /\ commands < MaxCommands
    /\ commands' = commands + 1
    /\ command' = c /\ result' = "asked"
    /\ UNCHANGED <<running, restoring, library, tables, clients, late, taskStops, drops, failures>>

\* The call of the library returns.
Return ==
    /\ command # Nothing /\ result = "asked"
    /\ \/ /\ Call(command)
          /\ result' = "ok"
          /\ late' = IF command.op = "join" THEN late \ {<<command.hub, Normal[command.room]>>}
                     ELSE late
       \/ /\ result' = "error"
          /\ UNCHANGED <<library, late>>
    /\ UNCHANGED <<running, command, restoring, tables, clients, spent>>

\* Mutant: the room that is parted is looked for as it was typed.
AsTyped(room) == room

SavedName(room) == Normal[room]

\* save_rrc_hub, save_rrc_room with its foreign key, remove_rrc_room, and
\* remove_rrc_hub, which deletes the rooms as well.
Keep(c) ==
    CASE c.op \in {"connect", "nick"} ->
            savedHubs' = savedHubs \cup {c.hub} /\ UNCHANGED savedRooms
      [] c.op = "join" ->
            /\ savedRooms' = savedRooms \cup ({c.hub} \cap savedHubs) \X {Normal[c.room]}
            /\ UNCHANGED savedHubs
      [] c.op = "part" ->
            savedRooms' = savedRooms \ {<<c.hub, SavedName(c.room)>>} /\ UNCHANGED savedHubs
      [] c.op = "disconnect" ->
            /\ savedHubs' = savedHubs \ {c.hub}
            /\ savedRooms' = savedRooms \ ({c.hub} \X Rooms)

\* What a command that was answered with success has changed.
Subject(c) ==
    CASE c.op \in {"connect", "nick"} -> {c.hub}
      [] c.op = "disconnect"          -> {c.hub} \cup ({c.hub} \X Rooms)
      [] OTHER                        -> {<<c.hub, Normal[c.room]>>}

\* What the user may expect after it. A room joined at a hub that is not saved
\* has nothing to be kept with.
Expected(c) ==
    CASE c.op \in {"connect", "nick"}    -> TRUE
      [] c.op \in {"part", "disconnect"} -> FALSE
      [] c.op = "join" -> IF c.hub \in savedHubs THEN TRUE ELSE Nothing

Promise(c, value) == promised' = [x \in Things |-> IF x \in Subject(c) THEN value ELSE promised[x]]

\* A statement that fails is only logged; the answer is the library's. The
\* client removes a hub whose disconnect succeeded.
Answer ==
    /\ command # Nothing /\ result # "asked"
    /\ IF result = "ok"
       THEN /\ \/ /\ Keep(command)
                  /\ Promise(command, Expected(command))
                  /\ UNCHANGED failures
               \/ /\ failures < MaxFailures
                  /\ failures' = failures + 1
                  /\ Promise(command, Nothing)
                  /\ UNCHANGED tables
            /\ told' = IF command.op = "disconnect" THEN told \ {command.hub} ELSE told
       ELSE UNCHANGED <<tables, clients, failures>>
    /\ command' = Nothing /\ result' = "asked"
    /\ UNCHANGED <<running, restoring, library, late, commands, taskStops, drops>>
-----------------------------------------------------------------------------
(* restore_saved_sessions                                                  *)

StartTask ==
    /\ ~running
    /\ running' = TRUE
    /\ restoring' =
         [h \in Hubs |-> IF h \in savedHubs THEN Task("connect", RoomsSaved(h)) ELSE Nothing]
    /\ UNCHANGED <<work, library, tables, clients, late, spent>>

Restoring(h, step) == restoring[h] # Nothing /\ restoring[h].step = step

\* The task of h ends before it has joined any room; the user may have.
GiveUp(h) ==
    /\ restoring' = [restoring EXCEPT ![h] = Nothing]
    /\ late' = late \cup ({h} \X (restoring[h].rooms \ joined[h]))

RestoreConnect(h) ==
    /\ Restoring(h, "connect")
    /\ \/ /\ OpenSession(h)
          /\ restoring' = [restoring EXCEPT ![h].step = "wait"]
          /\ UNCHANGED late
       \/ /\ GiveUp(h)
          /\ UNCHANGED library
    /\ UNCHANGED <<running, work, tables, clients, spent>>

\* wait_until_connected: for 30 s.
RestoreWait(h) ==
    /\ Restoring(h, "wait")
    /\ IF session[h] = "connected"
       THEN /\ restoring' = [restoring EXCEPT ![h].step = "join"]
            /\ UNCHANGED late
       ELSE GiveUp(h)
    /\ UNCHANGED <<running, work, library, tables, clients, spent>>

\* Mutant: a room that cannot be joined ends the task.
FirstRefusal(task, r) == Nothing

AfterRefusal(task, r) == Task("join", task.rooms \ {r})

RestoreJoin(h, r) ==
    /\ Restoring(h, "join") /\ r \in restoring[h].rooms
    /\ \/ /\ JoinRoom(h, r)
          /\ restoring' = [restoring EXCEPT ![h].rooms = @ \ {r}]
          /\ UNCHANGED late
       \/ /\ restoring' = [restoring EXCEPT ![h] = AfterRefusal(@, r)]
          /\ late' = late \cup ({h} \X ({r} \ joined[h]))
          /\ UNCHANGED library
    /\ UNCHANGED <<running, work, tables, clients, spent>>

RestoreEnd(h) ==
    /\ Restoring(h, "join") /\ restoring[h].rooms = {}
    /\ restoring' = [restoring EXCEPT ![h] = Nothing]
    /\ UNCHANGED <<running, work, library, tables, clients, late, spent>>
-----------------------------------------------------------------------------
(* forward_event and the life of the task                                  *)

\* Mutant: the test asks for hubs that are saved.
SuppressedSaved(event) == ~event.connected /\ event.hub \in savedHubs

Suppressed(event) == ~event.connected /\ event.hub \notin savedHubs

ForwardEvent ==
    LET event == Head(events) IN
    /\ running /\ events # <<>> /\ command = Nothing
    /\ events' = Tail(events)
    /\ told' = IF Suppressed(event) THEN told
               ELSE IF event.connected THEN told \cup {event.hub} ELSE told \ {event.hub}
    /\ UNCHANGED <<running, work, restoring, session, joined, skipped, tables, promised, late,
                   spent>>

\* What the command under way has changed is not known to the user.
StopTask ==
    /\ running /\ taskStops < MaxTaskStops
    /\ taskStops' = taskStops + 1
    /\ running' = FALSE
    /\ command' = Nothing /\ result' = "asked"
    /\ restoring' = [h \in Hubs |-> Nothing]
    /\ session' = [h \in Hubs |-> "none"] /\ joined' = [h \in Hubs |-> {}]
    /\ events' = <<>> /\ skipped' = {}
    /\ late' = {}
    /\ IF command = Nothing \/ result = "error"
       THEN UNCHANGED promised ELSE Promise(command, Nothing)
    /\ UNCHANGED <<tables, told, commands, drops, failures>>

AdapterNext ==
    \/ \E h \in Hubs : SessionReady(h) \/ LinkLost(h)
    \/ \E c \in Commands : Receive(c)
    \/ Return \/ Answer
    \/ StartTask \/ StopTask \/ ForwardEvent
    \/ \E h \in Hubs : RestoreConnect(h) \/ RestoreWait(h) \/ RestoreEnd(h)
    \/ \E h \in Hubs, r \in Rooms : RestoreJoin(h, r)

AdapterSpec == AdapterInit /\ [][AdapterNext]_adapterVars
-----------------------------------------------------------------------------
(* Properties                                                              *)

\* What the user was told is what the next start restores: a hub is saved if it
\* was connected and not disconnected since, a room if it was joined at a saved
\* hub and not parted since, however it was typed (rrc.rs:129-257).
AnsweredIsKept ==
    \A h \in Hubs :
        /\ promised[h] # Nothing => promised[h] = (h \in savedHubs)
        /\ \A r \in Rooms : promised[<<h, r>>] # Nothing =>
               promised[<<h, r>>] = (<<h, r>> \in savedRooms)

Settled(h) == running /\ restoring[h] = Nothing /\ (command # Nothing => command.hub # h)

\* Once the restoration of a hub has come to its end and no command for it is
\* under way, the session is in every room that is saved for the hub and that
\* the user was told of, except those that the restoration could not join, as
\* long as nobody has joined them since.
RoomsAreRestored ==
    \A h \in Hubs : Settled(h) =>
        \A r \in RoomsSaved(h) : promised[<<h, r>>] = TRUE /\ <<h, r>> \notin late => r \in joined[h]

Waits(h) == \E k \in DOMAIN events : events[k].hub = h

\* Once its events are forwarded, the clients show a saved hub as connected
\* exactly if its session is, unless its newest event was skipped.
ClientsAreTold ==
    \A h \in savedHubs \ skipped :
        session[h] # "none" /\ ~Waits(h) => (h \in told) = (session[h] = "connected")
=============================================================================
