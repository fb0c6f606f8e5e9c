------------------------------- MODULE RrcPane -------------------------------
(***************************************************************************)
(* The RRC view of the web client (src/web/app.js, rrc-ui.js): the hub and *)
(* room in view, the messages, the unread counts, the composer with its    *)
(* drafts, and what the server answers to it.                              *)
(*                                                                         *)
(* JavaScript runs one handler at a time, but a handler that awaits a      *)
(* response goes on later, in whatever state the page then is. A request   *)
(* on its way is a record in the bag flights; what the handler kept from   *)
(* before the await is in the record, all else it reads again.             *)
(*                                                                         *)
(* A text is the set of targets in whose view parts of it were typed.      *)
(* Lines the page adds by itself, messages without a room and the limit of *)
(* 500 stored messages for a room are left out.                            *)
(***************************************************************************)
EXTENDS Naturals, FiniteSets, Bags

CONSTANTS
    Hubs,       \* hubs, by destination hash
    Rooms,      \* names of rooms
    Places,     \* the rooms that exist: pairs of a hub and a room
    NoHub,      \* null for a hub
    NoRoom,     \* null for a room
    NoTarget,   \* the empty draft target
    MaxStored,  \* bound: once a room has so many messages, no more arrive
    MaxFlights, \* bound: requests on their way when the user sends another
    MaxActs     \* bound: what the user does, and changes of a hub's status

ASSUME PaneAssumption ==
    /\ Places \subseteq Hubs \X Rooms
    /\ NoHub \notin Hubs /\ NoRoom \notin Rooms
    /\ MaxStored \in Nat /\ MaxFlights \in Nat /\ MaxActs \in Nat

VARIABLES
    hubs,           \* state.rrc.hubs, a function on the hubs heard of
    activeHub, activeRoom,
    shown,          \* state.rrc.messages, the stored ones among them
    unread,         \* state.rrc.unreadRooms
    loadingRooms,   \* hubs whose roomQueryState is loading
    loadingUsers,   \* rooms whose userQueryState is loading
    pingingHubs,    \* state.rrc.pingingHubs
    draftTag,       \* dataset.draftTarget of the composer
    input,          \* the text in the composer
    timers,         \* draftTimers: the text to be saved, by target
    flights,        \* requests and answers on their way
    sent,           \* the number of the newest message of each room
    heard,          \* the number of the last one whose event arrived
    stored,         \* rrc_messages
    drafts,         \* drafts of scope rrc
    acts            \* what the bound counts

view == <<activeHub, activeRoom>>
queries == <<loadingRooms, loadingUsers, pingingHubs>>
composer == <<draftTag, input, timers>>
server == <<sent, stored, drafts>>
vars == <<hubs, view, shown, unread, queries, composer, flights, server, heard, acts>>

Targets == Hubs \X (Rooms \cup {NoRoom})
Texts == SUBSET Targets
Messages == {<<p, n>> : p \in Places, n \in 1..MaxStored}
NoTimer == {NoTarget}
RoomsOf(h) == {r \in Rooms : <<h, r>> \in Places}
Statuses(h) == [connected : BOOLEAN, rooms : SUBSET RoomsOf(h)]

Request(op, at, typed) == [op |-> op, at |-> at, typed |-> typed]
One(request) == SetToBag({request})
CanSend == BagCardinality(flights) < MaxFlights

\* How many copies of a request or an answer a bag has.
Copies(r, B) == IF BagIn(r, B) THEN B[r] ELSE 0

\* How many requests of a kind for a target are unanswered.
Unanswered(op, at) ==
    Copies(Request(op, at, TRUE), flights) + Copies(Request(op, at, FALSE), flights)

Joined(h) == IF h \in DOMAIN hubs THEN hubs[h].rooms ELSE {}
Connected(h) == h \in DOMAIN hubs /\ hubs[h].connected
Target(h, r) == IF h = NoHub THEN NoTarget ELSE <<h, r>>
Current == Target(activeHub, activeRoom)

\* RrcUiState.selectRoom: the hub lists its rooms in any order.
SelectRoom(rooms, room) ==
    IF room \in rooms THEN {room} ELSE IF rooms = {} THEN {NoRoom} ELSE rooms

\* The kinds of values; among them, that users are only asked of a room.
TypeOK ==
    /\ DOMAIN hubs \subseteq Hubs
    /\ \A h \in DOMAIN hubs : hubs[h] \in Statuses(h)
    /\ activeHub \in Hubs \cup {NoHub} /\ activeRoom \in Rooms \cup {NoRoom}
    /\ shown \subseteq Messages /\ stored \subseteq Messages
    /\ unread \in [Places -> 0..MaxStored]
    /\ loadingRooms \subseteq Hubs /\ pingingHubs \subseteq Hubs
    /\ loadingUsers \subseteq Hubs \X Rooms
    /\ draftTag \in Targets \cup {NoTarget}
    /\ input \in Texts /\ drafts \in [Targets -> Texts]
    /\ timers \in [Targets -> Texts \cup {NoTimer}]
    /\ IsABag(flights)
    /\ acts \in 0..MaxActs
    /\ sent \in [Places -> 0..MaxStored] /\ heard \in [Places -> 0..MaxStored]

Init ==
    /\ hubs = [h \in {} |-> <<>>]
    /\ activeHub = NoHub /\ activeRoom = NoRoom
    /\ shown = {} /\ stored = {}
    /\ unread = [p \in Places |-> 0]
    /\ loadingRooms = {} /\ loadingUsers = {} /\ pingingHubs = {}
    /\ draftTag = NoTarget /\ input = {}
    /\ timers = [t \in Targets |-> NoTimer]
    /\ flights = EmptyBag
    /\ sent = [p \in Places |-> 0] /\ heard = [p \in Places |-> 0]
    /\ drafts = [t \in Targets |-> {}]
    /\ acts = 0

-----------------------------------------------------------------------------
\* renderRrc(), after hubs and activeHub are set: it selects a room and, when
\* the target of the composer changes, loads the draft of the new target.
\* emptied says that the handler empties the composer as well.
Render(room, emptied) ==
    /\ activeRoom' \in SelectRoom(Joined(activeHub)', room)
    /\ draftTag' = Current'
    /\ input' = IF emptied \/ Current' \in {NoTarget} \ {draftTag} THEN {} ELSE input

DraftRequest ==
    IF draftTag' \in {draftTag, NoTarget} THEN EmptyBag
    ELSE One(Request("draft", draftTag', FALSE))

\* A handler that does not render.
NoRender(emptied) ==
    /\ UNCHANGED <<activeRoom, draftTag>>
    /\ input' = IF emptied THEN {} ELSE input

\* Mutant: one timer for all targets.
OneTimer(target, text) == [t \in Targets |-> IF t = target THEN text ELSE NoTimer]

QueueDraft(target, text) ==
    IF target = NoTarget THEN timers ELSE [timers EXCEPT ![target] = text]

\* After a command or a message, queueDraft with the target then in view.
EmptyDraft(emptied) == timers' = IF emptied THEN QueueDraft(Current', {}) ELSE timers

MarkRead(h, r) ==
    unread' = IF <<h, r>> \in Places THEN [unread EXCEPT ![<<h, r>>] = 0] ELSE unread

\* The requests that loadRrcHistory, loadRrcRooms and loadRrcUsers send.
HistoryRequest(h, r, typed) ==
    IF h = NoHub THEN EmptyBag ELSE One(Request("history", <<h, r>>, typed))

RoomsRequest(h, typed) ==
    IF h = NoHub \/ h \in loadingRooms THEN EmptyBag
    ELSE One(Request("list", h, typed))

\* Mutants: without the test for a room, and for a query that is under way.
UsersOfNoRoom(h, r, typed) ==
    IF h = NoHub \/ <<h, r>> \in loadingUsers THEN EmptyBag
    ELSE One(Request("who", <<h, r>>, typed))

UsersAskedAgain(h, r, typed) ==
    IF h = NoHub \/ r = NoRoom THEN EmptyBag ELSE One(Request("who", <<h, r>>, typed))

UsersRequest(h, r, typed) ==
    IF h = NoHub \/ r = NoRoom \/ <<h, r>> \in loadingUsers THEN EmptyBag
    ELSE One(Request("who", <<h, r>>, typed))

\* New requests leave; a query among them is loading until its answer.
At(op, requests) == {r.at : r \in {q \in BagToSet(requests) : q.op = op}}

Leave(requests) ==
    /\ flights' = flights (+) requests (+) DraftRequest
    /\ loadingRooms' = loadingRooms \cup At("list", requests)
    /\ loadingUsers' = loadingUsers \cup At("who", requests)
    /\ pingingHubs' = pingingHubs \cup At("ping", requests)

\* The answer to r has arrived, and its handler sends other requests.
Arrive(r, requests) ==
    /\ flights' = (flights (-) One(r)) (+) requests (+) DraftRequest
    /\ loadingRooms' = (loadingRooms \ At("list", One(r))) \cup At("list", requests)
    /\ loadingUsers' = (loadingUsers \ At("who", One(r))) \cup At("who", requests)
    /\ pingingHubs' = pingingHubs \ At("ping", One(r))

\* The hub and the room of the last render are those of draftTag; its buttons
\* and the composer are enabled when that hub is connected.
RenderedHub == IF draftTag = NoTarget THEN NoHub ELSE draftTag[1]
RenderedRoom == IF draftTag = NoTarget THEN NoRoom ELSE draftTag[2]
Enabled == Connected(RenderedHub)

\* A command is typed in the composer, or the button that does the same is used.
Used(typed) == CanSend /\ (typed => input # {} /\ Enabled)

-----------------------------------------------------------------------------
(* Events *)

StoreMessage(p) ==
    /\ \A q \in Places : sent[q] < MaxStored
    /\ sent' = [sent EXCEPT ![p] = @ + 1]
    /\ stored' = stored \cup {<<p, sent'[p]>>}
    /\ UNCHANGED <<hubs, view, shown, unread, queries, composer, flights, drafts, heard>>

\* An event that changes the name or the detail of a hub renders as well.
HubChanged(h, status) ==
    /\ hubs' = [k \in DOMAIN hubs \cup {h} |-> IF k = h THEN status ELSE hubs[k]]
    /\ activeHub' = IF activeHub = NoHub THEN h ELSE activeHub
    /\ \/ Render(activeRoom, FALSE)
       \/ h \in DOMAIN hubs /\ hubs[h] = status /\ NoRender(FALSE)
    /\ Leave(IF /\ h = activeHub' /\ status.connected
                /\ activeRoom' \in status.rooms \ Joined(h)
             THEN UsersRequest(h, activeRoom', FALSE) ELSE EmptyBag)
    /\ UNCHANGED <<shown, unread, timers, server, heard>>

\* asks: the message is a notice that the modes or a nick have changed. Events
\* that the subscriber missed are skipped.
MessageEvent(p, n, asks) ==
    /\ n \in heard[p] + 1..sent[p]
    /\ heard' = [heard EXCEPT ![p] = n]
    /\ shown' = shown \cup {<<p, n>>}
    /\ unread' = IF p = Current THEN unread ELSE [unread EXCEPT ![p] = @ + 1]
    /\ UNCHANGED <<hubs, activeHub, timers, server>>
    /\ Render(activeRoom, FALSE)
    /\ Leave(IF asks /\ p = Current' THEN UsersRequest(p[1], p[2], FALSE) ELSE EmptyBag)

-----------------------------------------------------------------------------
(* The user *)

ClickHub(h) ==
    /\ CanSend /\ Connected(h)
    /\ activeHub' = h
    /\ UNCHANGED <<hubs, shown, timers, server, heard>>
    /\ \E room \in SelectRoom(Joined(h), activeRoom) : Render(room, FALSE)
    /\ MarkRead(h, activeRoom')
    /\ Leave(HistoryRequest(h, activeRoom', FALSE) (+) RoomsRequest(h, FALSE))

ClickRoom(r) ==
    /\ CanSend /\ r \in Joined(RenderedHub)
    /\ UNCHANGED <<hubs, activeHub, shown, timers, server, heard>>
    /\ MarkRead(activeHub, r)
    /\ Render(r, FALSE)
    /\ Leave(HistoryRequest(activeHub, r, FALSE))

\* The buttons Rooms and Users, /list and /who.
ListRooms(typed) ==
    LET request == RoomsRequest(activeHub, typed)
        emptied == typed /\ request = EmptyBag IN
    /\ Used(typed) /\ Enabled
    /\ UNCHANGED <<hubs, activeHub, shown, unread, server, heard>>
    /\ IF request = EmptyBag THEN NoRender(emptied) ELSE Render(activeRoom, FALSE)
    /\ EmptyDraft(emptied)
    /\ Leave(request)

ListUsers(typed) ==
    LET request == UsersRequest(activeHub, activeRoom, typed)
        emptied == typed /\ request = EmptyBag IN
    /\ Used(typed) /\ Enabled /\ RenderedRoom # NoRoom
    /\ typed => activeRoom \in Joined(activeHub)
    /\ UNCHANGED <<hubs, activeHub, shown, unread, server, heard>>
    /\ IF request = EmptyBag THEN NoRender(emptied) ELSE Render(activeRoom, FALSE)
    /\ EmptyDraft(emptied)
    /\ Leave(request)

\* /who with another room: it is selected, and its history is awaited first.
ListUsersOf(r) ==
    /\ Used(TRUE) /\ r \in Joined(activeHub) \ {activeRoom}
    /\ UNCHANGED <<hubs, activeHub, shown, timers, server, heard>>
    /\ MarkRead(activeHub, r)
    /\ Render(r, FALSE)
    /\ Leave(HistoryRequest(activeHub, r, TRUE))

\* /ping, /nick, /clear and a message wait for their answer before they empty
\* the composer; a second /ping only empties it.
Ping ==
    LET again == activeHub \in pingingHubs IN
    /\ Used(TRUE)
    /\ UNCHANGED <<hubs, activeHub, shown, unread, server, heard>>
    /\ NoRender(again) /\ EmptyDraft(again)
    /\ Leave(IF again THEN EmptyBag ELSE One(Request("ping", activeHub, TRUE)))

Submit(op) ==
    /\ Used(TRUE)
    /\ op = "clear" => activeRoom # NoRoom
    /\ UNCHANGED <<hubs, activeHub, shown, unread, timers, server, heard>>
    /\ NoRender(FALSE) \/ (op = "send" /\ Render(activeRoom, FALSE))  \* /help
    /\ Leave(One(Request(op, IF op = "nick" THEN activeHub ELSE Current, TRUE)))

\* A command that asks the server nothing: /nick alone, which renders, and any
\* command that is refused for its arguments. Either empties the composer.
LocalCommand ==
    /\ Used(TRUE)
    /\ UNCHANGED <<hubs, activeHub, shown, unread, server, heard>>
    /\ NoRender(TRUE) \/ Render(activeRoom, TRUE)
    /\ EmptyDraft(TRUE)
    /\ Leave(EmptyBag)

\* Buttons and dialogs whose command forms do not wait.
Join(r, typed) ==
    /\ Used(typed) /\ Enabled
    /\ UNCHANGED <<hubs, activeHub, shown, unread, server, heard>>
    /\ NoRender(typed) /\ EmptyDraft(typed)
    /\ Leave(One(Request("join", <<activeHub, r>>, FALSE)))

Part ==
    /\ Used(FALSE) /\ Enabled /\ RenderedRoom # NoRoom /\ activeRoom # NoRoom
    /\ UNCHANGED <<hubs, view, shown, unread, composer, server, heard>>
    /\ Leave(One(Request("part", Current, FALSE)))

\* /part selects the room first; its button is disabled if the hub then in view
\* is not connected.
PartRoom(r) ==
    /\ Used(TRUE) /\ r \in Joined(activeHub)
    /\ UNCHANGED <<hubs, activeHub, shown, unread, server, heard>>
    /\ Render(r, TRUE) /\ EmptyDraft(TRUE)
    /\ Leave(IF Connected(activeHub) THEN One(Request("part", <<activeHub, r>>, FALSE))
             ELSE EmptyBag)

Connect(h, typed) ==
    /\ Used(typed)
    /\ UNCHANGED <<hubs, activeHub, shown, unread, server, heard>>
    /\ NoRender(typed) /\ EmptyDraft(typed)
    /\ Leave(One(Request("connect", h, FALSE)))

Disconnect(typed) ==
    /\ Used(typed) /\ RenderedHub \in DOMAIN hubs
    /\ UNCHANGED <<hubs, activeHub, shown, unread, server, heard>>
    /\ NoRender(typed) /\ EmptyDraft(typed)
    /\ Leave(One(Request("disconnect", activeHub, FALSE)))

\* The input event: a key is typed, or all text is deleted.
Type(text) ==
    /\ Enabled /\ text \in {input \cup {Current}, {}}
    /\ text # input \/ (text # {} /\ timers[Current] # text)
    /\ input' = text
    /\ timers' = QueueDraft(Current, text)
    /\ UNCHANGED <<hubs, view, shown, unread, queries, draftTag, flights, server, heard>>

\* stageRrcCommand: a tool writes a command, which is no input event.
StageCommand ==
    /\ RenderedRoom # NoRoom
    /\ input' = {draftTag}
    /\ UNCHANGED <<hubs, view, shown, unread, queries, draftTag, timers, flights, server, heard>>

TimerFires(t) ==
    /\ timers[t] # NoTimer
    /\ timers' = [timers EXCEPT ![t] = NoTimer]
    /\ flights' = flights (+) One([op |-> "put", at |-> t, text |-> timers[t]])
    /\ UNCHANGED <<hubs, view, shown, unread, queries, draftTag, input, server, heard>>

-----------------------------------------------------------------------------
(* The server, external to the page *)

Serve(r, answer) ==
    /\ flights' = (flights (-) One(r)) (+) answer
    /\ UNCHANGED <<hubs, view, shown, unread, queries, composer, sent, heard>>

ReadHistory(r) ==
    /\ r.op = "history"
    /\ Serve(r, One([op |-> "messages", at |-> r.at, typed |-> r.typed,
                     found |-> {m \in stored : m[1][1] = r.at[1]
                                               /\ r.at[2] \in {m[1][2], NoRoom}}]))
    /\ UNCHANGED <<stored, drafts>>

ReadDraft(r) ==
    /\ r.op = "draft"
    /\ Serve(r, One([op |-> "text", at |-> r.at, text |-> drafts[r.at]]))
    /\ UNCHANGED <<stored, drafts>>

SaveDraft(r, ok) ==
    /\ r.op = "put"
    /\ Serve(r, EmptyBag)
    /\ drafts' = IF ok THEN [drafts EXCEPT ![r.at] = r.text] ELSE drafts
    /\ UNCHANGED stored

DeleteHistory(r) ==
    /\ r.op = "clear"
    /\ Serve(r, One([op |-> "cleared", at |-> r.at]))
    /\ stored' = {m \in stored : m[1] # r.at}
    /\ UNCHANGED drafts

-----------------------------------------------------------------------------
(* Answers; ok is response.ok *)

\* loadRrcHistory goes on with the hub and the room that are active by then.
Kept == {m \in shown : m[1][1] # activeHub \/ (activeRoom # NoRoom /\ m[1][2] # activeRoom)}

\* /who goes on with loadRrcUsers, which renders unless its query is under way.
HistoryReply(r) ==
    LET room == IF r.op = "messages" THEN activeRoom' ELSE activeRoom
        request == IF r.typed THEN UsersRequest(activeHub, room, TRUE) ELSE EmptyBag
        emptied == r.typed /\ request = EmptyBag IN
    /\ \/ /\ r.op = "messages"
          /\ shown' = Kept \cup r.found
          /\ UNCHANGED <<hubs, activeHub>>
          /\ Render(activeRoom, emptied)
       \/ /\ r.op = "history"
          /\ UNCHANGED <<shown, hubs, activeHub>>
          /\ IF r.typed /\ <<activeHub, activeRoom>> \notin loadingUsers
             THEN Render(activeRoom, emptied) ELSE NoRender(emptied)
    /\ EmptyDraft(emptied)
    /\ Arrive(r, request)
    /\ UNCHANGED <<unread, server, heard>>

\* Rooms, users and ping: an error is shown where the answer would be.
QueryReply(r) ==
    /\ r.op \in {"list", "who", "ping"}
    /\ UNCHANGED <<hubs, activeHub, shown, unread, server, heard>>
    /\ IF r.op = "who" /\ r.at # Current THEN NoRender(r.typed)
       ELSE Render(activeRoom, r.typed)
    /\ EmptyDraft(r.typed)
    /\ Arrive(r, EmptyBag)

\* The status in the answer is of the time of the request.
NickReply(r, status) ==
    /\ r.op = "nick"
    /\ hubs' = [k \in DOMAIN hubs \cup {r.at} |-> IF k = r.at THEN status ELSE hubs[k]]
    /\ UNCHANGED <<activeHub, shown, unread, server, heard>>
    /\ Render(activeRoom, TRUE)
    /\ EmptyDraft(TRUE)
    /\ Arrive(r, UsersRequest(activeHub, activeRoom', FALSE))

ClearReply(r) ==
    /\ r.op = "cleared"
    /\ shown' = {m \in shown : m[1] # Current}
    /\ UNCHANGED <<hubs, activeHub, unread, server, heard>>
    /\ Render(activeRoom, TRUE)
    /\ EmptyDraft(TRUE)
    /\ Arrive(r, EmptyBag)

SendReply(r) ==
    /\ r.op = "send"
    /\ UNCHANGED <<hubs, activeHub, shown, unread, server, heard>>
    /\ NoRender(TRUE) /\ EmptyDraft(TRUE)
    /\ Arrive(r, EmptyBag)

JoinReply(r) ==
    /\ r.op = "join"
    /\ activeRoom' = r.at[2]
    /\ MarkRead(activeHub, r.at[2])
    /\ UNCHANGED <<hubs, activeHub, shown, composer, server, heard>>
    /\ Arrive(r, HistoryRequest(activeHub, r.at[2], FALSE))

\* Mutant: the room that was left is marked as read.
PartReplyMarksOld(r) ==
    /\ r.op = "part"
    /\ MarkRead(r.at[1], r.at[2])
    /\ UNCHANGED <<hubs, view, shown, composer, server, heard>>
    /\ Arrive(r, EmptyBag)

PartReply(r) ==
    /\ r.op = "part"
    /\ MarkRead(activeHub, activeRoom)
    /\ UNCHANGED <<hubs, view, shown, composer, server, heard>>
    /\ Arrive(r, EmptyBag)

ConnectReply(r) ==
    /\ r.op = "connect"
    /\ activeHub' = r.at
    /\ UNCHANGED <<hubs, activeRoom, shown, unread, composer, server, heard>>
    /\ Arrive(r, EmptyBag)

\* RrcUiState.nextHub: the active hub if it is still there, or any other.
NextHub(known) ==
    IF activeHub \in known THEN {activeHub} ELSE IF known = {} THEN {NoHub} ELSE known

ForgetUnread(h) == unread' = [p \in Places |-> IF p[1] = h THEN 0 ELSE unread[p]]

DisconnectReply(r) ==
    LET known == DOMAIN hubs \ {r.at} IN
    /\ r.op = "disconnect"
    /\ hubs' = [h \in known |-> hubs[h]]
    /\ ForgetUnread(r.at)
    /\ activeHub' \in NextHub(known)
    /\ Render(activeRoom, FALSE)
    /\ Arrive(r, EmptyBag)
    /\ UNCHANGED <<shown, timers, server, heard>>

\* loadDraft: the answer is for the target the composer has now, or is dropped.
DraftReply(r) ==
    /\ r.op = "text"
    /\ input' = IF draftTag = r.at THEN r.text ELSE input
    /\ UNCHANGED <<hubs, view, shown, unread, draftTag, timers, server, heard>>
    /\ Arrive(r, EmptyBag)

\* Answers that are not ok: only /nick and /clear empty the composer.
RequestFails(r) ==
    LET emptied == r.op \in {"nick", "clear", "cleared"} IN
    /\ r.op \in {"nick", "clear", "send", "join", "part", "connect", "disconnect", "draft"}
    /\ UNCHANGED <<hubs, activeHub, shown, unread, server, heard>>
    /\ NoRender(emptied) /\ EmptyDraft(emptied)
    /\ Arrive(r, EmptyBag)

-----------------------------------------------------------------------------
User ==
    \/ \E h \in Hubs : \E status \in Statuses(h) : HubChanged(h, status)
    \/ \E h \in Hubs : ClickHub(h)
    \/ \E r \in Rooms : ClickRoom(r) \/ ListUsersOf(r) \/ PartRoom(r)
    \/ \E typed \in BOOLEAN :
        \/ ListRooms(typed) \/ ListUsers(typed) \/ Disconnect(typed)
        \/ \E r \in RoomsOf(activeHub) : Join(r, typed)
        \/ \E h \in Hubs : Connect(h, typed)
    \/ Ping \/ Part \/ LocalCommand
    \/ \E op \in {"send", "nick", "clear"} : Submit(op)
    \/ \E text \in {input \cup {Current}, {}} : Type(text)
    \/ StageCommand

Page ==
    \/ \E p \in Places, n \in 1..MaxStored, asks \in BOOLEAN : MessageEvent(p, n, asks)
    \/ \E t \in Targets : TimerFires(t)
    \/ \E r \in BagToSet(flights) :
        \/ HistoryReply(r) \/ QueryReply(r) \/ ClearReply(r) \/ SendReply(r)
        \/ r.op = "nick" /\ \E status \in Statuses(r.at) : NickReply(r, status)
        \/ JoinReply(r) \/ PartReply(r) \/ ConnectReply(r) \/ DisconnectReply(r)
        \/ DraftReply(r) \/ RequestFails(r)

Server ==
    \/ \E p \in Places : StoreMessage(p)
    \/ \E r \in BagToSet(flights) :
        \/ ReadHistory(r) \/ ReadDraft(r) \/ DeleteHistory(r)
        \/ \E ok \in BOOLEAN : SaveDraft(r, ok)

Next ==
    \/ acts < MaxActs /\ acts' = acts + 1 /\ User
    \/ (Page \/ Server) /\ UNCHANGED acts

Spec == Init /\ [][Next]_vars

-----------------------------------------------------------------------------
(* Properties *)

\* A query is shown as loading exactly while one answer to it is awaited, so
\* that it is never asked twice at a time and never stays loading, whatever
\* the user selects meanwhile (loadRrcRooms, loadRrcUsers, /ping).
QueriesAreCoalesced ==
    /\ \A h \in Hubs :
        /\ Unanswered("list", h) = IF h \in loadingRooms THEN 1 ELSE 0
        /\ Unanswered("ping", h) = IF h \in pingingHubs THEN 1 ELSE 0
    /\ \A p \in Hubs \X Rooms : Unanswered("who", p) = IF p \in loadingUsers THEN 1 ELSE 0

\* The requests whose answer the page takes in a step.
Answered == {r \in BagToSet(flights) : Copies(r, flights') < Copies(r, flights)}

\* The unread count of a room is taken back only if the room was the active one,
\* if the user selects it or if its hub is removed: no late answer marks another
\* room as read. The code has two more ways. The answer to a join selects the
\* room of its name at the hub that is active by then (app.js:1440), be it that
\* of the request or not. The answer to a connect changes activeHub without a
\* render (app.js:1414), and the buttons of the hub still on the screen then
\* stand for the rooms of the new one that have their names (app.js:1152).
NothingIsReadUnseen ==
    [][\A p \in Places : unread'[p] < unread[p] =>
        \/ p = Current' /\ (p = Current \/ acts' # acts)
        \/ p = Current' /\ \E r \in Answered : r.op = "join" /\ r.at[2] = p[2]
        \/ p[1] \notin DOMAIN hubs'
        \/ p[1] = activeHub /\ activeHub # RenderedHub /\ acts' # acts]_vars

\* A command or a message whose answer empties the composer.
EmptiesComposer(r) ==
    \/ r.op \in {"send", "nick", "clear", "cleared"}
    \/ r.op \in {"list", "who", "ping", "history", "messages"} /\ r.typed

\* A text that waits for its timer is saved, or replaced for the target in view
\* by a later text of the user (queueDraft): selecting another room loses no
\* draft, nor does an answer. The code excepts the answer to a command or a
\* message, which empties the composer and the draft of the room that is active
\* by then (app.js:1496), be it the one it was typed in or not.
PendingDraftIsSaved ==
    [][\A t \in Targets : timers[t] \notin {NoTimer, timers'[t]} =>
        \/ t = Current' /\ (acts' # acts \/ \E r \in Answered : EmptiesComposer(r))
        \/ [op |-> "put", at |-> t, text |-> timers[t]] \in BagToSet(flights')]_vars

\* What src/web/rrc-ui.test.js:5 says of the page: when the history of a room
\* arrives after another room was selected, the messages of that one stay.
DelayedRepliesSpareTheRoom ==
    [][\A r \in BagToSet(flights) :
        /\ r.op = "messages" /\ r.at # Current
        /\ Copies(r, flights') < Copies(r, flights)
        => {m \in shown : m[1] = Current} \subseteq shown']_vars

=============================================================================
