# Verification of rsNomadNet

TLA+ models of rsNomadNet (`src/`), the TLC runs that check them on small
instances, and theorems about them that the TLAPS proof system checks for every
value of the constants.

    tlc -config MCOutboundQueue.cfg MCOutboundQueue     # a run
    tlapm OutboundQueueProofs.tla                       # a proof

`PROJECT.json` lists the components, the runs, one mutant of the code for every
checked property, the source lines behind every definition (`map`), the hazards
of the code, the findings and the theorems. Line numbers below are those of
`src/src/*.rs` and `src/web/*.js`.

## 1. The system

rsNomadNet is one process: a web server (axum) with an HTTP and WebSocket API,
a network task that owns the Reticulum runtime, an RRC (chat) task, and an
SQLite database behind one mutex. A browser runs the client (`web/app.js`).

| Part | State it keeps | Operations | Talks to |
| --- | --- | --- | --- |
| Process, `main.rs`, `app.rs` | `AppState`: database, network snapshot, two command channels with their receivers, the event broadcast, the shutdown signal | open the database, `maintain`, spawn the network task, serve, stop gracefully | everything, through `Arc<AppState>` |
| HTTP API, `api.rs` | none of its own | one handler per route; checks of host, origin and token | database directly; network and RRC task by a command and a oneshot answer |
| Network task, `network.rs` | `outbound_active`, result channel, background tasks, propagation client, time of the last download | one `select!` loop: commands, four inbound paths, four announce streams, attempt results, a tick of 2 s, shutdown | database, RRC task (spawns and awaits it), event broadcast |
| Outbound queue, `network.rs`, `db.rs` | `messages` rows with state, method, attempts, `next_attempt` | queue, attempt, finish, recover, clear | HTTP handlers, the recipients |
| Inbound messages, `network.rs`, `db.rs` | `messages` rows, `conversation_state.last_read_id` | prove, verify, deduplicate, store with retention, mark as read, clear | senders, HTTP handlers, event broadcast |
| Page fetches and cache, `network.rs`, `db.rs` | fetch tasks, `browser_cache` | look up, request, parse, store, prune, clear | remote nodes, HTTP handlers |
| Directory and propagation, `network.rs`, `db.rs` | `known_destinations`, the selected node | upsert from announces, seed from the runtime's cache, choose the nearest active node, download every 90 s | announce streams, event broadcast |
| RRC adapter, `rrc.rs` | saved hubs, rooms and messages; query tasks | connect, join, part, send, LIST, WHO, PING, restore at start, forward events | an RRC client library, database, event broadcast |
| Event stream, `api.rs` | a broadcast subscription per socket | snapshot, then events | web clients |
| Schema, `db.rs` | `schema_version`, tables and columns | `Database::open`: create, add columns, clear room keys, check and write the version | other processes that open the file |
| Parser, `browser.rs` | none | addresses, file names, Micron pages | fetch tasks |
| Web client, `web/` | active conversation, draft timers, navigation generation, unread rooms | open, send, search, clear, navigate, refresh partials | HTTP API, event stream |

### What is hard about it

* **Interleaving.** The loop handles one arm at a time, but attempts, fetches
  and RRC queries are tasks of their own, and every HTTP handler locks the
  database for one statement group at a time. What a task or a handler has read
  may be old when it writes.
* **Stops.** Only the database survives. The unit sets `Restart=on-failure`.
  Commands, attempts and results are lost at any point; statements outside a
  transaction commit one by one.
* **Partial failure.** Most database errors are logged and the code goes on;
  a few end the network task, after which the web server still serves.
* **Delivery.** Copies of one message arrive over four paths; proofs of
  delivery are sent before a message is stored; a delivery may succeed without
  its result being recorded.
* **Time.** `next_attempt`, cache lifetimes and timestamps use the wall clock,
  which may be slow to be read, equal for many rows or stepped back.
* **Answers.** A request waits for a oneshot that a task, a queue or a dropped
  receiver has to resolve, and the graceful stop waits for all requests.

The list with lines is `hazards` in `PROJECT.json`.

### What makes each part correct

* Outbound: one attempt at a time, no attempt is counted twice or forgotten, a
  final state is final and true, nothing pending is deleted or left in
  `sending`, every message settles.
* Inbound: a message is shown once, the unread count is exact, a proven
  message is kept.
* Process: every request is answered, a stop comes to its end and drops
  nothing.
* Cache: staleness and size are bounded, eviction is fair, form answers are
  not served.
* Schema: a process serves only on a complete schema, an interrupted start can
  be repeated, newer databases are refused.
* Directory: knowledge only improves; the chosen node is active; downloads are
  paced. RRC: the restored rooms are those the user kept. Events: a client
  ends up showing the server's state. Client: text belongs to the peer it was
  typed for.

## 2. The plan

| Step | Modules | State |
| --- | --- | --- |
| 1 | `MessageTable`, `OutboundQueue`, abstract `AtLeastOnce`, `OutboundRefinement` | checked and proved |
| 2 | `Inbox` on the same `MessageTable` | checked and proved |
| 3 | `Service`: life cycle, channels, requests | checked; proved but for the fairness step of liveness |
| 4 | `Schema` | checked and proved |
| 5 | `BrowserCache`, `Micron` (pages) and `PageView` (the browser of the client) | checked and proved |
| 6 | `RrcPane`: the RRC view of the client | checked and proved |
| 7 | `EventStream` on top of `Service` | checked and proved, but for liveness |
| 8 | `ConversationPane`: the conversations of the client | checked and proved |
| 9 | `RrcAdapter`: saved sessions, restoration, part and disconnect, forwarding | checked and proved |
| 10 | `Directory`: announces, seeding, retention, node selection and download pacing | checked and proved, but for liveness |
| 11 | the announce name, which is read once and changed later; runs for the stale room button and the stale count of section 5 | to do |

Two modules share the table operators; the refinement composes the queue with
the abstract contract. `EventStream` is `Service` with what a client is
told of it. `Client` and `Tasks` put parts that share no variable side by side,
so that one run checks them. Runs stay below a few million states.

## 3. The modules

### MessageTable

The statements on `messages` as operators on a value: a table is a function
from row ids to rows. `InsertMessage` is the INSERT together with the pruning
in its transaction; `UpdateDelivery` on an id that was deleted changes nothing,
as an UPDATE with no matching row does. `due` is `next_attempt` minus now;
the value 0 of a new row is `Epoch`, before any time the program computes. All
times further than `Horizon` in the past are one.

### OutboundQueue

| Variable | Code |
| --- | --- |
| `messages`, `lastId` | the table and its AUTOINCREMENT counter |
| `net` | process down, `run()` starting, in its loop, or returned with an error |
| `commands` | the `SendMessage` commands in the channel |
| `outboundActive`, `flights`, `results` | the flag of the loop, spawned `attempt_outbound` tasks, the result channel |
| `clearing` | clear handlers between their check and their deletion |
| `sends`, `unrecorded`, `stranded` | history, read by properties only |

| Action | Code |
| --- | --- |
| `SendMessage` | the handler's check and send, `api.rs:1023` |
| `QueueOutbound` | the command arm and `queue_outbound`, `network.rs:223`, `765` |
| `StartAttempt`, `QueueUnreadable` | the tick, `network.rs:326-355` |
| `AttemptFails`, `AttemptSucceeds`, `AttemptExceedsMtu` | `attempt_outbound`, `network.rs:805` |
| `FinishOutbound` | `finish_outbound`, `network.rs:1050` |
| `Recover` | `recover_interrupted_outbound`, `db.rs:996` |
| `ClearCheck`, `ClearCommit` | the two locks of `clear_conversation`, `api.rs:952-963` |
| `Start`, `Stop`, `Elapse` | the process and the clock |

Every database statement may fail (`Fault`), with the effect the code gives it:
a failed mark does not hold the attempt back, a failed result is only logged, a
failed read of the queue ends the task. What Reticulum does with an attempt is
one of three outcomes: delivered, failed, too large for a packet.

### AtLeastOnce and OutboundRefinement

The contract without tables and tasks: a message is tried one at a time; it is
given up only after `MaxAttempts` tries that were seen to fail, or when it can
never fit; a try whose outcome was lost is not counted and is made again, which
is why a message can arrive twice. `OutboundRefinement` says how rows and
flights stand for the abstract phases.

### Inbox

One copy at a time goes through `Take` (with the proof to its sender on the
opportunistic path), `Verify`, `Check` (`message_hash_exists`, where a failed
lookup means "new") and `Store` (the unique index, then the prune), with
`MarkRead`, `Clear`, `Stop` and `Restart` between any two of these. A message
stands for its hash. `known` are the sources whose announce can be recalled.

### Service

`server`, `network` and `rrc` say how far `main`, `run()` and the RRC loop are;
`netRx` and `rrcRx` where the command receivers are: in `AppState` (as
`unclaimed`), with the loop, or dropped. Kinds of requests: `message` and
`fetch` go to the network task, `session` (connect, join, send), `part` (also
disconnect and nick) and `query` (LIST, WHO, PING) to the RRC task; `message`,
`fetch` and `session` are refused unless the network is online. Failures of
`run()` are `FailEarly` (before `rrc::spawn`) and `FailLate` (after it, when
the RRC task lives on).

### BrowserCache

`fetch_page` is `Start` (clock and lookup), `Answer` or `Fail`, and `Store`,
with any number of other steps in between. An address is a number because the
pruning breaks ties by it. Bodies are sizes, pages are lifetimes.

### Schema

`Database::open` statement by statement: `Mark`, `Create`, `Created`, `Look`
and `Add` (the two halves of `ensure_column`), `ClearKeys`, `Accept` or
`Reject`, `Delete`, `Insert`. Tables and columns are named by the version that
brought them. Binaries of later versions are taken to open the database as this
one does, with a higher `CURRENT_SCHEMA_VERSION` and more columns.

### EventStream

`Service` together with the state of the network that a web client shows. Every
step of `Service` that changes `Snapshot`, and every tick of the loop
(`Refresh`), is a `set_network`: it is pushed into the channel of the socket,
which drops its oldest event when it is full. The socket sends a snapshot
(`Greet`), subscribes (`SubscribeSocket`), relays (`Relay`) and may be lost
(`LoseSocket`); a stop of the process ends it. Other events count only for the
room they take. There is one client, since clients do not see each other; the
state that a page loads once with its other data is left out. `missed` is
history: the newest state was set between snapshot and subscription, or was
pushed out.

### Directory

| Variable | Code |
| --- | --- |
| `phase`, `subscribed` | how far `run()` is, and to how many of the four announce streams it has subscribed |
| `queue` | the announces each stream holds |
| `cache`, `seeds` | what `GetRecentAnnounces` tells, and what of it is still to be seeded |
| `table` | `known_destinations` |
| `selected`, `age` | `selected_propagation_node`, time since `last_propagation_download` |
| `client` | whether the propagation client downloads |
| `missed`, `elapsed`, `turned` | history: announces whose upsert failed, the time since any download, another node selected since |

`Hear` is the transport, which remembers an announce and hands it to its
stream if there is a subscription; `Start`, `Subscribe`, `AskRecent`, `Seed`
and `EnterLoop` are the way into the loop, `ReceiveAnnounce` and `Tick` its
arms. `UpsertDirectory` is the `ON CONFLICT DO UPDATE` of `upsert_directory`
with the pruning in its transaction. `BestPropagationNode` is the set of rows
that `ORDER BY hops, last_seen DESC` may put first. `age` and `elapsed` stop at
`Pacing`, the 90 s.

### RrcAdapter

The RRC task handles one command at a time: `Receive`, `Return` (the library's
call), `Answer` (what is saved and told). `restoring` has the tasks of
`restore_saved_sessions`, one for each hub (`Restorations`), in their steps `connect`, `wait`,
`join`. `session`, `joined` and `events` belong to the library, which is
external: a session is opened, gets connected later, may lose its link, and
every change is an event in a bounded channel. `ForwardEvent` is
`forward_event`, with the table lookup that suppresses events of removed hubs.
Names of rooms are what the user types; `Normal` is `normalize_room`.
`promised`, `late` and `skipped` are history: what the user was told is kept,
rooms that a restoration could not join and nobody has joined since, hubs whose
newest event got lost. `told` is what the forwarded events say; that the answer
to `/nick` replaces a hub in the client as well is a step of `RrcPane`.

### Micron

`parse_page` as one action per line; the inline markup of a line is a fold over
its parts. `parser` is the record of its variables: literal mode, the open table, section,
alignment, style, partials, lifetime and the blocks built so far. A line is one
of the forms the parser tells apart (`LineForms`) and is named by its number, so
the property can ask what became of each line, and ask the page itself, not the
parser, for the style, section and alignment that must apply to it: `Commands`
are the style commands before a part, `SectionAt` and `AlignmentAt` go back to
the last line that set one. Of the inline markup, text, the bold style, its
reset and links are kept; colours, form fields and anchors are handled like one
of these.

### PageView

| Action | Code |
| --- | --- |
| `Visit`, `Step`, `Reload`, `CancelNavigation` | address bar and links, Back and Forward, Reload, Stop |
| `Arrive`, `FailNavigation` | `navigateBrowser` after its answer, `app.js:849-880` |
| `StartPartial`, `FireTimer`, `RefreshMicronPartials` | the ways into `loadMicronPartial`, `app.js:712` |
| `AnswerPartial` | its answer, which may bring a partial of its own |

`elements` are the elements of partials with their pending timeout, timer and
request; one that left the document stays as long as something of it is
pending. An aborted request is gone at once. A page or an answer has at most
one partial. `astray` is history: after a Back that was cancelled or failed, or
the reload of an address that failed, the position in the history need not say
what is shown.

### ConversationPane

The conversations of `app.js` and the server's side of them. Handlers run up to
their next `await`, as in `RrcPane`; requests and answers are sequences, so
that an order can be assumed or counted against (`MaxOvertakings`).

| Action | Code |
| --- | --- |
| `OpenConversation`, `ThreadArrives`, `DraftArrives`, `MarkArrives` | `openConversation`, in four pieces: before the thread, after it, and the two answers it awaits together |
| `ListArrives` | `loadConversations` with what its callers do then |
| `EventArrives` | `message_stored`: list, thread, mark, list |
| `Search`, `SearchFires` | the search field and its timer |
| `TypeReply`, `SaveFires` | the composer and the timer of its draft |
| `SubmitReply`, `Compose`, `SendArrives` | the quick reply and the dialog |
| `ClearHistory`, `ClearArrives` | the clear button |
| `Turn` | another view or another tab |
| `ServeRead`, `ServeMark`, `ServeSend`, `ServeClear`, `ServePut` | the handlers of `api.rs` with their statements |
| `Receive`, `DeliveryGoesOn` | the network task stores or updates a message and announces it |

A text is the set of peers for whom parts of it were typed. `mine` of a call
says that the conversation object the handler holds is still in the list, which
another `loadConversations` replaces. Two variables are history. `unseen` has
the peers for whom an event came while their thread was not visible, until
their thread is asked for again. `outdated` has the peers that were marked as
read while the handler held an object that is no longer in the list, or while a
list given before the mark was on its way: their count may be the old one until
the next list is given.

### RrcPane

The RRC view of `app.js`. A handler runs up to its next `await` as one action,
and from the answer on as another, `...Reply`; between them any other handler
may run. `flights` is the bag of requests and answers on their way. A request
keeps what the handler kept in a variable of its own (the hub of a LIST); what
the handler reads from the page again after the `await` (`activeHub`,
`activeRoom`) is read by the reply action. History and drafts are read at the
server in an action between the two, so an answer can be old when it arrives.
Events skip what a lagging or reconnecting socket missed.

`Render` is `renderRrc()`: it selects a room when the active one is gone, and
loads the draft when the target of the composer changes. `draftTag` is
therefore also the memory of the last render: the buttons the user sees are
those of its hub and room. A text is the set of targets in whose view it was
typed. The commands of `handleLocalRrcCommand` are the actions of the buttons
with `typed`, which empties the composer and its draft when the command is done.
A promise that is rejected is one whose answer never comes.

### Client and Tasks

`Client` is `BrowserCache`, `Micron`, `PageView` and `ConversationPane`, `Tasks`
is `Directory` and `RrcAdapter`. Their parts share no variable, so a behaviour
takes one of them and the others stay in their initial states; `ClientTypeOK` and
`TasksTypeOK` are the types of the parts together. `MCClient` and `MCTasks` only
give the constants of these modules their values.

## 4. The runs

| Run | Instance | Shows |
| --- | --- | --- |
| `outbound` | 2 messages of every method and size, 2 attempts each, history of 1, 1 stop, 1 failed statement, fairness | single flight, ownership of `sending`, currency of copies, attempt budget, honest outcomes, finality, back-off, what accepting a message deletes, refinement of `AtLeastOnce`, every message settles |
| `clear_race` | 1 message, 1 clear | violation, finding 1 |
| `inbox` | 4 copies of messages with 2 timestamps, good and bad signatures, history of 2, 1 stop, 1 failed statement | no duplicates, exact unread counts, worth of a proof |
| `service` | `EventStream`: 2 requests of any kind, channels of 1, a failure early and one late; 1 client, a broadcast channel of 1, 1 other event, 1 lost socket | who holds a waiting request, answers, graceful stop, what the client shows |
| `offline_query` | 1 request, `--offline` | violation, finding 2 |
| `client` | `BrowserCache`: 3 addresses, 2 fetches at once, 2 entries, 3 units of bytes, 2 clock readings, lifetimes of 0 and 1. `Micron`: every page of up to 4 lines of 15 forms. `PageView`: 2 addresses, history of 3, 4 rendered pages, 2 elements. `ConversationPane`: 2 peers, 3 messages, threads of 2, 1 event, 4 deeds of a user who waits | staleness, limits, eviction, forms; no line is lost; history and partials; the conversation in view is true |
| `shared_draft` | 2 peers, 4 deeds, one overtaking, one failure | violation, finding 5 |
| `schema` | 2 processes, versions 7 and 8, databases of versions 1 and 6 or none | complete schema, no keys, repeatable start |
| `newer_schema` | 1 process, versions 7 and 8 | violation, finding 3 |
| `rrc_pane` | 2 hubs, one with 2 rooms, 4 acts of the user or changes of a hub, 1 message per room, a new request while fewer than 2 are on their way | queries are coalesced, unread counts and drafts survive late answers |
| `delayed_reply` | 1 hub with 2 rooms | violation, finding 4 |
| `tasks` | `Directory`: 2 propagation nodes and a peer in a table of 2, pacing of 2, 3 announces, 1 stop, 1 fault, fairness. `RrcAdapter`: 1 hub, 2 rooms, 3 spellings, an event channel of 2, 5 commands, 2 stops, 1 lost link, 1 fault | the directory catches up, downloads keep their pace; what the user was told is kept, restored and shown |

**Why the bounds are enough.** Two messages make every pair of an attempt and a
row that changes meanwhile; the flag admits one attempt, so a third message
only waits. Two attempts contain a retry and a last one. One stop and one
failed statement, placed anywhere, reach every recovery; the proofs do away
with all of these bounds. With a history of 1, a message that is accepted meets
one that still waits and must not be pruned for it. The runs `client` and
`tasks` put modules side by side that share no variable; a behaviour takes one
of them, so nothing is lost by not interleaving them. Four copies are a
message, its duplicate, and two more that push it over the history limit, after
which it can return. Two requests suffice to fill a channel of one and to have
one request wait behind the other. Three addresses exceed two entries, and
sizes of 1 and 2 exceed three bytes with fewer. Four lines open a mode, nest
another in it and close them in either order; five lines were checked once. A page with a partial that brings another, and
two later pages, are what a late answer can meet; a history of three has a
position in its middle. Two processes are what it takes
to disturb a start. Two nodes take turns, and the peer is the third row of a
table of two; three announces are one before the subscription, one during the
seeding and one that retires. Two stops of the RRC task are one to restore and
one in the middle of restoring. With threads of two the third message exceeds
the limit, and two messages of a thread can be on either side of a mark; a
thread of one would hide that a message is marked as read and never shown. Two
events with three deeds and three messages were checked once (6.4 million
states) and are too slow for every run. Four acts are a hub that appears, a request for a room, a
change to the other and one more act before the answer; the answers, the
timers and the server are not counted.

`CHECK_DEADLOCK FALSE` is set where the behaviour ends: in `service` the
process, in `rrc_pane` and `client` the acts of the user and the pages, in
`tasks` the announces and commands.

### Fairness

`OutboundQueue`, `Service`, `EventStream` and `Directory` state it per action;
nothing is assumed of users, signals, stops or failures. `Tasks` repeats that
of `Directory` for the behaviours that take it.

* Arms of `select!` that stay ready are taken (`QueueOutbound`, `StartAttempt`,
  `FinishOutbound`, `HandleNetworkCommand`, `CloseNetwork` and so on): tokio
  polls the arms in random order, so weak fairness is what it gives. The tick
  comes every 2 s.
* Tasks of their own end (`Attempt`, `FinishTask`, `FinishRrcCommand`): each
  wait in them has a timeout, 30 s for a path or a link, 15 s for a proof,
  120 s for a response or a resource, 30 s for an RRC query.
* `Start`: `contrib/rsnomadnet.service` restarts the process.
* `Elapse`: time passes.
* `Directory`: the arms and the tick as above (`ReceiveAnnounce`, `Tick`), the
  steps of `run()` up to the loop, which wait for nothing that can stay away,
  `TimePasses`, and `FinishDownload`: that the library ends each of its downloads
  is an assumption.
* `EventStream`: the tick repeats the state (`Refresh`), the client connects
  again 1.5 s after a loss, and the task of the socket runs.
* `SendCommand`: a channel with room admits a waiting sender (tokio's `mpsc`
  is first come, first served).

The network task is not restarted after a failure: properties that need it
name `net = "failed"` as the exception.

## 5. Findings

1. **A clear may delete a message that was just accepted** (`clear_race`). The
   check "conversation has messages awaiting delivery" and the deletion take the
   database lock separately (`api.rs:952`, `963`); the network task queues a
   message in between.
2. **A LIST, WHO or PING without an RRC task is never answered**
   (`offline_query`), nor is part, disconnect or nick: these handlers do not look
   at the network state, and the receiver stays in `AppState`. A graceful stop
   waits for such a request for ever; `SignalStops` of the run `service` states
   the stop with exactly this exception (`Abandoned`).
3. **A stop between DELETE and INSERT forgets the version** (`newer_schema`).
   The next start of an older binary takes the database for version 1 and
   accepts it.
4. **A late history empties the room in view** (`delayed_reply`).
   `loadRrcHistory` (`app.js:1318`) removes the messages of the room that is
   active when the answer arrives and appends those of the room that was active
   when it asked. `rrc-ui.test.js:5` says "delayed room replies cannot replace
   the newly selected room"; what it tests, `isCurrentRoom`, guards only
   `loadRrcUsers`.
5. **A draft to one peer becomes a draft to another** (`shared_draft`).
   `openConversation` makes the new conversation active before its thread and
   draft have come (`app.js:898`); the composer still holds the text to the old
   one, and the next key saves it as the draft of the new one (`app.js:1666`).
   If the request fails, it stays that way. `src/README.md:27` says "per-peer
   drafts".

What else was met on the way, of which no document says otherwise: a thread is
the 500 messages with the *oldest* timestamps while 2000 are kept (`db.rs:719`),
so the newest messages of a long conversation are never shown yet count as
read; a message composed from the directory opens and marks as read a
conversation in a view that is hidden, and one that was stored between the
thread's answer and the mark is then read and not shown, since the list of its
event is not followed by a thread in a hidden view (`app.js:994`); when a
conversation is opened while a list asked for earlier is on its way, the list
replaces the objects, `conversation.unread = 0` (`app.js:915`) sets one that is
gone, and the badge shows an old count until the next event; after a connect
the page is not rendered (`app.js:1414`), so a click on a room button still
shown (`app.js:1152`) opens and marks as read the room of that name on the new
hub; the answer to a join selects and marks as read the room of its name at the
hub that is active by then (`app.js:1440`), and the answer to a command or a
message empties the composer and the draft of the room then in view
(`app.js:1496`), be it another one; the answer to `/nick` replaces the hub as
the client knows it, also by a state older than that of the last event
(`app.js:242`); after a quick reply the draft loaded
again may be the text that was just sent, which is emptied 300 ms later; a new
message during a search marks the conversation as read though the search may
not show it; a hub that is reached later than 30 s after the start is not
restored; an event of a removed hub that says connected shows the hub again;
nodes that take turns as the best one defeat the 90 s between downloads
(`DownloadsArePaced` has the exception).

## 6. What is proved

All theorems hold for every value of the constants that satisfies the `ASSUME`s
of the modules: numbers are natural, `MaxAttempts` and `Capacity` are positive,
methods are known ones. TLC evaluates the assumptions in every run.

**OutboundQueueProofs.** `TypeCorrect` and `AlwaysSingleFlight`: a flag, a task
and a channel agree. Single flight is inductive with the types; the lemma
`AttemptCases` lists what a step of an attempt can do to them.
`CopiesStayCurrent`, `AttemptsAreCounted`, `OutcomesAreHonest`,
`FinalStaysFinal`, `SendingStaysOwned`: none of them is inductive alone. That a
count is right needs that the copy an attempt works on still equals its row,
which needs that one attempt is in flight, and that ids are never given out
twice. `QueueInvariant` is their conjunction with `FreshIds` (no history for
ids not given out) and `ResultsAreTruthful` (a result names a transport that
could carry the message). `StepShapes` proves once that every step is one of
five shapes (quiet, a message accepted, an attempt started, all attempts
dropped, a result concluded); each part of the invariant is then proved per
shape. `RetriesWaitTheirDelay`: a failed attempt is followed by another no
sooner than its delay in the table of seconds 2, 4, 8, 16, 32, 64.
`AcceptingSparesQueue`: the pruning in the transaction of an INSERT deletes
nothing that waits for delivery. `QueueImplementsAtLeastOnce`: the initial
state maps to an initial state of `AtLeastOnce`, and each shape to an abstract
step or a stutter.

Two theorems are the safety half of `EveryMessageSettles`.
`TransmissionsAreBounded`: a message is sent at most `MaxAttempts` times, and once
more for each stop and each failed statement, also after its row was deleted
(`SendsAreBounded`; `AttemptsAreCounted` ties the transmissions to the count in
the row, this bounds those that the count forgets). `QueueNeverSticks`: while a
message is pending and the task has not failed, either a step that fairness is
stated for has its guard or the loop is free and every pending row is due within
the longest delay (`QueueStepReady`). It needs that what an attempt holds was due
and that no wait is longer than a delay (`DueInvariant`, `WaitsAreBounded`), and
`SomethingIsNext`: the query for the next row finds one if any is due.

**InboxProofs.** `TypeCorrect`, `MessagesStayUnique`, `UnreadStaysExact`,
`ProvenStaysKept`. A step either only removes rows or adds one row with a fresh
id (`StepShape`). The invariant adds `RowsAreKept`: a row in the table is one
that was stored, without which a duplicate's early return could lose a proven
message.

**EventStreamProofs.** `NoRequestIsDropped` (a request that waits is held by a
channel, a handler or a task, or its receiver was never claimed) needs
`ServiceInvariant`: how far each task is decides where its receiver and its
requests can be (`Stages`), and a channel has no more than its room and only
requests that wait (`Channels`). `StreamTypeCorrect` and
`ClientShowsTheNetwork`: the state last told to the client is the newest one
unless one is on its way or was missed, by the parts `NewestIsCurrent` (the
last event in the channel of the socket is the state of the network) and
`NothingNewIsShown`.

`CommandsAreInOnePlace`: no command is in two places, or twice in a channel, so
none is handled twice (`OnePlace`). Three theorems are what the liveness of the
service rests on besides fairness. `NobodyWaitsForEver`: while a request is open
or the process is to stop, and no RRC request was abandoned, one of the steps
that fairness is stated for has its guard (`StepReady`). Its invariant `Order`
says that the RRC task exists from the spawn on, that the tasks end only after
the signal and that a command is in the channel of its kind; with `Stages` and
`Held` it excludes that they wait for each other. `StopsAreFinite`: for
a finite set of requests, every step after the signal lowers `WorkLeft`, which
counts open requests, commands not sent, not handled and not finished, and
stages still ahead of the three. `StreamKeepsTheService`: a behaviour of
`EventStream` is one of `Service` with its fairness, so the properties of
`Service` hold of the composition.

**ClientProofs.** `ClientIsItsParts`: a behaviour of `Client` is one of each of
its four parts, so that the theorems about a part are theorems about the module
the run checks; `ClientTypeCorrect` follows. Of `BrowserCache`: `CacheTypeCorrect`; `CachedPagesAreFresh`
from `FetchesAreTimed` and `EntriesAreHonest` (a page was read between the
start of its fetch and now); `EvictionKeepsOrder`, that the pruning removes no
entry while one that expires earlier stays and that nothing is removed without
need, from `CacheIsBounded`. The limit in bytes is a sum over the entries, so
the lemmas `SumsExist`, `SumsGrow` and `TotalIsSum` first prove by induction on
the cardinality that the fold of the model is that sum and that it grows with
its set. Of `PageView`: `ViewTypeCorrect` and `PageIsThatOfHistory`, from
`BrowserInvariant` (where a navigation may end) and `ElementsInvariant` (every
element is in the document of its generation or has lost its timers).

Of `ConversationPane`: `ConversationTypeCorrect` (types, well-formed requests
and answers, unique ids; in every run) and `QuietPaneTellsTruth`, which states
`QuietPaneIsTrue`. That property speaks of a page at rest; what makes it true is
what is under way, so its invariant `PaneTruth` says for each part of the page
that it is true, or that something on its way will make it so, or that the
property excepts it:

| Part | What it says |
| --- | --- |
| `NoneFailed`, `OneTurns` | answers succeed; of the requests that change the conversation in view there is one at a time |
| `SentIsListed` | the list asked for after a message was sent has its conversation |
| `ListTells` | if no list will be asked for, the newest list given is that of the server, or a mark still on its way makes it so |
| `MarkTells` | an opening whose mark was made has no unread messages |
| `ThreadsAreActive`, `HeaderIsActive` | the last thread asked for is that of the conversation in view, whose name and composer come with it |
| `EmptyIsShown`, `ThreadTells` | the newest thread given, or else the one shown, is that of the server, unless an event or a list will bring another |
| `ActiveIsRead` | the conversation in view is read, unless a mark comes |

`PaneTruth` holds as long as nothing failed and no answer overtook another
(`Undisturbed`), the types always; TLC checked the parts on two instances of
the module before they were proved. The order of the queues is in the lemmas
`RemovalKeeps`, `JoiningKeeps`, `ServeFacts`, `TakeFacts` and `SentFacts`: the
last element of a kind stays the last when others are taken out, and is followed
by those that are put behind. The list is the hardest step: it takes the objects
of the old list from all that is under way (`ListInOrder`) and may open a
conversation or load a thread.

**MicronProofs.** `AllPagesAreWhole`: every line of every page ends in exactly
one block, in order, with the style, section and alignment that the page asks
for. `ParserInvariant` says of the parser after any number of lines what its
record means for the lines read so far; the fold over the parts of a line is
unrolled by one part at a time with a least-number argument.

**TasksProofs.** `TasksAreTheirParts` and `TasksTypeCorrect`, as for `Client`.
`Directory`: `DirectoryTypeCorrect`, `TableCatchesUp`,
`DownloadsWait` (the pacing, the safety half of `DownloadsKeepPace`). The
invariant follows an announce from the transport to the table:
`Subscriptions`, `InOwnStream`, `OnePerDestination`, `LastIsCached` (the last
announce of a stream is what the transport remembers), `SeedsAreCurrent`, `Told`
and `StatesAreStored`; for the pacing, `AgeIsElapsed`. `RrcAdapter`:
`AdapterTypeCorrect`, `AnswersAreKept`, `SavedHubsAreShown`,
`SavedRoomsAreRestored`; what is saved, what was promised and what a task of
the restoration still has to join are kept equal by one invariant. A room that
its restoration could not join is owed again from the moment a join succeeds.

**RrcPaneProofs.** `PaneTypeCorrect`, `QueriesStayCoalesced`,
`NothingIsMarkedUnseen`, `NoDraftIsLost`, from `PaneInv` (`HubsOK`, `ViewOK`,
`TimersOK`, `UnreadOK`, `TablesOK`, `FlightsOK`) and `Counted`: a query is
shown as loading as often as a request or an answer for it is in the bag. The
last two theorems say of every step which of the requests it answers
(`ArrivedIsAnswered`): that the room in view lost its count or its draft is no
excuse of its own, it must have been in view before, be an act of the user, or
be the one answer of the code that does it (section 5).

**SchemaProofs.** `TypeCorrect`, `ServesComplete`, `InterruptedStartRepeats`.
`Progress` says what a process that has come to a phase has seen to: what it
created stays, since no statement drops anything. `Repeatable` adds that an
undisturbed start is the only one in progress.

**Only model-checked.** Of the liveness properties (`EveryMessageSettles`,
`CheckedIsAnswered`, `SignalStops`, `OnlineIsShown`, the second half of
`DownloadsKeepPace`) the step from fairness to the conclusion, since `ENABLED` is
out of the prover's reach. For the first three the rest is proved: some fair step
always has its guard, and for a stop the work that is left is a natural number
that every step lowers, for a message the number of transmissions is bounded.
That `StepReady` and `QueueStepReady` spell out the guards of the fair actions is
read off their definitions; for `StepReady`, TLC also found it equivalent to
`ENABLED` of these actions in every reachable state with 2 and 3 requests, online
and offline. Every other invariant and action property that a run checks is
proved.

## 7. What is not modelled

* Reticulum, LXMF packing, the RRC client and SQLite: libraries. An attempt, a
  request or a query succeeds, fails or times out; a statement or a transaction
  takes effect or fails.
* Panics: a panic in an attempt would leave `outbound_active` set for good.
* How long a retry waits behind new messages, which sort before it
  (`db.rs:980`): the models have a bounded number of messages.
* Rendering, wording, logging, files and permissions; the checks of
  one request against its own headers.
* The announce name: it is read while the network starts, and saving it and
  sending it to the task are two steps (`network.rs:97`).
* Nodes that leave without retiring: the directory has no notion of it, the
  closest node stays the best one whatever its `last_seen` (`db.rs:1057`).
* Of the client: the directory view, bookmarks and settings. In the RRC
  view, lines the page adds by itself, messages without a room and what a user
  list contains. In the conversations, titles, methods and delivery states;
  `QuietPaneIsTrue` is about a user who waits until the page is quiet, requests
  that succeed and answers in order.
* Of `browser.rs`: addresses, colours, form fields, anchors and file names.
* Settings, bookmarks and the identity: single statements and files of their own.
