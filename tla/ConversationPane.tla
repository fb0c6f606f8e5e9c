---------------------------- MODULE ConversationPane ----------------------------
(***************************************************************************)
(* The conversations of the web client (src/web/app.js): the list with its *)
(* unread counts, the thread in view, the search, the composer with a      *)
(* draft for each peer, and the server's side of it (src/src/db.rs).       *)
(*                                                                         *)
(* As in RrcPane, a handler runs up to its next await, keeps in a record   *)
(* what it goes on with, and reads all else again. Requests wait in the    *)
(* order in which they were sent, answers in which they were given; either *)
(* may overtake others.                                                    *)
(*                                                                         *)
(* A text is the set of peers for whom parts of it were typed. Messages    *)
(* have the time at which they are stored; one is found by a search or is  *)
(* not. Titles, methods and delivery states are left out.                  *)
(***************************************************************************)
EXTENDS Naturals, Sequences, SequencesExt, FiniteSets, FiniteSetsExt, Functions

CONSTANTS
    Peers,       \* peers, by destination hash
    NoPeer,      \* null for a peer, and a thread that is hidden
    ThreadLimit, \* LIMIT 500 of a thread
    Matching,    \* the messages that a search finds, by id
    MaxMessages, \* bound: messages, received and sent
    MaxEvents,   \* bound: events message_stored
    Patient,     \* bound: the user waits until the page is quiet
    MaxDeeds,    \* bound: what the user does
    MaxFailures, \* bound: requests that fail
    MaxOvertakings \* bound: requests and answers that overtake one of their kind

ASSUME ConversationAssumption ==
    /\ NoPeer \notin Peers
    /\ ThreadLimit \in Nat \ {0}
    /\ MaxMessages \in Nat /\ Matching \subseteq 1..MaxMessages
    /\ MaxEvents \in Nat /\ MaxDeeds \in Nat
    /\ MaxFailures \in Nat /\ MaxOvertakings \in Nat /\ Patient \in BOOLEAN

VARIABLES
    active,    \* state.activeConversation
    thread,    \* state.conversationMessages, as rendered
    header,    \* the peer that #thread-hash names
    list,      \* state.conversations: unread counts by peer
    search,    \* state.messageSearch is not empty
    field,     \* nor is #message-search
    searching, \* searchTimer is set
    visible,   \* the view is "messages" and the page is visible
    body,      \* the text in #message-body
    bodyTag,   \* its dataset.draftTarget
    saving,    \* draftTimers: the text to be saved, by peer
    replying,  \* the button of the composer is disabled
    calls,     \* requests on their way
    answers,   \* answers on their way
    events,    \* events message_stored on their way
    rows,      \* messages
    lastId,    \* its AUTOINCREMENT counter
    readUpTo,  \* conversation_state.last_read_id
    kept,      \* drafts of scope lxmf
    unseen,    \* peers of whom events came while their thread was not visible
    outdated,  \* peers marked as read when an older list was to be shown
    announced, deeds, failures, overtakings  \* what the bounds count

pane == <<active, thread, header, list, search, field, searching, visible>>
composing == <<body, bodyTag, saving, replying>>
traffic == <<calls, answers, events>>
database == <<rows, lastId, readUpTo, kept>>
recorded == <<unseen, outdated>>
faults == <<failures, overtakings>>
conversationVars == <<pane, composing, traffic, database, recorded, announced, deeds, faults>>

Ids == 1..MaxMessages
Rows == [peer : Peers, id : Ids, inbound : BOOLEAN, text : SUBSET Peers]
Unset == {NoPeer}   \* no text: no timer

ConversationTypeOK ==
    /\ {active, header, bodyTag} \subseteq Peers \cup {NoPeer}
    /\ thread \subseteq Rows /\ rows \subseteq Rows
    /\ DOMAIN list \subseteq Peers /\ Range(list) \subseteq 0..MaxMessages
    /\ {search, field, searching, visible, replying} \subseteq BOOLEAN
    /\ body \subseteq Peers
    /\ saving \in [Peers -> (SUBSET Peers) \cup {Unset}] /\ kept \in [Peers -> SUBSET Peers]
    /\ events \in 0..MaxEvents
    /\ lastId \in 0..MaxMessages /\ readUpTo \in [Peers -> 0..MaxMessages]
    /\ unseen \subseteq Peers /\ outdated \subseteq Peers
    /\ announced \in 0..MaxEvents /\ deeds \in 0..MaxDeeds
    /\ failures \in 0..MaxFailures /\ overtakings \in 0..MaxOvertakings

-----------------------------------------------------------------------------
(* Requests                                                                *)

\* next is what the handler goes on with, mine whether the conversation that
\* it holds is still the one in the list.
Call(op, peer, next) ==
    [op |-> op, peer |-> peer, next |-> next, search |-> FALSE, text |-> {},
     mine |-> op \in {"thread", "read", "draft"} /\ next \in {"open", "reopen"}]

ListCall(next) == Call("list", NoPeer, next)
ThreadCall(peer, next, found) == [Call("thread", peer, next) EXCEPT !.search = found]
TextCall(op, peer, next, text) == [Call(op, peer, next) EXCEPT !.text = text]

Ask(requests) == calls' = calls \o requests

\* One is taken from the others on their way.
FirstOfKind(ops, k) == \A j \in 1..(k - 1) : ops[j] # ops[k]
Ops(waiting) == [j \in DOMAIN waiting |-> waiting[j].op]

Overtakes(first) ==
    /\ first \/ overtakings < MaxOvertakings
    /\ overtakings' = IF first THEN overtakings ELSE overtakings + 1

\* A list that is replaced takes its conversations with it.
Estranged(call) == [call EXCEPT !.mine = FALSE]

\* Nothing is under way but drafts to be saved.
Quiet ==
    /\ \A call \in Range(calls) : call.op = "put"
    /\ answers = <<>> /\ events = 0 /\ ~searching

\* The socket is connected and the list is being loaded.
ConversationInit ==
    /\ active = NoPeer /\ thread = {} /\ header = NoPeer
    /\ list = [p \in {} |-> 0]
    /\ search = FALSE /\ field = FALSE /\ searching = FALSE
    /\ visible = TRUE
    /\ body = {} /\ bodyTag = NoPeer /\ replying = FALSE
    /\ saving = [p \in Peers |-> Unset]
    /\ calls = <<ListCall("nothing")>> /\ answers = <<>> /\ events = 0
    /\ rows = {} /\ lastId = 0 /\ readUpTo = [p \in Peers |-> 0]
    /\ kept = [p \in Peers |-> {}]
    /\ unseen = {} /\ outdated = {}
    /\ announced = 0 /\ deeds = 0 /\ failures = 0 /\ overtakings = 0
-----------------------------------------------------------------------------
(* The server                                                              *)

RowsOf(p) == {m \in rows : m.peer = p}

\* conversations()
Unread(p) == Cardinality({m \in RowsOf(p) : m.inbound /\ m.id > readUpTo[p]})
Listing == [p \in {m.peer : m \in rows} |-> Unread(p)]

\* messages() and search_messages(): in the order of their time, with a limit.
Oldest(found) == {m \in found : Cardinality({n \in found : n.id < m.id}) < ThreadLimit}
ThreadOf(p, searched) == Oldest({m \in RowsOf(p) : searched => m.id \in Matching})

Insert(p, inbound, text) ==
    /\ lastId < MaxMessages
    /\ lastId' = lastId + 1
    /\ rows' = rows \cup {[peer |-> p, id |-> lastId', inbound |-> inbound, text |-> text]}

Announced ==
    /\ announced < MaxEvents
    /\ announced' = announced + 1
    /\ events' = events + 1

\* A message is received, or the delivery of one goes on.
Receive(p) ==
    /\ Insert(p, TRUE, {})
    /\ Announced
    /\ UNCHANGED <<pane, composing, calls, answers, readUpTo, kept, recorded, deeds, faults>>

DeliveryGoesOn ==
    /\ \E m \in rows : ~m.inbound
    /\ Announced
    /\ UNCHANGED <<pane, composing, calls, answers, database, recorded, deeds, faults>>

\* The answer to calls[k]; ok is response.ok.
ServeCall(k, ok, found) ==
    /\ calls' = RemoveAt(calls, k)
    /\ Overtakes(FirstOfKind(Ops(calls), k))
    /\ answers' = Append(answers, [call |-> calls[k], ok |-> ok, found |-> found])
    /\ UNCHANGED <<pane, composing, events, unseen, announced, deeds>>

Fails(ok) ==
    /\ ok \/ failures < MaxFailures
    /\ failures' = IF ok THEN failures ELSE failures + 1

ServeRead(k, ok) ==
    /\ calls[k].op \in {"list", "thread", "draft"}
    /\ Fails(ok)
    /\ ServeCall(k, ok, CASE calls[k].op = "list"   -> Listing
                      [] calls[k].op = "thread" -> ThreadOf(calls[k].peer, calls[k].search)
                      [] calls[k].op = "draft"  -> kept[calls[k].peer])
    /\ outdated' = IF calls[k].op = "list" THEN {} ELSE outdated
    /\ UNCHANGED database

\* mark_conversation_read()
Marked(p) == Max({0} \cup {m.id : m \in RowsOf(p)})

\* An answer to come replaces the counts by older ones, or has done so.
Outdates(call) ==
    /\ call.next # "event"
    /\ ~call.mine \/ \E j \in DOMAIN answers : answers[j].call.op = "list"

ServeMark(k, ok) ==
    /\ calls[k].op = "read"
    /\ outdated' = outdated \cup IF ok /\ Outdates(calls[k]) THEN {calls[k].peer} ELSE {}
    /\ readUpTo' = IF ok THEN [readUpTo EXCEPT ![calls[k].peer] = Marked(calls[k].peer)]
                   ELSE readUpTo
    /\ Fails(ok)
    /\ ServeCall(k, ok, {})
    /\ UNCHANGED <<rows, lastId, kept>>

\* The message is queued, or refused.
ServeSend(k, ok) ==
    /\ calls[k].op = "send"
    /\ IF ok THEN Insert(calls[k].peer, FALSE, calls[k].text)
       ELSE UNCHANGED <<rows, lastId>>
    /\ ServeCall(k, ok, {})
    /\ UNCHANGED <<readUpTo, kept, outdated, failures>>

\* clear_conversation(), refused while messages wait for delivery.
ServeClear(k, ok) ==
    LET p == calls[k].peer IN
    /\ calls[k].op = "clear"
    /\ ok \/ \E m \in RowsOf(p) : ~m.inbound
    /\ IF ok THEN /\ rows' = rows \ RowsOf(p)
                  /\ readUpTo' = [readUpTo EXCEPT ![p] = 0]
                  /\ kept' = [kept EXCEPT ![p] = {}]
       ELSE UNCHANGED <<rows, readUpTo, kept>>
    /\ ServeCall(k, ok, {})
    /\ UNCHANGED <<lastId, outdated, failures>>

\* save_draft(); nobody waits for the answer.
ServePut(k, ok) ==
    /\ calls[k].op = "put"
    /\ kept' = IF ok THEN [kept EXCEPT ![calls[k].peer] = calls[k].text] ELSE kept
    /\ Fails(ok)
    /\ calls' = RemoveAt(calls, k)
    /\ Overtakes(FirstOfKind(Ops(calls), k))
    /\ UNCHANGED <<pane, composing, answers, events, rows, lastId, readUpTo, recorded, announced,
                   deeds>>
-----------------------------------------------------------------------------
(* Handlers, from the answer they awaited up to the next one               *)

\* Mutant: an event does not load the list again when it has marked messages.
NothingAfter(next) == <<>>

\* What follows the mark of an event.
AfterMark(next) == IF next = "event" THEN <<ListCall("nothing")>> ELSE <<>>

\* openConversation up to its first await.
Open(p) == active' = p /\ search' = FALSE /\ field' = FALSE
NoOpen == UNCHANGED <<active, search, field>>

OvertakesAnswers(k) ==
    Overtakes(FirstOfKind([j \in DOMAIN answers |-> answers[j].call.op], k))

\* The handler of answers[k] runs and sends other requests.
Take(k, requests) ==
    /\ Ask(requests)
    /\ answers' = RemoveAt(answers, k)
    /\ OvertakesAnswers(k)
    /\ UNCHANGED <<searching, visible, events, database, announced, deeds, failures>>

\* loadConversations, and what its caller does then.
ListArrives(k) ==
    LET next == answers[k].call.next
        found == answers[k].found
        opened == {p \in DOMAIN found : \/ next = "reply" /\ p = active
                                        \/ next = "compose" /\ p = answers[k].call.peer}
        looked == next = "event" /\ active \in DOMAIN found /\ visible
        how == IF next = "reply" THEN "reopen" ELSE "open"
        threads == {ThreadCall(p, how, FALSE) : p \in opened}
                       \cup IF looked THEN {ThreadCall(active, "event", search)} ELSE {} IN
    /\ answers[k].call.op = "list" /\ answers[k].ok
    /\ list' = found
    /\ IF opened = {} THEN NoOpen ELSE \E p \in opened : Open(p)
    /\ replying' = (replying /\ ~(next = "reply" /\ opened = {}))
    /\ unseen' = IF next = "event" /\ ~visible THEN unseen \cup ({active} \ {NoPeer})
                 ELSE unseen \ {call.peer : call \in threads}
    /\ calls' = [j \in DOMAIN calls |-> Estranged(calls[j])] \o SetToSeq(threads)
    /\ answers' = RemoveAt([j \in DOMAIN answers |-> [answers[j] EXCEPT !.call = Estranged(@)]], k)
    /\ OvertakesAnswers(k)
    /\ UNCHANGED <<thread, header, searching, visible, body, bodyTag, saving, events, database,
                   outdated, announced, deeds, failures>>

\* openConversation, the event's and the search's handler after the thread came.
ThreadArrives(k) ==
    LET call == answers[k].call
        opening == call.next \in {"open", "reopen"} IN
    /\ call.op = "thread" /\ answers[k].ok
    /\ thread' = answers[k].found
    /\ header' = IF opening THEN call.peer ELSE header
    /\ bodyTag' = IF opening THEN call.peer ELSE bodyTag
    /\ \/ opening /\ Take(k, <<Call("read", call.peer, call.next),
                               Call("draft", call.peer, call.next)>>)
       \/ call.next = "event" /\ Take(k, <<Call("read", call.peer, "event")>>)
       \/ call.next = "search" /\ Take(k, <<>>)
    /\ UNCHANGED <<active, list, search, field, body, saving, replying, recorded>>

\* The handler ends with an error: a button it had disabled is enabled.
AnswerFails(k) ==
    LET call == answers[k].call IN
    /\ call.op \in {"list", "thread", "send", "clear"} /\ ~answers[k].ok
    /\ replying' = (replying /\ call.next \notin {"reply", "reopen"})
    /\ Take(k, <<>>)
    /\ UNCHANGED <<active, thread, header, list, search, field, body, bodyTag, saving, recorded>>

\* Promise.all: the mark and the draft of an opening have both been answered.
Awaited(k, op) ==
    \/ \E c \in Range(calls) : c = [answers[k].call EXCEPT !.op = op]
    \/ \E j \in DOMAIN answers : answers[j].call = [answers[k].call EXCEPT !.op = op]

Opened(k, other) ==
    LET call == answers[k].call
        ends == call.next \in {"open", "reopen"} /\ ~Awaited(k, other) IN
    /\ list' = IF ends /\ call.mine /\ call.peer \in DOMAIN list
               THEN [list EXCEPT ![call.peer] = 0] ELSE list
    /\ replying' = (replying /\ ~(ends /\ call.next = "reopen"))

MarkArrives(k) ==
    /\ answers[k].call.op = "read"
    /\ Opened(k, "draft")
    /\ Take(k, AfterMark(answers[k].call.next))
    /\ UNCHANGED <<active, thread, header, search, field, body, bodyTag, saving, recorded>>

DraftArrives(k) ==
    /\ answers[k].call.op = "draft"
    /\ body' = IF answers[k].ok /\ bodyTag = answers[k].call.peer THEN answers[k].found ELSE body
    /\ Opened(k, "read")
    /\ Take(k, <<>>)
    /\ UNCHANGED <<active, thread, header, search, field, bodyTag, saving, recorded>>

\* The composer is emptied, or the dialog of a new message closed.
SendArrives(k) ==
    LET call == answers[k].call IN
    /\ call.op = "send" /\ answers[k].ok
    /\ IF call.next = "reply"
       THEN body' = {} /\ saving' = [saving EXCEPT ![call.peer] = {}]
       ELSE UNCHANGED <<body, saving>>
    /\ Take(k, <<[ListCall(call.next) EXCEPT !.peer = call.peer]>>)
    /\ UNCHANGED <<active, thread, header, list, search, field, bodyTag, replying, recorded>>

ClearArrives(k) ==
    /\ answers[k].call.op = "clear" /\ answers[k].ok
    /\ active' = NoPeer /\ thread' = {} /\ header' = NoPeer
    /\ Take(k, <<ListCall("nothing")>>)
    /\ UNCHANGED <<list, search, field, body, bodyTag, saving, replying, recorded>>

\* The event message_stored
EventArrives ==
    /\ events > 0
    /\ events' = events - 1
    /\ Ask(<<ListCall("event")>>)
    /\ UNCHANGED <<pane, composing, answers, database, recorded, announced, deeds, faults>>

SaveFires(p) ==
    /\ saving[p] # Unset
    /\ saving' = [saving EXCEPT ![p] = Unset]
    /\ Ask(<<TextCall("put", p, "nothing", saving[p])>>)
    /\ UNCHANGED <<pane, body, bodyTag, replying, answers, events, database, recorded, announced,
                   deeds, faults>>

SearchFires ==
    /\ searching
    /\ searching' = FALSE
    /\ IF active = NoPeer THEN UNCHANGED <<search, calls>>
       ELSE search' = field /\ Ask(<<ThreadCall(active, "search", field)>>)
    /\ UNCHANGED <<active, thread, header, list, field, visible, composing, answers, events,
                   database, recorded, announced, deeds, faults>>
-----------------------------------------------------------------------------
(* The user                                                                *)

Deed ==
    /\ deeds < MaxDeeds /\ (Patient => Quiet)
    /\ deeds' = deeds + 1
    /\ UNCHANGED <<answers, events, database, announced, faults>>

\* A conversation of the list, or a link to a peer who need not be in it.
OpenConversation(p, linked) ==
    /\ p \in DOMAIN list \/ linked
    /\ list' = [q \in DOMAIN list \cup {p} |-> IF q \in DOMAIN list THEN list[q] ELSE 0]
    /\ visible' = TRUE
    /\ Open(p)
    /\ Ask(<<ThreadCall(p, "open", FALSE)>>)
    /\ Deed
    /\ unseen' = unseen \ {p}
    /\ UNCHANGED <<thread, header, searching, composing, outdated>>

InThread == visible /\ header # NoPeer

SubmitReply ==
    /\ InThread /\ ~replying /\ body # {} /\ active \in DOMAIN list
    /\ replying' = TRUE
    /\ Ask(<<TextCall("send", active, "reply", body)>>)
    /\ Deed
    /\ UNCHANGED <<pane, body, bodyTag, saving, recorded>>

Compose(p) ==
    /\ Ask(<<TextCall("send", p, "compose", {p})>>)
    /\ Deed
    /\ UNCHANGED <<pane, composing, recorded>>

Search(wanted) ==
    /\ InThread /\ field # wanted
    /\ field' = wanted /\ searching' = TRUE
    /\ Deed
    /\ UNCHANGED <<active, thread, header, list, search, visible, composing, calls, recorded>>

ClearHistory ==
    /\ InThread /\ active # NoPeer
    /\ Ask(<<Call("clear", active, "nothing")>>)
    /\ Deed
    /\ UNCHANGED <<pane, composing, recorded>>

\* The user leaves the view or the page, and comes back.
Turn ==
    /\ visible' = ~visible
    /\ Deed
    /\ UNCHANGED <<active, thread, header, list, search, field, searching, composing, calls,
                   recorded>>

\* A key is typed, or all text is deleted.
TypeReply(text) ==
    /\ InThread /\ active # NoPeer /\ text \in {body \cup {active}, {}}
    /\ text # body \/ saving[active] # text
    /\ body' = text
    /\ saving' = [saving EXCEPT ![active] = text]
    /\ Deed
    /\ UNCHANGED <<pane, bodyTag, replying, calls, recorded>>
-----------------------------------------------------------------------------
ServerNext ==
    \/ \E p \in Peers : Receive(p)
    \/ DeliveryGoesOn
    \/ \E k \in DOMAIN calls, ok \in BOOLEAN :
          \/ ServeRead(k, ok) \/ ServeMark(k, ok)
          \/ ServeSend(k, ok) \/ ServeClear(k, ok) \/ ServePut(k, ok)

HandlerNext ==
    \/ \E k \in DOMAIN answers :
          ListArrives(k) \/ ThreadArrives(k) \/ AnswerFails(k) \/ MarkArrives(k)
              \/ DraftArrives(k) \/ SendArrives(k) \/ ClearArrives(k)
    \/ EventArrives \/ SearchFires
    \/ \E p \in Peers : SaveFires(p)

UserNext ==
    \/ \E p \in Peers, linked \in BOOLEAN : OpenConversation(p, linked)
    \/ \E p \in Peers : Compose(p)
    \/ \E wanted \in BOOLEAN : Search(wanted)
    \/ SubmitReply \/ ClearHistory \/ Turn
    \/ \E text \in SUBSET Peers : TypeReply(text)

ConversationNext == ServerNext \/ HandlerNext \/ UserNext

ConversationSpec == ConversationInit /\ [][ConversationNext]_conversationVars
-----------------------------------------------------------------------------
(* Properties                                                              *)

\* To a user who waits until the page is quiet, it tells the truth: the list
\* has every conversation with its unread messages, and the thread, its name,
\* the draft and the search are of one conversation, which shows what the
\* server gives for it and counts as read. Excepted are requests that fail and
\* answers that overtake each other; for the thread, events that came while it
\* was not visible; for the count, a conversation opened while an older list
\* was on its way (app.js:897-917, 991-1010).
QuietPaneIsTrue ==
    Patient /\ Quiet /\ failures = 0 /\ overtakings = 0 =>
        /\ DOMAIN Listing \subseteq DOMAIN list
        /\ \A p \in DOMAIN list : list[p] = Unread(p) \/ p \in outdated
        /\ active # NoPeer =>
              /\ header = active /\ bodyTag = active
              /\ active \notin unseen => thread = ThreadOf(active, search) /\ Unread(active) = 0

\* src/README.md:27: drafts are per peer.
DraftsArePerPeer == \A p \in Peers : kept[p] \subseteq {p}
=============================================================================
