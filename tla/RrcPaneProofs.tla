---------------------------- MODULE RrcPaneProofs ----------------------------
(***************************************************************************)
(* The RRC view of the web client for every value of its constants: its    *)
(* types, that a query is under way exactly while it is shown as loading,  *)
(* that nothing is marked as read unseen and that no draft is lost while   *)
(* it waits to be saved.                                                   *)
(***************************************************************************)
EXTENDS RrcPane, TLAPS

-----------------------------------------------------------------------------
(* Bags                                                                    *)

\* How many of the two requests of a kind for a target are in a bag.
Count(op, at, B) == Copies(Request(op, at, TRUE), B) + Copies(Request(op, at, FALSE), B)

LEMMA OneFacts ==
    ASSUME NEW x
    PROVE  /\ IsABag(One(x)) /\ DOMAIN One(x) = {x}
           /\ \A e : Copies(e, One(x)) = IF e = x THEN 1 ELSE 0
BY DEF One, SetToBag, IsABag, Copies, BagIn, BagToSet

LEMMA EmptyFacts ==
    /\ IsABag(EmptyBag) /\ DOMAIN EmptyBag = {}
    /\ \A e : Copies(e, EmptyBag) = 0
BY DEF EmptyBag, SetToBag, IsABag, Copies, BagIn, BagToSet

LEMMA CopiesFacts ==
    ASSUME NEW B, IsABag(B)
    PROVE  \A e : Copies(e, B) \in Nat /\ (e \in DOMAIN B => Copies(e, B) > 0)
BY DEF IsABag, Copies, BagIn, BagToSet

LEMMA SumFacts ==
    ASSUME NEW A, NEW B, IsABag(A), IsABag(B)
    PROVE  /\ IsABag(A (+) B) /\ DOMAIN (A (+) B) = DOMAIN A \cup DOMAIN B
           /\ \A e : Copies(e, A (+) B) = Copies(e, A) + Copies(e, B)
BY DEF IsABag, Copies, BagIn, BagToSet, (+)

LEMMA LessFacts ==
    ASSUME NEW B, IsABag(B), NEW x \in DOMAIN B
    PROVE  /\ IsABag(B (-) One(x)) /\ DOMAIN (B (-) One(x)) \subseteq DOMAIN B
           /\ \A e : Copies(e, B (-) One(x)) = Copies(e, B) - (IF e = x THEN 1 ELSE 0)
BY OneFacts DEF IsABag, Copies, BagIn, BagToSet, (-), One, SetToBag

LEMMA RequestsDiffer == \A op, at : Request(op, at, TRUE) # Request(op, at, FALSE)
<1> SUFFICES ASSUME NEW op, NEW at, Request(op, at, TRUE) = Request(op, at, FALSE) PROVE FALSE
  OBVIOUS
<1>1. Request(op, at, TRUE).typed = TRUE /\ Request(op, at, FALSE).typed = FALSE
  BY DEF Request
<1> QED
  BY <1>1

\* A request of this kind for this target
IsFor(x, op, at) == x \in {Request(op, at, TRUE), Request(op, at, FALSE)}

LEMMA CountFacts ==
    ASSUME NEW A, NEW B, IsABag(A), IsABag(B), NEW op, NEW at
    PROVE  /\ Count(op, at, A) \in Nat
           /\ Count(op, at, EmptyBag) = 0
           /\ \A x : Count(op, at, One(x)) = IF IsFor(x, op, at) THEN 1 ELSE 0
           /\ Count(op, at, A (+) B) = Count(op, at, A) + Count(op, at, B)
           /\ \A x \in DOMAIN A :
                 /\ Count(op, at, A (-) One(x)) =
                        Count(op, at, A) - (IF IsFor(x, op, at) THEN 1 ELSE 0)
                 /\ IsFor(x, op, at) => Count(op, at, A) > 0
<1> DEFINE yes == Request(op, at, TRUE)
           no  == Request(op, at, FALSE)
<1>0. /\ \A C : Count(op, at, C) = Copies(yes, C) + Copies(no, C)
      /\ \A x : IsFor(x, op, at) <=> x = yes \/ x = no
      /\ yes # no
  BY RequestsDiffer, Zenon DEF Count, IsFor
<1> HIDE DEF yes, no
<1>1. /\ Copies(yes, A) \in Nat /\ Copies(yes, B) \in Nat
      /\ Copies(no, A) \in Nat /\ Copies(no, B) \in Nat
      /\ \A e \in DOMAIN A : Copies(e, A) > 0
  BY CopiesFacts
<1>2. \A e : Copies(e, A (+) B) = Copies(e, A) + Copies(e, B)
  BY SumFacts
<1>3. \A x, e : Copies(e, One(x)) = IF e = x THEN 1 ELSE 0
  BY OneFacts
<1>4. \A x \in DOMAIN A : \A e : Copies(e, A (-) One(x)) = Copies(e, A) - (IF e = x THEN 1 ELSE 0)
  BY LessFacts
<1>5. Count(op, at, A) \in Nat /\ Count(op, at, A (+) B) = Count(op, at, A) + Count(op, at, B)
  BY <1>0, <1>1, <1>2
<1>6. Count(op, at, EmptyBag) = 0
  BY <1>0, EmptyFacts
<1>7. \A x : Count(op, at, One(x)) = IF IsFor(x, op, at) THEN 1 ELSE 0
  BY <1>0, <1>3
<1>8. \A x \in DOMAIN A :
         /\ Count(op, at, A (-) One(x)) = Count(op, at, A) - (IF IsFor(x, op, at) THEN 1 ELSE 0)
         /\ IsFor(x, op, at) => Count(op, at, A) > 0
  BY <1>0, <1>1, <1>4
<1> QED
  BY <1>5, <1>6, <1>7, <1>8

-----------------------------------------------------------------------------
(* The inductive invariant                                                 *)

\* Requests and answers by kind: what a handler kept, and what is answered.
Flight ==
    [op : {"list", "ping", "nick", "connect", "disconnect"}, at : Hubs, typed : BOOLEAN]
    \cup [op : {"who", "join", "part"}, at : Hubs \X Rooms, typed : BOOLEAN]
    \cup [op : {"history", "draft", "send", "clear"}, at : Targets, typed : BOOLEAN]
    \cup [op : {"messages"}, at : Targets, typed : BOOLEAN, found : SUBSET Messages]
    \cup [op : {"text", "put"}, at : Targets, text : Texts]
    \cup [op : {"cleared"}, at : Targets]

HubsOK == DOMAIN hubs \subseteq Hubs /\ \A h \in DOMAIN hubs : hubs[h] \in Statuses(h)

\* Without an active hub the composer belongs to no target.
ViewOK ==
    /\ activeHub \in Hubs \cup {NoHub} /\ activeRoom \in Rooms \cup {NoRoom}
    /\ draftTag \in Targets \cup {NoTarget}
    /\ input \in Texts
    /\ activeHub = NoHub => draftTag = NoTarget

TimersOK == timers \in [Targets -> Texts \cup {NoTimer}]

\* No room has more unread messages than events of it have arrived.
UnreadOK ==
    /\ unread \in [Places -> 0..MaxStored]
    /\ sent \in [Places -> 0..MaxStored] /\ heard \in [Places -> 0..MaxStored]
    /\ \A p \in Places : unread[p] <= heard[p]

TablesOK ==
    /\ shown \subseteq Messages /\ stored \subseteq Messages
    /\ drafts \in [Targets -> Texts]

FlightsOK ==
    /\ IsABag(flights) /\ DOMAIN flights \subseteq Flight
    /\ loadingRooms \subseteq Hubs /\ pingingHubs \subseteq Hubs
    /\ loadingUsers \subseteq Hubs \X Rooms

QueryOps == {"list", "who", "ping"}
Askable(op) == IF op = "who" THEN Hubs \X Rooms ELSE Hubs
Loading(op) ==
    IF op = "list" THEN loadingRooms ELSE IF op = "who" THEN loadingUsers ELSE pingingHubs

Counted ==
    \A op \in QueryOps : \A at \in Askable(op) :
        Count(op, at, flights) = IF at \in Loading(op) THEN 1 ELSE 0

Parts == HubsOK /\ ViewOK /\ TimersOK /\ UnreadOK /\ TablesOK /\ FlightsOK /\ Counted

PaneInv == Parts /\ acts \in 0..MaxActs

LEMMA PaneInvImplies == PaneInv => TypeOK /\ QueriesAreCoalesced
<1> SUFFICES ASSUME PaneInv PROVE TypeOK /\ QueriesAreCoalesced
  OBVIOUS
<1>1. TypeOK
  BY DEF PaneInv, Parts, HubsOK, ViewOK, TimersOK, UnreadOK, TablesOK, FlightsOK, TypeOK
<1>2. QueriesAreCoalesced
  <2>1. \A h \in Hubs :
           /\ Count("list", h, flights) = IF h \in loadingRooms THEN 1 ELSE 0
           /\ Count("ping", h, flights) = IF h \in pingingHubs THEN 1 ELSE 0
    BY DEF PaneInv, Parts, Counted, QueryOps, Askable, Loading
  <2>2. \A p \in Hubs \X Rooms : Count("who", p, flights) = IF p \in loadingUsers THEN 1 ELSE 0
    BY DEF PaneInv, Parts, Counted, QueryOps, Askable, Loading
  <2>3. \A op, at : Unanswered(op, at) = Count(op, at, flights)
    BY DEF Unanswered, Count
  <2> QED
    BY <2>1, <2>2, <2>3 DEF QueriesAreCoalesced
<1> QED
  BY <1>1, <1>2

LEMMA InitPane == Init => PaneInv
<1> SUFFICES ASSUME Init PROVE PaneInv
  OBVIOUS
<1>1. HubsOK /\ ViewOK /\ TablesOK
  BY DEF Init, HubsOK, ViewOK, TablesOK, Texts
<1>2. TimersOK /\ UnreadOK /\ acts \in 0..MaxActs
  BY PaneAssumption DEF Init, TimersOK, UnreadOK
<1>3. FlightsOK
  BY EmptyFacts DEF Init, FlightsOK
<1>4. Counted
  <2>1. \A op, at : Count(op, at, EmptyBag) = 0
    BY EmptyFacts, CountFacts
  <2> QED
    BY <2>1 DEF Init, Counted, Loading
<1> QED
  BY <1>1, <1>2, <1>3, <1>4 DEF PaneInv, Parts

-----------------------------------------------------------------------------
(* Requests that may leave                                                 *)

NoQuery(requests) == \A x \in DOMAIN requests : x.op \notin QueryOps

\* Well formed, and a query among them is asked once and not under way.
Requests(requests) ==
    /\ IsABag(requests) /\ DOMAIN requests \subseteq Flight
    /\ \A op \in QueryOps : \A at \in Askable(op) :
          /\ Count(op, at, requests) = IF at \in At(op, requests) THEN 1 ELSE 0
          /\ at \in At(op, requests) => at \notin Loading(op)

LEMMA FlightFacts ==
    ASSUME NEW x \in Flight
    PROVE  /\ x.op \in {"list", "ping", "nick", "connect", "disconnect"} => x.at \in Hubs
           /\ x.op \in {"who", "join", "part"} => x.at \in Hubs \X Rooms
           /\ x.op \in {"history", "draft", "send", "clear", "messages", "text", "put", "cleared"}
                 => x.at \in Targets
           /\ x.op \in {"list", "ping", "nick", "connect", "disconnect", "who", "join", "part",
                        "history", "draft", "send", "clear", "messages"} => x.typed \in BOOLEAN
           /\ x.op = "messages" => x.found \subseteq Messages
           /\ x.op \in {"text", "put"} => x.text \in Texts
           /\ x.op \in QueryOps => x.at \in Askable(x.op) /\ x = Request(x.op, x.at, x.typed)
<1>1. CASE x \in [op : {"list", "ping", "nick", "connect", "disconnect"},
                   at : Hubs, typed : BOOLEAN]
  BY <1>1 DEF Request, Askable, QueryOps
<1>2. CASE x \in [op : {"who", "join", "part"}, at : Hubs \X Rooms, typed : BOOLEAN]
  BY <1>2 DEF Request, Askable, QueryOps
<1>3. CASE x \in [op : {"history", "draft", "send", "clear"}, at : Targets, typed : BOOLEAN]
  BY <1>3 DEF QueryOps
<1>4. CASE x \in [op : {"messages"}, at : Targets, typed : BOOLEAN, found : SUBSET Messages]
  BY <1>4 DEF QueryOps
<1>5. CASE x \in [op : {"text", "put"}, at : Targets, text : Texts]
  BY <1>5 DEF QueryOps
<1>6. CASE x \in [op : {"cleared"}, at : Targets]
  BY <1>6 DEF QueryOps
<1> QED
  BY <1>1, <1>2, <1>3, <1>4, <1>5, <1>6 DEF Flight

LEMMA IsForFacts ==
    ASSUME NEW x \in Flight, NEW op \in QueryOps, NEW at
    PROVE  IsFor(x, op, at) <=> x.op = op /\ x.at = at
<1>1. ASSUME IsFor(x, op, at) PROVE x.op = op /\ x.at = at
  BY <1>1 DEF IsFor, Request
<1>2. ASSUME x.op = op, x.at = at PROVE IsFor(x, op, at)
  <2>1. x = Request(op, at, x.typed) /\ x.typed \in BOOLEAN
    BY <1>2, FlightFacts DEF QueryOps
  <2> QED
    BY <2>1 DEF IsFor
<1> QED
  BY <1>1, <1>2

LEMMA AtFacts ==
    /\ \A op : At(op, EmptyBag) = {}
    /\ \A op, x : At(op, One(x)) = IF x.op = op THEN {x.at} ELSE {}
<1>1. \A op : At(op, EmptyBag) = {}
  BY EmptyFacts DEF At, BagToSet
<1>2. \A op, x : At(op, One(x)) = IF x.op = op THEN {x.at} ELSE {}
  <2>1. \A op, x : At(op, One(x)) = {r.at : r \in {q \in {x} : q.op = op}}
    BY OneFacts, Zenon DEF At, BagToSet
  <2> QED
    BY <2>1
<1> QED
  BY <1>1, <1>2

LEMMA AtSum ==
    ASSUME NEW A, NEW B, IsABag(A), IsABag(B)
    PROVE  \A op : At(op, A (+) B) = At(op, A) \cup At(op, B)
BY SumFacts DEF At, BagToSet

LEMMA NoneMayLeave == Requests(EmptyBag) /\ NoQuery(EmptyBag)
BY EmptyFacts, AtFacts, CountFacts DEF Requests, NoQuery

LEMMA OneMayLeave ==
    ASSUME NEW x \in Flight, x.op \in QueryOps => x.at \notin Loading(x.op)
    PROVE  Requests(One(x)) /\ (x.op \notin QueryOps => NoQuery(One(x)))
<1>1. IsABag(One(x)) /\ DOMAIN One(x) = {x}
  BY OneFacts
<1>2. ASSUME NEW op \in QueryOps, NEW at \in Askable(op)
      PROVE  /\ Count(op, at, One(x)) = IF at \in At(op, One(x)) THEN 1 ELSE 0
             /\ at \in At(op, One(x)) => at \notin Loading(op)
  <2>1. At(op, One(x)) = IF x.op = op THEN {x.at} ELSE {}
    BY AtFacts
  <2>2. Count(op, at, One(x)) = IF IsFor(x, op, at) THEN 1 ELSE 0
    BY <1>1, CountFacts
  <2>3. IsFor(x, op, at) <=> x.op = op /\ x.at = at
    BY IsForFacts
  <2> QED
    BY <2>1, <2>2, <2>3
<1> QED
  BY <1>1, <1>2 DEF Requests, NoQuery

LEMMA BothMayLeave ==
    ASSUME NEW A, NEW B, Requests(A), Requests(B), NoQuery(A)
    PROVE  Requests(A (+) B)
<1>1. IsABag(A) /\ IsABag(B) /\ IsABag(A (+) B) /\ DOMAIN (A (+) B) \subseteq Flight
  BY SumFacts DEF Requests
<1>2. ASSUME NEW op \in QueryOps, NEW at \in Askable(op)
      PROVE  /\ Count(op, at, A (+) B) = IF at \in At(op, A (+) B) THEN 1 ELSE 0
             /\ at \in At(op, A (+) B) => at \notin Loading(op)
  <2>1. At(op, A) = {}
    BY DEF NoQuery, At, BagToSet
  <2>2. At(op, A (+) B) = At(op, B)
    BY <1>1, <2>1, AtSum
  <2>3. Count(op, at, A (+) B) = Count(op, at, A) + Count(op, at, B) /\ Count(op, at, A) = 0
    BY <1>1, <2>1, CountFacts DEF Requests
  <2> QED
    BY <2>2, <2>3 DEF Requests
<1> QED
  BY <1>1, <1>2 DEF Requests

\* What the load functions send.
LEMMA LoadsMayLeave ==
    ASSUME NEW h \in Hubs \cup {NoHub}, NEW r \in Rooms \cup {NoRoom}, NEW typed \in BOOLEAN
    PROVE  /\ Requests(HistoryRequest(h, r, typed)) /\ NoQuery(HistoryRequest(h, r, typed))
           /\ Requests(RoomsRequest(h, typed))
           /\ Requests(UsersRequest(h, r, typed))
           /\ At("ping", UsersRequest(h, r, typed)) = {}
           /\ At("ping", HistoryRequest(h, r, typed)) = {}
<1>1. ASSUME h # NoHub
      PROVE  /\ Request("history", <<h, r>>, typed) \in Flight
             /\ Request("history", <<h, r>>, typed).op = "history"
  BY <1>1 DEF Request, Flight, Targets
<1>2. ASSUME h # NoHub
      PROVE  /\ Request("list", h, typed) \in Flight
             /\ Request("list", h, typed).op = "list" /\ Request("list", h, typed).at = h
  BY <1>2 DEF Request, Flight
<1>3. ASSUME h # NoHub, r # NoRoom
      PROVE  /\ Request("who", <<h, r>>, typed) \in Flight
             /\ Request("who", <<h, r>>, typed).op = "who"
             /\ Request("who", <<h, r>>, typed).at = <<h, r>>
  BY <1>3 DEF Request, Flight
<1>4. Requests(HistoryRequest(h, r, typed)) /\ NoQuery(HistoryRequest(h, r, typed))
  BY <1>1, NoneMayLeave, OneMayLeave DEF HistoryRequest, QueryOps
<1>5. Requests(RoomsRequest(h, typed))
  BY <1>2, NoneMayLeave, OneMayLeave DEF RoomsRequest, QueryOps, Loading
<1>6. Requests(UsersRequest(h, r, typed))
  BY <1>3, NoneMayLeave, OneMayLeave DEF UsersRequest, QueryOps, Loading
<1>7. At("ping", UsersRequest(h, r, typed)) = {} /\ At("ping", HistoryRequest(h, r, typed)) = {}
  BY <1>1, <1>3, AtFacts DEF UsersRequest, HistoryRequest
<1> QED
  BY <1>4, <1>5, <1>6, <1>7

-----------------------------------------------------------------------------
(* The requests on their way after a step                                  *)

LEMMA AtTypes ==
    ASSUME NEW B, DOMAIN B \subseteq Flight
    PROVE  /\ At("list", B) \subseteq Hubs /\ At("ping", B) \subseteq Hubs
           /\ At("who", B) \subseteq Hubs \X Rooms
BY FlightFacts DEF At, BagToSet

LEMMA DraftMayLeave ==
    ASSUME draftTag' \in Targets \cup {NoTarget}
    PROVE  Requests(DraftRequest) /\ NoQuery(DraftRequest)
<1>1. CASE draftTag' \in {draftTag, NoTarget}
  BY <1>1, NoneMayLeave DEF DraftRequest
<1>2. CASE draftTag' \notin {draftTag, NoTarget}
  <2>1. /\ Request("draft", draftTag', FALSE) \in Flight
        /\ Request("draft", draftTag', FALSE).op = "draft"
    BY <1>2 DEF Request, Flight
  <2> QED
    BY <1>2, <2>1, OneMayLeave DEF DraftRequest, QueryOps
<1> QED
  BY <1>1, <1>2

LEMMA QueriesLeave ==
    ASSUME NEW requests, NEW op \in QueryOps, NEW at \in Askable(op),
           IsABag(flights), Counted, Requests(requests), draftTag' \in Targets \cup {NoTarget}
    PROVE  Count(op, at, flights (+) requests (+) DraftRequest)
              = IF at \in Loading(op) \cup At(op, requests) THEN 1 ELSE 0
<1>1. IsABag(requests) /\ IsABag(DraftRequest) /\ IsABag(flights (+) requests)
  BY DraftMayLeave, SumFacts DEF Requests
<1>2. Count(op, at, flights (+) requests (+) DraftRequest)
        = Count(op, at, flights) + Count(op, at, requests) + Count(op, at, DraftRequest)
  <2>1. Count(op, at, flights (+) requests) = Count(op, at, flights) + Count(op, at, requests)
    BY <1>1, CountFacts
  <2>2. Count(op, at, flights (+) requests (+) DraftRequest)
          = Count(op, at, flights (+) requests) + Count(op, at, DraftRequest)
    BY <1>1, CountFacts
  <2> QED
    BY <2>1, <2>2
<1>3. Count(op, at, DraftRequest) = 0
  <2>1. At(op, DraftRequest) = {}
    BY DraftMayLeave DEF NoQuery, At, BagToSet
  <2> QED
    BY <2>1, DraftMayLeave DEF Requests
<1>4. Count(op, at, flights) = IF at \in Loading(op) THEN 1 ELSE 0
  BY DEF Counted
<1>5. /\ Count(op, at, requests) = IF at \in At(op, requests) THEN 1 ELSE 0
      /\ at \in At(op, requests) => at \notin Loading(op)
  BY DEF Requests
<1> QED
  BY <1>2, <1>3, <1>4, <1>5

LEMMA LeaveStep ==
    ASSUME FlightsOK, Counted, NEW requests, Requests(requests), Leave(requests),
           draftTag' \in Targets \cup {NoTarget}
    PROVE  FlightsOK' /\ Counted'
<1>1. flights' = flights (+) requests (+) DraftRequest
  BY DEF Leave
<1>2. IsABag(flights') /\ DOMAIN flights' \subseteq Flight
  <2>1. /\ IsABag(requests) /\ IsABag(DraftRequest)
        /\ DOMAIN requests \subseteq Flight /\ DOMAIN DraftRequest \subseteq Flight
    BY DraftMayLeave DEF Requests
  <2>2. IsABag(flights (+) requests) /\ DOMAIN (flights (+) requests) \subseteq Flight
    BY <2>1, SumFacts DEF FlightsOK
  <2> QED
    BY <1>1, <2>1, <2>2, SumFacts
<1>3. FlightsOK'
  BY <1>2, AtTypes DEF FlightsOK, Leave, Requests
<1>4. Counted'
  <2> SUFFICES ASSUME NEW op \in QueryOps, NEW at \in Askable(op)
               PROVE  Count(op, at, flights') = IF at \in Loading(op)' THEN 1 ELSE 0
    BY DEF Counted, Count, Copies, BagIn, BagToSet, Request, Askable
  <2>1. Loading(op)' = Loading(op) \cup At(op, requests)
    BY DEF Loading, Leave, QueryOps
  <2> QED
    BY <1>1, <2>1, QueriesLeave DEF FlightsOK
<1> QED
  BY <1>3, <1>4

LEMMA ArriveStep ==
    ASSUME FlightsOK, Counted, NEW requests, Requests(requests), At("ping", requests) = {},
           NEW r \in DOMAIN flights, Arrive(r, requests), draftTag' \in Targets \cup {NoTarget}
    PROVE  FlightsOK' /\ Counted'
<1> DEFINE rest == flights (-) One(r)
<1>1. flights' = rest (+) requests (+) DraftRequest
  BY DEF Arrive
<1>2. IsABag(rest) /\ DOMAIN rest \subseteq Flight /\ r \in Flight /\ IsABag(flights)
  BY LessFacts DEF FlightsOK
<1>3. \A op \in QueryOps : \A at \in Askable(op) :
         Count(op, at, rest) = Count(op, at, flights) - (IF IsFor(r, op, at) THEN 1 ELSE 0)
  BY <1>2, CountFacts
<1> HIDE DEF rest
<1>4. /\ IsABag(requests) /\ IsABag(DraftRequest)
      /\ DOMAIN requests \subseteq Flight /\ DOMAIN DraftRequest \subseteq Flight
  BY DraftMayLeave DEF Requests
<1>5. IsABag(rest (+) requests) /\ DOMAIN (rest (+) requests) \subseteq Flight
  BY <1>2, <1>4, SumFacts
<1>6. IsABag(flights') /\ DOMAIN flights' \subseteq Flight
  BY <1>1, <1>4, <1>5, SumFacts
<1>7. FlightsOK'
  BY <1>6, AtTypes DEF FlightsOK, Arrive, Requests
<1>8. Counted'
  <2> SUFFICES ASSUME NEW op \in QueryOps, NEW at \in Askable(op)
               PROVE  Count(op, at, flights') = IF at \in Loading(op)' THEN 1 ELSE 0
    BY DEF Counted, Count, Copies, BagIn, BagToSet, Request, Askable
  <2>1. Loading(op)' = (Loading(op) \ At(op, One(r))) \cup At(op, requests)
    BY DEF Loading, Arrive, QueryOps
  <2>2. Count(op, at, flights')
          = Count(op, at, rest) + Count(op, at, requests) + Count(op, at, DraftRequest)
    <3>1. Count(op, at, rest (+) requests) = Count(op, at, rest) + Count(op, at, requests)
      BY <1>2, <1>4, CountFacts
    <3>2. Count(op, at, flights') = Count(op, at, rest (+) requests) + Count(op, at, DraftRequest)
      BY <1>1, <1>4, <1>5, CountFacts
    <3> QED
      BY <3>1, <3>2
  <2>3. Count(op, at, DraftRequest) = 0
    <3>1. At(op, DraftRequest) = {}
      BY DraftMayLeave DEF NoQuery, At, BagToSet
    <3> QED
      BY <3>1, DraftMayLeave DEF Requests
  <2>4. /\ Count(op, at, flights) = IF at \in Loading(op) THEN 1 ELSE 0
        /\ Count(op, at, requests) = IF at \in At(op, requests) THEN 1 ELSE 0
        /\ at \in At(op, requests) => at \notin Loading(op)
    BY DEF Counted, Requests
  <2>5. at \in At(op, One(r)) <=> IsFor(r, op, at)
    BY <1>2, AtFacts, IsForFacts
  <2>6. IsFor(r, op, at) => Count(op, at, flights) > 0
    BY <1>2, CountFacts
  <2> QED
    BY <1>3, <2>1, <2>2, <2>3, <2>4, <2>5, <2>6
<1> QED
  BY <1>7, <1>8

\* The server answers what is not a query, or takes a text to be saved.
LEMMA ServeStep ==
    ASSUME FlightsOK, Counted, NEW base,
           \/ base = flights
           \/ \E r \in DOMAIN flights : r.op \notin QueryOps /\ base = flights (-) One(r),
           NEW answer, Requests(answer), NoQuery(answer), flights' = base (+) answer,
           UNCHANGED queries
    PROVE  FlightsOK' /\ Counted'
<1>1. IsABag(base) /\ DOMAIN base \subseteq Flight
  BY LessFacts DEF FlightsOK
<1>2. \A op \in QueryOps : \A at \in Askable(op) : Count(op, at, base) = Count(op, at, flights)
  <2> SUFFICES ASSUME NEW op \in QueryOps, NEW at \in Askable(op)
               PROVE  Count(op, at, base) = Count(op, at, flights)
    OBVIOUS
  <2>1. CASE base = flights
    BY <2>1
  <2>2. ASSUME NEW r \in DOMAIN flights, r.op \notin QueryOps, base = flights (-) One(r)
        PROVE  Count(op, at, base) = Count(op, at, flights)
    <3>1. ~IsFor(r, op, at)
      BY <2>2 DEF IsFor, Request
    <3>2. /\ Count(op, at, flights) \in Nat
          /\ Count(op, at, base) = Count(op, at, flights) - (IF IsFor(r, op, at) THEN 1 ELSE 0)
      BY <2>2, CountFacts DEF FlightsOK
    <3> QED
      BY <3>1, <3>2
  <2> QED
    BY <2>1, <2>2
<1>3. IsABag(flights') /\ DOMAIN flights' \subseteq Flight
  BY <1>1, SumFacts DEF Requests
<1>4. FlightsOK'
  BY <1>3 DEF FlightsOK, queries
<1>5. Counted'
  <2> SUFFICES ASSUME NEW op \in QueryOps, NEW at \in Askable(op)
               PROVE  Count(op, at, flights') = IF at \in Loading(op)' THEN 1 ELSE 0
    BY DEF Counted, Count, Copies, BagIn, BagToSet, Request, Askable
  <2>1. Loading(op)' = Loading(op)
    BY DEF Loading, queries
  <2>2. Count(op, at, flights') = Count(op, at, base) + Count(op, at, answer)
    BY <1>1, CountFacts DEF Requests
  <2>3. Count(op, at, answer) = 0
    <3>1. At(op, answer) = {}
      BY DEF NoQuery, At, BagToSet
    <3> QED
      BY <3>1 DEF Requests
  <2>4. Count(op, at, flights) = IF at \in Loading(op) THEN 1 ELSE 0
    BY DEF Counted
  <2> QED
    BY <1>2, <2>1, <2>2, <2>3, <2>4
<1> QED
  BY <1>4, <1>5

LEMMA SameFlights ==
    ASSUME FlightsOK, Counted, UNCHANGED <<flights, queries>>
    PROVE  FlightsOK' /\ Counted'
BY DEF FlightsOK, Counted, queries, Count, Copies, BagIn, BagToSet, Request, Askable, Loading

-----------------------------------------------------------------------------
(* The view and the composer after a step                                  *)

LEMMA CurrentType ==
    ASSUME NEW h \in Hubs \cup {NoHub}, NEW r \in Rooms \cup {NoRoom}
    PROVE  /\ Target(h, r) \in Targets \cup {NoTarget}
           /\ h # NoHub => Target(h, r) \in Targets
           /\ h = NoHub => Target(h, r) = NoTarget
BY DEF Target, Targets

LEMMA RenderStep ==
    ASSUME ViewOK, HubsOK', activeHub' \in Hubs \cup {NoHub}, NEW room, NEW emptied,
           Render(room, emptied)
    PROVE  ViewOK'
<1>1. Joined(activeHub)' \subseteq Rooms
  BY DEF Joined, HubsOK, Statuses, RoomsOf
<1>2. activeRoom' \in Rooms \cup {NoRoom}
  BY <1>1 DEF Render, SelectRoom
<1>3. /\ Current' \in Targets \cup {NoTarget}
      /\ activeHub' = NoHub => Current' = NoTarget
  BY <1>2, CurrentType DEF Current
<1>4. input' \in Texts /\ draftTag' = Current'
  BY DEF Render, ViewOK, Texts
<1> QED
  BY <1>2, <1>3, <1>4 DEF ViewOK

LEMMA NoRenderStep ==
    ASSUME ViewOK, activeHub' \in Hubs \/ UNCHANGED activeHub, NEW emptied, NoRender(emptied)
    PROVE  ViewOK'
BY PaneAssumption DEF ViewOK, NoRender, Texts

LEMMA EmptyStep ==
    ASSUME TimersOK, NEW emptied, EmptyDraft(emptied)
    PROVE  TimersOK'
BY DEF TimersOK, EmptyDraft, QueueDraft, Texts

LEMMA MarkStep ==
    ASSUME UnreadOK, NEW h, NEW r, MarkRead(h, r), UNCHANGED <<sent, heard>>
    PROVE  UnreadOK'
BY PaneAssumption DEF UnreadOK, MarkRead

LEMMA SameRest ==
    /\ HubsOK /\ UNCHANGED hubs => HubsOK'
    /\ TimersOK /\ UNCHANGED timers => TimersOK'
    /\ UnreadOK /\ UNCHANGED <<unread, sent, heard>> => UnreadOK'
    /\ TablesOK /\ UNCHANGED <<shown, stored, drafts>> => TablesOK'
    /\ ViewOK /\ UNCHANGED <<view, draftTag, input>> => ViewOK'
BY DEF HubsOK, Statuses, RoomsOf, TimersOK, UnreadOK, TablesOK, ViewOK, view

\* The hub in view of which something is enabled
LEMMA EnabledFacts ==
    ASSUME HubsOK, ViewOK, Enabled \/ RenderedHub \in DOMAIN hubs \/ RenderedRoom # NoRoom
    PROVE  activeHub \in Hubs /\ Current \in Targets /\ draftTag \in Targets
<1>1. draftTag # NoTarget
  BY PaneAssumption DEF Enabled, Connected, RenderedHub, RenderedRoom, HubsOK
<1>2. activeHub \in Hubs /\ draftTag \in Targets
  BY <1>1 DEF ViewOK
<1> QED
  BY <1>2, PaneAssumption, CurrentType DEF Current, ViewOK

-----------------------------------------------------------------------------
(* The steps                                                               *)

\* Handlers that change no more than the composer, the room in view and requests.
LEMMA QuietStep ==
    ASSUME Parts, UNCHANGED <<hubs, activeHub, shown, unread, server, heard>>,
           NEW room, NEW emptied, NoRender(emptied) \/ Render(room, emptied),
           NEW cleared, EmptyDraft(cleared) \/ UNCHANGED timers,
           NEW requests, Requests(requests),
           \/ Leave(requests)
           \/ At("ping", requests) = {} /\ \E r \in DOMAIN flights : Arrive(r, requests)
    PROVE  Parts'
<1>1. HubsOK' /\ UnreadOK' /\ TablesOK'
  BY SameRest DEF Parts, server
<1>2. ViewOK'
  BY <1>1, RenderStep, NoRenderStep DEF Parts, ViewOK
<1>3. TimersOK'
  BY EmptyStep, SameRest DEF Parts
<1>4. FlightsOK' /\ Counted'
  <2>1. draftTag' \in Targets \cup {NoTarget}
    BY <1>2 DEF ViewOK
  <2> QED
    BY <2>1, LeaveStep, ArriveStep DEF Parts
<1> QED
  BY <1>1, <1>2, <1>3, <1>4 DEF Parts

LEMMA ViewFacts ==
    ASSUME Parts
    PROVE  /\ activeHub \in Hubs \cup {NoHub} /\ activeRoom \in Rooms \cup {NoRoom}
           /\ draftTag \in Targets \cup {NoTarget}
           /\ \A r : r \in Joined(activeHub) => activeHub \in Hubs /\ r \in Rooms
BY PaneAssumption DEF Parts, ViewOK, HubsOK, Joined, Statuses, RoomsOf

LEMMA HubChangedStep ==
    ASSUME Parts, NEW h \in Hubs, NEW status \in Statuses(h), HubChanged(h, status)
    PROVE  Parts'
<1>1. HubsOK'
  BY DEF Parts, HubsOK, HubChanged, Statuses, RoomsOf
<1>2. activeHub' \in Hubs \/ UNCHANGED activeHub
  BY DEF HubChanged
<1>3. activeHub' \in Hubs \cup {NoHub}
  BY <1>2, ViewFacts
<1>4. ViewOK'
  BY <1>1, <1>2, <1>3, RenderStep, NoRenderStep DEF Parts, HubChanged
<1>5. TimersOK' /\ UnreadOK' /\ TablesOK'
  BY SameRest DEF Parts, HubChanged, server
<1>6. FlightsOK' /\ Counted'
  <2>1. h \in Hubs \cup {NoHub} /\ activeRoom' \in Rooms \cup {NoRoom} /\ FALSE \in BOOLEAN
    BY <1>4 DEF ViewOK
  <2>2. Requests(UsersRequest(h, activeRoom', FALSE)) /\ Requests(EmptyBag)
    BY <2>1, LoadsMayLeave, NoneMayLeave
  <2>3. PICK requests \in {UsersRequest(h, activeRoom', FALSE), EmptyBag} : Leave(requests)
    BY DEF HubChanged
  <2> QED
    BY <1>4, <2>2, <2>3, LeaveStep DEF Parts, ViewOK
<1> QED
  BY <1>1, <1>4, <1>5, <1>6 DEF Parts

LEMMA MessageStep ==
    ASSUME Parts, NEW p \in Places, NEW n \in 1..MaxStored, NEW asks \in BOOLEAN,
           MessageEvent(p, n, asks)
    PROVE  Parts'
<1>1. HubsOK' /\ TimersOK'
  BY SameRest DEF Parts, MessageEvent
<1>2. TablesOK'
  BY DEF Parts, TablesOK, MessageEvent, server, Messages
<1>3. UnreadOK'
  <2>1. /\ unread \in [Places -> 0..MaxStored] /\ heard \in [Places -> 0..MaxStored]
        /\ sent' \in [Places -> 0..MaxStored] /\ MaxStored \in Nat
        /\ \A q \in Places : unread[q] <= heard[q]
    BY PaneAssumption DEF Parts, UnreadOK, MessageEvent, server
  <2>2. /\ heard' = [heard EXCEPT ![p] = n] /\ n > heard[p]
        /\ unread' = unread \/ unread' = [unread EXCEPT ![p] = @ + 1]
    BY <2>1 DEF MessageEvent
  <2>3. unread[p] + 1 <= n
    BY <2>1, <2>2
  <2>4. heard' \in [Places -> 0..MaxStored] /\ unread' \in [Places -> 0..MaxStored]
    BY <2>1, <2>2, <2>3
  <2>5. \A q \in Places : unread'[q] <= heard'[q]
    BY <2>1, <2>2, <2>3
  <2> QED
    BY <2>1, <2>4, <2>5 DEF UnreadOK
<1>4. ViewOK'
  BY <1>1, RenderStep DEF Parts, MessageEvent, ViewOK
<1>5. FlightsOK' /\ Counted'
  <2>1. p[1] \in Hubs \cup {NoHub} /\ p[2] \in Rooms \cup {NoRoom} /\ FALSE \in BOOLEAN
    BY PaneAssumption
  <2>2. Requests(UsersRequest(p[1], p[2], FALSE)) /\ Requests(EmptyBag)
    BY <2>1, LoadsMayLeave, NoneMayLeave
  <2>3. PICK requests \in {UsersRequest(p[1], p[2], FALSE), EmptyBag} : Leave(requests)
    BY DEF MessageEvent
  <2> QED
    BY <1>4, <2>2, <2>3, LeaveStep DEF Parts, ViewOK
<1> QED
  BY <1>1, <1>2, <1>3, <1>4, <1>5 DEF Parts

\* A hub or a room comes into view.
LEMMA SelectStep ==
    ASSUME Parts, UNCHANGED <<hubs, shown, timers, server, heard>>,
           NEW room, Render(room, FALSE), activeHub' \in Hubs \cup {NoHub},
           NEW h, NEW r, MarkRead(h, r), NEW requests, Requests(requests), Leave(requests)
    PROVE  Parts'
<1>1. HubsOK' /\ TimersOK' /\ TablesOK'
  BY SameRest DEF Parts, server
<1>2. ViewOK'
  BY <1>1, RenderStep DEF Parts
<1>3. UnreadOK'
  BY MarkStep DEF Parts, server
<1>4. FlightsOK' /\ Counted'
  BY <1>2, LeaveStep DEF Parts, ViewOK
<1> QED
  BY <1>1, <1>2, <1>3, <1>4 DEF Parts

LEMMA ClickHubStep == ASSUME Parts, NEW h \in Hubs, ClickHub(h) PROVE Parts'
<1>1. /\ activeHub' = h /\ MarkRead(h, activeRoom')
      /\ UNCHANGED <<hubs, shown, timers, server, heard>>
      /\ Leave(HistoryRequest(h, activeRoom', FALSE) (+) RoomsRequest(h, FALSE))
  BY DEF ClickHub
<1>2. PICK room : Render(room, FALSE)
  BY DEF ClickHub
<1>3. activeRoom' \in Rooms \cup {NoRoom}
  BY <1>1, <1>2, RenderStep, SameRest DEF Parts, ViewOK
<1>4. Requests(HistoryRequest(h, activeRoom', FALSE) (+) RoomsRequest(h, FALSE))
  BY <1>3, LoadsMayLeave, BothMayLeave
<1> QED
  BY <1>1, <1>2, <1>4, SelectStep

LEMMA ClickRoomStep ==
    ASSUME Parts, NEW r \in Rooms, ClickRoom(r) \/ ListUsersOf(r)
    PROVE  Parts'
<1>1. /\ UNCHANGED <<hubs, activeHub, shown, timers, server, heard>>
      /\ MarkRead(activeHub, r) /\ Render(r, FALSE)
      /\ \E typed \in BOOLEAN : Leave(HistoryRequest(activeHub, r, typed))
  BY DEF ClickRoom, ListUsersOf
<1>2. \A typed \in BOOLEAN : Requests(HistoryRequest(activeHub, r, typed))
  BY ViewFacts, LoadsMayLeave
<1> QED
  BY <1>1, <1>2, ViewFacts, SelectStep

LEMMA ListStep ==
    ASSUME Parts, NEW typed \in BOOLEAN, ListRooms(typed) \/ ListUsers(typed)
    PROVE  Parts'
<1>1. CASE ListRooms(typed)
  <2>1. Requests(RoomsRequest(activeHub, typed))
    BY ViewFacts, LoadsMayLeave
  <2> QED
    BY <1>1, <2>1, QuietStep DEF ListRooms
<1>2. CASE ListUsers(typed)
  <2>1. Requests(UsersRequest(activeHub, activeRoom, typed))
    BY ViewFacts, LoadsMayLeave
  <2> QED
    BY <1>2, <2>1, QuietStep DEF ListUsers
<1> QED
  BY <1>1, <1>2

\* A command that is no query may leave.
LEMMA CommandMayLeave ==
    ASSUME NEW op, NEW at, NEW typed \in BOOLEAN,
           \/ op \in {"nick", "connect", "disconnect"} /\ at \in Hubs
           \/ op \in {"join", "part"} /\ at \in Hubs \X Rooms
           \/ op \in {"send", "clear"} /\ at \in Targets
    PROVE  Requests(One(Request(op, at, typed)))
<1>1. Request(op, at, typed).op = op /\ op \notin QueryOps
  BY DEF Request, QueryOps
<1>2. Request(op, at, typed) \in Flight
  BY DEF Request, Flight
<1> QED
  BY <1>1, <1>2, OneMayLeave

LEMMA UsedFacts ==
    ASSUME Parts, NEW typed \in BOOLEAN, Used(typed), typed \/ Enabled
    PROVE  activeHub \in Hubs /\ Current \in Targets /\ draftTag \in Targets
BY EnabledFacts DEF Used, Parts

LEMMA PingStep == ASSUME Parts, Ping PROVE Parts'
<1>1. activeHub \in Hubs
  BY UsedFacts DEF Ping
<1>2. activeHub \notin pingingHubs => Requests(One(Request("ping", activeHub, TRUE)))
  <2>1. /\ Request("ping", activeHub, TRUE) \in Flight
        /\ Request("ping", activeHub, TRUE).op = "ping"
        /\ Request("ping", activeHub, TRUE).at = activeHub
    BY <1>1 DEF Request, Flight
  <2> QED
    BY <2>1, OneMayLeave DEF Loading
<1>3. PICK requests : Requests(requests) /\ Leave(requests)
  BY <1>2, NoneMayLeave DEF Ping
<1>4. \E again : NoRender(again) /\ EmptyDraft(again)
  BY DEF Ping
<1> QED
  BY <1>3, <1>4, QuietStep DEF Ping

LEMMA SubmitStep == ASSUME Parts, NEW op \in {"send", "nick", "clear"}, Submit(op) PROVE Parts'
<1>1. activeHub \in Hubs /\ Current \in Targets
  BY UsedFacts DEF Submit
<1> DEFINE at == IF op = "nick" THEN activeHub ELSE Current
<1>2. Requests(One(Request(op, at, TRUE)))
  BY <1>1, CommandMayLeave
<1>3. Leave(One(Request(op, at, TRUE)))
  BY DEF Submit
<1> HIDE DEF at
<1>4. /\ UNCHANGED <<hubs, activeHub, shown, unread, timers, server, heard>>
      /\ NoRender(FALSE) \/ Render(activeRoom, FALSE)
  BY DEF Submit
<1> QED
  BY <1>2, <1>3, <1>4, QuietStep

LEMMA LocalStep == ASSUME Parts, LocalCommand PROVE Parts'
BY NoneMayLeave, QuietStep DEF LocalCommand

LEMMA HubCommandStep ==
    ASSUME Parts, NEW typed \in BOOLEAN,
           \/ \E r \in RoomsOf(activeHub) : Join(r, typed)
           \/ \E h \in Hubs : Connect(h, typed)
           \/ Disconnect(typed)
    PROVE  Parts'
<1>1. CASE \E r \in RoomsOf(activeHub) : Join(r, typed)
  <2>1. PICK r \in RoomsOf(activeHub) : Join(r, typed)
    BY <1>1
  <2>2. activeHub \in Hubs /\ r \in Rooms
    BY <2>1, UsedFacts DEF Join, RoomsOf
  <2>3. Requests(One(Request("join", <<activeHub, r>>, FALSE)))
    BY <2>2, CommandMayLeave
  <2> QED
    BY <2>1, <2>3, QuietStep DEF Join
<1>2. CASE \E h \in Hubs : Connect(h, typed)
  <2>1. PICK h \in Hubs : Connect(h, typed)
    BY <1>2
  <2>2. Requests(One(Request("connect", h, FALSE)))
    BY CommandMayLeave
  <2> QED
    BY <2>1, <2>2, QuietStep DEF Connect
<1>3. CASE Disconnect(typed)
  <2>1. activeHub \in Hubs
    BY <1>3, EnabledFacts DEF Disconnect, Parts
  <2>2. Requests(One(Request("disconnect", activeHub, FALSE)))
    BY <2>1, CommandMayLeave
  <2> QED
    BY <1>3, <2>2, QuietStep DEF Disconnect
<1> QED
  BY <1>1, <1>2, <1>3

LEMMA PartStep ==
    ASSUME Parts, Part \/ \E r \in Rooms : PartRoom(r)
    PROVE  Parts'
<1>1. CASE Part
  <2>1. activeHub \in Hubs /\ activeRoom \in Rooms /\ Current = <<activeHub, activeRoom>>
    BY <1>1, UsedFacts, ViewFacts, PaneAssumption DEF Part, Current, Target
  <2>2. Requests(One(Request("part", Current, FALSE)))
    BY <2>1, CommandMayLeave
  <2>3. NoRender(FALSE) /\ Leave(One(Request("part", Current, FALSE)))
        /\ UNCHANGED <<hubs, activeHub, shown, unread, timers, server, heard>>
    BY <1>1 DEF Part, NoRender, view, composer
  <2> QED
    BY <2>2, <2>3, QuietStep
<1>2. CASE \E r \in Rooms : PartRoom(r)
  <2>1. PICK r \in Rooms : PartRoom(r)
    BY <1>2
  <2>2. activeHub \in Hubs
    BY <2>1, ViewFacts DEF PartRoom
  <2>3. Requests(One(Request("part", <<activeHub, r>>, FALSE))) /\ Requests(EmptyBag)
    BY <2>2, CommandMayLeave, NoneMayLeave
  <2>4. PICK requests \in {One(Request("part", <<activeHub, r>>, FALSE)), EmptyBag} :
            Leave(requests)
    BY <2>1 DEF PartRoom
  <2> QED
    BY <2>1, <2>3, <2>4, QuietStep DEF PartRoom
<1> QED
  BY <1>1, <1>2

\* Keys, tools and timers
LEMMA TypingStep ==
    ASSUME Parts, (\E text : Type(text)) \/ StageCommand
    PROVE  Parts'
<1>1. FlightsOK' /\ Counted'
  BY SameFlights DEF Parts, Type, StageCommand
<1>2. HubsOK' /\ UnreadOK' /\ TablesOK'
  BY SameRest DEF Parts, Type, StageCommand, server
<1>3. CASE \E text : Type(text)
  <2>1. PICK text : Type(text)
    BY <1>3
  <2>2. Current \in Targets
    BY <2>1, EnabledFacts DEF Type, Parts
  <2>3. text \in Texts
    BY <2>1, <2>2 DEF Type, Parts, ViewOK, Texts
  <2>4. ViewOK'
    BY <2>1, <2>3 DEF Type, Parts, ViewOK, view
  <2>5. TimersOK'
    BY <2>1, <2>3 DEF Type, Parts, TimersOK, QueueDraft
  <2> QED
    BY <1>1, <1>2, <2>4, <2>5 DEF Parts
<1>4. CASE StageCommand
  <2>1. draftTag \in Targets
    BY <1>4, EnabledFacts DEF StageCommand, Parts
  <2>2. ViewOK' /\ TimersOK'
    BY <1>4, <2>1 DEF StageCommand, Parts, ViewOK, TimersOK, Texts, view
  <2> QED
    BY <1>1, <1>2, <2>2 DEF Parts
<1> QED
  BY <1>3, <1>4

LEMMA TimerStep == ASSUME Parts, NEW t \in Targets, TimerFires(t) PROVE Parts'
<1> DEFINE put == [op |-> "put", at |-> t, text |-> timers[t]]
<1>1. timers[t] \in Texts
  BY DEF Parts, TimersOK, TimerFires
<1>2. put \in Flight /\ put.op = "put"
  BY <1>1 DEF Flight
<1>3. flights' = flights (+) One(put)
  BY DEF TimerFires
<1> HIDE DEF put
<1>4. FlightsOK' /\ Counted'
  <2>1. Requests(One(put)) /\ NoQuery(One(put)) /\ UNCHANGED queries
    BY <1>2, OneMayLeave DEF QueryOps, TimerFires
  <2> QED
    BY <1>3, <2>1, ServeStep DEF Parts
<1>5. HubsOK' /\ UnreadOK' /\ TablesOK' /\ ViewOK'
  BY SameRest DEF Parts, TimerFires, server
<1>6. TimersOK'
  BY DEF Parts, TimersOK, TimerFires
<1> QED
  BY <1>4, <1>5, <1>6 DEF Parts

-----------------------------------------------------------------------------
(* The steps of the server                                                 *)

LEMMA StoreStep == ASSUME Parts, NEW p \in Places, StoreMessage(p) PROVE Parts'
<1>1. FlightsOK' /\ Counted'
  BY SameFlights DEF Parts, StoreMessage
<1>2. HubsOK' /\ TimersOK' /\ ViewOK'
  BY SameRest DEF Parts, StoreMessage, composer
<1>3. sent[p] + 1 \in 1..MaxStored
  BY PaneAssumption DEF Parts, UnreadOK, StoreMessage
<1>4. sent' = [sent EXCEPT ![p] = sent[p] + 1] /\ sent' \in [Places -> 0..MaxStored]
      /\ sent'[p] \in 1..MaxStored
  BY <1>3 DEF Parts, UnreadOK, StoreMessage
<1>5. UnreadOK'
  BY <1>4 DEF Parts, UnreadOK, StoreMessage
<1>6. TablesOK'
  BY <1>4 DEF Parts, TablesOK, StoreMessage, Messages
<1> QED
  BY <1>1, <1>2, <1>5, <1>6 DEF Parts

LEMMA ServerStep ==
    ASSUME Parts, NEW r \in DOMAIN flights,
           \/ ReadHistory(r) \/ ReadDraft(r) \/ DeleteHistory(r)
           \/ \E ok \in BOOLEAN : SaveDraft(r, ok)
    PROVE  Parts'
<1>1. r \in Flight /\ r.op \in {"history", "draft", "clear", "put"} /\ r.at \in Targets
  BY FlightFacts DEF Parts, FlightsOK, ReadHistory, ReadDraft, DeleteHistory, SaveDraft
<1>2. \E answer : Requests(answer) /\ NoQuery(answer) /\ Serve(r, answer)
  <2>1. ASSUME ReadHistory(r)
        PROVE  \E answer : Requests(answer) /\ NoQuery(answer) /\ Serve(r, answer)
    <3> DEFINE found == {m \in stored : m[1][1] = r.at[1] /\ r.at[2] \in {m[1][2], NoRoom}}
               x == [op |-> "messages", at |-> r.at, typed |-> r.typed, found |-> found]
    <3>1. found \subseteq Messages /\ r.typed \in BOOLEAN
      BY <1>1, <2>1, FlightFacts DEF Parts, TablesOK, ReadHistory
    <3>2. Serve(r, One(x))
      BY <2>1 DEF ReadHistory
    <3> HIDE DEF found
    <3>3. x \in Flight /\ x.op = "messages"
      BY <1>1, <3>1 DEF Flight
    <3> HIDE DEF x
    <3> QED
      BY <3>2, <3>3, OneMayLeave DEF QueryOps
  <2>2. ASSUME ReadDraft(r)
        PROVE  \E answer : Requests(answer) /\ NoQuery(answer) /\ Serve(r, answer)
    <3> DEFINE x == [op |-> "text", at |-> r.at, text |-> drafts[r.at]]
    <3>1. x \in Flight /\ x.op = "text"
      BY <1>1 DEF Parts, TablesOK, Flight
    <3>2. Serve(r, One(x))
      BY <2>2 DEF ReadDraft
    <3> HIDE DEF x
    <3> QED
      BY <3>1, <3>2, OneMayLeave DEF QueryOps
  <2>3. ASSUME DeleteHistory(r)
        PROVE  \E answer : Requests(answer) /\ NoQuery(answer) /\ Serve(r, answer)
    <3> DEFINE x == [op |-> "cleared", at |-> r.at]
    <3>1. x \in Flight /\ x.op = "cleared"
      BY <1>1 DEF Flight
    <3>2. Serve(r, One(x))
      BY <2>3 DEF DeleteHistory
    <3> HIDE DEF x
    <3> QED
      BY <3>1, <3>2, OneMayLeave DEF QueryOps
  <2>4. ASSUME NEW ok \in BOOLEAN, SaveDraft(r, ok)
        PROVE  \E answer : Requests(answer) /\ NoQuery(answer) /\ Serve(r, answer)
    BY <2>4, NoneMayLeave DEF SaveDraft
  <2> QED
    BY <2>1, <2>2, <2>3, <2>4
<1>3. PICK answer : Requests(answer) /\ NoQuery(answer) /\ Serve(r, answer)
  BY <1>2
<1>4. FlightsOK' /\ Counted'
  <2>1. /\ flights' = (flights (-) One(r)) (+) answer /\ UNCHANGED queries
        /\ r.op \notin QueryOps
    BY <1>1, <1>3 DEF Serve, QueryOps
  <2> QED
    BY <1>3, <2>1, ServeStep DEF Parts
<1>5. HubsOK' /\ TimersOK' /\ ViewOK' /\ UnreadOK'
  BY <1>3, SameRest DEF Parts, Serve, composer
<1>6. TablesOK'
  <2>1. shown' = shown
    BY <1>3 DEF Serve
  <2>2. stored' \subseteq stored
    BY DEF ReadHistory, ReadDraft, DeleteHistory, SaveDraft
  <2>3. drafts' \in [Targets -> Texts]
    BY <1>1, FlightFacts DEF Parts, TablesOK, ReadHistory, ReadDraft, DeleteHistory, SaveDraft
  <2> QED
    BY <2>1, <2>2, <2>3 DEF Parts, TablesOK
<1> QED
  BY <1>4, <1>5, <1>6 DEF Parts

-----------------------------------------------------------------------------
(* The steps that take an answer                                           *)

LEMMA FlightAt == ASSUME Parts, NEW r \in DOMAIN flights PROVE r \in Flight
BY DEF Parts, FlightsOK

\* The answer ends the request and is followed by none that pings.
LEMMA ArriveAlone ==
    ASSUME Parts, NEW r \in DOMAIN flights, ViewOK', Arrive(r, EmptyBag)
    PROVE  FlightsOK' /\ Counted'
BY NoneMayLeave, AtFacts, ArriveStep DEF Parts, ViewOK

LEMMA HistoryStep == ASSUME Parts, NEW r \in DOMAIN flights, HistoryReply(r) PROVE Parts'
<1> DEFINE room == IF r.op = "messages" THEN activeRoom' ELSE activeRoom
           request == IF r.typed THEN UsersRequest(activeHub, room, TRUE) ELSE EmptyBag
           emptied == r.typed /\ request = EmptyBag
<1>1. /\ r.op \in {"messages", "history"}
      /\ EmptyDraft(emptied) /\ Arrive(r, request)
      /\ UNCHANGED <<hubs, activeHub, unread, server, heard>>
      /\ NoRender(emptied) \/ Render(activeRoom, emptied)
  BY DEF HistoryReply
<1>2. /\ r.op = "messages" => shown' = Kept \cup r.found
      /\ r.op = "history" => shown' = shown
  BY DEF HistoryReply
<1> HIDE DEF emptied
<1>3. HubsOK' /\ UnreadOK'
  BY <1>1, SameRest DEF Parts, server
<1>4. ViewOK'
  BY <1>1, <1>3, RenderStep, NoRenderStep DEF Parts, ViewOK
<1>5. TimersOK'
  BY <1>1, EmptyStep DEF Parts
<1>6. TablesOK'
  <2>1. shown' \subseteq Messages
    BY <1>1, <1>2, FlightAt, FlightFacts DEF Parts, TablesOK, Kept
  <2> QED
    BY <1>1, <2>1 DEF Parts, TablesOK, server
<1>7. Requests(request) /\ At("ping", request) = {}
  <2>1. room \in Rooms \cup {NoRoom} /\ activeHub \in Hubs \cup {NoHub}
    BY <1>4, ViewFacts DEF ViewOK
  <2> HIDE DEF room
  <2>2. /\ Requests(UsersRequest(activeHub, room, TRUE))
        /\ At("ping", UsersRequest(activeHub, room, TRUE)) = {}
    BY <2>1, LoadsMayLeave
  <2> QED
    BY <2>2, NoneMayLeave, AtFacts
<1> HIDE DEF request
<1>8. FlightsOK' /\ Counted'
  BY <1>1, <1>4, <1>7, ArriveStep DEF Parts, ViewOK
<1> QED
  BY <1>3, <1>4, <1>5, <1>6, <1>8 DEF Parts

LEMMA QuietReplyStep ==
    ASSUME Parts, NEW r \in DOMAIN flights, QueryReply(r) \/ SendReply(r) \/ RequestFails(r)
    PROVE  Parts'
<1>1. Requests(EmptyBag) /\ At("ping", EmptyBag) = {}
  BY NoneMayLeave, AtFacts
<1>2. /\ UNCHANGED <<hubs, activeHub, shown, unread, server, heard>>
      /\ Arrive(r, EmptyBag)
      /\ \E emptied : (NoRender(emptied) \/ Render(activeRoom, emptied)) /\ EmptyDraft(emptied)
  BY DEF QueryReply, SendReply, RequestFails
<1> QED
  BY <1>1, <1>2, QuietStep

LEMMA NickStep ==
    ASSUME Parts, NEW r \in DOMAIN flights, r.op = "nick", NEW status \in Statuses(r.at),
           NickReply(r, status)
    PROVE  Parts'
<1>1. HubsOK'
  BY FlightAt, FlightFacts DEF Parts, HubsOK, NickReply, Statuses, RoomsOf
<1>2. ViewOK'
  BY <1>1, RenderStep DEF Parts, ViewOK, NickReply
<1>3. TimersOK' /\ UnreadOK' /\ TablesOK'
  BY EmptyStep, SameRest DEF Parts, NickReply, server
<1>4. FlightsOK' /\ Counted'
  <2>1. /\ Requests(UsersRequest(activeHub, activeRoom', FALSE))
        /\ At("ping", UsersRequest(activeHub, activeRoom', FALSE)) = {}
    BY <1>2, ViewFacts, LoadsMayLeave DEF ViewOK
  <2> QED
    BY <1>2, <2>1, ArriveStep DEF Parts, ViewOK, NickReply
<1> QED
  BY <1>1, <1>2, <1>3, <1>4 DEF Parts

LEMMA ClearStep == ASSUME Parts, NEW r \in DOMAIN flights, ClearReply(r) PROVE Parts'
<1>1. HubsOK' /\ UnreadOK' /\ TimersOK'
  BY EmptyStep, SameRest DEF Parts, ClearReply, server
<1>2. ViewOK'
  BY <1>1, RenderStep DEF Parts, ViewOK, ClearReply
<1>3. TablesOK'
  BY DEF Parts, TablesOK, ClearReply, server
<1>4. FlightsOK' /\ Counted'
  BY <1>2, ArriveAlone DEF ClearReply
<1> QED
  BY <1>1, <1>2, <1>3, <1>4 DEF Parts

LEMMA JoinStep == ASSUME Parts, NEW r \in DOMAIN flights, JoinReply(r) PROVE Parts'
<1>1. r.at[2] \in Rooms
  BY FlightAt, FlightFacts DEF JoinReply
<1>2. HubsOK' /\ TimersOK' /\ TablesOK'
  BY SameRest DEF Parts, JoinReply, composer, server
<1>3. UnreadOK'
  BY MarkStep DEF Parts, JoinReply, server
<1>4. ViewOK'
  BY <1>1 DEF Parts, ViewOK, JoinReply, composer
<1>5. FlightsOK' /\ Counted'
  <2>1. /\ Requests(HistoryRequest(activeHub, r.at[2], FALSE))
        /\ At("ping", HistoryRequest(activeHub, r.at[2], FALSE)) = {}
    BY <1>1, ViewFacts, LoadsMayLeave
  <2> QED
    BY <1>4, <2>1, ArriveStep DEF Parts, ViewOK, JoinReply
<1> QED
  BY <1>2, <1>3, <1>4, <1>5 DEF Parts

LEMMA PartConnectStep ==
    ASSUME Parts, NEW r \in DOMAIN flights, PartReply(r) \/ ConnectReply(r)
    PROVE  Parts'
<1>1. HubsOK' /\ TimersOK' /\ TablesOK'
  BY SameRest DEF Parts, PartReply, ConnectReply, composer, server
<1>2. UnreadOK'
  BY MarkStep, SameRest DEF Parts, PartReply, ConnectReply, server
<1>3. ViewOK'
  <2>1. CASE PartReply(r)
    BY <2>1, SameRest DEF Parts, PartReply, composer
  <2>2. CASE ConnectReply(r)
    <3>1. r.at \in Hubs
      BY <2>2, FlightAt, FlightFacts DEF ConnectReply
    <3> QED
      BY <2>2, <3>1, PaneAssumption DEF Parts, ViewOK, ConnectReply, composer
  <2> QED
    BY <2>1, <2>2
<1>4. FlightsOK' /\ Counted'
  BY <1>3, ArriveAlone DEF PartReply, ConnectReply
<1> QED
  BY <1>1, <1>2, <1>3, <1>4 DEF Parts

LEMMA DisconnectStep == ASSUME Parts, NEW r \in DOMAIN flights, DisconnectReply(r) PROVE Parts'
<1>1. HubsOK'
  BY DEF Parts, HubsOK, DisconnectReply, Statuses, RoomsOf
<1>2. TimersOK' /\ TablesOK'
  BY SameRest DEF Parts, DisconnectReply, server
<1>3. UnreadOK'
  BY PaneAssumption DEF Parts, UnreadOK, DisconnectReply, ForgetUnread, server
<1>4. ViewOK'
  <2>1. activeHub' \in Hubs \cup {NoHub}
    BY DEF Parts, HubsOK, ViewOK, DisconnectReply, NextHub
  <2> QED
    BY <1>1, <2>1, RenderStep DEF Parts, DisconnectReply
<1>5. FlightsOK' /\ Counted'
  BY <1>4, ArriveAlone DEF DisconnectReply
<1> QED
  BY <1>1, <1>2, <1>3, <1>4, <1>5 DEF Parts

LEMMA DraftStep == ASSUME Parts, NEW r \in DOMAIN flights, DraftReply(r) PROVE Parts'
<1>1. HubsOK' /\ TimersOK' /\ TablesOK' /\ UnreadOK'
  BY SameRest DEF Parts, DraftReply, server
<1>2. ViewOK'
  BY FlightAt, FlightFacts DEF Parts, ViewOK, DraftReply, view
<1>3. FlightsOK' /\ Counted'
  BY <1>2, ArriveAlone DEF DraftReply
<1> QED
  BY <1>1, <1>2, <1>3 DEF Parts

-----------------------------------------------------------------------------
(* The invariant                                                           *)

LEMMA UserStep == ASSUME Parts, User PROVE Parts'
<1>1. CASE \E h \in Hubs : \E status \in Statuses(h) : HubChanged(h, status)
  BY <1>1, HubChangedStep
<1>2. CASE \E h \in Hubs : ClickHub(h)
  BY <1>2, ClickHubStep
<1>3. CASE \E r \in Rooms : ClickRoom(r) \/ ListUsersOf(r)
  BY <1>3, ClickRoomStep
<1>4. CASE Part \/ \E r \in Rooms : PartRoom(r)
  BY <1>4, PartStep
<1>5. CASE \E typed \in BOOLEAN : ListRooms(typed) \/ ListUsers(typed)
  BY <1>5, ListStep
<1>6. CASE \E typed \in BOOLEAN :
              \/ \E r \in RoomsOf(activeHub) : Join(r, typed)
              \/ \E h \in Hubs : Connect(h, typed)
              \/ Disconnect(typed)
  BY <1>6, HubCommandStep
<1>7. CASE Ping \/ LocalCommand \/ \E op \in {"send", "nick", "clear"} : Submit(op)
  BY <1>7, PingStep, LocalStep, SubmitStep
<1>8. CASE (\E text \in {input \cup {Current}, {}} : Type(text)) \/ StageCommand
  BY <1>8, TypingStep
<1> QED
  BY <1>1, <1>2, <1>3, <1>4, <1>5, <1>6, <1>7, <1>8 DEF User

LEMMA PageStep == ASSUME Parts, Page PROVE Parts'
<1>1. CASE \E p \in Places, n \in 1..MaxStored, asks \in BOOLEAN : MessageEvent(p, n, asks)
  BY <1>1, MessageStep
<1>2. CASE \E t \in Targets : TimerFires(t)
  BY <1>2, TimerStep
<1>3. ASSUME NEW r \in DOMAIN flights,
             \/ HistoryReply(r) \/ QueryReply(r) \/ ClearReply(r) \/ SendReply(r)
             \/ r.op = "nick" /\ \E status \in Statuses(r.at) : NickReply(r, status)
             \/ JoinReply(r) \/ PartReply(r) \/ ConnectReply(r) \/ DisconnectReply(r)
             \/ DraftReply(r) \/ RequestFails(r)
      PROVE  Parts'
  BY <1>3, HistoryStep, QuietReplyStep, ClearStep, NickStep, JoinStep, PartConnectStep,
     DisconnectStep, DraftStep
<1> QED
  BY <1>1, <1>2, <1>3 DEF Page, BagToSet

LEMMA NextPane == PaneInv /\ [Next]_vars => PaneInv'
<1> SUFFICES ASSUME PaneInv, [Next]_vars PROVE PaneInv'
  OBVIOUS
<1>1. Parts /\ acts \in 0..MaxActs
  BY DEF PaneInv
<1>2. CASE UNCHANGED vars
  <2>1. Parts'
    BY <1>1, <1>2, SameRest, SameFlights DEF Parts, vars, composer, server
  <2> QED
    BY <1>1, <1>2, <2>1 DEF PaneInv, vars
<1>3. CASE acts < MaxActs /\ acts' = acts + 1 /\ User
  <2>1. acts' \in 0..MaxActs
    BY <1>1, <1>3, PaneAssumption
  <2> QED
    BY <1>1, <1>3, <2>1, UserStep DEF PaneInv
<1>4. CASE (Page \/ Server) /\ UNCHANGED acts
  <2>1. Page => Parts'
    BY <1>1, PageStep
  <2>2. Server => Parts'
    BY <1>1, StoreStep, ServerStep DEF Server, BagToSet
  <2> QED
    BY <1>1, <1>4, <2>1, <2>2 DEF PaneInv
<1> QED
  BY <1>2, <1>3, <1>4 DEF Next

LEMMA PaneAlways == Spec => []PaneInv
BY InitPane, NextPane, PTL DEF Spec

\* Every variable of the page has its type; users are only asked of a room.
THEOREM PaneTypeCorrect == Spec => []TypeOK
<1>1. PaneInv => TypeOK
  BY PaneInvImplies
<1> QED
  BY <1>1, PaneAlways, PTL

\* A query is shown as loading exactly while one answer to it is awaited
\* (loadRrcRooms, loadRrcUsers, /ping).
THEOREM QueriesStayCoalesced == Spec => []QueriesAreCoalesced
<1>1. PaneInv => QueriesAreCoalesced
  BY PaneInvImplies
<1> QED
  BY <1>1, PaneAlways, PTL

-----------------------------------------------------------------------------
(* What a step may do to unread counts                                     *)

Excused(p) ==
    \/ p = Current' /\ (p = Current \/ acts' # acts)
    \/ p = Current' /\ \E r \in Answered : r.op = "join" /\ r.at[2] = p[2]
    \/ p[1] \notin DOMAIN hubs'
    \/ p[1] = activeHub /\ activeHub # RenderedHub /\ acts' # acts

ReadSeen == \A p \in Places : unread'[p] < unread[p] => Excused(p)

\* A request whose answer sends no such request again is answered.
LEMMA ArrivedIsAnswered ==
    ASSUME Parts, NEW r \in DOMAIN flights, r.op # "draft",
           NEW requests, IsABag(requests), Copies(r, requests) = 0, Arrive(r, requests)
    PROVE  r \in Answered
<1> DEFINE rest == flights (-) One(r)
<1>1. flights' = rest (+) requests (+) DraftRequest
  BY DEF Arrive
<1>2. IsABag(flights) /\ IsABag(rest) /\ Copies(r, rest) = Copies(r, flights) - 1
  BY LessFacts DEF Parts, FlightsOK
<1>3. IsABag(DraftRequest) /\ Copies(r, DraftRequest) = 0
  <2>1. Request("draft", draftTag', FALSE) # r
    BY DEF Request
  <2> QED
    BY <2>1, OneFacts, EmptyFacts DEF DraftRequest
<1> HIDE DEF rest
<1>4. IsABag(rest (+) requests) /\ Copies(r, rest (+) requests) = Copies(r, rest) + 0
  BY <1>2, SumFacts
<1>5. Copies(r, flights') = Copies(r, rest (+) requests) + 0
  <2> DEFINE most == rest (+) requests
  <2>1. flights' = most (+) DraftRequest /\ IsABag(most)
    BY <1>1, <1>4
  <2> HIDE DEF most
  <2>2. Copies(r, most (+) DraftRequest) = Copies(r, most) + Copies(r, DraftRequest)
    BY <2>1, <1>3, SumFacts
  <2>3. Copies(r, flights') = Copies(r, most) + 0
    BY <2>1, <2>2, <1>3
  <2> QED
    BY <2>3 DEF most
<1>6. Copies(r, flights) \in Nat
  BY <1>2, CopiesFacts
<1> QED
  BY <1>2, <1>4, <1>5, <1>6 DEF Answered, BagToSet

\* Marking a room as read is excused for that room.
LEMMA MarkSeen ==
    ASSUME Parts, NEW h, NEW r, MarkRead(h, r), <<h, r>> \in Places => Excused(<<h, r>>)
    PROVE  ReadSeen
<1> SUFFICES ASSUME NEW p \in Places, unread'[p] < unread[p] PROVE Excused(p)
  BY DEF ReadSeen
<1>1. unread \in [Places -> 0..MaxStored]
  BY DEF Parts, UnreadOK
<1>2. p = <<h, r>>
  BY <1>1 DEF MarkRead
<1> QED
  BY <1>2

LEMMA SameSeen == ASSUME Parts, UNCHANGED unread PROVE ReadSeen
BY PaneAssumption DEF ReadSeen, Parts, UnreadOK

LEMMA UserSeen == ASSUME Parts, User, acts' # acts PROVE ReadSeen
<1>1. ASSUME NEW h \in Hubs, ClickHub(h) PROVE ReadSeen
  <2>1. MarkRead(h, activeRoom') /\ activeHub' = h
    BY <1>1 DEF ClickHub
  <2>2. Current' = <<h, activeRoom'>>
    BY <2>1, PaneAssumption DEF Current, Target
  <2> QED
    BY <2>1, <2>2, MarkSeen DEF Excused
<1>2. ASSUME NEW r \in Rooms, ClickRoom(r) PROVE ReadSeen
  <2>1. MarkRead(activeHub, r) /\ Render(r, FALSE) /\ UNCHANGED <<hubs, activeHub>>
        /\ r \in Joined(RenderedHub)
    BY <1>2 DEF ClickRoom
  <2>2. ASSUME <<activeHub, r>> \in Places PROVE Excused(<<activeHub, r>>)
    <3>1. activeHub # NoHub
      BY <2>2, PaneAssumption
    <3>2. CASE activeHub = RenderedHub
      <4>1. activeRoom' = r
        BY <2>1, <3>2 DEF Render, SelectRoom, Joined
      <4> QED
        BY <2>1, <3>1, <4>1 DEF Excused, Current, Target
    <3> QED
      BY <3>2 DEF Excused
  <2> QED
    BY <2>1, <2>2, MarkSeen
<1>3. ASSUME NEW r \in Rooms, ListUsersOf(r) PROVE ReadSeen
  <2>1. MarkRead(activeHub, r) /\ Render(r, FALSE) /\ UNCHANGED <<hubs, activeHub>>
        /\ r \in Joined(activeHub)
    BY <1>3 DEF ListUsersOf
  <2>2. activeRoom' = r /\ activeHub \in Hubs
    BY <2>1, ViewFacts DEF Render, SelectRoom, Joined
  <2>3. Current' = <<activeHub, r>>
    BY <2>1, <2>2, PaneAssumption DEF Current, Target
  <2> QED
    BY <2>1, <2>3, MarkSeen DEF Excused
<1>4. CASE UNCHANGED unread
  BY <1>4, SameSeen
<1>5. \/ \E h \in Hubs : ClickHub(h)
      \/ \E r \in Rooms : ClickRoom(r) \/ ListUsersOf(r)
      \/ UNCHANGED unread
  BY DEF User, HubChanged, PartRoom, ListRooms, ListUsers, Disconnect, Join, Connect, Ping, Part,
         LocalCommand, Submit, Type, StageCommand
<1> QED
  BY <1>1, <1>2, <1>3, <1>4, <1>5

LEMMA PageSeen == ASSUME Parts, Page PROVE ReadSeen
<1>1. ASSUME NEW p \in Places, NEW n, NEW asks, MessageEvent(p, n, asks) PROVE ReadSeen
  BY <1>1, PaneAssumption DEF MessageEvent, ReadSeen, Parts, UnreadOK
<1>2. ASSUME NEW r \in DOMAIN flights, JoinReply(r) PROVE ReadSeen
  <2>1. MarkRead(activeHub, r.at[2]) /\ activeRoom' = r.at[2] /\ activeHub' = activeHub
    BY <1>2 DEF JoinReply
  <2>2. r.op = "join" /\ Arrive(r, HistoryRequest(activeHub, r.at[2], FALSE))
    BY <1>2 DEF JoinReply
  <2>3. /\ IsABag(HistoryRequest(activeHub, r.at[2], FALSE))
        /\ Copies(r, HistoryRequest(activeHub, r.at[2], FALSE)) = 0
    <3>1. Request("history", <<activeHub, r.at[2]>>, FALSE) # r
      BY <2>2 DEF Request
    <3> QED
      BY <3>1, OneFacts, EmptyFacts DEF HistoryRequest
  <2>4. r \in Answered
    BY <2>2, <2>3, ArrivedIsAnswered
  <2>5. <<activeHub, r.at[2]>> \in Places => <<activeHub, r.at[2]>> = Current'
    BY <2>1, PaneAssumption DEF Current, Target
  <2>6. <<activeHub, r.at[2]>> \in Places => Excused(<<activeHub, r.at[2]>>)
    BY <2>2, <2>4, <2>5 DEF Excused
  <2> QED
    BY <2>1, <2>6, MarkSeen
<1>3. ASSUME NEW r \in DOMAIN flights, PartReply(r) PROVE ReadSeen
  <2>1. MarkRead(activeHub, activeRoom) /\ UNCHANGED <<activeHub, activeRoom>>
    BY <1>3 DEF PartReply, view
  <2>2. <<activeHub, activeRoom>> \in Places => Excused(<<activeHub, activeRoom>>)
    BY <2>1, PaneAssumption DEF Excused, Current, Target
  <2> QED
    BY <2>1, <2>2, MarkSeen
<1>4. ASSUME NEW r \in DOMAIN flights, DisconnectReply(r) PROVE ReadSeen
  <2> SUFFICES ASSUME NEW p \in Places, unread'[p] < unread[p] PROVE Excused(p)
    BY DEF ReadSeen
  <2>1. p[1] = r.at
    BY <1>4, PaneAssumption DEF DisconnectReply, ForgetUnread, Parts, UnreadOK
  <2>2. r.at \notin DOMAIN hubs'
    BY <1>4 DEF DisconnectReply
  <2> QED
    BY <2>1, <2>2 DEF Excused
<1>5. CASE UNCHANGED unread
  BY <1>5, SameSeen
<1>6. \/ \E p \in Places, n \in 1..MaxStored, asks \in BOOLEAN : MessageEvent(p, n, asks)
      \/ \E r \in DOMAIN flights : JoinReply(r) \/ PartReply(r) \/ DisconnectReply(r)
      \/ UNCHANGED unread
  BY DEF Page, BagToSet, TimerFires, HistoryReply, QueryReply, ClearReply, SendReply, NickReply,
         ConnectReply, DraftReply, RequestFails
<1> QED
  BY <1>1, <1>2, <1>3, <1>4, <1>5, <1>6

LEMMA NextSeen == PaneInv /\ [Next]_vars => [ReadSeen]_vars
<1> SUFFICES ASSUME Parts, acts \in 0..MaxActs, Next PROVE ReadSeen
  BY DEF PaneInv
<1>1. (User /\ acts' # acts) \/ Page \/ Server
  BY PaneAssumption DEF Next
<1>2. Server => UNCHANGED unread
  BY DEF Server, StoreMessage, ReadHistory, ReadDraft, DeleteHistory, SaveDraft, Serve
<1> QED
  BY <1>1, <1>2, UserSeen, PageSeen, SameSeen

\* The unread count of a room is taken back only if the room was the active one,
\* if the user selects it or if its hub is removed (markRrcRoomRead), but for the
\* room of a join's answer and for a click on a room of a hub that a connection
\* has just taken out of the view.
THEOREM NothingIsMarkedUnseen == Spec => NothingIsReadUnseen
<1>1. PaneInv /\ [Next]_vars
        => [\A p \in Places : unread'[p] < unread[p] =>
               \/ p = Current' /\ (p = Current \/ acts' # acts)
               \/ p = Current' /\ \E r \in Answered : r.op = "join" /\ r.at[2] = p[2]
               \/ p[1] \notin DOMAIN hubs'
               \/ p[1] = activeHub /\ activeHub # RenderedHub /\ acts' # acts]_vars
  BY NextSeen DEF ReadSeen, Excused
<1> QED
  BY <1>1, PaneAlways, PTL DEF Spec, NothingIsReadUnseen

-----------------------------------------------------------------------------
(* What a step may do to a draft that waits for its timer                  *)

Saved(t) == [op |-> "put", at |-> t, text |-> timers[t]] \in BagToSet(flights')

\* The user types or sends, or something typed before is answered.
Replaces == acts' # acts \/ \E r \in Answered : EmptiesComposer(r)

DraftsGoOn ==
    \A t \in Targets :
        timers[t] \notin {NoTimer, timers'[t]} => (t = Current' /\ Replaces) \/ Saved(t)

LEMMA EmptyGoesOn ==
    ASSUME Parts, NEW emptied, EmptyDraft(emptied), emptied => Replaces
    PROVE  DraftsGoOn
BY DEF Parts, TimersOK, EmptyDraft, QueueDraft, DraftsGoOn

\* loadRrcUsers asks only for users.
LEMMA UsersAreOthers ==
    ASSUME NEW r, r.op # "who", NEW h, NEW room, NEW typed
    PROVE  IsABag(UsersRequest(h, room, typed)) /\ Copies(r, UsersRequest(h, room, typed)) = 0
<1>1. Request("who", <<h, room>>, typed) # r
  BY DEF Request
<1> QED
  BY <1>1, OneFacts, EmptyFacts DEF UsersRequest

\* Of the answers, those to commands and messages empty the composer.
LEMMA PageGoesOn == ASSUME Parts, Page, \A t \in Targets : ~TimerFires(t) PROVE DraftsGoOn
<1>1. CASE UNCHANGED timers
  BY <1>1 DEF DraftsGoOn
<1>2. ASSUME NEW r \in DOMAIN flights, HistoryReply(r) PROVE DraftsGoOn
  <2> DEFINE room == IF r.op = "messages" THEN activeRoom' ELSE activeRoom
             request == IF r.typed THEN UsersRequest(activeHub, room, TRUE) ELSE EmptyBag
             emptied == r.typed /\ request = EmptyBag
  <2>1. r.op \in {"messages", "history"} /\ EmptyDraft(emptied) /\ Arrive(r, request)
    BY <1>2 DEF HistoryReply
  <2>2. IsABag(request) /\ Copies(r, request) = 0
    BY <2>1, UsersAreOthers, EmptyFacts
  <2> HIDE DEF request
  <2>3. r \in Answered
    BY <2>1, <2>2, ArrivedIsAnswered
  <2>4. emptied => Replaces
    BY <2>1, <2>3 DEF Replaces, EmptiesComposer
  <2> HIDE DEF emptied
  <2> QED
    BY <2>1, <2>4, EmptyGoesOn
<1>3. ASSUME NEW r \in DOMAIN flights, NEW emptied, EmptyDraft(emptied), Arrive(r, EmptyBag),
             r.op # "draft" \/ ~emptied, emptied => EmptiesComposer(r)
      PROVE  DraftsGoOn
  <2>1. r.op # "draft" => r \in Answered
    BY <1>3, EmptyFacts, ArrivedIsAnswered
  <2> QED
    BY <1>3, <2>1, EmptyGoesOn DEF Replaces
<1>4. ASSUME NEW r \in DOMAIN flights, QueryReply(r) PROVE DraftsGoOn
  <2>1. r.op \in {"list", "who", "ping"} /\ EmptyDraft(r.typed) /\ Arrive(r, EmptyBag)
    BY <1>4 DEF QueryReply
  <2>2. r.typed => EmptiesComposer(r)
    BY <2>1 DEF EmptiesComposer
  <2> QED
    BY <1>3, <2>1, <2>2
<1>5. ASSUME NEW r \in DOMAIN flights, ClearReply(r) \/ SendReply(r) PROVE DraftsGoOn
  BY <1>3, <1>5 DEF ClearReply, SendReply, EmptiesComposer
<1>6. ASSUME NEW r \in DOMAIN flights, RequestFails(r) PROVE DraftsGoOn
  <2> DEFINE emptied == r.op \in {"nick", "clear", "cleared"}
  <2>1. EmptyDraft(emptied) /\ Arrive(r, EmptyBag)
    BY <1>6 DEF RequestFails
  <2>2. r.op # "draft" \/ ~emptied
    OBVIOUS
  <2>3. emptied => EmptiesComposer(r)
    BY DEF EmptiesComposer
  <2> HIDE DEF emptied
  <2> QED
    BY <1>3, <2>1, <2>2, <2>3
<1>7. ASSUME NEW r \in DOMAIN flights, NEW status, NickReply(r, status) PROVE DraftsGoOn
  <2>1. r.op = "nick" /\ EmptyDraft(TRUE) /\ Arrive(r, UsersRequest(activeHub, activeRoom', FALSE))
    BY <1>7 DEF NickReply
  <2>2. r \in Answered
    BY <2>1, UsersAreOthers, ArrivedIsAnswered
  <2> QED
    BY <2>1, <2>2, EmptyGoesOn DEF Replaces, EmptiesComposer
<1>8. \/ UNCHANGED timers
      \/ \E r \in DOMAIN flights :
            \/ HistoryReply(r) \/ QueryReply(r) \/ ClearReply(r) \/ SendReply(r) \/ RequestFails(r)
            \/ \E status : NickReply(r, status)
  BY DEF Page, BagToSet, MessageEvent, JoinReply, PartReply, ConnectReply, DisconnectReply,
         DraftReply, composer
<1> QED
  BY <1>1, <1>2, <1>4, <1>5, <1>6, <1>7, <1>8

LEMMA NextGoesOn == PaneInv /\ [Next]_vars => [DraftsGoOn]_vars
<1> SUFFICES ASSUME Parts, acts \in 0..MaxActs, Next PROVE DraftsGoOn
  BY DEF PaneInv
<1>1. CASE UNCHANGED timers
  BY <1>1 DEF DraftsGoOn
<1>2. CASE acts' # acts /\ \E emptied : EmptyDraft(emptied)
  BY <1>2, EmptyGoesOn DEF Replaces
<1>3. ASSUME NEW text, Type(text), acts' # acts PROVE DraftsGoOn
  BY <1>3 DEF Type, Parts, TimersOK, QueueDraft, DraftsGoOn, Replaces, Current, view
<1>4. ASSUME NEW t \in Targets, TimerFires(t) PROVE DraftsGoOn
  <2> DEFINE put == [op |-> "put", at |-> t, text |-> timers[t]]
  <2>1. flights' = flights (+) One(put)
    BY <1>4 DEF TimerFires
  <2> HIDE DEF put
  <2>2. put \in BagToSet(flights')
    <3>1. IsABag(flights) /\ IsABag(One(put)) /\ DOMAIN One(put) = {put}
      BY OneFacts DEF Parts, FlightsOK
    <3>2. DOMAIN flights' = DOMAIN flights \cup {put}
      BY <2>1, <3>1, SumFacts
    <3> QED
      BY <3>2 DEF BagToSet
  <2>3. \A u \in Targets : u # t => timers'[u] = timers[u]
    BY <1>4 DEF TimerFires, Parts, TimersOK
  <2> QED
    BY <2>2, <2>3 DEF put, DraftsGoOn, Saved
<1>5. CASE acts' # acts /\ User
  <2>1. UNCHANGED timers \/ (\E emptied : EmptyDraft(emptied)) \/ \E text : Type(text)
    BY <1>5 DEF User, HubChanged, ClickHub, ClickRoom, ListUsersOf, PartRoom, ListRooms, ListUsers,
       Disconnect, Join, Connect, Ping, Part, LocalCommand, Submit, StageCommand, composer
  <2> QED
    BY <1>1, <1>2, <1>3, <1>5, <2>1
<1>6. CASE Page
  BY <1>4, <1>6, PageGoesOn
<1>7. CASE Server
  BY <1>1, <1>7 DEF Server, StoreMessage, ReadHistory, ReadDraft, DeleteHistory, SaveDraft, Serve,
     composer
<1>8. (acts' # acts /\ User) \/ Page \/ Server
  BY PaneAssumption DEF Next
<1> QED
  BY <1>5, <1>6, <1>7, <1>8

\* A text that waits for its timer is saved, or replaced for the target in view
\* by a later text of the user or by the answer to a command or a message:
\* selecting another room loses no draft, nor does any other answer (queueDraft).
THEOREM NoDraftIsLost == Spec => PendingDraftIsSaved
<1>1. PaneInv /\ [Next]_vars
        => [\A t \in Targets : timers[t] \notin {NoTimer, timers'[t]} =>
               \/ t = Current' /\ (acts' # acts \/ \E r \in Answered : EmptiesComposer(r))
               \/ [op |-> "put", at |-> t, text |-> timers[t]] \in BagToSet(flights')]_vars
  BY NextGoesOn DEF DraftsGoOn, Saved, Replaces
<1> QED
  BY <1>1, PaneAlways, PTL DEF Spec, PendingDraftIsSaved
=============================================================================
