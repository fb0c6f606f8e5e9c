----------------------------- MODULE TasksProofs -----------------------------
(***************************************************************************)
(* What the two tasks keep in the database, for every value of the         *)
(* constants: the directory of the network task (its table catches up with *)
(* what was announced, downloads are paced) and the hubs of the RRC task.  *)
(* The two share nothing but this module.                                  *)
(***************************************************************************)
EXTENDS Tasks, TLAPS

-----------------------------------------------------------------------------
(* Announces and the rows they make                                        *)

LEMMA AnnounceFacts ==
    ASSUME NEW a \in Announces
    PROVE  /\ a.from \in Destinations /\ a.hops \in Hops
           /\ a.data # NoData => a.data \in AppData(a.from)
<1>1. PICK d \in Destinations : a \in [from : {d}, hops : Hops, data : AppData(d) \cup {NoData}]
  BY DEF Announces
<1>2. a.from = d /\ a.hops \in Hops /\ a.data \in AppData(d) \cup {NoData}
  BY <1>1
<1> QED
  BY <1>2

LEMMA StreamFacts == \A d \in Destinations : StreamOf(d) \in 1..4
<1> SUFFICES ASSUME NEW d \in Destinations PROVE StreamOf(d) \in 1..4
  OBVIOUS
<1>1. \E k \in 1..4 : d \in Streams[k]
  <2>1. Streams[1] = Peers /\ Streams[2] = Nodes /\ Streams[3] = Propagation /\ Streams[4] = RrcHubs
    BY DEF Streams
  <2>2. 1 \in 1..4 /\ 2 \in 1..4 /\ 3 \in 1..4 /\ 4 \in 1..4
    OBVIOUS
  <2> QED
    BY <2>1, <2>2 DEF Destinations
<1> QED
  BY <1>1, Zenon DEF StreamOf

LEMMA NameFacts == ASSUME NEW a \in Announces PROVE NameIn(a) \in Names \cup {NoName}
<1>1. a.data # NoData => a.data.name \in Names \cup {NoName}
  BY AnnounceFacts DEF AppData
<1> QED
  BY <1>1 DEF NameIn

LEMMA ActiveFacts == ASSUME NEW a \in Announces PROVE IsActive(a) \in BOOLEAN
<1>1. CASE a.from \in Propagation /\ a.data # NoData
  <2>1. a.data \in AppData(a.from)
    BY <1>1, AnnounceFacts
  <2>2. AppData(a.from) = [name : Names \cup {NoName}, active : BOOLEAN]
    BY <1>1 DEF AppData
  <2>3. a.data.active \in BOOLEAN
    BY <2>1, <2>2
  <2> QED
    BY <1>1, <2>3 DEF IsActive
<1>2. CASE ~(a.from \in Propagation /\ a.data # NoData)
  BY <1>2 DEF IsActive
<1> QED
  BY <1>1, <1>2

\* The table is pruned but says what it said of the destinations it keeps.
LEMMA PruneFacts ==
    ASSUME NEW t
    PROVE  /\ DOMAIN PruneKnown(t) \subseteq DOMAIN t
           /\ \A d \in DOMAIN PruneKnown(t) : PruneKnown(t)[d] = t[d]
BY DEF PruneKnown, Restrict

LEMMA UpsertFacts ==
    ASSUME NEW a
    PROVE  LET t == UpsertDirectory(a)
           IN  /\ DOMAIN t \subseteq DOMAIN table \cup {a.from}
               /\ a.from \in DOMAIN t => t[a.from] = RowAfter(a)
               /\ \A d \in DOMAIN t : d # a.from => d \in DOMAIN table /\ t[d] = table[d]
<1> DEFINE t == [d \in DOMAIN table \cup {a.from} |-> IF d = a.from THEN RowAfter(a) ELSE table[d]]
<1>1. DOMAIN t = DOMAIN table \cup {a.from} /\ t[a.from] = RowAfter(a)
      /\ \A d \in DOMAIN table : d # a.from => t[d] = table[d]
  OBVIOUS
<1> HIDE DEF t
<1>2. UpsertDirectory(a) = PruneKnown(t)
  BY DEF UpsertDirectory, t
<1> QED
  BY <1>1, <1>2, PruneFacts

-----------------------------------------------------------------------------
(* Type correctness                                                        *)

TableOK == DOMAIN table \subseteq Destinations /\ \A d \in DOMAIN table : table[d] \in Rows

LEMMA TableRange ==
    (DOMAIN table \subseteq Destinations /\ Range(table) \subseteq Rows) <=> TableOK
BY DEF TableOK, Range

LEMMA RowType == ASSUME TypeOK, NEW a \in Announces PROVE RowAfter(a) \in Rows
<1>1. a.from \in DOMAIN table => table[a.from] \in Rows
  BY TableRange DEF TypeOK, TableOK
<1>2. NameAfter(a) \in Names \cup {NoName}
  BY <1>1, NameFacts DEF NameAfter, Rows
<1>3. HopsAfter(a) \in Hops /\ clock \in 0..MaxTime
  BY AnnounceFacts DEF HopsAfter, TypeOK
<1>4. ActiveAfter(a) \in BOOLEAN
  <2>1. a.from \in DOMAIN table => table[a.from].active \in BOOLEAN
    BY <1>1 DEF Rows
  <2> QED
    BY <2>1, ActiveFacts DEF ActiveAfter
<1>5. DataAfter(a) \in (UNION {AppData(d) : d \in Destinations}) \cup {NoData}
  <2>1. a.from \in DOMAIN table =>
          table[a.from].data \in (UNION {AppData(d) : d \in Destinations}) \cup {NoData}
    BY <1>1 DEF Rows
  <2>2. a.data \in (UNION {AppData(d) : d \in Destinations}) \cup {NoData}
    <3>1. a.from \in Destinations /\ (a.data # NoData => a.data \in AppData(a.from))
      BY AnnounceFacts
    <3>2. AppData(a.from) \in {AppData(d) : d \in Destinations}
      BY <3>1, Zenon
    <3>3. a.data # NoData => a.data \in UNION {AppData(d) : d \in Destinations}
      BY <3>1, <3>2, Zenon
    <3> QED
      BY <3>3
  <2> QED
    BY <2>1, <2>2 DEF DataAfter
<1> QED
  BY <1>2, <1>3, <1>4, <1>5 DEF RowAfter, Rows

LEMMA ProcessTypes ==
    ASSUME TypeOK, NEW a \in Announces, ProcessAnnounce(a), UNCHANGED clock
    PROVE  /\ DOMAIN table' \subseteq Destinations /\ Range(table') \subseteq Rows
           /\ missed' \subseteq Destinations /\ faults' \in 0..MaxFaults
<1>1. a.from \in Destinations
  BY AnnounceFacts
<1>2. TableOK
  BY TableRange DEF TypeOK
<1>3. TableOK'
  <2>1. CASE table' = UpsertDirectory(a)
    BY <1>1, <1>2, <2>1, UpsertFacts, RowType DEF TableOK, Rows
  <2>2. CASE UNCHANGED table
    BY <1>2, <2>2 DEF TableOK, Rows
  <2> QED
    BY <2>1, <2>2 DEF ProcessAnnounce
<1>4. missed' \subseteq Destinations
  BY <1>1 DEF ProcessAnnounce, TypeOK
<1>5. faults' \in 0..MaxFaults
  BY DirectoryAssumption DEF ProcessAnnounce, TypeOK
<1> QED
  BY <1>3, <1>4, <1>5 DEF TableOK, Range

LEMMA InitTypes == Init => TypeOK
<1> SUFFICES ASSUME Init PROVE TypeOK
  OBVIOUS
<1>1. queue \in [1..4 -> Seq(Announces)]
  BY DEF Init
<1>2. DOMAIN table = {} /\ Range(table) = {}
  BY DEF Init, Range
<1>3. /\ 0 \in 0..MaxTime /\ 0 \in 0..MaxAnnounces /\ 0 \in 0..MaxStops /\ 0 \in 0..MaxFaults
      /\ Pacing \in 0..Pacing
  BY DirectoryAssumption
<1> QED
  BY <1>1, <1>2, <1>3 DEF Init, TypeOK

LEMMA HearTypes == ASSUME TypeOK, NEW a \in Arriving, Hear(a) PROVE TypeOK'
<1>1. a \in Announces /\ a.from \in Destinations
  BY ArrivingAssumption, AnnounceFacts
<1>2. queue' \in [1..4 -> Seq(Announces)]
  <2>1. StreamOf(a.from) \in 1..4
    BY <1>1, StreamFacts
  <2>2. Append(queue[StreamOf(a.from)], a) \in Seq(Announces)
    BY <1>1, <2>1 DEF TypeOK
  <2> QED
    BY <2>2 DEF TypeOK, Hear
<1>3. cache' \subseteq Announces
  BY <1>1 DEF TypeOK, Hear
<1>4. announced' \in 0..MaxAnnounces
  BY DirectoryAssumption DEF TypeOK, Hear
<1> QED
  BY <1>2, <1>3, <1>4 DEF TypeOK, Hear, choice, history

LEMMA StartTypes == ASSUME TypeOK, Start PROVE TypeOK'
<1>1. TableOK
  BY TableRange DEF TypeOK
<1>2. TableOK'
  BY <1>1, PruneFacts DEF Start, TableOK, Rows
<1>3. DOMAIN table' \subseteq Destinations /\ Range(table') \subseteq Rows
  BY <1>2 DEF TableOK, Range
<1>4. cache' \subseteq Announces
  BY DEF TypeOK, Start
<1> QED
  BY <1>3, <1>4 DEF TypeOK, Start, choice, history, counts

LEMMA RunTypes ==
    ASSUME TypeOK, Subscribe \/ AskRecent \/ EnterLoop \/ FinishDownload \/ Stop
    PROVE  TypeOK'
<1>1. CASE Subscribe
  BY <1>1 DEF TypeOK, Subscribe, choice, history, counts
<1>2. CASE AskRecent
  BY <1>2 DEF TypeOK, AskRecent, choice, history, counts
<1>3. CASE EnterLoop
  BY <1>3 DEF TypeOK, EnterLoop, streams, choice, history, counts
<1>4. CASE FinishDownload
  BY <1>4 DEF TypeOK, FinishDownload, streams, history, counts
<1>5. CASE Stop
  <2>1. queue' \in [1..4 -> Seq(Announces)]
    BY <1>5 DEF Stop
  <2>2. stops' \in 0..MaxStops /\ age' \in 0..Pacing
    BY <1>5, DirectoryAssumption DEF TypeOK, Stop
  <2> QED
    BY <1>5, <2>1, <2>2 DEF TypeOK, Stop
<1> QED
  BY <1>1, <1>2, <1>3, <1>4, <1>5

LEMMA SeedTypes == ASSUME TypeOK, NEW a \in seeds, Seed(a) PROVE TypeOK'
<1>1. a \in Announces /\ seeds' \subseteq Announces
  BY DEF TypeOK, Seed
<1> QED
  BY <1>1, ProcessTypes DEF TypeOK, Seed, choice, history

LEMMA HeadFacts ==
    ASSUME TypeOK, NEW k \in 1..4, queue[k] # << >>
    PROVE  /\ queue[k] \in Seq(Announces) /\ Head(queue[k]) \in Announces
           /\ Tail(queue[k]) \in Seq(Announces)
           /\ Len(Tail(queue[k])) = Len(queue[k]) - 1
           /\ 1 \in DOMAIN queue[k] /\ Head(queue[k]) = queue[k][1]
           /\ \A i \in DOMAIN Tail(queue[k]) :
                 i + 1 \in DOMAIN queue[k] /\ Tail(queue[k])[i] = queue[k][i + 1]
<1> DEFINE q == queue[k]
<1>1. q \in Seq(Announces) /\ q # << >>
  BY DEF TypeOK
<1> HIDE DEF q
<1>2. /\ q \in Seq(Announces) /\ Head(q) \in Announces
      /\ Tail(q) \in Seq(Announces)
      /\ Len(Tail(q)) = Len(q) - 1
      /\ 1 \in DOMAIN q /\ Head(q) = q[1]
      /\ \A i \in DOMAIN Tail(q) : i + 1 \in DOMAIN q /\ Tail(q)[i] = q[i + 1]
  BY <1>1
<1> QED
  BY <1>2 DEF q

LEMMA ReceiveTypes == ASSUME TypeOK, NEW k \in 1..4, ReceiveAnnounce(k) PROVE TypeOK'
<1>1. Head(queue[k]) \in Announces /\ Tail(queue[k]) \in Seq(Announces)
  BY HeadFacts DEF ReceiveAnnounce
<1>2. queue' \in [1..4 -> Seq(Announces)]
  BY <1>1 DEF TypeOK, ReceiveAnnounce
<1> QED
  BY <1>1, <1>2, ProcessTypes DEF TypeOK, ReceiveAnnounce, choice, history

LEMMA TickTypes == ASSUME TypeOK, NEW node \in Destinations, Tick(node) PROVE TypeOK'
<1>1. node \in Propagation
  BY DEF Tick, BestPropagationNode, Candidates
<1>2. AgeFor(node) \in 0..Pacing /\ 0 \in 0..Pacing
  BY DirectoryAssumption DEF TypeOK, AgeFor
<1>3. age' \in 0..Pacing /\ elapsed' \in 0..Pacing /\ client' \in {"idle", "busy"}
  BY <1>2 DEF TypeOK, Tick
<1>4. turned' \in BOOLEAN
  BY Zenon DEF TypeOK, Tick
<1>5. faults' \in 0..MaxFaults
  BY DirectoryAssumption DEF TypeOK, Tick
<1> QED
  BY <1>1, <1>3, <1>4, <1>5 DEF TypeOK, Tick, streams

LEMMA TimeTypes == ASSUME TypeOK, TimePasses PROVE TypeOK'
<1>1. clock' \in 0..MaxTime /\ age' \in 0..Pacing /\ elapsed' \in 0..Pacing
  BY DirectoryAssumption DEF TypeOK, TimePasses
<1> QED
  BY <1>1 DEF TypeOK, TimePasses, streams, counts

LEMMA NextTypes == TypeOK /\ [Next]_vars => TypeOK'
<1> SUFFICES ASSUME TypeOK, [Next]_vars PROVE TypeOK'
  OBVIOUS
<1>1. CASE UNCHANGED vars
  BY <1>1 DEF vars, streams, choice, history, counts, TypeOK
<1> QED
  BY <1>1, HearTypes, StartTypes, RunTypes, SeedTypes, ReceiveTypes, TickTypes, TimeTypes DEF Next

\* Every variable has its type; all that a row holds was announced.
THEOREM DirectoryTypeCorrect == Spec => []TypeOK
BY InitTypes, NextTypes, PTL DEF Spec

-----------------------------------------------------------------------------
(* The table catches up.  Once the cached announces are asked for, what *)
(* the transport remembers of a destination is in the table unless it is   *)
(* still to be seeded, still in its stream or could not be stored.         *)

Subscriptions ==
    /\ phase = "down" => subscribed = 0
    /\ phase \in {"seeding", "running"} => subscribed = 4
    /\ phase # "seeding" => seeds = {}
    /\ \A k \in 1..4 : k > subscribed => queue[k] = <<>>

OnePerDestination == \A a, b \in cache : a.from = b.from => a = b

InOwnStream == \A k \in 1..4 : \A i \in DOMAIN queue[k] : StreamOf(queue[k][i].from) = k

LastInStream(k, i) == \A j \in DOMAIN queue[k] : j > i => queue[k][j].from # queue[k][i].from

LastIsCached ==
    \A k \in 1..4 : \A i \in DOMAIN queue[k] : LastInStream(k, i) => queue[k][i] \in cache

\* A seed is the newest announce of its destination, or a newer one follows.
SeedsAreCurrent == \A s \in seeds : s \in cache \/ Pending(s.from)

Agrees(row, a) ==
    /\ row.hops = a.hops
    /\ a.data # NoData => row.active = IsActive(a)
    /\ NameIn(a) # NoName => row.name = NameIn(a)

Told ==
    phase \in {"seeding", "running"} =>
       \A a \in cache :
          a.from \in DOMAIN table \ missed /\ ~Pending(a.from) /\ a \notin seeds =>
             Agrees(table[a.from], a)

\* What the row of a propagation node says is what the data it holds says.
StateOf(row) == row.data # NoData /\ row.data.active
StatesAreStored == \A d \in DOMAIN table \cap Propagation : table[d].active = StateOf(table[d])

StreamsOK == Subscriptions /\ OnePerDestination /\ InOwnStream /\ LastIsCached /\ SeedsAreCurrent

DirectoryInv == TypeOK /\ StreamsOK /\ Told /\ StatesAreStored

LEMMA DirectoryInvImplies == DirectoryInv => DirectoryCatchesUp
<1> SUFFICES ASSUME DirectoryInv PROVE DirectoryCatchesUp
  OBVIOUS
<1>1. ASSUME phase = "running", NEW a \in cache,
             a.from \in DOMAIN table \ missed, ~Pending(a.from)
      PROVE  Agrees(table[a.from], a)
  BY <1>1 DEF DirectoryInv, StreamsOK, Subscriptions, Told
<1>2. StatesAreStored
  BY DEF DirectoryInv
<1> QED
  BY <1>1, <1>2 DEF DirectoryCatchesUp, Agrees, StatesAreStored, StateOf

LEMMA InitDirectory == Init => DirectoryInv
<1> SUFFICES ASSUME Init PROVE DirectoryInv
  OBVIOUS
<1>1. TypeOK
  BY InitTypes
<1>2. \A k \in 1..4 : queue[k] = <<>> /\ DOMAIN queue[k] = {}
  BY DEF Init
<1>3. StreamsOK
  BY <1>2 DEF Init, StreamsOK, Subscriptions, OnePerDestination, InOwnStream, LastIsCached,
              SeedsAreCurrent
<1>4. Told /\ StatesAreStored
  BY DEF Init, Told, StatesAreStored
<1> QED
  BY <1>1, <1>3, <1>4 DEF DirectoryInv

\* The row of an announce says what the announce says.
LEMMA RowAgrees == \A a : Agrees(RowAfter(a), a)
BY DEF Agrees, RowAfter, HopsAfter, ActiveAfter, NameAfter

LEMMA RowState ==
    ASSUME StatesAreStored, NEW a, a.from \in Propagation
    PROVE  RowAfter(a).active = StateOf(RowAfter(a))
<1>1. RowAfter(a).active = ActiveAfter(a) /\ RowAfter(a).data = DataAfter(a)
  BY DEF RowAfter
<1>2. CASE a.data = NoData /\ a.from \in DOMAIN table
  <2>1. ActiveAfter(a) = table[a.from].active /\ DataAfter(a) = table[a.from].data
    BY <1>2, Zenon DEF ActiveAfter, DataAfter
  <2>2. table[a.from].active = StateOf(table[a.from])
    BY <1>2, Zenon DEF StatesAreStored
  <2> QED
    BY <1>1, <2>1, <2>2, Zenon DEF StateOf
<1>3. CASE ~(a.data = NoData /\ a.from \in DOMAIN table)
  <2>1. ActiveAfter(a) = IsActive(a) /\ DataAfter(a) = a.data
    BY <1>3, Zenon DEF ActiveAfter, DataAfter
  <2>2. IsActive(a) = (a.data # NoData /\ a.data.active)
    BY Zenon DEF IsActive
  <2> QED
    BY <1>1, <2>1, <2>2, Zenon DEF StateOf
<1> QED
  BY <1>2, <1>3

LEMMA ProcessStates ==
    ASSUME StatesAreStored, NEW a, ProcessAnnounce(a)
    PROVE  StatesAreStored'
<1>1. CASE table' = UpsertDirectory(a)
  <2> SUFFICES ASSUME NEW d \in DOMAIN table', d \in Propagation
               PROVE  table'[d].active = StateOf(table'[d])
    BY DEF StatesAreStored, StateOf
  <2>1. CASE d = a.from
    <3>1. table'[d] = RowAfter(a)
      BY <1>1, <2>1, UpsertFacts
    <3> QED
      BY <2>1, <3>1, RowState
  <2>2. CASE d # a.from
    <3>1. d \in DOMAIN table /\ table'[d] = table[d]
      BY <1>1, <2>2, UpsertFacts
    <3> QED
      BY <3>1 DEF StatesAreStored
  <2> QED
    BY <2>1, <2>2
<1>2. CASE UNCHANGED table
  BY <1>2 DEF StatesAreStored, StateOf
<1> QED
  BY <1>1, <1>2 DEF ProcessAnnounce

\* What one announce does to the rest: nothing.
LEMMA ProcessSpares ==
    ASSUME NEW a, ProcessAnnounce(a)
    PROVE  /\ a.from \in DOMAIN table' \ missed' => table'[a.from] = RowAfter(a)
           /\ \A d \in DOMAIN table' \ missed' :
                 d # a.from => d \in DOMAIN table \ missed /\ table'[d] = table[d]
<1>1. CASE table' = UpsertDirectory(a) /\ missed' = missed \ {a.from}
  BY <1>1, UpsertFacts
<1>2. CASE missed' = missed \cup {a.from} /\ UNCHANGED table
  BY <1>2
<1> QED
  BY <1>1, <1>2 DEF ProcessAnnounce

-----------------------------------------------------------------------------
(* The steps                                                               *)

LEMMA SeedDirectory ==
    ASSUME DirectoryInv, NEW a \in seeds, Seed(a)
    PROVE  StreamsOK' /\ Told' /\ StatesAreStored'
<1>1. StreamsOK'
  BY DEF DirectoryInv, StreamsOK, Seed, Subscriptions, OnePerDestination, InOwnStream,
         LastIsCached, LastInStream, SeedsAreCurrent, Pending
<1>2. Told'
  <2> SUFFICES ASSUME NEW b \in cache, b.from \in DOMAIN table' \ missed', ~Pending(b.from),
                      b \notin seeds'
               PROVE  Agrees(table'[b.from], b)
    BY ZenonT(60) DEF Told, Agrees, IsActive, NameIn, Pending, Seed
  <2>1. CASE b.from = a.from
    <3>1. a \in cache
      BY <2>1 DEF DirectoryInv, StreamsOK, SeedsAreCurrent
    <3>2. a = b
      BY <2>1, <3>1 DEF DirectoryInv, StreamsOK, OnePerDestination
    <3>3. table'[b.from] = RowAfter(a)
      BY <2>1, ProcessSpares DEF Seed
    <3> QED
      BY <3>2, <3>3, RowAgrees
  <2>2. CASE b.from # a.from
    <3>1. b.from \in DOMAIN table \ missed /\ table'[b.from] = table[b.from]
      BY <2>2, ProcessSpares DEF Seed
    <3>2. b \notin seeds /\ phase = "seeding"
      BY <2>2 DEF Seed
    <3> QED
      BY <3>1, <3>2 DEF DirectoryInv, Told
  <2> QED
    BY <2>1, <2>2
<1>3. StatesAreStored'
  BY ProcessStates DEF DirectoryInv, Seed
<1> QED
  BY <1>1, <1>2, <1>3

LEMMA ReceiveDirectory ==
    ASSUME DirectoryInv, NEW k \in 1..4, ReceiveAnnounce(k)
    PROVE  StreamsOK' /\ Told' /\ StatesAreStored'
<1> DEFINE h == Head(queue[k])
<1>1. TypeOK /\ queue[k] # <<>> /\ phase = "running" /\ seeds = {} /\ subscribed = 4
  BY DEF DirectoryInv, StreamsOK, Subscriptions, ReceiveAnnounce
<1>2. /\ 1 \in DOMAIN queue[k] /\ h = queue[k][1]
      /\ DOMAIN queue[k] \subseteq Nat
      /\ \A i \in DOMAIN queue[k] : i # 1 => i - 1 \in DOMAIN Tail(queue[k])
      /\ \A i \in DOMAIN Tail(queue[k]) :
            /\ i \in Nat \ {0}
            /\ i + 1 \in DOMAIN queue[k] /\ Tail(queue[k])[i] = queue[k][i + 1]
  <2>1. queue[k] \in Seq(Announces)
    BY <1>1, HeadFacts
  <2>2. Tail(queue[k]) \in Seq(Announces) /\ Len(Tail(queue[k])) = Len(queue[k]) - 1
    BY <1>1, HeadFacts
  <2>3. DOMAIN queue[k] = 1..Len(queue[k]) /\ DOMAIN Tail(queue[k]) = 1..Len(Tail(queue[k]))
        /\ Len(queue[k]) \in Nat
    BY <2>1, <2>2
  <2> QED
    BY <1>1, <2>2, <2>3, HeadFacts
<1> HIDE DEF h
<1>3. /\ queue'[k] = Tail(queue[k])
      /\ \A l \in 1..4 : l # k => queue'[l] = queue[l]
  BY <1>1 DEF TypeOK, ReceiveAnnounce
<1>4. \A l \in 1..4 : \A i \in DOMAIN queue'[l] :
         \E j \in DOMAIN queue[l] :
            /\ queue'[l][i] = queue[l][j]
            /\ LastInStream(l, i)' => LastInStream(l, j)
  <2> SUFFICES ASSUME NEW l \in 1..4, NEW i \in DOMAIN queue'[l]
               PROVE  \E j \in DOMAIN queue[l] :
                         /\ queue'[l][i] = queue[l][j]
                         /\ LastInStream(l, i)' => LastInStream(l, j)
    OBVIOUS
  <2>1. CASE l = k
    <3>1. i + 1 \in DOMAIN queue[k] /\ queue'[l][i] = queue[k][i + 1] /\ i \in Nat \ {0}
      BY <1>2, <1>3, <2>1
    <3>2. ASSUME LastInStream(l, i)' PROVE LastInStream(l, i + 1)
      <4> SUFFICES ASSUME NEW j \in DOMAIN queue[k], j > i + 1
                   PROVE  queue[k][j].from # queue[k][i + 1].from
        BY <2>1 DEF LastInStream
      <4>1. j - 1 \in DOMAIN queue'[k] /\ j - 1 > i /\ j \in Nat /\ queue'[k][j - 1] = queue[k][j]
        BY <1>2, <1>3, <3>1
      <4> QED
        BY <2>1, <3>1, <3>2, <4>1 DEF LastInStream
    <3> QED
      BY <2>1, <3>1, <3>2
  <2>2. CASE l # k
    <3>1. queue'[l] = queue[l]
      BY <1>3, <2>2
    <3> QED
      BY <3>1 DEF LastInStream
  <2> QED
    BY <2>1, <2>2
<1>5. InOwnStream' /\ LastIsCached'
  <2>1. InOwnStream /\ LastIsCached /\ cache' = cache
    BY DEF DirectoryInv, StreamsOK, ReceiveAnnounce
  <2>2. \A d : StreamOf(d)' = StreamOf(d)
    BY DEF StreamOf, Streams
  <2> QED
    BY <1>4, <2>1, <2>2 DEF InOwnStream, LastIsCached
<1>6. StreamsOK'
  <2>1. seeds' = {} /\ cache' = cache /\ phase' = phase /\ subscribed' = 4
    BY <1>1 DEF ReceiveAnnounce
  <2>2. Subscriptions' /\ OnePerDestination' /\ SeedsAreCurrent'
    BY <1>1, <2>1 DEF DirectoryInv, StreamsOK, Subscriptions, OnePerDestination, SeedsAreCurrent
  <2> QED
    BY <1>5, <2>2 DEF StreamsOK
<1>7. Told'
  <2> SUFFICES ASSUME NEW b \in cache, b.from \in DOMAIN table' \ missed', ~Pending(b.from)'
               PROVE  Agrees(table'[b.from], b)
    BY DEF Told, Agrees, IsActive, NameIn, ReceiveAnnounce
  <2>1. CASE b.from = h.from
    <3>1. LastInStream(k, 1)
      <4> SUFFICES ASSUME NEW j \in DOMAIN queue[k], j > 1
                   PROVE  queue[k][j].from # h.from
        BY <1>2 DEF LastInStream
      <4>1. j - 1 \in DOMAIN queue'[k] /\ queue'[k][j - 1] = queue[k][j]
        BY <1>2, <1>3
      <4> QED
        BY <2>1, <4>1 DEF Pending
    <3>2. h \in cache
      BY <1>2, <3>1 DEF DirectoryInv, StreamsOK, LastIsCached
    <3>3. h = b
      BY <2>1, <3>2 DEF DirectoryInv, StreamsOK, OnePerDestination
    <3>4. table'[b.from] = RowAfter(h)
      BY <2>1, ProcessSpares DEF ReceiveAnnounce, h
    <3> QED
      BY <3>3, <3>4, RowAgrees
  <2>2. CASE b.from # h.from
    <3>1. b.from \in DOMAIN table \ missed /\ table'[b.from] = table[b.from]
      BY <2>2, ProcessSpares DEF ReceiveAnnounce, h
    <3>2. ~Pending(b.from)
      <4> SUFFICES ASSUME NEW l \in 1..4, NEW i \in DOMAIN queue[l], queue[l][i].from = b.from
                   PROVE  FALSE
        BY DEF Pending
      <4>1. CASE l = k
        <5>1. i # 1
          BY <1>2, <2>2, <4>1
        <5>2. i - 1 \in DOMAIN queue'[k] /\ queue'[k][i - 1] = queue[k][i]
          BY <1>2, <1>3, <4>1, <5>1
        <5> QED
          BY <4>1, <5>2 DEF Pending
      <4>2. CASE l # k
        <5>1. queue'[l] = queue[l]
          BY <1>3, <4>2
        <5> QED
          BY <5>1 DEF Pending
      <4> QED
        BY <4>1, <4>2
    <3> QED
      BY <1>1, <3>1, <3>2 DEF DirectoryInv, Told
  <2> QED
    BY <2>1, <2>2
<1>8. StatesAreStored'
  BY ProcessStates DEF DirectoryInv, ReceiveAnnounce
<1> QED
  BY <1>6, <1>7, <1>8

LEMMA AppendKeeps ==
    ASSUME NEW q \in Seq(Announces), NEW a \in Announces
    PROVE  /\ \A i \in DOMAIN q : i \in DOMAIN Append(q, a) /\ Append(q, a)[i] = q[i]
           /\ \A i \in DOMAIN Append(q, a) :
                 i \in DOMAIN q \/ (i = Len(q) + 1 /\ Append(q, a)[i] = a)
           /\ Len(q) + 1 \in DOMAIN Append(q, a) /\ Append(q, a)[Len(q) + 1] = a
OBVIOUS

LEMMA HearDirectory ==
    ASSUME DirectoryInv, NEW a \in Arriving, Hear(a)
    PROVE  StreamsOK' /\ Told' /\ StatesAreStored'
<1> DEFINE s == StreamOf(a.from)
<1>1. TypeOK /\ a \in Announces /\ s \in 1..4
  BY ArrivingAssumption, AnnounceFacts, StreamFacts DEF DirectoryInv
<1> HIDE DEF s
<1>2. cache' = {b \in cache : b.from # a.from} \cup {a}
  BY DEF Hear
<1>3. \A k \in 1..4 : queue'[k] = IF s <= subscribed /\ k = s THEN Append(queue[k], a) ELSE queue[k]
  BY <1>1 DEF TypeOK, Hear, s
<1>4. \A k \in 1..4 : queue[k] \in Seq(Announces) /\ DOMAIN queue[k] = 1..Len(queue[k])
                      /\ Len(queue[k]) \in Nat
  BY <1>1 DEF TypeOK
<1>5. \A k \in 1..4 : \A i \in DOMAIN queue[k] :
         i \in DOMAIN queue'[k] /\ queue'[k][i] = queue[k][i]
  <2> SUFFICES ASSUME NEW k \in 1..4, NEW i \in DOMAIN queue[k]
               PROVE  i \in DOMAIN queue'[k] /\ queue'[k][i] = queue[k][i]
    OBVIOUS
  <2>1. queue[k] \in Seq(Announces)
    BY <1>4
  <2>2. queue'[k] = queue[k] \/ queue'[k] = Append(queue[k], a)
    BY <1>3
  <2> QED
    BY <1>1, <2>1, <2>2, AppendKeeps
<1>6. \A k \in 1..4 : \A i \in DOMAIN queue'[k] :
         \/ i \in DOMAIN queue[k] /\ queue'[k][i] = queue[k][i]
         \/ /\ s <= subscribed /\ k = s /\ queue'[k][i] = a
            /\ i = Len(queue[k]) + 1
  <2> SUFFICES ASSUME NEW k \in 1..4, NEW i \in DOMAIN queue'[k],
                      ~(i \in DOMAIN queue[k] /\ queue'[k][i] = queue[k][i])
               PROVE  /\ s <= subscribed /\ k = s /\ queue'[k][i] = a
                      /\ i = Len(queue[k]) + 1
    OBVIOUS
  <2>1. queue[k] \in Seq(Announces)
    BY <1>4
  <2>2. s <= subscribed /\ k = s /\ queue'[k] = Append(queue[k], a)
    BY <1>3
  <2> QED
    BY <1>1, <2>1, <2>2, AppendKeeps
<1>7. s <= subscribed => Len(queue[s]) + 1 \in DOMAIN queue'[s] /\ queue'[s][Len(queue[s]) + 1] = a
  <2>1. queue[s] \in Seq(Announces)
    BY <1>1, <1>4
  <2>2. s <= subscribed => queue'[s] = Append(queue[s], a)
    BY <1>1, <1>3
  <2> QED
    BY <1>1, <2>1, <2>2, AppendKeeps
<1>8. \A d : Pending(d) => Pending(d)'
  BY <1>5 DEF Pending
<1>9. s <= subscribed => Pending(a.from)'
  BY <1>1, <1>7 DEF Pending
<1>10. Subscriptions'
  BY <1>1, <1>3 DEF DirectoryInv, StreamsOK, Subscriptions, Hear, TypeOK
<1>11. OnePerDestination'
  BY <1>2 DEF DirectoryInv, StreamsOK, OnePerDestination
<1>12. InOwnStream'
  <2>1. \A d : StreamOf(d)' = StreamOf(d)
    BY DEF StreamOf, Streams
  <2> QED
    BY <1>6, <2>1 DEF DirectoryInv, StreamsOK, InOwnStream, s
<1>13. LastIsCached'
  <2> SUFFICES ASSUME NEW k \in 1..4, NEW i \in DOMAIN queue'[k], LastInStream(k, i)'
               PROVE  queue'[k][i] \in cache'
    BY DEF LastIsCached
  <2>1. CASE i \in DOMAIN queue[k] /\ queue'[k][i] = queue[k][i]
    <3>1. LastInStream(k, i)
      BY <1>5, <2>1 DEF LastInStream
    <3>2. queue[k][i] \in cache
      BY <2>1, <3>1 DEF DirectoryInv, StreamsOK, LastIsCached
    <3>3. ASSUME queue[k][i].from = a.from PROVE FALSE
      <4>1. k = s
        BY <2>1, <3>3 DEF DirectoryInv, StreamsOK, InOwnStream, s
      <4>2. s <= subscribed
        BY <1>1, <1>4, <2>1, <4>1 DEF DirectoryInv, StreamsOK, Subscriptions, TypeOK
      <4>3. Len(queue[s]) + 1 > i
        BY <1>4, <2>1, <4>1
      <4> QED
        BY <1>7, <2>1, <3>3, <4>1, <4>2, <4>3 DEF LastInStream
    <3> QED
      BY <1>2, <2>1, <3>2, <3>3
  <2>2. CASE queue'[k][i] = a
    BY <1>2, <2>2
  <2> QED
    BY <1>6, <2>1, <2>2
<1>14. SeedsAreCurrent'
  <2> SUFFICES ASSUME NEW b \in seeds PROVE b \in cache' \/ Pending(b.from)'
    BY DEF SeedsAreCurrent, Hear
  <2>1. phase = "seeding" /\ subscribed = 4
    BY DEF DirectoryInv, StreamsOK, Subscriptions
  <2>2. b \in cache \/ Pending(b.from)
    BY DEF DirectoryInv, StreamsOK, SeedsAreCurrent
  <2> QED
    BY <1>1, <1>2, <1>8, <1>9, <2>1, <2>2
<1>15. Told'
  <2> SUFFICES ASSUME phase \in {"seeding", "running"}, NEW b \in cache',
                      b.from \in DOMAIN table \ missed, ~Pending(b.from)', b \notin seeds
               PROVE  Agrees(table[b.from], b)
    BY DEF Told, Agrees, IsActive, NameIn, Hear
  <2>1. s <= subscribed
    BY <1>1 DEF DirectoryInv, StreamsOK, Subscriptions
  <2>2. b # a /\ b \in cache
    BY <1>2, <1>9, <2>1
  <2> QED
    BY <1>8, <2>2 DEF DirectoryInv, Told
<1>16. StatesAreStored'
  BY DEF DirectoryInv, StatesAreStored, StateOf, Hear
<1> QED
  BY <1>10, <1>11, <1>12, <1>13, <1>14, <1>15, <1>16 DEF StreamsOK

LEMMA StartDirectory ==
    ASSUME DirectoryInv, Start
    PROVE  StreamsOK' /\ Told' /\ StatesAreStored'
<1>1. TypeOK /\ seeds = {} /\ subscribed = 0 /\ subscribed' = 0 /\ seeds' = {}
  BY DEF DirectoryInv, StreamsOK, Subscriptions, Start
<1>2. \A k \in 1..4 : queue'[k] = <<>> /\ DOMAIN queue'[k] = {}
  BY <1>1 DEF DirectoryInv, StreamsOK, Subscriptions, Start
<1>3. StreamsOK'
  BY <1>1, <1>2 DEF DirectoryInv, StreamsOK, Subscriptions, OnePerDestination, InOwnStream,
                    LastIsCached, SeedsAreCurrent, Start
<1>4. Told'
  BY DEF Told, Start
<1>5. StatesAreStored'
  BY PruneFacts DEF DirectoryInv, StatesAreStored, StateOf, Start
<1> QED
  BY <1>3, <1>4, <1>5

LEMMA StopDirectory ==
    ASSUME DirectoryInv, Stop
    PROVE  StreamsOK' /\ Told' /\ StatesAreStored'
<1>1. \A k \in 1..4 : queue'[k] = <<>> /\ DOMAIN queue'[k] = {}
  BY DEF Stop
<1>2. StreamsOK'
  BY <1>1 DEF DirectoryInv, StreamsOK, Subscriptions, OnePerDestination, InOwnStream,
              LastIsCached, SeedsAreCurrent, Stop
<1>3. Told' /\ StatesAreStored'
  BY DEF DirectoryInv, Told, StatesAreStored, StateOf, Stop
<1> QED
  BY <1>2, <1>3

\* The steps that leave queues, cache and table alone.
LEMMA RunDirectory ==
    ASSUME DirectoryInv, Subscribe \/ AskRecent \/ EnterLoop
    PROVE  StreamsOK' /\ Told' /\ StatesAreStored'
<1>1. TypeOK /\ UNCHANGED <<queue, cache, table, missed>>
  BY DEF DirectoryInv, Subscribe, AskRecent, EnterLoop, streams
<1>2. OnePerDestination' /\ InOwnStream' /\ LastIsCached' /\ StatesAreStored'
  BY <1>1 DEF DirectoryInv, StreamsOK, OnePerDestination, InOwnStream, LastIsCached,
              LastInStream, StatesAreStored, StateOf, StreamOf, Streams
<1>3. Subscriptions' /\ SeedsAreCurrent'
  BY <1>1 DEF DirectoryInv, StreamsOK, Subscriptions, SeedsAreCurrent, Pending, TypeOK,
              Subscribe, AskRecent, EnterLoop, streams
<1>4. Told'
  <2>1. CASE Subscribe
    BY <2>1 DEF Told, Subscribe
  <2>2. CASE AskRecent
    BY <1>1, <2>2 DEF Told, AskRecent
  <2>3. CASE EnterLoop
    <3>1. Told /\ phase = "seeding" /\ UNCHANGED <<queue, cache, table, missed, seeds>>
      BY <2>3 DEF DirectoryInv, EnterLoop, streams
    <3> QED
      BY <3>1 DEF Told, Agrees, IsActive, NameIn, Pending
  <2> QED
    BY <2>1, <2>2, <2>3
<1> QED
  BY <1>2, <1>3, <1>4 DEF StreamsOK

LEMMA IdleDirectory ==
    ASSUME DirectoryInv, UNCHANGED <<phase, streams, table, missed>>
    PROVE  StreamsOK' /\ Told' /\ StatesAreStored'
<1>1. UNCHANGED <<phase, subscribed, queue, cache, seeds, table, missed>>
  BY DEF streams
<1>2. StreamsOK'
  BY <1>1 DEF DirectoryInv, StreamsOK, Subscriptions, OnePerDestination, InOwnStream,
              LastIsCached, LastInStream, SeedsAreCurrent, Pending, StreamOf, Streams
<1>3. Told' /\ StatesAreStored'
  <2>1. Told /\ StatesAreStored
    BY DEF DirectoryInv
  <2>2. Told'
    BY <1>1, <2>1, ZenonT(60) DEF Told, Agrees, IsActive, NameIn, Pending
  <2>3. StatesAreStored'
    BY <1>1, <2>1 DEF StatesAreStored, StateOf
  <2> QED
    BY <2>2, <2>3
<1> QED
  BY <1>2, <1>3

LEMMA NextDirectory == DirectoryInv /\ [Next]_vars => DirectoryInv'
<1> SUFFICES ASSUME DirectoryInv, [Next]_vars PROVE DirectoryInv'
  OBVIOUS
<1>1. TypeOK'
  BY NextTypes DEF DirectoryInv
<1>2. StreamsOK' /\ Told' /\ StatesAreStored'
  <2>1. CASE \E a \in Arriving : Hear(a)
    BY <2>1, HearDirectory
  <2>2. CASE Start
    BY <2>2, StartDirectory
  <2>3. CASE Subscribe \/ AskRecent \/ EnterLoop
    BY <2>3, RunDirectory
  <2>4. CASE \E a \in seeds : Seed(a)
    BY <2>4, SeedDirectory
  <2>5. CASE \E k \in 1..4 : ReceiveAnnounce(k)
    BY <2>5, ReceiveDirectory
  <2>6. CASE Stop
    BY <2>6, StopDirectory
  <2>7. CASE \/ FinishDownload \/ (\E node \in Destinations : Tick(node))
             \/ TimePasses \/ UNCHANGED vars
    <3>1. UNCHANGED <<phase, streams, table, missed>>
      BY <2>7 DEF FinishDownload, Tick, TimePasses, vars
    <3> QED
      BY <3>1, IdleDirectory
  <2> QED
    BY <2>1, <2>2, <2>3, <2>4, <2>5, <2>6, <2>7 DEF Next
<1> QED
  BY <1>1, <1>2 DEF DirectoryInv

\* Once the announces of a destination are taken from its stream the table says
\* what the last of them said, and a node is active exactly if the newest app
\* data stored of it says so (process_announce, upsert_directory_entry).
THEOREM TableCatchesUp == Spec => []DirectoryCatchesUp
<1>1. Init => DirectoryInv
  BY InitDirectory
<1>2. DirectoryInv /\ [Next]_vars => DirectoryInv'
  BY NextDirectory
<1>3. DirectoryInv => DirectoryCatchesUp
  BY DirectoryInvImplies
<1> QED
  BY <1>1, <1>2, <1>3, PTL DEF Spec

-----------------------------------------------------------------------------
(* Downloads are paced: while no other node is selected, what the loop     *)
(* counts since its last download is the time since it.                    *)

AgeIsElapsed == ~turned => age = elapsed

PacingInv == TypeOK /\ AgeIsElapsed

LEMMA InitPacing == Init => PacingInv
BY InitTypes DEF Init, PacingInv, AgeIsElapsed

LEMMA TickPacing ==
    ASSUME PacingInv, NEW node \in Destinations, Tick(node)
    PROVE  /\ AgeIsElapsed'
           /\ client = "idle" /\ client' = "busy" =>
                elapsed = Pacing \/ turned \/ selected' # selected
<1>1. turned \in BOOLEAN /\ (~turned => age = elapsed)
  BY Zenon DEF PacingInv, TypeOK, AgeIsElapsed
<1>2. AgeIsElapsed'
  <2>1. CASE age' = 0 /\ elapsed' = 0
    BY <2>1 DEF AgeIsElapsed
  <2>2. CASE /\ age' = AgeFor(node) /\ elapsed' = elapsed
             /\ turned' = (turned \/ selected # node)
    <3> SUFFICES ASSUME ~turned' PROVE age' = elapsed'
      BY DEF AgeIsElapsed
    <3>1. ~(turned \/ selected # node)
      BY <2>2, Zenon
    <3> QED
      BY <1>1, <2>2, <3>1 DEF AgeFor
  <2> QED
    BY <2>1, <2>2, Zenon DEF Tick
<1>3. client = "idle" /\ client' = "busy" => elapsed = Pacing \/ turned \/ selected' # selected
  BY <1>1 DEF Tick, AgeFor
<1> QED
  BY <1>2, <1>3

LEMMA TimePacing == ASSUME PacingInv, TimePasses PROVE AgeIsElapsed'
BY DEF PacingInv, AgeIsElapsed, TimePasses

LEMMA NextPacing ==
    PacingInv /\ [Next]_vars =>
       /\ PacingInv'
       /\ [client = "idle" /\ client' = "busy" =>
              elapsed = Pacing \/ turned \/ selected' # selected]_vars
<1> SUFFICES ASSUME PacingInv, [Next]_vars
             PROVE  /\ AgeIsElapsed'
                    /\ client = "idle" /\ client' = "busy" =>
                          elapsed = Pacing \/ turned \/ selected' # selected
  BY NextTypes DEF PacingInv
<1>1. CASE \E node \in Destinations : Tick(node)
  BY <1>1, TickPacing
<1>2. CASE TimePasses
  BY <1>2, TimePacing DEF TimePasses
<1>3. CASE FinishDownload \/ Stop
  BY <1>3 DEF FinishDownload, Stop, history, PacingInv, AgeIsElapsed
<1>4. CASE UNCHANGED <<choice, history>>
  BY <1>4 DEF choice, history, PacingInv, AgeIsElapsed
<1>5. \/ \E node \in Destinations : Tick(node)
      \/ TimePasses \/ FinishDownload \/ Stop
      \/ UNCHANGED <<choice, history>>
  BY DEF Next, vars, Hear, Start, Subscribe, AskRecent, EnterLoop, Seed, ReceiveAnnounce, choice,
         history
<1> QED
  BY <1>1, <1>2, <1>3, <1>4, <1>5

\* Two downloads are at least the pacing apart unless another node was selected
\* in between (the tick of run()).
THEOREM DownloadsWait == Spec => DownloadsArePaced
<1>1. Init => PacingInv
  BY InitPacing
<1>2. PacingInv /\ [Next]_vars =>
         PacingInv' /\ [client = "idle" /\ client' = "busy" =>
                           elapsed = Pacing \/ turned \/ selected' # selected]_vars
  BY NextPacing
<1> QED
  BY <1>1, <1>2, PTL DEF Spec, DownloadsArePaced

-----------------------------------------------------------------------------
(* The hubs of the RRC task                                                *)

Events == [hub : Hubs, connected : BOOLEAN]
Sessions == {"none", "connecting", "connected"}

-----------------------------------------------------------------------------
(* Commands                                                                *)

LEMMA CommandTypes ==
    ASSUME NEW c \in Commands
    PROVE  /\ c.hub \in Hubs
           /\ c.op \in {"connect", "disconnect", "nick", "join", "part"}
           /\ c.op \in {"join", "part"} => c.room \in Spellings /\ Normal[c.room] \in Rooms
BY AdapterAssumption DEF Commands

\* What the library does for each command.
LEMMA CallCases ==
    ASSUME NEW c \in Commands, Call(c)
    PROVE  \/ c.op = "connect" /\ OpenSession(c.hub)
           \/ c.op = "disconnect" /\ CloseSession(c.hub)
           \/ c.op = "nick" /\ SetNick(c.hub)
           \/ c.op = "join" /\ JoinRoom(c.hub, Normal[c.room])
           \/ c.op = "part" /\ PartRoom(c.hub, Normal[c.room])
<1>1. c.op \in {"connect", "disconnect", "nick", "join", "part"}
  BY CommandTypes
<1> QED
  BY <1>1, Zenon DEF Call

\* What each command leaves in the tables.
LEMMA KeepCases ==
    ASSUME NEW c \in Commands, Keep(c)
    PROVE  \/ /\ c.op \in {"connect", "nick"}
              /\ savedHubs' = savedHubs \cup {c.hub} /\ UNCHANGED savedRooms
           \/ /\ c.op = "join"
              /\ savedRooms' = savedRooms \cup ({c.hub} \cap savedHubs) \X {Normal[c.room]}
              /\ UNCHANGED savedHubs
           \/ /\ c.op = "part"
              /\ savedRooms' = savedRooms \ {<<c.hub, Normal[c.room]>>} /\ UNCHANGED savedHubs
           \/ /\ c.op = "disconnect"
              /\ savedHubs' = savedHubs \ {c.hub}
              /\ savedRooms' = savedRooms \ ({c.hub} \X Rooms)
<1>1. c.op \in {"connect", "nick"} \/ c.op = "join" \/ c.op = "part" \/ c.op = "disconnect"
  BY CommandTypes
<1> QED
  BY <1>1, Zenon DEF Keep, SavedName

LEMMA SubjectCases ==
    ASSUME NEW c \in Commands
    PROVE  Subject(c) = IF c.op \in {"connect", "nick"} THEN {c.hub}
                        ELSE IF c.op = "disconnect" THEN {c.hub} \cup ({c.hub} \X Rooms)
                        ELSE {<<c.hub, Normal[c.room]>>}
BY Zenon DEF Subject

LEMMA ExpectedCases ==
    ASSUME NEW c \in Commands
    PROVE  /\ c.op \in {"connect", "nick"} => Expected(c) = TRUE
           /\ c.op \in {"part", "disconnect"} => Expected(c) = FALSE
           /\ c.op = "join" => Expected(c) = IF c.hub \in savedHubs THEN TRUE ELSE Nothing
<1>1. c.op \in {"connect", "nick"} => Expected(c) = TRUE
  BY Zenon DEF Expected
<1>2. ASSUME c.op \in {"part", "disconnect"} PROVE Expected(c) = FALSE
  <2>1. c.op \notin {"connect", "nick"}
    BY <1>2
  <2> QED
    BY <1>2, <2>1, Zenon DEF Expected
<1>3. ASSUME c.op = "join"
      PROVE  Expected(c) = IF c.hub \in savedHubs THEN TRUE ELSE Nothing
  <2>1. c.op \notin {"connect", "nick"} /\ c.op \notin {"part", "disconnect"}
    BY <1>3
  <2> QED
    BY <1>3, <2>1, Zenon DEF Expected
<1> QED
  BY <1>1, <1>2, <1>3

-----------------------------------------------------------------------------
(* The channel of events                                                   *)

LEMMA EmitTypes ==
    ASSUME AdapterTypeOK, NEW h \in Hubs, Emit(h)
    PROVE  /\ events' \in Seq(Events) /\ Len(events') \in 1..EventLimit
           /\ events'[Len(events')] = [hub |-> h, connected |-> session'[h] = "connected"]
           /\ \E d \in {0, 1} :
                 /\ Len(events) = Len(events') - 1 + d
                 /\ \A k \in 1..Len(events') - 1 : events'[k] = events[k + d]
           /\ skipped' \subseteq Hubs
<1> DEFINE event == [hub |-> h, connected |-> session'[h] = "connected"]
<1>1. event \in Events
  <2>1. (session'[h] = "connected") \in BOOLEAN
    OBVIOUS
  <2> QED
    BY <2>1 DEF Events
<1>2. /\ events \in Seq(Events) /\ Len(events) \in 0..EventLimit
      /\ EventLimit \in Nat \ {0}
  BY AdapterAssumption DEF AdapterTypeOK, Events
<1> HIDE DEF event
<1>3. CASE Len(events) = EventLimit
  <2> DEFINE kept == Tail(events)
  <2>1. /\ kept \in Seq(Events) /\ Len(kept) = Len(events) - 1
        /\ \A k \in 1..Len(kept) : kept[k] = events[k + 1]
    BY <1>2, <1>3
  <2>2. events' = Append(kept, event)
    BY <1>3 DEF Emit, event
  <2> HIDE DEF kept
  <2>3. /\ events' \in Seq(Events) /\ Len(events') = Len(events)
        /\ events'[Len(events')] = event
        /\ \A k \in 1..Len(events') - 1 : events'[k] = events[k + 1]
    BY <1>1, <1>2, <2>1, <2>2
  <2>4. Head(events).hub \in Hubs
    <3>1. Head(events) \in Events
      BY <1>2, <1>3
    <3> QED
      BY <3>1 DEF Events
  <2>5. skipped' \subseteq Hubs
    BY <1>3, <2>4 DEF Emit, AdapterTypeOK
  <2> QED
    BY <1>2, <1>3, <2>3, <2>5 DEF event
<1>4. CASE Len(events) # EventLimit
  <2>1. events' = Append(events, event)
    BY <1>4 DEF Emit, event
  <2>2. /\ events' \in Seq(Events) /\ Len(events') = Len(events) + 1
        /\ events'[Len(events')] = event
        /\ \A k \in 1..Len(events') - 1 : events'[k] = events[k + 0]
    BY <1>1, <1>2, <2>1
  <2>3. skipped' \subseteq Hubs
    BY <1>4 DEF Emit, AdapterTypeOK
  <2> QED
    BY <1>2, <1>4, <2>2, <2>3 DEF event
<1> QED
  BY <1>3, <1>4

\* A call of the library, or the end or the start of a link.
LibraryTypeOK ==
    /\ session \in [Hubs -> Sessions]
    /\ joined \in [Hubs -> SUBSET Rooms]
    /\ events \in Seq(Events) /\ Len(events) <= EventLimit
    /\ skipped \subseteq Hubs

Calls(h) ==
    \/ OpenSession(h) \/ CloseSession(h) \/ SetNick(h)
    \/ \E r \in Rooms : JoinRoom(h, r) \/ PartRoom(h, r)

LEMMA CallTypes ==
    ASSUME AdapterTypeOK, NEW h \in Hubs, Calls(h)
    PROVE  LibraryTypeOK'
<1>1. Emit(h)
  BY DEF Calls, OpenSession, CloseSession, SetNick, JoinRoom, PartRoom
<1>2. session' \in [Hubs -> Sessions]
  BY DEF Calls, OpenSession, CloseSession, SetNick, JoinRoom, PartRoom, AdapterTypeOK, Sessions
<1>3. joined' \in [Hubs -> SUBSET Rooms]
  BY DEF Calls, OpenSession, CloseSession, SetNick, JoinRoom, PartRoom, AdapterTypeOK
<1>4. /\ events' \in Seq(Events) /\ Len(events') \in 1..EventLimit
      /\ skipped' \subseteq Hubs
  BY <1>1, EmitTypes
<1> QED
  BY <1>2, <1>3, <1>4, AdapterAssumption DEF LibraryTypeOK

\* What handle_command calls.
LEMMA CallIsCall ==
    ASSUME NEW c \in Commands, Call(c)
    PROVE  c.hub \in Hubs /\ Calls(c.hub)
BY CommandTypes, CallCases DEF Calls

LEMMA LibraryKeepsTypes ==
    ASSUME AdapterTypeOK, LibraryTypeOK',
           UNCHANGED <<running, work, restoring, tables, clients, late, spent>>
    PROVE  AdapterTypeOK'
BY DEF AdapterTypeOK, LibraryTypeOK, Events, Sessions, work, tables, clients, spent

-----------------------------------------------------------------------------
(* Type correctness                                                        *)

LEMMA AdapterInitTypes == AdapterInit => AdapterTypeOK
<1> SUFFICES ASSUME AdapterInit PROVE AdapterTypeOK
  OBVIOUS
<1>1. promised \in [Things -> BOOLEAN \cup {Nothing}]
  BY DEF AdapterInit
<1>2. events \in Seq([hub : Hubs, connected : BOOLEAN]) /\ Len(events) <= EventLimit
  BY AdapterAssumption DEF AdapterInit
<1>3. /\ restoring \in [Hubs -> Restorations \cup {Nothing}]
      /\ session \in [Hubs -> {"none", "connecting", "connected"}]
      /\ joined \in [Hubs -> SUBSET Rooms]
  BY DEF AdapterInit
<1>4. /\ commands \in 0..MaxCommands /\ taskStops \in 0..MaxTaskStops
      /\ drops \in 0..MaxDrops /\ failures \in 0..MaxFailures
  BY AdapterAssumption DEF AdapterInit
<1>5. running \in BOOLEAN
  BY DEF AdapterInit
<1>6. /\ command = Nothing /\ result = "asked" /\ skipped = {} /\ savedHubs = {}
      /\ savedRooms = {} /\ told = {} /\ late = {}
  BY DEF AdapterInit
<1> QED
  BY <1>1, <1>2, <1>3, <1>4, <1>5, <1>6 DEF AdapterTypeOK

LEMMA PromiseTypes ==
    ASSUME AdapterTypeOK, NEW c, NEW value \in BOOLEAN \cup {Nothing}, Promise(c, value)
    PROVE  promised' \in [Things -> BOOLEAN \cup {Nothing}]
BY DEF Promise, AdapterTypeOK

LEMMA KeepTypes ==
    ASSUME AdapterTypeOK, NEW c \in Commands, Keep(c)
    PROVE  savedHubs' \subseteq Hubs /\ savedRooms' \subseteq savedHubs' \X Rooms
<1>1. c.hub \in Hubs /\ (c.op = "join" => Normal[c.room] \in Rooms)
  BY CommandTypes
<1>2. savedHubs \subseteq Hubs /\ savedRooms \subseteq savedHubs \X Rooms
  BY DEF AdapterTypeOK
<1> QED
  BY <1>1, <1>2, KeepCases

\* The two events of a link.
LEMMA LinkTypes ==
    ASSUME AdapterTypeOK, NEW h \in Hubs, SessionReady(h) \/ LinkLost(h)
    PROVE  AdapterTypeOK'
<1>1. /\ events' \in Seq(Events) /\ Len(events') \in 1..EventLimit
      /\ skipped' \subseteq Hubs
  BY EmitTypes DEF SessionReady, LinkLost
<1>2. session' \in [Hubs -> Sessions]
  BY DEF SessionReady, LinkLost, AdapterTypeOK, Sessions
<1>3. drops' \in 0..MaxDrops
  BY AdapterAssumption DEF SessionReady, LinkLost, AdapterTypeOK, spent
<1>4. Len(events') <= EventLimit
  BY <1>1, AdapterAssumption
<1>5. UNCHANGED <<running, work, restoring, joined, tables, clients, late, commands, taskStops,
                  failures>>
  BY DEF SessionReady, LinkLost, spent
<1> QED
  BY <1>1, <1>2, <1>3, <1>4, <1>5
  DEF AdapterTypeOK, Events, Sessions, work, tables, clients

LEMMA CommandStepTypes ==
    ASSUME AdapterTypeOK, (\E c \in Commands : Receive(c)) \/ Return \/ Answer
    PROVE  AdapterTypeOK'
<1>1. ASSUME NEW c \in Commands, Receive(c) PROVE AdapterTypeOK'
  BY <1>1, AdapterAssumption DEF Receive, AdapterTypeOK, library, tables, clients
<1>2. CASE Return
  <2>1. command \in Commands
    BY <1>2 DEF Return, AdapterTypeOK
  <2>2. LibraryTypeOK'
    <3>1. CASE Call(command)
      BY <2>1, <3>1, CallIsCall, CallTypes
    <3>2. CASE UNCHANGED library
      BY <3>2 DEF library, LibraryTypeOK, AdapterTypeOK, Events, Sessions
    <3> QED
      BY <1>2, <3>1, <3>2 DEF Return
  <2>3. result' \in {"ok", "error"}
    BY <1>2 DEF Return
  <2> QED
    BY <1>2, <2>2, <2>3
    DEF Return, AdapterTypeOK, LibraryTypeOK, Events, Sessions, tables, clients, spent
<1>3. CASE Answer
  <2>1. command \in Commands
    BY <1>3 DEF Answer, AdapterTypeOK
  <2>2. Expected(command) \in BOOLEAN \cup {Nothing}
    BY <2>1, CommandTypes, ExpectedCases
  <2>3. /\ savedHubs' \subseteq Hubs /\ savedRooms' \subseteq savedHubs' \X Rooms
        /\ promised' \in [Things -> BOOLEAN \cup {Nothing}]
        /\ failures' \in 0..MaxFailures
    <3>1. CASE Keep(command) /\ Promise(command, Expected(command)) /\ UNCHANGED failures
      BY <2>1, <2>2, <3>1, KeepTypes, PromiseTypes DEF AdapterTypeOK
    <3>2. CASE /\ failures < MaxFailures /\ failures' = failures + 1
               /\ Promise(command, Nothing) /\ UNCHANGED tables
      BY <3>2, PromiseTypes, AdapterAssumption DEF AdapterTypeOK, tables
    <3>3. CASE UNCHANGED <<tables, clients, failures>>
      BY <3>3 DEF AdapterTypeOK, tables, clients
    <3> QED
      BY <1>3, <3>1, <3>2, <3>3 DEF Answer
  <2>4. told' \subseteq Hubs
    BY <1>3 DEF Answer, AdapterTypeOK, clients
  <2> QED
    BY <1>3, <2>3, <2>4 DEF Answer, AdapterTypeOK, library
<1> QED
  BY <1>1, <1>2, <1>3

\* A task that restores a hub.
LEMMA RestorationTypes ==
    ASSUME AdapterTypeOK, NEW h \in Hubs, restoring[h] # Nothing
    PROVE  restoring[h] \in Restorations /\ restoring[h].rooms \subseteq Rooms
BY DEF AdapterTypeOK, Restorations

LEMMA GiveUpTypes ==
    ASSUME AdapterTypeOK, NEW h \in Hubs, restoring[h] # Nothing, GiveUp(h)
    PROVE  restoring' \in [Hubs -> Restorations \cup {Nothing}] /\ late' \subseteq Hubs \X Rooms
BY RestorationTypes DEF GiveUp, AdapterTypeOK

LEMMA RestoreStepTypes ==
    ASSUME AdapterTypeOK,
           \/ \E h \in Hubs : RestoreConnect(h) \/ RestoreWait(h) \/ RestoreEnd(h)
           \/ \E h \in Hubs, r \in Rooms : RestoreJoin(h, r)
    PROVE  AdapterTypeOK'
<1>1. ASSUME LibraryTypeOK',
             restoring' \in [Hubs -> Restorations \cup {Nothing}],
             late' \subseteq Hubs \X Rooms,
             UNCHANGED <<running, work, tables, clients, spent>>
      PROVE  AdapterTypeOK'
  BY <1>1 DEF AdapterTypeOK, LibraryTypeOK, Events, Sessions, work, tables, clients, spent
<1>2. ASSUME UNCHANGED library PROVE LibraryTypeOK'
  BY <1>2 DEF library, LibraryTypeOK, AdapterTypeOK, Events, Sessions
<1>3. ASSUME NEW h \in Hubs, RestoreConnect(h) PROVE AdapterTypeOK'
  <2>1. restoring[h] # Nothing
    BY <1>3 DEF RestoreConnect, Restoring
  <2>2. CASE /\ OpenSession(h) /\ restoring' = [restoring EXCEPT ![h].step = "wait"]
             /\ UNCHANGED late
    <3>1. [restoring[h] EXCEPT !.step = "wait"] \in Restorations
      BY <2>1, RestorationTypes DEF Restorations
    <3>2. restoring' \in [Hubs -> Restorations \cup {Nothing}]
      BY <2>2, <3>1 DEF AdapterTypeOK
    <3>3. LibraryTypeOK'
      BY <2>2, CallTypes DEF Calls
    <3> QED
      BY <1>1, <1>3, <2>2, <3>2, <3>3 DEF RestoreConnect, AdapterTypeOK
  <2>3. CASE GiveUp(h) /\ UNCHANGED library
    BY <1>1, <1>2, <1>3, <2>1, <2>3, GiveUpTypes DEF RestoreConnect
  <2> QED
    BY <1>3, <2>2, <2>3 DEF RestoreConnect
<1>4. ASSUME NEW h \in Hubs, RestoreWait(h) PROVE AdapterTypeOK'
  <2>1. restoring[h] # Nothing
    BY <1>4 DEF RestoreWait, Restoring
  <2>2. CASE restoring' = [restoring EXCEPT ![h].step = "join"] /\ UNCHANGED late
    <3>1. [restoring[h] EXCEPT !.step = "join"] \in Restorations
      BY <2>1, RestorationTypes DEF Restorations
    <3>2. restoring' \in [Hubs -> Restorations \cup {Nothing}]
      BY <2>2, <3>1 DEF AdapterTypeOK
    <3> QED
      BY <1>1, <1>2, <1>4, <2>2, <3>2 DEF RestoreWait, AdapterTypeOK
  <2>3. CASE GiveUp(h)
    BY <1>1, <1>2, <1>4, <2>1, <2>3, GiveUpTypes DEF RestoreWait
  <2> QED
    BY <1>4, <2>2, <2>3 DEF RestoreWait
<1>5. ASSUME NEW h \in Hubs, RestoreEnd(h) PROVE AdapterTypeOK'
  <2>1. restoring' \in [Hubs -> Restorations \cup {Nothing}] /\ late' \subseteq Hubs \X Rooms
    BY <1>5 DEF RestoreEnd, AdapterTypeOK
  <2> QED
    BY <1>1, <1>2, <1>5, <2>1 DEF RestoreEnd
<1>6. ASSUME NEW h \in Hubs, NEW r \in Rooms, RestoreJoin(h, r) PROVE AdapterTypeOK'
  <2>1. restoring[h] # Nothing
    BY <1>6 DEF RestoreJoin, Restoring
  <2>2. CASE /\ JoinRoom(h, r) /\ restoring' = [restoring EXCEPT ![h].rooms = @ \ {r}]
             /\ UNCHANGED late
    <3>1. [restoring[h] EXCEPT !.rooms = @ \ {r}] \in Restorations
      BY <2>1, RestorationTypes DEF Restorations
    <3>2. restoring' \in [Hubs -> Restorations \cup {Nothing}]
      BY <2>2, <3>1 DEF AdapterTypeOK
    <3>3. LibraryTypeOK'
      BY <2>2, CallTypes DEF Calls
    <3> QED
      BY <1>1, <1>6, <2>2, <3>2, <3>3 DEF RestoreJoin, AdapterTypeOK
  <2>3. CASE /\ restoring' = [restoring EXCEPT ![h] = AfterRefusal(@, r)]
             /\ late' = late \cup ({h} \X ({r} \ joined[h])) /\ UNCHANGED library
    <3>1. AfterRefusal(restoring[h], r) \in Restorations
      BY <2>1, RestorationTypes DEF AfterRefusal, Task, Restorations
    <3>2. restoring' \in [Hubs -> Restorations \cup {Nothing}]
      BY <2>3, <3>1 DEF AdapterTypeOK
    <3>3. late' \subseteq Hubs \X Rooms
      BY <2>3 DEF AdapterTypeOK
    <3> QED
      BY <1>1, <1>2, <1>6, <2>3, <3>2, <3>3 DEF RestoreJoin
  <2> QED
    BY <1>6, <2>2, <2>3 DEF RestoreJoin
<1> QED
  BY <1>3, <1>4, <1>5, <1>6

LEMMA AdapterNextTypes == AdapterTypeOK /\ [AdapterNext]_adapterVars => AdapterTypeOK'
<1> SUFFICES ASSUME AdapterTypeOK, [AdapterNext]_adapterVars PROVE AdapterTypeOK'
  OBVIOUS
<1>1. CASE StartTask
  <2>1. \A h \in Hubs : Task("connect", RoomsSaved(h)) \in Restorations
    BY DEF Task, Restorations, RoomsSaved
  <2>2. restoring' \in [Hubs -> Restorations \cup {Nothing}]
    BY <1>1, <2>1 DEF StartTask
  <2>3. running' \in BOOLEAN
    BY <1>1 DEF StartTask
  <2> QED
    BY <1>1, <2>2, <2>3 DEF StartTask, AdapterTypeOK, work, library, tables, clients, spent
<1>2. CASE StopTask
  <2>1. promised' \in [Things -> BOOLEAN \cup {Nothing}]
    BY <1>2, PromiseTypes DEF StopTask, AdapterTypeOK
  <2>2. events' \in Seq([hub : Hubs, connected : BOOLEAN]) /\ Len(events') <= EventLimit
    BY <1>2, AdapterAssumption DEF StopTask
  <2>3. /\ restoring' \in [Hubs -> Restorations \cup {Nothing}]
        /\ session' \in [Hubs -> {"none", "connecting", "connected"}]
        /\ joined' \in [Hubs -> SUBSET Rooms]
    BY <1>2 DEF StopTask
  <2>4. taskStops' \in 0..MaxTaskStops
    <3>1. taskStops' = taskStops + 1 /\ taskStops < MaxTaskStops
      BY <1>2 DEF StopTask
    <3> QED
      BY <3>1, AdapterAssumption DEF AdapterTypeOK
  <2>5. running' \in BOOLEAN
    BY <1>2 DEF StopTask
  <2>6. /\ command' = Nothing /\ result' = "asked" /\ skipped' = {} /\ late' = {}
        /\ UNCHANGED <<savedHubs, savedRooms, told, commands, drops, failures>>
    BY <1>2 DEF StopTask, tables
  <2> QED
    BY <2>1, <2>2, <2>3, <2>4, <2>5, <2>6 DEF AdapterTypeOK
<1>3. CASE ForwardEvent
  <2>1. events \in Seq(Events) /\ events # <<>>
    BY <1>3 DEF ForwardEvent, AdapterTypeOK, Events
  <2>2. Head(events).hub \in Hubs
    <3>1. Head(events) \in Events
      BY <2>1
    <3> QED
      BY <3>1 DEF Events
  <2>3. events' \in Seq(Events) /\ Len(events') <= EventLimit
    BY <1>3, <2>1, AdapterAssumption DEF ForwardEvent, AdapterTypeOK
  <2>4. told' \subseteq Hubs
    BY <1>3, <2>2 DEF ForwardEvent, AdapterTypeOK
  <2> QED
    BY <1>3, <2>3, <2>4 DEF ForwardEvent, AdapterTypeOK, Events, work, tables, spent
<1>4. CASE UNCHANGED adapterVars
  BY <1>4 DEF AdapterTypeOK, adapterVars, work, library, tables, clients, spent
<1> QED
  BY <1>1, <1>2, <1>3, <1>4, LinkTypes, CommandStepTypes, RestoreStepTypes DEF AdapterNext

\* Every reachable state of the RRC task is well typed; among that, no room is
\* saved without its hub, and the channel of events keeps to its capacity.
THEOREM AdapterTypeCorrect == AdapterSpec => []AdapterTypeOK
<1> QED
  BY AdapterInitTypes, AdapterNextTypes, PTL DEF AdapterSpec

-----------------------------------------------------------------------------
(* What the user was told is kept                                          *)

LEMMA HubsAndRooms ==
    ASSUME NEW g \in Hubs, NEW h \in Hubs, NEW r \in Rooms
    PROVE  g \in Things /\ <<h, r>> \in Things /\ <<h, r>> # g
<1>1. <<h, r>> \in Hubs \X Rooms
  OBVIOUS
<1> QED
  BY <1>1, AdapterAssumption DEF Things

LEMMA PromiseKept ==
    ASSUME AdapterTypeOK, AnsweredIsKept, NEW c \in Commands,
           Keep(c), Promise(c, Expected(c))
    PROVE  AnsweredIsKept'
<1>1. \A x \in Things : promised'[x] = IF x \in Subject(c) THEN Expected(c) ELSE promised[x]
  BY DEF Promise
<1> SUFFICES ASSUME NEW h \in Hubs
             PROVE  /\ promised'[h] # Nothing => promised'[h] = (h \in savedHubs')
                    /\ \A r \in Rooms : promised'[<<h, r>>] # Nothing =>
                           promised'[<<h, r>>] = (<<h, r>> \in savedRooms')
  BY DEF AnsweredIsKept
<1>2. c.hub \in Hubs /\ (c.op \in {"join", "part"} => Normal[c.room] \in Rooms)
  BY CommandTypes
<1>3. /\ promised[h] # Nothing => promised[h] = (h \in savedHubs)
      /\ \A r \in Rooms : promised[<<h, r>>] # Nothing =>
             promised[<<h, r>>] = (<<h, r>> \in savedRooms)
  BY DEF AnsweredIsKept
<1>4. \A r \in Rooms : promised'[<<h, r>>] = IF <<h, r>> \in Subject(c) THEN Expected(c)
                                             ELSE promised[<<h, r>>]
  BY <1>1, HubsAndRooms
<1>5. promised'[h] = IF h \in Subject(c) THEN Expected(c) ELSE promised[h]
  BY <1>1 DEF Things
<1>6. CASE c.op \in {"connect", "nick"}
  <2>1. Subject(c) = {c.hub} /\ Expected(c) = TRUE
    BY <1>6, SubjectCases, ExpectedCases
  <2>2. savedHubs' = savedHubs \cup {c.hub} /\ UNCHANGED savedRooms
    BY <1>6, KeepCases
  <2>3. \A r \in Rooms : promised'[<<h, r>>] = promised[<<h, r>>]
    BY <1>2, <1>4, <2>1, HubsAndRooms
  <2>4. CASE h = c.hub
    BY <1>3, <1>5, <2>1, <2>2, <2>3, <2>4
  <2>5. CASE h # c.hub
    BY <1>3, <1>5, <2>1, <2>2, <2>3, <2>5
  <2> QED
    BY <2>4, <2>5
<1>7. CASE c.op = "disconnect"
  <2>1. Subject(c) = {c.hub} \cup ({c.hub} \X Rooms) /\ Expected(c) = FALSE
    BY <1>7, SubjectCases, ExpectedCases
  <2>2. savedHubs' = savedHubs \ {c.hub} /\ savedRooms' = savedRooms \ ({c.hub} \X Rooms)
    BY <1>7, KeepCases
  <2>3. CASE h = c.hub
    <3>1. \A r \in Rooms : <<h, r>> \in Subject(c) /\ <<h, r>> \notin savedRooms'
      BY <2>1, <2>2, <2>3
    <3>2. promised'[h] = FALSE /\ (h \in savedHubs') = FALSE
      BY <1>5, <2>1, <2>2, <2>3
    <3>3. \A r \in Rooms : /\ promised'[<<h, r>>] = FALSE
                           /\ (<<h, r>> \in savedRooms') = FALSE
      BY <1>4, <2>1, <3>1
    <3> QED
      BY <3>2, <3>3
  <2>4. CASE h # c.hub
    <3>1. h \notin Subject(c)
      BY <1>2, <2>1, <2>4, HubsAndRooms
    <3>2. \A r \in Rooms : <<h, r>> \notin Subject(c)
      BY <1>2, <2>1, <2>4, HubsAndRooms
    <3>3. \A r \in Rooms : (<<h, r>> \in savedRooms') = (<<h, r>> \in savedRooms)
      BY <2>2, <2>4
    <3> QED
      BY <1>3, <1>4, <1>5, <2>2, <2>4, <3>1, <3>2, <3>3
  <2> QED
    BY <2>3, <2>4
<1>8. CASE c.op \in {"join", "part"}
  <2> DEFINE place == <<c.hub, Normal[c.room]>>
  <2>1. Subject(c) = {place} /\ UNCHANGED savedHubs
    BY <1>8, SubjectCases, KeepCases
  <2>2. promised'[h] = promised[h]
    BY <1>2, <1>5, <1>8, <2>1, HubsAndRooms
  <2>3. \A r \in Rooms : <<h, r>> # place =>
            (<<h, r>> \in savedRooms') = (<<h, r>> \in savedRooms)
    BY <1>8, KeepCases
  <2>4. Expected(c) # Nothing => Expected(c) = (place \in savedRooms')
    <3>1. CASE c.op = "part"
      <4>1. Expected(c) = FALSE
        BY <3>1, ExpectedCases
      <4>2. (place \in savedRooms') = FALSE
        BY <3>1, KeepCases
      <4> QED
        BY <4>1, <4>2
    <3>2. CASE c.op = "join"
      <4>1. savedRooms' = savedRooms \cup ({c.hub} \cap savedHubs) \X {Normal[c.room]}
        BY <3>2, KeepCases
      <4>2. Expected(c) = IF c.hub \in savedHubs THEN TRUE ELSE Nothing
        BY <3>2, ExpectedCases
      <4> QED
        BY <4>1, <4>2
    <3> QED
      BY <1>8, <3>1, <3>2
  <2>5. \A r \in Rooms : promised'[<<h, r>>] # Nothing =>
            promised'[<<h, r>>] = (<<h, r>> \in savedRooms')
    <3> SUFFICES ASSUME NEW r \in Rooms, promised'[<<h, r>>] # Nothing
                 PROVE  promised'[<<h, r>>] = (<<h, r>> \in savedRooms')
      OBVIOUS
    <3>1. CASE <<h, r>> = place
      BY <1>4, <2>1, <2>4, <3>1
    <3>2. CASE <<h, r>> # place
      BY <1>3, <1>4, <2>1, <2>3, <3>2
    <3> QED
      BY <3>1, <3>2
  <2> QED
    BY <1>3, <2>1, <2>2, <2>5
<1> QED
  BY <1>6, <1>7, <1>8, CommandTypes

\* A user who does not know expects nothing.
LEMMA NothingPromised ==
    ASSUME AnsweredIsKept, NEW c, Promise(c, Nothing), UNCHANGED tables
    PROVE  AnsweredIsKept'
<1>1. \A x \in Things : promised'[x] \in {promised[x], Nothing}
  BY DEF Promise
<1>2. \A h \in Hubs : promised'[h] # Nothing => promised'[h] = promised[h]
  BY <1>1 DEF Things
<1>3. \A h \in Hubs, r \in Rooms :
          promised'[<<h, r>>] # Nothing => promised'[<<h, r>>] = promised[<<h, r>>]
  BY <1>1, HubsAndRooms
<1> QED
  BY <1>2, <1>3 DEF AnsweredIsKept, tables

LEMMA NextKept ==
    ASSUME AdapterTypeOK, AnsweredIsKept, [AdapterNext]_adapterVars
    PROVE  AnsweredIsKept'
<1> USE DEF tables, clients
<1>1. CASE Answer
  <2>1. command \in Commands
    BY <1>1 DEF Answer, AdapterTypeOK
  <2>2. CASE Keep(command) /\ Promise(command, Expected(command))
    BY <2>1, <2>2, PromiseKept
  <2>3. CASE Promise(command, Nothing) /\ UNCHANGED tables
    BY <2>3, NothingPromised
  <2>4. CASE UNCHANGED <<tables, clients>>
    BY <2>4 DEF AnsweredIsKept
  <2> QED
    BY <1>1, <2>2, <2>3, <2>4 DEF Answer
<1>2. CASE StopTask
  <2>1. CASE UNCHANGED promised
    BY <1>2, <2>1 DEF StopTask, AnsweredIsKept
  <2>2. CASE Promise(command, Nothing)
    BY <1>2, <2>2, NothingPromised DEF StopTask
  <2> QED
    BY <1>2, <2>1, <2>2 DEF StopTask
<1>3. ASSUME UNCHANGED <<tables, promised>> PROVE AnsweredIsKept'
  BY <1>3 DEF AnsweredIsKept
<1>4. ASSUME NEW h \in Hubs,
             \/ SessionReady(h) \/ LinkLost(h)
             \/ RestoreConnect(h) \/ RestoreWait(h) \/ RestoreEnd(h)
             \/ \E r \in Rooms : RestoreJoin(h, r)
      PROVE  AnsweredIsKept'
  BY <1>3, <1>4
  DEF SessionReady, LinkLost, RestoreConnect, RestoreWait, RestoreEnd, RestoreJoin
<1>5. ASSUME NEW c \in Commands, Receive(c) PROVE AnsweredIsKept'
  BY <1>3, <1>5 DEF Receive
<1>6. CASE Return \/ StartTask \/ ForwardEvent \/ UNCHANGED adapterVars
  BY <1>3, <1>6 DEF Return, StartTask, ForwardEvent, adapterVars
<1> QED
  BY <1>1, <1>2, <1>4, <1>5, <1>6 DEF AdapterNext

-----------------------------------------------------------------------------
(* What the web clients are told                                           *)

\* The last event of a hub in the channel tells the state of its session ...
Last(k) == \A j \in DOMAIN events : j > k => events[j].hub # events[k].hub

LastIsCurrent ==
    \A k \in DOMAIN events : Last(k) =>
        events[k].connected = (session[events[k].hub] = "connected")

\* ... and a command that the library has done has left one of its hub, which
\* waits for the command to be answered.
CommandIsHeard ==
    command # Nothing /\ result = "ok" => command.hub \in skipped \/ Waits(command.hub)

ToldInvariant == LastIsCurrent /\ CommandIsHeard /\ ClientsAreTold

\* A hub that has neither lost nor kept an event had none before.
LEMMA EmitSkips ==
    ASSUME AdapterTypeOK, NEW h \in Hubs, Emit(h), NEW g \in Hubs \ {h},
           g \notin skipped', ~Waits(g)'
    PROVE  g \notin skipped /\ ~Waits(g)
<1>1. events \in Seq(Events) /\ EventLimit \in Nat \ {0}
  BY AdapterAssumption DEF AdapterTypeOK, Events
<1>2. CASE Len(events) = EventLimit
  <2> DEFINE kept == Tail(events)
  <2>1. /\ kept \in Seq(Events) /\ Len(kept) = Len(events) - 1
        /\ DOMAIN kept = 1..Len(kept) /\ DOMAIN events = 1..Len(events)
        /\ Len(events) \in Nat \ {0}
        /\ \A k \in DOMAIN kept : kept[k] = events[k + 1]
        /\ Head(events) = events[1]
    BY <1>1, <1>2
  <2>2. /\ events' = Append(kept, [hub |-> h, connected |-> session'[h] = "connected"])
        /\ skipped' = {x \in (skipped \cup {Head(events).hub}) \ {h} :
                           \A k \in DOMAIN kept : kept[k].hub # x}
    BY <1>2 DEF Emit
  <2> HIDE DEF kept
  <2>3. \A k \in DOMAIN kept : k \in DOMAIN events' /\ events'[k] = kept[k]
    BY <2>1, <2>2
  <2>4. \A k \in DOMAIN kept : kept[k].hub # g
    BY <2>3 DEF Waits
  <2>5. g \notin skipped /\ Head(events).hub # g
    BY <2>2, <2>4
  <2>6. ASSUME NEW k \in DOMAIN events PROVE events[k].hub # g
    <3>1. CASE k = 1
      BY <2>1, <2>5, <3>1
    <3>2. CASE k # 1
      <4>1. k - 1 \in DOMAIN kept /\ kept[k - 1] = events[k]
        BY <2>1, <3>2
      <4> QED
        BY <2>4, <4>1
    <3> QED
      BY <3>1, <3>2
  <2> QED
    BY <2>5, <2>6 DEF Waits
<1>3. CASE Len(events) # EventLimit
  <2>1. /\ events' = Append(events, [hub |-> h, connected |-> session'[h] = "connected"])
        /\ skipped' = {x \in skipped \ {h} : \A k \in DOMAIN events : events[k].hub # x}
    BY <1>3 DEF Emit
  <2>2. \A k \in DOMAIN events : k \in DOMAIN events' /\ events'[k] = events[k]
    BY <1>1, <2>1
  <2> QED
    BY <2>1, <2>2 DEF Waits
<1> QED
  BY <1>2, <1>3

LEMMA EmitIsTold ==
    ASSUME AdapterTypeOK, ToldInvariant, NEW h \in Hubs, Emit(h),
           \A g \in Hubs \ {h} : session'[g] = session[g],
           UNCHANGED <<savedHubs, told>>
    PROVE  Waits(h)' /\ LastIsCurrent' /\ ClientsAreTold'
<1>1. /\ events' \in Seq(Events) /\ Len(events') \in 1..EventLimit
      /\ events'[Len(events')] = [hub |-> h, connected |-> session'[h] = "connected"]
  BY EmitTypes
<1>2. PICK d \in {0, 1} :
         /\ Len(events) = Len(events') - 1 + d
         /\ \A k \in 1..Len(events') - 1 : events'[k] = events[k + d]
  BY EmitTypes
<1>3. /\ DOMAIN events' = 1..Len(events') /\ DOMAIN events = 1..Len(events)
      /\ Len(events') \in DOMAIN events' /\ Len(events') \in Nat /\ Len(events) \in Nat
  BY <1>1, AdapterAssumption DEF AdapterTypeOK
<1>4. events'[Len(events')].hub = h
  BY <1>1
<1>5. Waits(h)'
  BY <1>3, <1>4 DEF Waits
<1>6. LastIsCurrent'
  <2> SUFFICES ASSUME NEW k \in DOMAIN events',
                      \A j \in DOMAIN events' : j > k => events'[j].hub # events'[k].hub
               PROVE  events'[k].connected = (session'[events'[k].hub] = "connected")
    BY DEF LastIsCurrent, Last
  <2>1. CASE k = Len(events')
    <3>1. events'[k].connected = (session'[h] = "connected")
      BY <1>1, <2>1
    <3> QED
      BY <1>4, <2>1, <3>1
  <2>2. CASE k # Len(events')
    <3>1. k \in 1..Len(events') - 1 /\ k + d \in DOMAIN events /\ events[k + d] = events'[k]
      BY <1>2, <1>3, <2>2
    <3>2. events'[k].hub \in Hubs \ {h}
      <4>1. events'[k] \in Events
        BY <1>1
      <4>2. events'[k].hub # h
        BY <1>3, <1>4, <2>2
      <4> QED
        BY <4>1, <4>2 DEF Events
    <3>3. ASSUME NEW j \in DOMAIN events, j > k + d PROVE events[j].hub # events[k + d].hub
      <4>1. j - d \in 1..Len(events') - 1 /\ j - d > k /\ j - d + d = j
        BY <1>2, <1>3, <3>1, <3>3
      <4>2. j - d \in DOMAIN events' /\ events'[j - d] = events[j]
        BY <1>2, <1>3, <4>1
      <4> QED
        BY <3>1, <4>1, <4>2
    <3>4. Last(k + d)
      BY <3>3 DEF Last
    <3>5. events[k + d].connected = (session[events[k + d].hub] = "connected")
      BY <3>1, <3>4 DEF ToldInvariant, LastIsCurrent
    <3> QED
      BY <3>1, <3>2, <3>5
  <2> QED
    BY <2>1, <2>2
<1>7. ClientsAreTold'
  <2> SUFFICES ASSUME NEW g \in savedHubs, g \notin skipped', session'[g] # "none", ~Waits(g)'
               PROVE  (g \in told) = (session'[g] = "connected")
    BY DEF ClientsAreTold
  <2>1. g \in Hubs \ {h}
    BY <1>5 DEF AdapterTypeOK
  <2>2. g \notin skipped /\ ~Waits(g)
    BY <2>1, EmitSkips
  <2> QED
    BY <2>1, <2>2 DEF ToldInvariant, ClientsAreTold
<1> QED
  BY <1>5, <1>6, <1>7

\* The library, outside of a command.
LEMMA EmitKeepsTold ==
    ASSUME AdapterTypeOK, ToldInvariant, NEW h \in Hubs, Emit(h),
           \A g \in Hubs \ {h} : session'[g] = session[g],
           UNCHANGED <<savedHubs, told, command, result>>
    PROVE  ToldInvariant'
<1>1. Waits(h)' /\ LastIsCurrent' /\ ClientsAreTold'
  BY EmitIsTold
<1>2. CommandIsHeard'
  <2> SUFFICES ASSUME command # Nothing, result = "ok", command.hub \notin skipped'
               PROVE  Waits(command.hub)'
    BY DEF CommandIsHeard, Waits
  <2>1. command.hub \in Hubs
    BY CommandTypes DEF AdapterTypeOK
  <2>2. command.hub \in skipped \/ Waits(command.hub)
    BY DEF ToldInvariant, CommandIsHeard
  <2>3. command' = command
    OBVIOUS
  <2>4. CASE command.hub = h
    BY <1>1, <2>3, <2>4
  <2>5. CASE command.hub # h
    BY <2>1, <2>2, <2>5, EmitSkips
  <2> QED
    BY <2>4, <2>5
<1> QED
  BY <1>1, <1>2 DEF ToldInvariant

LEMMA CallsEmit ==
    ASSUME AdapterTypeOK, NEW h \in Hubs, Calls(h)
    PROVE  Emit(h) /\ \A g \in Hubs \ {h} : session'[g] = session[g]
BY DEF Calls, OpenSession, CloseSession, SetNick, JoinRoom, PartRoom, AdapterTypeOK

LEMMA ReturnIsTold ==
    ASSUME AdapterTypeOK, ToldInvariant, Return
    PROVE  ToldInvariant'
<1>1. command \in Commands /\ UNCHANGED <<command, savedHubs, told>>
  BY DEF Return, AdapterTypeOK, tables, clients
<1>2. CASE Call(command)
  <2>1. command.hub \in Hubs /\ Calls(command.hub)
    BY <1>1, <1>2, CallIsCall
  <2>2. /\ Emit(command.hub)
        /\ \A g \in Hubs \ {command.hub} : session'[g] = session[g]
    BY <2>1, CallsEmit
  <2>3. Waits(command.hub)' /\ LastIsCurrent' /\ ClientsAreTold'
    <3>1. PICK h \in Hubs : h = command.hub
      BY <2>1
    <3>2. Waits(h)' /\ LastIsCurrent' /\ ClientsAreTold'
      BY <1>1, <2>2, <3>1, EmitIsTold
    <3> QED
      BY <1>1, <3>1, <3>2 DEF Waits
  <2> QED
    BY <2>3 DEF ToldInvariant, CommandIsHeard
<1>3. CASE result' = "error" /\ UNCHANGED library
  BY <1>1, <1>3
  DEF ToldInvariant, LastIsCurrent, Last, CommandIsHeard, ClientsAreTold, Waits, library
<1> QED
  BY <1>2, <1>3 DEF Return

LEMMA AnswerIsTold ==
    ASSUME AdapterTypeOK, ToldInvariant, Answer
    PROVE  ToldInvariant'
<1>1. command \in Commands /\ UNCHANGED library
  BY DEF Answer, AdapterTypeOK
<1>2. LastIsCurrent' /\ CommandIsHeard'
  BY <1>1 DEF Answer, ToldInvariant, LastIsCurrent, Last, CommandIsHeard, library
<1>3. CASE result = "ok"
  <2>1. savedHubs' \subseteq savedHubs \cup {command.hub}
    BY <1>1, <1>3, KeepCases DEF Answer, tables
  <2>2. told' \in {told, told \ {command.hub}}
    BY <1>3 DEF Answer
  <2>3. command.hub \in skipped \/ Waits(command.hub)
    BY <1>3 DEF Answer, ToldInvariant, CommandIsHeard
  <2>4. ClientsAreTold'
    <3> SUFFICES ASSUME NEW h \in savedHubs', h \notin skipped, session[h] # "none", ~Waits(h)
                 PROVE  (h \in told') = (session[h] = "connected")
      BY <1>1 DEF ClientsAreTold, Waits, library
    <3>1. h # command.hub
      BY <2>3
    <3>2. h \in savedHubs /\ (h \in told') = (h \in told)
      BY <2>1, <2>2, <3>1
    <3> QED
      BY <3>2 DEF ToldInvariant, ClientsAreTold
  <2> QED
    BY <1>2, <2>4 DEF ToldInvariant
<1>4. CASE result # "ok"
  <2>1. UNCHANGED <<savedHubs, told>>
    BY <1>4 DEF Answer, tables, clients
  <2>2. ClientsAreTold'
    BY <1>1, <2>1 DEF ToldInvariant, ClientsAreTold, Waits, library
  <2> QED
    BY <1>2, <2>2 DEF ToldInvariant
<1> QED
  BY <1>3, <1>4

LEMMA ForwardIsTold ==
    ASSUME AdapterTypeOK, ToldInvariant, ForwardEvent
    PROVE  ToldInvariant'
<1> DEFINE event == Head(events)
<1>1. events \in Seq(Events) /\ events # <<>> /\ events' = Tail(events)
  BY DEF ForwardEvent, AdapterTypeOK, Events
<1>2. /\ Len(events) \in Nat \ {0} /\ DOMAIN events = 1..Len(events)
      /\ DOMAIN events' = 1..Len(events) - 1
      /\ \A k \in 1..Len(events) - 1 : events'[k] = events[k + 1]
      /\ event = events[1]
  BY <1>1
<1>3. UNCHANGED <<session, savedHubs, skipped, command, result>>
  BY DEF ForwardEvent, work, tables
<1>4. LastIsCurrent'
  <2> SUFFICES ASSUME NEW k \in DOMAIN events',
                      \A j \in DOMAIN events' : j > k => events'[j].hub # events'[k].hub
               PROVE  events'[k].connected = (session[events'[k].hub] = "connected")
    BY <1>3 DEF LastIsCurrent, Last
  <2>1. k + 1 \in DOMAIN events /\ events[k + 1] = events'[k]
    BY <1>2
  <2>2. ASSUME NEW j \in DOMAIN events, j > k + 1 PROVE events[j].hub # events[k + 1].hub
    <3>1. j - 1 \in DOMAIN events' /\ j - 1 > k /\ events'[j - 1] = events[j]
      BY <1>2, <2>2
    <3> QED
      BY <2>1, <3>1
  <2>3. Last(k + 1)
    BY <2>2 DEF Last
  <2> QED
    BY <2>1, <2>3 DEF ToldInvariant, LastIsCurrent
<1>5. CommandIsHeard'
  <2>1. command' = Nothing
    BY <1>3 DEF ForwardEvent
  <2> QED
    BY <2>1 DEF CommandIsHeard
<1>6. ClientsAreTold'
  <2> SUFFICES ASSUME NEW h \in savedHubs, h \notin skipped, session[h] # "none", ~Waits(h)'
               PROVE  (h \in told') = (session[h] = "connected")
    BY <1>3 DEF ClientsAreTold, Waits
  <2>1. ASSUME NEW j \in DOMAIN events, j > 1 PROVE events[j].hub # h
    <3>1. j - 1 \in DOMAIN events' /\ events'[j - 1] = events[j]
      BY <1>2, <2>1
    <3> QED
      BY <3>1 DEF Waits
  <2>2. CASE event.hub = h
    <3>1. 1 \in DOMAIN events /\ Last(1)
      BY <1>2, <2>1, <2>2 DEF Last
    <3>2. event.connected = (session[h] = "connected")
      BY <1>2, <2>2, <3>1 DEF ToldInvariant, LastIsCurrent
    <3>3. CASE event.connected
      <4>1. h \in told'
        BY <2>2, <3>3 DEF ForwardEvent, Suppressed
      <4> QED
        BY <3>2, <3>3, <4>1
    <3>4. CASE ~event.connected
      <4>1. h \notin told'
        BY <2>2, <3>4 DEF ForwardEvent, Suppressed
      <4>2. session[h] # "connected"
        BY <3>2, <3>4
      <4> QED
        BY <4>1, <4>2
    <3> QED
      BY <3>3, <3>4
  <2>3. CASE event.hub # h
    <3>1. ~Waits(h)
      BY <1>2, <2>1, <2>3 DEF Waits
    <3>2. (h \in told') = (h \in told)
      BY <2>3 DEF ForwardEvent
    <3> QED
      BY <3>1, <3>2 DEF ToldInvariant, ClientsAreTold
  <2> QED
    BY <2>2, <2>3
<1> QED
  BY <1>4, <1>5, <1>6 DEF ToldInvariant

LEMMA NextTold ==
    ASSUME AdapterTypeOK, ToldInvariant, [AdapterNext]_adapterVars
    PROVE  ToldInvariant'
<1> USE DEF tables, clients, work, library
<1>1. ASSUME UNCHANGED <<session, events, skipped, savedHubs, told, command, result>>
      PROVE  ToldInvariant'
  BY <1>1 DEF ToldInvariant, LastIsCurrent, Last, CommandIsHeard, ClientsAreTold, Waits
<1>2. ASSUME NEW h \in Hubs, SessionReady(h) \/ LinkLost(h) PROVE ToldInvariant'
  <2>1. /\ Emit(h) /\ UNCHANGED <<savedHubs, told, command, result>>
        /\ \A g \in Hubs \ {h} : session'[g] = session[g]
    BY <1>2 DEF SessionReady, LinkLost, AdapterTypeOK
  <2> QED
    BY <2>1, EmitKeepsTold
<1>3. ASSUME NEW h \in Hubs, Calls(h), UNCHANGED <<savedHubs, told, command, result>>
      PROVE  ToldInvariant'
  BY <1>3, CallsEmit, EmitKeepsTold
<1>4. ASSUME NEW h \in Hubs, RestoreConnect(h) PROVE ToldInvariant'
  BY <1>1, <1>3, <1>4 DEF RestoreConnect, Calls
<1>5. ASSUME NEW h \in Hubs, NEW r \in Rooms, RestoreJoin(h, r) PROVE ToldInvariant'
  BY <1>1, <1>3, <1>5 DEF RestoreJoin, Calls
<1>6. ASSUME NEW h \in Hubs, RestoreWait(h) \/ RestoreEnd(h) PROVE ToldInvariant'
  BY <1>1, <1>6 DEF RestoreWait, RestoreEnd
<1>7. ASSUME NEW c \in Commands, Receive(c) PROVE ToldInvariant'
  <2>1. CommandIsHeard'
    BY <1>7 DEF Receive, CommandIsHeard
  <2> QED
    BY <1>7, <2>1 DEF Receive, ToldInvariant, LastIsCurrent, Last, ClientsAreTold, Waits
<1>8. CASE StopTask
  <2>1. LastIsCurrent'
    <3>1. DOMAIN events' = {}
      BY <1>8 DEF StopTask
    <3> QED
      BY <3>1 DEF LastIsCurrent
  <2>2. CommandIsHeard'
    BY <1>8 DEF StopTask, CommandIsHeard
  <2>3. \A h \in savedHubs' : session'[h] = "none"
    BY <1>8 DEF StopTask, AdapterTypeOK
  <2> QED
    BY <2>1, <2>2, <2>3 DEF ToldInvariant, ClientsAreTold
<1>9. CASE StartTask \/ UNCHANGED adapterVars
  BY <1>1, <1>9 DEF StartTask, adapterVars
<1> QED
  BY <1>2, <1>4, <1>5, <1>6, <1>7, <1>8, <1>9, ReturnIsTold, AnswerIsTold, ForwardIsTold
  DEF AdapterNext

-----------------------------------------------------------------------------
(* What the restoration restores                                           *)

\* The hub and the room the user was told of, unless they could not be joined.
Due(h, r) == <<h, r>> \in savedRooms /\ promised[<<h, r>>] = TRUE /\ <<h, r>> \notin late

ToBeJoined(h, r) == restoring[h] # Nothing /\ r \in restoring[h].rooms

\* The library has done a command that the tables do not know of yet.
UnderWay(x) == command # Nothing /\ result = "ok" /\ x \in Subject(command)

DueIsJoined ==
    running => \A h \in Hubs, r \in Rooms :
        Due(h, r) => r \in joined[h] \/ ToBeJoined(h, r) \/ UnderWay(<<h, r>>)

JoinIsDone ==
    command # Nothing /\ result = "ok" /\ command.op = "join" =>
        Normal[command.room] \in joined[command.hub]

RestoreInvariant == DueIsJoined /\ JoinIsDone

\* Steps that change neither the tables nor what is promised, and lose no room
\* that is joined or to be joined.
LEMMA NothingIsLost ==
    ASSUME DueIsJoined, UNCHANGED <<running, command, result, tables, promised>>,
           late \subseteq late',
           \A h \in Hubs, r \in Rooms :
               r \in joined[h] \/ ToBeJoined(h, r) =>
                   r \in joined'[h] \/ ToBeJoined(h, r)' \/ <<h, r>> \in late'
    PROVE  DueIsJoined'
<1>1. \A h \in Hubs, r \in Rooms : Due(h, r)' => Due(h, r)
  BY DEF Due, tables
<1>2. \A h \in Hubs, r \in Rooms : UnderWay(<<h, r>>)' = UnderWay(<<h, r>>)
  BY DEF UnderWay, Subject
<1> SUFFICES ASSUME running, NEW h \in Hubs, NEW r \in Rooms, Due(h, r)'
             PROVE  r \in joined'[h] \/ ToBeJoined(h, r)' \/ UnderWay(<<h, r>>)'
  BY DEF DueIsJoined
<1>3. r \in joined[h] \/ ToBeJoined(h, r) \/ UnderWay(<<h, r>>)
  BY <1>1 DEF DueIsJoined
<1>4. <<h, r>> \notin late'
  BY DEF Due
<1> QED
  BY <1>2, <1>3, <1>4

LEMMA JoinedGrows ==
    ASSUME AdapterTypeOK, NEW h \in Hubs, OpenSession(h) \/ \E r \in Rooms : JoinRoom(h, r)
    PROVE  \A g \in Hubs : joined[g] \subseteq joined'[g]
BY DEF OpenSession, JoinRoom, AdapterTypeOK

LEMMA JoinStaysDone ==
    ASSUME AdapterTypeOK, JoinIsDone, UNCHANGED <<command, result>>,
           \A g \in Hubs : joined[g] \subseteq joined'[g]
    PROVE  JoinIsDone'
<1> SUFFICES ASSUME command # Nothing, result = "ok", command.op = "join"
             PROVE  Normal[command.room] \in joined'[command.hub]
  BY DEF JoinIsDone
<1>1. command.hub \in Hubs
  BY CommandTypes DEF AdapterTypeOK
<1> QED
  BY <1>1 DEF JoinIsDone

LEMMA RestoreStepRestores ==
    ASSUME AdapterTypeOK, RestoreInvariant,
           \/ \E h \in Hubs : RestoreConnect(h) \/ RestoreWait(h) \/ RestoreEnd(h)
           \/ \E h \in Hubs, r \in Rooms : RestoreJoin(h, r)
    PROVE  RestoreInvariant'
<1> USE DEF work, tables, clients, library
<1>1. ASSUME UNCHANGED <<running, work, tables, clients>>,
             late \subseteq late',
             \A g \in Hubs : joined[g] \subseteq joined'[g],
             NEW h \in Hubs,
             \A g \in Hubs \ {h} : restoring'[g] = restoring[g],
             \A r \in Rooms : ToBeJoined(h, r) =>
                 r \in joined'[h] \/ ToBeJoined(h, r)' \/ <<h, r>> \in late'
      PROVE  RestoreInvariant'
  <2>1. \A g \in Hubs, r \in Rooms :
            r \in joined[g] \/ ToBeJoined(g, r) =>
                r \in joined'[g] \/ ToBeJoined(g, r)' \/ <<g, r>> \in late'
    BY <1>1 DEF ToBeJoined
  <2>2. DueIsJoined'
    BY <1>1, <2>1, NothingIsLost DEF RestoreInvariant
  <2>3. JoinIsDone'
    BY <1>1, JoinStaysDone DEF RestoreInvariant
  <2> QED
    BY <2>2, <2>3 DEF RestoreInvariant
<1>2. ASSUME NEW h \in Hubs, GiveUp(h)
      PROVE  /\ late \subseteq late' /\ \A g \in Hubs \ {h} : restoring'[g] = restoring[g]
             /\ \A r \in Rooms : ToBeJoined(h, r) => r \in joined[h] \/ <<h, r>> \in late'
  BY <1>2 DEF GiveUp, AdapterTypeOK, ToBeJoined
<1>3. ASSUME NEW h \in Hubs, RestoreConnect(h) PROVE RestoreInvariant'
  <2>1. restoring[h] # Nothing /\ restoring[h] \in Restorations
    BY <1>3, RestorationTypes DEF RestoreConnect, Restoring
  <2>2. CASE /\ OpenSession(h) /\ restoring' = [restoring EXCEPT ![h].step = "wait"]
             /\ UNCHANGED late
    <3>1. /\ restoring'[h].rooms = restoring[h].rooms /\ restoring'[h] \in Restorations
          /\ \A g \in Hubs \ {h} : restoring'[g] = restoring[g]
      BY <2>1, <2>2 DEF AdapterTypeOK, Restorations
    <3>2. \A r \in Rooms : ToBeJoined(h, r) => ToBeJoined(h, r)'
      BY <3>1, AdapterAssumption DEF ToBeJoined
    <3> QED
      BY <1>1, <1>3, <2>2, <3>1, <3>2, JoinedGrows DEF RestoreConnect
  <2>3. CASE GiveUp(h) /\ UNCHANGED library
    BY <1>1, <1>2, <1>3, <2>3 DEF RestoreConnect
  <2> QED
    BY <1>3, <2>2, <2>3 DEF RestoreConnect
<1>4. ASSUME NEW h \in Hubs, RestoreWait(h) PROVE RestoreInvariant'
  <2>1. restoring[h] # Nothing /\ restoring[h] \in Restorations
    BY <1>4, RestorationTypes DEF RestoreWait, Restoring
  <2>2. CASE restoring' = [restoring EXCEPT ![h].step = "join"] /\ UNCHANGED late
    <3>1. /\ restoring'[h].rooms = restoring[h].rooms /\ restoring'[h] \in Restorations
          /\ \A g \in Hubs \ {h} : restoring'[g] = restoring[g]
      BY <2>1, <2>2 DEF AdapterTypeOK, Restorations
    <3>2. \A r \in Rooms : ToBeJoined(h, r) => ToBeJoined(h, r)'
      BY <3>1, AdapterAssumption DEF ToBeJoined
    <3> QED
      BY <1>1, <1>4, <2>2, <3>1, <3>2 DEF RestoreWait
  <2>3. CASE GiveUp(h)
    BY <1>1, <1>2, <1>4, <2>3 DEF RestoreWait
  <2> QED
    BY <1>4, <2>2, <2>3 DEF RestoreWait
<1>5. ASSUME NEW h \in Hubs, RestoreEnd(h) PROVE RestoreInvariant'
  <2>1. \A r \in Rooms : ~ToBeJoined(h, r)
    BY <1>5 DEF RestoreEnd, ToBeJoined
  <2>2. \A g \in Hubs \ {h} : restoring'[g] = restoring[g]
    BY <1>5 DEF RestoreEnd, AdapterTypeOK
  <2> QED
    BY <1>1, <1>5, <2>1, <2>2 DEF RestoreEnd
<1>6. ASSUME NEW h \in Hubs, NEW r \in Rooms, RestoreJoin(h, r) PROVE RestoreInvariant'
  <2>1. restoring[h] # Nothing /\ restoring[h] \in Restorations
    BY <1>6, RestorationTypes DEF RestoreJoin, Restoring
  <2>2. ASSUME restoring'[h].rooms = restoring[h].rooms \ {r}, restoring'[h] \in Restorations
        PROVE  \A x \in Rooms \ {r} : ToBeJoined(h, x) => ToBeJoined(h, x)'
    BY <2>2, AdapterAssumption DEF ToBeJoined
  <2>3. CASE /\ JoinRoom(h, r) /\ restoring' = [restoring EXCEPT ![h].rooms = @ \ {r}]
             /\ UNCHANGED late
    <3>1. /\ restoring'[h].rooms = restoring[h].rooms \ {r} /\ restoring'[h] \in Restorations
          /\ \A g \in Hubs \ {h} : restoring'[g] = restoring[g]
      BY <2>1, <2>3 DEF AdapterTypeOK, Restorations
    <3>2. r \in joined'[h]
      BY <2>3 DEF JoinRoom, AdapterTypeOK
    <3>3. \A g \in Hubs : joined[g] \subseteq joined'[g]
      BY <2>3, JoinedGrows
    <3> QED
      BY <1>1, <1>6, <2>2, <2>3, <3>1, <3>2, <3>3 DEF RestoreJoin
  <2>4. CASE /\ restoring' = [restoring EXCEPT ![h] = AfterRefusal(@, r)]
             /\ late' = late \cup ({h} \X ({r} \ joined[h])) /\ UNCHANGED library
    <3>1. /\ restoring'[h].rooms = restoring[h].rooms \ {r} /\ restoring'[h] \in Restorations
          /\ \A g \in Hubs \ {h} : restoring'[g] = restoring[g]
      BY <2>1, <2>4 DEF AdapterTypeOK, Restorations, AfterRefusal, Task
    <3> QED
      BY <1>1, <1>6, <2>2, <2>4, <3>1 DEF RestoreJoin
  <2> QED
    BY <1>6, <2>3, <2>4 DEF RestoreJoin
<1> QED
  BY <1>3, <1>4, <1>5, <1>6

LEMMA ReturnRestores ==
    ASSUME AdapterTypeOK, RestoreInvariant, Return
    PROVE  RestoreInvariant'
<1> DEFINE c == command
<1>1. /\ c \in Commands /\ c # Nothing /\ result = "asked"
      /\ UNCHANGED <<running, command, restoring, tables, clients>>
  BY DEF Return, AdapterTypeOK
<1>2. \A h \in Hubs, r \in Rooms : ToBeJoined(h, r)' = ToBeJoined(h, r)
  BY <1>1 DEF ToBeJoined
<1>3. \A h \in Hubs, r \in Rooms : running /\ Due(h, r) => r \in joined[h] \/ ToBeJoined(h, r)
  BY <1>1 DEF RestoreInvariant, DueIsJoined, UnderWay
<1>4. CASE /\ Call(c) /\ result' = "ok"
           /\ late' = IF c.op = "join" THEN late \ {<<c.hub, Normal[c.room]>>} ELSE late
  <2>1. c.hub \in Hubs /\ (c.op \in {"join", "part"} => Normal[c.room] \in Rooms)
    BY <1>1, CommandTypes
  <2>2. \A h \in Hubs, r \in Rooms : UnderWay(<<h, r>>)' = (<<h, r>> \in Subject(c))
    BY <1>1, <1>4 DEF UnderWay, Subject
  <2>3. \A h \in Hubs, r \in Rooms : r \in joined[h] => r \in joined'[h] \/ <<h, r>> \in Subject(c)
    <3> SUFFICES ASSUME NEW h \in Hubs, NEW r \in joined[h], <<h, r>> \notin Subject(c)
                 PROVE  r \in joined'[h]
      OBVIOUS
    <3>1. CASE c.op \in {"connect", "nick", "join"}
      BY <1>1, <1>4, <2>1, <3>1, CallCases DEF OpenSession, SetNick, JoinRoom, AdapterTypeOK
    <3>2. CASE c.op = "disconnect"
      <4>1. Subject(c) = {c.hub} \cup ({c.hub} \X Rooms)
        BY <1>1, <3>2, SubjectCases
      <4>2. h # c.hub
        BY <4>1 DEF AdapterTypeOK
      <4> QED
        BY <1>1, <1>4, <2>1, <3>2, <4>2, CallCases DEF CloseSession, AdapterTypeOK
    <3>3. CASE c.op = "part"
      <4>1. h # c.hub \/ r # Normal[c.room]
        BY <1>1, <3>3, SubjectCases
      <4> QED
        BY <1>1, <1>4, <2>1, <3>3, <4>1, CallCases DEF PartRoom, AdapterTypeOK
    <3> QED
      BY <1>1, <3>1, <3>2, <3>3, CommandTypes
  <2>4. \A h \in Hubs, r \in Rooms : Due(h, r)' => Due(h, r) \/ <<h, r>> \in Subject(c)
    <3>1. c.op = "join" => <<c.hub, Normal[c.room]>> \in Subject(c)
      BY <1>1, SubjectCases
    <3> QED
      BY <1>1, <1>4, <3>1 DEF Due, tables, clients
  <2>5. DueIsJoined'
    BY <1>1, <1>2, <1>3, <2>2, <2>3, <2>4 DEF DueIsJoined
  <2>6. JoinIsDone'
    <3> SUFFICES ASSUME c.op = "join" PROVE Normal[c.room] \in joined'[c.hub]
      BY <1>1 DEF JoinIsDone
    <3>1. JoinRoom(c.hub, Normal[c.room])
      BY <1>1, <1>4, CallCases
    <3> QED
      BY <2>1, <3>1 DEF JoinRoom, AdapterTypeOK
  <2> QED
    BY <2>5, <2>6 DEF RestoreInvariant
<1>5. CASE result' = "error" /\ UNCHANGED <<library, late>>
  <2>1. \A h \in Hubs, r \in Rooms : Due(h, r)' = Due(h, r)
    BY <1>1, <1>5 DEF Due, tables, clients
  <2> QED
    BY <1>1, <1>2, <1>3, <1>5, <2>1 DEF RestoreInvariant, DueIsJoined, JoinIsDone, library
<1> QED
  BY <1>4, <1>5 DEF Return

LEMMA AnswerRestores ==
    ASSUME AdapterTypeOK, RestoreInvariant, Answer
    PROVE  RestoreInvariant'
<1> DEFINE c == command
<1>1. /\ c \in Commands /\ c # Nothing /\ command' = Nothing
      /\ UNCHANGED <<running, restoring, library, late>>
  BY DEF Answer, AdapterTypeOK
<1>2. JoinIsDone'
  BY <1>1 DEF JoinIsDone
<1>3. \A h \in Hubs, r \in Rooms :
          running /\ Due(h, r) => r \in joined[h] \/ ToBeJoined(h, r) \/ UnderWay(<<h, r>>)
  BY DEF RestoreInvariant, DueIsJoined
<1>4. \A h \in Hubs, r \in Rooms : ToBeJoined(h, r)' = ToBeJoined(h, r) /\ joined'[h] = joined[h]
  BY <1>1 DEF ToBeJoined, library
<1> SUFFICES ASSUME running, NEW h \in Hubs, NEW r \in Rooms, Due(h, r)'
             PROVE  r \in joined[h] \/ ToBeJoined(h, r)
  BY <1>1, <1>2, <1>4 DEF RestoreInvariant, DueIsJoined
<1>5. CASE result = "ok" /\ <<h, r>> \in Subject(c)
  <2>1. promised'[<<h, r>>] = TRUE
    BY DEF Due
  <2>2. Nothing # TRUE
    BY AdapterAssumption
  <2>3. ~Promise(c, Nothing)
    BY <1>5, <2>1, <2>2, HubsAndRooms DEF Promise
  <2>4. Keep(c) /\ Promise(c, Expected(c))
    BY <1>5, <2>3 DEF Answer
  <2>5. Expected(c) = TRUE
    BY <1>5, <2>1, <2>4, HubsAndRooms DEF Promise
  <2>6. c.op \notin {"part", "disconnect"}
    BY <1>1, <2>5, ExpectedCases
  <2>7. c.op \notin {"connect", "nick"}
    BY <1>1, <1>5, SubjectCases, CommandTypes, HubsAndRooms
  <2>8. c.op = "join" /\ <<h, r>> = <<c.hub, Normal[c.room]>>
    BY <1>1, <1>5, <2>6, <2>7, SubjectCases, CommandTypes
  <2> QED
    BY <1>1, <1>5, <2>8 DEF RestoreInvariant, JoinIsDone
<1>6. CASE ~(result = "ok" /\ <<h, r>> \in Subject(c))
  <2>1. ~UnderWay(<<h, r>>)
    BY <1>6 DEF UnderWay
  <2>2. Due(h, r)
    <3>1. CASE result # "ok"
      BY <1>1, <3>1 DEF Answer, Due, tables, clients
    <3>2. CASE result = "ok" /\ <<h, r>> \notin Subject(c)
      <4>1. promised'[<<h, r>>] = promised[<<h, r>>]
        BY <3>2, HubsAndRooms DEF Answer, Promise
      <4>2. <<h, r>> \in savedRooms
        <5>1. CASE UNCHANGED tables
          BY <5>1 DEF Due, tables
        <5>2. CASE Keep(c)
          <6>1. c.op = "join" => <<h, r>> # <<c.hub, Normal[c.room]>>
            BY <1>1, <3>2, SubjectCases
          <6>2. <<h, r>> \in savedRooms'
            BY DEF Due
          <6> QED
            BY <1>1, <5>2, <6>1, <6>2, KeepCases
        <5> QED
          BY <3>2, <5>1, <5>2 DEF Answer
      <4> QED
        BY <1>1, <4>1, <4>2 DEF Due
    <3> QED
      BY <1>6, <3>1, <3>2
  <2> QED
    BY <1>3, <2>1, <2>2
<1> QED
  BY <1>5, <1>6

LEMMA NextRestore ==
    ASSUME AdapterTypeOK, RestoreInvariant, [AdapterNext]_adapterVars
    PROVE  RestoreInvariant'
<1> USE DEF tables, clients, work, library
<1>1. ASSUME UNCHANGED <<running, command, result, restoring, joined, tables, promised, late>>
      PROVE  RestoreInvariant'
  BY <1>1 DEF RestoreInvariant, DueIsJoined, JoinIsDone, Due, ToBeJoined, UnderWay, Subject
<1>2. ASSUME NEW h \in Hubs, SessionReady(h) \/ LinkLost(h) PROVE RestoreInvariant'
  BY <1>1, <1>2 DEF SessionReady, LinkLost
<1>3. CASE ForwardEvent \/ UNCHANGED adapterVars
  BY <1>1, <1>3 DEF ForwardEvent, adapterVars
<1>4. ASSUME NEW c \in Commands, Receive(c) PROVE RestoreInvariant'
  <2>1. \A h \in Hubs, r \in Rooms : ~UnderWay(<<h, r>>)
    BY <1>4 DEF Receive, UnderWay
  <2>2. JoinIsDone'
    BY <1>4 DEF Receive, JoinIsDone
  <2>3. DueIsJoined'
    BY <1>4, <2>1 DEF Receive, RestoreInvariant, DueIsJoined, Due, ToBeJoined
  <2> QED
    BY <2>2, <2>3 DEF RestoreInvariant
<1>5. CASE StartTask
  <2>1. \A h \in Hubs, r \in Rooms : <<h, r>> \in savedRooms => ToBeJoined(h, r)'
    <3> SUFFICES ASSUME NEW h \in Hubs, NEW r \in Rooms, <<h, r>> \in savedRooms
                 PROVE  ToBeJoined(h, r)'
      OBVIOUS
    <3>1. h \in savedHubs /\ r \in RoomsSaved(h)
      BY DEF AdapterTypeOK, RoomsSaved
    <3>2. restoring'[h] = Task("connect", RoomsSaved(h))
      BY <1>5, <3>1 DEF StartTask
    <3>3. restoring'[h] \in Restorations /\ restoring'[h].rooms = RoomsSaved(h)
      BY <3>2 DEF Task, Restorations, RoomsSaved
    <3> QED
      BY <3>1, <3>3, AdapterAssumption DEF ToBeJoined
  <2>2. DueIsJoined'
    BY <1>5, <2>1 DEF StartTask, DueIsJoined, Due
  <2>3. JoinIsDone'
    BY <1>5 DEF StartTask, RestoreInvariant, JoinIsDone
  <2> QED
    BY <2>2, <2>3 DEF RestoreInvariant
<1>6. CASE StopTask
  BY <1>6 DEF StopTask, RestoreInvariant, DueIsJoined, JoinIsDone
<1> QED
  BY <1>2, <1>3, <1>4, <1>5, <1>6, ReturnRestores, AnswerRestores, RestoreStepRestores
  DEF AdapterNext

-----------------------------------------------------------------------------
(* The theorems                                                            *)

AdapterInvariant == AdapterTypeOK /\ AnsweredIsKept /\ ToldInvariant /\ RestoreInvariant

LEMMA InitInvariant == AdapterInit => AdapterInvariant
<1> SUFFICES ASSUME AdapterInit PROVE AdapterInvariant
  OBVIOUS
<1>1. AdapterTypeOK
  BY AdapterInitTypes
<1>2. AnsweredIsKept
  <2>1. \A h \in Hubs : promised[h] = FALSE /\ (h \in savedHubs) = FALSE
    BY DEF AdapterInit, Things
  <2>2. \A h \in Hubs, r \in Rooms : promised[<<h, r>>] = FALSE /\ (<<h, r>> \in savedRooms) = FALSE
    <3> SUFFICES ASSUME NEW h \in Hubs, NEW r \in Rooms
                 PROVE  promised[<<h, r>>] = FALSE /\ (<<h, r>> \in savedRooms) = FALSE
      OBVIOUS
    <3>1. <<h, r>> \in Things /\ (<<h, r>> \in savedRooms) = FALSE
      BY DEF AdapterInit, Things
    <3> QED
      BY <3>1 DEF AdapterInit
  <2> QED
    BY <2>1, <2>2 DEF AnsweredIsKept
<1>3. ToldInvariant
  <2>1. DOMAIN events = {}
    BY DEF AdapterInit
  <2> QED
    BY <2>1 DEF AdapterInit, ToldInvariant, LastIsCurrent, CommandIsHeard, ClientsAreTold
<1>4. RestoreInvariant
  BY DEF AdapterInit, RestoreInvariant, DueIsJoined, JoinIsDone
<1> QED
  BY <1>1, <1>2, <1>3, <1>4 DEF AdapterInvariant

LEMMA NextInvariant == AdapterInvariant /\ [AdapterNext]_adapterVars => AdapterInvariant'
BY AdapterNextTypes, NextKept, NextTold, NextRestore DEF AdapterInvariant

LEMMA AdapterCorrect == AdapterSpec => []AdapterInvariant
<1> QED
  BY InitInvariant, NextInvariant, PTL DEF AdapterSpec

\* Whatever calls and statements fail and whenever the task stops, what the user
\* was told of a hub or a room is what the tables hold for the next start
\* (rrc.rs:129-257).
THEOREM AnswersAreKept == AdapterSpec => []AnsweredIsKept
<1>1. AdapterInvariant => AnsweredIsKept
  BY DEF AdapterInvariant
<1> QED
  BY <1>1, AdapterCorrect, PTL

\* However events are dropped and suppressed, the clients show the state of the
\* session of every saved hub whose newest event reached them (rrc.rs:313-327).
THEOREM SavedHubsAreShown == AdapterSpec => []ClientsAreTold
<1>1. AdapterInvariant => ClientsAreTold
  BY DEF AdapterInvariant, ToldInvariant
<1> QED
  BY <1>1, AdapterCorrect, PTL

\* The restoration of a hub leaves out only rooms that could not be joined, even
\* when commands for the hub are done while it goes on (rrc.rs:401-450).
THEOREM SavedRoomsAreRestored == AdapterSpec => []RoomsAreRestored
<1>1. AdapterInvariant => RoomsAreRestored
  <2> SUFFICES ASSUME AdapterInvariant, NEW h \in Hubs, Settled(h), NEW r \in RoomsSaved(h),
                      promised[<<h, r>>] = TRUE, <<h, r>> \notin late
               PROVE  r \in joined[h]
    BY DEF RoomsAreRestored
  <2>1. r \in Rooms /\ Due(h, r) /\ running /\ ~ToBeJoined(h, r)
    BY DEF Due, RoomsSaved, Settled, ToBeJoined
  <2>2. ~UnderWay(<<h, r>>)
    <3> SUFFICES ASSUME command # Nothing PROVE <<h, r>> \notin Subject(command)
      BY DEF UnderWay
    <3>1. command \in Commands /\ command.hub # h
      BY DEF AdapterInvariant, AdapterTypeOK, Settled
    <3> QED
      BY <2>1, <3>1, CommandTypes, SubjectCases, HubsAndRooms
  <2> QED
    BY <2>1, <2>2 DEF AdapterInvariant, RestoreInvariant, DueIsJoined
<1> QED
  BY <1>1, AdapterCorrect, PTL

-----------------------------------------------------------------------------
(* The two tasks together                                                  *)

\* A behaviour of the two tasks is one of each: what is proved of the network
\* task's directory and of the RRC task holds of them side by side
\* (app.rs:12-22: they share nothing that either writes).
THEOREM TasksAreTheirParts == TasksSpec => Spec /\ AdapterSpec
<1> USE DEF vars, adapterVars
<1>1. TasksInit => Init /\ AdapterInit
  BY DEF TasksInit
<1>2. [TasksNext]_<<vars, adapterVars>> => [Next]_vars /\ [AdapterNext]_adapterVars
  BY DEF TasksNext
<1> QED
  BY <1>1, <1>2, PTL DEF TasksSpec, Spec, AdapterSpec

\* Both keep their types whichever of them moves.
THEOREM TasksTypeCorrect == TasksSpec => []TasksTypeOK
<1>1. Spec /\ AdapterSpec => []TasksTypeOK
  <2>1. TypeOK /\ AdapterTypeOK => TasksTypeOK
    BY DEF TasksTypeOK
  <2> QED
    BY <2>1, DirectoryTypeCorrect, AdapterTypeCorrect, PTL
<1> QED
  BY <1>1, TasksAreTheirParts, PTL
=============================================================================
