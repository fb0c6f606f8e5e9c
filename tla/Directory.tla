----------------------------- MODULE Directory -------------------------------
(***************************************************************************)
(* The directory of announced destinations and the choice of a propagation *)
(* node (src/src/network.rs, db.rs): four announce streams, the announces  *)
(* the transport heard before them, the table known_destinations with its  *)
(* limit, and the tick that downloads stored messages.                     *)
(*                                                                         *)
(* A destination's hash is made from its name and its identity, so it is   *)
(* of one kind for ever.  Identity and delivery hash follow from it and    *)
(* are left out; of the app data only the display name and, for a          *)
(* propagation node, its state are kept.                                   *)
(***************************************************************************)
EXTENDS Integers, Sequences, FiniteSets, Functions

CONSTANTS
    Peers, Nodes, Propagation, RrcHubs,  \* destinations of each kind, by hash
    Names,        \* display names
    Hops,         \* hops an announce may have travelled
    KnownLimit,   \* KNOWN_DESTINATIONS_LIMIT
    Pacing,       \* the 90 s between two downloads, in steps of the clock
    NoData,       \* an announce without app data
    NoName,       \* no display name
    NoNode,       \* no propagation node
    Arriving,     \* bound: the announces that arrive
    MaxTime,      \* bound: the time
    MaxAnnounces, \* bound: announces
    MaxStops,     \* bound: stops of the process
    MaxFaults     \* bound: upserts, and starts of a download, that fail

Destinations == Peers \cup Nodes \cup Propagation \cup RrcHubs

ASSUME DirectoryAssumption ==
    /\ Destinations \subseteq Int /\ IsFiniteSet(Destinations)
    /\ \A K, L \in {Peers, Nodes, Propagation, RrcHubs} : K = L \/ K \cap L = {}
    /\ NoName \notin Names /\ NoNode \notin Destinations
    /\ Hops \subseteq Nat
    /\ KnownLimit \in Nat \ {0} /\ Pacing \in Nat \ {0}
    /\ MaxTime \in Nat /\ MaxAnnounces \in Nat /\ MaxStops \in Nat /\ MaxFaults \in Nat

\* run() subscribes to the streams in this order.
Streams == <<Peers, Nodes, Propagation, RrcHubs>>

\* Only the app data of a propagation node tells whether it is active.
AppData(d) ==
    [name : Names \cup {NoName}, active : IF d \in Propagation THEN BOOLEAN ELSE {TRUE}]

Announces ==
    UNION {[from : {d}, hops : Hops, data : AppData(d) \cup {NoData}] : d \in Destinations}

Rows ==
    [name : Names \cup {NoName}, hops : Hops, seen : 0..MaxTime, active : BOOLEAN,
     data : (UNION {AppData(d) : d \in Destinations}) \cup {NoData}]

ASSUME ArrivingAssumption == Arriving \subseteq Announces

VARIABLES
    phase,      \* how far run() is: "down", "starting", "seeding" or "running"
    subscribed, \* how many of the streams it has subscribed to
    queue,      \* the announces each stream holds
    cache,      \* the announces GetRecentAnnounces tells of, the last of each destination
    seeds,      \* those that seed_cached_announces has still to process
    table,      \* known_destinations, a function on the destinations it holds
    clock,      \* the wall clock
    selected,   \* selected_propagation_node
    age,        \* time since last_propagation_download, as far as it matters
    client,     \* state of the PropagationClient: "idle" or "busy"
    missed,     \* destinations whose last announce could not be stored
    elapsed,    \* time since a download was last started, as far as it matters
    turned,     \* another node was selected since
    announced, stops, faults  \* what the bounds count

streams == <<subscribed, queue, cache, seeds>>
choice == <<selected, age, client>>
history == <<elapsed, turned>>
counts == <<announced, stops, faults>>
vars == <<phase, streams, table, clock, choice, missed, history, counts>>

TypeOK ==
    /\ phase \in {"down", "starting", "seeding", "running"}
    /\ subscribed \in 0..4
    /\ queue \in [1..4 -> Seq(Announces)]
    /\ cache \subseteq Announces /\ seeds \subseteq Announces
    /\ DOMAIN table \subseteq Destinations /\ Range(table) \subseteq Rows
    /\ clock \in 0..MaxTime
    /\ selected \in Propagation \cup {NoNode}
    /\ age \in 0..Pacing /\ elapsed \in 0..Pacing
    /\ client \in {"idle", "busy"}
    /\ missed \subseteq Destinations
    /\ turned \in BOOLEAN
    /\ announced \in 0..MaxAnnounces /\ stops \in 0..MaxStops /\ faults \in 0..MaxFaults

Init ==
    /\ phase = "down"
    /\ subscribed = 0
    /\ queue = [k \in 1..4 |-> <<>>]
    /\ cache = {} /\ seeds = {}
    /\ table = [d \in {} |-> NoData]
    /\ clock = 0
    /\ selected = NoNode /\ age = Pacing /\ client = "idle"
    /\ missed = {}
    /\ elapsed = Pacing /\ turned = TRUE
    /\ announced = 0 /\ stops = 0 /\ faults = 0
-----------------------------------------------------------------------------
(* The table known_destinations                                            *)

\* ORDER BY last_seen DESC, destination_hash puts d before e.
SeenBefore(t, d, e) ==
    \/ t[d].seen > t[e].seen
    \/ t[d].seen = t[e].seen /\ d < e

PruneKnown(t) ==
    Restrict(t, {e \in DOMAIN t : Cardinality({d \in DOMAIN t : SeenBefore(t, d, e)}) < KnownLimit})

\* The entry that process_announce makes of an announce.
IsActive(a) == IF a.from \in Propagation THEN a.data # NoData /\ a.data.active ELSE TRUE
NameIn(a) == IF a.data = NoData THEN NoName ELSE a.data.name

\* ON CONFLICT(destination_hash) DO UPDATE. The mutant takes over what an
\* announce without data says of the state.
IsActiveAlways(a) == IsActive(a)

ActiveAfter(a) ==
    IF a.data = NoData /\ a.from \in DOMAIN table THEN table[a.from].active ELSE IsActive(a)

NameAfter(a) ==
    IF NameIn(a) = NoName /\ a.from \in DOMAIN table THEN table[a.from].name ELSE NameIn(a)

DataAfter(a) ==
    IF a.data = NoData /\ a.from \in DOMAIN table THEN table[a.from].data ELSE a.data

HopsAfter(a) == a.hops

RowAfter(a) ==
    [name |-> NameAfter(a), hops |-> HopsAfter(a), seen |-> clock, active |-> ActiveAfter(a),
     data |-> DataAfter(a)]

UpsertDirectory(a) ==
    PruneKnown([d \in DOMAIN table \cup {a.from} |->
                   IF d = a.from THEN RowAfter(a) ELSE table[d]])

\* process_announce: the upsert fails, which is logged, or it is committed.
ProcessAnnounce(a) ==
    \/ /\ table' = UpsertDirectory(a)
       /\ missed' = missed \ {a.from}
       /\ UNCHANGED faults
    \/ /\ faults < MaxFaults
       /\ faults' = faults + 1
       /\ missed' = missed \cup {a.from}
       /\ UNCHANGED table
-----------------------------------------------------------------------------
(* The transport                                                           *)

StreamOf(d) == CHOOSE k \in 1..4 : d \in Streams[k]

\* An announce arrives: it is remembered, and handed to its stream.
Hear(a) ==
    /\ phase # "down" /\ announced < MaxAnnounces
    /\ announced' = announced + 1
    /\ cache' = {b \in cache : b.from # a.from} \cup {a}
    /\ queue' = IF StreamOf(a.from) <= subscribed
                THEN [queue EXCEPT ![StreamOf(a.from)] = Append(@, a)] ELSE queue
    /\ UNCHANGED <<phase, subscribed, seeds, table, clock, choice, missed, history, stops,
                   faults>>

FinishDownload ==
    /\ client = "busy"
    /\ client' = "idle"
    /\ UNCHANGED <<phase, streams, table, clock, selected, age, missed, history, counts>>
-----------------------------------------------------------------------------
(* run()                                                                   *)

\* Database::maintain prunes as well; the transport may have kept its announces.
Start ==
    /\ phase = "down"
    /\ phase' = "starting"
    /\ table' = PruneKnown(table)
    /\ cache' \in {cache, {}}
    /\ UNCHANGED <<subscribed, queue, seeds, clock, choice, missed, history, counts>>

Subscribe ==
    /\ phase = "starting" /\ subscribed < 4
    /\ subscribed' = subscribed + 1
    /\ UNCHANGED <<phase, queue, cache, seeds, table, clock, choice, missed, history, counts>>

\* seed_cached_announces: GetRecentAnnounces, then one upsert after the other.
AskRecent ==
    /\ phase = "starting" /\ subscribed = 4
    /\ phase' = "seeding"
    /\ seeds' = cache
    /\ UNCHANGED <<subscribed, queue, cache, table, clock, choice, missed, history, counts>>

Seed(a) ==
    /\ phase = "seeding" /\ a \in seeds
    /\ seeds' = seeds \ {a}
    /\ ProcessAnnounce(a)
    /\ UNCHANGED <<phase, subscribed, queue, cache, clock, choice, history, announced, stops>>

EnterLoop ==
    /\ phase = "seeding" /\ seeds = {}
    /\ phase' = "running"
    /\ UNCHANGED <<streams, table, clock, choice, missed, history, counts>>

\* announce = delivery_announces.recv() and the three other streams
ReceiveAnnounce(k) ==
    /\ phase = "running" /\ queue[k] # <<>>
    /\ queue' = [queue EXCEPT ![k] = Tail(@)]
    /\ ProcessAnnounce(Head(queue[k]))
    /\ UNCHANGED <<phase, subscribed, cache, seeds, clock, choice, history, announced, stops>>

\* Mutant: without kind = 'propagation'.
AnyCandidate == {d \in DOMAIN table : table[d].active}

Candidates == {d \in DOMAIN table \cap Propagation : table[d].active}

\* ORDER BY hops, last_seen DESC LIMIT 1: any of those it does not tell apart.
BestPropagationNode ==
    {d \in Candidates : \A e \in Candidates :
        \/ table[d].hops < table[e].hops
        \/ table[d].hops = table[e].hops /\ table[d].seen >= table[e].seen}

\* Mutant: the last download is forgotten at every tick.
AgeForgotten(node) == Pacing

\* last_propagation_download = 0.0 when another node is selected.
AgeFor(node) == IF selected # node THEN Pacing ELSE age

Tick(node) ==
    /\ phase = "running"
    /\ node \in BestPropagationNode
    /\ selected' = node
    /\ IF AgeFor(node) = Pacing /\ client = "idle"
       THEN \/ /\ client' = "busy" /\ age' = 0
               /\ elapsed' = 0 /\ turned' = FALSE
               /\ UNCHANGED faults
            \/ /\ faults < MaxFaults          \* start_download() is false
               /\ faults' = faults + 1
               /\ age' = AgeFor(node)
               /\ turned' = (turned \/ selected # node)
               /\ UNCHANGED <<client, elapsed>>
       ELSE /\ age' = AgeFor(node)
            /\ turned' = (turned \/ selected # node)
            /\ UNCHANGED <<client, elapsed, faults>>
    /\ UNCHANGED <<phase, streams, table, clock, missed, announced, stops>>

TimePasses ==
    /\ clock < MaxTime \/ age < Pacing \/ elapsed < Pacing
    /\ clock' = IF clock < MaxTime THEN clock + 1 ELSE clock
    /\ age' = IF age < Pacing THEN age + 1 ELSE age
    /\ elapsed' = IF elapsed < Pacing THEN elapsed + 1 ELSE elapsed
    /\ UNCHANGED <<phase, streams, table, selected, client, missed, turned, counts>>

\* The process stops: what is not in the table or with the transport is gone.
Stop ==
    /\ phase # "down" /\ stops < MaxStops
    /\ stops' = stops + 1
    /\ phase' = "down"
    /\ subscribed' = 0 /\ queue' = [k \in 1..4 |-> <<>>] /\ seeds' = {}
    /\ selected' = NoNode /\ age' = Pacing /\ client' = "idle" /\ turned' = TRUE
    /\ UNCHANGED <<cache, table, clock, missed, elapsed, announced, faults>>

Next ==
    \/ \E a \in Arriving : Hear(a)
    \/ FinishDownload
    \/ Start \/ Subscribe \/ AskRecent \/ EnterLoop
    \/ \E a \in seeds : Seed(a)
    \/ \E k \in 1..4 : ReceiveAnnounce(k)
    \/ \E node \in Destinations : Tick(node)
    \/ TimePasses
    \/ Stop

Spec == Init /\ [][Next]_vars

\* The select loop gets to every branch that is ready, time goes on, and the
\* library ends every download that it has started.
Fairness ==
    /\ WF_vars(Start \/ Subscribe \/ AskRecent \/ EnterLoop \/ \E a \in seeds : Seed(a))
    /\ \A k \in 1..4 : WF_vars(ReceiveAnnounce(k))
    /\ WF_vars(\E node \in Destinations : Tick(node))
    /\ WF_vars(TimePasses)
    /\ WF_vars(FinishDownload)

FairSpec == Spec /\ Fairness
-----------------------------------------------------------------------------
(* Properties                                                              *)

Pending(d) == \E k \in 1..4 : \E i \in DOMAIN queue[k] : queue[k][i].from = d

\* Once every announce of a destination has been taken from its stream, the
\* table says of it what it announced last: its hops and, if it sent app data,
\* its name and state, whatever was heard before the subscription, seeded in
\* between or announced without data.  At any time a node is active exactly if
\* the newest app data stored of it says so: an announce without data neither
\* revives a node that retired nor retires one (network.rs:586, db.rs:408).
DirectoryCatchesUp ==
    /\ phase = "running" =>
          \A a \in cache :
             a.from \in DOMAIN table \ missed /\ ~Pending(a.from) =>
                LET row == table[a.from] IN
                /\ row.hops = a.hops
                /\ a.data # NoData => row.active = IsActive(a)
                /\ NameIn(a) # NoName => row.name = NameIn(a)
    /\ \A d \in DOMAIN table \cap Propagation :
          table[d].active = (table[d].data # NoData /\ table[d].data.active)

\* Two downloads are Pacing apart unless another node was selected in between.
DownloadsArePaced ==
    [][client = "idle" /\ client' = "busy" => elapsed = Pacing \/ turned \/ selected' # selected]_vars

\* As long as an active node is known, stored messages are downloaded again
\* and again, however nodes take turns.
DownloadsRecur == <>[](phase = "running" /\ Candidates # {}) => []<>(client = "busy")

\* Downloads go on, neither too often nor too seldom (network.rs:303-326).
DownloadsKeepPace == DownloadsArePaced /\ DownloadsRecur
=============================================================================
