----------------------------- MODULE BrowserCache -----------------------------
(***************************************************************************)
(* The page cache of the NomadNet browser: the table browser_cache of      *)
(* src/src/db.rs and the fetch tasks of src/src/network.rs that fill it.   *)
(* Each fetch is a task; several run at once, a later one may finish       *)
(* first, and cancelling a navigation in the client does not stop its      *)
(* fetch.                                                                  *)
(***************************************************************************)
EXTENDS Integers, FiniteSets, FiniteSetsExt, Functions

CONSTANTS
    Urls,        \* canonical addresses; their order is the order of numbers
    Lifetimes,   \* cache_seconds of pages, 0 for "#!c=0"
    Sizes,       \* lengths of bodies
    Entries,     \* BROWSER_CACHE_ENTRIES
    Bytes,       \* BROWSER_CACHE_BYTES
    MaxTime,     \* bound: the clock
    MaxRunning   \* bound: fetches in progress at once

ASSUME CacheAssumption ==
    /\ Urls \subseteq Nat /\ Lifetimes \subseteq Nat /\ Sizes \subseteq Nat
    /\ Entries \in Nat /\ Bytes \in Nat
    /\ MaxTime \in Nat /\ MaxRunning \in Nat

VARIABLES
    now,      \* the wall clock
    cache,    \* the table, persistent: a function from the urls it holds
    fetches   \* the fetch tasks

vars == <<now, cache, fetches>>

\* `read` is when the node answered, `form` whether form fields were sent;
\* the page of a fetch is {} until it has come.
Page == [seconds: Lifetimes, size: Sizes, read: Int]
Fetch == [number: 1..MaxRunning, url: Urls, form: BOOLEAN, started: Int, page: SUBSET Page]

Init ==
    /\ now = 0
    /\ cache = <<>>
    /\ fetches = {}
-----------------------------------------------------------------------------
(* The table                                                               *)

\* ORDER BY stored_at DESC, url
Before(t, u, v) == t[u].stored > t[v].stored \/ (t[u].stored = t[v].stored /\ u < v)

UpTo(t, u) == {v \in DOMAIN t : v = u \/ Before(t, v, u)}

TotalBytes(t) == MapThenSumSet(LAMBDA v : t[v].size, DOMAIN t)

CumulativeBytes(t, u) == TotalBytes(Restrict(t, UpTo(t, u)))

\* Mutant: the limit is off by one.
RetainedTooFew(t) ==
    {u \in DOMAIN t : Cardinality(UpTo(t, u)) <= Entries /\ CumulativeBytes(t, u) < Bytes}

\* prune_browser_cache: the newest Entries, as far as Bytes reaches.
Retained(t) ==
    {u \in DOMAIN t : Cardinality(UpTo(t, u)) <= Entries /\ CumulativeBytes(t, u) <= Bytes}

Prune(t) == Restrict(t, Retained(t))

\* cached_page
Fresh(t, u) == u \in DOMAIN t /\ t[u].expires > now

\* Mutant: the lifetime starts when the page is stored.
ExpiresAfterStore(f, seconds) == now + seconds

\* The clock was read before the request was sent.
Expires(f, seconds) == f.started + seconds

\* cache_page, with the clock read when the fetch started
NewEntry(f, page) ==
    [seconds |-> page.seconds, size |-> page.size, read |-> page.read, form |-> f.form,
     expires |-> Expires(f, page.seconds), stored |-> f.started]
-----------------------------------------------------------------------------
(* The fetch tasks, fetch_page                                             *)

UsesCache(form, reload) == ~form /\ ~reload

\* Tells running fetches apart.
FreeNumbers == (1..MaxRunning) \ {f.number : f \in fetches}

\* The request of a client is answered from the table, which changes nothing,
\* or starts a request to the node.
Start(u, form, reload) ==
    /\ ~(UsesCache(form, reload) /\ Fresh(cache, u))
    /\ FreeNumbers # {}
    /\ fetches' = fetches \cup {[number |-> Min(FreeNumbers), url |-> u, form |-> form,
                                 started |-> now, page |-> {}]}
    /\ UNCHANGED <<now, cache>>

\* The node answers ...
Answer(f, seconds, size) ==
    /\ f.page = {}
    /\ fetches' = (fetches \ {f}) \cup
          {[f EXCEPT !.page = {[seconds |-> seconds, size |-> size, read |-> now]}]}
    /\ UNCHANGED <<now, cache>>

\* ... or the path, the link or the request times out, or the page cannot be
\* parsed.
Fail(f) ==
    /\ fetches' = fetches \ {f}
    /\ UNCHANGED <<now, cache>>

\* Mutant: a page that must not be cached is kept.
StoresUncacheable(f, page) == ~f.form

Stores(f, page) == ~f.form /\ page.seconds > 0

\* INSERT ... ON CONFLICT DO UPDATE and prune in one transaction.
Store(f) ==
    /\ \E page \in f.page :
          cache' = IF Stores(f, page)
                   THEN Prune([u \in DOMAIN cache \cup {f.url} |->
                                  IF u = f.url THEN NewEntry(f, page) ELSE cache[u]])
                   ELSE cache
    /\ fetches' = fetches \ {f}
    /\ UNCHANGED <<now>>
-----------------------------------------------------------------------------
\* DELETE /api/v1/browser/cache
Clear ==
    /\ cache' = <<>>
    /\ UNCHANGED <<now, fetches>>

\* The process stops and starts again; maintain() drops what has expired.
Restart ==
    /\ fetches' = {}
    /\ cache' = Prune(Restrict(cache, {u \in DOMAIN cache : Fresh(cache, u)}))
    /\ UNCHANGED <<now>>

Tick ==
    /\ now < MaxTime
    /\ now' = now + 1
    /\ UNCHANGED <<cache, fetches>>

Next ==
    \/ \E u \in Urls, form, reload \in BOOLEAN : Start(u, form, reload)
    \/ \E f \in fetches, seconds \in Lifetimes, size \in Sizes : Answer(f, seconds, size)
    \/ \E f \in fetches : Fail(f) \/ Store(f)
    \/ Clear
    \/ Restart
    \/ Tick

Spec == Init /\ [][Next]_vars
-----------------------------------------------------------------------------
(* Properties                                                              *)

\* The types of the table and of the tasks; a page that must not be cached is
\* not in the table (db.rs:582).
TypeOK ==
    /\ now \in 0..MaxTime
    /\ DOMAIN cache \subseteq Urls
    /\ \A u \in DOMAIN cache : cache[u] \in [seconds: Lifetimes \ {0}, size: Sizes,
           read: 0..now, form: BOOLEAN, expires: Int, stored: 0..now]
    /\ fetches \subseteq Fetch
    /\ \A f \in fetches : f.started \in 0..now /\ Cardinality(f.page) <= 1

\* A page that would be served from the cache is what the node served to a
\* plain request, never the answer to a form, less than its own lifetime ago,
\* however long the fetch took (network.rs:379-400, db.rs:558).
StalenessIsBounded ==
    \A u \in DOMAIN cache :
        Fresh(cache, u) => ~cache[u].form /\ now < cache[u].read + cache[u].seconds

\* What storing the page of a fetch evicts: nothing that was fetched after a
\* page that stays, and nothing at all below the limits.
EvictsFairly(f) ==
    LET lost == DOMAIN cache \ DOMAIN cache'
        either == [u \in DOMAIN cache \cup DOMAIN cache' |->
                      IF u \in DOMAIN cache' THEN cache'[u] ELSE cache[u]]
        sizes == {cache[v].size : v \in lost} \cup {page.size : page \in f.page}
    IN  /\ Cardinality(DOMAIN cache') <= Entries /\ TotalBytes(cache') <= Bytes
        /\ \A v \in lost, u \in DOMAIN cache' : v = f.url \/ Before(either, u, v)
        /\ lost # {} => \/ Cardinality(DOMAIN cache') = Entries
                        \/ \E size \in sizes : TotalBytes(cache') + size > Bytes

\* Whatever fetches finish in whatever order, storing a page keeps to the
\* limits, never evicts a page while keeping one fetched before it, and
\* evicts only at a limit (db.rs:1119).
EvictionIsFair == [][\A f \in fetches : Store(f) => EvictsFairly(f)]_vars
=============================================================================
