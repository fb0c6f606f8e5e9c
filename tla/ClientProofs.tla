---------------------------- MODULE ClientProofs ----------------------------
(***************************************************************************)
(* What the web client shows, for every value of the constants: the        *)
(* invariants of BrowserCache and of PageView, of which each stands alone, *)
(* and that of ConversationPane, in the order types, then truth: what is   *)
(* on its way, what the server gives, and each step.                       *)
(***************************************************************************)
EXTENDS Client, FiniteSetTheorems, SequenceTheorems,
        WellFoundedInduction, TLAPS

\* A set of natural numbers has a least one, and Min chooses it.
LEMMA LeastNumber ==
    ASSUME NEW T, T \subseteq Nat, T # {}
    PROVE  Min(T) \in T /\ \A y \in T : Min(T) <= y
<1> DEFINE R == OpToRel(<, Nat)
<1>1. IsWellFoundedOn(R, Nat)
  BY NatLessThanWellFounded
<1>2. ASSUME NEW x \in Nat, NEW y \in Nat, <<x, y>> \notin R PROVE y <= x
  BY <1>2 DEF OpToRel
<1> HIDE DEF R
<1>3. PICK x \in T : \A y \in T : <<y, x>> \notin R
  BY <1>1, WFMin
<1>4. \A y \in T : x <= y
  BY <1>2, <1>3
<1> QED
  BY <1>3, <1>4 DEF Min

-----------------------------------------------------------------------------
(* The page cache                                                          *)

\* The page of a fetch was read while the fetch ran.
FetchesAreTimed == \A f \in fetches : \A answer \in f.page : f.started <= answer.read /\ answer.read <= now

\* An entry holds no answer to a form and expires within the lifetime of its
\* page, counted from when the page was read.
EntriesAreHonest ==
    \A u \in DOMAIN cache :
        ~cache[u].form /\ cache[u].expires <= cache[u].read + cache[u].seconds

CacheInvariant == TypeOK /\ FetchesAreTimed /\ EntriesAreHonest

Entry == [seconds: Lifetimes \ {0}, size: Sizes, read: 0..now, form: BOOLEAN, expires: Int,
          stored: 0..now]

\* TypeOK with the records of Entry and Fetch written out.
LEMMA CacheTypes == TypeOK <=>
    /\ now \in 0..MaxTime
    /\ DOMAIN cache \subseteq Urls /\ \A u \in DOMAIN cache : cache[u] \in Entry
    /\ fetches \subseteq Fetch
    /\ \A f \in fetches : f.started \in 0..now /\ Cardinality(f.page) <= 1
BY DEF TypeOK, Entry

\* Pruning and the loss of what has expired only take entries away.
LEMMA PruneFacts ==
    ASSUME NEW t
    PROVE  DOMAIN Prune(t) \subseteq DOMAIN t /\ \A u \in DOMAIN Prune(t) : Prune(t)[u] = t[u]
BY DEF Prune, Restrict, Retained

\* Fewer entries, the clock and the fetches as they were.
LEMMA FewerEntries ==
    ASSUME CacheInvariant, UNCHANGED now, fetches' \subseteq fetches,
           DOMAIN cache' \subseteq DOMAIN cache, \A u \in DOMAIN cache' : cache'[u] = cache[u]
    PROVE  CacheInvariant'
<1>1. TypeOK'
  BY CacheTypes DEF CacheInvariant, TypeOK, Entry
<1>2. FetchesAreTimed' /\ EntriesAreHonest'
  BY DEF CacheInvariant, FetchesAreTimed, EntriesAreHonest
<1> QED
  BY <1>1, <1>2 DEF CacheInvariant

\* One fetch more, or one that goes on.
LEMMA OtherFetch ==
    ASSUME CacheInvariant, UNCHANGED <<now, cache>>, NEW f \in Fetch,
           f.started \in 0..now, Cardinality(f.page) <= 1,
           \A answer \in f.page : f.started <= answer.read /\ answer.read <= now,
           fetches' \subseteq fetches \cup {f}
    PROVE  CacheInvariant'
<1>1. TypeOK'
  BY DEF CacheInvariant, TypeOK
<1>2. FetchesAreTimed' /\ EntriesAreHonest'
  BY DEF CacheInvariant, FetchesAreTimed, EntriesAreHonest
<1> QED
  BY <1>1, <1>2 DEF CacheInvariant

LEMMA StartCache ==
    ASSUME CacheInvariant, NEW u \in Urls, NEW form \in BOOLEAN, NEW reload \in BOOLEAN,
           Start(u, form, reload)
    PROVE  CacheInvariant'
<1> DEFINE f == [number |-> Min(FreeNumbers), url |-> u, form |-> form, started |-> now, page |-> {}]
<1>1. Min(FreeNumbers) \in 1..MaxRunning
  BY LeastNumber DEF Start, FreeNumbers
<1>2. now \in 0..MaxTime /\ now \in 0..now
  BY CacheAssumption DEF CacheInvariant, TypeOK
<1>3. f \in Fetch /\ f.page = {} /\ f.started = now
  BY <1>1, <1>2 DEF Fetch
<1>4. Cardinality(f.page) <= 1
  BY <1>3, FS_EmptySet
<1>5. fetches' \subseteq fetches \cup {f} /\ UNCHANGED <<now, cache>>
  BY DEF Start
<1> HIDE DEF f
<1> QED
  BY <1>2, <1>3, <1>4, <1>5, OtherFetch

LEMMA AnswerCache ==
    ASSUME CacheInvariant, NEW f \in fetches, NEW seconds \in Lifetimes, NEW size \in Sizes,
           Answer(f, seconds, size)
    PROVE  CacheInvariant'
<1> DEFINE answer == [seconds |-> seconds, size |-> size, read |-> now]
           g == [f EXCEPT !.page = {answer}]
<1>1. now \in 0..MaxTime /\ f \in Fetch /\ f.started \in 0..now
  BY DEF CacheInvariant, TypeOK
<1>2. answer \in Page /\ answer.read = now
  BY <1>1 DEF Page
<1> HIDE DEF answer
<1>3. g \in Fetch /\ g.page = {answer} /\ g.started = f.started
  BY <1>1, <1>2 DEF Fetch
<1>4. Cardinality(g.page) <= 1
  <2>1. Cardinality({answer}) = 1
    BY FS_Singleton
  <2> QED
    BY <1>3, <2>1
<1>5. fetches' \subseteq fetches \cup {g} /\ UNCHANGED <<now, cache>>
  BY DEF Answer, answer
<1> HIDE DEF g
<1>6. g.started \in 0..now /\ \A p \in g.page : g.started <= p.read /\ p.read <= now
  BY <1>1, <1>2, <1>3
<1> QED
  BY <1>3, <1>4, <1>5, <1>6, OtherFetch

\* What is stored was read while the fetch ran and expires by its start.
LEMMA StoreCache ==
    ASSUME CacheInvariant, NEW f \in fetches, Store(f)
    PROVE  CacheInvariant'
<1>1. PICK answer \in f.page :
        cache' = IF Stores(f, answer)
                 THEN Prune([u \in DOMAIN cache \cup {f.url} |->
                                IF u = f.url THEN NewEntry(f, answer) ELSE cache[u]])
                 ELSE cache
  BY DEF Store
<1>2. UNCHANGED now /\ fetches' \subseteq fetches
  BY DEF Store
<1>3. CASE ~Stores(f, answer)
  BY <1>1, <1>2, <1>3, FewerEntries
<1>4. CASE Stores(f, answer)
  <2> DEFINE entry == NewEntry(f, answer)
             t == [u \in DOMAIN cache \cup {f.url} |-> IF u = f.url THEN entry ELSE cache[u]]
  <2>1. /\ f \in Fetch /\ f.started \in 0..now /\ now \in Nat
        /\ answer \in Page /\ f.started <= answer.read /\ answer.read <= now
    BY DEF CacheInvariant, TypeOK, FetchesAreTimed, Fetch
  <2>2. /\ f.url \in Urls /\ f.form = FALSE /\ f.started \in Int
        /\ answer.seconds \in Lifetimes \ {0} /\ answer.seconds \in Nat /\ answer.size \in Sizes
        /\ answer.read \in Int /\ answer.read \in 0..now
    <3>1. f.url \in Urls /\ f.form \in BOOLEAN /\ f.started \in Int
      BY <2>1 DEF Fetch
    <3>2. answer.seconds \in Lifetimes /\ answer.size \in Sizes /\ answer.read \in Int
      BY <2>1 DEF Page
    <3>3. answer.seconds \in Nat
      BY <3>2, CacheAssumption
    <3>4. answer.seconds # 0 /\ f.form = FALSE
      BY <1>4, <3>1, <3>3 DEF Stores
    <3> QED
      BY <2>1, <3>1, <3>2, <3>3, <3>4
  <2>3. entry \in Entry /\ ~entry.form /\ entry.expires <= entry.read + entry.seconds
    <3>1. entry = [seconds |-> answer.seconds, size |-> answer.size, read |-> answer.read,
                   form |-> FALSE, expires |-> f.started + answer.seconds, stored |-> f.started]
      BY <2>2 DEF NewEntry, Expires
    <3>2. f.started + answer.seconds \in Int /\ f.started + answer.seconds <= answer.read + answer.seconds
      BY <2>1, <2>2
    <3> HIDE DEF entry
    <3> QED
      BY <2>1, <2>2, <3>1, <3>2 DEF Entry
  <2> HIDE DEF entry
  <2>4. DOMAIN t \subseteq Urls /\ \A u \in DOMAIN t :
          t[u] \in Entry /\ ~t[u].form /\ t[u].expires <= t[u].read + t[u].seconds
    BY <2>2, <2>3, CacheTypes DEF CacheInvariant, EntriesAreHonest
  <2>5. cache' = Prune(t)
    BY <1>1, <1>4 DEF entry
  <2> HIDE DEF t
  <2>6. DOMAIN cache' \subseteq DOMAIN t /\ \A u \in DOMAIN cache' : cache'[u] = t[u]
    BY <2>5, PruneFacts
  <2>7. TypeOK'
    BY <1>2, <2>4, <2>6 DEF CacheInvariant, TypeOK, Entry
  <2>8. FetchesAreTimed' /\ EntriesAreHonest'
    BY <1>2, <2>4, <2>6 DEF CacheInvariant, FetchesAreTimed, EntriesAreHonest
  <2> QED
    BY <2>7, <2>8 DEF CacheInvariant
<1> QED
  BY <1>3, <1>4

LEMMA RestartCache == ASSUME CacheInvariant, Restart PROVE CacheInvariant'
<1> DEFINE t == Restrict(cache, {u \in DOMAIN cache : Fresh(cache, u)})
<1>1. DOMAIN t \subseteq DOMAIN cache /\ \A u \in DOMAIN t : t[u] = cache[u]
  BY DEF Restrict
<1> HIDE DEF t
<1>2. cache' = Prune(t) /\ UNCHANGED now /\ fetches' = {}
  BY DEF Restart, t
<1> QED
  BY <1>1, <1>2, PruneFacts, FewerEntries

LEMMA TickCache == ASSUME CacheInvariant, Tick PROVE CacheInvariant'
<1>1. now \in Nat /\ now' = now + 1 /\ now' \in 0..MaxTime /\ UNCHANGED <<cache, fetches>>
  BY CacheAssumption DEF CacheInvariant, TypeOK, Tick
<1>2. 0..now \subseteq 0..now'
  BY <1>1
<1>3. \A u \in DOMAIN cache : cache[u] \in Entry'
  BY <1>2, CacheTypes DEF CacheInvariant, Entry
<1>4. \A f \in fetches : f.started \in 0..now'
  BY <1>2 DEF CacheInvariant, TypeOK
<1>5. TypeOK'
  BY <1>1, <1>3, <1>4 DEF CacheInvariant, TypeOK, Entry
<1>6. FetchesAreTimed'
  BY <1>1 DEF CacheInvariant, FetchesAreTimed, TypeOK, Fetch, Page
<1>7. EntriesAreHonest'
  BY <1>1 DEF CacheInvariant, EntriesAreHonest
<1> QED
  BY <1>5, <1>6, <1>7 DEF CacheInvariant

LEMMA InitCache == Init => CacheInvariant
<1>1. DOMAIN << >> = {}
  OBVIOUS
<1> QED
  BY <1>1, CacheAssumption DEF Init, CacheInvariant, TypeOK, FetchesAreTimed, EntriesAreHonest

LEMMA NextCache == CacheInvariant /\ [Next]_vars => CacheInvariant'
<1> SUFFICES ASSUME CacheInvariant, [Next]_vars PROVE CacheInvariant'
  OBVIOUS
<1>1. ASSUME NEW f \in fetches, Fail(f) PROVE CacheInvariant'
  BY <1>1, FewerEntries DEF Fail
<1>2. CASE Clear
  <2>1. DOMAIN cache' = {}
    BY <1>2 DEF Clear
  <2> QED
    BY <1>2, <2>1, FewerEntries DEF Clear
<1>3. CASE UNCHANGED vars
  BY <1>3, FewerEntries DEF vars
<1> QED
  BY <1>1, <1>2, <1>3, StartCache, AnswerCache, StoreCache, RestartCache, TickCache DEF Next

LEMMA CacheCorrect == Spec => []CacheInvariant
BY InitCache, NextCache, PTL DEF Spec

\* The types of the table and of the fetch tasks (db.rs:582).
THEOREM CacheTypeCorrect == Spec => []TypeOK
BY CacheCorrect, PTL DEF CacheInvariant

\* However long fetches take and whatever the order they end in, a page served
\* from the cache is what the node served to a plain request, less than its
\* own lifetime ago (network.rs:379-400, db.rs:558).
THEOREM CachedPagesAreFresh == Spec => []StalenessIsBounded
<1>1. CacheInvariant => StalenessIsBounded
  <2> SUFFICES ASSUME CacheInvariant, NEW u \in DOMAIN cache, Fresh(cache, u)
               PROVE  ~cache[u].form /\ now < cache[u].read + cache[u].seconds
    BY DEF StalenessIsBounded
  <2>1. /\ cache[u].expires \in Int /\ cache[u].read \in Int /\ cache[u].seconds \in Nat
        /\ now \in Int
    <3>1. cache[u] \in Entry /\ now \in 0..MaxTime
      BY DEF CacheInvariant, TypeOK, Entry
    <3>2. cache[u].seconds \in Lifetimes /\ cache[u].expires \in Int /\ cache[u].read \in 0..now
      BY <3>1 DEF Entry
    <3>3. cache[u].seconds \in Nat
      BY <3>2, CacheAssumption
    <3> QED
      BY <3>1, <3>2, <3>3
  <2> QED
    BY <2>1 DEF CacheInvariant, EntriesAreHonest, Fresh
<1> QED
  BY <1>1, CacheCorrect, PTL
-----------------------------------------------------------------------------
(* The sum of the sizes of entries                                         *)

\* Among finite sets one has the fewest elements.
LEMMA SmallestSet ==
    ASSUME NEW F, F # {}, \A s \in F : IsFiniteSet(s)
    PROVE  \E s \in F : \A r \in F : Cardinality(s) <= Cardinality(r)
<1> DEFINE T == {Cardinality(s) : s \in F}
<1>1. \A s \in F : Cardinality(s) \in Nat
  BY FS_CardinalityType
<1>2. T \subseteq Nat /\ T # {}
  BY <1>1
<1>3. Min(T) \in T /\ \A y \in T : Min(T) <= y
  BY <1>2, LeastNumber
<1> QED
  BY <1>3

\* Among the subsets of a finite set one has the most elements.
LEMMA LargestSet ==
    ASSUME NEW S, IsFiniteSet(S), NEW F, F # {}, \A s \in F : s \in SUBSET S
    PROVE  \E s \in F : \A r \in F : Cardinality(r) <= Cardinality(s)
<1> DEFINE T == {Cardinality(S) - Cardinality(s) : s \in F}
<1>1. /\ Cardinality(S) \in Nat
      /\ \A s \in F : Cardinality(s) \in Nat /\ Cardinality(s) <= Cardinality(S)
  BY FS_CardinalityType, FS_Subset
<1>2. T \subseteq Nat /\ T # {}
  BY <1>1
<1>3. Min(T) \in T /\ \A y \in T : Min(T) <= y
  BY <1>2, LeastNumber
<1>4. PICK s \in F : Min(T) = Cardinality(S) - Cardinality(s)
  BY <1>3
<1>5. \A r \in F : Cardinality(S) - Cardinality(s) <= Cardinality(S) - Cardinality(r)
  BY <1>3, <1>4
<1> QED
  BY <1>1, <1>5

\* g gives the sum of the sizes of every part of S.
Adds(g, S, t) ==
    /\ g \in [SUBSET S -> Nat]
    /\ g[{}] = 0
    /\ \A s \in SUBSET S : \A x \in s : g[s] = t[x].size + g[s \ {x}]

\* There is a function that adds up the sizes of every subset.
LEMMA SumsExist ==
    ASSUME NEW S, IsFiniteSet(S), NEW t, \A x \in S : t[x].size \in Nat
    PROVE  \E g : Adds(g, S, t)
<1> DEFINE Bad == {T \in SUBSET S : ~\E g : Adds(g, T, t)}
<1> SUFFICES ASSUME Bad # {} PROVE FALSE
  OBVIOUS
<1>1. PICK T \in Bad : \A r \in Bad : Cardinality(T) <= Cardinality(r)
  <2>1. \A s \in Bad : IsFiniteSet(s)
    BY FS_Subset
  <2> QED BY <2>1, SmallestSet
<1>2. IsFiniteSet(T) /\ T \in SUBSET S
  BY FS_Subset
<1>3. T # {}
  <2> SUFFICES ASSUME T = {} PROVE FALSE
    OBVIOUS
  <2> DEFINE g == [s \in SUBSET {} |-> 0]
  <2>1. Adds(g, {}, t)
    BY DEF Adds
  <2> QED BY <2>1
<1>4. PICK a \in T : TRUE
  BY <1>3
<1> DEFINE R == T \ {a}
<1>5. R \in SUBSET S /\ Cardinality(R) = Cardinality(T) - 1 /\ Cardinality(T) \in Nat
  BY <1>2, <1>4, FS_RemoveElement, FS_CardinalityType
<1>6. R \notin Bad
  BY <1>1, <1>5
<1>7. PICK g : Adds(g, R, t)
  BY <1>5, <1>6
<1>8. /\ g \in [SUBSET R -> Nat] /\ g[{}] = 0
      /\ \A s \in SUBSET R : \A x \in s : g[s] = t[x].size + g[s \ {x}]
  BY <1>7 DEF Adds
<1> DEFINE h == [s \in SUBSET T |-> IF a \in s THEN t[a].size + g[s \ {a}] ELSE g[s]]
<1>9. \A s \in SUBSET T : (s \ {a}) \in SUBSET R /\ (a \notin s => s \in SUBSET R)
  OBVIOUS
<1>10. t[a].size \in Nat
  BY <1>2, <1>4
<1>11. h \in [SUBSET T -> Nat] /\ h[{}] = 0
  BY <1>8, <1>9, <1>10
<1>12. ASSUME NEW s \in SUBSET T, NEW x \in s PROVE h[s] = t[x].size + h[s \ {x}]
  <2>0. (s \ {x}) \in SUBSET T /\ t[x].size \in Nat
    BY <1>2
  <2>1. CASE x = a
    <3>1. h[s] = t[a].size + g[s \ {a}] /\ h[s \ {a}] = g[s \ {a}]
      BY <2>0, <2>1
    <3> QED BY <2>1, <3>1
  <2>2. CASE x # a /\ a \in s
    <3>1. h[s] = t[a].size + g[s \ {a}] /\ h[s \ {x}] = t[a].size + g[(s \ {x}) \ {a}]
      BY <2>0, <2>2
    <3>2. g[s \ {a}] = t[x].size + g[(s \ {a}) \ {x}]
      BY <1>8, <1>9, <2>2
    <3>3. (s \ {a}) \ {x} = (s \ {x}) \ {a}
      OBVIOUS
    <3>4. g[(s \ {x}) \ {a}] \in Nat
      BY <1>8, <1>9, <2>0
    <3>5. g[s \ {a}] = t[x].size + g[(s \ {x}) \ {a}]
      BY <3>2, <3>3
    <3>6. \A m, n, k \in Nat : m + (n + k) = n + (m + k)
      OBVIOUS
    <3> HIDE DEF h, R
    <3> QED BY <1>10, <2>0, <3>1, <3>4, <3>5, <3>6
  <2>3. CASE a \notin s
    <3>1. h[s] = g[s] /\ h[s \ {x}] = g[s \ {x}]
      BY <2>0, <2>3
    <3>2. g[s] = t[x].size + g[s \ {x}]
      BY <1>8, <1>9, <2>3
    <3> QED BY <3>1, <3>2
  <2> QED BY <2>1, <2>2, <2>3
<1> HIDE DEF h
<1>13. Adds(h, T, t)
  BY <1>11, <1>12 DEF Adds
<1> QED
  BY <1>13

\* A subset has no greater sum.
LEMMA SumsGrow ==
    ASSUME NEW S, IsFiniteSet(S), NEW t, \A x \in S : t[x].size \in Nat, NEW g, Adds(g, S, t),
           NEW r \in SUBSET S, NEW s \in SUBSET S, r \subseteq s
    PROVE  g[r] <= g[s]
<1> DEFINE Bad == {q \in SUBSET S : r \subseteq q /\ ~(g[r] <= g[q])}
<1> SUFFICES ASSUME Bad # {} PROVE FALSE
  OBVIOUS
<1>1. PICK q \in Bad : \A p \in Bad : Cardinality(q) <= Cardinality(p)
  <2>1. \A p \in Bad : IsFiniteSet(p)
    BY FS_Subset
  <2> QED BY <2>1, SmallestSet
<1>2. \A p \in SUBSET S : g[p] \in Nat
  BY DEF Adds
<1>3. PICK x \in q : x \notin r
  <2>1. g[r] <= g[r]
    BY <1>2
  <2>2. r \subseteq q /\ q # r
    BY <1>1, <2>1
  <2> QED BY <2>2
<1>4. IsFiniteSet(q) /\ (q \ {x}) \in SUBSET S /\ r \subseteq q \ {x}
  BY <1>1, <1>3, FS_Subset
<1>5. Cardinality(q \ {x}) = Cardinality(q) - 1 /\ Cardinality(q) \in Nat
  BY <1>3, <1>4, FS_RemoveElement, FS_CardinalityType
<1>6. g[r] <= g[q \ {x}]
  BY <1>1, <1>4, <1>5
<1>7. g[q] = t[x].size + g[q \ {x}] /\ t[x].size \in Nat
  BY <1>1 DEF Adds
<1> QED
  BY <1>1, <1>2, <1>4, <1>6, <1>7

\* What MapThenSumSet computes by recursion on the parts of S.
Summed(g, S, t) ==
    g = [s \in SUBSET S |->
            IF s = {} THEN 0
            ELSE t[CHOOSE x \in s : TRUE].size + g[s \ {CHOOSE x \in s : TRUE}]]

\* TotalBytes, a fold, is that sum.
LEMMA TotalIsSum ==
    ASSUME NEW S, IsFiniteSet(S), NEW t, NEW g, Adds(g, S, t),
           NEW U \in SUBSET S, NEW r, DOMAIN r = U, \A x \in U : r[x].size = t[x].size
    PROVE  TotalBytes(r) = g[U]
<1> DEFINE iter == CHOOSE h : Summed(h, U, r)
<1>1. TotalBytes(r) = iter[U]
  BY DEF TotalBytes, MapThenSumSet, MapThenFoldSet, Summed
<1>2. /\ g \in [SUBSET S -> Nat] /\ g[{}] = 0
      /\ \A s \in SUBSET S : \A x \in s : g[s] = t[x].size + g[s \ {x}]
  BY DEF Adds
<1> DEFINE h == [s \in SUBSET U |-> g[s]]
<1>3. Summed(h, U, r)
  <2>1. ASSUME NEW s \in SUBSET U, s # {}
        PROVE  h[s] = r[CHOOSE x \in s : TRUE].size + h[s \ {CHOOSE x \in s : TRUE}]
    <3> DEFINE c == CHOOSE x \in s : TRUE
    <3>1. c \in s
      BY <2>1
    <3> HIDE DEF c
    <3>2. h[s] = r[c].size + h[s \ {c}]
      BY <1>2, <3>1
    <3> QED BY <3>2 DEF c
  <2>2. h[{}] = 0
    BY <1>2
  <2>3. h = [s \in SUBSET U |-> h[s]]
    OBVIOUS
  <2> HIDE DEF h
  <2>4. \A s \in SUBSET U : h[s] = IF s = {} THEN 0
              ELSE r[CHOOSE x \in s : TRUE].size + h[s \ {CHOOSE x \in s : TRUE}]
    BY <2>1, <2>2, Zenon
  <2> QED BY <2>3, <2>4, Zenon DEF Summed
<1>4. Summed(iter, U, r)
  BY <1>3
<1> HIDE DEF iter, h
<1>5. \A s \in SUBSET U : iter[s] = IF s = {} THEN 0
              ELSE r[CHOOSE x \in s : TRUE].size + iter[s \ {CHOOSE x \in s : TRUE}]
  BY <1>4, Zenon DEF Summed
<1> DEFINE Bad == {s \in SUBSET U : iter[s] # g[s]}
<1> SUFFICES ASSUME Bad # {} PROVE FALSE
  BY <1>1
<1>6. PICK s \in Bad : \A p \in Bad : Cardinality(s) <= Cardinality(p)
  <2>1. \A p \in Bad : IsFiniteSet(p)
    BY FS_Subset
  <2> QED BY <2>1, SmallestSet
<1>7. s # {}
  BY <1>2, <1>5, <1>6
<1> DEFINE c == CHOOSE x \in s : TRUE
<1>8. c \in s
  BY <1>7
<1>9. iter[s] = r[c].size + iter[s \ {c}]
  BY <1>5, <1>7
<1> HIDE DEF c
<1>10. IsFiniteSet(s) /\ s \in SUBSET S /\ (s \ {c}) \in SUBSET U
  BY FS_Subset
<1>11. Cardinality(s \ {c}) = Cardinality(s) - 1 /\ Cardinality(s) \in Nat
  BY <1>8, <1>10, FS_RemoveElement, FS_CardinalityType
<1>12. iter[s \ {c}] = g[s \ {c}]
  BY <1>6, <1>10, <1>11
<1> QED
  BY <1>2, <1>6, <1>8, <1>9, <1>10, <1>12

-----------------------------------------------------------------------------
(* What pruning keeps                                                      *)

\* A table that can be pruned.
IsTable(t) ==
    /\ IsFiniteSet(DOMAIN t) /\ DOMAIN t \subseteq Nat
    /\ \A u \in DOMAIN t : t[u].size \in Nat /\ t[u].stored \in Nat

\* The order of pruning is total.
LEMMA OrderIsTotal ==
    ASSUME NEW t, IsTable(t)
    PROVE  /\ \A u, v \in DOMAIN t : u = v \/ Before(t, u, v) \/ Before(t, v, u)
           /\ \A u, v \in DOMAIN t : Before(t, u, v) => u # v /\ ~Before(t, v, u)
           /\ \A u, v, w \in DOMAIN t : Before(t, u, v) /\ Before(t, v, w) => Before(t, u, w)
BY DEF IsTable, Before

\* What comes before an entry comes with it.
LEMMA EarlierIsSmaller ==
    ASSUME NEW t, IsTable(t), NEW u \in DOMAIN t, NEW v \in DOMAIN t, Before(t, u, v)
    PROVE  /\ UpTo(t, u) \subseteq UpTo(t, v) /\ UpTo(t, v) \subseteq DOMAIN t
           /\ Cardinality(UpTo(t, u)) < Cardinality(UpTo(t, v))
<1>1. UpTo(t, u) \subseteq UpTo(t, v) /\ UpTo(t, v) \subseteq DOMAIN t
  BY OrderIsTotal DEF UpTo
<1>2. v \in UpTo(t, v) /\ v \notin UpTo(t, u)
  BY OrderIsTotal DEF UpTo
<1>3. IsFiniteSet(UpTo(t, v))
  BY <1>1, FS_Subset DEF IsTable
<1>4. /\ Cardinality(UpTo(t, u)) <= Cardinality(UpTo(t, v))
      /\ Cardinality(UpTo(t, u)) # Cardinality(UpTo(t, v))
      /\ IsFiniteSet(UpTo(t, u))
  BY <1>1, <1>2, <1>3, FS_Subset
<1>5. Cardinality(UpTo(t, u)) \in Nat /\ Cardinality(UpTo(t, v)) \in Nat
  BY <1>3, <1>4, FS_CardinalityType
<1> QED
  BY <1>1, <1>4, <1>5

\* An entry is kept if its number and the bytes up to it are in the limits.
LEMMA KeptByLimits ==
    ASSUME NEW t, IsTable(t), NEW g, Adds(g, DOMAIN t, t)
    PROVE  \A u \in DOMAIN t :
             u \in Retained(t) <=> /\ Cardinality(UpTo(t, u)) <= Entries
                                   /\ g[UpTo(t, u)] <= Bytes
<1> SUFFICES ASSUME NEW u \in DOMAIN t
             PROVE  CumulativeBytes(t, u) = g[UpTo(t, u)]
  BY DEF Retained
<1> DEFINE r == Restrict(t, UpTo(t, u))
<1>1. /\ UpTo(t, u) \in SUBSET (DOMAIN t) /\ DOMAIN r = UpTo(t, u)
      /\ \A x \in UpTo(t, u) : r[x].size = t[x].size
  BY DEF UpTo, Restrict
<1> HIDE DEF r
<1>2. TotalBytes(r) = g[UpTo(t, u)]
  BY <1>1, TotalIsSum DEF IsTable
<1> QED
  BY <1>2 DEF CumulativeBytes, r

\* Pruning keeps to the limits, keeps what is newer than anything kept, and
\* stops only where the next entry is beyond a limit.
PrunesFairly(t, g) ==
    LET k == Retained(t)
    IN  /\ k \subseteq DOMAIN t /\ IsFiniteSet(k)
        /\ Cardinality(k) <= Entries /\ g[k] <= Bytes
        /\ \A u \in k, v \in DOMAIN t \ k : Before(t, u, v)
        /\ k # DOMAIN t => \/ Cardinality(k) = Entries
                           \/ \E u \in DOMAIN t \ k : g[k] + t[u].size > Bytes

\* What Prune leaves is newer than what it takes away.
LEMMA PruneIsFair ==
    ASSUME NEW t, IsTable(t), NEW g, Adds(g, DOMAIN t, t)
    PROVE  PrunesFairly(t, g)
<1> DEFINE D == DOMAIN t
           k == Retained(t)
<1>1. /\ IsFiniteSet(D) /\ \A x \in D : t[x].size \in Nat
      /\ k \subseteq D /\ k \in SUBSET D /\ IsFiniteSet(k) /\ Cardinality(k) \in Nat
  <2>1. k \subseteq D
    BY DEF Retained
  <2> QED BY <2>1, FS_Subset, FS_CardinalityType DEF IsTable
<1>2. /\ \A s \in SUBSET D : g[s] \in Nat
      /\ g[{}] = 0
      /\ \A s \in SUBSET D : \A x \in s : g[s] = t[x].size + g[s \ {x}]
  BY DEF Adds
<1>3. \A u \in D : /\ UpTo(t, u) \in SUBSET D /\ u \in UpTo(t, u)
                   /\ IsFiniteSet(UpTo(t, u)) /\ Cardinality(UpTo(t, u)) \in Nat
  <2>1. \A u \in D : UpTo(t, u) \in SUBSET D /\ u \in UpTo(t, u)
    BY DEF UpTo
  <2> QED BY <1>1, <2>1, FS_Subset, FS_CardinalityType
<1>4. \A r, s \in SUBSET D : r \subseteq s => g[r] <= g[s]
  BY <1>1, SumsGrow
<1>5. \A u \in D : u \in k <=> Cardinality(UpTo(t, u)) <= Entries /\ g[UpTo(t, u)] <= Bytes
  BY KeptByLimits
<1>6. Entries \in Nat /\ Bytes \in Nat
  BY CacheAssumption
<1>7. ASSUME NEW u \in D, NEW v \in k, Before(t, u, v) PROVE u \in k
  <2>1. v \in D
    BY <1>1
  <2>2. UpTo(t, u) \subseteq UpTo(t, v) /\ Cardinality(UpTo(t, u)) < Cardinality(UpTo(t, v))
    BY <1>7, <2>1, EarlierIsSmaller
  <2>3. g[UpTo(t, u)] <= g[UpTo(t, v)]
    BY <1>3, <1>4, <2>1, <2>2
  <2>4. Cardinality(UpTo(t, v)) <= Entries /\ g[UpTo(t, v)] <= Bytes
    BY <1>5, <2>1
  <2>5. g[UpTo(t, u)] \in Nat /\ g[UpTo(t, v)] \in Nat
    BY <1>2, <1>3, <2>1
  <2>6. Cardinality(UpTo(t, u)) <= Entries /\ g[UpTo(t, u)] <= Bytes
    BY <1>3, <1>6, <2>1, <2>2, <2>3, <2>4, <2>5
  <2> QED BY <1>5, <2>6
<1>8. \A u \in k, v \in D \ k : Before(t, u, v)
  BY <1>1, <1>7, OrderIsTotal
<1>9. Cardinality(k) <= Entries /\ g[k] <= Bytes
  <2>1. CASE k = {}
    BY <1>2, <1>6, <2>1, FS_EmptySet
  <2>2. CASE k # {}
    <3> DEFINE F == {UpTo(t, u) : u \in k}
    <3>1. F # {} /\ \A s \in F : s \in SUBSET D
      BY <1>1, <1>3, <2>2
    <3>2. PICK s \in F : \A r \in F : Cardinality(r) <= Cardinality(s)
      BY <1>1, <3>1, LargestSet
    <3>3. PICK u \in k : s = UpTo(t, u)
      BY <3>2
    <3>4. u \in D
      BY <1>1
    <3>5. ASSUME NEW v \in k, v \notin s PROVE FALSE
      <4>1. v \in D /\ UpTo(t, v) \in F
        BY <1>1
      <4>2. Before(t, u, v)
        BY <3>3, <3>4, <3>5, <4>1, OrderIsTotal DEF UpTo
      <4>3. Cardinality(UpTo(t, u)) < Cardinality(UpTo(t, v))
        BY <3>4, <4>1, <4>2, EarlierIsSmaller
      <4> HIDE DEF F
      <4> QED BY <1>3, <3>2, <3>3, <3>4, <4>1, <4>3
    <3>6. k \subseteq s /\ s \in SUBSET D
      BY <1>3, <3>3, <3>4, <3>5
    <3>7. Cardinality(k) <= Cardinality(s) /\ g[k] <= g[s]
      BY <1>1, <1>3, <1>4, <3>3, <3>4, <3>6, FS_Subset
    <3>8. Cardinality(s) <= Entries /\ g[s] <= Bytes
      BY <1>5, <3>3, <3>4
    <3> QED BY <1>1, <1>2, <1>3, <1>6, <3>3, <3>4, <3>6, <3>7, <3>8
  <2> QED BY <2>1, <2>2
<1>10. ASSUME k # D
       PROVE  Cardinality(k) = Entries \/ \E u \in D \ k : g[k] + t[u].size > Bytes
  <2> DEFINE F == {UpTo(t, u) : u \in D \ k}
  <2>1. F # {} /\ \A s \in F : IsFiniteSet(s)
    BY <1>1, <1>3, <1>10
  <2>2. PICK s \in F : \A r \in F : Cardinality(s) <= Cardinality(r)
    BY <2>1, SmallestSet
  <2>3. PICK u \in D \ k : s = UpTo(t, u)
    BY <2>2
  <2>4. ASSUME NEW v \in s, v # u PROVE v \in k
    <3>1. v \in D /\ Before(t, v, u)
      BY <2>3, <2>4 DEF UpTo
    <3>2. Cardinality(UpTo(t, v)) < Cardinality(UpTo(t, u))
      BY <3>1, EarlierIsSmaller
    <3>3. UpTo(t, v) \notin F
      <4> HIDE DEF F
      <4> QED BY <1>3, <2>2, <2>3, <3>1, <3>2
    <3> QED BY <3>1, <3>3
  <2>5. ASSUME NEW v \in k PROVE v \in s
    BY <1>1, <1>8, <2>3 DEF UpTo
  <2>6. s \ {u} = k /\ u \in s /\ s \in SUBSET D
    BY <1>3, <2>3, <2>4, <2>5
  <2>7. Cardinality(s) = Cardinality(k) + 1
    <3>1. Cardinality(k) = Cardinality(s) - 1 /\ Cardinality(s) \in Nat
      BY <1>3, <2>3, <2>6, FS_RemoveElement
    <3> QED BY <3>1
  <2>8. g[s] = t[u].size + g[k]
    BY <1>2, <2>6
  <2>9. ~(Cardinality(s) <= Entries /\ g[s] <= Bytes)
    BY <1>5, <2>3
  <2>10. t[u].size \in Nat /\ g[k] \in Nat
    BY <1>1, <1>2
  <2>11. g[s] = g[k] + t[u].size
    BY <2>8, <2>10
  <2>12. Cardinality(k) = Entries \/ g[k] + t[u].size > Bytes
    <3> HIDE DEF k, F
    <3>1. CASE Cardinality(s) <= Entries
      BY <1>6, <2>9, <2>10, <2>11, <3>1
    <3>2. CASE ~(Cardinality(s) <= Entries)
      BY <1>1, <1>6, <1>9, <2>7, <3>2
    <3> QED BY <3>1, <3>2
  <2> QED BY <2>12
<1> QED
  BY <1>1, <1>8, <1>9, <1>10 DEF PrunesFairly

\* The table keeps to its limits.
CacheIsBounded ==
    /\ IsFiniteSet(DOMAIN cache)
    /\ Cardinality(DOMAIN cache) <= Entries /\ TotalBytes(cache) <= Bytes

\* Prune leaves no more than the limits allow.
LEMMA PrunedIsBounded ==
    ASSUME NEW t, IsTable(t)
    PROVE  /\ IsFiniteSet(DOMAIN Prune(t))
           /\ Cardinality(DOMAIN Prune(t)) <= Entries /\ TotalBytes(Prune(t)) <= Bytes
           /\ \A u \in DOMAIN Prune(t), v \in DOMAIN t \ DOMAIN Prune(t) : Before(t, u, v)
           /\ DOMAIN Prune(t) # DOMAIN t =>
                \/ Cardinality(DOMAIN Prune(t)) = Entries
                \/ \E u \in DOMAIN t \ DOMAIN Prune(t) :
                      TotalBytes(Prune(t)) + t[u].size > Bytes
<1>1. PICK g : Adds(g, DOMAIN t, t)
  BY SumsExist DEF IsTable
<1>2. PrunesFairly(t, g)
  BY <1>1, PruneIsFair
<1>3. /\ DOMAIN Prune(t) = Retained(t) /\ Retained(t) \in SUBSET (DOMAIN t)
      /\ \A u \in Retained(t) : Prune(t)[u].size = t[u].size
  BY DEF Prune, Restrict, Retained
<1>4. TotalBytes(Prune(t)) = g[Retained(t)]
  BY <1>1, <1>3, TotalIsSum DEF IsTable
<1> QED
  BY <1>2, <1>3, <1>4 DEF PrunesFairly

\* An empty cache is in the limits.
LEMMA EmptyIsBounded ==
    ASSUME NEW t, DOMAIN t = {}
    PROVE  IsFiniteSet(DOMAIN t) /\ Cardinality(DOMAIN t) <= Entries /\ TotalBytes(t) <= Bytes
<1>1. IsTable(t)
  BY FS_EmptySet DEF IsTable
<1>2. PICK g : Adds(g, DOMAIN t, t)
  BY <1>1, SumsExist DEF IsTable
<1>3. DOMAIN t \in SUBSET (DOMAIN t) /\ \A x \in DOMAIN t : t[x].size = t[x].size
  OBVIOUS
<1>4. TotalBytes(t) = g[DOMAIN t]
  BY <1>1, <1>2, <1>3, TotalIsSum DEF IsTable
<1>5. TotalBytes(t) = 0
  BY <1>2, <1>4 DEF Adds
<1> QED
  BY <1>5, FS_EmptySet, CacheAssumption

\* The table and any part of it can be pruned.
LEMMA CacheIsTable ==
    ASSUME CacheInvariant, CacheIsBounded, NEW t, DOMAIN t \subseteq DOMAIN cache,
           \A u \in DOMAIN t : t[u] = cache[u]
    PROVE  IsTable(t)
<1>1. IsFiniteSet(DOMAIN t) /\ DOMAIN t \subseteq Nat
  BY FS_Subset, CacheAssumption DEF CacheInvariant, TypeOK, CacheIsBounded
<1>2. \A u \in DOMAIN t : t[u] \in Entry /\ now \in Nat
  BY CacheTypes, CacheAssumption DEF CacheInvariant
<1>3. \A u \in DOMAIN t : t[u].size \in Sizes /\ t[u].stored \in 0..now /\ now \in Nat
  BY <1>2 DEF Entry
<1>4. ASSUME NEW u \in DOMAIN t PROVE t[u].size \in Nat /\ t[u].stored \in Nat
  <2>1. t[u].size \in Sizes /\ t[u].stored \in 0..now /\ now \in Nat
    BY <1>3
  <2>2. t[u].size \in Nat
    BY <2>1, CacheAssumption, Zenon
  <2>3. t[u].stored \in Nat
    BY <2>1
  <2> QED BY <2>2, <2>3
<1> QED
  BY <1>1, <1>4 DEF IsTable

\* The table before it is pruned, with the page of a fetch.
WithPage(f, answer) ==
    [u \in DOMAIN cache \cup {f.url} |-> IF u = f.url THEN NewEntry(f, answer) ELSE cache[u]]

\* The cache with the page that is stored, before it is pruned.
LEMMA WithPageIsTable ==
    ASSUME CacheInvariant, CacheIsBounded, NEW f \in fetches, NEW answer \in f.page
    PROVE  /\ IsTable(WithPage(f, answer)) /\ WithPage(f, answer)[f.url].size = answer.size
           /\ DOMAIN WithPage(f, answer) = DOMAIN cache \cup {f.url}
           /\ \A u \in DOMAIN cache \ {f.url} : WithPage(f, answer)[u] = cache[u]
<1> DEFINE t == WithPage(f, answer)
<1>1. /\ DOMAIN t = DOMAIN cache \cup {f.url} /\ t[f.url] = NewEntry(f, answer)
      /\ \A u \in DOMAIN cache \ {f.url} : t[u] = cache[u]
  BY DEF WithPage
<1> HIDE DEF t
<1>2. IsTable(cache)
  BY CacheIsTable
<1>3. f \in Fetch /\ f.started \in 0..now /\ now \in Nat
  BY CacheAssumption DEF CacheInvariant, TypeOK
<1>4. f.url \in Urls /\ answer \in Page
  BY <1>3 DEF Fetch
<1>5. answer.size \in Nat /\ f.url \in Nat /\ f.started \in Nat
  <2>1. answer.size \in Sizes
    BY <1>4 DEF Page
  <2>2. answer.size \in Nat /\ f.url \in Nat
    BY <1>4, <2>1, CacheAssumption, Zenon
  <2>3. f.started \in Nat
    BY <1>3
  <2> QED BY <2>2, <2>3
<1>6. t[f.url].size = answer.size /\ t[f.url].stored = f.started
  BY <1>1 DEF NewEntry
<1>7. IsFiniteSet(DOMAIN t)
  BY <1>1, <1>2, FS_AddElement DEF IsTable
<1>8. IsTable(t)
  BY <1>1, <1>2, <1>5, <1>6, <1>7 DEF IsTable
<1> QED
  BY <1>1, <1>6, <1>8 DEF t

LEMMA NextIsBounded ==
    CacheInvariant /\ CacheIsBounded /\ [Next]_vars => CacheIsBounded'
<1> SUFFICES ASSUME CacheInvariant, CacheIsBounded, [Next]_vars PROVE CacheIsBounded'
  OBVIOUS
<1>1. CASE UNCHANGED cache
  BY <1>1 DEF CacheIsBounded
<1>2. CASE Clear
  <2>1. DOMAIN cache' = {}
    BY <1>2 DEF Clear
  <2> QED BY <2>1, EmptyIsBounded DEF CacheIsBounded
<1>3. CASE Restart
  <2> DEFINE t == Restrict(cache, {u \in DOMAIN cache : Fresh(cache, u)})
  <2>1. DOMAIN t \subseteq DOMAIN cache /\ \A u \in DOMAIN t : t[u] = cache[u]
    BY DEF Restrict
  <2>2. cache' = Prune(t)
    BY <1>3 DEF Restart
  <2> HIDE DEF t
  <2>3. IsTable(t)
    BY <2>1, CacheIsTable
  <2> QED BY <2>2, <2>3, PrunedIsBounded DEF CacheIsBounded
<1>4. ASSUME NEW f \in fetches, Store(f) PROVE CacheIsBounded'
  <2>1. PICK answer \in f.page :
          cache' = IF Stores(f, answer) THEN Prune(WithPage(f, answer)) ELSE cache
    BY <1>4 DEF Store, WithPage
  <2>2. CASE Stores(f, answer)
    BY <2>1, <2>2, WithPageIsTable, PrunedIsBounded DEF CacheIsBounded
  <2> QED BY <1>1, <2>1, <2>2
<1> QED
  BY <1>1, <1>2, <1>3, <1>4 DEF Next, vars, Start, Answer, Fail, Tick

\* When a page is stored, what is lost is older than what is kept.
LEMMA StoreIsFair ==
    ASSUME CacheInvariant, CacheIsBounded, NEW f \in fetches, Store(f)
    PROVE  EvictsFairly(f)
<1> DEFINE lost == DOMAIN cache \ DOMAIN cache'
           either == [u \in DOMAIN cache \cup DOMAIN cache' |->
                         IF u \in DOMAIN cache' THEN cache'[u] ELSE cache[u]]
           sizes == {cache[v].size : v \in lost} \cup {answer.size : answer \in f.page}
<1>1. PICK answer \in f.page :
        cache' = IF Stores(f, answer) THEN Prune(WithPage(f, answer)) ELSE cache
  BY DEF Store, WithPage
<1>2. CASE ~Stores(f, answer)
  BY <1>1, <1>2 DEF CacheIsBounded, EvictsFairly
<1>3. CASE Stores(f, answer)
  <2> DEFINE t == WithPage(f, answer)
  <2>1. /\ IsTable(t) /\ t[f.url].size = answer.size
        /\ DOMAIN t = DOMAIN cache \cup {f.url}
        /\ \A u \in DOMAIN cache \ {f.url} : t[u] = cache[u]
    BY WithPageIsTable
  <2>2. cache' = Prune(t)
    BY <1>1, <1>3
  <2> HIDE DEF t
  <2>3. DOMAIN cache' \subseteq DOMAIN t /\ \A u \in DOMAIN cache' : cache'[u] = t[u]
    BY <2>2, PruneFacts
  <2>4. /\ Cardinality(DOMAIN cache') <= Entries /\ TotalBytes(cache') <= Bytes
        /\ \A u \in DOMAIN cache', v \in DOMAIN t \ DOMAIN cache' : Before(t, u, v)
        /\ DOMAIN cache' # DOMAIN t =>
              \/ Cardinality(DOMAIN cache') = Entries
              \/ \E u \in DOMAIN t \ DOMAIN cache' : TotalBytes(cache') + t[u].size > Bytes
    BY <2>1, <2>2, PrunedIsBounded
  <2>5. ASSUME NEW v \in lost, NEW u \in DOMAIN cache', v # f.url
        PROVE  Before(either, u, v)
    <3>1. either[u] = t[u] /\ either[v] = t[v]
      <4>2. /\ u \in DOMAIN cache' /\ v \in DOMAIN cache /\ v \notin DOMAIN cache'
            /\ v \in DOMAIN cache \ {f.url}
        BY <2>5
      <4>3. either[u] = cache'[u] /\ either[v] = cache[v]
        BY <4>2
      <4> QED BY <2>1, <2>3, <4>2, <4>3
    <3>2. Before(t, u, v)
      BY <2>1, <2>4
    <3> QED BY <3>1, <3>2 DEF Before
  <2>6. ASSUME lost # {}
        PROVE  \/ Cardinality(DOMAIN cache') = Entries
               \/ \E size \in sizes : TotalBytes(cache') + size > Bytes
    <3>1. DOMAIN cache' # DOMAIN t
      BY <2>1, <2>6
    <3>2. ASSUME NEW u \in DOMAIN t \ DOMAIN cache' PROVE t[u].size \in sizes
      BY <2>1
    <3> HIDE DEF sizes
    <3> QED BY <2>4, <3>1, <3>2
  <2> QED BY <2>4, <2>5, <2>6 DEF EvictsFairly
<1> QED
  BY <1>2, <1>3

\* Whatever fetches finish in whatever order, storing a page keeps the table
\* to its limits, evicts nothing fetched after a page that stays, and evicts
\* only at a limit (db.rs:1119).
THEOREM EvictionKeepsOrder == Spec => EvictionIsFair
<1>1. Init => CacheIsBounded
  <2>1. DOMAIN << >> = {}
    OBVIOUS
  <2> QED BY <2>1, EmptyIsBounded DEF Init, CacheIsBounded
<1>2. Spec => []CacheIsBounded
  BY <1>1, CacheCorrect, NextIsBounded, PTL DEF Spec
<1>3. CacheInvariant /\ CacheIsBounded => \A f \in fetches : Store(f) => EvictsFairly(f)
  BY StoreIsFair
<1> QED
  BY <1>2, <1>3, CacheCorrect, PTL DEF Spec, EvictionIsFair

-----------------------------------------------------------------------------
(* The history of the page view                                            *)

\* What a navigation asks for is still what the history and the page say when
\* its answer comes.
NavigationIsHonest ==
    navigation # None =>
        /\ generation < MaxPages
        /\ navigation.kind = "visit" => position < MaxHistory
        /\ navigation.kind = "history" => position # 0 /\ navigation.to = history[position]
        /\ navigation.kind = "reload" /\ failed = None => navigation.to = shown

Navigations == [to : Addresses, kind : {"visit", "history", "reload"}]

BrowserTypes ==
    /\ history \in Seq(Addresses) /\ Len(history) <= MaxHistory
    /\ position \in 0..Len(history)
    /\ shown \in Addresses \cup {None} /\ failed \in Addresses \cup {None}
    /\ navigation \in Navigations \cup {None}
    /\ generation \in 0..MaxPages
    /\ astray \in BOOLEAN

BrowserInvariant == BrowserTypes /\ HistoryIsKept /\ NavigationIsHonest

LEMMA InitBrowser == ViewInit => BrowserInvariant
<1>1. << >> \in Seq(Addresses) /\ Len(<< >>) = 0
  OBVIOUS
<1>2. ASSUME ViewInit PROVE BrowserTypes
  <2>1. history \in Seq(Addresses) /\ Len(history) = 0 /\ position = 0
    BY <1>1, <1>2 DEF ViewInit
  <2>2. Len(history) <= MaxHistory /\ position \in 0..Len(history) /\ 0 \in 0..MaxPages
    BY <2>1, ViewAssumption
  <2> QED
    BY <1>2, <2>1, <2>2 DEF ViewInit, BrowserTypes
<1>3. ASSUME ViewInit PROVE HistoryIsKept /\ NavigationIsHonest
  <2>1. (history = << >>) = TRUE /\ (position = 0) = TRUE /\ navigation = None
    BY <1>3 DEF ViewInit
  <2> QED
    BY <2>1 DEF HistoryIsKept, NavigationIsHonest
<1> QED
  BY <1>2, <1>3 DEF BrowserInvariant

\* The history with an address behind the position.
LEMMA PushedFacts ==
    ASSUME BrowserTypes, NEW address \in Addresses
    PROVE  /\ Pushed(address) \in Seq(Addresses) /\ Pushed(address) # << >>
           /\ Len(Pushed(address)) = position + 1 /\ Pushed(address)[position + 1] = address
<1>1. /\ SubSeq(history, 1, position) \in Seq(Addresses)
      /\ Len(SubSeq(history, 1, position)) = position
  BY DEF BrowserTypes
<1> QED
  BY <1>1 DEF Pushed, BrowserTypes

LEMMA VisitBrowser ==
    ASSUME BrowserInvariant, NEW address \in Addresses, Visit(address)
    PROVE  BrowserInvariant'
<1>1. navigation' = [to |-> address, kind |-> "visit"] /\ navigation' \in Navigations
      /\ navigation'.kind = "visit"
  BY DEF Visit, Navigate, Navigations
<1>2. BrowserTypes'
  BY <1>1 DEF BrowserInvariant, BrowserTypes, Visit
<1>3. HistoryIsKept' /\ NavigationIsHonest'
  BY <1>1 DEF BrowserInvariant, HistoryIsKept, NavigationIsHonest, Visit, Navigate
<1> QED
  BY <1>2, <1>3 DEF BrowserInvariant

LEMMA StepBrowser ==
    ASSUME BrowserInvariant, NEW by \in {-1, 1}, Step(by)
    PROVE  BrowserInvariant'
<1>1. position' \in 1..Len(history) /\ history' = history /\ history[position'] \in Addresses
  BY DEF Step, BrowserInvariant, BrowserTypes
<1>2. navigation' = [to |-> history[position'], kind |-> "history"] /\ navigation' \in Navigations
      /\ navigation'.kind = "history" /\ navigation'.to = history[position']
  BY <1>1 DEF Step, Navigate, Navigations
<1>3. BrowserTypes'
  BY <1>1, <1>2 DEF BrowserInvariant, BrowserTypes, Step
<1>4. HistoryIsKept'
  BY <1>1 DEF BrowserInvariant, BrowserTypes, HistoryIsKept, Step
<1>5. NavigationIsHonest'
  BY <1>1, <1>2 DEF NavigationIsHonest, Step, Navigate
<1> QED
  BY <1>3, <1>4, <1>5 DEF BrowserInvariant

LEMMA ReloadBrowser == ASSUME BrowserInvariant, Reload PROVE BrowserInvariant'
<1> DEFINE to == IF failed # None THEN failed ELSE shown
<1>1. to \in Addresses /\ (failed = None => to = shown)
  BY DEF Reload, BrowserInvariant, BrowserTypes
<1>2. navigation' = [to |-> to, kind |-> "reload"] /\ navigation' \in Navigations
      /\ navigation'.kind = "reload" /\ navigation'.to = to
  BY <1>1 DEF Reload, Navigate, Navigations
<1> HIDE DEF to
<1>3. BrowserTypes'
  BY <1>2 DEF BrowserInvariant, BrowserTypes, Reload
<1>4. HistoryIsKept' /\ NavigationIsHonest'
  BY <1>1, <1>2 DEF BrowserInvariant, HistoryIsKept, NavigationIsHonest, Reload, Navigate
<1> QED
  BY <1>3, <1>4 DEF BrowserInvariant

LEMMA EndBrowser ==
    ASSUME BrowserInvariant, CancelNavigation \/ FailNavigation
    PROVE  BrowserInvariant'
<1>1. navigation' = None /\ UNCHANGED <<history, position, shown, astray, generation>>
  BY DEF CancelNavigation, FailNavigation
<1>2. failed' \in Addresses \cup {None}
  BY DEF CancelNavigation, FailNavigation, BrowserInvariant, BrowserTypes, Navigations
<1> QED
  BY <1>1, <1>2 DEF BrowserInvariant, BrowserTypes, HistoryIsKept, NavigationIsHonest

\* The page that arrives is that of the history, or the history is astray.
LEMMA ArriveBrowser ==
    ASSUME BrowserInvariant, NEW partials \in PartialsOfPage, Arrive(partials)
    PROVE  BrowserInvariant'
<1>1. /\ navigation # None /\ navigation \in Navigations /\ navigation.to \in Addresses
      /\ navigation.kind \in {"visit", "history", "reload"}
  BY DEF Arrive, BrowserInvariant, BrowserTypes, Navigations
<1>2. /\ navigation' = None /\ shown' = navigation.to /\ failed' = None
      /\ generation' = generation + 1 /\ generation < MaxPages
      /\ astray' = (navigation.kind = "reload" /\ (astray \/ failed # None))
  BY DEF Arrive, BrowserInvariant, NavigationIsHonest
<1>3. generation' \in 0..MaxPages /\ astray' \in BOOLEAN
  BY <1>2, ViewAssumption DEF BrowserInvariant, BrowserTypes
<1>4. NavigationIsHonest'
  BY <1>2 DEF NavigationIsHonest
<1>5. CASE navigation.kind = "visit"
  <2>1. history' = Pushed(navigation.to) /\ position' = position + 1 /\ position < MaxHistory
    BY <1>1, <1>5 DEF Arrive, BrowserInvariant, NavigationIsHonest
  <2>2. /\ history' \in Seq(Addresses) /\ history' # << >>
        /\ Len(history') = position' /\ history'[position'] = shown'
    BY <1>1, <1>2, <2>1, PushedFacts DEF BrowserInvariant
  <2>3. position' \in 0..Len(history') /\ Len(history') <= MaxHistory /\ position' # 0
    BY <2>1, <2>2, ViewAssumption DEF BrowserInvariant, BrowserTypes
  <2>4. BrowserTypes'
    BY <1>1, <1>2, <1>3, <2>2, <2>3 DEF BrowserTypes
  <2>5. HistoryIsKept'
    BY <2>2, <2>3 DEF HistoryIsKept
  <2> QED
    BY <1>4, <2>4, <2>5 DEF BrowserInvariant
<1>6. CASE navigation.kind # "visit"
  <2>1. UNCHANGED <<history, position>>
    BY <1>6 DEF Arrive
  <2>2. BrowserTypes'
    BY <1>1, <1>2, <1>3, <2>1 DEF BrowserInvariant, BrowserTypes
  <2>3. ASSUME ~astray', history' # << >> PROVE shown' = history'[position']
    <3>1. CASE navigation.kind = "history"
      BY <1>1, <1>2, <2>1, <3>1 DEF BrowserInvariant, NavigationIsHonest
    <3>2. CASE navigation.kind = "reload"
      <4>1. ~astray /\ failed = None
        BY <1>2, <2>3, <3>2
      <4> QED
        BY <1>1, <1>2, <2>1, <2>3, <3>2, <4>1 DEF BrowserInvariant, NavigationIsHonest, HistoryIsKept
    <3> QED
      BY <1>1, <1>6, <3>1, <3>2
  <2>4. HistoryIsKept'
    BY <2>1, <2>3 DEF BrowserInvariant, HistoryIsKept
  <2> QED
    BY <1>4, <2>2, <2>4 DEF BrowserInvariant
<1> QED
  BY <1>5, <1>6

LEMMA NextBrowser == BrowserInvariant /\ [ViewNext]_viewVars => BrowserInvariant'
<1> SUFFICES ASSUME BrowserInvariant, [ViewNext]_viewVars PROVE BrowserInvariant'
  OBVIOUS
<1>1. ASSUME UNCHANGED <<browser, generation>> PROVE BrowserInvariant'
  BY <1>1 DEF browser, BrowserInvariant, BrowserTypes, HistoryIsKept, NavigationIsHonest
<1>2. ASSUME NEW n \in DOMAIN elements,
             StartPartial(n) \/ FireTimer(n) \/ \E partials \in PartialsOfPage : AnswerPartial(n, partials)
      PROVE  BrowserInvariant'
  BY <1>1, <1>2 DEF StartPartial, FireTimer, AnswerPartial
<1>3. ASSUME NEW ns \in SUBSET DOMAIN elements, RefreshMicronPartials(ns) PROVE BrowserInvariant'
  BY <1>1, <1>3 DEF RefreshMicronPartials
<1>4. CASE UNCHANGED viewVars
  BY <1>1, <1>4 DEF viewVars
<1> QED
  BY <1>2, <1>3, <1>4, VisitBrowser, StepBrowser, ReloadBrowser, EndBrowser, ArriveBrowser DEF ViewNext
-----------------------------------------------------------------------------
(* The partials of the page view                                           *)

\* A partial lies in all that the partials around it lie in, never in itself:
\* what is taken out with a partial leaves nothing in the document whose
\* surroundings are gone.
Nested(es, n) ==
    /\ n \notin es[n].within
    /\ \A m \in es[n].within :
          m \in DOMAIN es /\ es[m].connected /\ es[m].within \subseteq es[n].within

\* What PartialsArePaced says of an element, and how it is nested.
Sound(es, n, current) ==
    /\ es[n].loading \/ es[n].timer => es[n].generation = current
    /\ es[n].connected => es[n].generation = current /\ Nested(es, n)
    /\ es[n].connected /\ es[n].refreshes => es[n].start \/ es[n].timer \/ es[n].loading

AreElements(es) == \A n \in DOMAIN es : es[n] \in Element

AllSound(es, current) == AreElements(es) /\ \A n \in DOMAIN es : Sound(es, n, current)

\* Nothing that stays in the document lies in what is taken out.
Closed(es, gone) ==
    \A n \in DOMAIN es \ gone : es[n].connected => es[n].within \cap gone = {}

\* An element that goes on loading or waiting is the same place of the page.
SamePlace(e, f) ==
    /\ f \in Element /\ f.within = e.within /\ f.generation = e.generation
    /\ f.refreshes = e.refreshes /\ f.connected = e.connected

\* The elements that are not collected stay, and stay sound.
LEMMA CollectedSound ==
    ASSUME NEW es, NEW current, AllSound(es, current)
    PROVE  /\ AllSound(Collected(es), current) /\ DOMAIN Collected(es) \subseteq DOMAIN es
           /\ \A n \in DOMAIN Collected(es) : Collected(es)[n] = es[n]
           /\ \A n \in DOMAIN es : es[n].connected => n \in DOMAIN Collected(es)
<1> DEFINE cs == Collected(es)
<1>1. /\ DOMAIN cs \subseteq DOMAIN es /\ \A n \in DOMAIN cs : cs[n] = es[n]
      /\ \A n \in DOMAIN es : es[n].connected => n \in DOMAIN cs
  BY DEF Collected, Restrict
<1> HIDE DEF cs
<1>2. ASSUME NEW n \in DOMAIN cs PROVE Sound(cs, n, current) /\ cs[n] \in Element
  BY <1>1 DEF AllSound, AreElements, Sound, Nested
<1>3. AllSound(cs, current)
  BY <1>2 DEF AllSound, AreElements
<1> QED
  BY <1>1, <1>3 DEF cs

\* Partials that are disconnected stay sound.
LEMMA DisconnectedSound ==
    ASSUME NEW es, NEW gone, NEW current, AllSound(es, current), Closed(es, gone)
    PROVE  /\ AllSound(Disconnected(es, gone), current) /\ DOMAIN Disconnected(es, gone) = DOMAIN es
           /\ \A n \in DOMAIN es \ gone : Disconnected(es, gone)[n] = es[n]
<1> DEFINE ds == Disconnected(es, gone)
<1>1. /\ DOMAIN ds = DOMAIN es
      /\ \A n \in DOMAIN es \ gone : ds[n] = es[n]
      /\ \A n \in DOMAIN es \cap gone : ds[n] = [es[n] EXCEPT !.connected = FALSE]
  BY DEF Disconnected
<1> HIDE DEF ds
<1>2. ASSUME NEW n \in DOMAIN es, n \in gone PROVE Sound(ds, n, current) /\ ds[n] \in Element
  <2>1. es[n] \in Element /\ ds[n] = [es[n] EXCEPT !.connected = FALSE]
    BY <1>1, <1>2 DEF AllSound, AreElements
  <2>2. /\ ds[n] \in Element /\ ds[n].connected = FALSE /\ ds[n].loading = es[n].loading
        /\ ds[n].timer = es[n].timer /\ ds[n].generation = es[n].generation
    BY <2>1 DEF Element
  <2> QED
    BY <1>2, <2>2 DEF AllSound, Sound
<1>3. ASSUME NEW n \in DOMAIN es, n \notin gone PROVE Sound(ds, n, current) /\ ds[n] \in Element
  <2>1. ds[n] = es[n] /\ es[n] \in Element /\ Sound(es, n, current)
    BY <1>1, <1>3 DEF AllSound, AreElements
  <2>2. es[n].connected => Nested(ds, n)
    <3> SUFFICES ASSUME es[n].connected PROVE Nested(ds, n)
      OBVIOUS
    <3>1. Nested(es, n) /\ es[n].within \cap gone = {}
      BY <1>3, <2>1 DEF Sound, Closed
    <3>2. \A m \in es[n].within : m \in DOMAIN es /\ ds[m] = es[m]
      BY <1>1, <3>1 DEF Nested
    <3> QED
      BY <1>1, <2>1, <3>1, <3>2 DEF Nested
  <2> QED
    BY <2>1, <2>2 DEF Sound
<1>4. AllSound(ds, current)
  BY <1>1, <1>2, <1>3 DEF AllSound, AreElements
<1> QED
  BY <1>1, <1>4 DEF ds

\* Elements go on, each at its place.
LEMMA OngoingSound ==
    ASSUME NEW es, NEW fs, NEW current, AllSound(es, current), DOMAIN fs = DOMAIN es,
           \A n \in DOMAIN es :
              /\ SamePlace(es[n], fs[n])
              /\ fs[n].loading \/ fs[n].timer => fs[n].generation = current
              /\ fs[n].connected /\ fs[n].refreshes => fs[n].start \/ fs[n].timer \/ fs[n].loading
    PROVE  AllSound(fs, current)
<1> SUFFICES ASSUME NEW n \in DOMAIN es PROVE Sound(fs, n, current) /\ fs[n] \in Element
  BY DEF AllSound, AreElements
<1>1. fs[n].connected => fs[n].generation = current /\ Nested(fs, n)
  BY DEF AllSound, Sound, Nested, SamePlace
<1> QED
  BY <1>1 DEF Sound, SamePlace

\* A partial is rendered where the contents of a place were; a number that is
\* free is in no partial of the document.
LEMMA RenderedSound ==
    ASSUME NEW es, NEW gone, NEW within, NEW current \in 0..MaxPages, NEW partials \in PartialsOfPage,
           AllSound(Disconnected(es, gone), current), DOMAIN es \subseteq 1..MaxElements,
           within \subseteq DOMAIN es \ gone,
           \A m \in within : es[m].connected /\ es[m].within \subseteq within
    PROVE  LET rs == Rendered(es, gone, within, current, partials)
           IN  /\ AllSound(rs, current)
               /\ Cardinality(DOMAIN rs) <= MaxElements => DOMAIN rs \subseteq 1..MaxElements
<1> DEFINE ds == Disconnected(es, gone)
           left == Collected(ds)
           number == Min((1..MaxElements + 1) \ DOMAIN left)
           new == [within |-> within, generation |-> current, refreshes |-> TRUE \in partials,
                   connected |-> TRUE, start |-> TRUE, timer |-> FALSE, loading |-> FALSE]
           rs == Rendered(es, gone, within, current, partials)
<1>1. /\ AllSound(ds, current) /\ DOMAIN ds = DOMAIN es /\ \A m \in within : ds[m] = es[m]
  BY DEF Disconnected
<1> HIDE DEF ds
<1>2. /\ AllSound(left, current) /\ DOMAIN left \subseteq 1..MaxElements
      /\ \A m \in within : m \in DOMAIN left /\ left[m] = es[m]
  BY <1>1, CollectedSound
<1>3. DOMAIN rs = DOMAIN left \cup (IF partials = {} THEN {} ELSE {number})
      /\ \A n \in DOMAIN rs : rs[n] = IF n \in DOMAIN left THEN left[n] ELSE new
  BY DEF Rendered, ds
<1> HIDE DEF left, rs
<1>4. /\ number \in (1..MaxElements + 1) \ DOMAIN left
      /\ \A k \in (1..MaxElements + 1) \ DOMAIN left : number <= k
  <2> DEFINE free == (1..MaxElements + 1) \ DOMAIN left
  <2>1. free \subseteq Nat /\ MaxElements + 1 \in free
    BY <1>2, ViewAssumption
  <2> HIDE DEF free
  <2>2. Min(free) \in free /\ \A k \in free : Min(free) <= k
    BY <2>1, LeastNumber
  <2> QED
    BY <2>2 DEF free
<1>5. new \in Element /\ new.within = within /\ new.generation = current /\ new.connected = TRUE
      /\ new.loading = FALSE /\ new.timer = FALSE /\ new.start = TRUE
  <2>1. within \in SUBSET (1..MaxElements)
    BY <1>2
  <2>2. (TRUE \in partials) \in BOOLEAN
    OBVIOUS
  <2> QED
    BY <2>1, <2>2 DEF Element
<1> HIDE DEF new, number
<1>6. ASSUME NEW n \in DOMAIN rs, n \in DOMAIN left PROVE Sound(rs, n, current) /\ rs[n] \in Element
  <2>1. rs[n] = left[n] /\ Sound(left, n, current) /\ left[n] \in Element
    BY <1>2, <1>3, <1>6 DEF AllSound, AreElements
  <2>2. Nested(left, n) => Nested(rs, n)
    <3>1. ASSUME NEW m \in DOMAIN left PROVE m \in DOMAIN rs /\ rs[m] = left[m]
      BY <1>3
    <3> QED
      BY <2>1, <3>1 DEF Nested
  <2> QED
    BY <2>1, <2>2 DEF Sound
<1>7. ASSUME NEW n \in DOMAIN rs, n \notin DOMAIN left PROVE Sound(rs, n, current) /\ rs[n] \in Element
  <2>1. rs[n] = new /\ n \notin within
    BY <1>2, <1>3, <1>7
  <2>2. \A m \in within : m \in DOMAIN rs /\ rs[m] = es[m]
    BY <1>2, <1>3
  <2>3. Nested(rs, n)
    BY <1>5, <2>1, <2>2 DEF Nested
  <2> QED
    BY <1>5, <2>1, <2>3 DEF Sound
<1>8. AllSound(rs, current)
  BY <1>6, <1>7 DEF AllSound, AreElements
<1>9. ASSUME Cardinality(DOMAIN rs) <= MaxElements, NEW n \in DOMAIN rs PROVE n \in 1..MaxElements
  <2>1. CASE n \in DOMAIN left
    BY <1>2, <2>1
  <2>2. CASE n \notin DOMAIN left
    <3>1. n = number /\ number \in DOMAIN rs
      BY <1>3, <2>2
    <3> SUFFICES ASSUME number = MaxElements + 1 PROVE FALSE
      BY <1>4, <3>1, ViewAssumption
    <3>2. 1..MaxElements \subseteq DOMAIN left
      BY <1>4, ViewAssumption
    <3>3. DOMAIN rs = 1..(MaxElements + 1)
      BY <1>2, <1>3, <3>1, <3>2, ViewAssumption
    <3>4. Cardinality(DOMAIN rs) = MaxElements + 1
      BY <3>3, FS_Interval, ViewAssumption
    <3> QED
      BY <1>9, <3>4, ViewAssumption
  <2> QED
    BY <2>1, <2>2
<1> QED
  BY <1>8, <1>9 DEF rs
ElementsInvariant == AllSound(elements, generation) /\ DOMAIN elements \subseteq 1..MaxElements

LEMMA InitElements == ViewInit => ElementsInvariant
<1>1. DOMAIN << >> = {}
  OBVIOUS
<1> QED
  BY <1>1 DEF ViewInit, ElementsInvariant, AllSound, AreElements

LEMMA ArriveElements ==
    ASSUME BrowserInvariant, ElementsInvariant, NEW partials \in PartialsOfPage, Arrive(partials)
    PROVE  ElementsInvariant'
<1> DEFINE es == Silenced(elements)
           ds == Disconnected(es, DOMAIN elements)
<1>1. generation' \in 0..MaxPages
  BY ArriveBrowser DEF BrowserInvariant, BrowserTypes
<1>2. DOMAIN es = DOMAIN elements /\ \A n \in DOMAIN es :
        es[n] = [elements[n] EXCEPT !.timer = FALSE, !.loading = FALSE]
  BY DEF Silenced
<1>3. DOMAIN ds = DOMAIN elements /\ \A n \in DOMAIN elements :
        ds[n] = [es[n] EXCEPT !.connected = FALSE]
  BY <1>2 DEF Disconnected
<1> HIDE DEF es, ds
<1>4. ASSUME NEW n \in DOMAIN elements PROVE Sound(ds, n, generation') /\ ds[n] \in Element
  <2>1. elements[n] \in Element
    BY DEF ElementsInvariant, AllSound, AreElements
  <2>2. es[n] \in Element /\ es[n].timer = FALSE /\ es[n].loading = FALSE
    BY <1>2, <2>1 DEF Element
  <2>3. /\ ds[n] \in Element /\ ds[n].connected = FALSE
        /\ ds[n].timer = FALSE /\ ds[n].loading = FALSE
    BY <1>3, <2>2 DEF Element
  <2> QED
    BY <2>3 DEF Sound
<1>5. AllSound(ds, generation')
  BY <1>3, <1>4 DEF AllSound, AreElements
<1>6. elements' = Rendered(es, DOMAIN elements, {}, generation', partials)
      /\ Cardinality(DOMAIN elements') <= MaxElements
  BY DEF Arrive, Fits, es
<1> QED
  BY <1>1, <1>2, <1>5, <1>6, RenderedSound DEF ElementsInvariant, ds

LEMMA FailElements == ASSUME ElementsInvariant, FailNavigation PROVE ElementsInvariant'
<1> DEFINE ds == Disconnected(elements, DOMAIN elements)
<1>1. Closed(elements, DOMAIN elements)
  BY DEF Closed
<1>2. AllSound(ds, generation) /\ DOMAIN ds = DOMAIN elements
  BY <1>1, DisconnectedSound DEF ElementsInvariant
<1> HIDE DEF ds
<1>3. elements' = Collected(ds) /\ generation' = generation
  BY DEF FailNavigation, ds
<1> QED
  BY <1>2, <1>3, CollectedSound DEF ElementsInvariant

\* A timeout, a timer or a link makes an element load, if it belongs to the page.
LEMMA LoadedPlace ==
    ASSUME NEW e \in Element, NEW f \in Element, SamePlace(e, f),
           e.connected => e.generation = generation,
           f.loading \/ f.timer => f.generation = generation
    PROVE  /\ SamePlace(e, Load(f))
           /\ Load(f).loading \/ Load(f).timer => Load(f).generation = generation
           /\ Load(f).connected => Load(f).loading
<1>1. CASE Belongs(f)
  <2>1. Load(f) = [f EXCEPT !.loading = TRUE] /\ f.generation = generation
    BY <1>1 DEF Load, Belongs
  <2>2. /\ Load(f) \in Element /\ Load(f).loading = TRUE
        /\ Load(f).within = f.within /\ Load(f).generation = f.generation
        /\ Load(f).refreshes = f.refreshes /\ Load(f).connected = f.connected
    BY <2>1 DEF Element
  <2> QED
    BY <2>1, <2>2 DEF SamePlace
<1>2. CASE ~Belongs(f)
  BY <1>2 DEF Load, Belongs, SamePlace
<1> QED
  BY <1>1, <1>2

LEMMA FiredElements ==
    ASSUME ElementsInvariant, NEW n \in DOMAIN elements, StartPartial(n) \/ FireTimer(n)
    PROVE  ElementsInvariant'
<1> DEFINE e == elements[n]
<1>1. e \in Element /\ Sound(elements, n, generation)
  BY DEF ElementsInvariant, AllSound, AreElements
<1> DEFINE started == [e EXCEPT !.start = FALSE]
           fired == [e EXCEPT !.timer = FALSE]
<1>2. started \in Element /\ SamePlace(e, started)
      /\ (started.loading \/ started.timer => started.generation = generation)
  BY <1>1 DEF Element, SamePlace, Sound
<1>3. fired \in Element /\ SamePlace(e, fired)
      /\ (fired.loading \/ fired.timer => fired.generation = generation)
  BY <1>1 DEF Element, SamePlace, Sound
<1>4. PICK f \in {started, fired} : elements' = Collected([elements EXCEPT ![n] = Load(f)])
  BY DEF StartPartial, FireTimer
<1> DEFINE fs == [elements EXCEPT ![n] = Load(f)]
<1>5. DOMAIN fs = DOMAIN elements /\ fs[n] = Load(f)
      /\ \A m \in DOMAIN elements : m # n => fs[m] = elements[m]
  OBVIOUS
<1>6. /\ SamePlace(e, Load(f))
      /\ Load(f).loading \/ Load(f).timer => Load(f).generation = generation
      /\ Load(f).connected => Load(f).loading
  <2>1. f \in Element /\ SamePlace(e, f) /\ (f.loading \/ f.timer => f.generation = generation)
    BY <1>2, <1>3, <1>4
  <2>2. e.connected => e.generation = generation
    BY <1>1 DEF Sound
  <2> HIDE DEF e, started, fired
  <2> QED
    BY <1>1, <2>1, <2>2, LoadedPlace
<1> HIDE DEF fs, started, fired
<1>7. AllSound(fs, generation)
  <2>1. \A m \in DOMAIN elements : m # n =>
          /\ SamePlace(elements[m], fs[m])
          /\ fs[m].loading \/ fs[m].timer => fs[m].generation = generation
          /\ fs[m].connected /\ fs[m].refreshes => fs[m].start \/ fs[m].timer \/ fs[m].loading
    BY <1>5 DEF ElementsInvariant, AllSound, AreElements, Sound, SamePlace
  <2> QED
    BY <1>5, <1>6, <2>1, OngoingSound DEF ElementsInvariant
<1>8. generation' = generation
  BY DEF StartPartial, FireTimer
<1> QED
  BY <1>4, <1>5, <1>7, <1>8, CollectedSound DEF ElementsInvariant, fs

LEMMA RefreshElements ==
    ASSUME ElementsInvariant, NEW ns \in SUBSET DOMAIN elements, RefreshMicronPartials(ns)
    PROVE  ElementsInvariant'
<1>1. elements' = [n \in DOMAIN elements |->
                      IF n \in ns THEN Load([elements[n] EXCEPT !.timer = FALSE]) ELSE elements[n]]
      /\ generation' = generation
  BY DEF RefreshMicronPartials
<1>2. ASSUME NEW n \in DOMAIN elements
      PROVE  /\ SamePlace(elements[n], elements'[n])
             /\ elements'[n].loading \/ elements'[n].timer => elements'[n].generation = generation
             /\ elements'[n].connected /\ elements'[n].refreshes =>
                   elements'[n].start \/ elements'[n].timer \/ elements'[n].loading
  <2> DEFINE e == elements[n]
             f == [e EXCEPT !.timer = FALSE]
  <2>1. e \in Element /\ Sound(elements, n, generation)
    BY DEF ElementsInvariant, AllSound, AreElements
  <2>2. CASE n \notin ns
    BY <1>1, <2>1, <2>2 DEF Sound, SamePlace
  <2>3. CASE n \in ns
    <3>1. f \in Element /\ SamePlace(e, f) /\ (f.loading \/ f.timer => f.generation = generation)
          /\ (e.connected => e.generation = generation)
      BY <2>1 DEF Element, SamePlace, Sound
    <3>2. elements'[n] = Load(f)
      BY <1>1, <2>3
    <3> HIDE DEF e, f
    <3>3. /\ SamePlace(e, Load(f))
          /\ Load(f).loading \/ Load(f).timer => Load(f).generation = generation
          /\ Load(f).connected => Load(f).loading
      BY <2>1, <3>1, LoadedPlace
    <3> QED
      BY <3>2, <3>3 DEF e
  <2> QED
    BY <2>2, <2>3
<1>3. DOMAIN elements' = DOMAIN elements
  BY <1>1
<1>4. AllSound(elements', generation)
  BY <1>2, <1>3, OngoingSound DEF ElementsInvariant
<1> QED
  BY <1>1, <1>3, <1>4 DEF ElementsInvariant
\* What is shown in a partial takes the place of what was in it, and of all
\* that was in that.
LEMMA AnsweredElements ==
    ASSUME BrowserInvariant, ElementsInvariant, NEW n \in DOMAIN elements,
           NEW partials \in PartialsOfPage, AnswerPartial(n, partials)
    PROVE  ElementsInvariant'
<1> DEFINE old == elements[n]
           e == [old EXCEPT !.loading = FALSE,
                            !.timer = @ \/ (Belongs(old) /\ old.refreshes)]
           es == [elements EXCEPT ![n] = e]
           gone == Contained(es, n)
           within == e.within \cup {n}
<1>1. /\ Fits /\ generation' = generation
      /\ elements' = IF Belongs(e) THEN Rendered(es, gone, within, generation, partials)
                     ELSE Collected(es)
  BY DEF AnswerPartial
<1>2. old \in Element /\ Sound(elements, n, generation)
  BY DEF ElementsInvariant, AllSound, AreElements
<1>3. /\ SamePlace(old, e) /\ e.loading = FALSE /\ e.start = old.start
      /\ e.timer = (old.timer \/ (Belongs(old) /\ old.refreshes))
  <2> DEFINE rest == [old EXCEPT !.loading = FALSE]
  <2>1. rest \in Element /\ SamePlace(old, rest) /\ rest.loading = FALSE
        /\ rest.start = old.start /\ rest.timer = old.timer
    BY <1>2 DEF Element, SamePlace
  <2> DEFINE timer == rest.timer \/ (Belongs(old) /\ old.refreshes)
  <2>2. timer \in BOOLEAN
    BY Zenon
  <2>3. e = [rest EXCEPT !.timer = timer]
    BY <2>1
  <2> HIDE DEF timer, rest, e
  <2>4. e \in Element /\ e.timer = timer /\ e.loading = rest.loading /\ e.start = rest.start
        /\ e.within = rest.within /\ e.generation = rest.generation
        /\ e.refreshes = rest.refreshes /\ e.connected = rest.connected
    BY <2>1, <2>2, <2>3 DEF Element
  <2> QED
    BY <2>1, <2>4 DEF SamePlace, timer
<1> HIDE DEF e
<1>4. /\ e.loading \/ e.timer => e.generation = generation
      /\ e.connected /\ e.refreshes => e.start \/ e.timer \/ e.loading
      /\ Belongs(e) => Belongs(old) /\ e.connected
  <2>1. old.generation = e.generation /\ old.connected = e.connected /\ old.refreshes = e.refreshes
    BY <1>3 DEF SamePlace
  <2>2. old.connected => old.generation = generation
    BY <1>2 DEF Sound
  <2> QED
    BY <1>2, <1>3, <2>1, <2>2 DEF Sound, Belongs
<1>5. DOMAIN es = DOMAIN elements /\ es[n] = e
      /\ \A m \in DOMAIN elements : m # n => es[m] = elements[m]
  OBVIOUS
<1> HIDE DEF es
<1>6. AllSound(es, generation)
  <2>1. \A m \in DOMAIN elements : m # n =>
          /\ SamePlace(elements[m], es[m])
          /\ es[m].loading \/ es[m].timer => es[m].generation = generation
          /\ es[m].connected /\ es[m].refreshes => es[m].start \/ es[m].timer \/ es[m].loading
    BY <1>5 DEF ElementsInvariant, AllSound, AreElements, Sound, SamePlace
  <2> QED
    BY <1>3, <1>4, <1>5, <2>1, OngoingSound DEF ElementsInvariant
<1>7. CASE ~Belongs(e)
  BY <1>1, <1>5, <1>6, <1>7, CollectedSound DEF ElementsInvariant
<1>8. CASE Belongs(e)
  <2>1. Nested(es, n) /\ e.connected
    BY <1>4, <1>5, <1>6, <1>8 DEF AllSound, Sound
  <2>2. gone = {m \in DOMAIN es : n \in es[m].within}
    BY DEF Contained
  <2>3. Closed(es, gone)
    <3> SUFFICES ASSUME NEW k \in DOMAIN es, k \notin gone, es[k].connected,
                        NEW m \in es[k].within, m \in gone
                 PROVE  FALSE
      BY DEF Closed
    <3>1. Nested(es, k)
      BY <1>6 DEF AllSound, Sound
    <3>2. n \in es[m].within /\ es[m].within \subseteq es[k].within
      BY <2>2, <3>1 DEF Nested
    <3> QED
      BY <2>2, <3>2
  <2>4. AllSound(Disconnected(es, gone), generation)
    BY <1>6, <2>3, DisconnectedSound
  <2>5. \A m \in within : m \in DOMAIN es \ gone /\ es[m].connected /\ es[m].within \subseteq within
    BY <1>5, <2>1, <2>2 DEF Nested
  <2>6. generation \in 0..MaxPages
    BY DEF BrowserInvariant, BrowserTypes
  <2>7. DOMAIN es \subseteq 1..MaxElements
    BY <1>5 DEF ElementsInvariant
  <2> HIDE DEF gone, within
  <2>8. elements' = Rendered(es, gone, within, generation, partials)
        /\ Cardinality(DOMAIN elements') <= MaxElements
    BY <1>1, <1>8 DEF Fits
  <2> QED
    BY <1>1, <2>4, <2>5, <2>6, <2>7, <2>8, RenderedSound DEF ElementsInvariant
<1> QED
  BY <1>7, <1>8

LEMMA NextElements ==
    BrowserInvariant /\ ElementsInvariant /\ [ViewNext]_viewVars => ElementsInvariant'
<1> SUFFICES ASSUME BrowserInvariant, ElementsInvariant, [ViewNext]_viewVars
             PROVE  ElementsInvariant'
  OBVIOUS
<1>1. ASSUME UNCHANGED <<elements, generation>> PROVE ElementsInvariant'
  BY <1>1 DEF ElementsInvariant
<1>2. ASSUME NEW address \in Addresses, Visit(address) PROVE ElementsInvariant'
  BY <1>1, <1>2 DEF Visit
<1>3. ASSUME NEW by \in {-1, 1}, Step(by) PROVE ElementsInvariant'
  BY <1>1, <1>3 DEF Step
<1>4. CASE Reload \/ CancelNavigation
  BY <1>1, <1>4 DEF Reload, CancelNavigation
<1>5. CASE UNCHANGED viewVars
  BY <1>1, <1>5 DEF viewVars
<1> QED
  BY <1>2, <1>3, <1>4, <1>5, FailElements, ArriveElements, FiredElements, RefreshElements,
     AnsweredElements DEF ViewNext

ViewInvariant == BrowserInvariant /\ ElementsInvariant

LEMMA ViewCorrect == ViewSpec => []ViewInvariant
<1>1. ViewInit => ViewInvariant
  BY InitBrowser, InitElements DEF ViewInvariant
<1>2. ViewInvariant /\ [ViewNext]_viewVars => ViewInvariant'
  BY NextBrowser, NextElements DEF ViewInvariant
<1> QED
  BY <1>1, <1>2, PTL DEF ViewSpec

\* The types of the history, the navigation and the elements (app.js:712-880).
THEOREM ViewTypeCorrect == ViewSpec => []ViewTypeOK
<1>1. ViewInvariant => ViewTypeOK
  BY DEF ViewInvariant, BrowserInvariant, BrowserTypes, Navigations, ElementsInvariant, AllSound,
         AreElements, ViewTypeOK
<1> QED
  BY <1>1, ViewCorrect, PTL

\* Whatever navigations, answers, timers and failures overtake each other, the
\* history says what is shown, and the partials that load or refresh are those
\* of the page in view (app.js:712-754, 824-880, 1563-1579).
THEOREM PageIsThatOfHistory == ViewSpec => []ViewIsCurrent
<1>1. ElementsInvariant => PartialsArePaced
  BY DEF ElementsInvariant, AllSound, Sound, Nested, PartialsArePaced
<1>2. ViewInvariant => ViewIsCurrent
  BY <1>1 DEF ViewInvariant, BrowserInvariant, ViewIsCurrent
<1> QED
  BY <1>2, ViewCorrect, PTL
-----------------------------------------------------------------------------
(* Requests and answers on their way                                       *)

IsQueue(s) == Len(s) \in Nat /\ s = [j \in 1..Len(s) |-> s[j]]

\* A queue is a sequence of its elements, and a sequence a queue.
LEMMA QueueIsSeq ==
    ASSUME NEW s, IsQueue(s)
    PROVE  s \in Seq({s[j] : j \in DOMAIN s}) /\ DOMAIN s = 1..Len(s)
<1> DEFINE S == {s[j] : j \in DOMAIN s}
<1>1. DOMAIN s = 1..Len(s)
  BY DEF IsQueue
<1>2. s \in [1..Len(s) -> S]
  BY <1>1 DEF IsQueue
<1>3. s \in Seq(S)
  BY <1>2, SeqDef DEF IsQueue
<1> QED
  BY <1>1, <1>3

LEMMA SeqIsQueue ==
    ASSUME NEW S, NEW s \in Seq(S)
    PROVE  IsQueue(s) /\ DOMAIN s = 1..Len(s)
<1>1. Len(s) \in Nat /\ s \in [1..Len(s) -> S] /\ DOMAIN s = 1..Len(s)
  BY LenProperties
<1> QED
  BY <1>1 DEF IsQueue

\* r is s with t behind it.
Joined(r, s, t) ==
    /\ IsQueue(r) /\ Len(r) = Len(s) + Len(t)
    /\ \A j \in 1..Len(s) : r[j] = s[j]
    /\ \A j \in 1..Len(t) : r[Len(s) + j] = t[j]

\* Concatenation and Append put their second argument behind the first.
LEMMA ConcatJoins ==
    ASSUME NEW s, NEW t, IsQueue(s), IsQueue(t)
    PROVE  Joined(s \o t, s, t)
<1> DEFINE S == {s[j] : j \in DOMAIN s} \cup {t[j] : j \in DOMAIN t}
<1>1. s \in Seq(S) /\ t \in Seq(S) /\ Len(s) \in Nat /\ Len(t) \in Nat
  BY QueueIsSeq, SeqMonotonic DEF IsQueue
<1> HIDE DEF S
<1>2. /\ s \o t \in Seq(S) /\ Len(s \o t) = Len(s) + Len(t)
      /\ \A i \in 1..Len(s) + Len(t) :
            (s \o t)[i] = IF i <= Len(s) THEN s[i] ELSE t[i - Len(s)]
  BY <1>1, ConcatProperties
<1>3. IsQueue(s \o t)
  BY <1>2, SeqIsQueue
<1>4. ASSUME NEW j \in 1..Len(t) PROVE (s \o t)[Len(s) + j] = t[j]
  <2>1. Len(s) + j \in 1..Len(s) + Len(t) /\ ~(Len(s) + j <= Len(s)) /\ (Len(s) + j) - Len(s) = j
    BY <1>1
  <2> QED BY <1>2, <2>1
<1>5. ASSUME NEW j \in 1..Len(s) PROVE (s \o t)[j] = s[j]
  <2>1. j \in 1..Len(s) + Len(t) /\ j <= Len(s)
    BY <1>1
  <2> QED BY <1>2, <2>1
<1> QED
  BY <1>2, <1>3, <1>4, <1>5 DEF Joined

LEMMA AppendJoins ==
    ASSUME NEW s, NEW x, IsQueue(s)
    PROVE  Joined(Append(s, x), s, <<x>>)
<1> DEFINE S == {s[j] : j \in DOMAIN s} \cup {x}
<1>1. s \in Seq(S) /\ x \in S /\ Len(s) \in Nat
  BY QueueIsSeq, SeqMonotonic DEF IsQueue
<1> HIDE DEF S
<1>2. Append(s, x) = s \o <<x>>
  BY <1>1, AppendIsConcat
<1>3. <<x>> \in Seq({x})
  OBVIOUS
<1> QED
  BY <1>2, <1>3, SeqIsQueue, ConcatJoins

\* r is s without its k-th element.
Without(r, s, k) ==
    /\ IsQueue(r) /\ IsQueue(s) /\ k \in 1..Len(s) /\ Len(r) = Len(s) - 1
    /\ \A j \in 1..Len(r) : r[j] = s[IF j < k THEN j ELSE j + 1]

\* RemoveAt leaves out one element and moves those behind it.
LEMMA RemovalLeaves ==
    ASSUME NEW s, IsQueue(s), NEW k \in DOMAIN s
    PROVE  Without(RemoveAt(s, k), s, k)
<1> DEFINE S == {s[j] : j \in DOMAIN s}
           n == Len(s)
<1>1. s \in Seq(S) /\ n \in Nat /\ DOMAIN s = 1..n /\ k \in 1..n
  BY QueueIsSeq DEF IsQueue
<1> HIDE DEF S
<1>2. \A j \in 1..n : s[j] \in S
  BY <1>1, ElementOfSeq
<1>3. /\ SubSeq(s, 1, k - 1) \in Seq(S)
      /\ Len(SubSeq(s, 1, k - 1)) = k - 1
      /\ \A j \in 1..k - 1 : SubSeq(s, 1, k - 1)[j] = s[j]
  BY <1>1, <1>2
<1>4. /\ SubSeq(s, k + 1, n) \in Seq(S)
      /\ Len(SubSeq(s, k + 1, n)) = n - k
      /\ \A j \in 1..n - k : SubSeq(s, k + 1, n)[j] = s[j + k]
  <2>1. k + 1 \in Int /\ n \in Int /\ \A i \in k + 1..n : s[i] \in S
    BY <1>1, <1>2
  <2>2. /\ SubSeq(s, k + 1, n) \in Seq(S)
        /\ Len(SubSeq(s, k + 1, n)) = IF k + 1 <= n THEN n - (k + 1) + 1 ELSE 0
        /\ \A i \in 1..n - (k + 1) + 1 : SubSeq(s, k + 1, n)[i] = s[k + 1 + i - 1]
    BY <2>1, SubSeqProperties
  <2>3. n - (k + 1) + 1 = n - k /\ (k + 1 <= n <=> n - k # 0)
    BY <1>1
  <2>4. \A i \in 1..n - k : k + 1 + i - 1 = i + k
    BY <1>1
  <2> QED BY <1>1, <2>2, <2>3, <2>4
<1>5. Joined(RemoveAt(s, k), SubSeq(s, 1, k - 1), SubSeq(s, k + 1, n))
  BY <1>3, <1>4, SeqIsQueue, ConcatJoins DEF RemoveAt
<1>6. Len(RemoveAt(s, k)) = n - 1 /\ IsQueue(RemoveAt(s, k))
  BY <1>1, <1>3, <1>4, <1>5 DEF Joined
<1>7. ASSUME NEW j \in 1..n - 1
      PROVE  RemoveAt(s, k)[j] = s[IF j < k THEN j ELSE j + 1]
  <2>1. CASE j < k
    <3>1. j \in 1..k - 1
      BY <1>1, <2>1
    <3> QED BY <1>3, <1>5, <2>1, <3>1 DEF Joined
  <2>2. CASE ~(j < k)
    <3> DEFINE i == j - (k - 1)
    <3>1. i \in 1..n - k /\ (k - 1) + i = j /\ i + k = j + 1
      BY <1>1, <2>2
    <3> HIDE DEF i
    <3>2. RemoveAt(s, k)[(k - 1) + i] = SubSeq(s, k + 1, n)[i]
      BY <1>3, <1>4, <1>5, <3>1 DEF Joined
    <3> QED BY <1>4, <2>2, <3>1, <3>2
  <2> QED BY <2>1, <2>2
<1> QED
  BY <1>1, <1>6, <1>7 DEF Without
(***************************************************************************)
(* A page that is quiet tells the truth, for any number of peers, messages,*)
(* events and deeds.                                                       *)
(***************************************************************************)

\* Nothing failed, no answer overtook another, and the user waits.
Undisturbed == Patient /\ failures = 0 /\ overtakings = 0

-----------------------------------------------------------------------------
(* What is on its way                                                      *)

Elements(s) == {s[j] : j \in DOMAIN s}

\* The last of each kind, where ops names the kinds of the elements.
IsLast(ops, k) == k \in DOMAIN ops /\ \A j \in DOMAIN ops : j > k => ops[j] # ops[k]
Newest(s, ops) == {s[k] : k \in {j \in DOMAIN s : IsLast(ops, j)}}

AnswerKinds(s) == [j \in DOMAIN s |-> s[j].call.op]
AnswerOps == AnswerKinds(answers)

Asked == Elements(calls)
Given == Elements(answers)
NewestAsked == Newest(calls, Ops(calls))
NewestGiven == Newest(answers, AnswerOps)

Nexts == {"nothing", "event", "open", "reopen", "reply", "compose", "search"}

Requests == [op : {"list", "thread", "read", "draft", "send", "clear", "put"},
             peer : Peers \cup {NoPeer}, next : Nexts, search : BOOLEAN, text : SUBSET Peers,
             mine : BOOLEAN]

\* What a handler goes on with, by the kind of request.
IsRequest(c) ==
    /\ c \in Requests
    /\ c.op = "list" => c.next \in {"nothing", "event", "reply", "compose"}
    /\ c.op = "thread" => c.next \in {"open", "reopen", "event", "search"}
    /\ c.op = "read" => c.next \in {"open", "reopen", "event"}
    /\ c.op = "draft" => c.next \in {"open", "reopen"}
    /\ c.op = "send" => c.next \in {"reply", "compose"}
    /\ c.op \in {"clear", "put"} => c.next = "nothing"
    /\ (c.op # "list" \/ c.next \in {"reply", "compose"}) => c.peer \in Peers

IsAnswer(a) ==
    /\ IsRequest(a.call) /\ a.call.op # "put" /\ a.ok \in BOOLEAN
    /\ a = [call |-> a.call, ok |-> a.ok, found |-> a.found]
    /\ a.call.op = "list" => /\ DOMAIN a.found \subseteq Peers
                             /\ \A p \in DOMAIN a.found : a.found[p] \in 0..MaxMessages
    /\ a.call.op = "thread" => a.found \subseteq Rows
    /\ a.call.op = "draft" => a.found \subseteq Peers

TrafficOK ==
    /\ IsQueue(calls) /\ IsQueue(answers)
    /\ \A c \in Asked : IsRequest(c)
    /\ \A a \in Given : IsAnswer(a)

RowsOK ==
    /\ \A m \in rows : m.id <= lastId
    /\ \A m, n \in rows : m.id = n.id => m = n

EventsAnnounced == events <= announced

TypesOK == ConversationTypeOK /\ TrafficOK /\ RowsOK /\ EventsAnnounced

-----------------------------------------------------------------------------
(* What makes the page true                                                *)

\* Every answer is one that succeeded, but for what may be refused.
NoneFailed == \A a \in Given : a.call.op \in {"send", "clear"} \/ a.ok

\* A request that changes what conversation is in view, or its messages.
Opens(c) == c.op = "thread" /\ c.next \in {"open", "reopen"}
ListsSent(c) == c.op = "list" /\ c.next \in {"reply", "compose"}
Turns(c) == c.op \in {"send", "clear"} \/ ListsSent(c) \/ Opens(c)

TurnsOf(s) == {k \in DOMAIN s : Turns(s[k])}
AnswerTurns(s) == {k \in DOMAIN s : Turns(s[k].call)}
TurnCalls == TurnsOf(calls)
TurnAnswers == AnswerTurns(answers)
AtMostOne(S) == \A i, j \in S : i = j

\* There is one at a time.
OneTurns ==
    AtMostOne(TurnCalls) /\ AtMostOne(TurnAnswers) /\ (TurnCalls = {} \/ TurnAnswers = {})

\* A conversation that is listed for a message sent to it has one.
SentIsListed ==
    /\ \A c \in Asked : ListsSent(c) => RowsOf(c.peer) # {}
    /\ \A a \in Given : /\ a.call.op = "send" /\ a.ok => RowsOf(a.call.peer) # {}
                        /\ ListsSent(a.call) => a.call.peer \in DOMAIN a.found

\* A list will be asked for, or has been and is not yet given.
BringsList(c) == c.op \in {"thread", "read"} /\ c.next = "event"
ListComes ==
    \/ events > 0
    \/ \E c \in Asked : c.op = "list" \/ BringsList(c)
    \/ \E a \in Given : BringsList(a.call) \/ (a.call.op \in {"send", "clear"} /\ a.ok)

NoList == \A a \in Given : a.call.op # "list"

\* The end of an opening will set the count of p to 0.
Opening(c) == c.op \in {"read", "draft"} /\ c.next \in {"open", "reopen"} /\ c.mine
WillBeZero(p) ==
    \/ \E c \in Asked : Opening(c) /\ c.peer = p
    \/ \E a \in Given : Opening(a.call) /\ a.call.peer = p

\* The list, or the newest one on its way, is that of the server.
ListTells ==
    ~ListComes =>
        /\ \A a \in NewestGiven : a.call.op = "list" =>
              /\ DOMAIN Listing \subseteq DOMAIN a.found
              /\ \A p \in DOMAIN a.found : a.found[p] = Unread(p) \/ p \in outdated
        /\ NoList =>
              /\ DOMAIN Listing \subseteq DOMAIN list
              /\ \A p \in DOMAIN list : \/ list[p] = Unread(p) \/ p \in outdated
                                        \/ (Unread(p) = 0 /\ WillBeZero(p))

\* An opening whose mark has been made has no unread messages.
MarkTells ==
    ~ListComes /\ NoList =>
        /\ \A c \in Asked : Opening(c) =>
              Unread(c.peer) = 0 \/ [c EXCEPT !.op = "read"] \in Asked
        /\ \A a \in Given : Opening(a.call) =>
              \/ Unread(a.call.peer) = 0
              \/ a.call.op = "draft" /\ [a.call EXCEPT !.op = "read"] \in Asked

\* The last thread that is asked for is that in view.
ThreadsAreActive ==
    active # NoPeer =>
        /\ \A c \in NewestAsked : c.op = "thread" => c.peer = active /\ c.search = search
        /\ \A c \in Asked : Opens(c) => c.peer = active
        /\ \A a \in Given : Opens(a.call) => a.call.peer = active

HeaderIsActive ==
    active # NoPeer =>
        \/ header = active /\ bodyTag = active
        \/ \E c \in Asked : Opens(c)
        \/ \E a \in Given : Opens(a.call)

\* The thread, or the newest one on its way, is messages.
LastThreadIs(messages) ==
    /\ \A a \in NewestGiven : a.call.op = "thread" => a.found = messages
    /\ (\A a \in Given : a.call.op # "thread") => thread = messages

NoThreadAsked == \A c \in Asked : c.op # "thread"
Cleared == \E a \in Given : a.call.op = "clear" /\ a.ok

\* A conversation without messages is shown as one.
EmptyIsShown ==
    active # NoPeer /\ RowsOf(active) = {} /\ NoThreadAsked /\ ~Cleared => LastThreadIs({})

\* The list of an event comes and has the conversation in view.
EventComes ==
    \/ events > 0
    \/ \E c \in Asked : c.op = "list" /\ c.next = "event"
    \/ \E a \in Given : /\ a.call.op = "list" /\ a.call.next = "event"
                        /\ (active \in DOMAIN a.found \/ ~visible)

ThreadComes ==
    \/ EventComes \/ ~NoThreadAsked \/ Cleared
    \/ \E c \in Asked : ListsSent(c) /\ c.peer = active
    \/ \E a \in Given : /\ a.call.peer = active
                        /\ (ListsSent(a.call) \/ (a.call.op = "send" /\ a.ok))

ThreadTells ==
    active # NoPeer /\ active \notin unseen /\ ~ThreadComes =>
        LastThreadIs(ThreadOf(active, search))

Marks(c) == c.op = "read" \/ (c.op = "thread" /\ c.next # "search")

MarkComes ==
    \/ EventComes
    \/ \E c \in Asked : Marks(c) /\ c.peer = active
    \/ \E a \in Given : a.call.op = "thread" /\ Marks(a.call) /\ a.call.peer = active

ActiveIsRead == active # NoPeer /\ active \notin unseen /\ ~MarkComes => Unread(active) = 0

PaneTruth ==
    /\ NoneFailed /\ OneTurns /\ SentIsListed
    /\ ListTells /\ MarkTells
    /\ ThreadsAreActive /\ HeaderIsActive /\ EmptyIsShown /\ ThreadTells /\ ActiveIsRead

ConversationInvariant == TypesOK /\ (Undisturbed => PaneTruth)


\* What is left of the kinds and of a marked part when the k-th is taken out.
LEMMA RemovalKeeps ==
    ASSUME NEW r, NEW s, NEW k, Without(r, s, k),
           NEW ro, NEW o, DOMAIN ro = DOMAIN r, DOMAIN o = DOMAIN s,
           \A j \in DOMAIN r : ro[j] = o[IF j < k THEN j ELSE j + 1]
    PROVE  /\ s[k] \in Elements(s)
           /\ Elements(r) \subseteq Elements(s) /\ Elements(s) \subseteq Elements(r) \cup {s[k]}
           /\ FirstOfKind(o, k) => Newest(r, ro) \subseteq Newest(s, o)
           /\ (\A j \in DOMAIN r : ro[j] # o[k]) => s[k] \in Newest(s, o)
<1> DEFINE Old(j) == IF j < k THEN j ELSE j + 1
           New(i) == IF i < k THEN i ELSE i - 1
<1>1. /\ Len(s) \in Nat /\ Len(r) = Len(s) - 1 /\ k \in 1..Len(s)
      /\ DOMAIN r = 1..Len(r) /\ DOMAIN s = 1..Len(s)
      /\ \A j \in DOMAIN r : r[j] = s[Old(j)]
  BY QueueIsSeq DEF Without, IsQueue
<1>2. \A j \in DOMAIN r : Old(j) \in DOMAIN s /\ Old(j) # k
  BY <1>1
<1>3. \A i \in DOMAIN s : i # k => New(i) \in DOMAIN r /\ Old(New(i)) = i
  BY <1>1
<1>4. \A j \in DOMAIN r : ro[j] = o[Old(j)]
  OBVIOUS
<1>5. \A i, j \in DOMAIN r : i > j <=> Old(i) > Old(j)
  BY <1>1
<1>6. \A i \in DOMAIN s, j \in DOMAIN r : i # k /\ i > Old(j) => New(i) > j
  BY <1>1
<1>7. \A i \in DOMAIN s : i \in Int
  BY <1>1
<1> HIDE DEF Old, New
<1>8. Elements(r) \subseteq Elements(s) /\ Elements(s) \subseteq Elements(r) \cup {s[k]}
  BY <1>1, <1>2, <1>3 DEF Elements
<1>9. ASSUME FirstOfKind(o, k), NEW j \in DOMAIN r, IsLast(ro, j) PROVE IsLast(o, Old(j))
  <2> SUFFICES ASSUME NEW i \in DOMAIN s, i > Old(j), o[i] = o[Old(j)] PROVE FALSE
    BY <1>2 DEF IsLast
  <2>1. CASE i # k
    <3>1. New(i) \in DOMAIN r /\ New(i) > j /\ ro[New(i)] = o[i]
      BY <1>3, <1>4, <1>6, <2>1
    <3> QED BY <1>4, <1>9, <3>1 DEF IsLast
  <2>2. CASE i = k
    <3>1. Old(j) \in 1..k - 1
      BY <1>1, <1>2, <1>7, <2>2
    <3> QED BY <1>9, <2>2, <3>1 DEF FirstOfKind
  <2> QED BY <2>1, <2>2
<1>10. FirstOfKind(o, k) => Newest(r, ro) \subseteq Newest(s, o)
  BY <1>1, <1>2, <1>9 DEF Newest
<1>11. ASSUME \A j \in DOMAIN r : ro[j] # o[k] PROVE s[k] \in Newest(s, o)
  <2>1. \A i \in DOMAIN s : i # k => o[i] # o[k]
    BY <1>3, <1>4, <1>11
  <2>2. IsLast(o, k)
    BY <1>1, <2>1 DEF IsLast
  <2> QED BY <1>1, <2>2 DEF Newest
<1>12. s[k] \in Elements(s)
  BY <1>1 DEF Elements
<1> QED
  BY <1>8, <1>10, <1>11, <1>12

\* At most one place is marked when it was so before the removal.
LEMMA RemovalKeepsOne ==
    ASSUME NEW r, NEW s, NEW k, Without(r, s, k), NEW Q, NEW P,
           \A j \in Q : j \in DOMAIN r /\ (IF j < k THEN j ELSE j + 1) \in P,
           AtMostOne(P)
    PROVE  AtMostOne(Q) /\ (k \in P => Q = {}) /\ (P = {} => Q = {})
<1>1. /\ Len(s) \in Nat /\ Len(r) = Len(s) - 1 /\ k \in 1..Len(s) /\ DOMAIN r = 1..Len(r)
  BY QueueIsSeq DEF Without, IsQueue
<1>2. \A j \in Q : j \in Int /\ k \in Int
  BY <1>1
<1> QED
  BY <1>2 DEF AtMostOne

\* ro, so and to name the kinds of r, s and t, where r is s with t behind it.
JoinedKinds(r, s, t, ro, so, to) ==
    /\ DOMAIN ro = DOMAIN r /\ DOMAIN so = DOMAIN s /\ DOMAIN to = DOMAIN t
    /\ \A j \in DOMAIN s : ro[j] = so[j]
    /\ \A j \in DOMAIN t : ro[Len(s) + j] = to[j]

JoinedNewest(r, s, t, ro, so, to) ==
    /\ Elements(r) = Elements(s) \cup Elements(t)
    /\ \A x \in Newest(r, ro) :
          \/ x \in Elements(t)
          \/ \E j \in DOMAIN s : /\ x = s[j] /\ IsLast(so, j)
                                 /\ \A i \in DOMAIN t : to[i] # so[j]

\* What is last of its kind in r is so in t, or in s and has no like in t.
LEMMA JoiningKeeps ==
    ASSUME NEW r, NEW s, NEW t, IsQueue(s), IsQueue(t), Joined(r, s, t),
           NEW ro, NEW so, NEW to, JoinedKinds(r, s, t, ro, so, to)
    PROVE  JoinedNewest(r, s, t, ro, so, to)
<1> USE DEF JoinedKinds
<1>1. /\ Len(s) \in Nat /\ Len(t) \in Nat /\ Len(r) = Len(s) + Len(t)
      /\ DOMAIN r = 1..Len(r) /\ DOMAIN s = 1..Len(s) /\ DOMAIN t = 1..Len(t)
      /\ \A j \in DOMAIN s : r[j] = s[j]
      /\ \A j \in DOMAIN t : r[Len(s) + j] = t[j]
  BY QueueIsSeq DEF Joined, IsQueue
<1>2. \A j \in DOMAIN s : j \in DOMAIN r /\ \A i \in DOMAIN t : Len(s) + i > j
  BY <1>1
<1>3. \A j \in DOMAIN t : Len(s) + j \in DOMAIN r
  BY <1>1
<1>4. \A j \in DOMAIN r : j \in DOMAIN s \/ \E i \in DOMAIN t : j = Len(s) + i
  <2> SUFFICES ASSUME NEW j \in DOMAIN r, j \notin DOMAIN s PROVE \E i \in DOMAIN t : j = Len(s) + i
    OBVIOUS
  <2>1. j - Len(s) \in DOMAIN t /\ j = Len(s) + (j - Len(s))
    BY <1>1
  <2> QED BY <2>1
<1>5. Elements(r) = Elements(s) \cup Elements(t)
  BY <1>1, <1>2, <1>3, <1>4 DEF Elements
<1>6. ASSUME NEW x \in Newest(r, ro), x \notin Elements(t)
      PROVE  \E j \in DOMAIN s : /\ x = s[j] /\ IsLast(so, j)
                                 /\ \A i \in DOMAIN t : to[i] # so[j]
  <2>1. PICK j \in DOMAIN r : x = r[j] /\ IsLast(ro, j)
    BY DEF Newest
  <2>2. j \in DOMAIN s
    BY <1>1, <1>4, <1>6, <2>1 DEF Elements
  <2>3. IsLast(so, j)
    BY <1>2, <2>1, <2>2 DEF IsLast
  <2>4. \A i \in DOMAIN t : to[i] # so[j]
    BY <1>2, <1>3, <2>1, <2>2 DEF IsLast
  <2> QED BY <1>1, <2>1, <2>2, <2>3, <2>4
<1> QED
  BY <1>5, <1>6 DEF JoinedNewest

\* The answer a to the request c.
Served(c, a) ==
    /\ IsQueue(calls') /\ IsQueue(answers')
    /\ c \in Asked /\ Asked' \subseteq Asked /\ Asked \subseteq Asked' \cup {c}
    /\ Given' = Given \cup {a}
    /\ a.call = c

ServedInOrder(c, a) ==
    /\ NewestAsked' \subseteq NewestAsked
    /\ (\A d \in Asked' : d.op # c.op) => c \in NewestAsked
    /\ \A b \in NewestGiven' : b = a \/ (b \in NewestGiven /\ b.call.op # c.op)

\* The answer a arrives and the requests sent are those of R.
Taken(a, R) ==
    /\ IsQueue(calls') /\ IsQueue(answers')
    /\ a \in Given /\ Given' \subseteq Given /\ Given \subseteq Given' \cup {a}
    /\ Asked' = Asked \cup R

TakenInOrder(a, R) ==
    /\ NewestGiven' \subseteq NewestGiven
    /\ (\A b \in Given' : b.call.op # a.call.op) => a \in NewestGiven
    /\ \A c \in NewestAsked' : c \in R \/ (c \in NewestAsked /\ \A d \in R : d.op # c.op)

\* Only the requests of R are sent.
Sent(R) ==
    /\ IsQueue(calls') /\ IsQueue(answers')
    /\ Given' = Given /\ NewestGiven' = NewestGiven /\ TurnAnswers' = TurnAnswers
    /\ Asked' = Asked \cup R
    /\ \A c \in NewestAsked' : c \in R \/ (c \in NewestAsked /\ \A d \in R : d.op # c.op)

\* A request is taken out of those on their way.
LEMMA CallRemoved ==
    ASSUME TrafficOK, NEW k \in DOMAIN calls, calls' = RemoveAt(calls, k)
    PROVE  /\ IsQueue(calls') /\ calls[k] \in Asked
           /\ Asked' \subseteq Asked /\ Asked \subseteq Asked' \cup {calls[k]}
           /\ FirstOfKind(Ops(calls), k) => NewestAsked' \subseteq NewestAsked
           /\ (\A d \in Asked' : d.op # calls[k].op) => calls[k] \in NewestAsked
           /\ AtMostOne(TurnCalls) =>
                /\ AtMostOne(TurnCalls') /\ (Turns(calls[k]) => TurnCalls' = {})
                /\ (TurnCalls = {} => TurnCalls' = {})
<1>1. Without(calls', calls, k)
  BY RemovalLeaves DEF TrafficOK
<1>2. /\ Len(calls) \in Nat /\ DOMAIN calls = 1..Len(calls) /\ DOMAIN calls' = 1..Len(calls) - 1
      /\ k \in 1..Len(calls) /\ IsQueue(calls')
      /\ \A j \in DOMAIN calls' : calls'[j] = calls[IF j < k THEN j ELSE j + 1]
  BY <1>1, QueueIsSeq DEF Without, IsQueue
<1>3. \A j \in DOMAIN calls' : (IF j < k THEN j ELSE j + 1) \in DOMAIN calls
  BY <1>2
<1>4. /\ DOMAIN Ops(calls') = DOMAIN calls' /\ DOMAIN Ops(calls) = DOMAIN calls
      /\ \A j \in DOMAIN calls' : Ops(calls')[j] = Ops(calls)[IF j < k THEN j ELSE j + 1]
      /\ \A j \in DOMAIN calls : Ops(calls)[j] = calls[j].op
      /\ \A j \in DOMAIN calls' : Ops(calls')[j] = calls'[j].op
  BY <1>2, <1>3 DEF Ops
<1>5. /\ calls[k] \in Elements(calls)
      /\ Elements(calls') \subseteq Elements(calls)
      /\ Elements(calls) \subseteq Elements(calls') \cup {calls[k]}
      /\ FirstOfKind(Ops(calls), k) =>
           Newest(calls', Ops(calls')) \subseteq Newest(calls, Ops(calls))
      /\ (\A j \in DOMAIN calls' : Ops(calls')[j] # Ops(calls)[k]) =>
           calls[k] \in Newest(calls, Ops(calls))
  BY <1>1, <1>4, RemovalKeeps
<1>6. (\A d \in Asked' : d.op # calls[k].op) => \A j \in DOMAIN calls' : Ops(calls')[j] # Ops(calls)[k]
  BY <1>4 DEF Asked, Elements
<1>7. \A j \in TurnCalls' : j \in DOMAIN calls' /\ (IF j < k THEN j ELSE j + 1) \in TurnCalls
  BY <1>2, <1>3 DEF TurnCalls, TurnsOf
<1>8. AtMostOne(TurnCalls) => /\ AtMostOne(TurnCalls') /\ (k \in TurnCalls => TurnCalls' = {})
                              /\ (TurnCalls = {} => TurnCalls' = {})
  BY <1>1, <1>7, RemovalKeepsOne
<1>9. Turns(calls[k]) => k \in TurnCalls
  BY DEF TurnCalls, TurnsOf
<1> QED
  BY <1>2, <1>5, <1>6, <1>8, <1>9 DEF Asked, NewestAsked

\* r is the queue s of answers without the k-th.
AnswersWithout(r, s, k) ==
    /\ IsQueue(r) /\ s[k] \in Elements(s)
    /\ Elements(r) \subseteq Elements(s) /\ Elements(s) \subseteq Elements(r) \cup {s[k]}
    /\ FirstOfKind(AnswerKinds(s), k) =>
         Newest(r, AnswerKinds(r)) \subseteq Newest(s, AnswerKinds(s))
    /\ (\A b \in Elements(r) : b.call.op # s[k].call.op) => s[k] \in Newest(s, AnswerKinds(s))
    /\ AtMostOne(AnswerTurns(s)) =>
         /\ AtMostOne(AnswerTurns(r)) /\ (Turns(s[k].call) => AnswerTurns(r) = {})
         /\ (AnswerTurns(s) = {} => AnswerTurns(r) = {})

\* An answer is taken out of those on their way.
LEMMA AnswerRemoved ==
    ASSUME NEW s, IsQueue(s), NEW k \in DOMAIN s, NEW r, r = RemoveAt(s, k)
    PROVE  AnswersWithout(r, s, k)
<1>1. Without(r, s, k)
  BY RemovalLeaves
<1>2. /\ Len(s) \in Nat /\ DOMAIN s = 1..Len(s)
      /\ DOMAIN r = 1..Len(s) - 1
      /\ k \in 1..Len(s) /\ IsQueue(r)
      /\ \A j \in DOMAIN r : r[j] = s[IF j < k THEN j ELSE j + 1]
  BY <1>1, QueueIsSeq DEF Without, IsQueue
<1>3. \A j \in DOMAIN r : (IF j < k THEN j ELSE j + 1) \in DOMAIN s
  BY <1>2
<1>4. /\ DOMAIN AnswerKinds(r) = DOMAIN r /\ DOMAIN AnswerKinds(s) = DOMAIN s
      /\ \A j \in DOMAIN r : AnswerKinds(r)[j] = AnswerKinds(s)[IF j < k THEN j ELSE j + 1]
      /\ \A j \in DOMAIN s : AnswerKinds(s)[j] = s[j].call.op
      /\ \A j \in DOMAIN r : AnswerKinds(r)[j] = r[j].call.op
  BY <1>2, <1>3 DEF AnswerKinds
<1>5. /\ s[k] \in Elements(s)
      /\ Elements(r) \subseteq Elements(s)
      /\ Elements(s) \subseteq Elements(r) \cup {s[k]}
      /\ FirstOfKind(AnswerKinds(s), k) =>
           Newest(r, AnswerKinds(r)) \subseteq Newest(s, AnswerKinds(s))
      /\ (\A j \in DOMAIN r : AnswerKinds(r)[j] # AnswerKinds(s)[k]) =>
           s[k] \in Newest(s, AnswerKinds(s))
  BY <1>1, <1>4, RemovalKeeps
<1>6. (\A b \in Elements(r) : b.call.op # s[k].call.op) =>
        \A j \in DOMAIN r : AnswerKinds(r)[j] # AnswerKinds(s)[k]
  BY <1>4 DEF Elements
<1>7. \A j \in AnswerTurns(r) : /\ j \in DOMAIN r
                                /\ (IF j < k THEN j ELSE j + 1) \in AnswerTurns(s)
  BY <1>2, <1>3 DEF AnswerTurns
<1>8. AtMostOne(AnswerTurns(s)) =>
        /\ AtMostOne(AnswerTurns(r)) /\ (k \in AnswerTurns(s) => AnswerTurns(r) = {})
        /\ (AnswerTurns(s) = {} => AnswerTurns(r) = {})
  BY <1>1, <1>7, RemovalKeepsOne
<1>9. Turns(s[k].call) => k \in AnswerTurns(s)
  BY DEF AnswerTurns
<1> QED
  BY <1>2, <1>5, <1>6, <1>8, <1>9 DEF AnswersWithout

\* r is the queue s of requests with reqs behind it.
RequestsAfter(r, s, reqs) ==
    /\ IsQueue(r) /\ Elements(r) = Elements(s) \cup Elements(reqs)
    /\ \A c \in Newest(r, Ops(r)) :
          \/ c \in Elements(reqs)
          \/ c \in Newest(s, Ops(s)) /\ \A d \in Elements(reqs) : d.op # c.op
    /\ (\A d \in Elements(reqs) : ~Turns(d)) => TurnsOf(r) = TurnsOf(s)
    /\ TurnsOf(s) = {} /\ AtMostOne(TurnsOf(reqs)) => AtMostOne(TurnsOf(r))

\* Requests are put behind those on their way.
LEMMA CallsJoined ==
    ASSUME NEW s, IsQueue(s), NEW reqs, IsQueue(reqs), NEW r, r = s \o reqs
    PROVE  RequestsAfter(r, s, reqs)
<1>1. IsQueue(s) /\ Joined(r, s, reqs)
  BY ConcatJoins
<1>2. /\ Len(s) \in Nat /\ Len(reqs) \in Nat /\ IsQueue(r)
      /\ DOMAIN s = 1..Len(s) /\ DOMAIN reqs = 1..Len(reqs)
      /\ DOMAIN r = 1..Len(s) + Len(reqs)
      /\ \A j \in DOMAIN s : r[j] = s[j]
      /\ \A j \in DOMAIN reqs : r[Len(s) + j] = reqs[j]
  BY <1>1, QueueIsSeq DEF Joined, IsQueue
<1>3. /\ \A j \in DOMAIN s : j \in DOMAIN r
      /\ \A j \in DOMAIN reqs : Len(s) + j \in DOMAIN r /\ Len(s) + j \notin DOMAIN s
  BY <1>2
<1>4. \A j \in DOMAIN r : j \in DOMAIN s \/ \E i \in DOMAIN reqs : j = Len(s) + i
  <2> SUFFICES ASSUME NEW j \in DOMAIN r, j \notin DOMAIN s
               PROVE  \E i \in DOMAIN reqs : j = Len(s) + i
    OBVIOUS
  <2>1. j - Len(s) \in DOMAIN reqs /\ j = Len(s) + (j - Len(s))
    BY <1>2
  <2> QED BY <2>1
<1>5. /\ DOMAIN Ops(r) = DOMAIN r /\ DOMAIN Ops(s) = DOMAIN s
      /\ DOMAIN Ops(reqs) = DOMAIN reqs
      /\ \A j \in DOMAIN s : Ops(r)[j] = Ops(s)[j] /\ Ops(s)[j] = s[j].op
      /\ \A j \in DOMAIN reqs : Ops(r)[Len(s) + j] = Ops(reqs)[j] /\ Ops(reqs)[j] = reqs[j].op
  BY <1>2, <1>3 DEF Ops
<1>6. /\ Elements(r) = Elements(s) \cup Elements(reqs)
      /\ \A x \in Newest(r, Ops(r)) :
            \/ x \in Elements(reqs)
            \/ \E j \in DOMAIN s : /\ x = s[j] /\ IsLast(Ops(s), j)
                                   /\ \A i \in DOMAIN reqs : Ops(reqs)[i] # Ops(s)[j]
  <2>1. JoinedKinds(r, s, reqs, Ops(r), Ops(s), Ops(reqs))
    BY <1>5 DEF JoinedKinds
  <2>2. JoinedNewest(r, s, reqs, Ops(r), Ops(s), Ops(reqs))
    BY <1>1, <2>1, JoiningKeeps
  <2> QED BY <2>2 DEF JoinedNewest
<1>7. ASSUME NEW c \in Newest(r, Ops(r)), c \notin Elements(reqs)
      PROVE  c \in Newest(s, Ops(s)) /\ \A d \in Elements(reqs) : d.op # c.op
  <2>1. PICK j \in DOMAIN s : /\ c = s[j] /\ IsLast(Ops(s), j)
                              /\ \A i \in DOMAIN reqs : Ops(reqs)[i] # Ops(s)[j]
    BY <1>6, <1>7
  <2> QED BY <1>5, <2>1 DEF Newest, Elements
<1>8. ASSUME \A d \in Elements(reqs) : ~Turns(d) PROVE TurnsOf(r) = TurnsOf(s)
  <2>1. \A j \in DOMAIN reqs : ~Turns(r[Len(s) + j])
    BY <1>2, <1>8 DEF Elements
  <2> QED BY <1>2, <1>3, <1>4, <2>1 DEF TurnsOf
<1>9. ASSUME TurnsOf(s) = {}, AtMostOne(TurnsOf(reqs)) PROVE AtMostOne(TurnsOf(r))
  <2>1. \A j \in TurnsOf(r) : \E i \in TurnsOf(reqs) : j = Len(s) + i
    BY <1>2, <1>4, <1>9 DEF TurnsOf
  <2> QED BY <1>9, <2>1 DEF AtMostOne
<1> QED
  BY <1>2, <1>6, <1>7, <1>8, <1>9 DEF RequestsAfter

\* An answer is put behind those on their way.
LEMMA AnswerAppended ==
    ASSUME TrafficOK, NEW a, answers' = Append(answers, a)
    PROVE  /\ IsQueue(answers') /\ Given' = Given \cup {a}
           /\ \A b \in NewestGiven' : b = a \/ (b \in NewestGiven /\ b.call.op # a.call.op)
           /\ ~Turns(a.call) => TurnAnswers' = TurnAnswers
           /\ TurnAnswers = {} => AtMostOne(TurnAnswers')
<1> DEFINE t == <<a>>
           to == <<a.call.op>>
<1>0. /\ IsQueue(answers) /\ Joined(answers', answers, t)
      /\ IsQueue(t) /\ Len(t) = 1 /\ DOMAIN t = {1} /\ t[1] = a
      /\ DOMAIN to = {1} /\ to[1] = a.call.op
  <2>1. t \in Seq({a}) /\ Len(t) = 1 /\ t[1] = a
    OBVIOUS
  <2>2. to \in Seq({a.call.op}) /\ Len(to) = 1 /\ to[1] = a.call.op
    OBVIOUS
  <2>3. DOMAIN t = {1} /\ DOMAIN to = {1}
    BY <2>1, <2>2
  <2> HIDE DEF t, to
  <2>4. IsQueue(t)
    BY <2>1, SeqIsQueue
  <2>5. Joined(answers', answers, t)
    BY AppendJoins DEF TrafficOK, t
  <2> QED BY <2>1, <2>2, <2>3, <2>4, <2>5 DEF TrafficOK
<1> HIDE DEF t, to
<1>1. /\ Len(answers) \in Nat /\ IsQueue(answers')
      /\ DOMAIN answers = 1..Len(answers)
      /\ DOMAIN answers' = 1..Len(answers) + 1
      /\ \A j \in DOMAIN answers : answers'[j] = answers[j]
      /\ answers'[Len(answers) + 1] = a
  <2>1. /\ IsQueue(answers') /\ Len(answers) \in Nat /\ Len(answers') = Len(answers) + 1
        /\ \A j \in 1..Len(answers) : answers'[j] = answers[j]
        /\ \A j \in 1..1 : answers'[Len(answers) + j] = t[j]
    BY <1>0 DEF Joined, IsQueue
  <2>2. 1 \in 1..1
    OBVIOUS
  <2> QED BY <1>0, <2>1, <2>2, QueueIsSeq
<1>2. /\ \A j \in DOMAIN answers : j \in DOMAIN answers'
      /\ Len(answers) + 1 \in DOMAIN answers' /\ Len(answers) + 1 \notin DOMAIN answers
      /\ \A j \in DOMAIN answers' : j \in DOMAIN answers \/ j = Len(answers) + 1
  BY <1>1
<1>3. /\ DOMAIN AnswerOps' = DOMAIN answers' /\ DOMAIN AnswerOps = DOMAIN answers
      /\ \A j \in DOMAIN answers : /\ AnswerOps'[j] = AnswerOps[j]
                                   /\ AnswerOps[j] = answers[j].call.op
      /\ AnswerOps'[Len(answers) + 1] = a.call.op
  BY <1>1, <1>2 DEF AnswerOps, AnswerKinds
<1>4. \A j \in DOMAIN t : AnswerOps'[Len(answers) + j] = to[j]
  BY <1>0, <1>3
<1>5. /\ Elements(answers') = Elements(answers) \cup Elements(t)
      /\ \A x \in Newest(answers', AnswerOps') :
            \/ x \in Elements(t)
            \/ \E j \in DOMAIN answers : /\ x = answers[j] /\ IsLast(AnswerOps, j)
                                         /\ \A i \in DOMAIN t : to[i] # AnswerOps[j]
  <2>1. JoinedKinds(answers', answers, t, AnswerOps', AnswerOps, to)
    BY <1>0, <1>3, <1>4 DEF JoinedKinds
  <2>2. JoinedNewest(answers', answers, t, AnswerOps', AnswerOps, to)
    BY <1>0, <2>1, JoiningKeeps
  <2> QED BY <2>2 DEF JoinedNewest
<1>6. Elements(t) = {a}
  BY <1>0 DEF Elements
<1>7. ASSUME NEW b \in NewestGiven', b # a
      PROVE  b \in NewestGiven /\ b.call.op # a.call.op
  <2>1. PICK j \in DOMAIN answers : /\ b = answers[j] /\ IsLast(AnswerOps, j)
                                    /\ \A i \in DOMAIN t : to[i] # AnswerOps[j]
    BY <1>5, <1>6, <1>7 DEF NewestGiven
  <2> QED BY <1>0, <1>3, <2>1 DEF NewestGiven, Newest
<1>8. ~Turns(a.call) => TurnAnswers' = TurnAnswers
  BY <1>1, <1>2 DEF TurnAnswers, AnswerTurns
<1>9. TurnAnswers = {} => AtMostOne(TurnAnswers')
  BY <1>1, <1>2 DEF TurnAnswers, AnswerTurns, AtMostOne
<1> QED
  BY <1>1, <1>5, <1>6, <1>7, <1>8, <1>9 DEF Given

\* The queues after the server answered a request,
LEMMA ServeFacts ==
    ASSUME TrafficOK, NEW k \in DOMAIN calls, NEW ok, NEW found, ServeCall(k, ok, found)
    PROVE  LET a == [call |-> calls[k], ok |-> ok, found |-> found]
           IN  /\ Served(calls[k], a)
               /\ FirstOfKind(Ops(calls), k) => ServedInOrder(calls[k], a)
               /\ OneTurns => OneTurns'
<1> DEFINE a == [call |-> calls[k], ok |-> ok, found |-> found]
<1>1. calls' = RemoveAt(calls, k) /\ answers' = Append(answers, a) /\ a.call = calls[k]
  BY DEF ServeCall
<1> HIDE DEF a
<1>2. /\ IsQueue(calls') /\ calls[k] \in Asked
      /\ Asked' \subseteq Asked /\ Asked \subseteq Asked' \cup {calls[k]}
      /\ FirstOfKind(Ops(calls), k) => NewestAsked' \subseteq NewestAsked
      /\ (\A d \in Asked' : d.op # calls[k].op) => calls[k] \in NewestAsked
      /\ AtMostOne(TurnCalls) =>
           /\ AtMostOne(TurnCalls') /\ (Turns(calls[k]) => TurnCalls' = {})
           /\ (TurnCalls = {} => TurnCalls' = {})
  BY <1>1, CallRemoved
<1>3. /\ IsQueue(answers') /\ Given' = Given \cup {a}
      /\ \A b \in NewestGiven' : b = a \/ (b \in NewestGiven /\ b.call.op # a.call.op)
      /\ ~Turns(a.call) => TurnAnswers' = TurnAnswers
      /\ TurnAnswers = {} => AtMostOne(TurnAnswers')
  BY <1>1, AnswerAppended
<1>4. Turns(calls[k]) => TurnCalls # {}
  BY DEF TurnCalls, TurnsOf
<1>5. OneTurns => OneTurns'
  BY <1>1, <1>2, <1>3, <1>4 DEF OneTurns, AtMostOne
<1>6. Served(calls[k], a)
  BY <1>1, <1>2, <1>3 DEF Served
<1>7. FirstOfKind(Ops(calls), k) => ServedInOrder(calls[k], a)
  BY <1>1, <1>2, <1>3 DEF ServedInOrder
<1> QED
  BY <1>5, <1>6, <1>7 DEF a

\* At most one of the requests sent turns, and only after one that did.
TurnsAfter(turns, reqs) ==
    \/ \A d \in Elements(reqs) : ~Turns(d)
    \/ turns /\ AtMostOne(TurnsOf(reqs))

\* after the page handled an answer,
LEMMA TakeFacts ==
    ASSUME TrafficOK, NEW k \in DOMAIN answers, NEW reqs, IsQueue(reqs),
           Ask(reqs), answers' = RemoveAt(answers, k)
    PROVE  /\ Taken(answers[k], Elements(reqs))
           /\ FirstOfKind(AnswerOps, k) => TakenInOrder(answers[k], Elements(reqs))
           /\ OneTurns /\ TurnsAfter(Turns(answers[k].call), reqs) => OneTurns'
<1>1. AnswersWithout(answers', answers, k)
  BY AnswerRemoved DEF TrafficOK
<1>2. RequestsAfter(calls', calls, reqs)
  BY CallsJoined DEF Ask, TrafficOK
<1>3. Turns(answers[k].call) => TurnAnswers # {}
  BY DEF TurnAnswers, AnswerTurns
<1>4. OneTurns /\ TurnsAfter(Turns(answers[k].call), reqs) => OneTurns'
  BY <1>1, <1>2, <1>3
     DEF OneTurns, TurnsAfter, TurnCalls, TurnAnswers, AnswersWithout, RequestsAfter
<1>5. Taken(answers[k], Elements(reqs))
  BY <1>1, <1>2 DEF Taken, AnswersWithout, RequestsAfter, Asked, Given
<1>6. FirstOfKind(AnswerOps, k) => TakenInOrder(answers[k], Elements(reqs))
  BY <1>1, <1>2
     DEF TakenInOrder, AnswersWithout, RequestsAfter, Asked, Given, NewestAsked, NewestGiven, AnswerOps
<1> QED
  BY <1>4, <1>5, <1>6

\* and after it sent requests on its own.
LEMMA SentFacts ==
    ASSUME TrafficOK, NEW reqs, IsQueue(reqs), Ask(reqs), UNCHANGED answers
    PROVE  /\ Sent(Elements(reqs))
           /\ OneTurns /\ TurnsAfter(TurnCalls = {} /\ TurnAnswers = {}, reqs) => OneTurns'
<1>1. RequestsAfter(calls', calls, reqs)
  BY CallsJoined DEF Ask, TrafficOK
<1>2. /\ IsQueue(answers') /\ Given' = Given /\ NewestGiven' = NewestGiven
      /\ TurnAnswers' = TurnAnswers
  BY DEF TrafficOK, Given, NewestGiven, AnswerOps, TurnAnswers
<1>3. Sent(Elements(reqs))
  BY <1>1, <1>2 DEF Sent, RequestsAfter, Asked, NewestAsked
<1>4. OneTurns /\ TurnsAfter(TurnCalls = {} /\ TurnAnswers = {}, reqs) => OneTurns'
  BY <1>1, <1>2 DEF OneTurns, TurnsAfter, TurnCalls, RequestsAfter
<1> QED
  BY <1>3, <1>4

\* The requests that one handler sends.
LEMMA FewElements ==
    /\ IsQueue(<<>>) /\ Elements(<<>>) = {}
    /\ \A x : IsQueue(<<x>>) /\ Elements(<<x>>) = {x} /\ DOMAIN <<x>> = {1}
    /\ \A x, y : IsQueue(<<x, y>>) /\ Elements(<<x, y>>) = {x, y}
<1>1. IsQueue(<<>>) /\ Elements(<<>>) = {}
  <2>1. <<>> \in Seq({}) /\ DOMAIN <<>> = {}
    OBVIOUS
  <2>2. IsQueue(<<>>)
    BY <2>1, SeqIsQueue
  <2> QED BY <2>1, <2>2 DEF Elements
<1>2. ASSUME NEW x PROVE IsQueue(<<x>>) /\ Elements(<<x>>) = {x} /\ DOMAIN <<x>> = {1}
  <2>1. <<x>> \in Seq({x}) /\ DOMAIN <<x>> = {1} /\ <<x>>[1] = x
    OBVIOUS
  <2>2. IsQueue(<<x>>)
    BY <2>1, SeqIsQueue
  <2> QED BY <2>1, <2>2 DEF Elements
<1>3. ASSUME NEW x, NEW y PROVE IsQueue(<<x, y>>) /\ Elements(<<x, y>>) = {x, y}
  <2>1. <<x, y>> \in Seq({x, y}) /\ DOMAIN <<x, y>> = {1, 2} /\ <<x, y>>[1] = x /\ <<x, y>>[2] = y
    OBVIOUS
  <2>2. IsQueue(<<x, y>>)
    BY <2>1, SeqIsQueue
  <2> QED BY <2>1, <2>2 DEF Elements
<1> QED
  BY <1>1, <1>2, <1>3

\* A queue whose elements are changed in place.
LEMMA MapQueue ==
    ASSUME NEW s, IsQueue(s), NEW t, t = [j \in DOMAIN s |-> t[j]]
    PROVE  IsQueue(t) /\ Len(t) = Len(s) /\ DOMAIN t = DOMAIN s
<1> DEFINE S == {t[j] : j \in DOMAIN s}
<1>1. DOMAIN s = 1..Len(s) /\ Len(s) \in Nat
  BY QueueIsSeq DEF IsQueue
<1>2. t \in [1..Len(s) -> S]
  BY <1>1
<1> HIDE DEF S
<1>3. t \in Seq(S)
  BY <1>1, <1>2, SeqDef
<1>4. Len(t) = Len(s)
  BY <1>1, <1>2, <1>3
<1> QED
  BY <1>1, <1>3, <1>4, SeqIsQueue

\* SetToSeq of no or one element.
LEMMA FewInSequence ==
    ASSUME NEW S, NEW x, S = {} \/ S = {x}
    PROVE  /\ IsQueue(SetToSeq(S)) /\ Elements(SetToSeq(S)) = S
           /\ AtMostOne(TurnsOf(SetToSeq(S)))
<1> DEFINE f == SetToSeq(S)
           n == Cardinality(S)
<1>1. n \in Nat /\ (S = {} => n = 0) /\ (S = {x} => n = 1)
  <2>1. CASE S = {}
    <3>1. Cardinality({}) = 0
      BY FS_EmptySet
    <3> QED BY <2>1, <3>1
  <2>2. CASE S = {x}
    <3>1. Cardinality({x}) = 1
      BY FS_Singleton
    <3>2. S # {}
      BY <2>2
    <3> QED BY <2>2, <3>1, <3>2
  <2> QED BY <2>1, <2>2
<1>2. f \in [1..n -> S]
  <2>1. \E g \in [1..n -> S] : IsInjective(g)
    <3> DEFINE g == [j \in 1..n |-> x]
    <3>1. g \in [1..n -> S] /\ IsInjective(g)
      BY <1>1 DEF IsInjective
    <3> QED BY <3>1
  <2> QED BY <2>1 DEF SetToSeq
<1> HIDE DEF f
<1>3. f \in Seq(S) /\ DOMAIN f = 1..n
  BY <1>1, <1>2, SeqDef
<1> HIDE DEF n
<1>4. IsQueue(f)
  BY <1>3, SeqIsQueue
<1>5. Elements(f) = S /\ AtMostOne(TurnsOf(f))
  <2>1. CASE S = {}
    BY <1>1, <1>2, <1>3, <2>1 DEF Elements, TurnsOf, AtMostOne
  <2>2. CASE S = {x}
    <3>1. n = 1 /\ DOMAIN f = {1}
      BY <1>1, <1>3, <2>2
    <3>2. f[1] = x
      BY <1>2, <2>2, <3>1
    <3> QED BY <2>2, <3>1, <3>2 DEF Elements, TurnsOf, AtMostOne
  <2> QED BY <2>1, <2>2
<1> QED
  BY <1>4, <1>5 DEF f

-----------------------------------------------------------------------------
(* What the server gives                                                   *)

\* A bounded set of numbers has a greatest one, and Max chooses it.
LEMMA LargestNumber ==
    ASSUME NEW T, NEW n \in Nat, T \subseteq 0..n, T # {}
    PROVE  Max(T) \in T /\ \A y \in T : y <= Max(T)
<1> DEFINE D == {n - y : y \in T}
           least == Min(D)
<1>1. D \subseteq Nat /\ D # {}
  <2>1. \A y \in T : n - y \in Nat
    OBVIOUS
  <2>2. D # {}
    OBVIOUS
  <2> QED BY <2>1, <2>2
<1> HIDE DEF D
<1>2. least \in D /\ \A d \in D : least <= d
  BY <1>1, LeastNumber
<1> HIDE DEF least
<1>3. PICK x \in T : least = n - x
  BY <1>2 DEF D
<1>4. \A y \in T : x >= y
  <2> SUFFICES ASSUME NEW y \in T PROVE x >= y
    OBVIOUS
  <2>1. n - y \in D
    BY DEF D
  <2>2. n - x <= n - y /\ x \in Nat /\ y \in Nat
    BY <1>2, <1>3, <2>1
  <2> QED BY <2>2
<1>5. Max(T) \in T /\ \A y \in T : Max(T) >= y
  BY <1>4 DEF Max
<1>6. \A y \in T : y \in Int
  OBVIOUS
<1> QED
  BY <1>5, <1>6

\* The list names the peers that have messages.
LEMMA RowsArePeers ==
    /\ DOMAIN Listing = {m.peer : m \in rows}
    /\ \A p \in DOMAIN Listing : Listing[p] = Unread(p)
    /\ \A p : p \in DOMAIN Listing <=> RowsOf(p) # {}
    /\ \A p : RowsOf(p) = {} => Unread(p) = 0
    /\ \A p, s : RowsOf(p) = {} => ThreadOf(p, s) = {}
<1>1. DOMAIN Listing = {m.peer : m \in rows} /\ \A p \in DOMAIN Listing : Listing[p] = Unread(p)
  BY DEF Listing
<1>2. \A p : p \in DOMAIN Listing <=> RowsOf(p) # {}
  BY <1>1 DEF RowsOf
<1>3. \A p : RowsOf(p) = {} => Unread(p) = 0
  <2> SUFFICES ASSUME NEW p, RowsOf(p) = {} PROVE Unread(p) = 0
    OBVIOUS
  <2>1. {m \in RowsOf(p) : m.inbound /\ m.id > readUpTo[p]} = {}
    OBVIOUS
  <2> QED BY <2>1, FS_EmptySet DEF Unread
<1>4. \A p, s : RowsOf(p) = {} => ThreadOf(p, s) = {}
  BY DEF ThreadOf, Oldest
<1> QED
  BY <1>1, <1>2, <1>3, <1>4

\* A thread depends on the messages of its peer alone.
LEMMA ThreadsAreKept ==
    ASSUME NEW p, RowsOf(p)' = RowsOf(p)
    PROVE  \A s : ThreadOf(p, s)' = ThreadOf(p, s)
  BY DEF ThreadOf, Oldest

SameRows == \A p : RowsOf(p)' = RowsOf(p) /\ \A s : ThreadOf(p, s)' = ThreadOf(p, s)
SameUnread == Listing' = Listing /\ \A p : Unread(p)' = Unread(p)

\* The server's answers stay when its tables do.
LEMMA ServerRests == ASSUME UNCHANGED <<rows, readUpTo>> PROVE SameRows /\ SameUnread
<1>1. \A p : RowsOf(p)' = RowsOf(p)
  BY DEF RowsOf
<1>2. \A p : Unread(p)' = Unread(p)
  BY <1>1 DEF Unread
<1>3. Listing' = Listing
  BY <1>2 DEF Listing
<1> QED
  BY <1>1, <1>2, <1>3, ThreadsAreKept DEF SameRows, SameUnread

\* A message that is stored
LEMMA InsertFacts ==
    ASSUME NEW p, NEW inbound, NEW text, Insert(p, inbound, text)
    PROVE  /\ RowsOf(p)' # {}
           /\ \A q : RowsOf(q) \subseteq RowsOf(q)'
           /\ \A q : q # p => RowsOf(q)' = RowsOf(q) /\ \A s : ThreadOf(q, s)' = ThreadOf(q, s)
<1> DEFINE m == [peer |-> p, id |-> lastId', inbound |-> inbound, text |-> text]
<1>1. rows' = rows \cup {m} /\ m.peer = p
  BY DEF Insert
<1> HIDE DEF m
<1>2. /\ RowsOf(p)' # {}
      /\ \A q : RowsOf(q) \subseteq RowsOf(q)'
      /\ \A q : q # p => RowsOf(q)' = RowsOf(q)
  BY <1>1 DEF RowsOf
<1> QED
  BY <1>2, ThreadsAreKept

\* A message that is sent leaves every count of unread messages.
LEMMA OutboundIsRead ==
    ASSUME NEW p, NEW text, Insert(p, FALSE, text), UNCHANGED readUpTo
    PROVE  \A q : Unread(q)' = Unread(q)
<1> DEFINE m == [peer |-> p, id |-> lastId', inbound |-> FALSE, text |-> text]
<1>1. rows' = rows \cup {m} /\ ~m.inbound
  BY DEF Insert
<1> HIDE DEF m
<1> SUFFICES ASSUME NEW q PROVE Unread(q)' = Unread(q)
  OBVIOUS
<1>2. {n \in RowsOf(q)' : n.inbound /\ n.id > readUpTo[q]} =
        {n \in RowsOf(q) : n.inbound /\ n.id > readUpTo[q]}
  BY <1>1 DEF RowsOf
<1> QED
  BY <1>2 DEF Unread

\* A mark sets one count to 0 and leaves the others.
LEMMA MarkFacts ==
    ASSUME ConversationTypeOK, NEW p \in Peers, UNCHANGED rows,
           readUpTo' = [readUpTo EXCEPT ![p] = Marked(p)]
    PROVE  /\ Marked(p) \in 0..MaxMessages
           /\ Unread(p)' = 0 /\ \A q \in Peers : q # p => Unread(q)' = Unread(q)
           /\ SameRows /\ DOMAIN Listing' = DOMAIN Listing
<1> DEFINE T == {0} \cup {m.id : m \in RowsOf(p)}
<1>1. readUpTo \in [Peers -> 0..MaxMessages] /\ rows \subseteq Rows /\ MaxMessages \in Nat
  BY ConversationAssumption DEF ConversationTypeOK
<1>2. \A m \in RowsOf(p) : m.id \in 1..MaxMessages
  BY <1>1 DEF RowsOf, Rows, Ids
<1>3. T \subseteq 0..MaxMessages /\ T # {}
  BY <1>1, <1>2
<1> HIDE DEF T
<1>4. Max(T) \in T /\ \A y \in T : y <= Max(T)
  BY <1>1, <1>3, LargestNumber
<1>5. Marked(p) \in 0..MaxMessages /\ Marked(p) = Max(T)
  BY <1>3, <1>4 DEF Marked, T
<1>6. \A q : RowsOf(q)' = RowsOf(q)
  BY DEF RowsOf
<1>7. readUpTo'[p] = Max(T) /\ \A q \in Peers : q # p => readUpTo'[q] = readUpTo[q]
  BY <1>1, <1>5
<1>8. ASSUME NEW m \in RowsOf(p) PROVE ~(m.id > Max(T))
  <2>1. m.id \in T /\ Max(T) \in Int /\ m.id \in Int
    BY <1>2, <1>3, <1>4 DEF T
  <2> QED BY <1>4, <2>1
<1>9. Unread(p)' = 0
  <2>1. {m \in RowsOf(p)' : m.inbound /\ m.id > readUpTo'[p]} = {}
    BY <1>6, <1>7, <1>8
  <2> QED BY <2>1, FS_EmptySet DEF Unread
<1>10. \A q \in Peers : q # p => Unread(q)' = Unread(q)
  BY <1>6, <1>7 DEF Unread
<1>11. DOMAIN Listing' = DOMAIN Listing
  BY DEF Listing
<1> QED
  BY <1>5, <1>6, <1>9, <1>10, <1>11, ThreadsAreKept DEF SameRows

\* Clearing a conversation leaves the others.
LEMMA ClearFacts ==
    ASSUME ConversationTypeOK, NEW p \in Peers, rows' = rows \ RowsOf(p),
           readUpTo' = [readUpTo EXCEPT ![p] = 0]
    PROVE  /\ RowsOf(p)' = {} /\ \A q : q # p => RowsOf(q)' = RowsOf(q)
           /\ \A q : q # p => \A s : ThreadOf(q, s)' = ThreadOf(q, s)
           /\ \A q \in Peers : q # p => Unread(q)' = Unread(q)
<1>1. readUpTo \in [Peers -> 0..MaxMessages]
  BY DEF ConversationTypeOK
<1>2. RowsOf(p)' = {} /\ \A q : q # p => RowsOf(q)' = RowsOf(q)
  BY DEF RowsOf
<1>3. \A q \in Peers : q # p => Unread(q)' = Unread(q)
  BY <1>1, <1>2 DEF Unread
<1> QED
  BY <1>2, <1>3, ThreadsAreKept

\* There are no more unread messages than messages.
LEMMA UnreadIsBounded ==
    ASSUME ConversationTypeOK, RowsOK, NEW p
    PROVE  Unread(p) \in 0..MaxMessages
<1> DEFINE S == {m \in RowsOf(p) : m.inbound /\ m.id > readUpTo[p]}
           f == [m \in S |-> m.id]
<1>1. MaxMessages \in Nat /\ rows \subseteq Rows
  BY ConversationAssumption DEF ConversationTypeOK
<1>2. \A m \in S : m \in rows /\ m.id \in Ids
  BY <1>1 DEF RowsOf, Rows
<1>3. f \in [S -> Ids] /\ \A m, n \in S : f[m] = f[n] => m = n
  BY <1>2 DEF RowsOK
<1>4. IsFiniteSet(Ids) /\ Cardinality(Ids) = MaxMessages
  <2>1. 1 \in Int /\ MaxMessages \in Int
    BY <1>1
  <2>2. IsFiniteSet(Ids) /\ Cardinality(Ids) = IF 1 > MaxMessages THEN 0 ELSE MaxMessages - 1 + 1
    BY <2>1, FS_Interval DEF Ids
  <2> QED BY <1>1, <2>2
<1> HIDE DEF S
<1>5. f \in Injection(S, Ids)
  BY <1>3 DEF Injection, IsInjective
<1> HIDE DEF f
<1>6. IsFiniteSet(S) /\ Cardinality(S) <= Cardinality(Ids)
  BY <1>4, <1>5, FS_Injection
<1>7. Cardinality(S) \in Nat
  BY <1>6, FS_CardinalityType
<1>8. Unread(p) = Cardinality(S)
  BY DEF Unread, S
<1> QED
  BY <1>1, <1>4, <1>6, <1>7, <1>8

-----------------------------------------------------------------------------
(* Types                                                                   *)

\* The requests that the handlers make are well formed.
LEMMA ListCallFacts ==
    ASSUME NEW next \in {"nothing", "event"}
    PROVE  /\ IsRequest(ListCall(next))
           /\ ListCall(next).op = "list" /\ ListCall(next).next = next
  BY DEF IsRequest, Requests, Nexts, ListCall, Call

LEMMA NextListFacts ==
    ASSUME NEW next \in {"reply", "compose"}, NEW p \in Peers,
           NEW r, r = [ListCall(next) EXCEPT !.peer = p]
    PROVE  IsRequest(r) /\ r.op = "list" /\ r.next = next /\ r.peer = p
  BY DEF IsRequest, Requests, Nexts, ListCall, Call

LEMMA ThreadCallFacts ==
    ASSUME NEW p \in Peers, NEW next \in {"open", "reopen", "event", "search"}, NEW found \in BOOLEAN,
           NEW r, r = ThreadCall(p, next, found)
    PROVE  IsRequest(r) /\ r.op = "thread" /\ r.peer = p /\ r.next = next /\ r.search = found
<1>1. "thread" \in {"thread", "read", "draft"}
  OBVIOUS
<1>2. (next \in {"open", "reopen"}) \in BOOLEAN
  OBVIOUS
<1> QED
  BY <1>1, <1>2 DEF IsRequest, Requests, Nexts, ThreadCall, Call

LEMMA TextCallFacts ==
    ASSUME NEW op, NEW next, (op = "put" /\ next = "nothing") \/ (op = "send" /\ next \in {"reply", "compose"}),
           NEW p \in Peers, NEW text \in SUBSET Peers, NEW r, r = TextCall(op, p, next, text)
    PROVE  IsRequest(r) /\ r.op = op /\ r.peer = p /\ r.next = next /\ r.text = text
  BY DEF IsRequest, Requests, Nexts, TextCall, Call

LEMMA CallFacts ==
    ASSUME NEW op, NEW next, NEW p \in Peers, NEW r, r = Call(op, p, next),
           \/ op \in {"read", "draft"} /\ next \in {"open", "reopen"}
           \/ op = "read" /\ next = "event"
           \/ op = "clear" /\ next = "nothing"
    PROVE  /\ IsRequest(r) /\ r.op = op /\ r.peer = p /\ r.next = next
           /\ r.mine = (next \in {"open", "reopen"})
  BY DEF IsRequest, Requests, Nexts, Call

\* The mark that belongs to the draft of an opening.
LEMMA OpeningCalls ==
    ASSUME NEW p \in Peers, NEW next \in {"open", "reopen"}
    PROVE  [Call("draft", p, next) EXCEPT !.op = "read"] = Call("read", p, next)
<1> DEFINE d == Call("draft", p, next)
           r == Call("read", p, next)
           e == [d EXCEPT !.op = "read"]
<1>1. /\ d \in Requests /\ r \in Requests /\ d.mine = r.mine
      /\ d.peer = p /\ d.next = next /\ d.search = FALSE /\ d.text = {}
      /\ r.op = "read" /\ r.peer = p /\ r.next = next /\ r.search = FALSE /\ r.text = {}
  BY DEF Requests, Nexts, Call
<1> HIDE DEF d, r
<1>2. /\ e \in Requests /\ e.op = "read" /\ e.peer = d.peer /\ e.next = d.next
      /\ e.search = d.search /\ e.text = d.text /\ e.mine = d.mine
  BY <1>1 DEF Requests
<1> HIDE DEF e
<1>3. e = r
  BY <1>1, <1>2 DEF Requests
<1> QED
  BY <1>3 DEF d, r, e

\* A request that lost its conversation is the same otherwise.
LEMMA EstrangedFacts ==
    ASSUME NEW c, IsRequest(c)
    PROVE  /\ IsRequest(Estranged(c)) /\ ~Estranged(c).mine
           /\ Estranged(c).op = c.op /\ Estranged(c).next = c.next /\ Estranged(c).peer = c.peer
           /\ Estranged(c).search = c.search
  BY DEF IsRequest, Requests, Estranged

\* The types of the queues, of the counters and of the tables, by what a
\* step does to them; then those of each step of the server.
LEMMA ServeTypes ==
    ASSUME TypesOK, NEW k \in DOMAIN calls, NEW ok, NEW found, ServeCall(k, ok, found),
           IsAnswer([call |-> calls[k], ok |-> ok, found |-> found])
    PROVE  /\ IsRequest(calls[k]) /\ calls[k] \in Asked
           /\ TrafficOK' /\ overtakings' \in 0..MaxOvertakings
<1> DEFINE a == [call |-> calls[k], ok |-> ok, found |-> found]
<1>1. Served(calls[k], a)
  BY ServeFacts DEF TypesOK
<1> HIDE DEF a
<1>2. TrafficOK' /\ IsRequest(calls[k]) /\ calls[k] \in Asked
  BY <1>1 DEF Served, TrafficOK, TypesOK, a
<1>3. overtakings \in 0..MaxOvertakings /\ MaxOvertakings \in Nat
  BY ConversationAssumption DEF TypesOK, ConversationTypeOK
<1>4. overtakings' \in 0..MaxOvertakings
  BY <1>3 DEF ServeCall, Overtakes, FirstOfKind
<1> QED
  BY <1>2, <1>4

LEMMA TakeTypes ==
    ASSUME TypesOK, NEW k \in DOMAIN answers, NEW reqs, IsQueue(reqs),
           \A r \in Elements(reqs) : IsRequest(r), Take(k, reqs)
    PROVE  /\ IsAnswer(answers[k]) /\ answers[k] \in Given
           /\ TrafficOK' /\ overtakings' \in 0..MaxOvertakings
<1>1. Taken(answers[k], Elements(reqs))
  BY TakeFacts DEF TypesOK, Take
<1>2. TrafficOK' /\ IsAnswer(answers[k]) /\ answers[k] \in Given
  BY <1>1 DEF Taken, TrafficOK, TypesOK
<1>3. overtakings \in 0..MaxOvertakings /\ MaxOvertakings \in Nat
  BY ConversationAssumption DEF TypesOK, ConversationTypeOK
<1>4. Overtakes(FirstOfKind(AnswerOps, k))
  BY DEF Take, OvertakesAnswers, AnswerOps, AnswerKinds
<1>5. overtakings' \in 0..MaxOvertakings
  BY <1>3, <1>4 DEF Overtakes, FirstOfKind
<1> QED
  BY <1>2, <1>5

LEMMA SentTypes ==
    ASSUME TypesOK, NEW reqs, IsQueue(reqs), \A r \in Elements(reqs) : IsRequest(r), Ask(reqs),
           UNCHANGED answers
    PROVE  TrafficOK'
<1>1. Sent(Elements(reqs))
  BY SentFacts DEF TypesOK
<1> QED
  BY <1>1 DEF Sent, TrafficOK, TypesOK

LEMMA FailsTypes ==
    ASSUME TypesOK, NEW ok \in BOOLEAN, Fails(ok)
    PROVE  failures' \in 0..MaxFailures
<1>1. failures \in 0..MaxFailures /\ MaxFailures \in Nat
  BY ConversationAssumption DEF TypesOK, ConversationTypeOK
<1> QED
  BY <1>1 DEF Fails

LEMMA InsertTypes ==
    ASSUME TypesOK, NEW p \in Peers, NEW inbound \in BOOLEAN, NEW text \in SUBSET Peers,
           Insert(p, inbound, text)
    PROVE  RowsOK' /\ rows' \subseteq Rows /\ lastId' \in 0..MaxMessages
<1> DEFINE m == [peer |-> p, id |-> lastId', inbound |-> inbound, text |-> text]
<1>1. /\ rows \subseteq Rows /\ lastId \in 0..MaxMessages /\ MaxMessages \in Nat
      /\ \A n \in rows : n.id <= lastId
      /\ \A n, r \in rows : n.id = r.id => n = r
  BY ConversationAssumption DEF TypesOK, ConversationTypeOK, RowsOK
<1>2. lastId' = lastId + 1 /\ lastId < MaxMessages /\ rows' = rows \cup {m}
  BY DEF Insert
<1>3. lastId' \in 1..MaxMessages
  BY <1>1, <1>2
<1>4. m \in Rows /\ m.id = lastId'
  BY <1>3 DEF Rows, Ids
<1> HIDE DEF m
<1>5. \A n \in rows : n.id \in Nat
  BY <1>1 DEF Rows, Ids
<1>6. \A n \in rows : n.id < lastId' /\ n.id <= lastId'
  BY <1>1, <1>2, <1>5
<1>7. \A n \in rows : n.id # m.id
  BY <1>3, <1>4, <1>5, <1>6
<1> QED
  BY <1>1, <1>2, <1>3, <1>4, <1>6, <1>7 DEF RowsOK

LEMMA AnnouncedTypes ==
    ASSUME TypesOK, Announced
    PROVE  announced' \in 0..MaxEvents /\ events' \in 0..MaxEvents /\ EventsAnnounced'
<1>1. /\ announced \in 0..MaxEvents /\ events \in 0..MaxEvents /\ MaxEvents \in Nat
      /\ events <= announced
  BY ConversationAssumption DEF TypesOK, ConversationTypeOK, EventsAnnounced
<1> QED
  BY <1>1 DEF Announced, EventsAnnounced

LEMMA ReceiveTypes == ASSUME TypesOK, NEW p \in Peers, Receive(p) PROVE TypesOK'
<1>1. RowsOK' /\ rows' \subseteq Rows /\ lastId' \in 0..MaxMessages
  BY InsertTypes DEF Receive
<1>2. announced' \in 0..MaxEvents /\ events' \in 0..MaxEvents /\ EventsAnnounced'
  BY AnnouncedTypes DEF Receive
<1>3. TrafficOK'
  BY DEF Receive, TypesOK, TrafficOK, Asked, Given
<1> QED
  BY <1>1, <1>2, <1>3
     DEF Receive, TypesOK, ConversationTypeOK, pane, composing, recorded, faults

LEMMA DeliveryTypes == ASSUME TypesOK, DeliveryGoesOn PROVE TypesOK'
<1>1. announced' \in 0..MaxEvents /\ events' \in 0..MaxEvents /\ EventsAnnounced'
  BY AnnouncedTypes DEF DeliveryGoesOn
<1>2. TrafficOK' /\ RowsOK'
  BY DEF DeliveryGoesOn, TypesOK, TrafficOK, RowsOK, Asked, Given, database
<1> QED
  BY <1>1, <1>2
     DEF DeliveryGoesOn, TypesOK, ConversationTypeOK, pane, composing, database, recorded, faults

LEMMA ServeReadTypes ==
    ASSUME TypesOK, NEW k \in DOMAIN calls, NEW ok \in BOOLEAN, ServeRead(k, ok)
    PROVE  TypesOK'
<1> DEFINE found == CASE calls[k].op = "list"   -> Listing
                      [] calls[k].op = "thread" -> ThreadOf(calls[k].peer, calls[k].search)
                      [] calls[k].op = "draft"  -> kept[calls[k].peer]
<1>1. ServeCall(k, ok, found) /\ Fails(ok) /\ UNCHANGED database /\ outdated' \subseteq Peers
  BY DEF ServeRead, TypesOK, ConversationTypeOK
<1>2. IsRequest(calls[k])
  BY DEF TypesOK, TrafficOK, Asked, Elements
<1>3. calls[k].op \in {"list", "thread", "draft"}
  BY DEF ServeRead
<1>4. calls[k].op = "list" => found = Listing
  BY Zenon
<1>5. calls[k].op = "thread" => found = ThreadOf(calls[k].peer, calls[k].search)
  <2>1. "list" # "thread" /\ "list" # "draft" /\ "thread" # "draft"
    OBVIOUS
  <2> QED BY <2>1, Zenon
<1>6. calls[k].op = "draft" => found = kept[calls[k].peer]
  <2>1. "list" # "thread" /\ "list" # "draft" /\ "thread" # "draft"
    OBVIOUS
  <2> QED BY <2>1, Zenon
<1> HIDE DEF found
<1>7. calls[k].op = "list" => /\ DOMAIN found \subseteq Peers
                              /\ \A p \in DOMAIN found : found[p] \in 0..MaxMessages
  BY <1>4, RowsArePeers, UnreadIsBounded DEF TypesOK, ConversationTypeOK, Rows
<1>8. calls[k].op = "thread" => found \subseteq Rows
  BY <1>5 DEF ThreadOf, Oldest, RowsOf, TypesOK, ConversationTypeOK
<1>9. calls[k].op = "draft" => found \subseteq Peers
  BY <1>2, <1>6 DEF TypesOK, ConversationTypeOK, IsRequest
<1>10. IsAnswer([call |-> calls[k], ok |-> ok, found |-> found])
  BY <1>2, <1>3, <1>7, <1>8, <1>9 DEF IsAnswer
<1>11. TrafficOK' /\ overtakings' \in 0..MaxOvertakings
  BY <1>1, <1>10, ServeTypes
<1>12. failures' \in 0..MaxFailures
  BY <1>1, FailsTypes
<1> QED
  BY <1>1, <1>11, <1>12
     DEF ServeCall, TypesOK, ConversationTypeOK, RowsOK, EventsAnnounced, pane, composing, database

\* The answer to a mark, a message or a clearing is well formed.
LEMMA MarkOrSend ==
    ASSUME TypesOK, NEW k \in DOMAIN calls, NEW ok \in BOOLEAN,
           calls[k].op \in {"read", "send", "clear"}
    PROVE  /\ IsRequest(calls[k]) /\ calls[k].peer \in Peers /\ calls[k].text \in SUBSET Peers
           /\ IsAnswer([call |-> calls[k], ok |-> ok, found |-> {}])
<1>1. IsRequest(calls[k])
  BY DEF TypesOK, TrafficOK, Asked, Elements
<1> QED
  BY <1>1 DEF IsAnswer, IsRequest, Requests

LEMMA ServeMarkTypes ==
    ASSUME TypesOK, NEW k \in DOMAIN calls, NEW ok \in BOOLEAN, ServeMark(k, ok)
    PROVE  TypesOK'
<1>1. /\ ServeCall(k, ok, {}) /\ Fails(ok) /\ calls[k].op = "read"
      /\ UNCHANGED <<rows, lastId, kept>>
  BY DEF ServeMark
<1>2. TrafficOK' /\ overtakings' \in 0..MaxOvertakings /\ failures' \in 0..MaxFailures
  BY <1>1, MarkOrSend, ServeTypes, FailsTypes
<1>3. calls[k].peer \in Peers
  BY <1>1, MarkOrSend
<1>4. outdated' \subseteq Peers
  BY <1>3 DEF ServeMark, TypesOK, ConversationTypeOK
<1>5. readUpTo' \in [Peers -> 0..MaxMessages]
  <2>1. readUpTo \in [Peers -> 0..MaxMessages]
    BY DEF TypesOK, ConversationTypeOK
  <2>2. CASE ok
    <3>1. readUpTo' = [readUpTo EXCEPT ![calls[k].peer] = Marked(calls[k].peer)]
      BY <2>2 DEF ServeMark
    <3>2. Marked(calls[k].peer) \in 0..MaxMessages
      BY <1>1, <1>3, <3>1, MarkFacts DEF TypesOK
    <3> QED BY <2>1, <3>1, <3>2
  <2>3. CASE ~ok
    BY <2>1, <2>3 DEF ServeMark
  <2> QED BY <2>2, <2>3
<1> QED
  BY <1>1, <1>2, <1>4, <1>5
     DEF ServeCall, TypesOK, ConversationTypeOK, RowsOK, EventsAnnounced, pane, composing

LEMMA ServeSendTypes ==
    ASSUME TypesOK, NEW k \in DOMAIN calls, NEW ok \in BOOLEAN, ServeSend(k, ok)
    PROVE  TypesOK'
<1>1. /\ ServeCall(k, ok, {}) /\ calls[k].op = "send"
      /\ UNCHANGED <<readUpTo, kept, outdated, failures>>
  BY DEF ServeSend
<1>2. TrafficOK' /\ overtakings' \in 0..MaxOvertakings
  BY <1>1, MarkOrSend, ServeTypes
<1>3. calls[k].peer \in Peers /\ calls[k].text \in SUBSET Peers
  BY <1>1, MarkOrSend
<1>4. RowsOK' /\ rows' \subseteq Rows /\ lastId' \in 0..MaxMessages
  <2>1. CASE ok
    BY <1>3, <2>1, InsertTypes DEF ServeSend
  <2>2. CASE ~ok
    BY <2>2 DEF ServeSend, TypesOK, ConversationTypeOK, RowsOK
  <2> QED BY <2>1, <2>2
<1> QED
  BY <1>1, <1>2, <1>4 DEF ServeCall, TypesOK, ConversationTypeOK, EventsAnnounced, pane, composing

LEMMA ServeClearTypes ==
    ASSUME TypesOK, NEW k \in DOMAIN calls, NEW ok \in BOOLEAN, ServeClear(k, ok)
    PROVE  TypesOK'
<1>1. /\ ServeCall(k, ok, {}) /\ calls[k].op = "clear"
      /\ UNCHANGED <<lastId, outdated, failures>>
  BY DEF ServeClear
<1>2. TrafficOK' /\ overtakings' \in 0..MaxOvertakings
  BY <1>1, MarkOrSend, ServeTypes
<1>3. calls[k].peer \in Peers
  BY <1>1, MarkOrSend
<1>4. rows' \subseteq rows
  BY DEF ServeClear
<1>5. /\ readUpTo' \in [Peers -> 0..MaxMessages]
      /\ kept' \in [Peers -> SUBSET Peers]
  <2>1. /\ readUpTo \in [Peers -> 0..MaxMessages] /\ MaxMessages \in Nat
        /\ kept \in [Peers -> SUBSET Peers]
    BY ConversationAssumption DEF TypesOK, ConversationTypeOK
  <2> QED BY <1>3, <2>1 DEF ServeClear
<1> QED
  BY <1>1, <1>2, <1>4, <1>5
     DEF ServeCall, TypesOK, ConversationTypeOK, RowsOK, EventsAnnounced, pane, composing

LEMMA ServePutTypes ==
    ASSUME TypesOK, NEW k \in DOMAIN calls, NEW ok \in BOOLEAN, ServePut(k, ok)
    PROVE  TypesOK'
<1>1. IsQueue(calls') /\ Asked' \subseteq Asked
  BY CallRemoved DEF ServePut, TypesOK
<1>2. TrafficOK'
  BY <1>1 DEF ServePut, TypesOK, TrafficOK, Given
<1>3. failures' \in 0..MaxFailures
  BY FailsTypes DEF ServePut
<1>4. overtakings' \in 0..MaxOvertakings
  <2>1. overtakings \in 0..MaxOvertakings /\ MaxOvertakings \in Nat
    BY ConversationAssumption DEF TypesOK, ConversationTypeOK
  <2> QED BY <2>1 DEF ServePut, Overtakes, FirstOfKind
<1>5. kept' \in [Peers -> SUBSET Peers]
  <2>1. IsRequest(calls[k])
    BY DEF TypesOK, TrafficOK, Asked, Elements
  <2>2. calls[k].peer \in Peers /\ calls[k].text \in SUBSET Peers
    BY <2>1 DEF IsRequest, Requests, ServePut
  <2>3. kept \in [Peers -> SUBSET Peers]
    BY DEF TypesOK, ConversationTypeOK
  <2> QED BY <2>2, <2>3 DEF ServePut
<1> QED
  BY <1>2, <1>3, <1>4, <1>5
     DEF ServePut, TypesOK, ConversationTypeOK, RowsOK, EventsAnnounced, pane, composing, recorded

-----------------------------------------------------------------------------
(* A list arrives                                                          *)

EstrangedAnswer(a) == [a EXCEPT !.call = Estranged(@)]

\* An answer that lost its conversation is the same otherwise.
LEMMA EstrangedAnswerFacts ==
    ASSUME NEW a, IsAnswer(a)
    PROVE  LET b == EstrangedAnswer(a)
           IN  IsAnswer(b) /\ b.call = Estranged(a.call) /\ b.ok = a.ok /\ b.found = a.found
<1> DEFINE b == EstrangedAnswer(a)
<1>1. IsRequest(a.call)
  BY DEF IsAnswer
<1>2. /\ IsRequest(Estranged(a.call)) /\ Estranged(a.call).op = a.call.op
  BY <1>1, EstrangedFacts
<1>3. a = [call |-> a.call, ok |-> a.ok, found |-> a.found]
  BY DEF IsAnswer
<1>4. b = [call |-> Estranged(a.call), ok |-> a.ok, found |-> a.found]
  BY <1>3 DEF EstrangedAnswer
<1>5. b.call = Estranged(a.call) /\ b.ok = a.ok /\ b.found = a.found
  BY <1>4
<1> HIDE DEF b
<1>6. IsAnswer(b)
  BY <1>2, <1>4, <1>5 DEF IsAnswer
<1> QED
  BY <1>5, <1>6 DEF b

\* What the arrival of a list does to the queues when it sends threads.
ListTaken(a, threads) ==
    /\ IsQueue(calls') /\ IsQueue(answers') /\ a \in Given
    /\ threads \subseteq Asked'
    /\ \A c \in Asked : Estranged(c) \in Asked'
    /\ \A d \in Asked' : d \in threads \/ \E c \in Asked : d = Estranged(c)
    /\ \A b \in Given' : \E e \in Given : b = EstrangedAnswer(e)
    /\ \A e \in Given : EstrangedAnswer(e) \in Given' \/ EstrangedAnswer(e) = EstrangedAnswer(a)

ListTakenInOrder(a, threads) ==
    /\ \A b \in NewestGiven' : \E e \in NewestGiven : b = EstrangedAnswer(e)
    /\ NoList' => \E e \in NewestGiven : EstrangedAnswer(e) = EstrangedAnswer(a)
    /\ \A d \in NewestAsked' :
          \/ d \in threads
          \/ /\ \A e \in threads : e.op # d.op
             /\ \E c \in NewestAsked : d = Estranged(c)

LEMMA EstrangedQueues ==
    ASSUME TrafficOK,
           NEW c1, c1 = [j \in DOMAIN calls |-> Estranged(calls[j])],
           NEW a1, a1 = [j \in DOMAIN answers |-> EstrangedAnswer(answers[j])]
    PROVE  /\ IsQueue(c1) /\ Ops(c1) = Ops(calls) /\ TurnsOf(c1) = TurnCalls
           /\ IsQueue(a1) /\ AnswerKinds(a1) = AnswerOps /\ AnswerTurns(a1) = TurnAnswers
           /\ DOMAIN c1 = DOMAIN calls /\ DOMAIN a1 = DOMAIN answers
<1>1. /\ \A j \in DOMAIN calls : c1[j] = Estranged(calls[j]) /\ IsRequest(calls[j])
      /\ \A j \in DOMAIN answers : a1[j] = EstrangedAnswer(answers[j]) /\ IsAnswer(answers[j])
  BY DEF TrafficOK, Asked, Given, Elements
<1>2. c1 = [j \in DOMAIN calls |-> c1[j]] /\ a1 = [j \in DOMAIN answers |-> a1[j]]
  BY <1>1
<1>3. IsQueue(c1) /\ DOMAIN c1 = DOMAIN calls /\ IsQueue(a1) /\ DOMAIN a1 = DOMAIN answers
  BY <1>2, MapQueue DEF TrafficOK
<1>4. \A j \in DOMAIN calls : c1[j].op = calls[j].op /\ c1[j].next = calls[j].next
  BY <1>1, EstrangedFacts
<1>5. \A j \in DOMAIN answers : /\ a1[j].call.op = answers[j].call.op
                                /\ a1[j].call.next = answers[j].call.next
  <2> TAKE j \in DOMAIN answers
  <2>1. a1[j].call = Estranged(answers[j].call) /\ IsRequest(answers[j].call)
    BY <1>1, EstrangedAnswerFacts DEF IsAnswer
  <2> QED BY <2>1, EstrangedFacts
<1>6. Ops(c1) = Ops(calls) /\ AnswerKinds(a1) = AnswerOps
  BY <1>3, <1>4, <1>5 DEF Ops, AnswerOps, AnswerKinds
<1>7. TurnsOf(c1) = TurnCalls /\ AnswerTurns(a1) = TurnAnswers
  BY <1>3, <1>4, <1>5
     DEF TurnsOf, TurnCalls, AnswerTurns, TurnAnswers, Turns, ListsSent, Opens
<1> QED
  BY <1>3, <1>6, <1>7

\* What is on its way after a list arrived.
LEMMA ListFacts ==
    ASSUME TrafficOK, NEW k \in DOMAIN answers, answers[k].call.op = "list",
           NEW threads, NEW p, threads = {} \/ threads = {p},
           calls' = [j \in DOMAIN calls |-> Estranged(calls[j])] \o SetToSeq(threads),
           answers' = RemoveAt([j \in DOMAIN answers |-> EstrangedAnswer(answers[j])], k)
    PROVE  /\ ListTaken(answers[k], threads)
           /\ FirstOfKind(AnswerOps, k) => ListTakenInOrder(answers[k], threads)
           /\ OneTurns /\ (Turns(answers[k].call) \/ \A t \in threads : ~Turns(t)) => OneTurns'
<1> DEFINE c1 == [j \in DOMAIN calls |-> Estranged(calls[j])]
           a1 == [j \in DOMAIN answers |-> EstrangedAnswer(answers[j])]
           reqs == SetToSeq(threads)
<1>1. /\ IsQueue(c1) /\ Ops(c1) = Ops(calls) /\ TurnsOf(c1) = TurnCalls
      /\ IsQueue(a1) /\ AnswerKinds(a1) = AnswerOps /\ AnswerTurns(a1) = TurnAnswers
      /\ DOMAIN c1 = DOMAIN calls /\ DOMAIN a1 = DOMAIN answers
  BY EstrangedQueues
<1>2. /\ \A j \in DOMAIN calls : c1[j] = Estranged(calls[j])
      /\ \A j \in DOMAIN answers : a1[j] = EstrangedAnswer(answers[j]) /\ IsAnswer(answers[j])
  BY DEF TrafficOK, Given, Elements
<1>3. IsQueue(reqs) /\ Elements(reqs) = threads /\ AtMostOne(TurnsOf(reqs))
  BY FewInSequence
<1>4. calls' = c1 \o reqs /\ answers' = RemoveAt(a1, k)
  OBVIOUS
<1> HIDE DEF c1, a1, reqs
<1>5. RequestsAfter(calls', c1, reqs)
  BY <1>1, <1>3, <1>4, CallsJoined
<1>6. AnswersWithout(answers', a1, k)
  BY <1>1, <1>4, AnswerRemoved
<1>7. /\ \A c \in Elements(c1) : \E d \in Asked : c = Estranged(d)
      /\ \A d \in Asked : Estranged(d) \in Elements(c1)
      /\ \A b \in Elements(a1) : \E e \in Given : b = EstrangedAnswer(e)
      /\ \A e \in Given : EstrangedAnswer(e) \in Elements(a1)
  BY <1>1, <1>2 DEF Elements, Asked, Given
<1>8. /\ \A c \in Newest(c1, Ops(c1)) : \E d \in NewestAsked : c = Estranged(d)
      /\ \A b \in Newest(a1, AnswerKinds(a1)) : \E e \in NewestGiven : b = EstrangedAnswer(e)
  BY <1>1, <1>2 DEF Newest, NewestAsked, NewestGiven
<1>9. /\ a1[k] = EstrangedAnswer(answers[k]) /\ answers[k] \in Given
      /\ a1[k].call = Estranged(answers[k].call)
      /\ a1[k].call.op = "list" /\ a1[k].call.next = answers[k].call.next
  <2>1. a1[k] = EstrangedAnswer(answers[k]) /\ answers[k] \in Given /\ IsAnswer(answers[k])
    BY <1>2 DEF Given, Elements
  <2>2. a1[k].call = Estranged(answers[k].call) /\ IsRequest(answers[k].call)
    BY <2>1, EstrangedAnswerFacts DEF IsAnswer
  <2> QED BY <2>1, <2>2, EstrangedFacts
<1>10. ListTaken(answers[k], threads)
  BY <1>3, <1>5, <1>6, <1>7, <1>9
     DEF ListTaken, RequestsAfter, AnswersWithout, Asked, Given
<1>11. ASSUME FirstOfKind(AnswerOps, k) PROVE ListTakenInOrder(answers[k], threads)
  <2>1. \A b \in NewestGiven' : \E e \in NewestGiven : b = EstrangedAnswer(e)
    BY <1>1, <1>6, <1>8, <1>11 DEF AnswersWithout, NewestGiven, AnswerOps
  <2>2. NoList' => \E e \in NewestGiven : EstrangedAnswer(e) = EstrangedAnswer(answers[k])
    BY <1>6, <1>8, <1>9 DEF AnswersWithout, NoList, Given
  <2>3. \A d \in NewestAsked' : \/ d \in threads
                                \/ /\ \A e \in threads : e.op # d.op
                                   /\ \E c \in NewestAsked : d = Estranged(c)
    BY <1>3, <1>5, <1>8 DEF RequestsAfter, NewestAsked
  <2> QED BY <2>1, <2>2, <2>3 DEF ListTakenInOrder
<1>12. ASSUME OneTurns, Turns(answers[k].call) \/ \A t \in threads : ~Turns(t) PROVE OneTurns'
  <2>1. Turns(a1[k].call) <=> Turns(answers[k].call)
    BY <1>9 DEF Turns, ListsSent, Opens
  <2>2. Turns(answers[k].call) => TurnAnswers # {}
    BY DEF TurnAnswers, AnswerTurns
  <2> QED
    BY <1>1, <1>3, <1>5, <1>6, <1>12, <2>1, <2>2
       DEF OneTurns, TurnCalls, TurnAnswers, AnswersWithout, RequestsAfter
<1> QED
  BY <1>10, <1>11, <1>12

\* The conversations and the threads that a list opens.
OpenedBy(a) ==
    {p \in DOMAIN a.found : \/ a.call.next = "reply" /\ p = active
                            \/ a.call.next = "compose" /\ p = a.call.peer}
Looked(a) == a.call.next = "event" /\ active \in DOMAIN a.found /\ visible
How(a) == IF a.call.next = "reply" THEN "reopen" ELSE "open"
ThreadsOf(a) ==
    {ThreadCall(p, How(a), FALSE) : p \in OpenedBy(a)}
        \cup IF Looked(a) THEN {ThreadCall(active, "event", search)} ELSE {}

LEMMA OpenedIsOne ==
    ASSUME NEW a, IsAnswer(a), a.call.op = "list",
           active \in Peers \cup {NoPeer}, search \in BOOLEAN
    PROVE  /\ \E p : ThreadsOf(a) = {} \/ ThreadsOf(a) = {p}
           /\ \A p \in OpenedBy(a) : p \in Peers /\ OpenedBy(a) = {p}
           /\ OpenedBy(a) # {} => ListsSent(a.call) /\ ~Looked(a)
           /\ Looked(a) => active \in Peers /\ OpenedBy(a) = {}
           /\ How(a) \in {"open", "reopen"}
           /\ \A t \in ThreadsOf(a) : IsRequest(t) /\ t.op = "thread"
           /\ OpenedBy(a) = {} /\ ~Looked(a) <=> ThreadsOf(a) = {}
<1>1. DOMAIN a.found \subseteq Peers
  BY DEF IsAnswer
<1>2. \A p \in OpenedBy(a) : p \in Peers /\ OpenedBy(a) = {p}
  BY <1>1 DEF OpenedBy
<1>3. OpenedBy(a) # {} => ListsSent(a.call) /\ ~Looked(a)
  BY DEF OpenedBy, ListsSent, Looked
<1>4. Looked(a) => active \in Peers /\ OpenedBy(a) = {}
  BY <1>1, <1>3 DEF Looked
<1>5. How(a) \in {"open", "reopen"}
  BY DEF How
<1>6. \E p : ThreadsOf(a) = {} \/ ThreadsOf(a) = {p}
  <2>1. CASE Looked(a)
    BY <1>4, <2>1 DEF ThreadsOf
  <2>2. CASE ~Looked(a) /\ OpenedBy(a) = {}
    BY <2>2 DEF ThreadsOf
  <2>3. CASE ~Looked(a) /\ OpenedBy(a) # {}
    <3>1. PICK p \in OpenedBy(a) : OpenedBy(a) = {p}
      BY <1>2, <2>3
    <3>2. ThreadsOf(a) = {ThreadCall(q, How(a), FALSE) : q \in {p}}
      BY <2>3, <3>1 DEF ThreadsOf
    <3>3. ThreadsOf(a) = {ThreadCall(p, How(a), FALSE)}
      BY <3>2
    <3> QED BY <3>3
  <2> QED BY <2>1, <2>2, <2>3
<1>7. ASSUME NEW t \in ThreadsOf(a) PROVE IsRequest(t) /\ t.op = "thread"
  <2>1. CASE \E p \in OpenedBy(a) : t = ThreadCall(p, How(a), FALSE)
    <3>1. PICK p \in OpenedBy(a) : t = ThreadCall(p, How(a), FALSE)
      BY <2>1
    <3>2. PICK how \in {"open", "reopen", "event", "search"} : t = ThreadCall(p, how, FALSE)
      BY <1>5, <3>1
    <3>3. p \in Peers
      BY <1>2
    <3>4. ASSUME NEW found \in BOOLEAN, t = ThreadCall(p, how, found)
          PROVE  IsRequest(t) /\ t.op = "thread"
      BY <3>3, <3>4, ThreadCallFacts
    <3> QED BY <3>2, <3>4, Zenon
  <2>2. CASE Looked(a) /\ t = ThreadCall(active, "event", search)
    BY <1>4, <2>2, ThreadCallFacts
  <2> QED BY <1>7, <2>1, <2>2 DEF ThreadsOf
<1>8. OpenedBy(a) = {} /\ ~Looked(a) <=> ThreadsOf(a) = {}
  BY DEF ThreadsOf
<1> QED
  BY <1>2, <1>3, <1>4, <1>5, <1>6, <1>7, <1>8

\* The action ListArrives in terms of what the list opens.
LEMMA ListStep ==
    ASSUME NEW k \in DOMAIN answers, ListArrives(k)
    PROVE  LET a == answers[k] IN
           /\ a.call.op = "list" /\ a.ok
           /\ list' = a.found
           /\ IF OpenedBy(a) = {} THEN NoOpen ELSE \E p \in OpenedBy(a) : Open(p)
           /\ replying' = (replying /\ ~(a.call.next = "reply" /\ OpenedBy(a) = {}))
           /\ unseen' = IF a.call.next = "event" /\ ~visible THEN unseen \cup ({active} \ {NoPeer})
                        ELSE unseen \ {call.peer : call \in ThreadsOf(a)}
           /\ calls' = [j \in DOMAIN calls |-> Estranged(calls[j])] \o SetToSeq(ThreadsOf(a))
           /\ answers' = RemoveAt([j \in DOMAIN answers |-> EstrangedAnswer(answers[j])], k)
           /\ OvertakesAnswers(k)
           /\ UNCHANGED <<thread, header, searching, visible, body, bodyTag, saving, events,
                          database, outdated, announced, deeds, failures>>
  BY DEF ListArrives, OpenedBy, Looked, How, ThreadsOf, EstrangedAnswer

-----------------------------------------------------------------------------
(* Types: the handlers and the user                                        *)

\* From here to NextTypes: each step, named by its lemma, keeps the types.

LEMMA ListArrivesTypes ==
    ASSUME TypesOK, NEW k \in DOMAIN answers, ListArrives(k) PROVE TypesOK'
<1> DEFINE a == answers[k]
<1>1. a \in Given /\ IsAnswer(a) /\ a.call.op = "list"
  BY ListStep DEF TypesOK, TrafficOK, Given, Elements
<1>2. active \in Peers \cup {NoPeer} /\ search \in BOOLEAN
  BY DEF TypesOK, ConversationTypeOK
<1>3. PICK p : ThreadsOf(a) = {} \/ ThreadsOf(a) = {p}
  BY <1>1, <1>2, OpenedIsOne
<1>4. ListTaken(a, ThreadsOf(a))
  BY <1>1, <1>3, ListStep, ListFacts DEF TypesOK
<1>5. \A t \in ThreadsOf(a) : IsRequest(t)
  BY <1>1, <1>2, OpenedIsOne
<1>6. TrafficOK'
  <2>1. \A d \in Asked' : IsRequest(d)
    BY <1>4, <1>5, EstrangedFacts DEF ListTaken, TypesOK, TrafficOK
  <2>2. \A b \in Given' : IsAnswer(b)
    BY <1>4, EstrangedAnswerFacts DEF ListTaken, TypesOK, TrafficOK
  <2> QED BY <1>4, <2>1, <2>2 DEF TrafficOK, ListTaken
<1>7. DOMAIN list' \subseteq Peers /\ Range(list') \subseteq 0..MaxMessages
  <2>1. list' = a.found
    BY ListStep
  <2>2. DOMAIN a.found \subseteq Peers /\ Range(a.found) \subseteq 0..MaxMessages
    BY <1>1 DEF IsAnswer, Range
  <2> HIDE DEF a
  <2> QED BY <2>1, <2>2
<1>8. \A q \in OpenedBy(a) : q \in Peers
  BY <1>1, <1>2, OpenedIsOne
<1>9. active' \in Peers \cup {NoPeer} /\ {search', field'} \subseteq BOOLEAN
  BY <1>8, ListStep DEF Open, NoOpen, TypesOK, ConversationTypeOK
<1>10. replying' \in BOOLEAN /\ unseen' \subseteq Peers
  BY ListStep DEF TypesOK, ConversationTypeOK
<1>11. overtakings' \in 0..MaxOvertakings
  <2>1. overtakings \in 0..MaxOvertakings /\ MaxOvertakings \in Nat
    BY ConversationAssumption DEF TypesOK, ConversationTypeOK
  <2>2. OvertakesAnswers(k)
    BY ListStep
  <2>3. Overtakes(FirstOfKind(AnswerOps, k))
    BY <2>2 DEF OvertakesAnswers, AnswerOps, AnswerKinds
  <2> QED BY <2>1, <2>3 DEF Overtakes, FirstOfKind
<1> HIDE DEF a
<1> QED
  BY <1>6, <1>7, <1>9, <1>10, <1>11, ListStep
     DEF TypesOK, ConversationTypeOK, RowsOK, EventsAnnounced, database

LEMMA ThreadArrivesTypes ==
    ASSUME TypesOK, NEW k \in DOMAIN answers, ThreadArrives(k) PROVE TypesOK'
<1> DEFINE a == answers[k]
           call == a.call
<1>1. a \in Given /\ IsAnswer(a) /\ IsRequest(call) /\ call.op = "thread" /\ call.peer \in Peers
  BY DEF ThreadArrives, TypesOK, TrafficOK, Given, Elements, IsAnswer, IsRequest
<1>2. PICK reqs : /\ IsQueue(reqs) /\ (\A r \in Elements(reqs) : IsRequest(r)) /\ Take(k, reqs)
  <2>1. CASE call.next \in {"open", "reopen"} /\ Take(k, <<Call("read", call.peer, call.next),
                                                          Call("draft", call.peer, call.next)>>)
    <3>1. /\ IsRequest(Call("read", call.peer, call.next))
          /\ IsRequest(Call("draft", call.peer, call.next))
      BY <1>1, <2>1, CallFacts
    <3> QED BY <2>1, <3>1, FewElements
  <2>2. CASE Take(k, <<Call("read", call.peer, "event")>>)
    <3>1. IsRequest(Call("read", call.peer, "event"))
      BY <1>1, CallFacts
    <3> QED BY <2>2, <3>1, FewElements
  <2>3. CASE Take(k, <<>>)
    BY <2>3, FewElements
  <2> QED BY <2>1, <2>2, <2>3 DEF ThreadArrives
<1>3. TrafficOK' /\ overtakings' \in 0..MaxOvertakings
  BY <1>2, TakeTypes
<1>4. thread' \subseteq Rows
  BY <1>1 DEF ThreadArrives, IsAnswer
<1>5. header' \in Peers \cup {NoPeer} /\ bodyTag' \in Peers \cup {NoPeer}
  BY <1>1 DEF ThreadArrives, TypesOK, ConversationTypeOK
<1>6. UNCHANGED <<active, list, search, field, body, saving, replying, recorded>>
  BY DEF ThreadArrives
<1> HIDE DEF a
<1> QED
  BY <1>2, <1>3, <1>4, <1>5, <1>6
     DEF Take, TypesOK, ConversationTypeOK, RowsOK, EventsAnnounced, database, recorded

LEMMA AnswerFailsTypes ==
    ASSUME TypesOK, NEW k \in DOMAIN answers, AnswerFails(k) PROVE TypesOK'
<1>1. TrafficOK' /\ overtakings' \in 0..MaxOvertakings
  BY FewElements, TakeTypes DEF AnswerFails
<1>2. replying' \in BOOLEAN
  BY DEF AnswerFails, TypesOK, ConversationTypeOK
<1> QED
  BY <1>1, <1>2
     DEF AnswerFails, Take, TypesOK, ConversationTypeOK, RowsOK, EventsAnnounced, database, recorded

\* The end of an opening, by its mark or by its draft.
LEMMA OpenedTypes ==
    ASSUME TypesOK, NEW k \in DOMAIN answers, NEW other, Opened(k, other)
    PROVE  /\ DOMAIN list' = DOMAIN list /\ Range(list') \subseteq 0..MaxMessages
           /\ replying' \in BOOLEAN
<1>1. /\ Range(list) \subseteq 0..MaxMessages /\ replying \in BOOLEAN
      /\ MaxMessages \in Nat
  BY ConversationAssumption DEF TypesOK, ConversationTypeOK
<1>2. list' = list \/ list' = [list EXCEPT ![answers[k].call.peer] = 0]
  BY DEF Opened
<1>3. DOMAIN list' = DOMAIN list /\ \A p \in DOMAIN list : list'[p] = list[p] \/ list'[p] = 0
  BY <1>2
<1>4. \A p \in DOMAIN list : list[p] \in 0..MaxMessages
  BY <1>1 DEF Range
<1>5. replying' \in BOOLEAN
  BY <1>1 DEF Opened
<1>6. Range(list') \subseteq 0..MaxMessages
  BY <1>1, <1>3, <1>4 DEF Range
<1> QED
  BY <1>3, <1>5, <1>6

LEMMA MarkArrivesTypes ==
    ASSUME TypesOK, NEW k \in DOMAIN answers, MarkArrives(k) PROVE TypesOK'
<1> DEFINE reqs == AfterMark(answers[k].call.next)
<1>1. IsQueue(reqs) /\ \A r \in Elements(reqs) : IsRequest(r)
  BY FewElements, ListCallFacts DEF AfterMark
<1> HIDE DEF reqs
<1>2. Take(k, reqs) /\ Opened(k, "draft")
  BY DEF MarkArrives, reqs
<1>3. TrafficOK' /\ overtakings' \in 0..MaxOvertakings
  BY <1>1, <1>2, TakeTypes
<1>4. /\ DOMAIN list' = DOMAIN list /\ Range(list') \subseteq 0..MaxMessages
      /\ replying' \in BOOLEAN
  BY <1>2, OpenedTypes
<1>5. UNCHANGED <<active, thread, header, search, field, body, bodyTag, saving, recorded>>
  BY DEF MarkArrives
<1> QED
  BY <1>2, <1>3, <1>4, <1>5
     DEF Take, TypesOK, ConversationTypeOK, RowsOK, EventsAnnounced, database, recorded

LEMMA DraftArrivesTypes ==
    ASSUME TypesOK, NEW k \in DOMAIN answers, DraftArrives(k) PROVE TypesOK'
<1>1. Take(k, <<>>) /\ Opened(k, "read") /\ answers[k].call.op = "draft"
  BY DEF DraftArrives
<1>2. TrafficOK' /\ overtakings' \in 0..MaxOvertakings /\ IsAnswer(answers[k])
  BY <1>1, FewElements, TakeTypes
<1>3. /\ DOMAIN list' = DOMAIN list /\ Range(list') \subseteq 0..MaxMessages
      /\ replying' \in BOOLEAN
  BY <1>1, OpenedTypes
<1>4. body' \subseteq Peers
  BY <1>1, <1>2 DEF DraftArrives, IsAnswer, TypesOK, ConversationTypeOK
<1>5. UNCHANGED <<active, thread, header, search, field, bodyTag, saving, recorded>>
  BY DEF DraftArrives
<1> QED
  BY <1>1, <1>2, <1>3, <1>4, <1>5
     DEF Take, TypesOK, ConversationTypeOK, RowsOK, EventsAnnounced, database, recorded

LEMMA SendArrivesTypes ==
    ASSUME TypesOK, NEW k \in DOMAIN answers, SendArrives(k) PROVE TypesOK'
<1> DEFINE call == answers[k].call
           r == [ListCall(call.next) EXCEPT !.peer = call.peer]
<1>1. /\ Take(k, <<r>>)
      /\ UNCHANGED <<active, thread, header, list, search, field, bodyTag, replying, recorded>>
  BY DEF SendArrives
<1>2. IsRequest(call) /\ call.next \in {"reply", "compose"} /\ call.peer \in Peers
  BY DEF SendArrives, TypesOK, TrafficOK, Given, Elements, IsAnswer, IsRequest
<1>3. IsRequest(r)
  BY <1>2, NextListFacts
<1> HIDE DEF r
<1>4. TrafficOK' /\ overtakings' \in 0..MaxOvertakings
  BY <1>1, <1>3, FewElements, TakeTypes
<1>5. body' \subseteq Peers /\ saving' \in [Peers -> (SUBSET Peers) \cup {Unset}]
  <2>1. body \subseteq Peers /\ saving \in [Peers -> (SUBSET Peers) \cup {Unset}]
    BY DEF TypesOK, ConversationTypeOK
  <2>2. \/ UNCHANGED <<body, saving>>
        \/ body' = {} /\ saving' = [saving EXCEPT ![call.peer] = {}]
    BY DEF SendArrives
  <2> QED BY <2>1, <2>2
<1> QED
  BY <1>1, <1>4, <1>5
     DEF Take, TypesOK, ConversationTypeOK, RowsOK, EventsAnnounced, database, recorded

LEMMA ClearArrivesTypes ==
    ASSUME TypesOK, NEW k \in DOMAIN answers, ClearArrives(k) PROVE TypesOK'
<1>1. IsRequest(ListCall("nothing"))
  BY ListCallFacts
<1>2. TrafficOK' /\ overtakings' \in 0..MaxOvertakings
  BY <1>1, FewElements, TakeTypes DEF ClearArrives
<1> QED
  BY <1>2
     DEF ClearArrives, Take, TypesOK, ConversationTypeOK, RowsOK, EventsAnnounced, database, recorded

LEMMA EventArrivesTypes == ASSUME TypesOK, EventArrives PROVE TypesOK'
<1>1. TrafficOK'
  BY ListCallFacts, FewElements, SentTypes DEF EventArrives
<1>2. events' \in 0..MaxEvents /\ EventsAnnounced'
  <2>1. events \in 0..MaxEvents /\ MaxEvents \in Nat /\ events <= announced /\ announced \in Nat
    BY ConversationAssumption DEF TypesOK, ConversationTypeOK, EventsAnnounced
  <2> QED BY <2>1 DEF EventArrives, EventsAnnounced
<1> QED
  BY <1>1, <1>2
     DEF EventArrives, TypesOK, ConversationTypeOK, RowsOK, pane, composing, database, recorded, faults

LEMMA SaveFiresTypes == ASSUME TypesOK, NEW p \in Peers, SaveFires(p) PROVE TypesOK'
<1> DEFINE r == TextCall("put", p, "nothing", saving[p])
<1>1. saving \in [Peers -> (SUBSET Peers) \cup {Unset}] /\ saving[p] # Unset
  BY DEF SaveFires, TypesOK, ConversationTypeOK
<1>2. saving[p] \in SUBSET Peers
  BY <1>1
<1>3. IsRequest(r)
  <2>1. PICK text \in SUBSET Peers : text = saving[p]
    BY <1>2
  <2>2. IsRequest(TextCall("put", p, "nothing", text))
    BY DEF IsRequest, Requests, Nexts, TextCall, Call
  <2> QED BY <2>1, <2>2
<1> HIDE DEF r
<1>4. Ask(<<r>>) /\ UNCHANGED answers
  BY DEF SaveFires, r
<1>5. TrafficOK'
  BY <1>3, <1>4, FewElements, SentTypes
<1>6. saving' \in [Peers -> (SUBSET Peers) \cup {Unset}]
  BY <1>1 DEF SaveFires
<1> QED
  BY <1>5, <1>6
     DEF SaveFires, TypesOK, ConversationTypeOK, RowsOK, EventsAnnounced, pane, database, recorded, faults

LEMMA SearchFiresTypes == ASSUME TypesOK, SearchFires PROVE TypesOK'
<1>1. /\ active \in Peers \cup {NoPeer} /\ field \in BOOLEAN /\ search \in BOOLEAN
  BY DEF TypesOK, ConversationTypeOK
<1>2. TrafficOK' /\ search' \in BOOLEAN
  <2>1. CASE active = NoPeer
    BY <1>1, <2>1 DEF SearchFires, TypesOK, TrafficOK, Asked, Given
  <2>2. CASE active # NoPeer
    <3>1. IsRequest(ThreadCall(active, "search", field))
      BY <1>1, <2>2, ThreadCallFacts
    <3>2. Ask(<<ThreadCall(active, "search", field)>>) /\ UNCHANGED answers /\ search' = field
      BY <2>2 DEF SearchFires
    <3> QED BY <1>1, <3>1, <3>2, FewElements, SentTypes
  <2> QED BY <2>1, <2>2
<1> QED
  BY <1>1, <1>2
     DEF SearchFires, TypesOK, ConversationTypeOK, RowsOK, EventsAnnounced, composing, database,
         recorded, faults

\* A deed of the user leaves the server alone.
LEMMA DeedTypes ==
    ASSUME TypesOK, Deed
    PROVE  /\ deeds' \in 0..MaxDeeds /\ announced' \in 0..MaxEvents /\ events' \in 0..MaxEvents
           /\ failures' \in 0..MaxFailures /\ overtakings' \in 0..MaxOvertakings
           /\ rows' \subseteq Rows /\ lastId' \in 0..MaxMessages
           /\ readUpTo' \in [Peers -> 0..MaxMessages] /\ kept' \in [Peers -> SUBSET Peers]
           /\ RowsOK' /\ EventsAnnounced' /\ UNCHANGED answers
<1>1. deeds \in 0..MaxDeeds /\ MaxDeeds \in Nat
  BY ConversationAssumption DEF TypesOK, ConversationTypeOK
<1>2. deeds' \in 0..MaxDeeds
  BY <1>1 DEF Deed
<1> QED
  BY <1>2 DEF Deed, TypesOK, ConversationTypeOK, RowsOK, EventsAnnounced, database, faults

LEMMA OpenTypes ==
    ASSUME TypesOK, NEW p \in Peers, NEW linked, OpenConversation(p, linked) PROVE TypesOK'
<1>1. IsRequest(ThreadCall(p, "open", FALSE))
  BY ThreadCallFacts
<1>2. Deed /\ Ask(<<ThreadCall(p, "open", FALSE)>>) /\ UNCHANGED answers
  BY DEF OpenConversation, Deed
<1>3. TrafficOK'
  BY <1>1, <1>2, FewElements, SentTypes
<1>4. DOMAIN list' \subseteq Peers /\ Range(list') \subseteq 0..MaxMessages
  <2>1. DOMAIN list \subseteq Peers /\ Range(list) \subseteq 0..MaxMessages /\ MaxMessages \in Nat
    BY ConversationAssumption DEF TypesOK, ConversationTypeOK
  <2>2. /\ DOMAIN list' = DOMAIN list \cup {p}
        /\ \A q \in DOMAIN list' : (q \in DOMAIN list /\ list'[q] = list[q]) \/ list'[q] = 0
    BY DEF OpenConversation
  <2> QED BY <2>1, <2>2 DEF Range
<1>5. /\ active' \in Peers /\ {search', field', visible'} \subseteq BOOLEAN
      /\ unseen' \subseteq Peers
      /\ UNCHANGED <<thread, header, searching, composing, outdated>>
  BY DEF OpenConversation, Open, TypesOK, ConversationTypeOK
<1> QED
  BY <1>2, <1>3, <1>4, <1>5, DeedTypes DEF TypesOK, ConversationTypeOK, composing

LEMMA SubmitTypes == ASSUME TypesOK, SubmitReply PROVE TypesOK'
<1> DEFINE r == TextCall("send", active, "reply", body)
<1>1. IsRequest(r)
  <2>1. active \in Peers /\ body \in SUBSET Peers
    BY DEF SubmitReply, TypesOK, ConversationTypeOK
  <2> QED BY <2>1, TextCallFacts
<1> HIDE DEF r
<1>2. Deed /\ Ask(<<r>>) /\ UNCHANGED answers
  BY DEF SubmitReply, Deed, r
<1>3. TrafficOK'
  BY <1>1, <1>2, FewElements, SentTypes
<1> QED
  BY <1>2, <1>3, DeedTypes DEF SubmitReply, TypesOK, ConversationTypeOK, pane, recorded

LEMMA ComposeTypes == ASSUME TypesOK, NEW p \in Peers, Compose(p) PROVE TypesOK'
<1> DEFINE r == TextCall("send", p, "compose", {p})
<1>1. IsRequest(r)
  <2>1. {p} \in SUBSET Peers
    OBVIOUS
  <2> QED BY <2>1, TextCallFacts
<1> HIDE DEF r
<1>2. Deed /\ Ask(<<r>>) /\ UNCHANGED answers
  BY DEF Compose, Deed, r
<1>3. TrafficOK'
  BY <1>1, <1>2, FewElements, SentTypes
<1> QED
  BY <1>2, <1>3, DeedTypes DEF Compose, TypesOK, ConversationTypeOK, pane, composing, recorded

LEMMA ClearHistoryTypes == ASSUME TypesOK, ClearHistory PROVE TypesOK'
<1>1. IsRequest(Call("clear", active, "nothing"))
  <2>1. active \in Peers
    BY DEF ClearHistory, TypesOK, ConversationTypeOK
  <2> QED BY <2>1, CallFacts
<1>2. Deed /\ Ask(<<Call("clear", active, "nothing")>>) /\ UNCHANGED answers
  BY DEF ClearHistory, Deed
<1>3. TrafficOK'
  BY <1>1, <1>2, FewElements, SentTypes
<1> QED
  BY <1>2, <1>3, DeedTypes DEF ClearHistory, TypesOK, ConversationTypeOK, pane, composing, recorded

\* What is on its way stays when the queues do.
LEMMA TrafficRests ==
    ASSUME TrafficOK, UNCHANGED <<calls, answers>>
    PROVE  /\ TrafficOK' /\ Asked' = Asked /\ Given' = Given
           /\ NewestAsked' = NewestAsked /\ NewestGiven' = NewestGiven
           /\ TurnCalls' = TurnCalls /\ TurnAnswers' = TurnAnswers
  BY DEF TrafficOK, Asked, Given, NewestAsked, NewestGiven, TurnCalls, TurnAnswers, AnswerOps

LEMMA OtherDeedsTypes ==
    ASSUME TypesOK, \/ Turn \/ \E wanted \in BOOLEAN : Search(wanted)
                    \/ \E text \in SUBSET Peers : TypeReply(text)
    PROVE  TypesOK'
<1>1. CASE Turn
  BY <1>1, DeedTypes, TrafficRests
     DEF Turn, TypesOK, ConversationTypeOK, composing, recorded
<1>2. CASE \E wanted \in BOOLEAN : Search(wanted)
  <2>1. PICK wanted \in BOOLEAN : Search(wanted)
    BY <1>2
  <2> QED
    BY <2>1, DeedTypes, TrafficRests
       DEF Search, TypesOK, ConversationTypeOK, composing, recorded
<1>3. CASE \E text \in SUBSET Peers : TypeReply(text)
  <2>1. PICK text \in SUBSET Peers : TypeReply(text)
    BY <1>3
  <2>2. saving' \in [Peers -> (SUBSET Peers) \cup {Unset}]
    BY <2>1 DEF TypeReply, TypesOK, ConversationTypeOK
  <2> QED
    BY <2>1, <2>2, DeedTypes, TrafficRests
       DEF TypeReply, TypesOK, ConversationTypeOK, pane, recorded
<1> QED
  BY <1>1, <1>2, <1>3

LEMMA InitTypes == ConversationInit => TypesOK
<1> SUFFICES ASSUME ConversationInit PROVE TypesOK
  OBVIOUS
<1>1. IsRequest(ListCall("nothing"))
  BY ListCallFacts
<1>2. TrafficOK
  BY <1>1, FewElements DEF ConversationInit, TrafficOK, Asked, Given
<1>3. DOMAIN list = {} /\ Range(list) = {}
  BY DEF ConversationInit, Range
<1>4. /\ MaxMessages \in Nat /\ MaxEvents \in Nat /\ MaxDeeds \in Nat /\ MaxFailures \in Nat
      /\ MaxOvertakings \in Nat
  BY ConversationAssumption
<1>5. /\ saving \in [Peers -> (SUBSET Peers) \cup {Unset}] /\ kept \in [Peers -> SUBSET Peers]
      /\ readUpTo \in [Peers -> 0..MaxMessages]
  BY <1>4 DEF ConversationInit
<1>6. /\ lastId \in 0..MaxMessages /\ events \in 0..MaxEvents /\ announced \in 0..MaxEvents
      /\ deeds \in 0..MaxDeeds /\ failures \in 0..MaxFailures /\ overtakings \in 0..MaxOvertakings
      /\ EventsAnnounced
  BY <1>4 DEF ConversationInit, EventsAnnounced
<1>7. RowsOK /\ rows \subseteq Rows /\ thread \subseteq Rows
  BY DEF ConversationInit, RowsOK
<1> QED
  BY <1>2, <1>3, <1>5, <1>6, <1>7 DEF ConversationInit, TypesOK, ConversationTypeOK

LEMMA NextTypes == TypesOK /\ [ConversationNext]_conversationVars => TypesOK'
<1> SUFFICES ASSUME TypesOK, [ConversationNext]_conversationVars PROVE TypesOK'
  OBVIOUS
<1>1. CASE ServerNext
  BY <1>1, ReceiveTypes, DeliveryTypes, ServeReadTypes, ServeMarkTypes, ServeSendTypes,
     ServeClearTypes, ServePutTypes
     DEF ServerNext
<1>2. CASE HandlerNext
  BY <1>2, ListArrivesTypes, ThreadArrivesTypes, AnswerFailsTypes, MarkArrivesTypes,
     DraftArrivesTypes, SendArrivesTypes, ClearArrivesTypes, EventArrivesTypes,
     SearchFiresTypes, SaveFiresTypes
     DEF HandlerNext
<1>3. CASE UserNext
  BY <1>3, OpenTypes, ComposeTypes, SubmitTypes, ClearHistoryTypes, OtherDeedsTypes DEF UserNext
<1>4. CASE UNCHANGED conversationVars
  <2>1. TrafficOK'
    BY <1>4, TrafficRests DEF TypesOK, conversationVars, traffic
  <2> QED
    BY <1>4, <2>1
       DEF TypesOK, ConversationTypeOK, RowsOK, EventsAnnounced, conversationVars, pane, composing,
           traffic, database, recorded, faults
<1> QED
  BY <1>1, <1>2, <1>3, <1>4 DEF ConversationNext

-----------------------------------------------------------------------------
(* Truth: messages are stored                                              *)

\* From here to NextTruth: in an undisturbed run each step, named by its lemma,
\* keeps what makes the page true.

\* Turning requests and answers exclude each other.
TurnsAlone ==
    /\ \A c, d \in Asked : Turns(c) /\ Turns(d) => c = d
    /\ \A a, b \in Given : Turns(a.call) /\ Turns(b.call) => a = b
    /\ \A c \in Asked, a \in Given : ~(Turns(c) /\ Turns(a.call))

LEMMA OneTurnsAlone == OneTurns => TurnsAlone
<1> SUFFICES ASSUME OneTurns PROVE TurnsAlone
  OBVIOUS
<1>1. /\ \A c \in Asked : Turns(c) => \E k \in TurnCalls : calls[k] = c
      /\ \A a \in Given : Turns(a.call) => \E k \in TurnAnswers : answers[k] = a
  BY DEF Asked, Given, Elements, TurnCalls, TurnAnswers, TurnsOf, AnswerTurns
<1> QED
  BY <1>1 DEF OneTurns, AtMostOne, TurnsAlone

\* No answer overtook another, so this one was the first of its kind.
LEMMA InOrder ==
    ASSUME TypesOK, NEW first \in BOOLEAN, Overtakes(first), overtakings' = 0
    PROVE  first /\ overtakings = 0
<1>1. overtakings \in Nat
  BY ConversationAssumption DEF TypesOK, ConversationTypeOK
<1> QED
  BY <1>1 DEF Overtakes

\* Nothing failed, so this request did not.
LEMMA NoFailure ==
    ASSUME TypesOK, NEW ok \in BOOLEAN, Fails(ok), failures' = 0
    PROVE  ok /\ failures = 0
<1>1. failures \in Nat
  BY ConversationAssumption DEF TypesOK, ConversationTypeOK
<1> QED
  BY <1>1 DEF Fails

\* What is on its way stays, and an event was announced.
LEMMA AnnouncedTruth ==
    ASSUME TypesOK, PaneTruth, UNCHANGED <<pane, composing, calls, answers, recorded>>, Announced,
           \A p : RowsOf(p) # {} => RowsOf(p)' # {}
    PROVE  PaneTruth'
<1>1. /\ Asked' = Asked /\ Given' = Given
      /\ NewestAsked' = NewestAsked /\ NewestGiven' = NewestGiven
      /\ TurnCalls' = TurnCalls /\ TurnAnswers' = TurnAnswers
  BY TrafficRests DEF TypesOK
<1>2. events' > 0
  BY ConversationAssumption DEF TypesOK, ConversationTypeOK, Announced
<1>3. ListComes' /\ ThreadComes' /\ MarkComes'
  BY <1>2 DEF ListComes, ThreadComes, MarkComes, EventComes
<1>4. NoneFailed' /\ OneTurns' /\ SentIsListed'
  BY <1>1 DEF PaneTruth, NoneFailed, OneTurns, SentIsListed
<1>5. ListTells' /\ MarkTells' /\ ThreadTells' /\ ActiveIsRead'
  BY <1>3 DEF ListTells, MarkTells, ThreadTells, ActiveIsRead
<1>6. ThreadsAreActive' /\ HeaderIsActive'
  BY <1>1 DEF PaneTruth, ThreadsAreActive, HeaderIsActive, pane, composing
<1>7. EmptyIsShown'
  <2>1. active' = active /\ thread' = thread
    BY DEF pane
  <2>2. RowsOf(active)' = {} => RowsOf(active) = {}
    BY <2>1
  <2> QED
    BY <1>1, <2>1, <2>2 DEF PaneTruth, EmptyIsShown, LastThreadIs, NoThreadAsked, Cleared
<1> QED
  BY <1>4, <1>5, <1>6, <1>7 DEF PaneTruth

LEMMA ReceiveTruth ==
    ASSUME ConversationInvariant, NEW p \in Peers, Receive(p), Undisturbed' PROVE PaneTruth'
<1>1. TypesOK /\ PaneTruth
  BY DEF ConversationInvariant, Undisturbed, Receive, faults
<1>2. \A q : RowsOf(q) # {} => RowsOf(q)' # {}
  BY InsertFacts DEF Receive
<1> QED
  BY <1>1, <1>2, AnnouncedTruth DEF Receive

LEMMA DeliveryTruth ==
    ASSUME ConversationInvariant, DeliveryGoesOn, Undisturbed' PROVE PaneTruth'
<1>1. TypesOK /\ PaneTruth
  BY DEF ConversationInvariant, Undisturbed, DeliveryGoesOn, faults
<1>2. \A q : RowsOf(q) # {} => RowsOf(q)' # {}
  BY DEF DeliveryGoesOn, database, RowsOf
<1> QED
  BY <1>1, <1>2, AnnouncedTruth DEF DeliveryGoesOn

-----------------------------------------------------------------------------
(* Truth: requests are served                                              *)

\* The k-th request is answered by a, and nothing on the page changes.
Answered(c, a) ==
    /\ Served(c, a) /\ ServedInOrder(c, a) /\ OneTurns'
    /\ UNCHANGED <<pane, composing, events, unseen>>
    /\ IsRequest(c) /\ a.call = c
    /\ a.ok \/ c.op \in {"send", "clear"}

LEMMA ServedQuietly ==
    ASSUME TypesOK, NEW k, NEW ok, NEW found, ServeCall(k, ok, found), Undisturbed'
    PROVE  overtakings = 0
<1>1. overtakings \in Nat /\ overtakings' = 0
  BY ConversationAssumption DEF TypesOK, ConversationTypeOK, Undisturbed
<1> QED
  BY <1>1 DEF ServeCall, Overtakes

\* In an undisturbed run a request is answered in order and succeeds.
LEMMA AnsweredInOrder ==
    ASSUME TypesOK, OneTurns, NEW k \in DOMAIN calls, NEW ok \in BOOLEAN, NEW found,
           ServeCall(k, ok, found), Undisturbed', ok \/ calls[k].op \in {"send", "clear"}
    PROVE  Answered(calls[k], [call |-> calls[k], ok |-> ok, found |-> found])
<1> DEFINE a == [call |-> calls[k], ok |-> ok, found |-> found]
<1>1. Overtakes(FirstOfKind(Ops(calls), k)) /\ overtakings' = 0
  BY DEF ServeCall, Undisturbed
<1>2. FirstOfKind(Ops(calls), k)
  <2>1. FirstOfKind(Ops(calls), k) \in BOOLEAN
    BY DEF FirstOfKind
  <2> HIDE DEF FirstOfKind
  <2> QED BY <1>1, <2>1, InOrder
<1>3. Served(calls[k], a) /\ ServedInOrder(calls[k], a) /\ OneTurns'
  BY <1>2, ServeFacts DEF TypesOK
<1>4. IsRequest(calls[k]) /\ a.call = calls[k] /\ a.ok = ok
  BY DEF TypesOK, TrafficOK, Asked, Elements
<1>5. UNCHANGED <<pane, composing, events, unseen>>
  BY DEF ServeCall
<1> HIDE DEF a
<1>6. Answered(calls[k], a)
  BY <1>3, <1>4, <1>5 DEF Answered
<1> QED
  BY <1>6 DEF a

\* What an answer leaves true whatever it says.
LEMMA ServedTruth ==
    ASSUME PaneTruth, NEW c, NEW a, Answered(c, a)
    PROVE  NoneFailed' /\ OneTurns' /\ ThreadsAreActive' /\ HeaderIsActive'
<1>1. /\ c \in Asked /\ Asked' \subseteq Asked /\ Asked \subseteq Asked' \cup {c}
      /\ Given' = Given \cup {a} /\ a.call = c
      /\ NewestAsked' \subseteq NewestAsked
      /\ active' = active /\ search' = search /\ header' = header /\ bodyTag' = bodyTag
  BY DEF Answered, Served, ServedInOrder, pane, composing
<1>2. NoneFailed'
  BY <1>1 DEF PaneTruth, NoneFailed, Answered
<1>3. ThreadsAreActive'
  BY <1>1 DEF PaneTruth, ThreadsAreActive
<1>4. HeaderIsActive'
  BY <1>1 DEF PaneTruth, HeaderIsActive
<1> QED
  BY <1>2, <1>3, <1>4 DEF Answered

LEMMA ServeReadTruth ==
    ASSUME ConversationInvariant, NEW k \in DOMAIN calls, NEW ok \in BOOLEAN, ServeRead(k, ok),
           Undisturbed'
    PROVE  PaneTruth'
<1> DEFINE c == calls[k]
           found == CASE calls[k].op = "list"   -> Listing
                      [] calls[k].op = "thread" -> ThreadOf(calls[k].peer, calls[k].search)
                      [] calls[k].op = "draft"  -> kept[calls[k].peer]
           a == [call |-> c, ok |-> ok, found |-> found]
<1>1. /\ ServeCall(k, ok, found) /\ Fails(ok) /\ UNCHANGED database
      /\ c.op \in {"list", "thread", "draft"}
      /\ outdated' = IF c.op = "list" THEN {} ELSE outdated
  BY DEF ServeRead
<1>2. c.op = "list" => found = Listing
  BY Zenon
<1>3. c.op = "thread" => found = ThreadOf(c.peer, c.search)
  <2>1. "list" # "thread" /\ "list" # "draft" /\ "thread" # "draft"
    OBVIOUS
  <2> QED BY <2>1, Zenon
<1> HIDE DEF found
<1>4. TypesOK
  BY DEF ConversationInvariant
<1>5. ok /\ PaneTruth
  BY <1>1, <1>4, NoFailure, ServedQuietly DEF ConversationInvariant, Undisturbed
<1>6. Answered(c, a)
  BY <1>1, <1>4, <1>5, AnsweredInOrder DEF PaneTruth
<1>7. a.call = c /\ a.found = found /\ a.ok
  BY <1>5
<1> HIDE DEF a, c
<1>8. NoneFailed' /\ OneTurns' /\ ThreadsAreActive' /\ HeaderIsActive'
  BY <1>5, <1>6, ServedTruth
<1>9. /\ c \in Asked /\ Asked' \subseteq Asked /\ Asked \subseteq Asked' \cup {c}
      /\ Given' = Given \cup {a}
      /\ (\A d \in Asked' : d.op # c.op) => c \in NewestAsked
      /\ \A b \in NewestGiven' : b = a \/ (b \in NewestGiven /\ b.call.op # c.op)
  BY <1>6, <1>7 DEF Answered, Served, ServedInOrder
<1>10. /\ active' = active /\ search' = search /\ thread' = thread /\ list' = list
       /\ visible' = visible /\ unseen' = unseen /\ events' = events
  BY <1>6 DEF Answered, pane
<1>11. SameRows /\ SameUnread
  BY <1>1, ServerRests DEF database
<1>12. SentIsListed'
  BY <1>1, <1>2, <1>5, <1>7, <1>9, <1>11, RowsArePeers
     DEF PaneTruth, SentIsListed, ListsSent, SameRows
<1>13. ListTells' /\ MarkTells'
  <2>1. CASE c.op = "list"
    <3>1. ~NoList'
      BY <1>7, <1>9, <2>1 DEF NoList
    <3>2. \A b \in NewestGiven' : b.call.op = "list" => b.found = Listing
      BY <1>2, <1>7, <1>9, <2>1
    <3>3. \A p \in DOMAIN Listing : Listing[p] = Unread(p)
      BY RowsArePeers
    <3> QED BY <1>11, <3>1, <3>2, <3>3 DEF ListTells, MarkTells, SameUnread
  <2>2. CASE c.op # "list"
    <3>1. (ListComes => ListComes') /\ (NoList' => NoList)
      BY <1>7, <1>9, <1>10, <2>2 DEF ListComes, NoList, BringsList
    <3>2. \A b \in NewestGiven' : b.call.op = "list" => b \in NewestGiven
      BY <1>1, <1>7, <1>9, <2>2
    <3>3. \A p : WillBeZero(p) => WillBeZero(p)'
      BY <1>7, <1>9 DEF WillBeZero
    <3>4. ListTells'
      BY <1>1, <1>5, <1>10, <1>11, <2>2, <3>1, <3>2, <3>3
         DEF PaneTruth, ListTells, SameUnread
    <3>5. MarkTells'
      <4>1. \A d \in Asked : [d EXCEPT !.op = "read"] \in Asked => [d EXCEPT !.op = "read"] \in Asked'
        <5> SUFFICES ASSUME NEW d \in Asked, [d EXCEPT !.op = "read"] = c PROVE FALSE
          BY <1>9
        <5>1. IsRequest(d)
          BY <1>4 DEF TypesOK, TrafficOK
        <5>2. [d EXCEPT !.op = "read"].op = "read"
          BY <5>1 DEF IsRequest, Requests
        <5> QED BY <1>1, <5>2
      <4>2. \A b \in Given : b.call.op = "draft" /\ [b.call EXCEPT !.op = "read"] \in Asked =>
                [b.call EXCEPT !.op = "read"] \in Asked'
        <5> SUFFICES ASSUME NEW b \in Given, [b.call EXCEPT !.op = "read"] = c PROVE FALSE
          BY <1>9
        <5>1. IsRequest(b.call)
          BY <1>4 DEF TypesOK, TrafficOK, IsAnswer
        <5>2. [b.call EXCEPT !.op = "read"].op = "read"
          BY <5>1 DEF IsRequest, Requests
        <5> QED BY <1>1, <5>2
      <4>3. Opening(c) => c.op = "draft"
        BY <1>1 DEF Opening
      <4> QED
        BY <1>5, <1>7, <1>9, <1>11, <3>1, <4>1, <4>2, <4>3 DEF PaneTruth, MarkTells, SameUnread
    <3> QED BY <3>4, <3>5
  <2> QED BY <2>1, <2>2
<1>14. (Cleared <=> Cleared') /\ (c.op # "thread" => (NoThreadAsked' <=> NoThreadAsked))
  BY <1>1, <1>7, <1>9 DEF Cleared, NoThreadAsked
<1>15. ASSUME active # NoPeer, c.op = "thread", NoThreadAsked', NEW messages,
              ThreadOf(active, search) = messages
       PROVE  LastThreadIs(messages)'
  <2>1. c \in NewestAsked
    BY <1>9, <1>15 DEF NoThreadAsked
  <2>2. c.peer = active /\ c.search = search
    BY <1>5, <1>15, <2>1 DEF PaneTruth, ThreadsAreActive
  <2>3. a.found = messages
    BY <1>3, <1>7, <1>15, <2>2
  <2>4. messages' = messages
    OBVIOUS
  <2> QED BY <1>7, <1>9, <1>15, <2>3 DEF LastThreadIs
<1>16. ASSUME c.op # "thread", NEW messages, LastThreadIs(messages) PROVE LastThreadIs(messages)'
  BY <1>7, <1>9, <1>10, <1>16 DEF LastThreadIs
<1>17. EmptyIsShown'
  <2> SUFFICES ASSUME active # NoPeer, RowsOf(active) = {}, NoThreadAsked', ~Cleared
               PROVE  LastThreadIs({})'
    BY <1>10, <1>11, <1>14 DEF EmptyIsShown, SameRows
  <2>1. CASE c.op = "thread"
    BY <1>15, <2>1, RowsArePeers
  <2>2. CASE c.op # "thread"
    BY <1>5, <1>14, <1>16, <2>2 DEF PaneTruth, EmptyIsShown
  <2> QED BY <2>1, <2>2
<1>18. ThreadTells'
  <2> SUFFICES ASSUME active # NoPeer, active \notin unseen, ~ThreadComes'
               PROVE  LastThreadIs(ThreadOf(active, search))'
    BY <1>10 DEF ThreadTells
  <2>0. ThreadOf(active, search)' = ThreadOf(active, search)
    BY <1>10, <1>11 DEF SameRows
  <2> DEFINE messages == ThreadOf(active, search)
  <2> HIDE DEF messages
  <2>1. CASE c.op = "thread"
    <3>1. NoThreadAsked'
      BY DEF ThreadComes
    <3> QED BY <1>15, <2>0, <2>1, <3>1
  <2>2. CASE c.op = "list" /\ c.next = "event" /\ active \notin DOMAIN found
    <3>1. RowsOf(active) = {}
      BY <1>2, <2>2, RowsArePeers
    <3>2. NoThreadAsked' /\ ~Cleared'
      BY DEF ThreadComes
    <3>3. LastThreadIs({})' /\ ThreadOf(active, search) = {}
      BY <1>10, <1>11, <1>17, <3>1, <3>2, RowsArePeers DEF EmptyIsShown, SameRows
    <3> QED BY <2>0, <3>3
  <2>3. CASE c.op # "thread" /\ ~(c.op = "list" /\ c.next = "event" /\ active \notin DOMAIN found)
    <3>1. ~ThreadComes
      BY <1>7, <1>9, <1>10, <1>14, <2>3
         DEF ThreadComes, EventComes, ListsSent
    <3>2. LastThreadIs(ThreadOf(active, search))
      BY <1>5, <3>1 DEF PaneTruth, ThreadTells
    <3> QED BY <1>16, <2>0, <2>3, <3>2
  <2> QED BY <2>1, <2>2, <2>3
<1>19. ActiveIsRead'
  <2> SUFFICES ASSUME active # NoPeer, active \notin unseen, ~MarkComes'
               PROVE  Unread(active) = 0
    BY <1>10, <1>11 DEF ActiveIsRead, SameUnread
  <2>1. CASE c.op = "list" /\ c.next = "event" /\ active \notin DOMAIN found
    BY <1>2, <2>1, RowsArePeers
  <2>2. CASE ~(c.op = "list" /\ c.next = "event" /\ active \notin DOMAIN found)
    <3>1. ~MarkComes
      BY <1>1, <1>7, <1>9, <1>10, <2>2 DEF MarkComes, EventComes, Marks
    <3> QED BY <1>5, <3>1 DEF PaneTruth, ActiveIsRead
  <2> QED BY <2>1, <2>2
<1> QED
  BY <1>8, <1>12, <1>13, <1>17, <1>18, <1>19 DEF PaneTruth

\* What stays so when a request that is not for a list, a thread or a draft is
\* answered.
AnswerKeepsWaiting(c, a) ==
    /\ Asked' \subseteq Asked /\ Asked \subseteq Asked' \cup {c} /\ c \in Asked
    /\ Given' = Given \cup {a}
    /\ \A b \in NewestGiven' : b.call.op \in {"list", "thread"} => b \in NewestGiven
    /\ (NoList' => NoList) /\ (NoThreadAsked' => NoThreadAsked)
    /\ (ListComes => ListComes') /\ (ThreadComes => ThreadComes')
    /\ (~(c.op = "read" /\ c.peer = active) => (MarkComes => MarkComes'))
    /\ (Cleared => Cleared') /\ \A p : WillBeZero(p) => WillBeZero(p)'
    /\ \A messages : LastThreadIs(messages) =>
          /\ \A b \in NewestGiven' : b.call.op = "thread" => b.found = messages
          /\ (\A b \in Given' : b.call.op # "thread") => thread' = messages

LEMMA AnsweredKeeps ==
    ASSUME NEW c, NEW a, Answered(c, a), c.op \in {"read", "send", "clear"}
    PROVE  AnswerKeepsWaiting(c, a)
<1>1. /\ c \in Asked /\ Asked' \subseteq Asked /\ Asked \subseteq Asked' \cup {c}
      /\ Given' = Given \cup {a} /\ a.call = c
      /\ \A b \in NewestGiven' : b = a \/ (b \in NewestGiven /\ b.call.op # c.op)
  BY DEF Answered, Served, ServedInOrder
<1>2. /\ active' = active /\ thread' = thread /\ visible' = visible /\ events' = events
  BY DEF Answered, pane
<1>3. \A b \in NewestGiven' : b.call.op \in {"list", "thread"} => b \in NewestGiven
  BY <1>1
<1>4. (NoList' => NoList) /\ (NoThreadAsked' => NoThreadAsked)
  BY <1>1 DEF NoList, NoThreadAsked
<1>5. ListComes => ListComes'
  BY <1>1, <1>2 DEF ListComes, BringsList
<1>6. EventComes => EventComes'
  BY <1>1, <1>2 DEF EventComes
<1>7. Cleared => Cleared'
  BY <1>1 DEF Cleared
<1>8. ThreadComes => ThreadComes'
  BY <1>1, <1>2, <1>4, <1>6, <1>7 DEF ThreadComes, ListsSent
<1>9. ~(c.op = "read" /\ c.peer = active) => (MarkComes => MarkComes')
  BY <1>1, <1>2, <1>6 DEF MarkComes, Marks
<1>10. \A p : WillBeZero(p) => WillBeZero(p)'
  BY <1>1 DEF WillBeZero
<1>11. ASSUME NEW messages, LastThreadIs(messages)
       PROVE  /\ \A b \in NewestGiven' : b.call.op = "thread" => b.found = messages
              /\ (\A b \in Given' : b.call.op # "thread") => thread' = messages
  BY <1>1, <1>2, <1>3, <1>11 DEF LastThreadIs
<1> QED
  BY <1>1, <1>3, <1>4, <1>5, <1>7, <1>8, <1>9, <1>10, <1>11 DEF AnswerKeepsWaiting

\* The mark of an opening has its peer.
LEMMA ReadOf ==
    ASSUME NEW d, IsRequest(d)
    PROVE  [d EXCEPT !.op = "read"].op = "read" /\ [d EXCEPT !.op = "read"].peer = d.peer
  BY DEF IsRequest, Requests

\* Openings wait as before when a request of another kind is taken.
LEMMA MarksWait ==
    ASSUME TypesOK, MarkTells, ListComes => ListComes', NoList' => NoList, SameUnread,
           Asked' \subseteq Asked, NEW c, Asked \subseteq Asked' \cup {c}, c.op # "read",
           \A a \in Given' : a \in Given \/ ~Opening(a.call)
    PROVE  MarkTells'
<1>1. ASSUME NEW d, IsRequest(d), [d EXCEPT !.op = "read"] \in Asked
      PROVE  [d EXCEPT !.op = "read"] \in Asked'
  BY <1>1, ReadOf
<1>2. \A d \in Asked : IsRequest(d)
  BY DEF TypesOK, TrafficOK
<1>3. \A a \in Given : IsRequest(a.call)
  BY DEF TypesOK, TrafficOK, IsAnswer
<1> QED
  BY <1>1, <1>2, <1>3 DEF MarkTells, SameUnread

\* The server's messages and counts are what they were.
LEMMA RestingTruth ==
    ASSUME TypesOK, PaneTruth, NEW c, NEW a, Answered(c, a), c.op \in {"send", "clear"},
           ~(c.op = "send" /\ a.ok), SameRows, SameUnread, UNCHANGED outdated
    PROVE  SentIsListed' /\ ListTells' /\ MarkTells' /\ EmptyIsShown' /\ ThreadTells' /\ ActiveIsRead'
<1>1. AnswerKeepsWaiting(c, a) /\ a.call = c
  BY AnsweredKeeps DEF Answered
<1>2. /\ active' = active /\ search' = search /\ thread' = thread /\ list' = list
      /\ visible' = visible /\ unseen' = unseen
  BY DEF Answered, pane
<1>3. SentIsListed'
  BY <1>1 DEF AnswerKeepsWaiting, PaneTruth, SentIsListed, ListsSent, SameRows
<1>4. ListTells'
  BY <1>1, <1>2 DEF AnswerKeepsWaiting, PaneTruth, ListTells, SameUnread
<1>5. MarkTells'
  <2>1. ~Opening(a.call)
    BY <1>1 DEF Opening
  <2> QED BY <1>1, <2>1, MarksWait DEF AnswerKeepsWaiting, PaneTruth
<1>6. EmptyIsShown'
  BY <1>1, <1>2 DEF AnswerKeepsWaiting, PaneTruth, EmptyIsShown, LastThreadIs, SameRows
<1>7. ThreadTells'
  BY <1>1, <1>2 DEF AnswerKeepsWaiting, PaneTruth, ThreadTells, LastThreadIs, SameRows
<1>8. ActiveIsRead'
  BY <1>1, <1>2 DEF AnswerKeepsWaiting, PaneTruth, ActiveIsRead, SameUnread
<1> QED
  BY <1>3, <1>4, <1>5, <1>6, <1>7, <1>8

LEMMA ServeMarkTruth ==
    ASSUME ConversationInvariant, NEW k \in DOMAIN calls, NEW ok \in BOOLEAN, ServeMark(k, ok),
           Undisturbed'
    PROVE  PaneTruth'
<1> DEFINE c == calls[k]
           a == [call |-> c, ok |-> ok, found |-> {}]
<1>1. TypesOK /\ c \in Asked /\ IsRequest(c) /\ c.op = "read" /\ c.peer \in Peers
  BY DEF ConversationInvariant, TypesOK, TrafficOK, Asked, Elements, ServeMark, IsRequest
<1>p. PICK p \in Peers : p = c.peer
  BY <1>1
<1>2. ServeCall(k, ok, {}) /\ Fails(ok)
  BY DEF ServeMark
<1>3. ok /\ PaneTruth
  BY <1>1, <1>2, NoFailure, ServedQuietly DEF ConversationInvariant, Undisturbed
<1>4. Answered(c, a) /\ a.call = c
  BY <1>1, <1>2, <1>3, AnsweredInOrder DEF PaneTruth
<1>5. /\ Unread(p)' = 0 /\ (\A q \in Peers : q # p => Unread(q)' = Unread(q))
      /\ SameRows /\ DOMAIN Listing' = DOMAIN Listing
  BY <1>1, <1>3, <1>p, MarkFacts DEF ServeMark, TypesOK
<1>6. outdated \subseteq outdated' /\ (Outdates(c) => p \in outdated')
  BY <1>3, <1>p DEF ServeMark
<1>7. (\E b \in Given : b.call.op = "list") => \E j \in DOMAIN answers : answers[j].call.op = "list"
  BY DEF Given, Elements
<1> HIDE DEF a, c
<1>8. NoneFailed' /\ OneTurns' /\ ThreadsAreActive' /\ HeaderIsActive'
  BY <1>3, <1>4, ServedTruth
<1>9. AnswerKeepsWaiting(c, a)
  BY <1>1, <1>4, AnsweredKeeps
<1>10. /\ active' = active /\ search' = search /\ thread' = thread /\ list' = list
       /\ visible' = visible /\ unseen' = unseen
  BY <1>4 DEF Answered, pane
<1>11. SentIsListed'
  BY <1>1, <1>3, <1>4, <1>5, <1>9 DEF AnswerKeepsWaiting, PaneTruth, SentIsListed, ListsSent, SameRows
<1>12. ~ListComes' => ~ListComes /\ c.next \in {"open", "reopen"}
  BY <1>1, <1>9 DEF AnswerKeepsWaiting, ListComes, BringsList, IsRequest
<1>13. ListTells'
  <2> SUFFICES ASSUME ~ListComes'
               PROVE  /\ \A b \in NewestGiven' : b.call.op = "list" =>
                            /\ DOMAIN Listing' \subseteq DOMAIN b.found
                            /\ \A q \in DOMAIN b.found : b.found[q] = Unread(q)' \/ q \in outdated'
                      /\ NoList' =>
                            /\ DOMAIN Listing' \subseteq DOMAIN list'
                            /\ \A q \in DOMAIN list' :
                                  \/ list'[q] = Unread(q)' \/ q \in outdated'
                                  \/ (Unread(q)' = 0 /\ WillBeZero(q)')
    BY DEF ListTells
  <2>1. ~ListComes /\ c.next # "event"
    BY <1>12
  <2>2. ASSUME NEW b \in NewestGiven', b.call.op = "list"
        PROVE  /\ DOMAIN Listing' \subseteq DOMAIN b.found
               /\ \A q \in DOMAIN b.found : b.found[q] = Unread(q)' \/ q \in outdated'
    <3>1. b \in NewestGiven
      BY <1>9, <2>2 DEF AnswerKeepsWaiting
    <3>2. b \in Given
      BY <3>1 DEF NewestGiven, Newest, Given, Elements
    <3>3. p \in outdated'
      BY <1>6, <1>7, <2>1, <2>2, <3>2 DEF Outdates
    <3>4. DOMAIN b.found \subseteq Peers
      BY <1>1, <2>2, <3>2 DEF TypesOK, TrafficOK, IsAnswer
    <3> QED BY <1>3, <1>5, <1>6, <2>1, <2>2, <3>1, <3>3, <3>4 DEF PaneTruth, ListTells
  <2>3. ASSUME NoList', NEW q \in DOMAIN list
        PROVE  \/ list[q] = Unread(q)' \/ q \in outdated'
               \/ (Unread(q)' = 0 /\ WillBeZero(q)')
    <3>1. \/ list[q] = Unread(q) \/ q \in outdated
          \/ (Unread(q) = 0 /\ WillBeZero(q))
      BY <1>3, <1>9, <2>1, <2>3 DEF AnswerKeepsWaiting, PaneTruth, ListTells
    <3>2. q \in Peers
      BY <1>1 DEF TypesOK, ConversationTypeOK
    <3>3. CASE q # p
      BY <1>5, <1>6, <1>9, <3>1, <3>2, <3>3 DEF AnswerKeepsWaiting
    <3>4. CASE q = p
      <4>1. CASE ~c.mine
        BY <1>6, <1>p, <2>1, <3>4, <4>1 DEF Outdates
      <4>2. CASE c.mine
        <5>1. Opening(c) /\ c.peer = p
          BY <1>1, <1>12, <1>p, <4>2 DEF Opening
        <5>2. WillBeZero(p)'
          BY <1>4, <1>9, <5>1 DEF AnswerKeepsWaiting, WillBeZero
        <5> QED BY <1>5, <3>4, <5>2
      <4>3. c.mine \in BOOLEAN
        BY <1>1 DEF IsRequest, Requests
      <4> QED BY <4>1, <4>2, <4>3
    <3> QED BY <3>3, <3>4
  <2>4. NoList' => DOMAIN Listing' \subseteq DOMAIN list'
    BY <1>3, <1>5, <1>9, <1>10, <2>1 DEF AnswerKeepsWaiting, PaneTruth, ListTells
  <2> QED BY <1>10, <2>2, <2>3, <2>4
<1>14. MarkTells'
  <2> SUFFICES ASSUME ~ListComes', NoList'
               PROVE  /\ \A d \in Asked' : Opening(d) =>
                            Unread(d.peer)' = 0 \/ [d EXCEPT !.op = "read"] \in Asked'
                      /\ \A b \in Given' : Opening(b.call) =>
                            \/ Unread(b.call.peer)' = 0
                            \/ b.call.op = "draft" /\ [b.call EXCEPT !.op = "read"] \in Asked'
    BY DEF MarkTells
  <2>1. ~ListComes /\ NoList
    BY <1>9, <1>12 DEF AnswerKeepsWaiting
  <2>2. \A q \in Peers : Unread(q) = 0 => Unread(q)' = 0
    BY <1>5
  <2>3. ASSUME NEW d, IsRequest(d), [d EXCEPT !.op = "read"] \in Asked, Opening(d)
        PROVE  Unread(d.peer)' = 0 \/ [d EXCEPT !.op = "read"] \in Asked'
    BY <1>5, <1>9, <1>p, <2>3, ReadOf DEF AnswerKeepsWaiting
  <2>4. ASSUME NEW d \in Asked', Opening(d)
        PROVE  Unread(d.peer)' = 0 \/ [d EXCEPT !.op = "read"] \in Asked'
    <3>1. d \in Asked /\ IsRequest(d) /\ d.peer \in Peers
      BY <1>1, <1>9, <2>4 DEF AnswerKeepsWaiting, TypesOK, TrafficOK, IsRequest, Opening
    <3>2. Unread(d.peer) = 0 \/ [d EXCEPT !.op = "read"] \in Asked
      BY <1>3, <2>1, <2>4, <3>1 DEF PaneTruth, MarkTells
    <3> QED BY <2>2, <2>3, <2>4, <3>1, <3>2
  <2>5. ASSUME NEW b \in Given', Opening(b.call)
        PROVE  \/ Unread(b.call.peer)' = 0
               \/ b.call.op = "draft" /\ [b.call EXCEPT !.op = "read"] \in Asked'
    <3>1. CASE b = a
      BY <1>4, <1>5, <1>p, <3>1
    <3>2. CASE b \in Given
      <4>1. IsRequest(b.call) /\ b.call.peer \in Peers
        BY <1>1, <2>5, <3>2 DEF TypesOK, TrafficOK, IsAnswer, IsRequest, Opening
      <4>2. \/ Unread(b.call.peer) = 0
            \/ b.call.op = "draft" /\ [b.call EXCEPT !.op = "read"] \in Asked
        BY <1>3, <2>1, <2>5, <3>2 DEF PaneTruth, MarkTells
      <4> QED BY <2>2, <2>3, <2>5, <4>1, <4>2
    <3> QED BY <1>9, <3>1, <3>2 DEF AnswerKeepsWaiting
  <2> QED BY <2>4, <2>5
<1>15. EmptyIsShown'
  BY <1>3, <1>5, <1>9, <1>10 DEF AnswerKeepsWaiting, PaneTruth, EmptyIsShown, LastThreadIs, SameRows
<1>16. ThreadTells'
  BY <1>3, <1>5, <1>9, <1>10 DEF AnswerKeepsWaiting, PaneTruth, ThreadTells, LastThreadIs, SameRows
<1>17. ActiveIsRead'
  <2> SUFFICES ASSUME active # NoPeer, active \notin unseen, ~MarkComes' PROVE Unread(active)' = 0
    BY <1>10 DEF ActiveIsRead
  <2>1. active \in Peers
    BY <1>1 DEF TypesOK, ConversationTypeOK
  <2> QED BY <1>1, <1>3, <1>5, <1>9, <1>10, <1>p, <2>1 DEF AnswerKeepsWaiting, PaneTruth, ActiveIsRead
<1> QED
  BY <1>8, <1>11, <1>13, <1>14, <1>15, <1>16, <1>17 DEF PaneTruth

LEMMA ServeSendTruth ==
    ASSUME ConversationInvariant, NEW k \in DOMAIN calls, NEW ok \in BOOLEAN, ServeSend(k, ok),
           Undisturbed'
    PROVE  PaneTruth'
<1> DEFINE c == calls[k]
           a == [call |-> c, ok |-> ok, found |-> {}]
<1>1. TypesOK /\ c \in Asked /\ IsRequest(c) /\ c.op = "send" /\ c.peer \in Peers
  BY DEF ConversationInvariant, TypesOK, TrafficOK, Asked, Elements, ServeSend, IsRequest
<1>p. PICK p \in Peers : p = c.peer
  BY <1>1
<1>2. ServeCall(k, ok, {}) /\ UNCHANGED <<readUpTo, outdated, failures>>
  BY DEF ServeSend
<1>3. PaneTruth
  BY <1>1, <1>2, ServedQuietly DEF ConversationInvariant, Undisturbed
<1>4. Answered(c, a) /\ a.call = c /\ a.ok = ok
  BY <1>1, <1>2, <1>3, AnsweredInOrder DEF PaneTruth
<1>5. ok => Insert(p, FALSE, c.text)
  BY <1>p DEF ServeSend
<1>6. ~ok => SameRows /\ SameUnread
  BY <1>2, ServerRests DEF ServeSend
<1> HIDE DEF a, c
<1>7. NoneFailed' /\ OneTurns' /\ ThreadsAreActive' /\ HeaderIsActive'
  BY <1>3, <1>4, ServedTruth
<1>8. CASE ~ok
  BY <1>1, <1>2, <1>3, <1>4, <1>6, <1>7, <1>8, RestingTruth DEF PaneTruth
<1>9. CASE ok
  <2>1. AnswerKeepsWaiting(c, a)
    BY <1>1, <1>4, AnsweredKeeps
  <2>2. /\ active' = active /\ search' = search /\ thread' = thread /\ unseen' = unseen
    BY <1>4 DEF Answered, pane
  <2>3. /\ RowsOf(p)' # {} /\ (\A q : RowsOf(q) \subseteq RowsOf(q)')
        /\ \A q : q # p => \A s : ThreadOf(q, s)' = ThreadOf(q, s)
    BY <1>5, <1>9, InsertFacts
  <2>4. \A q : Unread(q)' = Unread(q)
    BY <1>2, <1>5, <1>9, OutboundIsRead
  <2>5. SentIsListed'
    <3>1. \A q : RowsOf(q) # {} => RowsOf(q)' # {}
      BY <2>3
    <3> QED
      BY <1>1, <1>3, <1>4, <1>p, <2>1, <2>3, <3>1
         DEF AnswerKeepsWaiting, PaneTruth, SentIsListed, ListsSent
  <2>6. ListComes'
    BY <1>1, <1>4, <1>9, <2>1 DEF AnswerKeepsWaiting, ListComes
  <2>7. EmptyIsShown'
    <3>1. RowsOf(active)' = {} => RowsOf(active) = {}
      BY <2>2, <2>3
    <3> QED
      BY <1>3, <2>1, <2>2, <3>1 DEF AnswerKeepsWaiting, PaneTruth, EmptyIsShown, LastThreadIs
  <2>8. ThreadTells'
    <3>1. CASE p = active
      <4>1. ThreadComes'
        BY <1>1, <1>4, <1>9, <1>p, <2>1, <2>2, <3>1 DEF AnswerKeepsWaiting, ThreadComes
      <4> QED BY <4>1 DEF ThreadTells
    <3>2. CASE p # active
      <4>1. ThreadOf(active, search)' = ThreadOf(active, search)
        BY <2>2, <2>3, <3>2
      <4> QED
        BY <1>3, <2>1, <2>2, <4>1 DEF AnswerKeepsWaiting, PaneTruth, ThreadTells, LastThreadIs
    <3> QED BY <3>1, <3>2
  <2>9. ActiveIsRead'
    BY <1>1, <1>3, <2>1, <2>2, <2>4 DEF AnswerKeepsWaiting, PaneTruth, ActiveIsRead
  <2> QED BY <1>7, <2>5, <2>6, <2>7, <2>8, <2>9 DEF PaneTruth, ListTells, MarkTells
<1> QED
  BY <1>8, <1>9

LEMMA ServeClearTruth ==
    ASSUME ConversationInvariant, NEW k \in DOMAIN calls, NEW ok \in BOOLEAN, ServeClear(k, ok),
           Undisturbed'
    PROVE  PaneTruth'
<1> DEFINE c == calls[k]
           a == [call |-> c, ok |-> ok, found |-> {}]
<1>1. TypesOK /\ c \in Asked /\ IsRequest(c) /\ c.op = "clear" /\ c.peer \in Peers
  BY DEF ConversationInvariant, TypesOK, TrafficOK, Asked, Elements, ServeClear, IsRequest
<1>p. PICK p \in Peers : p = c.peer
  BY <1>1
<1>2. ServeCall(k, ok, {}) /\ UNCHANGED <<outdated, failures>>
  BY DEF ServeClear
<1>3. PaneTruth
  BY <1>1, <1>2, ServedQuietly DEF ConversationInvariant, Undisturbed
<1>4. Answered(c, a) /\ a.call = c /\ a.ok = ok
  BY <1>1, <1>2, <1>3, AnsweredInOrder DEF PaneTruth
<1>5. ok => rows' = rows \ RowsOf(p) /\ readUpTo' = [readUpTo EXCEPT ![p] = 0]
  BY <1>p DEF ServeClear
<1>6. ~ok => SameRows /\ SameUnread
  BY ServerRests DEF ServeClear
<1> HIDE DEF a, c
<1>7. NoneFailed' /\ OneTurns' /\ ThreadsAreActive' /\ HeaderIsActive'
  BY <1>3, <1>4, ServedTruth
<1>8. CASE ~ok
  BY <1>1, <1>2, <1>3, <1>4, <1>6, <1>7, <1>8, RestingTruth DEF PaneTruth
<1>9. CASE ok
  <2>1. AnswerKeepsWaiting(c, a)
    BY <1>1, <1>4, AnsweredKeeps
  <2>2. /\ active' = active /\ search' = search /\ thread' = thread /\ unseen' = unseen
    BY <1>4 DEF Answered, pane
  <2>3. /\ RowsOf(p)' = {} /\ \A q \in Peers : q # p => Unread(q)' = Unread(q)
    BY <1>5, <1>9, <1>1, ClearFacts DEF TypesOK
  <2>4. TurnsAlone /\ Turns(c)
    BY <1>1, <1>3, OneTurnsAlone DEF PaneTruth, Turns
  <2>5. SentIsListed'
    <3>1. \A d \in Asked' : ~ListsSent(d)
      BY <1>1, <2>1, <2>4 DEF AnswerKeepsWaiting, TurnsAlone, Turns, ListsSent
    <3>2. \A b \in Given' : b.call.op # "send" /\ ~ListsSent(b.call)
      BY <1>1, <1>4, <2>1, <2>4 DEF AnswerKeepsWaiting, TurnsAlone, Turns, ListsSent
    <3> QED BY <3>1, <3>2 DEF SentIsListed
  <2>6. ListComes' /\ Cleared' /\ ThreadComes'
    BY <1>1, <1>4, <1>9, <2>1 DEF AnswerKeepsWaiting, ListComes, Cleared, ThreadComes
  <2>7. ActiveIsRead'
    <3> SUFFICES ASSUME active # NoPeer, active \notin unseen, ~MarkComes' PROVE Unread(active)' = 0
      BY <2>2 DEF ActiveIsRead
    <3>1. active \in Peers
      BY <1>1 DEF TypesOK, ConversationTypeOK
    <3>2. CASE active # p
      BY <1>1, <1>3, <2>1, <2>2, <2>3, <3>1, <3>2 DEF AnswerKeepsWaiting, PaneTruth, ActiveIsRead
    <3>3. CASE active = p
      <4>1. {m \in RowsOf(p)' : m.inbound /\ m.id > readUpTo'[p]} = {}
        BY <2>3
      <4>2. Unread(p)' = 0
        BY <4>1, FS_EmptySet DEF Unread
      <4> QED BY <2>2, <3>3, <4>2
    <3> QED BY <3>2, <3>3
  <2> QED
    BY <1>7, <2>5, <2>6, <2>7 DEF PaneTruth, ListTells, MarkTells, EmptyIsShown, ThreadTells
<1> QED
  BY <1>8, <1>9

LEMMA ServePutTruth ==
    ASSUME ConversationInvariant, NEW k \in DOMAIN calls, NEW ok \in BOOLEAN, ServePut(k, ok),
           Undisturbed'
    PROVE  PaneTruth'
<1> DEFINE c == calls[k]
<1>1. TypesOK /\ c.op = "put" /\ Overtakes(FirstOfKind(Ops(calls), k)) /\ Fails(ok)
  BY DEF ConversationInvariant, ServePut
<1>2. FirstOfKind(Ops(calls), k) /\ overtakings = 0
  <2>1. FirstOfKind(Ops(calls), k) \in BOOLEAN
    BY DEF FirstOfKind
  <2> HIDE DEF FirstOfKind
  <2> QED BY <1>1, <2>1, InOrder DEF Undisturbed
<1>3. PaneTruth
  BY <1>1, <1>2, NoFailure DEF ConversationInvariant, Undisturbed
<1>4. /\ Asked' \subseteq Asked /\ Asked \subseteq Asked' \cup {c}
      /\ NewestAsked' \subseteq NewestAsked
      /\ AtMostOne(TurnCalls') /\ (TurnCalls = {} => TurnCalls' = {})
  BY <1>1, <1>2, <1>3, CallRemoved DEF ServePut, TypesOK, PaneTruth, OneTurns
<1>5. /\ Given' = Given /\ NewestGiven' = NewestGiven /\ TurnAnswers' = TurnAnswers
  BY DEF ServePut, Given, NewestGiven, AnswerOps, TurnAnswers
<1>6. /\ UNCHANGED <<active, thread, header, list, search, visible, bodyTag, events, unseen, outdated>>
      /\ SameRows /\ SameUnread
  BY ServerRests DEF ServePut, pane, composing, recorded
<1> HIDE DEF c
<1>7. NoneFailed' /\ OneTurns' /\ SentIsListed'
  BY <1>3, <1>4, <1>5, <1>6 DEF PaneTruth, NoneFailed, OneTurns, SentIsListed, SameRows
<1>8. (ListComes => ListComes') /\ (NoList' <=> NoList) /\ (Cleared' <=> Cleared)
  BY <1>1, <1>4, <1>5, <1>6 DEF ListComes, NoList, Cleared, BringsList
<1>9. ListTells'
  <2>1. \A p : WillBeZero(p) => WillBeZero(p)'
    BY <1>1, <1>4, <1>5 DEF WillBeZero, Opening
  <2> QED BY <1>3, <1>5, <1>6, <1>8, <2>1 DEF PaneTruth, ListTells, SameUnread
<1>10. MarkTells'
  BY <1>1, <1>3, <1>4, <1>5, <1>6, <1>8, MarksWait DEF PaneTruth
<1>11. ThreadsAreActive' /\ HeaderIsActive'
  BY <1>1, <1>3, <1>4, <1>5, <1>6 DEF PaneTruth, ThreadsAreActive, HeaderIsActive, Opens
<1>12. NoThreadAsked' <=> NoThreadAsked
  BY <1>1, <1>4 DEF NoThreadAsked
<1>13. EmptyIsShown'
  BY <1>3, <1>5, <1>6, <1>8, <1>12 DEF PaneTruth, EmptyIsShown, LastThreadIs, SameRows
<1>14. EventComes => EventComes'
  BY <1>1, <1>4, <1>5, <1>6 DEF EventComes
<1>15. ThreadTells'
  <2>1. ThreadComes => ThreadComes'
    BY <1>1, <1>4, <1>5, <1>6, <1>8, <1>12, <1>14 DEF ThreadComes, ListsSent
  <2> QED BY <1>3, <1>5, <1>6, <2>1 DEF PaneTruth, ThreadTells, LastThreadIs, SameRows
<1>16. ActiveIsRead'
  <2>1. MarkComes => MarkComes'
    BY <1>1, <1>4, <1>5, <1>6, <1>14 DEF MarkComes, Marks
  <2> QED BY <1>3, <1>6, <2>1 DEF PaneTruth, ActiveIsRead, SameUnread
<1> QED
  BY <1>7, <1>9, <1>10, <1>11, <1>13, <1>15, <1>16 DEF PaneTruth

-----------------------------------------------------------------------------
(* Truth: requests are sent                                                *)

ThreadRests == UNCHANGED <<active, thread, header, list, search, bodyTag, recorded, rows, readUpTo>>

\* What is under way stays so when more is asked.
LEMMA SentKeeps ==
    ASSUME TypesOK, NEW R, Sent(R), UNCHANGED <<active, visible>>, events' = events \/ EventComes'
    PROVE  /\ (EventComes => EventComes') /\ (MarkComes => MarkComes')
           /\ (Cleared' <=> Cleared) /\ (NoList' <=> NoList) /\ (NoThreadAsked' => NoThreadAsked)
           /\ (ThreadComes => ThreadComes') /\ (events' = events => (ListComes => ListComes'))
           /\ \A p : WillBeZero(p) => WillBeZero(p)'
<1>1. Given' = Given /\ Asked' = Asked \cup R
  BY DEF Sent
<1>2. EventComes => EventComes'
  BY <1>1 DEF EventComes
<1>3. /\ (Cleared' <=> Cleared) /\ (NoList' <=> NoList) /\ (NoThreadAsked' => NoThreadAsked)
  BY <1>1 DEF Cleared, NoList, NoThreadAsked
<1>4. MarkComes => MarkComes'
  BY <1>1, <1>2 DEF MarkComes
<1>5. ThreadComes => ThreadComes'
  BY <1>1, <1>2, <1>3 DEF ThreadComes
<1>6. events' = events => (ListComes => ListComes')
  BY <1>1 DEF ListComes
<1>7. \A p : WillBeZero(p) => WillBeZero(p)'
  BY <1>1 DEF WillBeZero
<1> QED
  BY <1>2, <1>3, <1>4, <1>5, <1>6, <1>7

\* A message, a clearing or a draft is sent.
LEMMA SentTruth ==
    ASSUME TypesOK, PaneTruth, NEW R, Sent(R), OneTurns',
           \A r \in R : r.op \in {"send", "clear", "put"},
           ThreadRests, UNCHANGED <<visible, events>>
    PROVE  PaneTruth'
<1>1. /\ Given' = Given /\ NewestGiven' = NewestGiven /\ Asked' = Asked \cup R
      /\ \A c \in NewestAsked' : c \in R \/ c \in NewestAsked
  BY DEF Sent
<1>2. /\ UNCHANGED <<active, thread, header, list, search, visible, bodyTag, events, unseen, outdated>>
      /\ SameRows /\ SameUnread
  BY ServerRests DEF ThreadRests, recorded
<1>3. /\ (MarkComes => MarkComes') /\ (ThreadComes => ThreadComes') /\ (ListComes => ListComes')
      /\ (Cleared' <=> Cleared) /\ (NoList' <=> NoList) /\ (NoThreadAsked' => NoThreadAsked)
      /\ \A p : WillBeZero(p) => WillBeZero(p)'
  BY <1>2, SentKeeps
<1>4. NoneFailed' /\ SentIsListed'
  BY <1>1, <1>2 DEF PaneTruth, NoneFailed, SentIsListed, SameRows, ListsSent
<1>5. ListTells'
  BY <1>1, <1>2, <1>3 DEF PaneTruth, ListTells, SameUnread
<1>6. MarkTells'
  BY <1>1, <1>2, <1>3 DEF PaneTruth, MarkTells, SameUnread, Opening
<1>7. ThreadsAreActive' /\ HeaderIsActive'
  BY <1>1, <1>2 DEF PaneTruth, ThreadsAreActive, HeaderIsActive, Opens
<1>8. EmptyIsShown'
  BY <1>1, <1>2, <1>3 DEF PaneTruth, EmptyIsShown, LastThreadIs, SameRows
<1>9. ThreadTells'
  BY <1>1, <1>2, <1>3 DEF PaneTruth, ThreadTells, LastThreadIs, SameRows
<1>10. ActiveIsRead'
  BY <1>2, <1>3 DEF PaneTruth, ActiveIsRead, SameUnread
<1> QED
  BY <1>4, <1>5, <1>6, <1>7, <1>8, <1>9, <1>10 DEF PaneTruth

LEMMA SaveFiresTruth ==
    ASSUME ConversationInvariant, NEW p \in Peers, SaveFires(p), Undisturbed' PROVE PaneTruth'
<1> DEFINE r == TextCall("put", p, "nothing", saving[p])
<1>1. TypesOK /\ PaneTruth
  BY DEF ConversationInvariant, Undisturbed, SaveFires, faults
<1>2. r.op = "put"
  BY DEF TextCall, Call
<1>3. Ask(<<r>>) /\ UNCHANGED answers
  BY DEF SaveFires
<1> HIDE DEF r
<1>4. IsQueue(<<r>>) /\ Elements(<<r>>) = {r}
  BY FewElements
<1>5. Sent({r}) /\ OneTurns'
  BY <1>1, <1>2, <1>3, <1>4, SentFacts
     DEF TypesOK, PaneTruth, TurnsAfter, Turns, ListsSent, Opens
<1>6. ThreadRests /\ UNCHANGED <<visible, events>>
  BY DEF SaveFires, ThreadRests, pane, database
<1> QED
  BY <1>1, <1>2, <1>5, <1>6, SentTruth

LEMMA EventArrivesTruth == ASSUME ConversationInvariant, EventArrives, Undisturbed' PROVE PaneTruth'
<1> DEFINE r == ListCall("event")
<1>1. TypesOK /\ PaneTruth
  BY DEF ConversationInvariant, Undisturbed, EventArrives, faults
<1>2. r.op = "list" /\ r.next = "event"
  BY ListCallFacts
<1>3. Ask(<<r>>) /\ UNCHANGED answers
  BY DEF EventArrives
<1> HIDE DEF r
<1>4. IsQueue(<<r>>) /\ Elements(<<r>>) = {r}
  BY FewElements
<1>5. Sent({r}) /\ OneTurns'
  BY <1>1, <1>2, <1>3, <1>4, SentFacts
     DEF TypesOK, PaneTruth, TurnsAfter, Turns, ListsSent, Opens
<1>6. /\ Given' = Given /\ NewestGiven' = NewestGiven /\ Asked' = Asked \cup {r}
      /\ \A c \in NewestAsked' : c = r \/ c \in NewestAsked
  BY <1>5 DEF Sent
<1>7. /\ UNCHANGED <<active, thread, header, search, visible, bodyTag>> /\ SameRows
  BY ServerRests DEF EventArrives, pane, composing, database
<1>8. ListComes' /\ EventComes' /\ ThreadComes' /\ MarkComes'
  BY <1>2, <1>6 DEF ListComes, EventComes, ThreadComes, MarkComes
<1>9. NoneFailed' /\ SentIsListed'
  BY <1>1, <1>2, <1>6, <1>7 DEF PaneTruth, NoneFailed, SentIsListed, SameRows, ListsSent
<1>10. ThreadsAreActive' /\ HeaderIsActive'
  BY <1>1, <1>2, <1>6, <1>7 DEF PaneTruth, ThreadsAreActive, HeaderIsActive, Opens
<1>11. EmptyIsShown'
  BY <1>1, <1>6, <1>7 DEF PaneTruth, EmptyIsShown, LastThreadIs, SameRows, NoThreadAsked, Cleared
<1> QED
  BY <1>5, <1>8, <1>9, <1>10, <1>11
     DEF PaneTruth, ListTells, MarkTells, ThreadTells, ActiveIsRead

\* Nothing moves but what the page does not compare.
LEMMA IdleTruth ==
    ASSUME TypesOK, PaneTruth, UNCHANGED <<calls, answers, events>>, ThreadRests,
           visible' = visible \/ Given = {}
    PROVE  PaneTruth'
<1>1. /\ Asked' = Asked /\ Given' = Given
      /\ NewestAsked' = NewestAsked /\ NewestGiven' = NewestGiven
      /\ TurnCalls' = TurnCalls /\ TurnAnswers' = TurnAnswers
  BY TrafficRests DEF TypesOK
<1>2. /\ UNCHANGED <<active, thread, header, list, search, bodyTag, events, unseen, outdated>>
      /\ SameRows /\ SameUnread
  BY ServerRests DEF ThreadRests, recorded
<1>3. EventComes => EventComes'
  BY <1>1, <1>2 DEF EventComes
<1>4. NoneFailed' /\ OneTurns' /\ SentIsListed'
  BY <1>1, <1>2 DEF PaneTruth, NoneFailed, OneTurns, SentIsListed, SameRows
<1>5. ListTells' /\ MarkTells'
  BY <1>1, <1>2 DEF PaneTruth, ListTells, MarkTells, ListComes, NoList, WillBeZero, SameUnread
<1>6. ThreadsAreActive' /\ HeaderIsActive'
  BY <1>1, <1>2 DEF PaneTruth, ThreadsAreActive, HeaderIsActive
<1>7. EmptyIsShown'
  BY <1>1, <1>2 DEF PaneTruth, EmptyIsShown, LastThreadIs, SameRows, NoThreadAsked, Cleared
<1>8. ThreadTells'
  <2>1. ThreadComes => ThreadComes'
    BY <1>1, <1>2, <1>3 DEF ThreadComes, NoThreadAsked, Cleared
  <2> QED BY <1>1, <1>2, <2>1 DEF PaneTruth, ThreadTells, LastThreadIs, SameRows
<1>9. ActiveIsRead'
  <2>1. MarkComes => MarkComes'
    BY <1>1, <1>2, <1>3 DEF MarkComes
  <2> QED BY <1>2, <2>1 DEF PaneTruth, ActiveIsRead, SameUnread
<1> QED
  BY <1>4, <1>5, <1>6, <1>7, <1>8, <1>9 DEF PaneTruth

LEMMA SearchFiresTruth == ASSUME ConversationInvariant, SearchFires, Undisturbed' PROVE PaneTruth'
<1> DEFINE r == ThreadCall(active, "search", field)
<1>1. TypesOK /\ PaneTruth
  BY DEF ConversationInvariant, Undisturbed, SearchFires, faults
<1>2. CASE active = NoPeer
  BY <1>1, <1>2, IdleTruth DEF SearchFires, ThreadRests, composing, database
<1>3. CASE active # NoPeer
  <2>1. active \in Peers /\ field \in BOOLEAN
    BY <1>1, <1>3 DEF TypesOK, ConversationTypeOK
  <2>2. r.op = "thread" /\ r.next = "search" /\ r.peer = active /\ r.search = field
    BY <2>1, ThreadCallFacts
  <2>3. Ask(<<r>>) /\ UNCHANGED answers /\ search' = field
    BY <1>3 DEF SearchFires
  <2> HIDE DEF r
  <2>4. IsQueue(<<r>>) /\ Elements(<<r>>) = {r}
    BY FewElements
  <2>5. Sent({r}) /\ OneTurns'
    BY <1>1, <2>2, <2>3, <2>4, SentFacts
       DEF TypesOK, PaneTruth, TurnsAfter, Turns, ListsSent, Opens
  <2>6. /\ Given' = Given /\ NewestGiven' = NewestGiven /\ Asked' = Asked \cup {r}
        /\ \A c \in NewestAsked' : c = r \/ (c \in NewestAsked /\ c.op # r.op)
    BY <2>5 DEF Sent
  <2>7. /\ UNCHANGED <<active, thread, header, list, visible, bodyTag, events, unseen, outdated>>
        /\ SameRows /\ SameUnread
    BY ServerRests DEF SearchFires, composing, database, recorded
  <2>8. /\ (MarkComes => MarkComes') /\ (ListComes => ListComes') /\ (NoList' <=> NoList)
        /\ \A p : WillBeZero(p) => WillBeZero(p)'
    BY <1>1, <2>5, <2>7, SentKeeps
  <2>9. NoneFailed' /\ SentIsListed'
    BY <1>1, <2>2, <2>6, <2>7 DEF PaneTruth, NoneFailed, SentIsListed, SameRows, ListsSent
  <2>10. ListTells'
    BY <1>1, <2>6, <2>7, <2>8 DEF PaneTruth, ListTells, SameUnread
  <2>11. MarkTells'
    BY <1>1, <2>2, <2>6, <2>7, <2>8 DEF PaneTruth, MarkTells, SameUnread, Opening
  <2>12. ThreadsAreActive' /\ HeaderIsActive'
    BY <1>1, <2>2, <2>3, <2>6, <2>7 DEF PaneTruth, ThreadsAreActive, HeaderIsActive, Opens
  <2>13. ~NoThreadAsked' /\ ThreadComes'
    BY <2>2, <2>6 DEF NoThreadAsked, ThreadComes
  <2>14. ActiveIsRead'
    BY <1>1, <2>7, <2>8 DEF PaneTruth, ActiveIsRead, SameUnread
  <2> QED
    BY <2>5, <2>9, <2>10, <2>11, <2>12, <2>13, <2>14 DEF PaneTruth, EmptyIsShown, ThreadTells
<1> QED
  BY <1>2, <1>3

-----------------------------------------------------------------------------
(* Truth: the user, who waited                                             *)

\* All that is under way are drafts to be saved.
AtRest ==
    /\ Given = {} /\ TurnCalls = {} /\ TurnAnswers = {} /\ events = 0
    /\ \A c \in Asked : c.op = "put"
    /\ NoList /\ NoThreadAsked /\ ~ListComes /\ ~Cleared /\ ~EventComes /\ ~ThreadComes /\ ~MarkComes
    /\ \A p : ~WillBeZero(p)

LEMMA QuietRests == Quiet => AtRest
<1> SUFFICES ASSUME Quiet PROVE AtRest
  OBVIOUS
<1>1. \A c \in Asked : c.op = "put"
  BY DEF Quiet, Asked, Elements, Range
<1>2. Given = {} /\ events = 0
  BY FewElements DEF Quiet, Given
<1>3. TurnCalls = {}
  BY <1>1 DEF TurnCalls, TurnsOf, Turns, ListsSent, Opens, Asked, Elements
<1>4. TurnAnswers = {}
  BY <1>2 DEF TurnAnswers, AnswerTurns, Given, Elements
<1>5. ~(events > 0)
  BY <1>2
<1>6. NoList /\ NoThreadAsked /\ ~ListComes /\ ~Cleared /\ ~EventComes
  BY <1>1, <1>2, <1>5 DEF NoList, NoThreadAsked, ListComes, BringsList, Cleared, EventComes
<1>7. ~ThreadComes
  BY <1>1, <1>2, <1>6 DEF ThreadComes, ListsSent
<1>8. ~MarkComes
  BY <1>1, <1>2, <1>6 DEF MarkComes, Marks
<1>9. \A p : ~WillBeZero(p)
  BY <1>1, <1>2 DEF WillBeZero, Opening
<1> QED
  BY <1>1, <1>2, <1>3, <1>4, <1>6, <1>7, <1>8, <1>9 DEF AtRest

\* A user who waits acts when nothing but drafts is under way.
LEMMA DeedFacts ==
    ASSUME ConversationInvariant, Deed, Undisturbed'
    PROVE  /\ TypesOK /\ PaneTruth /\ AtRest
           /\ UNCHANGED <<answers, events, rows, readUpTo>>
  BY QuietRests DEF ConversationInvariant, Undisturbed, Deed, faults, database

LEMMA OpenTruth ==
    ASSUME ConversationInvariant, NEW p \in Peers, NEW linked, OpenConversation(p, linked), Undisturbed'
    PROVE  PaneTruth'
<1> DEFINE r == ThreadCall(p, "open", FALSE)
<1>1. TypesOK /\ PaneTruth /\ AtRest /\ UNCHANGED <<answers, events, rows, readUpTo>>
  BY DeedFacts DEF OpenConversation
<1>2. r.op = "thread" /\ r.next = "open" /\ r.peer = p /\ r.search = FALSE
  BY DEF ThreadCall, Call
<1>3. Ask(<<r>>) /\ UNCHANGED answers
  BY <1>1 DEF OpenConversation
<1> HIDE DEF r
<1>4. IsQueue(<<r>>) /\ Elements(<<r>>) = {r} /\ DOMAIN <<r>> = {1}
  BY FewElements
<1>5. AtMostOne(TurnsOf(<<r>>))
  BY <1>4 DEF AtMostOne, TurnsOf
<1>6. Sent({r}) /\ OneTurns'
  BY <1>1, <1>3, <1>4, <1>5, SentFacts DEF TypesOK, PaneTruth, TurnsAfter, AtRest
<1>7. /\ Given' = {} /\ NewestGiven' = {} /\ Asked' = Asked \cup {r}
      /\ \A c \in NewestAsked' : c = r \/ c.op # r.op
  BY <1>1, <1>6 DEF Sent, AtRest, NewestGiven, Newest, Given, Elements
<1>8. /\ active' = p /\ search' = FALSE /\ outdated' = outdated
      /\ DOMAIN list' = DOMAIN list \cup {p}
      /\ \A q \in DOMAIN list' : IF q \in DOMAIN list THEN list'[q] = list[q]
                                 ELSE q = p /\ list'[q] = 0
  BY DEF OpenConversation, Open
<1>9. SameRows /\ SameUnread
  BY <1>1, ServerRests
<1>10. \A c \in Asked : c.op = "put"
  BY <1>1 DEF AtRest
<1>11. NoneFailed' /\ SentIsListed' /\ MarkTells'
  BY <1>2, <1>7, <1>10 DEF NoneFailed, SentIsListed, MarkTells, ListsSent, Opening
<1>12. ListTells'
  <2>1. /\ DOMAIN Listing \subseteq DOMAIN list
        /\ \A q \in DOMAIN list : list[q] = Unread(q) \/ q \in outdated
    BY <1>1 DEF PaneTruth, ListTells, AtRest
  <2>2. \A q : q \notin DOMAIN list => Unread(q) = 0
    BY <2>1, RowsArePeers
  <2> QED BY <1>7, <1>8, <1>9, <2>1, <2>2 DEF ListTells, SameUnread
<1>13. ThreadsAreActive' /\ HeaderIsActive'
  BY <1>2, <1>7, <1>8, <1>10 DEF ThreadsAreActive, HeaderIsActive, Opens
<1>14. ~NoThreadAsked' /\ ThreadComes' /\ MarkComes'
  BY <1>2, <1>7, <1>8 DEF NoThreadAsked, ThreadComes, MarkComes, Marks
<1> QED
  BY <1>6, <1>11, <1>12, <1>13, <1>14
     DEF PaneTruth, EmptyIsShown, ThreadTells, ActiveIsRead

\* A message is to be sent, or a conversation cleared.
LEMMA TurningTruth ==
    ASSUME TypesOK, PaneTruth, AtRest, NEW r, r.op \in {"send", "clear"}, Ask(<<r>>),
           UNCHANGED <<answers, visible, events>>, ThreadRests
    PROVE  PaneTruth'
<1>1. IsQueue(<<r>>) /\ Elements(<<r>>) = {r} /\ DOMAIN <<r>> = {1}
  BY FewElements
<1>2. AtMostOne(TurnsOf(<<r>>))
  BY <1>1 DEF AtMostOne, TurnsOf
<1>3. Sent({r}) /\ OneTurns'
  BY <1>1, <1>2, SentFacts DEF TypesOK, PaneTruth, TurnsAfter, AtRest
<1> QED
  BY <1>3, SentTruth

LEMMA SubmitTruth == ASSUME ConversationInvariant, SubmitReply, Undisturbed' PROVE PaneTruth'
<1> DEFINE r == TextCall("send", active, "reply", body)
<1>1. TypesOK /\ PaneTruth /\ AtRest /\ UNCHANGED <<answers, events, rows, readUpTo>>
  BY DeedFacts DEF SubmitReply
<1>2. r.op = "send" /\ Ask(<<r>>)
  BY DEF SubmitReply, TextCall, Call
<1> HIDE DEF r
<1>3. ThreadRests /\ UNCHANGED visible
  BY <1>1 DEF SubmitReply, ThreadRests, pane
<1> QED
  BY <1>1, <1>2, <1>3, TurningTruth

LEMMA ComposeTruth ==
    ASSUME ConversationInvariant, NEW p \in Peers, Compose(p), Undisturbed' PROVE PaneTruth'
<1> DEFINE r == TextCall("send", p, "compose", {p})
<1>1. TypesOK /\ PaneTruth /\ AtRest /\ UNCHANGED <<answers, events, rows, readUpTo>>
  BY DeedFacts DEF Compose
<1>2. r.op = "send" /\ Ask(<<r>>)
  BY DEF Compose, TextCall, Call
<1> HIDE DEF r
<1>3. ThreadRests /\ UNCHANGED visible
  BY <1>1 DEF Compose, ThreadRests, pane, composing
<1> QED
  BY <1>1, <1>2, <1>3, TurningTruth

LEMMA ClearHistoryTruth == ASSUME ConversationInvariant, ClearHistory, Undisturbed' PROVE PaneTruth'
<1> DEFINE r == Call("clear", active, "nothing")
<1>1. TypesOK /\ PaneTruth /\ AtRest /\ UNCHANGED <<answers, events, rows, readUpTo>>
  BY DeedFacts DEF ClearHistory
<1>2. r.op = "clear" /\ Ask(<<r>>)
  BY DEF ClearHistory, Call
<1> HIDE DEF r
<1>3. ThreadRests /\ UNCHANGED visible
  BY <1>1 DEF ClearHistory, ThreadRests, pane, composing
<1> QED
  BY <1>1, <1>2, <1>3, TurningTruth

LEMMA OtherDeedsTruth ==
    ASSUME ConversationInvariant, Undisturbed',
           \/ Turn \/ \E wanted \in BOOLEAN : Search(wanted)
           \/ \E text \in SUBSET Peers : TypeReply(text)
    PROVE  PaneTruth'
<1>1. Deed /\ UNCHANGED <<active, thread, header, list, search, bodyTag, recorded, calls>>
  BY DEF Turn, Search, TypeReply, pane, composing
<1>2. TypesOK /\ PaneTruth /\ AtRest /\ UNCHANGED <<answers, events, rows, readUpTo>>
  BY <1>1, DeedFacts
<1> QED
  BY <1>1, <1>2, IdleTruth DEF ThreadRests, AtRest

LEMMA InitTruth == ConversationInit => PaneTruth
<1> SUFFICES ASSUME ConversationInit PROVE PaneTruth
  OBVIOUS
<1> DEFINE r == ListCall("nothing")
<1>1. r.op = "list" /\ r.next = "nothing"
  BY ListCallFacts
<1>2. calls = <<r>> /\ answers = <<>> /\ active = NoPeer
  BY DEF ConversationInit
<1> HIDE DEF r
<1>3. Asked = {r} /\ Given = {} /\ DOMAIN calls = {1}
  BY <1>2, FewElements DEF Asked, Given
<1>4. DOMAIN answers = {}
  BY <1>3 DEF Given, Elements
<1>5. OneTurns
  BY <1>3, <1>4 DEF OneTurns, TurnCalls, TurnsOf, TurnAnswers, AnswerTurns, AtMostOne
<1>6. ListComes
  BY <1>1, <1>3 DEF ListComes
<1>7. NoneFailed /\ SentIsListed
  BY <1>1, <1>3 DEF NoneFailed, SentIsListed, ListsSent
<1> QED
  BY <1>2, <1>5, <1>6, <1>7
     DEF PaneTruth, ListTells, MarkTells, ThreadsAreActive, HeaderIsActive, EmptyIsShown,
         ThreadTells, ActiveIsRead

-----------------------------------------------------------------------------
(* Truth: answers arrive                                                   *)

\* The answer a arrives in order, and the requests of R are sent.
Handled(a, R) ==
    /\ Taken(a, R) /\ TakenInOrder(a, R) /\ OneTurns' /\ IsAnswer(a)
    /\ UNCHANGED <<visible, events, rows, readUpTo>>

\* In an undisturbed run an answer is handled in order.
LEMMA TakeInOrder ==
    ASSUME ConversationInvariant, NEW k \in DOMAIN answers, NEW reqs, IsQueue(reqs), Take(k, reqs),
           TurnsAfter(Turns(answers[k].call), reqs), Undisturbed'
    PROVE  TypesOK /\ PaneTruth /\ Handled(answers[k], Elements(reqs))
<1>1. TypesOK
  BY DEF ConversationInvariant
<1>2. FirstOfKind(AnswerOps, k) /\ overtakings = 0
  <2>1. Overtakes(FirstOfKind(AnswerOps, k)) /\ overtakings' = 0
    BY DEF Take, OvertakesAnswers, AnswerOps, AnswerKinds, Undisturbed
  <2>2. FirstOfKind(AnswerOps, k) \in BOOLEAN
    BY DEF FirstOfKind
  <2> HIDE DEF FirstOfKind
  <2> QED BY <1>1, <2>1, <2>2, InOrder
<1>3. PaneTruth
  BY <1>2 DEF ConversationInvariant, Undisturbed, Take
<1>4. /\ Taken(answers[k], Elements(reqs)) /\ TakenInOrder(answers[k], Elements(reqs)) /\ OneTurns'
  BY <1>1, <1>2, <1>3, TakeFacts DEF TypesOK, PaneTruth, Take
<1>5. IsAnswer(answers[k])
  BY <1>1, <1>4 DEF TypesOK, TrafficOK, Taken
<1> QED
  BY <1>1, <1>3, <1>4, <1>5 DEF Handled, Take, database

\* What remains under way when an answer other than a list arrives.
LEMMA HandledKeeps ==
    ASSUME NoneFailed, NEW a, NEW R, Handled(a, R), UNCHANGED active, a.call.op # "list",
           \A r \in R : r.op \in {"list", "read", "draft"}
    PROVE  /\ NoneFailed' /\ (NoList' <=> NoList) /\ (NoThreadAsked' <=> NoThreadAsked)
           /\ (Cleared' => Cleared)
           /\ Cleared => Cleared' \/ (a.call.op = "clear" /\ a.ok)
           /\ ListComes => \/ ListComes' \/ BringsList(a.call)
                           \/ (a.call.op \in {"send", "clear"} /\ a.ok)
           /\ ThreadComes => \/ ThreadComes' \/ (a.call.op = "clear" /\ a.ok)
                             \/ (a.call.op = "send" /\ a.ok /\ a.call.peer = active)
           /\ MarkComes => \/ MarkComes'
                           \/ (a.call.op = "thread" /\ Marks(a.call) /\ a.call.peer = active)
           /\ \A p : WillBeZero(p) => WillBeZero(p)' \/ (Opening(a.call) /\ a.call.peer = p)
<1>1. /\ a \in Given /\ Given' \subseteq Given /\ Given \subseteq Given' \cup {a}
      /\ Asked' = Asked \cup R /\ events' = events /\ visible' = visible
  BY DEF Handled, Taken
<1>2. NoneFailed' /\ (NoList' <=> NoList) /\ (NoThreadAsked' <=> NoThreadAsked)
  BY <1>1 DEF NoneFailed, NoList, NoThreadAsked
<1>3. (Cleared' => Cleared) /\ (Cleared => Cleared' \/ (a.call.op = "clear" /\ a.ok))
  BY <1>1 DEF Cleared
<1>4. EventComes => EventComes'
  BY <1>1 DEF EventComes
<1>5. ListComes => \/ ListComes' \/ BringsList(a.call)
                   \/ (a.call.op \in {"send", "clear"} /\ a.ok)
  BY <1>1 DEF ListComes
<1>6. ThreadComes => \/ ThreadComes' \/ (a.call.op = "clear" /\ a.ok)
                     \/ (a.call.op = "send" /\ a.ok /\ a.call.peer = active)
  BY <1>1, <1>2, <1>3, <1>4 DEF ThreadComes, ListsSent
<1>7. MarkComes => \/ MarkComes'
                   \/ (a.call.op = "thread" /\ Marks(a.call) /\ a.call.peer = active)
  BY <1>1, <1>4 DEF MarkComes
<1>8. \A p : WillBeZero(p) => WillBeZero(p)' \/ (Opening(a.call) /\ a.call.peer = p)
  BY <1>1 DEF WillBeZero
<1> QED
  BY <1>2, <1>3, <1>5, <1>6, <1>7, <1>8

\* The last thread stays so when one arrives or another answer does.
LEMMA ThreadIsKept ==
    ASSUME NEW a, NEW R, Handled(a, R), thread' = IF a.call.op = "thread" THEN a.found ELSE thread,
           NEW messages, LastThreadIs(messages)
    PROVE  LastThreadIs(messages)'
<1>1. /\ Given \subseteq Given' \cup {a} /\ NewestGiven' \subseteq NewestGiven
      /\ (\A b \in Given' : b.call.op # a.call.op) => a \in NewestGiven
  BY DEF Handled, Taken, TakenInOrder
<1>2. \A b \in NewestGiven' : b.call.op = "thread" => b.found = messages
  BY <1>1 DEF LastThreadIs
<1>3. ASSUME \A b \in Given' : b.call.op # "thread" PROVE thread' = messages
  <2>1. CASE a.call.op = "thread"
    BY <1>1, <1>3, <2>1 DEF LastThreadIs
  <2>2. CASE a.call.op # "thread"
    BY <1>1, <1>3, <2>2 DEF LastThreadIs
  <2> QED BY <2>1, <2>2
<1> QED
  BY <1>2, <1>3 DEF LastThreadIs

\* The thread stays that of the conversation in view.
LEMMA HandledTruth ==
    ASSUME PaneTruth, NEW a, NEW R, Handled(a, R), a.call.op # "list",
           \A r \in R : r.op \in {"list", "read", "draft"},
           UNCHANGED <<active, search, unseen>>, SameRows, SameUnread,
           thread' = IF a.call.op = "thread" THEN a.found ELSE thread,
           Cleared => Cleared', ThreadComes => ThreadComes', MarkComes => MarkComes'
    PROVE  ThreadsAreActive' /\ EmptyIsShown' /\ ThreadTells' /\ ActiveIsRead'
<1>1. /\ Given' \subseteq Given /\ Asked' = Asked \cup R
      /\ \A c \in NewestAsked' : c \in R \/ c \in NewestAsked
  BY DEF Handled, Taken, TakenInOrder
<1>2. NoThreadAsked' <=> NoThreadAsked
  BY HandledKeeps DEF PaneTruth
<1>3. ThreadsAreActive'
  BY <1>1 DEF PaneTruth, ThreadsAreActive, Opens
<1>4. EmptyIsShown'
  <2> SUFFICES ASSUME active # NoPeer, RowsOf(active) = {}, NoThreadAsked, ~Cleared
               PROVE  LastThreadIs({})'
    BY <1>2 DEF EmptyIsShown, SameRows
  <2>1. LastThreadIs({})
    BY DEF PaneTruth, EmptyIsShown
  <2> DEFINE none == {}
  <2>2. none' = none
    OBVIOUS
  <2> HIDE DEF none
  <2>3. PICK messages : messages = {}
    OBVIOUS
  <2>4. LastThreadIs(messages)
    BY <2>1, <2>3
  <2>5. LastThreadIs(messages)'
    BY <2>4, ThreadIsKept
  <2> QED BY <2>3, <2>5
<1>5. ThreadTells'
  <2> SUFFICES ASSUME active # NoPeer, active \notin unseen, ~ThreadComes
               PROVE  LastThreadIs(ThreadOf(active, search))'
    BY DEF ThreadTells
  <2>1. LastThreadIs(ThreadOf(active, search))
    BY DEF PaneTruth, ThreadTells
  <2>2. PICK messages : messages = ThreadOf(active, search)
    OBVIOUS
  <2>3. LastThreadIs(messages)
    BY <2>1, <2>2
  <2>4. LastThreadIs(messages)'
    BY <2>3, ThreadIsKept
  <2>5. ThreadOf(active, search)' = messages
    BY <2>2 DEF SameRows
  <2> QED BY <2>4, <2>5
<1>6. ActiveIsRead'
  BY DEF PaneTruth, ActiveIsRead, SameUnread
<1> QED
  BY <1>3, <1>4, <1>5, <1>6

\* Marks are told as before when an answer is handled.
LEMMA HandledMarks ==
    ASSUME MarkTells, NEW a, NEW R, Handled(a, R), SameUnread,
           ListComes => ListComes', NoList' => NoList,
           \A r \in R : Opening(r) => [r EXCEPT !.op = "read"] \in R
    PROVE  MarkTells'
<1>1. Given' \subseteq Given /\ Asked' = Asked \cup R
  BY DEF Handled, Taken
<1> QED
  BY <1>1 DEF MarkTells, SameUnread

\* The mark of a mark is itself.
LEMMA ReadOfRead ==
    ASSUME NEW d, IsRequest(d), d.op = "read"
    PROVE  [d EXCEPT !.op = "read"] = d
<1> DEFINE e == [d EXCEPT !.op = "read"]
<1>1. d \in Requests
  BY DEF IsRequest
<1>2. /\ e \in Requests /\ e.op = "read" /\ e.peer = d.peer /\ e.next = d.next
      /\ e.search = d.search /\ e.text = d.text /\ e.mine = d.mine
  BY <1>1 DEF Requests
<1> HIDE DEF e
<1>3. e = d
  BY <1>1, <1>2 DEF Requests
<1> QED
  BY <1>3 DEF e

LEMMA ThreadArrivesTruth ==
    ASSUME ConversationInvariant, NEW k \in DOMAIN answers, ThreadArrives(k), Undisturbed'
    PROVE  PaneTruth'
<1> DEFINE a == answers[k]
           opening == a.call.next \in {"open", "reopen"}
<1>0. PICK call : call = a.call
  OBVIOUS
<1>1. TypesOK /\ a \in Given /\ IsAnswer(a) /\ IsRequest(call) /\ call.op = "thread"
      /\ call.peer \in Peers /\ a.ok
  BY <1>0
     DEF ConversationInvariant, TypesOK, TrafficOK, Given, Elements, ThreadArrives, IsAnswer, IsRequest
<1>2. PICK reqs :
         /\ Take(k, reqs) /\ IsQueue(reqs)
         /\ \A r \in Elements(reqs) : r.op \in {"read", "draft"}
         /\ \A r \in Elements(reqs) : Opening(r) => [r EXCEPT !.op = "read"] \in Elements(reqs)
         /\ Marks(call) => \E r \in Elements(reqs) : r.op = "read" /\ r.peer = call.peer
         /\ BringsList(call) => \E r \in Elements(reqs) : BringsList(r)
  <2>1. CASE opening /\ Take(k, <<Call("read", call.peer, call.next),
                                  Call("draft", call.peer, call.next)>>)
    <3>1. PICK r : r = Call("read", call.peer, call.next)
      OBVIOUS
    <3>2. PICK d : d = Call("draft", call.peer, call.next)
      OBVIOUS
    <3>3. /\ r.op = "read" /\ r.peer = call.peer /\ IsRequest(r)
          /\ d.op = "draft" /\ d.peer = call.peer
      BY <1>0, <1>1, <2>1, <3>1, <3>2, CallFacts
    <3>4. [d EXCEPT !.op = "read"] = r
      BY <1>0, <1>1, <2>1, <3>1, <3>2, OpeningCalls
    <3>5. [r EXCEPT !.op = "read"] = r
      BY <3>3, ReadOfRead
    <3>6. Take(k, <<r, d>>) /\ IsQueue(<<r, d>>) /\ Elements(<<r, d>>) = {r, d}
      BY <2>1, <3>1, <3>2, FewElements
    <3>7. ~BringsList(call)
      BY <1>0, <2>1 DEF BringsList
    <3> QED BY <3>3, <3>4, <3>5, <3>6, <3>7
  <2>2. CASE call.next = "event" /\ Take(k, <<Call("read", call.peer, "event")>>)
    <3>1. PICK r : r = Call("read", call.peer, "event")
      OBVIOUS
    <3>2. r.op = "read" /\ r.peer = call.peer /\ r.next = "event"
      BY <3>1 DEF Call
    <3>3. Take(k, <<r>>) /\ IsQueue(<<r>>) /\ Elements(<<r>>) = {r}
      BY <2>2, <3>1, FewElements
    <3> QED BY <3>2, <3>3 DEF Opening, BringsList
  <2>3. CASE call.next = "search" /\ Take(k, <<>>)
    <3>1. IsQueue(<<>>) /\ Elements(<<>>) = {}
      BY FewElements
    <3> QED BY <1>1, <2>3, <3>1 DEF Marks, BringsList
  <2> QED BY <1>0, <2>1, <2>2, <2>3 DEF ThreadArrives
<1>3. PICK R : R = Elements(reqs)
  OBVIOUS
<1>4. TurnsAfter(Turns(a.call), reqs)
  BY <1>2 DEF TurnsAfter, Turns, ListsSent, Opens
<1>5. PaneTruth /\ Handled(a, R)
  BY <1>2, <1>3, <1>4, TakeInOrder
<1>6. /\ UNCHANGED <<active, list, search, unseen, outdated>> /\ thread' = a.found
      /\ header' = (IF opening THEN a.call.peer ELSE header)
      /\ bodyTag' = (IF opening THEN a.call.peer ELSE bodyTag)
  BY DEF ThreadArrives, recorded
<1> HIDE DEF a
<1>7. SameRows /\ SameUnread
  BY <1>5, ServerRests DEF Handled
<1>8. /\ \A r \in R : r.op \in {"list", "read", "draft"}
      /\ Asked' = Asked \cup R /\ Given' \subseteq Given /\ NewestGiven' \subseteq NewestGiven
      /\ Given \subseteq Given' \cup {a}
  BY <1>2, <1>3, <1>5 DEF Handled, Taken, TakenInOrder
<1>9. /\ NoneFailed' /\ (NoList' <=> NoList) /\ (Cleared => Cleared')
      /\ ListComes => ListComes' \/ BringsList(call)
      /\ ThreadComes => ThreadComes'
      /\ MarkComes => MarkComes' \/ (Marks(call) /\ call.peer = active)
      /\ \A p : WillBeZero(p) => WillBeZero(p)'
  BY <1>0, <1>1, <1>5, <1>6, <1>8, HandledKeeps DEF PaneTruth, Opening
<1>10. ListComes => ListComes'
  BY <1>2, <1>3, <1>8, <1>9 DEF ListComes
<1>11. MarkComes => MarkComes'
  BY <1>2, <1>3, <1>6, <1>8, <1>9 DEF MarkComes, Marks
<1>12. ThreadsAreActive' /\ EmptyIsShown' /\ ThreadTells' /\ ActiveIsRead'
  BY <1>0, <1>1, <1>5, <1>6, <1>7, <1>8, <1>9, <1>11, HandledTruth
<1>13. SentIsListed'
  BY <1>2, <1>3, <1>5, <1>7, <1>8 DEF PaneTruth, SentIsListed, ListsSent, SameRows
<1>14. ListTells'
  BY <1>5, <1>6, <1>7, <1>8, <1>9, <1>10 DEF PaneTruth, ListTells, SameUnread
<1>15. MarkTells'
  BY <1>2, <1>3, <1>5, <1>7, <1>9, <1>10, HandledMarks DEF PaneTruth
<1>16. HeaderIsActive'
  <2>1. CASE opening
    <3>1. Opens(a.call)
      BY <1>0, <1>1, <2>1 DEF Opens
    <3>2. active # NoPeer => a.call.peer = active
      BY <1>1, <1>5, <3>1 DEF PaneTruth, ThreadsAreActive
    <3> QED BY <1>6, <2>1, <3>2 DEF HeaderIsActive
  <2>2. CASE ~opening
    <3>1. ~Opens(a.call)
      BY <2>2 DEF Opens
    <3> QED BY <1>5, <1>6, <1>8, <2>2, <3>1 DEF PaneTruth, HeaderIsActive
  <2> QED BY <2>1, <2>2
<1> QED
  BY <1>5, <1>9, <1>12, <1>13, <1>14, <1>15, <1>16 DEF PaneTruth, Handled

LEMMA AnswerFailsTruth ==
    ASSUME ConversationInvariant, NEW k \in DOMAIN answers, AnswerFails(k), Undisturbed'
    PROVE  PaneTruth'
<1> DEFINE a == answers[k]
<1>1. IsQueue(<<>>) /\ Elements(<<>>) = {}
  BY FewElements
<1>2. Take(k, <<>>) /\ ~a.ok
  BY DEF AnswerFails
<1>3. TurnsAfter(Turns(a.call), <<>>)
  BY <1>1 DEF TurnsAfter
<1>4. TypesOK /\ PaneTruth /\ Handled(a, Elements(<<>>))
  BY <1>1, <1>2, <1>3, TakeInOrder
<1>5. PICK R : R = {}
  OBVIOUS
<1>6. Handled(a, R)
  BY <1>1, <1>4, <1>5
<1>7. UNCHANGED <<active, thread, header, list, search, bodyTag, unseen, outdated>>
  BY DEF AnswerFails, recorded
<1> HIDE DEF a
<1>8. a.call.op \in {"send", "clear"}
  BY <1>2, <1>4, <1>6 DEF PaneTruth, NoneFailed, Handled, Taken
<1>9. SameRows /\ SameUnread
  BY <1>6, ServerRests DEF Handled
<1>10. /\ Asked' = Asked /\ Given' \subseteq Given /\ NewestGiven' \subseteq NewestGiven
       /\ Given \subseteq Given' \cup {a} /\ \A r \in R : r.op \in {"list", "read", "draft"}
  BY <1>5, <1>6 DEF Handled, Taken, TakenInOrder
<1>11. /\ NoneFailed' /\ (NoList' <=> NoList) /\ (Cleared => Cleared')
       /\ (ListComes => ListComes') /\ (ThreadComes => ThreadComes') /\ (MarkComes => MarkComes')
       /\ \A p : WillBeZero(p) => WillBeZero(p)'
  BY <1>2, <1>4, <1>6, <1>7, <1>8, <1>10, HandledKeeps DEF PaneTruth, Opening, BringsList
<1>12. ThreadsAreActive' /\ EmptyIsShown' /\ ThreadTells' /\ ActiveIsRead'
  BY <1>4, <1>6, <1>7, <1>8, <1>9, <1>10, <1>11, HandledTruth
<1>13. SentIsListed'
  BY <1>4, <1>9, <1>10 DEF PaneTruth, SentIsListed, SameRows
<1>14. ListTells'
  BY <1>4, <1>7, <1>9, <1>10, <1>11 DEF PaneTruth, ListTells, SameUnread
<1>15. MarkTells'
  BY <1>4, <1>5, <1>6, <1>9, <1>11, HandledMarks DEF PaneTruth
<1>16. HeaderIsActive'
  BY <1>4, <1>7, <1>8, <1>10 DEF PaneTruth, HeaderIsActive, Opens
<1> QED
  BY <1>6, <1>11, <1>12, <1>13, <1>14, <1>15, <1>16 DEF PaneTruth, Handled

LEMMA SendArrivesTruth ==
    ASSUME ConversationInvariant, NEW k \in DOMAIN answers, SendArrives(k), Undisturbed'
    PROVE  PaneTruth'
<1> DEFINE a == answers[k]
<1>0. PICK r : r = [ListCall(a.call.next) EXCEPT !.peer = a.call.peer]
  OBVIOUS
<1>1. /\ TypesOK /\ a \in Given /\ a.call.op = "send" /\ a.ok
      /\ a.call.next \in {"reply", "compose"} /\ a.call.peer \in Peers
  BY DEF ConversationInvariant, TypesOK, TrafficOK, Given, Elements, SendArrives, IsAnswer, IsRequest
<1>2. r.op = "list" /\ r.peer = a.call.peer /\ r.next \in {"reply", "compose"}
  BY <1>0, <1>1 DEF ListCall, Call
<1>3. IsQueue(<<r>>) /\ Elements(<<r>>) = {r} /\ DOMAIN <<r>> = {1}
  BY FewElements
<1>4. Take(k, <<r>>)
  BY <1>0 DEF SendArrives
<1>5. TurnsAfter(Turns(a.call), <<r>>)
  BY <1>1, <1>3 DEF TurnsAfter, Turns, TurnsOf, AtMostOne
<1>6. PaneTruth /\ Handled(a, Elements(<<r>>))
  BY <1>3, <1>4, <1>5, TakeInOrder
<1>7. PICK R : R = {r}
  OBVIOUS
<1>8. Handled(a, R)
  BY <1>3, <1>6, <1>7
<1>9. UNCHANGED <<active, thread, header, list, search, bodyTag, unseen, outdated>>
  BY DEF SendArrives, recorded
<1> HIDE DEF a
<1>10. SameRows /\ SameUnread
  BY <1>8, ServerRests DEF Handled
<1>11. /\ Asked' = Asked \cup {r} /\ Given' \subseteq Given /\ NewestGiven' \subseteq NewestGiven
       /\ Given \subseteq Given' \cup {a} /\ \A d \in R : d.op \in {"list", "read", "draft"}
  BY <1>2, <1>7, <1>8 DEF Handled, Taken, TakenInOrder
<1>12. /\ NoneFailed' /\ (Cleared => Cleared') /\ (MarkComes => MarkComes')
       /\ ThreadComes => ThreadComes' \/ a.call.peer = active
  BY <1>1, <1>6, <1>8, <1>9, <1>11, HandledKeeps DEF PaneTruth
<1>13. ListComes'
  BY <1>2, <1>11 DEF ListComes
<1>14. ThreadComes => ThreadComes'
  BY <1>2, <1>9, <1>11, <1>12 DEF ThreadComes, ListsSent
<1>15. ThreadsAreActive' /\ EmptyIsShown' /\ ThreadTells' /\ ActiveIsRead'
  BY <1>1, <1>6, <1>8, <1>9, <1>10, <1>11, <1>12, <1>14, HandledTruth
<1>16. SentIsListed'
  BY <1>1, <1>2, <1>6, <1>10, <1>11 DEF PaneTruth, SentIsListed, SameRows
<1>17. HeaderIsActive'
  BY <1>1, <1>6, <1>9, <1>11 DEF PaneTruth, HeaderIsActive, Opens
<1> QED
  BY <1>8, <1>12, <1>13, <1>15, <1>16, <1>17 DEF PaneTruth, Handled, ListTells, MarkTells

LEMMA ClearArrivesTruth ==
    ASSUME ConversationInvariant, NEW k \in DOMAIN answers, ClearArrives(k), Undisturbed'
    PROVE  PaneTruth'
<1> DEFINE a == answers[k]
<1>0. PICK r : r = ListCall("nothing")
  OBVIOUS
<1>1. r.op = "list" /\ r.next = "nothing"
  BY <1>0 DEF ListCall, Call
<1>2. IsQueue(<<r>>) /\ Elements(<<r>>) = {r}
  BY FewElements
<1>3. Take(k, <<r>>) /\ active' = NoPeer
  BY <1>0 DEF ClearArrives
<1>4. TurnsAfter(Turns(a.call), <<r>>)
  BY <1>1, <1>2 DEF TurnsAfter, Turns, ListsSent, Opens
<1>5. PaneTruth /\ Handled(a, Elements(<<r>>))
  BY <1>2, <1>3, <1>4, TakeInOrder
<1> HIDE DEF a
<1>6. Asked' = Asked \cup {r} /\ Given' \subseteq Given
  BY <1>2, <1>5 DEF Handled, Taken
<1>7. SameRows
  BY <1>5, ServerRests DEF Handled
<1>8. NoneFailed' /\ SentIsListed'
  BY <1>1, <1>5, <1>6, <1>7 DEF PaneTruth, NoneFailed, SentIsListed, ListsSent, SameRows
<1>9. ListComes'
  BY <1>1, <1>6 DEF ListComes
<1> QED
  BY <1>3, <1>5, <1>8, <1>9
     DEF PaneTruth, Handled, ListTells, MarkTells, ThreadsAreActive, HeaderIsActive, EmptyIsShown,
         ThreadTells, ActiveIsRead

\* The request that an opening sent along with d.
LEMMA OtherOf ==
    ASSUME NEW d, IsRequest(d), Opening(d), NEW op \in {"read", "draft"}
    PROVE  /\ [d EXCEPT !.op = op].op = op /\ [d EXCEPT !.op = op].peer = d.peer
           /\ Opening([d EXCEPT !.op = op])
  BY DEF IsRequest, Requests, Opening

\* The end of an opening sets a count to 0 when it is 0.
LEMMA OpenedTells ==
    ASSUME TypesOK, PaneTruth, NEW k \in DOMAIN answers,
           NEW a, a = answers[k], NEW other \in {"read", "draft"},
           a.call.op \in {"read", "draft"} /\ a.call.op # other,
           Opened(k, other), IsAnswer(a), a \in Given, Given \subseteq Given' \cup {a},
           Asked \subseteq Asked', ~ListComes, NoList, SameUnread, UNCHANGED outdated,
           NEW q \in DOMAIN list
    PROVE  \/ list'[q] = Unread(q)' \/ q \in outdated'
           \/ (Unread(q)' = 0 /\ WillBeZero(q)')
<1> DEFINE ends == a.call.next \in {"open", "reopen"} /\ ~Awaited(k, other)
<1>1. /\ list' = IF ends /\ a.call.mine /\ a.call.peer \in DOMAIN list
                 THEN [list EXCEPT ![a.call.peer] = 0] ELSE list
      /\ IsRequest(a.call)
  BY DEF Opened, IsAnswer
<1>2. list[q] = Unread(q) \/ q \in outdated \/ (Unread(q) = 0 /\ WillBeZero(q))
  BY DEF PaneTruth, ListTells
<1>3. Awaited(k, other) <=> \/ [a.call EXCEPT !.op = other] \in Asked
                            \/ \E b \in Given : b.call = [a.call EXCEPT !.op = other]
  BY DEF Awaited, Range, Asked, Given, Elements
<1>4. CASE ends /\ a.call.mine /\ a.call.peer = q
  <2>1. Opening(a.call)
    BY <1>4 DEF Opening
  <2>2. Unread(q) = 0
    <3>1. \/ Unread(q) = 0
          \/ a.call.op = "draft" /\ [a.call EXCEPT !.op = "read"] \in Asked
      BY <1>4, <2>1 DEF PaneTruth, MarkTells
    <3>2. a.call.op = "draft" => other = "read"
      OBVIOUS
    <3> QED BY <1>3, <1>4, <3>1, <3>2
  <2>3. list'[q] = 0
    BY <1>1, <1>4
  <2> QED BY <2>2, <2>3 DEF SameUnread
<1>5. CASE ~(ends /\ a.call.mine /\ a.call.peer = q)
  <2>1. list'[q] = list[q]
    BY <1>1, <1>5
  <2>2. ASSUME WillBeZero(q) PROVE WillBeZero(q)'
    <3>1. \/ WillBeZero(q)'
          \/ Opening(a.call) /\ a.call.peer = q
      BY <2>2 DEF WillBeZero
    <3>2. ASSUME Opening(a.call), a.call.peer = q PROVE WillBeZero(q)'
      <4> DEFINE d == [a.call EXCEPT !.op = other]
      <4>1. Awaited(k, other)
        BY <1>5, <3>2 DEF Opening
      <4>2. d.op = other /\ d.peer = q /\ Opening(d)
        BY <1>1, <3>2, OtherOf
      <4>3. d \in Asked \/ \E b \in Given : b.call = d
        BY <1>3, <4>1
      <4> HIDE DEF d
      <4>4. d \in Asked' \/ \E b \in Given' : b.call = d
        BY <4>2, <4>3
      <4> QED BY <4>2, <4>4 DEF WillBeZero
    <3> QED BY <3>1, <3>2
  <2> QED BY <1>2, <2>1, <2>2 DEF SameUnread
<1> QED
  BY <1>4, <1>5

\* The mark or the draft of an opening, or the mark of an event, has been made.
LEMMA OpenedTruth ==
    ASSUME TypesOK, PaneTruth, NEW k \in DOMAIN answers, NEW a, a = answers[k],
           NEW other \in {"read", "draft"},
           a.call.op \in {"read", "draft"} /\ a.call.op # other,
           Opened(k, other), NEW R, Handled(a, R),
           \A r \in R : r.op = "list" /\ r.next = "nothing",
           BringsList(a.call) => R # {},
           UNCHANGED <<active, thread, header, search, bodyTag, recorded>>
    PROVE  PaneTruth'
<1>1. SameRows /\ SameUnread
  BY ServerRests DEF Handled
<1>2. /\ Asked' = Asked \cup R /\ a \in Given /\ Given' \subseteq Given
      /\ NewestGiven' \subseteq NewestGiven
      /\ Given \subseteq Given' \cup {a} /\ \A r \in R : r.op \in {"list", "read", "draft"}
  BY DEF Handled, Taken, TakenInOrder
<1>3. /\ NoneFailed' /\ (NoList' <=> NoList) /\ (Cleared => Cleared')
      /\ ListComes => ListComes' \/ BringsList(a.call)
      /\ (ThreadComes => ThreadComes') /\ (MarkComes => MarkComes')
  BY <1>2, HandledKeeps DEF PaneTruth
<1>4. ListComes => ListComes'
  BY <1>2, <1>3 DEF ListComes
<1>5. UNCHANGED <<unseen, outdated>>
  BY DEF recorded
<1>6. ThreadsAreActive' /\ EmptyIsShown' /\ ThreadTells' /\ ActiveIsRead'
  <2>1. thread' = IF a.call.op = "thread" THEN a.found ELSE thread
    OBVIOUS
  <2> QED BY <1>1, <1>2, <1>3, <1>5, <2>1, HandledTruth
<1>7. SentIsListed'
  BY <1>1, <1>2 DEF PaneTruth, SentIsListed, SameRows, ListsSent
<1>8. HeaderIsActive'
  BY <1>2 DEF PaneTruth, HeaderIsActive, Opens
<1>9. MarkTells'
  <2>1. \A r \in R : Opening(r) => [r EXCEPT !.op = "read"] \in R
    BY DEF Opening
  <2> QED BY <1>1, <1>3, <1>4, <2>1, HandledMarks DEF PaneTruth
<1>10. ListTells'
  <2>1. ASSUME ~ListComes', NoList', NEW q \in DOMAIN list
        PROVE  \/ list'[q] = Unread(q)' \/ q \in outdated'
               \/ (Unread(q)' = 0 /\ WillBeZero(q)')
    <3>1. ~ListComes /\ NoList /\ IsAnswer(a) /\ Asked \subseteq Asked'
      BY <1>2, <1>3, <1>4, <2>1 DEF Handled
    <3> QED BY <1>1, <1>2, <1>5, <3>1, OpenedTells
  <2>2. DOMAIN list' = DOMAIN list
    BY DEF Opened
  <2> QED BY <1>1, <1>2, <1>3, <1>4, <1>5, <2>1, <2>2 DEF PaneTruth, ListTells, SameUnread
<1> QED
  BY <1>3, <1>6, <1>7, <1>8, <1>9, <1>10 DEF PaneTruth, Handled

LEMMA MarkArrivesTruth ==
    ASSUME ConversationInvariant, NEW k \in DOMAIN answers, MarkArrives(k), Undisturbed'
    PROVE  PaneTruth'
<1>0. PICK a : a = answers[k]
  OBVIOUS
<1>1. a.call.op = "read" /\ Opened(k, "draft")
  BY <1>0 DEF MarkArrives
<1>2. PICK reqs : reqs = AfterMark(answers[k].call.next)
  OBVIOUS
<1>3. Take(k, reqs)
  BY <1>2 DEF MarkArrives
<1>4. /\ IsQueue(reqs)
      /\ \A r \in Elements(reqs) : r.op = "list" /\ r.next = "nothing"
      /\ BringsList(a.call) => Elements(reqs) # {}
  <2>1. CASE a.call.next = "event"
    <3>1. PICK r : r = ListCall("nothing")
      OBVIOUS
    <3>2. r.op = "list" /\ r.next = "nothing"
      BY <3>1 DEF ListCall, Call
    <3>3. reqs = <<r>>
      BY <1>0, <1>2, <2>1, <3>1 DEF AfterMark
    <3> QED BY <3>2, <3>3, FewElements
  <2>2. CASE a.call.next # "event"
    <3>1. reqs = <<>>
      BY <1>0, <1>2, <2>2 DEF AfterMark
    <3> QED BY <2>2, <3>1, FewElements DEF BringsList
  <2> QED BY <2>1, <2>2
<1>5. TurnsAfter(Turns(answers[k].call), reqs)
  BY <1>4 DEF TurnsAfter, Turns, ListsSent, Opens
<1>6. TypesOK /\ PaneTruth /\ Handled(answers[k], Elements(reqs))
  BY <1>3, <1>4, <1>5, TakeInOrder
<1>7. PICK R : R = Elements(reqs)
  OBVIOUS
<1>8. Handled(a, R)
  BY <1>0, <1>6, <1>7
<1>9. UNCHANGED <<active, thread, header, search, bodyTag, recorded>>
  BY DEF MarkArrives
<1>10. PICK other \in {"read", "draft"} : other = "draft"
  OBVIOUS
<1>11. Opened(k, other) /\ a.call.op # other
  BY <1>1, <1>10
<1> QED
  BY <1>0, <1>1, <1>4, <1>6, <1>7, <1>8, <1>9, <1>11, OpenedTruth

LEMMA DraftArrivesTruth ==
    ASSUME ConversationInvariant, NEW k \in DOMAIN answers, DraftArrives(k), Undisturbed'
    PROVE  PaneTruth'
<1>0. PICK a : a = answers[k]
  OBVIOUS
<1>1. a.call.op = "draft" /\ Opened(k, "read") /\ Take(k, <<>>)
  BY <1>0 DEF DraftArrives
<1>2. IsQueue(<<>>) /\ Elements(<<>>) = {}
  BY FewElements
<1>3. TurnsAfter(Turns(answers[k].call), <<>>)
  BY <1>2 DEF TurnsAfter
<1>4. TypesOK /\ PaneTruth /\ Handled(answers[k], Elements(<<>>))
  BY <1>1, <1>2, <1>3, TakeInOrder
<1>5. PICK R : R = {}
  OBVIOUS
<1>6. Handled(a, R)
  BY <1>0, <1>2, <1>4, <1>5
<1>7. UNCHANGED <<active, thread, header, search, bodyTag, recorded>>
  BY DEF DraftArrives
<1>8. PICK other \in {"read", "draft"} : other = "read"
  OBVIOUS
<1>9. Opened(k, other) /\ a.call.op # other /\ ~BringsList(a.call)
  BY <1>1, <1>8 DEF BringsList
<1> QED
  BY <1>0, <1>1, <1>4, <1>5, <1>6, <1>7, <1>9, OpenedTruth

\* The requests d and c, and the answers b and e, are alike but for the
\* conversation that they hold.
Alike(d, c) == d.op = c.op /\ d.next = c.next /\ d.peer = c.peer /\ d.search = c.search
AlikeAnswers(b, e) == Alike(b.call, e.call) /\ b.ok = e.ok /\ b.found = e.found

\* The list a arrives in order, and the requests of T are sent.
ListHandled(a, T) ==
    /\ T \subseteq Asked'
    /\ \A c \in Asked : \E d \in Asked' : Alike(d, c)
    /\ \A d \in Asked' : d \in T \/ \E c \in Asked : Alike(d, c)
    /\ a \in Given
    /\ \A b \in Given' : \E e \in Given : AlikeAnswers(b, e)
    /\ \A e \in Given : AlikeAnswers(e, a) \/ \E b \in Given' : AlikeAnswers(b, e)
    /\ \A b \in NewestGiven' : \E e \in NewestGiven : AlikeAnswers(b, e)
    /\ NoList' => \E e \in NewestGiven : AlikeAnswers(e, a)
    /\ \A d \in NewestAsked' :
          \/ d \in T
          \/ (T = {} \/ d.op # "thread") /\ \E c \in NewestAsked : Alike(d, c)
    /\ \A d \in Asked' : ~Opening(d)
    /\ \A b \in Given' : ~Opening(b.call)

\* In order, a list takes the conversation from what is on its way and
\* loads at most a thread.
LEMMA ListInOrder ==
    ASSUME TypesOK, NEW a, IsAnswer(a), NEW T, \A t \in T : t.op = "thread",
           ListTaken(a, T), ListTakenInOrder(a, T)
    PROVE  ListHandled(a, T)
<1>1. \A c \in Asked : Alike(Estranged(c), c) /\ ~Opening(Estranged(c))
  BY EstrangedFacts DEF TypesOK, TrafficOK, Alike, Opening
<1>2. ASSUME NEW e, IsAnswer(e)
      PROVE  AlikeAnswers(EstrangedAnswer(e), e) /\ ~Opening(EstrangedAnswer(e).call)
  <2>1. IsRequest(e.call)
    BY <1>2 DEF IsAnswer
  <2>2. /\ EstrangedAnswer(e).call = Estranged(e.call)
        /\ EstrangedAnswer(e).ok = e.ok /\ EstrangedAnswer(e).found = e.found
    BY <1>2, EstrangedAnswerFacts
  <2>3. Alike(Estranged(e.call), e.call) /\ ~Opening(Estranged(e.call))
    BY <2>1, EstrangedFacts DEF Alike, Opening
  <2> QED BY <2>2, <2>3 DEF AlikeAnswers
<1>3. \A e \in Given : IsAnswer(e)
  BY DEF TypesOK, TrafficOK
<1>4. \A e \in Given : EstrangedAnswer(e) = EstrangedAnswer(a) => AlikeAnswers(e, a)
  <2> SUFFICES ASSUME NEW e \in Given, EstrangedAnswer(e) = EstrangedAnswer(a)
               PROVE  AlikeAnswers(e, a)
    OBVIOUS
  <2>1. AlikeAnswers(EstrangedAnswer(e), e) /\ AlikeAnswers(EstrangedAnswer(a), a)
    BY <1>2, <1>3
  <2> QED BY <2>1 DEF AlikeAnswers, Alike
<1>5. NewestGiven \subseteq Given /\ NewestAsked \subseteq Asked
  BY DEF NewestGiven, NewestAsked, Newest, Given, Asked, Elements
<1>6. \A c \in Asked : \E d \in Asked' : Alike(d, c)
  BY <1>1 DEF ListTaken
<1>7. \A d \in Asked' : /\ d \in T \/ \E c \in Asked : Alike(d, c)
                        /\ ~Opening(d)
  <2>1. \A t \in T : ~Opening(t)
    BY DEF Opening
  <2> QED BY <1>1, <2>1 DEF ListTaken
<1>8. \A b \in Given' : ~Opening(b.call) /\ \E e \in Given : AlikeAnswers(b, e)
  BY <1>2, <1>3 DEF ListTaken
<1>9. \A e \in Given : AlikeAnswers(e, a) \/ \E b \in Given' : AlikeAnswers(b, e)
  BY <1>2, <1>3, <1>4 DEF ListTaken
<1>10. \A b \in NewestGiven' : \E e \in NewestGiven : AlikeAnswers(b, e)
  BY <1>2, <1>3, <1>5 DEF ListTakenInOrder
<1>11. NoList' => \E e \in NewestGiven : AlikeAnswers(e, a)
  BY <1>4, <1>5 DEF ListTakenInOrder
<1>12. \A d \in NewestAsked' :
          \/ d \in T
          \/ (T = {} \/ d.op # "thread") /\ \E c \in NewestAsked : Alike(d, c)
  BY <1>1, <1>5 DEF ListTakenInOrder
<1> QED
  BY <1>6, <1>7, <1>8, <1>9, <1>10, <1>11, <1>12 DEF ListHandled, ListTaken

\* What does not depend on what the list opens.
LEMMA ListHandledTruth ==
    ASSUME PaneTruth, NEW a, NEW T, ListHandled(a, T), a.call.op = "list",
           \A t \in T : t.op = "thread",
           list' = a.found, UNCHANGED <<outdated, events>>, SameRows, SameUnread
    PROVE  NoneFailed' /\ ListTells' /\ MarkTells'
<1>1. NoneFailed'
  BY DEF PaneTruth, NoneFailed, ListHandled, AlikeAnswers, Alike
<1>2. MarkTells'
  BY DEF MarkTells, ListHandled
<1>3. ListComes => ListComes'
  BY DEF ListComes, BringsList, ListHandled, AlikeAnswers, Alike
<1>4. ~NoList /\ (~ListComes => \A e \in NewestGiven : e.call.op = "list" =>
                     /\ DOMAIN Listing \subseteq DOMAIN e.found
                     /\ \A p \in DOMAIN e.found : e.found[p] = Unread(p) \/ p \in outdated)
  BY DEF PaneTruth, ListTells, NoList, ListHandled
<1>5. ASSUME ~ListComes', NEW b \in NewestGiven', b.call.op = "list"
      PROVE  /\ DOMAIN Listing' \subseteq DOMAIN b.found
             /\ \A p \in DOMAIN b.found : b.found[p] = Unread(p)' \/ p \in outdated'
  <2>1. PICK e \in NewestGiven : AlikeAnswers(b, e)
    BY DEF ListHandled
  <2>2. e.call.op = "list" /\ e.found = b.found
    BY <1>5, <2>1 DEF AlikeAnswers, Alike
  <2> QED BY <1>3, <1>4, <1>5, <2>2 DEF SameUnread
<1>6. ASSUME ~ListComes', NoList'
      PROVE  /\ DOMAIN Listing' \subseteq DOMAIN list'
             /\ \A p \in DOMAIN list' : list'[p] = Unread(p)' \/ p \in outdated'
  <2>1. PICK e \in NewestGiven : AlikeAnswers(e, a)
    BY <1>6 DEF ListHandled
  <2>2. e.call.op = "list" /\ e.found = list'
    BY <2>1 DEF AlikeAnswers, Alike
  <2>3. list' = e.found /\ DOMAIN list' = DOMAIN e.found
    BY <2>2
  <2> QED BY <1>3, <1>4, <1>6, <2>2, <2>3 DEF SameUnread
<1> QED
  BY <1>1, <1>2, <1>5, <1>6 DEF ListTells

\* A list opens the conversation p.
LEMMA ListOpensTruth ==
    ASSUME PaneTruth, OneTurns', NEW a, NEW t, ListHandled(a, {t}), a.call.op = "list",
           t.op = "thread", t.next \in {"open", "reopen"}, t.search = FALSE, NEW p, t.peer = p,
           active' = p, search' = FALSE
    PROVE  /\ SentIsListed' /\ ThreadsAreActive' /\ HeaderIsActive'
           /\ EmptyIsShown' /\ ThreadTells' /\ ActiveIsRead'
<1>1. t \in Asked' /\ Opens(t) /\ Turns(t)
  BY DEF ListHandled, Opens, Turns
<1>2. TurnsAlone'
  <2>1. OneTurns' => TurnsAlone'
    BY OneTurnsAlone, PTL
  <2> QED BY <2>1
<1>3. (\A d \in Asked' : Turns(d) => d = t) /\ \A b \in Given' : ~Turns(b.call)
  BY <1>1, <1>2 DEF TurnsAlone
<1>4. SentIsListed'
  BY <1>3 DEF SentIsListed, Turns, ListsSent
<1>5. ThreadsAreActive'
  <2>1. \A d \in NewestAsked' : d.op = "thread" => d = t
    BY DEF ListHandled
  <2> QED BY <1>3, <2>1 DEF ThreadsAreActive, Turns
<1>6. HeaderIsActive'
  BY <1>1 DEF HeaderIsActive
<1>7. ~NoThreadAsked' /\ ThreadComes' /\ MarkComes'
  BY <1>1 DEF NoThreadAsked, ThreadComes, MarkComes, Marks
<1> QED
  BY <1>4, <1>5, <1>6, <1>7 DEF EmptyIsShown, ThreadTells, ActiveIsRead

\* A list keeps the conversation in view.
LEMMA ListStaysTruth ==
    ASSUME PaneTruth, NEW a, NEW T, ListHandled(a, T), a.call.op = "list", SameRows,
           UNCHANGED <<active, search, header, bodyTag>>,
           \A t \in T : /\ t.op = "thread" /\ t.next = "event"
                        /\ t.peer = active /\ t.search = search
    PROVE  SentIsListed' /\ ThreadsAreActive' /\ HeaderIsActive'
<1>1. SentIsListed'
  <2>1. \A d \in Asked' : ListsSent(d) => RowsOf(d.peer) # {}
    BY DEF PaneTruth, SentIsListed, ListsSent, ListHandled, Alike
  <2>2. \A b \in Given' : /\ b.call.op = "send" /\ b.ok => RowsOf(b.call.peer) # {}
                          /\ ListsSent(b.call) => b.call.peer \in DOMAIN b.found
    <3> TAKE b \in Given'
    <3>1. PICK e \in Given : AlikeAnswers(b, e)
      BY DEF ListHandled
    <3> QED BY <3>1 DEF PaneTruth, SentIsListed, ListsSent, AlikeAnswers, Alike
  <2> QED BY <2>1, <2>2 DEF SentIsListed, SameRows
<1>2. ThreadsAreActive'
  <2> SUFFICES ASSUME active # NoPeer
               PROVE  /\ \A d \in NewestAsked' :
                            d.op = "thread" => d.peer = active /\ d.search = search
                      /\ \A d \in Asked' : Opens(d) => d.peer = active
                      /\ \A b \in Given' : Opens(b.call) => b.call.peer = active
    BY DEF ThreadsAreActive
  <2>1. \A d \in NewestAsked' : d.op = "thread" => d.peer = active /\ d.search = search
    BY DEF PaneTruth, ThreadsAreActive, ListHandled, Alike
  <2>2. \A d \in Asked' : Opens(d) => d.peer = active
    BY DEF PaneTruth, ThreadsAreActive, ListHandled, Opens, Alike
  <2>3. \A b \in Given' : Opens(b.call) => b.call.peer = active
    BY DEF PaneTruth, ThreadsAreActive, ListHandled, Opens, AlikeAnswers, Alike
  <2> QED BY <2>1, <2>2, <2>3
<1>3. HeaderIsActive'
  <2>1. (\E c \in Asked : Opens(c)) => \E d \in Asked' : Opens(d)
    BY DEF ListHandled, Opens, Alike
  <2>2. (\E e \in Given : Opens(e.call)) => \E b \in Given' : Opens(b.call)
    BY DEF ListHandled, Opens, AlikeAnswers, Alike
  <2> QED BY <2>1, <2>2 DEF PaneTruth, HeaderIsActive
<1> QED
  BY <1>1, <1>2, <1>3

\* A list opens and loads nothing.
LEMMA ListShowsTruth ==
    ASSUME PaneTruth, NEW a, ListHandled(a, {}), a.call.op = "list",
           OpenedBy(a) = {}, ~Looked(a),
           SameRows, SameUnread, UNCHANGED <<active, search, thread, visible, events>>,
           unseen' = IF a.call.next = "event" /\ ~visible THEN unseen \cup ({active} \ {NoPeer})
                     ELSE unseen
    PROVE  EmptyIsShown' /\ ThreadTells' /\ ActiveIsRead'
<1>1. NoThreadAsked' => NoThreadAsked
  BY DEF NoThreadAsked, ListHandled, Alike
<1>2. Cleared => Cleared'
  BY DEF Cleared, ListHandled, AlikeAnswers, Alike
<1>3. ASSUME NEW messages, LastThreadIs(messages) PROVE LastThreadIs(messages)'
  <2>1. ASSUME NEW b \in NewestGiven', b.call.op = "thread" PROVE b.found = messages
    <3>1. PICK e \in NewestGiven : AlikeAnswers(b, e)
      BY DEF ListHandled
    <3> QED BY <1>3, <2>1, <3>1 DEF LastThreadIs, AlikeAnswers, Alike
  <2>2. (\A b \in Given' : b.call.op # "thread") => \A e \in Given : e.call.op # "thread"
    BY DEF ListHandled, AlikeAnswers, Alike
  <2> QED BY <1>3, <2>1, <2>2 DEF LastThreadIs
<1>4. EmptyIsShown'
  <2> SUFFICES ASSUME active # NoPeer, RowsOf(active) = {}, NoThreadAsked, ~Cleared
               PROVE  LastThreadIs({})'
    BY <1>1, <1>2 DEF EmptyIsShown, SameRows
  <2>1. PICK messages : messages = {}
    OBVIOUS
  <2>2. LastThreadIs(messages)
    BY <2>1 DEF PaneTruth, EmptyIsShown
  <2>3. LastThreadIs(messages)'
    BY <1>3, <2>2
  <2> QED BY <2>1, <2>3
<1>5. ~(a.call.next = "event" /\ ~visible) /\ EventComes => EventComes'
  <2> SUFFICES ASSUME ~(a.call.next = "event" /\ ~visible), EventComes, ~(events > 0)
               PROVE  EventComes'
    BY DEF EventComes
  <2>1. CASE \E c \in Asked : c.op = "list" /\ c.next = "event"
    BY <2>1 DEF EventComes, ListHandled, Alike
  <2>2. CASE \E e \in Given : /\ e.call.op = "list" /\ e.call.next = "event"
                              /\ (active \in DOMAIN e.found \/ ~visible)
    <3>1. PICK e \in Given : /\ e.call.op = "list" /\ e.call.next = "event"
                             /\ (active \in DOMAIN e.found \/ ~visible)
      BY <2>2
    <3>2. ~AlikeAnswers(e, a)
      BY <3>1 DEF Looked, AlikeAnswers, Alike
    <3>3. PICK b \in Given' : AlikeAnswers(b, e)
      BY <3>2 DEF ListHandled
    <3>4. b.call.op = "list" /\ b.call.next = "event" /\ b.found = e.found
      BY <3>1, <3>3 DEF AlikeAnswers, Alike
    <3> QED BY <3>1, <3>4 DEF EventComes
  <2> QED BY <2>1, <2>2 DEF EventComes
<1>6. ~(ListsSent(a.call) /\ a.call.peer = active)
  BY DEF PaneTruth, SentIsListed, ListsSent, OpenedBy, ListHandled
<1>7. ~(a.call.next = "event" /\ ~visible) /\ ThreadComes => ThreadComes'
  <2>1. CASE \E c \in Asked : ListsSent(c) /\ c.peer = active
    BY <2>1 DEF ThreadComes, ListsSent, ListHandled, Alike
  <2>2. CASE \E e \in Given : /\ e.call.peer = active
                              /\ (ListsSent(e.call) \/ (e.call.op = "send" /\ e.ok))
    <3>1. PICK e \in Given : /\ e.call.peer = active
                             /\ (ListsSent(e.call) \/ (e.call.op = "send" /\ e.ok))
      BY <2>2
    <3>2. ~AlikeAnswers(e, a)
      BY <1>6, <3>1 DEF ListsSent, AlikeAnswers, Alike
    <3>3. PICK b \in Given' : AlikeAnswers(b, e)
      BY <3>2 DEF ListHandled
    <3>4. b.call.peer = active /\ (ListsSent(b.call) \/ (b.call.op = "send" /\ b.ok))
      BY <3>1, <3>3 DEF AlikeAnswers, Alike, ListsSent
    <3> QED BY <3>4 DEF ThreadComes
  <2> QED BY <1>1, <1>2, <1>5, <2>1, <2>2 DEF ThreadComes
<1>8. ASSUME active # NoPeer, active \notin unseen'
      PROVE  ~(a.call.next = "event" /\ ~visible) /\ active \notin unseen
  BY <1>8
<1>9. ThreadTells'
  <2> SUFFICES ASSUME active # NoPeer, active \notin unseen', ~ThreadComes'
               PROVE  LastThreadIs(ThreadOf(active, search))'
    BY DEF ThreadTells
  <2>1. PICK messages : messages = ThreadOf(active, search)
    OBVIOUS
  <2>2. LastThreadIs(messages)
    BY <1>7, <1>8, <2>1 DEF PaneTruth, ThreadTells
  <2>3. LastThreadIs(messages)'
    BY <1>3, <2>2
  <2>4. ThreadOf(active, search)' = messages
    BY <2>1 DEF SameRows
  <2> QED BY <2>3, <2>4
<1>10. MarkComes /\ ~(a.call.next = "event" /\ ~visible) => MarkComes'
  <2>1. (\E c \in Asked : Marks(c) /\ c.peer = active) =>
           \E d \in Asked' : Marks(d) /\ d.peer = active
    BY DEF Marks, ListHandled, Alike
  <2>2. (\E e \in Given : e.call.op = "thread" /\ Marks(e.call) /\ e.call.peer = active) =>
           \E b \in Given' : b.call.op = "thread" /\ Marks(b.call) /\ b.call.peer = active
    BY DEF Marks, ListHandled, AlikeAnswers, Alike
  <2> QED BY <1>5, <2>1, <2>2 DEF MarkComes
<1>11. ActiveIsRead'
  BY <1>8, <1>10 DEF PaneTruth, ActiveIsRead, SameUnread
<1> QED
  BY <1>4, <1>9, <1>11

LEMMA ListArrivesTruth ==
    ASSUME ConversationInvariant, NEW k \in DOMAIN answers, ListArrives(k), Undisturbed'
    PROVE  PaneTruth'
<1>0. PICK a : a = answers[k]
  OBVIOUS
<1>1. /\ TypesOK /\ IsAnswer(a) /\ a.call.op = "list" /\ a \in Given
      /\ active \in Peers \cup {NoPeer} /\ search \in BOOLEAN
  BY <1>0, ListStep
     DEF ConversationInvariant, TypesOK, ConversationTypeOK, TrafficOK, Given, Elements
<1>2. /\ \E p : ThreadsOf(a) = {} \/ ThreadsOf(a) = {p}
      /\ \A p \in OpenedBy(a) : p \in Peers /\ OpenedBy(a) = {p}
      /\ OpenedBy(a) # {} => ListsSent(a.call) /\ ~Looked(a)
      /\ Looked(a) => active \in Peers /\ OpenedBy(a) = {}
      /\ How(a) \in {"open", "reopen"}
      /\ \A t \in ThreadsOf(a) : t.op = "thread"
      /\ OpenedBy(a) = {} /\ ~Looked(a) <=> ThreadsOf(a) = {}
  BY <1>1, OpenedIsOne
<1>3. PICK T : T = ThreadsOf(a)
  OBVIOUS
<1>4. /\ list' = a.found
      /\ IF OpenedBy(a) = {} THEN NoOpen ELSE \E p \in OpenedBy(a) : Open(p)
      /\ unseen' = IF a.call.next = "event" /\ ~visible THEN unseen \cup ({active} \ {NoPeer})
                   ELSE unseen \ {call.peer : call \in T}
      /\ calls' = [j \in DOMAIN calls |-> Estranged(calls[j])] \o SetToSeq(T)
      /\ answers' = RemoveAt([j \in DOMAIN answers |-> EstrangedAnswer(answers[j])], k)
      /\ OvertakesAnswers(k)
      /\ UNCHANGED <<thread, header, visible, bodyTag, events, database, outdated, failures>>
  BY <1>0, <1>3, ListStep
<1>5. FirstOfKind(AnswerOps, k) /\ overtakings = 0
  <2>1. Overtakes(FirstOfKind(AnswerOps, k)) /\ overtakings' = 0
    BY <1>4 DEF OvertakesAnswers, AnswerOps, AnswerKinds, Undisturbed
  <2>2. FirstOfKind(AnswerOps, k) \in BOOLEAN
    BY DEF FirstOfKind
  <2> HIDE DEF FirstOfKind
  <2> QED BY <1>1, <2>1, <2>2, InOrder
<1>6. PaneTruth
  BY <1>4, <1>5 DEF ConversationInvariant, Undisturbed
<1>7. PICK p : T = {} \/ T = {p}
  BY <1>2, <1>3
<1>8. TrafficOK /\ answers[k].call.op = "list"
  BY <1>0, <1>1 DEF TypesOK
<1>9. /\ ListTaken(a, T) /\ ListTakenInOrder(a, T)
      /\ OneTurns /\ (Turns(a.call) \/ \A t \in T : ~Turns(t)) => OneTurns'
  BY <1>0, <1>4, <1>5, <1>7, <1>8, ListFacts
<1>10. ListHandled(a, T)
  BY <1>1, <1>2, <1>3, <1>9, ListInOrder
<1>11. SameRows /\ SameUnread
  BY <1>4, ServerRests DEF database
<1>12. NoneFailed' /\ ListTells' /\ MarkTells'
  BY <1>1, <1>2, <1>3, <1>4, <1>6, <1>10, <1>11, ListHandledTruth
<1>13. CASE OpenedBy(a) # {}
  <2>1. PICK q \in OpenedBy(a) : Open(q)
    BY <1>4, <1>13
  <2>2. OpenedBy(a) = {q} /\ q \in Peers /\ ~Looked(a) /\ ListsSent(a.call)
    BY <1>2, <2>1
  <2>3. PICK t : t = ThreadCall(q, How(a), FALSE)
    OBVIOUS
  <2>4. T = {t}
    BY <1>3, <2>2, <2>3 DEF ThreadsOf
  <2>5. t.op = "thread" /\ t.peer = q /\ t.search = FALSE /\ t.next \in {"open", "reopen"}
    BY <1>2, <2>3 DEF ThreadCall, Call
  <2>6. OneTurns'
    BY <1>6, <1>9, <2>2 DEF PaneTruth, Turns
  <2>7. active' = q /\ search' = FALSE /\ ListHandled(a, {t})
    BY <1>10, <2>1, <2>4 DEF Open
  <2>8. /\ SentIsListed' /\ ThreadsAreActive' /\ HeaderIsActive'
        /\ EmptyIsShown' /\ ThreadTells' /\ ActiveIsRead'
    BY <1>1, <1>6, <2>5, <2>6, <2>7, ListOpensTruth
  <2> QED BY <1>12, <2>6, <2>8 DEF PaneTruth
<1>14. CASE OpenedBy(a) = {}
  <2>1. UNCHANGED <<active, search>>
    BY <1>4, <1>14 DEF NoOpen
  <2>2. T = IF Looked(a) THEN {ThreadCall(active, "event", search)} ELSE {}
    BY <1>3, <1>14 DEF ThreadsOf
  <2>3. \A t \in T : t.op = "thread" /\ t.next = "event" /\ t.peer = active /\ t.search = search
    BY <2>2 DEF ThreadCall, Call
  <2>4. OneTurns'
    BY <1>6, <1>9, <2>3 DEF PaneTruth, Turns, ListsSent, Opens
  <2>5. SentIsListed' /\ ThreadsAreActive' /\ HeaderIsActive'
    BY <1>1, <1>4, <1>6, <1>10, <1>11, <2>1, <2>3, ListStaysTruth
  <2>6. EmptyIsShown' /\ ThreadTells' /\ ActiveIsRead'
    <3>1. CASE Looked(a)
      <4>1. PICK t \in T : TRUE
        BY <2>2, <3>1
      <4>2. t \in Asked'
        BY <1>10 DEF ListHandled
      <4>3. ~NoThreadAsked' /\ ThreadComes' /\ MarkComes'
        BY <2>1, <2>3, <4>2 DEF NoThreadAsked, ThreadComes, MarkComes, Marks
      <4> QED BY <4>3 DEF EmptyIsShown, ThreadTells, ActiveIsRead
    <3>2. CASE ~Looked(a)
      <4>1. T = {}
        BY <2>2, <3>2
      <4>2. {call.peer : call \in T} = {}
        BY <4>1
      <4>3. /\ ListHandled(a, {}) /\ UNCHANGED <<thread, visible, events>>
            /\ unseen' = IF a.call.next = "event" /\ ~visible THEN unseen \cup ({active} \ {NoPeer})
                         ELSE unseen
        BY <1>4, <1>10, <4>1, <4>2
      <4> QED BY <1>1, <1>6, <1>11, <1>14, <2>1, <3>2, <4>3, ListShowsTruth
    <3> QED BY <3>1, <3>2
  <2> QED BY <1>12, <2>4, <2>5, <2>6 DEF PaneTruth
<1> QED
  BY <1>13, <1>14

-----------------------------------------------------------------------------
(* Every step                                                              *)

LEMMA NextTruth ==
    ConversationInvariant /\ [ConversationNext]_conversationVars /\ Undisturbed' => PaneTruth'
<1> SUFFICES ASSUME ConversationInvariant, [ConversationNext]_conversationVars, Undisturbed'
             PROVE  PaneTruth'
  OBVIOUS
<1>1. CASE ServerNext
  BY <1>1, ReceiveTruth, DeliveryTruth, ServeReadTruth, ServeMarkTruth, ServeSendTruth,
     ServeClearTruth, ServePutTruth
     DEF ServerNext
<1>2. CASE HandlerNext
  BY <1>2, ListArrivesTruth, ThreadArrivesTruth, AnswerFailsTruth, MarkArrivesTruth,
     DraftArrivesTruth, SendArrivesTruth, ClearArrivesTruth, EventArrivesTruth,
     SearchFiresTruth, SaveFiresTruth
     DEF HandlerNext
<1>3. CASE UserNext
  BY <1>3, OpenTruth, ComposeTruth, SubmitTruth, ClearHistoryTruth, OtherDeedsTruth DEF UserNext
<1>4. CASE UNCHANGED conversationVars
  <2>1. TypesOK /\ PaneTruth
    BY <1>4 DEF ConversationInvariant, Undisturbed, conversationVars, faults
  <2> QED
    BY <1>4, <2>1, IdleTruth
       DEF conversationVars, pane, composing, traffic, database, ThreadRests
<1> QED
  BY <1>1, <1>2, <1>3, <1>4 DEF ConversationNext

\* A page that rests and is true shows what QuietPaneIsTrue demands.
LEMMA TruthIsShown == ConversationInvariant => QuietPaneIsTrue
<1> SUFFICES ASSUME ConversationInvariant, Patient, Quiet, failures = 0, overtakings = 0
             PROVE  /\ DOMAIN Listing \subseteq DOMAIN list
                    /\ \A p \in DOMAIN list : list[p] = Unread(p) \/ p \in outdated
                    /\ active # NoPeer =>
                          /\ header = active /\ bodyTag = active
                          /\ active \notin unseen =>
                                thread = ThreadOf(active, search) /\ Unread(active) = 0
  BY DEF QuietPaneIsTrue
<1>1. PaneTruth /\ AtRest
  BY QuietRests DEF ConversationInvariant, Undisturbed
<1>2. /\ DOMAIN Listing \subseteq DOMAIN list
      /\ \A p \in DOMAIN list : list[p] = Unread(p) \/ p \in outdated
  BY <1>1 DEF PaneTruth, AtRest, ListTells
<1>3. ASSUME active # NoPeer PROVE header = active /\ bodyTag = active
  BY <1>1, <1>3 DEF PaneTruth, AtRest, HeaderIsActive, Opens
<1>4. ASSUME active # NoPeer, active \notin unseen
      PROVE  thread = ThreadOf(active, search) /\ Unread(active) = 0
  <2>1. LastThreadIs(ThreadOf(active, search)) /\ Unread(active) = 0
    BY <1>1, <1>4 DEF PaneTruth, AtRest, ThreadTells, ActiveIsRead
  <2> QED BY <1>1, <2>1 DEF LastThreadIs, AtRest
<1> QED
  BY <1>2, <1>3, <1>4

LEMMA ConversationIsInvariant == ConversationSpec => []ConversationInvariant
<1>1. ConversationInit => ConversationInvariant
  BY InitTypes, InitTruth DEF ConversationInvariant
<1>2. ConversationInvariant /\ [ConversationNext]_conversationVars => ConversationInvariant'
  <2>1. ConversationInvariant /\ [ConversationNext]_conversationVars => TypesOK'
    BY NextTypes DEF ConversationInvariant
  <2> QED BY <2>1, NextTruth DEF ConversationInvariant
<1> QED
  BY <1>1, <1>2, PTL DEF ConversationSpec

\* However many peers, messages, events and deeds there are, and in whatever
\* order the server answers, the conversation pane keeps the types of its state,
\* its requests and answers are well formed, and no message has the id of
\* another (app.js, api.rs, db.rs).
THEOREM ConversationTypeCorrect == ConversationSpec => [](ConversationTypeOK /\ TrafficOK /\ RowsOK)
<1>1. ConversationInvariant => ConversationTypeOK /\ TrafficOK /\ RowsOK
  BY DEF ConversationInvariant, TypesOK
<1> QED
  BY <1>1, ConversationIsInvariant, PTL

\* A user who waits until the page is quiet is told the truth by the list, the
\* thread, its name and the composer, with the exceptions that the property
\* names, for any number of peers, messages, events and deeds: loadConversations,
\* openConversation and the handlers of app.js bring the page up to date
\* whatever interleaving they met with the server's changes.
THEOREM QuietPaneTellsTruth == ConversationSpec => []QuietPaneIsTrue
  BY TruthIsShown, ConversationIsInvariant, PTL

-----------------------------------------------------------------------------
(* The parts together                                                      *)

\* A behaviour of the client is one of every part: whatever is proved of a part
\* holds of what the page cache, the parser, the browser and the conversations
\* do together (app.js:1-22, which keeps their state apart).
THEOREM ClientIsItsParts == ClientSpec => Spec /\ PageSpec /\ ViewSpec /\ ConversationSpec
<1> USE DEF vars, pageVars, viewVars, conversationVars
<1>1. ClientInit => Init /\ PageInit /\ ViewInit /\ ConversationInit
  BY DEF ClientInit
<1>2. [ClientNext]_<<vars, pageVars, viewVars, conversationVars>>
        => /\ [Next]_vars /\ [PageNext]_pageVars
           /\ [ViewNext]_viewVars /\ [ConversationNext]_conversationVars
  BY DEF ClientNext
<1> QED
  BY <1>1, <1>2, PTL DEF ClientSpec, Spec, PageSpec, ViewSpec, ConversationSpec

\* The cache, the browser and the conversations keep their types whichever of
\* them moves.
THEOREM ClientTypeCorrect == ClientSpec => []ClientTypeOK
<1>1. Spec /\ ViewSpec /\ ConversationSpec => []ClientTypeOK
  <2>1. TypeOK /\ ViewTypeOK /\ (ConversationTypeOK /\ TrafficOK /\ RowsOK) => ClientTypeOK
    BY DEF ClientTypeOK
  <2> QED
    BY <2>1, CacheTypeCorrect, ViewTypeCorrect, ConversationTypeCorrect, PTL
<1> QED
  BY <1>1, ClientIsItsParts, PTL
=============================================================================
