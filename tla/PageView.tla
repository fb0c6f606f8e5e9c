-------------------------------- MODULE PageView --------------------------------
(***************************************************************************)
(* The page browser of the web client (src/web/app.js): navigations that   *)
(* can be cancelled and overtaken, the history, and the partials of a page *)
(* that load and refresh themselves while the user moves on.               *)
(*                                                                         *)
(* An aborted request ends within the event that aborts it, so it is gone  *)
(* at once.  The server is any answer or failure; a page, and what comes   *)
(* for a partial, holds at most one partial.                               *)
(***************************************************************************)
EXTENDS Integers, Sequences, FiniteSets, FiniteSetsExt, Functions

CONSTANTS
    Addresses,   \* canonical addresses
    None,        \* no page, no request
    MaxHistory,  \* bound: entries of the history
    MaxPages,    \* bound: pages rendered
    MaxElements  \* bound: partials that are shown or still have something pending

ASSUME ViewAssumption == MaxHistory \in Nat /\ MaxPages \in Nat /\ MaxElements \in Nat

VARIABLES
    history, position, \* state.browser.history and .position, 0 for none
    shown,       \* the address of state.browser.page
    failed,      \* state.browser.failedAddress
    navigation,  \* the request of navigateBrowser, or None
    generation,  \* state.browser.generation
    elements,    \* the elements of partials, by number
    astray       \* Back, Forward or the reload of a failed address: the history
                 \* need not say what is shown

browser == <<history, position, shown, failed, navigation, astray>>
viewVars == <<browser, generation, elements>>

ViewInit ==
    /\ history = <<>> /\ position = 0
    /\ shown = None /\ failed = None
    /\ navigation = None
    /\ generation = 0
    /\ elements = <<>>
    /\ astray = FALSE
-----------------------------------------------------------------------------
(* Elements                                                                *)

\* `within` are the elements around it; `start`, `timer` and `loading` are its
\* first timeout, its refresh timer and its request.
Element == [within : SUBSET (1..MaxElements), generation : 0..MaxPages, refreshes : BOOLEAN,
            connected : BOOLEAN, start : BOOLEAN, timer : BOOLEAN, loading : BOOLEAN]

\* Elements that left the document matter while something of theirs is pending.
Collected(es) ==
    Restrict(es, {n \in DOMAIN es : es[n].connected \/ es[n].start \/ es[n].timer \/ es[n].loading})

Disconnected(es, ns) ==
    [n \in DOMAIN es |-> IF n \in ns THEN [es[n] EXCEPT !.connected = FALSE] ELSE es[n]]

Contained(es, n) == {m \in DOMAIN es : n \in es[m].within}

\* renderMicronBlocks: the contents of a place are replaced by none or one
\* partial, which starts in a timeout of its own.
Rendered(es, gone, within, current, partials) ==
    LET kept == Collected(Disconnected(es, gone))
        number == Min((1..MaxElements + 1) \ DOMAIN kept) IN
    [n \in DOMAIN kept \cup (IF partials = {} THEN {} ELSE {number}) |->
        IF n \in DOMAIN kept THEN kept[n]
        ELSE [within |-> within, generation |-> current, refreshes |-> TRUE \in partials,
              connected |-> TRUE, start |-> TRUE, timer |-> FALSE, loading |-> FALSE]]

\* None, or whether the one partial has an interval.
PartialsOfPage == {{}, {TRUE}, {FALSE}}

Fits == Cardinality(DOMAIN elements') <= MaxElements

\* Controllers are aborted and timers cleared.
Silenced(es) == [n \in DOMAIN es |-> [es[n] EXCEPT !.timer = FALSE, !.loading = FALSE]]
-----------------------------------------------------------------------------
(* navigateBrowser                                                         *)

Navigate(address, kind) ==
    /\ generation < MaxPages
    /\ navigation' = [to |-> address, kind |-> kind]

\* An address is entered or a link followed.
Visit(address) ==
    /\ position < MaxHistory
    /\ Navigate(address, "visit")
    /\ UNCHANGED <<history, position, shown, failed, astray, generation, elements>>

\* Back and Forward move the position before the page is there.
Step(by) ==
    /\ position + by \in 1..Len(history)
    /\ position' = position + by
    /\ Navigate(history[position'], "history")
    /\ astray' = TRUE
    /\ UNCHANGED <<history, shown, failed, generation, elements>>

\* The button is hidden while a page loads.
Reload ==
    /\ navigation = None /\ (failed # None \/ shown # None)
    /\ Navigate(IF failed # None THEN failed ELSE shown, "reload")
    /\ UNCHANGED <<history, position, shown, failed, astray, generation, elements>>

CancelNavigation ==
    /\ navigation # None
    /\ navigation' = None
    /\ UNCHANGED <<history, position, shown, failed, astray, generation, elements>>

\* Mutant: the entries after the position are kept.
AppendOnly(address) == Append(history, address)

Pushed(address) == Append(SubSeq(history, 1, position), address)

\* renderBrowserPage, and the history unless it was moved through.
Arrive(partials) ==
    /\ navigation # None
    /\ navigation' = None
    /\ generation' = generation + 1
    /\ elements' = Rendered(Silenced(elements), DOMAIN elements, {}, generation', partials)
    /\ Fits
    /\ shown' = navigation.to /\ failed' = None
    /\ IF navigation.kind = "visit"
       THEN history' = Pushed(navigation.to) /\ position' = position + 1
       ELSE UNCHANGED <<history, position>>
    /\ astray' = (navigation.kind = "reload" /\ (astray \/ failed # None))

\* renderBrowserError: partials leave the document with the old page, their
\* requests and timers stay.
FailNavigation ==
    /\ navigation # None
    /\ navigation' = None
    /\ failed' = navigation.to
    /\ elements' = Collected(Disconnected(elements, DOMAIN elements))
    /\ UNCHANGED <<history, position, shown, astray, generation>>
-----------------------------------------------------------------------------
(* Partials                                                                *)

Belongs(e) == e.generation = generation /\ e.connected

\* Mutant: a timeout of an element that is gone loads it all the same.
LoadAlways(e) == [e EXCEPT !.loading = TRUE]

\* loadMicronPartial aborts the request before it.
Load(e) == IF Belongs(e) THEN [e EXCEPT !.loading = TRUE] ELSE e

StartPartial(n) ==
    /\ elements[n].start
    /\ elements' = Collected([elements EXCEPT ![n] = Load([@ EXCEPT !.start = FALSE])])
    /\ UNCHANGED <<browser, generation>>

FireTimer(n) ==
    /\ elements[n].timer
    /\ elements' = Collected([elements EXCEPT ![n] = Load([@ EXCEPT !.timer = FALSE])])
    /\ UNCHANGED <<browser, generation>>

\* A link refreshes partials of the document, all or those of one name.
RefreshMicronPartials(ns) ==
    /\ ns # {} /\ \A n \in ns : elements[n].connected
    /\ elements' = [n \in DOMAIN elements |->
                       IF n \in ns THEN Load([elements[n] EXCEPT !.timer = FALSE]) ELSE elements[n]]
    /\ UNCHANGED <<browser, generation>>

\* The answer is shown, or the error, a text without partials; either way an
\* element with an interval that is still in the document refreshes later.
AnswerPartial(n, partials) ==
    /\ elements[n].loading
    /\ LET e == [elements[n] EXCEPT !.loading = FALSE, !.timer = @ \/ (Belongs(elements[n]) /\ elements[n].refreshes)]
           finished == [elements EXCEPT ![n] = e] IN
       elements' = IF Belongs(e)
                   THEN Rendered(finished, Contained(finished, n), e.within \cup {n}, generation, partials)
                   ELSE Collected(finished)
    /\ Fits
    /\ UNCHANGED <<browser, generation>>
-----------------------------------------------------------------------------
ViewNext ==
    \/ \E address \in Addresses : Visit(address)
    \/ \E by \in {-1, 1} : Step(by)
    \/ Reload \/ CancelNavigation \/ FailNavigation
    \/ \E partials \in PartialsOfPage : Arrive(partials)
    \/ \E n \in DOMAIN elements :
          \/ StartPartial(n) \/ FireTimer(n)
          \/ \E partials \in PartialsOfPage : AnswerPartial(n, partials)
    \/ \E ns \in SUBSET DOMAIN elements : RefreshMicronPartials(ns)

ViewSpec == ViewInit /\ [][ViewNext]_viewVars
-----------------------------------------------------------------------------
(* Properties                                                              *)

ViewTypeOK ==
    /\ history \in Seq(Addresses) /\ Len(history) <= MaxHistory
    /\ position \in 0..Len(history)
    /\ shown \in Addresses \cup {None} /\ failed \in Addresses \cup {None}
    /\ navigation \in [to : Addresses, kind : {"visit", "history", "reload"}] \cup {None}
    /\ generation \in 0..MaxPages
    /\ DOMAIN elements \subseteq 1..MaxElements
    /\ \A n \in DOMAIN elements : elements[n] \in Element
    /\ astray \in BOOLEAN

\* Whatever overtakes or cancels what, the history says which page is shown,
\* once the page of the last Back or Forward has come.
HistoryIsKept ==
    /\ (history = <<>>) = (position = 0)
    /\ ~astray /\ history # <<>> => shown = history[position]

\* Nothing of an earlier page is loading or waits for its timer, and a partial
\* that refreshes goes on doing so as long as it is in the document, whatever
\* fails, is refreshed by hand or is nested in what ("timer cancellation on
\* navigation", src/README.md:56-57).
PartialsArePaced ==
    \A n \in DOMAIN elements :
        LET e == elements[n] IN
        /\ e.loading \/ e.timer => e.generation = generation
        /\ e.connected => /\ e.generation = generation
                          /\ \A m \in e.within : m \in DOMAIN elements /\ elements[m].connected
        /\ e.connected /\ e.refreshes => e.start \/ e.timer \/ e.loading

\* What the browser shows and does is that of the page of its history
\* (app.js:712-754, 824-880, 1563-1579).
ViewIsCurrent == HistoryIsKept /\ PartialsArePaced
=============================================================================
