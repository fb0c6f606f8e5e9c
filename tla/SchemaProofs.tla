----------------------------- MODULE SchemaProofs -----------------------------
(***************************************************************************)
(* Schema, for any number of processes and versions: a process that serves *)
(* has a complete schema without room keys, and an interrupted start can   *)
(* be repeated.                                                            *)
(***************************************************************************)
EXTENDS Schema, TLAPS

LEMMA InitTyped == Init => TypeOK
<1> SUFFICES ASSUME Init PROVE TypeOK
    OBVIOUS
<1> USE SchemaAssumption
<1>1. rows \subseteq Nat \ {0} /\ schema \subseteq Tables \cup Columns /\ keys \in BOOLEAN
      BY DEF Init, TablesOf, ColumnsOf
<1> QED BY <1>1 DEF Init, TypeOK, Phases

LEMMA TypeStep == TypeOK /\ [Next]_vars => TypeOK'
<1> SUFFICES ASSUME TypeOK, [Next]_vars PROVE TypeOK'
    OBVIOUS
<1> USE SchemaAssumption DEF TypeOK, Phases, stored, Goto, Gone
<1>1. CASE UNCHANGED vars
      BY <1>1 DEF vars
<1>2. ASSUME NEW p \in Processes, NEW v \in Versions, Start(p, v) PROVE TypeOK'
      BY <1>2 DEF Start
<1>3. ASSUME NEW p \in Processes, Mark(p) PROVE TypeOK'
      BY <1>3 DEF Mark, Marked, TablesOf
<1>4. ASSUME NEW p \in Processes, NEW t \in Tables, Create(p, t) PROVE TypeOK'
      BY <1>4 DEF Create
<1>5. ASSUME NEW p \in Processes, Created(p) PROVE TypeOK'
      BY <1>5 DEF Created, ColumnsToCheck, ColumnsOf
<1>6. ASSUME NEW p \in Processes, NEW c \in Columns, Look(p, c) PROVE TypeOK'
      BY <1>6 DEF Look
<1>7. ASSUME NEW p \in Processes, Add(p) PROVE TypeOK'
      BY <1>7 DEF Add
<1>8. ASSUME NEW p \in Processes, Gone(p) PROVE TypeOK'
      BY <1>8
<1>9. ASSUME NEW p \in Processes, ClearKeys(p) PROVE TypeOK'
      BY <1>9 DEF ClearKeys, KeysAfter
<1>10. ASSUME NEW p \in Processes, Accept(p) PROVE TypeOK'
      BY <1>10 DEF Accept
<1>11. ASSUME NEW p \in Processes, Delete(p) PROVE TypeOK'
      BY <1>11 DEF Delete, RowsKept
<1>12. ASSUME NEW p \in Processes, Insert(p) PROVE TypeOK'
      BY <1>12 DEF Insert
<1> QED BY <1>1, <1>2, <1>3, <1>4, <1>5, <1>6, <1>7, <1>8, <1>9, <1>10, <1>11, <1>12
        DEF Next, AddTwice, Reject, InsertTwice, Stop

\* Every value of every variable is one the code can give it.
THEOREM TypeCorrect == Spec => []TypeOK
<1> QED BY InitTyped, TypeStep, PTL DEF Spec
-----------------------------------------------------------------------------
\* What a process that has come some way has seen to.
TablesAreMade ==
    \A p \in Processes :
        /\ phase[p] = "creating" => TablesOf(version[p]) \ todo[p] \subseteq schema
        /\ phase[p] \notin {"down", "marking", "creating"} => TablesOf(version[p]) \subseteq schema

ColumnsAreMade ==
    \A p \in Processes :
        /\ phase[p] \in {"altering", "adding"} => ColumnsOf(version[p]) \ todo[p] \subseteq schema
        /\ phase[p] \in {"checking", "deleting", "inserting", "running"} =>
              ColumnsOf(version[p]) \subseteq schema

KeysAreGone ==
    \A p \in Processes :
        phase[p] \in {"checking", "deleting", "inserting", "running"} => ~keys

Progress == TypeOK /\ TablesAreMade /\ ColumnsAreMade /\ KeysAreGone

\* An undisturbed start is the only one.
UndisturbedIsAlone ==
    \A p \in Processes : undisturbed[p] /\ Opening(p) =>
        \A q \in Processes : Opening(q) => q = p

Repeatable == TypeOK /\ UndisturbedIsAlone /\ StartIsRepeatable

LEMMA ProgressInit == Init => Progress
<1> QED BY InitTyped DEF Init, Progress, TablesAreMade, ColumnsAreMade, KeysAreGone

LEMMA ProgressStep == Progress /\ [Next]_vars => Progress'
<1> SUFFICES ASSUME Progress, [Next]_vars PROVE Progress'
    OBVIOUS
<1>0. TypeOK /\ TypeOK'
      BY TypeStep DEF Progress
<1> DEFINE P == TablesAreMade' /\ ColumnsAreMade' /\ KeysAreGone'
<1> USE <1>0 DEF Progress, TypeOK, TablesAreMade, ColumnsAreMade, KeysAreGone, stored, Goto, Gone
<1>1. CASE UNCHANGED vars
      BY <1>1 DEF vars
<1>2. ASSUME NEW p \in Processes, NEW v \in Versions, Start(p, v) PROVE P
      BY <1>2 DEF Start
<1>3. ASSUME NEW p \in Processes, Mark(p) PROVE P
      BY <1>3 DEF Mark
<1>4. ASSUME NEW p \in Processes, NEW t \in Tables, Create(p, t) PROVE P
      BY <1>4 DEF Create
<1>5. ASSUME NEW p \in Processes, Created(p) PROVE P
      BY <1>5 DEF Created, ColumnsToCheck
<1>6. ASSUME NEW p \in Processes, NEW c \in Columns, Look(p, c) PROVE P
      BY <1>6 DEF Look
<1>7. ASSUME NEW p \in Processes, Add(p) PROVE P
      BY <1>7 DEF Add
<1>8. ASSUME NEW p \in Processes, Gone(p) PROVE P
      BY <1>8
<1>9. ASSUME NEW p \in Processes, ClearKeys(p) PROVE P
      BY <1>9 DEF ClearKeys, KeysAfter
<1>10. ASSUME NEW p \in Processes, Accept(p) PROVE P
      BY <1>10 DEF Accept
<1>11. ASSUME NEW p \in Processes, Delete(p) PROVE P
      BY <1>11 DEF Delete
<1>12. ASSUME NEW p \in Processes, Insert(p) PROVE P
      BY <1>12 DEF Insert
<1> QED BY <1>1, <1>2, <1>3, <1>4, <1>5, <1>6, <1>7, <1>8, <1>9, <1>10, <1>11, <1>12
        DEF Next, AddTwice, Reject, InsertTwice, Stop

LEMMA RepeatableInit == Init => Repeatable
<1> QED BY InitTyped DEF Init, Repeatable, UndisturbedIsAlone, StartIsRepeatable, Opening

LEMMA RepeatableStep == Repeatable /\ [Next]_vars => Repeatable'
<1> SUFFICES ASSUME Repeatable, [Next]_vars PROVE Repeatable'
    OBVIOUS
<1>0. TypeOK /\ TypeOK'
      BY TypeStep DEF Repeatable
<1> DEFINE P == UndisturbedIsAlone' /\ StartIsRepeatable'
<1> USE <1>0 DEF Repeatable, TypeOK, UndisturbedIsAlone, StartIsRepeatable, Opening, stored, Goto, Gone
<1>1. CASE UNCHANGED vars
      BY <1>1 DEF vars
<1>2. ASSUME NEW p \in Processes, NEW v \in Versions, Start(p, v) PROVE P
      BY <1>2 DEF Start
<1>3. ASSUME NEW p \in Processes, Mark(p) PROVE P
      BY <1>3 DEF Mark
<1>4. ASSUME NEW p \in Processes, NEW t \in Tables, Create(p, t) PROVE P
      BY <1>4 DEF Create
<1>5. ASSUME NEW p \in Processes, Created(p) PROVE P
      BY <1>5 DEF Created
<1>6. ASSUME NEW p \in Processes, NEW c \in Columns, Look(p, c) PROVE P
      BY <1>6 DEF Look
<1>7. ASSUME NEW p \in Processes, Add(p) PROVE P
      BY <1>7 DEF Add
<1>8. ASSUME NEW p \in Processes, Gone(p) PROVE P
      BY <1>8
<1>9. ASSUME NEW p \in Processes, ClearKeys(p) PROVE P
      BY <1>9 DEF ClearKeys
<1>10. ASSUME NEW p \in Processes, Accept(p) PROVE P
      BY <1>10 DEF Accept
<1>11. ASSUME NEW p \in Processes, Delete(p) PROVE P
      BY <1>11 DEF Delete, RowsKept
<1>12. ASSUME NEW p \in Processes, Insert(p) PROVE P
      BY <1>12 DEF Insert
<1> QED BY <1>1, <1>2, <1>3, <1>4, <1>5, <1>6, <1>7, <1>8, <1>9, <1>10, <1>11, <1>12
        DEF Next, AddTwice, Reject, InsertTwice, Stop

\* A process that serves has every table and column its statements name, and no
\* room key of an older build is on disk.
THEOREM ServesComplete == Spec => []RunningIsComplete
<1>1. Progress => RunningIsComplete
      BY DEF Progress, TablesAreMade, ColumnsAreMade, KeysAreGone, RunningIsComplete
<1> QED BY <1>1, ProgressInit, ProgressStep, PTL DEF Spec

\* A start can be repeated after a stop at any statement.
THEOREM InterruptedStartRepeats == Spec => []StartIsRepeatable
<1>1. Repeatable => StartIsRepeatable
      BY DEF Repeatable
<1> QED BY <1>1, RepeatableInit, RepeatableStep, PTL DEF Spec
=============================================================================
