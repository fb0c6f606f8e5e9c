-------------------------------- MODULE Schema --------------------------------
(***************************************************************************)
(* Database::open of src/src/db.rs: what a process does to the schema of   *)
(* the database before it serves.  Every statement commits on its own, so  *)
(* a stop, or a second process that opens the same file, comes between any *)
(* two of them; a start also opens the database before it finds out that   *)
(* another process holds the listening address.  Binaries of several       *)
(* versions are installed one after another.                               *)
(***************************************************************************)
EXTENDS Integers

CONSTANTS
    Processes,
    Versions,    \* CURRENT_SCHEMA_VERSION of the binaries that may be started
    Older,       \* versions of databases that earlier builds left behind
    Tables,      \* what CREATE ... IF NOT EXISTS makes and
    Columns      \* what ensure_column adds, named by the version it came with

ASSUME SchemaAssumption ==
    /\ Versions \subseteq Nat \ {0} /\ Older \subseteq Nat \ {0}
    /\ Tables \subseteq Nat \ {0} /\ Columns \subseteq Nat \ {0}

VARIABLES
    rows,         \* the rows of schema_version, persistent
    schema,       \* the tables and columns there are, persistent
    keys,         \* whether rrc_rooms holds a room key, persistent
    phase,        \* how far each process is
    version,      \* CURRENT_SCHEMA_VERSION of each process
    todo,         \* what it has left to create or to look for
    missing,      \* the column it has not found in PRAGMA table_info
    undisturbed,  \* whether it has opened the database alone
    newest        \* the newest version that has opened the database

stored == <<rows, schema, keys>>
progress == <<phase, version, todo, missing>>
vars == <<rows, schema, keys, phase, version, todo, missing, undisturbed, newest>>

TablesOf(v) == {t \in Tables : t <= v}
ColumnsOf(v) == {c \in Columns : c <= v}

Opening(p) == phase[p] \notin {"down", "running"}

\* No database, or one that an earlier build has left.
Init ==
    /\ \/ rows = {} /\ schema = {} /\ keys = FALSE
       \/ \E v \in Older :
             rows = {v} /\ schema = TablesOf(v) \cup ColumnsOf(v) /\ keys \in BOOLEAN
    /\ phase = [p \in Processes |-> "down"]
    /\ version \in [Processes -> Versions]
    /\ todo = [p \in Processes |-> {}]
    /\ missing = [p \in Processes |-> {}]
    /\ undisturbed = [p \in Processes |-> FALSE]
    /\ newest = 0
-----------------------------------------------------------------------------
(* A start                                                                 *)

Start(p, v) ==
    /\ phase[p] = "down"
    /\ phase' = [phase EXCEPT ![p] = "marking"]
    /\ version' = [version EXCEPT ![p] = v]
    /\ undisturbed' = [q \in Processes |-> q = p /\ \A r \in Processes : ~Opening(r)]
    /\ UNCHANGED <<stored, todo, missing, newest>>

Goto(p, next) == phase' = [phase EXCEPT ![p] = next]

\* Mutant: the first version is numbered 0.
CountsFromZero(p) == rows \cup {0}
Marked(p) == rows \cup {1}

\* INSERT OR IGNORE INTO schema_version(version) VALUES (1)
Mark(p) ==
    /\ phase[p] = "marking"
    /\ rows' = Marked(p)
    /\ todo' = [todo EXCEPT ![p] = TablesOf(version[p])]
    /\ Goto(p, "creating")
    /\ UNCHANGED <<schema, keys, version, missing, undisturbed, newest>>

\* CREATE TABLE IF NOT EXISTS
Create(p, t) ==
    /\ phase[p] = "creating" /\ t \in todo[p]
    /\ schema' = schema \cup {t}
    /\ todo' = [todo EXCEPT ![p] = @ \ {t}]
    /\ UNCHANGED <<rows, keys, phase, version, missing, undisturbed, newest>>

\* Mutant: in a new database the tables are taken for complete.
TrustsNew(p) == IF rows = {1} THEN {} ELSE ColumnsOf(version[p])
ColumnsToCheck(p) == ColumnsOf(version[p])

\* The unique index that is made after the last column (db.rs:201) is part of
\* this step: all that it can do to the start is to fail, as Stop does.
Created(p) ==
    /\ phase[p] = "creating" /\ todo[p] = {}
    /\ todo' = [todo EXCEPT ![p] = ColumnsToCheck(p)]
    /\ Goto(p, "altering")
    /\ UNCHANGED <<stored, version, missing, undisturbed, newest>>

\* ensure_column reads which columns there are ...
Look(p, c) ==
    /\ phase[p] = "altering" /\ c \in todo[p]
    /\ IF c \in schema
       THEN todo' = [todo EXCEPT ![p] = @ \ {c}] /\ UNCHANGED <<phase, missing>>
       ELSE Goto(p, "adding") /\ missing' = [missing EXCEPT ![p] = {c}] /\ UNCHANGED todo
    /\ UNCHANGED <<stored, version, undisturbed, newest>>

\* ... and adds the one that was missing, ALTER TABLE ADD COLUMN, ...
Add(p) ==
    /\ phase[p] = "adding" /\ missing[p] \cap schema = {}
    /\ schema' = schema \cup missing[p]
    /\ todo' = [todo EXCEPT ![p] = @ \ missing[p]]
    /\ missing' = [missing EXCEPT ![p] = {}]
    /\ Goto(p, "altering")
    /\ UNCHANGED <<rows, keys, version, undisturbed, newest>>

Gone(p) ==
    /\ Goto(p, "down")
    /\ todo' = [todo EXCEPT ![p] = {}]
    /\ missing' = [missing EXCEPT ![p] = {}]
    /\ UNCHANGED <<stored, version, undisturbed, newest>>

\* ... which fails when another process has added it meanwhile.
AddTwice(p) == phase[p] = "adding" /\ missing[p] \cap schema # {} /\ Gone(p)

KeysAfter(p) == FALSE

\* UPDATE rrc_rooms SET room_key = NULL
ClearKeys(p) ==
    /\ phase[p] = "altering" /\ todo[p] = {}
    /\ keys' = KeysAfter(p)
    /\ Goto(p, "checking")
    /\ UNCHANGED <<rows, schema, version, todo, missing, undisturbed, newest>>

\* version > CURRENT_SCHEMA_VERSION
TooNew(p) == \E v \in rows : v > version[p]

Reject(p) == phase[p] = "checking" /\ TooNew(p) /\ Gone(p)

Accept(p) ==
    /\ phase[p] = "checking" /\ ~TooNew(p)
    /\ Goto(p, "deleting")
    /\ UNCHANGED <<stored, version, todo, missing, undisturbed, newest>>

\* Mutant: only the mark of a new database is removed.
DeletesMark(p) == rows \ {1}
RowsKept(p) == {}

\* DELETE FROM schema_version
Delete(p) ==
    /\ phase[p] = "deleting"
    /\ rows' = RowsKept(p)
    /\ Goto(p, "inserting")
    /\ UNCHANGED <<schema, keys, version, todo, missing, undisturbed, newest>>

\* INSERT INTO schema_version; the process now serves.
Insert(p) ==
    /\ phase[p] = "inserting" /\ version[p] \notin rows
    /\ rows' = rows \cup {version[p]}
    /\ newest' = IF version[p] > newest THEN version[p] ELSE newest
    /\ Goto(p, "running")
    /\ UNCHANGED <<schema, keys, version, todo, missing, undisturbed>>

\* version is the primary key.
InsertTwice(p) == phase[p] = "inserting" /\ version[p] \in rows /\ Gone(p)

\* The process is stopped, or a statement fails and open gives up.
Stop(p) == phase[p] # "down" /\ Gone(p)

Next == \E p \in Processes :
    \/ \E v \in Versions : Start(p, v)
    \/ Mark(p)
    \/ \E t \in Tables : Create(p, t)
    \/ Created(p)
    \/ \E c \in Columns : Look(p, c)
    \/ Add(p) \/ AddTwice(p)
    \/ ClearKeys(p)
    \/ Accept(p) \/ Reject(p)
    \/ Delete(p) \/ Insert(p) \/ InsertTwice(p)
    \/ Stop(p)

Spec == Init /\ [][Next]_vars
-----------------------------------------------------------------------------
(* Properties                                                              *)

Phases == {"down", "marking", "creating", "altering", "adding", "checking",
           "deleting", "inserting", "running"}

\* The types of the file and of the processes that open it.
TypeOK ==
    /\ rows \subseteq Nat \ {0}
    /\ schema \subseteq Tables \cup Columns
    /\ keys \in BOOLEAN
    /\ phase \in [Processes -> Phases]
    /\ version \in [Processes -> Versions]
    /\ todo \in [Processes -> SUBSET (Tables \cup Columns)]
    /\ missing \in [Processes -> SUBSET Columns]
    /\ undisturbed \in [Processes -> BOOLEAN]
    /\ newest \in Nat

\* A process serves only on a database with every table and column its
\* statements name and without a room key of an older build, whatever state
\* earlier starts were stopped in and whatever another process does at the same
\* time (db.rs:60-228; "upgrading to schema v7 clears keys persisted by older
\* builds", src/README.md:160).
RunningIsComplete ==
    \A p \in Processes : phase[p] = "running" =>
        /\ TablesOf(version[p]) \cup ColumnsOf(version[p]) \subseteq schema
        /\ ~keys

\* A start that was stopped anywhere can be repeated: ALTER TABLE and the
\* INSERT of the version, which fail when they are done twice, find nothing of
\* an earlier start, unless another process opens the database meanwhile
\* (db.rs:183-224, 1205-1221).
StartIsRepeatable ==
    \A p \in Processes : undisturbed[p] =>
        /\ phase[p] = "adding" => missing[p] \cap schema = {}
        /\ phase[p] = "inserting" => version[p] \notin rows

\* "startup rejection of databases created by newer incompatible versions"
\* (src/README.md:74).
NewerIsRejected == \A p \in Processes : phase[p] = "running" => newest <= version[p]
=============================================================================
