------------------------------- MODULE MCTasks -------------------------------
(***************************************************************************)
(* A small instance of Tasks for TLC.  Liveness is checked and hashes are  *)
(* ordered, so there is no symmetry.                                       *)
(***************************************************************************)
EXTENDS Tasks, TLC

CONSTANTS n1, h1, r1, R1, r2

Says(name, active) == [name |-> name, active |-> active]
From(d, hops, data) == [from |-> d, hops |-> hops, data |-> data]

\* Node 1 is active, moves away without app data and retires; node 2 is active
\* and near or far; a peer takes the place of one of them in the table.
MCArriving ==
    {From(1, 1, Says(n1, TRUE)), From(1, 2, NoData), From(1, 2, Says(NoName, FALSE)),
     From(2, 1, NoData), From(2, 2, Says(NoName, TRUE)), From(2, 1, Says(n1, FALSE)),
     From(3, 1, Says(n1, TRUE))}

\* normalize_room: trimmed, without # and in lower case.
MCNormal == r1 :> r1 @@ R1 :> r1 @@ r2 :> r2
=============================================================================
