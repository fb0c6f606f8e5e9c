------------------------------ MODULE MCService ------------------------------
(***************************************************************************)
(* Small instances of Service for TLC.  Liveness is checked, so there is   *)
(* no symmetry.                                                            *)
(***************************************************************************)
EXTENDS Service

CONSTANTS r1, r2
=============================================================================
