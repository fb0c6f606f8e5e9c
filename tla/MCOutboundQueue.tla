-------------------------- MODULE MCOutboundQueue --------------------------
(***************************************************************************)
(* Small instances of OutboundQueue and of its refinement for TLC.         *)
(* Liveness is checked, so there is no symmetry.                           *)
(***************************************************************************)
EXTENDS OutboundRefinement
=============================================================================
