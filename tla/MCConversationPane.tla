-------------------------- MODULE MCConversationPane --------------------------
(* A small instance of ConversationPane for TLC.                            *)
EXTENDS ConversationPane

CONSTANTS p1, p2

Symmetry == Permutations({p1, p2})
=============================================================================
