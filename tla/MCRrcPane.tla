------------------------------ MODULE MCRrcPane ------------------------------
(* A small instance of RrcPane for TLC.                                    *)
EXTENDS RrcPane, TLC

CONSTANTS h1, h2, a, b

Symmetry == Permutations({a, b})

OneHub == {<<h1, a>>, <<h1, b>>}
=============================================================================
