---------------------------- MODULE MCSequenceModel ----------------------------
(* Three addresses, two values, two widgets; those of a kind are alike.        *)
EXTENDS SequenceModel, TLC
CONSTANTS k1, k2, k3, x1, x2, a, b
MCKey == {k1, k2, k3}
MCValue == {x1, x2}
MCWidget == {a, b}
Symmetry == Permutations(MCKey) \cup Permutations(MCValue) \cup Permutations(MCWidget)
===============================================================================
