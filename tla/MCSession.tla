----------------------------- MODULE MCSession -----------------------------
(* Instances of Session for TLC. *)
EXTENDS Session, TLC

CONSTANTS n1, n2, x1, p1, p2

Symmetry == Permutations(Names) \cup Permutations(Saves)
=============================================================================
