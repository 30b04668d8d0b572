----------------------------- MODULE MCSwTunnel -----------------------------
(* SwTunnel on small instances.  A request is a model value; Bodied tells    *)
(* the ones with a body.                                                     *)
EXTENDS SwTunnel, TLC

\* The worker treats its connections alike.
Symmetry == Permutations(Conns)
=============================================================================
