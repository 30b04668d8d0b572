---------------------------- MODULE MCBrowserTabs ----------------------------
(* Instances of BrowserTabs for TLC. *)
EXTENDS BrowserTabs, TLC

CONSTANTS t1, t2, t3, u

Symmetry == Permutations(TabIds)
=============================================================================
