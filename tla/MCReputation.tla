----------------------------- MODULE MCReputation -----------------------------
(* Reputation instantiated for TLC: two nodes and two concurrent callers. *)
EXTENDS Reputation, TLC

CONSTANTS n1, n2, c1, c2

MCNodes == {n1, n2}
MCCallers == {c1, c2}
MCSymmetry == Permutations(MCNodes) \cup Permutations(MCCallers)
================================================================================
