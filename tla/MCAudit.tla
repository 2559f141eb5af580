------------------------------ MODULE MCAudit ------------------------------
(* Model-checking instance of Audit: three nodes holding every segment,    *)
(* one required share so that Correct can single out one altered share of  *)
(* three, two paths, two concurrent audit workers.                         *)
EXTENDS Audit, TLC

CONSTANTS n1, n2, n3, p1, w1, w2

MCNodes == {n1, n2, n3}
MCPaths == {p1}
MCWorkers == {w1, w2}
MCOneWorker == {w1}

MCSymmetry == Permutations(MCNodes)
              \cup Permutations(MCWorkers)
=============================================================================
