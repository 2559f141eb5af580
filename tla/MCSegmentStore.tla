---------------------------- MODULE MCSegmentStore ----------------------------
(* SegmentStore instantiated for TLC: one or two clients, five storage    *)
(* nodes, three pieces of which two decode.                                *)
EXTENDS SegmentStore, TLC

CONSTANTS c1, c2, n1, n2, n3, n4, n5

MCOneClient == {c1}
MCTwoClients == {c1, c2}
MCNodes == {n1, n2, n3, n4, n5}

\* The storage nodes are interchangeable.
MCSymmetry == Permutations(MCNodes)
================================================================================
