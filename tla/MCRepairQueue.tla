---------------------------- MODULE MCRepairQueue ----------------------------
(* Two repair workers and two injured segments. *)
EXTENDS RepairQueue, TLC

CONSTANTS w1, w2, segA, segB

MCWorkers == {w1, w2}
MCSegments == {segA, segB}
================================================================================
