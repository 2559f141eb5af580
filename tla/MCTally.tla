------------------------------- MODULE MCTally -------------------------------
EXTENDS Tally, TLC

CONSTANTS x1, x2, o1, o2

MCSubmitters == {x1, x2}
MCSerials == {o1, o2}
================================================================================
