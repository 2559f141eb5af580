\* An uplink and a repairer on the same path, with no faults.
CONSTANTS
  c1 = c1  c2 = c2
  n1 = n1  n2 = n2  n3 = n3  n4 = n4  n5 = n5
  Clients <- MCTwoClients
  Nodes <- MCNodes
  Total = 3
  MinReq = 2
  MaxPuts = 2
  MaxLosses = 0
  Faults = FALSE
  Nil = Nil
  NoPointer = NoPointer
SYMMETRY MCSymmetry
SPECIFICATION Spec
INVARIANT NoResurrection
