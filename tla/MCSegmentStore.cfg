\* One client: Put, Delete and Repair of the path in any order, with failing
\* and partly failing ec and pdb calls and a storage node losing a piece.
CONSTANTS
  c1 = c1  c2 = c2
  n1 = n1  n2 = n2  n3 = n3  n4 = n4  n5 = n5
  Clients <- MCOneClient
  Nodes <- MCNodes
  Total = 3
  MinReq = 2
  MaxPuts = 2
  MaxLosses = 1
  Faults = TRUE
  Nil = Nil
  NoPointer = NoPointer
SYMMETRY MCSymmetry
SPECIFICATION Spec
INVARIANT PieceNodesDistinct
INVARIANT PointerPiecesPlaced
PROPERTY RepairAvoidsReadNodes
