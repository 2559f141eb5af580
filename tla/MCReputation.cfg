\* Serializable transactions: the overlay cache refines the atomic store.
CONSTANTS
  n1 = n1
  n2 = n2
  c1 = c1
  c2 = c2
  Nodes <- MCNodes
  Callers <- MCCallers
  NoRow = NoRow
  NoCall = NoCall
  Isolation = "serializable"
  MaxCalls = 4
SPECIFICATION Spec
INVARIANT TypeOK
PROPERTY AtomicUpdates
