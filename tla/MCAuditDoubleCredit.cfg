CONSTANTS
    n1 = n1  n2 = n2  n3 = n3
    p1 = p1
    w1 = w1  w2 = w2
    Nodes <- MCNodes
    Paths <- MCPaths
    Workers <- MCWorkers
    Required = 1
    MaxVersion = 2
    MaxJobs = 3
    MaxFaulty = 1
    NoPending = NoPending
    NoPath = NoPath
SPECIFICATION Spec
INVARIANT PendingAuditCreditedOnce
