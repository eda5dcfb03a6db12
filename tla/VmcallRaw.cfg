SPECIFICATION FairSpec
CONSTANTS
  a1 = a1  a2 = a2  b1 = b1  b2 = b2  A = A  B = B
  Ends <- MCEnds
  PeerOf <- MCPeers
  NodeOf <- MCNodes
  Workloads <- MCWorkloads
  MTU = 2
INVARIANTS TypeOK StreamIntegrity NoByteLost ContextKept
PROPERTIES EveryReadAdvances EverySessionEnds
CHECK_DEADLOCK FALSE
