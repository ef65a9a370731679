SPECIFICATION Spec
CONSTANTS
  Peers <- MCPeers
  Quorums <- MCQuorums
  Clients = {c1, c2}
  MinTimeInterval = 1
  MaxTimestampDiff = 1
  MaxSkew = 3
  None = None
  p1 = p1
  p2 = p2
  p3 = p3
INVARIANT WaitBounded
PROPERTY KeepsAdvancing
