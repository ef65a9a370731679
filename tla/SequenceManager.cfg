SPECIFICATION Spec
CONSTANTS
  Peers = {p1, p2, p3}
  Quorums <- Majorities
  Clients = {c1, c2}
  MinTimeInterval = 1
  MaxTimestampDiff = 1
  StartTime = 2
  MaxTime = 4
  MaxSequence = 3
  MaxEpoch = 2
  None = None
SYMMETRY Symmetry
INVARIANTS HistoryComplete PendingFresh
PROPERTIES BlockNeverGoesBack ImplementsLog
