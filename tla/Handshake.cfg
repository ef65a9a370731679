CONSTANTS
  Relayers = {r1, r2}
  MaxInits = 1
  MaxTries = 1
  MaxHeight = 2
  Times = {11, 12}
SPECIFICATION FairSpec
INVARIANT EndsPaired
PROPERTY HandshakesComplete
