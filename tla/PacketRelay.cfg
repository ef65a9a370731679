SPECIFICATION Spec
CONSTANTS
  Relayers = {r1, r2}
  MaxPackets = 6
  PageLimit = 2
  Radix = 2
  MaxFaults = 1
INVARIANTS ContractAtHand PagesBound
PROPERTIES ImplementsTransfer PagesRelayed
