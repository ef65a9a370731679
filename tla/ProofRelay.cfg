SPECIFICATION ProofSpec
CONSTANTS
  MSPIDs <- MCMSPIDs
  Keys <- MCKeys
  Broken = Broken
  Policies <- MCPolicies
  ChaincodeIDs <- MCVersions
  Times <- MCTimes
  MaxHeight = 2
  Genesis <- MCGenesis
  Headers = {}
  MinTimeInterval = 1
  Endorsers <- MCEndorsers
  StoreKeys <- MCStoreKeys
  MaxValue = 2
  MaxMessages = 1
  Deleted = Deleted
  None = None
  k1 = k1
CHECK_DEADLOCK FALSE
INVARIANTS AcceptedWasCommitted AcceptedStillHolds
PROPERTY ProofsBecomeVerifiable
