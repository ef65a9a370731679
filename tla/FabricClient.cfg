SPECIFICATION Spec
CONSTANTS
  MSPIDs <- MCMSPIDs
  Keys <- MCKeys
  Broken = Broken
  Policies <- MCPolicies
  ChaincodeIDs <- MCChaincodeIDs
  Times <- MCTimes
  MaxHeight = 4
  Genesis <- MCGenesis
  Headers <- MCHeaders
  None = None
  k1 = k1
  k2 = k2
  v1 = v1
  v2 = v2
CHECK_DEADLOCK FALSE
INVARIANTS InfosSorted ConsensusContiguous
PROPERTIES BrokenConfigStopsClient ImplementsRegistry ConsensusImmutable UngovernedStaysFixed
