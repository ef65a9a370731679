SPECIFICATION RelaySpec
CONSTANTS
  MSPIDs <- MCMSPIDs
  Keys <- MCKeys
  Broken = Broken
  Policies <- MCPolicies
  ChaincodeIDs <- MCVersions
  Times <- MCTimes
  MaxHeight = 4
  Genesis <- MCGenesis
  Headers = {}
  MinTimeInterval = 1
  Endorsers <- MCEndorsers
  PacketTimeouts <- MCPacketTimeouts
  Nanoseconds = 10
  None = None
  k1 = k1
CHECK_DEADLOCK FALSE
INVARIANTS ClientFollowsLog NextHeaderAccepted NoEarlyTimeout TimestampsNeverTimeOut
PROPERTIES StrandedForever CatchesUp
