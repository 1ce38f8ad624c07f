SPECIFICATION Spec
CONSTANTS
  TimeModulus = 64
  Gaps = {0, 3, 57}
  Payloads <- MCPayloads
  MaxTPs = 7
  TicksPerUnit = 2
  Fine = 2
  FloatBits = 4
  PoolSize = 6
  Defaults <- MCDefaults
  Configs <- MCConfigs
  FirstTPs <- MCFirstTPs
INVARIANTS
  TypeOK
  ClustersAreThoseOfDBSCAN
  CompletedForGood
  SlotIsFree
CHECK_DEADLOCK FALSE
