SPECIFICATION Spec
CONSTANTS
  TimeModulus = 2
  Gaps = {0, 1}
  Payloads <- CorePayloads
  MaxTPs = 7
  TicksPerUnit = 1
  Fine = 1
  FloatBits = 4
  PoolSize = 8
  Defaults <- CoreDefaults
  Configs <- CoreConfigs
  FirstTPs <- CoreFirstTPs
INVARIANTS
  EveryCoreHitIsInACluster
CHECK_DEADLOCK FALSE
