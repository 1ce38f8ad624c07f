SPECIFICATION Spec
CONSTANTS
  Models <- MCModels
  Defaults <- MCDefaults
  Configs <- MCConfigs
  MaxTPs = 5
INVARIANTS
  WaitsForTheTPs
CHECK_DEADLOCK FALSE
