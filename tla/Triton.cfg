SPECIFICATION Spec
CONSTANTS
  Models <- MCModels
  Defaults <- MCDefaults
  Configs <- MCConfigs
  MaxTPs = 5
INVARIANTS
  TypeOK
  RequestsKeepApart
PROPERTIES
  DispatchEnds
CHECK_DEADLOCK FALSE
