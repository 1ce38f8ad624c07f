SPECIFICATION Spec
CONSTANTS
  TimeModulus = 100
  AdcModulus = 8
  Gaps = {0, 1, 2, 4}
  Payloads <- MCPayloads
  MaxTPs = 5
  Defaults <- MCDefaults
  Configs <- MCConfigs
INVARIANTS
  TypeOK
  ChargeIsThatOfTheWindow
  WindowSpan
  NoTPLostEarly
  TAsAreComplete
  NoActivityMissed
PROPERTIES
  SegmentsSpec
CHECK_DEADLOCK FALSE
