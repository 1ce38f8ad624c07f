SPECIFICATION Spec
CONSTANTS
  TimeModulus = 100
  AdcModulus = 100
  CountModulus = 100
  Regions = {r1, r2}
  Times = {1, 3, 4}
  Payloads <- MCPayloads
  MaxTAs = 4
  SupernovaWindow = 2
  SupernovaThreshold = 1
  SupernovaHitThreshold = 1
  Defaults <- MCDefaults
  Configs <- MCConfigs
SYMMETRY MCSymmetry
INVARIANTS
  MichelTCStartsAtItsFirstTA
CHECK_DEADLOCK FALSE
