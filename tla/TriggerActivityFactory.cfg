SPECIFICATION Spec
CONSTANTS
  TimeModulus = 100
  AdcModulus = 8
  Uninitialised = {0, 5}
  CountModulus = 10
  ChannelModulus = 100
  Gaps = {0, 1, 2, 4, 6}
  Payloads <- MCPayloads
  MaxTPs = 6
  Defaults <- MCDefaults
  Configs <- MCConfigs
  Streams <- MCStreams
  PlaneOf <- MCPlaneOf
  BraggHits = 2
  KinkMinimum = 1
  KinkTicks = 3
  KinkWires = 6
  TimeTolerance = 2
  ChannelTolerance = 2
INVARIANTS
  TypeOK
  TotalsAgree
  WindowSpan
  NothingLost
  OneInPrescale
  NoActivityMissed
  TAsJustified
PROPERTIES
  SegmentsSpec
CHECK_DEADLOCK FALSE
