SPECIFICATION Spec
CONSTANTS
  ChannelModulus = 1000
  WireIds = {0, 1, 2, 3, 4, 6, 7, 8, 13, 14, 15}
  MaxWires = 5
  ChanLists <- MCChanLists
  Tolerances = {0, 1, 2, 4}
INVARIANTS
  StrictResult
  ResultIsATrack
CHECK_DEADLOCK FALSE
