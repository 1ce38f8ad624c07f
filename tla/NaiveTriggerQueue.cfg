\* Four TPs through a queue of two; SoftStop() waits once.
SPECIFICATION Spec
CHECK_DEADLOCK FALSE
CONSTANTS
  depth_in = 2
  n_tries = 1
  MaxTPs = 4
INVARIANTS
  TypeOK
  EveryTPInItsPlace
  OneMoreAfterStop
  LastClusterEndsTheFile
PROPERTY
  Termination
