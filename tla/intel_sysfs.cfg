CONSTANTS
  Wrap = 5
  MaxGap = 4
  MaxLag = 1
  Files <- TwoFiles
  Bucket <- TheirBuckets
SPECIFICATION Spec
CHECK_DEADLOCK FALSE
INVARIANTS
  BusyIsTrue
  SteadyReasonIsReported
  NoFlagWithoutCause
  GoneIsNoticed
