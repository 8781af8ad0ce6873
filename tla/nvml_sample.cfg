CONSTANTS
  Libraries <- TwoLibraries
SPECIFICATION Spec
CHECK_DEADLOCK FALSE
INVARIANTS
  HealthyUntilLost
  LostSampleIsEmpty
  BufferHoldsCount
  ReportedWereThere
  StayersAreReported
