CONSTANTS
  Vendors = {"nvml", "adlx", "level-zero"}
  Gpus = {g1, g2, g3}
  Apis = {1, 2, 3, 4}
  MaxStray = 2
SPECIFICATION Spec
CHECK_DEADLOCK FALSE
INVARIANTS
  DriversAreServed
  NothingLeaks
PROPERTIES
  NoCallAfterUnload
