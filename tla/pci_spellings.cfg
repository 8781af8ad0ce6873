CONSTANTS
  Domains <- SomeDomains
  Buses <- SomeBuses
  Devices <- SomeDevices
  Functions <- SomeFunctions
SPECIFICATION PciSpec
CHECK_DEADLOCK FALSE
INVARIANTS
  OneKeyPerCard
