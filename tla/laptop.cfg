CONSTANTS
  NBackends = 3
  Gpus = {1, 2}
  Sees <- LaptopSees
  Identity <- LaptopIdentity
  Forgetful = {1}
  Fallback <- LaptopFallback
  InitialPower <- LaptopPower
  Blind = {1}
  ReadsPower = {1, 2, 3}
  NoticesLoss = {1, 2}
  Erratic = {1}
  Stillborn = {1}
  Hotplug = {1, 2}
  RuntimePM = {1}
  Retry = 2
  AnonBase = 10
  MaxAnon = 0
  CountMod = 2
SPECIFICATION FairSpec
INVARIANTS
  TypeOK
  EmptyBackendAskedAgain
  OneEntryPerGpu
  ListedInOrder
PROPERTIES
  OnlyTheDeadAreRetired
  ImplementsGpuList
  AwakeGpuGetsListed
  LostGpuGetsUnlisted
