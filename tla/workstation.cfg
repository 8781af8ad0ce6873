CONSTANTS
  NBackends = 2
  Gpus = {1, 2}
  Sees <- WorkstationSees
  Identity <- WorkstationIdentity
  Forgetful = {}
  Fallback <- WorkstationIdentity
  InitialPower <- WorkstationPower
  Blind = {1}
  ReadsPower = {1}
  NoticesLoss = {1}
  Erratic = {1}
  Stillborn = {1, 2}
  Hotplug = {1, 2}
  RuntimePM = {2}
  Retry = 2
  AnonBase = 10
  MaxAnon = 2
  CountMod = 2
  Numeral <- Numerals
  CommandLines <- UpToThreeWords
  Infos <- TheInfos
  Samples <- TheSamples
  Host <- TheHost
SPECIFICATION ProgramSpec
CHECK_DEADLOCK FALSE
INVARIANTS
  OneEntryPerKey
  LiveCountsExact
  PassCoversTheSurvivors
  ArgumentsAreObeyed
  SteadyGpuHasRates
  DumpReadsBack
  ReprobeIsRare
PROPERTIES
  CallsEnd
