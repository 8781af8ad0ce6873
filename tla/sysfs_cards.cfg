SPECIFICATION Spec
CONSTANTS
  Nodes = {1, 2}
  Gpus = {1, 2}
  Driver <- DriverOf
  Labels <- LabelsOf
  Hwmons = {1}
INVARIANTS
  SteadyCardIsServed
  ReadingsAreOwn
  VacantIsRetired
