CONSTANTS
  Libraries <- UsualLibrary
SPECIFICATION Spec
CHECK_DEADLOCK FALSE
INVARIANT EnginesWereTouched
