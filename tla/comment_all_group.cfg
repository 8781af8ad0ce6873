CONSTANTS
  Cards <- GrouplessCard
SPECIFICATION Spec
INVARIANT AllIsTheHonestAnswer
