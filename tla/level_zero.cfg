CONSTANTS
  Cards <- ThreeCards
SPECIFICATION Spec
INVARIANTS
  HandlesAreReal
  RatesAreTrue
  UtilizationIsOfItsClass
  EdgeComesFirst
