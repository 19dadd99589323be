CONSTANTS
  Insns <- MCInsns
  Words <- MCWords
SPECIFICATION Spec
CHECK_DEADLOCK FALSE
INVARIANTS
  RoundTrip
  LosesNothing
