CONSTANTS
  PolicyNames = {"strict"}
SPECIFICATION Spec
INVARIANTS FallThroughGetsDefault
CHECK_DEADLOCK FALSE
