CONSTANTS
  PolicyNames = {"strict"}
SPECIFICATION Spec
INVARIANTS DatacenterAndTorDenied
CHECK_DEADLOCK FALSE
