CONSTANTS
  PolicyNames = {"default", "strict", "mixed", "locked"}
SPECIFICATION Spec
INVARIANTS EvidenceNeverHelps TokenAlwaysPasses HighScoreNeverAllowed NetworkNeverAllowed DocumentedUnlessExcepted
CHECK_DEADLOCK FALSE
