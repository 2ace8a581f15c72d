CONSTANTS
  k1 = k1
  get = get
  post = post
  Requests = {r1, r2}
  Inputs <- MCInputs
  Collectors = 2
  Capacity = 1
  TTL = 1
  MaxTime = 3
  NoDecision = NoDecision
SPECIFICATION Spec
INVARIANTS EntriesBelong
PROPERTIES EveryRequestAnswered ImplementsDecisionService
