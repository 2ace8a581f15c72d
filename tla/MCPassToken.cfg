CONSTANTS
  Instances = {g1, g2}
  Keys = {k1, k2, k3}
  NoKey = NoKey
  Missing = Missing
  Empty = Empty
  Clients = {c1}
  Addresses = {a1, a2}
  Agents <- MCAgents
  Policies <- MCPolicies
  Hello = Hello
  TTL = 1
  MaxTime = 2
  NoToken = NoToken
  NoText = NoText
SPECIFICATION Spec
INVARIANTS RunningShareTheFile AcceptedIsBound GoodTokensAreAccepted RoutesAgree
PROPERTIES PersistedKeyStays
CHECK_DEADLOCK FALSE
