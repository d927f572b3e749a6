CONSTANTS
  a1 = a1
  x1 = x1
  x2 = x2
  r1 = r1
  r2 = r2
  NoRules = NoRules
  NoAccount = NoAccount
  Accounts = {x1, x2}
  Agents = {a1}
  Rules = {r1, r2}
  Specs <- SomeSpecs
  AgentIds = {1, 2}
  MaxUids = 2
  MaxTrouble = 1
SPECIFICATION AgentSpecification
INVARIANTS
  NoOrphans
  NoWorkLost
PROPERTIES
  AgentIDStable
  ComesUp
  DeletionCompletes
CHECK_DEADLOCK FALSE
