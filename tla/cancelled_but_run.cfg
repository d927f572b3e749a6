CONSTANTS
  s1 = s1
  s2 = s2
  a1 = a1
  a2 = a2
  c1 = c1
  m1 = m1
  m2 = m2
  NoSend = NoSend
  NoCancel = NoCancel
  AnyAgent = AnyAgent
  Sends <- TwoSends
  Agents <- OneAgent
  AgentOf <- SameAgent
  QueueIds = {1, 2}
  MaxFaults = 0
  MaxConcurrent = 1
  Messages <- Msgs
  MessageOf <- MsgOf
  ProviderSends = {}
  PolicyAgents <- PolAgents
  Policies = {}
  PolicySpecs <- NoSpecs
  MaxEdits = 0
  MaxStale = 1
  Cancels <- OneCancel
  SendOf <- CancelFirst
SPECIFICATION Spec
INVARIANTS
  CancelledIsStopped
CHECK_DEADLOCK FALSE
