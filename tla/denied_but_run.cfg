CONSTANTS
  s1 = s1
  s2 = s2
  a1 = a1
  a2 = a2
  c1 = c1
  m1 = m1
  m2 = m2
  NoSend = NoSend
  NoCancel = NoCancel
  AnyAgent = AnyAgent
  Sends <- OneSend
  Agents <- OneAgent
  AgentOf <- SameAgent
  QueueIds = {1, 2, 3}
  MaxFaults = 1
  MaxConcurrent = 1
  Messages <- Msgs
  MessageOf <- MsgOf
  ProviderSends = {}
  PolicyAgents <- PolAgents
  Policies = {"p"}
  PolicySpecs <- DenySpecs
  MaxEdits = 2
  MaxStale = 1
  Cancels = {}
  SendOf <- CancelFirst
SPECIFICATION Spec
INVARIANTS
  DeniedIsBlocked
CHECK_DEADLOCK FALSE
