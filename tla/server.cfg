CONSTANTS
  s1 = s1
  s2 = s2
  a1 = a1
  a2 = a2
  NoSend = NoSend
  Sends = {s1, s2}
  Agents = {a1, a2}
  AgentOf <- OwnAgent
  QueueIds = {1, 2, 3}
  MaxFaults = 1
  MaxConcurrent = 2
SPECIFICATION FairServerSpec
INVARIANTS
  PermitsAddUp
  ActiveSessionsAreLive
  QueueHoldsTheQueued
  ResponsesAreEarned
PROPERTIES
  ItemsDrain
CHECK_DEADLOCK FALSE
