CONSTANTS
  a1 = a1
  a2 = a2
  s1 = s1
  s2 = s2
  s3 = s3
  t1 = t1
  t2 = t2
  m1 = m1
  m2 = m2
  x1 = x1
  n1 = n1
  n2 = n2
  red = red
  blue = blue
  NoSpec = NoSpec
  NoTenant = NoTenant
  Agents = {a1, a2}
  Sessions = {s1, s2, s3}
  Teams = {t1, t2}
  Messages = {m1, m2}
  ToolServers = {x1}
  SpecsOf <- SpecOfEach
  Plans <- Scenarios
  MaxTrouble = 1
  Names = {n1, n2}
  NameOf <- TwoNames
  Tenants = {red, blue}
SPECIFICATION FairSpec
INVARIANTS
  TypeOK
  NoOrphanNamespace
  ActiveSessionIsReady
  NoKeyLost
  ActiveTeamDelegates
  UndisturbedPostedOnce
PROPERTIES
  MessageOutcomeIsFinal
  MessagesAreDecided
  SessionsEnd
CHECK_DEADLOCK FALSE
