SPECIFICATION MCSpec
CONSTANTS
  Keys = {k1, k2}
  MaxTx = 2
  TimerIds = {1, 2}
  Horizon = 3
  TwoThreads = FALSE
  Values = {v1, v2}
  Peers = {p1}
  Senders = {s1}
  MaxConns = 2
  MaxWrites = 2
  MaxSize = 9
  MaxPackets = 3
  MaxCopies = 1
  MaxRecords = 3
  Priorities = {1, 2}
  Weights = {0, 1}
  ProxyIds = {1, 2}
  Hosts = {"h1", "h2"}
  Ports = {1, 5060}
INVARIANTS CooperativeAnswersOnce CooperativeCancelWakes NewestIsReachable TargetsAreOrdered
INVARIANTS PathIsRecorded TransportIsKept RespondsToSource
PROPERTIES TimersFire AcceptedIsReceived DeadIsRetired FramingImplementsStream 
CHECK_DEADLOCK FALSE
