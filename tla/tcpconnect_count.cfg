SPECIFICATION FairSpec
CONSTANTS
  t1 = t1  t2 = t2  s1 = s1  s2 = s2
  Threads <- MCThreads
  Idents <- MCOneIdent
  Socks <- MCSocks
  NoSock = NoSock
  Missing = Missing
  Flows <- MCFlows
  flowOf <- MCFlowOf
  portOf <- MCPortOf
  CPUs = {1}
  filter_pid = 0
  filter_uid = 99
  NoUid = 99
  filter_ports = {}
  do_count = TRUE
  print_timestamp = TRUE
  MaxSockets = 2
  MaxFlows = 1
  PerfCap = 2
  TsMod = 64
  MaxConnects = 2
  MissedReturns = FALSE
  IdentityChanges = FALSE
  AllocFails = FALSE
INVARIANTS CountsExact
PROPERTIES StopsWhenAsked
CHECK_DEADLOCK FALSE
