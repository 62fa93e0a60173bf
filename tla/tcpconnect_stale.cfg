SPECIFICATION Spec
CONSTANTS
  t1 = t1  t2 = t2  s1 = s1  s2 = s2
  Threads <- MCOneThread
  Idents <- MCIdents
  Socks <- MCSocks
  NoSock = NoSock
  Missing = Missing
  Flows <- MCFlows
  flowOf <- MCFlowOf
  portOf <- MCPortOf
  CPUs = {1}
  filter_pid = 181
  filter_uid = 99
  NoUid = 99
  filter_ports = {80}
  do_count = FALSE
  print_timestamp = TRUE
  MaxSockets = 2
  MaxFlows = 1
  PerfCap = 2
  TsMod = 64
  MaxConnects = 2
  MissedReturns = TRUE
  IdentityChanges = TRUE
  AllocFails = FALSE
INVARIANTS OnlySelected
CHECK_DEADLOCK FALSE
