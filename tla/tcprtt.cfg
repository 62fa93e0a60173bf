SPECIFICATION FairSpec
CONSTANTS
  CPUs = {c1, c2}
  Flows <- MCFlows
  Elems = {e1, e2}
  keyOrder <- MCKeyOrder
  AnyKey <- MCAnyKey
  SrttUs = {23}
  Times <- MCTimes
  targ_ms = FALSE
  MAX_SLOTS = 27
  UIntMod = 256
  Counts = {0, 1, 6, 7, 255}
  Width = 40
  opt_p = 80
  opt_a = NoAddr
  NoAddr = NoAddr
  NoElem = NoElem
  opt_P = 0
  opt_A = NoAddr
  laddr_hist = TRUE
  raddr_hist = FALSE
  extended = TRUE
  MaxSamples = 3
  MaxRounds = 1
INVARIANTS TypeOK SamplesOnce FirstIntervalExact OwnSamples CntZeroOnlyInFlight
  RowContainsTime BarsFit
PROPERTIES OnlyPort StopsWhenAsked
CHECK_DEADLOCK FALSE
