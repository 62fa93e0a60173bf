SPECIFICATION Spec
CONSTANTS
  CPUs = {c1, c2}
  Elems = {e1, e2}
  NoElem = NoElem
  Names <- MCNames
  Records <- MCRecords
  Packets <- AllPackets
  MAX_DNS_NAME_LENGTH = 3
  WordMod = 16
  MaxQueries = 2
  MaxChanges = 3
SYMMETRY Symmetry
INVARIANTS ReplyWellFormed ReceiverAccepts AnswerOwn
CHECK_DEADLOCK FALSE
