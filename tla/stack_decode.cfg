SPECIFICATION Spec
CONSTANTS
  CPUs = {c1, c2}
  Stacks <- MCStacks
  Depth = 2
  bucketOf <- MCBucketOf
  NoStack = NoStack
  MaxStacks = 2
  RingCap = 2
  Tables <- MCTables
  Word = 4
  MaxTraps = 3
INVARIANTS StackDecoded
CHECK_DEADLOCK FALSE
