SPECIFICATION Spec
CONSTANTS
  k1 = k1  k2 = k2  k3 = k3
  Keys <- MCKeys
  firstLinks <- MCFirstLinks
  NBuckets = 2
  bucketOf <- MCBucketOf
  Values = {1, 2}
  NoValue = NoValue
  NULL = NULL
  Rooms = {0, 1, 2, 3}
  MaxOps = 2
INVARIANTS PairsWereThere TwiceOnlyAfterRelisting StableKeysShown FailsOnlyWithCause
PROPERTIES Returns
CHECK_DEADLOCK FALSE
