SPECIFICATION LookupSpec
CONSTANTS
  Names = {1, 2}
  nameLen <- MCNameLen
  Addrs = {1, 3}
  MaxLines = 5
  MinCap = 3
  Addresses = {0, 1, 2, 3, 4}
INVARIANTS FitsCapacity TableIsFile Window LargestBelow
PROPERTIES Shrinks
CHECK_DEADLOCK FALSE
