SPECIFICATION Spec
CONSTANTS
  IntLimit = 4
  LatinLimit = 6
  MaxSize = 160
  NestingLimit = 3
  Objects = {o, p}
  Arrays = {a}
  Documents = {doc}
  Keys <- MCKeys
  Scalars <- MCScalars
  Inputs <- MCDisputed
  CompactAfter = 0
  MinReserve = 16
  MaxCalls <- MCNoCalls
  KeysAgree = {FALSE}
INVARIANT TextsAreReadAsSaid
CHECK_DEADLOCK FALSE
