SPECIFICATION Spec
CONSTANTS
  IntLimit = 4
  LatinLimit = 6
  MaxSize = 160
  NestingLimit = 3
  Objects = {o, p}
  Arrays = {a}
  Documents = {doc}
  Keys <- MCKeys
  Scalars <- MCScalars
  Inputs <- MCInputs
  CompactAfter = 0
  MinReserve = 16
  MaxCalls <- MCMaxCalls
  KeysAgree = {TRUE, FALSE}
VIEW View
SYMMETRY Symmetry
INVARIANT ParsedAsMeant
INVARIANT MemoryIsSound
INVARIANT WrittenTextReadsBack
PROPERTY HandlesAreValues
CHECK_DEADLOCK FALSE
