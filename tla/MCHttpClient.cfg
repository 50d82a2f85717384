SPECIFICATION Spec
CONSTANTS
  k1 = k1
  k2 = k2
  k3 = k3
  NoBody = NoBody
  Calls <- MCCalls
  Blocking <- MCBlocking
  Notifying <- MCNotifying
  OwnsManager = TRUE
PROPERTY ResponseIsFinal
PROPERTY ImplementsRpcCall
CHECK_DEADLOCK FALSE
