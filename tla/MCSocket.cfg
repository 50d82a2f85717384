SPECIFICATION LiveSpec
CONSTANTS
  k1 = k1
  k2 = k2
  k3 = k3
  NoCall = NoCall
  NoId = NoId
  Calls <- MCCalls
  Blocking <- MCBlocking
  Ids <- MCIds
  IdOf <- RetriedIds
  PeerDocs <- AnyDocs
  MaxExtra = 1
  CallbacksBlock = TRUE
  DeviceMayDie = TRUE
INVARIANT AtMostOneFinish
INVARIANT NoEntryOutlivesBlockingCall
INVARIANT TimeoutMeansUnanswered
INVARIANT CallsFromCallbacksStarve
PROPERTY ImplementsRpcCall
PROPERTY AnsweredCallsFinish
PROPERTY BlockingCallsReturn
CHECK_DEADLOCK FALSE
