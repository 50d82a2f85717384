SPECIFICATION Spec
CONSTANTS
  NoMethod = NoMethod
  Services <- MCServices
  Requests <- MCRequests
  Unconvertible <- MCUnconvertible
  MaxAdds = 2
INVARIANT OverloadIsMeant
INVARIANT ChosenIsCalled
CHECK_DEADLOCK FALSE
