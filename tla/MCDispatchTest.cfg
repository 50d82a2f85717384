SPECIFICATION Spec
CONSTANTS
  NoMethod = NoMethod
  Services <- TestServices
  Requests <- TestRequests
  Unconvertible <- MCUnconvertible
  MaxAdds = 2
INVARIANT FittingRequestSucceeds
CHECK_DEADLOCK FALSE
