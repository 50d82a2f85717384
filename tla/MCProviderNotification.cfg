SPECIFICATION ProviderSpec
CONSTANTS
  sk1 = sk1
  sk2 = sk2
  rq1 = rq1
  rq2 = rq2
  NoRequest = NoRequest
  NoSocket = NoSocket
  Sockets <- MCSockets
  Requests <- MCRequests
  ServiceNests = FALSE
  DelayAndNest = FALSE
  Workers = FALSE
  UsesResult = FALSE
SYMMETRY Interchangeable
INVARIANT NotificationsUnanswered
CHECK_DEADLOCK FALSE
