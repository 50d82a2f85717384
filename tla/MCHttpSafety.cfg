SPECIFICATION HttpSpec
CONSTANTS
  sk1 = sk1
  sk2 = sk2
  rq1 = rq1
  rq2 = rq2
  NoRequest = NoRequest
  NoSocket = NoSocket
  Sockets <- MCSockets
  Requests <- MCRequests
  Posts <- MCPosts
  Fragments <- MCFragments
  Joined <- MCJoined
  ServiceNests = TRUE
  DelayAndNest = FALSE
  Workers = TRUE
  UsesResult = TRUE
  Pipelining = TRUE
  ImpatientClients = TRUE
SYMMETRY Interchangeable
INVARIANT OneResponse
INVARIANT RefusedNeverServed
INVARIANT BodiesAddUp
INVARIANT AtMostOneAnswer
INVARIANT AnswersGoHome
INVARIANT NoCallForgotten
PROPERTY DelayedRequestIsOwn
PROPERTY ClosedSocketStaysSilent
PROPERTY ImplementsProvider
CHECK_DEADLOCK FALSE
