SPECIFICATION FairHttpSpec
CONSTANTS
  sk1 = sk1
  sk2 = sk2
  rq1 = rq1
  rq2 = rq2
  NoRequest = NoRequest
  NoSocket = NoSocket
  Sockets <- MCSockets
  Requests <- MCRequests
  Posts <- MCPosts
  Fragments <- MCFragments
  Joined <- MCJoined
  ServiceNests = TRUE
  DelayAndNest = FALSE
  Workers = FALSE
  UsesResult = TRUE
  Pipelining = FALSE
  ImpatientClients = FALSE
PROPERTY CallsGetResponses
PROPERTY AnsweredSocketsAreDeleted
CHECK_DEADLOCK FALSE
