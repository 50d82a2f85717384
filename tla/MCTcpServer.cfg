SPECIFICATION FairServerSpec
CONSTANTS
  sk1 = sk1
  sk2 = sk2
  rq1 = rq1
  rq2 = rq2
  NoRequest = NoRequest
  NoSocket = NoSocket
  Sockets <- MCSockets
  Requests <- MCRequests
  ServiceNests = TRUE
  DelayAndNest = FALSE
  Workers = FALSE
  UsesResult = TRUE
  SentKinds <- MCSentKinds
  Pipelining = TRUE
  ImpatientClients = TRUE
INVARIANT TablesMatchSockets
INVARIANT OnlyOutlivedLoopsUseFreed
PROPERTY ImplementsProvider
PROPERTY MessagesAreProcessed
PROPERTY CallsAreAnswered
PROPERTY LeftSocketsAreDeleted
CHECK_DEADLOCK FALSE
