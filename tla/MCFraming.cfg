SPECIFICATION FairSpec
CONSTANTS
  WellFormed <- MCWellFormed
  Malformed <- MCMalformed
  MaxWritten = 3
PROPERTY DocumentsAreDelivered
PROPERTY ImplementsDocumentQueue
CHECK_DEADLOCK FALSE
