SPECIFICATION Spec
CONSTANTS
  Streams <- MCStreams
  BufferSizes <- MCBufferSizes
  MaxHeaderSize = 220
  UllongMax = 255
  FieldWidth = 65536
INVARIANT StreamIsMeant
INVARIANT AssertsHold
INVARIANT UrlFieldsAreRight
INVARIANT UnsetCallbacksNeedPreflight
PROPERTY HeadersDecideRequests
PROPERTY EveryByteIsRead
CHECK_DEADLOCK FALSE
