SPECIFICATION WiredSpec
CONSTANTS
  Streams = {s}
  MaxRequests = 2
  Levels = {0, 1}
  Capacity = 1
  NoTask = noTask
  NotANumber = notANumber
  Files <- MCFiles
  Bitrate = 4
  Tile = 7
  Timeout = 9
INVARIANTS
  TypeOK
  RepliesInOrder
  ResponsesAreFramed
PROPERTIES
  DisconnectStops
  EveryRequestIsSettled
  ImplementsHandler
CHECK_DEADLOCK FALSE
