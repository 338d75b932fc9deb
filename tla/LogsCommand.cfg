SPECIFICATION FairSpec
CONSTANTS
  Lines <- MCLines
  Processes = {"main"}
  Selector <- MCSelector
  ChannelBatches = 1
  BatchRecords = 2
  Window = 2
  MaxReconnects = 1
  RecordingQueueBatches = 1
  BufferBytes = 2
  Filter <- MCFilter
INVARIANTS TypeOK NothingTwice NothingSkipped RecordingIsFaithful BufferIsExact
PROPERTY InterruptEnds
CHECK_DEADLOCK FALSE
