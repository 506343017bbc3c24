SPECIFICATION Spec
CONSTANTS
  Queues = {"out1", "out2", "in1"}
  Routes <- MCRoutes
  Configured = {"in1"}
  Senders = {"out1", "out2"}
  Receivers = {"in1", "out1"}
  Switched = {"out1"}
  Purgeable = {"in1"}
  Modes <- MCModes
  SendOptions = {1, 2}
  TextSizes = {1, 2}
  BufferSizes = {1, 2}
  MaxSent = 2
INVARIANTS QueuesCorrect DeliveredInOrder EndKeyIsSenders DeliveredOnce
PROPERTY NoDataOnlyWhenDrained
