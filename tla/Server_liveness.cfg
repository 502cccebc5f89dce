SPECIFICATION MCSpec
CONSTANTS
  c1 = c1
  c2 = c2
  c3 = c3
  Clients <- MCThree
  MaxAdmittedRequests = 2
  MaxQueueSize = 1
  Requests <- MCRequests
  ClearAfterRequest = TRUE
  ChannelCapacity = 1
  MaxOutputs = 2
PROPERTIES
  ServerDrains
  QueuedRequestsRun
