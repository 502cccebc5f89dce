SPECIFICATION ServerSpec
CONSTANTS
  c1 = c1
  c2 = c2
  c3 = c3
  Clients <- MCThree
  MaxAdmittedRequests = 1
  MaxQueueSize = 1
  Requests <- MCFewRequests
  ClearAfterRequest = FALSE
  ChannelCapacity = 1
  MaxOutputs = 2
INVARIANT GenerationsBounded
