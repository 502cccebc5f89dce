SPECIFICATION ServerSpec
CONSTANTS
  c1 = c1
  c2 = c2
  c3 = c3
  Clients <- MCThree
  MaxAdmittedRequests = 2
  MaxQueueSize = 0
  Requests <- MCFewRequests
  ClearAfterRequest = TRUE
  ChannelCapacity = 1
  MaxOutputs = 2
SYMMETRY MCSymmetry
INVARIANTS
  SlotsConserved
  RunSlotNeverIdle
  SlotsComeBack
  DoneIsComplete
  AnswersAreFinal
