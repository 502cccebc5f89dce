SPECIFICATION FairEngineSpec
CONSTANTS
  a = a
  b = b
  t1 = t1
  t2 = t2
  r1 = r1
  r2 = r2
  r3 = r3
  p1 = p1
  p2 = p2
  p3 = p3
  p4 = p4
  Tokens <- MCTokens
  Prompts <- MCPrompts
  Keys <- MCPrompts
  Hash <- MCHash
  Requests <- MCTwoRequests
  Pages <- MCTwoPages
  PageSize = 4
  BytesPerToken = 1
  MaxPrefixEntries = 1
  MinPrefixTokens = 1
  MaxTokens = {2}
  ObservedBytes = {0}
  MaxPins = 3
  Threads <- MCThreads
  ChannelCapacity = 1
INVARIANTS
  PrefilledWithOwnPrompt
  SnapshotsMatchTokens
  RunningIsReserved
  ReservationHasOwner
  GenerationFitsEstimate
PROPERTIES
  ImplementsDecodeLock
  Quiesces
