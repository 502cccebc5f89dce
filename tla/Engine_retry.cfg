SPECIFICATION FairEngineSpec
CONSTANTS
  a = a
  b = b
  t1 = t1
  t2 = t2
  r1 = r1
  r2 = r2
  r3 = r3
  p1 = p1
  p2 = p2
  p3 = p3
  p4 = p4
  Tokens <- MCTokens
  Prompts <- MCTwoPrompts
  Keys <- MCTwoPrompts
  Hash <- MCTwoHash
  Requests <- MCRequests
  Pages <- MCPages
  PageSize = 1
  BytesPerToken = 1
  MaxPrefixEntries = 1
  MinPrefixTokens = 1
  MaxTokens = {1, 3}
  ObservedBytes = {0}
  MaxPins = 3
  Threads <- MCThreads
  ChannelCapacity = 1
PROPERTY RetryIsAdmitted
