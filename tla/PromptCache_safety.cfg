SPECIFICATION Spec
CONSTANTS
  a = a
  b = b
  r1 = r1
  r2 = r2
  r3 = r3
  p1 = p1
  p2 = p2
  p3 = p3
  p4 = p4
  p5 = p5
  Tokens <- MCTokens
  Prompts <- MCPrompts
  Keys <- MCPrompts
  Hash <- MCInjectiveHash
  Requests <- MCRequests
  Pages <- MCPages
  PageSize = 3
  BytesPerToken = 1
  MaxPrefixEntries = 3
  MinPrefixTokens = 2
  MaxTokens = {1, 12}
  ObservedBytes = {0, 5}
  MaxPins = 3
SYMMETRY MCSymmetry
INVARIANTS
  NoPageHeldTwice
  NoPageLost
  PinsCoverBorrowers
  BorrowedPrefixIntact
  ReservationCoversEstimate
  EntriesBoundedAndOrdered
  StatsAddUp
PROPERTIES
  EvictsLeastRecent
  LeasesAreExclusive
  ImplementsPagePool
