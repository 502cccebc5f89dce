SPECIFICATION PartsSpec
CONSTANTS
  Absent = Absent
  Broken = Broken
  NoTensor = NoTensor
  Repositories <- MCRepositories
  Launches <- MCLaunches
  Siblings <- MCSiblings
  a = a
  b = b
  open = open
  close = close
  space = space
  Chars <- MCChars
  TokenIds <- MCTokenIds
  EosTokenIds <- MCEosTokenIds
  Decode <- MCDecode
  StopChoices <- MCStopChoices
  MaxTokens = 5
  TOOL_CALL_OPEN = open
  TOOL_CALL_CLOSE = close
  Space = space
  Calls <- MCCalls
  Tokens <- MCTokens
  Layers = {1, 2}
  Intervals = {1, 2}
  KV_CACHE_GROWTH_STEP = 2
  ConvKernelSize = 3
  MaxLength = 6
  MaxInput = 3
  VocabSize = 3
  Logits <- MCLogits
  Exp <- MCExp
  Temperatures = {0, 1}
  TopKs = {0, 2}
  TopPs = {0, 2, 3, 4}
  Penalties = {1, 2}
  MaxHistory = 2
  HeadCounts = {0, 1, 2, 3, 4}
  HeadDims = {1, 2}
  ExpertCounts = {0, 3}
  ExpertsPerToken = {0, 2, 4}
  GateWeights = {1, 2}
  InputTokens = 2
INVARIANTS
  LoadsByItsFiles
  InfoCoversServe
  TensorsReachTheirParameters
  WindowIsEndOfText
  StopAtTheEndIsFound
  CutsBeforeAStop
  StreamMatchesText
  ResponseIsFaithful
  CachedPassIsWholePass
  LayersInStep
  BuffersBounded
  PenaltyIsMonotone
  CutsLeaveTheTop
  HeadsMeetTheirOwn
  TokensMixTheirBest
