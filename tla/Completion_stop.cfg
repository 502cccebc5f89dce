SPECIFICATION CompletionSpec
CONSTANTS
  a = a
  b = b
  open = open
  close = close
  space = space
  Chars <- MCChars
  TokenIds <- MCTokenIds
  EosTokenIds <- MCEosTokenIds
  Decode <- MCDecode
  StopChoices <- MCStopChoices
  MaxTokens = 5
  TOOL_CALL_OPEN = open
  TOOL_CALL_CLOSE = close
  Space = space
  Calls <- MCCalls
INVARIANT NoStopSequenceInText
