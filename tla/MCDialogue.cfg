SPECIFICATION DialogueSpec
CONSTANTS
  x = x
  y = y
  Unknown = Unknown
  NoIndex = NoIndex
  Broken = Broken
  NoQuery = NoQuery
  MaxClarifications = 2
  Dims <- MCDims
  Limit <- MCLimit
  Editions <- MCEditions
  Messages <- MCMessages
INVARIANTS
  AnswerIsComplete
  GuidanceIsWhole
  ClarificationIsBounded
