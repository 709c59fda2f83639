SPECIFICATION L2Spec
CONSTANTS
  MaxPreviews = 2
  MaxVersion = 2
  Tools = {"order", "policy"}
  Torn = {2}
  Values = {"concise"}
  Texts = {"t1"}
  MaxModelCalls = 2
  MaxToolCalls = 2
  MaxToolFailures = 2
  MaxTokens = 11
  MaxInput = 6
  Reserve = 1
  Base = 2
  Envelope = 1
  Chat = 1
  DailyLimit = 3
INVARIANTS
  CallsAreMetered
  ConsentFirst
  AnswerIsGrounded
PROPERTIES
  ContextIsCurrent
  ClosedCaseIsFrozen
