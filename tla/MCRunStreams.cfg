\* A client follows the second of two runs, while the conversation is archived, deleted
\* and the process restarts.  Nobody uses the old route.
CONSTANTS
  ClientKeys = {k1, k2}
  DecisionKeys = {}
  Texts = {hello}
  OtherOrder = {}
  Label = label
  Followed = {2}
  OldRoute = {}
  MaxRuns = 2
  MaxOldRoute = 0
SPECIFICATION FairSpec
INVARIANTS
  StreamIsComplete
  DeletedIsEmpty
PROPERTY StreamsEnd
