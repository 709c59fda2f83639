\* Three runs: a message, which may name another order, a decision, and a message by the
\* old route; nobody follows the events.
CONSTANTS
  ClientKeys = {k1}
  DecisionKeys = {d1}
  Texts = {hello, elsewhere}
  OtherOrder = {elsewhere}
  Label = label
  Followed = {}
  OldRoute = {hello}
  MaxRuns = 3
  MaxOldRoute = 1
SPECIFICATION Spec
INVARIANTS
  HistoryIsTurns
  EndIsTold
  ClosedIsQuiet
