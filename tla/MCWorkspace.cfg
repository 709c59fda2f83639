\* Two names compete for one invitation; the workspace of one of them is used from two
\* browsers and reset twice, with one failure. Deadlock: nobody can do anything when the
\* invitation is closed and no account exists.
SPECIFICATION WorkspaceSpec
CONSTANTS
  Names = {alice, bob}
  Followed = {alice}
  Codes = {c1}
  Tabs = {b1, b2}
  MaxUses = 1
  NoOne = NoOne
  Earlier = Earlier
  Scenarios = {s1}
  Numbers = {i1, i2}
  Threads = {t1, t2}
  Kinds = {k1}
  Requests = {q1, q2}
  MaxResets = 2
  MaxFailures = 1
SYMMETRY Interchangeable
INVARIANTS
  UsesAreAccounts
  OneTaskPerOrder
  GenerationCountsResets
  ResetLeavesNothing
PROPERTY NumbersSurvive
CHECK_DEADLOCK FALSE
