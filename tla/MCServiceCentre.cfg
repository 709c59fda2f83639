CONSTANTS
  o1 = o1  a1 = a1  a2 = a2  c1 = c1
  Orders = {o1}
  Tasks = {t1}
  Actions = {a1, a2}
  Amounts = {1}
  Policies = {p1, p2}
  Evidence <- MCEvidence
  Times = {0}
  OrderInputs = {"processing"}
  ShipmentInputs = {}
  PaymentInputs = {"settled"}
  ChannelInputs = {"mock_card"}
  Cases = {c1}
  CaseInputs = {"l2_waiting_user", "l2_resolved"}
  Views = {"active", "history", "all", "after_sales"}
  Rank <- MCRank
  Limit = 1
  MaxClock = 4
SPECIFICATION CentreSpec
CHECK_DEADLOCK FALSE
INVARIANTS
  DetailIsCoherent
  ServiceTellsResult
  PagesAreComplete
