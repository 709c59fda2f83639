\* One thread, one request, every failure: no symmetry, for liveness.
CONSTANTS
  Orders = {o1}
  Tasks = {t1}
  Actions = {a1}
  Faulty = {t1}
  Amounts = {1}
  Policies = {p1}
  Evidence <- MCEvidence
  Times = {0}
  OrderInputs = {"processing", "cancelled"}
  ShipmentInputs = {}
  PaymentInputs = {"settled"}
  ChannelInputs = {"mock_card"}
SPECIFICATION FairApproval
PROPERTIES
  RunsEnd
  DecisionSettles
  UsesLedger
