\* One thread whose runs may fail, with two requests of one order.
CONSTANTS
  Orders = {o1}
  Tasks = {t1}
  Actions = {a1, a2}
  Faulty = {t1}
  Amounts = {1}
  Policies = {p1}
  Evidence <- MCEvidence
  Times = {0}
  OrderInputs = {"processing"}
  ShipmentInputs = {}
  PaymentInputs = {"settled"}
  ChannelInputs = {"mock_card"}
SYMMETRY ActionSymmetry
SPECIFICATION ApprovalSpec
INVARIANTS
  DecisionsAreTheCustomers
  ToldTruth
  InterruptHasAction
