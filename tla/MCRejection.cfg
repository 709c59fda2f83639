\* A late rejection resumes what an approval left behind.
CONSTANTS
  Orders = {o1}
  Tasks = {t1}
  Actions = {a1}
  Faulty = {t1}
  Amounts = {1}
  Policies = {p1}
  Evidence <- MCEvidence
  Times = {0}
  OrderInputs = {"processing"}
  ShipmentInputs = {}
  PaymentInputs = {"settled"}
  ChannelInputs = {"mock_card"}
SPECIFICATION ApprovalSpec
PROPERTY RejectionNeverPays
