CONSTANTS
  Orders = {o1}
  Tasks = {t1}
  Actions = {a1, a2}
  Amounts = {1, 2}
  Policies = {p1}
  Evidence <- MCEvidence
  Times = {0, 1}
  OrderInputs = {"processing", "shipped"}
  ShipmentInputs = {"preparing"}
  PaymentInputs = {"pending", "settled"}
  ChannelInputs = {"mock_card"}
SYMMETRY Symmetry
SPECIFICATION Spec
INVARIANTS
  TypeOK
  OneActivePerOrder
  RefundIsBacked
  PreviewsSound
  AuditTellsOutcome
PROPERTIES
  PaidOnCurrentFacts
  KeepsPromise
