----------------------------- MODULE RefundRules -----------------------------
(***************************************************************************)
(* The deterministic refund rules (refund_rules.py): the decision          *)
(* assess_refund takes over a RefundContext, and the part of the context   *)
(* that build_facts_fingerprint binds an approval to.                      *)
(*                                                                         *)
(* A context is the record _context_from_order reads; "none" stands for    *)
(* Python's None.  Times are counted in days.  Amounts are minor units.    *)
(* Currency is always CNY in the schema and is left out; order_id and      *)
(* payment_id are kept by the ledger, which knows whose context it reads.  *)
(***************************************************************************)
EXTENDS Integers

OrderStatuses    == {"processing", "shipped", "delivered", "cancelled"}
ShipmentStatuses == {"preparing", "in_transit", "delivered"}
PaymentStatuses  == {"pending", "settled", "failed", "refunded"}

Channels         == {"mock_card", "mock_wallet"}

(* What a caller may write with MockPaymentInput: never "refunded".        *)
InputPaymentStatuses == {"pending", "settled", "failed"}

REQUIRED_REFUND_FACT_IDS ==
  {"refund.eligibility.pre_fulfillment", "refund.method.original",
   "refund.process.application"}
RETURN_WINDOW_FACT_ID == "return.window.general"
FactIds == REQUIRED_REFUND_FACT_IDS \cup {RETURN_WINDOW_FACT_ID}

WindowDays == 7

RefundContext ==
  [order_status        : OrderStatuses,
   shipment_status     : ShipmentStatuses \cup {"none"},
   shipment_updated_at : Int,
   payment_status      : PaymentStatuses \cup {"none"},
   paid                : Nat,
   channel             : Channels \cup {"none"},
   refunded            : Nat,
   conflicting         : BOOLEAN]

-----------------------------------------------------------------------------
(* The questions assess_refund asks, in the order it asks them.            *)

RequiredFacts(c) ==
  REQUIRED_REFUND_FACT_IDS
    \cup (IF c.order_status = "delivered" THEN {RETURN_WINDOW_FACT_ID} ELSE {})

Refundable(c) == IF c.paid > c.refunded THEN c.paid - c.refunded ELSE 0

BalanceIsZero(c) == c.payment_status = "refunded" \/ Refundable(c) = 0

NotSettled(c) == c.payment_status # "settled"

FactsContradict(c) ==
  \/ /\ c.order_status \in {"processing", "cancelled"}
     /\ c.shipment_status \in {"in_transit", "delivered"}
  \/ /\ c.order_status = "delivered"
     /\ c.shipment_status \notin {"none", "delivered"}

WindowExpired(c, now) ==
  /\ c.order_status = "delivered"
  /\ c.shipment_status = "delivered"
  /\ now - c.shipment_updated_at > WindowDays

NeedsReturnFlow(c) ==
  \/ c.order_status \notin {"processing", "cancelled"}
  \/ c.shipment_status \notin {"none", "preparing"}

(* assess_refund's reason_code for context c read at time now, with the    *)
(* ids of the verified policy facts.                                       *)
AssessRefund(c, now, facts) ==
  IF      ~(RequiredFacts(c) \subseteq facts) THEN "refund_policy_evidence_missing"
  ELSE IF c.payment_status = "none"           THEN "refund_payment_missing"
  ELSE IF c.conflicting                       THEN "refund_conflict"
  ELSE IF BalanceIsZero(c)                    THEN "refund_balance_zero"
  ELSE IF NotSettled(c)                       THEN "refund_payment_not_settled"
  ELSE IF FactsContradict(c)                  THEN "refund_business_facts_conflict"
  ELSE IF WindowExpired(c, now)               THEN "refund_window_expired"
  ELSE IF NeedsReturnFlow(c)                  THEN "refund_requires_return_flow"
  ELSE IF c.channel = "none"                  THEN "refund_payment_invalid"
  ELSE "refund_eligible"

Eligible(c, now, facts) == AssessRefund(c, now, facts) = "refund_eligible"

(* build_facts_fingerprint: everything of the context but evaluated_at,    *)
(* with the policy version.  policy_fact_ids are RequiredFacts(c), a       *)
(* function of the context.  SHA-256 is taken to be injective.             *)
Fingerprint(c, policy) == [context |-> c, policy |-> policy]

-----------------------------------------------------------------------------
(* What every context read from the database satisfies: a payment row has  *)
(* a positive amount and a channel (the table's CHECK constraints), and a  *)
(* conflicting refund is one with a positive amount.                       *)
Consistent(c) ==
  /\ IF c.payment_status = "none" THEN c.paid = 0 /\ c.channel = "none"
                                  ELSE c.paid > 0 /\ c.channel # "none"
  /\ c.conflicting <=> c.refunded > 0

(* The state matrix of the technical plan (v0.4 plan, section 8.1), the    *)
(* reference the decision is checked against.                              *)
MatrixAllows(c) ==
  /\ c.order_status \in {"processing", "cancelled"}
  /\ c.shipment_status \in {"none", "preparing"}
  /\ c.payment_status = "settled"
  /\ ~c.conflicting
  /\ c.refunded = 0
=============================================================================
