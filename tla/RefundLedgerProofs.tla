-------------------------- MODULE RefundLedgerProofs --------------------------
(***************************************************************************)
(* What the refund rules decide for every context, and what the ledger     *)
(* that uses them keeps for every value of its constants.                  *)
(***************************************************************************)
EXTENDS RefundLedger, TLAPS

-----------------------------------------------------------------------------
(* The rules                                                               *)

(* assess_refund grants exactly the previewable rows of the plan's state   *)
(* matrix, for every context the database can hold, every clock value and  *)
(* every set of policy facts.                                              *)
THEOREM EligibleIsMatrix ==
  ASSUME NEW c \in RefundContext, Consistent(c), NEW now \in Int, NEW facts
  PROVE  Eligible(c, now, facts)
           <=> MatrixAllows(c) /\ RequiredFacts(c) \subseteq facts
<1> USE DEF RefundContext
<1>1. ASSUME Eligible(c, now, facts)
      PROVE  MatrixAllows(c) /\ RequiredFacts(c) \subseteq facts
  <2>1. /\ RequiredFacts(c) \subseteq facts
        /\ ~c.conflicting
        /\ ~NotSettled(c)
        /\ ~NeedsReturnFlow(c)
    BY <1>1 DEF Eligible, AssessRefund
  <2>2. c.refunded = 0
    BY <2>1 DEF Consistent
  <2> QED BY <2>1, <2>2 DEF MatrixAllows, NotSettled, NeedsReturnFlow
<1>2. ASSUME MatrixAllows(c), RequiredFacts(c) \subseteq facts
      PROVE  Eligible(c, now, facts)
  <2>1. c.channel # "none" /\ c.payment_status = "settled" /\ c.paid > 0
    BY <1>2 DEF MatrixAllows, Consistent
  <2>2. ~BalanceIsZero(c)
    BY <1>2, <2>1 DEF MatrixAllows, BalanceIsZero, Refundable
  <2>3. ~FactsContradict(c) /\ ~NeedsReturnFlow(c) /\ ~WindowExpired(c, now)
    BY <1>2 DEF MatrixAllows, FactsContradict, NeedsReturnFlow, WindowExpired
  <2> QED BY <1>2, <2>1, <2>2, <2>3 DEF Eligible, AssessRefund, MatrixAllows, NotSettled
<1> QED BY <1>1, <1>2

(* Two readings of the same context at different times agree on            *)
(* eligibility, so a fingerprint that leaves evaluated_at out loses        *)
(* nothing that revalidation would have found.                             *)
THEOREM EligibilityIgnoresClock ==
  ASSUME NEW c \in RefundContext, Consistent(c), NEW facts,
         NEW now \in Int, NEW later \in Int
  PROVE  Eligible(c, now, facts) <=> Eligible(c, later, facts)
BY EligibleIsMatrix

(* An eligible refund is for the whole payment.                            *)
LEMMA EligibleRefundsAll ==
  ASSUME NEW c \in RefundContext, Consistent(c), MatrixAllows(c)
  PROVE  Refundable(c) = c.paid /\ c.paid > 0
BY DEF RefundContext, Refundable, MatrixAllows, Consistent

-----------------------------------------------------------------------------
(* The ledger                                                              *)

(* A context read from well-typed tables is a context of the rules.        *)
LEMMA ContextType ==
  ASSUME LedgerAssumption, TypeOK, NEW o \in DOMAIN order
  PROVE  ContextOf(o) \in RefundContext
<1>1. ContextOf(o).order_status \in OrderStatuses
  BY DEF ContextOf, TypeOK
<1>2. o \in DOMAIN shipment => /\ shipment[o].status \in ShipmentStatuses
                               /\ shipment[o].updated_at \in Int
  BY DEF TypeOK, LedgerAssumption
<1>3. o \in DOMAIN payment => /\ payment[o].status \in PaymentStatuses
                              /\ payment[o].amount \in Nat
                              /\ payment[o].channel \in Channels
  BY DEF TypeOK, LedgerAssumption
<1>4. RefundsOf(o) # {} => refund[CHOOSE a \in RefundsOf(o) : TRUE].amount \in Nat
  BY DEF TypeOK, RefundsOf
<1>5. (RefundsOf(o) # {}) \in BOOLEAN
  OBVIOUS
<1> QED
  BY <1>1, <1>2, <1>3, <1>4, <1>5 DEF ContextOf, RefundContext

(* ... and is consistent, once refunds have positive amounts.              *)
LEMMA ContextConsistent ==
  ASSUME LedgerAssumption, TypeOK, NEW o \in DOMAIN order, RefundsOf(o) = {}
  PROVE  Consistent(ContextOf(o))
<1>1. ContextOf(o).conflicting = FALSE /\ ContextOf(o).refunded = 0
  BY DEF ContextOf
<1>2. CASE o \in DOMAIN payment
  <2>1. /\ payment[o].amount \in Nat \ {0}
        /\ payment[o].channel \in Channels
        /\ payment[o].status \in PaymentStatuses
    BY <1>2 DEF TypeOK, LedgerAssumption
  <2>2. /\ ContextOf(o).paid = payment[o].amount
        /\ ContextOf(o).channel = payment[o].channel
        /\ ContextOf(o).payment_status = payment[o].status
    BY <1>2 DEF ContextOf
  <2> QED BY <1>1, <2>1, <2>2 DEF Consistent, Channels, PaymentStatuses
<1>3. CASE o \notin DOMAIN payment
  <2>1. /\ ContextOf(o).paid = 0
        /\ ContextOf(o).channel = "none"
        /\ ContextOf(o).payment_status = "none"
    BY <1>3 DEF ContextOf
  <2> QED BY <1>1, <2>1 DEF Consistent
<1> QED BY <1>2, <1>3

-----------------------------------------------------------------------------
(* The inductive invariant.  PreviewsSound is what makes an old preview    *)
(* safe to execute: whatever happened since it was built, FactsHold says   *)
(* that the facts are again the ones it records.                           *)
IInv == /\ TypeOK
        /\ OneActivePerOrder
        /\ RefundIsBacked
        /\ PreviewsSound
        /\ NoOrphanAction
        /\ AuditTellsOutcome
        /\ NeverMismatches

(* An eligible context has no refund yet, and the preview built on it is   *)
(* for all of a settled payment.                                           *)
LEMMA PreviewOfEligible ==
  ASSUME LedgerAssumption, TypeOK,
         NEW a \in Actions, NEW t \in Tasks, NEW o \in DOMAIN order,
         NEW p \in Policies, NEW now \in Times,
         Eligible(ContextOf(o), now, Evidence[p])
  PROVE  LET pv == Preview(a, t, o, p)
             c  == pv.fingerprint.context
         IN /\ pv \in Previews
            /\ MatrixAllows(c) /\ pv.amount = c.paid /\ pv.channel = c.channel
<1> DEFINE c == ContextOf(o)
<1>1. c \in RefundContext
  BY ContextType
<1>2. ~c.conflicting
  BY DEF Eligible, AssessRefund
<1>3. RefundsOf(o) = {}
  BY <1>2 DEF ContextOf
<1>4. Consistent(c)
  BY <1>3, ContextConsistent
<1>5. now \in Int
  BY DEF LedgerAssumption
<1>6. MatrixAllows(c)
  BY <1>1, <1>4, <1>5, EligibleIsMatrix
<1>7. Refundable(c) = c.paid /\ c.paid \in Nat
  BY <1>1, <1>4, <1>6, EligibleRefundsAll DEF RefundContext
<1>8. c.channel \in Channels
  BY <1>1, <1>4, <1>6 DEF RefundContext, Consistent, MatrixAllows
<1>9. o \in Orders
  BY DEF TypeOK
<1> HIDE DEF c
<1> DEFINE pv == Preview(a, t, o, p)
<1>10. /\ pv.amount = c.paid /\ pv.channel = c.channel
       /\ pv.fingerprint.context = c
  BY <1>7 DEF Preview, Fingerprint, c
<1>11. pv \in Previews
  BY <1>1, <1>7, <1>8, <1>9 DEF Preview, Previews, Fingerprint, Fingerprints, c
<1> QED BY <1>6, <1>10, <1>11

(* Moving awaiting requests to rejected or stale, each with one closing    *)
(* event of that kind, keeps what the invariant says of requests.          *)
LEMMA ClosingKeepsRequests ==
  ASSUME IInv, NEW as \in SUBSET DOMAIN action, NEW status, NEW key,
         \A a \in as : action[a].status = "awaiting_approval",
         \/ status = "rejected" /\ key = "decision:rejected"
         \/ status = "stale" /\ key \in StaleKeys,
         action' = SetStatus(as, status),
         audit' = audit \cup (as \X {key}),
         UNCHANGED refund
  PROVE  /\ DOMAIN action' = DOMAIN action
         /\ action' \in [DOMAIN action -> [preview : built, status : ActionStatuses]]
         /\ audit' \subseteq (DOMAIN action) \X EventKeys
         /\ \A a \in DOMAIN action : action'[a].preview = action[a].preview
         /\ \A a \in DOMAIN action : action'[a].status = "completed" <=> a \in DOMAIN refund
         /\ OneActivePerOrder'
         /\ AuditTellsOutcome'
         /\ NeverMismatches'
<1>1. status \in ActionStatuses /\ key \in ClosingKeys /\ key \in EventKeys
  BY DEF ActionStatuses, ClosingKeys, EventKeys
<1>2. /\ DOMAIN action' = DOMAIN action
      /\ action' \in [DOMAIN action -> [preview : built, status : ActionStatuses]]
      /\ \A a \in DOMAIN action :
           /\ action'[a].preview = action[a].preview
           /\ action'[a].status = IF a \in as THEN status ELSE action[a].status
  <2> DEFINE new == SetStatus(as, status)
  <2>1. TypeOK
    BY DEF IInv
  <2>2. /\ new \in [DOMAIN action -> [preview : built, status : ActionStatuses]]
        /\ DOMAIN new = DOMAIN action
        /\ \A a \in DOMAIN action :
             /\ new[a].preview = action[a].preview
             /\ new[a].status = IF a \in as THEN status ELSE action[a].status
    BY <1>1, <2>1 DEF SetStatus, TypeOK
  <2>3. action' = new
    OBVIOUS
  <2> HIDE DEF new
  <2> QED BY <2>2, <2>3
<1>3. audit' \subseteq (DOMAIN action) \X EventKeys
  BY <1>1 DEF IInv, TypeOK
<1>4. \A a \in DOMAIN action : action'[a].status = "completed" <=> a \in DOMAIN refund
  BY <1>2 DEF IInv, RefundIsBacked
<1>5. OneActivePerOrder'
  <2> SUFFICES ASSUME NEW a \in DOMAIN action, NEW b \in DOMAIN action,
                      action'[a].preview.order = action'[b].preview.order,
                      action'[a].status \in {"awaiting_approval", "completed"},
                      action'[b].status \in {"awaiting_approval", "completed"}
               PROVE  a = b
    BY <1>2 DEF OneActivePerOrder
  <2>1. action'[a].status = action[a].status /\ action'[b].status = action[b].status
    BY <1>2
  <2> QED BY <2>1, <1>2 DEF IInv, OneActivePerOrder
<1>6. AuditTellsOutcome'
  <2> SUFFICES ASSUME NEW a \in DOMAIN action
               PROVE  CASE action'[a].status = "awaiting_approval" -> ClosingEvents(a)' = {}
                        [] action'[a].status = "rejected"
                             -> ClosingEvents(a)' = {"decision:rejected"}
                        [] action'[a].status = "completed"
                             -> ClosingEvents(a)' = {"execution:succeeded"}
                        [] action'[a].status = "stale"
                             -> \E k \in StaleKeys : ClosingEvents(a)' = {k}
    BY <1>2 DEF AuditTellsOutcome
  <2>1. CASE a \in as
    <3>1. ClosingEvents(a) = {}
      BY <2>1 DEF IInv, AuditTellsOutcome
    <3>2. ClosingEvents(a)' = {key}
      BY <3>1, <2>1, <1>1 DEF ClosingEvents
    <3> QED BY <3>2, <2>1, <1>2
  <2>2. CASE a \notin as
    <3>1. ClosingEvents(a)' = ClosingEvents(a)
      BY <2>2 DEF ClosingEvents
    <3>2. action'[a].status = action[a].status
      BY <2>2, <1>2
    <3>3. action[a].status \in ActionStatuses
      BY DEF IInv, TypeOK
    <3> QED BY <3>1, <3>2, <3>3 DEF IInv, AuditTellsOutcome, ActionStatuses
  <2> QED BY <2>1, <2>2
<1>7. NeverMismatches'
  BY <1>1, <1>2 DEF IInv, NeverMismatches, ClosingKeys, StaleKeys
<1> QED BY <1>2, <1>3, <1>4, <1>5, <1>6, <1>7

-----------------------------------------------------------------------------
(* The part of the invariant that speaks of requests only is kept by every *)
(* step that leaves the request tables alone.                              *)
LEMMA RequestsUntouched ==
  ASSUME IInv, UNCHANGED <<action, refund, audit, built>>
  PROVE  /\ OneActivePerOrder' /\ PreviewsSound'
         /\ AuditTellsOutcome' /\ NeverMismatches'
BY DEF IInv, OneActivePerOrder, PreviewsSound, AuditTellsOutcome, NeverMismatches,
       ClosingEvents

(* create_order.                                                           *)
LEMMA CreateOrderStep ==
  ASSUME LedgerAssumption, IInv, NEW o \in Orders, NEW s \in OrderInputs,
         NEW ship \in ShipmentInputs \cup {"none"}, NEW now \in Times,
         CreateOrder(o, s, ship, now)
  PROVE  IInv'
<1>1. TypeOK'
  <2>1. s \in OrderStatuses /\ (ship # "none" => ship \in ShipmentStatuses)
    BY DEF LedgerAssumption
  <2>2. /\ order' \in [DOMAIN order \cup {o} -> OrderStatuses]
        /\ DOMAIN order' = DOMAIN order \cup {o}
    BY <2>1 DEF CreateOrder, Put, IInv, TypeOK
  <2>3. /\ shipment' \in [DOMAIN shipment' -> [status : ShipmentStatuses, updated_at : Times]]
        /\ DOMAIN shipment' \subseteq DOMAIN shipment \cup {o}
    BY <2>1 DEF CreateOrder, Put, IInv, TypeOK
  <2> QED BY <2>2, <2>3 DEF IInv, TypeOK, CreateOrder
<1>2. RefundIsBacked' /\ NoOrphanAction'
  BY DEF IInv, RefundIsBacked, NoOrphanAction, CreateOrder, Put, RefundsOf
<1> QED BY <1>1, <1>2, RequestsUntouched DEF IInv, CreateOrder

(* delete_order.  No request points to the order: it has no payment.       *)
LEMMA DeleteOrderStep ==
  ASSUME IInv, NEW o \in Orders, DeleteOrder(o)
  PROVE  IInv'
<1>1. TypeOK'
  <2>1. /\ order' \in [DOMAIN order \ {o} -> OrderStatuses]
        /\ DOMAIN order' = DOMAIN order \ {o}
    BY DEF DeleteOrder, Without, IInv, TypeOK
  <2>2. /\ shipment' \in [DOMAIN shipment \ {o} ->
                            [status : ShipmentStatuses, updated_at : Times]]
        /\ DOMAIN shipment' = DOMAIN shipment \ {o}
    BY DEF DeleteOrder, Without, IInv, TypeOK
  <2> QED BY <2>1, <2>2 DEF IInv, TypeOK, DeleteOrder
<1>2. RefundIsBacked' /\ NoOrphanAction'
  BY DEF IInv, RefundIsBacked, NoOrphanAction, DeleteOrder, Without, RefundsOf
<1> QED BY <1>1, <1>2, RequestsUntouched DEF IInv, DeleteOrder

(* Closing every awaiting request of an order, as both kinds of            *)
(* invalidation do.                                                        *)
LEMMA InvalidateKeepsRequests ==
  ASSUME IInv, NEW o, NEW key \in StaleKeys,
         InvalidatePending(o, key), UNCHANGED refund
  PROVE  /\ DOMAIN action' = DOMAIN action
         /\ action' \in [DOMAIN action -> [preview : built, status : ActionStatuses]]
         /\ audit' \subseteq (DOMAIN action) \X EventKeys
         /\ \A a \in DOMAIN action : action'[a].preview = action[a].preview
         /\ \A a \in DOMAIN action : action'[a].status = "completed" <=> a \in DOMAIN refund
         /\ OneActivePerOrder'
         /\ AuditTellsOutcome'
         /\ NeverMismatches'
<1>1. Awaiting(o) \in SUBSET DOMAIN action
  BY DEF Awaiting
<1>2. \A a \in Awaiting(o) : action[a].status = "awaiting_approval"
  BY DEF Awaiting
<1> DEFINE as == Awaiting(o)
<1>3. action' = SetStatus(as, "stale") /\ audit' = audit \cup (as \X {key})
  BY DEF InvalidatePending
<1> HIDE DEF as
<1> QED BY <1>1, <1>2, <1>3, ClosingKeepsRequests DEF as

(* update_order.                                                           *)
LEMMA UpdateOrderStep ==
  ASSUME LedgerAssumption, IInv, NEW o \in Orders, NEW s \in OrderInputs \cup {"keep"},
         NEW ship \in ShipmentInputs \cup {"keep", "remove"}, NEW detail \in BOOLEAN,
         NEW now \in Times, UpdateOrder(o, s, ship, detail, now)
  PROVE  IInv'
<1>1. /\ DOMAIN order' = DOMAIN order
      /\ order' \in [DOMAIN order -> OrderStatuses]
  BY DEF UpdateOrder, Put, IInv, TypeOK, LedgerAssumption
<1>2. /\ DOMAIN shipment' \subseteq DOMAIN order
      /\ shipment' \in [DOMAIN shipment' -> [status : ShipmentStatuses, updated_at : Times]]
  <2>1. CASE ship = "keep"
    BY <2>1 DEF UpdateOrder, IInv, TypeOK
  <2>2. CASE ship = "remove"
    BY <2>2 DEF UpdateOrder, Without, IInv, TypeOK
  <2>3. CASE ship \notin {"keep", "remove"}
    <3>1. ship \in ShipmentStatuses
      BY <2>3 DEF LedgerAssumption
    <3> QED BY <2>3, <3>1 DEF UpdateOrder, Put, IInv, TypeOK
  <2> QED BY <2>1, <2>2, <2>3
<1>3. UNCHANGED <<payment, refund, built>>
  BY DEF UpdateOrder
<1>4. CASE UNCHANGED <<action, audit>>
  <2>1. TypeOK'
    BY <1>1, <1>2, <1>3, <1>4 DEF IInv, TypeOK
  <2>2. RefundIsBacked' /\ NoOrphanAction'
    BY <1>1, <1>3, <1>4 DEF IInv, RefundIsBacked, NoOrphanAction, RefundsOf
  <2> QED BY <2>1, <2>2, <1>3, <1>4, RequestsUntouched DEF IInv
<1>5. CASE InvalidatePending(o, "stale:order_or_shipment_changed")
  <2>1. /\ DOMAIN action' = DOMAIN action
        /\ action' \in [DOMAIN action -> [preview : built, status : ActionStatuses]]
        /\ audit' \subseteq (DOMAIN action) \X EventKeys
        /\ \A a \in DOMAIN action : action'[a].preview = action[a].preview
        /\ \A a \in DOMAIN action : action'[a].status = "completed" <=> a \in DOMAIN refund
        /\ OneActivePerOrder' /\ AuditTellsOutcome' /\ NeverMismatches'
    BY <1>3, <1>5, InvalidateKeepsRequests DEF StaleKeys
  <2>2. TypeOK'
    BY <1>1, <1>2, <1>3, <2>1 DEF IInv, TypeOK
  <2>3. RefundIsBacked' /\ NoOrphanAction' /\ PreviewsSound'
    BY <1>1, <1>3, <2>1 DEF IInv, RefundIsBacked, NoOrphanAction, PreviewsSound, RefundsOf, TypeOK
  <2> QED BY <2>1, <2>2, <2>3 DEF IInv
<1> QED BY <1>4, <1>5 DEF UpdateOrder

(* upsert_payment.  The lock keeps it from the payment of a refunded order.*)
LEMMA UpsertPaymentStep ==
  ASSUME LedgerAssumption, IInv, NEW o \in Orders, NEW amount \in Amounts,
         NEW channel \in ChannelInputs, NEW s \in PaymentInputs,
         UpsertPayment(o, amount, channel, s)
  PROVE  IInv'
<1>1. /\ DOMAIN action' = DOMAIN action
      /\ action' \in [DOMAIN action -> [preview : built, status : ActionStatuses]]
      /\ audit' \subseteq (DOMAIN action) \X EventKeys
      /\ \A a \in DOMAIN action : action'[a].preview = action[a].preview
      /\ \A a \in DOMAIN action : action'[a].status = "completed" <=> a \in DOMAIN refund
      /\ OneActivePerOrder' /\ AuditTellsOutcome' /\ NeverMismatches'
  BY InvalidateKeepsRequests DEF UpsertPayment, StaleKeys
<1>2. /\ channel \in Channels /\ s \in PaymentStatuses /\ s # "refunded"
  BY DEF LedgerAssumption, InputPaymentStatuses, PaymentStatuses
<1>3. /\ DOMAIN payment' = DOMAIN payment \cup {o}
      /\ payment' \in [DOMAIN payment \cup {o} ->
                        [amount : Amounts, channel : Channels, status : PaymentStatuses]]
      /\ payment'[o].status # "refunded"
      /\ \A p \in DOMAIN payment : p # o => payment'[p] = payment[p]
  BY <1>2 DEF UpsertPayment, Put, IInv, TypeOK
<1>4. TypeOK'
  BY <1>1, <1>3 DEF IInv, TypeOK, UpsertPayment
<1>5. RefundIsBacked'
  <2>1. \A a \in DOMAIN refund : action[a].preview.order # o
    BY DEF UpsertPayment, PaymentLocked, RefundsOf, IInv, RefundIsBacked
  <2> QED BY <2>1, <1>1, <1>3 DEF IInv, RefundIsBacked, RefundsOf, UpsertPayment, TypeOK
<1>6. NoOrphanAction' /\ PreviewsSound'
  BY <1>1, <1>3 DEF IInv, NoOrphanAction, PreviewsSound, UpsertPayment, TypeOK
<1> QED BY <1>1, <1>4, <1>5, <1>6 DEF IInv

(* build_refund_preview.                                                   *)
LEMMA BuildPreviewStep ==
  ASSUME LedgerAssumption, IInv, NEW a \in Actions, NEW t \in Tasks, NEW o \in Orders,
         NEW p \in Policies, NEW now \in Times, BuildPreview(a, t, o, p, now)
  PROVE  IInv'
<1> DEFINE pv == Preview(a, t, o, p)
<1>1. /\ pv \in Previews
      /\ MatrixAllows(pv.fingerprint.context)
      /\ pv.amount = pv.fingerprint.context.paid
      /\ pv.channel = pv.fingerprint.context.channel
  BY PreviewOfEligible DEF BuildPreview, IInv
<1>2. built' = built \cup {pv}
  BY DEF BuildPreview
<1> HIDE DEF pv
<1>3. UNCHANGED <<order, shipment, payment, action, refund, audit>>
  BY DEF BuildPreview
<1>4. action' \in [DOMAIN action -> [preview : built', status : ActionStatuses]]
  BY <1>2, <1>3 DEF IInv, TypeOK
<1>5. TypeOK'
  BY <1>1, <1>2, <1>3, <1>4 DEF IInv, TypeOK
<1>6. PreviewsSound'
  BY <1>1, <1>2, <1>3 DEF IInv, PreviewsSound
<1>7. OneActivePerOrder' /\ NoOrphanAction' /\ NeverMismatches'
  BY <1>3 DEF IInv, OneActivePerOrder, NoOrphanAction, NeverMismatches
<1>8. RefundIsBacked'
  BY <1>3 DEF IInv, RefundIsBacked, RefundsOf
<1>9. AuditTellsOutcome'
  <2>1. \A b : ClosingEvents(b)' = ClosingEvents(b)
    BY <1>3 DEF ClosingEvents
  <2> QED BY <1>3, <2>1 DEF IInv, AuditTellsOutcome
<1> QED BY <1>5, <1>6, <1>7, <1>8, <1>9 DEF IInv

(* Refunds stay backed while previews, payments and completions stay.      *)
LEMMA BackedByPreviews ==
  ASSUME IInv,
         \A a \in DOMAIN action : action'[a].preview = action[a].preview,
         \A a \in DOMAIN action' : action'[a].status = "completed" <=> a \in DOMAIN refund,
         UNCHANGED <<payment, refund>>
  PROVE  RefundIsBacked'
BY DEF IInv, RefundIsBacked, RefundsOf, TypeOK

(* A step that only closes requests without a refund keeps the invariant.  *)
LEMMA ClosingStep ==
  ASSUME IInv, NEW as \in SUBSET DOMAIN action, NEW status, NEW key,
         \A a \in as : action[a].status = "awaiting_approval",
         \/ status = "rejected" /\ key = "decision:rejected"
         \/ status = "stale" /\ key \in StaleKeys,
         action' = SetStatus(as, status),
         audit' = audit \cup (as \X {key}),
         UNCHANGED <<order, shipment, payment, refund, built>>
  PROVE  IInv'
<1>1. /\ DOMAIN action' = DOMAIN action
      /\ action' \in [DOMAIN action -> [preview : built, status : ActionStatuses]]
      /\ audit' \subseteq (DOMAIN action) \X EventKeys
      /\ \A a \in DOMAIN action : action'[a].preview = action[a].preview
      /\ \A a \in DOMAIN action : action'[a].status = "completed" <=> a \in DOMAIN refund
      /\ OneActivePerOrder' /\ AuditTellsOutcome' /\ NeverMismatches'
  BY ClosingKeepsRequests
<1>2. TypeOK'
  BY <1>1 DEF IInv, TypeOK
<1>3. RefundIsBacked'
  BY <1>1, BackedByPreviews
<1>4. NoOrphanAction' /\ PreviewsSound'
  BY <1>1 DEF IInv, NoOrphanAction, PreviewsSound
<1> QED BY <1>1, <1>2, <1>3, <1>4 DEF IInv

(* reject_action, mark_stale and the stale branch of execute_refund.       *)
LEMMA CloseStep ==
  ASSUME IInv, NEW a, NEW t, NEW pv, NEW expected,
         RejectAction(a, t, pv) \/ MarkStale(a, t, pv) \/ ExecuteStale(a, t, expected)
  PROVE  IInv'
<1> DEFINE as == {a}
<1>1. as \in SUBSET DOMAIN action /\ \A x \in as : action[x].status = "awaiting_approval"
  BY DEF RejectAction, MarkStale, Close, CanClose, ExecuteStale, CanExecute, Accessible
<1>2. UNCHANGED <<order, shipment, payment, refund, built>>
  BY DEF RejectAction, MarkStale, Close, ExecuteStale
<1>3. \A key : {<<a, key>>} = as \X {key}
  OBVIOUS
<1>4. CASE RejectAction(a, t, pv)
  <2>1. action' = SetStatus(as, "rejected") /\ audit' = audit \cup (as \X {"decision:rejected"})
    BY <1>3, <1>4 DEF RejectAction, Close
  <2> HIDE DEF as
  <2> QED BY <1>1, <1>2, <2>1, ClosingStep
<1>5. CASE MarkStale(a, t, pv)
  <2>1. action' = SetStatus(as, "stale") /\ audit' = audit \cup (as \X {"decision:stale"})
    BY <1>3, <1>5 DEF MarkStale, Close
  <2> HIDE DEF as
  <2> QED BY <1>1, <1>2, <2>1, ClosingStep DEF StaleKeys
<1>6. CASE ExecuteStale(a, t, expected)
  <2>1. action' = SetStatus(as, "stale") /\ audit' = audit \cup (as \X {"execution:stale"})
    BY <1>3, <1>6 DEF ExecuteStale
  <2> HIDE DEF as
  <2> QED BY <1>1, <1>2, <2>1, ClosingStep DEF StaleKeys
<1> QED BY <1>4, <1>5, <1>6

(* verify_refund.  What it reads agrees, by RefundIsBacked.                *)
LEMMA VerifyRefundStep ==
  ASSUME IInv, NEW a, VerifyRefund(a)
  PROVE  IInv'
<1>1. a \in DOMAIN action /\ audit' = audit \cup {<<a, VerificationKey(a)>>}
  BY DEF VerifyRefund
<1>2. UNCHANGED <<order, shipment, payment, action, refund, built>>
  BY DEF VerifyRefund
<1>3. VerificationKey(a) \in {"verification:refund_not_found", "verification:verified"}
  <2> SUFFICES ASSUME a \in DOMAIN refund PROVE Verified(a)
    BY DEF VerificationKey
  <2>1. action[a].status = "completed"
    BY <1>1 DEF IInv, RefundIsBacked
  <2>2. refund[a].status = "succeeded"
    BY DEF IInv, TypeOK
  <2> QED BY <2>1, <2>2 DEF Verified, IInv, RefundIsBacked
<1>4. TypeOK'
  BY <1>1, <1>2, <1>3 DEF IInv, TypeOK, EventKeys
<1>5. NeverMismatches'
  BY <1>1, <1>2, <1>3 DEF IInv, NeverMismatches
<1>6. AuditTellsOutcome'
  <2>1. VerificationKey(a) \notin ClosingKeys
    BY <1>3 DEF ClosingKeys, StaleKeys
  <2>2. \A b : ClosingEvents(b)' = ClosingEvents(b)
    BY <1>1, <2>1 DEF ClosingEvents
  <2> QED BY <1>2, <2>2 DEF IInv, AuditTellsOutcome
<1>7. OneActivePerOrder' /\ RefundIsBacked' /\ PreviewsSound' /\ NoOrphanAction'
  BY <1>2 DEF IInv, OneActivePerOrder, RefundIsBacked, PreviewsSound, NoOrphanAction, RefundsOf
<1> QED BY <1>4, <1>5, <1>6, <1>7 DEF IInv

(* reserve_preview.  GivesWay leaves only awaiting requests to supersede,  *)
(* so the new row is the order's one active request.                       *)
LEMMA ReserveRows ==
  ASSUME IInv, NEW pv \in built, ReservePreview(pv)
  PROVE  /\ pv.action \notin DOMAIN action /\ pv.action \notin DOMAIN refund
         /\ DOMAIN action' = DOMAIN action \cup {pv.action}
         /\ action' \in [DOMAIN action \cup {pv.action} ->
                          [preview : built, status : ActionStatuses]]
         /\ action'[pv.action].preview = pv
         /\ action'[pv.action].status = "awaiting_approval"
         /\ \A a \in DOMAIN action :
              /\ a # pv.action
              /\ action'[a].preview = action[a].preview
              /\ a \in ActiveActions(pv.order)
                   => action[a].status = "awaiting_approval" /\ action'[a].status = "stale"
              /\ a \notin ActiveActions(pv.order)
                   => action'[a].status = action[a].status /\ action'[a] = action[a]
<1>1. pv.action \notin DOMAIN action /\ pv.action \notin DOMAIN refund
  BY DEF ReservePreview, CanReserve, IInv, TypeOK
<1>2. \A a \in ActiveActions(pv.order) :
        a \in DOMAIN action /\ action[a].status = "awaiting_approval"
  BY DEF ReservePreview, CanReserve, GivesWay, ActiveActions
<1>3. action' = Put(SetStatus(ActiveActions(pv.order), "stale"), pv.action,
                    [preview |-> pv, status |-> "awaiting_approval"])
  BY DEF ReservePreview
<1> DEFINE as == ActiveActions(pv.order)
<1> HIDE DEF as
<1>4. /\ DOMAIN action' = DOMAIN action \cup {pv.action}
      /\ action'[pv.action] = [preview |-> pv, status |-> "awaiting_approval"]
      /\ \A a \in DOMAIN action :
           a # pv.action => action'[a] = IF a \in as
                                        THEN [action[a] EXCEPT !.status = "stale"]
                                        ELSE action[a]
  BY <1>3 DEF Put, SetStatus, as
<1>5. action' \in [DOMAIN action \cup {pv.action} ->
                   [preview : built, status : ActionStatuses]]
  BY <1>3 DEF Put, SetStatus, IInv, TypeOK, ActionStatuses
<1>6. \A a \in DOMAIN action : action[a] \in [preview : built, status : ActionStatuses]
  BY DEF IInv, TypeOK
<1> QED BY <1>1, <1>2, <1>4, <1>5, <1>6 DEF as

(* reserve_preview keeps the invariant: the actions that give way are all  *)
(* the active ones of the order.                                           *)
LEMMA ReservePreviewStep ==
  ASSUME IInv, NEW pv \in built, ReservePreview(pv)
  PROVE  IInv'
<1> DEFINE as == ActiveActions(pv.order)
           new == pv.action
<1>1. /\ new \notin DOMAIN action /\ new \notin DOMAIN refund
      /\ DOMAIN action' = DOMAIN action \cup {new}
      /\ action' \in [DOMAIN action \cup {new} -> [preview : built, status : ActionStatuses]]
      /\ action'[new].preview = pv
      /\ action'[new].status = "awaiting_approval"
      /\ \A a \in DOMAIN action :
           /\ a # new
           /\ action'[a].preview = action[a].preview
           /\ a \in as => action[a].status = "awaiting_approval" /\ action'[a].status = "stale"
           /\ a \notin as => action'[a].status = action[a].status
  BY ReserveRows
<1>2. as = {a \in DOMAIN action : /\ action[a].preview.order = pv.order
                                 /\ action[a].status \in {"awaiting_approval", "completed"}}
  BY DEF ActiveActions, ActiveStatuses
<1>3. /\ audit' = audit \cup (as \X {"stale:new_preview"}) \cup {<<new, "preview:reserved">>}
      /\ UNCHANGED <<order, shipment, payment, refund, built>>
      /\ pv.order \in DOMAIN order /\ pv.order \in DOMAIN payment
  BY DEF ReservePreview, CanReserve
<1>4. new \in Actions
  BY DEF IInv, TypeOK, Previews
<1> HIDE DEF as, new
<1>5. TypeOK'
  <2>1. audit' \subseteq (DOMAIN action') \X EventKeys
    BY <1>1, <1>2, <1>3 DEF IInv, TypeOK, EventKeys, ClosingKeys, StaleKeys
  <2>2. action' \in [DOMAIN action' -> [preview : built', status : ActionStatuses]]
    BY <1>1, <1>3
  <2> QED BY <1>1, <1>3, <1>4, <2>1, <2>2 DEF IInv, TypeOK
<1>6. OneActivePerOrder'
  <2> SUFFICES ASSUME NEW a \in DOMAIN action', NEW b \in DOMAIN action',
                      action'[a].preview.order = action'[b].preview.order,
                      action'[a].status \in {"awaiting_approval", "completed"},
                      action'[b].status \in {"awaiting_approval", "completed"}
               PROVE  a = b
    BY DEF OneActivePerOrder
  <2>1. CASE a # new /\ b # new
    BY <2>1, <1>1 DEF IInv, OneActivePerOrder
  <2>2. CASE a = new
    BY <2>2, <1>1, <1>2
  <2>3. CASE b = new
    BY <2>3, <1>1, <1>2
  <2> QED BY <2>1, <2>2, <2>3
<1>7. RefundIsBacked'
  <2>1. \A a \in DOMAIN action' : action'[a].status = "completed" <=> a \in DOMAIN refund
    <3>1. \A a \in DOMAIN action : action[a].status = "completed" <=> a \in DOMAIN refund
      BY DEF IInv, RefundIsBacked
    <3> QED BY <3>1, <1>1, <1>2
  <2> QED BY <2>1, <1>1, <1>3, BackedByPreviews
<1>8. PreviewsSound'
  BY <1>1, <1>3 DEF IInv, PreviewsSound, new
<1>9. NoOrphanAction' /\ NeverMismatches'
  BY <1>1, <1>3 DEF IInv, NoOrphanAction, NeverMismatches, TypeOK
<1>10. AuditTellsOutcome'
  <2> SUFFICES ASSUME NEW a \in DOMAIN action'
               PROVE  CASE action'[a].status = "awaiting_approval" -> ClosingEvents(a)' = {}
                        [] action'[a].status = "rejected"
                             -> ClosingEvents(a)' = {"decision:rejected"}
                        [] action'[a].status = "completed"
                             -> ClosingEvents(a)' = {"execution:succeeded"}
                        [] action'[a].status = "stale"
                             -> \E k \in StaleKeys : ClosingEvents(a)' = {k}
    BY DEF AuditTellsOutcome
  <2>1. CASE a = new
    <3>1. ClosingEvents(a)' = {}
      BY <2>1, <1>1, <1>2, <1>3 DEF ClosingEvents, ClosingKeys, StaleKeys, IInv, TypeOK
    <3> QED BY <3>1, <2>1, <1>1
  <2>2. CASE a # new /\ a \in as
    <3>1. ClosingEvents(a) = {}
      BY <2>2, <1>1 DEF IInv, AuditTellsOutcome
    <3>2. ClosingEvents(a)' = {"stale:new_preview"}
      BY <3>1, <2>2, <1>3 DEF ClosingEvents, ClosingKeys, StaleKeys
    <3> QED BY <3>2, <2>2, <1>1 DEF StaleKeys
  <2>3. CASE a # new /\ a \notin as
    <3>1. ClosingEvents(a)' = ClosingEvents(a)
      BY <2>3, <1>3 DEF ClosingEvents
    <3>2. a \in DOMAIN action /\ action'[a].status = action[a].status
      BY <2>3, <1>1
    <3>3. action[a].status \in ActionStatuses
      BY <3>2 DEF IInv, TypeOK
    <3> QED BY <3>1, <3>2, <3>3 DEF IInv, AuditTellsOutcome, ActionStatuses
  <2> QED BY <2>1, <2>2, <2>3
<1> QED BY <1>5, <1>6, <1>7, <1>8, <1>9, <1>10 DEF IInv

(* execute_refund.  FactsHold turns what PreviewsSound says of the facts   *)
(* the preview was built on into what holds of the tables now.             *)
LEMMA ExecuteReads ==
  ASSUME IInv, NEW a, NEW t, NEW expected, ExecuteRefund(a, t, expected)
  PROVE  LET pv == action[a].preview
             o  == pv.order
         IN /\ a \in DOMAIN action /\ action[a].status = "awaiting_approval"
            /\ a \notin DOMAIN refund
            /\ o \in DOMAIN order /\ o \in DOMAIN payment
            /\ MatrixAllows(ContextOf(o))
            /\ RefundsOf(o) = {}
            /\ payment[o].amount = pv.amount /\ payment[o].channel = pv.channel
<1> DEFINE pv == action[a].preview
           o  == pv.order
<1>1. /\ a \in DOMAIN action /\ action[a].status = "awaiting_approval"
      /\ o \in DOMAIN order /\ o \in DOMAIN payment
  BY DEF ExecuteRefund, CanExecute, Accessible
<1>2. a \notin DOMAIN refund
  BY <1>1 DEF IInv, RefundIsBacked
<1>3. pv.fingerprint.context = ContextOf(o)
  BY DEF ExecuteRefund, FactsHold, Fingerprint
<1>4. pv \in built
  BY <1>1 DEF IInv, TypeOK
<1>5. /\ MatrixAllows(ContextOf(o))
      /\ pv.amount = ContextOf(o).paid /\ pv.channel = ContextOf(o).channel
  BY <1>3, <1>4 DEF IInv, PreviewsSound
<1>6. ContextOf(o).paid = payment[o].amount /\ ContextOf(o).channel = payment[o].channel
  BY <1>1 DEF ContextOf
<1>7. RefundsOf(o) = {}
  BY <1>5 DEF MatrixAllows, ContextOf
<1> QED BY <1>1, <1>2, <1>5, <1>6, <1>7

(* The rows execute_refund leaves: the refund, the payment it closes and   *)
(* the completed action, all others as they were.                          *)
LEMMA ExecuteRows ==
  ASSUME IInv, NEW a, NEW t, NEW expected, ExecuteRefund(a, t, expected)
  PROVE  LET pv == action[a].preview
         IN /\ DOMAIN refund' = DOMAIN refund \cup {a}
            /\ refund'[a] = [order |-> pv.order, amount |-> pv.amount,
                             channel |-> pv.channel, status |-> "succeeded"]
            /\ \A b \in DOMAIN refund : b # a => refund'[b] = refund[b]
            /\ DOMAIN payment' = DOMAIN payment
            /\ payment'[pv.order] = [payment[pv.order] EXCEPT !.status = "refunded"]
            /\ \A o \in DOMAIN payment : o # pv.order => payment'[o] = payment[o]
            /\ DOMAIN action' = DOMAIN action
            /\ action'[a] = [action[a] EXCEPT !.status = "completed"]
            /\ \A b \in DOMAIN action : b # a => action'[b] = action[b]
<1>1. DOMAIN payment' = DOMAIN payment
  BY DEF ExecuteRefund
<1>2. action[a].preview.order \in DOMAIN payment /\ a \in DOMAIN action
  BY DEF ExecuteRefund, CanExecute, Accessible
<1>3. payment \in [DOMAIN payment -> [amount : Amounts, channel : Channels,
                                     status : PaymentStatuses]]
  BY DEF IInv, TypeOK
<1>4. /\ payment'[action[a].preview.order]
           = [payment[action[a].preview.order] EXCEPT !.status = "refunded"]
      /\ \A o \in DOMAIN payment :
           o # action[a].preview.order => payment'[o] = payment[o]
  BY <1>2, <1>3 DEF ExecuteRefund
<1>5. /\ DOMAIN refund' = DOMAIN refund \cup {a}
      /\ refund'[a] = [order |-> action[a].preview.order, amount |-> action[a].preview.amount,
                       channel |-> action[a].preview.channel, status |-> "succeeded"]
      /\ \A b \in DOMAIN refund : b # a => refund'[b] = refund[b]
  BY DEF ExecuteRefund, Put
<1>6. /\ DOMAIN action' = DOMAIN action
      /\ action'[a] = [action[a] EXCEPT !.status = "completed"]
      /\ \A b \in DOMAIN action : b # a => action'[b] = action[b]
  BY <1>2 DEF ExecuteRefund, SetStatus
<1> QED BY <1>1, <1>4, <1>5, <1>6

(* execute_refund keeps the invariant, whether it pays or finds the facts  *)
(* changed.                                                                *)
LEMMA ExecuteRefundStep ==
  ASSUME IInv, NEW a, NEW t, NEW expected, ExecuteRefund(a, t, expected)
  PROVE  IInv'
<1> DEFINE pv == action[a].preview
           o  == pv.order
<1>1. /\ a \in DOMAIN action /\ action[a].status = "awaiting_approval"
      /\ a \notin DOMAIN refund
      /\ o \in DOMAIN order /\ o \in DOMAIN payment
      /\ RefundsOf(o) = {}
      /\ payment[o].amount = pv.amount /\ payment[o].channel = pv.channel
  BY ExecuteReads
<1>2. /\ DOMAIN refund' = DOMAIN refund \cup {a}
      /\ refund'[a] = [order |-> pv.order, amount |-> pv.amount,
                       channel |-> pv.channel, status |-> "succeeded"]
      /\ \A b \in DOMAIN refund : b # a => refund'[b] = refund[b]
      /\ DOMAIN payment' = DOMAIN payment
      /\ payment'[o] = [payment[o] EXCEPT !.status = "refunded"]
      /\ \A q \in DOMAIN payment : q # o => payment'[q] = payment[q]
      /\ DOMAIN action' = DOMAIN action
      /\ action'[a] = [action[a] EXCEPT !.status = "completed"]
      /\ \A b \in DOMAIN action : b # a => action'[b] = action[b]
  BY ExecuteRows
<1>3. /\ audit' = audit \cup {<<a, "approval:approved">>, <<a, "execution:succeeded">>}
      /\ UNCHANGED <<order, shipment, built>>
  BY DEF ExecuteRefund
<1>4. pv \in built /\ built \subseteq Previews
  BY <1>1 DEF IInv, TypeOK
<1>5. /\ \A b \in DOMAIN action : action[b] \in [preview : built, status : ActionStatuses]
      /\ \A b \in DOMAIN action : action'[b].preview = action[b].preview
      /\ action'[a].status = "completed"
  <2>1. \A b \in DOMAIN action : action[b] \in [preview : built, status : ActionStatuses]
    BY DEF IInv, TypeOK
  <2> QED BY <1>1, <1>2, <2>1
<1> HIDE DEF pv, o
<1>6. TypeOK'
  <2>1. payment' \in [DOMAIN payment' -> [amount : Amounts, channel : Channels,
                                         status : PaymentStatuses]]
    <3>1. payment' = [payment EXCEPT ![o].status = "refunded"]
      BY DEF ExecuteRefund, pv, o
    <3>2. payment \in [DOMAIN payment -> [amount : Amounts, channel : Channels,
                                         status : PaymentStatuses]]
      BY DEF IInv, TypeOK
    <3> QED BY <1>1, <3>1, <3>2 DEF PaymentStatuses
  <2>2. refund' \in [DOMAIN refund' -> [order : Orders, amount : Nat, channel : Channels,
                                       status : {"succeeded"}]]
    <3>1. /\ pv.order \in Orders /\ pv.amount \in Nat /\ pv.channel \in Channels
      BY <1>4 DEF Previews
    <3> QED BY <3>1 DEF ExecuteRefund, Put, IInv, TypeOK, pv
  <2>3. action' \in [DOMAIN action' -> [preview : built', status : ActionStatuses]]
    BY <1>3 DEF ExecuteRefund, SetStatus, IInv, TypeOK, ActionStatuses
  <2>4. audit' \subseteq (DOMAIN action') \X EventKeys
    BY <1>1, <1>2, <1>3 DEF IInv, TypeOK, EventKeys, ClosingKeys
  <2> QED BY <2>1, <2>2, <2>3, <2>4, <1>1, <1>2, <1>3 DEF IInv, TypeOK
<1>7. OneActivePerOrder'
  BY <1>1, <1>2, <1>5 DEF IInv, OneActivePerOrder
<1>8. RefundIsBacked'
  <2>1. \A b \in DOMAIN action' : action'[b].status = "completed" <=> b \in DOMAIN refund'
    BY <1>1, <1>2, <1>5 DEF IInv, RefundIsBacked
  <2>2. ASSUME NEW b \in DOMAIN refund, b # a
        PROVE  action[b].preview.order # o
    BY <2>2, <1>1 DEF RefundsOf, IInv, RefundIsBacked
  <2>3. ASSUME NEW b \in DOMAIN refund'
        PROVE  LET pb == action[b].preview
               IN /\ refund'[b].order = pb.order
                  /\ refund'[b].amount = pb.amount
                  /\ refund'[b].channel = pb.channel
                  /\ pb.order \in DOMAIN payment'
                  /\ payment'[pb.order].amount = pb.amount
                  /\ payment'[pb.order].channel = pb.channel
                  /\ payment'[pb.order].status = "refunded"
    <3>1. CASE b = a
      <4>1. payment[o] \in [amount : Amounts, channel : Channels, status : PaymentStatuses]
        BY <1>1 DEF IInv, TypeOK
      <4> QED BY <3>1, <4>1, <1>1, <1>2 DEF pv, o
    <3>2. CASE b # a
      <4>1. b \in DOMAIN refund /\ refund'[b] = refund[b]
        BY <3>2, <1>2
      <4>2. LET pb == action[b].preview
            IN pb.order \in DOMAIN payment /\ payment'[pb.order] = payment[pb.order]
        BY <3>2, <4>1, <2>2, <1>2 DEF IInv, RefundIsBacked
      <4> QED BY <4>1, <4>2, <1>2 DEF IInv, RefundIsBacked
    <3> QED BY <3>1, <3>2
  <2>4. \A b \in DOMAIN refund' : action'[b].preview = action[b].preview
    BY <1>1, <1>2, <1>5 DEF IInv, TypeOK
  <2>5. ASSUME NEW q \in DOMAIN payment', payment'[q].status = "refunded"
        PROVE  {b \in DOMAIN refund' : refund'[b].order = q} # {}
    <3>1. CASE q = o
      BY <3>1, <1>2 DEF o
    <3>2. CASE q # o
      <4>1. PICK b \in DOMAIN refund : refund[b].order = q
        BY <3>2, <2>5, <1>2 DEF IInv, RefundIsBacked, RefundsOf
      <4> QED BY <4>1, <1>1, <1>2
    <3> QED BY <3>1, <3>2
  <2> QED BY <2>1, <2>3, <2>4, <2>5 DEF RefundIsBacked, RefundsOf
<1>9. PreviewsSound' /\ NoOrphanAction' /\ NeverMismatches'
  BY <1>2, <1>3, <1>5 DEF IInv, PreviewsSound, NoOrphanAction, NeverMismatches
<1>10. AuditTellsOutcome'
  <2>1. ClosingEvents(a) = {}
    BY <1>1 DEF IInv, AuditTellsOutcome
  <2>2. ClosingEvents(a)' = {"execution:succeeded"}
    BY <2>1, <1>3 DEF ClosingEvents, ClosingKeys, StaleKeys
  <2>3. \A b \in DOMAIN action : b # a => ClosingEvents(b)' = ClosingEvents(b)
    BY <1>3 DEF ClosingEvents
  <2> SUFFICES ASSUME NEW b \in DOMAIN action
               PROVE  CASE action'[b].status = "awaiting_approval" -> ClosingEvents(b)' = {}
                        [] action'[b].status = "rejected"
                             -> ClosingEvents(b)' = {"decision:rejected"}
                        [] action'[b].status = "completed"
                             -> ClosingEvents(b)' = {"execution:succeeded"}
                        [] action'[b].status = "stale"
                             -> \E k \in StaleKeys : ClosingEvents(b)' = {k}
    BY <1>2 DEF AuditTellsOutcome
  <2>4. CASE b = a
    BY <2>2, <2>4, <1>5
  <2>5. CASE b # a
    <3>1. action'[b].status = action[b].status /\ ClosingEvents(b)' = ClosingEvents(b)
      BY <2>3, <2>5, <1>2
    <3>2. action[b].status \in ActionStatuses
      BY <1>5
    <3> QED BY <3>1, <3>2 DEF IInv, AuditTellsOutcome, ActionStatuses
  <2> QED BY <2>4, <2>5
<1> QED BY <1>6, <1>7, <1>8, <1>9, <1>10 DEF IInv

-----------------------------------------------------------------------------
(* Every step of the ledger keeps the invariant.                           *)
LEMMA InvariantStep ==
  ASSUME LedgerAssumption, IInv, [Next]_vars
  PROVE  IInv'
<1>1. CASE UNCHANGED vars
  <2>1. UNCHANGED <<order, shipment, payment, action, refund, audit, built>>
    BY <1>1 DEF vars
  <2>2. TypeOK' /\ RefundIsBacked' /\ NoOrphanAction'
    BY <2>1 DEF IInv, TypeOK, RefundIsBacked, NoOrphanAction, RefundsOf
  <2> QED BY <2>1, <2>2, RequestsUntouched DEF IInv
<1>2. ASSUME NEW o \in Orders, WriteFacts(o)
      PROVE  IInv'
  BY <1>2, CreateOrderStep, UpdateOrderStep, DeleteOrderStep, UpsertPaymentStep DEF WriteFacts
<1>3. ASSUME NEW a \in Actions, Propose(a)
      PROVE  IInv'
  BY <1>3, BuildPreviewStep DEF Propose
<1>4. ASSUME NEW a \in Actions, VerifyRefund(a)
      PROVE  IInv'
  BY <1>4, VerifyRefundStep
<1>5. ASSUME NEW pv \in built, ReservePreview(pv)
      PROVE  IInv'
  BY <1>5, ReservePreviewStep
<1>6. ASSUME NEW a \in Actions, NEW t \in Tasks, Decide(a, t)
      PROVE  IInv'
  BY <1>6, CloseStep, ExecuteRefundStep DEF Decide
<1> QED BY <1>1, <1>2, <1>3, <1>4, <1>5, <1>6 DEF Next

(* The empty tables satisfy the invariant.                                 *)
LEMMA InvariantInit == Init => IInv
<1> SUFFICES ASSUME Init PROVE IInv
  OBVIOUS
<1>1. TypeOK
  BY DEF Init, TypeOK
<1>2. /\ OneActivePerOrder /\ RefundIsBacked /\ PreviewsSound
      /\ NoOrphanAction /\ AuditTellsOutcome /\ NeverMismatches
  BY DEF Init, OneActivePerOrder, RefundIsBacked, PreviewsSound, NoOrphanAction,
         AuditTellsOutcome, NeverMismatches
<1> QED BY <1>1, <1>2 DEF IInv

(* The inductive invariant holds of every call sequence of the repository  *)
(* methods.                                                                *)
THEOREM Invariant == Spec => []IInv
<1>1. IInv /\ [Next]_vars => IInv'
  BY InvariantStep, LedgerAssumption
<1> QED BY InvariantInit, <1>1, PTL DEF Spec

(* The tables are well typed, whatever is called in whatever order.        *)
THEOREM TypeCorrect == Spec => []TypeOK
<1>1. IInv => TypeOK
  BY DEF IInv
<1> QED BY Invariant, <1>1, PTL

(* Refunds, completed actions and refunded payments never part, at most    *)
(* one request per order is active, and no verification ever mismatches.   *)
THEOREM LedgerIsSafe ==
  Spec => [](OneActivePerOrder /\ RefundIsBacked /\ NoOrphanAction /\ NeverMismatches)
<1>1. IInv => OneActivePerOrder /\ RefundIsBacked /\ NoOrphanAction /\ NeverMismatches
  BY DEF IInv
<1> QED BY Invariant, <1>1, PTL

(* Every preview a checkpoint can still hold was built for the whole       *)
(* payment on facts the matrix allows.                                     *)
THEOREM PreviewsAreSound == Spec => []PreviewsSound
<1>1. IInv => PreviewsSound
  BY DEF IInv
<1> QED BY Invariant, <1>1, PTL

(* Every request's end is in the audit trail once, and only once.          *)
THEOREM AuditIsComplete == Spec => []AuditTellsOutcome
<1>1. IInv => AuditTellsOutcome
  BY DEF IInv
<1> QED BY Invariant, <1>1, PTL

-----------------------------------------------------------------------------
(* Which steps touch refunds: execute_refund alone.                        *)
LEMMA OnlyExecuteRefunds ==
  ASSUME [Next]_vars
  PROVE  \/ refund' = refund
         \/ \E a \in Actions, t \in Tasks, pv \in built :
              ExecuteRefund(a, t, pv.fingerprint)
BY DEF Next, vars, WriteFacts, Propose, Decide, CreateOrder, UpdateOrder, DeleteOrder,
       UpsertPayment, BuildPreview, ReservePreview, RejectAction, MarkStale, Close,
       ExecuteStale, VerifyRefund

(* Every refund is written on facts that allow it at that instant, and for *)
(* exactly the payment's present terms.                                    *)
THEOREM PaysOnCurrentFacts == Spec => PaidOnCurrentFacts
<1>1. ASSUME IInv, [Next]_vars, NEW a \in DOMAIN refund' \ DOMAIN refund
      PROVE  LET o == refund'[a].order
             IN /\ MatrixAllows(ContextOf(o))
                /\ refund'[a].amount = payment[o].amount
                /\ refund'[a].channel = payment[o].channel
  <2>1. PICK b \in Actions, t \in Tasks, pv \in built : ExecuteRefund(b, t, pv.fingerprint)
    BY <1>1, OnlyExecuteRefunds
  <2>2. DOMAIN refund' = DOMAIN refund \cup {b}
    BY <1>1, <2>1, ExecuteRows
  <2>3. a = b
    BY <2>2
  <2>4. LET o == action[a].preview.order
        IN /\ MatrixAllows(ContextOf(o))
           /\ payment[o].amount = action[a].preview.amount
           /\ payment[o].channel = action[a].preview.channel
    BY <1>1, <2>1, <2>3, ExecuteReads
  <2>5. refund'[a] = [order |-> action[a].preview.order,
                      amount |-> action[a].preview.amount,
                      channel |-> action[a].preview.channel, status |-> "succeeded"]
    BY <1>1, <2>1, <2>3, ExecuteRows
  <2> QED BY <2>4, <2>5
<1>2. IInv /\ [Next]_vars
        => [\A a \in DOMAIN refund' \ DOMAIN refund :
              LET o == refund'[a].order
              IN /\ MatrixAllows(ContextOf(o))
                 /\ refund'[a].amount = payment[o].amount
                 /\ refund'[a].channel = payment[o].channel]_vars
  BY <1>1
<1> QED BY Invariant, <1>2, PTL DEF Spec, PaidOnCurrentFacts

(* What any step may do to a request that is already stored.               *)
LEMMA RequestStep ==
  ASSUME IInv, [Next]_vars, NEW a \in DOMAIN action
  PROVE  /\ a \in DOMAIN action'
         /\ action'[a].preview = action[a].preview
         /\ action[a].status # "awaiting_approval" => action'[a] = action[a]
<1> DEFINE Kept == /\ a \in DOMAIN action'
                   /\ action'[a].preview = action[a].preview
                   /\ action[a].status # "awaiting_approval" => action'[a] = action[a]
<1> SUFFICES Kept
  OBVIOUS
<1>1. action[a] \in [preview : built, status : ActionStatuses]
  BY DEF IInv, TypeOK
<1>2. ASSUME NEW as, NEW status,
             \A x \in as : action[x].status = "awaiting_approval",
             action' = SetStatus(as, status)
      PROVE  Kept
  BY <1>1, <1>2 DEF SetStatus
<1>3. CASE action' = action
  BY <1>3
<1>4. ASSUME NEW o, NEW key, InvalidatePending(o, key)
      PROVE  Kept
  <2>1. \A x \in Awaiting(o) : action[x].status = "awaiting_approval"
    BY DEF Awaiting
  <2> QED BY <1>2, <1>4, <2>1 DEF InvalidatePending
<1>5. ASSUME NEW o \in Orders, WriteFacts(o)
      PROVE  Kept
  <2>1. \/ action' = action
        \/ InvalidatePending(o, "stale:order_or_shipment_changed")
        \/ InvalidatePending(o, "stale:payment_changed")
    BY <1>5 DEF WriteFacts, CreateOrder, UpdateOrder, DeleteOrder, UpsertPayment
  <2> HIDE DEF Kept
  <2> QED BY <1>3, <1>4, <2>1
<1>6. ASSUME NEW pv \in built, ReservePreview(pv)
      PROVE  Kept
  <2> HIDE DEF Kept
  <2>1. ReservePreview(pv)
    BY <1>6
  <2>2. a \in DOMAIN action'
    BY <2>1, ReserveRows
  <2>3. action'[a].preview = action[a].preview
    BY <2>1, ReserveRows
  <2>4. \/ action[a].status = "awaiting_approval"
        \/ action'[a] = action[a]
    BY <2>1, ReserveRows
  <2> QED BY <2>2, <2>3, <2>4 DEF Kept
<1>7. ASSUME NEW b, NEW t, NEW pv, RejectAction(b, t, pv) \/ MarkStale(b, t, pv)
      PROVE  Kept
  <2>1. \A x \in {b} : action[x].status = "awaiting_approval"
    BY <1>7 DEF RejectAction, MarkStale, Close, CanClose
  <2> QED BY <1>2, <1>7, <2>1 DEF RejectAction, MarkStale, Close
<1>8. ASSUME NEW b, NEW t, NEW expected,
             ExecuteRefund(b, t, expected) \/ ExecuteStale(b, t, expected)
      PROVE  Kept
  <2>1. \A x \in {b} : action[x].status = "awaiting_approval"
    BY <1>8 DEF ExecuteRefund, ExecuteStale, CanExecute
  <2> QED BY <1>2, <1>8, <2>1 DEF ExecuteRefund, ExecuteStale
<1>9. ASSUME Next
      PROVE  Kept
  <2>1. CASE \E o \in Orders : WriteFacts(o)
    BY <1>5, <2>1
  <2>2. CASE \E b \in Actions : Propose(b) \/ VerifyRefund(b)
    BY <1>3, <2>2 DEF Propose, BuildPreview, VerifyRefund
  <2>3. CASE \E pv \in built : ReservePreview(pv)
    BY <1>6, <2>3
  <2>4. CASE \E b \in Actions, t \in Tasks : Decide(b, t)
    <3> HIDE DEF Kept
    <3> QED BY <1>7, <1>8, <2>4 DEF Decide
  <2> QED BY <1>9, <2>1, <2>2, <2>3, <2>4 DEF Next
<1> QED BY <1>3, <1>9 DEF vars

(* A closed request never changes, and no request changes its preview.     *)
THEOREM ClosedRequestsAreFinal == Spec => ClosedIsFinal
<1>1. IInv /\ [Next]_vars
        => [\A a \in DOMAIN action :
              /\ a \in DOMAIN action'
              /\ action'[a].preview = action[a].preview
              /\ action[a].status # "awaiting_approval" => action'[a] = action[a]]_vars
  BY RequestStep
<1> QED BY Invariant, <1>1, PTL DEF Spec, ClosedIsFinal

-----------------------------------------------------------------------------
(* The ledger implements RefundPromise.                                    *)

(* An order with an awaiting request has that one only.                    *)
LEMMA AwaitingIsAlone ==
  ASSUME IInv, NEW a \in DOMAIN action, action[a].status = "awaiting_approval"
  PROVE  Awaiting(action[a].preview.order) = {a}
BY DEF Awaiting, IInv, OneActivePerOrder

(* Closing a set of awaiting requests that is all of order o's.            *)
LEMMA ClosingMaps ==
  ASSUME IInv, NEW o \in Orders, NEW status \in {"stale", "rejected"},
         action' = SetStatus(Awaiting(o), status), refund' = refund
  PROVE  Promise!Close(o)
<1>1. DOMAIN action' = DOMAIN action
  BY DEF SetStatus
<1>2. \A a \in DOMAIN action :
        /\ action'[a].preview = action[a].preview
        /\ action'[a].status = IF a \in Awaiting(o) THEN status ELSE action[a].status
  BY DEF SetStatus, IInv, TypeOK
<1>3. ASSUME NEW p \in Orders
      PROVE  Awaiting(p)' = IF p = o THEN {} ELSE Awaiting(p)
  BY <1>1, <1>2 DEF Awaiting
<1>4. \A p \in Orders : RefundsOf(p)' = RefundsOf(p)
  BY DEF RefundsOf
<1> QED BY <1>1, <1>3, <1>4 DEF Promise!Close

(* A reservation opens the request in the promise.                         *)
LEMMA ReserveMaps ==
  ASSUME IInv, NEW pv \in built, ReservePreview(pv)
  PROVE  Promise!Open(pv.order, pv.action) /\ pv.order \in Orders /\ pv.action \in Actions
<1> DEFINE o == pv.order
           new == pv.action
<1>1. /\ new \notin DOMAIN action
      /\ DOMAIN action' = DOMAIN action \cup {new}
      /\ action'[new].preview = pv
      /\ action'[new].status = "awaiting_approval"
      /\ \A a \in DOMAIN action :
           /\ a # new
           /\ action'[a].preview = action[a].preview
           /\ a \in ActiveActions(o)
                => action[a].status = "awaiting_approval" /\ action'[a].status = "stale"
           /\ a \notin ActiveActions(o) => action'[a].status = action[a].status
  BY ReserveRows
<1>2. refund' = refund
  BY DEF ReservePreview
<1>3. o \in Orders /\ new \in Actions
  BY DEF IInv, TypeOK, Previews
<1>4. RefundsOf(o) = {}
  <2> SUFFICES ASSUME NEW a \in RefundsOf(o) PROVE FALSE
    OBVIOUS
  <2>1. /\ a \in DOMAIN action /\ action[a].status = "completed"
        /\ action[a].preview.order = o
    BY DEF RefundsOf, IInv, RefundIsBacked, TypeOK
  <2> QED BY <2>1, <1>1 DEF ActiveActions, ActiveStatuses
<1>5. Awaiting(o)' = {new}
  <2> HIDE DEF o, new
  <2>1. \A a \in DOMAIN action :
          action[a].preview.order = o => action'[a].status # "awaiting_approval"
    BY <1>1 DEF ActiveActions, ActiveStatuses
  <2>2. action'[new].preview.order = o
    BY <1>1 DEF o
  <2> QED BY <1>1, <2>1, <2>2 DEF Awaiting
<1>6. ASSUME NEW p \in Orders, p # o
      PROVE  Awaiting(p)' = Awaiting(p)
  <2> HIDE DEF o, new
  <2>1. action'[new].preview.order = o
    BY <1>1 DEF o
  <2>2. \A a \in DOMAIN action : action[a].preview.order = p => a \notin ActiveActions(o)
    BY <1>6 DEF ActiveActions
  <2> QED BY <1>1, <1>6, <2>1, <2>2 DEF Awaiting
<1>7. \A p \in Orders : RefundsOf(p)' = RefundsOf(p)
  BY <1>2 DEF RefundsOf
<1> QED BY <1>1, <1>3, <1>4, <1>5, <1>6, <1>7 DEF Promise!Open

(* An execution pays the open request in the promise.                      *)
LEMMA ExecuteMaps ==
  ASSUME IInv, NEW a, NEW t, NEW expected, ExecuteRefund(a, t, expected)
  PROVE  \E o \in Orders : Promise!Pay(o, a)
<1> DEFINE pv == action[a].preview
           o  == pv.order
<1>1. /\ a \in DOMAIN action /\ action[a].status = "awaiting_approval"
      /\ a \notin DOMAIN refund
      /\ RefundsOf(o) = {}
  BY ExecuteReads
<1>2. /\ DOMAIN refund' = DOMAIN refund \cup {a}
      /\ refund'[a] = [order |-> pv.order, amount |-> pv.amount,
                       channel |-> pv.channel, status |-> "succeeded"]
      /\ \A b \in DOMAIN refund : b # a => refund'[b] = refund[b]
      /\ DOMAIN payment' = DOMAIN payment
      /\ payment'[o] = [payment[o] EXCEPT !.status = "refunded"]
      /\ \A q \in DOMAIN payment : q # o => payment'[q] = payment[q]
      /\ DOMAIN action' = DOMAIN action
      /\ action'[a] = [action[a] EXCEPT !.status = "completed"]
      /\ \A b \in DOMAIN action : b # a => action'[b] = action[b]
  BY ExecuteRows
<1>3. /\ action[a] \in [preview : built, status : ActionStatuses] /\ o \in Orders
  BY <1>1 DEF IInv, TypeOK, Previews
<1>4. Awaiting(o) = {a}
  BY <1>1, AwaitingIsAlone
<1>5. action'[a].status = "completed" /\ action'[a].preview = pv /\ refund'[a].order = o
  BY <1>2, <1>3
<1> HIDE DEF pv, o
<1>6. ASSUME NEW p \in Orders
      PROVE  Awaiting(p)' = IF p = o THEN {} ELSE Awaiting(p)
  <2>1. action'[a].status # "awaiting_approval"
    BY <1>5
  <2>2. Awaiting(p)' = {b \in Awaiting(p) : b # a}
    <3>1. \A b \in DOMAIN action' : b \in Awaiting(p)' <=> b \in Awaiting(p) /\ b # a
      BY <1>1, <1>2, <2>1 DEF Awaiting
    <3>2. Awaiting(p)' \subseteq DOMAIN action' /\ Awaiting(p) \subseteq DOMAIN action'
      BY <1>2 DEF Awaiting
    <3> QED BY <3>1, <3>2
  <2>3. p # o => a \notin Awaiting(p)
    BY DEF Awaiting, pv, o
  <2> QED BY <1>4, <2>2, <2>3
<1>7. ASSUME NEW p \in Orders
      PROVE  RefundsOf(p)' = IF p = o THEN {a} ELSE RefundsOf(p)
  BY <1>1, <1>2, <1>5 DEF RefundsOf
<1>8. Promise!Pay(o, a)
  BY <1>1, <1>2, <1>3, <1>4, <1>6, <1>7 DEF Promise!Pay
<1> QED BY <1>3, <1>8

(* Every step of the ledger is one of the promise, or leaves it alone.     *)
LEMMA PromiseStep ==
  ASSUME LedgerAssumption, IInv, [Next]_vars
  PROVE  [Promise!Next]_(Promise!promise)
<1> DEFINE Mapped == [Promise!Next]_(Promise!promise)
<1>1. ASSUME action' = action, refund' = refund
      PROVE  Mapped
  BY <1>1 DEF Promise!promise, Awaiting, RefundsOf
<1>2. ASSUME NEW o \in Orders, NEW status \in {"stale", "rejected"},
             action' = SetStatus(Awaiting(o), status), refund' = refund
      PROVE  Mapped
  BY <1>2, ClosingMaps DEF Promise!Next
<1>3. ASSUME NEW a \in DOMAIN action, action[a].status = "awaiting_approval",
             NEW status \in {"stale", "rejected"},
             action' = SetStatus({a}, status), refund' = refund
      PROVE  Mapped
  <2>1. Awaiting(action[a].preview.order) = {a}
    BY <1>3, AwaitingIsAlone
  <2>2. action[a].preview.order \in Orders
    BY DEF IInv, TypeOK, Previews
  <2> HIDE DEF Mapped
  <2> QED BY <1>2, <1>3, <2>1, <2>2
<1>4. ASSUME NEW pv \in built, ReservePreview(pv)
      PROVE  Mapped
  BY <1>4, ReserveMaps DEF Promise!Next
<1>5. ASSUME NEW a \in Actions, NEW t \in Tasks, NEW pv \in built,
             ExecuteRefund(a, t, pv.fingerprint)
      PROVE  Mapped
  BY <1>5, ExecuteMaps DEF Promise!Next
<1> HIDE DEF Mapped
<1>6. ASSUME NEW o \in Orders, WriteFacts(o)
      PROVE  Mapped
  <2>1. /\ refund' = refund
        /\ action' = action \/ action' = SetStatus(Awaiting(o), "stale")
    BY <1>6 DEF WriteFacts, CreateOrder, UpdateOrder, DeleteOrder, UpsertPayment,
                InvalidatePending
  <2> QED BY <2>1, <1>1, <1>2
<1>7. ASSUME NEW a \in Actions, NEW t \in Tasks, NEW pv \in built,
             RejectAction(a, t, pv) \/ MarkStale(a, t, pv) \/ ExecuteStale(a, t, pv.fingerprint)
      PROVE  Mapped
  <2>1. /\ a \in DOMAIN action /\ action[a].status = "awaiting_approval"
        /\ refund' = refund
        /\ action' = SetStatus({a}, "rejected") \/ action' = SetStatus({a}, "stale")
    BY <1>7 DEF RejectAction, MarkStale, Close, CanClose, ExecuteStale, CanExecute, Accessible
  <2> QED BY <2>1, <1>3
<1>8. ASSUME \E a \in Actions : Propose(a) \/ VerifyRefund(a)
      PROVE  Mapped
  BY <1>8, <1>1 DEF Propose, BuildPreview, VerifyRefund
<1>9. ASSUME \E a \in Actions, t \in Tasks : Decide(a, t)
      PROVE  Mapped
  BY <1>9, <1>5, <1>7 DEF Decide
<1>10. ASSUME UNCHANGED vars
       PROVE  Mapped
  BY <1>10, <1>1 DEF vars
<1>11. Mapped
  BY <1>4, <1>6, <1>8, <1>9, <1>10 DEF Next
<1> QED BY <1>11 DEF Mapped

(* Every behaviour of the tables keeps the promise: one open request per   *)
(* order, opened once, paid only while open, and nothing after payment.    *)
THEOREM LedgerKeepsPromise == Spec => KeepsPromise
<1>1. Init => Promise!Init
  BY DEF Init, Promise!Init, Awaiting, RefundsOf
<1>2. IInv /\ [Next]_vars => [Promise!Next]_(Promise!promise)
  BY PromiseStep, LedgerAssumption
<1> QED BY Invariant, <1>1, <1>2, PTL DEF Spec, KeepsPromise, Promise!Spec
=============================================================================
