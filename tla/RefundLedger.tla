----------------------------- MODULE RefundLedger -----------------------------
(***************************************************************************)
(* The refund tables of the business database and the repository methods   *)
(* that write them (sqlite_refunds.py, and the order methods of            *)
(* sqlite_business.py), for one workspace.                                 *)
(*                                                                         *)
(* A table is a function from the keys of its rows to the rows.  Each      *)
(* repository method is one action: it reads and writes in one             *)
(* transaction.  Callers are unrestricted: any method may be called at any *)
(* time with any arguments the program can hold, previews built on facts   *)
(* that have changed since included.  A call that raises, or returns       *)
(* without writing, is a step that changes nothing.                        *)
(***************************************************************************)
EXTENDS RefundRules, FiniteSets

CONSTANTS
  Orders,          \* order ids of the workspace
  Tasks,           \* conversation threads that may hold a refund task
  Actions,         \* action ids uuid4 may produce
  Amounts,         \* payment amounts, in minor units
  Policies,        \* policy corpus versions
  Evidence,        \* the verified fact ids of each version
  Times,           \* values of the clock, in days
  OrderInputs,     \* order statuses callers write
  ShipmentInputs,  \* shipment statuses callers write
  PaymentInputs,   \* payment statuses callers write
  ChannelInputs    \* payment channels callers write

ASSUME LedgerAssumption ==
  /\ Amounts \subseteq Nat \ {0}
  /\ Times \subseteq Int
  /\ Evidence \in [Policies -> SUBSET FactIds]
  /\ OrderInputs \subseteq OrderStatuses
  /\ ShipmentInputs \subseteq ShipmentStatuses
  /\ PaymentInputs \subseteq InputPaymentStatuses
  /\ ChannelInputs \subseteq Channels

VARIABLES
  order,      \* orders: order id -> status
  shipment,   \* shipments: order id -> [status, updated_at]
  payment,    \* mock_payments: order id -> [amount, channel, status]
  action,     \* refund_actions: action id -> [preview, status]
  refund,     \* mock_refunds: action id -> [order, amount, channel, status]
  audit,      \* refund_audit_events: the pairs <<action id, event key>>
  built       \* previews built so far, kept in graph checkpoints

vars == <<order, shipment, payment, action, refund, audit, built>>

-----------------------------------------------------------------------------
(* Rows                                                                    *)

ActionStatuses == {"awaiting_approval", "rejected", "stale", "completed"}

(* mutant: a completed action no longer counts as active                   *)
ActiveStatuses_NotCompleted == {"awaiting_approval"}

(* The statuses of the partial unique index uq_refund_actions_active_order *)
(* that this code ever commits; "executing" is overwritten before the      *)
(* transaction of execute_refund ends.                                     *)
ActiveStatuses == {"awaiting_approval", "completed"}

StaleKeys   == {"stale:new_preview", "stale:payment_changed",
                "stale:order_or_shipment_changed", "execution:stale",
                "decision:stale"}
ClosingKeys == StaleKeys \cup {"decision:rejected", "execution:succeeded"}
EventKeys   == ClosingKeys \cup
               {"preview:reserved", "approval:approved", "verification:verified",
                "verification:verification_mismatch",
                "verification:refund_not_found"}

(* A preview row carries the order and task it belongs to, the terms of    *)
(* the refund and the fingerprint of the facts it was built on.  Its hash  *)
(* covers every field, so comparing hashes is comparing previews.          *)
Fingerprints == [context : RefundContext, policy : Policies]
Previews == [action : Actions, task : Tasks, order : Orders, amount : Nat,
             channel : Channels, fingerprint : Fingerprints]

Put(table, key, row) ==
  [k \in DOMAIN table \cup {key} |-> IF k = key THEN row ELSE table[k]]

Without(table, key) == [k \in DOMAIN table \ {key} |-> table[k]]

-----------------------------------------------------------------------------
(* Reads                                                                   *)

RefundsOf(o) == {a \in DOMAIN refund : refund[a].order = o}

ActiveActions(o) ==
  {a \in DOMAIN action : /\ action[a].preview.order = o
                         /\ action[a].status \in ActiveStatuses}

Awaiting(o) ==
  {a \in DOMAIN action : /\ action[a].preview.order = o
                         /\ action[a].status = "awaiting_approval"}

(* _context_from_order, without evaluated_at.  The sum over the refunds of *)
(* the order is the amount of one of them: uq_mock_refunds_active_payment  *)
(* admits a single row per payment.                                        *)
ContextOf(o) ==
  LET shipped == o \in DOMAIN shipment
      paid    == o \in DOMAIN payment
      settled == RefundsOf(o) # {}
  IN [order_status        |-> order[o],
      shipment_status     |-> IF shipped THEN shipment[o].status ELSE "none",
      shipment_updated_at |-> IF shipped THEN shipment[o].updated_at ELSE 0,
      payment_status      |-> IF paid THEN payment[o].status ELSE "none",
      paid                |-> IF paid THEN payment[o].amount ELSE 0,
      channel             |-> IF paid THEN payment[o].channel ELSE "none",
      refunded            |-> IF settled
                              THEN refund[CHOOSE a \in RefundsOf(o) : TRUE].amount
                              ELSE 0,
      conflicting         |-> settled]

-----------------------------------------------------------------------------
(* Closing actions.  _add_audit and the two _invalidate_ helpers add an    *)
(* event only when its key is new, so the events are a set.                *)

SetStatus(as, status) ==
  [a \in DOMAIN action |->
     IF a \in as THEN [action[a] EXCEPT !.status = status] ELSE action[a]]

(* mutant: every action of the order gets the event, closed ones included  *)
InvalidatePending_AuditsAll(o, key) ==
  /\ action' = SetStatus(Awaiting(o), "stale")
  /\ audit' = audit \cup ({a \in DOMAIN action : action[a].preview.order = o} \X {key})

(* _invalidate_pending_actions and _invalidate_pending_refund_actions.     *)
InvalidatePending(o, key) ==
  /\ action' = SetStatus(Awaiting(o), "stale")
  /\ audit' = audit \cup (Awaiting(o) \X {key})

-----------------------------------------------------------------------------
(* Business facts (SqliteBusinessRepository)                               *)

(* create_order, with its optional shipment; a duplicate raises            *)
(* order_conflict.                                                         *)
CreateOrder(o, status, ship, now) ==
  /\ o \notin DOMAIN order
  /\ order' = Put(order, o, status)
  /\ shipment' = IF ship = "none" THEN shipment
                 ELSE Put(shipment, o, [status |-> ship, updated_at |-> now])
  /\ UNCHANGED <<payment, action, refund, audit, built>>

(* update_order.  A status or shipment the caller leaves out is "keep";    *)
(* detail says that a compared field other than the two statuses (items,   *)
(* last event, estimated delivery) differs.  Writing a shipment stamps it  *)
(* even when nothing compared differs, and then no preview is invalidated. *)
OrderChanged(o, status, ship, detail) ==
  \/ status \notin {"keep", order[o]}
  \/ ship = "remove" /\ o \in DOMAIN shipment
  \/ ship \in ShipmentStatuses /\ o \notin DOMAIN shipment
  \/ ship \in ShipmentStatuses /\ shipment[o].status # ship
  \/ detail

UpdateOrder(o, status, ship, detail, now) ==
  /\ o \in DOMAIN order
  /\ order' = IF status = "keep" THEN order ELSE Put(order, o, status)
  /\ shipment' = IF ship = "keep" THEN shipment
                 ELSE IF ship = "remove" THEN Without(shipment, o)
                 ELSE Put(shipment, o, [status |-> ship, updated_at |-> now])
  /\ IF OrderChanged(o, status, ship, detail)
     THEN InvalidatePending(o, "stale:order_or_shipment_changed")
     ELSE UNCHANGED <<action, audit>>
  /\ UNCHANGED <<payment, refund, built>>

(* mutant: the shipment row is left behind                                 *)
DeleteOrder_KeepsShipment(o) ==
  /\ o \in DOMAIN order
  /\ o \notin DOMAIN payment
  /\ order' = Without(order, o)
  /\ UNCHANGED <<shipment, payment, action, refund, audit, built>>

(* delete_order refuses while the order has a payment row.                 *)
DeleteOrder(o) ==
  /\ o \in DOMAIN order
  /\ o \notin DOMAIN payment
  /\ order' = Without(order, o)
  /\ shipment' = Without(shipment, o)
  /\ UNCHANGED <<payment, action, refund, audit, built>>

(* upsert_payment: payment_locked once a refund of the order exists or an  *)
(* action of it executed; otherwise every awaiting preview goes stale,     *)
(* even if the payment is written with the values it had.                  *)
PaymentLocked_NoCheck(o) == FALSE   \* mutant: the lock is not checked
PaymentLocked(o) ==
  \/ RefundsOf(o) # {}
  \/ \E a \in DOMAIN action : /\ action[a].preview.order = o
                              /\ action[a].status = "completed"

UpsertPayment(o, amount, channel, status) ==
  /\ o \in DOMAIN order
  /\ ~PaymentLocked(o)
  /\ payment' = Put(payment, o, [amount |-> amount, channel |-> channel,
                                 status |-> status])
  /\ InvalidatePending(o, "stale:payment_changed")
  /\ UNCHANGED <<order, shipment, refund, built>>

-----------------------------------------------------------------------------
(* The refund protocol (SqliteRefundRepository)                            *)

(* get_refund_context, assess_refund and build_refund_preview: the preview *)
(* of a fresh action id over the facts read at one instant.                *)
Preview_OneUnit(a, t, o, p) ==   \* mutant: built for one unit, not the balance
  [action |-> a, task |-> t, order |-> o,
   amount |-> 1, channel |-> ContextOf(o).channel,
   fingerprint |-> Fingerprint(ContextOf(o), p)]
Preview(a, t, o, p) ==
  [action |-> a, task |-> t, order |-> o,
   amount |-> Refundable(ContextOf(o)), channel |-> ContextOf(o).channel,
   fingerprint |-> Fingerprint(ContextOf(o), p)]

BuildPreview(a, t, o, p, now) ==
  /\ o \in DOMAIN order
  /\ \A pv \in built : pv.action # a
  /\ Eligible(ContextOf(o), now, Evidence[p])
  /\ built' = built \cup {Preview(a, t, o, p)}
  /\ UNCHANGED <<order, shipment, payment, action, refund, audit>>

(* reserve_preview.  An awaiting action of the same order built on other   *)
(* facts gives way; any other active action is a conflict.                 *)
GivesWay(a, pv) ==
  /\ action[a].status = "awaiting_approval"
  /\ action[a].preview.fingerprint # pv.fingerprint

IsReserved(pv) ==
  /\ pv.order \in DOMAIN order
  /\ pv.order \in DOMAIN payment
  /\ pv.action \in DOMAIN action
  /\ action[pv.action].preview = pv

CanReserve(pv) ==
  /\ pv.order \in DOMAIN order
  /\ pv.order \in DOMAIN payment
  /\ pv.action \notin DOMAIN action
  /\ \A a \in ActiveActions(pv.order) : GivesWay(a, pv)

ReservePreview(pv) ==
  /\ CanReserve(pv)
  /\ action' = Put(SetStatus(ActiveActions(pv.order), "stale"), pv.action,
                   [preview |-> pv, status |-> "awaiting_approval"])
  /\ audit' = audit \cup (ActiveActions(pv.order) \X {"stale:new_preview"})
                    \cup {<<pv.action, "preview:reserved">>}
  /\ UNCHANGED <<order, shipment, payment, refund, built>>

(* _close_without_execution, for reject_action ("rejected") and mark_stale *)
(* ("stale").  Closing again with the same target is an idempotent replay. *)
Accessible(a, t) == a \in DOMAIN action /\ action[a].preview.task = t

CanClose(a, t, pv) ==
  /\ Accessible(a, t)
  /\ action[a].preview = pv
  /\ action[a].status = "awaiting_approval"

IsClosed(a, t, pv, target) ==
  Accessible(a, t) /\ action[a].preview = pv /\ action[a].status = target

Close(a, t, pv, target, key) ==
  /\ CanClose(a, t, pv)
  /\ action' = SetStatus({a}, target)
  /\ audit' = audit \cup {<<a, key>>}
  /\ UNCHANGED <<order, shipment, payment, refund, built>>

RejectAction(a, t, pv) == Close(a, t, pv, "rejected", "decision:rejected")
MarkStale(a, t, pv)    == Close(a, t, pv, "stale", "decision:stale")

(* execute_refund, in a single transaction.  A second call finds the       *)
(* refund and replays its result.                                          *)
IsExecuted(a, t) ==
  /\ Accessible(a, t)
  /\ a \in DOMAIN refund
  /\ action[a].status = "completed"

CanExecute_StaleToo(a, t) ==        \* mutant: only a rejected action is closed
  /\ Accessible(a, t)
  /\ action[a].status \in {"awaiting_approval", "stale"}
  /\ action[a].preview.order \in DOMAIN order
  /\ action[a].preview.order \in DOMAIN payment
CanExecute(a, t) ==
  /\ Accessible(a, t)
  /\ action[a].status = "awaiting_approval"
  /\ action[a].preview.order \in DOMAIN order
  /\ action[a].preview.order \in DOMAIN payment

(* mutant: the stored fingerprint is compared, the facts are not read      *)
FactsHold_StoredOnly(a, expected) == action[a].preview.fingerprint = expected

FactsHold(a, expected) ==
  LET pv == action[a].preview
  IN /\ pv.fingerprint = expected
     /\ Fingerprint(ContextOf(pv.order), pv.fingerprint.policy) = expected

ExecuteRefund(a, t, expected) ==
  LET pv == action[a].preview
  IN /\ CanExecute(a, t)
     /\ FactsHold(a, expected)
     /\ refund' = Put(refund, a, [order |-> pv.order, amount |-> pv.amount,
                                  channel |-> pv.channel, status |-> "succeeded"])
     /\ payment' = [payment EXCEPT ![pv.order].status = "refunded"]
     /\ action' = SetStatus({a}, "completed")
     /\ audit' = audit \cup {<<a, "approval:approved">>, <<a, "execution:succeeded">>}
     /\ UNCHANGED <<order, shipment, built>>

ExecuteStale(a, t, expected) ==
  /\ CanExecute(a, t)
  /\ ~FactsHold(a, expected)
  /\ action' = SetStatus({a}, "stale")
  /\ audit' = audit \cup {<<a, "execution:stale">>}
  /\ UNCHANGED <<order, shipment, payment, refund, built>>

(* verify_refund reads the three rows back and records what it found.      *)
Verified(a) ==
  LET row == action[a].preview
  IN /\ action[a].status = "completed"
     /\ refund[a].status = "succeeded"
     /\ row.order \in DOMAIN payment
     /\ payment[row.order].status = "refunded"
     /\ refund[a].amount = row.amount
     /\ refund[a].channel = row.channel

VerificationKey(a) ==
  IF a \notin DOMAIN refund THEN "verification:refund_not_found"
  ELSE IF Verified(a) THEN "verification:verified"
  ELSE "verification:verification_mismatch"

VerifyRefund(a) ==
  /\ a \in DOMAIN action
  /\ audit' = audit \cup {<<a, VerificationKey(a)>>}
  /\ UNCHANGED <<order, shipment, payment, action, refund, built>>

-----------------------------------------------------------------------------
Init ==
  /\ order    = [o \in {} |-> ""]
  /\ shipment = [o \in {} |-> ""]
  /\ payment  = [o \in {} |-> ""]
  /\ action   = [a \in {} |-> ""]
  /\ refund   = [a \in {} |-> ""]
  /\ audit    = {}
  /\ built    = {}

WriteFacts(o) ==
  \/ \E s \in OrderInputs, ship \in ShipmentInputs \cup {"none"}, now \in Times :
       CreateOrder(o, s, ship, now)
  \/ \E s \in OrderInputs \cup {"keep"}, detail \in BOOLEAN, now \in Times,
        ship \in ShipmentInputs \cup {"keep", "remove"} :
       UpdateOrder(o, s, ship, detail, now)
  \/ DeleteOrder(o)
  \/ \E amount \in Amounts, channel \in ChannelInputs, s \in PaymentInputs :
       UpsertPayment(o, amount, channel, s)

Propose(a) ==
  \E t \in Tasks, o \in Orders, p \in Policies, now \in Times :
    BuildPreview(a, t, o, p, now)

Decide(a, t) ==
  \E pv \in built : \/ RejectAction(a, t, pv)
                    \/ MarkStale(a, t, pv)
                    \/ ExecuteRefund(a, t, pv.fingerprint)
                    \/ ExecuteStale(a, t, pv.fingerprint)

Next ==
  \/ \E o \in Orders : WriteFacts(o)
  \/ \E a \in Actions : Propose(a) \/ VerifyRefund(a)
  \/ \E pv \in built : ReservePreview(pv)
  \/ \E a \in Actions, t \in Tasks : Decide(a, t)

Spec == Init /\ [][Next]_vars

-----------------------------------------------------------------------------
(* Type invariant of the tables.                                           *)
TypeOK ==
  /\ DOMAIN order \subseteq Orders /\ order \in [DOMAIN order -> OrderStatuses]
  /\ DOMAIN shipment \subseteq DOMAIN order
  /\ shipment \in [DOMAIN shipment -> [status : ShipmentStatuses, updated_at : Times]]
  /\ DOMAIN payment \subseteq DOMAIN order
  /\ payment \in [DOMAIN payment -> [amount : Amounts, channel : Channels,
                                     status : PaymentStatuses]]
  /\ DOMAIN action \subseteq Actions
  /\ action \in [DOMAIN action -> [preview : built, status : ActionStatuses]]
  /\ DOMAIN refund \subseteq DOMAIN action
  /\ refund \in [DOMAIN refund -> [order : Orders, amount : Nat, channel : Channels,
                                   status : {"succeeded"}]]
  /\ audit \subseteq (DOMAIN action) \X EventKeys
  /\ built \subseteq Previews

(* No order ever has two requests that are awaiting approval or completed: *)
(* the rule the partial unique index states, here kept by the guards of    *)
(* reserve_preview alone, superseding included.                            *)
OneActivePerOrder ==
  \A a, b \in DOMAIN action :
    /\ action[a].preview.order = action[b].preview.order
    /\ action[a].status \in {"awaiting_approval", "completed"}
    /\ action[b].status \in {"awaiting_approval", "completed"}
    => a = b

(* Three tables tell one story: an action is completed exactly when it has *)
(* a refund row, the refund repeats the approved preview, which is what    *)
(* the payment says now in full, and a payment is refunded exactly when    *)
(* one of its order's actions was.                                         *)
RefundIsBacked ==
  /\ \A a \in DOMAIN action :
       action[a].status = "completed" <=> a \in DOMAIN refund
  /\ \A a \in DOMAIN refund :
       LET pv == action[a].preview
       IN /\ refund[a].order = pv.order
          /\ refund[a].amount = pv.amount
          /\ refund[a].channel = pv.channel
          /\ pv.order \in DOMAIN payment
          /\ payment[pv.order].amount = pv.amount
          /\ payment[pv.order].channel = pv.channel
          /\ payment[pv.order].status = "refunded"
  /\ \A o \in DOMAIN payment :
       payment[o].status = "refunded" => RefundsOf(o) # {}

(* Every preview a checkpoint holds, however old, was built for the whole  *)
(* payment, on facts the plan's matrix allows, and says so in the          *)
(* fingerprint it carries; a row is stored under its preview's action id.  *)
PreviewsSound ==
  /\ \A pv \in built : LET c == pv.fingerprint.context
                      IN MatrixAllows(c) /\ pv.amount = c.paid /\ pv.channel = c.channel
  /\ \A a \in DOMAIN action : action[a].preview.action = a

(* delete_order never removes an order a refund request still points to:   *)
(* it looks at the payment only, and requests exist only beside a payment. *)
NoOrphanAction ==
  \A a \in DOMAIN action : /\ action[a].preview.order \in DOMAIN order
                           /\ action[a].preview.order \in DOMAIN payment

(* The audit trail names the end of each request once: no closing event    *)
(* while it awaits, and afterwards exactly one, of the kind of its status, *)
(* whatever invalidations, decisions and replays were attempted.           *)
ClosingEvents(a) == {k \in ClosingKeys : <<a, k>> \in audit}

AuditTellsOutcome ==
  \A a \in DOMAIN action :
    CASE action[a].status = "awaiting_approval" -> ClosingEvents(a) = {}
      [] action[a].status = "rejected"  -> ClosingEvents(a) = {"decision:rejected"}
      [] action[a].status = "completed" -> ClosingEvents(a) = {"execution:succeeded"}
      [] action[a].status = "stale"     -> \E k \in StaleKeys : ClosingEvents(a) = {k}

(* verify_refund never records a mismatch: nothing the repository does     *)
(* after a refund can make its three rows disagree.                        *)
NeverMismatches ==
  \A a \in DOMAIN action : <<a, "verification:verification_mismatch">> \notin audit

(* Money moves only on facts that hold at that instant: the step that      *)
(* writes a refund finds the order in a state the plan's matrix allows,    *)
(* and pays the payment's present amount over its present channel, however *)
(* old the approved preview is.                                            *)
PaidOnCurrentFacts ==
  [][\A a \in DOMAIN refund' \ DOMAIN refund :
       LET o == refund'[a].order
       IN /\ MatrixAllows(ContextOf(o))
          /\ refund'[a].amount = payment[o].amount
          /\ refund'[a].channel = payment[o].channel]_vars

(* A rejected, stale or completed request never changes again, and no      *)
(* request ever changes the preview it was reserved with.                  *)
ClosedIsFinal ==
  [][\A a \in DOMAIN action :
       /\ a \in DOMAIN action'
       /\ action'[a].preview = action[a].preview
       /\ action[a].status # "awaiting_approval" => action'[a] = action[a]]_vars

(* The ledger keeps the promise of RefundPromise.                          *)
Promise == INSTANCE RefundPromise WITH
  open <- [o \in Orders |-> Awaiting(o)],
  paid <- [o \in Orders |-> RefundsOf(o)],
  used <- DOMAIN action

KeepsPromise == Promise!Spec
=============================================================================
