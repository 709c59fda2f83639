---------------------------- MODULE ServiceCentre -----------------------------
(***************************************************************************)
(* What a customer reads of orders, refunds and support cases while the    *)
(* ledger is written (sqlite_service_center.py, web/routes/support.py).    *)
(*                                                                         *)
(* The reader writes nothing, and its session opens no transaction: each   *)
(* of its SELECTs sees the tables as they are at that moment, and anything *)
(* may be written between two of them.  The writers are those of           *)
(* RefundLedger and the repository of support cases, with the updated_at   *)
(* every listed row carries.                                               *)
(***************************************************************************)
EXTENDS RefundLedger
LOCAL INSTANCE Sequences

CONSTANTS
  Cases,       \* ids of support cases
  CaseInputs,  \* the statuses cases move to
  Views,       \* the views customers open
  Rank,        \* how ids compare as strings
  Limit,       \* rows of a page
  MaxClock     \* bound: transactions that stamp a row

ServiceViews == {"active", "history"}
OrderViews   == {"all", "processing", "shipping", "delivered", "after_sales"}

Ids == Orders \cup Actions \cup Cases

(* Ids are finitely many strings, and no two strings compare alike; those  *)
(* of orders are told apart from the others, as their tables are.          *)
ASSUME ServiceAssumption ==
  /\ Views \subseteq ServiceViews \cup OrderViews
  /\ Limit \in Nat \ {0} /\ MaxClock \in Nat
  /\ IsFiniteSet(Ids)
  /\ Orders \cap (Actions \cup Cases) = {}
  /\ Rank \in [Ids -> Nat]
  /\ \A k, l \in Ids : Rank[k] = Rank[l] => k = l
  \* service ids start with "l2:" and "refund:"
  /\ \A c \in Cases, a \in Actions : Rank[c] < Rank[a]

VARIABLES
  case,    \* l2_support_cases: case id -> [order, status]
  stamp,   \* updated_at of the rows of orders, refund_actions and cases
  clock,   \* the latest stamp
  reader   \* the request of the customer's browser

written == <<case, stamp, clock>>
centreVars == <<vars, case, stamp, clock, reader>>

-----------------------------------------------------------------------------
(* What the customer is told                                               *)

map_refund_status ==
  [awaiting_approval |-> "waiting_user", completed |-> "completed",
   rejected |-> "cancelled", stale |-> "needs_attention"]

map_l2_status ==
  [l2_active |-> "in_progress", l2_waiting_user |-> "waiting_user",
   l2_waiting_approval |-> "waiting_user", l2_resolved |-> "completed",
   l2_cancelled |-> "cancelled", l2_unresolved |-> "needs_attention",
   l2_budget_exhausted |-> "needs_attention", l2_stopped |-> "needs_attention"]

CaseStatuses == DOMAIN map_l2_status
OpenCases    == {"l2_active", "l2_waiting_user", "l2_waiting_approval"}
NeedsUser    == {"waiting_user", "in_progress", "needs_attention"}

RefundRecords ==
  {[id |-> a, status |-> map_refund_status[action[a].status], stamp |-> stamp[a]] :
     a \in DOMAIN action}
CaseRecords ==
  {[id |-> c, status |-> map_l2_status[case[c].status], stamp |-> stamp[c]] :
     c \in DOMAIN case}

ServicesIn(view, records) ==
  {r \in records : (r.status \in NeedsUser) <=> (view = "active")}

(* The filter of list_orders, as one SELECT with its EXISTS clauses.       *)
OrdersIn(view) ==
  {o \in DOMAIN order :
     CASE view = "all"         -> TRUE
       [] view = "processing"  -> order[o] = "processing"
       [] view = "shipping"    -> order[o] = "shipped"
       [] view = "delivered"   -> order[o] = "delivered"
       [] view = "after_sales" -> \/ \E a \in DOMAIN action : action[a].preview.order = o
                                  \/ \E c \in DOMAIN case : case[c].order = o}
OrderRecords(view) == {[id |-> o, stamp |-> stamp[o]] : o \in OrdersIn(view)}

-----------------------------------------------------------------------------
(* Pages.  The newest rows come first; the cursor is the stamp and the id  *)
(* of the last row shown.                                                  *)
Follows_StampOnly(r, cursor) == r.stamp < cursor.stamp        \* mutant
Follows(r, cursor) ==
  \/ r.stamp < cursor.stamp
  \/ r.stamp = cursor.stamp /\ Rank[r.id] < Rank[cursor.id]

Newest(r, s) == \/ r.stamp > s.stamp
                \/ r.stamp = s.stamp /\ Rank[r.id] > Rank[s.id]

Page(records, before) ==
  LET rest == {r \in records : \A cursor \in before : Follows(r, cursor)}
  IN {r \in rest : Cardinality({s \in rest : Newest(s, r)}) < Limit}

More(records, before) ==
  Cardinality({r \in records : \A cursor \in before : Follows(r, cursor)}) > Limit

Last(page) == {r \in page : \A s \in page : ~Newest(r, s)}

-----------------------------------------------------------------------------
(* Writers                                                                 *)

Stamped(new, rows) ==
  /\ clock < MaxClock
  /\ clock' = IF new \cup rows = {} THEN clock ELSE clock + 1
  /\ stamp' = [k \in (DOMAIN stamp \cup new) |->
                 IF k \in rows \cup new THEN clock + 1 ELSE stamp[k]]
  /\ UNCHANGED reader

(* The rows of refund_actions a transaction touched are those it changed.  *)
Touched == {a \in DOMAIN action : action'[a] # action[a]}
Added   == DOMAIN action' \ DOMAIN action

PlaceOrder(o) ==
  \E s \in OrderInputs, ship \in ShipmentInputs \cup {"none"}, now \in Times :
    /\ CreateOrder(o, s, ship, now)
    /\ Stamped({o}, {})
    /\ UNCHANGED case

ChangeOrder(o) ==
  \E s \in OrderInputs \cup {"keep"}, detail \in BOOLEAN, now \in Times,
     ship \in ShipmentInputs \cup {"keep", "remove"} :
    /\ UpdateOrder(o, s, ship, detail, now)
    /\ Stamped({}, {o} \cup Touched)
    /\ UNCHANGED case

DropOrder(o) ==
  /\ DeleteOrder(o)
  /\ stamp' = Without(stamp, o)
  /\ UNCHANGED <<case, clock, reader>>

Pay(o) ==
  \E amount \in Amounts, channel \in ChannelInputs, s \in PaymentInputs :
    /\ UpsertPayment(o, amount, channel, s)
    /\ Stamped({}, Touched)
    /\ UNCHANGED case

Prepare(a) == Propose(a) /\ UNCHANGED <<written, reader>>

Reserve(pv) ==
  /\ ReservePreview(pv)
  /\ Stamped(Added, Touched)
  /\ UNCHANGED case

Settle(a, t) ==
  /\ Decide(a, t)
  /\ Stamped({}, Touched)
  /\ UNCHANGED case

(* create_case_if_absent, transition_case and begin_model_call, which      *)
(* stamps a case and leaves its status alone.                              *)
OpenCase(c, o) ==
  /\ c \notin DOMAIN case
  /\ o \in DOMAIN order
  /\ case' = Put(case, c, [order |-> o, status |-> "l2_active"])
  /\ Stamped({c}, {})
  /\ UNCHANGED vars

MoveCase(c, s) ==
  /\ c \in DOMAIN case
  /\ case[c].status \in OpenCases
  /\ case' = [case EXCEPT ![c].status = s]
  /\ Stamped({}, {c})
  /\ UNCHANGED vars

-----------------------------------------------------------------------------
(* Lists: a browser follows next_cursor to the last page.                  *)

Idle == [kind |-> "none"]

Lists(kind, view, records, first) ==
  /\ reader = Idle
  /\ reader' = [kind |-> kind, view |-> view, at |-> first, before |-> {},
                rows |-> {}, seen |-> [k \in {} |-> 0],
                start |-> [k \in {r.id : r \in records} |-> stamp[k]]]
  /\ UNCHANGED <<vars, written>>

ListServices(view) ==
  Lists("services", view, ServicesIn(view, RefundRecords \cup CaseRecords), "refunds")
ListOrders(view) == Lists("orders", view, OrderRecords(view), "orders")

(* The rows of a page are shown, and the cursor leads to the next.         *)
Show(records, again) ==
  LET page == Page(records, reader.before)
      ids  == {r.id : r \in page}
      more == More(records, reader.before)
      times(k) == IF k \in DOMAIN reader.seen THEN reader.seen[k] ELSE 0
  IN reader' = [reader EXCEPT !.rows = {},
                  !.seen = [k \in DOMAIN @ \cup ids |->
                              IF k \in ids THEN times(k) + 1 ELSE @[k]],
                  !.before = IF more THEN Last(page) ELSE {},
                  !.at = IF more THEN again ELSE "done"]

(* list_services: SELECT refund_actions, then SELECT l2_support_cases.     *)
ReadRefunds ==
  /\ reader.kind = "services" /\ reader.at = "refunds"
  /\ reader' = [reader EXCEPT !.rows = RefundRecords, !.at = "cases"]
  /\ UNCHANGED <<vars, written>>

ReadCases ==
  /\ reader.kind = "services" /\ reader.at = "cases"
  /\ Show(ServicesIn(reader.view, reader.rows \cup CaseRecords), "refunds")
  /\ UNCHANGED <<vars, written>>

(* list_orders: what follows its one SELECT of orders fills the cards.     *)
ReadOrders ==
  /\ reader.kind = "orders" /\ reader.at = "orders"
  /\ Show(OrderRecords(reader.view), "orders")
  /\ UNCHANGED <<vars, written>>

-----------------------------------------------------------------------------
(* Details: one SELECT after another.                                      *)

RefundSum(o) ==
  IF RefundsOf(o) = {} THEN 0 ELSE refund[CHOOSE a \in RefundsOf(o) : TRUE].amount

(* The latest row by updated_at, any of them when several share it.        *)
LatestOf(ids) == {k \in ids : \A l \in ids : stamp[l] <= stamp[k]}

PaymentRead(o) ==
  IF o \in DOMAIN payment
  THEN [status |-> payment[o].status, amount |-> payment[o].amount]
  ELSE [status |-> "none", amount |-> 0]

LatestRefund(o) ==
  LET ids == {a \in DOMAIN action : action[a].preview.order = o}
  IN IF ids = {} THEN {[status |-> "none", stamp |-> -1]}
     ELSE {[status |-> action[a].status, stamp |-> stamp[a]] : a \in LatestOf(ids)}

LatestCase(o) ==
  LET ids == {c \in DOMAIN case : case[c].order = o}
  IN IF ids = {} THEN {[status |-> "none", stamp |-> -1]}
     ELSE {[status |-> case[c].status, stamp |-> stamp[c]] : c \in LatestOf(ids)}

(* _order_detail, then _order_summary.                                     *)
OrderReads_BlockingFirst ==                                   \* mutant
  <<"blocking", "payment", "refunds", "refund", "case">>
OrderReads == <<"payment", "refunds", "blocking", "refund", "case">>

OrderRead(table, o) ==
  CASE table = "payment"  -> {PaymentRead(o)}
    [] table = "refunds"  -> {RefundSum(o)}
    [] table = "blocking" -> {ActiveActions(o) # {}}
    [] table = "refund"   -> LatestRefund(o)
    [] table = "case"     -> LatestCase(o)

(* _refund_detail: the row of the action, its order, its refund.           *)
ServiceReads_RefundFirst == <<"refund", "action", "order">>   \* mutant
ServiceReads == <<"action", "order", "refund">>

ServiceRead(table, a) ==
  CASE table = "action" -> {action[a].status}
    [] table = "order"  -> {action[a].preview.order \in DOMAIN order}
    [] table = "refund" -> {IF a \in DOMAIN refund THEN refund[a].amount ELSE 0}

GetOrder(o) ==
  /\ reader = Idle
  /\ o \in DOMAIN order
  /\ reader' = [kind |-> "order", id |-> o, at |-> 1, read |-> [t \in {} |-> 0]]
  /\ UNCHANGED <<vars, written>>

GetService(a) ==
  /\ reader = Idle
  /\ a \in DOMAIN action
  /\ reader' = [kind |-> "service", id |-> a, at |-> 1, read |-> [t \in {} |-> 0]]
  /\ UNCHANGED <<vars, written>>

ReadNext(table, found) ==
  /\ reader' = [reader EXCEPT !.at = @ + 1, !.read = Put(@, table, found)]
  /\ UNCHANGED <<vars, written>>

ReadOrder ==
  /\ reader.kind = "order" /\ reader.at <= Len(OrderReads)
  /\ LET table == OrderReads[reader.at]
     IN \E found \in OrderRead(table, reader.id) : ReadNext(table, found)

ReadService ==
  /\ reader.kind = "service" /\ reader.at <= Len(ServiceReads)
  /\ LET table == ServiceReads[reader.at]
     IN \E found \in ServiceRead(table, reader.id) : ReadNext(table, found)

Leave ==
  /\ reader # Idle
  /\ reader' = Idle
  /\ UNCHANGED <<vars, written>>

-----------------------------------------------------------------------------
(* The orders seeded with the account have one stamp.                      *)
CentreInit ==
  /\ \E seeded \in SUBSET Orders : order \in [seeded -> OrderInputs]
  /\ stamp = [o \in DOMAIN order |-> 0] /\ clock = 0
  /\ shipment = [o \in {} |-> ""] /\ payment = [o \in {} |-> ""]
  /\ action = [a \in {} |-> ""] /\ refund = [a \in {} |-> ""]
  /\ audit = {} /\ built = {}
  /\ case = [c \in {} |-> ""]
  /\ reader = Idle

Write ==
  \/ \E o \in Orders : PlaceOrder(o) \/ ChangeOrder(o) \/ DropOrder(o) \/ Pay(o)
  \/ \E a \in Actions : Prepare(a)
  \/ \E pv \in built : Reserve(pv)
  \/ \E a \in Actions, t \in Tasks : Settle(a, t)
  \/ \E c \in Cases, o \in Orders : OpenCase(c, o)
  \/ \E c \in Cases, s \in CaseInputs : MoveCase(c, s)

Browse ==
  \/ \E view \in Views \cap ServiceViews : ListServices(view)
  \/ \E view \in Views \cap OrderViews : ListOrders(view)
  \/ ReadRefunds \/ ReadCases \/ ReadOrders
  \/ \E o \in Orders : GetOrder(o)
  \/ \E a \in Actions : GetService(a)
  \/ ReadOrder \/ ReadService \/ Leave

CentreNext == Write \/ Browse
CentreSpec == CentreInit /\ [][CentreNext]_centreVars

-----------------------------------------------------------------------------
Shown(kind, reads) == reader.kind = kind /\ reader.at > Len(reads)

(* request_refund is offered on a settled payment nothing blocks.          *)
Offered(d) == d.payment.status = "settled" /\ ~d.blocking

(* The order page, put together from tables that change in between, never  *)
(* offers a refund beside a refund it shows; a payment it calls refunded   *)
(* has its refund, of the whole amount; and beside a refund the latest     *)
(* request it names is the one that was completed.                         *)
DetailIsCoherent ==
  Shown("order", OrderReads) =>
    LET d == reader.read
    IN /\ Offered(d) => d.refunds = 0
       /\ d.payment.status = "refunded" => d.refunds = d.payment.amount
       /\ d.refunds > 0 => d.refund.status = "completed"

(* The page of a request that says completed has the amount of the refund, *)
(* the approved one, and the order it was for.                             *)
ServiceTellsResult ==
  Shown("service", ServiceReads) =>
    /\ reader.read["action"] = "completed" =>
         reader.read["refund"] = action[reader.id].preview.amount
    /\ reader.read["order"]

(* Whoever follows the cursors to the end has met every row that was in    *)
(* the view from the start and was not written meanwhile, and no row       *)
(* twice, rows of one transaction, with one stamp, included.               *)
Untouched == {k \in DOMAIN reader.start : /\ k \in DOMAIN stamp
                                          /\ stamp[k] = reader.start[k]}

PagesAreComplete ==
  reader.kind \in {"services", "orders"} =>
    /\ \A k \in DOMAIN reader.seen : reader.seen[k] = 1
    /\ reader.at = "done" => Untouched \subseteq DOMAIN reader.seen
=============================================================================
