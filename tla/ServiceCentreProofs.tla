-------------------------- MODULE ServiceCentreProofs --------------------------
(***************************************************************************)
(* Proofs about ServiceCentre, for every value of its constants: the pages *)
(* a customer reads, put together from tables that change in between, are  *)
(* coherent, and lists are complete and name nothing twice.                *)
(***************************************************************************)
EXTENDS ServiceCentre, RefundLedgerProofs, FiniteSetTheorems, WellFoundedInduction

-----------------------------------------------------------------------------
(* The ledger, as its readers find it                                      *)

(* An order has one refund at most, of the amount of its approved preview. *)
LEMMA OneRefund ==
  ASSUME IInv, NEW o, NEW a \in RefundsOf(o)
  PROVE  /\ RefundsOf(o) = {a}
         /\ RefundSum(o) = action[a].preview.amount
         /\ a \in DOMAIN action /\ action[a].status = "completed"
         /\ action[a].preview.order = o
<1>1. \A b \in RefundsOf(o) : /\ b \in DOMAIN refund /\ b \in DOMAIN action
                              /\ action[b].status = "completed"
                              /\ action[b].preview.order = o
                              /\ refund[b].amount = action[b].preview.amount
  BY DEF RefundsOf, IInv, TypeOK, RefundIsBacked
<1>2. \A b \in RefundsOf(o) : b = a
  BY <1>1 DEF IInv, OneActivePerOrder
<1>3. RefundsOf(o) = {a}
  BY <1>2
<1>4. (CHOOSE b \in RefundsOf(o) : TRUE) = a
  BY <1>3
<1> QED BY <1>1, <1>3, <1>4 DEF RefundSum

(* Nothing written afterwards takes a refund back, or changes its amount.  *)
LEMMA RefundStays ==
  ASSUME LedgerAssumption, IInv, [Next]_vars, NEW o, RefundsOf(o) # {}
  PROVE  RefundsOf(o)' # {} /\ RefundSum(o)' = RefundSum(o)
<1> PICK a : a \in RefundsOf(o)
  OBVIOUS
<1>1. /\ a \in DOMAIN action /\ action[a].status = "completed"
      /\ action[a].preview.order = o /\ RefundSum(o) = action[a].preview.amount
  BY OneRefund
<1>2. a \in DOMAIN action' /\ action'[a] = action[a]
  BY <1>1, RequestStep
<1>3. IInv'
  BY InvariantStep
<1>4. a \in RefundsOf(o)'
  BY <1>1, <1>2, <1>3 DEF IInv, RefundIsBacked, RefundsOf
<1>5. \A b \in RefundsOf(o)' : /\ b \in DOMAIN action' /\ b = a
                                /\ refund'[b].amount = action'[b].preview.amount
  BY <1>1, <1>2, <1>3, <1>4 DEF RefundsOf, IInv, TypeOK, RefundIsBacked, OneActivePerOrder
<1>6. RefundsOf(o)' = {a}
  BY <1>4, <1>5
<1>7. (CHOOSE b \in RefundsOf(o)' : TRUE) = a
  BY <1>6
<1>8. RefundSum(o)' = refund'[a].amount
  BY <1>6, <1>7 DEF RefundSum
<1> QED BY <1>1, <1>2, <1>5, <1>6, <1>8

(* The writers of the centre are the ledger's, with stamps.                *)
LEMMA WriteUsesLedger ==
  ASSUME [CentreNext]_centreVars
  PROVE  [Next]_vars
<1>1. ASSUME NEW o \in Orders, PlaceOrder(o) \/ ChangeOrder(o) \/ DropOrder(o) \/ Pay(o)
      PROVE  Next
  BY <1>1 DEF PlaceOrder, ChangeOrder, DropOrder, Pay, Next, WriteFacts
<1>2. ASSUME NEW a \in Actions, Prepare(a)
      PROVE  Next
  BY <1>2 DEF Prepare, Next
<1>3. ASSUME NEW pv \in built, Reserve(pv)
      PROVE  Next
  BY <1>3 DEF Reserve, Next
<1>4. ASSUME NEW a \in Actions, NEW t \in Tasks, Settle(a, t)
      PROVE  Next
  BY <1>4 DEF Settle, Next
<1>5. ASSUME NEW c, NEW x, OpenCase(c, x) \/ MoveCase(c, x)
      PROVE  UNCHANGED vars
  BY <1>5 DEF OpenCase, MoveCase
<1>6. Browse => UNCHANGED vars
  BY DEF Browse, ListServices, ListOrders, Lists, ReadRefunds, ReadCases, ReadOrders,
     GetOrder, GetService, ReadOrder, ReadService, ReadNext, Leave
<1> QED
  BY <1>1, <1>2, <1>3, <1>4, <1>5, <1>6 DEF CentreNext, Write, centreVars

-----------------------------------------------------------------------------
(* Stamps                                                                  *)

(* The row that was completed is the last of its order that was written.   *)
CompletedIsLatest ==
  \A a, b \in DOMAIN action :
    /\ a # b
    /\ action[a].preview.order = action[b].preview.order
    /\ action[a].status = "completed"
    => stamp[b] < stamp[a]

StampInv ==
  /\ clock \in Nat
  /\ DOMAIN stamp = DOMAIN order \cup DOMAIN action \cup DOMAIN case
  /\ \A k \in DOMAIN stamp : stamp[k] \in Nat /\ stamp[k] <= clock
  /\ DOMAIN case \subseteq Cases
  /\ CompletedIsLatest

(* What a transaction does to the stamps: the rows it changed or added get *)
(* one above all others, and every other row of orders, actions and cases  *)
(* is as it was, with the stamp it had.                                    *)
RowKept(k) ==
  /\ k \in DOMAIN stamp /\ stamp'[k] = stamp[k]
  /\ k \in DOMAIN order'  => k \in DOMAIN order /\ order'[k] = order[k]
  /\ k \in DOMAIN action' => k \in DOMAIN action /\ action'[k] = action[k]
  /\ k \in DOMAIN case'   => k \in DOMAIN case /\ case'[k] = case[k]

RowStamped(k) ==
  /\ stamp'[k] = clock + 1 /\ clock' = clock + 1
  /\ k \in DOMAIN action /\ k \in DOMAIN action' => action'[k] # action[k]

RowsKept ==
  /\ clock' \in {clock, clock + 1}
  /\ \A k \in DOMAIN stamp' : RowKept(k) \/ RowStamped(k)

(* Orders, actions and cases have ids of their own.                        *)
LEMMA IdsApart ==
  ASSUME ServiceAssumption, IInv, StampInv
  PROVE  /\ \A o \in Orders : o \notin DOMAIN action /\ o \notin DOMAIN case
                              /\ o \notin Actions /\ o \notin Cases
         /\ \A c \in Cases : c \notin DOMAIN action /\ c \notin DOMAIN order
                             /\ c \notin Actions /\ c \notin Orders
         /\ \A a \in Actions : a \notin Cases /\ a \notin Orders
         /\ DOMAIN stamp \subseteq Ids
<1>1. \A c \in Cases : c \notin Actions
  <2>1. ASSUME NEW c \in Cases, c \in Actions PROVE FALSE
    <3>1. Rank[c] \in Nat /\ Rank[c] < Rank[c]
      BY <2>1 DEF ServiceAssumption, Ids
    <3> QED BY <3>1
  <2> QED BY <2>1
<1>2. /\ Orders \cap (Actions \cup Cases) = {}
      /\ DOMAIN action \subseteq Actions /\ DOMAIN order \subseteq Orders /\ DOMAIN case \subseteq Cases
      /\ DOMAIN stamp = DOMAIN order \cup DOMAIN action \cup DOMAIN case
  BY DEF ServiceAssumption, IInv, TypeOK, StampInv
<1> QED BY <1>1, <1>2 DEF Ids

(* Every write stamps what it changes, and keeps the rows of cases.        *)
LEMMA WriteKeepsRows ==
  ASSUME ServiceAssumption, LedgerAssumption, IInv, StampInv, Write
  PROVE  /\ RowsKept /\ reader' = reader
         /\ DOMAIN stamp' = DOMAIN order' \cup DOMAIN action' \cup DOMAIN case'
         /\ DOMAIN case' \subseteq Cases /\ DOMAIN case \subseteq DOMAIN case'
         /\ \A c \in DOMAIN case : case'[c].order = case[c].order
<1> DEFINE Goal == /\ RowsKept /\ reader' = reader
                   /\ DOMAIN stamp' = DOMAIN order' \cup DOMAIN action' \cup DOMAIN case'
                   /\ DOMAIN case' \subseteq Cases /\ DOMAIN case \subseteq DOMAIN case'
                   /\ \A c \in DOMAIN case : case'[c].order = case[c].order
<1>0. /\ DOMAIN stamp = DOMAIN order \cup DOMAIN action \cup DOMAIN case
      /\ DOMAIN action \subseteq Actions /\ DOMAIN order \subseteq Orders
      /\ DOMAIN case \subseteq Cases /\ clock \in Nat
  BY DEF StampInv, IInv, TypeOK
<1>1. \A a \in DOMAIN action : a \in DOMAIN action'
  <2>1. [Next]_vars
    BY WriteUsesLedger DEF CentreNext
  <2> QED BY <2>1, RequestStep
<1>2. DOMAIN action' \subseteq DOMAIN action =>
        \A a \in DOMAIN action' : a \in Touched \/ (a \in DOMAIN action /\ action'[a] = action[a])
  BY DEF Touched
<1>3. \A a \in Touched : a \in DOMAIN action /\ action'[a] # action[a]
  BY DEF Touched
<1>4. ASSUME NEW as, NEW status, action' = SetStatus(as, status)
      PROVE  DOMAIN action' = DOMAIN action
  BY <1>4 DEF SetStatus
<1>14. ASSUME Stamped({}, Touched), order' = order, case' = case,
              DOMAIN action' = DOMAIN action
       PROVE  RowsKept /\ DOMAIN stamp' = DOMAIN stamp \cup {} /\ reader' = reader
  <2>1. /\ \A k \in DOMAIN order' :
             k \in Touched \/ (k \in DOMAIN order /\ order'[k] = order[k])
        /\ \A k \in DOMAIN action' :
             k \in Touched \/ (k \in DOMAIN action /\ action'[k] = action[k])
        /\ \A k \in DOMAIN case' :
             k \in Touched \/ (k \in DOMAIN case /\ case'[k] = case[k])
        /\ \A k \in Touched :
             k \in DOMAIN action /\ k \in DOMAIN action' => action'[k] # action[k]
    BY <1>2, <1>3, <1>14
  <2> QED BY <1>14, <2>1 DEF Stamped, RowsKept, RowKept, RowStamped
<1>5. ASSUME NEW o \in Orders, PlaceOrder(o)
      PROVE  Goal
  <2>1. /\ DOMAIN order' = DOMAIN order \cup {o} /\ action' = action /\ case' = case
        /\ \A k \in DOMAIN order : k # o => order'[k] = order[k]
        /\ Stamped({o}, {})
    BY <1>5 DEF PlaceOrder, CreateOrder, Put
  <2>2. o \notin DOMAIN action
    BY IdsApart
  <2>3. /\ \A k \in DOMAIN order' : k \in {o} \/ (k \in DOMAIN order /\ order'[k] = order[k])
        /\ \A k \in DOMAIN action' : k \in {o} \/ (k \in DOMAIN action /\ action'[k] = action[k])
        /\ \A k \in DOMAIN case' : k \in {o} \/ (k \in DOMAIN case /\ case'[k] = case[k])
        /\ \A k \in {o} :
             k \in DOMAIN action /\ k \in DOMAIN action' => action'[k] # action[k]
    BY <2>1, <2>2
  <2>4. RowsKept /\ DOMAIN stamp' = DOMAIN stamp \cup {o} /\ reader' = reader
    BY <2>1, <2>3 DEF Stamped, RowsKept, RowKept, RowStamped
  <2> QED BY <1>0, <2>1, <2>4
<1>6. ASSUME NEW o \in Orders, ChangeOrder(o)
      PROVE  Goal
  <2>1. /\ DOMAIN order' = DOMAIN order /\ case' = case
        /\ \A k \in DOMAIN order : k # o => order'[k] = order[k]
        /\ Stamped({}, {o} \cup Touched)
    BY <1>6 DEF ChangeOrder, UpdateOrder, Put
  <2>2. DOMAIN action' = DOMAIN action
    BY <1>4, <1>6 DEF ChangeOrder, UpdateOrder, InvalidatePending
  <2>3. /\ \A k \in DOMAIN order' :
             k \in {o} \cup Touched \/ (k \in DOMAIN order /\ order'[k] = order[k])
        /\ \A k \in DOMAIN action' :
             k \in {o} \cup Touched \/ (k \in DOMAIN action /\ action'[k] = action[k])
        /\ \A k \in DOMAIN case' :
             k \in {o} \cup Touched \/ (k \in DOMAIN case /\ case'[k] = case[k])
        /\ \A k \in {o} \cup Touched :
             k \in DOMAIN action /\ k \in DOMAIN action' => action'[k] # action[k]
    <3>1. o \notin DOMAIN action
      BY IdsApart
    <3> QED BY <1>2, <1>3, <2>1, <2>2, <3>1
  <2>4. RowsKept /\ DOMAIN stamp' = DOMAIN stamp \cup {} /\ reader' = reader
    BY <2>1, <2>3 DEF Stamped, RowsKept, RowKept, RowStamped
  <2> QED BY <1>0, <2>1, <2>2, <2>4
<1>7. ASSUME NEW o \in Orders, DropOrder(o)
      PROVE  Goal
  <2>1. /\ DOMAIN order' = DOMAIN order \ {o} /\ action' = action /\ case' = case
        /\ \A k \in DOMAIN order' : order'[k] = order[k]
        /\ DOMAIN stamp' = DOMAIN stamp \ {o}
        /\ \A k \in DOMAIN stamp' : stamp'[k] = stamp[k]
        /\ clock' = clock /\ reader' = reader
    BY <1>7 DEF DropOrder, DeleteOrder, Without
  <2>2. o \notin DOMAIN action /\ o \notin DOMAIN case
    BY IdsApart
  <2> QED BY <1>0, <2>1, <2>2 DEF RowsKept, RowKept
<1>8. ASSUME NEW o \in Orders, Pay(o)
      PROVE  Goal
  <2>1. order' = order /\ case' = case /\ Stamped({}, Touched)
    BY <1>8 DEF Pay, UpsertPayment
  <2>2. DOMAIN action' = DOMAIN action
    BY <1>4, <1>8 DEF Pay, UpsertPayment, InvalidatePending
  <2>3. RowsKept /\ DOMAIN stamp' = DOMAIN stamp \cup {} /\ reader' = reader
    BY <1>14, <2>1, <2>2
  <2> QED BY <1>0, <2>1, <2>2, <2>3
<1>9. ASSUME NEW a \in Actions, Prepare(a)
      PROVE  Goal
  <2>1. UNCHANGED <<order, action, case, stamp, clock, reader>>
    BY <1>9 DEF Prepare, Propose, BuildPreview, written
  <2> QED BY <1>0, <2>1 DEF RowsKept, RowKept
<1>10. ASSUME NEW pv \in built, Reserve(pv)
       PROVE  Goal
  <2>1. order' = order /\ case' = case /\ Stamped(Added, Touched)
    BY <1>10 DEF Reserve, ReservePreview
  <2>2. DOMAIN action' = DOMAIN action \cup Added
    BY <1>1 DEF Added
  <2>3. \A a \in DOMAIN action' :
          a \in Added \cup Touched \/ (a \in DOMAIN action /\ action'[a] = action[a])
    BY DEF Added, Touched
  <2>4. \A a \in Added \cup Touched : a \in DOMAIN action => action'[a] # action[a]
    BY DEF Added, Touched
  <2>5. RowsKept /\ DOMAIN stamp' = DOMAIN stamp \cup Added /\ reader' = reader
    BY <2>1, <2>3, <2>4 DEF Stamped, RowsKept, RowKept, RowStamped
  <2> QED BY <1>0, <2>1, <2>2, <2>5
<1>11. ASSUME NEW a \in Actions, NEW t \in Tasks, Settle(a, t)
       PROVE  Goal
  <2>1. order' = order /\ case' = case /\ Stamped({}, Touched)
    BY <1>11 DEF Settle, Decide, RejectAction, MarkStale, Close, ExecuteRefund, ExecuteStale
  <2>2. DOMAIN action' = DOMAIN action
    BY <1>4, <1>11 DEF Settle, Decide, RejectAction, MarkStale, Close, ExecuteRefund, ExecuteStale
  <2>3. RowsKept /\ DOMAIN stamp' = DOMAIN stamp \cup {} /\ reader' = reader
    BY <1>14, <2>1, <2>2
  <2> QED BY <1>0, <2>1, <2>2, <2>3
<1>12. ASSUME NEW c \in Cases, NEW o \in Orders, OpenCase(c, o)
       PROVE  Goal
  <2>1. /\ order' = order /\ action' = action /\ Stamped({c}, {})
        /\ DOMAIN case' = DOMAIN case \cup {c} /\ c \notin DOMAIN case
        /\ \A k \in DOMAIN case : k # c => case'[k] = case[k]
    BY <1>12 DEF OpenCase, vars, Put
  <2>2. /\ \A k \in DOMAIN order' : k \in {c} \/ (k \in DOMAIN order /\ order'[k] = order[k])
        /\ \A k \in DOMAIN action' : k \in {c} \/ (k \in DOMAIN action /\ action'[k] = action[k])
        /\ \A k \in DOMAIN case' : k \in {c} \/ (k \in DOMAIN case /\ case'[k] = case[k])
        /\ \A k \in {c} :
             k \in DOMAIN action /\ k \in DOMAIN action' => action'[k] # action[k]
    <3>1. c \notin DOMAIN action
      BY IdsApart
    <3> QED BY <2>1, <3>1
  <2>3. RowsKept /\ DOMAIN stamp' = DOMAIN stamp \cup {c} /\ reader' = reader
    BY <2>1, <2>2 DEF Stamped, RowsKept, RowKept, RowStamped
  <2> QED BY <1>0, <2>1, <2>3
<1>13. ASSUME NEW c \in Cases, NEW s \in CaseInputs, MoveCase(c, s)
       PROVE  Goal
  <2>1. /\ order' = order /\ action' = action /\ Stamped({}, {c}) /\ c \in DOMAIN case
        /\ case' = [case EXCEPT ![c].status = s]
    BY <1>13 DEF MoveCase, vars
  <2>2. /\ DOMAIN case' = DOMAIN case
        /\ \A k \in DOMAIN case : k # c => case'[k] = case[k]
        /\ \A k \in DOMAIN case : case'[k].order = case[k].order
    BY <2>1
  <2>3. c \notin DOMAIN action
    BY IdsApart
  <2>4. /\ \A k \in DOMAIN order' : k \in {c} \/ (k \in DOMAIN order /\ order'[k] = order[k])
        /\ \A k \in DOMAIN action' : k \in {c} \/ (k \in DOMAIN action /\ action'[k] = action[k])
        /\ \A k \in DOMAIN case' : k \in {c} \/ (k \in DOMAIN case /\ case'[k] = case[k])
        /\ \A k \in {c} :
             k \in DOMAIN action /\ k \in DOMAIN action' => action'[k] # action[k]
    BY <2>1, <2>2, <2>3
  <2>5. RowsKept /\ DOMAIN stamp' = DOMAIN stamp \cup {} /\ reader' = reader
    BY <2>1, <2>4 DEF Stamped, RowsKept, RowKept, RowStamped
  <2> QED BY <1>0, <2>1, <2>2, <2>5
<1> HIDE DEF Goal
<1>15. Goal
  BY <1>5, <1>6, <1>7, <1>8, <1>9, <1>10, <1>11, <1>12, <1>13 DEF Write
<1> QED BY <1>15 DEF Goal

(* A request is stored as awaiting approval.                               *)
LEMMA NewIsAwaiting ==
  ASSUME IInv, [Next]_vars, NEW b \in DOMAIN action', b \notin DOMAIN action
  PROVE  action'[b].status = "awaiting_approval"
<1>1. \A as, status : DOMAIN SetStatus(as, status) = DOMAIN action
  BY DEF SetStatus
<1>2. ASSUME NEW pv \in built, ReservePreview(pv)
      PROVE  action'[b].status = "awaiting_approval"
  <2>1. /\ DOMAIN action' = DOMAIN action \cup {pv.action}
        /\ action'[pv.action].status = "awaiting_approval"
    BY <1>2, ReserveRows
  <2> QED BY <2>1
<1>3. \/ action' = action
      \/ \E as, status : action' = SetStatus(as, status)
      \/ \E pv \in built : ReservePreview(pv)
  BY DEF Next, vars, WriteFacts, CreateOrder, UpdateOrder, InvalidatePending, DeleteOrder,
     UpsertPayment, Propose, BuildPreview, Decide, RejectAction, MarkStale, Close,
     ExecuteRefund, ExecuteStale, VerifyRefund
<1> QED BY <1>1, <1>2, <1>3

(* Stamps stay below the clock, and the completed request of an order the  *)
(* last one written.                                                       *)
LEMMA StampInvStep ==
  ASSUME ServiceAssumption, LedgerAssumption, IInv, StampInv, [CentreNext]_centreVars
  PROVE  StampInv'
<1>1. [Next]_vars /\ IInv'
  BY WriteUsesLedger, InvariantStep
<1>2. CASE UNCHANGED <<vars, case, stamp, clock>>
  BY <1>2 DEF vars, StampInv, CompletedIsLatest
<1>3. CASE Write
  <2>1. /\ RowsKept
        /\ DOMAIN stamp' = DOMAIN order' \cup DOMAIN action' \cup DOMAIN case'
        /\ DOMAIN case' \subseteq Cases
    BY <1>3, WriteKeepsRows
  <2>2. /\ clock \in Nat
        /\ \A k \in DOMAIN stamp : stamp[k] \in Nat /\ stamp[k] <= clock
    BY DEF StampInv
  <2>3. /\ clock' \in Nat
        /\ \A k \in DOMAIN stamp' : stamp'[k] \in Nat /\ stamp'[k] <= clock'
    BY <2>1, <2>2 DEF RowsKept, RowKept, RowStamped
  <2>4. ASSUME NEW a \in DOMAIN action', NEW b \in DOMAIN action', a # b,
               action'[a].preview.order = action'[b].preview.order,
               action'[a].status = "completed"
        PROVE  stamp'[b] < stamp'[a]
    <3>1. action'[b].status \notin {"awaiting_approval", "completed"}
      BY <1>1, <2>4 DEF IInv, OneActivePerOrder
    <3>2. a \in DOMAIN action /\ b \in DOMAIN action
      BY <1>1, <2>4, <3>1, NewIsAwaiting
    <3>3. /\ action[a].preview.order = action[b].preview.order
          /\ action[a].status # "awaiting_approval" => action'[a] = action[a]
          /\ action[b].status # "awaiting_approval" => action'[b] = action[b]
      BY <1>1, <2>4, <3>2, RequestStep
    <3>4. action[b].status # "awaiting_approval"
      BY <2>4, <3>2, <3>3 DEF IInv, OneActivePerOrder, TypeOK
    <3>5. stamp'[b] = stamp[b] /\ b \in DOMAIN stamp
      BY <2>1, <3>2, <3>3, <3>4 DEF RowsKept, RowKept, RowStamped
    <3>6. CASE action'[a] = action[a]
      <4>1. stamp'[a] = stamp[a]
        BY <2>1, <3>2, <3>6 DEF RowsKept, RowKept, RowStamped
      <4> QED BY <2>4, <3>2, <3>3, <3>5, <3>6, <4>1 DEF StampInv, CompletedIsLatest
    <3>7. CASE action'[a] # action[a]
      <4>1. stamp'[a] = clock + 1
        BY <2>1, <3>7 DEF RowsKept, RowKept, RowStamped
      <4> QED BY <2>2, <3>5, <4>1
    <3> QED BY <3>6, <3>7
  <2> QED BY <2>1, <2>3, <2>4 DEF StampInv, CompletedIsLatest
<1>4. Browse => UNCHANGED <<vars, case, stamp, clock>>
  BY DEF Browse, ListServices, ListOrders, Lists, ReadRefunds, ReadCases, ReadOrders,
     GetOrder, GetService, ReadOrder, ReadService, ReadNext, Leave, written
<1> QED BY <1>2, <1>3, <1>4 DEF CentreNext, centreVars

-----------------------------------------------------------------------------
(* Details                                                                 *)

(* What the first n - 1 reads of an order page found, read with the tables *)
(* as they are now: what they said of a refund is still so.                *)
OrderPage(o, n, d) ==
  /\ n > 1 => /\ "payment" \in DOMAIN d
              /\ d.payment.status = "refunded" =>
                   RefundsOf(o) # {} /\ RefundSum(o) = d.payment.amount
  /\ n > 2 => /\ "refunds" \in DOMAIN d /\ d.refunds \in Nat
              /\ d.refunds > 0 => RefundsOf(o) # {}
              /\ d.payment.status = "refunded" => d.refunds = d.payment.amount
  /\ n > 3 => /\ "blocking" \in DOMAIN d
              /\ d.refunds > 0 => d.blocking
  /\ n > 4 => /\ "refund" \in DOMAIN d
              /\ d.refunds > 0 => d.refund.status = "completed"

OrderPageInv ==
  reader.kind = "order" =>
    /\ DOMAIN reader = {"kind", "id", "at", "read"}
    /\ reader.at \in 1..6
    /\ OrderPage(reader.id, reader.at, reader.read)

(* What the reads of a request's page found: it was, and is, completed.    *)
ServicePage(a, n, d) ==
  /\ a \in DOMAIN action
  /\ n > 1 => /\ "action" \in DOMAIN d
              /\ d.action = "completed" => action[a].status = "completed"
  /\ n > 2 => "order" \in DOMAIN d /\ d.order
  /\ n > 3 => /\ "refund" \in DOMAIN d
              /\ d.action = "completed" => d.refund = action[a].preview.amount

ServicePageInv ==
  reader.kind = "service" =>
    /\ DOMAIN reader = {"kind", "id", "at", "read"}
    /\ reader.at \in 1..4
    /\ ServicePage(reader.id, reader.at, reader.read)

(* A payment that says refunded has its refund, of its whole amount.       *)
LEMMA PaymentTellsRefund ==
  ASSUME IInv, NEW o, o \in DOMAIN payment, payment[o].status = "refunded"
  PROVE  RefundsOf(o) # {} /\ RefundSum(o) = payment[o].amount
<1>1. RefundsOf(o) # {}
  BY DEF IInv, RefundIsBacked
<1> PICK a : a \in RefundsOf(o)
  BY <1>1
<1>2. a \in DOMAIN refund /\ refund[a].order = o
  BY DEF RefundsOf
<1>3. action[a].preview.order = o /\ payment[o].amount = action[a].preview.amount
  BY <1>2 DEF IInv, RefundIsBacked
<1> QED BY <1>1, <1>3, OneRefund

(* The sum of the refunds of an order is an amount, and 0 without one.     *)
LEMMA RefundSumReads ==
  ASSUME IInv, NEW o
  PROVE  RefundSum(o) \in Nat /\ (RefundSum(o) > 0 => RefundsOf(o) # {})
<1>1. CASE RefundsOf(o) = {}
  BY <1>1 DEF RefundSum
<1>2. CASE RefundsOf(o) # {}
  <2> PICK a : a \in RefundsOf(o)
    BY <1>2
  <2>1. a \in DOMAIN action /\ RefundSum(o) = action[a].preview.amount
    BY OneRefund
  <2>2. action[a].preview.amount \in Nat
    BY <2>1 DEF IInv, TypeOK, Previews
  <2> QED BY <1>2, <2>1, <2>2
<1> QED BY <1>1, <1>2

(* Beside a refund, the order is blocked, and its latest request is the    *)
(* completed one.                                                          *)
LEMMA LatestIsCompleted ==
  ASSUME IInv, StampInv, NEW o, RefundsOf(o) # {}
  PROVE  /\ ActiveActions(o) # {}
         /\ \A found \in LatestRefund(o) : found.status = "completed"
<1> PICK a : a \in RefundsOf(o)
  OBVIOUS
<1>1. a \in DOMAIN action /\ action[a].status = "completed" /\ action[a].preview.order = o
  BY OneRefund
<1>2. a \in ActiveActions(o)
  BY <1>1 DEF ActiveActions, ActiveStatuses
<1> DEFINE ids == {b \in DOMAIN action : action[b].preview.order = o}
<1>3. a \in ids
  BY <1>1
<1>4. \A b \in LatestOf(ids) : b = a
  <2>1. \A b \in LatestOf(ids) : b \in DOMAIN action /\ action[b].preview.order = o
                                 /\ stamp[a] <= stamp[b]
    BY <1>3 DEF LatestOf
  <2>2. \A b \in DOMAIN action : stamp[b] \in Nat
    BY DEF StampInv
  <2> QED BY <1>1, <2>1, <2>2 DEF StampInv, CompletedIsLatest
<1>5. LatestRefund(o) = {[status |-> action[b].status, stamp |-> stamp[b]] : b \in LatestOf(ids)}
  BY <1>3 DEF LatestRefund
<1> HIDE DEF ids
<1>6. \A found \in LatestRefund(o) : found.status = "completed"
  BY <1>1, <1>4, <1>5
<1> QED BY <1>2, <1>6

(* While others write, the pages read so far stay true.                    *)
LEMMA PagesStay ==
  ASSUME LedgerAssumption, IInv, [Next]_vars, NEW k, NEW n, NEW d
  PROVE  /\ OrderPage(k, n, d) => OrderPage(k, n, d)'
         /\ ServicePage(k, n, d) => ServicePage(k, n, d)'
<1>1. RefundsOf(k) # {} => RefundsOf(k)' # {} /\ RefundSum(k)' = RefundSum(k)
  BY RefundStays
<1>2. OrderPage(k, n, d) => OrderPage(k, n, d)'
  BY <1>1 DEF OrderPage
<1>3. k \in DOMAIN action => /\ k \in DOMAIN action'
                             /\ action'[k].preview = action[k].preview
                             /\ action[k].status = "completed" => action'[k].status = "completed"
  BY RequestStep
<1>4. ServicePage(k, n, d) => ServicePage(k, n, d)'
  BY <1>3 DEF ServicePage
<1> QED BY <1>2, <1>4

(* A read of the order page finds what the reads before it allow.          *)
LEMMA ReadOrderStep ==
  ASSUME IInv, StampInv, OrderPageInv, ReadOrder
  PROVE  OrderPageInv' /\ reader'.kind = "order"
<1> PICK o, n, d : o = reader.id /\ n = reader.at /\ d = reader.read
  OBVIOUS
<1>1. /\ reader.kind = "order" /\ DOMAIN reader = {"kind", "id", "at", "read"}
      /\ n \in 1..5 /\ OrderPage(o, n, d)
  BY DEF ReadOrder, OrderPageInv, OrderReads
<1> PICK found : /\ found \in OrderRead(OrderReads[n], o)
                 /\ reader' = [reader EXCEPT !.at = n + 1, !.read = Put(d, OrderReads[n], found)]
  BY DEF ReadOrder, ReadNext
<1> PICK table, e : table = OrderReads[n] /\ e = Put(d, table, found)
  OBVIOUS
<1>2. /\ reader'.kind = "order" /\ DOMAIN reader' = {"kind", "id", "at", "read"}
      /\ reader'.id = o /\ reader'.at = n + 1 /\ reader'.read = e
  BY <1>1
<1>3. /\ DOMAIN e = DOMAIN d \cup {table} /\ e[table] = found
      /\ \A k \in DOMAIN d : k # table => e[k] = d[k]
  BY DEF Put
<1>4. OrderPage(o, n + 1, e)
  <2>1. CASE n = 1
    <3>1. table = "payment" /\ found = PaymentRead(o)
      BY <2>1 DEF OrderReads, OrderRead
    <3>2. e.payment.status = "refunded" => RefundsOf(o) # {} /\ RefundSum(o) = e.payment.amount
      BY <1>3, <3>1, PaymentTellsRefund DEF PaymentRead
    <3> QED BY <1>3, <2>1, <3>1, <3>2 DEF OrderPage
  <2>2. CASE n = 2
    <3>1. table = "refunds" /\ found = RefundSum(o)
      BY <2>2 DEF OrderReads, OrderRead
    <3>2. found \in Nat /\ (found > 0 => RefundsOf(o) # {})
      BY <3>1, RefundSumReads
    <3> QED BY <1>1, <1>3, <2>2, <3>1, <3>2 DEF OrderPage
  <2>3. CASE n = 3
    <3>1. table = "blocking" /\ found = (ActiveActions(o) # {})
      BY <2>3 DEF OrderReads, OrderRead
    <3>2. RefundsOf(o) # {} => found
      BY <3>1, LatestIsCompleted
    <3> QED BY <1>1, <1>3, <2>3, <3>1, <3>2 DEF OrderPage
  <2>4. CASE n = 4
    <3>1. table = "refund" /\ found \in LatestRefund(o)
      BY <2>4 DEF OrderReads, OrderRead
    <3>2. RefundsOf(o) # {} => found.status = "completed"
      BY <3>1, LatestIsCompleted
    <3> QED BY <1>1, <1>3, <2>4, <3>1, <3>2 DEF OrderPage
  <2>5. CASE n = 5
    <3>1. table = "case"
      BY <2>5 DEF OrderReads
    <3> QED BY <1>1, <1>3, <2>5, <3>1 DEF OrderPage
  <2> QED BY <1>1, <2>1, <2>2, <2>3, <2>4, <2>5
<1>5. UNCHANGED vars
  BY DEF ReadOrder, ReadNext
<1>6. OrderPage(o, n + 1, e)'
  BY <1>4, <1>5 DEF OrderPage, vars, RefundSum, RefundsOf
<1> QED BY <1>1, <1>2, <1>6 DEF OrderPageInv, OrderPage, RefundSum, RefundsOf

(* A read of a request's page: once it is completed, its refund is there.  *)
LEMMA ReadServiceStep ==
  ASSUME IInv, ServicePageInv, ReadService
  PROVE  ServicePageInv' /\ reader'.kind = "service"
<1> PICK a, n, d : a = reader.id /\ n = reader.at /\ d = reader.read
  OBVIOUS
<1>1. /\ reader.kind = "service" /\ DOMAIN reader = {"kind", "id", "at", "read"}
      /\ n \in 1..3 /\ ServicePage(a, n, d)
  BY DEF ReadService, ServicePageInv, ServiceReads
<1> PICK found : /\ found \in ServiceRead(ServiceReads[n], a)
                 /\ reader' = [reader EXCEPT !.at = n + 1, !.read = Put(d, ServiceReads[n], found)]
  BY DEF ReadService, ReadNext
<1> PICK table, e : table = ServiceReads[n] /\ e = Put(d, table, found)
  OBVIOUS
<1>2. /\ reader'.kind = "service" /\ DOMAIN reader' = {"kind", "id", "at", "read"}
      /\ reader'.id = a /\ reader'.at = n + 1 /\ reader'.read = e
  BY <1>1
<1>3. /\ DOMAIN e = DOMAIN d \cup {table} /\ e[table] = found
      /\ \A k \in DOMAIN d : k # table => e[k] = d[k]
  BY DEF Put
<1>4. ServicePage(a, n + 1, e)
  <2>1. CASE n = 1
    <3>1. table = "action" /\ found = action[a].status
      BY <2>1 DEF ServiceReads, ServiceRead
    <3> QED BY <1>1, <1>3, <2>1, <3>1 DEF ServicePage
  <2>2. CASE n = 2
    <3>1. table = "order" /\ found = (action[a].preview.order \in DOMAIN order)
      BY <2>2 DEF ServiceReads, ServiceRead
    <3>2. found
      BY <1>1, <3>1 DEF ServicePage, IInv, NoOrphanAction
    <3> QED BY <1>1, <1>3, <2>2, <3>1, <3>2 DEF ServicePage
  <2>3. CASE n = 3
    <3>1. table = "refund" /\ found = IF a \in DOMAIN refund THEN refund[a].amount ELSE 0
      BY <2>3 DEF ServiceReads, ServiceRead
    <3>2. action[a].status = "completed" => found = action[a].preview.amount
      BY <1>1, <3>1 DEF ServicePage, IInv, RefundIsBacked
    <3> QED BY <1>1, <1>3, <2>3, <3>1, <3>2 DEF ServicePage
  <2> QED BY <1>1, <2>1, <2>2, <2>3
<1>5. UNCHANGED vars
  BY DEF ReadService, ReadNext
<1> QED BY <1>1, <1>2, <1>4, <1>5 DEF ServicePageInv, ServicePage, vars

(* The record of a reader who follows the cursors of a list.               *)
ReaderShape ==
  reader.kind \in {"services", "orders"} =>
    DOMAIN reader = {"kind", "view", "at", "before", "rows", "seen", "start"}

(* What showing a page does to that record.                                *)
LEMMA ShowDoes ==
  ASSUME NEW records, NEW again, ReaderShape, reader.kind \in {"services", "orders"},
         Show(records, again)
  PROVE  /\ DOMAIN reader' = {"kind", "view", "at", "before", "rows", "seen", "start"}
         /\ reader'.kind = reader.kind /\ reader'.view = reader.view
         /\ reader'.start = reader.start /\ reader'.rows = {}
         /\ reader'.before = (IF More(records, reader.before)
                              THEN Last(Page(records, reader.before)) ELSE {})
         /\ reader'.at = (IF More(records, reader.before) THEN again ELSE "done")
         /\ \A k : k \in DOMAIN reader'.seen <=>
                    k \in DOMAIN reader.seen \/ \E r \in Page(records, reader.before) : r.id = k
         /\ \A r \in Page(records, reader.before) :
              r.id \notin DOMAIN reader.seen => reader'.seen[r.id] = 1
         /\ \A k \in DOMAIN reader.seen :
              (\A r \in Page(records, reader.before) : r.id # k) => reader'.seen[k] = reader.seen[k]
<1> PICK before, seen, ids : /\ before = reader.before /\ seen = reader.seen
                             /\ ids = {r.id : r \in Page(records, before)}
  OBVIOUS
<1> DEFINE after == [k \in DOMAIN seen \cup ids |->
                       IF k \in ids THEN (IF k \in DOMAIN seen THEN seen[k] ELSE 0) + 1 ELSE seen[k]]
           cursor == IF More(records, before) THEN Last(Page(records, before)) ELSE {}
           next == IF More(records, before) THEN again ELSE "done"
<1>1. reader' = [reader EXCEPT !.rows = {}, !.seen = after, !.before = cursor, !.at = next]
  BY DEF Show
<1>2. /\ DOMAIN after = DOMAIN seen \cup ids
      /\ \A k \in ids : k \notin DOMAIN seen => after[k] = 1
      /\ \A k \in DOMAIN seen : k \notin ids => after[k] = seen[k]
  OBVIOUS
<1> HIDE DEF after, cursor, next
<1>3. /\ DOMAIN reader' = {"kind", "view", "at", "before", "rows", "seen", "start"}
      /\ reader'.kind = reader.kind /\ reader'.view = reader.view
      /\ reader'.start = reader.start /\ reader'.rows = {}
      /\ reader'.before = cursor /\ reader'.at = next /\ reader'.seen = after
  BY <1>1 DEF ReaderShape
<1>4. \A k : k \in ids <=> \E r \in Page(records, before) : r.id = k
  OBVIOUS
<1> QED BY <1>2, <1>3, <1>4 DEF cursor, next

(* Every step keeps what the pages read so far say.                        *)
LEMMA DetailStep ==
  ASSUME ServiceAssumption, LedgerAssumption, IInv, StampInv, OrderPageInv, ServicePageInv,
         ReaderShape, [CentreNext]_centreVars
  PROVE  OrderPageInv' /\ ServicePageInv'
<1>1. [Next]_vars
  BY WriteUsesLedger
<1>2. CASE reader' = reader
  <2> PICK k, n, d : k = reader.id /\ n = reader.at /\ d = reader.read
    OBVIOUS
  <2>1. /\ OrderPage(k, n, d) => OrderPage(k, n, d)'
        /\ ServicePage(k, n, d) => ServicePage(k, n, d)'
    BY <1>1, PagesStay
  <2>2. reader.kind = "order" => OrderPage(k, n, d)'
    BY <2>1 DEF OrderPageInv
  <2>3. reader.kind = "service" => ServicePage(k, n, d)'
    BY <2>1 DEF ServicePageInv
  <2>4. OrderPageInv'
    BY <1>2, <2>2 DEF OrderPageInv, OrderPage, RefundSum, RefundsOf
  <2>5. ServicePageInv'
    BY <1>2, <2>3 DEF ServicePageInv, ServicePage
  <2> QED BY <2>4, <2>5
<1>3. Write => reader' = reader
  BY WriteKeepsRows
<1>4. CASE ReadOrder
  BY <1>4, ReadOrderStep DEF ServicePageInv
<1>5. CASE ReadService
  BY <1>5, ReadServiceStep DEF OrderPageInv
<1>6. ASSUME reader'.kind \notin {"order", "service"}
      PROVE  OrderPageInv' /\ ServicePageInv'
  BY <1>6 DEF OrderPageInv, ServicePageInv
<1>7. ASSUME NEW o, GetOrder(o)
      PROVE  OrderPageInv' /\ ServicePageInv'
  BY <1>7 DEF GetOrder, OrderPageInv, ServicePageInv, OrderPage
<1>8. ASSUME NEW a, GetService(a)
      PROVE  OrderPageInv' /\ ServicePageInv'
  BY <1>8 DEF GetService, OrderPageInv, ServicePageInv, ServicePage, vars
<1>9. ASSUME \/ \E view : ListServices(view) \/ ListOrders(view)
             \/ ReadRefunds \/ ReadCases \/ ReadOrders \/ Leave
      PROVE  reader'.kind \notin {"order", "service"}
  <2>1. ASSUME NEW view, ListServices(view) \/ ListOrders(view)
        PROVE  reader'.kind \notin {"order", "service"}
    BY <2>1 DEF ListServices, ListOrders, Lists
  <2>2. CASE ReadRefunds
    BY <2>2 DEF ReadRefunds, ReaderShape
  <2>3. ASSUME NEW records, NEW again, reader.kind \in {"services", "orders"},
               Show(records, again)
        PROVE  reader'.kind \notin {"order", "service"}
    BY <2>3, ShowDoes
  <2>4. CASE ReadCases \/ ReadOrders
    BY <2>3, <2>4 DEF ReadCases, ReadOrders
  <2>5. CASE Leave
    BY <2>5 DEF Leave, Idle
  <2> QED BY <1>9, <2>1, <2>2, <2>4, <2>5
<1>10. UNCHANGED centreVars => reader' = reader
  BY DEF centreVars
<1> QED
  BY <1>2, <1>3, <1>4, <1>5, <1>6, <1>7, <1>8, <1>9, <1>10 DEF CentreNext, Browse

-----------------------------------------------------------------------------
(* Pages                                                                   *)

(* A row as a cursor sees it; rows are listed by stamp, then by id.        *)
Row(k, time) == [id |-> k, stamp |-> time]

Listed(r) == r.id \in Ids /\ r.stamp \in Nat

LEMMA Order ==
  ASSUME ServiceAssumption, NEW r, NEW s, NEW t, Listed(r), Listed(s), Listed(t)
  PROVE  /\ Follows(r, s) <=> Newest(s, r)
         /\ ~Newest(r, r)
         /\ Newest(r, s) => ~Newest(s, r)
         /\ Newest(r, s) /\ Newest(s, t) => Newest(r, t)
         /\ ~Newest(r, s) /\ Newest(r, t) => Newest(s, t)
         /\ r.id # s.id => Newest(r, s) \/ Newest(s, r)
<1>1. \A k \in Ids : Rank[k] \in Nat
  BY DEF ServiceAssumption
<1>2. r.id # s.id => Rank[r.id] # Rank[s.id]
  BY DEF ServiceAssumption, Listed
<1> QED BY <1>1, <1>2 DEF Listed, Follows, Newest

(* A finite set that is not empty has an element no other comes before.    *)
LEMMA Foremost ==
  ASSUME NEW S, IsFiniteSet(S), S # {}, NEW R,
         \A x, y, z \in S : <<x, y>> \in R /\ <<y, z>> \in R => <<x, z>> \in R,
         \A x \in S : <<x, x>> \notin R
  PROVE  \E x \in S : \A y \in S : <<y, x>> \notin R
<1> DEFINE Before(x) == {y \in S : <<y, x>> \in R}
           card == [x \in S |-> Cardinality(Before(x))]
           sizes == {card[x] : x \in S}
<1>1. \A x \in S : IsFiniteSet(Before(x)) /\ card[x] = Cardinality(Before(x)) /\ card[x] \in Nat
  <2> SUFFICES ASSUME NEW x \in S
               PROVE  IsFiniteSet(Before(x)) /\ Cardinality(Before(x)) \in Nat
    OBVIOUS
  <2>1. Before(x) \in SUBSET S
    OBVIOUS
  <2>2. IsFiniteSet(Before(x))
    BY <2>1, FS_Subset
  <2> QED BY <2>2, FS_CardinalityType
<1>2. ASSUME NEW x \in S, NEW y \in S, <<y, x>> \in R
      PROVE  card[y] < card[x]
  <2>1. Before(y) \in SUBSET Before(x) /\ y \in Before(x) /\ y \notin Before(y)
    BY <1>2
  <2> PICK bx, by : bx = Before(x) /\ by = Before(y)
    OBVIOUS
  <2>2. IsFiniteSet(bx) /\ by \in SUBSET bx /\ bx # by
    BY <1>1, <2>1
  <2>3. Cardinality(by) <= Cardinality(bx) /\ Cardinality(bx) # Cardinality(by)
    BY <2>2, FS_Subset
  <2>4. card[x] = Cardinality(bx) /\ card[y] = Cardinality(by)
    BY <1>1
  <2>5. card[x] \in Nat /\ card[y] \in Nat
    BY <1>1
  <2> HIDE DEF card
  <2> QED BY <2>3, <2>4, <2>5
<1>3. \A x \in S : card[x] \in Nat
  BY <1>1
<1> HIDE DEF card
<1>4. sizes \in SUBSET Nat /\ sizes # {}
  BY <1>3
<1>5. PICK n \in sizes : \A k \in sizes : ~(<<k, n>> \in OpToRel(<, Nat))
  BY <1>4, NatLessThanWellFounded, WFMin
<1>6. PICK x \in S : card[x] = n
  BY <1>5
<1>7. ASSUME NEW y \in S, <<y, x>> \in R PROVE FALSE
  <2>1. card[y] \in sizes /\ card[y] \in Nat /\ n \in Nat /\ card[y] < n
    BY <1>2, <1>3, <1>6, <1>7
  <2>2. <<card[y], n>> \in OpToRel(<, Nat)
    BY <2>1 DEF OpToRel
  <2> QED BY <1>5, <2>1, <2>2
<1> QED BY <1>7

(* A page has the newest rows behind the cursor; if it is not the last,    *)
(* the row it ends with is a cursor every row it leaves out follows.       *)
LEMMA PageIsPrefix ==
  ASSUME ServiceAssumption, NEW records, IsFiniteSet(records), NEW before,
         \A r \in records : Listed(r),
         \A r, s \in records : r.id = s.id => r = s
  PROVE  LET page == Page(records, before)
             rest == {r \in records : \A cursor \in before : Follows(r, cursor)}
         IN /\ page \subseteq rest
            /\ ~More(records, before) => page = rest
            /\ More(records, before) =>
                 /\ Last(page) # {} /\ Last(page) \subseteq page
                 /\ \A c \in Last(page) : /\ \A r \in page : ~Follows(r, c)
                                          /\ \A r \in rest \ page : Follows(r, c)
<1> DEFINE page == Page(records, before)
           rest == {r \in records : \A cursor \in before : Follows(r, cursor)}
           Newer(r) == {s \in rest : Newest(s, r)}
<1>1. page = {r \in rest : Cardinality(Newer(r)) < Limit}
  BY DEF Page
<1>2. More(records, before) <=> Cardinality(rest) > Limit
  BY DEF More
<1>3. /\ rest \subseteq records /\ IsFiniteSet(rest) /\ Cardinality(rest) \in Nat
      /\ \A r \in rest : Listed(r)
  <2>1. rest \in SUBSET records
    OBVIOUS
  <2>2. IsFiniteSet(rest)
    BY <2>1, FS_Subset
  <2> QED BY <2>1, <2>2, FS_CardinalityType
<1> HIDE DEF rest
<1>4. ASSUME NEW T \in SUBSET rest, NEW U \in SUBSET T
      PROVE  /\ Cardinality(T) \in Nat /\ Cardinality(U) \in Nat
             /\ Cardinality(U) <= Cardinality(T)
             /\ U # T => Cardinality(U) < Cardinality(T)
             /\ IsFiniteSet(T)
  <2>1. IsFiniteSet(T)
    BY <1>3, FS_Subset
  <2>2. IsFiniteSet(U)
    BY <2>1, FS_Subset
  <2>3. Cardinality(T) \in Nat /\ Cardinality(U) \in Nat
    BY <2>1, <2>2, FS_CardinalityType
  <2>4. Cardinality(U) <= Cardinality(T) /\ (Cardinality(T) = Cardinality(U) => T = U)
    BY <2>1, FS_Subset
  <2> QED BY <2>1, <2>3, <2>4
<1>5. ASSUME ~More(records, before), NEW r \in rest
      PROVE  r \in page
  <2>1. Newer(r) \in SUBSET rest /\ r \notin Newer(r)
    BY <1>3, Order
  <2>2. Cardinality(Newer(r)) < Cardinality(rest)
    BY <1>4, <2>1
  <2>3. Cardinality(rest) <= Limit /\ Limit \in Nat
    BY <1>2, <1>3, <1>5 DEF ServiceAssumption
  <2>4. Cardinality(Newer(r)) \in Nat
    BY <1>4, <2>1
  <2> QED BY <1>1, <1>3, <2>2, <2>3, <2>4
<1>6. ASSUME NEW r \in rest \ page, NEW c \in page
      PROVE  Follows(r, c)
  <2>1. c \in rest /\ r \in rest /\ Listed(r) /\ Listed(c) /\ c # r
    BY <1>1, <1>3
  <2>2. CASE Newest(c, r)
    BY <2>1, <2>2, Order
  <2>3. CASE ~Newest(c, r)
    <3>1. Newest(r, c)
      BY <1>3, <2>1, <2>3, Order
    <3>2. Newer(r) \in SUBSET Newer(c) /\ Newer(c) \in SUBSET rest
      BY <1>3, <2>1, <3>1, Order
    <3>3. /\ Cardinality(Newer(r)) <= Cardinality(Newer(c))
          /\ Cardinality(Newer(r)) \in Nat /\ Cardinality(Newer(c)) \in Nat
      BY <1>4, <3>2
    <3>4. Cardinality(Newer(c)) < Limit /\ ~(Cardinality(Newer(r)) < Limit) /\ Limit \in Nat
      BY <1>1, <1>6 DEF ServiceAssumption
    <3> QED BY <3>3, <3>4
  <2> QED BY <2>2, <2>3
<1>7. ASSUME More(records, before)
      PROVE  Last(page) # {}
  <2>1. rest # {}
    <3>1. rest = {} => Cardinality(rest) = 0
      BY FS_EmptySet
    <3>2. Limit \in Nat /\ Cardinality(rest) > Limit /\ Cardinality(rest) \in Nat
      BY <1>2, <1>3, <1>7 DEF ServiceAssumption
    <3> QED BY <3>1, <3>2
  <2>2. PICK top \in rest : \A s \in rest : ~Newest(s, top)
    <3> DEFINE R == {p \in rest \X rest : Newest(p[1], p[2])}
    <3>1. /\ \A x, y \in rest : <<x, y>> \in R <=> Newest(x, y)
          /\ \A x \in rest : <<x, x>> \notin R
      BY <1>3, Order
    <3>2. \A x, y, z \in rest : Newest(x, y) /\ Newest(y, z) => Newest(x, z)
      BY <1>3, Order
    <3>3. \A x, y, z \in rest : <<x, y>> \in R /\ <<y, z>> \in R => <<x, z>> \in R
      BY <3>1, <3>2
    <3> HIDE DEF R
    <3>4. \E x \in rest : \A y \in rest : <<y, x>> \notin R
      BY <1>3, <2>1, <3>1, <3>3, Foremost
    <3> QED BY <3>1, <3>4
  <2>3. Newer(top) = {}
    BY <2>2
  <2>4. Cardinality(Newer(top)) = 0
    BY <2>3, FS_EmptySet
  <2>5. top \in page
    BY <1>1, <2>4 DEF ServiceAssumption
  <2>6. page \in SUBSET rest
    BY <1>1
  <2> HIDE DEF page
  <2>7. PICK low \in page : \A s \in page : ~Newest(low, s)
    <3> DEFINE R == {p \in page \X page : Newest(p[2], p[1])}
    <3>1. /\ \A x, y \in page : <<x, y>> \in R <=> Newest(y, x)
          /\ \A x \in page : <<x, x>> \notin R
      BY <1>3, <2>6, Order
    <3>2. \A x, y, z \in page : Newest(y, x) /\ Newest(z, y) => Newest(z, x)
      BY <1>3, <2>6, Order
    <3>3. \A x, y, z \in page : <<x, y>> \in R /\ <<y, z>> \in R => <<x, z>> \in R
      BY <3>1, <3>2
    <3>4. IsFiniteSet(page)
      BY <1>4, <2>6
    <3> HIDE DEF R
    <3>5. \E x \in page : \A y \in page : <<y, x>> \notin R
      BY <2>5, <3>1, <3>3, <3>4, Foremost
    <3> QED BY <3>1, <3>5
  <2> QED BY <2>7 DEF Last
<1>8. \A c \in Last(page) : c \in page /\ \A r \in page : ~Follows(r, c)
  <2> SUFFICES ASSUME NEW c \in Last(page), NEW r \in page
               PROVE  c \in page /\ ~Follows(r, c)
    BY DEF Last
  <2>1. c \in page /\ ~Newest(c, r)
    BY DEF Last
  <2> QED BY <1>1, <1>3, <2>1, Order
<1>9. page \subseteq rest
  BY <1>1
<1> HIDE DEF page
<1>10. /\ page \subseteq rest
       /\ ~More(records, before) => page = rest
       /\ More(records, before) =>
            /\ Last(page) # {} /\ Last(page) \subseteq page
            /\ \A c \in Last(page) : /\ \A r \in page : ~Follows(r, c)
                                     /\ \A r \in rest \ page : Follows(r, c)
  BY <1>5, <1>6, <1>7, <1>8, <1>9
<1> QED BY <1>10 DEF page, rest

(* Rows that are told apart by their ids are finitely many.                *)
LEMMA FiniteRecords ==
  ASSUME ServiceAssumption, NEW records, \A r \in records : r.id \in Ids,
         \A r, s \in records : r.id = s.id => r = s
  PROVE  IsFiniteSet(records)
<1> DEFINE f == [r \in records |-> r.id]
<1>1. f \in Injection(records, Ids)
  BY DEF Injection, IsInjective
<1>2. IsFiniteSet(Ids)
  BY DEF ServiceAssumption
<1> QED BY <1>1, <1>2, FS_Injection

-----------------------------------------------------------------------------
(* Lists                                                                   *)

Unwritten(k, start) == k \in DOMAIN start /\ k \in DOMAIN stamp /\ stamp[k] = start[k]

(* The pages shown so far are what stands before the cursor: a row shown   *)
(* still stands there, or has been written and stands before all cursors,  *)
(* and a row from the start that was not written is shown or follows.      *)
CursorInv(before, seen, start, done) ==
  /\ ~done /\ before = {} => DOMAIN seen = {}
  /\ \A c \in before : Listed(c) /\ c.stamp <= clock
  /\ \A k \in DOMAIN seen : /\ seen[k] = 1
                            /\ k \in DOMAIN stamp =>
                                 \A c \in before : ~Follows(Row(k, stamp[k]), c)
  /\ \A k \in DOMAIN start : start[k] \in Nat /\ start[k] <= clock
  /\ \A k : Unwritten(k, start) /\ k \notin DOMAIN seen =>
            ~done /\ \A c \in before : Follows(Row(k, start[k]), c)

(* A row that is not written does not leave the view it was listed in.     *)
InView(kind, view, k) ==
  IF kind = "orders" THEN k \in OrdersIn(view)
  ELSE \/ /\ k \in DOMAIN action
          /\ (map_refund_status[action[k].status] \in NeedsUser) <=> (view = "active")
       \/ /\ k \in DOMAIN case
          /\ (map_l2_status[case[k].status] \in NeedsUser) <=> (view = "active")

ViewInv(kind, view, start) == \A k : Unwritten(k, start) => InView(kind, view, k)

(* The requests read before the cases are read: older than the table, but  *)
(* right about every request that was not written.                         *)
RowsInv(before, rows, seen, start) ==
  /\ \A r \in rows : /\ r.id \in DOMAIN action /\ r.stamp \in Nat /\ r.stamp <= stamp[r.id]
                     /\ r.id \in DOMAIN seen => \A c \in before : ~Follows(r, c)
  /\ \A r, s \in rows : r.id = s.id => r = s
  /\ \A k \in DOMAIN action : Unwritten(k, start) =>
       \E r \in rows : /\ r.id = k /\ r.stamp = start[k]
                      /\ r.status = map_refund_status[action[k].status]

ListInv ==
  reader.kind \in {"services", "orders"} =>
    /\ reader.at \in (IF reader.kind = "orders" THEN {"orders", "done"}
                      ELSE {"refunds", "cases", "done"})
    /\ reader.kind = "orders" => reader.view \in OrderViews
    /\ CursorInv(reader.before, reader.seen, reader.start, reader.at = "done")
    /\ ViewInv(reader.kind, reader.view, reader.start)
    /\ reader.at = "cases" => RowsInv(reader.before, reader.rows, reader.seen, reader.start)

(* Showing a page moves the cursor behind exactly the rows it shows.       *)
LEMMA ShowStep ==
  ASSUME ServiceAssumption, StampInv, DOMAIN stamp \subseteq Ids,
         ReaderShape, reader.kind \in {"services", "orders"},
         CursorInv(reader.before, reader.seen, reader.start, FALSE),
         NEW records, NEW again, again # "done", Show(records, again),
         UNCHANGED <<stamp, clock>>,
         \A r \in records : r.id \in Ids /\ r.id \in DOMAIN stamp,
         \A r \in records : r.stamp \in Nat /\ r.stamp <= stamp[r.id],
         \A r \in records, c \in reader.before : r.id \in DOMAIN reader.seen => ~Follows(r, c),
         \A r, s \in records : r.id = s.id => r = s,
         \A k : Unwritten(k, reader.start) =>
                  \E r \in records : r.id = k /\ r.stamp = reader.start[k]
  PROVE  \E b, g, start, done :
           /\ reader'.before = b /\ reader'.seen = g
           /\ reader'.start = start /\ reader.start = start
           /\ done \in BOOLEAN /\ (reader'.at = "done" <=> done)
           /\ CursorInv(b, g, start, done)'
<1> PICK before, seen, start :
      before = reader.before /\ seen = reader.seen /\ start = reader.start
  OBVIOUS
<1>0. /\ CursorInv(before, seen, start, FALSE)
      /\ \A r \in records, c \in before : r.id \in DOMAIN seen => ~Follows(r, c)
      /\ \A k : Unwritten(k, start) => \E r \in records : r.id = k /\ r.stamp = start[k]
  OBVIOUS
<1> DEFINE rest == {r \in records : \A cursor \in before : Follows(r, cursor)}
<1> PICK page, ids, more : /\ page = Page(records, before)
                           /\ ids = {r.id : r \in page}
                           /\ more = More(records, before)
  OBVIOUS
<1>1. IsFiniteSet(records) /\ \A r \in records : Listed(r)
  BY FiniteRecords DEF Listed
<1>2. /\ page \subseteq rest
      /\ ~more => page = rest
      /\ more => /\ Last(page) # {} /\ Last(page) \subseteq page
                 /\ \A c \in Last(page) : /\ \A r \in page : ~Follows(r, c)
                                          /\ \A r \in rest \ page : Follows(r, c)
  BY <1>1, PageIsPrefix
<1> PICK g, b, done : /\ g = reader'.seen /\ b = (IF more THEN Last(page) ELSE {})
                      /\ done \in BOOLEAN /\ (done <=> ~more)
  OBVIOUS
<1>3. /\ reader'.start = start /\ reader'.before = b
      /\ reader'.at = IF more THEN again ELSE "done"
      /\ DOMAIN g = DOMAIN seen \cup ids
      /\ \A k \in ids : k \notin DOMAIN seen => g[k] = 1
      /\ \A k \in DOMAIN seen : k \notin ids => g[k] = seen[k]
  <2>1. \A k : k \in ids <=> \E r \in page : r.id = k
    OBVIOUS
  <2> QED BY <2>1, ShowDoes
<1>4. \A r \in page : r.id \notin DOMAIN seen
  <2> SUFFICES ASSUME NEW r \in page, r.id \in DOMAIN seen PROVE FALSE
    OBVIOUS
  <2>1. before # {}
    BY <1>0 DEF CursorInv
  <2>2. r \in records /\ \A c \in before : Follows(r, c)
    BY <1>2
  <2> QED BY <2>1, <2>2
<1>5. \A k \in DOMAIN g : g[k] = 1
  BY <1>0, <1>3, <1>4 DEF CursorInv
<1>6. \A c \in b : c \in page /\ c \in records /\ Listed(c) /\ c.stamp <= clock
  <2>1. \A c \in b : c \in page /\ c \in records /\ Listed(c)
    BY <1>1, <1>2
  <2>2. \A r \in records : r.stamp \in Nat /\ r.stamp <= stamp[r.id] /\ stamp[r.id] \in Nat
                           /\ stamp[r.id] <= clock /\ clock \in Nat
    BY DEF StampInv
  <2>3. \A r \in records : r.stamp <= clock
    BY <2>2
  <2> QED BY <2>1, <2>3
<1>7. ASSUME NEW k \in DOMAIN g, k \in DOMAIN stamp, NEW c \in b
      PROVE  ~Follows(Row(k, stamp[k]), c)
  <2>1. Listed(c) /\ stamp[k] \in Nat
    BY <1>6, <1>7 DEF StampInv
  <2>2. CASE k \in ids
    <3> PICK r \in page : r.id = k
      BY <2>2
    <3>1. r \in records /\ Listed(r) /\ r.stamp <= stamp[k] /\ ~Follows(r, c)
      BY <1>1, <1>2
    <3> QED BY <2>1, <3>1 DEF Follows, Listed, Row
  <2>3. CASE k \in DOMAIN seen
    <3>1. before # {}
      BY <1>0, <2>3 DEF CursorInv
    <3> PICK d : d \in before
      BY <3>1
    <3>2. Listed(d) /\ ~Follows(Row(k, stamp[k]), d)
      BY <1>0, <1>7, <2>3 DEF CursorInv
    <3>3. Follows(c, d)
      BY <1>2, <1>6
    <3>4. \A i \in Ids : Rank[i] \in Nat
      BY DEF ServiceAssumption
    <3>5. k \in Ids
      BY <1>7
    <3> QED BY <2>1, <3>2, <3>3, <3>4, <3>5 DEF Follows, Listed, Row
  <2> QED BY <1>3, <2>2, <2>3
<1>8. ASSUME NEW k, Unwritten(k, start), k \notin DOMAIN g
      PROVE  ~done /\ \A c \in b : Follows(Row(k, start[k]), c)
  <2> PICK r \in records : r.id = k /\ r.stamp = start[k]
    BY <1>0, <1>8
  <2>1. \A c \in before : Follows(Row(k, start[k]), c)
    BY <1>0, <1>3, <1>8 DEF CursorInv
  <2>2. r \in rest
    BY <2>1 DEF Follows, Row
  <2>3. r \notin page
    BY <1>3, <1>8
  <2>4. more /\ \A c \in b : Follows(r, c)
    BY <1>2, <2>2, <2>3
  <2> QED BY <2>4 DEF Follows, Row
<1>9. b # {} \/ done
  BY <1>2
<1>10. \A k \in DOMAIN start : start[k] \in Nat /\ start[k] <= clock
  BY <1>0 DEF CursorInv
<1>11. CursorInv(b, g, start, done)
  BY <1>5, <1>6, <1>7, <1>8, <1>9, <1>10 DEF CursorInv
<1>12. CursorInv(b, g, start, done)'
  BY <1>11 DEF CursorInv, Unwritten
<1>13. done \in BOOLEAN /\ (reader'.at = "done" <=> done)
  BY <1>3, <1>9
<1> QED BY <1>3, <1>12, <1>13

(* Writers leave a list in the reader's hands as true as it was: what they *)
(* change stands before every cursor, and what they leave alone stays put. *)
LEMMA ListsStay ==
  ASSUME ServiceAssumption, LedgerAssumption, IInv, StampInv, Write,
         NEW kind, NEW view, kind = "orders" => view \in OrderViews,
         NEW before, NEW seen, NEW rows, NEW start, NEW done
  PROVE  /\ CursorInv(before, seen, start, done) => CursorInv(before, seen, start, done)'
         /\ CursorInv(before, seen, start, done) /\ ViewInv(kind, view, start)
              => ViewInv(kind, view, start)'
         /\ CursorInv(before, seen, start, done) /\ RowsInv(before, rows, seen, start)
              => RowsInv(before, rows, seen, start)'
<1>1. /\ RowsKept
      /\ DOMAIN stamp' = DOMAIN order' \cup DOMAIN action' \cup DOMAIN case'
      /\ DOMAIN case \subseteq DOMAIN case'
      /\ \A c \in DOMAIN case : case'[c].order = case[c].order
  BY WriteKeepsRows
<1>2. [CentreNext]_centreVars
  BY DEF CentreNext
<1>3. [Next]_vars
  BY <1>2, WriteUsesLedger
<1>4. IInv' /\ StampInv'
  BY <1>2, <1>3, InvariantStep, StampInvStep
<1>5. /\ clock \in Nat /\ clock' \in {clock, clock + 1}
      /\ \A k \in DOMAIN stamp : stamp[k] \in Nat /\ stamp[k] <= clock
      /\ \A k \in DOMAIN stamp' : RowKept(k) \/ stamp'[k] = clock + 1
  BY <1>1 DEF StampInv, RowsKept, RowStamped
<1>6. ASSUME CursorInv(before, seen, start, done)
      PROVE  /\ CursorInv(before, seen, start, done)'
             /\ \A k : Unwritten(k, start)' => Unwritten(k, start) /\ RowKept(k)
  <2>1. \A k \in DOMAIN start : start[k] \in Nat /\ start[k] <= clock
    BY <1>6 DEF CursorInv
  <2>2. \A k : Unwritten(k, start)' => Unwritten(k, start) /\ RowKept(k)
    <3> SUFFICES ASSUME NEW k, Unwritten(k, start)'
                 PROVE  Unwritten(k, start) /\ RowKept(k)
      OBVIOUS
    <3>1. k \in DOMAIN start /\ k \in DOMAIN stamp' /\ stamp'[k] = start[k]
      BY DEF Unwritten
    <3>2. stamp'[k] # clock + 1
      BY <1>5, <2>1, <3>1
    <3>3. RowKept(k)
      BY <1>5, <3>1, <3>2
    <3> QED BY <3>1, <3>3 DEF RowKept, Unwritten
  <2>3. \A c \in before : Listed(c) /\ c.stamp <= clock'
    BY <1>5, <1>6 DEF CursorInv, Listed
  <2>4. ASSUME NEW k \in DOMAIN seen, k \in DOMAIN stamp', NEW c \in before
        PROVE  ~Follows(Row(k, stamp'[k]), c)
    <3>1. CASE RowKept(k)
      BY <1>6, <3>1 DEF CursorInv, RowKept
    <3>2. CASE stamp'[k] = clock + 1
      <4>1. c.stamp \in Nat /\ c.stamp <= clock
        BY <1>6 DEF CursorInv, Listed
      <4> QED BY <1>5, <3>2, <4>1 DEF Follows, Row
    <3> QED BY <1>5, <2>4, <3>1, <3>2
  <2>5. \A k \in DOMAIN start : start[k] \in Nat /\ start[k] <= clock'
    BY <1>5, <2>1
  <2>6. \A k : Unwritten(k, start)' /\ k \notin DOMAIN seen =>
             ~done /\ \A c \in before : Follows(Row(k, start[k]), c)
    BY <1>6, <2>2 DEF CursorInv
  <2>7. /\ ~done /\ before = {} => DOMAIN seen = {}
        /\ \A k \in DOMAIN seen : seen[k] = 1
    BY <1>6 DEF CursorInv
  <2>8. CursorInv(before, seen, start, done)'
    BY <2>3, <2>4, <2>5, <2>6, <2>7 DEF CursorInv
  <2> QED BY <2>2, <2>8
<1>7. ASSUME CursorInv(before, seen, start, done), ViewInv(kind, view, start)
      PROVE  ViewInv(kind, view, start)'
  <2> SUFFICES ASSUME NEW k, Unwritten(k, start)'
               PROVE  InView(kind, view, k)'
    BY DEF ViewInv
  <2>1. RowKept(k) /\ InView(kind, view, k) /\ k \in DOMAIN stamp'
    BY <1>6, <1>7 DEF ViewInv, Unwritten
  <2>2. CASE kind = "orders"
    <3>1. k \in OrdersIn(view) /\ k \in DOMAIN order
      BY <2>1, <2>2 DEF InView, OrdersIn
    <3>2. k \in Orders
      BY <3>1 DEF IInv, TypeOK
    <3>3. k \notin DOMAIN action' /\ k \notin DOMAIN case'
      <4>1. DOMAIN action' \subseteq Actions /\ DOMAIN case' \subseteq Cases
        BY <1>4 DEF IInv, TypeOK, StampInv
      <4> QED BY <3>2, <4>1, IdsApart
    <3>4. k \in DOMAIN order' /\ order'[k] = order[k]
      BY <1>1, <2>1, <3>3 DEF RowKept
    <3>5. \A a \in DOMAIN action : a \in DOMAIN action'
                                   /\ action'[a].preview.order = action[a].preview.order
      BY <1>3, RequestStep
    <3>6. k \in OrdersIn(view)'
      <4>1. view \in OrderViews
        BY <2>2
      <4>2. CASE view = "after_sales"
        BY <1>1, <3>1, <3>4, <3>5, <4>2 DEF OrdersIn
      <4>3. CASE view # "after_sales"
        BY <3>1, <3>4, <4>1, <4>3 DEF OrdersIn, OrderViews
      <4> QED BY <4>2, <4>3
    <3> QED BY <2>2, <3>6 DEF InView
  <2>3. CASE kind # "orders"
    <3>1. k \in DOMAIN action => k \in DOMAIN action' /\ action'[k] = action[k]
      BY <1>3, <2>1, RequestStep DEF RowKept
    <3>2. k \in DOMAIN case => k \in DOMAIN case' /\ case'[k] = case[k]
      BY <1>1, <2>1 DEF RowKept
    <3> QED BY <2>1, <2>3, <3>1, <3>2 DEF InView
  <2> QED BY <2>2, <2>3
<1>8. ASSUME CursorInv(before, seen, start, done), RowsInv(before, rows, seen, start)
      PROVE  RowsInv(before, rows, seen, start)'
  <2>1. \A a \in DOMAIN action : a \in DOMAIN action' /\ a \in DOMAIN stamp'
    BY <1>1, <1>3, RequestStep
  <2>2. \A k \in DOMAIN stamp : k \in DOMAIN stamp' =>
           stamp'[k] \in Nat /\ stamp[k] \in Nat /\ stamp[k] <= stamp'[k]
    BY <1>5 DEF RowKept
  <2>3. DOMAIN action \subseteq DOMAIN stamp
    BY DEF StampInv
  <2>4. ASSUME NEW r \in rows
        PROVE  /\ r.id \in DOMAIN action' /\ r.stamp \in Nat /\ r.stamp <= stamp'[r.id]
               /\ r.id \in DOMAIN seen => \A c \in before : ~Follows(r, c)
    <3>1. /\ r.id \in DOMAIN action /\ r.stamp \in Nat /\ r.stamp <= stamp[r.id]
          /\ r.id \in DOMAIN seen => \A c \in before : ~Follows(r, c)
      BY <1>8 DEF RowsInv
    <3>2. stamp'[r.id] \in Nat /\ stamp[r.id] \in Nat /\ stamp[r.id] <= stamp'[r.id]
      BY <2>1, <2>2, <2>3, <3>1
    <3> QED BY <2>1, <3>1, <3>2
  <2>5. ASSUME NEW k \in DOMAIN action', Unwritten(k, start)'
        PROVE  \E r \in rows : /\ r.id = k /\ r.stamp = start[k]
                              /\ r.status = map_refund_status[action'[k].status]
    <3>1. Unwritten(k, start) /\ k \in DOMAIN action /\ action'[k] = action[k]
      BY <1>6, <1>8, <2>5 DEF RowKept
    <3> QED BY <1>8, <3>1 DEF RowsInv
  <2>6. \A r, s \in rows : r.id = s.id => r = s
    BY <1>8 DEF RowsInv
  <2> QED BY <2>4, <2>5, <2>6 DEF RowsInv
<1> QED BY <1>6, <1>7, <1>8

(* A browser that opens a list begins with no page shown.                  *)
LEMMA ListOpens ==
  ASSUME StampInv, NEW kind, NEW view, NEW records, NEW first, Lists(kind, view, records, first),
         kind \in {"services", "orders"}, kind = "orders" => view \in OrderViews,
         first \in (IF kind = "orders" THEN {"orders"} ELSE {"refunds"}),
         \A r \in records : r.id \in DOMAIN stamp /\ InView(kind, view, r.id)
  PROVE  ReaderShape' /\ ListInv'
<1> PICK start, seen : /\ start = [k \in {r.id : r \in records} |-> stamp[k]]
                       /\ seen = [k \in {} |-> 0]
  OBVIOUS
<1>1. /\ reader' = [kind |-> kind, view |-> view, at |-> first, before |-> {},
                    rows |-> {}, seen |-> seen, start |-> start]
      /\ UNCHANGED <<vars, case, stamp, clock>>
  BY DEF Lists, written
<1>2. /\ DOMAIN seen = {} /\ \A k \in DOMAIN start : \E r \in records : r.id = k
      /\ \A k \in DOMAIN start : start[k] = stamp[k]
  OBVIOUS
<1>3. /\ DOMAIN reader' = {"kind", "view", "at", "before", "rows", "seen", "start"}
      /\ reader'.kind = kind /\ reader'.view = view /\ reader'.at = first
      /\ reader'.before = {} /\ reader'.seen = seen /\ reader'.start = start
  BY <1>1
<1>4. first # "done" /\ first # "cases"
  OBVIOUS
<1>5. CursorInv({}, seen, start, FALSE)
  BY <1>2 DEF CursorInv, StampInv
<1>6. ViewInv(kind, view, start)
  BY <1>2 DEF ViewInv, Unwritten
<1>7. CursorInv({}, seen, start, FALSE)' /\ ViewInv(kind, view, start)'
  BY <1>1, <1>5, <1>6 DEF CursorInv, ViewInv, Unwritten, InView, OrdersIn, vars
<1>8. (reader'.at = "done") = FALSE
  BY <1>3, <1>4
<1>9. ListInv'
  BY <1>3, <1>4, <1>7, <1>8 DEF ListInv, CursorInv, ViewInv, Unwritten, InView
<1> QED BY <1>3, <1>9 DEF ReaderShape

(* Every read of a list keeps what its pages have shown.                   *)
LEMMA ListReads ==
  ASSUME ServiceAssumption, IInv, StampInv, ReaderShape, ListInv,
         ReadRefunds \/ ReadCases \/ ReadOrders
  PROVE  ReaderShape' /\ ListInv'
<1> PICK kind, view, before, seen, start, rows :
      /\ kind = reader.kind /\ view = reader.view /\ before = reader.before
      /\ seen = reader.seen /\ start = reader.start /\ rows = reader.rows
  OBVIOUS
<1>1. /\ kind \in {"services", "orders"} /\ reader.at # "done"
      /\ UNCHANGED <<vars, case, stamp, clock>>
  BY DEF ReadRefunds, ReadCases, ReadOrders, written
<1>2. /\ CursorInv(before, seen, start, FALSE) /\ ViewInv(kind, view, start)
      /\ kind = "orders" => view \in OrderViews
      /\ reader.at = "cases" => RowsInv(before, rows, seen, start)
  <2>1. (reader.at = "done") = FALSE
    BY <1>1
  <2> QED BY <1>1, <2>1 DEF ListInv
<1>3. CursorInv(before, seen, start, FALSE)' /\ ViewInv(kind, view, start)'
  BY <1>1, <1>2 DEF CursorInv, ViewInv, Unwritten, InView, OrdersIn, vars
<1>4. /\ DOMAIN action \subseteq DOMAIN stamp /\ DOMAIN case \subseteq DOMAIN stamp
      /\ DOMAIN order \subseteq DOMAIN stamp /\ DOMAIN stamp \subseteq Ids
      /\ \A k \in DOMAIN stamp : stamp[k] \in Nat
      /\ \A k \in DOMAIN action : k \notin DOMAIN case
  <2>1. DOMAIN case \subseteq Cases
    BY DEF StampInv
  <2> QED BY <2>1, IdsApart DEF StampInv
<1>5. CASE ReadRefunds
  <2>1. /\ DOMAIN reader' = {"kind", "view", "at", "before", "rows", "seen", "start"}
        /\ reader'.kind = kind /\ reader'.view = view /\ reader'.before = before
        /\ reader'.seen = seen /\ reader'.start = start /\ reader'.at = "cases"
        /\ reader'.rows = RefundRecords /\ kind = "services"
    BY <1>1, <1>5 DEF ReadRefunds, ReaderShape
  <2>2. RowsInv(before, RefundRecords, seen, start)
    <3>1. ASSUME NEW r \in RefundRecords
          PROVE  /\ r.id \in DOMAIN action /\ r.stamp \in Nat /\ r.stamp <= stamp[r.id]
                 /\ r.id \in DOMAIN seen => \A c \in before : ~Follows(r, c)
      <4>1. /\ r.id \in DOMAIN action /\ r.stamp = stamp[r.id] /\ r.stamp \in Nat
        BY <1>4 DEF RefundRecords
      <4> QED BY <1>2, <1>4, <4>1 DEF CursorInv, Follows, Row
    <3>2. \A r, s \in RefundRecords : r.id = s.id => r = s
      BY DEF RefundRecords
    <3>3. ASSUME NEW k \in DOMAIN action, Unwritten(k, start)
          PROVE  \E r \in RefundRecords : /\ r.id = k /\ r.stamp = start[k]
                                         /\ r.status = map_refund_status[action[k].status]
      <4> DEFINE r == [id |-> k, status |-> map_refund_status[action[k].status], stamp |-> stamp[k]]
      <4>1. r \in RefundRecords
        BY DEF RefundRecords
      <4>2. r.id = k /\ r.stamp = start[k] /\ r.status = map_refund_status[action[k].status]
        BY <3>3 DEF Unwritten
      <4> QED BY <4>1, <4>2
    <3> QED BY <3>1, <3>2, <3>3 DEF RowsInv
  <2> PICK found : found = RefundRecords
    OBVIOUS
  <2>3. RowsInv(before, found, seen, start)'
    BY <1>1, <2>2 DEF RowsInv, Unwritten, vars
  <2>4. (reader'.at = "done") = FALSE
    BY <2>1
  <2>5. ListInv'
    BY <1>3, <2>1, <2>3, <2>4 DEF ListInv, CursorInv, ViewInv, RowsInv, Unwritten, InView
  <2> QED BY <2>1, <2>5 DEF ReaderShape
<1>6. ASSUME NEW records, NEW again, again # "done", again # "cases",
             again \in (IF kind = "orders" THEN {"orders"} ELSE {"refunds"}),
             Show(records, again),
             \A r \in records : r.id \in DOMAIN stamp,
             \A r \in records : r.stamp \in Nat /\ r.stamp <= stamp[r.id],
             \A r \in records, c \in before : r.id \in DOMAIN seen => ~Follows(r, c),
             \A r, s \in records : r.id = s.id => r = s,
             \A k : Unwritten(k, start) => \E r \in records : r.id = k /\ r.stamp = start[k]
      PROVE  ReaderShape' /\ ListInv'
  <2>1. /\ DOMAIN reader' = {"kind", "view", "at", "before", "rows", "seen", "start"}
        /\ reader'.kind = kind /\ reader'.view = view
        /\ reader'.at \in {again, "done"}
    BY <1>1, <1>6, ShowDoes
  <2>2. /\ UNCHANGED <<stamp, clock>> /\ DOMAIN stamp \subseteq Ids
        /\ reader.kind \in {"services", "orders"}
        /\ CursorInv(reader.before, reader.seen, reader.start, FALSE)
        /\ \A r \in records : r.id \in Ids /\ r.id \in DOMAIN stamp
        /\ \A r \in records, c \in reader.before : r.id \in DOMAIN reader.seen => ~Follows(r, c)
        /\ \A k : Unwritten(k, reader.start) =>
                    \E r \in records : r.id = k /\ r.stamp = reader.start[k]
    BY <1>1, <1>2, <1>4, <1>6
  <2>3. PICK b, g, since, done :
                          /\ reader'.before = b /\ reader'.seen = g
                          /\ reader'.start = since /\ reader.start = since
                          /\ done \in BOOLEAN /\ (reader'.at = "done" <=> done)
                          /\ CursorInv(b, g, since, done)'
    BY <1>6, <2>2, ShowStep
  <2>4. reader'.at # "cases"
    BY <1>6, <2>1
  <2>5. ListInv'
    BY <1>1, <1>2, <1>3, <1>6, <2>1, <2>3, <2>4 DEF ListInv, CursorInv, ViewInv, Unwritten, InView
  <2> QED BY <2>1, <2>5 DEF ReaderShape
<1>7. CASE ReadCases
  <2> DEFINE records == ServicesIn(view, rows \cup CaseRecords)
  <2>1. /\ kind = "services" /\ Show(records, "refunds") /\ RowsInv(before, rows, seen, start)
    BY <1>2, <1>7 DEF ReadCases
  <2>2. \A r \in records : /\ r \in rows \/ r \in CaseRecords
    BY DEF ServicesIn
  <2>3. \A r \in CaseRecords : r.id \in DOMAIN case /\ r.stamp = stamp[r.id]
    BY DEF CaseRecords
  <2>4. \A r, s \in CaseRecords : r.id = s.id => r = s
    BY DEF CaseRecords
  <2>5. \A r \in rows : r.id \in DOMAIN action
    BY <2>1 DEF RowsInv
  <2>6. ASSUME NEW k, Unwritten(k, start)
        PROVE  \E r \in records : r.id = k /\ r.stamp = start[k]
    <3>1. InView(kind, view, k)
      BY <1>2, <2>6 DEF ViewInv
    <3>2. CASE k \in DOMAIN action
      <4>1. (map_refund_status[action[k].status] \in NeedsUser) <=> (view = "active")
        BY <1>4, <2>1, <3>1, <3>2 DEF InView
      <4> PICK r \in rows : /\ r.id = k /\ r.stamp = start[k]
                            /\ r.status = map_refund_status[action[k].status]
        BY <2>1, <2>6, <3>2 DEF RowsInv
      <4> QED BY <4>1 DEF ServicesIn
    <3>3. CASE k \notin DOMAIN action
      <4>1. /\ k \in DOMAIN case
            /\ (map_l2_status[case[k].status] \in NeedsUser) <=> (view = "active")
        BY <2>1, <3>1, <3>3 DEF InView
      <4> PICK r : r = [id |-> k, status |-> map_l2_status[case[k].status], stamp |-> stamp[k]]
        OBVIOUS
      <4>2. r \in CaseRecords
        BY <4>1 DEF CaseRecords
      <4>3. r.id = k /\ r.stamp = start[k] /\ r.status = map_l2_status[case[k].status]
        BY <2>6 DEF Unwritten
      <4> QED BY <4>1, <4>2, <4>3 DEF ServicesIn
    <3> QED BY <3>2, <3>3
  <2>7. ASSUME NEW r \in records
        PROVE  /\ r.id \in DOMAIN stamp
               /\ r.stamp \in Nat /\ r.stamp <= stamp[r.id]
               /\ \A c \in before : r.id \in DOMAIN seen => ~Follows(r, c)
    <3>1. CASE r \in rows
      BY <1>4, <2>1, <3>1 DEF RowsInv
    <3>2. CASE r \in CaseRecords
      <4>1. r.id \in DOMAIN stamp /\ r.stamp = stamp[r.id] /\ r.stamp \in Nat
        BY <1>4, <2>3, <3>2
      <4> QED BY <1>2, <4>1 DEF CursorInv, Follows, Row
    <3> QED BY <2>2, <3>1, <3>2
  <2>8. \A r, s \in records : r.id = s.id => r = s
    <3>1. \A r, s \in rows : r.id = s.id => r = s
      BY <2>1 DEF RowsInv
    <3> QED BY <1>4, <2>2, <2>3, <2>4, <2>5, <3>1
  <2> HIDE DEF records
  <2> QED BY <1>6, <2>1, <2>6, <2>7, <2>8
<1>8. CASE ReadOrders
  <2> DEFINE records == OrderRecords(view)
  <2>1. kind = "orders" /\ Show(records, "orders")
    BY <1>8 DEF ReadOrders
  <2>2. \A r \in records : r.id \in DOMAIN order /\ r.stamp = stamp[r.id]
    <3>1. OrdersIn(view) \subseteq DOMAIN order
      BY DEF OrdersIn
    <3> QED BY <3>1 DEF OrderRecords
  <2>3. \A r, s \in records : r.id = s.id => r = s
    BY DEF OrderRecords
  <2>4. ASSUME NEW k, Unwritten(k, start)
        PROVE  \E r \in records : r.id = k /\ r.stamp = start[k]
    <3>1. k \in OrdersIn(view)
      BY <1>2, <2>1, <2>4 DEF ViewInv, InView
    <3> PICK r : r = [id |-> k, stamp |-> stamp[k]]
      OBVIOUS
    <3>2. r \in records
      BY <3>1 DEF OrderRecords
    <3> QED BY <2>4, <3>2 DEF Unwritten
  <2>5. ASSUME NEW r \in records
        PROVE  /\ r.id \in DOMAIN stamp
               /\ r.stamp \in Nat /\ r.stamp <= stamp[r.id]
               /\ \A c \in before : r.id \in DOMAIN seen => ~Follows(r, c)
    <3>1. r.id \in DOMAIN stamp /\ r.stamp = stamp[r.id] /\ r.stamp \in Nat
      BY <1>4, <2>2
    <3> QED BY <1>2, <3>1 DEF CursorInv, Follows, Row
  <2> HIDE DEF records
  <2> QED BY <1>6, <2>1, <2>3, <2>4, <2>5
<1> QED BY <1>5, <1>7, <1>8

(* Every step keeps what the pages of a list have shown.                   *)
LEMMA ListStep ==
  ASSUME ServiceAssumption, LedgerAssumption, IInv, StampInv, OrderPageInv, ServicePageInv,
         ReaderShape, ListInv, [CentreNext]_centreVars
  PROVE  ReaderShape' /\ ListInv'
<1>1. ASSUME reader' = reader, Write \/ UNCHANGED centreVars
      PROVE  ReaderShape' /\ ListInv'
  <2> PICK kind, view, before, seen, rows, start, done :
        /\ kind = reader.kind /\ view = reader.view /\ before = reader.before
        /\ seen = reader.seen /\ rows = reader.rows /\ start = reader.start
        /\ done = (reader.at = "done")
    OBVIOUS
  <2>1. CASE kind \in {"services", "orders"}
    <3>1. /\ CursorInv(before, seen, start, done) /\ ViewInv(kind, view, start)
          /\ kind = "orders" => view \in OrderViews
          /\ reader.at = "cases" => RowsInv(before, rows, seen, start)
      BY <2>1 DEF ListInv
    <3>2. /\ CursorInv(before, seen, start, done)' /\ ViewInv(kind, view, start)'
          /\ reader.at = "cases" => RowsInv(before, rows, seen, start)'
      <4>1. CASE Write
        BY <3>1, <4>1, ListsStay
      <4>2. CASE UNCHANGED centreVars
        <5>1. UNCHANGED <<order, action, case, stamp, clock>>
          BY <4>2 DEF centreVars, vars
        <5>2. CursorInv(before, seen, start, done)'
          BY <3>1, <5>1 DEF CursorInv, Unwritten
        <5>3. ViewInv(kind, view, start)'
          BY <3>1, <5>1 DEF ViewInv, Unwritten, InView, OrdersIn
        <5>4. reader.at = "cases" => RowsInv(before, rows, seen, start)'
          BY <3>1, <5>1 DEF RowsInv, Unwritten
        <5> QED BY <5>2, <5>3, <5>4
      <4> QED BY <1>1, <4>1, <4>2
    <3>3. CursorInv(reader.before, reader.seen, reader.start, reader.at = "done")'
      BY <1>1, <3>2 DEF CursorInv, Unwritten
    <3>4. ViewInv(reader.kind, reader.view, reader.start)'
      BY <1>1, <3>2 DEF ViewInv, Unwritten, InView
    <3>5. (reader.at = "cases" => RowsInv(reader.before, reader.rows, reader.seen, reader.start))'
      BY <1>1, <3>2 DEF RowsInv, Unwritten
    <3>6. (reader.at \in (IF reader.kind = "orders" THEN {"orders", "done"}
                         ELSE {"refunds", "cases", "done"}))'
      BY <1>1, <2>1 DEF ListInv
    <3>7. ListInv'
      BY <1>1, <2>1, <3>1, <3>3, <3>4, <3>5, <3>6 DEF ListInv
    <3> QED BY <1>1, <3>7 DEF ReaderShape
  <2>2. CASE kind \notin {"services", "orders"}
    BY <1>1, <2>2 DEF ReaderShape, ListInv
  <2> QED BY <2>1, <2>2
<1>2. /\ Write => reader' = reader
      /\ UNCHANGED centreVars => reader' = reader
  BY WriteKeepsRows DEF centreVars
<1>3. ASSUME reader'.kind \notin {"services", "orders"}
      PROVE  ReaderShape' /\ ListInv'
  BY <1>3 DEF ReaderShape, ListInv
<1>4. ASSUME NEW view \in Views \cap ServiceViews, ListServices(view)
      PROVE  ReaderShape' /\ ListInv'
  <2> DEFINE records == ServicesIn(view, RefundRecords \cup CaseRecords)
  <2>1. ASSUME NEW r \in records
        PROVE  r.id \in DOMAIN stamp /\ InView("services", view, r.id)
    <3>1. (r.status \in NeedsUser) <=> (view = "active")
      BY DEF ServicesIn
    <3>2. CASE r \in RefundRecords
      <4>1. r.id \in DOMAIN action /\ r.status = map_refund_status[action[r.id].status]
        BY <3>2 DEF RefundRecords
      <4> QED BY <3>1, <4>1 DEF InView, StampInv
    <3>3. CASE r \in CaseRecords
      <4>1. r.id \in DOMAIN case /\ r.status = map_l2_status[case[r.id].status]
        BY <3>3 DEF CaseRecords
      <4> QED BY <3>1, <4>1 DEF InView, StampInv
    <3> QED BY <3>2, <3>3 DEF ServicesIn
  <2>2. Lists("services", view, records, "refunds")
    BY <1>4 DEF ListServices
  <2> HIDE DEF records
  <2> QED BY <2>1, <2>2, ListOpens
<1>5. ASSUME NEW view \in Views \cap OrderViews, ListOrders(view)
      PROVE  ReaderShape' /\ ListInv'
  <2> DEFINE records == OrderRecords(view)
  <2>1. OrdersIn(view) \subseteq DOMAIN order
    BY DEF OrdersIn
  <2>2. ASSUME NEW r \in records
        PROVE  r.id \in DOMAIN stamp /\ InView("orders", view, r.id)
    BY <2>1 DEF OrderRecords, InView, StampInv
  <2>3. Lists("orders", view, records, "orders")
    BY <1>5 DEF ListOrders
  <2> HIDE DEF records
  <2> QED BY <2>2, <2>3, ListOpens
<1>6. ReadRefunds \/ ReadCases \/ ReadOrders => ReaderShape' /\ ListInv'
  BY ListReads
<1>7. ASSUME \/ \E o \in Orders : GetOrder(o)
             \/ \E a \in Actions : GetService(a)
             \/ Leave
      PROVE  reader'.kind \notin {"services", "orders"}
  BY <1>7 DEF GetOrder, GetService, Leave, Idle
<1>8. ReadOrder => reader'.kind = "order"
  BY ReadOrderStep
<1>9. ReadService => reader'.kind = "service"
  BY ReadServiceStep
<1> QED
  BY <1>1, <1>2, <1>3, <1>4, <1>5, <1>6, <1>7, <1>8, <1>9 DEF CentreNext, Browse

-----------------------------------------------------------------------------
(* The theorems                                                            *)

(* What every step of writers and readers keeps.                           *)
CentreInv ==
  /\ IInv
  /\ StampInv
  /\ OrderPageInv
  /\ ServicePageInv
  /\ ReaderShape
  /\ ListInv

LEMMA CentreInitInv ==
  ASSUME ServiceAssumption, LedgerAssumption, CentreInit
  PROVE  CentreInv
<1>1. PICK seeded \in SUBSET Orders : order \in [seeded -> OrderInputs]
  BY DEF CentreInit
<1>2. /\ DOMAIN order \subseteq Orders
      /\ \A o \in DOMAIN order : order[o] \in OrderStatuses
      /\ order \in [DOMAIN order -> OrderStatuses]
  BY <1>1 DEF LedgerAssumption
<1>3. /\ DOMAIN shipment = {} /\ DOMAIN payment = {} /\ DOMAIN action = {} /\ DOMAIN refund = {}
      /\ audit = {} /\ built = {} /\ DOMAIN case = {}
      /\ clock = 0 /\ stamp = [o \in DOMAIN order |-> 0] /\ reader.kind = "none"
  BY DEF CentreInit, Idle
<1>4. TypeOK
  BY <1>2, <1>3 DEF TypeOK
<1>5. /\ OneActivePerOrder /\ RefundIsBacked /\ PreviewsSound /\ NoOrphanAction
      /\ AuditTellsOutcome /\ NeverMismatches
  BY <1>3 DEF OneActivePerOrder, RefundIsBacked, PreviewsSound, NoOrphanAction,
     AuditTellsOutcome, NeverMismatches, RefundsOf
<1>6. StampInv
  BY <1>3 DEF StampInv, CompletedIsLatest
<1>7. OrderPageInv /\ ServicePageInv /\ ReaderShape /\ ListInv
  BY <1>3 DEF OrderPageInv, ServicePageInv, ReaderShape, ListInv
<1> QED BY <1>4, <1>5, <1>6, <1>7 DEF CentreInv, IInv

(* Whatever is written between two SELECTs, what the reader holds of the   *)
(* tables is as CentreInv says.                                            *)
THEOREM CentreInvariant == CentreSpec => []CentreInv
<1>1. CentreInit => CentreInv
  BY CentreInitInv, ServiceAssumption, LedgerAssumption
<1>2. CentreInv /\ [CentreNext]_centreVars => CentreInv'
  <2> SUFFICES ASSUME CentreInv, [CentreNext]_centreVars
               PROVE  CentreInv'
    OBVIOUS
  <2>1. IInv /\ StampInv /\ OrderPageInv /\ ServicePageInv /\ ReaderShape /\ ListInv
    BY DEF CentreInv
  <2>2. [Next]_vars
    BY WriteUsesLedger
  <2>3. IInv'
    BY <2>1, <2>2, InvariantStep, LedgerAssumption
  <2>4. StampInv'
    BY <2>1, StampInvStep, ServiceAssumption, LedgerAssumption
  <2>5. OrderPageInv' /\ ServicePageInv'
    BY <2>1, DetailStep, ServiceAssumption, LedgerAssumption
  <2>6. ReaderShape' /\ ListInv'
    BY <2>1, ListStep, ServiceAssumption, LedgerAssumption
  <2> QED BY <2>3, <2>4, <2>5, <2>6 DEF CentreInv
<1> QED BY <1>1, <1>2, PTL DEF CentreSpec

(* An order page never offers a refund beside one, calls a payment         *)
(* refunded without the whole of it, or names another request as the       *)
(* latest, although its five SELECTs each see tables of their own.         *)
THEOREM DetailsAreCoherent == CentreSpec => []DetailIsCoherent
<1>1. CentreInv => DetailIsCoherent
  <2> SUFFICES ASSUME CentreInv, Shown("order", OrderReads)
               PROVE  LET d == reader.read
                      IN /\ Offered(d) => d.refunds = 0
                         /\ d.payment.status = "refunded" => d.refunds = d.payment.amount
                         /\ d.refunds > 0 => d.refund.status = "completed"
    BY DEF DetailIsCoherent
  <2>1. reader.kind = "order" /\ reader.at > 5
    BY DEF Shown, OrderReads
  <2> PICK o, n, d : o = reader.id /\ n = reader.at /\ d = reader.read
    OBVIOUS
  <2>2. OrderPage(o, n, d) /\ n \in 1..6 /\ n > 5
    BY <2>1 DEF CentreInv, OrderPageInv
  <2>3. /\ d.refunds \in Nat /\ (d.refunds > 0 => d.blocking)
        /\ d.payment.status = "refunded" => d.refunds = d.payment.amount
        /\ d.refunds > 0 => d.refund.status = "completed"
    BY <2>2 DEF OrderPage
  <2> QED BY <2>3 DEF Offered
<1> QED BY <1>1, CentreInvariant, PTL

(* The page of a request that says completed has the amount that was       *)
(* approved, and every request's page its order.                           *)
THEOREM ResultsAreTold == CentreSpec => []ServiceTellsResult
<1>1. CentreInv => ServiceTellsResult
  <2> SUFFICES ASSUME CentreInv, Shown("service", ServiceReads)
               PROVE  /\ reader.read["action"] = "completed" =>
                           reader.read["refund"] = action[reader.id].preview.amount
                      /\ reader.read["order"]
    BY DEF ServiceTellsResult
  <2>1. reader.kind = "service" /\ reader.at > 3
    BY DEF Shown, ServiceReads
  <2>2. ServicePage(reader.id, reader.at, reader.read) /\ reader.at \in 1..4
    BY <2>1 DEF CentreInv, ServicePageInv
  <2> QED BY <2>1, <2>2 DEF ServicePage
<1> QED BY <1>1, CentreInvariant, PTL

(* Who follows the cursors to the end has met every row of the view that   *)
(* was not written meanwhile, and none twice, for any page size and any    *)
(* number of rows with one stamp.                                          *)
THEOREM ListsAreComplete == CentreSpec => []PagesAreComplete
<1>1. CentreInv => PagesAreComplete
  <2> SUFFICES ASSUME CentreInv, reader.kind \in {"services", "orders"}
               PROVE  /\ \A k \in DOMAIN reader.seen : reader.seen[k] = 1
                      /\ reader.at = "done" => Untouched \subseteq DOMAIN reader.seen
    BY DEF PagesAreComplete
  <2>1. CursorInv(reader.before, reader.seen, reader.start, reader.at = "done")
    BY DEF CentreInv, ListInv
  <2> QED BY <2>1 DEF CursorInv, Untouched, Unwritten
<1> QED BY <1>1, CentreInvariant, PTL

=============================================================================
