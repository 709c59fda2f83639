---------------------------- MODULE RefundPromise ----------------------------
(***************************************************************************)
(* What the refund ledger promises a customer, without its tables: for     *)
(* each order at most one request is open, a request is opened once, only  *)
(* the open request can be paid, paying closes it, and an order that has   *)
(* been paid back is never reopened nor paid again.                        *)
(***************************************************************************)
CONSTANTS Orders, Actions

VARIABLES
  open,    \* order -> the requests awaiting a decision
  paid,    \* order -> the requests refunded
  used     \* every request ever opened

promise == <<open, paid, used>>

Init == /\ open = [o \in Orders |-> {}]
        /\ paid = [o \in Orders |-> {}]
        /\ used = {}

(* A new request replaces the one that was open, if any.                   *)
Open(o, a) == /\ a \notin used
              /\ paid[o] = {}
              /\ open' = [open EXCEPT ![o] = {a}]
              /\ used' = used \cup {a}
              /\ UNCHANGED paid

Close(o) == /\ open' = [open EXCEPT ![o] = {}]
            /\ UNCHANGED <<paid, used>>

Pay(o, a) == /\ open[o] = {a}
             /\ paid[o] = {}
             /\ open' = [open EXCEPT ![o] = {}]
             /\ paid' = [paid EXCEPT ![o] = {a}]
             /\ UNCHANGED used

Next == \E o \in Orders : \/ Close(o)
                          \/ \E a \in Actions : Open(o, a) \/ Pay(o, a)

Spec == Init /\ [][Next]_promise
=============================================================================
