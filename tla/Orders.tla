-------------------------------- MODULE Orders --------------------------------
(***************************************************************************)
(* The base facts of a workspace: its orders with their items, packages    *)
(* and shipment, and how they get there: the order operations of           *)
(* sqlite_business.py, the seeding of catalogue scenarios                  *)
(* (demo_catalog.py) and the three scenarios a new or reset workspace      *)
(* starts with (portfolio_demo.py).                                        *)
(*                                                                         *)
(* One workspace.  Titles, prices, carriers and events are left out; what  *)
(* is paid is positive, as every price and quantity of the catalogue is.   *)
(* What refunds do to these orders is RefundLedger.                        *)
(***************************************************************************)
EXTENDS RefundRules, FiniteSetsExt, Functions

CONSTANTS
  Numbers,     \* public order numbers
  Skus, Boxes, \* article numbers and package ids, upper case
  Catalogue,   \* scenario id -> [number, status, items, packages]
  Requests,    \* pairs of an administrator and a client request id
  Days,        \* times
  MaxPieces    \* pieces of an article in an order: 99

NoScenario == "none"   \* demo_scenario_id IS NULL
Keys       == {"refundable_delay", "quality_issue", "expired_refund"}
ByHand     == "none"   \* the command line seeds without a request

Partial(S, T) == UNION {[D -> T] : D \in SUBSET S}
Items    == Partial(Skus, 1..MaxPieces)
Packages == Partial(Boxes, [status : ShipmentStatuses, items : Items])
NoShipment == [status |-> "none", at |-> 0]
Written    == [status : ShipmentStatuses, at : Days]
Shipments  == [status : ShipmentStatuses, at : Int] \cup {NoShipment}

-----------------------------------------------------------------------------
(* Items and packages                                                      *)

\* How many pieces of an article the packages hold together.
Shipped(packages, sku) ==
  MapThenSumSet(LAMBDA b : packages[b].items[sku],
                {b \in DOMAIN packages : sku \in DOMAIN packages[b].items})

\* Packages hold only what was ordered, and no more of it.
Fits(items, packages) ==
  \A b \in DOMAIN packages : \A sku \in DOMAIN packages[b].items :
    sku \in DOMAIN items /\ Shipped(packages, sku) <= items[sku]

\* The one status that stands for all packages.
Summary(packages) ==
  LET is == {packages[b].status : b \in DOMAIN packages}
  IN  IF is = {} THEN "none"
      ELSE IF is = {"delivered"} THEN "delivered"
      ELSE IF is = {"preparing"} THEN "preparing"
      ELSE "in_transit"

SummaryAt(packages, now) ==
  IF DOMAIN packages = {} THEN NoShipment ELSE [status |-> Summary(packages), at |-> now]

\* Whether new items count as a change: they are compared, in the order given, with
\* the rows in the order of their articles.
ItemsChanged(old, new, sorted) == old # new \/ ~sorted

-----------------------------------------------------------------------------
(* The three scenarios of a workspace                                      *)

\* portfolio-demo-v1.json: the status of the order and of its shipment, and how many
\* days ago the shipment last changed when the data is written.
Definition(key) ==
  IF key = "refundable_delay"
  THEN [status |-> "processing", shipment |-> "preparing", age |-> 7]
  ELSE [status |-> "delivered", shipment |-> "delivered",
        age |-> IF key = "quality_issue" THEN 2 ELSE 20]

\* All items in one package, which has the number of the order.
PortfolioOrder(key, items, box, now) ==
  [status   |-> Definition(key).status,
   scenario |-> key,
   items    |-> items,
   packages |-> [b \in {box} |-> [status |-> Definition(key).shipment, items |-> items]],
   shipment |-> [status |-> Definition(key).shipment, at |-> now - Definition(key).age],
   seeded   |-> TRUE]

\* An order seeded from the catalogue, and the one a guest is shown of it.
SeededOrder(s, now) ==
  [status   |-> Catalogue[s].status,
   scenario |-> s,
   items    |-> Catalogue[s].items,
   packages |-> Catalogue[s].packages,
   shipment |-> SummaryAt(Catalogue[s].packages, now),
   seeded   |-> TRUE]

GuestTime == 0
GuestOrder(s) == [SeededOrder(s, GuestTime) EXCEPT !.seeded = FALSE]

\* What the refund rules are asked about an order that was not refunded yet.
ContextOf(o, paid, payment, channel) ==
  [order_status |-> o.status, shipment_status |-> o.shipment.status,
   shipment_updated_at |-> o.shipment.at, payment_status |-> payment,
   paid |-> paid, channel |-> channel, refunded |-> 0, conflicting |-> FALSE]

-----------------------------------------------------------------------------
VARIABLES
  orders,    \* function from the numbers in use to the rows
  paid,      \* numbers with a payment
  answered,  \* seed requests: function from requests to [scenario, number]
  seeding    \* seeds that have looked and not written yet

vars == <<orders, paid, answered, seeding>>

Scenarios == Keys \cup DOMAIN Catalogue

\* validate_references: every scenario is an order whose packages fit its items.
ValidCatalogue ==
  \A s \in DOMAIN Catalogue :
    /\ s \notin Keys \cup {NoScenario}
    /\ Catalogue[s] \in [number : Numbers, status : OrderStatuses, items : Items,
                        packages : Packages]
    /\ Fits(Catalogue[s].items, Catalogue[s].packages)
    /\ \A z \in DOMAIN Catalogue : Catalogue[z].number = Catalogue[s].number => z = s

Order == [status : OrderStatuses, scenario : Scenarios \cup {NoScenario},
          items : Items, packages : Packages, shipment : Shipments, seeded : BOOLEAN]

With(n, o) == [m \in DOMAIN orders \cup {n} |-> IF m = n THEN o ELSE orders[m]]

Of(s) == {n \in DOMAIN orders : orders[n].scenario = s}

\* uq_orders_workspace_order and uq_orders_workspace_demo_scenario
Insertable(n, s) == n \notin DOMAIN orders /\ (s = NoScenario \/ Of(s) = {})

-----------------------------------------------------------------------------
(* Order operations                                                        *)

\* create_order: the shipment given, or the summary of the packages.
CreateOrder(n, status, s, items, packages, given, now) ==
  /\ Fits(items, packages) /\ Insertable(n, s)
  /\ orders' = With(n,
       [status |-> status, scenario |-> s, items |-> items, packages |-> packages,
        shipment |-> IF given # NoShipment THEN given ELSE SummaryAt(packages, now),
        seeded |-> FALSE])
  /\ UNCHANGED <<paid, answered, seeding>>

\* update_order: another status; the shipment written or removed; new items, which
\* take the packages away but not the shipment that summed them up.
UpdateOrder(n, status, shipment, items, sorted) ==
  /\ n \in DOMAIN orders
  /\ orders' = [orders EXCEPT ![n] =
       IF ItemsChanged(@.items, items, sorted)
       THEN [@ EXCEPT !.status = status, !.shipment = shipment,
                      !.items = items, !.packages = <<>>]
       ELSE [@ EXCEPT !.status = status, !.shipment = shipment]]
  /\ UNCHANGED <<paid, answered, seeding>>

DeleteOrder(n) ==
  /\ n \in DOMAIN orders \ paid
  /\ orders' = [m \in DOMAIN orders \ {n} |-> orders[m]]
  /\ UNCHANGED <<paid, answered, seeding>>

Pay(n) ==
  /\ n \in DOMAIN orders \ paid
  /\ paid' = paid \cup {n}
  /\ UNCHANGED <<orders, answered, seeding>>

-----------------------------------------------------------------------------
(* Seeding                                                                 *)

\* A request that was answered is answered again, for its own scenario; any other
\* looks for the order of the scenario ...
SeedLook(r, s) ==
  /\ r \notin DOMAIN answered
  /\ seeding' = seeding \cup {[request |-> r, scenario |-> s, found |-> Of(s)]}
  /\ UNCHANGED <<orders, paid, answered>>

Answers(p, n) ==
  IF p.request = ByHand THEN answered
  ELSE [r \in DOMAIN answered \cup {p.request} |->
          IF r = p.request THEN [scenario |-> p.scenario, number |-> n] ELSE answered[r]]

\* ... and writes the answer, with the order and its payment unless it found one; an
\* index that does not allow it rolls everything back.
SeedWrite(p, now) ==
  LET n == Catalogue[p.scenario].number
  IN /\ p \in seeding /\ seeding' = seeding \ {p}
     /\ \/ /\ p.found # {} /\ p.request \notin DOMAIN answered
           /\ \E m \in p.found : answered' = Answers(p, m)
           /\ UNCHANGED <<orders, paid>>
        \/ /\ p.found = {} /\ p.request \notin DOMAIN answered
           /\ Insertable(n, p.scenario)
           /\ orders' = With(n, SeededOrder(p.scenario, now))
           /\ paid' = paid \cup {n}
           /\ answered' = Answers(p, n)
        \/ UNCHANGED <<orders, paid, answered>>

\* register and the last transaction of a reset: the three scenarios and nothing else.
Baseline(number, items, box, now) ==
  [n \in {number[k] : k \in Keys} |->
     LET k == CHOOSE key \in Keys : number[key] = n
     IN  PortfolioOrder(k, items[k], box[k], now)]

Fresh ==
  \E number \in Injection(Keys, Numbers), items \in [Keys -> Items], box \in [Keys -> Boxes],
     now \in Days :
    /\ orders' = Baseline(number, items, box, now)
    /\ paid' = DOMAIN orders'

ResetOrders ==
  /\ Fresh
  /\ answered' = <<>>
  /\ UNCHANGED seeding

-----------------------------------------------------------------------------
\* An account of an earlier release, whose workspace is empty; a new one goes on as
\* after a reset.
Init == orders = <<>> /\ paid = {} /\ answered = <<>> /\ seeding = {}

Next ==
  \/ \E n \in Numbers, status \in OrderStatuses, s \in Scenarios \cup {NoScenario},
        items \in Items, packages \in Packages, given \in Written \cup {NoShipment},
        now \in Days : CreateOrder(n, status, s, items, packages, given, now)
  \/ \E n \in DOMAIN orders :
       \E status \in OrderStatuses, items \in Items, sorted \in BOOLEAN,
          shipment \in Written \cup {NoShipment, orders[n].shipment} :
         UpdateOrder(n, status, shipment, items, sorted)
  \/ \E n \in Numbers : DeleteOrder(n) \/ Pay(n)
  \/ \E r \in Requests \cup {ByHand}, s \in DOMAIN Catalogue : SeedLook(r, s)
  \/ \E p \in seeding, now \in Days : SeedWrite(p, now)
  \/ ResetOrders

Spec == Init /\ [][Next]_vars

-----------------------------------------------------------------------------
\* No operation, in whatever order, leaves a package that holds what its order does
\* not, or more of it (the packages of items that are replaced are replaced with them).
PackagesFit == \A n \in DOMAIN orders : Fits(orders[n].items, orders[n].packages)

\* Seeds that compete with each other, with orders created by hand and with resets
\* leave a scenario in a workspace once.
ScenarioOnce ==
  \A m, n \in DOMAIN orders :
    orders[m].scenario = orders[n].scenario /\ orders[m].scenario # NoScenario => m = n

\* A seeded order has its payment, which is what keeps it from being deleted.
SeededArePaid ==
  paid \subseteq DOMAIN orders /\ \A n \in DOMAIN orders : orders[n].seeded => n \in paid

\* Only a reset takes a seeded order away or gives its number to another scenario.
SeededStay ==
  [][\/ ResetOrders
     \/ \A n \in DOMAIN orders : orders[n].seeded =>
          n \in DOMAIN orders' /\ orders'[n].scenario = orders[n].scenario]_vars

\* What a seed request was answered it is answered again, until a reset.
AnswersStay ==
  [][\/ ResetOrders
     \/ \A r \in DOMAIN answered :
          r \in DOMAIN answered' /\ answered'[r] = answered[r]]_vars
=============================================================================
