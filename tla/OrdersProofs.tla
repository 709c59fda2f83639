------------------------------ MODULE OrdersProofs ------------------------------
(***************************************************************************)
(* What seeding, order operations and resets keep, and what the scenarios  *)
(* of the portfolio are to the refund rules, for every catalogue.          *)
(***************************************************************************)
EXTENDS Orders, TLAPS

-----------------------------------------------------------------------------
(* The shipment that stands for the packages                               *)

Rank(status) == IF status = "preparing" THEN 0 ELSE IF status = "in_transit" THEN 1 ELSE 2

(* When one package goes on, the status that sums the packages up never    *)
(* goes back (_package_shipment_summary, _aggregate_packages).             *)
THEOREM SummaryAdvances ==
  ASSUME NEW packages, NEW b \in DOMAIN packages, NEW status \in ShipmentStatuses,
         \A c \in DOMAIN packages : packages[c].status \in ShipmentStatuses,
         Rank(packages[b].status) <= Rank(status),
         NEW later, DOMAIN later = DOMAIN packages, later[b].status = status,
         \A c \in DOMAIN packages \ {b} : later[c].status = packages[c].status
  PROVE  Rank(Summary(packages)) <= Rank(Summary(later))
<1> DEFINE S == {packages[c].status : c \in DOMAIN packages}
           T == {later[c].status : c \in DOMAIN packages}
<1>1. /\ S # {} /\ T # {} /\ S \subseteq ShipmentStatuses /\ T \subseteq ShipmentStatuses
      /\ packages[b].status \in S /\ status \in T
  OBVIOUS
<1>2. /\ T \subseteq S \cup {status}
      /\ S \subseteq T \cup {packages[b].status}
  OBVIOUS
<1>3. Summary(packages) = IF S = {"delivered"} THEN "delivered"
                          ELSE IF S = {"preparing"} THEN "preparing" ELSE "in_transit"
  BY <1>1 DEF Summary
<1>4. Summary(later) = IF T = {"delivered"} THEN "delivered"
                       ELSE IF T = {"preparing"} THEN "preparing" ELSE "in_transit"
  BY <1>1 DEF Summary
<1>5. CASE S = {"delivered"}
  <2>1. status = "delivered"
    BY <1>1, <1>5 DEF Rank, ShipmentStatuses
  <2>2. T = {"delivered"}
    BY <2>1, <1>1, <1>2, <1>5
  <2> HIDE DEF S, T
  <2> QED BY <1>3, <1>4, <1>5, <2>2 DEF Rank
<1>6. CASE S = {"preparing"}
  <2> HIDE DEF S, T
  <2> QED BY <1>3, <1>4, <1>6 DEF Rank
<1>7. CASE S # {"delivered"} /\ S # {"preparing"}
  <2>1. T # {"preparing"}
    <3> SUFFICES ASSUME T = {"preparing"} PROVE FALSE
      OBVIOUS
    <3>1. status = "preparing"
      BY <1>1
    <3>2. packages[b].status = "preparing"
      BY <3>1, <1>1 DEF Rank, ShipmentStatuses
    <3>3. S \subseteq {"preparing"}
      BY <1>2, <3>2
    <3> HIDE DEF S, T
    <3> QED BY <3>3, <1>1, <1>7
  <2> HIDE DEF S, T
  <2> QED BY <1>3, <1>4, <1>7, <2>1 DEF Rank
<1> QED BY <1>5, <1>6, <1>7

-----------------------------------------------------------------------------
(* The three scenarios                                                     *)

(* docs/specs/v2.0-interview-ready-agent-product.md:143-145: for as long   *)
(* as a workspace is not reset, the delayed order is one the rules refund  *)
(* and the expired one is refused for its window; the quality issue is one *)
(* for the return flow, but only for the five days its window is open.     *)
THEOREM PortfolioIsAsTold ==
  ASSUME NEW at \in Int, NEW now \in Int, at <= now, NEW items, NEW box,
         NEW paid0 \in Nat, paid0 > 0, NEW channel \in Channels
  PROVE  LET judged(key) == AssessRefund(ContextOf(PortfolioOrder(key, items, box, at),
                                                   paid0, "settled", channel), now, FactIds)
         IN /\ judged("refundable_delay") = "refund_eligible"
            /\ judged("quality_issue") = IF now - at <= 5 THEN "refund_requires_return_flow"
                                                         ELSE "refund_window_expired"
            /\ judged("expired_refund") = "refund_window_expired"
<1> DEFINE c(key) == ContextOf(PortfolioOrder(key, items, box, at), paid0, "settled", channel)
<1>1. ASSUME NEW key \in Keys
      PROVE  /\ RequiredFacts(c(key)) \subseteq FactIds
             /\ c(key).order_status = Definition(key).status
             /\ c(key).shipment_status = Definition(key).shipment
             /\ c(key).shipment_updated_at = at - Definition(key).age
             /\ c(key).payment_status = "settled" /\ c(key).channel = channel
             /\ ~c(key).conflicting /\ ~BalanceIsZero(c(key)) /\ ~NotSettled(c(key))
  BY DEF ContextOf, PortfolioOrder, RequiredFacts, FactIds, BalanceIsZero, NotSettled, Refundable
<1>2. channel # "none" /\ "none" # "settled"
  BY DEF Channels
<1>3. AssessRefund(c("refundable_delay"), now, FactIds) = "refund_eligible"
  BY <1>1, <1>2 DEF Keys, Definition, AssessRefund, FactsContradict, WindowExpired, NeedsReturnFlow
<1>4. AssessRefund(c("quality_issue"), now, FactIds) =
        IF now - at <= 5 THEN "refund_requires_return_flow" ELSE "refund_window_expired"
  BY <1>1, <1>2
     DEF Keys, Definition, AssessRefund, FactsContradict, WindowExpired, NeedsReturnFlow, WindowDays
<1>5. AssessRefund(c("expired_refund"), now, FactIds) = "refund_window_expired"
  BY <1>1, <1>2
     DEF Keys, Definition, AssessRefund, FactsContradict, WindowExpired, WindowDays
<1> QED BY <1>3, <1>4, <1>5

-----------------------------------------------------------------------------
(* Packages hold what was ordered                                          *)

(* One package with everything in it holds exactly what was ordered.       *)
LEMMA OneBoxFits ==
  ASSUME NEW items \in Items, NEW box, NEW status
  PROVE  Fits(items, [b \in {box} |-> [status |-> status, items |-> items]])
<1> DEFINE P == [b \in {box} |-> [status |-> status, items |-> items]]
<1>1. SUFFICES ASSUME NEW sku \in DOMAIN items
               PROVE  Shipped(P, sku) = items[sku] /\ items[sku] \in Int
  BY DEF Fits
<1>2. items[sku] \in Int
  BY DEF Items, Partial
<1> DEFINE f(b) == P[b].items[sku]
           Body(iter) == [s \in SUBSET {box} |->
                            IF s = {} THEN 0
                            ELSE LET x == CHOOSE x \in s : TRUE IN f(x) + iter[s \ {x}]]
           g == [s \in SUBSET {box} |-> IF s = {} THEN 0 ELSE items[sku]]
           h == CHOOSE iter : iter = Body(iter)
<1>3. f(box) = items[sku]
  OBVIOUS
<1>4. (CHOOSE x \in {box} : TRUE) = box
  OBVIOUS
<1>5. SUBSET {box} = {{}, {box}} /\ {box} # {}
  OBVIOUS
<1>6. g = Body(g)
  <2>1. ASSUME NEW s \in SUBSET {box}
        PROVE  g[s] = IF s = {} THEN 0
                      ELSE LET x == CHOOSE x \in s : TRUE IN f(x) + g[s \ {x}]
    <3>1. CASE s = {}
      BY <3>1
    <3>2. CASE s = {box}
      <4>1. g[{box} \ {box}] = 0
        BY <1>5
      <4> HIDE DEF f
      <4> QED BY <3>2, <4>1, <1>2, <1>3, <1>4, <1>5
    <3> QED BY <3>1, <3>2, <1>5
  <2> HIDE DEF f
  <2> QED BY <2>1
<1>7. h = Body(h)
  <2> HIDE DEF g, Body
  <2> QED BY <1>6
<1>8. h[{}] = 0
  <2> HIDE DEF h, f
  <2> QED BY <1>7, <1>5
<1>9. h[{box}] = items[sku]
  <2>1. h[{box}] = f(box) + h[{box} \ {box}]
    <3> HIDE DEF h, f
    <3> QED BY <1>7, <1>5, <1>4
  <2>2. h[{box} \ {box}] = 0
    <3> HIDE DEF h
    <3> QED BY <1>8
  <2> HIDE DEF h, f, g, Body, P
  <2> QED BY <2>1, <2>2, <1>2, <1>3
<1>10. {b \in DOMAIN P : sku \in DOMAIN P[b].items} = {box}
  OBVIOUS
<1>11. Shipped(P, sku) = h[{box}]
  <2> HIDE DEF P
  <2> QED BY <1>10 DEF Shipped, MapThenSumSet, MapThenFoldSet
<1> QED BY <1>2, <1>9, <1>11

-----------------------------------------------------------------------------
(* The invariant                                                           *)

TypeOK ==
  /\ DOMAIN orders \subseteq Numbers /\ orders \in [DOMAIN orders -> Order]
  /\ paid \subseteq DOMAIN orders
  /\ seeding \subseteq [request : Requests \cup {ByHand}, scenario : DOMAIN Catalogue,
                        found : SUBSET Numbers]

IInv == TypeOK /\ PackagesFit /\ ScenarioOnce /\ SeededArePaid

(* What is assumed of the constants: a catalogue that was validated when   *)
(* it was loaded, and times that can be compared.                          *)
Assumed == ValidCatalogue /\ Days \subseteq Int

(* A row that is added under both indexes keeps the invariant.             *)
LEMMA Inserted ==
  ASSUME IInv, NEW n \in Numbers, NEW o \in Order, Insertable(n, o.scenario),
         Fits(o.items, o.packages), orders' = With(n, o), paid' \in {paid, paid \cup {n}},
         o.seeded => paid' = paid \cup {n}
  PROVE  /\ DOMAIN orders' \subseteq Numbers
         /\ orders' \in [DOMAIN orders' -> Order] /\ paid' \subseteq DOMAIN orders'
         /\ PackagesFit' /\ ScenarioOnce' /\ SeededArePaid'
<1>1. /\ DOMAIN orders' = DOMAIN orders \cup {n}
      /\ orders'[n] = o
      /\ \A m \in DOMAIN orders : m # n /\ orders'[m] = orders[m]
  BY DEF With, Insertable
<1>2. /\ DOMAIN orders' \subseteq Numbers
      /\ orders' \in [DOMAIN orders' -> Order] /\ paid' \subseteq DOMAIN orders'
  BY <1>1 DEF IInv, TypeOK, With
<1>3. PackagesFit'
  BY <1>1 DEF IInv, PackagesFit
<1>4. ScenarioOnce'
  BY <1>1 DEF IInv, ScenarioOnce, Insertable, Of
<1>5. SeededArePaid'
  BY <1>1, <1>2 DEF IInv, SeededArePaid
<1> QED BY <1>2, <1>3, <1>4, <1>5

(* The three scenarios as they are written by a reset.                     *)
LEMMA FreshKeeps ==
  ASSUME Assumed, Fresh
  PROVE  /\ DOMAIN orders' \subseteq Numbers
         /\ orders' \in [DOMAIN orders' -> Order] /\ paid' = DOMAIN orders'
         /\ PackagesFit' /\ ScenarioOnce' /\ SeededArePaid'
<1>1. PICK number \in Injection(Keys, Numbers), items \in [Keys -> Items],
           box \in [Keys -> Boxes], now \in Days :
         orders' = Baseline(number, items, box, now) /\ paid' = DOMAIN orders'
  BY DEF Fresh
<1>2. ASSUME NEW n \in DOMAIN orders'
      PROVE  \E k \in Keys : n = number[k] /\ orders'[n] = PortfolioOrder(k, items[k], box[k], now)
  BY <1>1 DEF Baseline
<1>3. ASSUME NEW k \in Keys
      PROVE  LET o == PortfolioOrder(k, items[k], box[k], now)
             IN o \in Order /\ Fits(o.items, o.packages) /\ o.scenario = k /\ o.seeded
  <2>1. Fits(items[k], [b \in {box[k]} |-> [status |-> Definition(k).shipment, items |-> items[k]]])
    BY OneBoxFits
  <2>2. [b \in {box[k]} |-> [status |-> Definition(k).shipment, items |-> items[k]]] \in Packages
    <3>1. /\ {box[k]} \in SUBSET Boxes
          /\ [status |-> Definition(k).shipment, items |-> items[k]]
               \in [status : ShipmentStatuses, items : Items]
      BY DEF Definition, ShipmentStatuses
    <3>2. [b \in {box[k]} |-> [status |-> Definition(k).shipment, items |-> items[k]]]
            \in [{box[k]} -> [status : ShipmentStatuses, items : Items]]
      BY <3>1
    <3> QED BY <3>1, <3>2 DEF Packages, Partial
  <2>3. [status |-> Definition(k).shipment, at |-> now - Definition(k).age] \in Shipments
    BY DEF Assumed, Definition, Shipments, ShipmentStatuses
  <2>4. Definition(k).status \in OrderStatuses /\ k \in Scenarios
    BY DEF Definition, OrderStatuses, Scenarios
  <2> HIDE DEF Definition
  <2> QED BY <2>1, <2>2, <2>3, <2>4 DEF PortfolioOrder, Order
<1>4. DOMAIN orders' \subseteq Numbers /\ orders' \in [DOMAIN orders' -> Order]
  BY <1>1, <1>2, <1>3 DEF Baseline, Injection
<1>5. ScenarioOnce'
  BY <1>2, <1>3 DEF ScenarioOnce
<1>6. PackagesFit' /\ SeededArePaid'
  BY <1>1, <1>2, <1>3 DEF PackagesFit, SeededArePaid
<1> QED BY <1>1, <1>4, <1>5, <1>6

(* What sums up packages is a shipment.                                    *)
LEMMA SummaryIsShipment ==
  ASSUME NEW packages, NEW now \in Int
  PROVE  SummaryAt(packages, now) \in Shipments
<1>1. CASE DOMAIN packages = {}
  BY <1>1 DEF SummaryAt, Shipments
<1>2. CASE DOMAIN packages # {}
  <2>1. Summary(packages) \in ShipmentStatuses
    BY <1>2 DEF Summary, ShipmentStatuses
  <2> QED BY <1>2, <2>1 DEF SummaryAt, Shipments
<1> QED BY <1>1, <1>2

(* An order of the catalogue is a row of the table.                        *)
LEMMA SeededIsOrder ==
  ASSUME Assumed, NEW s \in DOMAIN Catalogue, NEW now \in Days
  PROVE  /\ SeededOrder(s, now) \in Order /\ SeededOrder(s, now).scenario = s
         /\ SeededOrder(s, now).seeded /\ Catalogue[s].number \in Numbers
         /\ Fits(SeededOrder(s, now).items, SeededOrder(s, now).packages)
<1>1. SummaryAt(Catalogue[s].packages, now) \in Shipments
  BY SummaryIsShipment DEF Assumed
<1> QED BY <1>1 DEF SeededOrder, Order, Assumed, ValidCatalogue, Scenarios

LEMMA InitKeeps ==
  Init => IInv
<1> SUFFICES ASSUME Init PROVE IInv
  OBVIOUS
<1>1. DOMAIN orders = {} /\ orders \in [{} -> Order]
  BY DEF Init
<1> QED BY <1>1 DEF Init, IInv, TypeOK, PackagesFit, ScenarioOnce, SeededArePaid

LEMMA NextKeeps ==
  ASSUME Assumed, IInv, [Next]_vars
  PROVE  IInv'
<1>1. ASSUME NEW n \in Numbers, NEW status \in OrderStatuses,
             NEW s \in Scenarios \cup {NoScenario}, NEW items \in Items,
             NEW packages \in Packages, NEW given \in Written \cup {NoShipment},
             NEW now \in Days, CreateOrder(n, status, s, items, packages, given, now)
      PROVE  IInv'
  <2> DEFINE shipment == IF given # NoShipment THEN given ELSE SummaryAt(packages, now)
             o == [status |-> status, scenario |-> s, items |-> items, packages |-> packages,
                   shipment |-> shipment, seeded |-> FALSE]
  <2>1. shipment \in Shipments
    <3>1. CASE given # NoShipment
      BY <3>1 DEF Written, Shipments, Assumed
    <3>2. CASE given = NoShipment
      BY <3>2, SummaryIsShipment DEF Assumed
    <3> QED BY <3>1, <3>2
  <2> HIDE DEF shipment
  <2>2. o \in Order
    BY <2>1 DEF Order
  <2>3. /\ orders' = With(n, o) /\ paid' = paid /\ seeding' = seeding
        /\ Insertable(n, o.scenario) /\ Fits(o.items, o.packages) /\ ~o.seeded
    BY <1>1 DEF CreateOrder, shipment
  <2> HIDE DEF o
  <2> QED BY <2>2, <2>3, Inserted DEF IInv, TypeOK
<1>2. ASSUME NEW n \in DOMAIN orders, NEW status \in OrderStatuses, NEW items \in Items,
             NEW sorted \in BOOLEAN,
             NEW shipment \in Written \cup {NoShipment, orders[n].shipment},
             UpdateOrder(n, status, shipment, items, sorted)
      PROVE  IInv'
  <2>1. shipment \in Shipments /\ orders[n] \in Order
    BY DEF Written, Shipments, Assumed, IInv, TypeOK, Order
  <2>2. <<>> \in Packages /\ DOMAIN <<>> = {}
    BY DEF Packages, Partial
  <2>3. PICK o \in Order :
          /\ orders' = [orders EXCEPT ![n] = o]
          /\ o.scenario = orders[n].scenario /\ o.seeded = orders[n].seeded
          /\ Fits(orders[n].items, orders[n].packages) => Fits(o.items, o.packages)
    <3>1. CASE ItemsChanged(orders[n].items, items, sorted)
      <4> DEFINE o == [orders[n] EXCEPT !.status = status, !.shipment = shipment,
                                        !.items = items, !.packages = <<>>]
      <4>1. o \in Order /\ o.scenario = orders[n].scenario /\ o.seeded = orders[n].seeded
            /\ o.packages = <<>>
        BY <2>1, <2>2 DEF Order
      <4>2. Fits(o.items, o.packages)
        BY <4>1, <2>2 DEF Fits
      <4> QED BY <1>2, <3>1, <4>1, <4>2 DEF UpdateOrder
    <3>2. CASE ~ItemsChanged(orders[n].items, items, sorted)
      <4> DEFINE o == [orders[n] EXCEPT !.status = status, !.shipment = shipment]
      <4>1. o \in Order /\ o.scenario = orders[n].scenario /\ o.seeded = orders[n].seeded
            /\ o.packages = orders[n].packages /\ o.items = orders[n].items
        BY <2>1 DEF Order
      <4> QED BY <1>2, <3>2, <4>1 DEF UpdateOrder
    <3> QED BY <3>1, <3>2
  <2>4. paid' = paid /\ seeding' = seeding
    BY <1>2 DEF UpdateOrder
  <2> QED BY <2>3, <2>4 DEF IInv, TypeOK, PackagesFit, ScenarioOnce, SeededArePaid
<1>3. ASSUME NEW n \in Numbers, DeleteOrder(n)
      PROVE  IInv'
  BY <1>3 DEF DeleteOrder, IInv, TypeOK, PackagesFit, ScenarioOnce, SeededArePaid
<1>4. ASSUME NEW n \in Numbers, Pay(n)
      PROVE  IInv'
  BY <1>4 DEF Pay, IInv, TypeOK, PackagesFit, ScenarioOnce, SeededArePaid
<1>5. ASSUME NEW r \in Requests \cup {ByHand}, NEW s \in DOMAIN Catalogue, SeedLook(r, s)
      PROVE  IInv'
  BY <1>5 DEF SeedLook, Of, IInv, TypeOK, PackagesFit, ScenarioOnce, SeededArePaid
<1>6. ASSUME NEW p \in seeding, NEW now \in Days, SeedWrite(p, now)
      PROVE  IInv'
  <2>1. p.scenario \in DOMAIN Catalogue
    BY DEF IInv, TypeOK
  <2>2. CASE orders' = orders /\ paid' = paid
    BY <1>6, <2>2 DEF SeedWrite, IInv, TypeOK, PackagesFit, ScenarioOnce, SeededArePaid
  <2>3. CASE /\ Insertable(Catalogue[p.scenario].number, p.scenario)
             /\ orders' = With(Catalogue[p.scenario].number, SeededOrder(p.scenario, now))
             /\ paid' = paid \cup {Catalogue[p.scenario].number}
    BY <1>6, <2>1, <2>3, SeededIsOrder, Inserted DEF SeedWrite, IInv, TypeOK
  <2> QED BY <1>6, <2>2, <2>3 DEF SeedWrite
<1>7. CASE ResetOrders
  BY <1>7, FreshKeeps DEF ResetOrders, IInv, TypeOK
<1>8. CASE UNCHANGED vars
  BY <1>8 DEF vars, IInv, TypeOK, PackagesFit, ScenarioOnce, SeededArePaid
<1> QED BY <1>1, <1>2, <1>3, <1>4, <1>5, <1>6, <1>7, <1>8 DEF Next

(* However orders are created, changed, deleted, paid and seeded, and      *)
(* whenever the workspace is reset: packages hold what was ordered, a      *)
(* scenario is there once, and a seeded order is paid.                     *)
THEOREM OrdersInvariant ==
  ASSUME Assumed
  PROVE  Spec => [](PackagesFit /\ ScenarioOnce /\ SeededArePaid)
<1>1. IInv => PackagesFit /\ ScenarioOnce /\ SeededArePaid
  BY DEF IInv
<1>2. IInv /\ [Next]_vars => IInv'
  BY NextKeeps
<1> QED BY InitKeeps, <1>1, <1>2, PTL DEF Spec

(* A seeded order is not deleted, because it has its payment, and keeps    *)
(* its scenario, until a reset.                                            *)
THEOREM SeededOrdersStay ==
  ASSUME Assumed
  PROVE  Spec => SeededStay
<1> DEFINE Stay == \A n \in DOMAIN orders : orders[n].seeded =>
                     n \in DOMAIN orders' /\ orders'[n].scenario = orders[n].scenario
<1>1. ASSUME IInv, [Next]_vars PROVE ResetOrders \/ Stay \/ UNCHANGED vars
  <2>1. ASSUME NEW n \in Numbers, DeleteOrder(n) PROVE Stay
    BY <1>1, <2>1 DEF DeleteOrder, IInv, SeededArePaid
  <2>2. ASSUME NEW n \in DOMAIN orders, NEW status, NEW shipment, NEW items, NEW sorted,
               UpdateOrder(n, status, shipment, items, sorted)
        PROVE  Stay
    <3>1. orders[n] \in Order
      BY <1>1 DEF IInv, TypeOK
    <3>2. DOMAIN orders' = DOMAIN orders /\ orders'[n].scenario = orders[n].scenario
          /\ \A m \in DOMAIN orders \ {n} : orders'[m] = orders[m]
      BY <2>2, <3>1 DEF UpdateOrder, Order
    <3> QED BY <3>2
  <2>3. ASSUME NEW n, NEW o, orders' = With(n, o), n \notin DOMAIN orders PROVE Stay
    BY <2>3 DEF With
  <2>4. ASSUME orders' = orders PROVE Stay
    BY <2>4
  <2>5. ASSUME NEW p \in seeding, NEW now \in Days, SeedWrite(p, now) PROVE Stay
    BY <2>3, <2>4, <2>5 DEF SeedWrite, Insertable
  <2> HIDE DEF Stay
  <2> QED BY <1>1, <2>1, <2>2, <2>3, <2>4, <2>5
          DEF Next, CreateOrder, Insertable, Pay, SeedLook, vars
<1>2. [Next]_vars /\ IInv => IInv'
  BY NextKeeps
<1>3. [Next]_vars /\ IInv => [ResetOrders \/ Stay]_vars
  BY <1>1
<1> QED BY InitKeeps, <1>2, <1>3, PTL DEF Spec, SeededStay

(* What a seed request was answered stays its answer until a reset.        *)
THEOREM AnswersAreKept ==
  Spec => AnswersStay
<1> DEFINE Kept == \A r \in DOMAIN answered :
                     r \in DOMAIN answered' /\ answered'[r] = answered[r]
<1>1. [Next]_vars => [ResetOrders \/ Kept]_vars
  <2> SUFFICES ASSUME [Next]_vars PROVE ResetOrders \/ Kept \/ UNCHANGED vars
    OBVIOUS
  <2>1. ASSUME NEW p \in seeding, NEW now \in Days, SeedWrite(p, now) PROVE Kept
    BY <2>1 DEF SeedWrite, Answers
  <2>2. ASSUME answered' = answered PROVE Kept
    BY <2>2
  <2> HIDE DEF Kept
  <2> QED BY <2>1, <2>2 DEF Next, CreateOrder, UpdateOrder, DeleteOrder, Pay, SeedLook, vars
<1> QED BY <1>1, PTL DEF Spec, AnswersStay
=============================================================================
