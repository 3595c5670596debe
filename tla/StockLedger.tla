----------------------------- MODULE StockLedger -----------------------------
(***************************************************************************)
(* What the inventory tables promise, with no transactions, locks or       *)
(* workers in sight: stock is added to a product, or an order takes all    *)
(* that it needs in one step.  An order takes stock once; it is never      *)
(* taken for a part of an order, and never more than is available.         *)
(*                                                                         *)
(* StockReservation (the transaction of Repository.ReserveOrder, one SQL   *)
(* statement at a time) is shown to implement this module; OrderWorkflow,  *)
(* the services around that transaction, is built on its actions.          *)
(***************************************************************************)
EXTENDS OrderLines

VARIABLES
    available,    \* inventory.available_quantity (0 where there is no row)
    reserved,     \* inventory.reserved_quantity
    reservations  \* reservations[o][p]: quantity of the row (o, p), 0 if none

ledgerVars == <<available, reserved, reservations>>

TypeOK ==
    /\ available \in [Products -> 0 .. MaxInt]
    /\ reserved \in [Products -> 0 .. MaxInt]
    /\ reservations \in [Orders -> [Products -> Nat]]

Init ==
    /\ available = [p \in Products |-> 0]
    /\ reserved = [p \in Products |-> 0]
    /\ reservations = [o \in Orders |-> [p \in Products |-> 0]]

AddStock(p, q) ==
    /\ available[p] + q <= MaxInt
    /\ available' = [available EXCEPT ![p] = @ + q]
    /\ UNCHANGED <<reserved, reservations>>

ReserveOrder(o) ==
    /\ \A p \in ProductsOf(o) :
          /\ reservations[o][p] = 0
          /\ FirstQuantity(o, p) <= available[p]
          /\ reserved[p] + FirstQuantity(o, p) <= MaxInt
    /\ available' = [p \in Products |->
          IF p \in ProductsOf(o) THEN available[p] - FirstQuantity(o, p)
                                 ELSE available[p]]
    /\ reserved' = [p \in Products |->
          IF p \in ProductsOf(o) THEN reserved[p] + FirstQuantity(o, p)
                                 ELSE reserved[p]]
    /\ reservations' = [reservations EXCEPT ![o] = [p \in Products |->
          IF p \in ProductsOf(o) THEN FirstQuantity(o, p) ELSE @[p]]]

Next ==
    \/ \E p \in Products, q \in 1 .. MaxInt : AddStock(p, q)
    \/ \E o \in Orders : ReserveOrder(o)

Spec == Init /\ [][Next]_ledgerVars

-----------------------------------------------------------------------------
(***************************************************************************)
(* ReservedIsSum: reserved_quantity of a product is the sum of the         *)
(* quantities of its rows in table reservations, in whatever order they    *)
(* are added up.  n is the number of orders.                               *)
(***************************************************************************)
ReservedIsSum(n) ==
    \A p \in Products, list \in Listings(n) :
       IsSum(n, [i \in 1 .. n |-> reservations[list[i]][p]], reserved[p])

(***************************************************************************)
(* StockMoves: stock leaves available_quantity only for the reservation of *)
(* an order that had none of the product, by the quantity of that row; a   *)
(* row is never changed or deleted.                                        *)
(***************************************************************************)
TakenFor(o, p) ==
    /\ reservations[o][p] = 0 /\ reservations'[o][p] > 0
    /\ \A x \in Orders \ {o} : reservations'[x][p] = reservations[x][p]
    /\ available[p] = available'[p] + reservations'[o][p]
    /\ reserved'[p] = reserved[p] + reservations'[o][p]

NotTaken(p) ==
    /\ \A o \in Orders : reservations'[o][p] = reservations[o][p]
    /\ available'[p] >= available[p]
    /\ reserved'[p] = reserved[p]

StockMove == \A p \in Products : NotTaken(p) \/ \E o \in Orders : TakenFor(o, p)

StockMoves == [][StockMove]_ledgerVars
=============================================================================
