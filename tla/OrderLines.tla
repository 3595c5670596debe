----------------------------- MODULE OrderLines ------------------------------
(***************************************************************************)
(* The lines of the orders, as the inventory service reads them from the   *)
(* OrderCreated payload: constants of the specifications about stock.      *)
(***************************************************************************)
EXTENDS Naturals, Sequences

CONSTANTS
    Orders,    \* order ids
    Products,  \* product ids
    ItemsOf,   \* the lines of each order, in the order they were submitted
    MaxInt     \* the largest value of the two INT columns of table inventory

(***************************************************************************)
(* The order service rejects a line whose quantity is not positive.  A     *)
(* payload with no lines at all does reach the inventory service.          *)
(***************************************************************************)
ASSUME ItemsAssumption ==
    ItemsOf \in [Orders -> Seq([product : Products, quantity : Nat \ {0}])]

ASSUME MaxIntAssumption == MaxInt \in Nat

Lines(o) == 1 .. Len(ItemsOf[o])

ProductsOf(o) == {ItemsOf[o][i].product : i \in Lines(o)}

(***************************************************************************)
(* The line of o that decides how much of p is taken: the first one that   *)
(* names p.  The loop of ReserveOrder skips a later line of the same       *)
(* product, because it finds the row its own transaction inserted.         *)
(***************************************************************************)
IsFirstLine(o, p, i) ==
    /\ i \in Lines(o)
    /\ ItemsOf[o][i].product = p
    /\ \A j \in Lines(o) : j < i => ItemsOf[o][j].product # p

FirstQuantity(o, p) ==
    ItemsOf[o][CHOOSE i \in Lines(o) : IsFirstLine(o, p, i)].quantity

(***************************************************************************)
(* Sums, with their running totals as witness: t = f[1] + ... + f[n].      *)
(* Listings: the ways to go through n orders, each of them once.           *)
(***************************************************************************)
IsSum(n, f, t) ==
    \E total \in [0 .. n -> 0 .. t] :
       /\ total[0] = 0
       /\ total[n] = t
       /\ \A i \in 1 .. n : total[i] = total[i - 1] + f[i]

Listings(n) ==
    {list \in [1 .. n -> Orders] :
        /\ \A i, j \in DOMAIN list : list[i] = list[j] => i = j
        /\ \A o \in Orders : \E i \in DOMAIN list : list[i] = o}
=============================================================================
