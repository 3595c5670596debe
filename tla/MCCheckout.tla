------------------------------ MODULE MCCheckout ------------------------------
(***************************************************************************)
(* A small instance of Checkout: two clients type one address in two       *)
(* spellings, and the first of them orders.                                *)
(***************************************************************************)
EXTENDS Checkout, TLC

CONSTANTS c1, c2, u1, r1, lower, upper, reserved, p1, p2, n1, n2

MCSpelling == c1 :> upper @@ c2 :> lower
MCNormal == lower :> lower @@ upper :> lower @@ reserved :> reserved
MCPassword == c1 :> p1 @@ c2 :> p2
MCAdmin == [email |-> reserved, password |-> p1, name |-> n1, role |-> "ADMIN"]
=============================================================================
