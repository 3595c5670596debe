------------------------- MODULE MCStockReservation -------------------------
(***************************************************************************)
(* Small instances of StockReservation.                                    *)
(***************************************************************************)
EXTENDS StockReservation, TLC

CONSTANTS w1, w2, o1, o2, a, b

\* Two orders that name the same products in opposite orders; the first one
\* names a product twice.
Items ==
    (o1 :> << [product |-> a, quantity |-> 1], [product |-> b, quantity |-> 1],
              [product |-> a, quantity |-> 2] >>) @@
    (o2 :> << [product |-> b, quantity |-> 2], [product |-> a, quantity |-> 1] >>)
=============================================================================
