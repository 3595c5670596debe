------------------------- MODULE MCInventoryWorkers -------------------------
(***************************************************************************)
(* Small instances of InventoryWorkers.                                    *)
(***************************************************************************)
EXTENDS InventoryWorkers

CONSTANTS w1, w2
=============================================================================
