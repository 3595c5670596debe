-------------------------- MODULE MCOrderWorkflow ---------------------------
(***************************************************************************)
(* Small instances of OrderWorkflow.                                       *)
(***************************************************************************)
EXTENDS OrderWorkflow, TLC

CONSTANTS a, b, w1, w2

OneItem == << << [product |-> a, quantity |-> 1] >> >>

TwoOrders == << << [product |-> a, quantity |-> 1] >>,
                << [product |-> a, quantity |-> 1] >> >>

\* The customer of each order has the id of the other order.
CrossedOwners == <<2, 1>>

OneOwner == <<1>>

OtherOwner == <<7>>
=============================================================================
