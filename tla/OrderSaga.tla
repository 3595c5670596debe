------------------------------ MODULE OrderSaga ------------------------------
(***************************************************************************)
(* What the order and the inventory service promise about an order, with   *)
(* no topics, workers, offsets or processed events in sight: an order that *)
(* was placed is decided once, by reserving its stock or by refusing it,   *)
(* and the decision settles its status once.  Between and after these      *)
(* steps administrators set the statuses they are allowed to.              *)
(***************************************************************************)
CONSTANTS
    Orders,
    AdminStatuses  \* statuses that administrators set

VARIABLES
    status,   \* the status of each order, "absent" before it is placed
    outcome,  \* "open", or what became of the reservation of each order
    settled   \* orders whose status the outcome has been applied to

sagaVars == <<status, outcome, settled>>

Init ==
    /\ status = [o \in Orders |-> "absent"]
    /\ outcome = [o \in Orders |-> "open"]
    /\ settled = {}

Place(o) ==
    /\ status[o] = "absent"
    /\ status' = [status EXCEPT ![o] = "CREATED"]
    /\ UNCHANGED <<outcome, settled>>

\* The inventory service decides.
Decide(o, result) ==
    /\ status[o] # "absent"
    /\ outcome[o] = "open"
    /\ outcome' = [outcome EXCEPT ![o] = result]
    /\ UNCHANGED <<status, settled>>

FinalStatus == [reserved |-> "CONFIRMED", refused |-> "CANCELLED"]

\* The order service learns of the decision.
Settle(o) ==
    /\ outcome[o] # "open"
    /\ o \notin settled
    /\ status' = [status EXCEPT ![o] = FinalStatus[outcome[o]]]
    /\ settled' = settled \cup {o}
    /\ UNCHANGED outcome

Manage(o, s) ==
    /\ status[o] # "absent"
    /\ status' = [status EXCEPT ![o] = s]
    /\ UNCHANGED <<outcome, settled>>

Next ==
    \E o \in Orders :
       \/ Place(o)
       \/ \E result \in {"reserved", "refused"} : Decide(o, result)
       \/ Settle(o)
       \/ \E s \in AdminStatuses : Manage(o, s)

Spec == Init /\ [][Next]_sagaVars
=============================================================================
