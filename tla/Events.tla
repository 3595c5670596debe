------------------------------- MODULE Events --------------------------------
(***************************************************************************)
(* The events the services exchange: the types, the payloads as the        *)
(* publishers marshal them to JSON and as the consumers unmarshal them.    *)
(*                                                                         *)
(* A payload is a JSON object.  It is kept as a record with every key any  *)
(* publisher writes; a key the publisher leaves out holds the zero value,  *)
(* which is what encoding/json leaves in the field of a consumer that      *)
(* looks for it.                                                           *)
(***************************************************************************)
EXTENDS Naturals, Sequences

Statuses ==
    {"CREATED", "CONFIRMED", "PROCESSING", "SHIPPED", "DELIVERED", "CANCELLED"}

\* "Order" + statusTitle(status)
StatusEvent == [ CREATED    |-> "OrderCreated",
                 CONFIRMED  |-> "OrderConfirmed",
                 PROCESSING |-> "OrderProcessing",
                 SHIPPED    |-> "OrderShipped",
                 DELIVERED  |-> "OrderDelivered",
                 CANCELLED  |-> "OrderCancelled" ]

OrderEventTypes == {StatusEvent[s] : s \in Statuses}

InventoryEventTypes == {"InventoryReserved", "InventoryReservationFailed"}

\* Why a reservation failed: "" is no reason, the others stand for err.Error().
\* The first two are about the order, dbError is about the database.
Reasons == {"", "refused", "outOfRange", "dbError"}

(***************************************************************************)
(* order.OrderCreatedPayload: order_id, user_id and items.                 *)
(***************************************************************************)
OrderCreatedPayload(orderID, userID, items) ==
    [OrderID |-> 0, order_id |-> orderID, user_id |-> userID,
     items |-> items, reason |-> ""]

(***************************************************************************)
(* InventoryResultPayload, the same struct in packages order and           *)
(* inventory: OrderID has no tag and is written under its own name, UserID *)
(* is tagged order_id.                                                     *)
(***************************************************************************)
InventoryResultPayload(orderID, userID, reason) ==
    [OrderID |-> orderID, order_id |-> userID, user_id |-> 0,
     items |-> << >>, reason |-> reason]

\* inventory.InventoryOrderPayload
AsInventoryOrder(payload) ==
    [order |-> payload.order_id, user |-> payload.user_id,
     items |-> payload.items]

\* order.InventoryResultPayload
AsInventoryResult(payload) ==
    [order |-> payload.OrderID, user |-> payload.order_id,
     reason |-> payload.reason]

\* notification.OrderEventPayload
AsOrderEvent(payload) ==
    [order |-> payload.order_id, user |-> payload.user_id,
     reason |-> payload.reason]

(***************************************************************************)
(* events.New draws a fresh uuid.  In the topics of this model an event    *)
(* that is written for the first time takes its position as its id, and a  *)
(* copy of it keeps the id.                                                *)
(***************************************************************************)
NewEvent(log, type, payload) ==
    [id |-> Len(log) + 1, type |-> type, payload |-> payload]

Publish(log, type, payload) == Append(log, NewEvent(log, type, payload))
=============================================================================
