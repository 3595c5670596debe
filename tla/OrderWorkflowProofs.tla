------------------------- MODULE OrderWorkflowProofs -------------------------
(***************************************************************************)
(* Proofs about OrderWorkflow, for any orders, customers, workers and      *)
(* administrators, and any number of messages and faults.                  *)
(***************************************************************************)
EXTENDS OrderWorkflow, OrderLinesProofs

(***************************************************************************)
(* The inductive invariant.  MessagesInv: only the creation of an order    *)
(* writes lines, and it names the order by the key that the inventory      *)
(* service reads; a status event and a result have no lines.  WorkerInv: a *)
(* worker that has left ReserveOrder with success holds a message whose    *)
(* order is reserved, and one that is about to acknowledge a failure has   *)
(* published it.  ConsumerInv: a result is remembered before it is         *)
(* applied.  AckedHasOutcome: a request that is acknowledged has its stock *)
(* or a published failure, whatever the failure's reason.                  *)
(***************************************************************************)
NamesOrder(e) == e.payload.items # << >> => e.payload.order_id \in Orders

NoLines(e) == e.payload.items = << >>

MessagesInv ==
    /\ \A m \in DOMAIN orderEvents : NamesOrder(orderEvents[m])
    /\ \A m \in DOMAIN inventoryEvents : NoLines(inventoryEvents[m])

WorkerInv(w) ==
    /\ worker[w].at \in {"mark", "ack", "publish"} => NothingToReserve(w)
    /\ worker[w].at = "failAck" => Decided(Order(w).order)

ConsumerInv ==
    /\ applied \subseteq orderProcessed
    /\ consumer.at = "update" => Result.id \in orderProcessed \ applied

HandledMessage(m) ==
    orderEvents[m].type = "OrderCreated" /\ ItemsIn(m) # << >> =>
       Reserved(OrderOf(m)) \/ Decided(OrderOf(m))

AckedHasOutcome == \A m \in inventoryAcked : HandledMessage(m)

IndInv ==
    /\ TypeOK
    /\ MessagesInv
    /\ \A w \in Workers : WorkerInv(w)
    /\ ConsumerInv
    /\ AckedHasOutcome

-----------------------------------------------------------------------------
(***************************************************************************)
(* Who writes what: the order service, the inventory service and Kafka     *)
(* each leave the others' state alone.                                     *)
(***************************************************************************)
LEMMA OrderServiceWrites ==
    OrderNext => /\ UNCHANGED inventoryVars
                 /\ UNCHANGED <<inventoryEvents, inventoryAcked>>
  BY DEF OrderNext, CreateOrder, PublishCreated, PublishCreatedFails,
         AdminUpdate, PublishAdminUpdate, PublishAdminUpdateFails, FetchResult,
         MarkResult, ApplyResult, ApplyResultNotFound, PublishStatus, AckResult,
         OrderStop, topicVars, inventoryVars

LEMMA InventoryServiceWrites ==
    InventoryNext => UNCHANGED <<orderVars, orderEvents, orderAcked>>
  BY DEF InventoryNext, WorkerStep, ReserveSucceeds, ReserveRefused,
         ReserveErrs, MarkOrderEvent, AckOrderEvent, PublishReserved,
         PublishReservationFailed, SkipOrderEvent, FetchOrderEvent,
         RedeliverOrderEvent, InventoryStop, AddStock, topicVars, inventoryVars

LEMMA KafkaWrites ==
    KafkaNext => UNCHANGED <<orderVars, inventoryVars, inventoryAcked,
                             orderAcked>>
  BY DEF KafkaNext, DuplicateOrderEvent, DuplicateInventoryEvent

\* The bound on faults is kept.
LEMMA FaultsType ==
    ASSUME TypeOK, [Next]_vars PROVE faults' \in 0 .. MaxFaults
<1>1. faults \in 0 .. MaxFaults /\ MaxFaults \in Nat
  BY WorkflowAssumption DEF TypeOK
<1>2. faults' = faults \/ Disturbed
  BY DEF Next, OrderNext, CreateOrder, PublishCreated, PublishCreatedFails,
         AdminUpdate, PublishAdminUpdate, PublishAdminUpdateFails, FetchResult,
         MarkResult, ApplyResult, ApplyResultNotFound, PublishStatus, AckResult,
         OrderStop, InventoryNext, WorkerStep, ReserveSucceeds, ReserveRefused,
         ReserveErrs, MarkOrderEvent, AckOrderEvent, PublishReserved,
         PublishReservationFailed, SkipOrderEvent, FetchOrderEvent,
         RedeliverOrderEvent, InventoryStop, AddStock,
         KafkaNext, DuplicateOrderEvent, DuplicateInventoryEvent, Fault, vars
<1> QED
  BY <1>1, <1>2 DEF Disturbed

-----------------------------------------------------------------------------
(***************************************************************************)
(* The topics.  A step appends at most one message to a topic, so what is  *)
(* in it stays where it is.                                                *)
(***************************************************************************)
Extended(new, old) == \A m \in DOMAIN old : m \in DOMAIN new /\ new[m] = old[m]

LEMMA AppendExtends ==
    ASSUME NEW S, NEW log \in Seq(S), NEW e \in S
    PROVE  /\ Append(log, e) \in Seq(S)
           /\ Extended(Append(log, e), log)
           /\ DOMAIN Append(log, e) = DOMAIN log \cup {Len(log) + 1}
           /\ \A m \in DOMAIN Append(log, e) :
                 m \in DOMAIN log \/ Append(log, e)[m] = e
  BY DEF Extended

\* An element of a topic is an event.
LEMMA TopicsType ==
    ASSUME TypeOK
    PROVE  /\ \A m \in DOMAIN orderEvents : orderEvents[m] \in OrderEvents
           /\ \A m \in DOMAIN inventoryEvents : inventoryEvents[m] \in InventoryEvents
<1>1. orderEvents \in Seq(OrderEvents) /\ inventoryEvents \in Seq(InventoryEvents)
  BY DEF TypeOK
<1> QED
  BY <1>1

\* The two payloads that are written, and what their readers look for.
LEMMA CreatedPayload ==
    ASSUME NEW o \in Orders
    PROVE  LET payload == OrderCreatedPayload(o, OwnerOf[o], ItemsOf[o])
           IN  /\ payload \in Payloads
               /\ payload.order_id = o
               /\ payload.items = ItemsOf[o]
<1>1. o \in Nat /\ OwnerOf[o] \in Nat
  BY WorkflowAssumption
<1> QED
  BY <1>1 DEF OrderCreatedPayload, Payloads, Reasons

LEMMA ResultPayload ==
    ASSUME NEW x \in Nat, NEW y \in Nat, NEW r \in Reasons
    PROVE  LET payload == InventoryResultPayload(x, y, r)
           IN  /\ payload \in Payloads
               /\ payload.OrderID = x
               /\ payload.items = << >>
  BY DEF InventoryResultPayload, Payloads

LEMMA ResultReason ==
    \A x, y, r : InventoryResultPayload(x, y, r).reason = r
  BY DEF InventoryResultPayload

\* A new event of the type of its topic.
LEMMA NewOrderEvent ==
    ASSUME TypeOK, NEW type \in OrderEventTypes, NEW payload \in Payloads
    PROVE  LET e == NewEvent(orderEvents, type, payload)
           IN  /\ e \in OrderEvents
               /\ e.type = type
               /\ e.payload = payload
               /\ Publish(orderEvents, type, payload) = Append(orderEvents, e)
<1>1. Len(orderEvents) \in Nat
  BY DEF TypeOK
<1> QED
  BY <1>1 DEF NewEvent, Publish, OrderEvents

LEMMA NewInventoryEvent ==
    ASSUME TypeOK, NEW type \in InventoryEventTypes, NEW payload \in Payloads
    PROVE  LET e == NewEvent(inventoryEvents, type, payload)
           IN  /\ e \in InventoryEvents
               /\ e.id = Len(inventoryEvents) + 1
               /\ e.type = type
               /\ e.payload = payload
               /\ Publish(inventoryEvents, type, payload) = Append(inventoryEvents, e)
<1>1. Len(inventoryEvents) \in Nat
  BY DEF TypeOK
<1> QED
  BY <1>1 DEF NewEvent, Publish, InventoryEvents

\* The types of the events that the code writes.
LEMMA EventTypes ==
    /\ "OrderCreated" \in OrderEventTypes
    /\ \A s \in Statuses : /\ StatusEvent[s] \in OrderEventTypes
                           /\ s # "CREATED" => StatusEvent[s] # "OrderCreated"
    /\ "InventoryReserved" \in InventoryEventTypes
    /\ "InventoryReservationFailed" \in InventoryEventTypes
    /\ "" \in Reasons
    /\ ResultStatus \in Statuses /\ ResultStatus \in {"CONFIRMED", "CANCELLED"}
  BY DEF OrderEventTypes, StatusEvent, Statuses, InventoryEventTypes, Reasons,
         ResultStatus

(***************************************************************************)
(* What a step may append to order-events: the creation of an order, a     *)
(* status that an administrator or a result set, or a copy.                *)
(***************************************************************************)
CreationWritten(e, o) ==
    /\ e.type = "OrderCreated"
    /\ e.payload = OrderCreatedPayload(o, OwnerOf[o], ItemsOf[o])
    /\ o \in creating /\ creating' = creating \ {o}

OrderEventWritten(e) ==
    \/ \E o \in Orders : CreationWritten(e, o)
    \/ /\ e.payload.items = << >>
       /\ \E s \in AdminStatuses \cup {"CONFIRMED", "CANCELLED"} :
             e.type = StatusEvent[s]
    \/ /\ "duplicate" \in FaultKinds
       /\ \E m \in DOMAIN orderEvents : e = orderEvents[m]

LEMMA OrderEventsStep ==
    ASSUME TypeOK, MessagesInv, [Next]_vars
    PROVE  \/ orderEvents' = orderEvents
           \/ \E e \in OrderEvents : /\ OrderEventWritten(e)
                                     /\ orderEvents' = Append(orderEvents, e)
<1>1. CASE \E o \in Orders : PublishCreated(o)
  <2>1. PICK o \in Orders : PublishCreated(o)
    BY <1>1
  <2> DEFINE payload == OrderCreatedPayload(o, OwnerOf[o], ItemsOf[o])
             e == NewEvent(orderEvents, "OrderCreated", payload)
  <2>2. payload \in Payloads
    BY CreatedPayload
  <2>3. /\ e \in OrderEvents
        /\ e.type = "OrderCreated" /\ e.payload = payload
        /\ Publish(orderEvents, "OrderCreated", payload) = Append(orderEvents, e)
    <3>1. "OrderCreated" \in OrderEventTypes
      BY EventTypes
    <3> HIDE DEF payload
    <3> QED
      BY <2>2, <3>1, NewOrderEvent
  <2>4. /\ o \in creating /\ creating' = creating \ {o}
        /\ orderEvents' = Publish(orderEvents, "OrderCreated", payload)
    BY <2>1 DEF PublishCreated
  <2>5. OrderEventWritten(e)
    BY <2>3, <2>4 DEF OrderEventWritten, CreationWritten
  <2> QED
    BY <2>3, <2>4, <2>5
<1>2. CASE \E u \in updating : PublishAdminUpdate(u)
  <2>1. PICK u \in updating : PublishAdminUpdate(u)
    BY <1>2
  <2> DEFINE payload == InventoryResultPayload(u.order, OwnerOf[u.order], "")
             e == NewEvent(orderEvents, StatusEvent[u.status], payload)
  <2>2. u.order \in Orders /\ u.status \in AdminStatuses /\ u.status \in Statuses
    BY WorkflowAssumption DEF TypeOK, AdminRequests
  <2>3. u.order \in Nat /\ OwnerOf[u.order] \in Nat
    BY <2>2, WorkflowAssumption
  <2>4. payload \in Payloads /\ payload.items = << >>
    BY <2>3, ResultPayload, EventTypes
  <2>5. /\ e \in OrderEvents
        /\ e.type = StatusEvent[u.status] /\ e.payload = payload
        /\ Publish(orderEvents, StatusEvent[u.status], payload)
              = Append(orderEvents, e)
    <3>1. StatusEvent[u.status] \in OrderEventTypes
      BY <2>2, EventTypes
    <3> HIDE DEF payload
    <3> QED
      BY <2>4, <3>1, NewOrderEvent
  <2>6. OrderEventWritten(e)
    BY <2>2, <2>4, <2>5 DEF OrderEventWritten
  <2> QED
    BY <2>1, <2>5, <2>6 DEF PublishAdminUpdate
<1>3. CASE PublishStatus
  <2> DEFINE e == NewEvent(orderEvents, StatusEvent[ResultStatus], Result.payload)
  <2>1. consumer.msg \in DOMAIN inventoryEvents
    BY <1>3 DEF PublishStatus, TypeOK
  <2>2. Result.payload \in Payloads /\ Result.payload.items = << >>
    BY <2>1, TopicsType DEF Result, MessagesInv, NoLines, InventoryEvents
  <2>3. /\ e \in OrderEvents
        /\ e.type = StatusEvent[ResultStatus] /\ e.payload = Result.payload
        /\ Publish(orderEvents, StatusEvent[ResultStatus], Result.payload)
              = Append(orderEvents, e)
    BY <2>2, NewOrderEvent, EventTypes
  <2>4. OrderEventWritten(e)
    BY <2>2, <2>3, EventTypes DEF OrderEventWritten
  <2> QED
    BY <1>3, <2>3, <2>4 DEF PublishStatus
<1>4. CASE DuplicateOrderEvent
  <2>1. Len(orderEvents) \in DOMAIN orderEvents
    BY <1>4 DEF DuplicateOrderEvent, TypeOK
  <2>2. orderEvents[Len(orderEvents)] \in OrderEvents
    BY <2>1, TopicsType
  <2>3. OrderEventWritten(orderEvents[Len(orderEvents)])
    BY <1>4, <2>1 DEF OrderEventWritten, DuplicateOrderEvent, Fault
  <2> QED
    BY <1>4, <2>2, <2>3 DEF DuplicateOrderEvent
<1>5. CASE \/ InventoryNext \/ DuplicateInventoryEvent \/ UNCHANGED vars
  BY <1>5, InventoryServiceWrites DEF DuplicateInventoryEvent, vars, topicVars
<1>6. CASE OrderNext /\ orderEvents' = orderEvents
  BY <1>6
<1>7. OrderNext => \/ orderEvents' = orderEvents
                   \/ \E o \in Orders : PublishCreated(o)
                   \/ \E u \in updating : PublishAdminUpdate(u)
                   \/ PublishStatus
  BY DEF OrderNext, CreateOrder, PublishCreatedFails, AdminUpdate,
         PublishAdminUpdateFails, FetchResult, MarkResult, ApplyResult,
         ApplyResultNotFound, AckResult, OrderStop, topicVars
<1> QED
  BY <1>1, <1>2, <1>3, <1>4, <1>5, <1>6, <1>7 DEF Next, KafkaNext

(***************************************************************************)
(* What a step may append to inventory-events: the failure, or the         *)
(* success, that a worker has come to publish, or a copy.                  *)
(***************************************************************************)
ResultWritten(e, w) ==
    /\ \/ e.type = "InventoryReservationFailed" /\ PublishReservationFailed(w)
       \/ e.type = "InventoryReserved" /\ PublishReserved(w)
    /\ e.id = Len(inventoryEvents) + 1
    /\ e.payload.OrderID = Order(w).order
    /\ e.type = "InventoryReservationFailed" => e.payload.reason = worker[w].reason

InventoryEventWritten(e) ==
    \/ \E w \in Workers : ResultWritten(e, w)
    \/ /\ "duplicate" \in FaultKinds
       /\ \E m \in DOMAIN inventoryEvents : e = inventoryEvents[m]

\* The order and the customer in the hands of a worker are ids.
LEMMA InHandType ==
    ASSUME TypeOK, NEW w \in Workers, worker[w].at # "idle"
    PROVE  /\ worker[w].msg \in DOMAIN orderEvents
           /\ Message(w) \in OrderEvents
           /\ Order(w).order \in Nat /\ Order(w).user \in Nat
           /\ worker[w].reason \in Reasons
<1>1. worker[w].msg \in DOMAIN orderEvents /\ worker[w].reason \in Reasons
  BY DEF TypeOK
<1>2. Message(w) \in OrderEvents
  BY <1>1, TopicsType DEF Message
<1> QED
  BY <1>1, <1>2 DEF Order, AsInventoryOrder, OrderEvents, Payloads

\* What PublishReservationFailed appends.
LEMMA FailurePublished ==
    ASSUME TypeOK, NEW w \in Workers, PublishReservationFailed(w)
    PROVE  \E e \in InventoryEvents :
              /\ ResultWritten(e, w)
              /\ e.type = "InventoryReservationFailed"
              /\ NoLines(e)
              /\ inventoryEvents' = Append(inventoryEvents, e)
<1> DEFINE payload == InventoryResultPayload(Order(w).order, Order(w).user,
                                             worker[w].reason)
           type == "InventoryReservationFailed"
           e == NewEvent(inventoryEvents, type, payload)
<1>1. /\ Order(w).order \in Nat /\ Order(w).user \in Nat
      /\ worker[w].reason \in Reasons
  BY InHandType DEF PublishReservationFailed
<1>2. /\ payload \in Payloads /\ payload.OrderID = Order(w).order
      /\ payload.items = << >> /\ payload.reason = worker[w].reason
  BY <1>1, ResultPayload, ResultReason
<1>3. /\ e \in InventoryEvents /\ e.type = type /\ e.payload = payload
      /\ e.id = Len(inventoryEvents) + 1
      /\ Publish(inventoryEvents, type, payload) = Append(inventoryEvents, e)
  <2>1. type \in InventoryEventTypes
    BY EventTypes
  <2> HIDE DEF payload, type
  <2> QED
    BY <1>2, <2>1, NewInventoryEvent
<1>4. ResultWritten(e, w)
  BY <1>2, <1>3 DEF ResultWritten
<1> QED
  BY <1>2, <1>3, <1>4 DEF PublishReservationFailed, NoLines

LEMMA InventoryEventsStep ==
    ASSUME TypeOK, MessagesInv, [Next]_vars
    PROVE  \/ inventoryEvents' = inventoryEvents
           \/ \E e \in InventoryEvents :
                 /\ InventoryEventWritten(e)
                 /\ NoLines(e)
                 /\ inventoryEvents' = Append(inventoryEvents, e)
<1>1. CASE \E w \in Workers : PublishReserved(w)
  <2>1. PICK w \in Workers : PublishReserved(w)
    BY <1>1
  <2> DEFINE payload == InventoryResultPayload(Order(w).order, Order(w).user, "")
             e == NewEvent(inventoryEvents, "InventoryReserved", payload)
  <2>2. Order(w).order \in Nat /\ Order(w).user \in Nat
    BY <2>1, InHandType DEF PublishReserved
  <2>3. /\ payload \in Payloads /\ payload.OrderID = Order(w).order
        /\ payload.items = << >>
    BY <2>2, ResultPayload, EventTypes
  <2>4. /\ e \in InventoryEvents /\ e.id = Len(inventoryEvents) + 1
        /\ e.type = "InventoryReserved" /\ e.payload = payload
        /\ Publish(inventoryEvents, "InventoryReserved", payload)
              = Append(inventoryEvents, e)
    <3>1. "InventoryReserved" \in InventoryEventTypes
      BY EventTypes
    <3> HIDE DEF payload
    <3> QED
      BY <2>3, <3>1, NewInventoryEvent
  <2>5. InventoryEventWritten(e) /\ NoLines(e)
    BY <2>1, <2>3, <2>4 DEF InventoryEventWritten, ResultWritten, NoLines
  <2> QED
    BY <2>1, <2>4, <2>5 DEF PublishReserved
<1>2. CASE \E w \in Workers : PublishReservationFailed(w)
  BY <1>2, FailurePublished DEF InventoryEventWritten
<1>3. CASE DuplicateInventoryEvent
  <2>1. Len(inventoryEvents) \in DOMAIN inventoryEvents
    BY <1>3 DEF DuplicateInventoryEvent, TypeOK
  <2>2. inventoryEvents[Len(inventoryEvents)] \in InventoryEvents
    BY <2>1, TopicsType
  <2>3. /\ InventoryEventWritten(inventoryEvents[Len(inventoryEvents)])
        /\ NoLines(inventoryEvents[Len(inventoryEvents)])
    BY <1>3, <2>1 DEF InventoryEventWritten, MessagesInv, DuplicateInventoryEvent,
                      Fault
  <2> QED
    BY <1>3, <2>2, <2>3 DEF DuplicateInventoryEvent
<1>4. CASE OrderNext \/ DuplicateOrderEvent \/ UNCHANGED vars
  BY <1>4, OrderServiceWrites DEF DuplicateOrderEvent, vars, topicVars
<1>5. InventoryNext => \/ inventoryEvents' = inventoryEvents
                       \/ \E w \in Workers : PublishReserved(w)
                       \/ \E w \in Workers : PublishReservationFailed(w)
  BY DEF InventoryNext, WorkerStep, ReserveSucceeds, ReserveRefused,
         ReserveErrs, MarkOrderEvent, AckOrderEvent, SkipOrderEvent,
         FetchOrderEvent, RedeliverOrderEvent, InventoryStop, AddStock, topicVars
<1> QED
  BY <1>1, <1>2, <1>3, <1>4, <1>5 DEF Next, KafkaNext

\* The topics only grow, by messages of their types that MessagesInv is about.
LEMMA TopicsPreserve ==
    ASSUME TypeOK, MessagesInv, [Next]_vars
    PROVE  /\ orderEvents' \in Seq(OrderEvents)
           /\ inventoryEvents' \in Seq(InventoryEvents)
           /\ Extended(orderEvents', orderEvents)
           /\ Extended(inventoryEvents', inventoryEvents)
           /\ MessagesInv'
<1>0. orderEvents \in Seq(OrderEvents) /\ inventoryEvents \in Seq(InventoryEvents)
  BY DEF TypeOK
<1>1. /\ orderEvents' \in Seq(OrderEvents) /\ Extended(orderEvents', orderEvents)
      /\ \A m \in DOMAIN orderEvents' : NamesOrder(orderEvents'[m])
  <2>1. CASE orderEvents' = orderEvents
    BY <1>0, <2>1 DEF Extended, MessagesInv
  <2>2. ASSUME NEW e \in OrderEvents, OrderEventWritten(e),
               orderEvents' = Append(orderEvents, e)
        PROVE  /\ orderEvents' \in Seq(OrderEvents)
               /\ Extended(orderEvents', orderEvents)
               /\ \A m \in DOMAIN orderEvents' : NamesOrder(orderEvents'[m])
    <3>1. NamesOrder(e)
      <4>1. ASSUME NEW o \in Orders, CreationWritten(e, o) PROVE NamesOrder(e)
        BY <4>1, CreatedPayload DEF CreationWritten, NamesOrder
      <4> QED
        BY <2>2, <4>1 DEF OrderEventWritten, NamesOrder, MessagesInv
    <3>2. \A m \in DOMAIN orderEvents : orderEvents'[m] = orderEvents[m]
      BY <1>0, <2>2, AppendExtends DEF Extended
    <3>3. \A m \in DOMAIN orderEvents' : m \in DOMAIN orderEvents \/ orderEvents'[m] = e
      BY <1>0, <2>2, AppendExtends
    <3>4. \A m \in DOMAIN orderEvents' : NamesOrder(orderEvents'[m])
      BY <3>1, <3>2, <3>3 DEF MessagesInv
    <3> QED
      BY <1>0, <2>2, <3>4, AppendExtends
  <2> QED
    BY <2>1, <2>2, OrderEventsStep
<1>2. /\ inventoryEvents' \in Seq(InventoryEvents)
      /\ Extended(inventoryEvents', inventoryEvents)
      /\ \A m \in DOMAIN inventoryEvents' : NoLines(inventoryEvents'[m])
  <2>1. CASE inventoryEvents' = inventoryEvents
    BY <1>0, <2>1 DEF Extended, MessagesInv
  <2>2. ASSUME NEW e \in InventoryEvents, NoLines(e),
               inventoryEvents' = Append(inventoryEvents, e)
        PROVE  /\ inventoryEvents' \in Seq(InventoryEvents)
               /\ Extended(inventoryEvents', inventoryEvents)
               /\ \A m \in DOMAIN inventoryEvents' : NoLines(inventoryEvents'[m])
    <3>1. \A m \in DOMAIN inventoryEvents : inventoryEvents'[m] = inventoryEvents[m]
      BY <1>0, <2>2, AppendExtends DEF Extended
    <3>2. \A m \in DOMAIN inventoryEvents' :
             m \in DOMAIN inventoryEvents \/ inventoryEvents'[m] = e
      BY <1>0, <2>2, AppendExtends
    <3>3. \A m \in DOMAIN inventoryEvents' : NoLines(inventoryEvents'[m])
      BY <2>2, <3>1, <3>2 DEF MessagesInv
    <3> QED
      BY <1>0, <2>2, <3>3, AppendExtends
  <2> QED
    BY <2>1, <2>2, InventoryEventsStep
<1> QED
  BY <1>1, <1>2 DEF MessagesInv

\* A failure that was published stays published.
LEMMA DecidedStays ==
    ASSUME NEW o, Decided(o), Extended(inventoryEvents', inventoryEvents)
    PROVE  Decided(o)'
  BY DEF Decided, Extended

-----------------------------------------------------------------------------
(***************************************************************************)
(* The ledger.                                                             *)
(***************************************************************************)
LEMMA SameLines ==
    \A o : /\ Ledger!ProductsOf(o) = ProductsOf(o)
           /\ \A p : Ledger!FirstQuantity(o, p) = FirstQuantity(o, p)
  BY DEF Ledger!ProductsOf, Ledger!FirstQuantity, Ledger!IsFirstLine,
         Ledger!Lines, ProductsOf, FirstQuantity, IsFirstLine, Lines

\* A message that has lines names an order, so a worker reserves an order.
LEMMA LedgerStep ==
    ASSUME TypeOK, MessagesInv, [Next]_vars
    PROVE  Ledger!Next \/ UNCHANGED ledgerVars
<1>1. ASSUME NEW w \in Workers, worker[w].at = "reserve", ~ NothingToReserve(w),
             Ledger!ReserveOrder(Order(w).order)
      PROVE  Ledger!Next
  <2>1. worker[w].msg \in DOMAIN orderEvents
    BY <1>1 DEF TypeOK
  <2>2. Order(w).order \in Orders
    BY <1>1, <2>1 DEF MessagesInv, NamesOrder, NothingToReserve, Order, Message,
                      AsInventoryOrder
  <2> QED
    BY <1>1, <2>2 DEF Ledger!Next
<1>2. CASE \E p \in Products, q \in 1 .. MaxInt : AddStock(p, q)
  BY <1>2 DEF AddStock, Ledger!Next
<1>3. CASE OrderNext \/ KafkaNext \/ UNCHANGED vars
  BY <1>3, OrderServiceWrites, KafkaWrites DEF inventoryVars, vars
<1>4. CASE \E w \in Workers : ReserveSucceeds(w) \/ ReserveErrs(w)
  BY <1>1, <1>4 DEF ReserveSucceeds, ReserveErrs
<1>5. InventoryNext =>
         \/ UNCHANGED ledgerVars
         \/ \E p \in Products, q \in 1 .. MaxInt : AddStock(p, q)
         \/ \E w \in Workers : ReserveSucceeds(w) \/ ReserveErrs(w)
  BY DEF InventoryNext, WorkerStep, ReserveRefused, MarkOrderEvent,
         AckOrderEvent, PublishReserved, PublishReservationFailed,
         SkipOrderEvent, FetchOrderEvent, RedeliverOrderEvent, InventoryStop,
         inventoryVars
<1> QED
  BY <1>2, <1>3, <1>4, <1>5 DEF Next

LEMMA LedgerType ==
    ASSUME Ledger!TypeOK, Ledger!Next \/ UNCHANGED ledgerVars
    PROVE  Ledger!TypeOK'
<1> USE DEF Ledger!TypeOK
<1>1. MaxInt \in Nat
  BY MaxIntAssumption
<1>2. CASE UNCHANGED ledgerVars
  BY <1>2 DEF ledgerVars
<1>3. CASE \E p \in Products, q \in 1 .. MaxInt : Ledger!AddStock(p, q)
  <2>1. PICK p \in Products, q \in 1 .. MaxInt : Ledger!AddStock(p, q)
    BY <1>3
  <2>2. available[p] \in Nat /\ available[p] + q \in 0 .. MaxInt
    BY <1>1, <2>1 DEF Ledger!AddStock
  <2> QED
    BY <2>1, <2>2 DEF Ledger!AddStock
<1>4. CASE \E o \in Orders : Ledger!ReserveOrder(o)
  <2>1. PICK o \in Orders : Ledger!ReserveOrder(o)
    BY <1>4
  <2>2. \A p \in ProductsOf(o) : FirstQuantity(o, p) \in Nat
    BY FirstQuantityType
  <2>3. \A p \in ProductsOf(o) : /\ FirstQuantity(o, p) <= available[p]
                                 /\ reserved[p] + FirstQuantity(o, p) <= MaxInt
    BY <2>1, SameLines DEF Ledger!ReserveOrder
  <2>4. available' = [p \in Products |->
           IF p \in ProductsOf(o) THEN available[p] - FirstQuantity(o, p)
                                  ELSE available[p]]
    BY <2>1, SameLines DEF Ledger!ReserveOrder
  <2>5. reserved' = [p \in Products |->
           IF p \in ProductsOf(o) THEN reserved[p] + FirstQuantity(o, p)
                                  ELSE reserved[p]]
    BY <2>1, SameLines DEF Ledger!ReserveOrder
  <2>6. reservations' = [reservations EXCEPT ![o] = [p \in Products |->
           IF p \in ProductsOf(o) THEN FirstQuantity(o, p)
                                  ELSE reservations[o][p]]]
    BY <2>1, SameLines DEF Ledger!ReserveOrder
  <2>7. available' \in [Products -> 0 .. MaxInt]
    BY <1>1, <2>2, <2>3, <2>4
  <2>8. reserved' \in [Products -> 0 .. MaxInt]
    BY <1>1, <2>2, <2>3, <2>5
  <2>9. reservations' \in [Orders -> [Products -> Nat]]
    BY <2>2, <2>6
  <2> QED
    BY <2>7, <2>8, <2>9
<1> QED
  BY <1>2, <1>3, <1>4 DEF Ledger!Next

\* ReserveOrder leaves its order reserved.
LEMMA ReserveOrderReserves ==
    ASSUME Ledger!TypeOK, NEW o \in Orders, Ledger!ReserveOrder(o)
    PROVE  /\ Reserved(o)'
           /\ \A x \in Orders \ {o} : reservations'[x] = reservations[x]
<1>1. reservations' = [reservations EXCEPT ![o] = [p \in Products |->
         IF p \in ProductsOf(o) THEN FirstQuantity(o, p)
                                ELSE reservations[o][p]]]
  BY SameLines DEF Ledger!ReserveOrder
<1>2. reservations \in [Orders -> [Products -> Nat]]
  BY DEF Ledger!TypeOK
<1>3. \A p \in ProductsOf(o) : reservations'[o][p] = FirstQuantity(o, p)
  BY <1>1, <1>2, ProductsOfType
<1>4. \A p \in ProductsOf(o) : reservations'[o][p] > 0
  BY <1>3, FirstQuantityType
<1> QED
  BY <1>1, <1>2, <1>4 DEF Reserved

\* An order that is reserved stays reserved.
LEMMA ReservedStays ==
    ASSUME Ledger!TypeOK, Ledger!Next \/ UNCHANGED ledgerVars,
           NEW o \in Orders, Reserved(o)
    PROVE  Reserved(o)'
<1>1. CASE UNCHANGED reservations
  BY <1>1 DEF Reserved
<1>2. CASE \E x \in Orders : Ledger!ReserveOrder(x)
  <2>1. PICK x \in Orders : Ledger!ReserveOrder(x)
    BY <1>2
  <2>2. CASE x = o
    BY <2>1, <2>2, ReserveOrderReserves
  <2>3. CASE x # o
    BY <2>1, <2>3, ReserveOrderReserves DEF Reserved
  <2> QED
    BY <2>2, <2>3
<1> QED
  BY <1>1, <1>2 DEF Ledger!Next, Ledger!AddStock, ledgerVars

-----------------------------------------------------------------------------
(***************************************************************************)
(* The workers.  WorkerMove: what a step does to worker v.                 *)
(***************************************************************************)
WorkerType == [at : WorkerSteps, msg : Nat, reason : Reasons]

WorkerMove(v) ==
    \/ worker'[v] = worker[v]
    \/ worker'[v].at = "idle"
    \/ \E m \in DOMAIN orderEvents :
          /\ orderEvents[m].type = "OrderCreated" \/ InHand(m)
          /\ worker'[v].at = "reserve" /\ worker'[v].msg = m
    \/ /\ worker[v].at # "idle"
       /\ worker'[v].msg = worker[v].msg
       /\ \/ worker'[v].at = "mark" /\ ReserveSucceeds(v)
          \/ worker'[v].at = "fail"
          \/ worker'[v].at = "ack" /\ worker[v].at = "mark"
          \/ worker'[v].at = "publish" /\ worker[v].at = "ack"
          \/ worker'[v].at = "failAck" /\ PublishReservationFailed(v)

\* One worker is given a new state, the others keep theirs.
LEMMA OneWorkerMoves ==
    ASSUME TypeOK, NEW w \in Workers, NEW r \in WorkerType,
           worker' = [worker EXCEPT ![w] = r], NEW v \in Workers
    PROVE  /\ worker' \in [Workers -> WorkerType]
           /\ worker'[w] = r
           /\ v # w => worker'[v] = worker[v]
  BY DEF TypeOK, WorkerType

\* A worker goes on to another step with the message it has.
LEMMA MoveWorkerMoves ==
    ASSUME TypeOK, NEW w \in Workers, NEW step \in WorkerSteps,
           NEW v \in Workers,
           \/ MoveWorker(w, step)
           \/ \E reason \in Reasons :
                 worker' = [worker EXCEPT ![w].at = step, ![w].reason = reason]
    PROVE  /\ worker' \in [Workers -> WorkerType]
           /\ worker'[w].at = step
           /\ worker'[w].msg = worker[w].msg
           /\ v # w => worker'[v] = worker[v]
<1>1. worker \in [Workers -> WorkerType] /\ worker[w] \in WorkerType
  BY DEF TypeOK, WorkerType
<1>2. PICK r \in WorkerType : /\ r.at = step
                              /\ r.msg = worker[w].msg
                              /\ worker' = [worker EXCEPT ![w] = r]
  <2>1. CASE MoveWorker(w, step)
    <3> DEFINE r == [worker[w] EXCEPT !.at = step]
    <3>1. r \in WorkerType /\ r.at = step /\ r.msg = worker[w].msg
      BY <1>1 DEF WorkerType
    <3>2. worker' = [worker EXCEPT ![w] = r]
      BY <1>1, <2>1 DEF MoveWorker
    <3> QED
      BY <3>1, <3>2
  <2>2. ASSUME NEW reason \in Reasons,
               worker' = [worker EXCEPT ![w].at = step, ![w].reason = reason]
        PROVE  \E r \in WorkerType : /\ r.at = step
                                     /\ r.msg = worker[w].msg
                                     /\ worker' = [worker EXCEPT ![w] = r]
    <3> DEFINE r == [worker[w] EXCEPT !.at = step, !.reason = reason]
    <3>1. r \in WorkerType /\ r.at = step /\ r.msg = worker[w].msg
      BY <1>1 DEF WorkerType
    <3>2. worker' = [worker EXCEPT ![w] = r]
      BY <1>1, <2>2
    <3> QED
      BY <3>1, <3>2
  <2> QED
    BY <2>1, <2>2
<1> QED
  BY <1>2, OneWorkerMoves

LEMMA WorkersStep ==
    ASSUME TypeOK, [Next]_vars, NEW v \in Workers
    PROVE  worker' \in [Workers -> WorkerType] /\ WorkerMove(v)
<1> DEFINE Goal == worker' \in [Workers -> WorkerType] /\ WorkerMove(v)
<1>0. /\ worker \in [Workers -> WorkerType]
      /\ \A m \in DOMAIN orderEvents :
            [at |-> "reserve", msg |-> m, reason |-> ""] \in WorkerType
      /\ IdleWorker \in WorkerType
      /\ WorkerSteps = {"idle", "reserve", "fail", "failAck", "mark", "ack", "publish"}
      /\ Reasons = {"", "refused", "outOfRange", "dbError"}
  <2>1. \A m \in DOMAIN orderEvents : m \in Nat
    BY DEF TypeOK
  <2>2. worker \in [Workers -> WorkerType]
    BY DEF TypeOK, WorkerType
  <2> QED
    BY <2>1, <2>2 DEF WorkerType, WorkerSteps, Reasons, IdleWorker
<1>1. ASSUME UNCHANGED worker PROVE Goal
  BY <1>0, <1>1 DEF WorkerMove
<1>2. ASSUME NEW w \in Workers, ReserveSucceeds(w) PROVE Goal
  <2>1. MoveWorker(w, "mark") /\ worker[w].at # "idle"
    BY <1>2 DEF ReserveSucceeds
  <2>2. /\ worker' \in [Workers -> WorkerType]
        /\ worker'[w].at = "mark" /\ worker'[w].msg = worker[w].msg
        /\ v # w => worker'[v] = worker[v]
    BY <1>0, <2>1, MoveWorkerMoves
  <2>3. CASE v # w
    BY <2>2, <2>3 DEF WorkerMove
  <2>4. CASE v = w
    <3>1. ReserveSucceeds(v)
      BY <1>2, <2>4
    <3> QED
      BY <2>1, <2>2, <2>4, <3>1 DEF WorkerMove
  <2> QED
    BY <2>3, <2>4
<1>3. ASSUME NEW w \in Workers, worker[w].at = "reserve",
             NEW reason \in {"refused", "outOfRange", "dbError"},
             ReserveFails(w, reason)
      PROVE  Goal
  BY <1>0, <1>3, MoveWorkerMoves DEF WorkerMove, ReserveFails
<1>4. ASSUME NEW w \in Workers, MarkOrderEvent(w) PROVE Goal
  <2>1. MoveWorker(w, "ack") /\ worker[w].at = "mark"
    BY <1>4 DEF MarkOrderEvent
  <2> QED
    BY <1>0, <2>1, MoveWorkerMoves DEF WorkerMove
<1>5. ASSUME NEW w \in Workers, worker' = [worker EXCEPT ![w] = IdleWorker]
      PROVE  Goal
  <2>1. IdleWorker.at = "idle"
    BY DEF IdleWorker
  <2> QED
    BY <1>0, <1>5, <2>1, OneWorkerMoves DEF WorkerMove
<1>6. ASSUME NEW w \in Workers, AckOrderEvent(w) PROVE Goal
  <2>1. CASE worker[w].at = "ack" /\ MoveWorker(w, "publish")
    BY <1>0, <2>1, MoveWorkerMoves DEF WorkerMove
  <2> QED
    BY <1>5, <1>6, <2>1 DEF AckOrderEvent
<1>7. ASSUME NEW w \in Workers, PublishReservationFailed(w) PROVE Goal
  <2>1. MoveWorker(w, "failAck") /\ worker[w].at # "idle"
    BY <1>7 DEF PublishReservationFailed
  <2>2. /\ worker' \in [Workers -> WorkerType]
        /\ worker'[w].at = "failAck" /\ worker'[w].msg = worker[w].msg
        /\ v # w => worker'[v] = worker[v]
    BY <1>0, <2>1, MoveWorkerMoves
  <2>3. CASE v # w
    BY <2>2, <2>3 DEF WorkerMove
  <2>4. CASE v = w
    <3>1. PublishReservationFailed(v)
      BY <1>7, <2>4
    <3> QED
      BY <2>1, <2>2, <2>4, <3>1 DEF WorkerMove
  <2> QED
    BY <2>3, <2>4
<1>8. ASSUME NEW w \in Workers, NEW m \in DOMAIN orderEvents,
             FetchOrderEvent(w, m) \/ RedeliverOrderEvent(w, m)
      PROVE  Goal
  <2> DEFINE r == [at |-> "reserve", msg |-> m, reason |-> ""]
  <2>1. /\ orderEvents[m].type = "OrderCreated" \/ InHand(m)
        /\ worker' = [worker EXCEPT ![w] = r]
    BY <1>8 DEF FetchOrderEvent, RedeliverOrderEvent
  <2>2. r \in WorkerType /\ r.at = "reserve" /\ r.msg = m
    BY <1>0
  <2> HIDE DEF r
  <2> QED
    BY <2>1, <2>2, OneWorkerMoves DEF WorkerMove
<1>9. ASSUME InventoryStop PROVE Goal
  <2>1. worker'[v] = IdleWorker /\ IdleWorker.at = "idle"
    BY <1>9 DEF InventoryStop, IdleWorker
  <2> QED
    BY <1>0, <1>9, <2>1 DEF InventoryStop, WorkerMove
<1>10. ASSUME NEW w \in Workers, PublishReserved(w) PROVE Goal
  BY <1>5, <1>10 DEF PublishReserved
<1>11. ASSUME NEW w \in Workers, ReserveRefused(w) \/ ReserveErrs(w) PROVE Goal
  BY <1>3, <1>11 DEF ReserveRefused, ReserveErrs
<1>12. InventoryNext =>
         \/ UNCHANGED worker
         \/ InventoryStop
         \/ \E w \in Workers :
               \/ ReserveSucceeds(w)
               \/ ReserveRefused(w)
               \/ ReserveErrs(w)
               \/ MarkOrderEvent(w)
               \/ AckOrderEvent(w)
               \/ PublishReserved(w)
               \/ PublishReservationFailed(w)
               \/ \E m \in DOMAIN orderEvents :
                     FetchOrderEvent(w, m) \/ RedeliverOrderEvent(w, m)
  BY DEF InventoryNext, WorkerStep, SkipOrderEvent, AddStock, inventoryVars
<1>13. OrderNext \/ KafkaNext \/ UNCHANGED vars => UNCHANGED worker
  BY OrderServiceWrites, KafkaWrites DEF vars, inventoryVars
<1> HIDE DEF Goal
<1>14. Goal
  BY <1>1, <1>2, <1>4, <1>6, <1>7, <1>8, <1>9, <1>10, <1>11, <1>12, <1>13
     DEF Next
<1> QED
  BY <1>14 DEF Goal

(***************************************************************************)
(* What a worker knows of the order in its hands stays true whatever the   *)
(* others do, as long as it holds on to the message.                       *)
(***************************************************************************)
LEMMA OrderInHandStays ==
    ASSUME TypeOK, MessagesInv, [Next]_vars, NEW v \in Workers,
           worker[v].at # "idle", worker'[v].msg = worker[v].msg
    PROVE  /\ worker'[v].msg \in DOMAIN orderEvents'
           /\ Message(v)' = Message(v)
           /\ NothingToReserve(v) => NothingToReserve(v)'
           /\ Decided(Order(v).order) => Decided(Order(v).order)'
<1>1. worker[v].msg \in DOMAIN orderEvents
  BY DEF TypeOK
<1>2. /\ Extended(orderEvents', orderEvents)
      /\ Extended(inventoryEvents', inventoryEvents)
  BY TopicsPreserve
<1>3. worker'[v].msg \in DOMAIN orderEvents' /\ Message(v)' = Message(v)
  BY <1>1, <1>2 DEF Message, Extended
<1>4. Order(v)' = Order(v)
  BY <1>3 DEF Order
<1>5. ASSUME NothingToReserve(v) PROVE NothingToReserve(v)'
  <2>1. CASE Order(v).items = << >>
    BY <1>4, <2>1 DEF NothingToReserve
  <2>2. CASE Order(v).items # << >>
    <3>1. PICK o \in Orders : o = Order(v).order
      BY <1>1, <2>2 DEF MessagesInv, NamesOrder, Order, Message, AsInventoryOrder
    <3>2. Reserved(o)
      BY <1>5, <2>2, <3>1 DEF NothingToReserve, Reserved
    <3>3. Reserved(o)'
      BY <3>2, LedgerStep, ReservedStays DEF TypeOK
    <3> QED
      BY <1>4, <3>1, <3>3 DEF NothingToReserve, Reserved
  <2> QED
    BY <2>1, <2>2
<1>6. ASSUME Decided(Order(v).order) PROVE Decided(Order(v).order)'
  BY <1>2, <1>4, <1>6 DEF Decided, Extended
<1> QED
  BY <1>3, <1>5, <1>6

\* ReserveOrder returns nil: the order is reserved from then on.
LEMMA SuccessReserves ==
    ASSUME TypeOK, MessagesInv, [Next]_vars, NEW v \in Workers,
           ReserveSucceeds(v), worker'[v].msg = worker[v].msg
    PROVE  NothingToReserve(v)'
<1>1. worker[v].at # "idle"
  BY DEF ReserveSucceeds
<1>2. Order(v)' = Order(v)
  BY <1>1, OrderInHandStays DEF Order
<1>3. CASE NothingToReserve(v)
  BY <1>1, <1>3, OrderInHandStays
<1>4. CASE ~ NothingToReserve(v)
  <2>1. worker[v].msg \in DOMAIN orderEvents
    BY <1>1 DEF TypeOK
  <2>2. PICK o \in Orders : o = Order(v).order
    BY <1>4, <2>1 DEF MessagesInv, NamesOrder, NothingToReserve, Order, Message,
                      AsInventoryOrder
  <2>3. Ledger!ReserveOrder(o)
    BY <1>4, <2>2 DEF ReserveSucceeds
  <2>4. Reserved(o)'
    BY <2>3, ReserveOrderReserves DEF TypeOK
  <2> QED
    BY <1>2, <2>2, <2>4 DEF NothingToReserve, Reserved
<1> QED
  BY <1>3, <1>4

\* The failure that a worker publishes decides its order.
LEMMA FailureDecides ==
    ASSUME TypeOK, MessagesInv, [Next]_vars, NEW v \in Workers,
           PublishReservationFailed(v), worker'[v].msg = worker[v].msg
    PROVE  Decided(Order(v).order)'
<1>1. worker[v].at # "idle"
  BY DEF PublishReservationFailed
<1>2. Order(v)' = Order(v)
  BY <1>1, OrderInHandStays DEF Order
<1>3. PICK e \in InventoryEvents :
         /\ e.type = "InventoryReservationFailed"
         /\ e.payload.OrderID = Order(v).order
         /\ inventoryEvents' = Append(inventoryEvents, e)
  BY FailurePublished DEF ResultWritten
<1>4. inventoryEvents \in Seq(InventoryEvents)
  BY DEF TypeOK
<1>5. /\ Len(inventoryEvents) + 1 \in DOMAIN inventoryEvents'
      /\ inventoryEvents'[Len(inventoryEvents) + 1] = e
  BY <1>3, <1>4
<1> QED
  BY <1>2, <1>3, <1>5 DEF Decided, AsInventoryResult

LEMMA WorkerPreserves ==
    ASSUME IndInv, [Next]_vars, NEW v \in Workers
    PROVE  /\ WorkerInv(v)'
           /\ worker'[v].at # "idle" => worker'[v].msg \in DOMAIN orderEvents'
<1> DEFINE Goal == /\ WorkerInv(v)'
                   /\ worker'[v].at # "idle" => worker'[v].msg \in DOMAIN orderEvents'
<1> SUFFICES Goal
  BY DEF Goal
<1> HIDE DEF Goal
<1>0. TypeOK /\ MessagesInv /\ WorkerInv(v)
  BY DEF IndInv
<1>1. CASE worker'[v].at = "idle"
  BY <1>1 DEF Goal, WorkerInv
<1>2. CASE worker[v].at # "idle" /\ worker'[v].msg = worker[v].msg
  <2>1. /\ worker'[v].msg \in DOMAIN orderEvents'
        /\ NothingToReserve(v) => NothingToReserve(v)'
        /\ Decided(Order(v).order) => Decided(Order(v).order)'
    BY <1>0, <1>2, OrderInHandStays
  <2>2. CASE worker'[v] = worker[v]
    BY <1>0, <2>1, <2>2 DEF Goal, WorkerInv
  <2>3. CASE worker'[v].at = "mark" /\ ReserveSucceeds(v)
    <3>1. NothingToReserve(v)'
      BY <1>0, <1>2, <2>3, SuccessReserves
    <3> QED
      BY <2>1, <2>3, <3>1 DEF Goal, WorkerInv
  <2>4. CASE worker'[v].at \in {"reserve", "fail"}
    BY <2>1, <2>4 DEF Goal, WorkerInv
  <2>5. CASE /\ worker'[v].at \in {"ack", "publish"}
             /\ worker[v].at \in {"mark", "ack"}
    BY <1>0, <2>1, <2>5 DEF Goal, WorkerInv
  <2>6. CASE worker'[v].at = "failAck" /\ PublishReservationFailed(v)
    <3>1. Decided(Order(v).order)'
      BY <1>0, <1>2, <2>6, FailureDecides
    <3> QED
      BY <2>1, <2>6, <3>1 DEF Goal, WorkerInv
  <2>7. WorkerMove(v)
    BY <1>0, WorkersStep
  <2> QED
    BY <1>1, <2>2, <2>3, <2>4, <2>5, <2>6, <2>7 DEF WorkerMove
<1>3. CASE worker'[v].at = "reserve" /\ worker'[v].msg \in DOMAIN orderEvents
  <2>1. worker'[v].msg \in DOMAIN orderEvents'
    BY <1>0, <1>3, TopicsPreserve DEF Extended
  <2> QED
    BY <1>3, <2>1 DEF Goal, WorkerInv
<1> QED
  <2>1. WorkerMove(v)
    BY <1>0, WorkersStep
  <2>2. CASE worker'[v] = worker[v]
    BY <1>1, <1>2, <2>2
  <2> QED
    BY <1>1, <1>2, <1>3, <2>1, <2>2 DEF WorkerMove

-----------------------------------------------------------------------------
(***************************************************************************)
(* The acknowledgements.                                                   *)
(***************************************************************************)
\* A message is handled once and for all.
LEMMA HandledStays ==
    ASSUME TypeOK, MessagesInv, [Next]_vars,
           NEW m \in DOMAIN orderEvents, HandledMessage(m)
    PROVE  m \in DOMAIN orderEvents' /\ HandledMessage(m)'
<1>1. /\ Extended(orderEvents', orderEvents)
      /\ Extended(inventoryEvents', inventoryEvents)
  BY TopicsPreserve
<1>2. m \in DOMAIN orderEvents' /\ orderEvents'[m] = orderEvents[m]
  BY <1>1 DEF Extended
<1>3. OrderOf(m)' = OrderOf(m) /\ ItemsIn(m)' = ItemsIn(m)
  BY <1>2 DEF OrderOf, ItemsIn
<1>4. ASSUME orderEvents[m].type = "OrderCreated", ItemsIn(m) # << >>
      PROVE  (Reserved(OrderOf(m)) \/ Decided(OrderOf(m)))'
  <2>1. PICK o \in Orders : o = OrderOf(m)
    BY <1>4 DEF MessagesInv, NamesOrder, OrderOf, ItemsIn, AsInventoryOrder
  <2>2. CASE Reserved(OrderOf(m))
    <3>1. Reserved(o)
      BY <2>1, <2>2 DEF Reserved
    <3>2. Reserved(o)'
      BY <3>1, LedgerStep, ReservedStays DEF TypeOK
    <3> QED
      BY <1>3, <2>1, <3>2 DEF Reserved
  <2>3. CASE Decided(OrderOf(m))
    BY <1>1, <1>3, <2>3 DEF Decided, Extended
  <2> QED
    BY <1>4, <2>2, <2>3 DEF HandledMessage
<1> QED
  BY <1>2, <1>3, <1>4 DEF HandledMessage

\* The inventory service acknowledges a message it has handled.
LEMMA AckStep ==
    ASSUME IndInv, [Next]_vars
    PROVE  \/ inventoryAcked' = inventoryAcked
           \/ \E m \in DOMAIN orderEvents :
                 HandledMessage(m) /\ inventoryAcked' = inventoryAcked \cup {m}
<1>1. ASSUME NEW w \in Workers, NEW m \in DOMAIN orderEvents, SkipOrderEvent(w, m)
      PROVE  HandledMessage(m) /\ inventoryAcked' = inventoryAcked \cup {m}
  BY <1>1 DEF SkipOrderEvent, HandledMessage
<1>2. ASSUME NEW w \in Workers, AckOrderEvent(w)
      PROVE  \E m \in DOMAIN orderEvents :
                HandledMessage(m) /\ inventoryAcked' = inventoryAcked \cup {m}
  <2>1. /\ worker[w].at \in {"ack", "failAck"}
        /\ inventoryAcked' = inventoryAcked \cup {worker[w].msg}
    BY <1>2 DEF AckOrderEvent
  <2>2. worker[w].msg \in DOMAIN orderEvents
    BY <2>1 DEF IndInv, TypeOK
  <2>3. /\ Order(w).items = ItemsIn(worker[w].msg)
        /\ Order(w).order = OrderOf(worker[w].msg)
    BY DEF Order, Message, ItemsIn, OrderOf
  <2>4. CASE worker[w].at = "ack"
    <3>1. NothingToReserve(w)
      BY <2>4 DEF IndInv, WorkerInv
    <3>2. HandledMessage(worker[w].msg)
      BY <2>3, <3>1 DEF NothingToReserve, HandledMessage, Reserved
    <3> QED
      BY <2>1, <2>2, <3>2
  <2>5. CASE worker[w].at = "failAck"
    <3>1. Decided(Order(w).order)
      BY <2>5 DEF IndInv, WorkerInv
    <3>2. HandledMessage(worker[w].msg)
      BY <2>3, <3>1 DEF HandledMessage, Decided
    <3> QED
      BY <2>1, <2>2, <3>2
  <2> QED
    BY <2>1, <2>4, <2>5
<1>3. CASE OrderNext \/ KafkaNext \/ UNCHANGED vars
  BY <1>3, OrderServiceWrites, KafkaWrites DEF vars, topicVars
<1>4. InventoryNext =>
         \/ inventoryAcked' = inventoryAcked
         \/ \E w \in Workers : AckOrderEvent(w)
         \/ \E w \in Workers, m \in DOMAIN orderEvents : SkipOrderEvent(w, m)
  BY DEF InventoryNext, WorkerStep, ReserveSucceeds, ReserveRefused,
         ReserveErrs, MarkOrderEvent, PublishReserved, PublishReservationFailed,
         FetchOrderEvent, RedeliverOrderEvent, InventoryStop, AddStock, topicVars
<1> QED
  BY <1>1, <1>2, <1>3, <1>4 DEF Next

LEMMA AcksPreserve ==
    ASSUME IndInv, [Next]_vars
    PROVE  /\ inventoryAcked' \subseteq DOMAIN orderEvents'
           /\ orderAcked' \subseteq DOMAIN inventoryEvents'
           /\ AckedHasOutcome'
<1>0. /\ TypeOK /\ MessagesInv
      /\ inventoryAcked \subseteq DOMAIN orderEvents
      /\ orderAcked \subseteq DOMAIN inventoryEvents
  BY DEF IndInv, TypeOK
<1>1. \A m \in inventoryAcked : HandledMessage(m)
  BY DEF IndInv, AckedHasOutcome
<1>2. \A m \in inventoryAcked' : m \in DOMAIN orderEvents /\ HandledMessage(m)
  BY <1>0, <1>1, AckStep
<1>3. \A m \in inventoryAcked' : m \in DOMAIN orderEvents' /\ HandledMessage(m)'
  BY <1>0, <1>2, HandledStays
<1>4. \A m \in orderAcked' : m \in DOMAIN inventoryEvents
  <2>1. CASE AckResult
    BY <1>0, <2>1 DEF AckResult, TypeOK
  <2>2. OrderNext => orderAcked' = orderAcked \/ AckResult
    BY DEF OrderNext, CreateOrder, PublishCreated, PublishCreatedFails,
           AdminUpdate, PublishAdminUpdate, PublishAdminUpdateFails,
           FetchResult, MarkResult, ApplyResult, ApplyResultNotFound,
           PublishStatus, OrderStop, topicVars
  <2>3. InventoryNext \/ KafkaNext \/ UNCHANGED vars => orderAcked' = orderAcked
    BY InventoryServiceWrites, KafkaWrites DEF vars, topicVars
  <2> QED
    BY <1>0, <2>1, <2>2, <2>3 DEF Next
<1>5. AckedHasOutcome'
  BY <1>3 DEF AckedHasOutcome
<1>6. \A m \in orderAcked' : m \in DOMAIN inventoryEvents'
  BY <1>0, <1>4, TopicsPreserve DEF Extended
<1> QED
  BY <1>3, <1>5, <1>6

-----------------------------------------------------------------------------
(***************************************************************************)
(* The order service.                                                      *)
(***************************************************************************)
LEMMA OrdersType ==
    ASSUME TypeOK, [Next]_vars
    PROVE  /\ status' \in [Orders -> Statuses \cup {"absent"}]
           /\ creating' \subseteq Orders
           /\ updating' \subseteq AdminRequests
<1>0. /\ status \in [Orders -> Statuses \cup {"absent"}]
      /\ creating \subseteq Orders
      /\ updating \subseteq AdminRequests
  BY DEF TypeOK
<1>1. CASE UNCHANGED <<status, creating, updating>>
  BY <1>0, <1>1
<1>2. ASSUME NEW o \in Orders, CreateOrder(o)
      PROVE  /\ status' \in [Orders -> Statuses \cup {"absent"}]
             /\ creating' \subseteq Orders
             /\ updating' \subseteq AdminRequests
  BY <1>0, <1>2 DEF CreateOrder, Statuses
<1>3. ASSUME NEW u \in AdminRequests, AdminUpdate(u)
      PROVE  /\ status' \in [Orders -> Statuses \cup {"absent"}]
             /\ creating' \subseteq Orders
             /\ updating' \subseteq AdminRequests
  <2>1. u.status \in Statuses
    BY WorkflowAssumption DEF AdminRequests
  <2> QED
    BY <1>0, <1>3, <2>1 DEF AdminUpdate
<1>4. CASE ApplyResult
  BY <1>0, <1>4, EventTypes DEF ApplyResult
<1>5. CASE /\ UNCHANGED status
           /\ creating' \subseteq creating
           /\ updating' \subseteq updating
  BY <1>0, <1>5
<1>6. OrderNext =>
         \/ UNCHANGED <<status, creating, updating>>
         \/ \E o \in Orders : CreateOrder(o)
         \/ \E u \in AdminRequests : AdminUpdate(u)
         \/ ApplyResult
         \/ /\ UNCHANGED status
            /\ creating' \subseteq creating
            /\ updating' \subseteq updating
  BY DEF OrderNext, PublishCreated, PublishCreatedFails, PublishAdminUpdate,
         PublishAdminUpdateFails, FetchResult, MarkResult, ApplyResultNotFound,
         PublishStatus, AckResult, OrderStop
<1>7. InventoryNext \/ KafkaNext \/ UNCHANGED vars =>
         UNCHANGED <<status, creating, updating>>
  BY InventoryServiceWrites, KafkaWrites DEF vars, orderVars
<1> QED
  BY <1>1, <1>2, <1>3, <1>4, <1>5, <1>6, <1>7 DEF Next

\* The result in the consumer's hands stays what it is.
LEMMA ResultStays ==
    ASSUME TypeOK, MessagesInv, [Next]_vars, NEW m \in DOMAIN inventoryEvents
    PROVE  m \in DOMAIN inventoryEvents' /\ inventoryEvents'[m] = inventoryEvents[m]
  BY TopicsPreserve DEF Extended

LEMMA ConsumerPreserves ==
    ASSUME IndInv, [Next]_vars
    PROVE  /\ consumer' \in [at : ConsumerSteps, msg : Nat]
           /\ consumer'.at # "idle" => consumer'.msg \in DOMAIN inventoryEvents'
           /\ orderProcessed' \subseteq Nat
           /\ applied' \subseteq Nat
           /\ ConsumerInv'
<1> DEFINE Consumers == [at : ConsumerSteps, msg : Nat]
           Kept == /\ consumer' \in Consumers
                   /\ consumer'.at # "idle" => consumer'.msg \in DOMAIN inventoryEvents
                   /\ orderProcessed' \subseteq Nat
                   /\ applied' \subseteq orderProcessed'
                   /\ consumer'.at = "update" =>
                         inventoryEvents[consumer'.msg].id \in orderProcessed' \ applied'
<1>0. /\ TypeOK /\ MessagesInv
      /\ consumer \in Consumers
      /\ consumer.at # "idle" => consumer.msg \in DOMAIN inventoryEvents
      /\ orderProcessed \subseteq Nat
      /\ applied \subseteq orderProcessed
      /\ consumer.at = "update" => Result.id \in orderProcessed \ applied
  BY DEF IndInv, TypeOK, ConsumerInv
<1>1. Kept
  <2>1. ASSUME UNCHANGED <<consumer, orderProcessed, applied>> PROVE Kept
    BY <1>0, <2>1 DEF Result
  <2>2. ASSUME consumer' = IdleConsumer, UNCHANGED <<orderProcessed, applied>>
        PROVE  Kept
    <3>1. IdleConsumer \in Consumers /\ IdleConsumer.at = "idle"
      BY DEF IdleConsumer, ConsumerSteps
    <3> QED
      BY <1>0, <2>2, <3>1
  <2>3. ASSUME NEW m \in DOMAIN inventoryEvents, FetchResult(m) PROVE Kept
    <3> DEFINE c == [at |-> "mark", msg |-> m]
    <3>1. m \in Nat
      BY <1>0 DEF TypeOK
    <3>2. c \in Consumers /\ c.at = "mark" /\ c.msg = m
      BY <3>1 DEF ConsumerSteps
    <3>3. consumer' = c /\ UNCHANGED <<orderProcessed, applied>>
      BY <2>3 DEF FetchResult
    <3> HIDE DEF c
    <3> QED
      BY <1>0, <3>2, <3>3
  <2>4. ASSUME NEW step \in ConsumerSteps, MoveConsumer(step)
        PROVE  /\ consumer' \in Consumers
               /\ consumer'.at = step /\ consumer'.msg = consumer.msg
    BY <1>0, <2>4 DEF MoveConsumer
  <2>5. \A step \in {"mark", "update", "publish", "ack"} : step \in ConsumerSteps
    BY DEF ConsumerSteps
  <2>6. consumer.at # "idle" => Result.id \in Nat
    BY <1>0, TopicsType DEF Result, InventoryEvents
  <2>7. CASE MarkResult
    <3>1. /\ consumer.at # "idle"
          /\ orderProcessed' = orderProcessed \cup {Result.id}
          /\ applied' = applied
      BY <2>7 DEF MarkResult, RememberResult
    <3>2. CASE Result.id \in orderProcessed /\ MoveConsumer("ack")
      BY <1>0, <2>4, <2>5, <3>1, <3>2
    <3>3. CASE Result.id \notin orderProcessed /\ MoveConsumer("update")
      <4>1. /\ consumer' \in Consumers
            /\ consumer'.at = "update" /\ consumer'.msg = consumer.msg
        BY <2>4, <2>5, <3>3
      <4>2. inventoryEvents[consumer'.msg] = Result
        BY <4>1 DEF Result
      <4>3. orderProcessed' \subseteq Nat
        BY <1>0, <2>6, <3>1
      <4> QED
        BY <1>0, <3>1, <3>3, <4>1, <4>2, <4>3
    <3> QED
      BY <2>7, <3>2, <3>3 DEF MarkResult
  <2>8. CASE ApplyResult
    <3>1. /\ consumer.at = "update" /\ MoveConsumer("publish")
          /\ orderProcessed' = orderProcessed
          /\ applied' = applied \cup {Result.id}
      BY <2>8 DEF ApplyResult
    <3> QED
      BY <1>0, <2>4, <2>5, <3>1
  <2>9. CASE PublishStatus
    <3>1. /\ consumer.at # "idle" /\ MoveConsumer("ack")
          /\ UNCHANGED <<orderProcessed, applied>>
      BY <2>9 DEF PublishStatus
    <3> QED
      BY <1>0, <2>4, <2>5, <3>1
  <2>10. OrderNext =>
            \/ UNCHANGED <<consumer, orderProcessed, applied>>
            \/ \E m \in DOMAIN inventoryEvents : FetchResult(m)
            \/ MarkResult \/ ApplyResult \/ PublishStatus
            \/ consumer' = IdleConsumer /\ UNCHANGED <<orderProcessed, applied>>
    BY DEF OrderNext, CreateOrder, PublishCreated, PublishCreatedFails,
           AdminUpdate, PublishAdminUpdate, PublishAdminUpdateFails,
           ApplyResultNotFound, AckResult, OrderStop
  <2>11. InventoryNext \/ KafkaNext \/ UNCHANGED vars =>
            UNCHANGED <<consumer, orderProcessed, applied>>
    BY InventoryServiceWrites, KafkaWrites DEF vars, orderVars
  <2> HIDE DEF Kept
  <2> QED
    BY <2>1, <2>2, <2>3, <2>7, <2>8, <2>9, <2>10, <2>11 DEF Next
<1>2. ASSUME consumer'.at # "idle"
      PROVE  /\ consumer'.msg \in DOMAIN inventoryEvents'
             /\ Result' = inventoryEvents[consumer'.msg]
  BY <1>0, <1>1, <1>2, ResultStays DEF Result
<1> QED
  BY <1>1, <1>2 DEF ConsumerInv

\* processed_events of the inventory database holds ids of events.
LEMMA ProcessedType ==
    ASSUME TypeOK, [Next]_vars PROVE inventoryProcessed' \subseteq Nat
<1>0. inventoryProcessed \subseteq Nat
  BY DEF TypeOK
<1>1. ASSUME NEW w \in Workers, MarkOrderEvent(w)
      PROVE  inventoryProcessed' \subseteq Nat
  <2>1. Message(w).id \in Nat
    BY <1>1, InHandType DEF MarkOrderEvent, OrderEvents
  <2> QED
    BY <1>0, <1>1, <2>1 DEF MarkOrderEvent
<1>2. InventoryNext => \/ UNCHANGED inventoryProcessed
                       \/ \E w \in Workers : MarkOrderEvent(w)
  BY DEF InventoryNext, WorkerStep, ReserveSucceeds, ReserveRefused,
         ReserveErrs, AckOrderEvent, PublishReserved, PublishReservationFailed,
         SkipOrderEvent, FetchOrderEvent, RedeliverOrderEvent, InventoryStop,
         AddStock, inventoryVars
<1>3. OrderNext \/ KafkaNext \/ UNCHANGED vars => UNCHANGED inventoryProcessed
  BY OrderServiceWrites, KafkaWrites DEF vars, inventoryVars
<1> QED
  BY <1>0, <1>1, <1>2, <1>3 DEF Next

-----------------------------------------------------------------------------
\* The inductive invariant holds in every reachable state.
THEOREM InductiveInvariant == Spec => []IndInv
<1>1. Init => IndInv
  <2> SUFFICES ASSUME Init PROVE IndInv
    OBVIOUS
  <2>1. MaxFaults \in Nat /\ MaxInt \in Nat
    BY WorkflowAssumption, MaxIntAssumption
  <2>2. IdleConsumer \in [at : ConsumerSteps, msg : Nat] /\ IdleConsumer.at = "idle"
    BY DEF IdleConsumer, ConsumerSteps
  <2>3. IdleWorker \in WorkerType /\ IdleWorker.at = "idle"
    BY DEF IdleWorker, WorkerType, WorkerSteps, Reasons
  <2>4. \A w \in Workers : worker[w] = IdleWorker
    BY DEF Init
  <2>5. worker \in [Workers -> WorkerType]
    BY <2>3 DEF Init
  <2>6. Ledger!TypeOK
    BY <2>1 DEF Init, Ledger!Init, Ledger!TypeOK
  <2>7. TypeOK
    BY <2>1, <2>2, <2>3, <2>4, <2>5, <2>6 DEF Init, TypeOK, WorkerType
  <2>8. \A w \in Workers : WorkerInv(w)
    BY <2>3, <2>4 DEF WorkerInv
  <2>9. MessagesInv /\ ConsumerInv /\ AckedHasOutcome
    BY <2>2 DEF Init, MessagesInv, ConsumerInv, AckedHasOutcome
  <2> QED
    BY <2>7, <2>8, <2>9 DEF IndInv
<1>2. IndInv /\ [Next]_vars => IndInv'
  <2> SUFFICES ASSUME IndInv, [Next]_vars PROVE IndInv'
    OBVIOUS
  <2>0. TypeOK /\ MessagesInv
    BY DEF IndInv
  <2>1. \A w \in Workers :
           /\ WorkerInv(w)'
           /\ worker'[w].at # "idle" => worker'[w].msg \in DOMAIN orderEvents'
    BY WorkerPreserves
  <2>2. worker' \in [Workers -> [at : WorkerSteps, msg : Nat, reason : Reasons]]
    <3>1. CASE Workers = {}
      <4>1. worker' = worker
        BY <3>1, OrderServiceWrites, KafkaWrites
           DEF Next, InventoryNext, InventoryStop, AddStock, inventoryVars, vars
      <4> QED
        BY <2>0, <4>1 DEF TypeOK
    <3>2. CASE Workers # {}
      BY <2>0, <3>2, WorkersStep DEF WorkerType
    <3> QED
      BY <3>1, <3>2
  <2>3. Ledger!TypeOK'
    BY <2>0, LedgerStep, LedgerType DEF TypeOK
  <2>4. TypeOK'
    BY <2>0, <2>1, <2>2, <2>3, TopicsPreserve, AcksPreserve, OrdersType,
       ConsumerPreserves, ProcessedType, FaultsType DEF TypeOK
  <2> QED
    BY <2>0, <2>1, <2>4, TopicsPreserve, AcksPreserve, ConsumerPreserves
       DEF IndInv
<1> QED
  BY <1>1, <1>2, PTL DEF Spec

(***************************************************************************)
(* Type correctness: whatever is written, delivered twice, lost or cut     *)
(* short, every offset that is committed and every message in hand is in   *)
(* its topic, and the stock columns stay inside their range.               *)
(***************************************************************************)
THEOREM TypeCorrect == Spec => []TypeOK
  BY InductiveInvariant, PTL DEF IndInv

(***************************************************************************)
(* The order service does not apply a result again: what the consumer is   *)
(* about to apply was not applied before.                                  *)
(***************************************************************************)
THEOREM AppliedOnce == Spec => []StatusAppliedOnce
<1>1. IndInv => StatusAppliedOnce
  BY DEF IndInv, ConsumerInv, StatusAppliedOnce
<1> QED
  BY <1>1, InductiveInvariant, PTL

-----------------------------------------------------------------------------
(***************************************************************************)
(* Who did it: the step that changed a variable.                           *)
(***************************************************************************)
LEMMA WhoMoves ==
    ASSUME TypeOK, [Next]_vars, NEW v \in Workers, worker'[v] # worker[v]
    PROVE  \/ InventoryStop
           \/ WorkerStep(v) \/ ReserveErrs(v)
           \/ \E m \in DOMAIN orderEvents :
                 FetchOrderEvent(v, m) \/ RedeliverOrderEvent(v, m)
<1>0. worker \in [Workers -> [at : WorkerSteps, msg : Nat, reason : Reasons]]
  BY DEF TypeOK
<1>1. ASSUME NEW w \in Workers, w # v, WorkerStep(w) \/ ReserveErrs(w)
      PROVE  FALSE
  BY <1>0, <1>1 DEF WorkerStep, ReserveSucceeds, ReserveRefused, ReserveErrs,
         ReserveFails, MarkOrderEvent, AckOrderEvent, PublishReserved,
         PublishReservationFailed, MoveWorker
<1>2. ASSUME NEW w \in Workers, w # v, NEW m \in DOMAIN orderEvents,
             FetchOrderEvent(w, m) \/ RedeliverOrderEvent(w, m)
      PROVE  FALSE
  BY <1>0, <1>2 DEF FetchOrderEvent, RedeliverOrderEvent
<1>3. ASSUME UNCHANGED worker PROVE FALSE
  BY <1>3
<1>4. InventoryNext =>
         \/ UNCHANGED worker
         \/ InventoryStop
         \/ \E w \in Workers :
               \/ WorkerStep(w) \/ ReserveErrs(w)
               \/ \E m \in DOMAIN orderEvents :
                     FetchOrderEvent(w, m) \/ RedeliverOrderEvent(w, m)
  BY DEF InventoryNext, SkipOrderEvent, AddStock, inventoryVars
<1>5. OrderNext \/ KafkaNext \/ UNCHANGED vars => UNCHANGED worker
  BY OrderServiceWrites, KafkaWrites DEF vars, inventoryVars
<1> QED
  BY <1>1, <1>2, <1>3, <1>4, <1>5 DEF Next

\* A step of a worker: the message stays until the hand is empty.
LEMMA StepKeepsMessage ==
    ASSUME TypeOK, MessagesInv, [Next]_vars, NEW v \in Workers,
           WorkerStep(v) \/ ReserveErrs(v)
    PROVE  /\ worker[v].at # "idle"
           /\ worker'[v].at # "idle" => worker'[v].msg = worker[v].msg
<1>0. /\ worker \in [Workers -> [at : WorkerSteps, msg : Nat, reason : Reasons]]
      /\ IdleWorker.at = "idle"
  BY DEF TypeOK, IdleWorker
<1>1. worker[v].at # "idle"
  BY DEF WorkerStep, ReserveSucceeds, ReserveRefused, ReserveErrs,
         MarkOrderEvent, AckOrderEvent, PublishReserved, PublishReservationFailed
<1>2. CASE worker' = [worker EXCEPT ![v] = IdleWorker]
  BY <1>0, <1>1, <1>2
<1>3. ASSUME NEW step, MoveWorker(v, step) PROVE worker'[v].msg = worker[v].msg
  BY <1>0, <1>3 DEF MoveWorker
<1>4. ASSUME NEW reason, ReserveFails(v, reason)
      PROVE  worker'[v].msg = worker[v].msg
  BY <1>0, <1>4 DEF ReserveFails
<1> QED
  BY <1>1, <1>2, <1>3, <1>4
     DEF WorkerStep, ReserveSucceeds, ReserveRefused, ReserveErrs,
         MarkOrderEvent, AckOrderEvent, PublishReserved, PublishReservationFailed

\* A worker comes to a failure from ReserveOrder.
LEMMA WhoFails ==
    ASSUME TypeOK, MessagesInv, [Next]_vars, NEW v \in Workers,
           worker'[v] # worker[v], worker'[v].at = "fail"
    PROVE  ReserveRefused(v) \/ ReserveErrs(v)
<1>0. /\ worker \in [Workers -> [at : WorkerSteps, msg : Nat, reason : Reasons]]
      /\ IdleWorker.at = "idle"
  BY DEF TypeOK, IdleWorker
<1>1. \A step : MoveWorker(v, step) => step = "fail"
  BY <1>0 DEF MoveWorker
<1>2. worker' # [worker EXCEPT ![v] = IdleWorker] /\ ~ InventoryStop
  BY <1>0 DEF InventoryStop
<1>3. ASSUME NEW m \in DOMAIN orderEvents,
             FetchOrderEvent(v, m) \/ RedeliverOrderEvent(v, m)
      PROVE  FALSE
  <2> DEFINE r == [at |-> "reserve", msg |-> m, reason |-> ""]
  <2>1. worker' = [worker EXCEPT ![v] = r]
    BY <1>3 DEF FetchOrderEvent, RedeliverOrderEvent
  <2>2. r.at = "reserve"
    OBVIOUS
  <2> HIDE DEF r
  <2> QED
    BY <1>0, <2>1, <2>2
<1> QED
  BY <1>1, <1>2, <1>3, WhoMoves
     DEF WorkerStep, ReserveSucceeds, MarkOrderEvent, AckOrderEvent,
         PublishReserved, PublishReservationFailed

LEMMA WhoAcks ==
    ASSUME [Next]_vars
    PROVE  \/ inventoryAcked' = inventoryAcked
           \/ \E w \in Workers : AckOrderEvent(w)
           \/ \E w \in Workers, m \in DOMAIN orderEvents : SkipOrderEvent(w, m)
<1>1. OrderNext \/ KafkaNext \/ UNCHANGED vars => inventoryAcked' = inventoryAcked
  BY OrderServiceWrites, KafkaWrites DEF vars, topicVars
<1>2. InventoryNext =>
         \/ inventoryAcked' = inventoryAcked
         \/ \E w \in Workers : AckOrderEvent(w)
         \/ \E w \in Workers, m \in DOMAIN orderEvents : SkipOrderEvent(w, m)
  BY DEF InventoryNext, WorkerStep, ReserveSucceeds, ReserveRefused,
         ReserveErrs, MarkOrderEvent, PublishReserved, PublishReservationFailed,
         FetchOrderEvent, RedeliverOrderEvent, InventoryStop, AddStock, topicVars
<1> QED
  BY <1>1, <1>2 DEF Next

\* The consumer of the order service, with the tables that it alone writes.
ConsumerStep ==
    \/ \E m \in DOMAIN inventoryEvents : FetchResult(m)
    \/ MarkResult \/ ApplyResult \/ ApplyResultNotFound
    \/ PublishStatus \/ AckResult \/ OrderStop

LEMMA WhoConsumes ==
    ASSUME [Next]_vars
    PROVE  \/ UNCHANGED <<consumer, orderProcessed, applied, orderAcked>>
           \/ ConsumerStep
<1>1. OrderNext =>
         \/ UNCHANGED <<consumer, orderProcessed, applied, orderAcked>>
         \/ ConsumerStep
  BY DEF OrderNext, ConsumerStep, CreateOrder, PublishCreated,
         PublishCreatedFails, AdminUpdate, PublishAdminUpdate,
         PublishAdminUpdateFails, topicVars
<1>2. InventoryNext \/ KafkaNext \/ UNCHANGED vars =>
         UNCHANGED <<consumer, orderProcessed, applied, orderAcked>>
  BY InventoryServiceWrites, KafkaWrites DEF vars, orderVars, topicVars
<1> QED
  BY <1>1, <1>2 DEF Next

\* An id that was remembered or applied is never forgotten.
LEMMA MemoryGrows ==
    ASSUME [Next]_vars
    PROVE  /\ inventoryProcessed \subseteq inventoryProcessed'
           /\ orderProcessed \subseteq orderProcessed'
           /\ applied \subseteq applied'
<1>1. inventoryProcessed \subseteq inventoryProcessed'
  <2>1. InventoryNext => inventoryProcessed \subseteq inventoryProcessed'
    BY DEF InventoryNext, WorkerStep, ReserveSucceeds, ReserveRefused,
           ReserveErrs, MarkOrderEvent, AckOrderEvent, PublishReserved,
           PublishReservationFailed, SkipOrderEvent, FetchOrderEvent,
           RedeliverOrderEvent, InventoryStop, AddStock, inventoryVars
  <2> QED
    BY <2>1, OrderServiceWrites, KafkaWrites DEF Next, vars, inventoryVars
<1>2. orderProcessed \subseteq orderProcessed' /\ applied \subseteq applied'
  BY WhoConsumes DEF ConsumerStep, FetchResult, MarkResult, RememberResult,
     ApplyResult, ApplyResultNotFound, PublishStatus, AckResult, OrderStop
<1> QED
  BY <1>1, <1>2

-----------------------------------------------------------------------------
(***************************************************************************)
(* The acknowledgement of a request.  BlameInv: where no transaction is    *)
(* given up for the sake of the database, a failure that names the         *)
(* database is that of a COMMIT whose answer was lost: the stock is taken. *)
(***************************************************************************)
BlamesDatabase(e) ==
    e.type = "InventoryReservationFailed" /\ e.payload.reason = "dbError"

HasStock(x) == \E o \in Orders : o = x /\ Reserved(o)

BlameInv ==
    /\ \A m \in DOMAIN inventoryEvents :
          BlamesDatabase(inventoryEvents[m]) =>
             HasStock(inventoryEvents[m].payload.OrderID)
    /\ \A w \in Workers :
          worker[w].at = "fail" /\ worker[w].reason = "dbError" =>
             HasStock(Order(w).order)

LEMMA StockStays ==
    ASSUME TypeOK, MessagesInv, [Next]_vars, NEW x, HasStock(x)
    PROVE  \E o \in Orders : o = x /\ Reserved(o)'
  BY LedgerStep, ReservedStays DEF HasStock, TypeOK

\* The answer to COMMIT was lost.
LEMMA LostAnswerReserves ==
    ASSUME "database" \notin FaultKinds, TypeOK, MessagesInv,
           NEW w \in Workers, ReserveErrs(w)
    PROVE  \E o \in Orders : o = Order(w).order /\ Reserved(o)'
<1>1. worker[w].msg \in DOMAIN orderEvents
  BY DEF ReserveErrs, TypeOK
<1>2. ~ NothingToReserve(w) /\ Ledger!ReserveOrder(Order(w).order)
  BY DEF ReserveErrs, Fault
<1>3. PICK o \in Orders : o = Order(w).order
  BY <1>1, <1>2 DEF MessagesInv, NamesOrder, NothingToReserve, Order, Message,
                    AsInventoryOrder
<1>4. Reserved(o)'
  BY <1>2, <1>3, ReserveOrderReserves DEF TypeOK
<1> QED
  BY <1>3, <1>4

LEMMA BlameStays ==
    ASSUME "database" \notin FaultKinds, IndInv, BlameInv, [Next]_vars
    PROVE  BlameInv'
<1>0. TypeOK /\ MessagesInv
  BY DEF IndInv
<1>1. ASSUME NEW m \in DOMAIN inventoryEvents', BlamesDatabase(inventoryEvents'[m])
      PROVE  \E o \in Orders :
                o = inventoryEvents'[m].payload.OrderID /\ Reserved(o)'
  <2>1. CASE m \in DOMAIN inventoryEvents /\ inventoryEvents'[m] = inventoryEvents[m]
    BY <1>0, <1>1, <2>1, StockStays DEF BlameInv
  <2>2. ASSUME NEW e \in InventoryEvents, InventoryEventWritten(e),
               inventoryEvents'[m] = e
        PROVE  \E o \in Orders : o = e.payload.OrderID /\ Reserved(o)'
    <3>1. CASE \E n \in DOMAIN inventoryEvents : e = inventoryEvents[n]
      BY <1>0, <1>1, <2>2, <3>1, StockStays DEF BlameInv
    <3>2. ASSUME NEW w \in Workers, ResultWritten(e, w)
          PROVE  \E o \in Orders : o = e.payload.OrderID /\ Reserved(o)'
      <4>1. /\ worker[w].at = "fail" /\ worker[w].reason = "dbError"
            /\ e.payload.OrderID = Order(w).order
        BY <1>1, <2>2, <3>2 DEF ResultWritten, BlamesDatabase,
                                PublishReservationFailed
      <4> QED
        BY <1>0, <4>1, StockStays DEF BlameInv
    <3> QED
      BY <2>2, <3>1, <3>2 DEF InventoryEventWritten
  <2>3. \/ m \in DOMAIN inventoryEvents /\ inventoryEvents'[m] = inventoryEvents[m]
        \/ \E e \in InventoryEvents :
              InventoryEventWritten(e) /\ inventoryEvents'[m] = e
    <3>1. inventoryEvents \in Seq(InventoryEvents)
      BY <1>0 DEF TypeOK
    <3>2. ASSUME NEW e \in InventoryEvents, inventoryEvents' = Append(inventoryEvents, e)
          PROVE  \/ m \in DOMAIN inventoryEvents /\ inventoryEvents'[m] = inventoryEvents[m]
                 \/ inventoryEvents'[m] = e
      BY <1>1, <3>1, <3>2
    <3> QED
      BY <1>0, <1>1, <3>2, InventoryEventsStep
  <2> QED
    BY <2>1, <2>2, <2>3
<1>2. ASSUME NEW v \in Workers, worker'[v].at = "fail", worker'[v].reason = "dbError"
      PROVE  \E o \in Orders : o = Order(v)'.order /\ Reserved(o)'
  <2>0. worker[v].at # "idle" /\ worker'[v].msg = worker[v].msg
    BY <1>0, <1>2, WhoFails, StepKeepsMessage DEF WorkerStep
  <2>1. Order(v)' = Order(v)
    BY <1>0, <2>0, OrderInHandStays DEF Order
  <2>2. CASE worker'[v] = worker[v]
    <3>1. HasStock(Order(v).order)
      BY <1>2, <2>2 DEF BlameInv
    <3>2. \E o \in Orders : o = Order(v).order /\ Reserved(o)'
      BY <1>0, <3>1, StockStays
    <3> QED
      BY <2>1, <3>2
  <2>3. CASE worker'[v] # worker[v]
    <3>1. ~ ReserveRefused(v)
      <4>1. worker \in [Workers -> [at : WorkerSteps, msg : Nat, reason : Reasons]]
        BY <1>0 DEF TypeOK
      <4>2. \A reason : ReserveFails(v, reason) => reason = "dbError"
        BY <1>2, <4>1 DEF ReserveFails
      <4> QED
        BY <4>2 DEF ReserveRefused
    <3> QED
      BY <1>0, <1>2, <2>1, <2>3, <3>1, WhoFails, LostAnswerReserves
  <2> QED
    BY <2>2, <2>3
<1>3. \A m \in DOMAIN inventoryEvents' :
         BlamesDatabase(inventoryEvents'[m]) =>
            \E o \in Orders : o = inventoryEvents'[m].payload.OrderID /\ Reserved(o)'
  BY <1>1
<1>4. \A v \in Workers :
         worker'[v].at = "fail" /\ worker'[v].reason = "dbError" =>
            \E o \in Orders : o = Order(v)'.order /\ Reserved(o)'
  BY <1>2
<1> QED
  BY <1>3, <1>4 DEF BlameInv, HasStock, BlamesDatabase

(***************************************************************************)
(* At-least-once handling: a request is acknowledged only when its stock   *)
(* is reserved, or the order was turned down for what it asks, whatever    *)
(* stops, is delivered again or duplicated, and also when the answer to a  *)
(* COMMIT is lost: what the documents say is broken by a failure of the    *)
(* database, and by nothing else.                                          *)
(***************************************************************************)
THEOREM AckedIsHandled ==
    ASSUME "database" \notin FaultKinds
    PROVE  Spec => []AckedOrderHandled
<1>1. Init => BlameInv
  <2> SUFFICES ASSUME Init PROVE BlameInv
    OBVIOUS
  <2>1. \A w \in Workers : worker[w].at = "idle"
    BY DEF Init, IdleWorker
  <2> QED
    BY <2>1 DEF Init, BlameInv
<1>2. IndInv /\ BlameInv /\ [Next]_vars => BlameInv'
  BY BlameStays
<1>3. IndInv /\ BlameInv => AckedOrderHandled
  <2> SUFFICES ASSUME IndInv, BlameInv, NEW m \in inventoryAcked,
                      orderEvents[m].type = "OrderCreated", ItemsIn(m) # << >>
               PROVE  Reserved(OrderOf(m)) \/ Rejected(OrderOf(m))
    BY DEF AckedOrderHandled
  <2>1. Reserved(OrderOf(m)) \/ Decided(OrderOf(m))
    BY DEF IndInv, AckedHasOutcome, HandledMessage
  <2>2. ASSUME NEW n \in DOMAIN inventoryEvents,
               inventoryEvents[n].type = "InventoryReservationFailed",
               AsInventoryResult(inventoryEvents[n].payload).order = OrderOf(m)
        PROVE  Reserved(OrderOf(m)) \/ Rejected(OrderOf(m))
    <3>1. CASE inventoryEvents[n].payload.reason = "dbError"
      BY <2>2, <3>1 DEF BlameInv, BlamesDatabase, HasStock, AsInventoryResult,
                        Reserved
    <3>2. CASE inventoryEvents[n].payload.reason # "dbError"
      BY <2>2, <3>2 DEF Rejected, AsInventoryResult
    <3> QED
      BY <3>1, <3>2
  <2> QED
    BY <2>1, <2>2 DEF Decided
<1> QED
  BY <1>1, <1>2, <1>3, InductiveInvariant, PTL DEF Spec

-----------------------------------------------------------------------------
(***************************************************************************)
(* No order is lost.  Lemmas about the two acknowledgements: a request is  *)
(* acknowledged when it is marked as processed or has a result, a result   *)
(* when it is marked as processed.                                         *)
(***************************************************************************)
IsRequest(m) == orderEvents[m].type = "OrderCreated" /\ ItemsIn(m) # << >>

Answered(m) ==
    orderEvents[m].id \in inventoryProcessed \/ ResultsOf(OrderOf(m)) # {}

MarkedBeforeAck(w) ==
    worker[w].at \in {"ack", "publish"} => Message(w).id \in inventoryProcessed

RememberedBeforeAck ==
    /\ consumer.at \in {"publish", "ack"} => Result.id \in orderProcessed
    /\ \A m \in orderAcked : inventoryEvents[m].id \in orderProcessed

AckInv ==
    /\ \A w \in Workers : MarkedBeforeAck(w)
    /\ \A m \in inventoryAcked : IsRequest(m) => Answered(m)
    /\ RememberedBeforeAck

LEMMA MarkedStays ==
    ASSUME IndInv, AckInv, [Next]_vars, NEW v \in Workers
    PROVE  MarkedBeforeAck(v)'
<1> SUFFICES ASSUME worker'[v].at \in {"ack", "publish"}
             PROVE  Message(v)'.id \in inventoryProcessed'
  BY DEF MarkedBeforeAck
<1>0. /\ TypeOK /\ MessagesInv /\ MarkedBeforeAck(v)
      /\ worker \in [Workers -> [at : WorkerSteps, msg : Nat, reason : Reasons]]
  BY DEF IndInv, AckInv, TypeOK
<1>1. inventoryProcessed \subseteq inventoryProcessed'
  BY MemoryGrows
<1>2. ASSUME worker[v].at # "idle", worker'[v].msg = worker[v].msg,
             Message(v).id \in inventoryProcessed'
      PROVE  Message(v)'.id \in inventoryProcessed'
  BY <1>0, <1>2, OrderInHandStays
<1>3. CASE worker'[v] = worker[v]
  BY <1>0, <1>1, <1>2, <1>3 DEF MarkedBeforeAck
<1>4. CASE worker[v].at = "mark" /\ worker'[v].at = "ack" /\ worker'[v].msg = worker[v].msg
  <2>0. IdleWorker.at = "idle"
    BY DEF IdleWorker
  <2>1. worker'[v] # worker[v] /\ ~ InventoryStop
    BY <1>4, <2>0 DEF InventoryStop
  <2>2. MarkOrderEvent(v)
    BY <1>4, <2>1, WhoMoves, <1>0
       DEF WorkerStep, ReserveSucceeds, ReserveRefused, ReserveErrs,
           AckOrderEvent, PublishReserved, PublishReservationFailed,
           FetchOrderEvent, RedeliverOrderEvent
  <2> QED
    BY <1>2, <1>4, <2>2 DEF MarkOrderEvent
<1>5. CASE worker[v].at = "ack" /\ worker'[v].msg = worker[v].msg
  BY <1>0, <1>1, <1>2, <1>5 DEF MarkedBeforeAck
<1> QED
  BY <1>0, <1>3, <1>4, <1>5, WorkersStep DEF WorkerMove

\* A result in the topic stays the result of its order.
LEMMA ResultsStay ==
    ASSUME Extended(inventoryEvents', inventoryEvents), NEW o
    PROVE  ResultsOf(o) \subseteq ResultsOf(o)'
  BY DEF Extended, ResultsOf

LEMMA AnsweredStays ==
    ASSUME TypeOK, MessagesInv, [Next]_vars, NEW m \in DOMAIN orderEvents
    PROVE  /\ IsRequest(m)' = IsRequest(m)
           /\ OrderOf(m)' = OrderOf(m)
           /\ Answered(m) => Answered(m)'
<1>1. /\ Extended(orderEvents', orderEvents)
      /\ Extended(inventoryEvents', inventoryEvents)
  BY TopicsPreserve
<1>2. orderEvents'[m] = orderEvents[m]
  BY <1>1 DEF Extended
<1>3. OrderOf(m)' = OrderOf(m) /\ IsRequest(m)' = IsRequest(m)
  BY <1>2 DEF OrderOf, IsRequest, ItemsIn
<1>4. ResultsOf(OrderOf(m)) \subseteq ResultsOf(OrderOf(m))'
  <2> DEFINE o == OrderOf(m)
  <2>1. ResultsOf(o) \subseteq {x \in DOMAIN inventoryEvents' :
           AsInventoryResult(inventoryEvents'[x].payload).order = o}
    BY <1>1 DEF Extended, ResultsOf
  <2> QED
    BY <1>3, <2>1 DEF ResultsOf
<1>5. inventoryProcessed \subseteq inventoryProcessed'
  BY MemoryGrows
<1> QED
  BY <1>2, <1>3, <1>4, <1>5 DEF Answered

LEMMA AcksAreAnswered ==
    ASSUME IndInv, AckInv, [Next]_vars
    PROVE  \A m \in inventoryAcked' : (IsRequest(m) => Answered(m))'
<1>0. TypeOK /\ MessagesInv /\ inventoryAcked \subseteq DOMAIN orderEvents
  BY DEF IndInv, TypeOK
<1>1. \A m \in inventoryAcked' :
         m \in DOMAIN orderEvents /\ (IsRequest(m) => Answered(m))
  <2>1. CASE inventoryAcked' = inventoryAcked
    BY <1>0, <2>1 DEF AckInv
  <2>2. ASSUME NEW w \in Workers, AckOrderEvent(w)
        PROVE  \A m \in inventoryAcked' :
                  m \in DOMAIN orderEvents /\ (IsRequest(m) => Answered(m))
    <3>1. /\ inventoryAcked' = inventoryAcked \cup {worker[w].msg}
          /\ worker[w].at \in {"ack", "failAck"}
          /\ worker[w].msg \in DOMAIN orderEvents
      BY <1>0, <2>2 DEF AckOrderEvent, TypeOK
    <3>2. CASE worker[w].at = "ack"
      <4>1. orderEvents[worker[w].msg].id \in inventoryProcessed
        BY <3>2 DEF AckInv, MarkedBeforeAck, Message
      <4> QED
        BY <1>0, <3>1, <4>1 DEF AckInv, Answered
    <3>3. CASE worker[w].at = "failAck"
      <4>1. Decided(OrderOf(worker[w].msg))
        BY <3>3 DEF IndInv, WorkerInv, Order, Message, OrderOf, Decided
      <4>2. ResultsOf(OrderOf(worker[w].msg)) # {}
        BY <4>1 DEF Decided, ResultsOf
      <4> QED
        BY <1>0, <3>1, <4>2 DEF AckInv, Answered
    <3> QED
      BY <3>1, <3>2, <3>3
  <2>3. ASSUME NEW w \in Workers, NEW x \in DOMAIN orderEvents, SkipOrderEvent(w, x)
        PROVE  \A m \in inventoryAcked' :
                  m \in DOMAIN orderEvents /\ (IsRequest(m) => Answered(m))
    BY <1>0, <2>3 DEF SkipOrderEvent, AckInv, IsRequest
  <2> QED
    BY <2>1, <2>2, <2>3, WhoAcks
<1> QED
  BY <1>0, <1>1, AnsweredStays

LEMMA RememberedStays ==
    ASSUME IndInv, AckInv, [Next]_vars
    PROVE  RememberedBeforeAck'
<1> DEFINE Kept == /\ consumer'.at \in {"publish", "ack"} =>
                         /\ consumer'.msg \in DOMAIN inventoryEvents
                         /\ inventoryEvents[consumer'.msg].id \in orderProcessed'
                   /\ \A m \in orderAcked' :
                         /\ m \in DOMAIN inventoryEvents
                         /\ inventoryEvents[m].id \in orderProcessed'
<1>0. /\ TypeOK /\ MessagesInv
      /\ consumer \in [at : ConsumerSteps, msg : Nat]
      /\ consumer.at # "idle" => consumer.msg \in DOMAIN inventoryEvents
      /\ orderAcked \subseteq DOMAIN inventoryEvents
      /\ consumer.at = "update" => Result.id \in orderProcessed
      /\ consumer.at \in {"publish", "ack"} => Result.id \in orderProcessed
      /\ \A m \in orderAcked : inventoryEvents[m].id \in orderProcessed
  BY DEF IndInv, TypeOK, ConsumerInv, AckInv, RememberedBeforeAck
<1>1. orderProcessed \subseteq orderProcessed'
  BY MemoryGrows
<1>2. Kept
  <2>1. CASE UNCHANGED <<consumer, orderProcessed, applied, orderAcked>>
    BY <1>0, <2>1 DEF Result
  <2>2. CASE \E m \in DOMAIN inventoryEvents : FetchResult(m)
    BY <1>0, <1>1, <2>2 DEF FetchResult, topicVars
  <2>3. CASE MarkResult
    BY <1>0, <1>1, <2>3 DEF MarkResult, RememberResult, MoveConsumer, Result, topicVars
  <2>4. CASE ApplyResult \/ PublishStatus
    BY <1>0, <1>1, <2>4 DEF ApplyResult, PublishStatus, MoveConsumer, Result, topicVars
  <2>5. CASE ApplyResultNotFound \/ OrderStop
    BY <1>0, <1>1, <2>5 DEF ApplyResultNotFound, OrderStop, IdleConsumer, topicVars
  <2>6. CASE AckResult
    BY <1>0, <1>1, <2>6 DEF AckResult, IdleConsumer, Result
  <2> QED
    BY <2>1, <2>2, <2>3, <2>4, <2>5, <2>6, WhoConsumes DEF ConsumerStep
<1>3. \A m \in DOMAIN inventoryEvents : inventoryEvents'[m] = inventoryEvents[m]
  BY <1>0, ResultStays
<1> QED
  BY <1>2, <1>3 DEF RememberedBeforeAck, Result

\* Whoever acknowledges has remembered, in every reachable state.
LEMMA AcksRemembered == Spec => []AckInv
<1>1. Init => AckInv
  <2> SUFFICES ASSUME Init PROVE AckInv
    OBVIOUS
  <2>1. /\ \A w \in Workers : worker[w].at = "idle"
        /\ consumer.at = "idle"
    BY DEF Init, IdleWorker, IdleConsumer
  <2> QED
    BY <2>1 DEF Init, AckInv, MarkedBeforeAck, RememberedBeforeAck
<1>2. IndInv /\ AckInv /\ [Next]_vars => AckInv'
  <2> SUFFICES ASSUME IndInv, AckInv, [Next]_vars PROVE AckInv'
    OBVIOUS
  <2> QED
    BY MarkedStays, AcksAreAnswered, RememberedStays DEF AckInv
<1> QED
  BY <1>1, <1>2, InductiveInvariant, PTL DEF Spec

(***************************************************************************)
(* No order is lost but in the gaps: whatever stops, fails or is delivered *)
(* twice, an order that is CREATED is with somebody who will go on with    *)
(* it, or fell between a database and Kafka in one of the three places     *)
(* where the code writes to one after the other, or was decided before.    *)
(***************************************************************************)
THEOREM OrdersAreNotLost == Spec => []OrderNotLost
<1>1. IndInv /\ AckInv => OrderNotLost
  <2> SUFFICES ASSUME IndInv, AckInv, NEW o \in Orders,
                      ~ OnItsWay(o), ~ Unannounced(o), ~ Forgotten(o), ~ Reset(o)
               PROVE  Unanswered(o)
    BY DEF OrderNotLost
  <2>1. Requests(o) # {}
    BY DEF OnItsWay, Unannounced
  <2>2. \A m \in Requests(o) : m \in inventoryAcked /\ ~ InHand(m)
    BY DEF OnItsWay
  <2>3. ResultsOf(o) = {}
    <3> SUFFICES ASSUME NEW m \in ResultsOf(o) PROVE FALSE
      OBVIOUS
    <3>1. CASE inventoryEvents[m].id \in orderProcessed
      BY <3>1 DEF Forgotten, Reset, OnItsWay
    <3>2. CASE inventoryEvents[m].id \notin orderProcessed
      BY <3>2 DEF OnItsWay, AckInv, RememberedBeforeAck
    <3> QED
      BY <3>1, <3>2
  <2>4. \A m \in Requests(o) : orderEvents[m].id \in inventoryProcessed
    BY <2>2, <2>3 DEF Requests, AckInv, IsRequest, Answered
  <2> QED
    BY <2>1, <2>2, <2>3, <2>4 DEF Unanswered
<1> QED
  BY <1>1, InductiveInvariant, AcksRemembered, PTL

-----------------------------------------------------------------------------
(***************************************************************************)
(* Requests, when administrators do not set CREATED, whose event the       *)
(* inventory service takes for a new order.  CreationInv: every            *)
(* OrderCreated asks for the stock of an order that is stored, workers     *)
(* hold nothing else, and every result is about such an order.             *)
(***************************************************************************)
AdminsDoNotCreate == "CREATED" \notin AdminStatuses

AsksForOrder(e) ==
    e.type = "OrderCreated" =>
       e.payload.items # << >> /\ OrderExists(e.payload.order_id)

AnswersOrder(e) == OrderExists(e.payload.OrderID)

CreationInv ==
    /\ \A o \in creating : Admitted(o) /\ OrderExists(o)
    /\ \A m \in DOMAIN orderEvents : AsksForOrder(orderEvents[m])
    /\ \A m \in DOMAIN inventoryEvents : AnswersOrder(inventoryEvents[m])
    /\ \A w \in Workers : worker[w].at # "idle" => Message(w).type = "OrderCreated"

\* What becomes of the row of an order.
LEMMA WhoWritesStatus ==
    ASSUME [Next]_vars
    PROVE  \/ UNCHANGED status
           \/ \E o \in Orders : CreateOrder(o)
           \/ \E u \in AdminRequests : AdminUpdate(u)
           \/ ApplyResult
<1>1. OrderNext => \/ UNCHANGED status
                   \/ \E o \in Orders : CreateOrder(o)
                   \/ \E u \in AdminRequests : AdminUpdate(u)
                   \/ ApplyResult
  BY DEF OrderNext, PublishCreated, PublishCreatedFails, PublishAdminUpdate,
         PublishAdminUpdateFails, FetchResult, MarkResult,
         ApplyResultNotFound, PublishStatus, AckResult, OrderStop
<1>2. InventoryNext \/ KafkaNext \/ UNCHANGED vars => UNCHANGED status
  BY InventoryServiceWrites, KafkaWrites DEF vars, orderVars
<1> QED
  BY <1>1, <1>2 DEF Next

\* An order is never deleted.
LEMMA OrderStays ==
    ASSUME TypeOK, [Next]_vars, NEW o, OrderExists(o)
    PROVE  OrderExists(o)'
<1>1. status \in [Orders -> Statuses \cup {"absent"}] /\ "absent" \notin Statuses
  BY DEF TypeOK, Statuses
<1>2. \A x \in Orders : CreateOrder(x) => OrderExists(o)'
  BY <1>1 DEF CreateOrder, OrderExists
<1>3. ASSUME NEW u \in AdminRequests, AdminUpdate(u) PROVE OrderExists(o)'
  <2>1. u.status \in Statuses
    BY WorkflowAssumption DEF AdminRequests
  <2> QED
    BY <1>1, <1>3, <2>1 DEF AdminUpdate, OrderExists
<1>4. ApplyResult => OrderExists(o)'
  BY <1>1, EventTypes DEF ApplyResult, OrderExists
<1> QED
  BY <1>2, <1>3, <1>4, WhoWritesStatus DEF OrderExists

LEMMA CreatingStep ==
    ASSUME [Next]_vars
    PROVE  \/ creating' \subseteq creating
           \/ \E o \in Orders : CreateOrder(o)
<1>1. OrderNext => creating' \subseteq creating \/ \E o \in Orders : CreateOrder(o)
  BY DEF OrderNext, PublishCreated, PublishCreatedFails, AdminUpdate,
         PublishAdminUpdate, PublishAdminUpdateFails, FetchResult, MarkResult,
         ApplyResult, ApplyResultNotFound, PublishStatus, AckResult, OrderStop
<1> QED
  BY <1>1, InventoryServiceWrites, KafkaWrites DEF Next, vars, orderVars

\* Without the administrators, only the creation of an order is OrderCreated.
LEMMA OnlyCreationsCreate ==
    ASSUME AdminsDoNotCreate, NEW e, OrderEventWritten(e), e.type = "OrderCreated"
    PROVE  \/ \E o \in Orders : CreationWritten(e, o)
           \/ /\ "duplicate" \in FaultKinds
              /\ \E m \in DOMAIN orderEvents : e = orderEvents[m]
<1>1. \A s \in AdminStatuses \cup {"CONFIRMED", "CANCELLED"} :
         StatusEvent[s] # "OrderCreated"
  <2>1. \A s \in AdminStatuses \cup {"CONFIRMED", "CANCELLED"} :
           s \in Statuses /\ s # "CREATED"
    BY WorkflowAssumption DEF AdminsDoNotCreate, Statuses
  <2> QED
    BY <2>1, EventTypes
<1> QED
  BY <1>1 DEF OrderEventWritten

LEMMA RequestsPreserve ==
    ASSUME AdminsDoNotCreate, IndInv, CreationInv, [Next]_vars
    PROVE  /\ \A o \in creating' : (Admitted(o) /\ OrderExists(o))'
           /\ \A m \in DOMAIN orderEvents' : AsksForOrder(orderEvents[m])'
<1>0. TypeOK /\ MessagesInv /\ orderEvents \in Seq(OrderEvents)
  BY DEF IndInv, TypeOK
<1>1. \A o \in creating' : (Admitted(o) /\ OrderExists(o))'
  <2>1. \A o \in creating : (Admitted(o) /\ OrderExists(o))'
    BY <1>0, OrderStays DEF CreationInv, Admitted
  <2>2. ASSUME NEW o \in Orders, CreateOrder(o)
        PROVE  (Admitted(o) /\ OrderExists(o))' /\ creating' = creating \cup {o}
    BY <1>0, <2>2 DEF CreateOrder, Admitted, OrderExists, TypeOK
  <2> QED
    BY <2>1, <2>2, CreatingStep
<1>2. ASSUME NEW e, AsksForOrder(e) PROVE AsksForOrder(e)'
  BY <1>0, <1>2, OrderStays DEF AsksForOrder
<1>3. ASSUME NEW e \in OrderEvents, OrderEventWritten(e) PROVE AsksForOrder(e)
  <2>1. ASSUME NEW o \in Orders, CreationWritten(e, o) PROVE AsksForOrder(e)
    BY <2>1, CreatedPayload DEF CreationWritten, CreationInv, Admitted, AsksForOrder
  <2> QED
    BY <1>3, <2>1, OnlyCreationsCreate DEF AsksForOrder, CreationInv
<1>4. ASSUME NEW e \in OrderEvents, OrderEventWritten(e),
             orderEvents' = Append(orderEvents, e)
      PROVE  \A m \in DOMAIN orderEvents' : AsksForOrder(orderEvents'[m])
  <2>1. \A m \in DOMAIN orderEvents : orderEvents'[m] = orderEvents[m]
    BY <1>0, <1>4, AppendExtends DEF Extended
  <2>2. \A m \in DOMAIN orderEvents' : m \in DOMAIN orderEvents \/ orderEvents'[m] = e
    BY <1>0, <1>4, AppendExtends
  <2>3. AsksForOrder(e)
    BY <1>3, <1>4
  <2> QED
    BY <2>1, <2>2, <2>3 DEF CreationInv
<1>5. \A m \in DOMAIN orderEvents' : AsksForOrder(orderEvents'[m])
  BY <1>0, <1>4, OrderEventsStep DEF CreationInv
<1>6. \A m \in DOMAIN orderEvents' :
         \A e : e = orderEvents'[m] => AsksForOrder(e)'
  BY <1>2, <1>5
<1>7. \A m \in DOMAIN orderEvents' : AsksForOrder(orderEvents[m])'
  BY <1>6 DEF AsksForOrder
<1> QED
  BY <1>1, <1>7

\* A worker holds the creation of an order, also when it is redelivered.
LEMMA WorkersHoldCreations ==
    ASSUME IndInv, CreationInv, [Next]_vars, NEW v \in Workers,
           worker'[v].at # "idle"
    PROVE  Message(v)'.type = "OrderCreated"
<1>0. TypeOK /\ MessagesInv
  BY DEF IndInv
<1>1. Extended(orderEvents', orderEvents)
  BY <1>0, TopicsPreserve
<1>2. PICK m \in DOMAIN orderEvents : /\ orderEvents[m].type = "OrderCreated"
                                      /\ worker'[v].msg = m
  <2>1. CASE worker[v].at # "idle" /\ worker'[v].msg = worker[v].msg
    BY <1>0, <2>1 DEF CreationInv, Message, TypeOK
  <2>2. ASSUME NEW m \in DOMAIN orderEvents, InHand(m)
        PROVE  orderEvents[m].type = "OrderCreated"
    BY <2>2 DEF CreationInv, InHand, Message
  <2>3. WorkerMove(v)
    BY <1>0, WorkersStep
  <2>4. CASE worker'[v] = worker[v]
    BY <2>1, <2>4
  <2> QED
    BY <2>1, <2>2, <2>3, <2>4 DEF WorkerMove
<1> QED
  BY <1>1, <1>2 DEF Message, Extended

\* The order in the hands of a worker is stored, and has lines.
LEMMA HeldOrderExists ==
    ASSUME IndInv, CreationInv, NEW w \in Workers, worker[w].at # "idle"
    PROVE  /\ worker[w].msg \in DOMAIN orderEvents
           /\ Order(w).items # << >>
           /\ OrderExists(Order(w).order)
<1>1. worker[w].msg \in DOMAIN orderEvents
  BY DEF IndInv, TypeOK
<1>2. AsksForOrder(Message(w)) /\ Message(w).type = "OrderCreated"
  BY <1>1 DEF CreationInv, Message
<1> QED
  BY <1>1, <1>2 DEF AsksForOrder, Order, AsInventoryOrder

LEMMA ResultsPreserve ==
    ASSUME IndInv, CreationInv, [Next]_vars
    PROVE  \A m \in DOMAIN inventoryEvents' : AnswersOrder(inventoryEvents[m])'
<1>0. TypeOK /\ MessagesInv /\ inventoryEvents \in Seq(InventoryEvents)
  BY DEF IndInv, TypeOK
<1>1. ASSUME NEW e \in InventoryEvents, InventoryEventWritten(e) PROVE AnswersOrder(e)
  <2>1. ASSUME NEW w \in Workers, ResultWritten(e, w) PROVE AnswersOrder(e)
    <3>1. worker[w].at # "idle"
      BY <2>1 DEF ResultWritten, PublishReserved, PublishReservationFailed
    <3> QED
      BY <2>1, <3>1, HeldOrderExists DEF ResultWritten, AnswersOrder
  <2> QED
    BY <1>1, <2>1 DEF InventoryEventWritten, CreationInv
<1>2. \A m \in DOMAIN inventoryEvents' : AnswersOrder(inventoryEvents'[m])
  <2>1. ASSUME NEW e \in InventoryEvents, AnswersOrder(e),
               inventoryEvents' = Append(inventoryEvents, e)
        PROVE  \A m \in DOMAIN inventoryEvents' : AnswersOrder(inventoryEvents'[m])
    <3>1. \A m \in DOMAIN inventoryEvents : inventoryEvents'[m] = inventoryEvents[m]
      BY <1>0, <2>1, AppendExtends DEF Extended
    <3>2. \A m \in DOMAIN inventoryEvents' :
             m \in DOMAIN inventoryEvents \/ inventoryEvents'[m] = e
      BY <1>0, <2>1, AppendExtends
    <3> QED
      BY <2>1, <3>1, <3>2 DEF CreationInv
  <2> QED
    BY <1>0, <1>1, <2>1, InventoryEventsStep DEF CreationInv
<1>3. ASSUME NEW e, AnswersOrder(e) PROVE AnswersOrder(e)'
  BY <1>0, <1>3, OrderStays DEF AnswersOrder
<1>4. \A m \in DOMAIN inventoryEvents' :
         \A e : e = inventoryEvents'[m] => AnswersOrder(e)'
  BY <1>2, <1>3
<1> QED
  BY <1>4 DEF AnswersOrder

LEMMA OnlyRequestsAreCreations ==
    ASSUME AdminsDoNotCreate PROVE Spec => []CreationInv
<1>1. Init => CreationInv
  <2> SUFFICES ASSUME Init PROVE CreationInv
    OBVIOUS
  <2>1. \A w \in Workers : worker[w].at = "idle"
    BY DEF Init, IdleWorker
  <2>2. creating = {} /\ orderEvents = << >> /\ inventoryEvents = << >>
    BY DEF Init
  <2> QED
    BY <2>1, <2>2 DEF CreationInv
<1>2. IndInv /\ CreationInv /\ [Next]_vars => CreationInv'
  <2> SUFFICES ASSUME IndInv, CreationInv, [Next]_vars PROVE CreationInv'
    OBVIOUS
  <2> QED
    BY RequestsPreserve, WorkersHoldCreations, ResultsPreserve DEF CreationInv
<1> QED
  BY <1>1, <1>2, InductiveInvariant, PTL DEF Spec

-----------------------------------------------------------------------------
(***************************************************************************)
(* Each gap has its fault.  Announced: without a failed publication or a   *)
(* stop of the order service, an order is in its handler's hands or has    *)
(* its request in the topic.  Published: without a stop of the inventory   *)
(* service, a request is acknowledged only by a worker that has published  *)
(* a result or is about to.  Applied: without a stop of the order service, *)
(* a result that is remembered was applied, or is in hand to be.  Ids: a   *)
(* result is known by its id, also where the topic holds it twice.         *)
(* Settled: an order with a result that was applied is not CREATED.        *)
(***************************************************************************)
Announced ==
    FaultKinds \cap {"publish", "orderStop"} = {} =>
       \A o \in Orders :
          status[o] # "absent" => o \in creating \/ Requests(o) # {}

AboutToPublish(m) == \E w \in Workers : worker[w].at = "publish" /\ worker[w].msg = m

Published ==
    "inventoryStop" \notin FaultKinds =>
       \A m \in inventoryAcked :
          IsRequest(m) => ResultsOf(OrderOf(m)) # {} \/ AboutToPublish(m)

Applied ==
    "orderStop" \notin FaultKinds =>
       \A id \in orderProcessed \ applied :
          consumer.at = "update" /\ Result.id = id

Ids ==
    /\ \A m \in DOMAIN inventoryEvents :
          LET id == inventoryEvents[m].id
          IN  id \in DOMAIN inventoryEvents /\ inventoryEvents[id] = inventoryEvents[m]
    /\ orderProcessed \subseteq DOMAIN inventoryEvents

Settled ==
    \A o \in Orders :
       status[o] = "CREATED" =>
          \A m \in ResultsOf(o) : inventoryEvents[m].id \notin applied

LossInv == Announced /\ Published /\ Applied /\ Ids /\ Settled

\* The request that PublishCreated writes.
LEMMA CreationPublished ==
    ASSUME TypeOK, CreationInv, NEW o \in Orders, PublishCreated(o)
    PROVE  Requests(o)' # {}
<1> DEFINE payload == OrderCreatedPayload(o, OwnerOf[o], ItemsOf[o])
           e == NewEvent(orderEvents, "OrderCreated", payload)
<1>1. payload \in Payloads /\ payload.order_id = o /\ payload.items # << >>
  BY CreatedPayload DEF PublishCreated, CreationInv, Admitted
<1>2. /\ e \in OrderEvents
      /\ e.type = "OrderCreated" /\ e.payload = payload
      /\ Publish(orderEvents, "OrderCreated", payload) = Append(orderEvents, e)
  <2>1. "OrderCreated" \in OrderEventTypes
    BY EventTypes
  <2> HIDE DEF payload
  <2> QED
    BY <1>1, <2>1, NewOrderEvent
<1>3. orderEvents' = Append(orderEvents, e) /\ orderEvents \in Seq(OrderEvents)
  BY <1>2 DEF PublishCreated, TypeOK
<1>4. /\ Len(orderEvents) + 1 \in DOMAIN orderEvents'
      /\ orderEvents'[Len(orderEvents) + 1] = e
  BY <1>2, <1>3
<1> QED
  BY <1>1, <1>2, <1>4 DEF Requests, OrderOf, ItemsIn, AsInventoryOrder

LEMMA RequestsStay ==
    ASSUME TypeOK, MessagesInv, [Next]_vars, NEW o
    PROVE  Requests(o) \subseteq Requests(o)'
  BY TopicsPreserve DEF Extended, Requests, OrderOf, ItemsIn

LEMMA AnnouncedStays ==
    ASSUME IndInv, CreationInv, Announced, [Next]_vars
    PROVE  Announced'
<1> SUFFICES ASSUME FaultKinds \cap {"publish", "orderStop"} = {},
                    NEW o \in Orders, status'[o] # "absent"
             PROVE  o \in creating' \/ Requests(o)' # {}
  BY DEF Announced
<1>0. TypeOK /\ MessagesInv /\ status \in [Orders -> Statuses \cup {"absent"}]
  BY DEF IndInv, TypeOK
<1>1. CASE status[o] = "absent"
  <2>1. ~ \E u \in AdminRequests : AdminUpdate(u) /\ u.order = o
    BY <1>1 DEF AdminUpdate, OrderExists
  <2>2. ~ (ApplyResult /\ ResultOrder = o)
    BY <1>1 DEF ApplyResult, OrderExists
  <2>3. \E x \in Orders : CreateOrder(x) /\ x = o
    BY <1>0, <1>1, <2>1, <2>2, WhoWritesStatus
       DEF CreateOrder, AdminUpdate, ApplyResult
  <2> QED
    BY <2>3 DEF CreateOrder
<1>2. CASE o \in creating
  <2>1. OrderNext => o \in creating' \/ PublishCreated(o)
    BY <1>2 DEF OrderNext, CreateOrder, PublishCreated, PublishCreatedFails,
           AdminUpdate, PublishAdminUpdate, PublishAdminUpdateFails,
           FetchResult, MarkResult, ApplyResult, ApplyResultNotFound,
           PublishStatus, AckResult, OrderStop, Fault
  <2>2. InventoryNext \/ KafkaNext \/ UNCHANGED vars => creating' = creating
    BY InventoryServiceWrites, KafkaWrites DEF vars, orderVars
  <2> QED
    BY <1>0, <1>2, <2>1, <2>2, CreationPublished DEF Next
<1>3. CASE Requests(o) # {}
  BY <1>0, <1>3, RequestsStay
<1> QED
  BY <1>1, <1>2, <1>3 DEF Announced

\* PublishReserved writes a result for the order in hand.
LEMMA SuccessPublished ==
    ASSUME TypeOK, NEW w \in Workers, PublishReserved(w), NEW o, o = Order(w).order
    PROVE  ResultsOf(o)' # {}
<1> DEFINE payload == InventoryResultPayload(Order(w).order, Order(w).user, "")
           e == NewEvent(inventoryEvents, "InventoryReserved", payload)
<1>1. payload \in Payloads /\ payload.OrderID = o
  BY InHandType, ResultPayload, EventTypes DEF PublishReserved
<1>2. /\ e \in InventoryEvents /\ e.payload = payload
      /\ Publish(inventoryEvents, "InventoryReserved", payload)
            = Append(inventoryEvents, e)
  <2>1. "InventoryReserved" \in InventoryEventTypes
    BY EventTypes
  <2> HIDE DEF payload
  <2> QED
    BY <1>1, <2>1, NewInventoryEvent
<1>3. /\ inventoryEvents' = Append(inventoryEvents, e)
      /\ inventoryEvents \in Seq(InventoryEvents)
  BY <1>2 DEF PublishReserved, TypeOK
<1> HIDE DEF e, payload
<1>4. /\ Len(inventoryEvents) + 1 \in DOMAIN inventoryEvents'
      /\ inventoryEvents'[Len(inventoryEvents) + 1] = e
  BY <1>2, <1>3
<1> QED
  BY <1>1, <1>2, <1>4 DEF ResultsOf, AsInventoryResult

LEMMA PublishedStays ==
    ASSUME IndInv, CreationInv, Published, [Next]_vars
    PROVE  Published'
<1> SUFFICES ASSUME "inventoryStop" \notin FaultKinds,
                    NEW m \in inventoryAcked', IsRequest(m)'
             PROVE  (ResultsOf(OrderOf(m)) # {})' \/ AboutToPublish(m)'
  BY DEF Published
<1>0. /\ TypeOK /\ MessagesInv /\ inventoryAcked \subseteq DOMAIN orderEvents
      /\ worker \in [Workers -> [at : WorkerSteps, msg : Nat, reason : Reasons]]
  BY DEF IndInv, TypeOK
<1>1. m \in DOMAIN orderEvents => IsRequest(m) /\ OrderOf(m)' = OrderOf(m)
  BY <1>0, AnsweredStays
<1>2. \A o : ResultsOf(o) \subseteq ResultsOf(o)'
  BY <1>0, TopicsPreserve, ResultsStay
<1>3. CASE m \in inventoryAcked /\ ResultsOf(OrderOf(m)) # {}
  <2>1. PICK o : o = OrderOf(m)
    OBVIOUS
  <2>2. ResultsOf(o)' # {}
    BY <1>2, <1>3, <2>1
  <2> QED
    BY <1>0, <1>1, <1>3, <2>1, <2>2 DEF ResultsOf
<1>4. CASE m \in inventoryAcked /\ AboutToPublish(m)
  <2>1. PICK w \in Workers : worker[w].at = "publish" /\ worker[w].msg = m
    BY <1>4 DEF AboutToPublish
  <2>2. CASE worker'[w] = worker[w]
    BY <2>1, <2>2 DEF AboutToPublish
  <2>3. CASE worker'[w] # worker[w]
    <3>1. PublishReserved(w)
      BY <1>0, <2>1, <2>3, WhoMoves
         DEF WorkerStep, ReserveSucceeds, ReserveRefused, ReserveErrs,
             MarkOrderEvent, AckOrderEvent, PublishReservationFailed,
             FetchOrderEvent, RedeliverOrderEvent, InventoryStop, Fault
    <3>2. PICK o : o = Order(w).order
      OBVIOUS
    <3>3. o = OrderOf(m)
      BY <2>1, <3>2 DEF Order, Message, OrderOf
    <3>4. ResultsOf(o)' # {}
      BY <1>0, <3>1, <3>2, SuccessPublished
    <3> QED
      BY <1>0, <1>1, <1>4, <3>3, <3>4 DEF ResultsOf
  <2> QED
    BY <2>2, <2>3
<1>5. ASSUME NEW w \in Workers, AckOrderEvent(w), m = worker[w].msg
      PROVE  (ResultsOf(OrderOf(m)) # {})' \/ AboutToPublish(m)'
  <2>1. worker[w].msg \in DOMAIN orderEvents
    BY <1>0, <1>5 DEF AckOrderEvent, TypeOK
  <2>2. CASE worker[w].at = "ack" /\ MoveWorker(w, "publish")
    BY <1>0, <1>5, <2>2 DEF MoveWorker, AboutToPublish
  <2>3. CASE worker[w].at = "failAck"
    <3>1. Decided(Order(w).order)
      BY <2>3 DEF IndInv, WorkerInv
    <3>2. PICK o : o = Order(w).order
      OBVIOUS
    <3>3. o = OrderOf(m)
      BY <1>5, <3>2 DEF Order, Message, OrderOf
    <3>4. ResultsOf(o) # {}
      BY <3>1, <3>2 DEF Decided, ResultsOf
    <3>5. ResultsOf(o)' # {}
      BY <1>2, <3>4
    <3> QED
      BY <1>1, <1>5, <2>1, <3>3, <3>5 DEF ResultsOf
  <2> QED
    BY <1>5, <2>2, <2>3 DEF AckOrderEvent
<1>6. ASSUME NEW w \in Workers, NEW x \in DOMAIN orderEvents, SkipOrderEvent(w, x)
      PROVE  m \in inventoryAcked
  BY <1>0, <1>1, <1>6 DEF SkipOrderEvent, IsRequest
<1>7. \/ m \in inventoryAcked
      \/ \E w \in Workers : AckOrderEvent(w) /\ m = worker[w].msg
  BY <1>6, WhoAcks DEF AckOrderEvent
<1> QED
  BY <1>0, <1>1, <1>3, <1>4, <1>5, <1>7 DEF Published

LEMMA AppliedStays ==
    ASSUME IndInv, CreationInv, Applied, [Next]_vars
    PROVE  Applied'
<1> SUFFICES ASSUME "orderStop" \notin FaultKinds,
                    NEW id \in orderProcessed' \ applied'
             PROVE  consumer'.at = "update" /\ Result'.id = id
  BY DEF Applied
<1>0. /\ TypeOK /\ MessagesInv /\ applied \subseteq orderProcessed
      /\ consumer \in [at : ConsumerSteps, msg : Nat]
      /\ consumer.at # "idle" => consumer.msg \in DOMAIN inventoryEvents
      /\ \A x \in orderProcessed \ applied : consumer.at = "update" /\ Result.id = x
  BY DEF IndInv, TypeOK, ConsumerInv, Applied
<1>1. /\ consumer'.at = "update" /\ consumer'.msg \in DOMAIN inventoryEvents
      /\ inventoryEvents[consumer'.msg].id = id
  <2>1. CASE UNCHANGED <<consumer, orderProcessed, applied, orderAcked>>
    BY <1>0, <2>1 DEF Result
  <2>2. CASE MarkResult
    BY <1>0, <2>2 DEF MarkResult, RememberResult, MoveConsumer, Result
  <2>3. CASE ApplyResult
    BY <1>0, <2>3 DEF ApplyResult
  <2>4. CASE ApplyResultNotFound
    <3>1. consumer.msg \in DOMAIN inventoryEvents /\ ~ OrderExists(ResultOrder)
      BY <1>0, <2>4 DEF ApplyResultNotFound
    <3> QED
      BY <3>1 DEF CreationInv, AnswersOrder, ResultOrder, AsInventoryResult, Result
  <2>5. CASE \/ \E m \in DOMAIN inventoryEvents : FetchResult(m)
             \/ PublishStatus \/ AckResult
    BY <1>0, <2>5 DEF FetchResult, PublishStatus, AckResult
  <2>6. ~ OrderStop
    BY DEF OrderStop, Fault
  <2> QED
    BY <2>1, <2>2, <2>3, <2>4, <2>5, <2>6, WhoConsumes DEF ConsumerStep
<1>2. inventoryEvents'[consumer'.msg] = inventoryEvents[consumer'.msg]
  BY <1>0, <1>1, ResultStays
<1> QED
  BY <1>1, <1>2 DEF Result

LEMMA IdsStay ==
    ASSUME IndInv, Ids, [Next]_vars
    PROVE  Ids'
<1>0. /\ TypeOK /\ MessagesInv /\ inventoryEvents \in Seq(InventoryEvents)
      /\ consumer.at # "idle" => consumer.msg \in DOMAIN inventoryEvents
  BY DEF IndInv, TypeOK
<1>1. orderProcessed' \subseteq DOMAIN inventoryEvents
  <2>1. MarkResult => Result.id \in DOMAIN inventoryEvents
    BY <1>0 DEF MarkResult, Ids, Result
  <2> QED
    BY <2>1, WhoConsumes
       DEF Ids, ConsumerStep, FetchResult, MarkResult, RememberResult, ApplyResult,
           ApplyResultNotFound, PublishStatus, AckResult, OrderStop
<1>2. CASE inventoryEvents' = inventoryEvents
  BY <1>1, <1>2 DEF Ids
<1>3. ASSUME NEW e \in InventoryEvents, InventoryEventWritten(e),
             inventoryEvents' = Append(inventoryEvents, e)
      PROVE  Ids'
  <2> DEFINE n == Len(inventoryEvents) + 1
  <2>1. /\ \A m \in DOMAIN inventoryEvents :
              m \in DOMAIN inventoryEvents' /\ inventoryEvents'[m] = inventoryEvents[m]
        /\ DOMAIN inventoryEvents' = DOMAIN inventoryEvents \cup {n}
        /\ inventoryEvents'[n] = e
    BY <1>0, <1>3, AppendExtends DEF Extended
  <2>2. e.id = n \/ \E m \in DOMAIN inventoryEvents : e = inventoryEvents[m]
    BY <1>3 DEF InventoryEventWritten, ResultWritten
  <2> HIDE DEF n
  <2> QED
    BY <1>1, <2>1, <2>2 DEF Ids
<1> QED
  BY <1>0, <1>2, <1>3, InventoryEventsStep

LEMMA SettledStays ==
    ASSUME AdminsDoNotCreate, IndInv, CreationInv, Ids, Settled, [Next]_vars
    PROVE  Settled'
<1> SUFFICES ASSUME NEW o \in Orders, status'[o] = "CREATED", NEW m \in ResultsOf(o)'
             PROVE  inventoryEvents'[m].id \notin applied'
  BY DEF Settled
<1>0. /\ TypeOK /\ MessagesInv /\ inventoryEvents \in Seq(InventoryEvents)
      /\ consumer.at # "idle" => consumer.msg \in DOMAIN inventoryEvents
      /\ status \in [Orders -> Statuses \cup {"absent"}]
      /\ applied \subseteq DOMAIN inventoryEvents
  BY DEF IndInv, TypeOK, ConsumerInv, Ids
<1>1. CASE OrderNext
  <2>1. inventoryEvents' = inventoryEvents /\ m \in ResultsOf(o)
    BY <1>1, OrderServiceWrites DEF ResultsOf
  <2>2. inventoryEvents[m].payload.OrderID = o /\ m \in DOMAIN inventoryEvents
    BY <2>1 DEF ResultsOf, AsInventoryResult
  <2>3. status[o] # "absent"
    BY <2>2 DEF CreationInv, AnswersOrder, OrderExists
  <2>4. CASE ApplyResult
    <3>1. /\ status' = [status EXCEPT ![ResultOrder] = ResultStatus]
          /\ applied' = applied \cup {Result.id}
          /\ consumer.msg \in DOMAIN inventoryEvents
      BY <1>0, <2>4 DEF ApplyResult
    <3>2. ResultOrder # o /\ status[o] = "CREATED"
      BY <1>0, <3>1, EventTypes
    <3>3. Result.id # inventoryEvents[m].id
      BY <2>2, <3>1, <3>2 DEF Ids, ResultOrder, AsInventoryResult, Result
    <3> QED
      BY <2>1, <3>1, <3>2, <3>3 DEF Settled
  <2>5. CASE ~ ApplyResult
    <3>1. applied' = applied
      BY <2>5, WhoConsumes DEF ConsumerStep, FetchResult, MarkResult,
         ApplyResultNotFound, PublishStatus, AckResult, OrderStop
    <3>2. \A u \in AdminRequests : u.status # "CREATED"
      BY DEF AdminRequests, AdminsDoNotCreate
    <3>3. status[o] = "CREATED"
      BY <1>0, <2>3, <2>5, <3>2, WhoWritesStatus DEF CreateOrder, AdminUpdate
    <3> QED
      BY <2>1, <3>1, <3>3 DEF Settled
  <2> QED
    BY <2>4, <2>5
<1>2. CASE ~ OrderNext
  <2>1. status' = status /\ applied' = applied
    BY <1>2, InventoryServiceWrites, KafkaWrites DEF Next, vars, orderVars
  <2>2. \A x \in ResultsOf(o) : inventoryEvents[x].id \notin applied
    BY <2>1 DEF Settled
  <2>3. m \in DOMAIN inventoryEvents' /\ inventoryEvents'[m].payload.OrderID = o
    BY DEF ResultsOf, AsInventoryResult
  <2>4. ASSUME NEW x \in DOMAIN inventoryEvents, inventoryEvents'[m] = inventoryEvents[x]
        PROVE  inventoryEvents'[m].id \notin applied'
    BY <2>1, <2>2, <2>3, <2>4 DEF ResultsOf, AsInventoryResult
  <2>5. CASE inventoryEvents' = inventoryEvents
    BY <2>3, <2>4, <2>5
  <2>6. ASSUME NEW e \in InventoryEvents, InventoryEventWritten(e),
               inventoryEvents' = Append(inventoryEvents, e)
        PROVE  inventoryEvents'[m].id \notin applied'
    <3>1. /\ \A x \in DOMAIN inventoryEvents : inventoryEvents'[x] = inventoryEvents[x]
          /\ m \in DOMAIN inventoryEvents \/ inventoryEvents'[m] = e
      BY <1>0, <2>3, <2>6, AppendExtends DEF Extended
    <3>2. CASE inventoryEvents'[m] = e /\ e.id = Len(inventoryEvents) + 1
      BY <1>0, <2>1, <3>2
    <3> QED
      BY <2>4, <2>6, <3>1, <3>2 DEF InventoryEventWritten, ResultWritten
  <2> QED
    BY <1>0, <2>5, <2>6, InventoryEventsStep
<1> QED
  BY <1>1, <1>2

(***************************************************************************)
(* Each gap is opened by its own fault: where administrators do not set    *)
(* CREATED, an order that is CREATED is on its way, unless a publication   *)
(* of the order service failed or it stopped before it (the request), the  *)
(* inventory service stopped between acknowledgement and publication (the  *)
(* result), or the order service between its two tables (the status).      *)
(***************************************************************************)
THEOREM LossesNeedFaults ==
    ASSUME AdminsDoNotCreate PROVE Spec => []LossNeedsFault
<1>1. Init => LossInv
  BY DEF Init, LossInv, Announced, Published, Applied, Ids, Settled, ResultsOf
<1>2. IndInv /\ CreationInv /\ LossInv /\ [Next]_vars => LossInv'
  <2> SUFFICES ASSUME IndInv, CreationInv, LossInv, [Next]_vars PROVE LossInv'
    OBVIOUS
  <2> QED
    BY AnnouncedStays, PublishedStays, AppliedStays, IdsStay, SettledStays DEF LossInv
<1>3. IndInv /\ LossInv /\ OrderNotLost => LossNeedsFault
  <2> SUFFICES ASSUME LossInv, OrderNotLost, NEW o \in Orders,
                      status[o] = "CREATED", ~ OnItsWay(o)
               PROVE  \/ Unannounced(o) /\ FaultKinds \cap {"publish", "orderStop"} # {}
                      \/ Unanswered(o) /\ "inventoryStop" \in FaultKinds
                      \/ Forgotten(o) /\ "orderStop" \in FaultKinds
    BY DEF LossNeedsFault
  <2>1. Unannounced(o) => FaultKinds \cap {"publish", "orderStop"} # {}
    BY DEF LossInv, Announced, Unannounced
  <2>2. ASSUME Unanswered(o) PROVE "inventoryStop" \in FaultKinds
    <3>1. PICK m \in Requests(o) : m \in inventoryAcked /\ ~ InHand(m)
      BY <2>2 DEF Unanswered
    <3>2. IsRequest(m) /\ OrderOf(m) = o /\ ~ AboutToPublish(m)
      BY <3>1 DEF Requests, IsRequest, AboutToPublish, InHand
    <3> QED
      BY <2>2, <3>1, <3>2 DEF LossInv, Published, Unanswered
  <2>3. Forgotten(o) => "orderStop" \in FaultKinds
    BY DEF LossInv, Applied, Forgotten
  <2>4. ~ Reset(o)
    BY DEF LossInv, Settled, Reset
  <2> QED
    BY <2>1, <2>2, <2>3, <2>4 DEF OrderNotLost
<1>4. Spec => []CreationInv
  BY OnlyRequestsAreCreations
<1> QED
  BY <1>1, <1>2, <1>3, <1>4, InductiveInvariant, OrdersAreNotLost, PTL DEF Spec

-----------------------------------------------------------------------------
(***************************************************************************)
(* Confirmation, when administrators set neither CREATED nor CONFIRMED.    *)
(* ConfirmInv: the claim that an order is reserved travels from the worker *)
(* that reserved it, through its message and the result, to the status.    *)
(***************************************************************************)
AdminsDoNotConfirm == AdminsDoNotCreate /\ "CONFIRMED" \notin AdminStatuses

NamesReserved(e) ==
    e.type = "InventoryReserved" =>
       \E o \in Orders : o = e.payload.OrderID /\ Reserved(o)

SuccessesReserved ==
    \A m \in DOMAIN inventoryEvents : NamesReserved(inventoryEvents[m])

ConfirmInv == SuccessesReserved /\ ConfirmedIsReserved

\* Every success in the topic is about an order that is reserved.
LEMMA SuccessesNameReserved ==
    ASSUME IndInv, CreationInv, SuccessesReserved, [Next]_vars
    PROVE  SuccessesReserved'
<1>0. TypeOK /\ MessagesInv /\ inventoryEvents \in Seq(InventoryEvents)
  BY DEF IndInv, TypeOK
<1>1. \A o \in Orders : Reserved(o) => Reserved(o)'
  BY <1>0, LedgerStep, ReservedStays DEF TypeOK
<1>2. \A m \in DOMAIN inventoryEvents : NamesReserved(inventoryEvents[m])
  BY DEF SuccessesReserved
<1>3. ASSUME NEW e \in InventoryEvents, InventoryEventWritten(e)
      PROVE  NamesReserved(e)
  <2>1. ASSUME NEW w \in Workers, ResultWritten(e, w), e.type = "InventoryReserved"
        PROVE  NamesReserved(e)
    <3>1. worker[w].at = "publish" /\ e.payload.OrderID = Order(w).order
      BY <2>1 DEF ResultWritten, PublishReserved
    <3>2. Order(w).items # << >> /\ Order(w).order \in Orders
      BY <3>1, HeldOrderExists DEF OrderExists
    <3>3. Reserved(Order(w).order)
      BY <3>1, <3>2 DEF IndInv, WorkerInv, NothingToReserve
    <3> QED
      BY <3>1, <3>2, <3>3 DEF NamesReserved
  <2>2. CASE e.type # "InventoryReserved"
    BY <2>2 DEF NamesReserved
  <2>3. CASE \E m \in DOMAIN inventoryEvents : e = inventoryEvents[m]
    BY <1>2, <2>3
  <2> QED
    BY <1>3, <2>1, <2>2, <2>3 DEF InventoryEventWritten
<1>4. \A m \in DOMAIN inventoryEvents' :
         \E e : e = inventoryEvents'[m] /\ NamesReserved(e)
  <2>1. CASE inventoryEvents' = inventoryEvents
    BY <1>2, <2>1
  <2>2. ASSUME NEW e \in InventoryEvents, InventoryEventWritten(e),
               inventoryEvents' = Append(inventoryEvents, e)
        PROVE  \A m \in DOMAIN inventoryEvents' :
                  \E x : x = inventoryEvents'[m] /\ NamesReserved(x)
    <3>1. \A m \in DOMAIN inventoryEvents : inventoryEvents'[m] = inventoryEvents[m]
      BY <1>0, <2>2, AppendExtends DEF Extended
    <3>2. \A m \in DOMAIN inventoryEvents' :
             m \in DOMAIN inventoryEvents \/ inventoryEvents'[m] = e
      BY <1>0, <2>2, AppendExtends
    <3> QED
      BY <1>2, <1>3, <2>2, <3>1, <3>2
  <2> QED
    BY <1>0, <2>1, <2>2, InventoryEventsStep
<1> QED
  BY <1>1, <1>4 DEF SuccessesReserved, NamesReserved

\* Only a result that names a reserved order confirms one.
LEMMA ConfirmsReserved ==
    ASSUME AdminsDoNotConfirm, IndInv, ConfirmInv, [Next]_vars
    PROVE  ConfirmedIsReserved'
<1>0. TypeOK /\ MessagesInv /\ status \in [Orders -> Statuses \cup {"absent"}]
  BY DEF IndInv, TypeOK
<1>1. \A o \in Orders : Reserved(o) => Reserved(o)'
  BY <1>0, LedgerStep, ReservedStays DEF TypeOK
<1>2. \A o \in Orders : status'[o] = "CONFIRMED" => Reserved(o)
  <2>1. CASE UNCHANGED status
    BY <2>1 DEF ConfirmInv, ConfirmedIsReserved
  <2>2. CASE \E o \in Orders : CreateOrder(o)
    BY <1>0, <2>2 DEF CreateOrder, ConfirmInv, ConfirmedIsReserved
  <2>3. CASE \E u \in AdminRequests : AdminUpdate(u)
    <3>1. \A u \in AdminRequests : u.status # "CONFIRMED"
      BY DEF AdminRequests, AdminsDoNotConfirm
    <3> QED
      BY <1>0, <2>3, <3>1 DEF AdminUpdate, ConfirmInv, ConfirmedIsReserved
  <2>4. CASE ApplyResult
    <3>1. consumer.msg \in DOMAIN inventoryEvents
      BY <1>0, <2>4 DEF ApplyResult, TypeOK
    <3>2. Result \in InventoryEvents /\ NamesReserved(Result)
      BY <1>0, <3>1, TopicsType DEF Result, ConfirmInv, SuccessesReserved
    <3>3. ResultStatus = "CONFIRMED" => Result.type = "InventoryReserved"
      BY <3>2 DEF ResultStatus, InventoryEvents, InventoryEventTypes
    <3>4. ResultStatus = "CONFIRMED" => Reserved(ResultOrder)
      BY <3>2, <3>3 DEF NamesReserved, ResultOrder, AsInventoryResult, Reserved
    <3>5. status' = [status EXCEPT ![ResultOrder] = ResultStatus]
      BY <2>4 DEF ApplyResult
    <3> SUFFICES ASSUME NEW o \in Orders, status'[o] = "CONFIRMED"
                 PROVE  Reserved(o)
      OBVIOUS
    <3>6. CASE o = ResultOrder
      BY <1>0, <3>4, <3>5, <3>6 DEF Reserved
    <3>7. CASE o # ResultOrder
      BY <1>0, <3>5, <3>7 DEF ConfirmInv, ConfirmedIsReserved
    <3> QED
      BY <3>6, <3>7
  <2> QED
    BY <2>1, <2>2, <2>3, <2>4, WhoWritesStatus
<1> QED
  BY <1>1, <1>2 DEF ConfirmedIsReserved

(***************************************************************************)
(* An order is CONFIRMED only when its stock is reserved, as long as no    *)
(* administrator sets CONFIRMED, or CREATED, whose event the inventory     *)
(* service takes for a new order without lines.                            *)
(***************************************************************************)
THEOREM ConfirmedHasStock ==
    ASSUME AdminsDoNotConfirm PROVE Spec => []ConfirmedIsReserved
<1>1. Init => ConfirmInv
  BY DEF Init, ConfirmInv, SuccessesReserved, ConfirmedIsReserved
<1>2. IndInv /\ CreationInv /\ ConfirmInv /\ [Next]_vars => ConfirmInv'
  <2> SUFFICES ASSUME IndInv, CreationInv, ConfirmInv, [Next]_vars PROVE ConfirmInv'
    OBVIOUS
  <2> QED
    BY SuccessesNameReserved, ConfirmsReserved DEF ConfirmInv
<1>3. ConfirmInv => ConfirmedIsReserved
  BY DEF ConfirmInv
<1>4. Spec => []CreationInv
  BY OnlyRequestsAreCreations DEF AdminsDoNotConfirm
<1> QED
  BY <1>1, <1>2, <1>3, <1>4, InductiveInvariant, PTL DEF Spec

-----------------------------------------------------------------------------
(***************************************************************************)
(* Cancellation.  The two outcomes of an order exclude each other as long  *)
(* as its request is handled in one attempt (no copies in the topic, no    *)
(* redelivery, no worker that stops between its answer and its             *)
(* acknowledgement) and a worker that sees an error knows that nothing was *)
(* committed.  AttemptInv: the order is asked for once and its request is  *)
(* held once; a reservation is the work of the one who got past            *)
(* ReserveOrder with the request, and nobody reserves after a failure was  *)
(* published.                                                              *)
(***************************************************************************)
OneAttempt == FaultKinds \cap {"redelivery", "duplicate", "inventoryStop"} = {}

\* No answer to COMMIT is lost.
OutcomeKnown == "commitLost" \notin FaultKinds

AdminsDoNotCancel == AdminsDoNotCreate /\ "CANCELLED" \notin AdminStatuses

AskedOnce ==
    \A o \in Orders :
       /\ o \in creating => Requests(o) = {}
       /\ \A m, n \in Requests(o) : m = n

Holds(w, m) == worker[w].at # "idle" /\ worker[w].msg = m

HeldOnce == \A v, w \in Workers, m \in DOMAIN orderEvents :
               Holds(v, m) /\ Holds(w, m) => v = w

HeldUnacked ==
    \A w \in Workers :
       worker[w].at \notin {"idle", "publish"} => worker[w].msg \notin inventoryAcked

\* The attempt of message m got its stock.
ReservedFor(m) ==
    \/ m \in inventoryAcked
    \/ \E w \in Workers : worker[w].at \in {"mark", "ack"} /\ worker[w].msg = m

ReservedOnce ==
    \A o \in Orders :
       ItemsOf[o] # << >> /\ Reserved(o) => \E m \in Requests(o) : ReservedFor(m)

StoredAdmitted == \A o \in Orders : status[o] # "absent" => Admitted(o)

\* The attempt of message m ended in a failure.
FailedFor(m) ==
    \/ m \in inventoryAcked
    \/ \E w \in Workers : worker[w].at = "failAck" /\ worker[w].msg = m

DecidedUnreserved ==
    \A o \in Orders :
       Decided(o) => ~ Reserved(o) /\ \E m \in Requests(o) : FailedFor(m)

AttemptInv ==
    /\ AskedOnce
    /\ HeldOnce
    /\ HeldUnacked
    /\ StoredAdmitted
    /\ ReservedOnce
    /\ DecidedUnreserved

\* A new request is the one that the handler of its order publishes.
LEMMA RequestsStep ==
    ASSUME AdminsDoNotCreate, OneAttempt, TypeOK, MessagesInv, [Next]_vars,
           NEW o \in Orders
    PROVE  \/ Requests(o)' = Requests(o)
           \/ /\ o \in creating /\ o \notin creating'
              /\ Requests(o)' \subseteq Requests(o) \cup {Len(orderEvents) + 1}
<1>0. orderEvents \in Seq(OrderEvents)
  BY DEF TypeOK
<1>1. CASE orderEvents' = orderEvents
  BY <1>1 DEF Requests, OrderOf, ItemsIn
<1>2. ASSUME NEW e \in OrderEvents, OrderEventWritten(e),
             orderEvents' = Append(orderEvents, e)
      PROVE  \/ Requests(o)' = Requests(o)
             \/ /\ o \in creating /\ o \notin creating'
                /\ Requests(o)' \subseteq Requests(o) \cup {Len(orderEvents) + 1}
  <2> DEFINE n == Len(orderEvents) + 1
  <2>1. /\ \A m \in DOMAIN orderEvents :
              m \in DOMAIN orderEvents' /\ orderEvents'[m] = orderEvents[m]
        /\ DOMAIN orderEvents' = DOMAIN orderEvents \cup {n}
        /\ orderEvents'[n] = e
        /\ n \notin DOMAIN orderEvents
    BY <1>0, <1>2, AppendExtends DEF Extended
  <2> HIDE DEF n
  <2>2. Requests(o) \subseteq Requests(o)' /\ Requests(o)' \subseteq Requests(o) \cup {n}
    BY <2>1 DEF Requests, OrderOf, ItemsIn
  <2>3. ASSUME n \in Requests(o)' PROVE o \in creating /\ o \notin creating'
    <3>1. e.type = "OrderCreated" /\ e.payload.order_id = o
      BY <2>1, <2>3 DEF Requests, OrderOf, AsInventoryOrder
    <3>2. PICK x \in Orders : CreationWritten(e, x)
      BY <1>2, <3>1, OnlyCreationsCreate DEF OneAttempt
    <3>3. x = o
      BY <3>1, <3>2, CreatedPayload DEF CreationWritten
    <3> QED
      BY <3>2, <3>3 DEF CreationWritten
  <2> QED
    BY <2>2, <2>3 DEF n
<1> QED
  BY <1>1, <1>2, OrderEventsStep

LEMMA AskedOnceStays ==
    ASSUME AdminsDoNotCreate, OneAttempt, IndInv, CreationInv, AskedOnce, [Next]_vars
    PROVE  AskedOnce'
<1> SUFFICES ASSUME NEW o \in Orders
             PROVE  /\ o \in creating' => Requests(o)' = {}
                    /\ \A m, n \in Requests(o)' : m = n
  BY DEF AskedOnce
<1>0. TypeOK /\ MessagesInv /\ creating \subseteq Orders
  BY DEF IndInv, TypeOK
<1>1. ASSUME o \in creating', o \notin creating PROVE Requests(o) = {}
  <2>1. status[o] = "absent"
    BY <1>0, <1>1, CreatingStep DEF CreateOrder
  <2>2. \A m \in Requests(o) : OrderExists(o)
    BY DEF Requests, CreationInv, AsksForOrder, OrderOf, AsInventoryOrder
  <2> QED
    BY <2>1, <2>2 DEF OrderExists
<1> QED
  BY <1>0, <1>1, RequestsStep DEF AskedOnce

\* Only the worker itself moves on, and it fetches what nobody holds.
LEMMA HeldStep ==
    ASSUME OneAttempt, TypeOK, [Next]_vars, NEW v \in Workers, worker'[v] # worker[v]
    PROVE  \/ WorkerStep(v) \/ ReserveErrs(v)
           \/ \E m \in DOMAIN orderEvents : FetchOrderEvent(v, m)
  BY WhoMoves DEF OneAttempt, InventoryStop, RedeliverOrderEvent, Fault

LEMMA FetchTakes ==
    ASSUME TypeOK, NEW v \in Workers, NEW m \in DOMAIN orderEvents,
           FetchOrderEvent(v, m)
    PROVE  /\ worker'[v].at = "reserve" /\ worker'[v].msg = m
           /\ \A w \in Workers \ {v} : worker'[w] = worker[w]
           /\ m \notin inventoryAcked /\ inventoryAcked' = inventoryAcked
           /\ \A w \in Workers : ~ Holds(w, m)
<1>1. worker \in [Workers -> [at : WorkerSteps, msg : Nat, reason : Reasons]]
  BY DEF TypeOK
<1>2. /\ worker' = [worker EXCEPT ![v] = [at |-> "reserve", msg |-> m, reason |-> ""]]
      /\ m \notin inventoryAcked /\ inventoryAcked' = inventoryAcked
      /\ ~ InHand(m)
  BY DEF FetchOrderEvent, topicVars
<1> QED
  BY <1>1, <1>2 DEF InHand, Holds

LEMMA HeldOnceStays ==
    ASSUME OneAttempt, IndInv, HeldOnce, [Next]_vars
    PROVE  HeldOnce'
<1> SUFFICES ASSUME NEW v \in Workers, NEW w \in Workers, v # w,
                    worker'[v].at # "idle", worker'[w].at # "idle",
                    worker'[v].msg = worker'[w].msg
             PROVE  FALSE
  BY DEF HeldOnce, Holds
<1>0. TypeOK /\ MessagesInv
  BY DEF IndInv
<1>1. ASSUME NEW x \in Workers, NEW y \in Workers, x # y, worker'[y].at # "idle",
             worker'[x].msg = worker'[y].msg,
             NEW m \in DOMAIN orderEvents, FetchOrderEvent(x, m)
      PROVE  FALSE
  BY <1>0, <1>1, FetchTakes DEF Holds
<1>2. ASSUME NEW x \in Workers, worker'[x].at # "idle",
             ~ \E m \in DOMAIN orderEvents : FetchOrderEvent(x, m)
      PROVE  Holds(x, worker'[x].msg) /\ worker'[x].msg \in DOMAIN orderEvents
  BY <1>0, <1>2, HeldStep, StepKeepsMessage DEF Holds, TypeOK
<1> QED
  BY <1>1, <1>2 DEF HeldOnce

LEMMA HeldUnackedStays ==
    ASSUME OneAttempt, IndInv, CreationInv, HeldOnce, HeldUnacked, [Next]_vars
    PROVE  HeldUnacked'
<1> SUFFICES ASSUME NEW v \in Workers, worker'[v].at \notin {"idle", "publish"}
             PROVE  worker'[v].msg \notin inventoryAcked'
  BY DEF HeldUnacked
<1>0. /\ TypeOK /\ MessagesInv
      /\ worker \in [Workers -> [at : WorkerSteps, msg : Nat, reason : Reasons]]
      /\ IdleWorker.at = "idle"
  BY DEF IndInv, TypeOK, IdleWorker
<1>1. CASE \E m \in DOMAIN orderEvents : FetchOrderEvent(v, m)
  BY <1>0, <1>1, FetchTakes
<1>2. CASE ~ \E m \in DOMAIN orderEvents : FetchOrderEvent(v, m)
  <2>1. worker[v].at # "idle" /\ worker'[v].msg = worker[v].msg
    BY <1>0, <1>2, HeldStep, StepKeepsMessage
  <2>2. worker[v].at # "publish"
    <3>1. PublishReserved(v) => worker'[v].at = "idle"
      BY <1>0 DEF PublishReserved
    <3>2. worker[v].at = "publish" /\ (WorkerStep(v) \/ ReserveErrs(v)) =>
             PublishReserved(v)
      BY DEF WorkerStep, ReserveSucceeds, ReserveRefused, ReserveErrs,
             MarkOrderEvent, AckOrderEvent, PublishReservationFailed
    <3> QED
      BY <1>0, <1>2, <3>1, <3>2, HeldStep
  <2>3. worker[v].msg \notin inventoryAcked /\ worker[v].msg \in DOMAIN orderEvents
    BY <1>0, <2>1, <2>2 DEF HeldUnacked, TypeOK
  <2>4. ASSUME NEW w \in Workers, AckOrderEvent(w)
        PROVE  worker[v].msg \notin inventoryAcked'
    <3>1. /\ worker[w].at \in {"ack", "failAck"}
          /\ inventoryAcked' = inventoryAcked \cup {worker[w].msg}
      BY <2>4 DEF AckOrderEvent
    <3>2. w # v
      <4>1. AckOrderEvent(v) => worker'[v].at \in {"idle", "publish"}
        BY <1>0 DEF AckOrderEvent, MoveWorker
      <4> QED
        BY <2>4, <4>1
    <3> QED
      BY <2>1, <2>3, <3>1, <3>2 DEF HeldOnce, Holds
  <2>5. ASSUME NEW w \in Workers, NEW m \in DOMAIN orderEvents, SkipOrderEvent(w, m)
        PROVE  worker[v].msg \notin inventoryAcked'
    BY <2>1, <2>3, <2>5 DEF SkipOrderEvent, CreationInv, Message
  <2> QED
    BY <2>1, <2>3, <2>4, <2>5, WhoAcks
<1> QED
  BY <1>1, <1>2

\* The request in the hands of a worker is that of its order.
LEMMA HeldRequest ==
    ASSUME IndInv, CreationInv, NEW w \in Workers, worker[w].at # "idle"
    PROVE  /\ Order(w).order \in Orders
           /\ worker[w].msg \in Requests(Order(w).order)
<1>1. /\ worker[w].msg \in DOMAIN orderEvents /\ Order(w).items # << >>
      /\ OrderExists(Order(w).order)
  BY HeldOrderExists
<1> QED
  BY <1>1 DEF CreationInv, Requests, OrderOf, ItemsIn, Order, Message, OrderExists

\* An order becomes reserved in the hands of a worker, from its request.
LEMMA WhoReserves ==
    ASSUME OutcomeKnown, IndInv, CreationInv, [Next]_vars,
           NEW o \in Orders, ~ Reserved(o), Reserved(o)'
    PROVE  \E w \in Workers : ReserveSucceeds(w) /\ worker[w].msg \in Requests(o)
<1>0. TypeOK /\ MessagesInv
  BY DEF IndInv
<1>1. reservations' # reservations
  BY DEF Reserved
<1>2. \E w \in Workers : ReserveSucceeds(w) /\ Ledger!ReserveOrder(Order(w).order)
  <2>1. OrderNext \/ KafkaNext \/ UNCHANGED vars => reservations' = reservations
    BY OrderServiceWrites, KafkaWrites DEF vars, inventoryVars, ledgerVars
  <2>2. \A w \in Workers : ReserveErrs(w) => reservations' = reservations
    BY DEF OutcomeKnown, ReserveErrs, Fault, ledgerVars
  <2>3. InventoryNext =>
           \/ reservations' = reservations
           \/ \E w \in Workers :
                 ReserveSucceeds(w) /\ Ledger!ReserveOrder(Order(w).order)
    BY <2>2 DEF InventoryNext, WorkerStep, ReserveSucceeds, ReserveRefused,
           MarkOrderEvent, AckOrderEvent, PublishReserved,
           PublishReservationFailed, SkipOrderEvent, FetchOrderEvent,
           RedeliverOrderEvent, InventoryStop, AddStock, Ledger!AddStock,
           inventoryVars, ledgerVars
  <2> QED
    BY <1>1, <2>1, <2>2, <2>3 DEF Next
<1>3. PICK w \in Workers : ReserveSucceeds(w) /\ Ledger!ReserveOrder(Order(w).order)
  BY <1>2
<1>4. /\ Order(w).order \in Orders
      /\ worker[w].msg \in Requests(Order(w).order)
  BY <1>3, HeldRequest DEF ReserveSucceeds
<1>5. Order(w).order = o
  <2>1. \A x \in Orders \ {Order(w).order} : reservations'[x] = reservations[x]
    BY <1>0, <1>3, <1>4, ReserveOrderReserves DEF TypeOK
  <2> QED
    BY <2>1 DEF Reserved
<1> QED
  BY <1>3, <1>4, <1>5

LEMMA StoredAdmittedStays ==
    ASSUME IndInv, StoredAdmitted, [Next]_vars
    PROVE  StoredAdmitted'
<1>0. /\ TypeOK /\ status \in [Orders -> Statuses \cup {"absent"}]
      /\ consumer.at # "idle" => consumer.msg \in DOMAIN inventoryEvents
  BY DEF IndInv, TypeOK
<1>1. CASE UNCHANGED status
  BY <1>1 DEF StoredAdmitted, Admitted
<1>2. ASSUME NEW o \in Orders, CreateOrder(o) PROVE StoredAdmitted'
  BY <1>0, <1>2 DEF CreateOrder, StoredAdmitted, Admitted
<1>3. ASSUME NEW u \in AdminRequests, AdminUpdate(u) PROVE StoredAdmitted'
  BY <1>0, <1>3 DEF AdminUpdate, OrderExists, StoredAdmitted, Admitted
<1>4. CASE ApplyResult
  BY <1>0, <1>4 DEF ApplyResult, OrderExists, StoredAdmitted, Admitted
<1> QED
  BY <1>1, <1>2, <1>3, <1>4, WhoWritesStatus

LEMMA AckedGrow ==
    ASSUME [Next]_vars PROVE inventoryAcked \subseteq inventoryAcked'
  BY WhoAcks DEF AckOrderEvent, SkipOrderEvent

LEMMA ReservedOnceStays ==
    ASSUME OneAttempt, OutcomeKnown, IndInv, CreationInv, ReservedOnce, [Next]_vars
    PROVE  ReservedOnce'
<1> SUFFICES ASSUME NEW o \in Orders, ItemsOf[o] # << >>, Reserved(o)'
             PROVE  \E m \in Requests(o)' : ReservedFor(m)'
  BY DEF ReservedOnce
<1>0. /\ TypeOK /\ MessagesInv
      /\ worker \in [Workers -> [at : WorkerSteps, msg : Nat, reason : Reasons]]
      /\ Requests(o) \subseteq Requests(o)'
  BY RequestsStay DEF IndInv, TypeOK
<1>1. ASSUME NEW w \in Workers, ReserveSucceeds(w), worker[w].msg \in Requests(o)
      PROVE  \E m \in Requests(o)' : ReservedFor(m)'
  <2>1. worker'[w].at = "mark" /\ worker'[w].msg = worker[w].msg
    BY <1>0, <1>1 DEF ReserveSucceeds, MoveWorker
  <2> QED
    BY <1>0, <1>1, <2>1 DEF ReservedFor
<1>2. ASSUME NEW m \in Requests(o), ReservedFor(m) PROVE ReservedFor(m)'
  <2>1. CASE m \in inventoryAcked
    BY <2>1, AckedGrow DEF ReservedFor
  <2>2. ASSUME NEW w \in Workers, worker[w].at \in {"mark", "ack"}, worker[w].msg = m
        PROVE  ReservedFor(m)'
    <3>1. CASE worker'[w] = worker[w]
      BY <2>2, <3>1 DEF ReservedFor
    <3>2. CASE MarkOrderEvent(w)
      <4>1. worker'[w].at = "ack" /\ worker'[w].msg = m
        BY <1>0, <2>2, <3>2 DEF MarkOrderEvent, MoveWorker
      <4> QED
        BY <4>1 DEF ReservedFor
    <3>3. CASE AckOrderEvent(w)
      BY <2>2, <3>3 DEF AckOrderEvent, ReservedFor
    <3>4. worker'[w] # worker[w] => MarkOrderEvent(w) \/ AckOrderEvent(w)
      BY <1>0, <2>2, HeldStep
         DEF WorkerStep, ReserveSucceeds, ReserveRefused, ReserveErrs,
             PublishReserved, PublishReservationFailed, FetchOrderEvent
    <3> QED
      BY <3>1, <3>2, <3>3, <3>4
  <2> QED
    BY <1>2, <2>1, <2>2 DEF ReservedFor
<1> QED
  BY <1>0, <1>1, <1>2, WhoReserves DEF ReservedOnce

\* A worker that is at ReserveOrder, or was given an error, has no stock.
LEMMA HeldUnreserved ==
    ASSUME IndInv, CreationInv, AskedOnce, HeldOnce, HeldUnacked, StoredAdmitted,
           ReservedOnce, NEW w \in Workers,
           worker[w].at \in {"reserve", "fail", "failAck"}
    PROVE  ~ Reserved(Order(w).order)
<1>1. PICK o \in Orders : o = Order(w).order /\ worker[w].msg \in Requests(o)
  BY HeldRequest
<1>2. ItemsOf[o] # << >>
  BY <1>1, HeldOrderExists DEF OrderExists, StoredAdmitted, Admitted
<1>3. worker[w].msg \in DOMAIN orderEvents /\ worker[w].msg \notin inventoryAcked
  BY <1>1 DEF Requests, HeldUnacked
<1>4. ~ ReservedFor(worker[w].msg)
  BY <1>3 DEF ReservedFor, HeldOnce, Holds
<1>5. ~ Reserved(o)
  BY <1>1, <1>2, <1>4 DEF AskedOnce, ReservedOnce
<1> QED
  BY <1>1, <1>5 DEF Reserved

\* A failure in the topic is the one that a worker publishes now, or an old one.
LEMMA WhoDecides ==
    ASSUME OneAttempt, TypeOK, MessagesInv, [Next]_vars, NEW o \in Orders, Decided(o)'
    PROVE  \/ Decided(o)
           \/ \E w \in Workers : PublishReservationFailed(w) /\ Order(w).order = o
<1>0. inventoryEvents \in Seq(InventoryEvents)
  BY DEF TypeOK
<1>1. CASE inventoryEvents' = inventoryEvents
  BY <1>1 DEF Decided
<1>2. ASSUME NEW e \in InventoryEvents, InventoryEventWritten(e),
             inventoryEvents' = Append(inventoryEvents, e), ~ Decided(o)
      PROVE  \E w \in Workers : PublishReservationFailed(w) /\ Order(w).order = o
  <2>1. PICK w \in Workers : ResultWritten(e, w)
    BY <1>2 DEF InventoryEventWritten, OneAttempt
  <2>2. /\ \A m \in DOMAIN inventoryEvents : inventoryEvents'[m] = inventoryEvents[m]
        /\ \A m \in DOMAIN inventoryEvents' :
              m \in DOMAIN inventoryEvents \/ inventoryEvents'[m] = e
    BY <1>0, <1>2, AppendExtends DEF Extended
  <2>3. e.type = "InventoryReservationFailed" /\ e.payload.OrderID = o
    BY <1>2, <2>2 DEF Decided, AsInventoryResult
  <2> QED
    BY <2>1, <2>3 DEF ResultWritten
<1> QED
  BY <1>1, <1>2, InventoryEventsStep

LEMMA FailedForStays ==
    ASSUME OneAttempt, TypeOK, [Next]_vars, NEW m, FailedFor(m)
    PROVE  FailedFor(m)'
<1>1. inventoryAcked \subseteq inventoryAcked'
  BY WhoAcks DEF AckOrderEvent, SkipOrderEvent
<1>2. ASSUME NEW w \in Workers, worker[w].at = "failAck", worker[w].msg = m
      PROVE  FailedFor(m)'
  <2>1. CASE worker'[w] = worker[w]
    BY <1>2, <2>1 DEF FailedFor
  <2>2. CASE worker'[w] # worker[w]
    <3>1. AckOrderEvent(w)
      BY <1>2, <2>2, HeldStep
         DEF WorkerStep, ReserveSucceeds, ReserveRefused, ReserveErrs,
             MarkOrderEvent, PublishReserved, PublishReservationFailed,
             FetchOrderEvent
    <3> QED
      BY <1>2, <3>1 DEF AckOrderEvent, FailedFor
  <2> QED
    BY <2>1, <2>2
<1> QED
  BY <1>1, <1>2 DEF FailedFor

LEMMA DecidedUnreservedStays ==
    ASSUME OneAttempt, OutcomeKnown, IndInv, CreationInv, AttemptInv, [Next]_vars
    PROVE  DecidedUnreserved'
<1> SUFFICES ASSUME NEW o \in Orders, Decided(o)'
             PROVE  ~ Reserved(o)' /\ \E m \in Requests(o)' : FailedFor(m)'
  BY DEF DecidedUnreserved
<1>0. /\ TypeOK /\ MessagesInv
      /\ worker \in [Workers -> [at : WorkerSteps, msg : Nat, reason : Reasons]]
  BY DEF IndInv, TypeOK
<1> USE DEF AttemptInv
<1>1. Requests(o) \subseteq Requests(o)'
  BY <1>0, RequestsStay
<1>2. CASE Decided(o)
  <2>1. PICK m \in Requests(o) : FailedFor(m)
    BY <1>2 DEF DecidedUnreserved
  <2>2. ASSUME NEW w \in Workers, ReserveSucceeds(w), worker[w].msg \in Requests(o)
        PROVE  FALSE
    <3>1. worker[w].msg = m /\ m \in DOMAIN orderEvents
      BY <2>1, <2>2 DEF AskedOnce, Requests
    <3>2. worker[w].at = "reserve" /\ m \notin inventoryAcked
      BY <2>2, <3>1 DEF ReserveSucceeds, HeldUnacked
    <3> QED
      BY <2>1, <3>1, <3>2 DEF FailedFor, HeldOnce, Holds
  <2>3. ~ Reserved(o)'
    BY <1>2, <2>2, WhoReserves DEF DecidedUnreserved
  <2>4. FailedFor(m)'
    BY <1>0, <2>1, FailedForStays
  <2> QED
    BY <1>1, <2>1, <2>3, <2>4
<1>3. ASSUME NEW w \in Workers, PublishReservationFailed(w), Order(w).order = o
      PROVE  ~ Reserved(o)' /\ \E m \in Requests(o)' : FailedFor(m)'
  <2>1. ~ Reserved(o) /\ worker[w].msg \in Requests(o)
    BY <1>3, HeldRequest, HeldUnreserved DEF PublishReservationFailed
  <2>2. ~ Reserved(o)'
    BY <1>3, <2>1 DEF PublishReservationFailed, ledgerVars, Reserved
  <2>3. worker'[w].at = "failAck" /\ worker'[w].msg = worker[w].msg
    BY <1>0, <1>3 DEF PublishReservationFailed, MoveWorker
  <2> QED
    BY <1>1, <2>1, <2>2, <2>3 DEF FailedFor
<1> QED
  BY <1>0, <1>2, <1>3, WhoDecides

LEMMA InitUnreserved ==
    ASSUME Init, NEW o \in Orders, ItemsOf[o] # << >> PROVE ~ Reserved(o)
<1>1. \A p \in Products : reservations[o][p] = 0
  BY DEF Init, Ledger!Init
<1>2. 1 \in Lines(o)
  BY ItemsAssumption DEF Lines
<1>3. ItemsOf[o][1].product \in ProductsOf(o) \cap Products
  BY <1>2, LineType
<1> QED
  BY <1>1, <1>3 DEF Reserved

LEMMA AttemptInvariant ==
    ASSUME OneAttempt, OutcomeKnown, AdminsDoNotCreate
    PROVE  Spec => []AttemptInv
<1>1. Init => AttemptInv
  <2> SUFFICES ASSUME Init PROVE AttemptInv
    OBVIOUS
  <2>1. \A w \in Workers : worker[w].at = "idle"
    BY DEF Init, IdleWorker
  <2>2. DOMAIN orderEvents = {} /\ DOMAIN inventoryEvents = {}
    BY DEF Init
  <2>3. \A o \in Orders : ~ Decided(o) /\ Requests(o) = {} /\ status[o] = "absent"
    BY <2>2 DEF Init, Decided, Requests
  <2>4. \A o \in Orders : ItemsOf[o] # << >> => ~ Reserved(o)
    BY InitUnreserved
  <2> QED
    BY <2>1, <2>2, <2>3, <2>4 DEF Init, AttemptInv, AskedOnce, HeldOnce, Holds,
       HeldUnacked, StoredAdmitted, ReservedOnce, DecidedUnreserved
<1>2. IndInv /\ CreationInv /\ AttemptInv /\ [Next]_vars => AttemptInv'
  <2> SUFFICES ASSUME IndInv, CreationInv, AttemptInv, [Next]_vars PROVE AttemptInv'
    OBVIOUS
  <2> QED
    BY AskedOnceStays, HeldOnceStays, HeldUnackedStays, StoredAdmittedStays,
       ReservedOnceStays, DecidedUnreservedStays DEF AttemptInv
<1>3. Spec => []CreationInv
  BY OnlyRequestsAreCreations
<1> QED
  BY <1>1, <1>2, <1>3, InductiveInvariant, PTL DEF Spec

CancelledDecided == \A o \in Orders : status[o] = "CANCELLED" => Decided(o)

LEMMA CancelledDecidedStays ==
    ASSUME AdminsDoNotCancel, IndInv, CancelledDecided, [Next]_vars
    PROVE  CancelledDecided'
<1> SUFFICES ASSUME NEW o \in Orders, status'[o] = "CANCELLED" PROVE Decided(o)'
  BY DEF CancelledDecided
<1>0. /\ TypeOK /\ MessagesInv
      /\ status \in [Orders -> Statuses \cup {"absent"}]
  BY DEF IndInv, TypeOK
<1>1. CASE status[o] = "CANCELLED"
  BY <1>0, <1>1, TopicsPreserve, DecidedStays DEF CancelledDecided
<1>2. CASE status[o] # "CANCELLED"
  <2>1. \A u \in AdminRequests : u.status # "CANCELLED"
    BY DEF AdminRequests, AdminsDoNotCancel
  <2>2. ApplyResult /\ ResultOrder = o /\ ResultStatus = "CANCELLED"
    BY <1>0, <1>2, <2>1, WhoWritesStatus DEF CreateOrder, AdminUpdate, ApplyResult
  <2>3. consumer.msg \in DOMAIN inventoryEvents
    BY <1>0, <2>2 DEF ApplyResult, TypeOK
  <2>4. Decided(o)
    BY <2>2, <2>3 DEF Decided, ResultOrder, ResultStatus, Result
  <2> QED
    BY <1>0, <2>4, TopicsPreserve, DecidedStays
<1> QED
  BY <1>1, <1>2

(***************************************************************************)
(* The outcomes exclude each other: where an order is handled in one       *)
(* attempt, a worker knows whether its COMMIT took effect, and             *)
(* administrators set neither CREATED nor CANCELLED, a cancelled order     *)
(* holds no stock, also when the database fails, publications fail and the *)
(* order service stops.  So a cancelled order with stock comes from a      *)
(* second attempt or from a lost answer to COMMIT; each kind of fault that *)
(* the hypotheses exclude is enough by itself.                             *)
(***************************************************************************)
THEOREM CancelledHasNoStock ==
    ASSUME OneAttempt, OutcomeKnown, AdminsDoNotCancel
    PROVE  Spec => []CancelledIsUnreserved
<1>0. AdminsDoNotCreate
  BY DEF AdminsDoNotCancel
<1>1. Init => CancelledDecided
  BY DEF Init, CancelledDecided
<1>2. IndInv /\ CancelledDecided /\ [Next]_vars => CancelledDecided'
  BY CancelledDecidedStays
<1>3. AttemptInv /\ CancelledDecided => CancelledIsUnreserved
  BY DEF AttemptInv, CancelledDecided, DecidedUnreserved, CancelledIsUnreserved
<1>4. Spec => []AttemptInv
  BY <1>0, AttemptInvariant
<1> QED
  BY <1>1, <1>2, <1>3, <1>4, InductiveInvariant, PTL DEF Spec
-----------------------------------------------------------------------------
(***************************************************************************)
(* The refinement of OrderSaga, in one attempt.  SagaInv: an order has at  *)
(* most one result, and once it is written nobody has its request in hand  *)
(* other than to acknowledge the failure.                                  *)
(***************************************************************************)
Finished(m) ==
    \/ m \in inventoryAcked /\ ~ InHand(m)
    \/ \E w \in Workers : worker[w].at = "failAck" /\ worker[w].msg = m

PublishAcked ==
    \A w \in Workers : worker[w].at = "publish" => worker[w].msg \in inventoryAcked

AnsweredOnce ==
    \A o \in Orders :
       /\ \A m, n \in ResultsOf(o) : m = n
       /\ ResultsOf(o) # {} => \E m \in Requests(o) : Finished(m)

SagaInv ==
    /\ SuccessesReserved
    /\ Ids
    /\ PublishAcked
    /\ AnsweredOnce

LEMMA PublishAckedStays ==
    ASSUME OneAttempt, IndInv, PublishAcked, [Next]_vars
    PROVE  PublishAcked'
<1> SUFFICES ASSUME NEW v \in Workers, worker'[v].at = "publish"
             PROVE  worker'[v].msg \in inventoryAcked'
  BY DEF PublishAcked
<1>0. /\ TypeOK /\ MessagesInv
      /\ worker \in [Workers -> [at : WorkerSteps, msg : Nat, reason : Reasons]]
      /\ IdleWorker.at = "idle"
  BY DEF IndInv, TypeOK, IdleWorker
<1>1. CASE worker'[v] = worker[v]
  BY <1>1, AckedGrow DEF PublishAcked
<1>2. CASE worker'[v] # worker[v]
  <2>1. ~ \E m \in DOMAIN orderEvents : FetchOrderEvent(v, m)
    BY <1>0, FetchTakes
  <2>2. WorkerStep(v) \/ ReserveErrs(v)
    BY <1>0, <1>2, <2>1, HeldStep
  <2>3. worker'[v].msg = worker[v].msg
    BY <1>0, <2>2, StepKeepsMessage
  <2>4. AckOrderEvent(v)
    <3>1. \A step : MoveWorker(v, step) => worker'[v].at = step
      BY <1>0 DEF MoveWorker
    <3>2. \A reason : ReserveFails(v, reason) => worker'[v].at = "fail"
      BY <1>0 DEF ReserveFails
    <3>3. worker' # [worker EXCEPT ![v] = IdleWorker]
      BY <1>0
    <3> QED
      BY <2>2, <3>1, <3>2, <3>3
         DEF WorkerStep, ReserveSucceeds, ReserveRefused, ReserveErrs,
             MarkOrderEvent, PublishReserved, PublishReservationFailed
  <2> QED
    BY <2>3, <2>4 DEF AckOrderEvent
<1> QED
  BY <1>1, <1>2

\* Nobody takes up a request that is finished.
LEMMA FinishedStays ==
    ASSUME OneAttempt, IndInv, HeldOnce, [Next]_vars,
           NEW m \in DOMAIN orderEvents, Finished(m)
    PROVE  Finished(m)'
<1>0. /\ TypeOK /\ MessagesInv
      /\ worker \in [Workers -> [at : WorkerSteps, msg : Nat, reason : Reasons]]
      /\ IdleWorker.at = "idle"
  BY DEF IndInv, TypeOK, IdleWorker
<1>1. CASE m \in inventoryAcked /\ ~ InHand(m)
  <2>1. m \in inventoryAcked'
    BY <1>1, AckedGrow
  <2>2. ASSUME NEW v \in Workers, worker'[v].at # "idle", worker'[v].msg = m
        PROVE  FALSE
    <3>1. ASSUME NEW n \in DOMAIN orderEvents, FetchOrderEvent(v, n)
          PROVE  FALSE
      BY <1>0, <1>1, <2>2, <3>1, FetchTakes
    <3>2. worker[v].at # "idle" /\ worker[v].msg = m
      BY <1>0, <2>2, <3>1, HeldStep, StepKeepsMessage
    <3> QED
      BY <1>1, <3>2 DEF InHand
  <2> QED
    BY <2>1, <2>2 DEF Finished, InHand
<1>2. ASSUME NEW w \in Workers, worker[w].at = "failAck", worker[w].msg = m
      PROVE  Finished(m)'
  <2>1. CASE worker'[w] = worker[w]
    BY <1>2, <2>1 DEF Finished
  <2>2. CASE worker'[w] # worker[w]
    <3>1. AckOrderEvent(w)
      BY <1>0, <1>2, <2>2, HeldStep
         DEF WorkerStep, ReserveSucceeds, ReserveRefused, ReserveErrs,
             MarkOrderEvent, PublishReserved, PublishReservationFailed,
             FetchOrderEvent
    <3>2. /\ worker' = [worker EXCEPT ![w] = IdleWorker]
          /\ inventoryAcked' = inventoryAcked \cup {m}
      BY <1>2, <3>1 DEF AckOrderEvent
    <3>3. \A v \in Workers : worker'[v].at # "idle" => worker'[v].msg # m
      BY <1>0, <1>2, <3>2 DEF HeldOnce, Holds
    <3> QED
      BY <3>2, <3>3 DEF Finished, InHand
  <2> QED
    BY <2>1, <2>2
<1> QED
  BY <1>1, <1>2 DEF Finished

\* A request in hand, other than to acknowledge its failure, has no result.
LEMMA HeldUnanswered ==
    ASSUME IndInv, CreationInv, AskedOnce, HeldOnce, HeldUnacked, AnsweredOnce,
           NEW w \in Workers, worker[w].at \notin {"idle", "failAck"}
    PROVE  ResultsOf(Order(w).order) = {}
<1>1. PICK o \in Orders : o = Order(w).order /\ worker[w].msg \in Requests(o)
  BY HeldRequest
<1>2. worker[w].msg \in DOMAIN orderEvents
  BY <1>1 DEF Requests
<1>3. ~ Finished(worker[w].msg)
  BY <1>2 DEF Finished, InHand, HeldOnce, Holds
<1> QED
  BY <1>1, <1>3 DEF AnsweredOnce, AskedOnce

\* What a step adds to the results, when nothing is duplicated.
LEMMA WhoAnswers ==
    ASSUME OneAttempt, TypeOK, MessagesInv, [Next]_vars, NEW o \in Orders
    PROVE  \/ ResultsOf(o)' = ResultsOf(o)
           \/ \E w \in Workers :
                 /\ PublishReserved(w) \/ PublishReservationFailed(w)
                 /\ Order(w).order = o
                 /\ ResultsOf(o)' \subseteq ResultsOf(o) \cup {Len(inventoryEvents) + 1}
<1>0. inventoryEvents \in Seq(InventoryEvents)
  BY DEF TypeOK
<1>1. CASE inventoryEvents' = inventoryEvents
  BY <1>1 DEF ResultsOf
<1>2. ASSUME NEW e \in InventoryEvents, InventoryEventWritten(e),
             inventoryEvents' = Append(inventoryEvents, e),
             ResultsOf(o)' # ResultsOf(o)
      PROVE  \E w \in Workers :
                 /\ PublishReserved(w) \/ PublishReservationFailed(w)
                 /\ Order(w).order = o
                 /\ ResultsOf(o)' \subseteq ResultsOf(o) \cup {Len(inventoryEvents) + 1}
  <2> DEFINE n == Len(inventoryEvents) + 1
  <2>1. /\ \A m \in DOMAIN inventoryEvents :
              m \in DOMAIN inventoryEvents' /\ inventoryEvents'[m] = inventoryEvents[m]
        /\ DOMAIN inventoryEvents' = DOMAIN inventoryEvents \cup {n}
        /\ inventoryEvents'[n] = e
    BY <1>0, <1>2, AppendExtends DEF Extended
  <2>2. PICK w \in Workers : ResultWritten(e, w)
    BY <1>2 DEF InventoryEventWritten, OneAttempt
  <2> HIDE DEF n
  <2>3. /\ ResultsOf(o) \subseteq ResultsOf(o)'
        /\ ResultsOf(o)' \subseteq ResultsOf(o) \cup {n}
    BY <2>1 DEF ResultsOf
  <2>4. n \in ResultsOf(o)'
    BY <1>2, <2>3
  <2>5. e.payload.OrderID = o
    BY <2>1, <2>4 DEF ResultsOf, AsInventoryResult
  <2> QED
    BY <2>2, <2>3, <2>5 DEF ResultWritten, n
<1> QED
  BY <1>1, <1>2, InventoryEventsStep

LEMMA AnsweredOnceStays ==
    ASSUME OneAttempt, IndInv, CreationInv, AskedOnce, HeldOnce, HeldUnacked,
           PublishAcked, AnsweredOnce, [Next]_vars
    PROVE  AnsweredOnce'
<1> SUFFICES ASSUME NEW o \in Orders
             PROVE  /\ \A m, n \in ResultsOf(o)' : m = n
                    /\ ResultsOf(o)' # {} => \E m \in Requests(o)' : Finished(m)'
  BY DEF AnsweredOnce
<1>0. /\ TypeOK /\ MessagesInv
      /\ worker \in [Workers -> [at : WorkerSteps, msg : Nat, reason : Reasons]]
      /\ IdleWorker.at = "idle"
      /\ Requests(o) \subseteq Requests(o)'
  BY RequestsStay DEF IndInv, TypeOK, IdleWorker
<1>1. CASE ResultsOf(o)' = ResultsOf(o)
  <2>1. ASSUME NEW m \in Requests(o), Finished(m) PROVE Finished(m)'
    BY <2>1, FinishedStays DEF Requests
  <2> QED
    BY <1>0, <1>1, <2>1 DEF AnsweredOnce
<1>2. ASSUME NEW w \in Workers, PublishReserved(w) \/ PublishReservationFailed(w),
             Order(w).order = o,
             ResultsOf(o)' \subseteq ResultsOf(o) \cup {Len(inventoryEvents) + 1}
      PROVE  /\ \A m, n \in ResultsOf(o)' : m = n
             /\ \E m \in Requests(o)' : Finished(m)'
  <2>1. worker[w].at \in {"publish", "fail"}
    BY <1>2 DEF PublishReserved, PublishReservationFailed
  <2>2. PICK r \in Requests(o) : r = worker[w].msg
    BY <1>2, <2>1, HeldRequest
  <2>3. ResultsOf(o) = {} /\ r \in DOMAIN orderEvents
    BY <1>2, <2>1, HeldUnanswered DEF Requests
  <2>4. CASE PublishReservationFailed(w)
    <3>1. worker'[w].at = "failAck" /\ worker'[w].msg = r
      BY <1>0, <2>2, <2>4 DEF PublishReservationFailed, MoveWorker
    <3>2. Finished(r)'
      BY <3>1 DEF Finished
    <3> QED
      BY <1>0, <1>2, <2>3, <3>2
  <2>5. CASE PublishReserved(w)
    <3>1. /\ worker' = [worker EXCEPT ![w] = IdleWorker]
          /\ r \in inventoryAcked /\ inventoryAcked' = inventoryAcked
      BY <2>2, <2>5 DEF PublishReserved, PublishAcked
    <3>2. \A v \in Workers : worker'[v].at # "idle" => worker'[v].msg # r
      BY <1>0, <2>1, <2>2, <2>3, <3>1 DEF HeldOnce, Holds
    <3>3. Finished(r)'
      BY <3>1, <3>2 DEF Finished, InHand
    <3> QED
      BY <1>0, <1>2, <2>3, <3>3
  <2> QED
    BY <1>2, <2>4, <2>5
<1> QED
  BY <1>0, <1>1, <1>2, WhoAnswers

LEMMA SagaInvariant ==
    ASSUME OneAttempt, OutcomeKnown, AdminsDoNotCreate
    PROVE  Spec => []SagaInv
<1>1. Init => SagaInv
  <2> SUFFICES ASSUME Init PROVE SagaInv
    OBVIOUS
  <2>1. \A w \in Workers : worker[w].at = "idle"
    BY DEF Init, IdleWorker
  <2>2. DOMAIN inventoryEvents = {} /\ orderProcessed = {}
    BY DEF Init
  <2>3. \A o \in Orders : status[o] = "absent" /\ ResultsOf(o) = {}
    BY <2>2 DEF Init, ResultsOf
  <2> QED
    BY <2>1, <2>2, <2>3 DEF SagaInv, SuccessesReserved, Ids, PublishAcked,
       AnsweredOnce
<1>2. IndInv /\ CreationInv /\ AttemptInv /\ SagaInv /\ [Next]_vars => SagaInv'
  <2> SUFFICES ASSUME IndInv, CreationInv, AttemptInv, SagaInv, [Next]_vars
               PROVE  SagaInv'
    OBVIOUS
  <2> QED
    BY SuccessesNameReserved, IdsStay, PublishAckedStays, AnsweredOnceStays
       DEF AttemptInv, SagaInv
<1>3. Spec => []CreationInv
  BY OnlyRequestsAreCreations
<1>4. Spec => []AttemptInv
  BY AttemptInvariant
<1> QED
  BY <1>1, <1>2, <1>3, <1>4, InductiveInvariant, PTL DEF Spec

\* The steps that OrderSaga sees.
LEMMA SagaMoves ==
    ASSUME OneAttempt, OutcomeKnown, [Next]_vars
    PROVE  \/ UNCHANGED <<status, applied, inventoryEvents, reservations>>
           \/ \E o \in Orders : CreateOrder(o)
           \/ \E u \in AdminRequests : AdminUpdate(u)
           \/ ApplyResult
           \/ \E w \in Workers :
                 \/ /\ ReserveSucceeds(w)
                    /\ ~ NothingToReserve(w)
                    /\ Ledger!ReserveOrder(Order(w).order)
                 \/ PublishReserved(w)
                 \/ PublishReservationFailed(w)
<1>1. OrderNext =>
         \/ UNCHANGED <<status, applied, inventoryEvents, reservations>>
         \/ \E o \in Orders : CreateOrder(o)
         \/ \E u \in AdminRequests : AdminUpdate(u)
         \/ ApplyResult
  BY OrderServiceWrites
     DEF OrderNext, PublishCreated, PublishCreatedFails, PublishAdminUpdate,
         PublishAdminUpdateFails, FetchResult, MarkResult, ApplyResultNotFound,
         PublishStatus, AckResult, OrderStop, inventoryVars, ledgerVars
<1>2. \A w \in Workers :
         ReserveErrs(w) =>
            UNCHANGED <<status, applied, inventoryEvents, reservations>>
  BY DEF OutcomeKnown, ReserveErrs, Fault, orderVars, topicVars, ledgerVars
<1>3. InventoryNext =>
         \/ UNCHANGED <<status, applied, inventoryEvents, reservations>>
         \/ \E w \in Workers :
               \/ /\ ReserveSucceeds(w)
                  /\ ~ NothingToReserve(w)
                  /\ Ledger!ReserveOrder(Order(w).order)
               \/ PublishReserved(w)
               \/ PublishReservationFailed(w)
  BY <1>2 DEF InventoryNext, WorkerStep, ReserveSucceeds, ReserveRefused,
         MarkOrderEvent, AckOrderEvent, SkipOrderEvent, FetchOrderEvent,
         RedeliverOrderEvent, InventoryStop, AddStock, Ledger!AddStock,
         orderVars, topicVars, inventoryVars, ledgerVars
<1>4. KafkaNext \/ UNCHANGED vars =>
         UNCHANGED <<status, applied, inventoryEvents, reservations>>
  BY DEF KafkaNext, DuplicateOrderEvent, DuplicateInventoryEvent, Fault,
         OneAttempt, vars, orderVars, topicVars, inventoryVars, ledgerVars
<1> QED
  BY <1>1, <1>3, <1>4 DEF Next

\* The parts of the mapping depend on what is written, and on nothing else.
LEMMA OutcomesUnchanged ==
    ASSUME UNCHANGED <<inventoryEvents, reservations>>
    PROVE  Outcomes' = Outcomes
  BY DEF Outcomes, Outcome, Decided, Reserved

LEMMA SettledUnchanged ==
    ASSUME UNCHANGED <<inventoryEvents, applied>>
    PROVE  SettledOrders' = SettledOrders
  BY DEF SettledOrders, ResultsOf

\* A result that was just written is not applied yet.
LEMMA NewResultUnsettled ==
    ASSUME IndInv, Ids, NEW e \in InventoryEvents,
           e.id = Len(inventoryEvents) + 1,
           inventoryEvents' = Append(inventoryEvents, e), UNCHANGED applied
    PROVE  SettledOrders' = SettledOrders
<1> DEFINE n == Len(inventoryEvents) + 1
<1>1. inventoryEvents \in Seq(InventoryEvents) /\ applied \subseteq DOMAIN inventoryEvents
  BY DEF IndInv, TypeOK, ConsumerInv, Ids
<1>2. /\ \A m \in DOMAIN inventoryEvents :
            m \in DOMAIN inventoryEvents' /\ inventoryEvents'[m] = inventoryEvents[m]
      /\ DOMAIN inventoryEvents' = DOMAIN inventoryEvents \cup {n}
      /\ inventoryEvents'[n] = e
  BY <1>1, AppendExtends DEF Extended
<1>3. n \notin applied
  BY <1>1
<1>4. e.id \notin applied'
  BY <1>3
<1> HIDE DEF n
<1>5. ASSUME NEW o \in Orders
      PROVE  o \in SettledOrders' <=> o \in SettledOrders
  BY <1>2, <1>4 DEF SettledOrders, ResultsOf
<1> QED
  BY <1>5 DEF SettledOrders

\* The decisions, with a failure for order o and with a success.
LEMMA DecidedByFailure ==
    ASSUME TypeOK, NEW e \in InventoryEvents, e.type = "InventoryReservationFailed",
           inventoryEvents' = Append(inventoryEvents, e), NEW o \in Orders
    PROVE  Decided(o)' <=> Decided(o) \/ e.payload.OrderID = o
<1> DEFINE n == Len(inventoryEvents) + 1
<1>1. /\ \A m \in DOMAIN inventoryEvents :
            m \in DOMAIN inventoryEvents' /\ inventoryEvents'[m] = inventoryEvents[m]
      /\ DOMAIN inventoryEvents' = DOMAIN inventoryEvents \cup {n}
      /\ inventoryEvents'[n] = e
  BY AppendExtends DEF Extended, TypeOK
<1> HIDE DEF n
<1> QED
  BY <1>1 DEF Decided, AsInventoryResult

LEMMA UndecidedBySuccess ==
    ASSUME TypeOK, NEW e \in InventoryEvents, e.type = "InventoryReserved",
           inventoryEvents' = Append(inventoryEvents, e), NEW o \in Orders
    PROVE  Decided(o)' <=> Decided(o)
<1> DEFINE n == Len(inventoryEvents) + 1
<1>1. /\ \A m \in DOMAIN inventoryEvents :
            m \in DOMAIN inventoryEvents' /\ inventoryEvents'[m] = inventoryEvents[m]
      /\ DOMAIN inventoryEvents' = DOMAIN inventoryEvents \cup {n}
      /\ inventoryEvents'[n] = e
  BY AppendExtends DEF Extended, TypeOK
<1> HIDE DEF n
<1> QED
  BY <1>1 DEF Decided

\* A request that a worker works on is open.
LEMMA HeldUndecided ==
    ASSUME IndInv, CreationInv, AttemptInv, NEW w \in Workers,
           worker[w].at \in {"reserve", "fail"}
    PROVE  ~ Decided(Order(w).order)
<1>1. PICK o \in Orders : o = Order(w).order /\ worker[w].msg \in Requests(o)
  BY HeldRequest
<1>2. worker[w].msg \in DOMAIN orderEvents /\ worker[w].msg \notin inventoryAcked
  BY <1>1 DEF Requests, AttemptInv, HeldUnacked
<1>3. ~ FailedFor(worker[w].msg)
  BY <1>2 DEF FailedFor, AttemptInv, HeldOnce, Holds
<1> QED
  BY <1>1, <1>3 DEF AttemptInv, DecidedUnreserved, AskedOnce

LEMMA ReserveDecides ==
    ASSUME IndInv, CreationInv, AttemptInv, SagaInv, NEW w \in Workers,
           ReserveSucceeds(w), ~ NothingToReserve(w),
           Ledger!ReserveOrder(Order(w).order)
    PROVE  \E o \in Orders : Saga!Decide(o, "reserved")
<1>1. worker[w].at = "reserve" /\ Ledger!TypeOK
  BY DEF ReserveSucceeds, IndInv, TypeOK
<1>2. PICK o \in Orders : o = Order(w).order
  BY <1>1, HeldRequest
<1>3. ~ Decided(o) /\ ~ Reserved(o)
  BY <1>1, <1>2, HeldUndecided DEF NothingToReserve
<1>4. status[o] # "absent" /\ ItemsOf[o] # << >>
  BY <1>1, <1>2, HeldOrderExists DEF OrderExists, AttemptInv, StoredAdmitted, Admitted
<1>5. /\ Reserved(o)'
      /\ \A x \in Orders \ {o} : reservations'[x] = reservations[x]
  BY <1>1, <1>2, ReserveOrderReserves
<1>6. UNCHANGED <<status, applied, inventoryEvents>>
  BY DEF ReserveSucceeds, orderVars, topicVars
<1>7. \A x \in Orders : Decided(x)' = Decided(x)
  BY <1>6 DEF Decided
<1>8. \A x \in Orders \ {o} : Outcome(x)' = Outcome(x)
  BY <1>5, <1>7 DEF Outcome, Reserved
<1>9. Outcome(o) = "open" /\ Outcome(o)' = "reserved"
  BY <1>3, <1>4, <1>5, <1>7 DEF Outcome
<1>10. Outcomes' = [Outcomes EXCEPT ![o] = "reserved"] /\ Outcomes[o] = "open"
  BY <1>8, <1>9 DEF Outcomes
<1>11. SettledOrders' = SettledOrders
  BY <1>6, SettledUnchanged
<1> QED
  BY <1>4, <1>6, <1>10, <1>11 DEF Saga!Decide

LEMMA FailureRefuses ==
    ASSUME IndInv, CreationInv, AttemptInv, SagaInv, NEW w \in Workers,
           PublishReservationFailed(w)
    PROVE  \E o \in Orders : Saga!Decide(o, "refused")
<1>1. worker[w].at = "fail" /\ TypeOK
  BY DEF PublishReservationFailed, IndInv
<1>2. PICK o \in Orders : o = Order(w).order
  BY <1>1, HeldRequest
<1>3. ~ Decided(o) /\ ~ Reserved(o)
  BY <1>1, <1>2, HeldUndecided, HeldUnreserved DEF AttemptInv
<1>4. status[o] # "absent"
  BY <1>1, <1>2, HeldOrderExists DEF OrderExists
<1>5. UNCHANGED <<status, applied, reservations>>
  BY DEF PublishReservationFailed, orderVars, ledgerVars
<1>6. PICK e \in InventoryEvents :
         /\ ResultWritten(e, w) /\ e.type = "InventoryReservationFailed"
         /\ inventoryEvents' = Append(inventoryEvents, e)
  BY <1>1, FailurePublished
<1>7. e.payload.OrderID = o /\ e.id = Len(inventoryEvents) + 1
  BY <1>2, <1>6 DEF ResultWritten
<1>8. \A x \in Orders : Decided(x)' <=> Decided(x) \/ x = o
  BY <1>1, <1>6, <1>7, DecidedByFailure
<1>9. \A x \in Orders \ {o} : Outcome(x)' = Outcome(x)
  BY <1>5, <1>8 DEF Outcome, Reserved
<1>10. Outcome(o) = "open" /\ Outcome(o)' = "refused"
  BY <1>3, <1>8 DEF Outcome
<1>11. Outcomes' = [Outcomes EXCEPT ![o] = "refused"] /\ Outcomes[o] = "open"
  BY <1>9, <1>10 DEF Outcomes
<1>12. SettledOrders' = SettledOrders
  BY <1>5, <1>6, <1>7, NewResultUnsettled DEF SagaInv
<1> QED
  BY <1>4, <1>5, <1>11, <1>12 DEF Saga!Decide

\* The decision was taken when the stock was.
LEMMA SuccessStutters ==
    ASSUME IndInv, SagaInv, NEW w \in Workers, PublishReserved(w), [Next]_vars
    PROVE  UNCHANGED Saga!sagaVars
<1>1. TypeOK /\ MessagesInv
  BY DEF IndInv
<1>2. UNCHANGED <<status, applied, reservations>>
  BY DEF PublishReserved, orderVars, ledgerVars
<1>3. PICK e \in InventoryEvents :
         /\ e.type = "InventoryReserved" /\ e.id = Len(inventoryEvents) + 1
         /\ inventoryEvents' = Append(inventoryEvents, e)
  <2> DEFINE payload == InventoryResultPayload(Order(w).order, Order(w).user, "")
             e == NewEvent(inventoryEvents, "InventoryReserved", payload)
  <2>1. payload \in Payloads
    BY <1>1, InHandType, ResultPayload, EventTypes DEF PublishReserved
  <2>2. "InventoryReserved" \in InventoryEventTypes
    BY EventTypes
  <2> HIDE DEF payload
  <2>3. /\ e \in InventoryEvents /\ e.type = "InventoryReserved"
        /\ e.id = Len(inventoryEvents) + 1
        /\ Publish(inventoryEvents, "InventoryReserved", payload)
              = Append(inventoryEvents, e)
    BY <1>1, <2>1, <2>2, NewInventoryEvent
  <2> QED
    BY <2>3 DEF PublishReserved, payload
<1>4. \A x \in Orders : Decided(x)' <=> Decided(x)
  BY <1>1, <1>3, UndecidedBySuccess
<1>5. Outcomes' = Outcomes
  BY <1>2, <1>4 DEF Outcomes, Outcome, Reserved
<1>6. SettledOrders' = SettledOrders
  BY <1>2, <1>3, NewResultUnsettled DEF SagaInv
<1> QED
  BY <1>2, <1>5, <1>6 DEF Saga!sagaVars

\* A result in hand is the one of its order, and says what became of it.
LEMMA ResultTellsOutcome ==
    ASSUME IndInv, CreationInv, AttemptInv, SagaInv, ApplyResult,
           NEW o, o = ResultOrder
    PROVE  /\ o \in Orders \ SettledOrders
           /\ consumer.msg \in ResultsOf(o)
           /\ Outcome(o) = IF ResultStatus = "CANCELLED" THEN "refused" ELSE "reserved"
<1>1. o \in Orders /\ consumer.msg \in DOMAIN inventoryEvents
  BY DEF ApplyResult, OrderExists, IndInv, TypeOK
<1>2. consumer.msg \in ResultsOf(o)
  BY <1>1 DEF ResultsOf, ResultOrder, Result
<1>3. \A m \in ResultsOf(o) : inventoryEvents[m] = Result
  BY <1>1, <1>2 DEF SagaInv, AnsweredOnce, Result
<1>4. o \notin SettledOrders
  BY <1>3 DEF SettledOrders, ApplyResult, IndInv, ConsumerInv
<1>5. Decided(o) <=> Result.type = "InventoryReservationFailed"
  BY <1>1, <1>2, <1>3 DEF Decided, ResultsOf
<1>6. ResultStatus = "CANCELLED" <=> Result.type = "InventoryReservationFailed"
  BY DEF ResultStatus
<1>7. CASE Result.type = "InventoryReservationFailed"
  BY <1>1, <1>2, <1>4, <1>5, <1>6, <1>7 DEF Outcome
<1>8. CASE Result.type # "InventoryReservationFailed"
  <2>1. Result.type = "InventoryReserved"
    BY <1>1, <1>8, TopicsType DEF IndInv, Result, InventoryEvents, InventoryEventTypes
  <2>2. Reserved(o)
    BY <1>1, <2>1 DEF SagaInv, SuccessesReserved, NamesReserved, Result,
                      ResultOrder, AsInventoryResult
  <2>3. ItemsOf[o] # << >>
    BY <1>1 DEF AttemptInv, StoredAdmitted, Admitted, ApplyResult, OrderExists
  <2> QED
    BY <1>1, <1>2, <1>4, <1>5, <1>6, <1>8, <2>2, <2>3 DEF Outcome
<1> QED
  BY <1>7, <1>8

LEMMA ResultSettles ==
    ASSUME IndInv, CreationInv, AttemptInv, SagaInv, ApplyResult
    PROVE  \E o \in Orders : Saga!Settle(o)
<1>1. PICK o : o = ResultOrder
  OBVIOUS
<1>2. /\ o \in Orders \ SettledOrders
      /\ consumer.msg \in ResultsOf(o)
      /\ Outcome(o) = IF ResultStatus = "CANCELLED" THEN "refused" ELSE "reserved"
  BY <1>1, ResultTellsOutcome
<1>3. /\ status' = [status EXCEPT ![o] = ResultStatus]
      /\ applied' = applied \cup {Result.id}
      /\ UNCHANGED <<inventoryEvents, reservations>>
  BY <1>1 DEF ApplyResult, topicVars, inventoryVars, ledgerVars
<1>4. Outcomes' = Outcomes /\ Outcomes[o] = Outcome(o)
  BY <1>2, <1>3, OutcomesUnchanged DEF Outcomes
<1>5. Saga!FinalStatus[Outcomes[o]] = ResultStatus /\ Outcomes[o] # "open"
  <2>1. /\ Saga!FinalStatus["reserved"] = "CONFIRMED"
        /\ Saga!FinalStatus["refused"] = "CANCELLED"
    BY DEF Saga!FinalStatus
  <2>2. ResultStatus = "CANCELLED" \/ ResultStatus = "CONFIRMED"
    BY DEF ResultStatus
  <2> QED
    BY <1>2, <1>4, <2>1, <2>2
<1>6. SettledOrders' = SettledOrders \cup {o}
  <2>1. o \in SettledOrders'
    BY <1>2, <1>3 DEF SettledOrders, ResultsOf, Result
  <2>2. ASSUME NEW x \in Orders \ {o}
        PROVE  x \in SettledOrders' <=> x \in SettledOrders
    <3>1. \A m \in ResultsOf(x) : inventoryEvents[m].id # Result.id
      BY <1>1, <1>2, <2>2 DEF SagaInv, Ids, ResultsOf, Result, ResultOrder
    <3> QED
      BY <1>3, <3>1 DEF SettledOrders, ResultsOf
  <2> QED
    BY <1>2, <2>1, <2>2 DEF SettledOrders
<1> QED
  BY <1>2, <1>3, <1>4, <1>5, <1>6 DEF Saga!Settle

LEMMA SagaStep ==
    ASSUME OneAttempt, OutcomeKnown, IndInv, CreationInv, AttemptInv, SagaInv,
           [Next]_vars
    PROVE  [Saga!Next]_(Saga!sagaVars)
<1>1. CASE UNCHANGED <<status, applied, inventoryEvents, reservations>>
  BY <1>1, OutcomesUnchanged, SettledUnchanged DEF Saga!sagaVars
<1>2. ASSUME NEW o \in Orders, CreateOrder(o) PROVE Saga!Place(o)
  BY <1>2, OutcomesUnchanged, SettledUnchanged
     DEF CreateOrder, Saga!Place, topicVars, inventoryVars, ledgerVars
<1>3. ASSUME NEW u \in AdminRequests, AdminUpdate(u)
      PROVE  Saga!Manage(u.order, u.status)
  BY <1>3, OutcomesUnchanged, SettledUnchanged
     DEF AdminUpdate, OrderExists, Saga!Manage, topicVars, inventoryVars, ledgerVars
<1>4. \A u \in AdminRequests : u.order \in Orders /\ u.status \in AdminStatuses
  BY DEF AdminRequests
<1> QED
  BY <1>1, <1>2, <1>3, <1>4, SagaMoves, ResultSettles, ReserveDecides,
     FailureRefuses, SuccessStutters DEF Saga!Next

(***************************************************************************)
(* Seen through the topics, the tables and the memory of both services, an *)
(* order is decided once, by reserving its stock or by refusing it, and    *)
(* this decision settles its status once; whatever is published late or    *)
(* never, whether the database fails, and wherever the order service       *)
(* stops.                                                                  *)
(***************************************************************************)
THEOREM ImplementsSaga ==
    ASSUME OneAttempt, OutcomeKnown, AdminsDoNotCreate
    PROVE  Spec => SagaSpec
<1>1. Init => Saga!Init
  <2> SUFFICES ASSUME Init PROVE Saga!Init
    OBVIOUS
  <2>1. DOMAIN inventoryEvents = {} /\ applied = {}
    BY DEF Init
  <2>2. SettledOrders = {}
    BY <2>1 DEF SettledOrders
  <2>3. ASSUME NEW o \in Orders PROVE Outcome(o) = "open"
    <3>1. ~ Decided(o)
      BY <2>1 DEF Decided
    <3>2. ItemsOf[o] # << >> => ~ Reserved(o)
      BY InitUnreserved
    <3> QED
      BY <3>1, <3>2 DEF Outcome
  <2>4. Outcomes = [o \in Orders |-> "open"]
    BY <2>3 DEF Outcomes
  <2> QED
    BY <2>2, <2>4 DEF Init, Saga!Init
<1>2. IndInv /\ CreationInv /\ AttemptInv /\ SagaInv /\ [Next]_vars =>
         [Saga!Next]_(Saga!sagaVars)
  BY SagaStep
<1>3. Spec => []CreationInv
  BY OnlyRequestsAreCreations
<1>4. Spec => []AttemptInv /\ []SagaInv
  BY AttemptInvariant, SagaInvariant
<1> QED
  BY <1>1, <1>2, <1>3, <1>4, InductiveInvariant, PTL DEF Spec, SagaSpec, Saga!Spec
=============================================================================
