---------------------------- MODULE OrderWorkflow ----------------------------
(***************************************************************************)
(* The life of an order across the order service, Kafka and the inventory  *)
(* service: the HTTP handlers that create orders and change their status,  *)
(* the workers of the inventory service that reserve stock, and the        *)
(* consumer of the order service that applies the result.                  *)
(*                                                                         *)
(* A topic is the sequence of the messages written to it.  Writers set no  *)
(* partition and topics have several, so a consumer may get the messages   *)
(* in any order: it fetches any message its group has not acknowledged.    *)
(* ReserveOrder is one step; StockReservation is where it is taken apart.  *)
(***************************************************************************)
EXTENDS OrderLines, Events

CONSTANTS
    OwnerOf,        \* the user id of the customer of each order
    Workers,        \* goroutines of ConsumeOrders
    AdminStatuses,  \* statuses that administrators set
    FaultKinds,     \* what may go wrong
    MaxFaults       \* bound on the faults and administrators' updates together

AllFaultKinds == {"publish", "database", "commitLost", "redelivery",
                  "duplicate", "inventoryStop", "orderStop"}

(***************************************************************************)
(* Order ids and user ids are both drawn from a BIGSERIAL column.          *)
(***************************************************************************)
ASSUME WorkflowAssumption ==
    /\ Orders \subseteq Nat \ {0}
    /\ OwnerOf \in [Orders -> Nat \ {0}]
    /\ AdminStatuses \subseteq Statuses
    /\ FaultKinds \subseteq AllFaultKinds
    /\ MaxFaults \in Nat

VARIABLES
    status,          \* orders.status, "absent" before the row is inserted
    creating,        \* Create: order inserted, OrderCreated not yet published
    updating,        \* UpdateStatus: status written, event not yet published
    consumer,        \* ConsumeInventoryEvents: where it is, with which message
    orderProcessed,  \* processed_events of the order database
    orderEvents,     \* topic order-events
    inventoryEvents, \* topic inventory-events
    inventoryAcked,  \* messages of order-events the inventory group committed
    orderAcked,      \* messages of inventory-events the order group committed
    worker,          \* processOrderEvent: where each worker is
    inventoryProcessed,  \* processed_events of the inventory database
    available, reserved, reservations,  \* tables inventory and reservations
    applied,         \* history: ids of the results applied to an order
    faults           \* number of faults and administrators' updates so far

Ledger == INSTANCE StockLedger WITH
             available <- available, reserved <- reserved,
             reservations <- reservations

ledgerVars == <<available, reserved, reservations>>
orderVars == <<status, creating, updating, consumer, orderProcessed, applied>>
topicVars == <<orderEvents, inventoryEvents, inventoryAcked, orderAcked>>
inventoryVars == <<worker, inventoryProcessed, ledgerVars>>
vars == <<orderVars, topicVars, inventoryVars, faults>>

WorkerSteps == {"idle", "reserve", "fail", "failAck", "mark", "ack", "publish"}
ConsumerSteps == {"idle", "mark", "update", "publish", "ack"}

IdleWorker == [at |-> "idle", msg |-> 0, reason |-> ""]
IdleConsumer == [at |-> "idle", msg |-> 0]

\* The requests that the handler of UpdateStatus passes on.
AdminRequests == [order : Orders, status : AdminStatuses]

Payloads == [OrderID : Nat, order_id : Nat, user_id : Nat,
             items : {<< >>} \cup {ItemsOf[o] : o \in Orders},
             reason : Reasons]

OrderEvents == [id : Nat \ {0}, type : OrderEventTypes, payload : Payloads]
InventoryEvents ==
    [id : Nat \ {0}, type : InventoryEventTypes, payload : Payloads]

(***************************************************************************)
(* Every committed offset and every message in hand is in its topic.       *)
(***************************************************************************)
TypeOK ==
    /\ status \in [Orders -> Statuses \cup {"absent"}]
    /\ creating \subseteq Orders
    /\ updating \subseteq AdminRequests
    /\ consumer \in [at : ConsumerSteps, msg : Nat]
    /\ consumer.at # "idle" => consumer.msg \in DOMAIN inventoryEvents
    /\ orderProcessed \subseteq Nat
    /\ orderEvents \in Seq(OrderEvents)
    /\ inventoryEvents \in Seq(InventoryEvents)
    /\ inventoryAcked \subseteq DOMAIN orderEvents
    /\ orderAcked \subseteq DOMAIN inventoryEvents
    /\ worker \in [Workers -> [at : WorkerSteps, msg : Nat, reason : Reasons]]
    /\ \A w \in Workers :
          worker[w].at # "idle" => worker[w].msg \in DOMAIN orderEvents
    /\ inventoryProcessed \subseteq Nat
    /\ Ledger!TypeOK
    /\ applied \subseteq Nat
    /\ faults \in 0 .. MaxFaults

Init ==
    /\ status = [o \in Orders |-> "absent"]
    /\ creating = {}
    /\ updating = {}
    /\ consumer = IdleConsumer
    /\ orderProcessed = {}
    /\ orderEvents = << >>
    /\ inventoryEvents = << >>
    /\ inventoryAcked = {}
    /\ orderAcked = {}
    /\ worker = [w \in Workers |-> IdleWorker]
    /\ inventoryProcessed = {}
    /\ Ledger!Init
    /\ applied = {}
    /\ faults = 0

Disturbed == faults < MaxFaults /\ faults' = faults + 1

\* A fault of the given kind happens, within the bound.
Fault(kind) == kind \in FaultKinds /\ Disturbed

-----------------------------------------------------------------------------
(***************************************************************************)
(* The HTTP side of the order service.                                     *)
(***************************************************************************)

\* Create's checks; ItemsAssumption is about the lines it lets through.
Admitted(o) == ItemsOf[o] # << >>

\* Create, up to the commit of repository.Create.  Ids are handed out in order.
CreateOrder(o) ==
    /\ status[o] = "absent"
    /\ \A x \in Orders : x < o => status[x] # "absent"
    /\ Admitted(o)
    /\ status' = [status EXCEPT ![o] = "CREATED"]
    /\ creating' = creating \cup {o}
    /\ UNCHANGED <<updating, consumer, orderProcessed, applied, topicVars,
                   inventoryVars, faults>>

PublishCreated(o) ==
    /\ o \in creating
    /\ creating' = creating \ {o}
    /\ orderEvents' = Publish(orderEvents, "OrderCreated",
                              OrderCreatedPayload(o, OwnerOf[o], ItemsOf[o]))
    /\ UNCHANGED <<status, updating, consumer, orderProcessed, applied,
                   inventoryEvents, inventoryAcked, orderAcked,
                   inventoryVars, faults>>

\* Publish returns an error and nothing was written: the order row stays.
PublishCreatedFails(o) ==
    /\ o \in creating
    /\ creating' = creating \ {o}
    /\ Fault("publish")
    /\ UNCHANGED <<status, updating, consumer, orderProcessed, applied,
                   topicVars, inventoryVars>>

OrderExists(o) == o \in Orders /\ status[o] # "absent"

\* UpdateStatus: FindByID, repository.UpdateStatus.
AdminUpdate(u) ==
    /\ OrderExists(u.order)
    /\ u \notin updating
    /\ status' = [status EXCEPT ![u.order] = u.status]
    /\ updating' = updating \cup {u}
    /\ Disturbed
    /\ UNCHANGED <<creating, consumer, orderProcessed, applied, topicVars,
                   inventoryVars>>

\* UpdateStatus publishes an InventoryResultPayload, whatever the status.
PublishAdminUpdate(u) ==
    /\ u \in updating
    /\ updating' = updating \ {u}
    /\ orderEvents' =
          Publish(orderEvents, StatusEvent[u.status],
                  InventoryResultPayload(u.order, OwnerOf[u.order], ""))
    /\ UNCHANGED <<status, creating, consumer, orderProcessed, applied,
                   inventoryEvents, inventoryAcked, orderAcked,
                   inventoryVars, faults>>

PublishAdminUpdateFails(u) ==
    /\ u \in updating
    /\ updating' = updating \ {u}
    /\ Fault("publish")
    /\ UNCHANGED <<status, creating, consumer, orderProcessed, applied,
                   topicVars, inventoryVars>>

-----------------------------------------------------------------------------
(***************************************************************************)
(* The workers of the inventory service: processOrderEvent.                *)
(***************************************************************************)
Message(w) == orderEvents[worker[w].msg]

Order(w) == AsInventoryOrder(Message(w).payload)

MoveWorker(w, step) == worker' = [worker EXCEPT ![w].at = step]

InHand(m) == \E v \in Workers : worker[v].at # "idle" /\ worker[v].msg = m

\* A message of a type the inventory service ignores is acknowledged at once.
SkipOrderEvent(w, m) ==
    /\ worker[w].at = "idle"
    /\ m \in DOMAIN orderEvents \ inventoryAcked
    /\ orderEvents[m].type # "OrderCreated"
    /\ inventoryAcked' = inventoryAcked \cup {m}
    /\ UNCHANGED <<orderVars, orderEvents, inventoryEvents, orderAcked,
                   inventoryVars, faults>>

FetchOrderEvent(w, m) ==
    /\ worker[w].at = "idle"
    /\ m \in DOMAIN orderEvents \ inventoryAcked
    /\ orderEvents[m].type = "OrderCreated"
    /\ ~ InHand(m)
    /\ worker' = [worker EXCEPT ![w] =
                    [at |-> "reserve", msg |-> m, reason |-> ""]]
    /\ UNCHANGED <<orderVars, topicVars, inventoryProcessed, ledgerVars, faults>>

\* The group rebalances: w gets a message that another worker is handling.
RedeliverOrderEvent(w, m) ==
    /\ worker[w].at = "idle"
    /\ m \in DOMAIN orderEvents \ inventoryAcked
    /\ InHand(m)
    /\ Fault("redelivery")
    /\ worker' = [worker EXCEPT ![w] =
                    [at |-> "reserve", msg |-> m, reason |-> ""]]
    /\ UNCHANGED <<orderVars, topicVars, inventoryProcessed, ledgerVars>>

\* The whole order carries its reservation rows.
Reserved(o) == \A p \in ProductsOf(o) : reservations[o][p] > 0

NothingToReserve(w) == Order(w).items # << >> => Reserved(Order(w).order)

Insufficient(o) ==
    \E p \in ProductsOf(o) : available[p] < FirstQuantity(o, p)

Overflows(o) ==
    \E p \in ProductsOf(o) : reserved[p] + FirstQuantity(o, p) > MaxInt

\* Mutant: the failure is acknowledged and not published.
ReserveFailsSilently(w, reason) ==
    worker' = [worker EXCEPT ![w].at = "failAck", ![w].reason = reason]

ReserveFails(w, reason) ==
    worker' = [worker EXCEPT ![w].at = "fail", ![w].reason = reason]

\* ReserveOrder returns nil: it took the stock, or had nothing to take.
ReserveSucceeds(w) ==
    /\ worker[w].at = "reserve"
    /\ \/ NothingToReserve(w) /\ UNCHANGED ledgerVars
       \/ ~ NothingToReserve(w) /\ Ledger!ReserveOrder(Order(w).order)
    /\ MoveWorker(w, "mark")
    /\ UNCHANGED <<orderVars, topicVars, inventoryProcessed, faults>>

\* ErrNotFound, ErrInsufficientStock, or an UPDATE out of the INT range.
ReserveRefused(w) ==
    /\ worker[w].at = "reserve"
    /\ ~ NothingToReserve(w)
    /\ \/ Insufficient(Order(w).order) /\ ReserveFails(w, "refused")
       \/ Overflows(Order(w).order) /\ ReserveFails(w, "outOfRange")
    /\ UNCHANGED <<orderVars, topicVars, inventoryProcessed, ledgerVars, faults>>

(***************************************************************************)
(* ReserveOrder returns another error.  "database": nothing was committed, *)
(* because the database is unavailable, or the transaction was a deadlock  *)
(* victim or met the UNIQUE constraint.  "commitLost": the transaction was *)
(* committed and the answer to COMMIT was lost.                            *)
(***************************************************************************)
ReserveErrs(w) ==
    /\ worker[w].at = "reserve"
    /\ ReserveFails(w, "dbError")
    /\ \/ Fault("database") /\ UNCHANGED ledgerVars
       \/ /\ Fault("commitLost")
          /\ ~ NothingToReserve(w)
          /\ Ledger!ReserveOrder(Order(w).order)
    /\ UNCHANGED <<orderVars, topicVars, inventoryProcessed>>

\* MarkEventProcessed; its Boolean result is ignored.
MarkOrderEvent(w) ==
    /\ worker[w].at = "mark"
    /\ inventoryProcessed' = inventoryProcessed \cup {Message(w).id}
    /\ MoveWorker(w, "ack")
    /\ UNCHANGED <<orderVars, topicVars, ledgerVars, faults>>

AckOrderEvent(w) ==
    /\ \/ worker[w].at = "ack" /\ MoveWorker(w, "publish")
       \/ worker[w].at = "failAck"
          /\ worker' = [worker EXCEPT ![w] = IdleWorker]
    /\ inventoryAcked' = inventoryAcked \cup {worker[w].msg}
    /\ UNCHANGED <<orderVars, orderEvents, inventoryEvents, orderAcked,
                   inventoryProcessed, ledgerVars, faults>>

\* publishResult, the last step of the success path.
PublishReserved(w) ==
    /\ worker[w].at = "publish"
    /\ inventoryEvents' =
          Publish(inventoryEvents, "InventoryReserved",
                  InventoryResultPayload(Order(w).order, Order(w).user, ""))
    /\ worker' = [worker EXCEPT ![w] = IdleWorker]
    /\ UNCHANGED <<orderVars, orderEvents, inventoryAcked, orderAcked,
                   inventoryProcessed, ledgerVars, faults>>

\* publishFailure, before the acknowledgement.
PublishReservationFailed(w) ==
    /\ worker[w].at = "fail"
    /\ inventoryEvents' =
          Publish(inventoryEvents, "InventoryReservationFailed",
                  InventoryResultPayload(Order(w).order, Order(w).user,
                                         worker[w].reason))
    /\ MoveWorker(w, "failAck")
    /\ UNCHANGED <<orderVars, orderEvents, inventoryAcked, orderAcked,
                   inventoryProcessed, ledgerVars, faults>>

(***************************************************************************)
(* The inventory service stops: a crash, or any of the calls above other   *)
(* than ReserveOrder returned an error, upon which ConsumeOrders cancels   *)
(* every worker and main shuts down.  It is started again; what it had not *)
(* acknowledged is fetched again.                                          *)
(***************************************************************************)
InventoryStop ==
    /\ \E w \in Workers : worker[w].at # "idle"
    /\ Fault("inventoryStop")
    /\ worker' = [w \in Workers |-> IdleWorker]
    /\ UNCHANGED <<orderVars, topicVars, inventoryProcessed, ledgerVars>>

\* POST /inventory
AddStock(p, q) ==
    /\ Ledger!AddStock(p, q)
    /\ UNCHANGED <<orderVars, topicVars, worker, inventoryProcessed, faults>>

-----------------------------------------------------------------------------
(***************************************************************************)
(* The consumer of the order service: ConsumeInventoryEvents.  Nothing     *)
(* publishes an event of another type to its topic.                        *)
(***************************************************************************)
Result == inventoryEvents[consumer.msg]

ResultOrder == AsInventoryResult(Result.payload).order

MoveConsumer(step) == consumer' = [consumer EXCEPT !.at = step]

FetchResult(m) ==
    /\ consumer.at = "idle"
    /\ m \in DOMAIN inventoryEvents \ orderAcked
    /\ consumer' = [at |-> "mark", msg |-> m]
    /\ UNCHANGED <<status, creating, updating, orderProcessed, applied,
                   topicVars, inventoryVars, faults>>

\* INSERT ... ON CONFLICT DO NOTHING: whether it inserted is for the caller.
RememberResult == orderProcessed' = orderProcessed \cup {Result.id}

\* Mutant: the result of MarkEventProcessed is ignored.
MarkResultIgnored ==
    /\ consumer.at = "mark"
    /\ MoveConsumer("update")
    /\ RememberResult
    /\ UNCHANGED <<status, creating, updating, applied, topicVars,
                   inventoryVars, faults>>

\* Mutant: a duplicate is skipped without being acknowledged.
MarkResultSkipsDuplicate ==
    /\ consumer.at = "mark"
    /\ \/ Result.id \in orderProcessed /\ consumer' = IdleConsumer
       \/ Result.id \notin orderProcessed /\ MoveConsumer("update")
    /\ RememberResult
    /\ UNCHANGED <<status, creating, updating, applied, topicVars,
                   inventoryVars, faults>>

MarkResult ==
    /\ consumer.at = "mark"
    /\ \/ Result.id \in orderProcessed /\ MoveConsumer("ack")
       \/ Result.id \notin orderProcessed /\ MoveConsumer("update")
    /\ RememberResult
    /\ UNCHANGED <<status, creating, updating, applied, topicVars,
                   inventoryVars, faults>>

\* Mutant: every result confirms the order.
ResultStatusConfirmed == "CONFIRMED"

ResultStatus ==
    IF Result.type = "InventoryReservationFailed" THEN "CANCELLED"
                                                  ELSE "CONFIRMED"

ApplyResult ==
    /\ consumer.at = "update"
    /\ OrderExists(ResultOrder)
    /\ status' = [status EXCEPT ![ResultOrder] = ResultStatus]
    /\ applied' = applied \cup {Result.id}
    /\ MoveConsumer("publish")
    /\ UNCHANGED <<creating, updating, orderProcessed, topicVars,
                   inventoryVars, faults>>

\* UpdateStatus finds no row: ErrNotFound ends the consumer, and the service.
ApplyResultNotFound ==
    /\ consumer.at = "update"
    /\ ~ OrderExists(ResultOrder)
    /\ consumer' = IdleConsumer
    /\ UNCHANGED <<status, creating, updating, orderProcessed, applied,
                   topicVars, inventoryVars, faults>>

\* publishStatusEvent
PublishStatus ==
    /\ consumer.at = "publish"
    /\ orderEvents' = Publish(orderEvents, StatusEvent[ResultStatus],
                              Result.payload)
    /\ MoveConsumer("ack")
    /\ UNCHANGED <<status, creating, updating, orderProcessed, applied,
                   inventoryEvents, inventoryAcked, orderAcked,
                   inventoryVars, faults>>

\* Mutant: the offset after the message is committed.
AckResultNext ==
    /\ consumer.at = "ack"
    /\ orderAcked' = orderAcked \cup {consumer.msg + 1}
    /\ consumer' = IdleConsumer
    /\ UNCHANGED <<status, creating, updating, orderProcessed, applied,
                   orderEvents, inventoryEvents, inventoryAcked,
                   inventoryVars, faults>>

AckResult ==
    /\ consumer.at = "ack"
    /\ orderAcked' = orderAcked \cup {consumer.msg}
    /\ consumer' = IdleConsumer
    /\ UNCHANGED <<status, creating, updating, orderProcessed, applied,
                   orderEvents, inventoryEvents, inventoryAcked,
                   inventoryVars, faults>>

\* The order service stops in the middle of whatever it was doing.
OrderStop ==
    /\ consumer.at # "idle" \/ creating # {} \/ updating # {}
    /\ Fault("orderStop")
    /\ creating' = {}
    /\ updating' = {}
    /\ consumer' = IdleConsumer
    /\ UNCHANGED <<status, orderProcessed, applied, topicVars, inventoryVars>>

-----------------------------------------------------------------------------
(***************************************************************************)
(* Kafka: the writer retries a write whose answer it did not get, and the  *)
(* topic holds the same event twice.  The copy stands right behind the     *)
(* event: consumers fetch in any order, so a later place shows no more.    *)
(***************************************************************************)
DuplicateOrderEvent ==
    /\ orderEvents # << >>
    /\ Fault("duplicate")
    /\ orderEvents' = Append(orderEvents, orderEvents[Len(orderEvents)])
    /\ UNCHANGED <<orderVars, inventoryEvents, inventoryAcked, orderAcked,
                   inventoryVars>>

DuplicateInventoryEvent ==
    /\ inventoryEvents # << >>
    /\ Fault("duplicate")
    /\ inventoryEvents' =
          Append(inventoryEvents, inventoryEvents[Len(inventoryEvents)])
    /\ UNCHANGED <<orderVars, orderEvents, inventoryAcked, orderAcked,
                   inventoryVars>>

OrderNext ==
    \/ \E o \in Orders : \/ CreateOrder(o)
                         \/ PublishCreated(o)
                         \/ PublishCreatedFails(o)
    \/ \E u \in AdminRequests : AdminUpdate(u)
    \/ \E u \in updating : PublishAdminUpdate(u) \/ PublishAdminUpdateFails(u)
    \/ \E m \in DOMAIN inventoryEvents : FetchResult(m)
    \/ MarkResult
    \/ ApplyResult
    \/ ApplyResultNotFound
    \/ PublishStatus
    \/ AckResult
    \/ OrderStop

WorkerStep(w) ==
    \/ ReserveSucceeds(w)
    \/ ReserveRefused(w)
    \/ MarkOrderEvent(w)
    \/ AckOrderEvent(w)
    \/ PublishReserved(w)
    \/ PublishReservationFailed(w)

InventoryNext ==
    \/ \E w \in Workers : \/ WorkerStep(w)
                          \/ ReserveErrs(w)
                          \/ \E m \in DOMAIN orderEvents :
                                \/ SkipOrderEvent(w, m)
                                \/ FetchOrderEvent(w, m)
                                \/ RedeliverOrderEvent(w, m)
    \/ InventoryStop
    \/ \E p \in Products, q \in 1 .. MaxInt : AddStock(p, q)

KafkaNext == DuplicateOrderEvent \/ DuplicateInventoryEvent

Next == OrderNext \/ InventoryNext \/ KafkaNext

Spec == Init /\ [][Next]_vars

(***************************************************************************)
(* Fairness: a service that runs goes on with what it has begun, and polls *)
(* its topic; a service that stopped is started again.  Nothing obliges a  *)
(* customer, an administrator or a fault to act.                           *)
(***************************************************************************)
Fairness ==
    /\ \A o \in Orders : WF_vars(PublishCreated(o))
    /\ WF_vars(\E u \in updating : PublishAdminUpdate(u))
    /\ WF_vars(\E m \in DOMAIN inventoryEvents : FetchResult(m))
    /\ WF_vars(MarkResult \/ ApplyResult \/ ApplyResultNotFound)
    /\ WF_vars(PublishStatus \/ AckResult)
    /\ \A w \in Workers :
          /\ WF_vars(WorkerStep(w))
          /\ WF_vars(\E m \in DOMAIN orderEvents :
                        SkipOrderEvent(w, m) \/ FetchOrderEvent(w, m))

FairSpec == Spec /\ Fairness
-----------------------------------------------------------------------------
Decided(o) ==
    \E m \in DOMAIN inventoryEvents :
       /\ inventoryEvents[m].type = "InventoryReservationFailed"
       /\ AsInventoryResult(inventoryEvents[m].payload).order = o

OrderOf(m) == AsInventoryOrder(orderEvents[m].payload).order
ItemsIn(m) == AsInventoryOrder(orderEvents[m].payload).items

(***************************************************************************)
(* ConfirmedIsReserved: an order is CONFIRMED only when all its stock is   *)
(* reserved, although its status is written by another service, from an    *)
(* event, at a later time.                                                 *)
(***************************************************************************)
ConfirmedIsReserved ==
    \A o \in Orders : status[o] = "CONFIRMED" => Reserved(o)

(***************************************************************************)
(* StatusAppliedOnce: a result that is delivered again, or written twice   *)
(* by Kafka's retry, never changes the status of its order a second time.  *)
(***************************************************************************)
StatusAppliedOnce == consumer.at = "update" => Result.id \notin applied

\* The messages that ask for the stock of o, and the results for it.
Requests(o) ==
    {m \in DOMAIN orderEvents :
        orderEvents[m].type = "OrderCreated" /\ OrderOf(m) = o /\ ItemsIn(m) # << >>}

ResultsOf(o) ==
    {m \in DOMAIN inventoryEvents :
        AsInventoryResult(inventoryEvents[m].payload).order = o}

\* OrderCreated was not published, and nobody is about to.
Unannounced(o) == o \notin creating /\ Requests(o) = {}

\* A reservation that succeeded was marked and acknowledged, its result was
\* not published, and no worker has the order in hand.
Unanswered(o) ==
    /\ ResultsOf(o) = {}
    /\ \A m \in Requests(o) : m \in inventoryAcked /\ ~ InHand(m)
    /\ \E m \in Requests(o) : orderEvents[m].id \in inventoryProcessed

\* A result was marked as processed, and is neither applied nor in hand.
Forgotten(o) ==
    \E m \in ResultsOf(o) :
       LET id == inventoryEvents[m].id
       IN  /\ id \in orderProcessed \ applied
           /\ ~ (consumer.at = "update" /\ Result.id = id)

\* An administrator set the order back to CREATED after its result.
Reset(o) == \E m \in ResultsOf(o) : inventoryEvents[m].id \in applied

(***************************************************************************)
(* Somebody has the order to act upon: the handler that created it, a      *)
(* worker that will fetch or holds its request, or the consumer, which     *)
(* will fetch its result and has not seen it, or is about to apply it.     *)
(***************************************************************************)
OnItsWay(o) ==
    \/ o \in creating
    \/ \E m \in Requests(o) : m \notin inventoryAcked \/ InHand(m)
    \/ \E m \in ResultsOf(o) :
          LET id == inventoryEvents[m].id
          IN  \/ m \notin orderAcked /\ id \notin orderProcessed
              \/ consumer.at = "update" /\ Result.id = id

(***************************************************************************)
(* OrderNotLost: an order that is CREATED is on its way or fell into one   *)
(* of the gaps: at no moment has everybody finished with it undecided.     *)
(***************************************************************************)
OrderNotLost ==
    \A o \in Orders :
       status[o] = "CREATED" =>
          \/ OnItsWay(o)
          \/ Unannounced(o) \/ Unanswered(o) \/ Forgotten(o) \/ Reset(o)

(***************************************************************************)
(* LossNeedsFault: each gap is opened by its own fault only.  Where        *)
(* administrators do not set CREATED, an order is lost only if the         *)
(* publication of OrderCreated may fail, or the service that has to go on  *)
(* with it may stop.                                                       *)
(***************************************************************************)
LossNeedsFault ==
    \A o \in Orders :
       status[o] = "CREATED" =>
          \/ OnItsWay(o)
          \/ Unannounced(o) /\ FaultKinds \cap {"publish", "orderStop"} # {}
          \/ Unanswered(o) /\ "inventoryStop" \in FaultKinds
          \/ Forgotten(o) /\ "orderStop" \in FaultKinds

(***************************************************************************)
(* SagaSpec: seen through the topics, the tables and what each service     *)
(* remembers, an order is decided once and its decision is applied once,   *)
(* as in OrderSaga, as long as its request is handled in one attempt.      *)
(***************************************************************************)
Outcome(o) ==
    IF Decided(o) THEN "refused"
    ELSE IF ItemsOf[o] # << >> /\ Reserved(o) THEN "reserved" ELSE "open"

Outcomes == [o \in Orders |-> Outcome(o)]

SettledOrders ==
    {o \in Orders : \E m \in ResultsOf(o) : inventoryEvents[m].id \in applied}

Saga == INSTANCE OrderSaga WITH
           status <- status, outcome <- Outcomes, settled <- SettledOrders

SagaSpec == Saga!Spec

(***************************************************************************)
(* OrderSettles: an order that is CREATED is in the end decided, whatever  *)
(* fails, stops or is delivered twice.  It stays CREATED only when a       *)
(* service stopped or failed in one of the three gaps between a database   *)
(* and Kafka, or when an administrator put it back.                        *)
(***************************************************************************)
OrderSettles ==
    \A o \in Orders :
       []<> (\/ status[o] # "CREATED"
             \/ Unannounced(o) \/ Unanswered(o) \/ Forgotten(o) \/ Reset(o))

(***************************************************************************)
(* EventsDrain: neither group is ever stuck on a message: again and again  *)
(* both have acknowledged everything, however they were stopped before.    *)
(***************************************************************************)
EventsDrain ==
    []<> (/\ inventoryAcked = DOMAIN orderEvents
          /\ orderAcked = DOMAIN inventoryEvents)

-----------------------------------------------------------------------------
(***************************************************************************)
(* What the documents say, which the code does not keep: see the findings. *)
(***************************************************************************)

\* A failure was published whose reason is the order, and not the database.
Rejected(o) ==
    \E m \in DOMAIN inventoryEvents :
       /\ inventoryEvents[m].type = "InventoryReservationFailed"
       /\ AsInventoryResult(inventoryEvents[m].payload).order = o
       /\ AsInventoryResult(inventoryEvents[m].payload).reason # "dbError"

(***************************************************************************)
(* AckedOrderHandled: the offset of an OrderCreated message is committed   *)
(* only after the reservation was handled: the stock of the order is       *)
(* reserved, or the order was turned down for what it asks.  A database    *)
(* that was not available leaves the message to be delivered again.        *)
(***************************************************************************)
AckedOrderHandled ==
    \A m \in inventoryAcked :
       orderEvents[m].type = "OrderCreated" /\ ItemsIn(m) # << >> =>
          Reserved(OrderOf(m)) \/ Rejected(OrderOf(m))

(***************************************************************************)
(* CancelledIsUnreserved: the two outcomes of an order exclude each other: *)
(* one whose reservation succeeded is not cancelled by the system.         *)
(***************************************************************************)
CancelledIsUnreserved ==
    \A o \in Orders : status[o] = "CANCELLED" => ~ Reserved(o)

(***************************************************************************)
(* ReservedIsConfirmed: an order that got its stock is confirmed in the    *)
(* end.                                                                    *)
(***************************************************************************)
ReservedIsConfirmed ==
    \A o \in Orders : Reserved(o) ~> status[o] = "CONFIRMED"
=============================================================================
