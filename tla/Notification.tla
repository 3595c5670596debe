---------------------------- MODULE Notification -----------------------------
(***************************************************************************)
(* The notification service: the consumer of topic order-events, the       *)
(* notifications it stores, and the hub of WebSocket connections it pushes *)
(* them to.  The consumer, and one goroutine per connection, share the     *)
(* hub.  What the order service publishes is the environment.              *)
(***************************************************************************)
EXTENDS Events, FiniteSets

CONSTANTS
    Orders,      \* order ids
    OwnerOf,     \* the user id of the customer of each order
    Conns,       \* WebSocket connections
    Changes,     \* the statuses orders are changed to
    UserOf,      \* the user id in the token a connection was opened with
    MaxEvents,   \* bound on the messages of the topic
    MaxFaults    \* bound on stops of the service and duplicated messages

ASSUME NotificationAssumption ==
    /\ Orders \subseteq Nat \ {0}
    /\ OwnerOf \in [Orders -> Nat \ {0}]
    /\ Changes \subseteq Statuses
    /\ UserOf \in [Conns -> Nat \ {0}]
    /\ MaxEvents \in Nat
    /\ MaxFaults \in Nat

VARIABLES
    topic,          \* topic order-events
    acked,          \* messages the notification group committed
    processed,      \* collection processed_events
    notifications,  \* collection notifications, in order of insertion
    consumer,       \* ConsumeOrderEvents and Broadcast: where they are
    loop,           \* Handler.WebSocket and userLoop: where each goroutine is
    socket,         \* the state of each connection as its goroutine sees it
    clients,        \* Hub.clients
    delivered,      \* history: notifications each connection was sent
    faults          \* number of faults so far

consumerVars == <<processed, notifications, consumer>>
hubVars == <<loop, socket, clients, delivered>>
vars == <<topic, acked, consumerVars, hubVars, faults>>

Users == {UserOf[c] : c \in Conns}

Steps == {"idle", "mark", "create", "broadcast", "write", "ack"}

(***************************************************************************)
(* A socket is "new" before the upgrade and "closed" after Close; between  *)
(* them it is "open", "stalled" (the client lives but reads nothing and    *)
(* the send buffer is full) or "broken" (the peer is gone).                *)
(***************************************************************************)
SocketStates == {"new", "open", "stalled", "broken", "closed"}

IdleConsumer == [at |-> "idle", msg |-> 0, targets |-> {}]

NotificationType ==
    [user : Nat, order : Nat, type : OrderEventTypes, event : Nat]

\* The consumer of this topic reads neither the items nor the reason.
PayloadType ==
    [OrderID : Nat, order_id : Nat, user_id : Nat, items : {<< >>}, reason : {""}]

MessageType == [id : Nat, type : OrderEventTypes, payload : PayloadType]

\* The consumer works on a message that exists, and broadcasts what it stored.
TypeOK ==
    /\ topic \in Seq(MessageType)
    /\ \A m \in DOMAIN topic : topic[m].id \in 1 .. m
    /\ acked \subseteq DOMAIN topic
    /\ processed \subseteq 1 .. Len(topic)
    /\ notifications \in Seq(NotificationType)
    /\ consumer \in [at : Steps, msg : 0 .. Len(topic), targets : SUBSET Conns]
    /\ consumer.at # "idle" => consumer.msg # 0
    /\ consumer.at \in {"broadcast", "write"} => notifications # << >>
    /\ loop \in [Conns -> {"none", "add", "read", "done"}]
    /\ socket \in [Conns -> SocketStates]
    /\ DOMAIN clients \subseteq Users
    /\ \A u \in DOMAIN clients :
          clients[u] \subseteq {c \in Conns : UserOf[c] = u}
    /\ delivered \in [Conns -> SUBSET DOMAIN notifications]
    /\ faults \in 0 .. MaxFaults

Init ==
    /\ topic = << >>
    /\ acked = {}
    /\ processed = {}
    /\ notifications = << >>
    /\ consumer = IdleConsumer
    /\ loop = [c \in Conns |-> "none"]
    /\ socket = [c \in Conns |-> "new"]
    /\ clients = << >>
    /\ delivered = [c \in Conns |-> {}]
    /\ faults = 0

Fault == faults < MaxFaults /\ faults' = faults + 1

-----------------------------------------------------------------------------
(***************************************************************************)
(* The environment: the order service publishes the creation of an order,  *)
(* or a change of its status; Kafka's writer may write a message twice.    *)
(***************************************************************************)
OrderServicePublishes(type, payload) ==
    /\ Len(topic) < MaxEvents
    /\ topic' = Publish(topic, type, payload)
    /\ UNCHANGED <<acked, consumerVars, hubVars, faults>>

OrderCreated(o) ==
    OrderServicePublishes("OrderCreated",
                          OrderCreatedPayload(o, OwnerOf[o], << >>))

StatusChanged(o, s) ==
    OrderServicePublishes(StatusEvent[s],
                          InventoryResultPayload(o, OwnerOf[o], ""))

Duplicate ==
    /\ topic # << >>
    /\ Len(topic) < MaxEvents
    /\ Fault
    /\ topic' = Append(topic, topic[Len(topic)])
    /\ UNCHANGED <<acked, consumerVars, hubVars>>

-----------------------------------------------------------------------------
(***************************************************************************)
(* The consumer.                                                           *)
(***************************************************************************)
Event == topic[consumer.msg]

Payload == AsOrderEvent(Event.payload)

MoveConsumer(step) == consumer' = [consumer EXCEPT !.at = step]

Fetch(m) ==
    /\ consumer.at = "idle"
    /\ m \in DOMAIN topic \ acked
    /\ consumer' = [consumer EXCEPT !.at = "mark", !.msg = m]
    /\ UNCHANGED <<topic, acked, processed, notifications, hubVars, faults>>

\* Mutant: the result of MarkProcessed is ignored.
MarkProcessedIgnored ==
    /\ consumer.at = "mark"
    /\ MoveConsumer("create")
    /\ processed' = processed \cup {Event.id}
    /\ UNCHANGED <<topic, acked, notifications, hubVars, faults>>

\* Mutant: a duplicate is skipped without being acknowledged.
MarkProcessedSkipsDuplicate ==
    /\ consumer.at = "mark"
    /\ \/ Event.id \in processed /\ consumer' = IdleConsumer
       \/ Event.id \notin processed /\ MoveConsumer("create")
    /\ processed' = processed \cup {Event.id}
    /\ UNCHANGED <<topic, acked, notifications, hubVars, faults>>

\* Mutant: what MarkProcessed returns is read the wrong way round.
MarkProcessedInverted ==
    /\ consumer.at = "mark"
    /\ \/ Event.id \in processed /\ MoveConsumer("create")
       \/ Event.id \notin processed /\ MoveConsumer("ack")
    /\ processed' = processed \cup {Event.id}
    /\ UNCHANGED <<topic, acked, notifications, hubVars, faults>>

\* MarkProcessed: a duplicate key goes straight to the acknowledgement.
MarkProcessed ==
    /\ consumer.at = "mark"
    /\ \/ Event.id \in processed /\ MoveConsumer("ack")
       \/ Event.id \notin processed /\ MoveConsumer("create")
    /\ processed' = processed \cup {Event.id}
    /\ UNCHANGED <<topic, acked, notifications, hubVars, faults>>

\* What is stored, the message being determined by the event.
NewNotification ==
    [user |-> Payload.user, order |-> Payload.order,
     type |-> Event.type, event |-> Event.id]

\* processEvent: every type of this topic has a message.
Create ==
    /\ consumer.at = "create"
    /\ notifications' = Append(notifications, NewNotification)
    /\ MoveConsumer("broadcast")
    /\ UNCHANGED <<topic, acked, processed, hubVars, faults>>

\* Broadcast copies the connections of the user under the read lock.
Snapshot ==
    /\ consumer.at = "broadcast"
    /\ consumer' = [consumer EXCEPT
          !.at = "write",
          !.targets = IF Payload.user \in DOMAIN clients
                      THEN clients[Payload.user] ELSE {}]
    /\ UNCHANGED <<topic, acked, processed, notifications, hubVars, faults>>

HubAfterAdd(c) ==
    LET u == UserOf[c] IN
    [v \in DOMAIN clients \cup {u} |->
       IF v # u THEN clients[v]
       ELSE IF u \in DOMAIN clients THEN clients[u] \cup {c} ELSE {c}]

\* Mutant: the entry of a user stays when its last connection is removed.
HubAfterRemoveKeepsEntry(c) ==
    [v \in DOMAIN clients |-> clients[v] \ {c}]

\* delete(clients, connection), and the user's entry with the last of them.
HubAfterRemove(c) ==
    [v \in {u \in DOMAIN clients : clients[u] # {c}} |-> clients[v] \ {c}]

\* Mutant: Broadcast returns at the first write that fails.
WriteStopsOnError(c) ==
    /\ consumer.at = "write"
    /\ c \in consumer.targets
    /\ \/ /\ socket[c] \in {"open", "broken"}
          /\ consumer' = [consumer EXCEPT !.targets = @ \ {c}]
          /\ delivered' = [delivered EXCEPT ![c] = @ \cup {Len(notifications)}]
          /\ UNCHANGED <<socket, clients>>
       \/ /\ socket[c] \in {"broken", "closed"}
          /\ consumer' = [consumer EXCEPT !.targets = {}]
          /\ clients' = HubAfterRemove(c)
          /\ socket' = [socket EXCEPT ![c] = "closed"]
          /\ UNCHANGED delivered
    /\ UNCHANGED <<topic, acked, processed, notifications, loop, faults>>

\* Broadcast writes to the copied connections outside the lock, in any order.
Write(c) ==
    /\ consumer.at = "write"
    /\ c \in consumer.targets
    /\ consumer' = [consumer EXCEPT !.targets = @ \ {c}]
    /\ \/ /\ socket[c] \in {"open", "broken"}
          /\ delivered' = [delivered EXCEPT ![c] = @ \cup {Len(notifications)}]
          /\ UNCHANGED <<socket, clients>>
       \/ /\ socket[c] \in {"broken", "closed"}
          /\ clients' = HubAfterRemove(c)
          /\ socket' = [socket EXCEPT ![c] = "closed"]
          /\ UNCHANGED delivered
    /\ UNCHANGED <<topic, acked, processed, notifications, loop, faults>>

BroadcastReturns ==
    /\ consumer.at = "write"
    /\ consumer.targets = {}
    /\ MoveConsumer("ack")
    /\ UNCHANGED <<topic, acked, processed, notifications, hubVars, faults>>

\* Mutant: the offset after the message is committed.
AckNext ==
    /\ consumer.at = "ack"
    /\ acked' = acked \cup {consumer.msg + 1}
    /\ consumer' = IdleConsumer
    /\ UNCHANGED <<topic, processed, notifications, hubVars, faults>>

Ack ==
    /\ consumer.at = "ack"
    /\ acked' = acked \cup {consumer.msg}
    /\ consumer' = IdleConsumer
    /\ UNCHANGED <<topic, processed, notifications, hubVars, faults>>

-----------------------------------------------------------------------------
(***************************************************************************)
(* The connections: Handler.WebSocket, userLoop and the client's side.     *)
(***************************************************************************)
Upgrade(c) ==
    /\ loop[c] = "none"
    /\ loop' = [loop EXCEPT ![c] = "add"]
    /\ socket' = [socket EXCEPT ![c] = "open"]
    /\ UNCHANGED <<topic, acked, consumerVars, clients, delivered, faults>>

Add(c) ==
    /\ loop[c] = "add"
    /\ loop' = [loop EXCEPT ![c] = "read"]
    /\ clients' = HubAfterAdd(c)
    /\ UNCHANGED <<topic, acked, consumerVars, socket, delivered, faults>>

\* Mutant: userLoop does not remove its connection.
ReadFailsNoRemove(c) ==
    /\ loop[c] = "read"
    /\ socket[c] \in {"broken", "closed"}
    /\ loop' = [loop EXCEPT ![c] = "done"]
    /\ socket' = [socket EXCEPT ![c] = "closed"]
    /\ UNCHANGED <<topic, acked, consumerVars, clients, delivered, faults>>

\* ReadMessage fails: the deferred Remove, then the deferred Close.
ReadFails(c) ==
    /\ loop[c] = "read"
    /\ socket[c] \in {"broken", "closed"}
    /\ loop' = [loop EXCEPT ![c] = "done"]
    /\ clients' = HubAfterRemove(c)
    /\ socket' = [socket EXCEPT ![c] = "closed"]
    /\ UNCHANGED <<topic, acked, consumerVars, delivered, faults>>

ClientLeaves(c) ==
    /\ socket[c] \in {"open", "stalled"}
    /\ socket' = [socket EXCEPT ![c] = "broken"]
    /\ UNCHANGED <<topic, acked, consumerVars, loop, clients, delivered, faults>>

ClientStalls(c) ==
    /\ socket[c] = "open"
    /\ socket' = [socket EXCEPT ![c] = "stalled"]
    /\ UNCHANGED <<topic, acked, consumerVars, loop, clients, delivered, faults>>

(***************************************************************************)
(* The service stops, after a crash or because one of the consumer's calls *)
(* returned an error, and is started again.                                *)
(***************************************************************************)
Stop ==
    /\ Fault
    /\ consumer' = IdleConsumer
    /\ loop' = [c \in Conns |-> IF loop[c] = "none" THEN "none" ELSE "done"]
    /\ socket' = [c \in Conns |->
                    IF socket[c] = "new" THEN "new" ELSE "closed"]
    /\ clients' = << >>
    /\ UNCHANGED <<topic, acked, processed, notifications, delivered>>

ConsumerStep ==
    \/ MarkProcessed
    \/ Create
    \/ Snapshot
    \/ \E c \in Conns : Write(c)
    \/ BroadcastReturns
    \/ Ack

Next ==
    \/ \E o \in Orders : OrderCreated(o) \/ \E s \in Changes : StatusChanged(o, s)
    \/ Duplicate
    \/ \E m \in DOMAIN topic : Fetch(m)
    \/ ConsumerStep
    \/ \E c \in Conns : \/ Upgrade(c)
                        \/ Add(c)
                        \/ ReadFails(c)
                        \/ ClientLeaves(c)
                        \/ ClientStalls(c)
    \/ Stop

Spec == Init /\ [][Next]_vars

(***************************************************************************)
(* Fairness: the consumer polls and goes on with what it began, a read on  *)
(* a dead socket returns, a stopped service is started again.  A client    *)
(* need not do anything.                                                   *)
(***************************************************************************)
Fairness ==
    /\ WF_vars(\E m \in DOMAIN topic : Fetch(m))
    /\ WF_vars(ConsumerStep)
    /\ \A c \in Conns : WF_vars(Add(c)) /\ WF_vars(ReadFails(c))

FairSpec == Spec /\ Fairness
-----------------------------------------------------------------------------
(***************************************************************************)
(* StoredOnce: however often an event is written to the topic or delivered,*)
(* and wherever the service stops, it leaves at most one notification.     *)
(***************************************************************************)
StoredOnce ==
    \A i, j \in DOMAIN notifications :
       notifications[i].event = notifications[j].event => i = j

(***************************************************************************)
(* HubTracksLoops: the hub holds no connection whose goroutine has ended,  *)
(* and no empty entry, although the consumer, too, removes connections:    *)
(* clients that come and go leave nothing behind.                          *)
(***************************************************************************)
HubTracksLoops ==
    \A u \in DOMAIN clients :
       /\ clients[u] # {}
       /\ \A c \in clients[u] : loop[c] = "read"

InHub(c) == UserOf[c] \in DOMAIN clients /\ c \in clients[UserOf[c]]

(***************************************************************************)
(* DisconnectedLeavesHub: a connection whose client is gone is removed     *)
(* from the hub, by its own goroutine or by a failed write.                *)
(***************************************************************************)
DisconnectedLeavesHub ==
    \A c \in Conns : socket[c] = "broken" ~> ~ InHub(c)

\* Broadcast has no write deadline: a write to such a client does not return.
SomeoneStalls == \E c \in Conns : socket[c] = "stalled"

(***************************************************************************)
(* BroadcastReaches: a connection of the user that is in the hub when a    *)
(* notification has been stored is sent it, unless it breaks first or some *)
(* client stalls; other connections that break or are removed meanwhile do *)
(* not prevent it.                                                         *)
(***************************************************************************)
BroadcastReaches ==
    \A c \in Conns, n \in 1 .. MaxEvents :
       (/\ consumer.at = "broadcast"
        /\ Len(notifications) = n
        /\ Payload.user = UserOf[c]
        /\ InHub(c))
          ~> (n \in delivered[c] \/ socket[c] # "open" \/ SomeoneStalls)

(***************************************************************************)
(* EventsAcked: the consumer gets past every message of the topic; nothing *)
(* but a client that stops reading can hold it up.                         *)
(***************************************************************************)
EventsAcked ==
    \A m \in 1 .. MaxEvents :
       m \in DOMAIN topic ~> (m \in acked \/ SomeoneStalls)

(***************************************************************************)
(* DeliveredToOwner: a connection is sent notifications of its own user's  *)
(* orders only, whoever connects and disconnects while the consumer holds  *)
(* a copy of the user's connections.                                       *)
(***************************************************************************)
DeliveredToOwner ==
    \A c \in Conns : \A n \in delivered[c] :
       /\ notifications[n].order \in Orders
       /\ OwnerOf[notifications[n].order] = UserOf[c]

(***************************************************************************)
(* NobodyPassedOver: Broadcast is done with a connection it has copied     *)
(* only when it has sent it what was stored last, or the connection is     *)
(* closed.  It can go on with every copied connection but a stalled one.   *)
(***************************************************************************)
NobodyPassedOver ==
    [][\A c \in consumer.targets :
          \/ c \in consumer'.targets
          \/ Len(notifications) \in delivered'[c]
          \/ socket'[c] = "closed"]_vars

\* There is a notification of the event.
Stored(e) == \E n \in DOMAIN notifications : notifications[n].event = e

\* Events that were marked and will never be stored.
Lost ==
    {e \in processed : /\ ~ Stored(e)
                       /\ ~ (consumer.at = "create" /\ Event.id = e)}

(***************************************************************************)
(* OneLossPerFault: what is acknowledged was marked, and what was marked   *)
(* is stored, unless the service stopped between the two.  A stop costs    *)
(* one notification at most, however much is delivered again after it.     *)
(***************************************************************************)
OneLossPerFault ==
    /\ \A m \in acked : topic[m].id \in processed
    /\ Cardinality(Lost) <= faults
=============================================================================
