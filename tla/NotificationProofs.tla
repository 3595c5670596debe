-------------------------- MODULE NotificationProofs --------------------------
(***************************************************************************)
(* Proofs about Notification, for any orders, customers and connections,   *)
(* and any number of messages and faults.                                  *)
(***************************************************************************)
EXTENDS Notification, FiniteSetTheorems, SequenceTheorems, TLAPS

(***************************************************************************)
(* The inductive invariant.  What is stored was marked before, and between *)
(* marking an event and storing it the consumer is the only one to know.   *)
(***************************************************************************)
MarkedFirst ==
    /\ \A n \in DOMAIN notifications : notifications[n].event \in processed
    /\ consumer.at = "create" => Event.id \in processed /\ ~ Stored(Event.id)

IndInv ==
    /\ TypeOK
    /\ MarkedFirst
    /\ StoredOnce
    /\ HubTracksLoops

-----------------------------------------------------------------------------
\* The message that Publish appends.
LEMMA PublishedType ==
    ASSUME NEW log \in Seq(MessageType),
           NEW type \in OrderEventTypes, NEW payload \in PayloadType
    PROVE  /\ Publish(log, type, payload) = Append(log, NewEvent(log, type, payload))
           /\ NewEvent(log, type, payload) \in MessageType
           /\ NewEvent(log, type, payload).id = Len(log) + 1
BY DEF Publish, NewEvent, MessageType

\* The payload of a creation, and of a change of status.
LEMMA PayloadsType ==
    ASSUME NEW o \in Orders
    PROVE  /\ OrderCreatedPayload(o, OwnerOf[o], << >>) \in PayloadType
           /\ InventoryResultPayload(o, OwnerOf[o], "") \in PayloadType
<1>1. o \in Nat /\ OwnerOf[o] \in Nat
  BY NotificationAssumption
<1> QED
  BY <1>1 DEF OrderCreatedPayload, InventoryResultPayload, PayloadType

(***************************************************************************)
(* Every message that is added, new or a copy, is of the topic's type and  *)
(* has the id of its own place or of an earlier one.                       *)
(***************************************************************************)
LEMMA TopicGrows ==
    ASSUME TypeOK,
           \/ \E o \in Orders : OrderCreated(o) \/ \E s \in Changes : StatusChanged(o, s)
           \/ Duplicate
    PROVE  /\ \E message \in MessageType : /\ topic' = Append(topic, message)
                                           /\ message.id \in 1 .. Len(topic) + 1
           /\ faults' \in 0 .. MaxFaults
           /\ UNCHANGED <<acked, consumerVars, hubVars>>
<1>0. topic \in Seq(MessageType) /\ Len(topic) \in Nat /\ faults \in 0 .. MaxFaults
  BY DEF TypeOK
<1>1. ASSUME NEW type \in OrderEventTypes, NEW payload \in PayloadType,
             OrderServicePublishes(type, payload)
      PROVE  /\ \E message \in MessageType : /\ topic' = Append(topic, message)
                                             /\ message.id \in 1 .. Len(topic) + 1
             /\ faults' \in 0 .. MaxFaults
             /\ UNCHANGED <<acked, consumerVars, hubVars>>
  <2> DEFINE message == NewEvent(topic, type, payload)
  <2>1. message \in MessageType /\ message.id = Len(topic) + 1
    BY <1>0, PublishedType
  <2>2. topic' = Append(topic, message)
    BY <1>0, <1>1, PublishedType DEF OrderServicePublishes
  <2> HIDE DEF message
  <2> QED
    BY <1>0, <1>1, <2>1, <2>2 DEF OrderServicePublishes
<1>2. CASE \E o \in Orders : OrderCreated(o)
  <2>1. "OrderCreated" \in OrderEventTypes
    BY DEF OrderEventTypes, StatusEvent, Statuses
  <2> QED
    BY <1>1, <1>2, <2>1, PayloadsType DEF OrderCreated
<1>3. CASE \E o \in Orders, s \in Changes : StatusChanged(o, s)
  <2>1. \A s \in Changes : StatusEvent[s] \in OrderEventTypes
    BY NotificationAssumption DEF OrderEventTypes
  <2> QED
    BY <1>1, <1>3, <2>1, PayloadsType DEF StatusChanged
<1>4. CASE Duplicate
  <2>1. topic # << >> /\ topic' = Append(topic, topic[Len(topic)])
    BY <1>4 DEF Duplicate
  <2>2. Len(topic) \in DOMAIN topic
    BY <1>0, <2>1
  <2>3. topic[Len(topic)] \in MessageType /\ topic[Len(topic)].id \in 1 .. Len(topic)
    BY <1>0, <2>2 DEF TypeOK
  <2> QED
    BY <1>0, <1>4, <2>1, <2>3, NotificationAssumption DEF Duplicate, Fault
<1> QED
  BY <1>2, <1>3, <1>4

\* A notification has the type of the collection.
LEMMA NewNotificationType ==
    ASSUME TypeOK, consumer.at # "idle"
    PROVE  NewNotification \in NotificationType /\ NewNotification.event = Event.id
<1>1. consumer.msg \in DOMAIN topic
  BY DEF TypeOK
<1>2. Event \in MessageType
  BY <1>1 DEF Event, TypeOK
<1>3. Event.payload \in PayloadType
  BY <1>2 DEF MessageType
<1>4. Payload.user \in Nat /\ Payload.order \in Nat
  BY <1>3 DEF Payload, AsOrderEvent, PayloadType
<1> QED
  BY <1>2, <1>4 DEF NewNotification, NotificationType, MessageType

\* Adding or removing a connection keeps every connection with its user.
LEMMA HubType ==
    ASSUME TypeOK, NEW c \in Conns
    PROVE  /\ DOMAIN HubAfterAdd(c) \subseteq Users
           /\ DOMAIN HubAfterRemove(c) \subseteq Users
           /\ \A u \in DOMAIN HubAfterAdd(c) :
                 HubAfterAdd(c)[u] \subseteq {d \in Conns : UserOf[d] = u}
           /\ \A u \in DOMAIN HubAfterRemove(c) :
                 HubAfterRemove(c)[u] \subseteq {d \in Conns : UserOf[d] = u}
BY DEF TypeOK, HubAfterAdd, HubAfterRemove, Users

\* The values of every variable stay in their types.
LEMMA TypePreserved == TypeOK /\ [Next]_vars => TypeOK'
<1> SUFFICES ASSUME TypeOK, [Next]_vars PROVE TypeOK'
  OBVIOUS
<1> USE NotificationAssumption DEF consumerVars, hubVars
<1>1. CASE \/ \E o \in Orders : OrderCreated(o) \/ \E s \in Changes : StatusChanged(o, s)
           \/ Duplicate
  <2>1. PICK message \in MessageType : /\ topic' = Append(topic, message)
                                      /\ message.id \in 1 .. Len(topic) + 1
    BY <1>1, TopicGrows
  <2>2. /\ topic' \in Seq(MessageType)
        /\ Len(topic') = Len(topic) + 1
        /\ \A m \in DOMAIN topic' : topic'[m].id \in 1 .. m
    BY <2>1 DEF TypeOK
  <2>3. faults' \in 0 .. MaxFaults /\ UNCHANGED <<acked, consumerVars, hubVars>>
    BY <1>1, TopicGrows
  <2> QED
    BY <2>2, <2>3 DEF TypeOK
<1>2. ASSUME NEW m \in DOMAIN topic, Fetch(m) PROVE TypeOK'
  <2>1. m \in 1 .. Len(topic) /\ UNCHANGED <<topic, acked, processed, notifications, hubVars, faults>>
    BY <1>2 DEF Fetch, TypeOK
  <2>2. consumer' = [consumer EXCEPT !.at = "mark", !.msg = m]
    BY <1>2 DEF Fetch
  <2>3. "mark" \in Steps /\ m \in 0 .. Len(topic) /\ m # 0
    BY <2>1 DEF TypeOK, Steps
  <2>4. /\ consumer' \in [at : Steps, msg : 0 .. Len(topic), targets : SUBSET Conns]
        /\ consumer'.at = "mark" /\ consumer'.msg # 0
    BY <2>2, <2>3 DEF TypeOK
  <2> QED
    BY <2>1, <2>4 DEF TypeOK
<1>3. CASE MarkProcessed
  <2>1. consumer.msg \in 1 .. Len(topic)
    BY <1>3 DEF MarkProcessed, TypeOK
  <2>2. Event.id \in 1 .. Len(topic)
    BY <2>1 DEF Event, TypeOK
  <2> QED
    <3>1. /\ processed' \subseteq 1 .. Len(topic)
          /\ UNCHANGED <<topic, acked, notifications, hubVars, faults>>
      BY <1>3, <2>2 DEF MarkProcessed, TypeOK
    <3>2. /\ consumer' \in [at : Steps, msg : 0 .. Len(topic), targets : SUBSET Conns]
          /\ consumer'.at \in {"ack", "create"} /\ consumer'.msg = consumer.msg
      BY <1>3 DEF MarkProcessed, MoveConsumer, TypeOK, Steps
    <3> QED
      BY <2>1, <3>1, <3>2 DEF TypeOK
<1>4. CASE Create
  <2>1. /\ notifications' = Append(notifications, NewNotification)
        /\ NewNotification \in NotificationType
    BY <1>4, NewNotificationType DEF Create
  <2>2. /\ notifications' \in Seq(NotificationType)
        /\ notifications' # << >>
        /\ DOMAIN notifications \subseteq DOMAIN notifications'
    <3>1. notifications \in Seq(NotificationType)
      BY DEF TypeOK
    <3> QED
      BY <2>1, <3>1
  <2>3. delivered \in [Conns -> SUBSET DOMAIN notifications']
    BY <2>2 DEF TypeOK
  <2> QED
    BY <1>4, <2>2, <2>3 DEF Create, MoveConsumer, TypeOK, Steps
<1>5. CASE Snapshot
  BY <1>5 DEF Snapshot, TypeOK, Steps
<1>6. ASSUME NEW c \in Conns, Write(c) PROVE TypeOK'
  <2>1. /\ consumer' = [consumer EXCEPT !.targets = @ \ {c}]
        /\ UNCHANGED <<topic, acked, processed, notifications, loop, faults>>
        /\ consumer.at = "write"
    BY <1>6 DEF Write
  <2>2. /\ consumer' \in [at : Steps, msg : 0 .. Len(topic), targets : SUBSET Conns]
        /\ consumer'.at = consumer.at /\ consumer'.msg = consumer.msg
    BY <2>1 DEF TypeOK
  <2>3. Len(notifications) \in DOMAIN notifications
    BY <2>1 DEF TypeOK
  <2>4. \/ UNCHANGED delivered
        \/ delivered' = [delivered EXCEPT ![c] = @ \cup {Len(notifications)}]
    BY <1>6 DEF Write
  <2>5. delivered' \in [Conns -> SUBSET DOMAIN notifications]
    BY <2>3, <2>4 DEF TypeOK
  <2>6. socket' \in [Conns -> SocketStates]
    <3>1. UNCHANGED socket \/ socket' = [socket EXCEPT ![c] = "closed"]
      BY <1>6 DEF Write
    <3>2. socket \in [Conns -> SocketStates] /\ "closed" \in SocketStates
      BY DEF TypeOK, SocketStates
    <3> QED
      BY <3>1, <3>2
  <2>7. clients' = clients \/ clients' = HubAfterRemove(c)
    BY <1>6 DEF Write
  <2> QED
    BY <2>1, <2>2, <2>5, <2>6, <2>7, HubType DEF TypeOK
<1>7. CASE BroadcastReturns
  BY <1>7 DEF BroadcastReturns, MoveConsumer, TypeOK, Steps
<1>8. CASE Ack
  BY <1>8 DEF Ack, IdleConsumer, TypeOK, Steps
<1>9. ASSUME NEW c \in Conns, Upgrade(c) PROVE TypeOK'
  BY <1>9 DEF Upgrade, TypeOK, SocketStates
<1>10. ASSUME NEW c \in Conns, Add(c) PROVE TypeOK'
  BY <1>10, HubType DEF Add, TypeOK
<1>11. ASSUME NEW c \in Conns, ReadFails(c) PROVE TypeOK'
  BY <1>11, HubType DEF ReadFails, TypeOK, SocketStates
<1>12. ASSUME NEW c \in Conns, ClientLeaves(c) PROVE TypeOK'
  BY <1>12 DEF ClientLeaves, TypeOK, SocketStates
<1>13. ASSUME NEW c \in Conns, ClientStalls(c) PROVE TypeOK'
  BY <1>13 DEF ClientStalls, TypeOK, SocketStates
<1>14. CASE Stop
  BY <1>14 DEF Stop, Fault, IdleConsumer, TypeOK, Steps, SocketStates
<1>15. CASE UNCHANGED vars
  BY <1>15 DEF vars, TypeOK
<1> QED
  BY <1>1, <1>2, <1>3, <1>4, <1>5, <1>6, <1>7, <1>8, <1>9, <1>10, <1>11,
     <1>12, <1>13, <1>14, <1>15 DEF Next, ConsumerStep

-----------------------------------------------------------------------------
\* A step of no consumer leaves what is marked and stored.
LEMMA StoresUndisturbed ==
    ASSUME TypeOK, MarkedFirst, StoredOnce,
           UNCHANGED <<topic, processed, notifications>>,
           consumer'.at = "create" =>
              consumer.at = "create" /\ consumer'.msg = consumer.msg
    PROVE  MarkedFirst' /\ StoredOnce'
BY DEF MarkedFirst, StoredOnce, Stored, Event

\* Every notification is of an event that was marked, and of one that no
\* other notification is of.
LEMMA StoredOncePreserved ==
    TypeOK /\ MarkedFirst /\ StoredOnce /\ [Next]_vars
       => (MarkedFirst /\ StoredOnce)'
<1> SUFFICES ASSUME TypeOK, MarkedFirst, StoredOnce, [Next]_vars
             PROVE  MarkedFirst' /\ StoredOnce'
  OBVIOUS
<1> USE DEF consumerVars, hubVars
<1>1. CASE \/ \E o \in Orders : OrderCreated(o) \/ \E s \in Changes : StatusChanged(o, s)
           \/ Duplicate
  <2>1. PICK message \in MessageType : topic' = Append(topic, message)
    BY <1>1, TopicGrows
  <2>2. UNCHANGED <<processed, notifications, consumer>>
    BY <1>1, TopicGrows
  <2>3. consumer.at = "create" => Event' = Event
    BY <2>1, <2>2 DEF Event, TypeOK
  <2> QED
    BY <2>2, <2>3 DEF MarkedFirst, StoredOnce, Stored
<1>2. CASE MarkProcessed
  <2>1. /\ processed' = processed \cup {Event.id}
        /\ UNCHANGED notifications
        /\ Event' = Event
    BY <1>2 DEF MarkProcessed, MoveConsumer, Event, TypeOK
  <2>2. consumer'.at = "create" => Event.id \notin processed
    BY <1>2 DEF MarkProcessed, MoveConsumer, TypeOK
  <2> QED
    BY <2>1, <2>2 DEF MarkedFirst, StoredOnce, Stored
<1>3. CASE Create
  <2>1. /\ notifications' = Append(notifications, NewNotification)
        /\ NewNotification.event = Event.id
        /\ UNCHANGED processed
        /\ consumer'.at = "broadcast"
    BY <1>3, NewNotificationType DEF Create, MoveConsumer, TypeOK
  <2>2. Event.id \in processed /\ ~ Stored(Event.id)
    BY <1>3 DEF Create, MarkedFirst
  <2>3. \A n \in DOMAIN notifications' :
           \/ n \in DOMAIN notifications /\ notifications'[n] = notifications[n]
           \/ n = Len(notifications) + 1 /\ notifications'[n].event = Event.id
    BY <2>1 DEF TypeOK
  <2>4. MarkedFirst'
    BY <2>1, <2>2, <2>3 DEF MarkedFirst
  <2>5. StoredOnce'
    BY <2>2, <2>3 DEF StoredOnce, Stored
  <2> QED
    BY <2>4, <2>5
<1>4. ASSUME \/ \E m \in DOMAIN topic : Fetch(m)
             \/ Snapshot
             \/ BroadcastReturns
             \/ Ack
             \/ Stop
      PROVE  MarkedFirst' /\ StoredOnce'
  <2>1. UNCHANGED <<topic, processed, notifications>>
    BY <1>4 DEF Fetch, Snapshot, BroadcastReturns, Ack, Stop
  <2>2. consumer'.at # "create"
    <3>1. CASE \E m \in DOMAIN topic : Fetch(m)
      BY <3>1 DEF Fetch, TypeOK
    <3>2. CASE Snapshot
      BY <3>2 DEF Snapshot, TypeOK
    <3>3. CASE BroadcastReturns
      BY <3>3 DEF BroadcastReturns, MoveConsumer, TypeOK
    <3>4. CASE Ack \/ Stop
      BY <3>4 DEF Ack, Stop, IdleConsumer
    <3> QED
      BY <1>4, <3>1, <3>2, <3>3, <3>4
  <2> QED
    BY <2>1, <2>2, StoresUndisturbed
<1>5. ASSUME NEW c \in Conns,
             \/ Write(c) \/ Upgrade(c) \/ Add(c)
             \/ ReadFails(c) \/ ClientLeaves(c) \/ ClientStalls(c)
      PROVE  MarkedFirst' /\ StoredOnce'
  <2>1. /\ consumer'.at = consumer.at /\ consumer'.msg = consumer.msg
        /\ UNCHANGED <<topic, processed, notifications>>
    BY <1>5 DEF Write, Upgrade, Add, ReadFails, ClientLeaves, ClientStalls, TypeOK
  <2> QED
    BY <2>1, StoresUndisturbed
<1>6. CASE UNCHANGED vars
  BY <1>6, StoresUndisturbed DEF vars
<1> QED
  BY <1>1, <1>2, <1>3, <1>4, <1>5, <1>6 DEF Next, ConsumerStep

-----------------------------------------------------------------------------
\* Without a change of the hub, no goroutine of one of its connections ends.
LEMMA HubUndisturbed ==
    ASSUME TypeOK, HubTracksLoops, UNCHANGED clients,
           \A c \in Conns : loop[c] = "read" => loop'[c] = "read"
    PROVE  HubTracksLoops'
BY DEF HubTracksLoops, TypeOK

\* Removing a connection leaves no empty entry, and takes it out everywhere.
LEMMA RemoveTracks ==
    ASSUME TypeOK, HubTracksLoops, NEW c \in Conns, clients' = HubAfterRemove(c),
           \A d \in Conns \ {c} : loop'[d] = loop[d]
    PROVE  HubTracksLoops'
<1>1. ASSUME NEW u \in DOMAIN clients'
      PROVE  /\ u \in DOMAIN clients
             /\ clients'[u] = clients[u] \ {c}
             /\ clients[u] # {c}
  BY <1>1 DEF HubAfterRemove
<1>2. ASSUME NEW u \in DOMAIN clients' PROVE clients'[u] # {}
  BY <1>1, <1>2 DEF HubTracksLoops
<1>3. ASSUME NEW u \in DOMAIN clients', NEW d \in clients'[u]
      PROVE  loop'[d] = "read"
  BY <1>1, <1>3 DEF HubTracksLoops, TypeOK
<1> QED
  BY <1>2, <1>3 DEF HubTracksLoops

\* The hub holds connections with a running goroutine only.
LEMMA HubTracksLoopsPreserved ==
    TypeOK /\ HubTracksLoops /\ [Next]_vars => HubTracksLoops'
<1> SUFFICES ASSUME TypeOK, HubTracksLoops, [Next]_vars PROVE HubTracksLoops'
  OBVIOUS
<1> USE DEF consumerVars, hubVars
<1>1. CASE \/ \E o \in Orders : OrderCreated(o) \/ \E s \in Changes : StatusChanged(o, s)
           \/ Duplicate
  BY <1>1, TopicGrows, HubUndisturbed
<1>2. ASSUME \/ \E m \in DOMAIN topic : Fetch(m)
             \/ MarkProcessed
             \/ Create
             \/ Snapshot
             \/ BroadcastReturns
             \/ Ack
      PROVE  HubTracksLoops'
  BY <1>2, HubUndisturbed
     DEF Fetch, MarkProcessed, Create, Snapshot, BroadcastReturns, Ack
<1>3. ASSUME NEW c \in Conns, Write(c) PROVE HubTracksLoops'
  <2>1. UNCHANGED loop /\ (UNCHANGED clients \/ clients' = HubAfterRemove(c))
    BY <1>3 DEF Write
  <2> QED
    BY <2>1, HubUndisturbed, RemoveTracks
<1>4. ASSUME NEW c \in Conns, Upgrade(c) PROVE HubTracksLoops'
  <2>1. UNCHANGED clients /\ \A d \in Conns : loop[d] = "read" => loop'[d] = "read"
    BY <1>4 DEF Upgrade, TypeOK
  <2> QED
    BY <2>1, HubUndisturbed
<1>5. ASSUME NEW c \in Conns, Add(c) PROVE HubTracksLoops'
  <2>1. loop'[c] = "read" /\ \A d \in Conns \ {c} : loop'[d] = loop[d]
    BY <1>5 DEF Add, TypeOK
  <2>2. \A u \in DOMAIN clients' :
           \/ u \in DOMAIN clients /\ clients'[u] = clients[u]
           \/ u \in DOMAIN clients /\ clients'[u] = clients[u] \cup {c}
           \/ clients'[u] = {c}
    BY <1>5 DEF Add, HubAfterAdd
  <2>3. \A u \in DOMAIN clients : \A d \in clients[u] :
           d \in Conns /\ loop[d] = "read"
    BY DEF HubTracksLoops, TypeOK
  <2>4. ASSUME NEW u \in DOMAIN clients' PROVE clients'[u] # {}
    BY <2>2 DEF HubTracksLoops
  <2>5. ASSUME NEW u \in DOMAIN clients', NEW d \in clients'[u]
        PROVE  loop'[d] = "read"
    <3>1. d = c \/ (d \in Conns /\ loop[d] = "read")
      BY <2>2, <2>3
    <3> QED
      BY <2>1, <3>1
  <2> QED
    BY <2>4, <2>5 DEF HubTracksLoops
<1>6. ASSUME NEW c \in Conns, ReadFails(c) PROVE HubTracksLoops'
  <2>1. /\ clients' = HubAfterRemove(c)
        /\ \A d \in Conns \ {c} : loop'[d] = loop[d]
    BY <1>6 DEF ReadFails, TypeOK
  <2> QED
    BY <2>1, RemoveTracks
<1>7. ASSUME NEW c \in Conns, ClientLeaves(c) \/ ClientStalls(c) PROVE HubTracksLoops'
  BY <1>7, HubUndisturbed DEF ClientLeaves, ClientStalls
<1>8. CASE Stop
  BY <1>8 DEF Stop, HubTracksLoops
<1>9. CASE UNCHANGED vars
  BY <1>9, HubUndisturbed DEF vars
<1> QED
  BY <1>1, <1>2, <1>3, <1>4, <1>5, <1>6, <1>7, <1>8, <1>9 DEF Next, ConsumerStep

-----------------------------------------------------------------------------
(***************************************************************************)
(* IndInv holds in every reachable state.                                  *)
(***************************************************************************)
THEOREM InductiveInvariant == Spec => []IndInv
<1>1. Init => IndInv
  BY NotificationAssumption
     DEF Init, IndInv, TypeOK, MarkedFirst, StoredOnce, HubTracksLoops, IdleConsumer,
         Steps, SocketStates
<1>2. IndInv /\ [Next]_vars => IndInv'
  BY TypePreserved, StoredOncePreserved, HubTracksLoopsPreserved DEF IndInv
<1> QED
  BY <1>1, <1>2, PTL DEF Spec

(***************************************************************************)
(* The consumer works on messages that exist, acknowledges no others, and  *)
(* sends connections only what has been stored.                            *)
(***************************************************************************)
THEOREM TypeCorrect == Spec => []TypeOK
<1>1. IndInv => TypeOK
  BY DEF IndInv
<1> QED
  BY <1>1, InductiveInvariant, PTL

(***************************************************************************)
(* No event leaves two notifications, whatever is redelivered, written     *)
(* twice or stopped half way.                                              *)
(***************************************************************************)
THEOREM StoresOnce == Spec => []StoredOnce
<1>1. IndInv => StoredOnce
  BY DEF IndInv
<1> QED
  BY <1>1, InductiveInvariant, PTL

(***************************************************************************)
(* The hub leaks neither connections nor entries of users.                 *)
(***************************************************************************)
THEOREM HubNeverLeaks == Spec => []HubTracksLoops
<1>1. IndInv => HubTracksLoops
  BY DEF IndInv
<1> QED
  BY <1>1, InductiveInvariant, PTL

-----------------------------------------------------------------------------
(***************************************************************************)
(* To whom notifications go.  A payload of the topic names the owner of    *)
(* its order, or nobody: a change of status is published under keys in     *)
(* which the consumer finds no user.  What is stored and whom it is sent   *)
(* to follow from that payload while the consumer works on the message.    *)
(***************************************************************************)
NamesOwner(user, order) == user # 0 => order \in Orders /\ OwnerOf[order] = user

PayloadNamesOwner(payload) ==
    NamesOwner(AsOrderEvent(payload).user, AsOrderEvent(payload).order)

TopicAddressed == \A m \in DOMAIN topic : PayloadNamesOwner(topic[m].payload)

StoreAddressed ==
    /\ \A n \in DOMAIN notifications :
          NamesOwner(notifications[n].user, notifications[n].order)
    /\ consumer.at \in {"broadcast", "write"} =>
          notifications[Len(notifications)].user = Payload.user

TargetsAddressed ==
    \A c \in consumer.targets : consumer.at = "write" /\ UserOf[c] = Payload.user

SentAddressed ==
    \A c \in Conns : \A n \in delivered[c] : notifications[n].user = UserOf[c]

\* Whom the consumer writes to, and who is in the hub, has been upgraded.
Upgraded ==
    /\ \A c \in Conns : loop[c] # "none" => socket[c] # "new"
    /\ \A c \in consumer.targets : socket[c] # "new"

AddressInv ==
    /\ TopicAddressed
    /\ StoreAddressed
    /\ TargetsAddressed
    /\ SentAddressed
    /\ Upgraded

\* The topic is added messages that name the owner, or nobody.
LEMMA TopicAddressedPreserved == TypeOK /\ TopicAddressed /\ [Next]_vars => TopicAddressed'
<1> SUFFICES ASSUME TypeOK, TopicAddressed, [Next]_vars PROVE TopicAddressed'
  OBVIOUS
<1>0. topic \in Seq(MessageType)
  BY DEF TypeOK
<1>1. ASSUME NEW message, message \in MessageType, PayloadNamesOwner(message.payload),
             topic' = Append(topic, message)
      PROVE  TopicAddressed'
  BY <1>0, <1>1 DEF TopicAddressed, PayloadNamesOwner
<1>2. ASSUME NEW type \in OrderEventTypes, NEW payload \in PayloadType,
             PayloadNamesOwner(payload), OrderServicePublishes(type, payload)
      PROVE  TopicAddressed'
  <2>1. /\ NewEvent(topic, type, payload) \in MessageType
        /\ topic' = Append(topic, NewEvent(topic, type, payload))
    BY <1>0, <1>2, PublishedType DEF OrderServicePublishes
  <2>2. NewEvent(topic, type, payload).payload = payload
    BY DEF NewEvent
  <2> QED
    BY <1>1, <1>2, <2>1, <2>2
<1>3. ASSUME NEW o \in Orders, OrderCreated(o) PROVE TopicAddressed'
  <2>1. "OrderCreated" \in OrderEventTypes
    BY DEF OrderEventTypes, StatusEvent, Statuses
  <2>2. PayloadNamesOwner(OrderCreatedPayload(o, OwnerOf[o], << >>))
    BY DEF PayloadNamesOwner, NamesOwner, AsOrderEvent, OrderCreatedPayload
  <2> QED
    BY <1>2, <1>3, <2>1, <2>2, PayloadsType DEF OrderCreated
<1>4. ASSUME NEW o \in Orders, NEW s \in Changes, StatusChanged(o, s) PROVE TopicAddressed'
  <2>1. StatusEvent[s] \in OrderEventTypes
    BY NotificationAssumption DEF OrderEventTypes
  <2>2. PayloadNamesOwner(InventoryResultPayload(o, OwnerOf[o], ""))
    BY DEF PayloadNamesOwner, NamesOwner, AsOrderEvent, InventoryResultPayload
  <2> QED
    BY <1>2, <1>4, <2>1, <2>2, PayloadsType DEF StatusChanged
<1>5. CASE Duplicate
  <2>1. topic' = Append(topic, topic[Len(topic)]) /\ Len(topic) \in DOMAIN topic
    BY <1>0, <1>5 DEF Duplicate
  <2> QED
    BY <1>0, <1>1, <2>1 DEF TopicAddressed
<1>6. CASE UNCHANGED topic
  BY <1>6 DEF TopicAddressed
<1> QED
  BY <1>3, <1>4, <1>5, <1>6
     DEF Next, ConsumerStep, Fetch, MarkProcessed, Create, Snapshot, Write,
         BroadcastReturns, Ack, Upgrade, Add, ReadFails, ClientLeaves, ClientStalls,
         Stop, vars

(***************************************************************************)
(* A step that stores and sends nothing, and leaves the consumer at its    *)
(* message or with no connections to write to, keeps addresses right.      *)
(***************************************************************************)
LEMMA AddressesUndisturbed ==
    ASSUME TypeOK, AddressInv, [Next]_vars,
           UNCHANGED <<notifications, delivered>>,
           consumer'.at \in {"broadcast", "write"} =>
              consumer.at \in {"broadcast", "write"} /\ Payload' = Payload,
           \A c \in consumer'.targets :
              c \in consumer.targets /\ consumer'.at = "write" /\ Payload' = Payload,
           Upgraded'
    PROVE  AddressInv'
<1>1. StoreAddressed'
  BY DEF AddressInv, StoreAddressed
<1>2. TargetsAddressed'
  BY DEF AddressInv, TargetsAddressed
<1>3. SentAddressed'
  BY DEF AddressInv, SentAddressed
<1> QED
  BY <1>1, <1>2, <1>3, TopicAddressedPreserved DEF AddressInv

\* Sockets and goroutines are upgraded together, and for good.
LEMMA UpgradedStays ==
    ASSUME TypeOK, Upgraded,
           \A c \in Conns : socket[c] # "new" => socket'[c] # "new",
           \A c \in Conns : loop'[c] # "none" => loop[c] # "none",
           consumer'.targets \subseteq consumer.targets
    PROVE  Upgraded'
BY DEF Upgraded, TypeOK

LEMMA AddressPreserved ==
    TypeOK /\ HubTracksLoops /\ AddressInv /\ [Next]_vars => AddressInv'
<1> SUFFICES ASSUME TypeOK, HubTracksLoops, AddressInv, [Next]_vars PROVE AddressInv'
  OBVIOUS
<1> USE DEF consumerVars, hubVars
<1>0. \A c \in Conns : c \in consumer.targets => consumer.at = "write"
  BY DEF AddressInv, TargetsAddressed
<1>1. CASE \/ \E o \in Orders : OrderCreated(o) \/ \E s \in Changes : StatusChanged(o, s)
           \/ Duplicate
  <2>1. PICK message \in MessageType : topic' = Append(topic, message)
    BY <1>1, TopicGrows
  <2>2. UNCHANGED <<notifications, consumer, loop, socket, delivered>>
    BY <1>1, TopicGrows
  <2>3. consumer.at # "idle" => Payload' = Payload
    BY <2>1, <2>2 DEF Payload, Event, TypeOK
  <2>4. Upgraded'
    BY <2>2, UpgradedStays DEF AddressInv
  <2> QED
    BY <1>0, <2>2, <2>3, <2>4, AddressesUndisturbed DEF TypeOK
<1>2. ASSUME \/ \E m \in DOMAIN topic : Fetch(m)
             \/ MarkProcessed
             \/ BroadcastReturns
             \/ Ack
      PROVE  AddressInv'
  <2>1. UNCHANGED <<topic, notifications, loop, socket, delivered>>
    BY <1>2 DEF Fetch, MarkProcessed, BroadcastReturns, Ack
  <2>2. consumer'.at \notin {"broadcast", "write"} /\ consumer'.targets = {}
    <3>1. CASE \E m \in DOMAIN topic : Fetch(m)
      BY <1>0, <3>1 DEF Fetch, TypeOK
    <3>2. CASE MarkProcessed
      BY <1>0, <3>2 DEF MarkProcessed, MoveConsumer, TypeOK
    <3>3. CASE BroadcastReturns
      BY <3>3 DEF BroadcastReturns, MoveConsumer, TypeOK
    <3>4. CASE Ack
      BY <3>4 DEF Ack, IdleConsumer
    <3> QED
      BY <1>2, <3>1, <3>2, <3>3, <3>4
  <2>3. Upgraded'
    BY <2>1, <2>2, UpgradedStays DEF AddressInv
  <2> QED
    BY <2>1, <2>2, <2>3, AddressesUndisturbed
<1>3. CASE Create
  <2>1. /\ notifications' = Append(notifications, NewNotification)
        /\ consumer.at = "create" /\ consumer'.at = "broadcast"
        /\ consumer'.targets = consumer.targets /\ consumer'.msg = consumer.msg
        /\ UNCHANGED <<topic, loop, socket, delivered>>
    BY <1>3 DEF Create, MoveConsumer, TypeOK
  <2>2. /\ notifications \in Seq(NotificationType)
        /\ consumer.targets = {}
        /\ consumer.msg \in DOMAIN topic
    BY <1>0, <2>1 DEF TypeOK
  <2>3. NamesOwner(NewNotification.user, NewNotification.order)
    <3>1. PayloadNamesOwner(Event.payload)
      BY <2>2 DEF AddressInv, TopicAddressed, Event
    <3> QED
      BY <3>1 DEF PayloadNamesOwner, NewNotification, Payload
  <2>4. /\ Len(notifications') = Len(notifications) + 1
        /\ notifications'[Len(notifications) + 1] = NewNotification
        /\ \A n \in DOMAIN notifications : notifications'[n] = notifications[n]
        /\ DOMAIN notifications' = DOMAIN notifications \cup {Len(notifications) + 1}
    <3> HIDE DEF NewNotification
    <3> QED
      BY <2>1, <2>2
  <2>5. NewNotification.user = Payload.user /\ Payload' = Payload
    BY <2>1 DEF NewNotification, Payload, Event
  <2>6. StoreAddressed'
    BY <2>3, <2>4, <2>5 DEF AddressInv, StoreAddressed
  <2>7. TargetsAddressed'
    BY <2>1, <2>2 DEF TargetsAddressed
  <2>8. SentAddressed'
    BY <2>1, <2>4 DEF AddressInv, SentAddressed, TypeOK
  <2>9. Upgraded'
    BY <2>1, UpgradedStays DEF AddressInv
  <2> QED
    BY <2>6, <2>7, <2>8, <2>9, TopicAddressedPreserved DEF AddressInv
<1>4. CASE Snapshot
  <2>1. /\ consumer.at = "broadcast" /\ consumer'.at = "write"
        /\ consumer'.msg = consumer.msg
        /\ consumer'.targets = IF Payload.user \in DOMAIN clients
                               THEN clients[Payload.user] ELSE {}
        /\ UNCHANGED <<topic, notifications, loop, socket, delivered>>
    BY <1>4 DEF Snapshot, TypeOK
  <2>2. Payload' = Payload
    BY <2>1 DEF Payload, Event
  <2>3. \A c \in consumer'.targets :
           c \in Conns /\ UserOf[c] = Payload.user /\ loop[c] = "read"
    BY <2>1 DEF TypeOK, HubTracksLoops
  <2>4. StoreAddressed' /\ TargetsAddressed' /\ SentAddressed'
    BY <2>1, <2>2, <2>3 DEF AddressInv, StoreAddressed, TargetsAddressed, SentAddressed
  <2>5. Upgraded'
    BY <2>1, <2>3 DEF AddressInv, Upgraded
  <2> QED
    BY <2>4, <2>5, TopicAddressedPreserved DEF AddressInv
<1>5. ASSUME NEW c \in Conns, Write(c) PROVE AddressInv'
  <2>1. /\ consumer' = [consumer EXCEPT !.targets = @ \ {c}]
        /\ c \in consumer.targets /\ consumer.at = "write"
        /\ UNCHANGED <<topic, notifications, loop>>
    BY <1>5 DEF Write
  <2>2. /\ consumer'.at = "write" /\ consumer'.msg = consumer.msg
        /\ consumer'.targets \subseteq consumer.targets
    BY <2>1 DEF TypeOK
  <2>3. Payload' = Payload
    BY <2>1, <2>2 DEF Payload, Event
  <2>4. StoreAddressed' /\ TargetsAddressed'
    BY <2>1, <2>2, <2>3 DEF AddressInv, StoreAddressed, TargetsAddressed
  <2>5. SentAddressed'
    <3>1. notifications[Len(notifications)].user = UserOf[c]
      BY <2>1 DEF AddressInv, StoreAddressed, TargetsAddressed
    <3>2. \/ UNCHANGED delivered
          \/ delivered' = [delivered EXCEPT ![c] = @ \cup {Len(notifications)}]
      BY <1>5 DEF Write
    <3> QED
      BY <2>1, <3>1, <3>2 DEF AddressInv, SentAddressed, TypeOK
  <2>6. Upgraded'
    <3>1. \A d \in Conns : socket[d] # "new" => socket'[d] # "new"
      BY <1>5 DEF Write, TypeOK
    <3> QED
      BY <2>1, <2>2, <3>1, UpgradedStays DEF AddressInv
  <2> QED
    BY <2>4, <2>5, <2>6, TopicAddressedPreserved DEF AddressInv
<1>6. ASSUME NEW c \in Conns,
             \/ Upgrade(c) \/ Add(c)
             \/ ReadFails(c) \/ ClientLeaves(c) \/ ClientStalls(c)
      PROVE  AddressInv'
  <2>1. UNCHANGED <<topic, notifications, consumer, delivered>>
    BY <1>6 DEF Upgrade, Add, ReadFails, ClientLeaves, ClientStalls
  <2>2. Payload' = Payload
    BY <2>1 DEF Payload, Event
  <2>3. Upgraded'
    BY <1>6, <2>1 DEF Upgrade, Add, ReadFails, ClientLeaves, ClientStalls, AddressInv,
           Upgraded, TypeOK
  <2> QED
    BY <1>0, <2>1, <2>2, <2>3, AddressesUndisturbed DEF TypeOK
<1>7. CASE Stop
  <2>1. /\ UNCHANGED <<topic, notifications, delivered>>
        /\ consumer'.at = "idle" /\ consumer'.targets = {}
    BY <1>7 DEF Stop, IdleConsumer
  <2>2. Upgraded'
    BY <1>7, <2>1 DEF Stop, AddressInv, Upgraded
  <2> QED
    BY <2>1, <2>2, AddressesUndisturbed
<1>8. CASE UNCHANGED vars
  <2>1. Payload' = Payload /\ Upgraded'
    BY <1>8 DEF vars, Payload, Event, AddressInv, Upgraded
  <2> QED
    BY <1>0, <1>8, <2>1, AddressesUndisturbed DEF vars, TypeOK
<1> QED
  BY <1>1, <1>2, <1>3, <1>4, <1>5, <1>6, <1>7, <1>8 DEF Next, ConsumerStep

LEMMA AddressInvariant == Spec => []AddressInv
<1>1. Init => AddressInv
  BY DEF Init, IdleConsumer, AddressInv, TopicAddressed, StoreAddressed,
         TargetsAddressed, SentAddressed, Upgraded
<1>2. IndInv => TypeOK /\ HubTracksLoops
  BY DEF IndInv
<1> QED
  BY <1>1, <1>2, AddressPreserved, InductiveInvariant, PTL DEF Spec

(***************************************************************************)
(* Nobody is sent a notification of another customer's order.              *)
(***************************************************************************)
THEOREM DeliversToOwner == Spec => []DeliveredToOwner
<1>1. TypeOK /\ AddressInv => DeliveredToOwner
  <2> SUFFICES ASSUME TypeOK, AddressInv, NEW c \in Conns, NEW n \in delivered[c]
               PROVE  /\ notifications[n].order \in Orders
                      /\ OwnerOf[notifications[n].order] = UserOf[c]
    BY DEF DeliveredToOwner
  <2>1. n \in DOMAIN notifications /\ notifications[n].user = UserOf[c]
    BY DEF TypeOK, AddressInv, SentAddressed
  <2>2. UserOf[c] # 0
    BY NotificationAssumption
  <2> QED
    BY <2>1, <2>2 DEF AddressInv, StoreAddressed, NamesOwner
<1> QED
  BY <1>1, TypeCorrect, AddressInvariant, PTL

(***************************************************************************)
(* Broadcast leaves no connection it has copied without the notification,  *)
(* unless the connection is closed.                                        *)
(***************************************************************************)
THEOREM PassesNobodyOver == Spec => NobodyPassedOver
<1>1. ASSUME TypeOK, AddressInv, Next, NEW c \in consumer.targets
      PROVE  \/ c \in consumer'.targets
             \/ Len(notifications) \in delivered'[c]
             \/ socket'[c] = "closed"
  <2>0. consumer.at = "write" /\ c \in Conns
    BY <1>1 DEF TypeOK, AddressInv, TargetsAddressed
  <2>1. CASE \E d \in Conns : Write(d)
    <3>1. PICK d \in Conns : Write(d)
      BY <2>1
    <3>2. consumer'.targets = consumer.targets \ {d}
      BY <3>1 DEF Write, TypeOK
    <3>3. \/ delivered' = [delivered EXCEPT ![d] = @ \cup {Len(notifications)}]
          \/ socket' = [socket EXCEPT ![d] = "closed"]
      BY <3>1 DEF Write
    <3>4. Len(notifications) \in delivered'[d] \/ socket'[d] = "closed"
      <4>1. d \in DOMAIN delivered /\ d \in DOMAIN socket
        BY <1>1 DEF TypeOK
      <4> QED
        BY <3>3, <4>1
    <3> QED
      BY <3>2, <3>4
  <2>2. CASE BroadcastReturns
    BY <2>2 DEF BroadcastReturns
  <2>3. CASE Stop
    BY <1>1, <2>0, <2>3 DEF Stop, AddressInv, Upgraded
  <2>4. CASE UNCHANGED consumer
    BY <2>4
  <2>5. CASE \/ \E o \in Orders : OrderCreated(o) \/ \E s \in Changes : StatusChanged(o, s)
             \/ Duplicate
    BY <1>1, <2>5, TopicGrows DEF consumerVars
  <2> QED
    BY <1>1, <2>0, <2>1, <2>2, <2>3, <2>4, <2>5
       DEF Next, ConsumerStep, Fetch, MarkProcessed, Create, Snapshot, Ack, Upgrade, Add,
           ReadFails, ClientLeaves, ClientStalls, consumerVars
<1>2. TypeOK /\ AddressInv /\ [Next]_vars =>
         [\A c \in consumer.targets :
             \/ c \in consumer'.targets
             \/ Len(notifications) \in delivered'[c]
             \/ socket'[c] = "closed"]_vars
  BY <1>1
<1> QED
  BY <1>2, TypeCorrect, AddressInvariant, PTL DEF Spec, NobodyPassedOver

-----------------------------------------------------------------------------
(***************************************************************************)
(* What is lost: an event counts as lost when it was marked, is not stored *)
(* and is not the one in the consumer's hands; only a stop takes an event  *)
(* out of these hands before it is stored.                                 *)
(***************************************************************************)
MarkedInHand ==
    consumer.at \in {"create", "broadcast", "write", "ack"} => Event.id \in processed

AckedMarked == \A m \in acked : topic[m].id \in processed

LossInv ==
    /\ MarkedInHand
    /\ OneLossPerFault

\* Only events of the topic are marked, so those that are lost can be counted.
LEMMA LostIsFinite ==
    ASSUME TypeOK
    PROVE  IsFiniteSet(Lost) /\ Cardinality(Lost) \in Nat
<1>1. Len(topic) \in Nat
  BY DEF TypeOK
<1>2. IsFiniteSet(1 .. Len(topic))
  BY <1>1, FS_Interval
<1>3. Lost \in SUBSET (1 .. Len(topic))
  BY DEF TypeOK, Lost
<1> QED
  BY <1>2, <1>3, FS_Subset, FS_CardinalityType

\* A step that loses nothing.
LEMMA LossUndisturbed ==
    ASSUME TypeOK, TypeOK', Lost' \subseteq Lost, Cardinality(Lost) <= faults,
           faults' >= faults
    PROVE  Cardinality(Lost)' <= faults'
<1>1. IsFiniteSet(Lost) /\ Cardinality(Lost) \in Nat
  BY LostIsFinite
<1>2. Cardinality(Lost') <= Cardinality(Lost)
  BY <1>1, FS_Subset
<1>3. Cardinality(Lost') \in Nat
  BY <1>1, FS_Subset, FS_CardinalityType
<1> QED
  BY <1>1, <1>2, <1>3 DEF TypeOK

LEMMA LossPreserved == TypeOK /\ TypeOK' /\ LossInv /\ [Next]_vars => LossInv'
<1> SUFFICES ASSUME TypeOK, TypeOK', LossInv, [Next]_vars PROVE LossInv'
  OBVIOUS
<1> USE DEF consumerVars, hubVars
<1>0. /\ faults \in Nat /\ Cardinality(Lost) <= faults
      /\ MarkedInHand /\ AckedMarked
  BY DEF TypeOK, LossInv, OneLossPerFault, AckedMarked
<1>e. ASSUME MarkedInHand', AckedMarked', Lost' \subseteq Lost, faults' >= faults
      PROVE  LossInv'
  BY <1>0, <1>e, LossUndisturbed DEF LossInv, OneLossPerFault, AckedMarked
<1>1. CASE \/ \E o \in Orders : OrderCreated(o) \/ \E s \in Changes : StatusChanged(o, s)
           \/ Duplicate
  <2>1. PICK message \in MessageType : topic' = Append(topic, message)
    BY <1>1, TopicGrows
  <2>2. UNCHANGED <<acked, processed, notifications, consumer>>
    BY <1>1, TopicGrows
  <2>3. consumer.at # "idle" => Event' = Event
    BY <2>1, <2>2 DEF Event, TypeOK
  <2>4. MarkedInHand' /\ AckedMarked'
    BY <1>0, <2>1, <2>2, <2>3 DEF MarkedInHand, AckedMarked, TypeOK
  <2>5. Lost' \subseteq Lost
    BY <2>2, <2>3 DEF Lost, Stored
  <2>6. faults' = faults \/ faults' = faults + 1
    BY <1>1 DEF OrderCreated, StatusChanged, OrderServicePublishes, Duplicate, Fault
  <2> QED
    BY <1>0, <1>e, <2>4, <2>5, <2>6
<1>2. ASSUME \/ \E m \in DOMAIN topic : Fetch(m)
             \/ Snapshot
             \/ BroadcastReturns
             \/ Ack
      PROVE  LossInv'
  <2>1. UNCHANGED <<topic, processed, notifications, faults>>
    BY <1>2 DEF Fetch, Snapshot, BroadcastReturns, Ack
  <2>2. consumer.at # "create" /\ consumer'.at # "create"
    <3>1. CASE \E m \in DOMAIN topic : Fetch(m)
      BY <3>1 DEF Fetch, TypeOK
    <3>2. CASE Snapshot
      BY <3>2 DEF Snapshot, TypeOK
    <3>3. CASE BroadcastReturns
      BY <3>3 DEF BroadcastReturns, MoveConsumer, TypeOK
    <3>4. CASE Ack
      BY <3>4 DEF Ack, IdleConsumer
    <3> QED
      BY <1>2, <3>1, <3>2, <3>3, <3>4
  <2>3. MarkedInHand'
    <3>1. CASE \E m \in DOMAIN topic : Fetch(m)
      BY <3>1 DEF Fetch, MarkedInHand, TypeOK
    <3>2. CASE Snapshot
      BY <1>0, <3>2 DEF Snapshot, MarkedInHand, Event, TypeOK
    <3>3. CASE BroadcastReturns
      BY <1>0, <3>3 DEF BroadcastReturns, MoveConsumer, MarkedInHand, Event, TypeOK
    <3>4. CASE Ack
      BY <3>4 DEF Ack, IdleConsumer, MarkedInHand
    <3> QED
      BY <1>2, <3>1, <3>2, <3>3, <3>4
  <2>4. AckedMarked'
    <3>1. UNCHANGED acked \/ (consumer.at = "ack" /\ acked' = acked \cup {consumer.msg})
      BY <1>2 DEF Fetch, Snapshot, BroadcastReturns, Ack
    <3> QED
      BY <1>0, <2>1, <3>1 DEF AckedMarked, MarkedInHand, Event
  <2>5. Lost' \subseteq Lost
    BY <2>1, <2>2 DEF Lost, Stored
  <2> QED
    BY <1>0, <1>e, <2>1, <2>3, <2>4, <2>5
<1>3. CASE MarkProcessed
  <2>1. /\ consumer.at = "mark" /\ Event' = Event
        /\ processed' = processed \cup {Event.id}
        /\ Event.id \notin processed => consumer'.at = "create"
        /\ UNCHANGED <<topic, acked, notifications, faults>>
    BY <1>3 DEF MarkProcessed, MoveConsumer, Event, TypeOK
  <2>2. MarkedInHand' /\ AckedMarked'
    BY <1>0, <2>1 DEF MarkedInHand, AckedMarked
  <2>3. Lost' \subseteq Lost
    BY <2>1 DEF Lost, Stored
  <2> QED
    BY <1>0, <1>e, <2>1, <2>2, <2>3
<1>4. CASE Create
  <2>1. /\ consumer.at = "create" /\ consumer'.at = "broadcast" /\ Event' = Event
        /\ notifications' = Append(notifications, NewNotification)
        /\ NewNotification.event = Event.id
        /\ UNCHANGED <<topic, acked, processed, faults>>
    BY <1>4, NewNotificationType DEF Create, MoveConsumer, Event, TypeOK
  <2>2. /\ Len(notifications) + 1 \in DOMAIN notifications'
        /\ notifications'[Len(notifications) + 1] = NewNotification
        /\ \A n \in DOMAIN notifications :
              n \in DOMAIN notifications' /\ notifications'[n] = notifications[n]
    <3>1. notifications \in Seq(NotificationType)
      BY DEF TypeOK
    <3> HIDE DEF NewNotification
    <3> QED
      BY <2>1, <3>1
  <2>3. Stored(Event.id)' /\ \A e : Stored(e) => Stored(e)'
    BY <2>1, <2>2 DEF Stored
  <2>4. MarkedInHand' /\ AckedMarked'
    BY <1>0, <2>1 DEF MarkedInHand, AckedMarked
  <2>5. Lost' \subseteq Lost
    BY <2>1, <2>3 DEF Lost
  <2> QED
    BY <1>0, <1>e, <2>1, <2>4, <2>5
<1>5. ASSUME NEW c \in Conns,
             \/ Write(c) \/ Upgrade(c) \/ Add(c)
             \/ ReadFails(c) \/ ClientLeaves(c) \/ ClientStalls(c)
      PROVE  LossInv'
  <2>1. /\ consumer'.at = consumer.at /\ consumer'.msg = consumer.msg
        /\ UNCHANGED <<topic, acked, processed, notifications, faults>>
    BY <1>5 DEF Write, Upgrade, Add, ReadFails, ClientLeaves, ClientStalls, TypeOK
  <2>2. MarkedInHand' /\ AckedMarked' /\ Lost' \subseteq Lost
    BY <1>0, <2>1 DEF MarkedInHand, AckedMarked, Lost, Stored, Event
  <2> QED
    BY <1>0, <1>e, <2>1, <2>2
<1>6. CASE Stop
  <2>1. /\ consumer'.at = "idle" /\ faults' = faults + 1
        /\ UNCHANGED <<topic, acked, processed, notifications>>
    BY <1>6 DEF Stop, Fault, IdleConsumer
  <2>2. MarkedInHand' /\ AckedMarked'
    BY <1>0, <2>1 DEF MarkedInHand, AckedMarked
  <2>3. Lost' \in SUBSET (Lost \cup {Event.id})
    BY <2>1 DEF Lost, Stored
  <2>4. /\ IsFiniteSet(Lost \cup {Event.id})
        /\ Cardinality(Lost \cup {Event.id}) <= Cardinality(Lost) + 1
        /\ Cardinality(Lost \cup {Event.id}) \in Nat
        /\ Cardinality(Lost) \in Nat
    BY LostIsFinite, FS_AddElement
  <2>5. Cardinality(Lost') <= Cardinality(Lost \cup {Event.id}) /\ Cardinality(Lost') \in Nat
    BY <2>3, <2>4, FS_Subset, FS_CardinalityType
  <2> QED
    BY <1>0, <2>1, <2>2, <2>4, <2>5 DEF LossInv, OneLossPerFault, AckedMarked
<1>7. CASE UNCHANGED vars
  <2>1. MarkedInHand' /\ AckedMarked' /\ Lost' \subseteq Lost
    BY <1>0, <1>7 DEF MarkedInHand, AckedMarked, Lost, Stored, Event, vars
  <2> QED
    BY <1>0, <1>e, <1>7, <2>1 DEF vars
<1> QED
  BY <1>1, <1>2, <1>3, <1>4, <1>5, <1>6, <1>7 DEF Next, ConsumerStep

(***************************************************************************)
(* However often the service stops, and whatever is delivered again, every *)
(* stop costs at most the one notification it was about to store.          *)
(***************************************************************************)
THEOREM LosesOnePerFault == Spec => []OneLossPerFault
<1>1. Init => LossInv
  <2> SUFFICES ASSUME Init PROVE LossInv
    OBVIOUS
  <2>1. Lost = {}
    BY DEF Init, Lost
  <2> QED
    BY <2>1, FS_EmptySet DEF Init, IdleConsumer, LossInv, MarkedInHand, OneLossPerFault
<1>2. LossInv => OneLossPerFault
  BY DEF LossInv
<1> QED
  BY <1>1, <1>2, LossPreserved, TypeCorrect, PTL DEF Spec
=============================================================================
