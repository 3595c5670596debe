------------------------------- MODULE Checkout -------------------------------
(***************************************************************************)
(* POST /orders from the gateway to the answer: the order service asks the *)
(* user service for the buyer and the product service, that is GetByID of  *)
(* ProductCache, for the price of every line, stores the order and         *)
(* announces it.  Accounts come, the product changes and the cache fails   *)
(* meanwhile.                                                              *)
(*                                                                         *)
(* All lines name the one product of ProductCache, whose version stands    *)
(* for its price.  What becomes of an announced order is the subject of    *)
(* OrderWorkflow.                                                          *)
(***************************************************************************)
EXTENDS ProductCache, Sequences

CONSTANTS
    Buyers,     \* the clients that order; each has GetProduct calls of its own
    MaxLines,   \* bound on the lines of a request
    MaxOrders,  \* bound on the orders stored when a request begins
    Clients, Spellings, Spelling, Normal, Passwords, Password, Names, Admin, MaxUsers

VARIABLES
    users, promised, token,  \* of Accounts
    buyer,      \* the request of each buyer
    orders,     \* tables orders and order_items; an order's id is its position
    announced,  \* the orders whose OrderCreated is in the topic
    lost        \* history: orders of which the buyer was told an error

Users == INSTANCE Accounts

ASSUME CheckoutAssumption ==
    /\ Buyers \subseteq Clients
    /\ Buyers \subseteq Readers
    /\ MaxLines \in Nat \ {0}
    /\ MaxOrders \in Nat \ {0}
    /\ Users!ConstantsOK

cacheVars == vars
userVars == <<users, promised, token>>
orderVars == <<orders, announced, lost>>

checkoutVars == <<vars, userVars, buyer, orderVars>>

NoOrder == 0


\* The product as it is offered; versions + 1 if there is none, which a product
\* still to be created gets and a deleted one never.
Offered == IF row = None THEN versions + 1 ELSE row

(***************************************************************************)
(* A request: the id in its token, the number of lines, the prices found   *)
(* so far and the order stored; as history, the oldest version that it may *)
(* be charged: the one the product had at first, or any once a price was   *)
(* read while the cache had cause to be out of date.                       *)
(***************************************************************************)
BuyerSteps == {"idle", "service", "user", "product", "price", "store", "publish", "answer"}

BuyerType ==
    [at : BuyerSteps, user : Users!Ids \cup {Users!NoId}, lines : 0 .. MaxLines,
     items : Seq(Versions), order : Nat,
     oldest : 1 .. MaxVersion + 1, response : {"none", "created", "error"}]

OrderType ==
    [by : Buyers, user : Users!Ids, lines : 1 .. MaxLines, items : Seq(Versions),
     oldest : 1 .. MaxVersion + 1]

CheckoutTypeOK ==
    /\ TypeOK
    /\ Users!TypeOK
    /\ buyer \in [Buyers -> BuyerType]
    /\ \A b \in Buyers : /\ Len(buyer[b].items) <= buyer[b].lines
                         /\ buyer[b].at = "publish" => buyer[b].order \in DOMAIN orders
    /\ orders \in Seq(OrderType)
    /\ announced \cup lost \subseteq DOMAIN orders

NoRequest == [at |-> "idle", user |-> Users!NoId, lines |-> 0, items |-> <<>>,
              order |-> NoOrder, oldest |-> 1, response |-> "none"]

CheckoutInit ==
    /\ Init
    /\ Users!Init
    /\ buyer = [b \in Buyers |-> NoRequest]
    /\ orders = <<>>
    /\ announced = {}
    /\ lost = {}

-----------------------------------------------------------------------------
(***************************************************************************)
(* The request enters: the gateway checks the token and passes the request *)
(* on, and the order service checks it once more.                          *)
(***************************************************************************)
Proceed(b, at) == buyer' = [buyer EXCEPT ![b].at = at]

Submit(b) ==
    /\ buyer[b].at = "idle"
    /\ Users!Authorized(b)
    /\ Len(orders) < MaxOrders
    /\ \E n \in 1 .. MaxLines :
          buyer' = [buyer EXCEPT ![b] =
                       [NoRequest EXCEPT !.at = "service", !.user = token[b].id, !.lines = n,
                                         !.oldest = Offered]]
    /\ UNCHANGED <<cacheVars, userVars, orderVars>>

Enter(b) ==
    /\ buyer[b].at = "service"
    /\ buyer[b].user # Users!NoId
    /\ Proceed(b, "user")
    /\ UNCHANGED <<cacheVars, userVars, orderVars>>

\* The token of a request that waits at the order service expires with it.
TokenExpires(c) ==
    /\ Users!TokenExpires(c)
    /\ buyer' = [b \in Buyers |->
                    IF b = c /\ buyer[b].at = "service"
                       THEN [buyer[b] EXCEPT !.user = Users!NoId] ELSE buyer[b]]
    /\ UNCHANGED <<cacheVars, orderVars>>

-----------------------------------------------------------------------------
(***************************************************************************)
(* Service.Create.                                                         *)
(***************************************************************************)
GetUser(b) ==
    /\ buyer[b].at = "user"
    /\ buyer[b].user \in DOMAIN users
    /\ Proceed(b, "product")
    /\ UNCHANGED <<cacheVars, userVars, orderVars>>

\* The product service looks into the cache, and goes on by itself if the
\* product is not there (ReadReturns).
GetProduct(b) ==
    /\ buyer[b].at = "product"
    /\ \/ GetHits(b) /\ buyer' = [buyer EXCEPT ![b].at = "price",
                                               ![b].oldest = IF MayBeStale THEN 1 ELSE @]
       \/ GetMisses(b) /\ Proceed(b, "price")
    /\ UNCHANGED <<userVars, orderVars>>

AddItem(b) ==
    /\ buyer[b].at = "price"
    /\ reader[b].at = "idle"
    /\ reader[b].val # None
    /\ buyer' = [buyer EXCEPT ![b].items = Append(@, reader[b].val),
                              ![b].at = IF Len(buyer[b].items) + 1 < buyer[b].lines
                                           THEN "product" ELSE "store"]
    /\ UNCHANGED <<cacheVars, userVars, orderVars>>

\* What the client hears; the rest of the request is forgotten.
Responded(b, response, order) ==
    buyer' = [buyer EXCEPT ![b] = [NoRequest EXCEPT !.response = response, !.order = order]]

\* An error before anything is stored: the token has expired, a service or the
\* database fails, the product is not there.  The transaction is rolled back.
Refuse(b) ==
    /\ buyer[b].at \in {"service", "user", "product", "price", "store"}
    /\ reader[b].at = "idle"
    /\ Responded(b, "error", NoOrder)
    /\ UNCHANGED <<cacheVars, userVars, orderVars>>

\* One transaction stores the order and its items.
Insert(b) ==
    /\ buyer[b].at = "store"
    /\ orders' = Append(orders, [by |-> b, user |-> buyer[b].user, lines |-> buyer[b].lines,
                                 items |-> buyer[b].items, oldest |-> buyer[b].oldest])

StoreOrder(b) ==
    /\ Insert(b)
    /\ buyer' = [buyer EXCEPT ![b].at = "publish", ![b].order = Len(orders')]
    /\ UNCHANGED <<cacheVars, userVars, announced, lost>>

\* COMMIT is executed, its answer does not arrive.
StoreUnanswered(b) ==
    /\ Insert(b)
    /\ lost' = lost \cup {Len(orders')}
    /\ Responded(b, "error", NoOrder)
    /\ UNCHANGED <<cacheVars, userVars, announced>>

Announce(b) ==
    /\ buyer[b].at = "publish"
    /\ announced' = announced \cup {buyer[b].order}
    /\ Proceed(b, "answer")
    /\ UNCHANGED <<cacheVars, userVars, orders, lost>>

\* Mutant: the error of Publish is logged and the order returned.
AnnounceFailsSilently(b) ==
    /\ buyer[b].at = "publish"
    /\ Proceed(b, "answer")
    /\ UNCHANGED <<cacheVars, userVars, orderVars>>

\* Publish returns an error, with or without the event in the topic.
AnnounceFails(b) ==
    /\ buyer[b].at = "publish"
    /\ announced' \in {announced, announced \cup {buyer[b].order}}
    /\ lost' = lost \cup {buyer[b].order}
    /\ Responded(b, "error", NoOrder)
    /\ UNCHANGED <<cacheVars, userVars, orders>>

Answer(b) ==
    /\ buyer[b].at = "answer"
    /\ Responded(b, "created", buyer[b].order)
    /\ UNCHANGED <<cacheVars, userVars, orderVars>>

\* The gateway loses the order service and answers 502 in its place.
AnswerBadGateway(b) ==
    /\ buyer[b].at = "answer"
    /\ lost' = lost \cup {buyer[b].order}
    /\ Responded(b, "error", NoOrder)
    /\ UNCHANGED <<cacheVars, userVars, orders, announced>>

-----------------------------------------------------------------------------
UserStep(c) ==
    /\ \/ Users!Register(c)
       \/ Users!RegisterUnanswered(c)
       \/ Users!Login(c)
       \/ Users!UpdateProfile(c)
    /\ UNCHANGED <<cacheVars, buyer, orderVars>>

\* The requests of others for the product, and the rest of the buyers' reads.
ProductStep ==
    /\ \/ \E r \in Readers \ Buyers : GetHits(r) \/ GetMisses(r)
       \/ \E r \in Readers : ReadReturns(r)
       \/ Administer
       \/ Expire
    /\ UNCHANGED <<userVars, buyer, orderVars>>

CheckoutNext ==
    \/ \E c \in Clients : UserStep(c) \/ TokenExpires(c)
    \/ ProductStep
    \/ \E b \in Buyers :
          \/ Submit(b)
          \/ Enter(b)
          \/ GetUser(b)
          \/ GetProduct(b)
          \/ AddItem(b)
          \/ Refuse(b)
          \/ StoreOrder(b)
          \/ StoreUnanswered(b)
          \/ Announce(b)
          \/ AnnounceFails(b)
          \/ Answer(b)
          \/ AnswerBadGateway(b)

CheckoutSpec == CheckoutInit /\ [][CheckoutNext]_checkoutVars
-----------------------------------------------------------------------------
(***************************************************************************)
(* PricedAsOffered: no line of a stored order has a price older than the   *)
(* one the product had when the request entered the gateway, and no order  *)
(* is for a product deleted before, unless a price was read while the      *)
(* cache had one of the causes of StaleHasCause to be out of date.         *)
(***************************************************************************)
PricedAsOffered ==
    \A i \in DOMAIN orders :
       \A k \in DOMAIN orders[i].items : orders[i].items[k] >= orders[i].oldest

(***************************************************************************)
(* AnswerIsTrue: an order is stored with all its lines and under the       *)
(* account of its buyer; 201 means that it is stored and announced; and an *)
(* order is not announced only if that is about to happen or its buyer was *)
(* told an error.                                                          *)
(***************************************************************************)
AnswerIsTrue ==
    /\ \A i \in DOMAIN orders :
          /\ Len(orders[i].items) = orders[i].lines
          /\ Users!CredentialsOf(orders[i].by) = {orders[i].user}
    /\ \A b \in Buyers :
          buyer[b].response = "created" =>
             /\ buyer[b].order \in announced
             /\ orders[buyer[b].order].by = b
    /\ \A i \in DOMAIN orders \ (announced \cup lost) :
          \E b \in Buyers : buyer[b].at = "publish" /\ buyer[b].order = i

(***************************************************************************)
(* RegistrationHonoured: see Accounts.                                     *)
(***************************************************************************)
RegistrationHonoured == Users!RegistrationHonoured
=============================================================================
