-------------------------- MODULE StockReservation --------------------------
(***************************************************************************)
(* The inventory tables under concurrent workers.  Each worker of the      *)
(* inventory service runs Repository.ReserveOrder as one PostgreSQL        *)
(* transaction (READ COMMITTED), one statement at a time; the HTTP handler *)
(* adds stock in between.  A transaction sees committed rows and its own   *)
(* writes; SELECT ... FOR UPDATE and the upsert of CreateOrUpdate wait for *)
(* the row's lock; a cycle of waits is broken by aborting one transaction. *)
(***************************************************************************)
EXTENDS OrderLines, FiniteSets

CONSTANTS
    Workers,  \* goroutines of ConsumeOrders that may be inside ReserveOrder
    None      \* no worker, no order

ASSUME NoneAssumption == None \notin Workers /\ None \notin Orders

VARIABLES
    available,     \* inventory.available_quantity, committed
    reserved,      \* inventory.reserved_quantity, committed
    reservations,  \* reservations[o][p]: committed quantity, 0 if no row
    rows,          \* products that have a row in table inventory
    lockedBy,      \* lockedBy[p]: the transaction that holds the row lock of p
    phase,         \* phase[w]: the statement the transaction of w runs next
    order,         \* order[w]: the argument of the current or last ReserveOrder
    next,          \* next[w]: the line of the order the loop has come to
    pending,       \* pending[w][p]: uncommitted reservation row (order[w], p)
    result         \* result[w]: what the last ReserveOrder of w returned

Ledger == INSTANCE StockLedger WITH
             available <- available, reserved <- reserved,
             reservations <- reservations

ledgerVars == <<available, reserved, reservations>>
txVars == <<lockedBy, phase, order, next, pending, result>>
vars == <<ledgerVars, rows, txVars>>

Results == {"none", "nil", "ErrNotFound", "ErrInsufficientStock", "dbError"}

(***************************************************************************)
(* The columns of inventory stay inside INT and their CHECK (>= 0).        *)
(***************************************************************************)
TypeOK ==
    /\ available \in [Products -> 0 .. MaxInt]
    /\ reserved \in [Products -> 0 .. MaxInt]
    /\ reservations \in [Orders -> [Products -> Nat]]
    /\ rows \subseteq Products
    /\ lockedBy \in [Products -> Workers \cup {None}]
    /\ phase \in [Workers -> {"idle", "check", "lock", "write"}]
    /\ order \in [Workers -> Orders \cup {None}]
    /\ next \in [Workers -> Nat \ {0}]
    /\ pending \in [Workers -> [Products -> Nat]]
    /\ result \in [Workers -> Results]

Init ==
    /\ Ledger!Init
    /\ rows = {}
    /\ lockedBy = [p \in Products |-> None]
    /\ phase = [w \in Workers |-> "idle"]
    /\ order = [w \in Workers |-> None]
    /\ next = [w \in Workers |-> 1]
    /\ pending = [w \in Workers |-> [p \in Products |-> 0]]
    /\ result = [w \in Workers |-> "none"]

AtEnd(w) == next[w] = Len(ItemsOf[order[w]]) + 1

Line(w) == ItemsOf[order[w]][next[w]]

(***************************************************************************)
(* The end of a transaction, whatever its outcome: PostgreSQL drops its    *)
(* locks, the deferred tx.Rollback forgets what was not committed, and     *)
(* ReserveOrder returns r.                                                 *)
(***************************************************************************)
\* Mutant: locks outlive the transaction.
EndTxKeepsLocks(w, r) ==
    /\ pending' = [pending EXCEPT ![w] = [p \in Products |-> 0]]
    /\ phase' = [phase EXCEPT ![w] = "idle"]
    /\ result' = [result EXCEPT ![w] = r]
    /\ UNCHANGED <<lockedBy, order, next>>

EndTx(w, r) ==
    /\ lockedBy' = [p \in Products |->
                      IF lockedBy[p] = w THEN None ELSE lockedBy[p]]
    /\ pending' = [pending EXCEPT ![w] = [p \in Products |-> 0]]
    /\ phase' = [phase EXCEPT ![w] = "idle"]
    /\ result' = [result EXCEPT ![w] = r]
    /\ UNCHANGED <<order, next>>

Rollback(w, r) == EndTx(w, r) /\ UNCHANGED <<ledgerVars, rows>>

(***************************************************************************)
(* One action per statement of ReserveOrder.                               *)
(***************************************************************************)
BeginTx(w, o) ==
    /\ phase[w] = "idle"
    /\ phase' = [phase EXCEPT ![w] = "check"]
    /\ order' = [order EXCEPT ![w] = o]
    /\ next' = [next EXCEPT ![w] = 1]
    /\ result' = [result EXCEPT ![w] = "none"]
    /\ UNCHANGED <<ledgerVars, rows, lockedBy, pending>>

\* SELECT EXISTS(...): a committed row, or one this transaction inserted.
CheckReservation(w) ==
    /\ phase[w] = "check"
    /\ ~ AtEnd(w)
    /\ LET p == Line(w).product
           alreadyReserved == \/ reservations[order[w]][p] > 0
                              \/ pending[w][p] > 0
       IN  IF alreadyReserved
           THEN next' = [next EXCEPT ![w] = @ + 1] /\ UNCHANGED phase
           ELSE phase' = [phase EXCEPT ![w] = "lock"] /\ UNCHANGED next
    /\ UNCHANGED <<ledgerVars, rows, lockedBy, order, pending, result>>

\* Mutant: SELECT without FOR UPDATE.
LockRowPlainSelect(w) ==
    /\ phase[w] = "lock"
    /\ LET p == Line(w).product IN
          \/ /\ p \notin rows
             /\ Rollback(w, "ErrNotFound")
          \/ /\ p \in rows
             /\ available[p] < Line(w).quantity
             /\ Rollback(w, "ErrInsufficientStock")
          \/ /\ p \in rows
             /\ available[p] >= Line(w).quantity
             /\ phase' = [phase EXCEPT ![w] = "write"]
             /\ UNCHANGED <<ledgerVars, rows, lockedBy, order, next, pending,
                            result>>

\* Mutant: a product without enough stock is skipped instead of refused.
LockRowSkipsShortage(w) ==
    /\ phase[w] = "lock"
    /\ LET p == Line(w).product IN
          \/ /\ available[p] < Line(w).quantity
             /\ next' = [next EXCEPT ![w] = @ + 1]
             /\ phase' = [phase EXCEPT ![w] = "check"]
             /\ UNCHANGED lockedBy
          \/ /\ lockedBy[p] = None
             /\ available[p] >= Line(w).quantity
             /\ lockedBy' = [lockedBy EXCEPT ![p] = w]
             /\ phase' = [phase EXCEPT ![w] = "write"]
             /\ UNCHANGED next
    /\ UNCHANGED <<ledgerVars, rows, order, pending, result>>

\* SELECT available_quantity ... FOR UPDATE, and the comparison after it.
LockRow(w) ==
    /\ phase[w] = "lock"
    /\ LET p == Line(w).product IN
          \/ /\ p \notin rows
             /\ Rollback(w, "ErrNotFound")
          \/ /\ p \in rows
             /\ lockedBy[p] = None
             /\ available[p] < Line(w).quantity
             /\ Rollback(w, "ErrInsufficientStock")
          \/ /\ p \in rows
             /\ lockedBy[p] = None
             /\ available[p] >= Line(w).quantity
             /\ lockedBy' = [lockedBy EXCEPT ![p] = w]
             /\ phase' = [phase EXCEPT ![w] = "write"]
             /\ UNCHANGED <<ledgerVars, rows, order, next, pending, result>>

\* Mutant: the table has no UNIQUE(order_id, product_id).
WriteReservationNotUnique(w) ==
    /\ phase[w] = "write"
    /\ reserved[Line(w).product] + Line(w).quantity <= MaxInt
    /\ pending' = [pending EXCEPT ![w][Line(w).product] = Line(w).quantity]
    /\ next' = [next EXCEPT ![w] = @ + 1]
    /\ phase' = [phase EXCEPT ![w] = "check"]
    /\ UNCHANGED <<ledgerVars, rows, lockedBy, order, result>>

\* Mutant: the columns have no range.
WriteReservationUnbounded(w) ==
    /\ phase[w] = "write"
    /\ reservations[order[w]][Line(w).product] = 0
    /\ pending' = [pending EXCEPT ![w][Line(w).product] = Line(w).quantity]
    /\ next' = [next EXCEPT ![w] = @ + 1]
    /\ phase' = [phase EXCEPT ![w] = "check"]
    /\ UNCHANGED <<ledgerVars, rows, lockedBy, order, result>>

(***************************************************************************)
(* UPDATE inventory and INSERT INTO reservations.  The UPDATE fails when   *)
(* reserved_quantity would leave INT; the INSERT fails on UNIQUE(order_id, *)
(* product_id) when another transaction has reserved the same order since  *)
(* this one looked.                                                        *)
(***************************************************************************)
WriteReservation(w) ==
    /\ phase[w] = "write"
    /\ LET p == Line(w).product
           q == Line(w).quantity
       IN  \/ /\ \/ reserved[p] + q > MaxInt
                 \/ reservations[order[w]][p] > 0
              /\ Rollback(w, "dbError")
           \/ /\ reserved[p] + q <= MaxInt
              /\ reservations[order[w]][p] = 0
              /\ pending' = [pending EXCEPT ![w][p] = q]
              /\ next' = [next EXCEPT ![w] = @ + 1]
              /\ phase' = [phase EXCEPT ![w] = "check"]
              /\ UNCHANGED <<ledgerVars, rows, lockedBy, order, result>>

\* tx.Commit.  The caller may see an error although the server committed.
Commit(w, r) ==
    /\ phase[w] = "check"
    /\ AtEnd(w)
    /\ available' = [p \in Products |-> available[p] - pending[w][p]]
    /\ reserved' = [p \in Products |-> reserved[p] + pending[w][p]]
    /\ reservations' = [reservations EXCEPT ![order[w]] =
          [p \in Products |->
             IF pending[w][p] > 0 THEN pending[w][p] ELSE @[p]]]
    /\ EndTx(w, r)
    /\ UNCHANGED rows

\* A statement fails: connection lost, context cancelled, service stopped.
Fail(w) ==
    /\ phase[w] # "idle"
    /\ Rollback(w, "dbError")

(***************************************************************************)
(* PostgreSQL's deadlock detector.  Every waiting transaction waits for    *)
(* one other; w is on a cycle when it belongs to a set of workers each of  *)
(* which waits for a member of the set and is waited for by one.           *)
(***************************************************************************)
WaitsFor(v, w) ==
    /\ phase[v] = "lock"
    /\ Line(v).product \in rows
    /\ lockedBy[Line(v).product] = w

Deadlocked(w) ==
    \E S \in SUBSET Workers :
       /\ w \in S
       /\ \A v \in S : /\ \E u \in S : WaitsFor(v, u)
                       /\ \E u \in S : WaitsFor(u, v)

DeadlockVictim(w) == Deadlocked(w) /\ Rollback(w, "dbError")

\* Repository.CreateOrUpdate: waits for the row's lock like any writer.
AddStock(p, q) ==
    /\ lockedBy[p] = None
    /\ Ledger!AddStock(p, q)
    /\ rows' = rows \cup {p}
    /\ UNCHANGED txVars

Next ==
    \/ \E w \in Workers :
          \/ \E o \in Orders : BeginTx(w, o)
          \/ CheckReservation(w)
          \/ LockRow(w)
          \/ WriteReservation(w)
          \/ \E r \in {"nil", "dbError"} : Commit(w, r)
          \/ Fail(w)
          \/ DeadlockVictim(w)
    \/ \E p \in Products, q \in 1 .. MaxInt : AddStock(p, q)

Spec == Init /\ [][Next]_vars

(***************************************************************************)
(* Fairness.  A statement whose turn has come is executed; PostgreSQL      *)
(* queues the transactions that wait for a row, so one whose row keeps     *)
(* becoming free gets it; the deadlock detector runs after                 *)
(* deadlock_timeout.  Nothing is assumed of Fail, BeginTx or AddStock.   *)
(***************************************************************************)
Fairness ==
    \A w \in Workers : /\ WF_vars(CheckReservation(w))
                       /\ SF_vars(LockRow(w))
                       /\ WF_vars(WriteReservation(w))
                       /\ WF_vars(Commit(w, "nil"))
                       /\ WF_vars(DeadlockVictim(w))

FairSpec == Spec /\ Fairness

-----------------------------------------------------------------------------
(***************************************************************************)
(* StockAdmitted: the comparison available < item.Quantity is made on a    *)
(* value read earlier than the UPDATE that relies on it.  Whatever other   *)
(* workers do in between, the stock is still there when the UPDATE runs,   *)
(* and what a transaction has taken so far is still covered when it        *)
(* commits: the CHECK (available_quantity >= 0) never has to fire.         *)
(***************************************************************************)
StockAdmitted ==
    \A w \in Workers :
       /\ phase[w] = "write" => Line(w).quantity <= available[Line(w).product]
       /\ \A p \in Products : pending[w][p] <= available[p]

(***************************************************************************)
(* ReservationAllOrNothing: no interleaving of workers, refusals, aborts   *)
(* and redeliveries of the same order leaves an order reserved for some of *)
(* its products only, or with a quantity other than its first line's.      *)
(***************************************************************************)
ReservationAllOrNothing ==
    \A o \in Orders :
       \/ \A p \in Products : reservations[o][p] = 0
       \/ \A p \in ProductsOf(o) : reservations[o][p] = FirstQuantity(o, p)

(***************************************************************************)
(* SuccessMeansReserved: ReserveOrder returns nil, which the service turns *)
(* into InventoryReserved, only when every product of the order has its    *)
(* reservation row, whichever worker inserted it.                          *)
(***************************************************************************)
SuccessMeansReserved ==
    \A w \in Workers : result[w] = "nil" =>
       \A p \in ProductsOf(order[w]) : reservations[order[w]][p] > 0

(***************************************************************************)
(* RequestCovered: an order that ReserveOrder reports as reserved has as   *)
(* much of each product reserved as its lines ask for together.  Holds     *)
(* when no order names a product in two lines (nothing in the code forbids *)
(* that).                                                                  *)
(***************************************************************************)
Requested(o, p) ==
    [i \in Lines(o) |-> IF ItemsOf[o][i].product = p THEN ItemsOf[o][i].quantity ELSE 0]

RequestCovered ==
    \A w \in Workers : result[w] = "nil" =>
       \A p \in ProductsOf(order[w]) :
          IsSum(Len(ItemsOf[order[w]]), Requested(order[w], p),
                reservations[order[w]][p])

EachProductOnce ==
    \A o \in Orders : \A i, j \in Lines(o) :
       ItemsOf[o][i].product = ItemsOf[o][j].product => i = j

Waits(w) == \E v \in Workers : WaitsFor(w, v)

(***************************************************************************)
(* WaitsAreDetected: when every open transaction waits for a row that      *)
(* another one has locked, some of them wait in a circle, so the deadlock  *)
(* detector has a victim; ReserveOrder leaves no lock behind that nothing  *)
(* would ever release, and no transaction waits for its own lock.          *)
(***************************************************************************)
WaitsAreDetected ==
    /\ \A w \in Workers : ~ WaitsFor(w, w)
    /\ (\E w \in Workers : phase[w] # "idle") =>
          \/ \E w \in Workers : phase[w] # "idle" /\ ~ Waits(w)
          \/ \E w \in Workers : Deadlocked(w)

\* All orders name their products by rising rank.
InCommonOrder(rank) ==
    \A o \in Orders : \A i, j \in Lines(o) : i < j =>
       \/ ItemsOf[o][i].product = ItemsOf[o][j].product
       \/ rank[ItemsOf[o][i].product] < rank[ItemsOf[o][j].product]

(***************************************************************************)
(* DeadlockFree: no transactions wait in a circle.  Holds when all orders  *)
(* name their products in one common order (the code does not sort them,   *)
(* so two customers can make it fail).                                     *)
(***************************************************************************)
DeadlockFree == \A w \in Workers : ~ Deadlocked(w)

(***************************************************************************)
(* LedgerSpec: the transactions of any number of workers, as they commit,  *)
(* look like single steps of StockLedger: an order takes all its stock at  *)
(* once, at most once.                                                     *)
(***************************************************************************)
LedgerSpec == Ledger!Spec

(***************************************************************************)
(* LedgerBalanced, StockConserved: what follows for the committed rows     *)
(* from the ledger.  reserved_quantity, which every worker updates on its  *)
(* own, always is the sum of the reservation rows; and stock moves only    *)
(* from available to reserved, together with the row it moves for.         *)
(***************************************************************************)
LedgerBalanced == Ledger!ReservedIsSum(Cardinality(Orders))

StockConserved == Ledger!StockMoves

(***************************************************************************)
(* TxEnds: every call of ReserveOrder returns.  Two orders that name the   *)
(* same products in opposite orders wait for each other; the deadlock      *)
(* detector must get them out.                                             *)
(***************************************************************************)
TxEnds == \A w \in Workers : phase[w] # "idle" ~> phase[w] = "idle"
=============================================================================
