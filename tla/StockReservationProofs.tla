----------------------- MODULE StockReservationProofs -----------------------
(***************************************************************************)
(* Proofs about StockReservation, for any set of workers, orders and       *)
(* products and any lines.                                                 *)
(***************************************************************************)
EXTENDS StockReservation, OrderLinesProofs, FiniteSetTheorems

(***************************************************************************)
(* The inductive invariant.  LoopInv: what the loop of an open transaction *)
(* knows of the lines behind it and of the line it is at.  PendingInv: an  *)
(* uncommitted reservation is protected by the row lock until the end of   *)
(* the transaction, so neither the stock it counts on nor the absence of a *)
(* committed row for the same order can change under it.                   *)
(***************************************************************************)
Handled(w, p) == pending[w][p] > 0 \/ reservations[order[w]][p] > 0

LoopInv(w) ==
    phase[w] # "idle" =>
       /\ order[w] \in Orders
       /\ next[w] \in 1 .. Len(ItemsOf[order[w]]) + 1
       /\ phase[w] \in {"lock", "write"} =>
             /\ next[w] \in Lines(order[w])
             /\ pending[w][Line(w).product] = 0
       /\ phase[w] = "write" =>
             /\ lockedBy[Line(w).product] = w
             /\ Line(w).quantity <= available[Line(w).product]
       /\ \A i \in Lines(order[w]) :
             i < next[w] => Handled(w, ItemsOf[order[w]][i].product)

PendingInv(w, p) ==
    pending[w][p] > 0 =>
       /\ phase[w] # "idle"
       /\ lockedBy[p] = w
       /\ pending[w][p] <= available[p]
       /\ reserved[p] + pending[w][p] <= MaxInt
       /\ p \in ProductsOf(order[w])
       /\ pending[w][p] = FirstQuantity(order[w], p)
       /\ reservations[order[w]][p] = 0

ResultInv(w) ==
    result[w] = "nil" =>
       /\ phase[w] = "idle"
       /\ order[w] \in Orders
       /\ \A p \in ProductsOf(order[w]) : reservations[order[w]][p] > 0

IndInv ==
    /\ TypeOK
    /\ \A w \in Workers : LoopInv(w)
    /\ \A w \in Workers, p \in Products : PendingInv(w, p)
    /\ ReservationAllOrNothing
    /\ \A w \in Workers : ResultInv(w)

-----------------------------------------------------------------------------
(***************************************************************************)
(* A transaction keeps its loop invariant when another one moves, as long  *)
(* as the tables stay as they are and it keeps the lock it needs.          *)
(***************************************************************************)
LEMMA LoopUndisturbed ==
    ASSUME NEW v \in Workers, LoopInv(v),
           phase'[v] = phase[v], order'[v] = order[v], next'[v] = next[v],
           pending'[v] = pending[v],
           phase[v] = "write" => lockedBy'[Line(v).product] = v,
           available' = available, reservations' = reservations
    PROVE  LoopInv(v)'
<1>1. Line(v)' = Line(v)
  BY DEF Line
<1>2. \A p : Handled(v, p)' = Handled(v, p)
  BY DEF Handled
<1> QED
  BY <1>1, <1>2 DEF LoopInv

(***************************************************************************)
(* A transaction that ends without committing preserves the invariant: it  *)
(* only takes back its own claims.                                         *)
(***************************************************************************)
LEMMA RollbackPreserves ==
    ASSUME IndInv, NEW w \in Workers, phase[w] # "idle",
           NEW r \in Results \ {"nil"}, Rollback(w, r)
    PROVE  IndInv'
<1> USE DEF IndInv, Rollback, EndTx, ledgerVars
<1>1. TypeOK'
  BY DEF TypeOK
<1>2. ASSUME NEW v \in Workers PROVE LoopInv(v)'
  <2>1. CASE v = w
    BY <2>1 DEF LoopInv, TypeOK
  <2>2. CASE v # w
    <3>1. pending'[v] = pending[v] /\ phase'[v] = phase[v]
      BY <2>2 DEF TypeOK
    <3>2. \A p \in Products : lockedBy[p] = v => lockedBy'[p] = v
      BY <2>2
    <3>3. phase[v] = "write" => Line(v).product \in Products
      BY LineType DEF LoopInv, Line
    <3>4. phase[v] = "write" => lockedBy'[Line(v).product] = v
      BY <3>2, <3>3 DEF LoopInv
    <3> QED
      BY <3>1, <3>4, LoopUndisturbed
  <2> QED
    BY <2>1, <2>2
<1>3. ASSUME NEW v \in Workers, NEW p \in Products PROVE PendingInv(v, p)'
  <2>1. CASE v = w
    BY <2>1 DEF PendingInv, TypeOK
  <2>2. CASE v # w
    BY <2>2 DEF PendingInv, TypeOK
  <2> QED
    BY <2>1, <2>2
<1>4. ReservationAllOrNothing'
  BY DEF ReservationAllOrNothing
<1>5. ASSUME NEW v \in Workers PROVE ResultInv(v)'
  BY DEF ResultInv, TypeOK
<1> QED
  BY <1>1, <1>2, <1>3, <1>4, <1>5

-----------------------------------------------------------------------------
\* A new transaction starts with nothing pending.
LEMMA BeginTxPreserves ==
    ASSUME IndInv, NEW w \in Workers, NEW o \in Orders, BeginTx(w, o)
    PROVE  IndInv'
<1> USE DEF IndInv, BeginTx, ledgerVars
<1>1. TypeOK'
  BY DEF TypeOK, Results
<1>2. ASSUME NEW v \in Workers PROVE LoopInv(v)'
  <2>1. CASE v = w
    BY <2>1, LenType DEF LoopInv, TypeOK, Lines
  <2>2. CASE v # w
    <3>1. phase'[v] = phase[v] /\ order'[v] = order[v] /\ next'[v] = next[v]
      BY <2>2 DEF TypeOK
    <3>2. phase[v] = "write" => lockedBy'[Line(v).product] = v
      BY DEF LoopInv
    <3> QED
      BY <3>1, <3>2, LoopUndisturbed
  <2> QED
    BY <2>1, <2>2
<1>3. ASSUME NEW v \in Workers, NEW p \in Products PROVE PendingInv(v, p)'
  BY DEF PendingInv, TypeOK
<1>4. ReservationAllOrNothing'
  BY DEF ReservationAllOrNothing
<1>5. ASSUME NEW v \in Workers PROVE ResultInv(v)'
  BY DEF ResultInv, TypeOK
<1> QED
  BY <1>1, <1>2, <1>3, <1>4, <1>5

\* Looking a line up either passes it, because it is handled, or stays at it.
LEMMA CheckReservationPreserves ==
    ASSUME IndInv, NEW w \in Workers, CheckReservation(w)
    PROVE  IndInv'
<1>1. TypeOK'
  <2>1. /\ phase' = phase \/ phase' = [phase EXCEPT ![w] = "lock"]
        /\ next' = next \/ next' = [next EXCEPT ![w] = @ + 1]
        /\ UNCHANGED <<ledgerVars, rows, lockedBy, order, pending, result>>
    BY DEF CheckReservation
  <2>2. next' \in [Workers -> Nat \ {0}]
    BY <2>1 DEF IndInv, TypeOK
  <2>3. phase' \in [Workers -> {"idle", "check", "lock", "write"}]
    BY <2>1 DEF IndInv, TypeOK
  <2> QED
    BY <2>1, <2>2, <2>3 DEF IndInv, TypeOK, ledgerVars
<1> USE DEF IndInv, CheckReservation, ledgerVars
<1>2. order[w] \in Orders /\ next[w] \in Lines(order[w])
  BY LenType DEF LoopInv, AtEnd, Lines
<1>3. Line(w).product \in Products
  BY <1>2, LineType DEF Line
<1>4. ASSUME NEW v \in Workers PROVE LoopInv(v)'
  <2>1. CASE v = w
    <3>1. CASE Handled(w, Line(w).product)
      <4>1. next' = [next EXCEPT ![w] = @ + 1] /\ phase' = phase
        BY <3>1 DEF Handled
      <4>2. next'[w] = next[w] + 1
        BY <4>1 DEF TypeOK
      <4>3. ASSUME NEW i \in Lines(order[w]), i < next[w] + 1
            PROVE  Handled(w, ItemsOf[order[w]][i].product)
        <5>1. i < next[w] \/ i = next[w]
          BY <1>2, <4>3, LenType DEF Lines
        <5> QED
          BY <3>1, <5>1 DEF LoopInv, Line
      <4> QED
        BY <1>2, <2>1, <4>1, <4>2, <4>3, LenType DEF LoopInv, Handled, Lines
    <3>2. CASE ~ Handled(w, Line(w).product)
      <4>1. phase' = [phase EXCEPT ![w] = "lock"] /\ next' = next
        BY <3>2 DEF Handled
      <4>2. phase'[w] = "lock" /\ pending[w][Line(w).product] = 0
        BY <1>3, <3>2, <4>1 DEF TypeOK, Handled
      <4> QED
        BY <1>2, <2>1, <4>1, <4>2 DEF LoopInv, Handled, Line
    <3> QED
      BY <3>1, <3>2
  <2>2. CASE v # w
    <3>1. phase'[v] = phase[v] /\ next'[v] = next[v]
      BY <2>2 DEF TypeOK
    <3>2. phase[v] = "write" => lockedBy'[Line(v).product] = v
      BY DEF LoopInv
    <3> QED
      BY <3>1, <3>2, LoopUndisturbed
  <2> QED
    BY <2>1, <2>2
<1>5. ASSUME NEW v \in Workers, NEW p \in Products PROVE PendingInv(v, p)'
  BY DEF PendingInv, TypeOK
<1>6. ReservationAllOrNothing'
  BY DEF ReservationAllOrNothing
<1>7. ASSUME NEW v \in Workers PROVE ResultInv(v)'
  BY DEF ResultInv, TypeOK
<1> QED
  BY <1>1, <1>4, <1>5, <1>6, <1>7

\* The row lock is granted only when no other transaction holds it.
LEMMA LockRowPreserves ==
    ASSUME IndInv, NEW w \in Workers, LockRow(w)
    PROVE  IndInv'
<1> DEFINE p == Line(w).product
<1>1. order[w] \in Orders /\ next[w] \in Lines(order[w]) /\ pending[w][p] = 0
  BY DEF IndInv, LoopInv, LockRow
<1>2. p \in Products
  BY <1>1, LineType DEF Line
<1>3. CASE \E r \in Results \ {"nil"} : Rollback(w, r)
  BY <1>3, RollbackPreserves DEF LockRow
<1>4. CASE /\ lockedBy[p] = None
           /\ available[p] >= Line(w).quantity
           /\ lockedBy' = [lockedBy EXCEPT ![p] = w]
           /\ phase' = [phase EXCEPT ![w] = "write"]
           /\ UNCHANGED <<ledgerVars, rows, order, next, pending, result>>
  <2> USE <1>4 DEF IndInv, ledgerVars
  <2>1. TypeOK'
    BY <1>2 DEF TypeOK
  <2>2. ASSUME NEW v \in Workers PROVE LoopInv(v)'
    <3>1. CASE v = w
      BY <1>1, <1>2, <3>1, LineType
         DEF LoopInv, Handled, Line, TypeOK, LockRow
    <3>2. CASE v # w
      <4>1. phase'[v] = phase[v]
        BY <3>2 DEF TypeOK
      <4>2. phase[v] = "write" => lockedBy'[Line(v).product] = v
        BY <1>2, <3>2, NoneAssumption DEF LoopInv, TypeOK
      <4> QED
        BY <4>1, <4>2, LoopUndisturbed
    <3> QED
      BY <3>1, <3>2
  <2>3. ASSUME NEW v \in Workers, NEW x \in Products PROVE PendingInv(v, x)'
    BY <1>2, NoneAssumption DEF PendingInv, TypeOK
  <2>4. ReservationAllOrNothing'
    BY DEF ReservationAllOrNothing
  <2>5. ASSUME NEW v \in Workers PROVE ResultInv(v)'
    BY DEF ResultInv, TypeOK, LockRow
  <2> QED
    BY <2>1, <2>2, <2>3, <2>4, <2>5
<1> QED
  BY <1>3, <1>4 DEF LockRow, Results

(***************************************************************************)
(* The line that is written is the first of its product: an earlier one    *)
(* would be pending or committed, and the INSERT would not have succeeded. *)
(***************************************************************************)
LEMMA WriteReservationPreserves ==
    ASSUME IndInv, NEW w \in Workers, WriteReservation(w)
    PROVE  IndInv'
<1> DEFINE p == Line(w).product
           q == Line(w).quantity
<1>1. /\ order[w] \in Orders
      /\ next[w] \in Lines(order[w])
      /\ pending[w][p] = 0
      /\ lockedBy[p] = w
      /\ q <= available[p]
  BY DEF IndInv, LoopInv, WriteReservation
<1>2. /\ p \in Products
      /\ p \in ProductsOf(order[w])
      /\ q \in Nat \ {0}
      /\ Len(ItemsOf[order[w]]) \in Nat
  BY <1>1, LineType DEF Line
<1>3. CASE Rollback(w, "dbError")
  BY <1>3, RollbackPreserves DEF WriteReservation, Results
<1>4. CASE /\ reserved[p] + q <= MaxInt
           /\ reservations[order[w]][p] = 0
           /\ pending' = [pending EXCEPT ![w][p] = q]
           /\ next' = [next EXCEPT ![w] = @ + 1]
           /\ phase' = [phase EXCEPT ![w] = "check"]
           /\ UNCHANGED <<ledgerVars, rows, lockedBy, order, result>>
  <2> USE <1>4 DEF IndInv, ledgerVars
  <2>1. TypeOK'
    <3>1. pending' \in [Workers -> [Products -> Nat]]
      BY <1>2 DEF TypeOK
    <3>2. /\ next' \in [Workers -> Nat \ {0}]
          /\ phase' \in [Workers -> {"idle", "check", "lock", "write"}]
      BY DEF TypeOK
    <3> QED
      BY <3>1, <3>2 DEF TypeOK
  <2>2. IsFirstLine(order[w], p, next[w])
    <3>1. ASSUME NEW j \in Lines(order[w]), j < next[w]
          PROVE  ItemsOf[order[w]][j].product # p
      <4>1. Handled(w, ItemsOf[order[w]][j].product)
        BY <3>1, WriteReservation(w) DEF LoopInv, WriteReservation
      <4>2. ~ Handled(w, p)
        BY <1>1 DEF Handled
      <4> QED
        BY <4>1, <4>2
    <3> QED
      BY <1>1, <3>1 DEF IsFirstLine, Line
  <2>3. q = FirstQuantity(order[w], p)
    BY <1>1, <2>2, FirstQuantityOfLine DEF Line
  <2>4. ASSUME NEW v \in Workers PROVE LoopInv(v)'
    <3>1. CASE v = w
      <4>1. pending'[w] = [pending[w] EXCEPT ![p] = q]
        BY DEF TypeOK
      <4>2. next'[w] = next[w] + 1 /\ phase'[w] = "check"
        BY DEF TypeOK
      <4>3. ASSUME NEW i \in Lines(order[w]), i < next[w] + 1
            PROVE  Handled(w, ItemsOf[order[w]][i].product)'
        <5>1. ItemsOf[order[w]][i].product \in Products
          BY <1>1, LineType
        <5>2. CASE i < next[w]
          <6>1. Handled(w, ItemsOf[order[w]][i].product)
            BY <5>2, WriteReservation(w) DEF LoopInv, WriteReservation
          <6>2. pending[w] \in [Products -> Nat]
            BY DEF TypeOK
          <6> QED
            BY <1>2, <4>1, <5>1, <6>1, <6>2 DEF Handled
        <5>3. CASE i = next[w]
          <6>1. ItemsOf[order[w]][i].product = p
            BY <5>3 DEF Line
          <6>2. pending[w] \in [Products -> Nat]
            BY DEF TypeOK
          <6>3. pending'[w][p] > 0
            BY <1>2, <4>1, <6>2
          <6> QED
            BY <6>1, <6>3 DEF Handled
        <5> QED
          BY <1>1, <4>3, <5>2, <5>3 DEF Lines, TypeOK
      <4> QED
        BY <1>1, <1>2, <3>1, <4>2, <4>3 DEF LoopInv, Lines
    <3>2. CASE v # w
      <4>1. /\ phase'[v] = phase[v] /\ next'[v] = next[v]
            /\ pending'[v] = pending[v]
        BY <3>2 DEF TypeOK
      <4>2. phase[v] = "write" => lockedBy'[Line(v).product] = v
        BY DEF LoopInv
      <4> QED
        BY <4>1, <4>2, LoopUndisturbed
    <3> QED
      BY <3>1, <3>2
  <2>5. ASSUME NEW v \in Workers, NEW x \in Products PROVE PendingInv(v, x)'
    <3>1. CASE v = w /\ x = p
      BY <1>1, <1>2, <2>3, <3>1 DEF PendingInv, TypeOK
    <3>2. CASE ~ (v = w /\ x = p)
      BY <1>2, <3>2 DEF PendingInv, TypeOK
    <3> QED
      BY <3>1, <3>2
  <2>6. ReservationAllOrNothing'
    BY DEF ReservationAllOrNothing
  <2>7. ASSUME NEW v \in Workers PROVE ResultInv(v)'
    BY DEF ResultInv, TypeOK, WriteReservation
  <2> QED
    BY <2>1, <2>4, <2>5, <2>6, <2>7
<1> QED
  BY <1>3, <1>4 DEF WriteReservation

-----------------------------------------------------------------------------
(***************************************************************************)
(* At its commit a transaction has either found the whole order reserved   *)
(* and writes nothing, or has found none of it reserved and writes it all. *)
(***************************************************************************)
FoundReserved(w) ==
    /\ \A p \in Products : pending[w][p] = 0
    /\ \A p \in ProductsOf(order[w]) : reservations[order[w]][p] > 0

TakesWhole(w) ==
    /\ \A p \in Products : reservations[order[w]][p] = 0
    /\ \A p \in Products : p \in ProductsOf(order[w]) <=> pending[w][p] > 0

LEMMA CommitIsWhole ==
    ASSUME IndInv, NEW w \in Workers, NEW r, Commit(w, r)
    PROVE  FoundReserved(w) \/ TakesWhole(w)
<1> USE DEF IndInv
<1>1. order[w] \in Orders
  BY DEF Commit, LoopInv
<1>2. ASSUME NEW p \in ProductsOf(order[w]) PROVE Handled(w, p)
  <2>1. PICK i \in Lines(order[w]) : ItemsOf[order[w]][i].product = p
    BY <1>1, <1>2, LineOfProduct
  <2>2. i < next[w]
    BY <1>1, LenType DEF Commit, AtEnd, Lines
  <2> QED
    BY <2>1, <2>2 DEF Commit, LoopInv
<1>3. CASE \A p \in Products : pending[w][p] = 0
  <2>1. ProductsOf(order[w]) \subseteq Products
    BY <1>1, ProductsOfType
  <2> QED
    BY <1>2, <1>3, <2>1 DEF FoundReserved, Handled
<1>4. CASE \E p \in Products : pending[w][p] # 0
  <2>1. PICK p \in Products : pending[w][p] > 0
    BY <1>4 DEF TypeOK
  <2>2. /\ p \in ProductsOf(order[w])
        /\ reservations[order[w]][p] = 0
        /\ FirstQuantity(order[w], p) > 0
    BY <2>1 DEF PendingInv
  <2>3. \A x \in Products : reservations[order[w]][x] = 0
    BY <1>1, <2>1, <2>2 DEF ReservationAllOrNothing
  <2>4. \A x \in Products : x \in ProductsOf(order[w]) <=> pending[w][x] > 0
    BY <1>2, <2>3 DEF Handled, PendingInv
  <2> QED
    BY <2>3, <2>4 DEF TakesWhole
<1> QED
  BY <1>3, <1>4

\* A transaction that writes nothing leaves the committed tables as they are.
LEMMA CommitFoundReserved ==
    ASSUME IndInv, NEW w \in Workers, NEW r, Commit(w, r), FoundReserved(w)
    PROVE  UNCHANGED <<available, reserved, reservations>>
<1>1. available' = available /\ reserved' = reserved
  BY DEF IndInv, TypeOK, Commit, FoundReserved
<1>2. order[w] \in Orders
  BY DEF IndInv, Commit, LoopInv
<1>3. reservations'= reservations
  BY <1>2 DEF IndInv, TypeOK, Commit, FoundReserved
<1> QED
  BY <1>1, <1>3

\* What a commit does to the rows of its own order and of the others.
LEMMA CommitRows ==
    ASSUME IndInv, NEW w \in Workers, NEW r, Commit(w, r)
    PROVE  /\ order[w] \in Orders
           /\ reservations' \in [Orders -> [Products -> Nat]]
           /\ \A p \in Products : reservations'[order[w]][p] =
                 IF pending[w][p] > 0 THEN pending[w][p]
                                      ELSE reservations[order[w]][p]
           /\ \A o \in Orders \ {order[w]} : reservations'[o] = reservations[o]
<1>1. order[w] \in Orders
  BY DEF IndInv, Commit, LoopInv
<1> QED
  BY <1>1 DEF IndInv, TypeOK, Commit

\* The commit of a transaction preserves the invariant.
LEMMA CommitPreserves ==
    ASSUME IndInv, NEW w \in Workers, NEW r \in {"nil", "dbError"}, Commit(w, r)
    PROVE  IndInv'
<1> USE DEF IndInv
<1>1. \A p \in Products : /\ pending[w][p] \in Nat
                         /\ pending[w][p] <= available[p]
                         /\ reserved[p] + pending[w][p] <= MaxInt
  BY MaxIntAssumption DEF PendingInv, TypeOK
<1>2. TypeOK'
  <2>1. available' \in [Products -> 0 .. MaxInt]
    BY <1>1, MaxIntAssumption DEF TypeOK, Commit
  <2>2. reserved' \in [Products -> 0 .. MaxInt]
    BY <1>1, MaxIntAssumption DEF TypeOK, Commit
  <2> QED
    BY <2>1, <2>2, CommitRows DEF TypeOK, Commit, EndTx, Results
<1>3. \A o \in Orders, p \in Products :
         reservations[o][p] > 0 => reservations'[o][p] > 0
  BY CommitRows
<1>4. ASSUME NEW v \in Workers \ {w}
      PROVE  /\ pending'[v] = pending[v]
             /\ phase'[v] = phase[v]
             /\ order'[v] = order[v]
             /\ next'[v] = next[v]
             /\ result'[v] = result[v]
             /\ \A p \in Products : lockedBy[p] = v =>
                   /\ lockedBy'[p] = v
                   /\ available'[p] = available[p]
                   /\ reserved'[p] = reserved[p]
  BY DEF TypeOK, Commit, EndTx, PendingInv
<1>5. ASSUME NEW v \in Workers PROVE LoopInv(v)'
  <2>1. CASE v = w
    BY <2>1 DEF LoopInv, TypeOK, Commit, EndTx
  <2>2. CASE v # w
    <3> SUFFICES ASSUME phase[v] # "idle" PROVE LoopInv(v)'
      BY <1>4, <2>2 DEF LoopInv
    <3>1. order[v] \in Orders
      BY DEF LoopInv
    <3>2. phase[v] = "write" => Line(v).product \in Products
      BY LineType DEF LoopInv, Line
    <3>3. ASSUME NEW i \in Lines(order[v]), i < next[v]
          PROVE  Handled(v, ItemsOf[order[v]][i].product)'
      <4>1. Handled(v, ItemsOf[order[v]][i].product)
        BY <3>3 DEF LoopInv
      <4> QED
        BY <1>3, <1>4, <2>2, <3>1, <4>1, LineType DEF Handled
    <3> QED
      BY <1>4, <2>2, <3>1, <3>2, <3>3 DEF LoopInv, Line
  <2> QED
    BY <2>1, <2>2
<1>6. ASSUME NEW v \in Workers, NEW p \in Products PROVE PendingInv(v, p)'
  <2>1. CASE v = w
    BY <2>1 DEF PendingInv, TypeOK, Commit, EndTx
  <2>2. CASE v # w
    <3> SUFFICES ASSUME pending[v][p] > 0 PROVE PendingInv(v, p)'
      BY <1>4, <2>2 DEF PendingInv
    <3>1. /\ order[v] \in Orders
          /\ lockedBy[p] = v
          /\ reservations[order[v]][p] = 0
      BY DEF PendingInv, LoopInv
    <3>2. pending[w][p] = 0
      BY <2>2, <3>1 DEF PendingInv, TypeOK
    <3>3. reservations'[order[v]][p] = 0
      BY <3>1, <3>2, CommitRows
    <3> QED
      BY <1>4, <2>2, <3>1, <3>3 DEF PendingInv
  <2> QED
    BY <2>1, <2>2
<1>7. ReservationAllOrNothing'
  <2> SUFFICES ASSUME NEW o \in Orders
               PROVE  \/ \A p \in Products : reservations'[o][p] = 0
                      \/ \A p \in ProductsOf(o) :
                            reservations'[o][p] = FirstQuantity(o, p)
    BY DEF ReservationAllOrNothing
  <2>1. CASE o # order[w]
    BY <2>1, CommitRows DEF ReservationAllOrNothing
  <2>2. CASE o = order[w] /\ FoundReserved(w)
    BY <2>2, CommitFoundReserved DEF ReservationAllOrNothing
  <2>3. CASE o = order[w] /\ TakesWhole(w)
    <3>1. ProductsOf(o) \subseteq Products
      BY ProductsOfType
    <3> QED
      BY <2>3, <3>1, CommitRows DEF TakesWhole, PendingInv
  <2> QED
    BY <2>1, <2>2, <2>3, CommitIsWhole
<1>8. ASSUME NEW v \in Workers PROVE ResultInv(v)'
  <2>1. \A o \in Orders : ProductsOf(o) \subseteq Products
    BY ProductsOfType
  <2>2. CASE v = w
    <3>1. phase'[w] = "idle" /\ order'[w] = order[w] /\ order[w] \in Orders
      BY CommitRows DEF TypeOK, Commit, EndTx
    <3>2. \A p \in ProductsOf(order[w]) : reservations'[order[w]][p] > 0
      BY <2>1, <3>1, CommitIsWhole, CommitRows DEF FoundReserved, TakesWhole
    <3> QED
      BY <2>2, <3>1, <3>2 DEF ResultInv
  <2>3. CASE v # w
    BY <1>3, <1>4, <2>1, <2>3 DEF ResultInv
  <2> QED
    BY <2>2, <2>3
<1> QED
  BY <1>2, <1>5, <1>6, <1>7, <1>8

\* Stock is added to a row nobody has locked, so nobody counts on its value.
LEMMA AddStockPreserves ==
    ASSUME IndInv, NEW p \in Products, NEW q \in 1 .. MaxInt, AddStock(p, q)
    PROVE  IndInv'
<1> USE MaxIntAssumption DEF IndInv, AddStock, Ledger!AddStock, txVars
<1>1. TypeOK'
  BY DEF TypeOK
<1>2. \A x \in Products : lockedBy[x] # None => available'[x] = available[x]
  BY DEF TypeOK
<1>3. ASSUME NEW w \in Workers PROVE LoopInv(w)'
  <2>1. phase[w] = "write" => Line(w).product \in Products
    BY LineType DEF LoopInv, Line
  <2>2. phase[w] = "write" =>
           available'[Line(w).product] = available[Line(w).product]
    BY <1>2, <2>1, NoneAssumption DEF LoopInv
  <2>3. Line(w)' = Line(w)
    BY DEF Line
  <2>4. \A x : Handled(w, x)' = Handled(w, x)
    BY DEF Handled
  <2> QED
    BY <2>2, <2>3, <2>4 DEF LoopInv
<1>4. ASSUME NEW w \in Workers, NEW x \in Products PROVE PendingInv(w, x)'
  BY <1>2, NoneAssumption DEF PendingInv
<1>5. ReservationAllOrNothing'
  BY DEF ReservationAllOrNothing
<1>6. ASSUME NEW w \in Workers PROVE ResultInv(w)'
  BY DEF ResultInv
<1> QED
  BY <1>1, <1>3, <1>4, <1>5, <1>6

-----------------------------------------------------------------------------
\* IndInv holds in every reachable state.
THEOREM InductiveInvariant == Spec => []IndInv
<1>1. Init => IndInv
  <2> SUFFICES ASSUME Init PROVE IndInv
    OBVIOUS
  <2>1. TypeOK
    BY MaxIntAssumption DEF Init, Ledger!Init, TypeOK, Results
  <2> QED
    BY <2>1 DEF Init, Ledger!Init, IndInv, LoopInv, PendingInv, ResultInv,
                ReservationAllOrNothing
<1>2. IndInv /\ [Next]_vars => IndInv'
  <2> SUFFICES ASSUME IndInv, [Next]_vars PROVE IndInv'
    OBVIOUS
  <2>1. CASE \E w \in Workers, o \in Orders : BeginTx(w, o)
    BY <2>1, BeginTxPreserves
  <2>2. CASE \E w \in Workers : CheckReservation(w)
    BY <2>2, CheckReservationPreserves
  <2>3. CASE \E w \in Workers : LockRow(w)
    BY <2>3, LockRowPreserves
  <2>4. CASE \E w \in Workers : WriteReservation(w)
    BY <2>4, WriteReservationPreserves
  <2>5. CASE \E w \in Workers, r \in {"nil", "dbError"} : Commit(w, r)
    BY <2>5, CommitPreserves
  <2>6. CASE \E w \in Workers : Fail(w)
    BY <2>6, RollbackPreserves DEF Fail, Results
  <2>7. CASE \E w \in Workers : DeadlockVictim(w)
    BY <2>7, RollbackPreserves
       DEF DeadlockVictim, Deadlocked, WaitsFor, Results
  <2>8. CASE \E p \in Products, q \in 1 .. MaxInt : AddStock(p, q)
    BY <2>8, AddStockPreserves
  <2>9. CASE UNCHANGED vars
    <3> USE <2>9 DEF vars, ledgerVars, txVars, IndInv
    <3>1. TypeOK'
      BY DEF TypeOK
    <3>2. ASSUME NEW v \in Workers PROVE LoopInv(v)'
      <4>1. phase[v] = "write" => lockedBy'[Line(v).product] = v
        BY DEF LoopInv
      <4> QED
        BY <4>1, LoopUndisturbed
    <3>3. ASSUME NEW v \in Workers, NEW p \in Products PROVE PendingInv(v, p)'
      BY DEF PendingInv
    <3>4. ReservationAllOrNothing'
      BY DEF ReservationAllOrNothing
    <3>5. ASSUME NEW v \in Workers PROVE ResultInv(v)'
      BY DEF ResultInv
    <3> QED
      BY <3>1, <3>2, <3>3, <3>4, <3>5
  <2> QED
    BY <2>1, <2>2, <2>3, <2>4, <2>5, <2>6, <2>7, <2>8, <2>9 DEF Next
<1> QED
  BY <1>1, <1>2, PTL DEF Spec

(***************************************************************************)
(* Type correctness: the columns of inventory never leave INT nor go below *)
(* zero, whatever the workers of the service do concurrently.              *)
(***************************************************************************)
THEOREM TypeCorrect == Spec => []TypeOK
  BY InductiveInvariant, PTL DEF IndInv

(***************************************************************************)
(* The stock check of ReserveOrder is never stale: no worker writes, or    *)
(* commits, more than is available at that moment.                         *)
(***************************************************************************)
THEOREM NeverOversells == Spec => []StockAdmitted
<1>1. IndInv => StockAdmitted
  BY DEF IndInv, StockAdmitted, LoopInv, PendingInv, TypeOK
<1> QED
  BY <1>1, InductiveInvariant, PTL

\* An order is reserved completely or not at all.
THEOREM AllOrNothing == Spec => []ReservationAllOrNothing
  BY InductiveInvariant, PTL DEF IndInv

\* ReserveOrder returns nil only for an order that is reserved completely.
THEOREM SuccessIsComplete == Spec => []SuccessMeansReserved
<1>1. IndInv => SuccessMeansReserved
  BY DEF IndInv, SuccessMeansReserved, ResultInv
<1> QED
  BY <1>1, InductiveInvariant, PTL

(***************************************************************************)
(* The transactions implement the ledger: every commit is one ReserveOrder *)
(* of StockLedger or changes nothing, AddStock is AddStock, and no other   *)
(* step changes what is committed.                                         *)
(***************************************************************************)
THEOREM Implements == Spec => LedgerSpec
<1>1. Init => Ledger!Init
  BY DEF Init
<1>2. IndInv /\ [Next]_vars => [Ledger!Next]_(Ledger!ledgerVars)
  <2> SUFFICES ASSUME IndInv, [Next]_vars
               PROVE  Ledger!Next \/ UNCHANGED ledgerVars
    BY DEF ledgerVars, Ledger!ledgerVars
  <2>1. ASSUME NEW w \in Workers, NEW r \in {"nil", "dbError"}, Commit(w, r)
        PROVE  Ledger!Next \/ UNCHANGED ledgerVars
    <3>1. CASE FoundReserved(w)
      BY <2>1, <3>1, CommitFoundReserved DEF ledgerVars
    <3>2. CASE TakesWhole(w)
      <4>1. order[w] \in Orders
        BY <2>1, CommitRows
      <4>2. \A p \in ProductsOf(order[w]) :
               /\ p \in Products
               /\ pending[w][p] = FirstQuantity(order[w], p)
               /\ pending[w][p] \in Nat
               /\ reservations[order[w]][p] = 0
               /\ pending[w][p] <= available[p]
               /\ reserved[p] + pending[w][p] <= MaxInt
        BY <3>2, <4>1, ProductsOfType
           DEF TakesWhole, IndInv, PendingInv, TypeOK
      <4>3. \A p \in Products : p \notin ProductsOf(order[w]) => pending[w][p] = 0
        BY <3>2 DEF TakesWhole, IndInv, TypeOK
      <4>4. available' = [p \in Products |->
               IF p \in ProductsOf(order[w])
               THEN available[p] - FirstQuantity(order[w], p)
               ELSE available[p]]
        BY <2>1, <4>2, <4>3 DEF Commit, IndInv, TypeOK
      <4>5. reserved' = [p \in Products |->
               IF p \in ProductsOf(order[w])
               THEN reserved[p] + FirstQuantity(order[w], p)
               ELSE reserved[p]]
        BY <2>1, <4>2, <4>3 DEF Commit, IndInv, TypeOK
      <4>6. reservations' = [reservations EXCEPT ![order[w]] =
               [p \in Products |->
                  IF p \in ProductsOf(order[w])
                  THEN FirstQuantity(order[w], p) ELSE @[p]]]
        BY <2>1, <3>2, <4>1, <4>2, <4>3 DEF Commit, TakesWhole, IndInv, TypeOK
      <4>7. /\ Ledger!ProductsOf(order[w]) = ProductsOf(order[w])
            /\ \A p : Ledger!FirstQuantity(order[w], p) = FirstQuantity(order[w], p)
        BY DEF Ledger!ProductsOf, Ledger!FirstQuantity, Ledger!IsFirstLine,
               Ledger!Lines, ProductsOf, FirstQuantity, IsFirstLine, Lines
      <4>8. Ledger!ReserveOrder(order[w])
        BY <4>2, <4>4, <4>5, <4>6, <4>7 DEF Ledger!ReserveOrder
      <4> QED
        BY <4>1, <4>8 DEF Ledger!Next
    <3> QED
      BY <2>1, <3>1, <3>2, CommitIsWhole
  <2>2. CASE \E p \in Products, q \in 1 .. MaxInt : AddStock(p, q)
    BY <2>2 DEF AddStock, Ledger!Next
  <2>3. CASE UNCHANGED vars
    BY <2>3 DEF vars
  <2>4. CASE \E w \in Workers : \/ \E o \in Orders : BeginTx(w, o)
                               \/ CheckReservation(w)
                               \/ LockRow(w)
                               \/ WriteReservation(w)
                               \/ Fail(w)
                               \/ DeadlockVictim(w)
    BY <2>4 DEF BeginTx, CheckReservation, LockRow, WriteReservation, Fail,
                DeadlockVictim, Rollback
  <2> QED
    BY <2>1, <2>2, <2>3, <2>4 DEF Next
<1> QED
  BY <1>1, <1>2, InductiveInvariant, PTL DEF Spec, LedgerSpec, Ledger!Spec

-----------------------------------------------------------------------------
(***************************************************************************)
(* What the ledger promises of the three columns, carried over to the      *)
(* transactions by Implements.                                             *)
(***************************************************************************)
LEMMA LedgerStep ==
    ASSUME Ledger!TypeOK, Ledger!Next, NEW p \in Products
    PROVE  /\ Ledger!TypeOK'
           /\ Ledger!NotTaken(p) \/ \E o \in Orders : Ledger!TakenFor(o, p)
<1> USE DEF Ledger!TypeOK
<1>1. CASE \E x \in Products, q \in 1 .. MaxInt : Ledger!AddStock(x, q)
  <2>1. PICK x \in Products, q \in 1 .. MaxInt : Ledger!AddStock(x, q)
    BY <1>1
  <2> QED
    BY <2>1, MaxIntAssumption DEF Ledger!AddStock, Ledger!NotTaken
<1>2. CASE \E o \in Orders : Ledger!ReserveOrder(o)
  <2>1. PICK o \in Orders : Ledger!ReserveOrder(o)
    BY <1>2
  <2> DEFINE q == [x \in Products |-> IF x \in ProductsOf(o)
                                      THEN FirstQuantity(o, x) ELSE 0]
  <2>2. /\ \A x : Ledger!ProductsOf(x) = ProductsOf(x)
        /\ \A x, y : Ledger!FirstQuantity(x, y) = FirstQuantity(x, y)
    BY DEF Ledger!ProductsOf, Ledger!FirstQuantity, Ledger!IsFirstLine,
           Ledger!Lines, ProductsOf, FirstQuantity, IsFirstLine, Lines
  <2>3. ASSUME NEW x \in Products
        PROVE  /\ q[x] \in Nat
               /\ x \in ProductsOf(o) => q[x] > 0
               /\ x \notin ProductsOf(o) => q[x] = 0
    BY FirstQuantityType
  <2>4. ASSUME NEW x \in Products
        PROVE  /\ available'[x] = available[x] - q[x]
               /\ reserved'[x] = reserved[x] + q[x]
               /\ reservations'[o][x] = IF x \in ProductsOf(o)
                                        THEN q[x] ELSE reservations[o][x]
               /\ x \in ProductsOf(o) => /\ reservations[o][x] = 0
                                         /\ q[x] <= available[x]
                                         /\ reserved[x] + q[x] <= MaxInt
    BY <2>1, <2>2 DEF Ledger!ReserveOrder
  <2>5. /\ \A y \in Orders \ {o} : reservations'[y] = reservations[y]
        /\ DOMAIN available' = Products /\ available' = [x \in Products |-> available'[x]]
        /\ DOMAIN reserved' = Products /\ reserved' = [x \in Products |-> reserved'[x]]
        /\ reservations' = [reservations EXCEPT ![o] =
              [x \in Products |-> IF x \in ProductsOf(o) THEN q[x]
                                                        ELSE reservations[o][x]]]
    BY <2>1, <2>2 DEF Ledger!ReserveOrder
  <2> HIDE DEF q
  <2>6. Ledger!TypeOK'
    <3>1. \A x \in Products : /\ available'[x] \in 0 .. MaxInt
                              /\ reserved'[x] \in 0 .. MaxInt
      BY <2>3, <2>4, MaxIntAssumption
    <3>2. reservations' \in [Orders -> [Products -> Nat]]
      BY <2>3, <2>5
    <3> QED
      BY <2>5, <3>1, <3>2
  <2>7. CASE p \in ProductsOf(o)
    BY <2>3, <2>4, <2>5, <2>6, <2>7 DEF Ledger!TakenFor
  <2>8. CASE p \notin ProductsOf(o)
    BY <2>3, <2>4, <2>5, <2>6, <2>8 DEF Ledger!NotTaken
  <2> QED
    BY <2>6, <2>7, <2>8
<1> QED
  BY <1>1, <1>2 DEF Ledger!Next

\* The columns of the ledger stay inside their range.
LEMMA LedgerTypes == Ledger!Spec => []Ledger!TypeOK
<1>1. Ledger!Init => Ledger!TypeOK
  BY MaxIntAssumption DEF Ledger!Init, Ledger!TypeOK
<1>2. Ledger!TypeOK /\ [Ledger!Next]_(Ledger!ledgerVars) => Ledger!TypeOK'
  <2>1. Ledger!TypeOK /\ Ledger!Next => Ledger!TypeOK'
    <3>1. CASE Products = {}
      BY <3>1 DEF Ledger!TypeOK, Ledger!Next, Ledger!AddStock, Ledger!ReserveOrder
    <3>2. CASE Products # {}
      BY <3>2, LedgerStep
    <3> QED
      BY <3>1, <3>2
  <2> QED
    BY <2>1 DEF Ledger!TypeOK, Ledger!ledgerVars
<1> QED
  BY <1>1, <1>2, PTL DEF Ledger!Spec

(***************************************************************************)
(* Whatever a worker commits, stock only moves from available to reserved, *)
(* for one order and by the quantity of the row that is inserted with it.  *)
(***************************************************************************)
THEOREM StockOnlyMoves == Spec => StockConserved
<1>1. Ledger!TypeOK /\ [Ledger!Next]_(Ledger!ledgerVars) =>
         [Ledger!StockMove]_(Ledger!ledgerVars)
  BY LedgerStep DEF Ledger!StockMove
<1> QED
  BY <1>1, Implements, LedgerTypes, PTL
     DEF LedgerSpec, Ledger!Spec, StockConserved, Ledger!StockMoves

\* One step of the ledger keeps reserved_quantity equal to the sum of the rows.
LEMMA LedgerSumStep ==
    ASSUME NEW n \in Nat, Ledger!TypeOK, Ledger!TypeOK', Ledger!ReservedIsSum(n),
           NEW p \in Products,
           Ledger!NotTaken(p) \/ \E o \in Orders : Ledger!TakenFor(o, p),
           NEW list \in Listings(n)
    PROVE  IsSum(n, [i \in 1 .. n |-> reservations'[list[i]][p]], reserved'[p])
<1> DEFINE f == [i \in 1 .. n |-> reservations[list[i]][p]]
           g == [i \in 1 .. n |-> reservations'[list[i]][p]]
<1>1. list \in [1 .. n -> Orders]
  BY DEF Listings
<1>2. /\ \A i \in 1 .. n : f[i] \in Nat
      /\ reserved[p] \in Nat
  BY <1>1, MaxIntAssumption DEF Ledger!TypeOK
<1>3. IsSum(n, f, reserved[p])
  BY DEF Ledger!ReservedIsSum, Ledger!Listings, Listings, IsSum, Ledger!IsSum
<1>4. CASE Ledger!NotTaken(p)
  <2>1. g = f /\ reserved'[p] = reserved[p]
    BY <1>1, <1>4 DEF Ledger!NotTaken
  <2> QED
    BY <1>3, <2>1
<1>5. CASE \E o \in Orders : Ledger!TakenFor(o, p)
  <2>1. PICK o \in Orders : Ledger!TakenFor(o, p)
    BY <1>5
  <2>2. PICK k \in 1 .. n : /\ list[k] = o
                            /\ \A i \in 1 .. n : i # k => list[i] # o
    BY PlaceInListing
  <2> DEFINE q == reservations'[o][p]
  <2>3. q \in Nat /\ reserved'[p] = reserved[p] + q
    BY <2>1 DEF Ledger!TakenFor, Ledger!TypeOK
  <2>4. g[k] = f[k] + q /\ \A i \in 1 .. n : i # k => g[i] = f[i]
    BY <1>1, <2>1, <2>2, <2>3 DEF Ledger!TakenFor
  <2> HIDE DEF f, g, q
  <2>5. IsSum(n, g, reserved[p] + q)
    BY <1>2, <1>3, <2>3, <2>4, SumGrows
  <2> QED
    BY <2>3, <2>5 DEF g
<1> QED
  BY <1>4, <1>5

(***************************************************************************)
(* reserved_quantity, which the workers update one by one and which the    *)
(* upsert of an administrator shares a row with, is at all times the sum   *)
(* of the product's rows in table reservations.  IsFiniteSet(Orders): a    *)
(* table has finitely many rows.                                           *)
(***************************************************************************)
THEOREM ReservedEqualsRows ==
    ASSUME IsFiniteSet(Orders) PROVE Spec => []LedgerBalanced
<1> DEFINE n == Cardinality(Orders)
<1>1. n \in Nat
  BY FS_CardinalityType
<1> HIDE DEF n
<1>2. Ledger!Init => Ledger!ReservedIsSum(n)
  <2> SUFFICES ASSUME Ledger!Init, NEW p \in Products, NEW list \in Listings(n)
               PROVE  Ledger!IsSum(n, [i \in 1 .. n |-> reservations[list[i]][p]],
                                   reserved[p])
    BY DEF Ledger!ReservedIsSum, Ledger!Listings, Listings
  <2> DEFINE f == [i \in 1 .. n |-> reservations[list[i]][p]]
  <2>1. \A i \in 1 .. n : f[i] = 0
    BY DEF Ledger!Init, Listings
  <2>2. reserved[p] = 0
    BY DEF Ledger!Init
  <2> HIDE DEF f
  <2>3. IsSum(n, f, 0)
    BY <1>1, <2>1, SumOfZeros
  <2> QED
    BY <2>2, <2>3 DEF f, IsSum, Ledger!IsSum
<1>3. Ledger!TypeOK /\ Ledger!TypeOK' /\ Ledger!ReservedIsSum(n)
         /\ [Ledger!Next]_(Ledger!ledgerVars) => Ledger!ReservedIsSum(n)'
  <2>1. ASSUME Ledger!TypeOK, Ledger!TypeOK', Ledger!ReservedIsSum(n), Ledger!Next
        PROVE  Ledger!ReservedIsSum(n)'
    <3> SUFFICES ASSUME NEW p \in Products, NEW list \in Listings(n)
                 PROVE  IsSum(n, [i \in 1 .. n |-> reservations'[list[i]][p]],
                              reserved'[p])
      BY DEF Ledger!ReservedIsSum, Ledger!Listings, Listings, Ledger!IsSum, IsSum
    <3> QED
      BY <1>1, <2>1, LedgerStep, LedgerSumStep
  <2>2. ASSUME UNCHANGED Ledger!ledgerVars, Ledger!ReservedIsSum(n)
        PROVE  Ledger!ReservedIsSum(n)'
    BY <2>2 DEF Ledger!ledgerVars, Ledger!ReservedIsSum
  <2> QED
    BY <2>1, <2>2
<1>4. LedgerSpec => []Ledger!ReservedIsSum(n)
  BY <1>2, <1>3, LedgerTypes, PTL DEF LedgerSpec, Ledger!Spec
<1> QED
  BY <1>4, Implements, PTL DEF LedgerBalanced, n

-----------------------------------------------------------------------------
(***************************************************************************)
(* Who holds a row lock, and for which line: a transaction that is open    *)
(* and either has written the row for a line behind it or is about to.     *)
(***************************************************************************)
HeldInv(w, p) ==
    lockedBy[p] = w =>
       /\ phase[w] # "idle"
       /\ \/ /\ pending[w][p] > 0
             /\ \E i \in Lines(order[w]) :
                   i < next[w] /\ ItemsOf[order[w]][i].product = p
          \/ phase[w] = "write" /\ Line(w).product = p

LockInv == \A w \in Workers, p \in Products : HeldInv(w, p)

\* A transaction that does not move keeps what is known of its locks.
LEMMA HeldUndisturbed ==
    ASSUME NEW v \in Workers, NEW p \in Products, HeldInv(v, p),
           lockedBy'[p] = v => lockedBy[p] = v,
           phase'[v] = phase[v], order'[v] = order[v], next'[v] = next[v],
           pending'[v] = pending[v]
    PROVE  HeldInv(v, p)'
<1>1. Line(v)' = Line(v)
  BY DEF Line
<1> QED
  BY <1>1 DEF HeldInv

\* The end of a transaction gives back its locks and no others.
LEMMA EndTxHeld ==
    ASSUME IndInv, LockInv, NEW w \in Workers, NEW r, EndTx(w, r)
    PROVE  LockInv'
<1> SUFFICES ASSUME NEW v \in Workers, NEW p \in Products PROVE HeldInv(v, p)'
  BY DEF LockInv
<1>1. CASE v = w
  BY <1>1, NoneAssumption DEF IndInv, TypeOK, EndTx, HeldInv
<1>2. CASE v # w
  BY <1>2, NoneAssumption, HeldUndisturbed DEF IndInv, TypeOK, EndTx, LockInv
<1> QED
  BY <1>1, <1>2

\* LockInv holds in every reachable state.
LEMMA LocksAreHeld == Spec => []LockInv
<1>1. Init => LockInv
  BY NoneAssumption DEF Init, LockInv, HeldInv
<1>2. IndInv /\ LockInv /\ [Next]_vars => LockInv'
  <2> SUFFICES ASSUME IndInv, LockInv, [Next]_vars PROVE LockInv'
    OBVIOUS
  <2>1. ASSUME NEW w \in Workers, NEW o \in Orders, BeginTx(w, o)
        PROVE  LockInv'
    <3> SUFFICES ASSUME NEW v \in Workers, NEW p \in Products
                 PROVE  HeldInv(v, p)'
      BY DEF LockInv
    <3>1. CASE v = w
      BY <2>1, <3>1 DEF BeginTx, LockInv, HeldInv
    <3>2. CASE v # w
      BY <2>1, <3>2, HeldUndisturbed DEF IndInv, TypeOK, BeginTx, LockInv
    <3> QED
      BY <3>1, <3>2
  <2>2. ASSUME NEW w \in Workers, CheckReservation(w)
        PROVE  LockInv'
    <3> SUFFICES ASSUME NEW v \in Workers, NEW p \in Products
                 PROVE  HeldInv(v, p)'
      BY DEF LockInv
    <3>1. CASE v = w
      <4>1. /\ phase[w] = "check" /\ phase'[w] # "idle"
            /\ next'[w] = next[w] \/ next'[w] = next[w] + 1
            /\ UNCHANGED <<lockedBy, pending, order>>
        BY <2>2 DEF CheckReservation, IndInv, TypeOK
      <4>2. next[w] \in Nat
        BY DEF IndInv, TypeOK
      <4>3. \A i \in Lines(order[w]) : i < next[w] => i < next'[w]
        BY <2>2, <4>1, <4>2, LenType DEF CheckReservation, IndInv, LoopInv, Lines
      <4>4. HeldInv(w, p)
        BY DEF LockInv
      <4> QED
        BY <3>1, <4>1, <4>3, <4>4 DEF HeldInv
    <3>2. CASE v # w
      <4>1. /\ phase'[v] = phase[v] /\ next'[v] = next[v]
            /\ UNCHANGED <<lockedBy, pending, order>>
        BY <2>2, <3>2 DEF CheckReservation, IndInv, TypeOK
      <4> QED
        BY <4>1, HeldUndisturbed DEF LockInv
    <3> QED
      BY <3>1, <3>2
  <2>3. ASSUME NEW w \in Workers, LockRow(w)
        PROVE  LockInv'
    <3>1. CASE \E r \in Results : Rollback(w, r)
      BY <3>1, EndTxHeld DEF Rollback
    <3> DEFINE x == Line(w).product
    <3>2. CASE /\ lockedBy' = [lockedBy EXCEPT ![x] = w]
               /\ phase' = [phase EXCEPT ![w] = "write"]
               /\ UNCHANGED <<order, next, pending>>
      <4> SUFFICES ASSUME NEW v \in Workers, NEW p \in Products
                   PROVE  HeldInv(v, p)'
        BY DEF LockInv
      <4>1. Line(w)' = Line(w) /\ phase[w] = "lock"
        BY <2>3, <3>2 DEF Line, LockRow
      <4>2. CASE v = w
        <5>1. phase'[w] = "write" /\ pending' = pending /\ order' = order /\ next' = next
          BY <3>2 DEF IndInv, TypeOK
        <5>2. lockedBy'[p] = w => p = x \/ lockedBy[p] = w
          BY <3>2 DEF IndInv, TypeOK
        <5>3. HeldInv(w, p)
          BY DEF LockInv
        <5> QED
          BY <4>1, <4>2, <5>1, <5>2, <5>3 DEF HeldInv
      <4>3. CASE v # w
        BY <3>2, <4>3, HeldUndisturbed DEF IndInv, TypeOK, LockInv
      <4> QED
        BY <4>2, <4>3
    <3> QED
      BY <2>3, <3>1, <3>2 DEF LockRow, Results
  <2>4. ASSUME NEW w \in Workers, WriteReservation(w)
        PROVE  LockInv'
    <3>1. CASE Rollback(w, "dbError")
      BY <3>1, EndTxHeld DEF Rollback
    <3> DEFINE x == Line(w).product
               q == Line(w).quantity
    <3>2. CASE /\ pending' = [pending EXCEPT ![w][x] = q]
               /\ next' = [next EXCEPT ![w] = @ + 1]
               /\ phase' = [phase EXCEPT ![w] = "check"]
               /\ UNCHANGED <<lockedBy, order>>
      <4> SUFFICES ASSUME NEW v \in Workers, NEW p \in Products
                   PROVE  HeldInv(v, p)'
        BY DEF LockInv
      <4>1. order[w] \in Orders /\ next[w] \in Lines(order[w]) /\ next[w] \in Nat
        BY <2>4, LenType DEF IndInv, LoopInv, WriteReservation, TypeOK
      <4>2. x = ItemsOf[order[w]][next[w]].product /\ q > 0 /\ x \in Products
        BY <4>1, LineType DEF Line
      <4>3. \A y \in Products : pending'[w][y] = IF y = x THEN q ELSE pending[w][y]
        BY <3>2, <4>2 DEF IndInv, TypeOK
      <4>4. next'[w] = next[w] + 1 /\ phase'[w] = "check" /\ phase[w] = "write"
        BY <2>4, <3>2 DEF IndInv, TypeOK, WriteReservation
      <4>5. CASE v = w
        <5> SUFFICES ASSUME lockedBy[p] = w
                     PROVE  /\ pending'[w][p] > 0
                            /\ \E i \in Lines(order[w]) :
                                  i < next[w] + 1 /\ ItemsOf[order[w]][i].product = p
          BY <3>2, <4>4, <4>5 DEF HeldInv
        <5>1. CASE p = x
          BY <4>1, <4>2, <4>3, <5>1
        <5>2. CASE p # x
          <6>1. pending[w][p] > 0
            BY <5>2 DEF LockInv, HeldInv
          <6>2. PICK i \in Lines(order[w]) :
                   i < next[w] /\ ItemsOf[order[w]][i].product = p
            BY <5>2 DEF LockInv, HeldInv
          <6>3. i < next[w] + 1
            BY <4>1, <6>2, LenType DEF Lines
          <6> QED
            BY <4>3, <5>2, <6>1, <6>2, <6>3
        <5> QED
          BY <5>1, <5>2
      <4>6. CASE v # w
        BY <3>2, <4>6, HeldUndisturbed DEF IndInv, TypeOK, LockInv
      <4> QED
        BY <4>5, <4>6
    <3> QED
      BY <2>4, <3>1, <3>2 DEF WriteReservation
  <2>5. CASE \E w \in Workers, r \in {"nil", "dbError"} : Commit(w, r)
    BY <2>5, EndTxHeld DEF Commit
  <2>6. CASE \E w \in Workers : Fail(w) \/ DeadlockVictim(w)
    BY <2>6, EndTxHeld DEF Fail, DeadlockVictim, Rollback
  <2>7. CASE \/ \E p \in Products, q \in 1 .. MaxInt : AddStock(p, q)
             \/ UNCHANGED vars
    <3>1. UNCHANGED txVars
      BY <2>7 DEF AddStock, vars
    <3> QED
      BY <3>1, HeldUndisturbed DEF txVars, LockInv
  <2> QED
    BY <2>1, <2>2, <2>3, <2>4, <2>5, <2>6, <2>7 DEF Next
<1> QED
  BY <1>1, <1>2, InductiveInvariant, PTL DEF Spec

(***************************************************************************)
(* A transaction that waits for another one waits for a product that it    *)
(* has not taken itself, and that the other took for an earlier line.      *)
(***************************************************************************)
Wanted(w) == Line(w).product

LEMMA WaitsForHolder ==
    ASSUME IndInv, LockInv, NEW v \in Workers, NEW w \in Workers, WaitsFor(v, w)
    PROVE  /\ v # w
           /\ phase[w] # "idle"
           /\ Wanted(v) \in Products
           /\ phase[w] = "lock" =>
                 /\ order[w] \in Orders /\ next[w] \in Lines(order[w])
                 /\ Wanted(v) # Wanted(w)
                 /\ \E i \in Lines(order[w]) :
                       i < next[w] /\ ItemsOf[order[w]][i].product = Wanted(v)
<1> USE DEF IndInv, WaitsFor, Wanted
<1>1. /\ order[v] \in Orders /\ next[v] \in Lines(order[v])
      /\ pending[v][Wanted(v)] = 0
  BY DEF LoopInv
<1>2. Wanted(v) \in Products
  BY <1>1, LineType DEF Line
<1>3. HeldInv(w, Wanted(v)) /\ lockedBy[Wanted(v)] = w
  BY <1>2 DEF LockInv
<1>4. v # w
  BY <1>1, <1>3 DEF HeldInv
<1>5. ASSUME phase[w] = "lock"
      PROVE  /\ order[w] \in Orders /\ next[w] \in Lines(order[w])
             /\ pending[w][Wanted(w)] = 0
             /\ pending[w][Wanted(v)] > 0
  BY <1>3, <1>5 DEF LoopInv, HeldInv
<1> QED
  BY <1>2, <1>3, <1>4, <1>5 DEF HeldInv

(***************************************************************************)
(* Orders that all name their products in one common order cannot          *)
(* deadlock: along a circle of waits the rank of the wanted product would  *)
(* rise at every step.  Sorting the lines before the loop of ReserveOrder  *)
(* would therefore make the deadlock detector unnecessary.                 *)
(***************************************************************************)
THEOREM OrderedLinesNeverDeadlock ==
    ASSUME NEW rank \in [Products -> Nat], InCommonOrder(rank)
    PROVE  Spec => []DeadlockFree
<1>1. ASSUME IndInv, LockInv, NEW w \in Workers, Deadlocked(w)
      PROVE  FALSE
  <2>1. PICK S \in SUBSET Workers :
           /\ w \in S
           /\ \A v \in S : /\ \E u \in S : WaitsFor(v, u)
                           /\ \E u \in S : WaitsFor(u, v)
    BY <1>1 DEF Deadlocked
  <2>2. \A v \in S : phase[v] = "lock" /\ Wanted(v) \in Products
    BY <1>1, <2>1, WaitsForHolder DEF WaitsFor
  <2> DEFINE R == {rank[Wanted(v)] : v \in S}
  <2>3. R \subseteq Nat /\ R # {}
    BY <2>1, <2>2
  <2>4. PICK v \in S : \A j \in R : rank[Wanted(v)] <= j
    <3>1. \E m \in R : \A j \in R : m <= j
      <4> HIDE DEF R
      <4> QED
        BY <2>3, LeastElement
    <3> QED
      BY <3>1
  <2>5. PICK u \in S : WaitsFor(u, v)
    BY <2>1
  <2>6. /\ order[v] \in Orders /\ next[v] \in Lines(order[v])
        /\ Wanted(u) # Wanted(v)
        /\ \E i \in Lines(order[v]) :
              i < next[v] /\ ItemsOf[order[v]][i].product = Wanted(u)
    BY <1>1, <2>1, <2>2, <2>5, WaitsForHolder
  <2>7. rank[Wanted(u)] < rank[Wanted(v)]
    BY <2>6 DEF InCommonOrder, Wanted, Line
  <2>8. rank[Wanted(v)] <= rank[Wanted(u)]
    BY <2>4, <2>5
  <2>9. rank[Wanted(v)] \in Nat /\ rank[Wanted(u)] \in Nat
    BY <2>2, <2>4, <2>5
  <2> QED
    BY <2>7, <2>8, <2>9
<1>2. IndInv /\ LockInv => DeadlockFree
  BY <1>1 DEF DeadlockFree
<1> QED
  BY <1>2, InductiveInvariant, LocksAreHeld, PTL

(***************************************************************************)
(* Whatever the lines, the deadlock detector is enough: as long as some    *)
(* transaction is open, one of them does not wait, or some wait in a       *)
(* circle and one of these is a victim.  The circle is a smallest set of   *)
(* transactions that wait only for each other.                             *)
(***************************************************************************)
THEOREM WaitsNeverHang ==
    ASSUME IsFiniteSet(Workers) PROVE Spec => []WaitsAreDetected
<1>1. ASSUME IndInv, LockInv, NEW x \in Workers, phase[x] # "idle",
             \A w \in Workers : phase[w] # "idle" => Waits(w)
      PROVE  \E w \in Workers : Deadlocked(w)
  <2> DEFINE Closed(S) == S # {} /\ \A v \in S : \E u \in S : WaitsFor(v, u)
             A == {w \in Workers : phase[w] # "idle"}
             C == {S \in SUBSET Workers : Closed(S)}
             N == {Cardinality(S) : S \in C}
  <2>1. A \in C
    <3>1. ASSUME NEW v \in A PROVE \E u \in A : WaitsFor(v, u)
      <4>1. PICK u \in Workers : WaitsFor(v, u)
        BY <1>1 DEF Waits
      <4> QED
        BY <1>1, <4>1, WaitsForHolder
    <3> QED
      BY <1>1, <3>1
  <2>2. \A S \in SUBSET Workers : IsFiniteSet(S) /\ Cardinality(S) \in Nat
    BY FS_Subset, FS_CardinalityType
  <2>3. N \subseteq Nat /\ N # {}
    BY <2>1, <2>2
  <2>4. PICK S \in C : \A T \in C : Cardinality(S) <= Cardinality(T)
    <3>1. \E m \in N : \A j \in N : m <= j
      <4> HIDE DEF N
      <4> QED
        BY <2>3, LeastElement
    <3> QED
      BY <3>1
  <2> DEFINE T == {u \in S : \E v \in S : WaitsFor(v, u)}
  <2>5. T \in C
    <3>1. T \in SUBSET Workers /\ T # {}
      BY <2>4
    <3>2. ASSUME NEW v \in T PROVE \E u \in T : WaitsFor(v, u)
      BY <2>4
    <3> QED
      BY <3>1, <3>2
  <2>6. T = S
    <3>1. T \subseteq S /\ S \in SUBSET Workers
      OBVIOUS
    <3>2. Cardinality(T) = Cardinality(S)
      <4> HIDE DEF T, C
      <4>1. Cardinality(S) <= Cardinality(T)
        BY <2>4, <2>5
      <4>2. Cardinality(T) <= Cardinality(S)
        BY <2>2, <3>1, FS_Subset
      <4>3. Cardinality(S) \in Nat /\ Cardinality(T) \in Nat
        BY <2>2, <3>1
      <4> QED
        BY <4>1, <4>2, <4>3
    <3> QED
      BY <2>2, <3>1, <3>2, FS_Subset
  <2>7. /\ S \in SUBSET Workers /\ S # {}
        /\ \A v \in S : /\ \E u \in S : WaitsFor(v, u)
                        /\ \E u \in S : WaitsFor(u, v)
    BY <2>4, <2>6
  <2> QED
    BY <2>7 DEF Deadlocked
<1>2. IndInv /\ LockInv => WaitsAreDetected
  BY <1>1, WaitsForHolder DEF WaitsAreDetected
<1> QED
  BY <1>2, InductiveInvariant, LocksAreHeld, PTL

-----------------------------------------------------------------------------
\* When no other line names the product, its quantity is all that is asked for.
LEMMA RequestedOfSingleLine ==
    ASSUME EachProductOnce, NEW o \in Orders, NEW p \in ProductsOf(o)
    PROVE  IsSum(Len(ItemsOf[o]), Requested(o, p), FirstQuantity(o, p))
<1> DEFINE n == Len(ItemsOf[o])
           zero == [i \in 1 .. n |-> 0]
           q == FirstQuantity(o, p)
<1>1. n \in Nat /\ q \in Nat
  BY LenType, FirstQuantityType
<1>2. PICK k \in 1 .. n : ItemsOf[o][k].product = p
  BY LineOfProduct DEF Lines
<1>3. IsFirstLine(o, p, k)
  BY <1>2 DEF EachProductOnce, IsFirstLine, Lines
<1>4. q = ItemsOf[o][k].quantity
  BY <1>3, FirstQuantityOfLine DEF Lines
<1> DEFINE f == Requested(o, p)
<1>5. f[k] = zero[k] + q
  BY <1>1, <1>2, <1>4 DEF Requested, Lines
<1>6. \A i \in 1 .. n : i # k => f[i] = zero[i]
  BY <1>2 DEF Requested, Lines, EachProductOnce
<1>7. \A i \in 1 .. n : zero[i] = 0
  OBVIOUS
<1> HIDE DEF n, zero, f, q
<1>8. IsSum(n, zero, 0)
  BY <1>1, <1>7, SumOfZeros
<1>9. IsSum(n, f, 0 + q)
  BY <1>1, <1>2, <1>5, <1>6, <1>7, <1>8, SumGrows
<1> QED
  BY <1>1, <1>9 DEF n, f, q

(***************************************************************************)
(* A customer who names each product in one line only gets what he asked   *)
(* for: the quantity the loop takes is then the quantity of the order.     *)
(***************************************************************************)
THEOREM RequestCoveredWithoutRepeats ==
    ASSUME EachProductOnce PROVE Spec => []RequestCovered
<1>1. ASSUME IndInv, NEW w \in Workers, result[w] = "nil", NEW p \in ProductsOf(order[w])
      PROVE  IsSum(Len(ItemsOf[order[w]]), Requested(order[w], p),
                   reservations[order[w]][p])
  <2>1. order[w] \in Orders /\ reservations[order[w]][p] > 0
    BY <1>1 DEF IndInv, ResultInv
  <2>2. p \in Products
    BY <2>1, ProductsOfType
  <2>3. reservations[order[w]][p] = FirstQuantity(order[w], p)
    BY <1>1, <2>1, <2>2 DEF IndInv, ReservationAllOrNothing
  <2> QED
    BY <2>1, <2>3, RequestedOfSingleLine
<1>2. IndInv => RequestCovered
  BY <1>1 DEF RequestCovered
<1> QED
  BY <1>2, InductiveInvariant, PTL
=============================================================================
