--------------------------- MODULE OrderLinesProofs ---------------------------
(***************************************************************************)
(* Lemmas about the lines of orders.                                       *)
(***************************************************************************)
EXTENDS OrderLines, SequenceTheorems, WellFoundedInduction, TLAPS

\* A set of natural numbers that is not empty has a smallest element.
LEMMA LeastElement ==
    ASSUME NEW S, S \subseteq Nat, S # {}
    PROVE  \E i \in S : \A j \in S : i <= j
<1>1. PICK m \in S : \A j \in S : m <= j
  <2>1. PICK m \in S : \A j \in S : ~ (<<j, m>> \in OpToRel(<, Nat))
    BY NatLessThanWellFounded, WFMin, Zenon
  <2>2. \A j \in S : ~ (j < m)
    BY <2>1 DEF OpToRel
  <2> QED
    BY <2>2
<1> QED
  BY <1>1

\* A line of an order names a product and a positive quantity.
LEMMA LineType ==
    ASSUME NEW o \in Orders, NEW i \in Lines(o)
    PROVE  /\ Len(ItemsOf[o]) \in Nat
           /\ ItemsOf[o][i].product \in Products
           /\ ItemsOf[o][i].product \in ProductsOf(o)
           /\ ItemsOf[o][i].quantity \in Nat \ {0}
<1>1. ItemsOf[o] \in Seq([product : Products, quantity : Nat \ {0}])
  BY ItemsAssumption
<1>2. ItemsOf[o][i] \in [product : Products, quantity : Nat \ {0}]
  BY <1>1, ElementOfSeq DEF Lines
<1> QED
  BY <1>1, <1>2 DEF ProductsOf

\* The number of lines of an order is a natural number.
LEMMA LenType == \A o \in Orders : Len(ItemsOf[o]) \in Nat
  BY ItemsAssumption

\* The line that FirstQuantity chooses is the only one that is first.
LEMMA FirstQuantityOfLine ==
    ASSUME NEW o \in Orders, NEW p, NEW i \in Lines(o), IsFirstLine(o, p, i)
    PROVE  FirstQuantity(o, p) = ItemsOf[o][i].quantity
<1> DEFINE k == CHOOSE j \in Lines(o) : IsFirstLine(o, p, j)
<1>1. k \in Lines(o) /\ IsFirstLine(o, p, k)
  OBVIOUS
<1>2. k = i
  <2>1. k \in Nat /\ i \in Nat
    BY <1>1, LenType DEF Lines
  <2>2. ~ (k < i) /\ ~ (i < k)
    BY <1>1 DEF IsFirstLine
  <2> QED
    BY <2>1, <2>2
<1> QED
  BY <1>2 DEF FirstQuantity

\* A product of an order is named by one of its lines.
LEMMA LineOfProduct ==
    ASSUME NEW o \in Orders, NEW p \in ProductsOf(o)
    PROVE  \E i \in Lines(o) : ItemsOf[o][i].product = p
  BY DEF ProductsOf

\* The products of an order are products.
LEMMA ProductsOfType ==
    ASSUME NEW o \in Orders PROVE ProductsOf(o) \subseteq Products
<1> SUFFICES ASSUME NEW p \in ProductsOf(o) PROVE p \in Products
  OBVIOUS
<1>1. PICK i \in Lines(o) : ItemsOf[o][i].product = p
  BY LineOfProduct
<1> QED
  BY <1>1, LineType

\* A product of an order has a first line, so its quantity is positive.
LEMMA FirstQuantityType ==
    ASSUME NEW o \in Orders, NEW p \in ProductsOf(o)
    PROVE  FirstQuantity(o, p) \in Nat \ {0}
<1> DEFINE S == {i \in Lines(o) : ItemsOf[o][i].product = p}
<1>1. S \subseteq Nat /\ S # {}
  BY LineOfProduct, LenType DEF Lines
<1> HIDE DEF S
<1>2. PICK i \in S : \A j \in S : i <= j
  BY <1>1, LeastElement
<1> USE DEF S
<1>3. i \in Lines(o) /\ IsFirstLine(o, p, i)
  <2>1. \A j \in Lines(o) : j \in Nat
    BY LenType DEF Lines
  <2> QED
    BY <1>2, <2>1 DEF IsFirstLine
<1> QED
  BY <1>3, FirstQuantityOfLine, LineType

-----------------------------------------------------------------------------
\* A function that is zero everywhere adds up to zero.
LEMMA SumOfZeros ==
    ASSUME NEW n \in Nat, NEW f, \A i \in 1 .. n : f[i] = 0
    PROVE  IsSum(n, f, 0)
<1> DEFINE total == [i \in 0 .. n |-> 0]
<1>1. total \in [0 .. n -> 0 .. 0]
  OBVIOUS
<1>2. total[0] = 0 /\ total[n] = 0
  OBVIOUS
<1>3. \A i \in 1 .. n : total[i] = total[i - 1] + f[i]
  OBVIOUS
<1> QED
  BY <1>1, <1>2, <1>3 DEF IsSum

\* A sum depends on the values of the function only.
LEMMA SumOfSame ==
    ASSUME NEW n \in Nat, NEW f, NEW g, NEW t,
           \A i \in 1 .. n : g[i] = f[i], IsSum(n, f, t)
    PROVE  IsSum(n, g, t)
  BY DEF IsSum

\* One value grows by q: so does the sum.
LEMMA SumGrows ==
    ASSUME NEW n \in Nat, NEW f, NEW g, NEW t \in Nat, NEW q \in Nat,
           NEW k \in 1 .. n, \A i \in 1 .. n : f[i] \in Nat,
           g[k] = f[k] + q, \A i \in 1 .. n : i # k => g[i] = f[i],
           IsSum(n, f, t)
    PROVE  IsSum(n, g, t + q)
<1>1. PICK total \in [0 .. n -> 0 .. t] :
         /\ total[0] = 0
         /\ total[n] = t
         /\ \A i \in 1 .. n : total[i] = total[i - 1] + f[i]
  BY DEF IsSum
<1> DEFINE new == [i \in 0 .. n |-> IF i < k THEN total[i] ELSE total[i] + q]
<1>2. new \in [0 .. n -> 0 .. t + q]
  BY <1>1
<1>3. new[0] = 0 /\ new[n] = t + q
  BY <1>1
<1>4. ASSUME NEW i \in 1 .. n PROVE new[i] = new[i - 1] + g[i]
  <2>1. /\ i \in 0 .. n /\ i - 1 \in 0 .. n
        /\ total[i] = total[i - 1] + f[i]
        /\ total[i - 1] \in Nat /\ f[i] \in Nat
    BY <1>1
  <2>2. CASE i < k
    BY <2>1, <2>2
  <2>3. CASE i = k
    BY <2>1, <2>3
  <2>4. CASE i > k
    BY <2>1, <2>4
  <2> QED
    BY <2>2, <2>3, <2>4
<1> QED
  BY <1>2, <1>3, <1>4 DEF IsSum

\* An order has one place in a listing.
LEMMA PlaceInListing ==
    ASSUME NEW n \in Nat, NEW list \in Listings(n), NEW o \in Orders
    PROVE  /\ \A i \in 1 .. n : list[i] \in Orders
           /\ \E k \in 1 .. n : /\ list[k] = o
                               /\ \A i \in 1 .. n : i # k => list[i] # o
  BY DEF Listings
=============================================================================
