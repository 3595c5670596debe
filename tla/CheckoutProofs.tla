--------------------------- MODULE CheckoutProofs ---------------------------
(***************************************************************************)
(* Proofs about ProductCache, for any readers and writers and any number   *)
(* of versions, and about Checkout, which contains it, for any clients.    *)
(***************************************************************************)
EXTENDS Checkout, TLAPS

(***************************************************************************)
(* The inductive invariant of the cache.  LastWritten: a product that      *)
(* exists is at the last version written, so it is never behind what a     *)
(* writer wrote, and one that does not exist has no category.              *)
(***************************************************************************)
LastWritten ==
    /\ row # None => row = versions
    /\ category = "used" => row # None
    /\ \A w \in Writers : writer[w].wrote <= versions

IndInv ==
    /\ TypeOK
    /\ LastWritten
    /\ StaleHasCause
    /\ ReadYourWrite

-----------------------------------------------------------------------------
\* The values of every variable stay in their types.
LEMMA TypePreserved == TypeOK /\ [Next]_vars => TypeOK'
<1> SUFFICES ASSUME TypeOK, [Next]_vars PROVE TypeOK'
  OBVIOUS
<1> USE MaxVersionAssumption DEF TypeOK, Versions, None, ReaderType, ReaderSteps,
        WriterType, WriterSteps, CategoryStates, table
<1>1. ASSUME NEW r \in Readers, GetHits(r) PROVE TypeOK'
  BY <1>1 DEF GetHits, Read
<1>2. ASSUME NEW r \in Readers, GetMisses(r) PROVE TypeOK'
  BY <1>2 DEF GetMisses, Read
<1>3. ASSUME NEW r \in Readers, Find(r) PROVE TypeOK'
  BY <1>3 DEF Find, Read
<1>4. ASSUME NEW r \in Readers, GetFails(r) PROVE TypeOK'
  BY <1>4 DEF GetFails, Read
<1>5. ASSUME NEW r \in Readers, Set(r) PROVE TypeOK'
  BY <1>5 DEF Set, Read
<1>6. ASSUME NEW r \in Readers, SetFails(r) PROVE TypeOK'
  BY <1>6 DEF SetFails, Read
<1>7. CASE Create \/ CreateCategory \/ DeleteCategory
  <2>1. CASE Create
    BY <2>1 DEF Create, WriteRow
  <2>2. CASE CreateCategory
    BY <2>2 DEF CreateCategory
  <2>3. CASE DeleteCategory /\ category = "used"
    <3>1. row' \in Versions /\ versions' \in Versions
      BY <2>3 DEF DeleteCategory
    <3>2. causes' \in {causes, causes \cup {"category"}}
      BY <2>3 DEF DeleteCategory
    <3> QED
      BY <2>3, <3>1, <3>2 DEF DeleteCategory
  <2>4. CASE DeleteCategory /\ category # "used"
    BY <2>4 DEF DeleteCategory
  <2> QED
    BY <1>7, <2>1, <2>2, <2>3, <2>4
<1>8. ASSUME NEW w \in Writers, Update(w) PROVE TypeOK'
  BY <1>8 DEF Update, WriteRow, Written
<1>9. ASSUME NEW w \in Writers, Delete(w) PROVE TypeOK'
  BY <1>9 DEF Delete, DeleteRow, Written
<1>10. ASSUME NEW w \in Writers, AnswerLost(w) PROVE TypeOK'
  BY <1>10 DEF AnswerLost, WriteRow, DeleteRow, Written
<1>11. ASSUME NEW w \in Writers, Invalidate(w) PROVE TypeOK'
  BY <1>11 DEF Invalidate, AfterInvalidation
<1>12. ASSUME NEW w \in Writers, InvalidateFails(w) PROVE TypeOK'
  BY <1>12 DEF InvalidateFails, AfterInvalidation
<1>13. ASSUME NEW w \in Writers, Reply(w) \/ ReplyFails(w) PROVE TypeOK'
  <2>1. PICK answer \in Versions \cup {None} : Replied(w, answer)
    BY <1>13 DEF Reply, ReplyFails
  <2>2. writer' \in [Writers -> WriterType]
    BY <2>1 DEF Replied
  <2> QED
    BY <1>13, <2>2 DEF Reply, ReplyFails
<1>14. CASE Expire
  BY <1>14 DEF Expire
<1>15. CASE UNCHANGED vars
  BY <1>15 DEF vars
<1> QED
  BY <1>1, <1>2, <1>3, <1>4, <1>5, <1>6, <1>7, <1>8, <1>9, <1>10, <1>11,
     <1>12, <1>13, <1>14, <1>15 DEF Next, ReadReturns, Administer

-----------------------------------------------------------------------------
\* A step that writes nothing to the database leaves the versions in order.
LEMMA NothingWritten ==
    ASSUME TypeOK, LastWritten, UNCHANGED table,
           \A w \in Writers : writer'[w].wrote \in {writer[w].wrote, None}
    PROVE  LastWritten'
BY DEF LastWritten, TypeOK, Versions, WriterType, None, table

\* The database's versions and what the writers know of them.
LEMMA LastWrittenPreserved ==
    TypeOK /\ LastWritten /\ [Next]_vars => LastWritten'
<1> SUFFICES ASSUME TypeOK, LastWritten, [Next]_vars PROVE LastWritten'
  OBVIOUS
<1>1. ASSUME NEW r \in Readers,
             GetHits(r) \/ GetMisses(r) \/ Find(r) \/ GetFails(r) \/ Set(r) \/ SetFails(r)
      PROVE  UNCHANGED <<table, writer>>
  BY <1>1 DEF GetHits, GetMisses, Find, GetFails, Set, SetFails, table
<1>2. CASE Create \/ CreateCategory \/ DeleteCategory
  BY <1>2 DEF Create, CreateCategory, DeleteCategory, WriteRow, LastWritten, TypeOK,
         Versions, WriterType, None
<1>3. ASSUME NEW w \in Writers, Update(w) PROVE LastWritten'
  BY <1>3 DEF Update, WriteRow, Written, LastWritten, TypeOK, Versions, WriterType, None
<1>4. ASSUME NEW w \in Writers, Delete(w) PROVE LastWritten'
  BY <1>4 DEF Delete, DeleteRow, Written, LastWritten, TypeOK, Versions, WriterType, None
<1>5. ASSUME NEW w \in Writers, AnswerLost(w) PROVE LastWritten'
  BY <1>5 DEF AnswerLost, WriteRow, DeleteRow, Written, LastWritten, TypeOK, Versions,
         WriterType, None
<1>6. ASSUME NEW w \in Writers,
             Invalidate(w) \/ InvalidateFails(w) \/ Reply(w) \/ ReplyFails(w)
      PROVE  LastWritten'
  <2>1. \A v \in Writers : writer'[v].wrote = writer[v].wrote
    BY <1>6 DEF Invalidate, InvalidateFails, Reply, ReplyFails, AfterInvalidation,
           Replied, TypeOK, WriterType
  <2> QED
    BY <1>6, <2>1, NothingWritten DEF Invalidate, InvalidateFails, Reply, ReplyFails, table
<1>7. CASE UNCHANGED <<table, writer>>
  BY <1>7, NothingWritten
<1> QED
  BY <1>1, <1>2, <1>3, <1>4, <1>5, <1>6, <1>7
     DEF Next, ReadReturns, Administer, Expire, vars, table

(***************************************************************************)
(* A step that changes neither row nor cache keeps StaleHasCause, if it    *)
(* forgets no cause and takes no writer from before its invalidation.      *)
(***************************************************************************)
LEMMA CacheUndisturbed ==
    ASSUME StaleHasCause, UNCHANGED <<row, cache>>, causes \subseteq causes',
           \A w \in Writers :
              writer[w].at = "invalidate" => writer'[w].at = "invalidate"
    PROVE  StaleHasCause'
BY DEF StaleHasCause, MayBeStale, UpToDate

\* What makes the cache stale leaves a cause.
LEMMA StaleHasCausePreserved ==
    TypeOK /\ LastWritten /\ StaleHasCause /\ [Next]_vars => StaleHasCause'
<1> SUFFICES ASSUME TypeOK, LastWritten, StaleHasCause, [Next]_vars PROVE StaleHasCause'
  OBVIOUS
<1>1. ASSUME NEW r \in Readers,
             GetHits(r) \/ GetMisses(r) \/ Find(r) \/ GetFails(r) \/ SetFails(r)
      PROVE  StaleHasCause'
  BY <1>1, CacheUndisturbed DEF GetHits, GetMisses, Find, GetFails, SetFails, table
<1>2. ASSUME NEW r \in Readers, Set(r) PROVE StaleHasCause'
  BY <1>2 DEF Set, StaleHasCause, MayBeStale, UpToDate, table
<1>3. ASSUME NEW w \in Writers, Update(w) \/ Delete(w) PROVE StaleHasCause'
  <2>1. writer'[w].at = "invalidate"
    BY <1>3 DEF Update, Delete, Written, TypeOK
  <2> QED
    BY <2>1 DEF StaleHasCause, MayBeStale
<1>4. ASSUME NEW w \in Writers, AnswerLost(w) PROVE StaleHasCause'
  BY <1>4 DEF AnswerLost, StaleHasCause, MayBeStale, UpToDate
<1>5. ASSUME NEW w \in Writers, Invalidate(w) PROVE StaleHasCause'
  BY <1>5 DEF Invalidate, StaleHasCause, UpToDate
<1>6. ASSUME NEW w \in Writers, InvalidateFails(w) PROVE StaleHasCause'
  BY <1>6 DEF InvalidateFails, StaleHasCause, MayBeStale, UpToDate, table
<1>7. ASSUME NEW w \in Writers, Reply(w) \/ ReplyFails(w)
      PROVE  StaleHasCause'
  <2>1. \A v \in Writers : writer[v].at = "invalidate" => writer'[v] = writer[v]
    BY <1>7 DEF Reply, ReplyFails, Replied, TypeOK
  <2> QED
    BY <1>7, <2>1, CacheUndisturbed DEF Reply, ReplyFails, table
<1>8. CASE Expire
  BY <1>8 DEF Expire, StaleHasCause, UpToDate
<1>9. CASE UNCHANGED vars
  BY <1>9, CacheUndisturbed DEF vars
<1>10. CASE Create
  <2>1. row = None
    BY <1>10 DEF Create, LastWritten, None
  <2> QED
    BY <1>10, <2>1 DEF Create, StaleHasCause, MayBeStale, UpToDate
<1>11. CASE CreateCategory
  BY <1>11, CacheUndisturbed DEF CreateCategory
<1>12. CASE DeleteCategory
  BY <1>12 DEF DeleteCategory, StaleHasCause, MayBeStale, UpToDate
<1> QED
  BY <1>1, <1>2, <1>3, <1>4, <1>5, <1>6, <1>7, <1>8, <1>9, <1>10, <1>11, <1>12
     DEF Next, ReadReturns, Administer

-----------------------------------------------------------------------------
\* Every answer of an Update is what the database held at that time.
LEMMA ReadYourWritePreserved ==
    TypeOK /\ LastWritten /\ ReadYourWrite /\ [Next]_vars => ReadYourWrite'
<1> SUFFICES ASSUME TypeOK, LastWritten, ReadYourWrite, [Next]_vars
             PROVE  ReadYourWrite'
  OBVIOUS
<1>1. ASSUME NEW r \in Readers,
             GetHits(r) \/ GetMisses(r) \/ Find(r) \/ GetFails(r) \/ Set(r) \/ SetFails(r)
      PROVE  UNCHANGED writer
  BY <1>1 DEF GetHits, GetMisses, Find, GetFails, Set, SetFails
<1>2. ASSUME NEW w \in Writers,
             Update(w) \/ Delete(w) \/ AnswerLost(w)
      PROVE  ReadYourWrite'
  <2>1. /\ writer'[w].answer = None
        /\ \A v \in Writers \ {w} : writer'[v] = writer[v]
    BY <1>2 DEF Update, Delete, AnswerLost, Written, TypeOK
  <2> QED
    BY <2>1 DEF ReadYourWrite
<1>3. ASSUME NEW w \in Writers, Invalidate(w) \/ InvalidateFails(w)
      PROVE  ReadYourWrite'
  <2>1. \A v \in Writers : /\ writer'[v].wrote = writer[v].wrote
                            /\ writer'[v].answer = writer[v].answer
    BY <1>3 DEF Invalidate, InvalidateFails, AfterInvalidation, TypeOK, WriterType
  <2> QED
    BY <2>1 DEF ReadYourWrite
<1>4. ASSUME NEW w \in Writers, Reply(w) PROVE ReadYourWrite'
  <2>1. /\ writer'[w].answer = row
        /\ writer'[w].wrote = writer[w].wrote
        /\ \A v \in Writers \ {w} : writer'[v] = writer[v]
    BY <1>4 DEF Reply, Replied, TypeOK, WriterType
  <2>2. row >= writer[w].wrote
    BY <1>4 DEF Reply, LastWritten, TypeOK, Versions, WriterType, None
  <2> QED
    BY <2>1, <2>2 DEF ReadYourWrite
<1>5. ASSUME NEW w \in Writers, ReplyFails(w) PROVE ReadYourWrite'
  <2>1. /\ writer'[w].answer = None
        /\ \A v \in Writers \ {w} : writer'[v] = writer[v]
    BY <1>5 DEF ReplyFails, Replied, TypeOK, WriterType
  <2> QED
    BY <2>1 DEF ReadYourWrite
<1>6. CASE UNCHANGED writer
  BY <1>6 DEF ReadYourWrite
<1> QED
  BY <1>1, <1>2, <1>3, <1>4, <1>5, <1>6
     DEF Next, ReadReturns, Administer, Create, CreateCategory, DeleteCategory, Expire, vars

-----------------------------------------------------------------------------
(***************************************************************************)
(* IndInv holds in every reachable state.                                  *)
(***************************************************************************)
THEOREM InductiveInvariant == Spec => []IndInv
<1>1. Init => IndInv
  BY MaxVersionAssumption
     DEF Init, IndInv, TypeOK, LastWritten, StaleHasCause, UpToDate, ReadYourWrite,
         Versions, None, ReaderType, ReaderSteps, WriterType, WriterSteps, CategoryStates
<1>2. IndInv /\ [Next]_vars => IndInv'
  BY TypePreserved, LastWrittenPreserved, StaleHasCausePreserved,
     ReadYourWritePreserved DEF IndInv
<1> QED
  BY <1>1, <1>2, PTL DEF Spec

(***************************************************************************)
(* Versions are never lost count of, and only a product that was found is  *)
(* stored in the cache.                                                    *)
(***************************************************************************)
THEOREM TypeCorrect == Spec => []TypeOK
<1>1. IndInv => TypeOK
  BY DEF IndInv
<1> QED
  BY <1>1, InductiveInvariant, PTL

(***************************************************************************)
(* Whatever is cached out of date is so for one of the causes named,       *)
(* however many reads and writes overlap.                                  *)
(***************************************************************************)
THEOREM StaleOnlyWithCause == Spec => []StaleHasCause
<1>1. IndInv => StaleHasCause
  BY DEF IndInv
<1> QED
  BY <1>1, InductiveInvariant, PTL

(***************************************************************************)
(* The answer of an Update is never older than what it wrote.              *)
(***************************************************************************)
THEOREM ReadsOwnWrite == Spec => []ReadYourWrite
<1>1. IndInv => ReadYourWrite
  BY DEF IndInv
<1> QED
  BY <1>1, InductiveInvariant, PTL
-----------------------------------------------------------------------------
(***************************************************************************)
(* Checkout contains the cache: seen through the product's variables, a    *)
(* step of it is one of ProductCache or none.                              *)
(***************************************************************************)
LEMMA CacheStep == CheckoutNext => [Next]_vars
<1> SUFFICES ASSUME CheckoutNext PROVE [Next]_vars
  OBVIOUS
<1> USE DEF cacheVars
<1>1. ASSUME NEW c \in Clients, UserStep(c) \/ TokenExpires(c) PROVE [Next]_vars
  BY <1>1 DEF UserStep, TokenExpires
<1>2. CASE ProductStep
  BY <1>2 DEF ProductStep, Next
<1>3. ASSUME NEW b \in Buyers, GetProduct(b) PROVE [Next]_vars
  BY <1>3, CheckoutAssumption DEF GetProduct, Next
<1>4. ASSUME NEW b \in Buyers,
             \/ Submit(b) \/ Enter(b) \/ GetUser(b) \/ AddItem(b) \/ Refuse(b)
             \/ StoreOrder(b) \/ StoreUnanswered(b) \/ Announce(b)
             \/ AnnounceFails(b) \/ Answer(b) \/ AnswerBadGateway(b)
      PROVE  [Next]_vars
  BY <1>4 DEF Submit, Enter, GetUser, AddItem, Refuse, StoreOrder, StoreUnanswered,
         Announce, AnnounceFails, Answer, AnswerBadGateway
<1> QED
  BY <1>1, <1>2, <1>3, <1>4 DEF CheckoutNext

(***************************************************************************)
(* Whatever is true of the cache alone is true of it in the shop: Checkout *)
(* implements ProductCache.                                                *)
(***************************************************************************)
LEMMA ImplementsCache == CheckoutSpec => Spec
<1>1. CheckoutInit => Init
  BY DEF CheckoutInit
<1>2. [CheckoutNext]_checkoutVars => [Next]_vars
  BY CacheStep DEF checkoutVars
<1> QED
  BY <1>1, <1>2, PTL DEF CheckoutSpec, Spec

-----------------------------------------------------------------------------
\* What is offered only becomes newer.
LEMMA OfferedGrows ==
    TypeOK /\ LastWritten /\ [Next]_vars => Offered' >= Offered
<1> SUFFICES ASSUME TypeOK, LastWritten, [Next]_vars PROVE Offered' >= Offered
  OBVIOUS
<1>1. CASE UNCHANGED table
  BY <1>1 DEF table, Offered, TypeOK, Versions, None
<1>2. /\ row \in Nat /\ versions \in Nat
      /\ row # None => row = versions
      /\ category = "used" => row # None
  BY MaxVersionAssumption DEF TypeOK, LastWritten, Versions, None
<1>3. CASE WriteRow
  BY <1>2, <1>3 DEF WriteRow, Offered, None
<1>4. CASE row # None /\ DeleteRow
  BY <1>2, <1>4 DEF DeleteRow, Offered, None
<1>5. CASE DeleteCategory
  BY <1>2, <1>5 DEF DeleteCategory, Offered, None
<1>6. CASE CreateCategory
  BY <1>2, <1>6 DEF CreateCategory, Offered, None
<1>7. ASSUME NEW r \in Readers, GetHits(r) \/ GetMisses(r) \/ ReadReturns(r)
      PROVE  UNCHANGED table
  BY <1>7 DEF GetHits, GetMisses, ReadReturns, Find, GetFails, Set, SetFails
<1>8. ASSUME NEW w \in Writers, Invalidate(w) \/ InvalidateFails(w) \/ Reply(w) \/ ReplyFails(w)
      PROVE  UNCHANGED table
  BY <1>8 DEF Invalidate, InvalidateFails, Reply, ReplyFails
<1>9. ASSUME NEW w \in Writers, Update(w) \/ Delete(w) \/ AnswerLost(w)
      PROVE  WriteRow \/ (row # None /\ DeleteRow)
  BY <1>9 DEF Update, Delete, AnswerLost
<1>10. CASE Expire \/ UNCHANGED vars
  BY <1>1, <1>10 DEF Expire, vars, table
<1> QED
  BY <1>1, <1>3, <1>4, <1>5, <1>6, <1>7, <1>8, <1>9, <1>10 DEF Next, Administer, Create

-----------------------------------------------------------------------------
(***************************************************************************)
(* Accounts: types, and one account per address.                           *)
(***************************************************************************)
AccountStep(c) ==
    \/ Users!Register(c)
    \/ Users!RegisterUnanswered(c)
    \/ Users!Login(c)
    \/ Users!TokenExpires(c)
    \/ Users!UpdateProfile(c)

\* A row that Register inserts.
LEMMA Inserted ==
    ASSUME Users!TypeOK, NEW c \in Clients, Users!Insert(Users!Address(c), c)
    PROVE  /\ users' \in Seq(Users!UserType)
           /\ Len(users') = Len(users) + 1
           /\ Len(users') \in Users!Ids
           /\ DOMAIN users' = DOMAIN users \cup {Len(users')}
           /\ Len(users') \notin DOMAIN users
           /\ \A i \in DOMAIN users : users'[i] = users[i]
           /\ users'[Len(users')].email = Users!Address(c)
           /\ users'[Len(users')].password = Password[c]
           /\ users'[Len(users')].role = "CUSTOMER"
<1>1. PICK name \in Names :
         users' = Append(users, [email |-> Users!Address(c), password |-> Password[c],
                                 name |-> name, role |-> "CUSTOMER"])
  BY DEF Users!Insert
<1> DEFINE new == [email |-> Users!Address(c), password |-> Password[c],
                   name |-> name, role |-> "CUSTOMER"]
<1>2. new \in Users!UserType
  BY CheckoutAssumption
     DEF Users!ConstantsOK, Users!UserType, Users!Address, Users!Roles
<1>3. new.email = Users!Address(c) /\ new.password = Password[c] /\ new.role = "CUSTOMER"
  OBVIOUS
<1>4. users' = Append(users, new)
  BY <1>1
<1>5. users \in Seq(Users!UserType) /\ Len(users) \in Nat /\ Len(users) < MaxUsers
  BY DEF Users!TypeOK, Users!Insert
<1> HIDE DEF new
<1>6. /\ users' \in Seq(Users!UserType)
      /\ Len(users') = Len(users) + 1
      /\ \A i \in DOMAIN users : users'[i] = users[i]
      /\ users'[Len(users')] = new
  BY <1>2, <1>4, <1>5
<1>7. Len(users') \in Users!Ids
  BY <1>5, <1>6, CheckoutAssumption DEF Users!ConstantsOK, Users!Ids
<1>8. DOMAIN users = 1 .. Len(users) /\ DOMAIN users' = 1 .. Len(users')
  BY <1>5, <1>6
<1>9. DOMAIN users' = DOMAIN users \cup {Len(users')} /\ Len(users') \notin DOMAIN users
  BY <1>5, <1>6, <1>8
<1> QED
  BY <1>3, <1>6, <1>7, <1>9

\* A row that UpdateProfile renames.
LEMMA Renamed ==
    ASSUME Users!TypeOK, NEW c \in Clients, Users!UpdateProfile(c)
    PROVE  /\ users' \in Seq(Users!UserType)
           /\ Len(users') = Len(users)
           /\ \A i \in DOMAIN users : /\ users'[i].email = users[i].email
                                      /\ users'[i].password = users[i].password
                                      /\ users'[i].role = users[i].role
<1>1. PICK i \in DOMAIN users, name \in Names : users' = [users EXCEPT ![i].name = name]
  BY DEF Users!UpdateProfile
<1>2. users \in [1 .. Len(users) -> Users!UserType] /\ Len(users) \in Nat
  BY DEF Users!TypeOK
<1>3. users' \in [1 .. Len(users) -> Users!UserType]
  BY <1>1, <1>2 DEF Users!UserType
<1>4. \A j \in DOMAIN users : /\ users'[j].email = users[j].email
                              /\ users'[j].password = users[j].password
                              /\ users'[j].role = users[j].role
  BY <1>1, <1>2 DEF Users!UserType
<1>5. users' \in Seq(Users!UserType) /\ Len(users') = Len(users)
  BY <1>2, <1>3
<1> QED
  BY <1>4, <1>5

\* Accounts are only added, and keep their address, password and role.
AccountsKept ==
    /\ Len(users) <= Len(users')
    /\ \A i \in DOMAIN users : /\ users'[i].email = users[i].email
                               /\ users'[i].password = users[i].password
                               /\ users'[i].role = users[i].role

LEMMA AccountsTyped ==
    ASSUME Users!TypeOK, NEW c \in Clients, AccountStep(c)
    PROVE  Users!TypeOK' /\ AccountsKept
<1>1. Len(users) \in Users!Ids /\ Len(users) \in Nat
  BY DEF Users!TypeOK
<1>2. CASE Users!Register(c)
  <2>1. Users!Insert(Users!Address(c), c) /\ UNCHANGED token
    BY <1>2 DEF Users!Register
  <2>2. promised' = [promised EXCEPT ![c] = Len(users')]
    BY <1>2 DEF Users!Register
  <2> QED
    BY <1>1, <2>1, <2>2, Inserted DEF Users!TypeOK, AccountsKept
<1>3. CASE Users!RegisterUnanswered(c)
  <2>1. Users!Insert(Users!Address(c), c) /\ UNCHANGED <<promised, token>>
    BY <1>3 DEF Users!RegisterUnanswered
  <2> QED
    BY <1>1, <2>1, Inserted DEF Users!TypeOK, AccountsKept
<1>4. CASE Users!Login(c)
  <2>1. PICK i \in Users!CredentialsOf(c) : token' = [token EXCEPT ![c] = Users!Claims(i)]
    BY <1>4 DEF Users!Login
  <2>2. i \in DOMAIN users /\ i \in Users!Ids
    BY <1>1, CheckoutAssumption
       DEF Users!CredentialsOf, Users!FindByEmail, Users!Ids, Users!TypeOK, Users!ConstantsOK
  <2>3. users[i] \in Users!UserType
    BY <2>2 DEF Users!TypeOK
  <2>4. users[i].role \in Users!Roles
    BY <2>3 DEF Users!UserType
  <2>5. Users!Claims(i) \in [id : Users!Ids, role : Users!Roles]
    BY <2>2, <2>4 DEF Users!Claims
  <2>6. UNCHANGED <<users, promised>>
    BY <1>4 DEF Users!Login
  <2> QED
    BY <1>1, <2>1, <2>5, <2>6 DEF Users!TypeOK, AccountsKept
<1>5. CASE Users!TokenExpires(c)
  BY <1>1, <1>5 DEF Users!TokenExpires, Users!TypeOK, AccountsKept
<1>6. CASE Users!UpdateProfile(c)
  <2>1. UNCHANGED <<promised, token>>
    BY <1>6 DEF Users!UpdateProfile
  <2> QED
    BY <1>1, <1>6, <2>1, Renamed DEF Users!TypeOK, AccountsKept
<1> QED
  BY <1>2, <1>3, <1>4, <1>5, <1>6 DEF AccountStep

UniqueEmails == \A i, j \in DOMAIN users : users[i].email = users[j].email => i = j

\* The table of accounts grows by an address that it has not, if at all.
LEMMA EmailsUnique ==
    ASSUME Users!TypeOK, UniqueEmails, NEW c \in Clients, AccountStep(c)
    PROVE  UniqueEmails'
<1>1. /\ users \in Seq(Users!UserType) /\ Len(users) \in Nat
      /\ DOMAIN users = 1 .. Len(users)
  BY DEF Users!TypeOK
<1>2. CASE Users!Insert(Users!Address(c), c)
  <2>1. DOMAIN users' = DOMAIN users \cup {Len(users')}
    BY <1>2, Inserted
  <2>2. \A i \in DOMAIN users : users[i].email # Users!Address(c)
    BY <1>2 DEF Users!Insert, Users!FindByEmail
  <2> QED
    BY <1>2, <2>1, <2>2, Inserted DEF UniqueEmails
<1>3. CASE Users!UpdateProfile(c)
  <2>1. DOMAIN users' = DOMAIN users
    BY <1>1, <1>3, Renamed
  <2> QED
    BY <1>3, <2>1, Renamed DEF UniqueEmails
<1>4. CASE UNCHANGED users
  BY <1>4 DEF UniqueEmails
<1> QED
  BY <1>2, <1>3, <1>4 DEF AccountStep, Users!Register, Users!RegisterUnanswered,
     Users!Login, Users!TokenExpires

\* An account that opens to a client goes on to do so, and no other one does.
LEMMA CredentialsKept ==
    ASSUME Users!TypeOK, NEW d \in Clients, AccountStep(d),
           NEW c \in Clients, NEW i, Users!CredentialsOf(c) = {i}
    PROVE  Users!CredentialsOf(c)' = {i}
<1>1. /\ users \in Seq(Users!UserType) /\ Len(users) \in Nat
      /\ DOMAIN users = 1 .. Len(users)
  BY DEF Users!TypeOK
<1>2. CASE Users!Insert(Users!Address(d), d)
  <2>1. DOMAIN users' = DOMAIN users \cup {Len(users')} /\ Len(users') \notin DOMAIN users
    BY <1>2, Inserted
  <2>2. i \in DOMAIN users /\ users[i].email = Users!Address(c)
    BY DEF Users!CredentialsOf, Users!FindByEmail
  <2>3. Users!Address(d) # Users!Address(c)
    BY <1>2, <2>2 DEF Users!Insert, Users!FindByEmail
  <2>4. Users!Address(c)' = Users!Address(c)
    BY DEF Users!Address
  <2> QED
    BY <1>2, <2>1, <2>2, <2>3, <2>4, Inserted DEF Users!CredentialsOf, Users!FindByEmail
<1>3. CASE Users!UpdateProfile(d)
  <2>1. DOMAIN users' = DOMAIN users
    BY <1>1, <1>3, Renamed
  <2> QED
    BY <1>3, <2>1, Renamed DEF Users!CredentialsOf, Users!FindByEmail, Users!Address
<1>4. CASE UNCHANGED users
  BY <1>4 DEF Users!CredentialsOf, Users!FindByEmail, Users!Address
<1> QED
  BY <1>2, <1>3, <1>4 DEF AccountStep, Users!Register, Users!RegisterUnanswered,
     Users!Login, Users!TokenExpires

\* With one account per address, credentials open at most one.
LEMMA OneAccount ==
    ASSUME UniqueEmails, NEW c \in Clients, NEW i \in Users!CredentialsOf(c)
    PROVE  Users!CredentialsOf(c) = {i}
BY DEF UniqueEmails, Users!CredentialsOf, Users!FindByEmail

\* The account that a client registers opens to it.
LEMMA RegisteredOpens ==
    ASSUME Users!TypeOK, NEW c \in Clients, Users!Insert(Users!Address(c), c)
    PROVE  Users!CredentialsOf(c)' = {Len(users')}
<1>1. DOMAIN users' = DOMAIN users \cup {Len(users')}
  BY Inserted
<1>2. \A i \in DOMAIN users : users'[i].email # Users!Address(c)
  BY Inserted DEF Users!Insert, Users!FindByEmail
<1>3. /\ users'[Len(users')].email = Users!Address(c)
      /\ users'[Len(users')].password = Password[c]
  BY Inserted
<1>4. Users!Address(c)' = Users!Address(c)
  BY DEF Users!Address
<1> QED
  BY <1>1, <1>2, <1>3, <1>4 DEF Users!CredentialsOf, Users!FindByEmail

\* What a client was promised.
LEMMA PromiseKept ==
    ASSUME Users!TypeOK, Users!RegistrationHonoured, NEW d \in Clients, AccountStep(d),
           NEW c \in Clients, promised'[c] # Users!NoId
    PROVE  Users!CredentialsOf(c)' = {promised'[c]}
<1>1. CASE promised'[c] = promised[c]
  BY <1>1, CredentialsKept DEF Users!RegistrationHonoured
<1>2. CASE Users!Register(d)
  <2>1. promised' = [promised EXCEPT ![d] = Len(users')]
    BY <1>2 DEF Users!Register
  <2>2. CASE c = d
    <3>1. Users!CredentialsOf(c)' = {Len(users')}
      BY <1>2, <2>2, RegisteredOpens DEF Users!Register
    <3>2. promised'[c] = Len(users')
      BY <2>1, <2>2 DEF Users!TypeOK
    <3> QED
      BY <3>1, <3>2
  <2> QED
    BY <1>1, <2>1, <2>2 DEF Users!TypeOK
<1>3. CASE UNCHANGED promised
  BY <1>1, <1>3
<1> QED
  BY <1>2, <1>3 DEF AccountStep, Users!RegisterUnanswered, Users!Login,
     Users!TokenExpires, Users!UpdateProfile

\* What a token says.
LEMMA TokenTrue ==
    ASSUME Users!TypeOK, UniqueEmails, Users!RegistrationHonoured,
           NEW d \in Clients, AccountStep(d), NEW c \in Clients, Users!Authorized(c)'
    PROVE  /\ Users!CredentialsOf(c)' = {token'[c].id}
           /\ token'[c] = Users!Claims(token[c].id)'
<1>1. CASE token'[c] = token[c]
  <2>1. /\ Users!CredentialsOf(c) = {token[c].id}
        /\ token[c] = Users!Claims(token[c].id)
    BY <1>1 DEF Users!RegistrationHonoured, Users!Authorized
  <2>2. token[c].id \in DOMAIN users
    BY <2>1 DEF Users!CredentialsOf, Users!FindByEmail
  <2>3. users'[token[c].id].role = users[token[c].id].role
    BY <2>2, AccountsTyped DEF AccountsKept
  <2>4. Users!CredentialsOf(c)' = {token[c].id}
    BY <2>1, CredentialsKept
  <2> QED
    BY <1>1, <2>1, <2>3, <2>4 DEF Users!Claims
<1>2. CASE Users!Login(d) /\ c = d
  <2>1. PICK i \in Users!CredentialsOf(d) : token' = [token EXCEPT ![d] = Users!Claims(i)]
    BY <1>2 DEF Users!Login
  <2>2. token'[c] = Users!Claims(i) /\ token'[c].id = i
    BY <1>2, <2>1 DEF Users!Claims, Users!TypeOK
  <2>3. Users!CredentialsOf(c)' = {i} /\ Users!Claims(i)' = Users!Claims(i)
    BY <1>2, OneAccount, <2>1
       DEF Users!Login, Users!Claims, Users!CredentialsOf, Users!FindByEmail, Users!Address
  <2> QED
    BY <2>2, <2>3
<1>3. CASE Users!Login(d) /\ c # d
  BY <1>1, <1>3 DEF Users!Login, Users!TypeOK
<1>4. CASE Users!TokenExpires(d)
  BY <1>1, <1>4 DEF Users!TokenExpires, Users!TypeOK, Users!Authorized
<1>5. CASE UNCHANGED token
  BY <1>1, <1>5
<1> QED
  BY <1>2, <1>3, <1>4, <1>5 DEF AccountStep, Users!Register, Users!RegisterUnanswered,
     Users!UpdateProfile

(***************************************************************************)
(* The inductive invariant of the accounts.                                *)
(***************************************************************************)
AccountsInv ==
    /\ Users!TypeOK
    /\ UniqueEmails
    /\ Users!RegistrationHonoured

\* Nobody's account is touched by a step of the other parts.
LEMMA AccountsUnchanged ==
    ASSUME AccountsInv, UNCHANGED userVars PROVE AccountsInv'
BY DEF AccountsInv, userVars, UniqueEmails, Users!TypeOK, Users!RegistrationHonoured,
       Users!CredentialsOf, Users!FindByEmail, Users!Address, Users!Authorized, Users!Claims

\* At first there is the administrator's account.
LEMMA AccountsInit == ASSUME CheckoutInit PROVE AccountsInv
<1>1. users = <<Admin>> /\ promised = [c \in Clients |-> Users!NoId]
      /\ token = [c \in Clients |-> Users!NoToken]
  BY DEF CheckoutInit, Users!Init
<1>2. users \in Seq(Users!UserType) /\ Len(users) = 1
  BY <1>1, CheckoutAssumption DEF Users!ConstantsOK
<1>3. 1 \in Users!Ids
  BY CheckoutAssumption DEF Users!ConstantsOK, Users!Ids
<1>4. Users!TypeOK
  BY <1>1, <1>2, <1>3 DEF Users!TypeOK
<1>5. UniqueEmails
  BY <1>2 DEF UniqueEmails
<1>6. Users!RegistrationHonoured
  BY <1>1 DEF Users!RegistrationHonoured, Users!Authorized
<1> QED
  BY <1>4, <1>5, <1>6 DEF AccountsInv

-----------------------------------------------------------------------------
(***************************************************************************)
(* The inductive invariant of requests and orders: how far a request is    *)
(* tells what it has of the user, the lines, the order and the event.      *)
(***************************************************************************)
InOrder(b) ==
    /\ buyer[b].user # Users!NoId => Users!CredentialsOf(b) = {buyer[b].user}
    /\ buyer[b].at \notin {"idle", "service"} => buyer[b].user # Users!NoId
    /\ buyer[b].at \in {"service", "user", "product", "price"} =>
          Len(buyer[b].items) < buyer[b].lines
    /\ buyer[b].at \notin {"service", "user", "product", "price"} =>
          Len(buyer[b].items) = buyer[b].lines
    /\ buyer[b].at = "store" => buyer[b].lines > 0
    /\ buyer[b].at # "idle" => buyer[b].response = "none"
    /\ (buyer[b].at \in {"publish", "answer"} \/ buyer[b].response = "created") =>
          /\ buyer[b].order \in DOMAIN orders
          /\ orders[buyer[b].order].by = b
    /\ (buyer[b].at = "answer" \/ buyer[b].response = "created") =>
          buyer[b].order \in announced

\* The product service has found the product for the buyer's line.
Found(b) == buyer[b].at = "price" /\ reader[b].at # "find" /\ reader[b].val # None

PricesOf(b) ==
    /\ buyer[b].oldest <= Offered
    /\ \A k \in DOMAIN buyer[b].items : buyer[b].items[k] >= buyer[b].oldest
    /\ Found(b) => reader[b].val >= buyer[b].oldest

\* What holds of every order stored.
OrderComplete(i) ==
    /\ Len(orders[i].items) = orders[i].lines
    /\ Users!CredentialsOf(orders[i].by) = {orders[i].user}
    /\ \A k \in DOMAIN orders[i].items : orders[i].items[k] >= orders[i].oldest

Unanswered(i) == \E b \in Buyers : buyer[b].at = "publish" /\ buyer[b].order = i

OrdersInv ==
    /\ orders \in Seq(OrderType)
    /\ announced \cup lost \subseteq DOMAIN orders
    /\ \A i \in DOMAIN orders : OrderComplete(i)
    /\ \A i \in DOMAIN orders \ (announced \cup lost) : Unanswered(i)

RequestsInv ==
    /\ buyer \in [Buyers -> BuyerType]
    /\ \A b \in Buyers : InOrder(b) /\ PricesOf(b)

CheckoutInv == IndInv /\ AccountsInv /\ RequestsInv /\ OrdersInv

-----------------------------------------------------------------------------
\* The orders that there are stay, and the events in the topic.
OrdersKept ==
    /\ Len(orders) <= Len(orders')
    /\ \A i \in DOMAIN orders : orders'[i] = orders[i]
    /\ announced \subseteq announced'

\* A request that is not part of a step stays in order.
LEMMA OthersInOrder ==
    ASSUME CheckoutInv, OrdersKept, orders' \in Seq(OrderType), NEW b \in Buyers, InOrder(b),
           UNCHANGED users, buyer'[b] = buyer[b]
    PROVE  InOrder(b)'
<1>1. Users!CredentialsOf(b)' = Users!CredentialsOf(b)
  BY DEF Users!CredentialsOf, Users!FindByEmail, Users!Address
<1>2. \A i \in DOMAIN orders : i \in DOMAIN orders'
  BY DEF OrdersKept, CheckoutInv, OrdersInv
<1> QED
  BY <1>1, <1>2 DEF InOrder, OrdersKept

\* So do its prices, whatever happens to the product.
LEMMA OthersPriced ==
    ASSUME CheckoutInv, [Next]_vars, NEW b \in Buyers, buyer'[b] = buyer[b],
           reader'[b] = reader[b] \/ ReadReturns(b)
    PROVE  PricesOf(b)'
<1>1. /\ Offered' >= Offered /\ Offered' \in Nat /\ Offered \in Nat
  <2>1. TypeOK /\ LastWritten /\ TypeOK'
    BY TypePreserved DEF CheckoutInv, IndInv
  <2>2. Offered' >= Offered
    BY <2>1, OfferedGrows
  <2>3. Offered \in Nat /\ Offered' \in Nat
    BY <2>1, MaxVersionAssumption DEF TypeOK, Offered, Versions, None
  <2> QED
    BY <2>2, <2>3
<1>2. buyer[b].oldest \in Nat /\ PricesOf(b)
  BY MaxVersionAssumption DEF CheckoutInv, RequestsInv, BuyerType
<1>3. b \in Readers
  BY CheckoutAssumption
<1>4. ASSUME Found(b)' PROVE reader'[b].val >= buyer[b].oldest
  <2>1. CASE reader'[b] = reader[b]
    BY <1>2, <1>4, <2>1 DEF Found, PricesOf
  <2>2. CASE Find(b)
    <3>1. reader'[b].val = row /\ row # None
      BY <1>3, <2>2 DEF Find, Read, CheckoutInv, IndInv, TypeOK
    <3> QED
      BY <1>1, <1>2, <3>1 DEF PricesOf, Offered
  <2>3. CASE GetFails(b)
    BY <1>3, <1>4, <2>3 DEF GetFails, Read, CheckoutInv, IndInv, TypeOK, Found
  <2>4. CASE Set(b) \/ SetFails(b)
    <3>1. reader'[b].val = reader[b].val /\ reader[b].at = "set"
      BY <1>3, <2>4 DEF Set, SetFails, Read, CheckoutInv, IndInv, TypeOK
    <3> QED
      BY <1>2, <1>4, <3>1 DEF Found, PricesOf
  <2> QED
    BY <2>1, <2>2, <2>3, <2>4 DEF ReadReturns
<1> QED
  BY <1>1, <1>2, <1>4 DEF PricesOf

\* A step of one request that stores no order.
LEMMA NothingStored ==
    ASSUME CheckoutInv, CheckoutNext, NEW b \in Buyers,
           UNCHANGED <<userVars, orders>>, announced \subseteq announced',
           lost \subseteq lost', announced' \cup lost' \subseteq DOMAIN orders,
           \A d \in Buyers \ {b} : buyer'[d] = buyer[d] /\ reader'[d] = reader[d],
           buyer' \in [Buyers -> BuyerType], InOrder(b)', PricesOf(b)',
           buyer[b].at = "publish" => buyer[b].order \in announced' \cup lost'
    PROVE  CheckoutInv'
<1>1. [Next]_vars
  BY CacheStep
<1>2. IndInv'
  BY <1>1, TypePreserved, LastWrittenPreserved, StaleHasCausePreserved,
     ReadYourWritePreserved DEF IndInv, CheckoutInv
<1>3. AccountsInv'
  BY AccountsUnchanged DEF CheckoutInv
<1>4. UNCHANGED users /\ OrdersKept /\ orders' \in Seq(OrderType)
  BY DEF userVars, OrdersKept, CheckoutInv, OrdersInv
<1>5. \A d \in Buyers \ {b} : InOrder(d)' /\ PricesOf(d)'
  BY <1>1, <1>4, OthersInOrder, OthersPriced DEF CheckoutInv, RequestsInv
<1>6. \A i \in DOMAIN orders : OrderComplete(i)'
  BY <1>4 DEF CheckoutInv, OrdersInv, OrderComplete, Users!CredentialsOf,
     Users!FindByEmail, Users!Address
<1>7. \A i \in DOMAIN orders \ (announced' \cup lost') : Unanswered(i)'
  BY DEF CheckoutInv, OrdersInv, Unanswered
<1> QED
  BY <1>2, <1>3, <1>4, <1>5, <1>6, <1>7 DEF CheckoutInv, RequestsInv, OrdersInv

-----------------------------------------------------------------------------
\* What a step of a request may use.
LEMMA RequestTypes ==
    ASSUME CheckoutInv, NEW b \in Buyers
    PROVE  /\ buyer[b] \in BuyerType
           /\ buyer[b].items \in Seq(Versions)
           /\ Len(buyer[b].items) \in Nat
           /\ buyer[b].lines \in 0 .. MaxLines
           /\ buyer[b].oldest \in 1 .. MaxVersion + 1
           /\ reader[b] \in ReaderType
           /\ Offered \in 1 .. MaxVersion + 1
           /\ InOrder(b)
           /\ PricesOf(b)
<1>1. buyer[b] \in BuyerType /\ InOrder(b) /\ PricesOf(b)
  BY DEF CheckoutInv, RequestsInv
<1>2. /\ buyer[b].items \in Seq(Versions)
      /\ buyer[b].lines \in 0 .. MaxLines
      /\ buyer[b].oldest \in 1 .. MaxVersion + 1
  BY <1>1 DEF BuyerType
<1>3. reader[b] \in ReaderType
  BY CheckoutAssumption DEF CheckoutInv, IndInv, TypeOK
<1>4. Offered \in 1 .. MaxVersion + 1
  BY MaxVersionAssumption DEF CheckoutInv, IndInv, TypeOK, Offered, Versions, None
<1> QED
  BY <1>1, <1>2, <1>3, <1>4

\* A request that goes on to its next step with all it has.
LEMMA Proceeds ==
    ASSUME CheckoutInv, NEW b \in Buyers, NEW at \in BuyerSteps, Proceed(b, at),
           UNCHANGED <<table, userVars, orders>>,
           at \in {"publish", "answer"} => buyer[b].at \in {"publish", "answer"},
           at # "price", at # "idle", at # "service", at # "store", buyer[b].at # "idle",
           buyer[b].user # Users!NoId,
           at \in {"user", "product"} => buyer[b].at \in {"service", "user", "product"},
           at = "answer" => buyer[b].order \in announced',
           announced \subseteq announced'
    PROVE  /\ buyer' \in [Buyers -> BuyerType]
           /\ \A d \in Buyers \ {b} : buyer'[d] = buyer[d]
           /\ InOrder(b)'
           /\ PricesOf(b)'
<1> DEFINE q == [buyer[b] EXCEPT !.at = at]
<1>1. /\ buyer' = [buyer EXCEPT ![b] = q]
      /\ q \in BuyerType
      /\ q.at = at /\ q.user = buyer[b].user /\ q.lines = buyer[b].lines
      /\ q.items = buyer[b].items /\ q.oldest = buyer[b].oldest
      /\ q.order = buyer[b].order /\ q.response = buyer[b].response
  BY RequestTypes DEF Proceed, BuyerType
<1> HIDE DEF q
<1>2. buyer \in [Buyers -> BuyerType]
  BY DEF CheckoutInv, RequestsInv
<1>3. buyer' \in [Buyers -> BuyerType] /\ buyer'[b] = q
      /\ \A d \in Buyers \ {b} : buyer'[d] = buyer[d]
  BY <1>1, <1>2
<1>4. Users!CredentialsOf(b)' = Users!CredentialsOf(b)
  BY DEF userVars, Users!CredentialsOf, Users!FindByEmail, Users!Address
<1>5. InOrder(b)'
  BY <1>1, <1>3, <1>4, RequestTypes DEF InOrder, BuyerSteps
<1>6. PricesOf(b)'
  BY <1>1, <1>3, RequestTypes DEF PricesOf, Found, Offered, table
<1> QED
  BY <1>3, <1>5, <1>6

\* A request that is over.
LEMMA Responds ==
    ASSUME CheckoutInv, NEW b \in Buyers, NEW response \in {"none", "created", "error"},
           NEW order \in Nat, Responded(b, response, order),
           UNCHANGED <<table, userVars>>,
           response = "created" =>
              order \in DOMAIN orders' /\ orders'[order].by = b /\ order \in announced'
    PROVE  /\ buyer' \in [Buyers -> BuyerType]
           /\ \A d \in Buyers \ {b} : buyer'[d] = buyer[d]
           /\ InOrder(b)'
           /\ PricesOf(b)'
<1> DEFINE q == [NoRequest EXCEPT !.response = response, !.order = order]
<1>0. /\ <<>> \in Seq(Versions) /\ 0 \in 0 .. MaxLines /\ 1 \in 1 .. MaxVersion + 1
  BY MaxVersionAssumption, CheckoutAssumption
<1>1. /\ buyer' = [buyer EXCEPT ![b] = q]
      /\ q \in BuyerType
      /\ q.at = "idle" /\ q.user = Users!NoId /\ q.lines = 0
      /\ q.items = <<>> /\ q.oldest = 1
      /\ q.order = order /\ q.response = response
  BY <1>0 DEF Responded, BuyerType, BuyerSteps, NoRequest
<1> HIDE DEF q
<1>2. buyer \in [Buyers -> BuyerType]
  BY DEF CheckoutInv, RequestsInv
<1>3. buyer' \in [Buyers -> BuyerType] /\ buyer'[b] = q
      /\ \A d \in Buyers \ {b} : buyer'[d] = buyer[d]
  BY <1>1, <1>2
<1>5. InOrder(b)'
  BY <1>1, <1>3 DEF InOrder
<1>6. PricesOf(b)'
  BY <1>1, <1>3, RequestTypes DEF PricesOf, Found, Offered, table
<1> QED
  BY <1>3, <1>5, <1>6

\* The request enters with the id of its buyer's token.
LEMMA SubmitOK ==
    ASSUME CheckoutInv, CheckoutNext, NEW b \in Buyers, Submit(b) PROVE CheckoutInv'
<1>1. PICK n \in 1 .. MaxLines :
         buyer' = [buyer EXCEPT ![b] =
                      [NoRequest EXCEPT !.at = "service", !.user = token[b].id,
                                        !.lines = n, !.oldest = Offered]]
  BY DEF Submit
<1>2. /\ Users!CredentialsOf(b) = {token[b].id}
      /\ token[b].id \in Users!Ids
  <2>1. b \in Clients /\ Users!Authorized(b)
    BY CheckoutAssumption DEF Submit
  <2> QED
    BY <2>1 DEF CheckoutInv, AccountsInv, Users!RegistrationHonoured, Users!Authorized,
       Users!TypeOK
<1> DEFINE q == [NoRequest EXCEPT !.at = "service", !.user = token[b].id,
                                  !.lines = n, !.oldest = Offered]
<1>3. <<>> \in Seq(Versions) /\ n \in 0 .. MaxLines /\ n > 0
  BY CheckoutAssumption
<1>4. /\ buyer' = [buyer EXCEPT ![b] = q]
      /\ q \in BuyerType
      /\ q.at = "service" /\ q.user = token[b].id /\ q.lines = n
      /\ q.items = <<>> /\ q.oldest = Offered
      /\ q.response = "none"
  BY <1>1, <1>2, <1>3, RequestTypes DEF BuyerType, BuyerSteps, NoRequest, NoOrder
<1> HIDE DEF q
<1>5. /\ buyer \in [Buyers -> BuyerType]
      /\ UNCHANGED <<vars, userVars, orders, announced, lost>>
  BY DEF CheckoutInv, RequestsInv, Submit, cacheVars, orderVars
<1>6. buyer' \in [Buyers -> BuyerType] /\ buyer'[b] = q
      /\ \A d \in Buyers \ {b} : buyer'[d] = buyer[d]
  BY <1>4, <1>5
<1>7. Users!CredentialsOf(b)' = Users!CredentialsOf(b)
  BY <1>5 DEF userVars, Users!CredentialsOf, Users!FindByEmail, Users!Address
<1>8. InOrder(b)'
  BY <1>2, <1>3, <1>4, <1>6, <1>7 DEF InOrder
<1>9. PricesOf(b)'
  BY <1>4, <1>5, <1>6, RequestTypes DEF PricesOf, Found, Offered, vars
<1>10. announced \cup lost \subseteq DOMAIN orders
  BY DEF CheckoutInv, OrdersInv
<1> QED
  BY <1>5, <1>6, <1>8, <1>9, <1>10, NothingStored DEF Submit, vars

LEMMA ProceedOK ==
    ASSUME CheckoutInv, CheckoutNext, NEW b \in Buyers,
           Enter(b) \/ GetUser(b) \/ Announce(b)
    PROVE  CheckoutInv'
<1>1. /\ UNCHANGED <<vars, userVars, orders, lost>>
      /\ announced \cup lost \subseteq DOMAIN orders
      /\ InOrder(b)
  BY RequestTypes DEF Enter, GetUser, Announce, cacheVars, orderVars, CheckoutInv, OrdersInv
<1>2. CASE Enter(b)
  <2>1. announced' = announced
    BY <1>2 DEF Enter, orderVars
  <2>2. Proceed(b, "user") /\ buyer[b].user # Users!NoId /\ buyer[b].at = "service"
    BY <1>2 DEF Enter
  <2> QED
    BY <1>1, <2>1, <2>2, Proceeds, NothingStored DEF BuyerSteps, vars, table
<1>3. CASE GetUser(b)
  <2>1. announced' = announced
    BY <1>3 DEF GetUser, orderVars
  <2>2. Proceed(b, "product") /\ buyer[b].at = "user"
    BY <1>3 DEF GetUser
  <2> QED
    BY <1>1, <2>1, <2>2, Proceeds, NothingStored DEF BuyerSteps, vars, table, InOrder
<1>4. CASE Announce(b)
  <2>1. announced' = announced \cup {buyer[b].order}
    BY <1>4 DEF Announce
  <2>2. Proceed(b, "answer") /\ buyer[b].at = "publish"
    BY <1>4 DEF Announce
  <2>3. buyer[b].order \in DOMAIN orders /\ buyer[b].user # Users!NoId
    BY <1>1, <2>2 DEF InOrder
  <2> QED
    BY <1>1, <2>1, <2>2, <2>3, Proceeds, NothingStored DEF BuyerSteps, vars, table
<1> QED
  BY <1>2, <1>3, <1>4

\* The client is told something.
LEMMA RespondOK ==
    ASSUME CheckoutInv, CheckoutNext, NEW b \in Buyers,
           Refuse(b) \/ AnnounceFails(b) \/ Answer(b) \/ AnswerBadGateway(b)
    PROVE  CheckoutInv'
<1>1. /\ UNCHANGED <<vars, userVars, orders>>
      /\ announced \cup lost \subseteq DOMAIN orders
      /\ InOrder(b) /\ buyer[b].order \in Nat /\ NoOrder \in Nat
  BY RequestTypes DEF Refuse, AnnounceFails, Answer, AnswerBadGateway, cacheVars, orderVars,
     CheckoutInv, OrdersInv, BuyerType, NoOrder
<1>2. CASE Refuse(b)
  <2>1. announced' = announced /\ lost' = lost
    BY <1>2 DEF Refuse, orderVars
  <2>2. Responded(b, "error", NoOrder) /\ buyer[b].at # "publish"
    BY <1>2 DEF Refuse
  <2> QED
    BY <1>1, <2>1, <2>2, Responds, NothingStored DEF vars, table
<1>3. CASE AnnounceFails(b)
  <2>1. buyer[b].order \in DOMAIN orders
    BY <1>1, <1>3 DEF AnnounceFails, InOrder
  <2>2. /\ announced \subseteq announced' /\ announced' \subseteq DOMAIN orders
        /\ lost' = lost \cup {buyer[b].order}
    BY <1>1, <1>3, <2>1 DEF AnnounceFails
  <2>3. Responded(b, "error", NoOrder)
    BY <1>3 DEF AnnounceFails
  <2> QED
    BY <1>1, <2>1, <2>2, <2>3, Responds, NothingStored DEF vars, table
<1>4. CASE Answer(b)
  <2>1. announced' = announced /\ lost' = lost
    BY <1>4 DEF Answer, orderVars
  <2>2. Responded(b, "created", buyer[b].order) /\ buyer[b].at = "answer"
    BY <1>4 DEF Answer
  <2>3. /\ buyer[b].order \in DOMAIN orders' /\ orders'[buyer[b].order].by = b
        /\ buyer[b].order \in announced'
    BY <1>1, <2>1, <2>2 DEF InOrder
  <2> QED
    BY <1>1, <2>1, <2>2, <2>3, Responds, NothingStored DEF vars, table
<1>5. CASE AnswerBadGateway(b)
  <2>1. buyer[b].order \in DOMAIN orders /\ buyer[b].at # "publish"
    BY <1>1, <1>5 DEF AnswerBadGateway, InOrder
  <2>2. announced' = announced /\ lost' = lost \cup {buyer[b].order}
    BY <1>5 DEF AnswerBadGateway
  <2>3. Responded(b, "error", NoOrder)
    BY <1>5 DEF AnswerBadGateway
  <2> QED
    BY <1>1, <2>1, <2>2, <2>3, Responds, NothingStored DEF vars, table
<1> QED
  BY <1>2, <1>3, <1>4, <1>5

\* A price found in the cache is what is offered, or may be any.
LEMMA GetProductOK ==
    ASSUME CheckoutInv, CheckoutNext, NEW b \in Buyers, GetProduct(b) PROVE CheckoutInv'
<1>1. /\ UNCHANGED <<table, userVars, orders, announced, lost>>
      /\ announced \cup lost \subseteq DOMAIN orders
      /\ buyer[b].at = "product"
      /\ InOrder(b)
      /\ buyer \in [Buyers -> BuyerType]
      /\ reader \in [Readers -> ReaderType]
      /\ b \in Readers
  BY RequestTypes, CheckoutAssumption
     DEF GetProduct, GetHits, GetMisses, orderVars, CheckoutInv, RequestsInv, OrdersInv,
         IndInv, TypeOK
<1>2. PICK oldest \in {buyer[b].oldest, 1} :
         /\ buyer' = [buyer EXCEPT ![b] = [buyer[b] EXCEPT !.at = "price", !.oldest = oldest]]
         /\ \/ GetHits(b) /\ oldest = (IF MayBeStale THEN 1 ELSE buyer[b].oldest)
            \/ GetMisses(b) /\ oldest = buyer[b].oldest
  <2>1. CASE GetHits(b) /\ buyer' = [buyer EXCEPT ![b].at = "price",
                                                  ![b].oldest = IF MayBeStale THEN 1 ELSE @]
    <3>1. buyer' = [buyer EXCEPT ![b] = [buyer[b] EXCEPT
                       !.at = "price", !.oldest = IF MayBeStale THEN 1 ELSE buyer[b].oldest]]
      BY <1>1, <2>1 DEF BuyerType
    <3> QED
      BY <2>1, <3>1
  <2>2. CASE GetMisses(b) /\ Proceed(b, "price")
    <3>1. buyer' = [buyer EXCEPT ![b] = [buyer[b] EXCEPT
                                            !.at = "price", !.oldest = buyer[b].oldest]]
      BY <1>1, <2>2 DEF Proceed, BuyerType
    <3> QED
      BY <2>2, <3>1
  <2> QED
    BY <2>1, <2>2 DEF GetProduct
<1> DEFINE q == [buyer[b] EXCEPT !.at = "price", !.oldest = oldest]
<1>3. 1 \in 1 .. MaxVersion + 1
  BY MaxVersionAssumption
<1>4. /\ buyer' = [buyer EXCEPT ![b] = q]
      /\ q \in BuyerType
      /\ q.at = "price" /\ q.user = buyer[b].user /\ q.lines = buyer[b].lines
      /\ q.items = buyer[b].items /\ q.oldest = oldest
      /\ q.order = buyer[b].order /\ q.response = buyer[b].response
  BY <1>2, <1>3, RequestTypes DEF BuyerType, BuyerSteps
<1> HIDE DEF q
<1>5. buyer' \in [Buyers -> BuyerType] /\ buyer'[b] = q
      /\ \A d \in Buyers \ {b} : buyer'[d] = buyer[d]
  BY <1>1, <1>4
<1>6. Users!CredentialsOf(b)' = Users!CredentialsOf(b)
  BY <1>1 DEF userVars, Users!CredentialsOf, Users!FindByEmail, Users!Address
<1>7. InOrder(b)'
  BY <1>1, <1>4, <1>5, <1>6 DEF InOrder
<1>8. \A d \in Buyers \ {b} : reader'[d] = reader[d]
  BY <1>1, <1>2, CheckoutAssumption DEF GetHits, GetMisses, Read
<1>9. oldest \in Nat /\ oldest <= buyer[b].oldest /\ buyer[b].oldest \in Nat
  BY <1>2, RequestTypes, MaxVersionAssumption
<1>10. ASSUME Found(b)' PROVE reader'[b].val >= oldest
  <2>1. CASE GetMisses(b)
    BY <1>1, <1>10, <2>1 DEF GetMisses, Read, Found
  <2>2. CASE GetHits(b) /\ MayBeStale
    <3>1. reader'[b].val = cache /\ cache \in Versions
      BY <1>1, <2>2 DEF GetHits, Read, CheckoutInv, IndInv, TypeOK, None
    <3>2. oldest = 1
      BY <1>1, <1>2, <2>2 DEF GetHits, GetMisses, Read
    <3> QED
      BY <3>1, <3>2, MaxVersionAssumption DEF Versions
  <2>3. CASE GetHits(b) /\ ~ MayBeStale
    <3>1. reader'[b].val = row /\ row # None
      BY <1>1, <2>3 DEF GetHits, Read, CheckoutInv, IndInv, StaleHasCause, UpToDate
    <3>2. row >= buyer[b].oldest
      BY <3>1, RequestTypes DEF PricesOf, Offered, None
    <3>3. row \in Nat
      BY MaxVersionAssumption DEF CheckoutInv, IndInv, TypeOK, Versions, None
    <3> QED
      BY <1>9, <3>1, <3>2, <3>3
  <2> QED
    BY <1>2, <2>1, <2>2, <2>3
<1>11. PricesOf(b)'
  <2>1. /\ oldest <= Offered /\ UNCHANGED Offered
    BY <1>1, <1>9, RequestTypes DEF PricesOf, Offered, table
  <2>2. \A k \in DOMAIN buyer[b].items : buyer[b].items[k] >= oldest
    <3> SUFFICES ASSUME NEW k \in DOMAIN buyer[b].items PROVE buyer[b].items[k] >= oldest
      OBVIOUS
    <3>1. buyer[b].items[k] \in Nat
      BY RequestTypes, MaxVersionAssumption DEF Versions
    <3> QED
      BY <1>9, <3>1, RequestTypes DEF PricesOf
  <2> QED
    BY <1>4, <1>5, <1>10, <2>1, <2>2 DEF PricesOf
<1> QED
  BY <1>1, <1>5, <1>7, <1>8, <1>11, NothingStored

\* The price found is the next line's.
LEMMA AddItemOK ==
    ASSUME CheckoutInv, CheckoutNext, NEW b \in Buyers, AddItem(b) PROVE CheckoutInv'
<1>1. /\ UNCHANGED <<vars, userVars, orders, announced, lost>>
      /\ announced \cup lost \subseteq DOMAIN orders
      /\ buyer[b].at = "price" /\ reader[b].at = "idle" /\ reader[b].val # None
      /\ buyer \in [Buyers -> BuyerType]
  BY DEF AddItem, cacheVars, orderVars, CheckoutInv, RequestsInv, OrdersInv
<1> DEFINE items == Append(buyer[b].items, reader[b].val)
           at == IF Len(buyer[b].items) + 1 < buyer[b].lines THEN "product" ELSE "store"
           q == [buyer[b] EXCEPT !.items = items, !.at = at]
<1>2. /\ buyer[b].items \in Seq(Versions) /\ Len(buyer[b].items) \in Nat
      /\ buyer[b].lines \in Nat
      /\ Len(buyer[b].items) < buyer[b].lines
      /\ reader[b].val \in Versions
      /\ reader[b].val >= buyer[b].oldest
  <2>1. reader[b].val \in Versions
    BY <1>1, RequestTypes DEF ReaderType
  <2>2. Found(b)
    BY <1>1 DEF Found
  <2> QED
    BY <1>1, <2>1, <2>2, RequestTypes DEF InOrder, PricesOf
<1>3. /\ items \in Seq(Versions) /\ Len(items) = Len(buyer[b].items) + 1
      /\ \A k \in DOMAIN items : items[k] >= buyer[b].oldest
  <2>1. /\ items \in Seq(Versions) /\ Len(items) = Len(buyer[b].items) + 1
        /\ items[Len(items)] = reader[b].val
        /\ \A k \in 1 .. Len(buyer[b].items) : items[k] = buyer[b].items[k]
        /\ DOMAIN items = 1 .. Len(items)
        /\ DOMAIN buyer[b].items = 1 .. Len(buyer[b].items)
    BY <1>2
  <2> HIDE DEF items
  <2>2. \A k \in DOMAIN buyer[b].items : buyer[b].items[k] >= buyer[b].oldest
    BY RequestTypes DEF PricesOf
  <2> QED
    BY <1>2, <2>1, <2>2
<1>4. \/ at = "product" /\ Len(items) < buyer[b].lines
      \/ at = "store" /\ Len(items) = buyer[b].lines /\ buyer[b].lines > 0
  BY <1>2, <1>3
<1>5. buyer' = [buyer EXCEPT ![b] = q]
  BY <1>1 DEF AddItem, BuyerType
<1> HIDE DEF items, at
<1>6. /\ q \in BuyerType
      /\ q.at = at /\ q.user = buyer[b].user /\ q.lines = buyer[b].lines
      /\ q.items = items /\ q.oldest = buyer[b].oldest
      /\ q.order = buyer[b].order /\ q.response = buyer[b].response
  BY <1>3, <1>4, RequestTypes DEF BuyerType, BuyerSteps
<1> HIDE DEF q
<1>7. buyer' \in [Buyers -> BuyerType] /\ buyer'[b] = q
      /\ \A d \in Buyers \ {b} : buyer'[d] = buyer[d]
  BY <1>1, <1>5, <1>6
<1>8. Users!CredentialsOf(b)' = Users!CredentialsOf(b)
  BY <1>1 DEF userVars, Users!CredentialsOf, Users!FindByEmail, Users!Address
<1>9. InOrder(b)'
  BY <1>1, <1>4, <1>6, <1>7, <1>8, RequestTypes DEF InOrder
<1>10. PricesOf(b)'
  BY <1>1, <1>3, <1>4, <1>6, <1>7, RequestTypes DEF PricesOf, Found, Offered, vars
<1> QED
  BY <1>1, <1>7, <1>9, <1>10, NothingStored DEF vars

-----------------------------------------------------------------------------
\* The order that is stored has all the lines and the account of its buyer.
LEMMA Stored ==
    ASSUME CheckoutInv, NEW b \in Buyers, Insert(b)
    PROVE  /\ orders' \in Seq(OrderType)
           /\ Len(orders') = Len(orders) + 1
           /\ DOMAIN orders' = DOMAIN orders \cup {Len(orders')}
           /\ \A i \in DOMAIN orders : orders'[i] = orders[i]
           /\ orders'[Len(orders')].by = b
           /\ orders'[Len(orders')].user = buyer[b].user
           /\ orders'[Len(orders')].lines = buyer[b].lines
           /\ orders'[Len(orders')].items = buyer[b].items
           /\ orders'[Len(orders')].oldest = buyer[b].oldest
<1> DEFINE new == [by |-> b, user |-> buyer[b].user, lines |-> buyer[b].lines,
                   items |-> buyer[b].items, oldest |-> buyer[b].oldest]
<1>1. /\ orders' = Append(orders, new) /\ buyer[b].at = "store"
      /\ new.by = b /\ new.user = buyer[b].user /\ new.lines = buyer[b].lines
      /\ new.items = buyer[b].items /\ new.oldest = buyer[b].oldest
  BY DEF Insert
<1>2. /\ buyer[b].user \in Users!Ids
      /\ buyer[b].lines \in 1 .. MaxLines
      /\ buyer[b].items \in Seq(Versions)
      /\ buyer[b].oldest \in 1 .. MaxVersion + 1
  BY <1>1, RequestTypes, CheckoutAssumption DEF InOrder, BuyerType
<1>3. new \in OrderType
  BY <1>2 DEF OrderType
<1>4. orders \in Seq(OrderType) /\ Len(orders) \in Nat
  BY DEF CheckoutInv, OrdersInv
<1> HIDE DEF new
<1>5. /\ orders' \in Seq(OrderType)
      /\ Len(orders') = Len(orders) + 1
      /\ \A i \in DOMAIN orders : orders'[i] = orders[i]
      /\ orders'[Len(orders')] = new
  BY <1>1, <1>3, <1>4
<1>6. DOMAIN orders = 1 .. Len(orders) /\ DOMAIN orders' = 1 .. Len(orders')
  BY <1>4, <1>5
<1>7. DOMAIN orders' = DOMAIN orders \cup {Len(orders')}
  BY <1>4, <1>5, <1>6
<1> QED
  BY <1>1, <1>5, <1>7

LEMMA StoreOK ==
    ASSUME CheckoutInv, CheckoutNext, NEW b \in Buyers, StoreOrder(b) \/ StoreUnanswered(b)
    PROVE  CheckoutInv'
<1>1. /\ Insert(b)
      /\ UNCHANGED <<vars, userVars, announced>> /\ UNCHANGED users
      /\ buyer[b].at = "store"
      /\ lost \subseteq lost'
      /\ announced \cup lost \subseteq DOMAIN orders
      /\ buyer \in [Buyers -> BuyerType]
      /\ InOrder(b)
      /\ Len(orders) \in Nat
  BY RequestTypes DEF StoreOrder, StoreUnanswered, Insert, cacheVars, userVars, CheckoutInv,
     OrdersInv, RequestsInv
<1>2. /\ buyer[b].user # Users!NoId
      /\ Users!CredentialsOf(b) = {buyer[b].user}
      /\ Len(buyer[b].items) = buyer[b].lines
      /\ \A k \in DOMAIN buyer[b].items : buyer[b].items[k] >= buyer[b].oldest
  BY <1>1, RequestTypes DEF InOrder, PricesOf
<1>3. \A c : Users!CredentialsOf(c)' = Users!CredentialsOf(c)
  BY <1>1 DEF Users!CredentialsOf, Users!FindByEmail, Users!Address
<1>4. /\ OrdersKept
      /\ orders' \in Seq(OrderType)
      /\ Len(orders') \in DOMAIN orders' /\ Len(orders') \in Nat
      /\ DOMAIN orders \subseteq DOMAIN orders'
  BY <1>1, Stored DEF OrdersKept
<1>5. /\ buyer' \in [Buyers -> BuyerType]
      /\ \A d \in Buyers \ {b} : buyer'[d] = buyer[d]
      /\ InOrder(b)'
      /\ PricesOf(b)'
      /\ Len(orders') \in lost' \/ Unanswered(Len(orders))'
      /\ lost' \subseteq DOMAIN orders'
  <2>1. CASE StoreOrder(b)
    <3> DEFINE q == [buyer[b] EXCEPT !.at = "publish", !.order = Len(orders')]
    <3>1. buyer' = [buyer EXCEPT ![b] = q] /\ UNCHANGED lost
      BY <1>1, <2>1 DEF StoreOrder, BuyerType
    <3>2. /\ q \in BuyerType
          /\ q.at = "publish" /\ q.user = buyer[b].user /\ q.lines = buyer[b].lines
          /\ q.items = buyer[b].items /\ q.oldest = buyer[b].oldest
          /\ q.order = Len(orders') /\ q.response = buyer[b].response
      BY <1>4, RequestTypes DEF BuyerType, BuyerSteps
    <3> HIDE DEF q
    <3>3. buyer' \in [Buyers -> BuyerType] /\ buyer'[b] = q
          /\ \A d \in Buyers \ {b} : buyer'[d] = buyer[d]
      BY <1>1, <3>1, <3>2
    <3>4. orders'[Len(orders')].by = b
      BY <1>1, Stored
    <3>5. buyer[b].response = "none"
      BY <1>1 DEF InOrder
    <3>6. InOrder(b)'
      BY <1>2, <1>3, <1>4, <3>2, <3>3, <3>4, <3>5 DEF InOrder
    <3>7. PricesOf(b)'
      BY <1>1, <3>2, <3>3, RequestTypes DEF PricesOf, Found, Offered, vars
    <3>8. Unanswered(Len(orders))'
      BY <3>2, <3>3 DEF Unanswered
    <3> QED
      BY <1>1, <1>4, <3>1, <3>3, <3>6, <3>7, <3>8
  <2>2. CASE StoreUnanswered(b)
    <3>1. lost' = lost \cup {Len(orders')} /\ Responded(b, "error", NoOrder)
      BY <2>2 DEF StoreUnanswered
    <3>2. /\ buyer' \in [Buyers -> BuyerType]
          /\ \A d \in Buyers \ {b} : buyer'[d] = buyer[d]
          /\ InOrder(b)'
          /\ PricesOf(b)'
      BY <1>1, <3>1, Responds DEF NoOrder, vars, table
    <3> QED
      BY <1>1, <1>4, <3>1, <3>2
  <2> QED
    BY <2>1, <2>2
<1>6. IndInv' /\ AccountsInv'
  BY <1>1, AccountsUnchanged, TypePreserved, LastWrittenPreserved, StaleHasCausePreserved,
     ReadYourWritePreserved DEF CheckoutInv, IndInv
<1>7. \A d \in Buyers \ {b} : InOrder(d)' /\ PricesOf(d)'
  BY <1>1, <1>4, <1>5, OthersInOrder, OthersPriced DEF CheckoutInv, RequestsInv, vars
<1>8. \A i \in DOMAIN orders' : OrderComplete(i)'
  <2>1. \A i \in DOMAIN orders : OrderComplete(i)'
    BY <1>3, <1>4 DEF OrderComplete, OrdersKept, CheckoutInv, OrdersInv
  <2>2. OrderComplete(Len(orders))'
    BY <1>1, <1>2, <1>3, Stored DEF OrderComplete
  <2> QED
    BY <1>1, <2>1, <2>2, Stored
<1>9. \A i \in DOMAIN orders' \ (announced' \cup lost') : Unanswered(i)'
  <2>1. \A i \in DOMAIN orders \ (announced' \cup lost') : Unanswered(i)'
    BY <1>1, <1>5 DEF CheckoutInv, OrdersInv, Unanswered
  <2> QED
    BY <1>1, <1>5, <2>1, Stored
<1> QED
  BY <1>1, <1>4, <1>5, <1>6, <1>7, <1>8, <1>9 DEF CheckoutInv, RequestsInv, OrdersInv

-----------------------------------------------------------------------------
\* Accounts come and tokens go while requests are under way.
LEMMA UserOK ==
    ASSUME CheckoutInv, NEW c \in Clients, UserStep(c) \/ TokenExpires(c)
    PROVE  CheckoutInv'
<1>1. AccountStep(c) /\ UNCHANGED <<vars, orders, announced, lost>>
  BY DEF UserStep, TokenExpires, AccountStep, cacheVars, orderVars
<1>2. AccountsInv'
  BY <1>1, AccountsTyped, EmailsUnique, PromiseKept, TokenTrue
     DEF CheckoutInv, AccountsInv, Users!RegistrationHonoured
<1>3. IndInv'
  BY <1>1, TypePreserved, LastWrittenPreserved, StaleHasCausePreserved,
     ReadYourWritePreserved DEF CheckoutInv, IndInv
<1>4. \A d \in Clients : \A i : Users!CredentialsOf(d) = {i} => Users!CredentialsOf(d)' = {i}
  BY <1>1, CredentialsKept DEF CheckoutInv, AccountsInv
<1>5. /\ buyer' \in [Buyers -> BuyerType]
      /\ \A b \in Buyers : /\ \/ buyer'[b].user = buyer[b].user
                              \/ buyer'[b].user = Users!NoId /\ buyer[b].at = "service"
                           /\ buyer'[b].at = buyer[b].at
                           /\ buyer'[b].lines = buyer[b].lines
                           /\ buyer'[b].items = buyer[b].items
                           /\ buyer'[b].order = buyer[b].order
                           /\ buyer'[b].oldest = buyer[b].oldest
                           /\ buyer'[b].response = buyer[b].response
  <2>1. buyer \in [Buyers -> BuyerType]
    BY DEF CheckoutInv, RequestsInv
  <2>2. CASE UserStep(c)
    BY <2>1, <2>2 DEF UserStep
  <2>3. CASE TokenExpires(c)
    BY <2>1, <2>3 DEF TokenExpires, BuyerType
  <2> QED
    BY <2>2, <2>3
<1>6. ASSUME NEW b \in Buyers PROVE InOrder(b)' /\ PricesOf(b)'
  <2>0. b \in Clients /\ InOrder(b) /\ buyer'[b].at = buyer[b].at
    BY <1>5, CheckoutAssumption DEF CheckoutInv, RequestsInv
  <2>1. InOrder(b)'
    <3>1. buyer'[b].user # Users!NoId => Users!CredentialsOf(b)' = {buyer'[b].user}
      BY <1>4, <1>5, <2>0 DEF InOrder
    <3>2. buyer'[b].at \notin {"idle", "service"} => buyer'[b].user # Users!NoId
      BY <1>5, <2>0 DEF InOrder
    <3> QED
      BY <1>1, <1>5, <2>0, <3>1, <3>2 DEF InOrder
  <2>2. PricesOf(b)'
    BY <1>1, <1>5 DEF PricesOf, Found, Offered, vars, CheckoutInv, RequestsInv
  <2> QED
    BY <2>1, <2>2
<1>7. ASSUME NEW i \in DOMAIN orders PROVE OrderComplete(i)'
  <2>1. orders[i] \in OrderType /\ OrderComplete(i)
    BY DEF CheckoutInv, OrdersInv
  <2>2. orders[i].by \in Clients
    BY <2>1, CheckoutAssumption DEF OrderType
  <2> QED
    BY <1>1, <1>4, <2>1, <2>2 DEF OrderComplete
<1>8. \A i \in DOMAIN orders \ (announced \cup lost) : Unanswered(i)'
  BY <1>5 DEF CheckoutInv, OrdersInv, Unanswered
<1> QED
  BY <1>1, <1>2, <1>3, <1>5, <1>6, <1>7, <1>8 DEF CheckoutInv, RequestsInv, OrdersInv

\* The product changes and others read it.
LEMMA ProductOK ==
    ASSUME CheckoutInv, CheckoutNext, ProductStep PROVE CheckoutInv'
<1>1. /\ UNCHANGED <<userVars, buyer, orders, announced, lost>> /\ UNCHANGED users
      /\ buyer \in [Buyers -> BuyerType]
      /\ orders \in Seq(OrderType)
  BY DEF ProductStep, orderVars, userVars, CheckoutInv, RequestsInv, OrdersInv
<1>2. [Next]_vars
  BY CacheStep
<1>3. IndInv' /\ AccountsInv'
  BY <1>1, <1>2, AccountsUnchanged, TypePreserved, LastWrittenPreserved,
     StaleHasCausePreserved, ReadYourWritePreserved DEF CheckoutInv, IndInv
<1>4. ASSUME NEW b \in Buyers PROVE reader'[b] = reader[b] \/ ReadReturns(b)
  <2>1. b \in Readers /\ reader \in [Readers -> ReaderType]
    BY CheckoutAssumption DEF CheckoutInv, IndInv, TypeOK
  <2>2. ASSUME NEW r \in Readers \ Buyers, GetHits(r) \/ GetMisses(r)
        PROVE  reader'[b] = reader[b]
    BY <2>1, <2>2 DEF GetHits, GetMisses, Read
  <2>3. ASSUME NEW r \in Readers, ReadReturns(r), r # b PROVE reader'[b] = reader[b]
    BY <2>1, <2>3 DEF ReadReturns, Find, GetFails, Set, SetFails, Read
  <2>4. ASSUME Administer \/ Expire PROVE reader' = reader
    BY <2>4 DEF Administer, Expire, AnswerLost, Update, Delete, Invalidate,
       InvalidateFails, Reply, ReplyFails, Create, CreateCategory, DeleteCategory
  <2> QED
    BY <2>2, <2>3, <2>4 DEF ProductStep
<1>5. \A b \in Buyers : InOrder(b)' /\ PricesOf(b)'
  <2>1. OrdersKept /\ orders' \in Seq(OrderType)
    BY <1>1 DEF OrdersKept
  <2> QED
    BY <1>1, <1>2, <1>4, <2>1, OthersInOrder, OthersPriced DEF CheckoutInv, RequestsInv
<1>6. \A i \in DOMAIN orders : OrderComplete(i)'
  BY <1>1 DEF CheckoutInv, OrdersInv, OrderComplete, Users!CredentialsOf,
     Users!FindByEmail, Users!Address
<1>7. \A i \in DOMAIN orders \ (announced \cup lost) : Unanswered(i)'
  BY <1>1 DEF CheckoutInv, OrdersInv, Unanswered
<1> QED
  BY <1>1, <1>3, <1>5, <1>6, <1>7 DEF CheckoutInv, RequestsInv, OrdersInv

LEMMA UnchangedOK == ASSUME CheckoutInv, UNCHANGED checkoutVars PROVE CheckoutInv'
<1>1. UNCHANGED <<vars, userVars, buyer, orders, announced, lost>> /\ UNCHANGED users
  BY DEF checkoutVars, orderVars, userVars
<1>2. IndInv' /\ AccountsInv'
  BY <1>1, AccountsUnchanged, TypePreserved, LastWrittenPreserved,
     StaleHasCausePreserved, ReadYourWritePreserved DEF CheckoutInv, IndInv
<1>3. \A c : Users!CredentialsOf(c)' = Users!CredentialsOf(c)
  BY <1>1 DEF Users!CredentialsOf, Users!FindByEmail, Users!Address
<1>4. RequestsInv'
  BY <1>1, <1>3 DEF CheckoutInv, RequestsInv, InOrder, PricesOf, Found, Offered, vars
<1>5. OrdersInv'
  BY <1>1, <1>3 DEF CheckoutInv, OrdersInv, OrderComplete, Unanswered
<1> QED
  BY <1>2, <1>4, <1>5 DEF CheckoutInv

LEMMA CheckoutInvariant == CheckoutSpec => []CheckoutInv
<1>1. CheckoutInit => CheckoutInv
  <2> SUFFICES ASSUME CheckoutInit PROVE CheckoutInv
    OBVIOUS
  <2>1. IndInv
    BY MaxVersionAssumption
       DEF CheckoutInit, Init, IndInv, TypeOK, LastWritten, StaleHasCause, UpToDate,
           ReadYourWrite, Versions, None, ReaderType, ReaderSteps, WriterType, WriterSteps,
           CategoryStates
  <2>2. AccountsInv
    BY AccountsInit
  <2>3. /\ <<>> \in Seq(Versions) /\ 0 \in 0 .. MaxLines /\ 1 \in 1 .. MaxVersion + 1
        /\ Len(<<>>) = 0
    BY MaxVersionAssumption, CheckoutAssumption
  <2>4. NoRequest \in BuyerType
    BY <2>3 DEF NoRequest, BuyerType, BuyerSteps, NoOrder
  <2>5. \A b \in Buyers : buyer[b] = NoRequest
    BY DEF CheckoutInit
  <2>6. Offered >= 1
    BY DEF CheckoutInit, Init, Offered, None
  <2>7. RequestsInv
    BY <2>3, <2>4, <2>5, <2>6
       DEF CheckoutInit, RequestsInv, InOrder, PricesOf, Found, NoRequest
  <2>8. OrdersInv
    BY DEF CheckoutInit, OrdersInv
  <2> QED
    BY <2>1, <2>2, <2>7, <2>8 DEF CheckoutInv
<1>2. CheckoutInv /\ [CheckoutNext]_checkoutVars => CheckoutInv'
  BY UserOK, ProductOK, SubmitOK, ProceedOK, GetProductOK, AddItemOK, RespondOK, StoreOK,
     UnchangedOK DEF CheckoutNext
<1> QED
  BY <1>1, <1>2, PTL DEF CheckoutSpec

(***************************************************************************)
(* Requests, orders and events keep their types, and no more lines are     *)
(* priced than were asked for.                                             *)
(***************************************************************************)
THEOREM CheckoutTypeCorrect == CheckoutSpec => []CheckoutTypeOK
<1>1. CheckoutInv => CheckoutTypeOK
  <2> SUFFICES ASSUME CheckoutInv PROVE CheckoutTypeOK
    OBVIOUS
  <2>1. ASSUME NEW b \in Buyers
        PROVE  /\ Len(buyer[b].items) <= buyer[b].lines
               /\ buyer[b].at = "publish" => buyer[b].order \in DOMAIN orders
    BY RequestTypes DEF InOrder
  <2> QED
    BY <2>1 DEF CheckoutInv, IndInv, AccountsInv, RequestsInv, OrdersInv, CheckoutTypeOK
<1> QED
  BY <1>1, CheckoutInvariant, PTL

(***************************************************************************)
(* No line of an order has a price from before the request came, unless    *)
(* one was read while the cache had cause to be out of date.               *)
(***************************************************************************)
THEOREM PricesAsOffered == CheckoutSpec => []PricedAsOffered
<1>1. CheckoutInv => PricedAsOffered
  BY DEF CheckoutInv, OrdersInv, OrderComplete, PricedAsOffered
<1> QED
  BY <1>1, CheckoutInvariant, PTL

(***************************************************************************)
(* What a buyer is told of its order is so, wherever the request fails.    *)
(***************************************************************************)
THEOREM AnswersTruly == CheckoutSpec => []AnswerIsTrue
<1>1. CheckoutInv => AnswerIsTrue
  <2> SUFFICES ASSUME CheckoutInv PROVE AnswerIsTrue
    OBVIOUS
  <2>1. ASSUME NEW b \in Buyers, buyer[b].response = "created"
        PROVE  buyer[b].order \in announced /\ orders[buyer[b].order].by = b
    BY <2>1, RequestTypes DEF InOrder
  <2> QED
    BY <2>1 DEF CheckoutInv, OrdersInv, OrderComplete, Unanswered, AnswerIsTrue
<1> QED
  BY <1>1, CheckoutInvariant, PTL

(***************************************************************************)
(* Whoever was answered 201 can log in, and a token is for an account of   *)
(* its holder, with any number of clients and spellings.                   *)
(***************************************************************************)
THEOREM HonoursRegistration == CheckoutSpec => []RegistrationHonoured
<1>1. CheckoutInv => RegistrationHonoured
  BY DEF CheckoutInv, AccountsInv, RegistrationHonoured
<1> QED
  BY <1>1, CheckoutInvariant, PTL
=============================================================================
