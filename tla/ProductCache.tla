----------------------------- MODULE ProductCache -----------------------------
(***************************************************************************)
(* The cache-aside reads of the product service, and the updates and       *)
(* deletions that invalidate the cache, for one product and one category:  *)
(* products do not share a row or a key.  The row and the cache hold       *)
(* versions of the product, numbered in the order the database wrote them. *)
(* Deleting a category rewrites the products that refer to it.             *)
(*                                                                         *)
(* Every error of Redis is ignored, a request whose client went away       *)
(* included; a command that fails may have been executed all the same.     *)
(***************************************************************************)
EXTENDS Naturals

CONSTANTS
    Readers,     \* requests that call GetByID
    Writers,     \* requests that call Update or Delete
    MaxVersion   \* bound on the versions of the product

ASSUME MaxVersionAssumption == MaxVersion \in Nat \ {0}

VARIABLES
    row,       \* the product in the database, or None once it is deleted
    versions,  \* number of versions written so far
    category,  \* whether the category exists, and whether the row refers to it
    cache,     \* key product:<id>, or None
    reader,    \* where each reader is, and the product it found or returned
    writer,    \* where each writer is, what it wrote, what it answered
    causes     \* history: what made the cached version out of date

table == <<row, versions, category>>

vars == <<row, versions, category, cache, reader, writer, causes>>

None == 0

Versions == 1 .. MaxVersion

ReaderSteps == {"idle", "find", "set"}
WriterSteps == {"idle", "invalidate", "reply"}

CategoryStates == {"absent", "unused", "used"}

\* An idle reader has returned a product, or an error if val is None.
ReaderType == [at : ReaderSteps, val : Versions \cup {None}]

\* wrote and answer are None for a Delete, answer until an Update responds.
WriterType == [at : WriterSteps, wrote : Versions \cup {None},
               answer : Versions \cup {None}]

\* Only a product that was found is put into the cache.
TypeOK ==
    /\ row \in Versions \cup {None}
    /\ versions \in Versions \cup {None}
    /\ category \in CategoryStates
    /\ cache \in Versions \cup {None}
    /\ reader \in [Readers -> ReaderType]
    /\ \A r \in Readers : reader[r].at = "set" => reader[r].val # None
    /\ writer \in [Writers -> WriterType]
    /\ causes \subseteq {"lateFill", "lostInvalidation", "lostAnswer", "category"}

Init ==
    /\ row = None
    /\ versions = 0
    /\ category = "absent"
    /\ cache = None
    /\ reader = [r \in Readers |-> [at |-> "idle", val |-> None]]
    /\ writer = [w \in Writers |-> [at |-> "idle", wrote |-> None, answer |-> None]]
    /\ causes = {}

UpToDate(v) == v = None \/ v = row

-----------------------------------------------------------------------------
(***************************************************************************)
(* GetByID, called by the HTTP handler and by GetProduct.                  *)
(***************************************************************************)
Read(r, at, val) == reader' = [reader EXCEPT ![r] = [at |-> at, val |-> val]]

GetHits(r) ==
    /\ reader[r].at = "idle"
    /\ cache # None
    /\ Read(r, "idle", cache)
    /\ UNCHANGED <<table, cache, writer, causes>>

\* The key is not there, or Redis does not answer.
GetMisses(r) ==
    /\ reader[r].at = "idle"
    /\ Read(r, "find", None)
    /\ UNCHANGED <<table, cache, writer, causes>>

\* Mutant: a product that is not found is cached like any other.
FindCachesNothing(r) ==
    /\ reader[r].at = "find"
    /\ Read(r, "set", row)
    /\ UNCHANGED <<table, cache, writer, causes>>

Find(r) ==
    /\ reader[r].at = "find"
    /\ row # None
    /\ Read(r, "set", row)
    /\ UNCHANGED <<table, cache, writer, causes>>

\* ErrNotFound, and any other error, is returned before the cache is touched.
GetFails(r) ==
    /\ reader[r].at = "find"
    /\ Read(r, "idle", None)
    /\ UNCHANGED <<table, cache, writer, causes>>

\* Set stores what Find saw, whatever became of it since.
Set(r) ==
    /\ reader[r].at = "set"
    /\ Read(r, "idle", reader[r].val)
    /\ cache' = reader[r].val
    /\ causes' = IF UpToDate(reader[r].val) THEN {} ELSE causes \cup {"lateFill"}
    /\ UNCHANGED <<table, writer>>

SetFails(r) ==
    /\ reader[r].at = "set"
    /\ Read(r, "idle", reader[r].val)
    /\ UNCHANGED <<table, cache, writer, causes>>

-----------------------------------------------------------------------------
(***************************************************************************)
(* Update and Delete.                                                      *)
(***************************************************************************)
Written(w, at, wrote) ==
    writer' = [writer EXCEPT ![w] = [at |-> at, wrote |-> wrote, answer |-> None]]

\* INSERT or UPDATE writes every column of the row, the category's id included,
\* which the foreign key admits only while the category is there.
WriteRow ==
    /\ versions < MaxVersion
    /\ versions' = versions + 1
    /\ row' = versions + 1
    /\ \/ category = "absent" /\ UNCHANGED category
       \/ category # "absent" /\ category' \in {"unused", "used"}

\* A new product is not put into the cache.
Create ==
    /\ versions = 0
    /\ WriteRow
    /\ UNCHANGED <<cache, reader, writer, causes>>

DeleteRow ==
    /\ row' = None
    /\ category' = IF category = "used" THEN "unused" ELSE category
    /\ UNCHANGED versions

\* Mutant: Update answers at once and leaves the cached product to expire.
UpdateKeepsCache(w) ==
    /\ writer[w].at = "idle"
    /\ row # None
    /\ WriteRow
    /\ Written(w, "reply", versions + 1)
    /\ UNCHANGED <<cache, reader, causes>>

Update(w) ==
    /\ writer[w].at = "idle"
    /\ row # None
    /\ WriteRow
    /\ Written(w, "invalidate", versions + 1)
    /\ UNCHANGED <<cache, reader, causes>>

\* Mutant: the cached product is left to expire.
DeleteKeepsCache(w) ==
    /\ writer[w].at = "idle"
    /\ row # None
    /\ DeleteRow
    /\ UNCHANGED <<cache, reader, writer, causes>>

Delete(w) ==
    /\ writer[w].at = "idle"
    /\ row # None
    /\ DeleteRow
    /\ Written(w, "invalidate", None)
    /\ UNCHANGED <<cache, reader, causes>>

\* The statement is executed but its answer does not arrive: the error is
\* returned before the cache is invalidated.
AnswerLost(w) ==
    /\ writer[w].at = "idle"
    /\ row # None
    /\ WriteRow \/ DeleteRow
    /\ Written(w, "idle", None)
    /\ causes' = IF cache = None THEN causes ELSE causes \cup {"lostAnswer"}
    /\ UNCHANGED <<cache, reader>>

\* Delete is done, Update still reads the row.
AfterInvalidation(w) ==
    \/ /\ writer[w].wrote = None
       /\ writer' = [writer EXCEPT ![w].at = "idle"]
    \/ /\ writer[w].wrote # None
       /\ writer' = [writer EXCEPT ![w].at = "reply"]

Invalidate(w) ==
    /\ writer[w].at = "invalidate"
    /\ AfterInvalidation(w)
    /\ cache' = None
    /\ causes' = {}
    /\ UNCHANGED <<table, reader>>

\* Redis is not there, or the request was cancelled or the service stopped
\* after the statement.
InvalidateFails(w) ==
    /\ writer[w].at = "invalidate"
    /\ AfterInvalidation(w)
    /\ causes' = IF UpToDate(cache) THEN causes
                                   ELSE causes \cup {"lostInvalidation"}
    /\ UNCHANGED <<table, cache, reader>>

Replied(w, answer) ==
    writer' = [writer EXCEPT ![w] = [at |-> "idle", wrote |-> @.wrote, answer |-> answer]]

\* Update answers with what FindByID reads.
Reply(w) ==
    /\ writer[w].at = "reply"
    /\ row # None
    /\ Replied(w, row)
    /\ UNCHANGED <<table, cache, reader, causes>>

\* The product was deleted meanwhile, or cannot be read: the response is an
\* error although the update was written.
ReplyFails(w) ==
    /\ writer[w].at = "reply"
    /\ Replied(w, None)
    /\ UNCHANGED <<table, cache, reader, causes>>

-----------------------------------------------------------------------------
(***************************************************************************)
(* The category: its name is unique, and a rename shows in no product.     *)
(***************************************************************************)
CreateCategory ==
    /\ category = "absent"
    /\ category' = "unused"
    /\ UNCHANGED <<row, versions, cache, reader, writer, causes>>

\* ON DELETE SET NULL writes a new version of a product that refers to the
\* category; the handler does not know of products and invalidates nothing.
DeleteCategory ==
    /\ category # "absent"
    /\ category' = "absent"
    /\ IF category = "used"
          THEN /\ versions < MaxVersion
               /\ versions' = versions + 1
               /\ row' = versions + 1
               /\ causes' = IF cache = None THEN causes ELSE causes \cup {"category"}
          ELSE UNCHANGED <<row, versions, causes>>
    /\ UNCHANGED <<cache, reader, writer>>

-----------------------------------------------------------------------------
\* The five minutes of the key are over.
Expire ==
    /\ cache # None
    /\ cache' = None
    /\ causes' = {}
    /\ UNCHANGED <<table, reader, writer>>

ReadReturns(r) == Find(r) \/ GetFails(r) \/ Set(r) \/ SetFails(r)

Administer ==
    \/ \E w \in Writers :
          \/ AnswerLost(w)
          \/ Update(w)
          \/ Delete(w)
          \/ Invalidate(w)
          \/ InvalidateFails(w)
          \/ Reply(w)
          \/ ReplyFails(w)
    \/ Create
    \/ CreateCategory
    \/ DeleteCategory

Next ==
    \/ \E r \in Readers : GetHits(r) \/ GetMisses(r) \/ ReadReturns(r)
    \/ Administer
    \/ Expire

Spec == Init /\ [][Next]_vars
-----------------------------------------------------------------------------
(***************************************************************************)
(* StaleHasCause: the cache holds a version the database has replaced or   *)
(* deleted only while the writer has yet to invalidate it, after a reader  *)
(* stored what it had read before the change, after Redis failed to        *)
(* invalidate it, after the database's answer to the change was lost, or   *)
(* after the product's category was deleted.                               *)
(***************************************************************************)
MayBeStale ==
    \/ \E w \in Writers : writer[w].at = "invalidate"
    \/ causes # {}

StaleHasCause == ~ UpToDate(cache) => MayBeStale

(***************************************************************************)
(* ReadYourWrite: what an Update answers is never older than what it       *)
(* wrote, whatever is cached meanwhile and however writers overlap.        *)
(***************************************************************************)
ReadYourWrite ==
    \A w \in Writers :
       writer[w].answer # None => writer[w].answer >= writer[w].wrote
=============================================================================
