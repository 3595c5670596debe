--------------------------- MODULE InventoryWorkers ---------------------------
(***************************************************************************)
(* ConsumeOrders of the inventory service: per worker a goroutine that     *)
(* fetches messages, a channel of one place and a goroutine that processes *)
(* them; one channel for the errors of all; one goroutine that waits for   *)
(* the workers and closes that channel; and ConsumeOrders itself, which    *)
(* returns the first error it receives.                                    *)
(*                                                                         *)
(* Every worker has a reader of its own and, between two rebalances of the *)
(* group, partitions of its own; they are one numbered sequence here.      *)
(* processOrderEvent is one step: OrderWorkflow is about what it does.     *)
(***************************************************************************)
EXTENDS Naturals, FiniteSets

CONSTANTS
    Workers,      \* s.workers goroutines
    MaxMessages,  \* bound on the messages of each worker's partitions
    MaxFailures   \* bound on the fetches and messages that fail by themselves

ASSUME InventoryWorkersAssumption ==
    /\ Workers # {} /\ IsFiniteSet(Workers)
    /\ MaxMessages \in Nat
    /\ MaxFailures \in Nat

VARIABLES
    cancelled,  \* workerCtx is done
    fetcher,    \* the fetching goroutine of each worker, and what it fetched
    jobs,       \* channel jobs: the message in its buffer, or None
    worker,     \* the processing goroutine of each worker, and its message
    committed,  \* messages each worker's reader committed
    errors,     \* number of errors in the buffer of errChannel
    closed,     \* errChannel is closed
    returned,   \* ConsumeOrders has returned
    failures    \* number of failures so far

vars == <<cancelled, fetcher, jobs, worker, committed, errors, closed,
          returned, failures>>

None == 0

Messages == 1 .. MaxMessages

\* errChannel := make(chan error, s.workers)
Capacity == Cardinality(Workers)

(***************************************************************************)
(* A fetcher is at "fetch", has a message to "push" or an error to "send", *)
(* or has returned, with fetchDone and jobs closed.  Its msg is the last   *)
(* message the reader delivered.                                           *)
(***************************************************************************)
FetcherSteps == {"fetch", "push", "send", "done"}

WorkerSteps == {"select", "process", "report", "cancel", "await", "done"}

TypeOK ==
    /\ cancelled \in BOOLEAN
    /\ fetcher \in [Workers -> [at : FetcherSteps, msg : 0 .. MaxMessages]]
    /\ jobs \in [Workers -> Messages \cup {None}]
    /\ worker \in [Workers -> [at : WorkerSteps, msg : 0 .. MaxMessages]]
    /\ committed \in [Workers -> SUBSET Messages]
    /\ errors \in 0 .. Capacity
    /\ closed \in BOOLEAN
    /\ returned \in BOOLEAN
    /\ failures \in 0 .. MaxFailures

Init ==
    /\ cancelled = FALSE
    /\ fetcher = [w \in Workers |-> [at |-> "fetch", msg |-> 0]]
    /\ jobs = [w \in Workers |-> None]
    /\ worker = [w \in Workers |-> [at |-> "select", msg |-> 0]]
    /\ committed = [w \in Workers |-> {}]
    /\ errors = 0
    /\ closed = FALSE
    /\ returned = FALSE
    /\ failures = 0

MoveFetcher(w, step) == fetcher' = [fetcher EXCEPT ![w].at = step]

MoveWorker(w, step) == worker' = [worker EXCEPT ![w].at = step]

\* A call fails because its context is done, or by itself.
CallFails ==
    \/ cancelled /\ UNCHANGED failures
    \/ failures < MaxFailures /\ failures' = failures + 1

-----------------------------------------------------------------------------
(***************************************************************************)
(* The fetching goroutine.                                                 *)
(***************************************************************************)
FetchSucceeds(w) ==
    /\ fetcher[w].at = "fetch"
    /\ fetcher[w].msg < MaxMessages
    /\ fetcher' = [fetcher EXCEPT ![w] = [at |-> "push", msg |-> @.msg + 1]]
    /\ UNCHANGED <<cancelled, jobs, worker, committed, errors, closed,
                   returned, failures>>

\* Mutant: the fetcher tries again, also when its context is done.
FetchFailsRetries(w) ==
    /\ fetcher[w].at = "fetch"
    /\ CallFails
    /\ MoveFetcher(w, IF cancelled THEN "fetch" ELSE "send")
    /\ UNCHANGED <<cancelled, jobs, worker, committed, errors, closed, returned>>

\* The error is sent unless the context was done when the fetcher looked.
FetchFails(w) ==
    /\ fetcher[w].at = "fetch"
    /\ CallFails
    /\ MoveFetcher(w, IF cancelled THEN "done" ELSE "send")
    /\ UNCHANGED <<cancelled, jobs, worker, committed, errors, closed, returned>>

\* This send has no alternative: it waits for a place in the buffer.
SendError(w) ==
    /\ fetcher[w].at = "send"
    /\ errors < Capacity
    /\ errors' = errors + 1
    /\ MoveFetcher(w, "done")
    /\ UNCHANGED <<cancelled, jobs, worker, committed, closed, returned, failures>>

Push(w) ==
    /\ fetcher[w].at = "push"
    /\ jobs[w] = None
    /\ jobs' = [jobs EXCEPT ![w] = fetcher[w].msg]
    /\ MoveFetcher(w, "fetch")
    /\ UNCHANGED <<cancelled, worker, committed, errors, closed, returned,
                   failures>>

\* case <-workerCtx.Done(): the message is dropped, uncommitted.
PushCancelled(w) ==
    /\ fetcher[w].at = "push"
    /\ cancelled
    /\ MoveFetcher(w, "done")
    /\ UNCHANGED <<cancelled, jobs, worker, committed, errors, closed, returned,
                   failures>>

-----------------------------------------------------------------------------
(***************************************************************************)
(* The processing goroutine.                                               *)
(***************************************************************************)
Take(w) ==
    /\ worker[w].at = "select"
    /\ jobs[w] # None
    /\ worker' = [worker EXCEPT ![w] = [at |-> "process", msg |-> jobs[w]]]
    /\ jobs' = [jobs EXCEPT ![w] = None]
    /\ UNCHANGED <<cancelled, fetcher, committed, errors, closed, returned,
                   failures>>

\* Mutant: the zero message of the closed channel is processed.
TakeClosedIgnored(w) ==
    /\ worker[w].at = "select"
    /\ jobs[w] = None
    /\ fetcher[w].at = "done"
    /\ worker' = [worker EXCEPT ![w] = [at |-> "process", msg |-> None]]
    /\ UNCHANGED <<cancelled, fetcher, jobs, committed, errors, closed,
                   returned, failures>>

\* jobs is closed and empty.
TakeClosed(w) ==
    /\ worker[w].at = "select"
    /\ jobs[w] = None
    /\ fetcher[w].at = "done"
    /\ MoveWorker(w, "done")
    /\ UNCHANGED <<cancelled, fetcher, jobs, committed, errors, closed,
                   returned, failures>>

\* Mutant: the worker returns without waiting for its fetcher.
SelectCancelledReturns(w) ==
    /\ worker[w].at = "select"
    /\ cancelled
    /\ MoveWorker(w, "done")
    /\ UNCHANGED <<cancelled, fetcher, jobs, committed, errors, closed,
                   returned, failures>>

\* case <-workerCtx.Done(), also when a message is ready.
SelectCancelled(w) ==
    /\ worker[w].at = "select"
    /\ cancelled
    /\ MoveWorker(w, "await")
    /\ UNCHANGED <<cancelled, fetcher, jobs, committed, errors, closed,
                   returned, failures>>

CommitMessage(w) ==
    committed' = [committed EXCEPT ![w] = @ \cup {worker[w].msg}]

Process(w) ==
    /\ worker[w].at = "process"
    /\ CommitMessage(w)
    /\ MoveWorker(w, "select")
    /\ UNCHANGED <<cancelled, fetcher, jobs, errors, closed, returned, failures>>

\* Mutant: a message that fails is left behind and the worker goes on.
ProcessFailsGoesOn(w) ==
    /\ worker[w].at = "process"
    /\ CallFails
    /\ UNCHANGED committed \/ CommitMessage(w)
    /\ MoveWorker(w, "select")
    /\ UNCHANGED <<cancelled, fetcher, jobs, errors, closed, returned>>

\* A success whose result cannot be published fails after the commit.
ProcessFails(w) ==
    /\ worker[w].at = "process"
    /\ CallFails
    /\ UNCHANGED committed \/ CommitMessage(w)
    /\ MoveWorker(w, "report")
    /\ UNCHANGED <<cancelled, fetcher, jobs, errors, closed, returned>>

\* Mutant: the error is dropped and ConsumeOrders goes on without the worker.
ReportDropped(w) ==
    /\ worker[w].at = "report"
    /\ MoveWorker(w, "await")
    /\ UNCHANGED <<cancelled, fetcher, jobs, committed, errors, closed,
                   returned, failures>>

\* This send has a default: an error that finds the buffer full is dropped.
Report(w) ==
    /\ worker[w].at = "report"
    /\ errors' = IF errors < Capacity THEN errors + 1 ELSE errors
    /\ MoveWorker(w, "cancel")
    /\ UNCHANGED <<cancelled, fetcher, jobs, committed, closed, returned,
                   failures>>

Cancel(w) ==
    /\ worker[w].at = "cancel"
    /\ cancelled' = TRUE
    /\ MoveWorker(w, "await")
    /\ UNCHANGED <<fetcher, jobs, committed, errors, closed, returned, failures>>

\* <-fetchDone
AwaitFetcher(w) ==
    /\ worker[w].at = "await"
    /\ fetcher[w].at = "done"
    /\ MoveWorker(w, "done")
    /\ UNCHANGED <<cancelled, fetcher, jobs, committed, errors, closed,
                   returned, failures>>

-----------------------------------------------------------------------------
\* wg.Wait(), then close(errChannel)
CloseErrors ==
    /\ \A w \in Workers : worker[w].at = "done"
    /\ ~ closed
    /\ closed' = TRUE
    /\ UNCHANGED <<cancelled, fetcher, jobs, worker, committed, errors,
                   returned, failures>>

\* ConsumeOrders receives an error, cancels and returns it.
ReturnError ==
    /\ ~ returned
    /\ errors > 0
    /\ errors' = errors - 1
    /\ cancelled' = TRUE
    /\ returned' = TRUE
    /\ UNCHANGED <<fetcher, jobs, worker, committed, closed, failures>>

\* The range over errChannel ends; the deferred cancel runs.
ReturnClosed ==
    /\ ~ returned
    /\ errors = 0
    /\ closed
    /\ cancelled' = TRUE
    /\ returned' = TRUE
    /\ UNCHANGED <<fetcher, jobs, worker, committed, errors, closed, failures>>

\* The service is told to stop, or its HTTP server failed: ctx is done.
Shutdown ==
    /\ ~ cancelled
    /\ cancelled' = TRUE
    /\ UNCHANGED <<fetcher, jobs, worker, committed, errors, closed, returned,
                   failures>>

FetcherNext(w) ==
    FetchSucceeds(w) \/ FetchFails(w) \/ SendError(w) \/ Push(w)
       \/ PushCancelled(w)

WorkerNext(w) ==
    \/ Take(w)
    \/ TakeClosed(w)
    \/ SelectCancelled(w)
    \/ Process(w)
    \/ ProcessFails(w)
    \/ Report(w)
    \/ Cancel(w)
    \/ AwaitFetcher(w)

ConsumeOrdersNext == CloseErrors \/ ReturnError \/ ReturnClosed

Next ==
    \/ \E w \in Workers : FetcherNext(w) \/ WorkerNext(w)
    \/ ConsumeOrdersNext
    \/ Shutdown

Spec == Init /\ [][Next]_vars

(***************************************************************************)
(* Fairness: the Go scheduler runs every goroutine that can go on, and a   *)
(* call whose context is done returns.  A fetch need not return otherwise. *)
(***************************************************************************)
Fairness ==
    /\ \A w \in Workers :
          /\ WF_vars(SendError(w) \/ Push(w) \/ PushCancelled(w))
          /\ WF_vars(cancelled /\ FetcherNext(w))
          /\ WF_vars(WorkerNext(w))
    /\ WF_vars(CloseErrors)
    /\ WF_vars(ReturnError \/ ReturnClosed)

FairSpec == Spec /\ Fairness
-----------------------------------------------------------------------------
(***************************************************************************)
(* NoSendOnClosed: errChannel is closed only when no goroutine can still   *)
(* send on it, the fetchers included, for which wg does not wait: a send   *)
(* on a closed channel would crash the service.                            *)
(***************************************************************************)
NoSendOnClosed ==
    closed => \A w \in Workers : /\ fetcher[w].at = "done"
                                 /\ worker[w].at = "done"

(***************************************************************************)
(* NothingSkipped: a commit covers every earlier message of the partition, *)
(* so a worker commits a message only when it has committed all before it, *)
(* whatever failed, was dropped or was left in the channel.                *)
(***************************************************************************)
NothingSkipped ==
    \A w \in Workers : \A m \in committed[w] : 1 .. m \subseteq committed[w]

Failing(w) == fetcher[w].at = "send" \/ worker[w].at = "report"

(***************************************************************************)
(* ErrorEndsConsumeOrders: when a worker or its fetcher fails, or the      *)
(* service is told to stop, ConsumeOrders returns, upon which main stops   *)
(* the service.  No error makes it wait forever for goroutines that wait   *)
(* for it.                                                                 *)
(***************************************************************************)
ErrorEndsConsumeOrders ==
    (cancelled \/ \E w \in Workers : Failing(w)) ~> returned

\* The fetcher's error finds errChannel full, and nobody receives any more.
Stranded(w) == fetcher[w].at = "send" /\ errors = Capacity /\ returned

(***************************************************************************)
(* GoroutinesEnd: once the context is done, every worker and its fetcher   *)
(* return, except those whose fetcher is stranded.                         *)
(***************************************************************************)
GoroutinesEnd ==
    \A w \in Workers :
       cancelled ~> \/ fetcher[w].at = "done" /\ worker[w].at = "done"
                    \/ Stranded(w)

(***************************************************************************)
(* The goroutines that can go on: ConsumeOrders, the one that closes       *)
(* errChannel, and a worker or its fetcher.  A fetcher that waits for a    *)
(* message is not counted, unless its context is done.                     *)
(***************************************************************************)
ConsumeOrdersCanGo ==
    \/ ~ returned /\ (errors > 0 \/ closed)
    \/ ~ closed /\ \A w \in Workers : worker[w].at = "done"

FetcherCanGo(w) ==
    \/ fetcher[w].at = "fetch" /\ cancelled
    \/ fetcher[w].at = "push" /\ (jobs[w] = None \/ cancelled)
    \/ fetcher[w].at = "send" /\ errors < Capacity

WorkerCanGo(w) ==
    \/ worker[w].at \in {"process", "report", "cancel"}
    \/ worker[w].at = "select" /\ (jobs[w] # None \/ fetcher[w].at = "done" \/ cancelled)
    \/ worker[w].at = "await" /\ fetcher[w].at = "done"

(***************************************************************************)
(* NeverStuck, what ErrorEndsConsumeOrders and GoroutinesEnd need of every *)
(* state: until ConsumeOrders returns what has failed or was cancelled,    *)
(* one of its goroutines can go on; and once it has returned, each worker  *)
(* has ended with its fetcher, or one of the two can go on, or the fetcher *)
(* is stranded on the full channel nobody receives from.                   *)
(***************************************************************************)
NeverStuck ==
    /\ ~ returned /\ (cancelled \/ \E w \in Workers : Failing(w))
          => ConsumeOrdersCanGo \/ \E w \in Workers : FetcherCanGo(w) \/ WorkerCanGo(w)
    /\ returned => \A w \in Workers :
          \/ fetcher[w].at = "done" /\ worker[w].at = "done"
          \/ FetcherCanGo(w) \/ WorkerCanGo(w)
          \/ Stranded(w)

(***************************************************************************)
(* ErrorBeforeCancel: a worker that fails cancels the others only when     *)
(* ConsumeOrders has an error to return or has returned already, whether   *)
(* the worker's own error found a place in errChannel or was dropped.  The *)
(* service never stops consuming with nothing to report.                   *)
(***************************************************************************)
ErrorBeforeCancel ==
    \A w \in Workers : worker[w].at = "cancel" => errors > 0 \/ returned
=============================================================================
