------------------------------ MODULE WorkerPool ------------------------------
(***************************************************************************)
(* The generic worker pool: NewWorkerPool, Start, Submit and Close, with   *)
(* one caller that submits jobs and then closes the pool, as its test does *)
(* (Submit after Close would panic).  The errors of the handler are        *)
(* received by a goroutine of the caller, or only after Close has returned,*)
(* which is the order of the test.                                         *)
(***************************************************************************)
EXTENDS Naturals, Sequences, FiniteSets

CONSTANTS
    Workers,  \* p.workers goroutines
    Buffer,   \* capacity of the channel of jobs; 0 is a channel without buffer
    MaxJobs   \* bound on the jobs that are submitted

ASSUME WorkerPoolAssumption ==
    /\ Workers # {} /\ IsFiniteSet(Workers)  \* NewWorkerPool raises 0 to 1
    /\ Buffer \in Nat
    /\ MaxJobs \in Nat \ {0}

VARIABLES
    cancelled,     \* ctx is done
    caller,        \* where the caller is
    next,          \* the job that is submitted now, or was last
    jobs,          \* channel p.jobs
    worker,        \* the goroutines, and the job each has in hand
    errors,        \* number of errors in the buffer of the channel of errors
    errorsClosed,  \* the channel of errors is closed
    receiving,     \* somebody ranges over the channel of errors
    accepted,      \* history: jobs whose Submit returned nil
    handled        \* history: jobs whose handler has returned

vars == <<cancelled, caller, next, jobs, worker, errors, errorsClosed,
          receiving, accepted, handled>>

None == 0

Jobs == 1 .. MaxJobs

\* errors := make(chan error, p.workers)
Capacity == Cardinality(Workers)

\* In Submit, about to call Close, in its wg.Wait, or back from it.
CallerSteps == {"submit", "close", "wait", "returned"}

WorkerSteps == {"select", "handle", "report", "done"}

TypeOK ==
    /\ cancelled \in BOOLEAN
    /\ caller \in CallerSteps
    /\ next \in Jobs
    /\ jobs \in Seq(Jobs)
    /\ Len(jobs) <= Buffer
    /\ worker \in [Workers -> [at : WorkerSteps, job : Jobs \cup {None}]]
    /\ errors \in 0 .. Capacity
    /\ errorsClosed \in BOOLEAN
    /\ receiving \in BOOLEAN
    /\ accepted \subseteq Jobs
    /\ handled \subseteq Jobs

Init ==
    /\ cancelled = FALSE
    /\ caller = "submit"
    /\ next = 1
    /\ jobs = <<>>
    /\ worker = [w \in Workers |-> [at |-> "select", job |-> None]]
    /\ errors = 0
    /\ errorsClosed = FALSE
    /\ receiving \in BOOLEAN
    /\ accepted = {}
    /\ handled = {}

\* close(p.jobs) is the first thing Close does.
JobsClosed == caller \in {"wait", "returned"}

AllDone == \A w \in Workers : worker[w].at = "done"

MoveWorker(w, step) == worker' = [worker EXCEPT ![w].at = step]

Hand(w, job) == worker' = [worker EXCEPT ![w] = [at |-> "handle", job |-> job]]

-----------------------------------------------------------------------------
(***************************************************************************)
(* The caller.                                                             *)
(***************************************************************************)
\* After a Submit the caller submits another job or closes the pool.
CallerGoesOn ==
    \/ next < MaxJobs /\ next' = next + 1 /\ UNCHANGED caller
    \/ caller' = "close" /\ UNCHANGED next

\* Mutant: the buffer takes one job too many.
SubmitBeyond ==
    /\ caller = "submit"
    /\ Len(jobs) <= Buffer
    /\ jobs' = Append(jobs, next)
    /\ accepted' = accepted \cup {next}
    /\ CallerGoesOn
    /\ UNCHANGED <<cancelled, worker, errors, errorsClosed, receiving, handled>>

Submit ==
    /\ caller = "submit"
    /\ Len(jobs) < Buffer
    /\ jobs' = Append(jobs, next)
    /\ accepted' = accepted \cup {next}
    /\ CallerGoesOn
    /\ UNCHANGED <<cancelled, worker, errors, errorsClosed, receiving, handled>>

\* A worker that waits at its select takes the job from the sender.
HandOver(w) ==
    /\ caller = "submit"
    /\ jobs = <<>>
    /\ worker[w].at = "select"
    /\ Hand(w, next)
    /\ accepted' = accepted \cup {next}
    /\ CallerGoesOn
    /\ UNCHANGED <<cancelled, jobs, errors, errorsClosed, receiving, handled>>

SubmitCancelled ==
    /\ caller = "submit"
    /\ cancelled
    /\ CallerGoesOn
    /\ UNCHANGED <<cancelled, jobs, worker, errors, errorsClosed, receiving,
                   accepted, handled>>

Close ==
    /\ caller = "close"
    /\ caller' = "wait"
    /\ UNCHANGED <<cancelled, next, jobs, worker, errors, errorsClosed,
                   receiving, accepted, handled>>

\* p.wg.Wait returns; from here on the caller ranges over the errors.
CloseReturns ==
    /\ caller = "wait"
    /\ AllDone
    /\ caller' = "returned"
    /\ receiving' = TRUE
    /\ UNCHANGED <<cancelled, next, jobs, worker, errors, errorsClosed,
                   accepted, handled>>

Receive ==
    /\ receiving
    /\ errors > 0
    /\ errors' = errors - 1
    /\ UNCHANGED <<cancelled, caller, next, jobs, worker, errorsClosed,
                   receiving, accepted, handled>>

Cancel ==
    /\ ~ cancelled
    /\ cancelled' = TRUE
    /\ UNCHANGED <<caller, next, jobs, worker, errors, errorsClosed, receiving,
                   accepted, handled>>

-----------------------------------------------------------------------------
(***************************************************************************)
(* The goroutines of Start.                                                *)
(***************************************************************************)
\* Mutant: a worker takes a job without removing it from the queue.
TakeLeavesJob(w) ==
    /\ worker[w].at = "select"
    /\ jobs # <<>>
    /\ Hand(w, Head(jobs))
    /\ UNCHANGED <<cancelled, caller, next, jobs, errors, errorsClosed,
                   receiving, accepted, handled>>

Take(w) ==
    /\ worker[w].at = "select"
    /\ jobs # <<>>
    /\ Hand(w, Head(jobs))
    /\ jobs' = Tail(jobs)
    /\ UNCHANGED <<cancelled, caller, next, errors, errorsClosed, receiving,
                   accepted, handled>>

\* Mutant: a worker leaves as soon as the pool is closed.
TakeClosedEarly(w) ==
    /\ worker[w].at = "select"
    /\ JobsClosed
    /\ MoveWorker(w, "done")
    /\ UNCHANGED <<cancelled, caller, next, jobs, errors, errorsClosed,
                   receiving, accepted, handled>>

\* A closed channel is received from once it is empty.
TakeClosed(w) ==
    /\ worker[w].at = "select"
    /\ JobsClosed /\ jobs = <<>>
    /\ MoveWorker(w, "done")
    /\ UNCHANGED <<cancelled, caller, next, jobs, errors, errorsClosed,
                   receiving, accepted, handled>>

\* The select takes any of its ready cases: jobs may be waiting all the same.
SelectCancelled(w) ==
    /\ worker[w].at = "select"
    /\ cancelled
    /\ MoveWorker(w, "done")
    /\ UNCHANGED <<cancelled, caller, next, jobs, errors, errorsClosed,
                   receiving, accepted, handled>>

\* The handler returns nil or an error.
Handle(w) ==
    /\ worker[w].at = "handle"
    /\ handled' = handled \cup {worker[w].job}
    /\ MoveWorker(w, "select") \/ MoveWorker(w, "report")
    /\ UNCHANGED <<cancelled, caller, next, jobs, errors, errorsClosed,
                   receiving, accepted>>

Report(w) ==
    /\ worker[w].at = "report"
    /\ errors < Capacity
    /\ errors' = errors + 1
    /\ MoveWorker(w, "select")
    /\ UNCHANGED <<cancelled, caller, next, jobs, errorsClosed, receiving,
                   accepted, handled>>

\* Mutant: the report of an error has no alternative.
ReportCancelledWaits(w) == worker[w].at = "report" /\ cancelled /\ UNCHANGED vars

ReportCancelled(w) ==
    /\ worker[w].at = "report"
    /\ cancelled
    /\ MoveWorker(w, "done")
    /\ UNCHANGED <<cancelled, caller, next, jobs, errors, errorsClosed,
                   receiving, accepted, handled>>

\* Mutant: the channel is closed when the last job is taken.
CloseErrorsEarly ==
    /\ JobsClosed /\ jobs = <<>>
    /\ ~ errorsClosed
    /\ errorsClosed' = TRUE
    /\ UNCHANGED <<cancelled, caller, next, jobs, worker, errors, receiving,
                   accepted, handled>>

\* The goroutine that waits for the workers.
CloseErrors ==
    /\ AllDone
    /\ ~ errorsClosed
    /\ errorsClosed' = TRUE
    /\ UNCHANGED <<cancelled, caller, next, jobs, worker, errors, receiving,
                   accepted, handled>>

CallerNext ==
    \/ Submit
    \/ \E w \in Workers : HandOver(w)
    \/ SubmitCancelled
    \/ Close
    \/ CloseReturns

WorkerNext(w) ==
    \/ Take(w)
    \/ TakeClosed(w)
    \/ SelectCancelled(w)
    \/ Handle(w)
    \/ Report(w)
    \/ ReportCancelled(w)

Next ==
    \/ CallerNext
    \/ \E w \in Workers : WorkerNext(w)
    \/ Receive
    \/ CloseErrors
    \/ Cancel

Spec == Init /\ [][Next]_vars

\* Goroutines that can run do, and handlers return; nobody has to cancel.
Fairness ==
    /\ WF_vars(CallerNext)
    /\ \A w \in Workers : WF_vars(WorkerNext(w))
    /\ WF_vars(Receive)
    /\ WF_vars(CloseErrors)

FairSpec == Spec /\ Fairness
-----------------------------------------------------------------------------
\* The job that each worker is running.
Running == [w \in Workers |->
               IF worker[w].at = "handle" THEN worker[w].job ELSE None]

Queue == INSTANCE JobQueue WITH
            Jobs <- Jobs, Workers <- Workers, None <- None,
            accepted <- accepted, running <- Running, handled <- handled

(***************************************************************************)
(* QueueSpec: however workers, caller and cancellation interleave, the     *)
(* pool implements the plain queue: a job is run once, by one worker.      *)
(***************************************************************************)
QueueSpec == Queue!Spec

(***************************************************************************)
(* CloseMeansHandled: when Close returns, every job whose Submit returned  *)
(* nil has been handled, unless the context was cancelled.                 *)
(***************************************************************************)
CloseMeansHandled == caller = "returned" /\ ~ cancelled => accepted = handled

(***************************************************************************)
(* NoSendOnClosed: nobody sends on the channel of errors once it is        *)
(* closed, which would panic.                                              *)
(***************************************************************************)
NoSendOnClosed ==
    errorsClosed => \A w \in Workers : worker[w].at \notin {"handle", "report"}

\* The channel of errors is full and nobody receives: a worker that has
\* another error waits, and so does whoever waits for that worker.
Blocked ==
    /\ errors = Capacity /\ ~ receiving /\ ~ cancelled
    /\ \E w \in Workers : worker[w].at = "report"

Ended == caller = "returned" /\ errorsClosed /\ errors = 0

(***************************************************************************)
(* PoolEnds: Submit and Close return and the range over the errors ends,   *)
(* also after a cancellation; only a caller that leaves more errors        *)
(* unreceived than there are workers may wait for ever.                    *)
(***************************************************************************)
PoolEnds == ~ Ended ~> Ended \/ Blocked

\* Who can take a step, other than a cancellation.
CallerCanGo ==
    \/ /\ caller = "submit"
       /\ \/ Len(jobs) < Buffer
          \/ jobs = <<>> /\ \E w \in Workers : worker[w].at = "select"
          \/ cancelled
    \/ caller = "close"
    \/ caller = "wait" /\ AllDone

WorkerCanGo(w) ==
    \/ worker[w].at = "select" /\ (jobs # <<>> \/ JobsClosed \/ cancelled)
    \/ worker[w].at = "handle"
    \/ worker[w].at = "report" /\ (errors < Capacity \/ cancelled)

OthersCanGo == (receiving /\ errors > 0) \/ (AllDone /\ ~ errorsClosed)

(***************************************************************************)
(* NeverStuck: until everything has ended there is somebody whose next     *)
(* step is possible, not counting a cancellation, except for the one       *)
(* way of waiting for ever that Blocked describes.                         *)
(***************************************************************************)
NeverStuck ==
    Ended \/ Blocked \/ CallerCanGo \/ OthersCanGo \/ \E w \in Workers : WorkerCanGo(w)

\* The pool does not block in any use of it.
NeverBlocked == ~ Blocked
=============================================================================
