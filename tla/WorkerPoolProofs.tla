--------------------------- MODULE WorkerPoolProofs ---------------------------
(***************************************************************************)
(* Proofs about WorkerPool, for any finite number of workers, any buffer   *)
(* and any number of jobs.                                                 *)
(***************************************************************************)
EXTENDS WorkerPool, FiniteSetTheorems, SequenceTheorems, TLAPS

Handling(w, j) == worker[w].at = "handle" /\ worker[w].job = j

\* A job waits in the channel once, and no worker has it yet.
ChannelInv ==
    /\ \A i \in 1 .. Len(jobs) :
          /\ jobs[i] \in accepted
          /\ jobs[i] \notin handled
          /\ \A w \in Workers : ~ Handling(w, jobs[i])
    /\ \A i, k \in 1 .. Len(jobs) : i # k => jobs[i] # jobs[k]

\* One worker has a job in hand, and it is not handled yet.
HandInv ==
    \A w \in Workers : worker[w].at = "handle" =>
       /\ worker[w].job \in accepted \ handled
       /\ \A v \in Workers \ {w} : ~ Handling(v, worker[w].job)

\* The job that is being submitted was not accepted before.
AcceptedInv ==
    /\ handled \subseteq accepted
    /\ \A j \in accepted : j <= next /\ (caller = "submit" => j < next)

\* No accepted job is lost: it waits, or is in hand, or was handled.
NothingLost ==
    \A j \in accepted :
       \/ j \in handled
       \/ \E i \in 1 .. Len(jobs) : jobs[i] = j
       \/ \E w \in Workers : Handling(w, j)

\* Workers leave when there is nothing left to do, or cancelled.
DoneInv ==
    /\ \A w \in Workers :
          worker[w].at = "done" => cancelled \/ (JobsClosed /\ jobs = <<>>)
    /\ caller = "returned" \/ errorsClosed => AllDone

IndInv ==
    /\ TypeOK
    /\ ChannelInv
    /\ HandInv
    /\ AcceptedInv
    /\ NothingLost
    /\ DoneInv

-----------------------------------------------------------------------------
LEMMA CapacityIsNat == Capacity \in Nat \ {0}
<1>1. Capacity \in Nat
  BY WorkerPoolAssumption, FS_CardinalityType DEF Capacity
<1>2. Capacity # 0
  BY WorkerPoolAssumption, FS_EmptySet DEF Capacity
<1> QED BY <1>1, <1>2

LEMMA InitIndInv == Init => IndInv
<1> SUFFICES ASSUME Init PROVE IndInv
  OBVIOUS
<1>1. TypeOK
  <2>1. worker \in [Workers -> [at : WorkerSteps, job : Jobs \cup {None}]]
    BY DEF Init, WorkerSteps
  <2>2. jobs \in Seq(Jobs) /\ Len(jobs) <= Buffer
    BY WorkerPoolAssumption DEF Init
  <2>3. errors \in 0 .. Capacity
    BY CapacityIsNat DEF Init
  <2>4. cancelled \in BOOLEAN /\ errorsClosed \in BOOLEAN /\ receiving \in BOOLEAN
    BY Zenon DEF Init
  <2>5. /\ caller \in CallerSteps /\ next \in Jobs
        /\ accepted \subseteq Jobs /\ handled \subseteq Jobs
    BY WorkerPoolAssumption DEF Init, CallerSteps, Jobs
  <2> QED
    BY <2>1, <2>2, <2>3, <2>4, <2>5, Zenon DEF TypeOK
<1>2. ChannelInv /\ HandInv /\ AcceptedInv /\ NothingLost
  BY DEF Init, ChannelInv, HandInv, AcceptedInv, NothingLost
<1>3. DoneInv
  <2>1. ~ AllDone /\ \A w \in Workers : worker[w].at # "done"
    BY WorkerPoolAssumption DEF Init, AllDone
  <2> QED BY <2>1 DEF Init, DoneInv
<1> QED BY <1>1, <1>2, <1>3 DEF IndInv

LEMMA StutterIndInv == ASSUME IndInv, UNCHANGED vars PROVE IndInv'
BY DEF IndInv, TypeOK, ChannelInv, HandInv, AcceptedInv, NothingLost, DoneInv,
       Handling, JobsClosed, AllDone, vars

-----------------------------------------------------------------------------
(***************************************************************************)
(* Every action preserves IndInv.                                          *)
(***************************************************************************)
\* Where the goroutines are, after one of them moved.
LEMMA WorkerMoves ==
    ASSUME TypeOK, NEW w \in Workers, NEW step \in WorkerSteps, MoveWorker(w, step)
    PROVE  /\ worker' \in [Workers -> [at : WorkerSteps, job : Jobs \cup {None}]]
           /\ worker'[w].at = step /\ worker'[w].job = worker[w].job
           /\ \A v \in Workers \ {w} : worker'[v] = worker[v]
BY DEF TypeOK, MoveWorker

LEMMA WorkerTakes ==
    ASSUME TypeOK, NEW w \in Workers, NEW j \in Jobs, Hand(w, j)
    PROVE  /\ worker' \in [Workers -> [at : WorkerSteps, job : Jobs \cup {None}]]
           /\ worker'[w].at = "handle" /\ worker'[w].job = j
           /\ \A v \in Workers \ {w} : worker'[v] = worker[v]
BY DEF TypeOK, Hand, WorkerSteps

LEMMA SubmitIndInv == ASSUME IndInv, Submit PROVE IndInv'
<1> USE DEF IndInv
<1>1. /\ next \in Jobs /\ next \notin accepted
      /\ jobs \in Seq(Jobs) /\ jobs' = Append(jobs, next)
      /\ Len(jobs') = Len(jobs) + 1
      /\ \A i \in 1 .. Len(jobs) : jobs'[i] = jobs[i]
      /\ jobs'[Len(jobs) + 1] = next
      /\ Len(jobs) \in Nat
  BY DEF TypeOK, Submit, AcceptedInv, Jobs
<1>2. TypeOK'
  <2>1. jobs' \in Seq(Jobs) /\ Len(jobs') <= Buffer
    BY <1>1, WorkerPoolAssumption DEF Submit
  <2>2. caller' \in CallerSteps /\ next' \in Jobs /\ accepted' \subseteq Jobs
    BY <1>1, WorkerPoolAssumption DEF Submit, CallerGoesOn, TypeOK, Jobs, CallerSteps
  <2> QED
    BY <2>1, <2>2 DEF TypeOK, Submit
<1>3. ChannelInv'
  BY <1>1 DEF ChannelInv, HandInv, AcceptedInv, Submit, Handling
<1>4. HandInv'
  BY DEF HandInv, Submit, Handling
<1>5. AcceptedInv'
  BY <1>1 DEF AcceptedInv, Submit, CallerGoesOn, Jobs, TypeOK
<1>6. NothingLost'
  BY <1>1 DEF NothingLost, Submit, Handling
<1>7. DoneInv'
  BY DEF DoneInv, Submit, CallerGoesOn, JobsClosed, AllDone
<1> QED BY <1>2, <1>3, <1>4, <1>5, <1>6, <1>7

LEMMA HandOverIndInv ==
    ASSUME IndInv, NEW w \in Workers, HandOver(w) PROVE IndInv'
<1> USE DEF IndInv
<1>1. next \in Jobs /\ next \notin accepted /\ next \notin handled /\ jobs = <<>>
  BY DEF TypeOK, HandOver, AcceptedInv, Jobs
<1>2. /\ worker' \in [Workers -> [at : WorkerSteps, job : Jobs \cup {None}]]
      /\ worker'[w].at = "handle" /\ worker'[w].job = next
      /\ \A v \in Workers \ {w} : worker'[v] = worker[v]
  BY <1>1, WorkerTakes DEF HandOver
<1>3. TypeOK'
  <2>1. caller' \in CallerSteps /\ next' \in Jobs /\ accepted' \subseteq Jobs
    BY <1>1, WorkerPoolAssumption DEF HandOver, CallerGoesOn, TypeOK, Jobs, CallerSteps
  <2> QED
    BY <1>2, <2>1 DEF TypeOK, HandOver
<1>4. ChannelInv'
  BY <1>1 DEF ChannelInv, HandOver
<1>5. HandInv'
  BY <1>1, <1>2 DEF HandInv, HandOver, Handling
<1>6. AcceptedInv'
  BY <1>1 DEF AcceptedInv, HandOver, CallerGoesOn, Jobs, TypeOK
<1>7. NothingLost'
  BY <1>1, <1>2 DEF NothingLost, HandOver, Handling
<1>8. DoneInv'
  BY <1>2 DEF DoneInv, HandOver, CallerGoesOn, JobsClosed, AllDone
<1> QED BY <1>3, <1>4, <1>5, <1>6, <1>7, <1>8

\* Steps of the caller that leave jobs and workers alone.
LEMMA CallerIndInv ==
    ASSUME IndInv, SubmitCancelled \/ Close \/ CloseReturns PROVE IndInv'
<1> USE DEF IndInv
<1>1. UNCHANGED <<cancelled, jobs, worker, errors, errorsClosed, accepted, handled>>
  BY DEF SubmitCancelled, Close, CloseReturns
<1>2. TypeOK'
  <2>1. receiving' \in BOOLEAN
    BY Zenon DEF TypeOK, SubmitCancelled, Close, CloseReturns
  <2>2. caller' \in CallerSteps /\ next' \in Jobs
    BY WorkerPoolAssumption
    DEF TypeOK, SubmitCancelled, CallerGoesOn, Close, CloseReturns, CallerSteps, Jobs
  <2> QED BY <1>1, <2>1, <2>2 DEF TypeOK
<1>3. ChannelInv' /\ HandInv' /\ NothingLost'
  BY <1>1 DEF ChannelInv, HandInv, NothingLost, Handling
<1>4. AcceptedInv'
  BY <1>1 DEF AcceptedInv, SubmitCancelled, Close, CloseReturns, CallerGoesOn, TypeOK, Jobs
<1>5. DoneInv'
  BY <1>1 DEF DoneInv, AllDone, JobsClosed, SubmitCancelled, Close, CloseReturns,
              CallerGoesOn
<1> QED BY <1>2, <1>3, <1>4, <1>5

LEMMA TakeIndInv ==
    ASSUME IndInv, NEW w \in Workers, Take(w) PROVE IndInv'
<1> USE DEF IndInv
<1>1. /\ jobs \in Seq(Jobs) /\ Len(jobs) \in Nat \ {0}
      /\ Head(jobs) = jobs[1] /\ Head(jobs) \in Jobs
      /\ jobs' \in Seq(Jobs) /\ Len(jobs') = Len(jobs) - 1
      /\ \A i \in 1 .. Len(jobs) - 1 : jobs'[i] = jobs[i + 1]
  BY DEF TypeOK, Take
<1>2. /\ worker' \in [Workers -> [at : WorkerSteps, job : Jobs \cup {None}]]
      /\ worker'[w].at = "handle" /\ worker'[w].job = jobs[1]
      /\ \A v \in Workers \ {w} : worker'[v] = worker[v]
  BY <1>1, WorkerTakes DEF Take
<1>3. TypeOK'
  BY <1>1, <1>2, WorkerPoolAssumption DEF TypeOK, Take
<1>4. ChannelInv'
  BY <1>1, <1>2 DEF ChannelInv, Take, Handling
<1>5. HandInv'
  BY <1>1, <1>2 DEF HandInv, ChannelInv, Take, Handling
<1>6. AcceptedInv'
  BY DEF AcceptedInv, Take
<1>7. NothingLost'
  <2> SUFFICES ASSUME NEW j \in accepted, j \notin handled,
                      ~ \E v \in Workers : Handling(v, j)'
               PROVE  \E i \in 1 .. Len(jobs') : jobs'[i] = j
    BY DEF NothingLost, Take
  <2>1. ~ \E v \in Workers : Handling(v, j)
    BY <1>2 DEF Handling, Take
  <2>2. PICK i \in 1 .. Len(jobs) : jobs[i] = j
    BY <2>1 DEF NothingLost
  <2>3. i # 1
    BY <1>2, <2>2 DEF Handling
  <2>4. i - 1 \in 1 .. Len(jobs') /\ jobs'[i - 1] = j
    BY <1>1, <2>2, <2>3
  <2> QED BY <2>4
<1>8. DoneInv'
  BY <1>1, <1>2 DEF DoneInv, Take, JobsClosed, AllDone
<1> QED BY <1>3, <1>4, <1>5, <1>6, <1>7, <1>8

LEMMA HandleIndInv ==
    ASSUME IndInv, NEW w \in Workers, Handle(w) PROVE IndInv'
<1> USE DEF IndInv
<1>1. PICK step \in {"select", "report"} : MoveWorker(w, step)
  BY DEF Handle
<1>2. /\ worker' \in [Workers -> [at : WorkerSteps, job : Jobs \cup {None}]]
      /\ worker'[w].at = step
      /\ \A v \in Workers \ {w} : worker'[v] = worker[v]
  BY <1>1, WorkerMoves DEF WorkerSteps
<1>3. worker[w].job \in accepted \ handled /\ handled' = handled \cup {worker[w].job}
  BY DEF HandInv, Handle
<1>4. TypeOK'
  BY <1>2, <1>3 DEF TypeOK, Handle
<1>5. ChannelInv'
  BY <1>2, <1>3 DEF ChannelInv, Handle, Handling
<1>6. HandInv'
  BY <1>2, <1>3 DEF HandInv, Handle, Handling
<1>7. AcceptedInv' /\ NothingLost'
  BY <1>2, <1>3 DEF AcceptedInv, NothingLost, Handle, Handling
<1>8. DoneInv'
  BY <1>2 DEF DoneInv, Handle, JobsClosed, AllDone
<1> QED BY <1>4, <1>5, <1>6, <1>7, <1>8

\* Steps of a worker that has no job in hand, and gets none.
LEMMA WorkerIndInv ==
    ASSUME IndInv, NEW w \in Workers,
           \/ TakeClosed(w)
           \/ SelectCancelled(w)
           \/ Report(w)
           \/ ReportCancelled(w)
    PROVE  IndInv'
<1> USE DEF IndInv
<1>1. /\ UNCHANGED <<cancelled, caller, next, jobs, errorsClosed, receiving, accepted, handled>>
      /\ worker[w].at \in {"select", "report"}
      /\ \/ MoveWorker(w, "select") /\ worker[w].at = "report"
         \/ /\ MoveWorker(w, "done")
            /\ cancelled \/ (JobsClosed /\ jobs = <<>>)
  BY DEF TakeClosed, SelectCancelled, Report, ReportCancelled
<1>2. PICK step \in {"select", "done"} :
         /\ MoveWorker(w, step)
         /\ step = "done" => cancelled \/ (JobsClosed /\ jobs = <<>>)
  BY <1>1
<1>3. /\ worker' \in [Workers -> [at : WorkerSteps, job : Jobs \cup {None}]]
      /\ worker'[w].at = step
      /\ \A v \in Workers \ {w} : worker'[v] = worker[v]
  BY <1>2, WorkerMoves DEF WorkerSteps
<1>4. errors' \in 0 .. Capacity
  BY CapacityIsNat DEF TypeOK, TakeClosed, SelectCancelled, Report, ReportCancelled
<1>5. TypeOK'
  BY <1>1, <1>3, <1>4, Zenon DEF TypeOK
<1>6. ChannelInv' /\ HandInv' /\ NothingLost'
  BY <1>1, <1>3 DEF ChannelInv, HandInv, NothingLost, Handling
<1>7. AcceptedInv'
  BY <1>1 DEF AcceptedInv
<1>8. DoneInv'
  BY <1>1, <1>2, <1>3 DEF DoneInv, JobsClosed, AllDone
<1> QED BY <1>5, <1>6, <1>7, <1>8

\* The receiver, the goroutine that closes the channel of errors, and ctx.
LEMMA OthersIndInv ==
    ASSUME IndInv, Receive \/ CloseErrors \/ Cancel PROVE IndInv'
<1> USE DEF IndInv
<1>1. UNCHANGED <<caller, next, jobs, worker, receiving, accepted, handled>>
  BY DEF Receive, CloseErrors, Cancel
<1>2. TypeOK'
  <2>1. errors' \in 0 .. Capacity
    BY CapacityIsNat DEF TypeOK, Receive, CloseErrors, Cancel
  <2>2. cancelled' \in BOOLEAN /\ errorsClosed' \in BOOLEAN
    BY Zenon DEF TypeOK, Receive, CloseErrors, Cancel
  <2> QED BY <1>1, <2>1, <2>2, Zenon DEF TypeOK
<1>3. ChannelInv' /\ HandInv' /\ NothingLost' /\ AcceptedInv'
  BY <1>1 DEF ChannelInv, HandInv, NothingLost, AcceptedInv, Handling
<1>4. DoneInv'
  BY <1>1 DEF DoneInv, JobsClosed, AllDone, Receive, CloseErrors, Cancel
<1> QED BY <1>2, <1>3, <1>4

LEMMA IndInvStep == ASSUME IndInv, [Next]_vars PROVE IndInv'
<1>1. ASSUME CallerNext PROVE IndInv'
  BY <1>1, SubmitIndInv, HandOverIndInv, CallerIndInv DEF CallerNext
<1>2. ASSUME NEW w \in Workers, WorkerNext(w) PROVE IndInv'
  BY <1>2, TakeIndInv, HandleIndInv, WorkerIndInv DEF WorkerNext
<1>3. ASSUME Receive \/ CloseErrors \/ Cancel PROVE IndInv'
  BY <1>3, OthersIndInv
<1> QED BY <1>1, <1>2, <1>3, StutterIndInv DEF Next

-----------------------------------------------------------------------------
(***************************************************************************)
(* InductiveInvariant: the inductive invariant holds in every reachable    *)
(* state.  Its heart is where a job may be between Submit and its handler: *)
(* in the channel or in the hands of one worker, never in both and never   *)
(* nowhere.                                                                *)
(***************************************************************************)
THEOREM InductiveInvariant == Spec => []IndInv
BY InitIndInv, IndInvStep, PTL DEF Spec

(***************************************************************************)
(* TypeCorrect: both channels stay within their capacities.                *)
(***************************************************************************)
THEOREM TypeCorrect == Spec => []TypeOK
<1>1. IndInv => TypeOK
  BY DEF IndInv
<1> QED BY <1>1, InductiveInvariant, PTL

(***************************************************************************)
(* ClosesHandled: when Close returns without a cancellation, every job     *)
(* whose Submit returned nil has been handled.                             *)
(***************************************************************************)
THEOREM ClosesHandled == Spec => []CloseMeansHandled
<1>1. IndInv => CloseMeansHandled
  <2> SUFFICES ASSUME IndInv, caller = "returned", ~ cancelled
               PROVE  accepted = handled
    BY DEF CloseMeansHandled
  <2>1. AllDone
    BY DEF IndInv, DoneInv
  <2>2. jobs = <<>>
    BY <2>1, WorkerPoolAssumption DEF IndInv, DoneInv, AllDone
  <2>3. accepted \subseteq handled
    BY <2>1, <2>2 DEF IndInv, NothingLost, Handling, AllDone
  <2> QED BY <2>3 DEF IndInv, AcceptedInv
<1> QED BY <1>1, InductiveInvariant, PTL

(***************************************************************************)
(* NeverSendsOnClosed: nobody can send on the channel of errors once it is *)
(* closed.                                                                 *)
(***************************************************************************)
THEOREM NeverSendsOnClosed == Spec => []NoSendOnClosed
<1>1. IndInv => NoSendOnClosed
  BY DEF IndInv, DoneInv, AllDone, NoSendOnClosed
<1> QED BY <1>1, InductiveInvariant, PTL

-----------------------------------------------------------------------------
(***************************************************************************)
(* The refinement of JobQueue.                                             *)
(***************************************************************************)
\* A worker that moves without a job in hand runs the same as before.
LEMMA SameRunning ==
    ASSUME TypeOK, NEW w \in Workers, NEW step \in WorkerSteps \ {"handle"},
           worker[w].at # "handle", MoveWorker(w, step)
    PROVE  UNCHANGED Running
<1>1. /\ worker'[w].at = step
      /\ \A v \in Workers \ {w} : worker'[v] = worker[v]
  BY WorkerMoves
<1> QED BY <1>1 DEF Running

LEMMA NextRunning ==
    ASSUME IndInv, NEW w \in Workers, worker[w].at = "select",
           NEW j \in Jobs, j \notin handled,
           \A v \in Workers : ~ Handling(v, j),
           Hand(w, j), UNCHANGED handled, accepted' = accepted \cup {j}
    PROVE  Queue!Start(w, j)
<1>1. /\ worker'[w].at = "handle" /\ worker'[w].job = j
      /\ \A v \in Workers \ {w} : worker'[v] = worker[v]
  BY WorkerTakes DEF IndInv
<1>2. Running[w] = None /\ Running' = [Running EXCEPT ![w] = j]
  BY <1>1 DEF Running
<1>3. \A v \in Workers : Running[v] # j
  BY DEF Running, Handling, None, Jobs
<1> QED BY <1>2, <1>3 DEF Queue!Start

LEMMA QueueStep == ASSUME IndInv, [Next]_vars PROVE [Queue!Next]_(Queue!vars)
<1> USE DEF IndInv
<1>1. ASSUME Submit PROVE Queue!Accept(next) /\ next \in Jobs
  BY <1>1 DEF Submit, AcceptedInv, TypeOK, Jobs, Running, Queue!Accept
<1>2. ASSUME NEW w \in Workers, HandOver(w) PROVE Queue!Start(w, next) /\ next \in Jobs
  <2>1. next \in Jobs /\ next \notin accepted /\ next \notin handled
    BY <1>2 DEF HandOver, AcceptedInv, TypeOK, Jobs
  <2>2. \A v \in Workers : ~ Handling(v, next)
    BY <2>1 DEF HandInv, Handling
  <2> QED BY <1>2, <2>1, <2>2, NextRunning DEF HandOver
<1>3. ASSUME NEW w \in Workers, Take(w)
      PROVE  Queue!Start(w, jobs[1]) /\ jobs[1] \in Jobs
  <2>1. /\ 1 \in 1 .. Len(jobs) /\ jobs[1] \in Jobs /\ Head(jobs) = jobs[1]
    BY <1>3 DEF TypeOK, Take
  <2>2. /\ jobs[1] \in accepted /\ jobs[1] \notin handled
        /\ \A v \in Workers : ~ Handling(v, jobs[1])
    BY <2>1 DEF ChannelInv
  <2>3. accepted' = accepted \cup {jobs[1]}
    BY <1>3, <2>2 DEF Take
  <2> QED BY <1>3, <2>1, <2>2, <2>3, NextRunning DEF Take
<1>4. ASSUME NEW w \in Workers, Handle(w) PROVE Queue!Finish(w)
  <2>1. PICK step \in {"select", "report"} : MoveWorker(w, step)
    BY <1>4 DEF Handle
  <2>2. /\ worker'[w].at = step
        /\ \A v \in Workers \ {w} : worker'[v] = worker[v]
    BY <2>1, WorkerMoves DEF WorkerSteps
  <2>3. Running[w] = worker[w].job /\ worker[w].job # None
    BY <1>4 DEF Handle, Running, HandInv, TypeOK, Jobs, None
  <2>4. Running' = [Running EXCEPT ![w] = None]
    BY <2>2 DEF Running
  <2> QED BY <1>4, <2>3, <2>4 DEF Handle, Queue!Finish
<1>5. ASSUME NEW w \in Workers,
             TakeClosed(w) \/ SelectCancelled(w) \/ Report(w) \/ ReportCancelled(w)
      PROVE  UNCHANGED Queue!vars
  <2>1. /\ UNCHANGED <<accepted, handled>>
        /\ worker[w].at # "handle"
        /\ MoveWorker(w, "select") \/ MoveWorker(w, "done")
    BY <1>5 DEF TakeClosed, SelectCancelled, Report, ReportCancelled
  <2> QED BY <2>1, SameRunning DEF Queue!vars, WorkerSteps
<1>6. ASSUME \/ SubmitCancelled \/ Close \/ CloseReturns
             \/ Receive \/ CloseErrors \/ Cancel \/ UNCHANGED vars
      PROVE  UNCHANGED Queue!vars
  BY <1>6 DEF SubmitCancelled, Close, CloseReturns, Receive, CloseErrors, Cancel,
              vars, Running, Queue!vars
<1> QED
  BY <1>1, <1>2, <1>3, <1>4, <1>5, <1>6
  DEF Next, CallerNext, WorkerNext, Queue!Next

(***************************************************************************)
(* Implements: the pool of goroutines and channels implements the plain    *)
(* queue, which runs an accepted job at most once and by one worker.       *)
(***************************************************************************)
THEOREM Implements == Spec => QueueSpec
<1>1. Init => Queue!Init
  BY DEF Init, Running, Queue!Init
<1>2. IndInv /\ [Next]_vars => [Queue!Next]_(Queue!vars)
  BY QueueStep
<1> QED
  BY <1>1, <1>2, InductiveInvariant, PTL DEF Spec, QueueSpec, Queue!Spec

-----------------------------------------------------------------------------
(***************************************************************************)
(* Whether the pool can come to a halt.                                    *)
(***************************************************************************)
\* From the return of Close on, the caller ranges over the errors.
ReceivingInv == caller = "returned" => receiving

LEMMA CallerReceives == Spec => []ReceivingInv
<1>1. Init => ReceivingInv
  BY DEF Init, ReceivingInv
<1>2. ReceivingInv /\ [Next]_vars => ReceivingInv'
  BY DEF ReceivingInv, Next, CallerNext, Submit, HandOver, SubmitCancelled,
         CallerGoesOn, Close, CloseReturns, WorkerNext, Take, TakeClosed,
         SelectCancelled, Handle, Report, ReportCancelled, Receive, CloseErrors,
         Cancel, vars
<1> QED BY <1>1, <1>2, PTL DEF Spec

(***************************************************************************)
(* NothingHangs: the pool, its caller and the receiver of the errors never *)
(* all wait for one another, unless more errors are left unreceived than   *)
(* there are workers.                                                      *)
(***************************************************************************)
THEOREM NothingHangs == Spec => []NeverStuck
<1>1. IndInv /\ ReceivingInv => NeverStuck
  <2> SUFFICES ASSUME IndInv, ReceivingInv, ~ CallerCanGo, ~ OthersCanGo,
                      \A w \in Workers : ~ WorkerCanGo(w)
               PROVE  Ended \/ Blocked
    BY DEF NeverStuck
  <2>1. errors \in Nat /\ errors <= Capacity /\ Capacity \in Nat
    BY CapacityIsNat DEF IndInv, TypeOK
  <2>2. ASSUME NEW w \in Workers, worker[w].at = "report" PROVE Blocked
    BY <2>1, <2>2, CapacityIsNat DEF WorkerCanGo, OthersCanGo, Blocked
  <2>3. \A w \in Workers : worker[w].at \in {"select", "report", "done"}
    BY DEF WorkerCanGo, IndInv, TypeOK, WorkerSteps
  <2>4. CASE caller = "submit"
    <3>1. PICK w \in Workers : TRUE
      BY WorkerPoolAssumption
    <3>2. worker[w].at # "done"
      BY <2>4 DEF CallerCanGo, IndInv, DoneInv, JobsClosed
    <3>3. worker[w].at # "select"
      BY <2>4 DEF CallerCanGo, WorkerCanGo
    <3> QED BY <2>2, <2>3, <3>2, <3>3
  <2>5. CASE caller = "wait"
    <3>1. PICK w \in Workers : worker[w].at # "done"
      BY <2>5 DEF CallerCanGo, AllDone
    <3>2. worker[w].at # "select"
      BY <2>5 DEF WorkerCanGo, JobsClosed
    <3> QED BY <2>2, <2>3, <3>1, <3>2
  <2>6. CASE caller = "returned"
    BY <2>1, <2>6 DEF IndInv, DoneInv, ReceivingInv, OthersCanGo, Ended
  <2> QED
    BY <2>4, <2>5, <2>6 DEF IndInv, TypeOK, CallerSteps, CallerCanGo
<1> QED BY <1>1, InductiveInvariant, CallerReceives, PTL

-----------------------------------------------------------------------------
(***************************************************************************)
(* Counting the errors: each error, in the channel or about to be sent, is *)
(* that of another job that was handled.                                   *)
(***************************************************************************)
Reporting == {w \in Workers : worker[w].at = "report"}

ErrorsInv == errors + Cardinality(Reporting) <= Cardinality(handled)

LEMMA SizesAreNat ==
    ASSUME TypeOK
    PROVE  /\ IsFiniteSet(Reporting) /\ Cardinality(Reporting) \in Nat
           /\ IsFiniteSet(handled) /\ Cardinality(handled) \in Nat
           /\ Cardinality(handled) <= MaxJobs
<1>1. IsFiniteSet(Reporting)
  BY WorkerPoolAssumption, FS_Subset DEF Reporting
<1>2. IsFiniteSet(Jobs) /\ Cardinality(Jobs) = MaxJobs
  BY WorkerPoolAssumption, FS_Interval DEF Jobs
<1>3. handled \subseteq Jobs
  BY DEF TypeOK
<1> QED BY <1>1, <1>2, <1>3, FS_Subset, FS_CardinalityType

LEMMA ErrorsStep ==
    ASSUME IndInv, ErrorsInv, [Next]_vars PROVE ErrorsInv'
<1>0. /\ TypeOK /\ errors \in Nat
      /\ IsFiniteSet(Reporting) /\ Cardinality(Reporting) \in Nat
      /\ IsFiniteSet(handled) /\ Cardinality(handled) \in Nat
  BY SizesAreNat, CapacityIsNat DEF IndInv, TypeOK
<1>1. ASSUME Reporting' = Reporting, errors' = errors, handled' = handled
      PROVE  ErrorsInv'
  BY <1>1 DEF ErrorsInv
<1>2. ASSUME NEW w \in Workers, NEW step \in WorkerSteps, MoveWorker(w, step)
      PROVE  Reporting' = IF step = "report" THEN Reporting \cup {w}
                                             ELSE Reporting \ {w}
  BY <1>0, <1>2, WorkerMoves DEF Reporting
<1>3. ASSUME NEW w \in Workers, NEW j \in Jobs, Hand(w, j), worker[w].at = "select"
      PROVE  Reporting' = Reporting
  BY <1>0, <1>3, WorkerTakes DEF Reporting
<1>4. ASSUME NEW w \in Workers
      PROVE  /\ Cardinality(Reporting \ {w}) \in Nat
             /\ Cardinality(Reporting \ {w}) <= Cardinality(Reporting)
             /\ w \in Reporting =>
                   Cardinality(Reporting \ {w}) = Cardinality(Reporting) - 1
             /\ Cardinality(Reporting \cup {w}) \in Nat
             /\ Cardinality(Reporting \cup {w}) <= Cardinality(Reporting) + 1
  <2>1. Cardinality(Reporting \ {w}) =
           IF w \in Reporting THEN Cardinality(Reporting) - 1 ELSE Cardinality(Reporting)
    BY <1>0, FS_RemoveElement
  <2>2. Cardinality(Reporting \cup {w}) =
           IF w \in Reporting THEN Cardinality(Reporting) ELSE Cardinality(Reporting) + 1
    BY <1>0, FS_AddElement
  <2>3. w \in Reporting => Cardinality(Reporting) # 0
    BY <1>0, FS_EmptySet
  <2> QED BY <1>0, <2>1, <2>2, <2>3
<1>5. ASSUME NEW w \in Workers, Handle(w) PROVE ErrorsInv'
  <2>1. worker[w].job \notin handled /\ handled' = handled \cup {worker[w].job}
    BY <1>5 DEF Handle, IndInv, HandInv
  <2>2. Cardinality(handled') = Cardinality(handled) + 1
    BY <1>0, <2>1, FS_AddElement
  <2>3. /\ errors' = errors
        /\ Reporting' = Reporting \ {w} \/ Reporting' = Reporting \cup {w}
    BY <1>2, <1>5 DEF Handle, WorkerSteps
  <2> QED BY <1>0, <1>4, <2>2, <2>3 DEF ErrorsInv
<1>6. ASSUME NEW w \in Workers, Report(w) PROVE ErrorsInv'
  <2>1. w \in Reporting /\ Reporting' = Reporting \ {w}
    BY <1>2, <1>6 DEF Report, Reporting, WorkerSteps
  <2> QED BY <1>0, <1>4, <1>6, <2>1 DEF Report, ErrorsInv
<1>7. ASSUME NEW w \in Workers, TakeClosed(w) \/ SelectCancelled(w) \/ ReportCancelled(w)
      PROVE  ErrorsInv'
  <2>1. /\ Reporting' = Reporting \ {w} /\ errors' = errors /\ handled' = handled
    BY <1>2, <1>7 DEF TakeClosed, SelectCancelled, ReportCancelled, WorkerSteps
  <2>2. /\ Cardinality(Reporting') \in Nat
        /\ Cardinality(Reporting') <= Cardinality(Reporting)
    BY <1>4, <2>1
  <2>3. errors + Cardinality(Reporting') <= Cardinality(handled)
    BY <1>0, <2>2 DEF ErrorsInv
  <2> QED BY <2>1, <2>3 DEF ErrorsInv
<1>8. ASSUME NEW w \in Workers, Take(w) \/ HandOver(w) PROVE ErrorsInv'
  <2>1. next \in Jobs /\ (jobs # <<>> => Head(jobs) \in Jobs)
    BY <1>0 DEF TypeOK
  <2>2. \E j \in Jobs : Hand(w, j)
    BY <1>8, <2>1 DEF Take, HandOver
  <2>3. worker[w].at = "select" /\ errors' = errors /\ handled' = handled
    BY <1>8 DEF Take, HandOver
  <2> QED BY <1>1, <1>3, <2>2, <2>3
<1>9. CASE Receive
  BY <1>0, <1>9 DEF Receive, ErrorsInv, Reporting
<1>10. CASE \/ Submit \/ SubmitCancelled \/ Close \/ CloseReturns
            \/ CloseErrors \/ Cancel \/ UNCHANGED vars
  BY <1>1, <1>10 DEF Submit, SubmitCancelled, Close, CloseReturns, CloseErrors,
                     Cancel, vars, Reporting
<1> QED
  BY <1>5, <1>6, <1>7, <1>8, <1>9, <1>10 DEF Next, CallerNext, WorkerNext

(***************************************************************************)
(* FewJobsNeverBlock: a caller that receives the errors only after Close,  *)
(* as the pool's test does, is safe with up to as many jobs as workers:    *)
(* every error finds its place in the channel.  With one job more the pool *)
(* may block.                                                              *)
(***************************************************************************)
THEOREM FewJobsNeverBlock ==
    ASSUME MaxJobs <= Capacity PROVE Spec => []NeverBlocked
<1>1. Init => ErrorsInv
  <2> SUFFICES ASSUME Init PROVE ErrorsInv
    OBVIOUS
  <2>1. Reporting = {} /\ handled = {} /\ errors = 0
    BY DEF Init, Reporting
  <2> QED BY <2>1, FS_EmptySet DEF ErrorsInv
<1>2. IndInv /\ ErrorsInv /\ [Next]_vars => ErrorsInv'
  BY ErrorsStep
<1>3. IndInv /\ ErrorsInv => NeverBlocked
  <2> SUFFICES ASSUME IndInv, ErrorsInv, Blocked PROVE FALSE
    BY DEF NeverBlocked
  <2>1. PICK w \in Workers : w \in Reporting
    BY DEF Blocked, Reporting
  <2>2. /\ IsFiniteSet(Reporting) /\ Cardinality(Reporting) \in Nat
        /\ Cardinality(handled) \in Nat /\ Cardinality(handled) <= MaxJobs
    BY SizesAreNat DEF IndInv
  <2>3. Cardinality(Reporting) # 0
    BY <2>1, <2>2, FS_EmptySet
  <2> QED
    BY <2>2, <2>3, CapacityIsNat, WorkerPoolAssumption DEF Blocked, ErrorsInv
<1> QED BY <1>1, <1>2, <1>3, InductiveInvariant, PTL DEF Spec
=============================================================================
