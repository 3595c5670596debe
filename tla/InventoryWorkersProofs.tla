------------------------ MODULE InventoryWorkersProofs ------------------------
(***************************************************************************)
(* Proofs about InventoryWorkers, for any finite set of workers and any    *)
(* number of messages and failures.                                        *)
(***************************************************************************)
EXTENDS InventoryWorkers, FiniteSetTheorems, TLAPS

(***************************************************************************)
(* The inductive invariant.  Between the reader and the worker's hands no  *)
(* message is lost or overtaken as long as the fetcher has not given up:   *)
(* the message the worker took last, then the one in the channel, then the *)
(* one the fetcher holds, follow each other up to the last one delivered.  *)
(***************************************************************************)
InChannel(w) == IF jobs[w] = None THEN 0 ELSE 1

InHand(w) == IF fetcher[w].at = "push" THEN 1 ELSE 0

OrderInv(w) ==
    /\ jobs[w] # None => jobs[w] = worker[w].msg + 1
    /\ fetcher[w].at # "done" =>
          fetcher[w].msg = worker[w].msg + InChannel(w) + InHand(w)

\* What is committed ends with the message the worker took last, or just before.
CommitInv(w) ==
    /\ committed[w] \in {1 .. worker[w].msg, 1 .. worker[w].msg - 1}
    /\ worker[w].at = "select" => committed[w] = 1 .. worker[w].msg
    /\ worker[w].at = "process" => /\ worker[w].msg # 0
                                   /\ committed[w] = 1 .. worker[w].msg - 1

PipelineInv == \A w \in Workers : OrderInv(w) /\ CommitInv(w)

\* A worker returns after its fetcher.
WorkerLast == \A w \in Workers : worker[w].at = "done" => fetcher[w].at = "done"

IndInv ==
    /\ TypeOK
    /\ PipelineInv
    /\ WorkerLast
    /\ NoSendOnClosed

-----------------------------------------------------------------------------
\* The capacity of errChannel is a number.
LEMMA CapacityType == Capacity \in Nat
BY InventoryWorkersAssumption, FS_CardinalityType DEF Capacity

\* The values of every variable stay in their types.
LEMMA TypePreserved == TypeOK /\ PipelineInv /\ [Next]_vars => TypeOK'
<1> SUFFICES ASSUME TypeOK, PipelineInv, [Next]_vars PROVE TypeOK'
  OBVIOUS
<1> USE InventoryWorkersAssumption, CapacityType
    DEF TypeOK, FetcherSteps, WorkerSteps, Messages, None, MoveFetcher, MoveWorker,
        CallFails, CommitMessage
<1>1. ASSUME NEW w \in Workers, FetchSucceeds(w) PROVE TypeOK'
  BY <1>1 DEF FetchSucceeds
<1>2. ASSUME NEW w \in Workers, FetchFails(w) PROVE TypeOK'
  BY <1>2 DEF FetchFails
<1>3. ASSUME NEW w \in Workers, SendError(w) PROVE TypeOK'
  BY <1>3 DEF SendError
<1>4. ASSUME NEW w \in Workers, Push(w) PROVE TypeOK'
  <2>1. fetcher[w].msg \in Messages
    BY <1>4 DEF Push, PipelineInv, OrderInv, InChannel, InHand
  <2> QED
    BY <1>4, <2>1 DEF Push
<1>5. ASSUME NEW w \in Workers, PushCancelled(w) PROVE TypeOK'
  BY <1>5 DEF PushCancelled
<1>6. ASSUME NEW w \in Workers, Take(w) PROVE TypeOK'
  BY <1>6 DEF Take
<1>7. ASSUME NEW w \in Workers, TakeClosed(w) PROVE TypeOK'
  BY <1>7 DEF TakeClosed
<1>8. ASSUME NEW w \in Workers, SelectCancelled(w) PROVE TypeOK'
  BY <1>8 DEF SelectCancelled
<1>9. ASSUME NEW w \in Workers, Process(w) \/ ProcessFails(w) PROVE TypeOK'
  <2>1. worker[w].msg \in Messages
    BY <1>9 DEF Process, ProcessFails, PipelineInv, CommitInv
  <2>2. committed' \in [Workers -> SUBSET Messages]
    BY <1>9, <2>1 DEF Process, ProcessFails
  <2>3. worker' \in [Workers -> [at : WorkerSteps, msg : 0 .. MaxMessages]]
    <3>1. PICK step \in {"select", "report"} : worker' = [worker EXCEPT ![w].at = step]
      BY <1>9 DEF Process, ProcessFails
    <3> QED
      BY <3>1
  <2>4. failures' \in 0 .. MaxFailures
    BY <1>9 DEF Process, ProcessFails
  <2>5. UNCHANGED <<cancelled, fetcher, jobs, errors, closed, returned>>
    BY <1>9 DEF Process, ProcessFails
  <2> QED
    BY <2>2, <2>3, <2>4, <2>5
<1>10. ASSUME NEW w \in Workers, Report(w) PROVE TypeOK'
  <2>1. errors' \in 0 .. Capacity
    BY <1>10 DEF Report
  <2> QED
    BY <1>10, <2>1 DEF Report
<1>11. ASSUME NEW w \in Workers, Cancel(w) PROVE TypeOK'
  BY <1>11 DEF Cancel
<1>12. ASSUME NEW w \in Workers, AwaitFetcher(w) PROVE TypeOK'
  BY <1>12 DEF AwaitFetcher
<1>13. CASE ConsumeOrdersNext
  <2>1. UNCHANGED <<fetcher, jobs, worker, committed, failures>>
    BY <1>13 DEF ConsumeOrdersNext, CloseErrors, ReturnError, ReturnClosed
  <2>2. errors' \in 0 .. Capacity
    BY <1>13 DEF ConsumeOrdersNext, CloseErrors, ReturnError, ReturnClosed
  <2>3. cancelled' \in BOOLEAN /\ closed' \in BOOLEAN /\ returned' \in BOOLEAN
    BY <1>13 DEF ConsumeOrdersNext, CloseErrors, ReturnError, ReturnClosed
  <2> QED
    BY <2>1, <2>2, <2>3
<1>14. CASE Shutdown
  BY <1>14 DEF Shutdown
<1>15. CASE UNCHANGED vars
  BY <1>15 DEF vars
<1> QED
  BY <1>1, <1>2, <1>3, <1>4, <1>5, <1>6, <1>7, <1>8, <1>9, <1>10, <1>11,
     <1>12, <1>13, <1>14, <1>15 DEF Next, FetcherNext, WorkerNext

-----------------------------------------------------------------------------
(***************************************************************************)
(* A step of worker w, or of its fetcher, leaves the pipelines of the      *)
(* others alone.                                                           *)
(***************************************************************************)
LEMMA OthersUndisturbed ==
    ASSUME PipelineInv, NEW w \in Workers, OrderInv(w)', CommitInv(w)',
           \A v \in Workers \ {w} :
              /\ fetcher'[v] = fetcher[v] /\ jobs'[v] = jobs[v]
              /\ worker'[v] = worker[v] /\ committed'[v] = committed[v]
    PROVE  PipelineInv'
BY DEF PipelineInv, OrderInv, CommitInv, InChannel, InHand

\* Messages reach the worker, and are committed, in their order.
LEMMA PipelinePreserved == TypeOK /\ PipelineInv /\ [Next]_vars => PipelineInv'
<1> SUFFICES ASSUME TypeOK, PipelineInv, [Next]_vars PROVE PipelineInv'
  OBVIOUS
<1>1. ASSUME NEW w \in Workers, FetcherNext(w) PROVE PipelineInv'
  <2>1. /\ UNCHANGED <<worker, committed>>
        /\ \A v \in Workers \ {w} : fetcher'[v] = fetcher[v] /\ jobs'[v] = jobs[v]
    BY <1>1 DEF FetcherNext, FetchSucceeds, FetchFails, SendError, Push, PushCancelled,
           MoveFetcher, TypeOK
  <2>2. CommitInv(w)'
    BY <2>1 DEF PipelineInv, CommitInv
  <2>3. OrderInv(w)'
    <3>1. OrderInv(w)
      BY DEF PipelineInv
    <3>2. CASE FetchSucceeds(w)
      BY <3>1, <3>2 DEF FetchSucceeds, OrderInv, InChannel, InHand, TypeOK
    <3>3. CASE FetchFails(w)
      BY <3>1, <3>3 DEF FetchFails, MoveFetcher, OrderInv, InChannel, InHand, TypeOK
    <3>4. CASE SendError(w)
      BY <3>1, <3>4 DEF SendError, MoveFetcher, OrderInv, InChannel, InHand, TypeOK
    <3>5. CASE Push(w)
      BY <3>1, <3>5 DEF Push, MoveFetcher, OrderInv, InChannel, InHand, TypeOK, None
    <3>6. CASE PushCancelled(w)
      BY <3>1, <3>6 DEF PushCancelled, MoveFetcher, OrderInv, InChannel, InHand, TypeOK
    <3> QED
      BY <1>1, <3>2, <3>3, <3>4, <3>5, <3>6 DEF FetcherNext
  <2> QED
    BY <2>1, <2>2, <2>3, OthersUndisturbed
<1>2. ASSUME NEW w \in Workers, Take(w) PROVE PipelineInv'
  <2>1. /\ worker'[w] = [at |-> "process", msg |-> jobs[w]]
        /\ jobs'[w] = None /\ jobs[w] # None
        /\ worker[w].at = "select"
        /\ UNCHANGED <<fetcher, committed>>
        /\ \A v \in Workers \ {w} : worker'[v] = worker[v] /\ jobs'[v] = jobs[v]
    BY <1>2 DEF Take, TypeOK
  <2>2. jobs[w] = worker[w].msg + 1 /\ worker[w].msg \in Nat
    BY <2>1 DEF PipelineInv, OrderInv, TypeOK
  <2>3. OrderInv(w)'
    BY <2>1, <2>2 DEF PipelineInv, OrderInv, InChannel, InHand, TypeOK, None
  <2>4. CommitInv(w)'
    BY <2>1, <2>2 DEF PipelineInv, CommitInv
  <2> QED
    BY <2>1, <2>3, <2>4, OthersUndisturbed
<1>3. ASSUME NEW w \in Workers, Process(w) \/ ProcessFails(w) PROVE PipelineInv'
  <2>1. /\ worker[w].at = "process"
        /\ worker'[w].msg = worker[w].msg
        /\ UNCHANGED <<fetcher, jobs>>
        /\ \A v \in Workers \ {w} : worker'[v] = worker[v] /\ committed'[v] = committed[v]
    BY <1>3 DEF Process, ProcessFails, MoveWorker, CommitMessage, TypeOK
  <2>2. OrderInv(w)'
    BY <2>1 DEF PipelineInv, OrderInv, InChannel, InHand
  <2>3. /\ worker[w].msg \in Nat \ {0}
        /\ committed[w] = 1 .. worker[w].msg - 1
    BY <2>1 DEF PipelineInv, CommitInv, TypeOK
  <2>4. committed[w] \cup {worker[w].msg} = 1 .. worker[w].msg
    BY <2>3
  <2>5. \/ worker'[w].at = "select" /\ committed'[w] = committed[w] \cup {worker[w].msg}
        \/ /\ worker'[w].at = "report"
           /\ committed'[w] \in {committed[w], committed[w] \cup {worker[w].msg}}
    BY <1>3 DEF Process, ProcessFails, MoveWorker, CommitMessage, TypeOK
  <2>6. CommitInv(w)'
    BY <2>1, <2>3, <2>4, <2>5 DEF CommitInv
  <2> QED
    BY <2>1, <2>2, <2>6, OthersUndisturbed
<1>4. ASSUME NEW w \in Workers,
             \/ TakeClosed(w) \/ SelectCancelled(w) \/ Report(w)
             \/ Cancel(w) \/ AwaitFetcher(w)
      PROVE  PipelineInv'
  <2>1. /\ worker'[w].at \notin {"select", "process"}
        /\ worker'[w].msg = worker[w].msg
        /\ UNCHANGED <<fetcher, jobs, committed>>
        /\ \A v \in Workers \ {w} : worker'[v] = worker[v]
    BY <1>4 DEF TakeClosed, SelectCancelled, Report, Cancel, AwaitFetcher, MoveWorker,
           TypeOK
  <2>2. OrderInv(w)' /\ CommitInv(w)'
    BY <2>1 DEF PipelineInv, OrderInv, CommitInv, InChannel, InHand
  <2> QED
    BY <2>1, <2>2, OthersUndisturbed
<1>5. CASE UNCHANGED <<fetcher, jobs, worker, committed>>
  BY <1>5 DEF PipelineInv, OrderInv, CommitInv, InChannel, InHand
<1> QED
  BY <1>1, <1>2, <1>3, <1>4, <1>5
     DEF Next, WorkerNext, ConsumeOrdersNext, CloseErrors, ReturnError, ReturnClosed,
         Shutdown, vars

-----------------------------------------------------------------------------
(***************************************************************************)
(* No goroutine that returned goes on, and no worker returns before its    *)
(* fetcher; so what holds when wg.Wait returns holds ever after.           *)
(***************************************************************************)
LEMMA ClosingPreserved ==
    TypeOK /\ WorkerLast /\ NoSendOnClosed /\ [Next]_vars
       => (WorkerLast /\ NoSendOnClosed)'
<1> SUFFICES ASSUME TypeOK, WorkerLast, NoSendOnClosed, [Next]_vars
             PROVE  WorkerLast' /\ NoSendOnClosed'
  OBVIOUS
<1>1. ASSUME NEW w \in Workers, FetcherNext(w) PROVE WorkerLast' /\ NoSendOnClosed'
  <2>1. /\ UNCHANGED <<worker, closed>>
        /\ fetcher[w].at # "done"
        /\ \A v \in Workers \ {w} : fetcher'[v] = fetcher[v]
    BY <1>1 DEF FetcherNext, FetchSucceeds, FetchFails, SendError, Push, PushCancelled,
           MoveFetcher, TypeOK
  <2> QED
    BY <2>1 DEF WorkerLast, NoSendOnClosed
<1>2. ASSUME NEW w \in Workers, WorkerNext(w) PROVE WorkerLast' /\ NoSendOnClosed'
  <2>1. /\ UNCHANGED <<fetcher, closed>>
        /\ worker[w].at # "done"
        /\ \A v \in Workers \ {w} : worker'[v] = worker[v]
    BY <1>2 DEF WorkerNext, Take, TakeClosed, SelectCancelled, Process, ProcessFails,
           Report, Cancel, AwaitFetcher, MoveWorker, TypeOK
  <2>2. worker'[w].at = "done" => fetcher[w].at = "done"
    BY <1>2 DEF WorkerNext, Take, TakeClosed, SelectCancelled, Process, ProcessFails,
           Report, Cancel, AwaitFetcher, MoveWorker, TypeOK
  <2> QED
    BY <2>1, <2>2 DEF WorkerLast, NoSendOnClosed
<1>3. CASE CloseErrors
  BY <1>3 DEF CloseErrors, WorkerLast, NoSendOnClosed
<1>4. CASE UNCHANGED <<fetcher, worker, closed>>
  BY <1>4 DEF WorkerLast, NoSendOnClosed
<1> QED
  BY <1>1, <1>2, <1>3, <1>4
     DEF Next, ConsumeOrdersNext, ReturnError, ReturnClosed, Shutdown, vars

-----------------------------------------------------------------------------
(***************************************************************************)
(* IndInv holds in every reachable state.                                  *)
(***************************************************************************)
THEOREM InductiveInvariant == Spec => []IndInv
<1>1. Init => IndInv
  <2> SUFFICES ASSUME Init PROVE IndInv
    OBVIOUS
  <2>1. TypeOK
    <3>1. MaxMessages \in Nat /\ MaxFailures \in Nat /\ Capacity \in Nat
      BY CapacityType, InventoryWorkersAssumption
    <3>2. "fetch" \in FetcherSteps /\ "select" \in WorkerSteps
      BY DEF FetcherSteps, WorkerSteps
    <3>3. errors \in 0 .. Capacity /\ failures \in 0 .. MaxFailures
      BY <3>1 DEF Init
    <3>4. /\ fetcher \in [Workers -> [at : FetcherSteps, msg : 0 .. MaxMessages]]
          /\ worker \in [Workers -> [at : WorkerSteps, msg : 0 .. MaxMessages]]
      BY <3>1, <3>2 DEF Init
    <3>5. /\ jobs \in [Workers -> Messages \cup {None}]
          /\ committed \in [Workers -> SUBSET Messages]
      BY DEF Init
    <3> QED
      BY <3>3, <3>4, <3>5 DEF Init, TypeOK
  <2>2. PipelineInv
    BY DEF Init, PipelineInv, OrderInv, CommitInv, InChannel, InHand, None
  <2>3. WorkerLast /\ NoSendOnClosed
    BY DEF Init, WorkerLast, NoSendOnClosed
  <2> QED
    BY <2>1, <2>2, <2>3 DEF IndInv
<1>2. IndInv /\ [Next]_vars => IndInv'
  BY TypePreserved, PipelinePreserved, ClosingPreserved DEF IndInv
<1> QED
  BY <1>1, <1>2, PTL DEF Spec

(***************************************************************************)
(* The channels stay within their capacities, and only messages that exist *)
(* are committed.                                                          *)
(***************************************************************************)
THEOREM TypeCorrect == Spec => []TypeOK
<1>1. IndInv => TypeOK
  BY DEF IndInv
<1> QED
  BY <1>1, InductiveInvariant, PTL

(***************************************************************************)
(* No goroutine sends on errChannel after it is closed.                    *)
(***************************************************************************)
THEOREM NeverSendsOnClosed == Spec => []NoSendOnClosed
<1>1. IndInv => NoSendOnClosed
  BY DEF IndInv
<1> QED
  BY <1>1, InductiveInvariant, PTL

(***************************************************************************)
(* No commit covers a message that was not handled, whatever fails.        *)
(***************************************************************************)
THEOREM SkipsNothing == Spec => []NothingSkipped
<1>1. IndInv => NothingSkipped
  <2> SUFFICES ASSUME IndInv, NEW w \in Workers, NEW m \in committed[w]
               PROVE  1 .. m \subseteq committed[w]
    BY DEF NothingSkipped
  <2>1. worker[w].msg \in Nat
    BY DEF IndInv, TypeOK
  <2>2. committed[w] \in {1 .. worker[w].msg, 1 .. worker[w].msg - 1}
    BY DEF IndInv, PipelineInv, CommitInv
  <2> QED
    BY <2>1, <2>2
<1> QED
  BY <1>1, InductiveInvariant, PTL

-----------------------------------------------------------------------------
(***************************************************************************)
(* What ConsumeOrders and the goroutines it waits for know of each other:  *)
(* it returns only after it has cancelled, and whoever cancels for an      *)
(* error leaves one behind for it.                                         *)
(***************************************************************************)
ReturnInv ==
    /\ returned => cancelled
    /\ ErrorBeforeCancel

\* A buffer for the errors of every worker has place for at least one.
LEMMA CapacityPositive == Capacity > 0
<1>1. Capacity # 0
  BY InventoryWorkersAssumption, FS_EmptySet DEF Capacity
<1> QED
  BY <1>1, CapacityType

LEMMA ReturnPreserved == TypeOK /\ ReturnInv /\ [Next]_vars => ReturnInv'
<1> SUFFICES ASSUME TypeOK, ReturnInv, [Next]_vars PROVE ReturnInv'
  OBVIOUS
<1> USE CapacityType, CapacityPositive DEF ReturnInv, ErrorBeforeCancel
<1>1. ASSUME NEW w \in Workers, FetcherNext(w) PROVE ReturnInv'
  <2>1. UNCHANGED <<cancelled, worker, returned>>
    BY <1>1 DEF FetcherNext, FetchSucceeds, FetchFails, SendError, Push, PushCancelled
  <2>2. errors' = errors \/ errors' = errors + 1
    BY <1>1 DEF FetcherNext, FetchSucceeds, FetchFails, SendError, Push, PushCancelled
  <2> QED
    BY <2>1, <2>2 DEF TypeOK
<1>2. ASSUME NEW w \in Workers, Report(w) PROVE ReturnInv'
  <2>1. errors' > 0
    BY <1>2 DEF Report, TypeOK
  <2> QED
    BY <1>2, <2>1 DEF Report
<1>3. ASSUME NEW w \in Workers, Cancel(w) PROVE ReturnInv'
  BY <1>3 DEF Cancel, MoveWorker, TypeOK
<1>4. ASSUME NEW w \in Workers,
             \/ Take(w) \/ TakeClosed(w) \/ SelectCancelled(w)
             \/ Process(w) \/ ProcessFails(w) \/ AwaitFetcher(w)
      PROVE  ReturnInv'
  <2>1. UNCHANGED <<cancelled, errors, returned>>
    BY <1>4 DEF Take, TakeClosed, SelectCancelled, Process, ProcessFails, AwaitFetcher
  <2>2. /\ worker'[w].at # "cancel"
        /\ \A v \in Workers \ {w} : worker'[v] = worker[v]
    BY <1>4 DEF Take, TakeClosed, SelectCancelled, Process, ProcessFails, AwaitFetcher,
           MoveWorker, TypeOK
  <2> QED
    BY <2>1, <2>2
<1>5. CASE ConsumeOrdersNext
  BY <1>5 DEF ConsumeOrdersNext, CloseErrors, ReturnError, ReturnClosed
<1>6. CASE Shutdown
  BY <1>6 DEF Shutdown
<1>7. CASE UNCHANGED vars
  BY <1>7 DEF vars
<1> QED
  BY <1>1, <1>2, <1>3, <1>4, <1>5, <1>6, <1>7 DEF Next, WorkerNext

\* With that, and the order in which goroutines return, somebody can go on.
LEMMA SomebodyCanGo == IndInv /\ ReturnInv => NeverStuck
<1> SUFFICES ASSUME IndInv, ReturnInv PROVE NeverStuck
  OBVIOUS
<1> USE CapacityType, CapacityPositive DEF IndInv, TypeOK
\* A worker that is cancelled and has not ended waits at most for its fetcher.
<1>1. ASSUME NEW w \in Workers, cancelled
      PROVE  \/ fetcher[w].at = "done" /\ worker[w].at = "done"
             \/ FetcherCanGo(w) \/ WorkerCanGo(w)
             \/ fetcher[w].at = "send" /\ errors = Capacity
  <2>1. CASE worker[w].at = "done"
    BY <2>1 DEF WorkerLast
  <2>2. CASE worker[w].at = "await"
    <3>1. fetcher[w].at \in FetcherSteps
      OBVIOUS
    <3>2. fetcher[w].at = "send" /\ errors # Capacity => errors < Capacity
      OBVIOUS
    <3> QED
      BY <1>1, <2>2, <3>1, <3>2 DEF FetcherCanGo, WorkerCanGo, FetcherSteps
  <2>3. CASE worker[w].at \notin {"done", "await"}
    BY <1>1, <2>3 DEF WorkerCanGo, WorkerSteps
  <2> QED
    BY <2>1, <2>2, <2>3
<1>2. ASSUME ~ returned, cancelled \/ \E w \in Workers : Failing(w)
      PROVE  ConsumeOrdersCanGo \/ \E w \in Workers : FetcherCanGo(w) \/ WorkerCanGo(w)
  <2>1. ASSUME NEW w \in Workers, fetcher[w].at = "send" PROVE
               ConsumeOrdersCanGo \/ FetcherCanGo(w)
    BY <1>2, <2>1 DEF ConsumeOrdersCanGo, FetcherCanGo
  <2>2. CASE \E w \in Workers : Failing(w)
    BY <2>1, <2>2 DEF Failing, WorkerCanGo
  <2>3. CASE cancelled /\ \A w \in Workers : worker[w].at = "done"
    BY <1>2, <2>3 DEF ConsumeOrdersCanGo
  <2>4. ASSUME cancelled, NEW w \in Workers, worker[w].at # "done"
        PROVE  ConsumeOrdersCanGo \/ FetcherCanGo(w) \/ WorkerCanGo(w)
    BY <1>1, <2>1, <2>4
  <2> QED
    BY <1>2, <2>2, <2>3, <2>4
<1>3. ASSUME returned, NEW w \in Workers
      PROVE  \/ fetcher[w].at = "done" /\ worker[w].at = "done"
             \/ FetcherCanGo(w) \/ WorkerCanGo(w)
             \/ Stranded(w)
  BY <1>1, <1>3 DEF ReturnInv, Stranded
<1> QED
  BY <1>2, <1>3 DEF NeverStuck

LEMMA ReturnInvariant == Spec => []ReturnInv
<1>1. Init => ReturnInv
  BY DEF Init, ReturnInv, ErrorBeforeCancel
<1>2. IndInv => TypeOK
  BY DEF IndInv
<1> QED
  BY <1>1, <1>2, ReturnPreserved, InductiveInvariant, PTL DEF Spec

(***************************************************************************)
(* An error, or a shutdown, never leaves ConsumeOrders and its goroutines  *)
(* waiting for each other, before ConsumeOrders returns or after.          *)
(***************************************************************************)
THEOREM ErrorsNeverHang == Spec => []NeverStuck
BY SomebodyCanGo, InductiveInvariant, ReturnInvariant, PTL

(***************************************************************************)
(* A worker that fails never stops the others before an error is there to  *)
(* be returned.                                                            *)
(***************************************************************************)
THEOREM ErrorsComeFirst == Spec => []ErrorBeforeCancel
<1>1. ReturnInv => ErrorBeforeCancel
  BY DEF ReturnInv
<1> QED
  BY <1>1, ReturnInvariant, PTL
=============================================================================
