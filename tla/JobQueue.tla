------------------------------- MODULE JobQueue -------------------------------
(***************************************************************************)
(* What a pool of workers promises about jobs: a job that was accepted is  *)
(* run at most once, by one worker, and a worker runs one job at a time.   *)
(***************************************************************************)
CONSTANTS Jobs, Workers, None

VARIABLES
    accepted,  \* jobs whose Submit returned nil
    running,   \* the job each worker is running, or None
    handled    \* jobs whose handler has returned

vars == <<accepted, running, handled>>

Init ==
    /\ accepted = {}
    /\ running = [w \in Workers |-> None]
    /\ handled = {}

Accept(j) ==
    /\ j \notin accepted
    /\ accepted' = accepted \cup {j}
    /\ UNCHANGED <<running, handled>>

\* A job may go straight from Submit into the hands of a worker.
Start(w, j) ==
    /\ running[w] = None
    /\ j \notin handled
    /\ \A v \in Workers : running[v] # j
    /\ accepted' = accepted \cup {j}
    /\ running' = [running EXCEPT ![w] = j]
    /\ UNCHANGED handled

Finish(w) ==
    /\ running[w] # None
    /\ handled' = handled \cup {running[w]}
    /\ running' = [running EXCEPT ![w] = None]
    /\ UNCHANGED accepted

Next ==
    \/ \E j \in Jobs : Accept(j)
    \/ \E w \in Workers, j \in Jobs : Start(w, j)
    \/ \E w \in Workers : Finish(w)

Spec == Init /\ [][Next]_vars
=============================================================================
