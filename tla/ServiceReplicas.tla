--------------------------- MODULE ServiceReplicas ---------------------------
(***************************************************************************)
(* The main function of a service with a PostgreSQL database, an HTTP      *)
(* server and a gRPC server (the product and the user service), run by     *)
(* several replicas over one database: they connect, run the migrations,   *)
(* serve, and shut down when their context is done.                        *)
(*                                                                         *)
(* A migration is known by its place in the sorted list of file names.     *)
(* Its content and the INSERT of its version are one transaction; both     *)
(* make another replica that does the same wait until it ends.             *)
(***************************************************************************)
EXTENDS Naturals, Sequences

CONSTANTS
    Replicas,      \* processes of the service; one that is down may start again
    Last,          \* number of migration files
    HttpRequests,  \* requests a replica may be serving over HTTP
    Rpcs           \* and over gRPC

ASSUME LastAssumption == Last \in Nat

VARIABLES
    at,          \* where main is
    file,        \* the migration the loop of RunMigrations is at
    versions,    \* rows of schema_migrations
    executed,    \* history: the files whose content was committed
    cancelled,   \* replicas whose context is done
    http,        \* what each HTTP handler is waiting for
    rpcs,        \* RPCs whose handlers have not returned
    timedOut     \* replicas whose HTTP shutdown took over ten seconds

databaseVars == <<versions, executed>>
requestVars == <<http, rpcs, timedOut>>
vars == <<at, file, databaseVars, cancelled, requestVars>>

Files == 1 .. Last

StartSteps == {"connect", "prepare", "check", "execute", "record", "commit"}
StopSteps == {"shutdown", "gracefulStop", "poolClose"}
Steps == {"down", "serving"} \cup StartSteps \cup StopSteps
HandlerSteps == {"none", "body", "query", "reply"}

\* Only a transaction on a file that exists gets past the check.
TypeOK ==
    /\ at \in [Replicas -> Steps]
    /\ file \in [Replicas -> 1 .. Last + 1]
    /\ \A r \in Replicas :
          at[r] \in {"execute", "record", "commit"} => file[r] \in Files
    /\ versions \subseteq Files
    /\ executed \in Seq(Files)
    /\ cancelled \subseteq Replicas
    /\ http \in [Replicas -> [HttpRequests -> HandlerSteps]]
    /\ rpcs \in [Replicas -> SUBSET Rpcs]
    /\ timedOut \subseteq Replicas

NoHandlers == [q \in HttpRequests |-> "none"]

Init ==
    /\ at = [r \in Replicas |-> "down"]
    /\ file = [r \in Replicas |-> 1]
    /\ versions = {}
    /\ executed = << >>
    /\ cancelled = {}
    /\ http = [r \in Replicas |-> NoHandlers]
    /\ rpcs = [r \in Replicas |-> {}]
    /\ timedOut = {}

Goto(r, step) == at' = [at EXCEPT ![r] = step]

-----------------------------------------------------------------------------
(***************************************************************************)
(* Starting.  Every statement is given the context, and fails when it is   *)
(* done.                                                                   *)
(***************************************************************************)
Proceeds(r, from, to) == at[r] = from /\ r \notin cancelled /\ Goto(r, to)

Start(r) ==
    /\ at[r] = "down"
    /\ Goto(r, "connect")
    /\ UNCHANGED <<file, databaseVars, cancelled, requestVars>>

\* New and Ping.
Connect(r) ==
    /\ Proceeds(r, "connect", "prepare")
    /\ UNCHANGED <<file, databaseVars, cancelled, requestVars>>

\* CREATE TABLE IF NOT EXISTS schema_migrations.
Prepare(r) ==
    /\ Proceeds(r, "prepare", "check")
    /\ file' = [file EXCEPT ![r] = 1]
    /\ UNCHANGED <<databaseVars, cancelled, requestVars>>

\* Mutant: the files after one that was applied are taken for applied too.
CheckAppliedStops(r) ==
    /\ file[r] \in versions
    /\ Proceeds(r, "check", "serving")
    /\ UNCHANGED <<file, databaseVars, cancelled, requestVars>>

CheckApplied(r) ==
    /\ file[r] \in versions
    /\ Proceeds(r, "check", "check")
    /\ file' = [file EXCEPT ![r] = @ + 1]
    /\ UNCHANGED <<databaseVars, cancelled, requestVars>>

\* Mutant: the loop goes one file too far.
CheckMissingPastLast(r) ==
    /\ file[r] \notin versions
    /\ Proceeds(r, "check", "execute")
    /\ UNCHANGED <<file, databaseVars, cancelled, requestVars>>

CheckMissing(r) ==
    /\ file[r] \in Files \ versions
    /\ Proceeds(r, "check", "execute")
    /\ UNCHANGED <<file, databaseVars, cancelled, requestVars>>

\* The other replicas that have executed, or recorded, the same file.
Executing(r, steps) ==
    {s \in Replicas \ {r} : at[s] \in steps /\ file[s] = file[r]}

\* Begin, and the statements of the file.
ExecuteFile(r) ==
    /\ Executing(r, {"record", "commit"}) = {}
    /\ Proceeds(r, "execute", "record")
    /\ UNCHANGED <<file, databaseVars, cancelled, requestVars>>

\* Mutant: INSERT ... ON CONFLICT DO NOTHING.
RecordVersionTwice(r) ==
    /\ Executing(r, {"commit"}) = {}
    /\ Proceeds(r, "record", "commit")
    /\ UNCHANGED <<file, databaseVars, cancelled, requestVars>>

\* The INSERT: version is the primary key.
RecordVersion(r) ==
    /\ Executing(r, {"commit"}) = {}
    /\ file[r] \notin versions
    /\ Proceeds(r, "record", "commit")
    /\ UNCHANGED <<file, databaseVars, cancelled, requestVars>>

Committed(r) ==
    /\ versions' = versions \cup {file[r]}
    /\ executed' = Append(executed, file[r])

Commit(r) ==
    /\ Proceeds(r, "commit", "check")
    /\ Committed(r)
    /\ file' = [file EXCEPT ![r] = @ + 1]
    /\ UNCHANGED <<cancelled, requestVars>>

\* RunMigrations returned nil, with no statement left that looks at the
\* context: the servers are started even when it is done by now.
Serve(r) ==
    /\ at[r] = "check"
    /\ file[r] \notin Files
    /\ Goto(r, "serving")
    /\ UNCHANGED <<file, databaseVars, cancelled, requestVars>>

\* The process ends.  An open transaction is rolled back.
Exits(r) ==
    /\ Goto(r, "down")
    /\ file' = [file EXCEPT ![r] = 1]
    /\ cancelled' = cancelled \ {r}
    /\ http' = [http EXCEPT ![r] = NoHandlers]
    /\ rpcs' = [rpcs EXCEPT ![r] = {}]
    /\ timedOut' = timedOut \ {r}

\* Mutant: main logs the error and waits for a signal.
FailStays(r) == at[r] \in StartSteps /\ UNCHANGED vars

\* Any statement may fail: os.Exit(1).
Fail(r) ==
    /\ at[r] \in StartSteps
    /\ Exits(r)
    /\ UNCHANGED databaseVars

\* What main is at cannot succeed any more.
Rejected(r) ==
    \/ r \in cancelled
    \/ at[r] = "record" /\ file[r] \in versions

\* COMMIT is executed but its answer does not arrive.
CommitLost(r) ==
    /\ at[r] = "commit"
    /\ Committed(r)
    /\ Exits(r)

-----------------------------------------------------------------------------
(***************************************************************************)
(* Serving.  Handlers run in goroutines of their own and go on when the    *)
(* context of main is done.                                                *)
(***************************************************************************)
Handler(r, q, from, to) ==
    /\ http[r][q] = from
    /\ http' = [http EXCEPT ![r][q] = to]

AcceptHttp(r, q) ==
    /\ at[r] = "serving"
    /\ Handler(r, q, "none", "body")
    /\ UNCHANGED <<at, file, databaseVars, cancelled, rpcs, timedOut>>

\* DecodeJSON has the body; the pool gives a connection, or an error when it
\* is closed.
ReadBody(r, q) ==
    /\ Handler(r, q, "body", IF at[r] = "poolClose" THEN "reply" ELSE "query")
    /\ UNCHANGED <<at, file, databaseVars, cancelled, rpcs, timedOut>>

QueryReturns(r, q) ==
    /\ Handler(r, q, "query", "reply")
    /\ UNCHANGED <<at, file, databaseVars, cancelled, rpcs, timedOut>>

ReplyWritten(r, q) ==
    /\ Handler(r, q, "reply", "none")
    /\ UNCHANGED <<at, file, databaseVars, cancelled, rpcs, timedOut>>

\* GracefulStop, not the HTTP shutdown before it, ends the acceptance of RPCs.
AcceptRpc(r, q) ==
    /\ at[r] \in {"serving", "shutdown"}
    /\ q \notin rpcs[r]
    /\ rpcs' = [rpcs EXCEPT ![r] = @ \cup {q}]
    /\ UNCHANGED <<at, file, databaseVars, cancelled, http, timedOut>>

RpcReturns(r, q) ==
    /\ q \in rpcs[r]
    /\ rpcs' = [rpcs EXCEPT ![r] = @ \ {q}]
    /\ UNCHANGED <<at, file, databaseVars, cancelled, http, timedOut>>

-----------------------------------------------------------------------------
(***************************************************************************)
(* Stopping.                                                               *)
(***************************************************************************)

\* SIGTERM, or stop() by the goroutine of a server that failed.
Cancel(r) ==
    /\ at[r] \in StartSteps \cup {"serving"}
    /\ r \notin cancelled
    /\ cancelled' = cancelled \cup {r}
    /\ UNCHANGED <<at, file, databaseVars, requestVars>>

Shutdown(r) ==
    /\ at[r] = "serving"
    /\ r \in cancelled
    /\ Goto(r, "shutdown")
    /\ UNCHANGED <<file, databaseVars, cancelled, requestVars>>

ShutdownReturns(r) ==
    /\ at[r] = "shutdown"
    /\ http[r] = NoHandlers
    /\ Goto(r, "gracefulStop")
    /\ UNCHANGED <<file, databaseVars, cancelled, requestVars>>

\* Mutant: Shutdown is given a context without a deadline.
ShutdownWaits(r) == at[r] = "shutdown" /\ UNCHANGED vars

ShutdownTimesOut(r) ==
    /\ at[r] = "shutdown"
    /\ http[r] # NoHandlers
    /\ Goto(r, "gracefulStop")
    /\ timedOut' = timedOut \cup {r}
    /\ UNCHANGED <<file, databaseVars, cancelled, http, rpcs>>

\* Mutant: Stop in the place of GracefulStop.
GracefulStopDrops(r) ==
    /\ at[r] = "gracefulStop"
    /\ Goto(r, "poolClose")
    /\ UNCHANGED <<file, databaseVars, cancelled, requestVars>>

\* GracefulStop waits for the RPCs, without a limit.
GracefulStopReturns(r) ==
    /\ at[r] = "gracefulStop"
    /\ rpcs[r] = {}
    /\ Goto(r, "poolClose")
    /\ UNCHANGED <<file, databaseVars, cancelled, requestVars>>

\* The deferred pool.Close waits for the connections that are in use.
PoolCloses(r) ==
    /\ at[r] = "poolClose"
    /\ \A q \in HttpRequests : http[r][q] # "query"
    /\ Exits(r)
    /\ UNCHANGED databaseVars

Kill(r) ==
    /\ at[r] # "down"
    /\ Exits(r)
    /\ UNCHANGED databaseVars

StartStep(r) ==
    \/ Connect(r)
    \/ Prepare(r)
    \/ CheckApplied(r)
    \/ CheckMissing(r)
    \/ ExecuteFile(r)
    \/ RecordVersion(r)
    \/ Commit(r)
    \/ Serve(r)

StopStep(r) ==
    \/ Shutdown(r)
    \/ ShutdownReturns(r)
    \/ ShutdownTimesOut(r)
    \/ GracefulStopReturns(r)
    \/ PoolCloses(r)

Next ==
    \E r \in Replicas :
       \/ Start(r)
       \/ StartStep(r)
       \/ Fail(r)
       \/ CommitLost(r)
       \/ \E q \in HttpRequests :
             AcceptHttp(r, q) \/ ReadBody(r, q) \/ QueryReturns(r, q) \/ ReplyWritten(r, q)
       \/ \E q \in Rpcs : AcceptRpc(r, q) \/ RpcReturns(r, q)
       \/ Cancel(r)
       \/ StopStep(r)
       \/ Kill(r)

Spec == Init /\ [][Next]_vars

(***************************************************************************)
(* Fairness: the database answers every statement that need not wait for   *)
(* another transaction, gives its turn to one that waits when the other    *)
(* transaction ends, and main and the RPC handlers go on.  Nothing is      *)
(* assumed of the clients of the HTTP server.                              *)
(***************************************************************************)
Fairness ==
    \A r \in Replicas :
       /\ WF_vars(StartStep(r) \/ (Rejected(r) /\ Fail(r)))
       /\ SF_vars(ExecuteFile(r)) /\ SF_vars(RecordVersion(r))
       /\ WF_vars(StopStep(r))
       /\ \A q \in HttpRequests : WF_vars(QueryReturns(r, q))
       /\ \A q \in Rpcs : WF_vars(RpcReturns(r, q))

FairSpec == Spec /\ Fairness
-----------------------------------------------------------------------------
(***************************************************************************)
(* MigratedOnce: however many replicas start, fail and start again at the  *)
(* same time, the content of every file is committed once, in the order of *)
(* the files, and schema_migrations lists just those.                      *)
(***************************************************************************)
MigratedOnce ==
    /\ \A i \in DOMAIN executed : executed[i] = i
    /\ versions = DOMAIN executed

(***************************************************************************)
(* ServesMigrated: a replica takes requests only when every migration has  *)
(* been applied, by it or by another.                                      *)
(***************************************************************************)
ServesMigrated ==
    \A r \in Replicas : at[r] \in {"serving"} \cup StopSteps => versions = Files

(***************************************************************************)
(* Drained: when main closes the pool no RPC is left, and no HTTP request  *)
(* either unless it outlasted the ten seconds of the shutdown.             *)
(***************************************************************************)
Drained ==
    \A r \in Replicas : at[r] = "poolClose" =>
       /\ rpcs[r] = {}
       /\ r \in timedOut \/ http[r] = NoHandlers

(***************************************************************************)
(* StartEnds: a replica that starts comes to serve or exits: replicas that *)
(* meet at one migration do not wait for each other for ever.              *)
(***************************************************************************)
StartEnds ==
    \A r \in Replicas : at[r] = "connect" ~> at[r] \in {"serving", "down"}

(***************************************************************************)
(* StopEnds: a replica that is told to stop does, even while HTTP clients  *)
(* never send or never read what its handlers are waiting for.             *)
(***************************************************************************)
StopEnds == \A r \in Replicas : r \in cancelled ~> at[r] = "down"

\* main can go on by itself, if only to exit.
CanGo(r) ==
    \/ at[r] \in StartSteps /\ Rejected(r)
    \/ at[r] \in {"connect", "prepare", "check", "commit", "shutdown"}
    \/ at[r] = "execute" /\ Executing(r, {"record", "commit"}) = {}
    \/ at[r] = "record" /\ Executing(r, {"commit"}) = {}
    \/ at[r] = "serving" /\ r \in cancelled
    \/ at[r] = "gracefulStop" /\ rpcs[r] = {}
    \/ at[r] = "poolClose" /\ \A q \in HttpRequests : http[r][q] # "query"

(***************************************************************************)
(* NeverStuck, what StartEnds and StopEnds need of every state: a replica  *)
(* that starts or was told to stop can go on; or it waits for a replica    *)
(* with the same migration before it that can; or, to stop, for requests   *)
(* whose answers do not depend on a client.                                *)
(***************************************************************************)
NeverStuck ==
    \A r \in Replicas :
       at[r] \in StartSteps \/ r \in cancelled =>
          \/ CanGo(r)
          \/ \E s \in Executing(r, {"record", "commit"}) :
                CanGo(s) \/ \E t \in Executing(s, {"commit"}) : CanGo(t)
          \/ at[r] = "gracefulStop" /\ rpcs[r] # {}
          \/ at[r] = "poolClose" /\ \E q \in HttpRequests : http[r][q] = "query"
=============================================================================
