------------------------ MODULE ServiceReplicasProofs ------------------------
(***************************************************************************)
(* Proofs about ServiceReplicas, for any replicas, any number of           *)
(* migrations and any requests.                                            *)
(***************************************************************************)
EXTENDS ServiceReplicas, SequenceTheorems, TLAPS

(***************************************************************************)
(* The inductive invariant.  ProgressInv: what a replica in the loop of    *)
(* RunMigrations knows of the files behind it and, once its INSERT has     *)
(* succeeded, of the file it is at.  OneCommits: the primary key lets one  *)
(* replica at a time hold the uncommitted row of a version.  DrainInv: no  *)
(* request is accepted after the step that waited for its kind.            *)
(***************************************************************************)
LoopSteps == {"check", "execute", "record", "commit"}

ProgressInv(r) ==
    /\ at[r] \in LoopSteps => 1 .. file[r] - 1 \subseteq versions
    /\ at[r] = "commit" => file[r] \notin versions

OneCommits ==
    \A r, s \in Replicas :
       at[r] = "commit" /\ at[s] = "commit" /\ file[r] = file[s] => r = s

DrainInv(r) ==
    /\ at[r] \in {"gracefulStop", "poolClose"} =>
          r \in timedOut \/ http[r] = NoHandlers
    /\ at[r] = "poolClose" => rpcs[r] = {}

MigrationInv ==
    /\ \A r \in Replicas : ProgressInv(r)
    /\ OneCommits
    /\ MigratedOnce

IndInv ==
    /\ TypeOK
    /\ MigrationInv
    /\ ServesMigrated
    /\ \A r \in Replicas : DrainInv(r)

-----------------------------------------------------------------------------
\* The values of every variable stay in their types.
LEMMA TypePreserved == TypeOK /\ [Next]_vars => TypeOK'
<1> SUFFICES ASSUME TypeOK, [Next]_vars PROVE TypeOK'
  OBVIOUS
<1> USE LastAssumption DEF TypeOK, Files, Steps, StartSteps, StopSteps,
        HandlerSteps, databaseVars, requestVars
<1>1. ASSUME NEW r \in Replicas, Exits(r), UNCHANGED databaseVars
      PROVE  TypeOK'
  BY <1>1 DEF Exits, Goto, NoHandlers
<1>2. ASSUME NEW r \in Replicas, Start(r) PROVE TypeOK'
  BY <1>2 DEF Start, Goto
<1>3. ASSUME NEW r \in Replicas, Connect(r) PROVE TypeOK'
  BY <1>3 DEF Connect, Proceeds, Goto
<1>4. ASSUME NEW r \in Replicas, Prepare(r) PROVE TypeOK'
  BY <1>4 DEF Prepare, Proceeds, Goto
<1>5. ASSUME NEW r \in Replicas, CheckApplied(r) PROVE TypeOK'
  BY <1>5 DEF CheckApplied, Proceeds, Goto
<1>6. ASSUME NEW r \in Replicas, CheckMissing(r) PROVE TypeOK'
  BY <1>6 DEF CheckMissing, Proceeds, Goto
<1>7. ASSUME NEW r \in Replicas, ExecuteFile(r) PROVE TypeOK'
  BY <1>7 DEF ExecuteFile, Proceeds, Goto
<1>8. ASSUME NEW r \in Replicas, RecordVersion(r) PROVE TypeOK'
  BY <1>8 DEF RecordVersion, Proceeds, Goto
<1>9. ASSUME NEW r \in Replicas, at[r] = "commit", Committed(r)
      PROVE  versions' \subseteq Files /\ executed' \in Seq(Files)
  <2>1. file[r] \in Files
    BY <1>9
  <2>2. executed \in Seq(Files)
    OBVIOUS
  <2>3. Append(executed, file[r]) \in Seq(Files)
    BY <2>1, <2>2, AppendProperties
  <2> QED
    BY <1>9, <2>1, <2>3 DEF Committed
<1>10. ASSUME NEW r \in Replicas, Commit(r) PROVE TypeOK'
  <2>1. versions' \subseteq Files /\ executed' \in Seq(Files)
    BY <1>9, <1>10 DEF Commit, Proceeds
  <2> QED
    BY <2>1, <1>10 DEF Commit, Proceeds, Goto
<1>11. ASSUME NEW r \in Replicas, CommitLost(r) PROVE TypeOK'
  <2>1. versions' \subseteq Files /\ executed' \in Seq(Files)
    BY <1>9, <1>11 DEF CommitLost
  <2> QED
    BY <2>1, <1>11 DEF CommitLost, Exits, Goto, NoHandlers
<1>12. ASSUME NEW r \in Replicas, Serve(r) PROVE TypeOK'
  BY <1>12 DEF Serve, Proceeds, Goto
<1>13. ASSUME NEW r \in Replicas, NEW q \in HttpRequests,
              AcceptHttp(r, q) \/ ReadBody(r, q) \/ QueryReturns(r, q)
                 \/ ReplyWritten(r, q)
       PROVE  TypeOK'
  <2>1. PICK h \in HandlerSteps :
           http' = [http EXCEPT ![r][q] = h]
    BY <1>13 DEF AcceptHttp, ReadBody, QueryReturns, ReplyWritten, Handler
  <2>2. http' \in [Replicas -> [HttpRequests -> HandlerSteps]]
    BY <2>1
  <2>3. UNCHANGED <<at, file, databaseVars, cancelled, rpcs, timedOut>>
    BY <1>13 DEF AcceptHttp, ReadBody, QueryReturns, ReplyWritten
  <2> QED
    BY <2>2, <2>3
<1>14. ASSUME NEW r \in Replicas, NEW q \in Rpcs,
              AcceptRpc(r, q) \/ RpcReturns(r, q)
       PROVE  TypeOK'
  <2>1. PICK S \in SUBSET Rpcs : rpcs' = [rpcs EXCEPT ![r] = S]
    BY <1>14 DEF AcceptRpc, RpcReturns
  <2>2. rpcs' \in [Replicas -> SUBSET Rpcs]
    BY <2>1
  <2>3. UNCHANGED <<at, file, databaseVars, cancelled, http, timedOut>>
    BY <1>14 DEF AcceptRpc, RpcReturns
  <2> QED
    BY <2>2, <2>3
<1>15. ASSUME NEW r \in Replicas, Cancel(r) PROVE TypeOK'
  BY <1>15 DEF Cancel
<1>16. ASSUME NEW r \in Replicas,
              Shutdown(r) \/ ShutdownReturns(r) \/ ShutdownTimesOut(r)
                 \/ GracefulStopReturns(r)
       PROVE  TypeOK'
  BY <1>16 DEF Shutdown, ShutdownReturns, ShutdownTimesOut,
               GracefulStopReturns, Goto
<1>17. CASE UNCHANGED vars
  BY <1>17 DEF vars
<1> QED
  BY <1>1, <1>2, <1>3, <1>4, <1>5, <1>6, <1>7, <1>8, <1>10, <1>11, <1>12,
     <1>13, <1>14, <1>15, <1>16, <1>17
     DEF Next, StartStep, StopStep, Fail, Kill, PoolCloses

-----------------------------------------------------------------------------
\* A step that leaves the database alone, takes no replica into the loop or
\* to its commit and moves no replica in the loop to another file.
LEMMA MigrationUndisturbed ==
    ASSUME TypeOK, TypeOK', MigrationInv, UNCHANGED databaseVars,
           \A s \in Replicas :
              /\ at'[s] \in LoopSteps => at[s] \in LoopSteps /\ file'[s] = file[s]
              /\ at'[s] = "commit" => at[s] = "commit"
    PROVE  MigrationInv'
<1>1. MigratedOnce'
  BY DEF MigrationInv, MigratedOnce, databaseVars
<1>2. ASSUME NEW s \in Replicas PROVE ProgressInv(s)'
  BY <1>2 DEF MigrationInv, ProgressInv, databaseVars, LoopSteps
<1>3. OneCommits'
  BY DEF MigrationInv, OneCommits, LoopSteps
<1> QED
  BY <1>1, <1>2, <1>3 DEF MigrationInv

\* What a commit adds is the next file, for itself and for the others.
LEMMA CommittedIsNext ==
    ASSUME TypeOK, MigrationInv, NEW r \in Replicas, at[r] = "commit",
           Committed(r)
    PROVE  /\ MigratedOnce'
           /\ versions \cup {file[r]} = versions'
           /\ \A s \in Replicas \ {r} :
                 at[s] = "commit" => file[s] \notin versions'
<1> DEFINE n == Len(executed)
<1>1. executed \in Seq(Nat) /\ n \in Nat /\ file[r] \in Nat \ {0}
  <2>1. executed \in Seq(Files) /\ file[r] \in 1 .. Last
    BY DEF TypeOK, Files
  <2>2. executed \in [1 .. n -> Files] /\ n \in Nat
    BY <2>1, LenProperties
  <2>3. executed \in Seq(Nat)
    BY <2>2, LastAssumption, SeqDef DEF Files
  <2> QED
    BY <2>1, <2>2, <2>3, LastAssumption
<1>2. versions = 1 .. n
  BY <1>1, LenProperties DEF MigrationInv, MigratedOnce
<1>3. file[r] = n + 1
  <2>1. 1 .. file[r] - 1 \subseteq 1 .. n /\ file[r] \notin 1 .. n
    BY <1>2 DEF MigrationInv, ProgressInv, LoopSteps
  <2>2. CASE file[r] > n + 1
    <3>1. n + 1 \in 1 .. file[r] - 1
      BY <1>1, <2>2
    <3> QED
      BY <1>1, <2>1, <3>1
  <2>3. CASE file[r] <= n
    BY <1>1, <2>1, <2>3
  <2> QED
    BY <1>1, <2>2, <2>3
<1>4. /\ Len(executed') = n + 1
      /\ \A i \in 1 .. n : executed'[i] = executed[i]
      /\ executed'[n + 1] = n + 1
      /\ DOMAIN executed' = 1 .. n + 1
  BY <1>1, <1>3, AppendProperties, LenProperties DEF Committed
<1>5. \A i \in 1 .. n : executed[i] = i
  BY <1>2 DEF MigrationInv, MigratedOnce
<1>6. versions' = 1 .. n + 1
  BY <1>1, <1>2, <1>3 DEF Committed
<1>7. MigratedOnce'
  BY <1>1, <1>4, <1>5, <1>6 DEF MigratedOnce
<1>8. ASSUME NEW s \in Replicas \ {r}, at[s] = "commit"
      PROVE  file[s] \notin versions'
  BY <1>8 DEF MigrationInv, OneCommits, ProgressInv, Committed
<1> QED
  BY <1>7, <1>8 DEF Committed

\* Every step keeps the migrations in order and the loops in step with them.
LEMMA MigrationPreserved ==
    TypeOK /\ TypeOK' /\ MigrationInv /\ [Next]_vars => MigrationInv'
<1> SUFFICES ASSUME TypeOK, TypeOK', MigrationInv, [Next]_vars
             PROVE  MigrationInv'
  OBVIOUS
<1>1. ASSUME NEW r \in Replicas, Exits(r), UNCHANGED databaseVars
      PROVE  MigrationInv'
  BY <1>1, MigrationUndisturbed DEF Exits, Goto, TypeOK, LoopSteps
<1>2. ASSUME NEW r \in Replicas,
             Start(r) \/ Connect(r) \/ CheckMissing(r) \/ ExecuteFile(r)
                \/ Serve(r)
      PROVE  MigrationInv'
  <2>1. UNCHANGED <<file, databaseVars>>
    BY <1>2 DEF Start, Connect, CheckMissing, ExecuteFile, Serve
  <2>2. PICK p \in Steps \ {"check", "commit"} :
           /\ at' = [at EXCEPT ![r] = p]
           /\ p \in LoopSteps => at[r] \in LoopSteps
    BY <1>2 DEF Start, Connect, CheckMissing, ExecuteFile, Serve, Proceeds,
                Goto, Steps, StartSteps, LoopSteps
  <2> QED
    BY <2>1, <2>2, MigrationUndisturbed DEF TypeOK, LoopSteps, Steps
<1>3. ASSUME NEW r \in Replicas,
             \/ Shutdown(r) \/ ShutdownReturns(r)
             \/ ShutdownTimesOut(r) \/ GracefulStopReturns(r)
      PROVE  MigrationInv'
  <2>1. UNCHANGED <<file, databaseVars>>
    BY <1>3 DEF Shutdown, ShutdownReturns, ShutdownTimesOut, GracefulStopReturns
  <2>2. PICK p \in StopSteps : at' = [at EXCEPT ![r] = p]
    BY <1>3 DEF Shutdown, ShutdownReturns, ShutdownTimesOut,
                GracefulStopReturns, Goto, StopSteps
  <2> QED
    BY <2>1, <2>2, MigrationUndisturbed DEF TypeOK, LoopSteps, StopSteps
<1>4. CASE UNCHANGED <<at, file, databaseVars>>
  BY <1>4, MigrationUndisturbed
<1>5. ASSUME NEW r \in Replicas, Prepare(r) PROVE MigrationInv'
  <2>1. /\ at' = [at EXCEPT ![r] = "check"] /\ file' = [file EXCEPT ![r] = 1]
        /\ versions' = versions /\ executed' = executed
    BY <1>5 DEF Prepare, Proceeds, Goto, databaseVars
  <2>2. \A s \in Replicas : ProgressInv(s)'
    BY <2>1 DEF MigrationInv, ProgressInv, TypeOK, LoopSteps
  <2> QED
    BY <2>1, <2>2 DEF MigrationInv, OneCommits, MigratedOnce, TypeOK
<1>6. ASSUME NEW r \in Replicas, CheckApplied(r) PROVE MigrationInv'
  <2>1. /\ at[r] = "check" /\ at' = [at EXCEPT ![r] = "check"]
        /\ file' = [file EXCEPT ![r] = file[r] + 1] /\ file[r] \in versions
        /\ versions' = versions /\ executed' = executed
    BY <1>6 DEF CheckApplied, Proceeds, Goto, databaseVars
  <2>2. file[r] \in Nat /\ 1 .. file[r] - 1 \subseteq versions
    BY <2>1, LastAssumption DEF MigrationInv, ProgressInv, LoopSteps, TypeOK
  <2>3. 1 .. (file[r] + 1) - 1 \subseteq versions
    BY <2>1, <2>2
  <2>4. \A s \in Replicas : ProgressInv(s)'
    BY <2>1, <2>3 DEF MigrationInv, ProgressInv, TypeOK, LoopSteps
  <2> QED
    BY <2>1, <2>4 DEF MigrationInv, OneCommits, MigratedOnce, TypeOK
<1>7. ASSUME NEW r \in Replicas, RecordVersion(r) PROVE MigrationInv'
  <2>1. /\ at[r] = "record" /\ at' = [at EXCEPT ![r] = "commit"]
        /\ file[r] \notin versions
        /\ file' = file /\ versions' = versions /\ executed' = executed
    BY <1>7 DEF RecordVersion, Proceeds, Goto, databaseVars
  <2>2. \A s \in Replicas \ {r} : at[s] = "commit" => file[s] # file[r]
    BY <1>7 DEF RecordVersion, Executing
  <2>3. \A s \in Replicas : ProgressInv(s)'
    BY <2>1 DEF MigrationInv, ProgressInv, TypeOK, LoopSteps
  <2>4. OneCommits'
    BY <2>1, <2>2 DEF MigrationInv, OneCommits, TypeOK
  <2> QED
    BY <2>1, <2>3, <2>4 DEF MigrationInv, MigratedOnce
<1>8. ASSUME NEW r \in Replicas, Commit(r) PROVE MigrationInv'
  <2>1. /\ at[r] = "commit" /\ at' = [at EXCEPT ![r] = "check"]
        /\ file' = [file EXCEPT ![r] = file[r] + 1] /\ Committed(r)
    BY <1>8 DEF Commit, Proceeds, Goto
  <2>2. /\ MigratedOnce' /\ versions' = versions \cup {file[r]}
        /\ \A s \in Replicas \ {r} : at[s] = "commit" => file[s] \notin versions'
    BY <2>1, CommittedIsNext
  <2>3. 1 .. (file[r] + 1) - 1 \subseteq versions'
    <3>1. file[r] \in Nat /\ 1 .. file[r] - 1 \subseteq versions
      BY <2>1, LastAssumption DEF MigrationInv, ProgressInv, LoopSteps, TypeOK
    <3> QED
      BY <3>1, <2>2
  <2>4. \A s \in Replicas : ProgressInv(s)'
    BY <2>1, <2>2, <2>3 DEF MigrationInv, ProgressInv, TypeOK, LoopSteps
  <2>5. OneCommits'
    BY <2>1 DEF MigrationInv, OneCommits, TypeOK
  <2> QED
    BY <2>2, <2>4, <2>5 DEF MigrationInv
<1>9. ASSUME NEW r \in Replicas, CommitLost(r) PROVE MigrationInv'
  <2>1. /\ at[r] = "commit" /\ at' = [at EXCEPT ![r] = "down"]
        /\ file' = [file EXCEPT ![r] = 1] /\ Committed(r)
    BY <1>9 DEF CommitLost, Exits, Goto
  <2>2. /\ MigratedOnce' /\ versions' = versions \cup {file[r]}
        /\ \A s \in Replicas \ {r} : at[s] = "commit" => file[s] \notin versions'
    BY <2>1, CommittedIsNext
  <2>3. \A s \in Replicas : ProgressInv(s)'
    BY <2>1, <2>2 DEF MigrationInv, ProgressInv, TypeOK, LoopSteps
  <2>4. OneCommits'
    BY <2>1 DEF MigrationInv, OneCommits, TypeOK
  <2> QED
    BY <2>2, <2>3, <2>4 DEF MigrationInv
<1>10. ASSUME NEW r \in Replicas, NEW q \in HttpRequests,
              AcceptHttp(r, q) \/ ReadBody(r, q) \/ QueryReturns(r, q)
                 \/ ReplyWritten(r, q)
       PROVE  MigrationInv'
  BY <1>4, <1>10 DEF AcceptHttp, ReadBody, QueryReturns, ReplyWritten
<1>11. ASSUME NEW r \in Replicas, NEW q \in Rpcs,
              AcceptRpc(r, q) \/ RpcReturns(r, q)
       PROVE  MigrationInv'
  BY <1>4, <1>11 DEF AcceptRpc, RpcReturns
<1>12. ASSUME NEW r \in Replicas, Cancel(r) PROVE MigrationInv'
  BY <1>4, <1>12 DEF Cancel
<1>13. CASE UNCHANGED vars
  BY <1>4, <1>13 DEF vars
<1> QED
  BY <1>1, <1>2, <1>3, <1>5, <1>6, <1>7, <1>8, <1>9, <1>10, <1>11, <1>12, <1>13
     DEF Next, StartStep, StopStep, Fail, Kill, PoolCloses

-----------------------------------------------------------------------------
\* A replica that begins to serve has seen every file applied, and none is
\* taken back.
LEMMA ServesMigratedPreserved ==
    TypeOK /\ TypeOK' /\ MigrationInv /\ ServesMigrated /\ [Next]_vars
       => ServesMigrated'
<1> SUFFICES ASSUME TypeOK, TypeOK', MigrationInv, ServesMigrated, [Next]_vars
             PROVE  ServesMigrated'
  OBVIOUS
<1>1. versions \subseteq versions' /\ versions' \subseteq Files
  <2>1. versions' = versions \/ \E r \in Replicas : Committed(r)
    BY DEF Next, StartStep, StopStep, Fail, Kill, PoolCloses, Start, Connect,
           Prepare, CheckApplied, CheckMissing, ExecuteFile, RecordVersion,
           Commit, Serve, CommitLost, AcceptHttp, ReadBody, QueryReturns,
           ReplyWritten, AcceptRpc, RpcReturns, Cancel, Shutdown,
           ShutdownReturns, ShutdownTimesOut, GracefulStopReturns, vars,
           databaseVars
  <2> QED
    BY <2>1 DEF Committed, TypeOK
<1>2. ASSUME NEW s \in Replicas, at'[s] \in {"serving"} \cup StopSteps
      PROVE  at[s] \in {"serving"} \cup StopSteps \/ Serve(s)
  BY <1>2 DEF Next, StartStep, StopStep, Fail, Kill, PoolCloses, Start, Connect,
           Prepare, CheckApplied, CheckMissing, ExecuteFile, RecordVersion,
           Commit, Serve, CommitLost, AcceptHttp, ReadBody, QueryReturns,
           ReplyWritten, AcceptRpc, RpcReturns, Cancel, Shutdown,
           ShutdownReturns, ShutdownTimesOut, GracefulStopReturns, vars,
           Proceeds, Goto, Exits, StopSteps, TypeOK
<1>3. ASSUME NEW s \in Replicas, Serve(s) PROVE versions = Files
  <2>1. 1 .. file[s] - 1 \subseteq versions
    BY <1>3 DEF Serve, Proceeds, MigrationInv, ProgressInv, LoopSteps
  <2>2. file[s] \in 1 .. Last + 1 /\ file[s] \notin 1 .. Last
    BY <1>3 DEF Serve, TypeOK, Files
  <2>3. file[s] - 1 = Last
    BY <2>2, LastAssumption
  <2> QED
    BY <2>1, <2>3 DEF TypeOK, Files
<1> QED
  BY <1>1, <1>2, <1>3 DEF ServesMigrated

\* Only a replica that serves accepts HTTP requests, and none accepts an RPC
\* once GracefulStop has returned.
LEMMA DrainPreserved ==
    TypeOK /\ (\A r \in Replicas : DrainInv(r)) /\ [Next]_vars
       => (\A r \in Replicas : DrainInv(r))'
<1> SUFFICES ASSUME TypeOK, \A r \in Replicas : DrainInv(r), [Next]_vars,
                    NEW s \in Replicas
             PROVE  DrainInv(s)'
  OBVIOUS
<1> USE DEF TypeOK
<1>1. ASSUME NEW r \in Replicas, Exits(r) PROVE DrainInv(s)'
  BY <1>1 DEF Exits, Goto, DrainInv
<1>2. ASSUME NEW r \in Replicas, Start(r) \/ StartStep(r)
      PROVE  DrainInv(s)'
  <2>1. UNCHANGED requestVars
    BY <1>2 DEF Start, StartStep, Connect, Prepare, CheckApplied, CheckMissing,
                ExecuteFile, RecordVersion, Commit, Serve
  <2>2. \E p \in LoopSteps \cup {"connect", "prepare", "serving"} :
           at' = [at EXCEPT ![r] = p]
    BY <1>2 DEF Start, StartStep, Connect, Prepare, CheckApplied, CheckMissing,
                ExecuteFile, RecordVersion, Commit, Serve, Proceeds, Goto,
                LoopSteps
  <2> QED
    BY <2>1, <2>2 DEF DrainInv, requestVars, LoopSteps
<1>3. ASSUME NEW r \in Replicas, NEW q \in HttpRequests, AcceptHttp(r, q)
      PROVE  DrainInv(s)'
  BY <1>3 DEF AcceptHttp, Handler, DrainInv
<1>4. ASSUME NEW r \in Replicas, NEW q \in HttpRequests,
             ReadBody(r, q) \/ QueryReturns(r, q) \/ ReplyWritten(r, q)
      PROVE  DrainInv(s)'
  <2>1. /\ http[r][q] # "none"
        /\ \E h \in HandlerSteps : http' = [http EXCEPT ![r][q] = h]
        /\ UNCHANGED <<at, rpcs, timedOut>>
    BY <1>4 DEF ReadBody, QueryReturns, ReplyWritten, Handler, HandlerSteps
  <2>2. http[r] # NoHandlers
    BY <2>1 DEF NoHandlers
  <2>3. s # r => http'[s] = http[s]
    BY <2>1
  <2> QED
    BY <2>1, <2>2, <2>3 DEF DrainInv
<1>5. ASSUME NEW r \in Replicas, NEW q \in Rpcs,
             AcceptRpc(r, q) \/ RpcReturns(r, q)
      PROVE  DrainInv(s)'
  BY <1>5 DEF AcceptRpc, RpcReturns, DrainInv
<1>6. ASSUME NEW r \in Replicas, Cancel(r) PROVE DrainInv(s)'
  BY <1>6 DEF Cancel, DrainInv, requestVars
<1>7. ASSUME NEW r \in Replicas, Shutdown(r) PROVE DrainInv(s)'
  BY <1>7 DEF Shutdown, Goto, DrainInv, requestVars
<1>8. ASSUME NEW r \in Replicas, ShutdownReturns(r) PROVE DrainInv(s)'
  BY <1>8 DEF ShutdownReturns, Goto, DrainInv, requestVars
<1>9. ASSUME NEW r \in Replicas, ShutdownTimesOut(r) PROVE DrainInv(s)'
  BY <1>9 DEF ShutdownTimesOut, Goto, DrainInv
<1>10. ASSUME NEW r \in Replicas, GracefulStopReturns(r) PROVE DrainInv(s)'
  BY <1>10 DEF GracefulStopReturns, Goto, DrainInv, requestVars
<1>11. CASE UNCHANGED vars
  BY <1>11 DEF vars, requestVars, DrainInv
<1> QED
  BY <1>1, <1>2, <1>3, <1>4, <1>5, <1>6, <1>7, <1>8, <1>9, <1>10, <1>11
     DEF Next, StopStep, Fail, Kill, PoolCloses, CommitLost

-----------------------------------------------------------------------------
(***************************************************************************)
(* The invariant holds in every reachable state of every instance of       *)
(* main, RunMigrations and the shutdown.                                   *)
(***************************************************************************)
THEOREM InductiveInvariant == Spec => []IndInv
<1>1. Init => IndInv
  <2> SUFFICES ASSUME Init PROVE IndInv
    OBVIOUS
  <2>1. TypeOK
    BY LastAssumption, EmptySeq
       DEF Init, TypeOK, Steps, Files, NoHandlers, HandlerSteps
  <2>2. MigratedOnce
    BY DEF Init, MigratedOnce
  <2> QED
    BY <2>1, <2>2 DEF Init, IndInv, MigrationInv, ProgressInv, OneCommits,
                      ServesMigrated, DrainInv, LoopSteps, StopSteps
<1>2. IndInv /\ [Next]_vars => IndInv'
  BY TypePreserved, MigrationPreserved, ServesMigratedPreserved, DrainPreserved
     DEF IndInv
<1> QED
  BY <1>1, <1>2, PTL DEF Spec

\* Every variable keeps its type; no transaction is on a file past the last.
THEOREM TypeCorrect == Spec => []TypeOK
<1>1. IndInv => TypeOK
  BY DEF IndInv
<1> QED
  BY <1>1, InductiveInvariant, PTL

(***************************************************************************)
(* RunMigrations by any number of replicas, with any failures in between,  *)
(* commits the content of every file once and in order.                    *)
(***************************************************************************)
THEOREM MigratesOnce == Spec => []MigratedOnce
<1>1. IndInv => MigratedOnce
  BY DEF IndInv, MigrationInv
<1> QED
  BY <1>1, InductiveInvariant, PTL

\* A service takes requests only over a database with every migration.
THEOREM ServesOnlyMigrated == Spec => []ServesMigrated
<1>1. IndInv => ServesMigrated
  BY DEF IndInv
<1> QED
  BY <1>1, InductiveInvariant, PTL

\* main closes the pool after the RPCs, and after the HTTP requests that were
\* done in time.
THEOREM DrainsFirst == Spec => []Drained
<1>1. IndInv => Drained
  BY DEF IndInv, DrainInv, Drained
<1> QED
  BY <1>1, InductiveInvariant, PTL

-----------------------------------------------------------------------------
(***************************************************************************)
(* Replicas that start at the same time never wait for each other in a     *)
(* circle, and one that stops never waits for what cannot come.            *)
(***************************************************************************)
StopInv ==
    /\ \A r \in cancelled : at[r] # "down"
    /\ \A r \in Replicas : at[r] \in StopSteps => r \in cancelled

\* Nothing takes a cancellation back but the end of the process.
LEMMA StopPreserved == TypeOK /\ StopInv /\ [Next]_vars => StopInv'
<1> SUFFICES ASSUME TypeOK, StopInv, [Next]_vars PROVE StopInv'
  OBVIOUS
<1> USE DEF TypeOK, StopInv, StopSteps
<1>1. ASSUME NEW r \in Replicas, Exits(r) PROVE StopInv'
  BY <1>1 DEF Exits, Goto
<1>2. ASSUME NEW r \in Replicas,
             \/ Start(r) \/ StartStep(r)
             \/ Shutdown(r) \/ ShutdownReturns(r) \/ ShutdownTimesOut(r)
             \/ GracefulStopReturns(r)
      PROVE  StopInv'
  <2>1. /\ cancelled' = cancelled
        /\ at'[r] # "down" /\ \A s \in Replicas \ {r} : at'[s] = at[s]
    BY <1>2 DEF Start, StartStep, Connect, Prepare, CheckApplied, CheckMissing,
           ExecuteFile, RecordVersion, Commit, Serve, Proceeds, Goto, Shutdown,
           ShutdownReturns, ShutdownTimesOut, GracefulStopReturns
  <2>2. at'[r] \in StopSteps => r \in cancelled
    BY <1>2 DEF Start, StartStep, Connect, Prepare, CheckApplied, CheckMissing,
           ExecuteFile, RecordVersion, Commit, Serve, Proceeds, Goto, Shutdown,
           ShutdownReturns, ShutdownTimesOut, GracefulStopReturns
  <2> QED
    BY <2>1, <2>2
<1>3. ASSUME NEW r \in Replicas, Cancel(r) PROVE StopInv'
  BY <1>3 DEF Cancel, StartSteps
<1>4. CASE UNCHANGED <<at, cancelled>>
  BY <1>4
<1> QED
  BY <1>1, <1>2, <1>3, <1>4
     DEF Next, StopStep, Fail, Kill, PoolCloses, CommitLost, AcceptHttp, ReadBody,
         QueryReturns, ReplyWritten, AcceptRpc, RpcReturns, vars

\* A wait for another transaction ends at the replica that commits.
LEMMA SomebodyCanGo == TypeOK /\ StopInv => NeverStuck
<1> SUFFICES ASSUME TypeOK, StopInv, NEW r \in Replicas,
                    at[r] \in StartSteps \/ r \in cancelled
             PROVE  \/ CanGo(r)
                    \/ \E s \in Executing(r, {"record", "commit"}) :
                          CanGo(s) \/ \E t \in Executing(s, {"commit"}) : CanGo(t)
                    \/ at[r] = "gracefulStop" /\ rpcs[r] # {}
                    \/ at[r] = "poolClose" /\ \E q \in HttpRequests : http[r][q] = "query"
  BY DEF NeverStuck
<1>1. ASSUME NEW s \in Replicas, at[s] = "commit" PROVE CanGo(s)
  BY <1>1 DEF CanGo
<1>2. ASSUME NEW s \in Replicas, at[s] = "record", ~ CanGo(s)
      PROVE  \E t \in Executing(s, {"commit"}) : CanGo(t)
  <2>1. PICK t \in Executing(s, {"commit"}) : TRUE
    BY <1>2 DEF CanGo
  <2>2. t \in Replicas /\ at[t] = "commit"
    BY <2>1 DEF Executing
  <2> QED
    BY <1>1, <2>1, <2>2
<1>3. CASE at[r] = "execute" /\ ~ CanGo(r)
  <2>1. PICK s \in Executing(r, {"record", "commit"}) : TRUE
    BY <1>3 DEF CanGo
  <2>2. s \in Replicas /\ at[s] \in {"record", "commit"}
    BY <2>1 DEF Executing
  <2> QED
    BY <1>1, <1>2, <2>1, <2>2
<1>4. CASE at[r] = "record" /\ ~ CanGo(r)
  <2>1. PICK t \in Executing(r, {"commit"}) : CanGo(t)
    BY <1>2, <1>4
  <2>2. t \in Executing(r, {"record", "commit"})
    BY <2>1 DEF Executing
  <2> QED
    BY <2>1, <2>2
<1>5. CASE at[r] \notin {"execute", "record"}
  <2>1. at[r] \in StartSteps \cup StopSteps \cup {"serving"}
    BY DEF TypeOK, StopInv, Steps
  <2>2. at[r] = "serving" => r \in cancelled
    BY DEF StartSteps
  <2> QED
    BY <1>5, <2>1, <2>2 DEF CanGo, StartSteps, StopSteps
<1> QED
  BY <1>3, <1>4, <1>5

(***************************************************************************)
(* Starting and stopping never hang on another replica or on a client.     *)
(***************************************************************************)
THEOREM ReplicasNeverHang == Spec => []NeverStuck
<1>1. Init => StopInv
  BY DEF Init, StopInv, StopSteps
<1> QED
  BY <1>1, StopPreserved, SomebodyCanGo, TypeCorrect, PTL DEF Spec
=============================================================================
