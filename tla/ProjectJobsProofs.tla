-------------------------- MODULE ProjectJobsProofs --------------------------
(***************************************************************************)
(* Proofs about ProjectJobs, for every set of jobs and projects, every     *)
(* size of the pool and any number of restarts and faults.  One inductive  *)
(* invariant, Workers, says what the queues, the coroutines, the sessions, *)
(* the intents and the rows of the projects tell of one another.           *)
(***************************************************************************)
EXTENDS ProjectJobs, Integers, SequenceTheorems, FiniteSetTheorems, WellFoundedInduction, TLAPS

-----------------------------------------------------------------------------
(* Types *)

\* TypeOK without the owners of the locks, which need Sessions below.
Types ==
  /\ job \in [Jobs -> {"absent", "queued", "running"} \cup Final]
  /\ older \in [Jobs -> SUBSET Jobs]
  /\ row \in [Projects -> BOOLEAN]
  /\ keyed \in [Projects -> BOOLEAN]
  /\ pc \in [Jobs -> Taken \cup {"none", "accepted", "waiting"}]
  /\ queue \in [Projects -> Seq(Jobs)]
  /\ advisory \in [Projects -> Jobs \cup {"none"}]
  /\ lost \in SUBSET Jobs
  /\ command \in [Intents -> Host!Status]
  /\ api \in {"down", "recovering", "up"}
  /\ todo \in SUBSET Jobs
  /\ restarts \in 0 .. MaxRestarts
  /\ faults \in 0 .. MaxFaults

\* The projects a job locks are projects.
LEMMA LockIdsType == \A j \in Jobs : Name[j] \in Projects /\ LockIds(j) \subseteq Projects
  BY JobsAssumption DEF LockIds

\* What a write of a job's row and a move of its coroutine keep.
LEMMA StatusType ==
  ASSUME Types, NEW j \in Jobs, NEW s \in {"queued", "running"} \cup Final, SetStatus(j, s)
  PROVE  /\ job' \in [Jobs -> {"absent", "queued", "running"} \cup Final]
         /\ older' \in [Jobs -> SUBSET Jobs]
  BY DEF Types, SetStatus, Final

\* The place a coroutine moves to is one of its places.
LEMMA PlaceType ==
  ASSUME Types, NEW j \in Jobs, NEW q \in Taken \cup {"none", "accepted", "waiting"}, Goto(j, q)
  PROVE  pc' \in [Jobs -> Taken \cup {"none", "accepted", "waiting"}]
  BY DEF Types, Goto

\* A runner that fails keeps them too.
LEMMA FailType ==
  ASSUME Types, NEW j \in Jobs, Fail(j)
  PROVE  /\ job' \in [Jobs -> {"absent", "queued", "running"} \cup Final]
         /\ older' \in [Jobs -> SUBSET Jobs]
         /\ pc' \in [Jobs -> Taken \cup {"none", "accepted", "waiting"}]
  BY StatusType, PlaceType DEF Fail, Final, Taken, Holding, Runner

\* Every step keeps the types.
LEMMA NextTypes == Types /\ [Next]_vars => Types'
<1> SUFFICES ASSUME Types, [Next]_vars PROVE Types'
  OBVIOUS
<1> USE DEF Types, Taken, Holding, Runner, Final, rowVars, memory, process
<1>1. ASSUME NEW j \in Jobs, AcceptJob(j) PROVE Types'
  BY <1>1, LockIdsType DEF AcceptJob, SetStatus, Goto
<1>2. ASSUME NEW j \in Jobs, Enqueue(j) PROVE Types'
  <2>1. CASE queue' = [queue EXCEPT ![Name[j]] = Append(@, j)] /\ Goto(j, "waiting") /\ UNCHANGED <<job, older>>
    <3>1. Append(queue[Name[j]], j) \in Seq(Jobs)
      BY LockIdsType
    <3> QED
      BY <1>2, <2>1, <3>1, LockIdsType DEF Enqueue, Goto
  <2>2. CASE SetStatus(j, "failed") /\ Goto(j, "none") /\ UNCHANGED queue
    BY <1>2, <2>2, StatusType, PlaceType DEF Enqueue
  <2> QED
    BY <1>2, <2>1, <2>2 DEF Enqueue
<1>3. ASSUME NEW j \in Jobs, AcquireConnection(j) PROVE Types'
  BY <1>3 DEF AcquireConnection, Goto
<1>4. ASSUME NEW j \in Jobs, NEW p \in Projects, LockProject(j, p) PROVE Types'
  BY <1>4 DEF LockProject
<1>5. ASSUME NEW j \in Jobs, EnterRunner(j) PROVE Types'
  BY <1>5 DEF EnterRunner, Goto
<1>6. ASSUME NEW j \in Jobs, Unlock(j) PROVE Types'
  BY <1>6 DEF Unlock, Goto, Released
<1>7. ASSUME NEW j \in Jobs, UnlockFails(j) PROVE Types'
  BY <1>7 DEF UnlockFails, SetStatus, Goto
<1>8. ASSUME NEW j \in Jobs, StartRunner(j) PROVE Types'
  BY <1>8 DEF StartRunner, SetStatus, Goto
<1>9. ASSUME NEW j \in Jobs, Bootstrap(j) PROVE Types'
  <2>1. CASE Fail(j) /\ UNCHANGED keyed
    BY <1>9, <2>1, FailType DEF Bootstrap
  <2>2. CASE keyed' = [keyed EXCEPT ![Name[j]] = TRUE] /\ Goto(j, "find") /\ UNCHANGED <<job, older>>
    BY <1>9, <2>2, LockIdsType DEF Bootstrap, Goto
  <2> QED
    BY <1>9, <2>1, <2>2 DEF Bootstrap
<1>10. ASSUME NEW j \in Jobs, FindCommand(j) PROVE Types'
  BY <1>10 DEF FindCommand, Goto
<1>11. ASSUME NEW j \in Jobs, SubmitCommand(j) PROVE Types'
  BY <1>11 DEF SubmitCommand, Goto, Host!Accept, Host!Status
<1>12. ASSUME NEW j \in Jobs, WaitEnds(j) PROVE Types'
  <2>1. CASE Fail(j)
    BY <1>12, <2>1, FailType DEF WaitEnds
  <2>2. CASE SetStatus(j, "done") /\ Goto(j, "unlock")
    BY <1>12, <2>2, StatusType, PlaceType DEF WaitEnds
  <2> QED
    BY <1>12, <2>1, <2>2 DEF WaitEnds
<1>13. ASSUME NEW j \in Jobs, Rollback(j) PROVE Types'
  BY <1>13, LockIdsType DEF Rollback, Goto
<1>14. ASSUME NEW j \in Jobs, MirrorProgress(j) PROVE Types'
  BY <1>14 DEF MirrorProgress, SetStatus
<1>15. ASSUME NEW j \in Jobs, WithdrawCommand(j) PROVE Types'
  BY <1>15 DEF WithdrawCommand, Host!Withdraw, Host!Status, Host!Final
<1>16. ASSUME NEW j \in Jobs, LoseConnection(j) PROVE Types'
  BY <1>16, JobsAssumption DEF LoseConnection, Released
<1>17. ASSUME NEW j \in Jobs, RollbackFails(j) PROVE Types'
  BY <1>17, JobsAssumption DEF RollbackFails, Goto
<1>18. ASSUME NEW j \in Jobs, RunnerRaises(j) PROVE Types'
  BY <1>18, JobsAssumption DEF RunnerRaises, Fail, SetStatus, Goto
<1>19. ASSUME NEW j \in Jobs, RecoverJob(j) PROVE Types'
  <2>1. job' \in [Jobs -> {"absent", "queued", "running"} \cup Final] /\ older' \in [Jobs -> SUBSET Jobs]
    BY <1>19, StatusType DEF RecoverJob
  <2>2. pc' \in [Jobs -> Taken \cup {"none", "accepted", "waiting"}]
    BY <1>19, PlaceType DEF RecoverJob
  <2> QED
    BY <1>19, <2>1, <2>2 DEF RecoverJob
<1>20. ASSUME NEW p \in Projects, TakeNext(p) PROVE Types'
  <2>1. Head(queue[p]) \in Jobs /\ Tail(queue[p]) \in Seq(Jobs)
    BY <1>20, HeadTailProperties DEF TakeNext
  <2> QED
    BY <1>20, <2>1 DEF TakeNext, Goto
<1>21. ASSUME NEW i \in Intents, HostBegins(i) PROVE Types'
  BY <1>21 DEF HostBegins, Host!Begin, Host!Status
<1>22. ASSUME NEW i \in Intents, HostEnds(i) PROVE Types'
  <2>1. command' \in [Intents -> Host!Status]
    <3>1. CASE Host!Succeed(i)
      BY <3>1 DEF Host!Succeed, Host!Status, Host!Final
    <3>2. CASE Host!Fail({i})
      BY <3>2 DEF Host!Fail, Host!Status, Host!Final
    <3> QED
      BY <1>22, <3>1, <3>2 DEF HostEnds
  <2> QED
    BY <1>22, <2>1 DEF HostEnds
<1>23. ASSUME ApiStops PROVE Types'
  BY <1>23, JobsAssumption DEF ApiStops
<1>24. ASSUME ApiStarts PROVE Types'
  BY <1>24 DEF ApiStarts, Pending
<1>25. ASSUME Serve PROVE Types'
  BY <1>25 DEF Serve
<1>26. CASE UNCHANGED vars
  BY <1>26 DEF vars
<1> QED
  BY <1>1, <1>2, <1>3, <1>4, <1>5, <1>6, <1>7, <1>8, <1>9, <1>10, <1>11, <1>12,
     <1>13, <1>14, <1>15, <1>16, <1>17, <1>18, <1>19, <1>20, <1>21, <1>22, <1>23,
     <1>24, <1>25, <1>26
  DEF Next, WorkerStep, RunnerStep, Fault

-----------------------------------------------------------------------------
(* Queues, coroutines and sessions *)

\* A queue holds jobs of its project that wait, each once.
Queued == \A p \in Projects : \A i \in 1 .. Len(queue[p]) :
  /\ Name[queue[p][i]] = p
  /\ pc[queue[p][i]] = "waiting"
  /\ \A k \in 1 .. Len(queue[p]) : queue[p][k] = queue[p][i] => k = i

\* The status of a job follows its coroutine.
Statuses == \A j \in Jobs :
  /\ pc[j] \in {"accepted", "waiting", "acquire", "lock", "start"} => job[j] = "queued"
  /\ pc[j] \in {"bootstrap", "find", "submit", "wait"} => job[j] = "running"
  /\ pc[j] = "rollback" => job[j] = "failed" /\ Bootstraps(j)
  /\ pc[j] = "unlock" => job[j] \in Final

\* A job that recovery has still to look at has no coroutine, nor has any while
\* the API is down.
Recovering ==
  /\ \A j \in todo : pc[j] = "none" /\ job[j] \in {"queued", "running"}
  /\ api = "down" => \A j \in Jobs : pc[j] = "none"

\* A lock is held by a worker whose session lives, and a runner whose session
\* lives has locked its projects.
Sessions ==
  /\ \A p \in Projects : advisory[p] # "none" =>
       pc[advisory[p]] \in Holding /\ advisory[p] \notin lost
  /\ \A j \in lost : pc[j] \in Runner \cup {"unlock"}
  /\ \A j \in Jobs \ lost : pc[j] \in Runner =>
       \A p \in LockIds(j) : advisory[p] = j


\* Every step keeps the queues in order.
LEMMA NextQueued == Types /\ Queued /\ Statuses /\ Recovering /\ [Next]_vars => Queued'
<1> SUFFICES ASSUME Types, Queued, Statuses, Recovering, [Next]_vars PROVE Queued'
  OBVIOUS
<1> USE DEF Queued, Types, Taken, Holding, Runner, Final, rowVars, memory, process
<1>1. ASSUME NEW j \in Jobs, AcceptJob(j) PROVE Queued'
  BY <1>1 DEF AcceptJob, SetStatus, Goto, Statuses
<1>2. ASSUME NEW j \in Jobs, Enqueue(j) PROVE Queued'
  <2>1. CASE Goto(j, "none") /\ UNCHANGED queue
    BY <1>2, <2>1 DEF Enqueue, Goto
  <2>2. CASE queue' = [queue EXCEPT ![Name[j]] = Append(@, j)] /\ Goto(j, "waiting")
    <3>1. /\ queue'[Name[j]] = Append(queue[Name[j]], j)
          /\ \A p \in Projects \ {Name[j]} : queue'[p] = queue[p]
      BY <2>2, LockIdsType
    <3>2. /\ Len(queue'[Name[j]]) = Len(queue[Name[j]]) + 1
          /\ \A i \in 1 .. Len(queue[Name[j]]) : queue'[Name[j]][i] = queue[Name[j]][i]
          /\ queue'[Name[j]][Len(queue[Name[j]]) + 1] = j
          /\ Len(queue[Name[j]]) \in Nat
      BY <3>1, AppendProperties, LockIdsType
    <3>3. \A p \in Projects : \A i \in 1 .. Len(queue[p]) : queue[p][i] # j /\ queue[p][i] \in Jobs
      BY <1>2 DEF Enqueue
    <3>4. pc' = [pc EXCEPT ![j] = "waiting"]
      BY <2>2 DEF Goto
    <3>5. ASSUME NEW p \in Projects \ {Name[j]}, NEW i \in 1 .. Len(queue'[p])
          PROVE  /\ Name[queue'[p][i]] = p
                 /\ pc'[queue'[p][i]] = "waiting"
                 /\ \A k \in 1 .. Len(queue'[p]) : queue'[p][k] = queue'[p][i] => k = i
      BY <3>1, <3>3, <3>4, <3>5
    <3>6. ASSUME NEW i \in 1 .. Len(queue'[Name[j]])
          PROVE  /\ Name[queue'[Name[j]][i]] = Name[j]
                 /\ pc'[queue'[Name[j]][i]] = "waiting"
                 /\ \A k \in 1 .. Len(queue'[Name[j]]) :
                      queue'[Name[j]][k] = queue'[Name[j]][i] => k = i
      <4> DEFINE q == queue[Name[j]]
                 r == queue'[Name[j]]
      <4>1. /\ \A k \in 1 .. Len(r) : k \in 1 .. Len(q) \/ k = Len(q) + 1
            /\ \A k \in 1 .. Len(q) : r[k] = q[k] /\ q[k] # j /\ q[k] \in Jobs
            /\ r[Len(q) + 1] = j /\ i \in 1 .. Len(r)
        BY <3>2, <3>3, <3>6, LockIdsType
      <4>2. \A k \in 1 .. Len(q) :
              /\ Name[q[k]] = Name[j] /\ pc[q[k]] = "waiting"
              /\ \A l \in 1 .. Len(q) : q[l] = q[k] => l = k
        BY LockIdsType
      <4> HIDE DEF q, r, Queued, Types
      <4>3. \A k \in 1 .. Len(q) : pc'[r[k]] = "waiting" /\ pc'[j] = "waiting"
        BY <3>4, <4>1, <4>2 DEF Types
      <4>4. CASE i = Len(q) + 1
        <5>1. \A k \in 1 .. Len(r) : r[k] = r[i] => k = i
          BY <4>1, <4>4
        <5> QED
          BY <3>4, <4>1, <4>3, <4>4, <5>1 DEF Types, r
      <4>5. CASE i \in 1 .. Len(q)
        BY <4>1, <4>2, <4>3, <4>5 DEF r
      <4> QED
        BY <4>1, <4>4, <4>5
    <3>7. ASSUME NEW p \in Projects, NEW i \in 1 .. Len(queue'[p])
          PROVE  /\ Name[queue'[p][i]] = p
                 /\ pc'[queue'[p][i]] = "waiting"
                 /\ \A k \in 1 .. Len(queue'[p]) : queue'[p][k] = queue'[p][i] => k = i
      <4>1. CASE p = Name[j]
        BY <3>6, <3>7, <4>1
      <4>2. CASE p # Name[j]
        BY <3>5, <3>7, <4>2
      <4> QED
        BY <4>1, <4>2
    <3> QED
      BY <3>7
  <2> QED
    BY <1>2, <2>1, <2>2 DEF Enqueue
<1>3. ASSUME NEW j \in Jobs, AcquireConnection(j) PROVE Queued'
  BY <1>3 DEF AcquireConnection, Goto
<1>4. ASSUME NEW j \in Jobs, NEW p \in Projects, LockProject(j, p) PROVE Queued'
  BY <1>4 DEF LockProject
<1>5. ASSUME NEW j \in Jobs, EnterRunner(j) PROVE Queued'
  BY <1>5 DEF EnterRunner, Goto
<1>6. ASSUME NEW j \in Jobs, Unlock(j) PROVE Queued'
  BY <1>6 DEF Unlock, Goto, Released
<1>7. ASSUME NEW j \in Jobs, UnlockFails(j) PROVE Queued'
  BY <1>7 DEF UnlockFails, SetStatus, Goto
<1>8. ASSUME NEW j \in Jobs, StartRunner(j) PROVE Queued'
  BY <1>8 DEF StartRunner, SetStatus, Goto
<1>9. ASSUME NEW j \in Jobs, Bootstrap(j) PROVE Queued'
  BY <1>9 DEF Bootstrap, Fail, SetStatus, Goto
<1>10. ASSUME NEW j \in Jobs, FindCommand(j) PROVE Queued'
  BY <1>10 DEF FindCommand, Goto
<1>11. ASSUME NEW j \in Jobs, SubmitCommand(j) PROVE Queued'
  BY <1>11 DEF SubmitCommand, Goto, Host!Accept
<1>12. ASSUME NEW j \in Jobs, WaitEnds(j) PROVE Queued'
  BY <1>12 DEF WaitEnds, Fail, SetStatus, Goto
<1>13. ASSUME NEW j \in Jobs, Rollback(j) PROVE Queued'
  BY <1>13 DEF Rollback, Goto
<1>14. ASSUME NEW j \in Jobs, MirrorProgress(j) PROVE Queued'
  BY <1>14 DEF MirrorProgress, SetStatus
<1>15. ASSUME NEW j \in Jobs, WithdrawCommand(j) PROVE Queued'
  BY <1>15 DEF WithdrawCommand, Host!Withdraw
<1>16. ASSUME NEW j \in Jobs, LoseConnection(j) PROVE Queued'
  BY <1>16 DEF LoseConnection, Released
<1>17. ASSUME NEW j \in Jobs, RollbackFails(j) PROVE Queued'
  BY <1>17 DEF RollbackFails, Goto
<1>18. ASSUME NEW j \in Jobs, RunnerRaises(j) PROVE Queued'
  BY <1>18 DEF RunnerRaises, Fail, SetStatus, Goto
<1>19. ASSUME NEW j \in Jobs, RecoverJob(j) PROVE Queued'
  BY <1>19 DEF RecoverJob, SetStatus, Goto, Recovering
<1>20. ASSUME NEW p \in Projects, TakeNext(p) PROVE Queued'
  <2>1. /\ Len(queue'[p]) = Len(queue[p]) - 1
        /\ \A i \in 1 .. Len(queue'[p]) : queue'[p][i] = queue[p][i + 1]
        /\ \A q \in Projects \ {p} : queue'[q] = queue[q]
        /\ Len(queue[p]) \in Nat \ {0}
    BY <1>20, HeadTailProperties DEF TakeNext
  <2>2. pc' = [pc EXCEPT ![queue[p][1]] = "acquire"] /\ queue[p][1] \in Jobs
    BY <1>20, HeadTailProperties DEF TakeNext, Goto
  <2>3. ASSUME NEW q \in Projects, NEW i \in 1 .. Len(queue'[q])
        PROVE  queue'[q][i] # queue[p][1]
    <3>1. CASE q = p
      <4>1. i + 1 \in 1 .. Len(queue[p]) /\ 1 \in 1 .. Len(queue[p]) /\ i + 1 # 1
        BY <2>1, <2>3, <3>1
      <4> QED
        BY <2>1, <2>3, <3>1, <4>1
    <3>2. CASE q # p
      BY <2>1, <2>3, <3>2
    <3> QED
      BY <3>1, <3>2
  <2>4. ASSUME NEW q \in Projects \ {p}, NEW i \in 1 .. Len(queue'[q])
        PROVE  /\ Name[queue'[q][i]] = q
               /\ pc'[queue'[q][i]] = "waiting"
               /\ \A k \in 1 .. Len(queue'[q]) : queue'[q][k] = queue'[q][i] => k = i
    BY <2>1, <2>2, <2>3, <2>4
  <2>5. ASSUME NEW i \in 1 .. Len(queue'[p])
        PROVE  /\ Name[queue'[p][i]] = p
               /\ pc'[queue'[p][i]] = "waiting"
               /\ \A k \in 1 .. Len(queue'[p]) : queue'[p][k] = queue'[p][i] => k = i
    <3>1. \A k \in 1 .. Len(queue'[p]) : k + 1 \in 1 .. Len(queue[p])
      BY <2>1
    <3>2. queue[p][i + 1] \in Jobs
      BY <2>5, <3>1
    <3> QED
      BY <2>1, <2>2, <2>3, <2>5, <3>1, <3>2
  <2>6. ASSUME NEW q \in Projects, NEW i \in 1 .. Len(queue'[q])
        PROVE  /\ Name[queue'[q][i]] = q
               /\ pc'[queue'[q][i]] = "waiting"
               /\ \A k \in 1 .. Len(queue'[q]) : queue'[q][k] = queue'[q][i] => k = i
    <3>1. CASE q = p
      BY <2>5, <2>6, <3>1
    <3>2. CASE q # p
      BY <2>4, <2>6, <3>2
    <3> QED
      BY <3>1, <3>2
  <2> QED
    BY <2>6
<1>21. ASSUME NEW i \in Intents, HostBegins(i) PROVE Queued'
  BY <1>21 DEF HostBegins, Host!Begin
<1>22. ASSUME NEW i \in Intents, HostEnds(i) PROVE Queued'
  BY <1>22 DEF HostEnds, Host!Succeed, Host!Fail
<1>23. ASSUME ApiStops PROVE Queued'
  BY <1>23 DEF ApiStops
<1>24. ASSUME ApiStarts PROVE Queued'
  BY <1>24 DEF ApiStarts, Pending
<1>25. ASSUME Serve PROVE Queued'
  BY <1>25 DEF Serve
<1>26. CASE UNCHANGED vars
  BY <1>26 DEF vars
<1> QED
  BY <1>1, <1>2, <1>3, <1>4, <1>5, <1>6, <1>7, <1>8, <1>9, <1>10, <1>11, <1>12,
     <1>13, <1>14, <1>15, <1>16, <1>17, <1>18, <1>19, <1>20, <1>21, <1>22, <1>23,
     <1>24, <1>25, <1>26
  DEF Next, WorkerStep, RunnerStep, Fault

\* Every step keeps the status of a job in line with its coroutine.
LEMMA NextStatuses == Types /\ Queued /\ Statuses /\ Recovering /\ [Next]_vars => Statuses'
<1> SUFFICES ASSUME Types, Queued, Statuses, Recovering, [Next]_vars PROVE Statuses'
  OBVIOUS
<1> USE DEF Statuses, Types, Taken, Holding, Runner, Final, rowVars, memory, process
<1>1. ASSUME NEW j \in Jobs, AcceptJob(j) PROVE Statuses'
  BY <1>1 DEF AcceptJob, SetStatus, Goto
<1>2. ASSUME NEW j \in Jobs, Enqueue(j) PROVE Statuses'
  BY <1>2 DEF Enqueue, SetStatus, Goto
<1>3. ASSUME NEW j \in Jobs, AcquireConnection(j) PROVE Statuses'
  BY <1>3 DEF AcquireConnection, Goto
<1>4. ASSUME NEW j \in Jobs, NEW p \in Projects, LockProject(j, p) PROVE Statuses'
  BY <1>4 DEF LockProject
<1>5. ASSUME NEW j \in Jobs, EnterRunner(j) PROVE Statuses'
  BY <1>5 DEF EnterRunner, Goto
<1>6. ASSUME NEW j \in Jobs, Unlock(j) PROVE Statuses'
  BY <1>6 DEF Unlock, Goto, Released
<1>7. ASSUME NEW j \in Jobs, UnlockFails(j) PROVE Statuses'
  BY <1>7 DEF UnlockFails, SetStatus, Goto
<1>8. ASSUME NEW j \in Jobs, StartRunner(j) PROVE Statuses'
  BY <1>8 DEF StartRunner, SetStatus, Goto
<1>9. ASSUME NEW j \in Jobs, Bootstrap(j) PROVE Statuses'
  BY <1>9 DEF Bootstrap, Fail, SetStatus, Goto
<1>10. ASSUME NEW j \in Jobs, FindCommand(j) PROVE Statuses'
  BY <1>10 DEF FindCommand, Goto
<1>11. ASSUME NEW j \in Jobs, SubmitCommand(j) PROVE Statuses'
  BY <1>11 DEF SubmitCommand, Goto, Host!Accept
<1>12. ASSUME NEW j \in Jobs, WaitEnds(j) PROVE Statuses'
  BY <1>12 DEF WaitEnds, Fail, SetStatus, Goto
<1>13. ASSUME NEW j \in Jobs, Rollback(j) PROVE Statuses'
  BY <1>13 DEF Rollback, Goto
<1>14. ASSUME NEW j \in Jobs, MirrorProgress(j) PROVE Statuses'
  BY <1>14 DEF MirrorProgress, SetStatus
<1>15. ASSUME NEW j \in Jobs, WithdrawCommand(j) PROVE Statuses'
  BY <1>15 DEF WithdrawCommand, Host!Withdraw
<1>16. ASSUME NEW j \in Jobs, LoseConnection(j) PROVE Statuses'
  BY <1>16 DEF LoseConnection, Released
<1>17. ASSUME NEW j \in Jobs, RollbackFails(j) PROVE Statuses'
  BY <1>17 DEF RollbackFails, Goto
<1>18. ASSUME NEW j \in Jobs, RunnerRaises(j) PROVE Statuses'
  BY <1>18 DEF RunnerRaises, Fail, SetStatus, Goto
<1>19. ASSUME NEW j \in Jobs, RecoverJob(j) PROVE Statuses'
  <2>1. \A k \in Jobs \ {j} : pc'[k] = pc[k] /\ job'[k] = job[k]
    BY <1>19 DEF RecoverJob, SetStatus, Goto
  <2>2. pc[j] = "none" /\ job[j] \in {"queued", "running"}
    BY <1>19 DEF RecoverJob, Recovering
  <2>3. pc'[j] = "none" \/ (pc'[j] = "accepted" /\ job'[j] = "queued")
    BY <1>19, <2>2 DEF RecoverJob, SetStatus, Goto
  <2> QED
    BY <2>1, <2>3
<1>20. ASSUME NEW p \in Projects, TakeNext(p) PROVE Statuses'
  <2>1. Head(queue[p]) = queue[p][1] /\ queue[p][1] \in Jobs /\ pc[queue[p][1]] = "waiting"
    BY <1>20, HeadTailProperties DEF TakeNext, Queued
  <2> QED
    BY <1>20, <2>1 DEF TakeNext, Goto
<1>21. ASSUME NEW i \in Intents, HostBegins(i) PROVE Statuses'
  BY <1>21 DEF HostBegins, Host!Begin
<1>22. ASSUME NEW i \in Intents, HostEnds(i) PROVE Statuses'
  BY <1>22 DEF HostEnds, Host!Succeed, Host!Fail
<1>23. ASSUME ApiStops PROVE Statuses'
  BY <1>23 DEF ApiStops
<1>24. ASSUME ApiStarts PROVE Statuses'
  BY <1>24 DEF ApiStarts, Pending
<1>25. ASSUME Serve PROVE Statuses'
  BY <1>25 DEF Serve
<1>26. CASE UNCHANGED vars
  BY <1>26 DEF vars
<1> QED
  BY <1>1, <1>2, <1>3, <1>4, <1>5, <1>6, <1>7, <1>8, <1>9, <1>10, <1>11, <1>12,
     <1>13, <1>14, <1>15, <1>16, <1>17, <1>18, <1>19, <1>20, <1>21, <1>22, <1>23,
     <1>24, <1>25, <1>26
  DEF Next, WorkerStep, RunnerStep, Fault

\* Every step leaves the jobs that recovery still has to look at alone.
LEMMA NextRecovering == Types /\ Queued /\ Statuses /\ Recovering /\ [Next]_vars => Recovering'
<1> SUFFICES ASSUME Types, Queued, Statuses, Recovering, [Next]_vars PROVE Recovering'
  OBVIOUS
<1> USE DEF Recovering, Types, Taken, Holding, Runner, Final, rowVars, memory, process
<1>1. ASSUME NEW j \in Jobs, AcceptJob(j) PROVE Recovering'
  BY <1>1 DEF AcceptJob, SetStatus, Goto
<1>2. ASSUME NEW j \in Jobs, Enqueue(j) PROVE Recovering'
  BY <1>2 DEF Enqueue, SetStatus, Goto
<1>3. ASSUME NEW j \in Jobs, AcquireConnection(j) PROVE Recovering'
  BY <1>3 DEF AcquireConnection, Goto
<1>4. ASSUME NEW j \in Jobs, NEW p \in Projects, LockProject(j, p) PROVE Recovering'
  BY <1>4 DEF LockProject
<1>5. ASSUME NEW j \in Jobs, EnterRunner(j) PROVE Recovering'
  BY <1>5 DEF EnterRunner, Goto
<1>6. ASSUME NEW j \in Jobs, Unlock(j) PROVE Recovering'
  BY <1>6 DEF Unlock, Goto, Released
<1>7. ASSUME NEW j \in Jobs, UnlockFails(j) PROVE Recovering'
  BY <1>7 DEF UnlockFails, SetStatus, Goto
<1>8. ASSUME NEW j \in Jobs, StartRunner(j) PROVE Recovering'
  BY <1>8 DEF StartRunner, SetStatus, Goto
<1>9. ASSUME NEW j \in Jobs, Bootstrap(j) PROVE Recovering'
  BY <1>9 DEF Bootstrap, Fail, SetStatus, Goto
<1>10. ASSUME NEW j \in Jobs, FindCommand(j) PROVE Recovering'
  BY <1>10 DEF FindCommand, Goto
<1>11. ASSUME NEW j \in Jobs, SubmitCommand(j) PROVE Recovering'
  BY <1>11 DEF SubmitCommand, Goto, Host!Accept
<1>12. ASSUME NEW j \in Jobs, WaitEnds(j) PROVE Recovering'
  BY <1>12 DEF WaitEnds, Fail, SetStatus, Goto
<1>13. ASSUME NEW j \in Jobs, Rollback(j) PROVE Recovering'
  BY <1>13 DEF Rollback, Goto
<1>14. ASSUME NEW j \in Jobs, MirrorProgress(j) PROVE Recovering'
  BY <1>14 DEF MirrorProgress, SetStatus
<1>15. ASSUME NEW j \in Jobs, WithdrawCommand(j) PROVE Recovering'
  BY <1>15 DEF WithdrawCommand, Host!Withdraw
<1>16. ASSUME NEW j \in Jobs, LoseConnection(j) PROVE Recovering'
  BY <1>16 DEF LoseConnection, Released
<1>17. ASSUME NEW j \in Jobs, RollbackFails(j) PROVE Recovering'
  BY <1>17 DEF RollbackFails, Goto
<1>18. ASSUME NEW j \in Jobs, RunnerRaises(j) PROVE Recovering'
  BY <1>18 DEF RunnerRaises, Fail, SetStatus, Goto
<1>19. ASSUME NEW j \in Jobs, RecoverJob(j) PROVE Recovering'
  <2>1. \A k \in Jobs \ {j} : pc'[k] = pc[k] /\ job'[k] = job[k]
    BY <1>19 DEF RecoverJob, SetStatus, Goto
  <2> QED
    BY <1>19, <2>1 DEF RecoverJob
<1>20. ASSUME NEW p \in Projects, TakeNext(p) PROVE Recovering'
  <2>1. Head(queue[p]) = queue[p][1] /\ queue[p][1] \in Jobs /\ pc[queue[p][1]] = "waiting"
    BY <1>20, HeadTailProperties DEF TakeNext, Queued
  <2> QED
    BY <1>20, <2>1 DEF TakeNext, Goto
<1>21. ASSUME NEW i \in Intents, HostBegins(i) PROVE Recovering'
  BY <1>21 DEF HostBegins, Host!Begin
<1>22. ASSUME NEW i \in Intents, HostEnds(i) PROVE Recovering'
  BY <1>22 DEF HostEnds, Host!Succeed, Host!Fail
<1>23. ASSUME ApiStops PROVE Recovering'
  BY <1>23 DEF ApiStops
<1>24. ASSUME ApiStarts PROVE Recovering'
  BY <1>24 DEF ApiStarts, Pending
<1>25. ASSUME Serve PROVE Recovering'
  BY <1>25 DEF Serve
<1>26. CASE UNCHANGED vars
  BY <1>26 DEF vars
<1> QED
  BY <1>1, <1>2, <1>3, <1>4, <1>5, <1>6, <1>7, <1>8, <1>9, <1>10, <1>11, <1>12,
     <1>13, <1>14, <1>15, <1>16, <1>17, <1>18, <1>19, <1>20, <1>21, <1>22, <1>23,
     <1>24, <1>25, <1>26
  DEF Next, WorkerStep, RunnerStep, Fault

\* Every step keeps locks and sessions together.
LEMMA NextSessions == Types /\ Queued /\ Statuses /\ Recovering /\ Sessions /\ [Next]_vars => Sessions'
<1> SUFFICES ASSUME Types, Queued, Statuses, Recovering, Sessions, [Next]_vars PROVE Sessions'
  OBVIOUS
<1> USE DEF Sessions, Types, Taken, Holding, Runner, Final, rowVars, memory, process
<1>1. ASSUME NEW j \in Jobs, AcceptJob(j) PROVE Sessions'
  BY <1>1 DEF AcceptJob, SetStatus, Goto, Statuses
<1>2. ASSUME NEW j \in Jobs, Enqueue(j) PROVE Sessions'
  <2>1. pc[j] = "accepted" /\ pc'[j] \notin Holding /\ \A k \in Jobs \ {j} : pc'[k] = pc[k]
    BY <1>2 DEF Enqueue, Goto
  <2> QED
    BY <1>2, <2>1 DEF Enqueue
<1>3. ASSUME NEW j \in Jobs, AcquireConnection(j) PROVE Sessions'
  BY <1>3 DEF AcquireConnection, Goto
<1>4. ASSUME NEW j \in Jobs, NEW p \in Projects, LockProject(j, p) PROVE Sessions'
  <2>1. pc[j] = "lock" /\ j \notin lost /\ advisory[p] = "none"
    BY <1>4 DEF LockProject
  <2>2. advisory' = [advisory EXCEPT ![p] = j]
    BY <1>4 DEF LockProject
  <2>3. \A k \in Jobs \ lost : pc[k] \in Runner => p \notin LockIds(k)
    BY <2>1, JobsAssumption
  <2> QED
    BY <1>4, <2>1, <2>2, <2>3, LockIdsType DEF LockProject
<1>5. ASSUME NEW j \in Jobs, EnterRunner(j) PROVE Sessions'
  BY <1>5 DEF EnterRunner, Goto, Unlocked
<1>6. ASSUME NEW j \in Jobs, Unlock(j) PROVE Sessions'
  BY <1>6, LockIdsType DEF Unlock, Goto, Released
<1>7. ASSUME NEW j \in Jobs, UnlockFails(j) PROVE Sessions'
  BY <1>7 DEF UnlockFails, SetStatus, Goto
<1>8. ASSUME NEW j \in Jobs, StartRunner(j) PROVE Sessions'
  BY <1>8 DEF StartRunner, SetStatus, Goto
<1>9. ASSUME NEW j \in Jobs, Bootstrap(j) PROVE Sessions'
  <2>1. pc[j] \in Runner /\ \E q \in Runner \cup {"unlock"} : Goto(j, q)
    BY <1>9 DEF Bootstrap, Fail
  <2> QED
    BY <1>9, <2>1 DEF Bootstrap, Goto
<1>10. ASSUME NEW j \in Jobs, FindCommand(j) PROVE Sessions'
  <2>1. pc[j] = "find" /\ \E q \in {"wait", "submit"} : Goto(j, q)
    BY <1>10 DEF FindCommand
  <2> QED
    BY <1>10, <2>1 DEF FindCommand, Goto
<1>11. ASSUME NEW j \in Jobs, SubmitCommand(j) PROVE Sessions'
  BY <1>11 DEF SubmitCommand, Goto, Host!Accept
<1>12. ASSUME NEW j \in Jobs, WaitEnds(j) PROVE Sessions'
  <2>1. pc[j] = "wait" /\ \E q \in {"rollback", "unlock"} : Goto(j, q)
    BY <1>12 DEF WaitEnds, Fail
  <2> QED
    BY <1>12, <2>1 DEF WaitEnds, Goto
<1>13. ASSUME NEW j \in Jobs, Rollback(j) PROVE Sessions'
  BY <1>13 DEF Rollback, Goto
<1>14. ASSUME NEW j \in Jobs, MirrorProgress(j) PROVE Sessions'
  BY <1>14 DEF MirrorProgress, SetStatus
<1>15. ASSUME NEW j \in Jobs, WithdrawCommand(j) PROVE Sessions'
  BY <1>15 DEF WithdrawCommand, Host!Withdraw
<1>16. ASSUME NEW j \in Jobs, LoseConnection(j) PROVE Sessions'
  BY <1>16, LockIdsType DEF LoseConnection, Released
<1>17. ASSUME NEW j \in Jobs, RollbackFails(j) PROVE Sessions'
  BY <1>17 DEF RollbackFails, Goto
<1>18. ASSUME NEW j \in Jobs, RunnerRaises(j) PROVE Sessions'
  BY <1>18 DEF RunnerRaises, Fail, SetStatus, Goto
<1>19. ASSUME NEW j \in Jobs, RecoverJob(j) PROVE Sessions'
  <2>1. pc[j] = "none" /\ \A k \in Jobs \ {j} : pc'[k] = pc[k]
    BY <1>19 DEF RecoverJob, Goto, Recovering
  <2>2. pc'[j] \notin Holding
    BY <1>19, <2>1 DEF RecoverJob, Goto
  <2> QED
    BY <1>19, <2>1, <2>2 DEF RecoverJob
<1>20. ASSUME NEW p \in Projects, TakeNext(p) PROVE Sessions'
  <2>1. Head(queue[p]) = queue[p][1] /\ queue[p][1] \in Jobs /\ pc[queue[p][1]] = "waiting"
    BY <1>20, HeadTailProperties DEF TakeNext, Queued
  <2> QED
    BY <1>20, <2>1 DEF TakeNext, Goto
<1>21. ASSUME NEW i \in Intents, HostBegins(i) PROVE Sessions'
  BY <1>21 DEF HostBegins, Host!Begin
<1>22. ASSUME NEW i \in Intents, HostEnds(i) PROVE Sessions'
  BY <1>22 DEF HostEnds, Host!Succeed, Host!Fail
<1>23. ASSUME ApiStops PROVE Sessions'
  BY <1>23 DEF ApiStops
<1>24. ASSUME ApiStarts PROVE Sessions'
  BY <1>24 DEF ApiStarts, Pending
<1>25. ASSUME Serve PROVE Sessions'
  BY <1>25 DEF Serve
<1>26. CASE UNCHANGED vars
  BY <1>26 DEF vars
<1> QED
  BY <1>1, <1>2, <1>3, <1>4, <1>5, <1>6, <1>7, <1>8, <1>9, <1>10, <1>11, <1>12,
     <1>13, <1>14, <1>15, <1>16, <1>17, <1>18, <1>19, <1>20, <1>21, <1>22, <1>23,
     <1>24, <1>25, <1>26
  DEF Next, WorkerStep, RunnerStep, Fault

-----------------------------------------------------------------------------
(* The intents of a job *)

\* A set of natural numbers that is not empty has a least element.
LEMMA Smallest ==
  ASSUME NEW T \in SUBSET Nat, T # {}
  PROVE  \E x \in T : \A y \in T : x <= y
<1> DEFINE R == {ss \in Nat \X Nat : ss[1] < ss[2]}
<1>1. IsWellFoundedOn(R, Nat)
  BY NatLessThanWellFounded DEF OpToRel
<1>2. \A x, y \in Nat : y < x => <<y, x>> \in R
  OBVIOUS
<1> HIDE DEF R
<1>3. PICK x \in T : \A y \in T : <<y, x>> \notin R
  BY <1>1, WFMin
<1>4. \A y \in T : ~(y < x)
  BY <1>2, <1>3
<1> QED
  BY <1>4

\* One that is bounded has a greatest.
LEMMA Largest ==
  ASSUME NEW n \in Nat, NEW S \in SUBSET (1 .. n), S # {}
  PROVE  \E x \in S : \A y \in S : y <= x
<1> DEFINE T == {n - x : x \in S}
<1>1. \A x \in S : n - x \in Nat /\ n - x \in T
  OBVIOUS
<1>2. T \in SUBSET Nat /\ T # {}
  BY <1>1
<1> HIDE DEF T
<1>3. PICK t \in T : \A u \in T : t <= u
  BY <1>2, Smallest
<1>4. PICK x \in S : t = n - x
  BY DEF T
<1> QED
  BY <1>1, <1>3, <1>4

\* The latest intent of a job is the last attempt submitted.
LEMMA LatestIsLast ==
  ASSUME NEW j \in Jobs, Submitted(j) # {}
  PROVE  /\ Latest(j) \in Submitted(j)
         /\ \A m \in Submitted(j) : m <= Latest(j)
<1>1. MaxRestarts + 1 \in Nat /\ Submitted(j) \in SUBSET (1 .. MaxRestarts + 1)
  BY JobsAssumption DEF Submitted, Attempts
<1>2. \E k \in Submitted(j) : \A m \in Submitted(j) : m <= k
  BY <1>1, Largest
<1> QED
  BY <1>2 DEF Latest


\* Attempts are numbered from one, and a job submits again only what it may.
Scripts == \A j \in Jobs, m \in Attempts :
  /\ command[<<j, m>>] # "absent" =>
       \A k \in Attempts : k < m => command[<<j, k>>] \in Host!Final /\ ~ReusesTerminal(j)
  /\ pc[j] = "submit" /\ command[<<j, m>>] # "absent" =>
       command[<<j, m>>] \in Host!Final /\ ~ReusesTerminal(j)


\* The attempts submitted are the first ones.
LEMMA NumberedFromOne ==
  ASSUME Types, Scripts, NEW j \in Jobs
  PROVE  /\ Cardinality(Submitted(j)) \in 0 .. MaxRestarts + 1
         /\ Submitted(j) = 1 .. Cardinality(Submitted(j))
<1>1. CASE Submitted(j) = {}
  BY <1>1, FS_EmptySet, JobsAssumption
<1>2. CASE Submitted(j) # {}
  <2> DEFINE n == Latest(j)
  <2>1. n \in Submitted(j) /\ n \in 1 .. MaxRestarts + 1 /\ \A m \in Submitted(j) : m <= n
    BY <1>2, LatestIsLast DEF Submitted, Attempts
  <2> HIDE DEF n
  <2>2. \A k \in Attempts : k < n => k \in Submitted(j)
    BY <2>1 DEF Submitted, Attempts, Scripts, Host!Final
  <2>3. Submitted(j) = 1 .. n
    <3>1. ASSUME NEW k \in 1 .. n PROVE k \in Submitted(j)
      BY <2>1, <2>2, JobsAssumption DEF Attempts
    <3>2. ASSUME NEW k \in Submitted(j) PROVE k \in 1 .. n
      BY <2>1, JobsAssumption DEF Submitted, Attempts
    <3> QED
      BY <3>1, <3>2
  <2>4. Cardinality(1 .. n) = n
    BY <2>1, FS_Interval, JobsAssumption
  <2> QED
    BY <2>1, <2>3, <2>4
<1> QED
  BY <1>1, <1>2

\* An intent that the host-agent or a wait changes was not final.
LEMMA ChangedScripts ==
  ASSUME Scripts, pc' = pc,
         \A i \in Intents :
           \/ command'[i] = command[i]
           \/ command[i] \notin Host!Final \cup {"absent"} /\ command'[i] # "absent"
  PROVE  Scripts'
<1>1. \A k \in Jobs, m \in Attempts : <<k, m>> \in Intents
  BY DEF Intents
<1>2. \A k \in Jobs, m \in Attempts :
        /\ command'[<<k, m>>] # "absent" => command[<<k, m>>] # "absent"
        /\ command[<<k, m>>] \in Host!Final => command'[<<k, m>>] = command[<<k, m>>]
  BY <1>1
<1> QED
  BY <1>2 DEF Scripts

\* The end of an intent that runs.
LEMMA EndsIntent ==
  ASSUME NEW i \in Intents, HostEnds(i), Types
  PROVE  \A k \in Intents :
           \/ command'[k] = command[k]
           \/ command[k] = "running" /\ command'[k] \in {"done", "failed"}
<1>1. CASE Host!Succeed(i)
  BY <1>1 DEF Host!Succeed, Types
<1>2. CASE Host!Fail({i})
  BY <1>2 DEF Host!Fail, Types
<1> QED
  BY <1>1, <1>2 DEF HostEnds

\* The intent a runner submits is the next attempt; the other rows stay.
LEMMA SubmitRow ==
  ASSUME Types, Scripts, NEW j \in Jobs, SubmitCommand(j)
  PROVE  \E n \in 1 .. MaxRestarts + 2 :
           /\ \A m \in Attempts : command[<<j, m>>] # "absent" <=> m < n
           /\ \A k \in Jobs, m \in Attempts :
                command'[<<k, m>>] = IF k = j /\ m = n THEN "queued" ELSE command[<<k, m>>]
<1>1. PICK c \in 0 .. MaxRestarts + 1 : c = Cardinality(Submitted(j)) /\ Submitted(j) = 1 .. c
  BY NumberedFromOne
<1>2. c + 1 \in 1 .. MaxRestarts + 2 /\ \A m \in Attempts : m \in 1 .. c <=> m < c + 1
  BY JobsAssumption DEF Attempts
<1>3. \A m \in Attempts : m \in Submitted(j) <=> command[<<j, m>>] # "absent"
  BY DEF Submitted
<1>4. command' = [command EXCEPT ![<<j, c + 1>>] = "queued"]
  BY <1>1 DEF SubmitCommand, Host!Accept
<1>5. \A k \in Jobs, m \in Attempts :
        command'[<<k, m>>] = IF k = j /\ m = c + 1 THEN "queued" ELSE command[<<k, m>>]
  BY <1>4 DEF Types, Intents
<1> QED
  BY <1>1, <1>2, <1>3, <1>5

\* Every step keeps the attempts of a job in order.
LEMMA NextScripts == Types /\ Queued /\ Recovering /\ Scripts /\ [Next]_vars => Scripts'
<1> SUFFICES ASSUME Types, Queued, Recovering, Scripts, [Next]_vars PROVE Scripts'
  OBVIOUS
<1> USE DEF Scripts, Types, Taken, Holding, Runner, Final, rowVars, memory, process
<1>1. ASSUME NEW j \in Jobs, AcceptJob(j) PROVE Scripts'
  BY <1>1 DEF AcceptJob, SetStatus, Goto
<1>2. ASSUME NEW j \in Jobs, Enqueue(j) PROVE Scripts'
  BY <1>2 DEF Enqueue, SetStatus, Goto
<1>3. ASSUME NEW j \in Jobs, AcquireConnection(j) PROVE Scripts'
  BY <1>3 DEF AcquireConnection, Goto
<1>4. ASSUME NEW j \in Jobs, NEW p \in Projects, LockProject(j, p) PROVE Scripts'
  BY <1>4 DEF LockProject
<1>5. ASSUME NEW j \in Jobs, EnterRunner(j) PROVE Scripts'
  BY <1>5 DEF EnterRunner, Goto
<1>6. ASSUME NEW j \in Jobs, Unlock(j) PROVE Scripts'
  BY <1>6 DEF Unlock, Goto, Released
<1>7. ASSUME NEW j \in Jobs, UnlockFails(j) PROVE Scripts'
  BY <1>7 DEF UnlockFails, SetStatus, Goto
<1>8. ASSUME NEW j \in Jobs, StartRunner(j) PROVE Scripts'
  BY <1>8 DEF StartRunner, SetStatus, Goto
<1>9. ASSUME NEW j \in Jobs, Bootstrap(j) PROVE Scripts'
  <2>1. command' = command /\ \E q \in {"find", "rollback", "unlock"} : Goto(j, q)
    BY <1>9 DEF Bootstrap, Fail
  <2> QED
    BY <2>1 DEF Goto
<1>10. ASSUME NEW j \in Jobs, FindCommand(j) PROVE Scripts'
  <2>1. command' = command /\ \A k \in Jobs \ {j} : pc'[k] = pc[k]
    BY <1>10 DEF FindCommand, Goto
  <2>2. ASSUME pc'[j] = "submit", NEW m \in Attempts, command[<<j, m>>] # "absent"
        PROVE  command[<<j, m>>] \in Host!Final /\ ~ReusesTerminal(j)
    <3>1. m \in Submitted(j)
      BY <2>2 DEF Submitted
    <3>2. ~ReusesTerminal(j) /\ command[<<j, Latest(j)>>] \in Host!Final
      BY <1>10, <2>2, <3>1 DEF FindCommand, Goto
    <3>3. Latest(j) \in Attempts /\ m <= Latest(j) /\ command[<<j, Latest(j)>>] # "absent"
      BY <3>1, LatestIsLast DEF Submitted
    <3>4. m < Latest(j) \/ m = Latest(j)
      BY <3>3, JobsAssumption DEF Attempts
    <3> QED
      BY <3>2, <3>3, <3>4
  <2> QED
    BY <2>1, <2>2
<1>11. ASSUME NEW j \in Jobs, SubmitCommand(j) PROVE Scripts'
  <2>1. PICK n \in 1 .. MaxRestarts + 2 :
          /\ \A m \in Attempts : command[<<j, m>>] # "absent" <=> m < n
          /\ \A k \in Jobs, m \in Attempts :
               command'[<<k, m>>] = IF k = j /\ m = n THEN "queued" ELSE command[<<k, m>>]
    BY <1>11, SubmitRow
  <2>2. pc[j] = "submit" /\ pc' = [pc EXCEPT ![j] = "wait"]
    BY <1>11 DEF SubmitCommand, Goto
  <2>3. \A k \in Jobs \ {j}, m \in Attempts :
          command'[<<k, m>>] = command[<<k, m>>] /\ pc'[k] = pc[k]
    BY <2>1, <2>2
  <2>4. \A m \in Attempts :
          /\ m < n => /\ command'[<<j, m>>] = command[<<j, m>>]
                      /\ command[<<j, m>>] \in Host!Final /\ ~ReusesTerminal(j)
          /\ m > n => command'[<<j, m>>] = "absent"
    BY <2>1, <2>2, JobsAssumption DEF Attempts
  <2>5. ASSUME NEW m \in Attempts, command'[<<j, m>>] # "absent", NEW k \in Attempts, k < m
        PROVE  command'[<<j, k>>] \in Host!Final /\ ~ReusesTerminal(j)
    <3>1. m <= n /\ k < n
      BY <2>4, <2>5, JobsAssumption DEF Attempts
    <3> QED
      BY <2>4, <3>1
  <2>6. pc'[j] = "wait"
    BY <2>2
  <2>7. ASSUME NEW k \in Jobs, NEW m \in Attempts
        PROVE  /\ command'[<<k, m>>] # "absent" =>
                    \A l \in Attempts : l < m => command'[<<k, l>>] \in Host!Final /\ ~ReusesTerminal(k)
               /\ pc'[k] = "submit" /\ command'[<<k, m>>] # "absent" =>
                    command'[<<k, m>>] \in Host!Final /\ ~ReusesTerminal(k)
    <3>1. CASE k = j
      BY <2>5, <2>6, <2>7, <3>1
    <3>2. CASE k # j
      BY <2>3, <2>7, <3>2
    <3> QED
      BY <3>1, <3>2
  <2> QED
    BY <2>7
<1>12. ASSUME NEW j \in Jobs, WaitEnds(j) PROVE Scripts'
  BY <1>12 DEF WaitEnds, Fail, SetStatus, Goto
<1>13. ASSUME NEW j \in Jobs, Rollback(j) PROVE Scripts'
  BY <1>13 DEF Rollback, Goto
<1>14. ASSUME NEW j \in Jobs, MirrorProgress(j) PROVE Scripts'
  BY <1>14 DEF MirrorProgress, SetStatus
<1>15. ASSUME NEW j \in Jobs, WithdrawCommand(j) PROVE Scripts'
  <2>1. \A i \in Intents :
          command'[i] = command[i] \/ (command[i] = "queued" /\ command'[i] = "cancelled")
    BY <1>15 DEF WithdrawCommand, Host!Withdraw
  <2>2. pc' = pc
    BY <1>15 DEF WithdrawCommand
  <2> QED
    BY <2>1, <2>2, ChangedScripts DEF Host!Final
<1>16. ASSUME NEW j \in Jobs, LoseConnection(j) PROVE Scripts'
  BY <1>16 DEF LoseConnection, Released
<1>17. ASSUME NEW j \in Jobs, RollbackFails(j) PROVE Scripts'
  BY <1>17 DEF RollbackFails, Goto
<1>18. ASSUME NEW j \in Jobs, RunnerRaises(j) PROVE Scripts'
  BY <1>18 DEF RunnerRaises, Fail, SetStatus, Goto
<1>19. ASSUME NEW j \in Jobs, RecoverJob(j) PROVE Scripts'
  BY <1>19 DEF RecoverJob, SetStatus, Goto
<1>20. ASSUME NEW p \in Projects, TakeNext(p) PROVE Scripts'
  <2>1. Head(queue[p]) = queue[p][1] /\ queue[p][1] \in Jobs
    BY <1>20, HeadTailProperties DEF TakeNext, Queued
  <2> QED
    BY <1>20, <2>1 DEF TakeNext, Goto
<1>21. ASSUME NEW i \in Intents, HostBegins(i) PROVE Scripts'
  <2>1. \A k \in Intents :
          command'[k] = command[k] \/ (command[k] = "queued" /\ command'[k] = "running")
    BY <1>21 DEF HostBegins, Host!Begin
  <2>2. pc' = pc
    BY <1>21 DEF HostBegins
  <2> QED
    BY <2>1, <2>2, ChangedScripts DEF Host!Final
<1>22. ASSUME NEW i \in Intents, HostEnds(i) PROVE Scripts'
  <2>1. \A k \in Intents :
          \/ command'[k] = command[k]
          \/ command[k] = "running" /\ command'[k] \in {"done", "failed"}
    BY <1>22, EndsIntent
  <2>2. pc' = pc
    BY <1>22 DEF HostEnds
  <2> QED
    BY <2>1, <2>2, ChangedScripts DEF Host!Final
<1>23. ASSUME ApiStops PROVE Scripts'
  BY <1>23 DEF ApiStops
<1>24. ASSUME ApiStarts PROVE Scripts'
  BY <1>24 DEF ApiStarts, Pending
<1>25. ASSUME Serve PROVE Scripts'
  BY <1>25 DEF Serve
<1>26. CASE UNCHANGED vars
  BY <1>26 DEF vars
<1> QED
  BY <1>1, <1>2, <1>3, <1>4, <1>5, <1>6, <1>7, <1>8, <1>9, <1>10, <1>11, <1>12,
     <1>13, <1>14, <1>15, <1>16, <1>17, <1>18, <1>19, <1>20, <1>21, <1>22, <1>23,
     <1>24, <1>25, <1>26
  DEF Next, WorkerStep, RunnerStep, Fault

\* A creation that is under way, done or still to be rolled back owns its
\* project's row.
Owns(j) == Bootstraps(j) /\ (job[j] \in {"queued", "running", "done"} \/ pc[j] = "rollback")
Owners ==
  /\ \A j \in Jobs : Owns(j) => row[Name[j]]
  /\ \A j, k \in Jobs : Owns(j) /\ Owns(k) /\ Name[j] = Name[k] => j = k
  /\ \A j \in Jobs : Bootstraps(j) /\ (pc[j] \in {"find", "submit", "wait"} \/ job[j] = "done")
       => keyed[Name[j]]


\* A step that makes no new owner and leaves the projects alone.
LEMMA OwnersKept ==
  ASSUME Owners, UNCHANGED <<row, keyed>>,
         \A k \in Jobs :
           /\ Owns(k)' => Owns(k)
           /\ Bootstraps(k) /\ (pc'[k] \in {"find", "submit", "wait"} \/ job'[k] = "done") =>
                pc[k] \in {"find", "submit", "wait"} \/ job[k] = "done"
  PROVE  Owners'
  BY DEF Owners, Owns

\* Every step keeps a project with the creation that owns it.
LEMMA NextOwners == Types /\ Queued /\ Statuses /\ Recovering /\ Owners /\ [Next]_vars => Owners'
<1> SUFFICES ASSUME Types, Queued, Statuses, Recovering, Owners, [Next]_vars PROVE Owners'
  OBVIOUS
<1> USE LockIdsType DEF Owners, Owns, Statuses, Types, Taken, Holding, Runner, Final, rowVars, memory, process
<1>1. ASSUME NEW j \in Jobs, AcceptJob(j) PROVE Owners'
  <2>1. /\ job[j] = "absent" /\ job'[j] = "queued" /\ pc'[j] = "accepted" /\ keyed' = keyed
        /\ \A k \in Jobs \ {j} : job'[k] = job[k] /\ pc'[k] = pc[k]
    BY <1>1 DEF AcceptJob, SetStatus, Goto
  <2>2. CASE Bootstraps(j)
    <3>1. ~row[Name[j]] /\ row' = [row EXCEPT ![Name[j]] = TRUE]
      BY <1>1, <2>2 DEF AcceptJob
    <3>2. \A k \in Jobs : Owns(k) => Name[k] # Name[j]
      BY <3>1
    <3> QED
      BY <2>1, <2>2, <3>1, <3>2
  <2>3. CASE ~Bootstraps(j)
    <3>1. row' = row
      BY <1>1, <2>3 DEF AcceptJob
    <3>2. ASSUME NEW k \in Jobs
          PROVE  /\ Owns(k)' => Owns(k)
                 /\ Bootstraps(k) /\ (pc'[k] \in {"find", "submit", "wait"} \/ job'[k] = "done") =>
                      pc[k] \in {"find", "submit", "wait"} \/ job[k] = "done"
      BY <2>1, <2>3 DEF Bootstraps
    <3> QED
      BY <2>1, <3>1, <3>2, OwnersKept
  <2> QED
    BY <2>2, <2>3
<1>2. ASSUME NEW j \in Jobs, Enqueue(j) PROVE Owners'
  <2>1. /\ job[j] = "queued" /\ job'[j] \in {"queued", "failed"} /\ pc'[j] \in {"waiting", "none"}
        /\ \A k \in Jobs \ {j} : job'[k] = job[k] /\ pc'[k] = pc[k]
    BY <1>2 DEF Enqueue, SetStatus, Goto
  <2>2. row' = row /\ keyed' = keyed
    BY <1>2 DEF Enqueue
  <2>3. ASSUME NEW k \in Jobs
        PROVE  /\ Owns(k)' => Owns(k)
               /\ Bootstraps(k) /\ (pc'[k] \in {"find", "submit", "wait"} \/ job'[k] = "done") =>
                    pc[k] \in {"find", "submit", "wait"} \/ job[k] = "done"
    BY <2>1 DEF Bootstraps
  <2> QED
    BY <2>2, <2>3, OwnersKept
<1>3. ASSUME NEW j \in Jobs, AcquireConnection(j) PROVE Owners'
  BY <1>3 DEF AcquireConnection, Goto
<1>4. ASSUME NEW j \in Jobs, NEW p \in Projects, LockProject(j, p) PROVE Owners'
  BY <1>4 DEF LockProject
<1>5. ASSUME NEW j \in Jobs, EnterRunner(j) PROVE Owners'
  BY <1>5 DEF EnterRunner, Goto
<1>6. ASSUME NEW j \in Jobs, Unlock(j) PROVE Owners'
  BY <1>6 DEF Unlock, Goto, Released
<1>7. ASSUME NEW j \in Jobs, UnlockFails(j) PROVE Owners'
  BY <1>7 DEF UnlockFails, SetStatus, Goto
<1>8. ASSUME NEW j \in Jobs, StartRunner(j) PROVE Owners'
  BY <1>8 DEF StartRunner, SetStatus, Goto
<1>9. ASSUME NEW j \in Jobs, Bootstrap(j) PROVE Owners'
  <2>1. /\ pc[j] = "bootstrap" /\ job[j] = "running" /\ row' = row
        /\ \A k \in Jobs \ {j} : job'[k] = job[k] /\ pc'[k] = pc[k]
    BY <1>9 DEF Bootstrap, Fail, SetStatus, Goto
  <2>2. CASE Fail(j) /\ keyed' = keyed
    <3>1. job'[j] = "failed" /\ pc'[j] \in {"rollback", "unlock"}
      BY <2>2 DEF Fail, SetStatus, Goto
    <3> QED
      BY <2>1, <2>2, <3>1
  <2>3. CASE keyed' = [keyed EXCEPT ![Name[j]] = TRUE] /\ Goto(j, "find") /\ job' = job
    <3>1. pc'[j] = "find"
      BY <2>3 DEF Goto
    <3> QED
      BY <2>1, <2>3, <3>1
  <2> QED
    BY <1>9, <2>2, <2>3 DEF Bootstrap
<1>10. ASSUME NEW j \in Jobs, FindCommand(j) PROVE Owners'
  BY <1>10 DEF FindCommand, Goto
<1>11. ASSUME NEW j \in Jobs, SubmitCommand(j) PROVE Owners'
  BY <1>11 DEF SubmitCommand, Goto, Host!Accept
<1>12. ASSUME NEW j \in Jobs, WaitEnds(j) PROVE Owners'
  <2>1. /\ pc[j] = "wait" /\ job[j] = "running" /\ row' = row /\ keyed' = keyed
        /\ job'[j] \in {"done", "failed"} /\ pc'[j] \in {"rollback", "unlock"}
        /\ \A k \in Jobs \ {j} : job'[k] = job[k] /\ pc'[k] = pc[k]
    BY <1>12 DEF WaitEnds, Fail, SetStatus, Goto
  <2> QED
    BY <2>1
<1>13. ASSUME NEW j \in Jobs, Rollback(j) PROVE Owners'
  BY <1>13 DEF Rollback, Goto
<1>14. ASSUME NEW j \in Jobs, MirrorProgress(j) PROVE Owners'
  BY <1>14 DEF MirrorProgress, SetStatus
<1>15. ASSUME NEW j \in Jobs, WithdrawCommand(j) PROVE Owners'
  BY <1>15 DEF WithdrawCommand, Host!Withdraw
<1>16. ASSUME NEW j \in Jobs, LoseConnection(j) PROVE Owners'
  BY <1>16 DEF LoseConnection, Released
<1>17. ASSUME NEW j \in Jobs, RollbackFails(j) PROVE Owners'
  BY <1>17 DEF RollbackFails, Goto
<1>18. ASSUME NEW j \in Jobs, RunnerRaises(j) PROVE Owners'
  BY <1>18 DEF RunnerRaises, Fail, SetStatus, Goto
<1>19. ASSUME NEW j \in Jobs, RecoverJob(j) PROVE Owners'
  BY <1>19 DEF RecoverJob, SetStatus, Goto, Recovering
<1>20. ASSUME NEW p \in Projects, TakeNext(p) PROVE Owners'
  <2>1. Head(queue[p]) = queue[p][1] /\ queue[p][1] \in Jobs /\ pc[queue[p][1]] = "waiting"
    BY <1>20, HeadTailProperties DEF TakeNext, Queued
  <2> QED
    BY <1>20, <2>1 DEF TakeNext, Goto
<1>21. ASSUME NEW i \in Intents, HostBegins(i) PROVE Owners'
  BY <1>21 DEF HostBegins, Host!Begin
<1>22. ASSUME NEW i \in Intents, HostEnds(i) PROVE Owners'
  BY <1>22 DEF HostEnds, Host!Succeed, Host!Fail
<1>23. ASSUME ApiStops PROVE Owners'
  BY <1>23 DEF ApiStops
<1>24. ASSUME ApiStarts PROVE Owners'
  BY <1>24 DEF ApiStarts, Pending
<1>25. ASSUME Serve PROVE Owners'
  BY <1>25 DEF Serve
<1>26. CASE UNCHANGED vars
  BY <1>26 DEF vars
<1> QED
  BY <1>1, <1>2, <1>3, <1>4, <1>5, <1>6, <1>7, <1>8, <1>9, <1>10, <1>11, <1>12,
     <1>13, <1>14, <1>15, <1>16, <1>17, <1>18, <1>19, <1>20, <1>21, <1>22, <1>23,
     <1>24, <1>25, <1>26
  DEF Next, WorkerStep, RunnerStep, Fault

\* What a runner awaits has been submitted.
Awaited == \A j \in Jobs :
  /\ pc[j] = "wait" => Submitted(j) # {}
  /\ job[j] = "done" => Submitted(j) # {} /\ command[<<j, Latest(j)>>] = "done"


\* The intents submitted change only with the rows of their job.
LEMMA SameSubmitted ==
  ASSUME NEW j \in Jobs,
         \A k \in Attempts : command'[<<j, k>>] = "absent" <=> command[<<j, k>>] = "absent"
  PROVE  Submitted(j)' = Submitted(j) /\ Latest(j)' = Latest(j)
<1>1. Submitted(j)' = Submitted(j)
  BY DEF Submitted
<1> QED
  BY <1>1 DEF Latest

\* No row changes, no intent does.
LEMMA SameCommands ==
  UNCHANGED command => \A j \in Jobs : Submitted(j)' = Submitted(j) /\ Latest(j)' = Latest(j)
  BY SameSubmitted

\* A step on an intent that is not done leaves what is awaited.
LEMMA ChangedAwaited ==
  ASSUME Awaited, pc' = pc, job' = job,
         \A i \in Intents :
           \/ command'[i] = command[i]
           \/ command[i] \notin {"absent", "done"} /\ command'[i] # "absent"
  PROVE  Awaited'
<1>1. \A k \in Jobs, m \in Attempts : <<k, m>> \in Intents
  BY DEF Intents
<1>2. \A k \in Jobs : Submitted(k)' = Submitted(k) /\ Latest(k)' = Latest(k)
  BY <1>1, SameSubmitted
<1>3. \A k \in Jobs : Submitted(k) # {} => <<k, Latest(k)>> \in Intents
  BY <1>1, LatestIsLast DEF Submitted
<1> QED
  BY <1>2, <1>3 DEF Awaited

\* Every step keeps what a runner awaits.
LEMMA NextAwaited == Types /\ Queued /\ Statuses /\ Recovering /\ Scripts /\ Awaited /\ [Next]_vars => Awaited'
<1> SUFFICES ASSUME Types, Queued, Statuses, Recovering, Scripts, Awaited, [Next]_vars PROVE Awaited'
  OBVIOUS
<1> USE SameCommands DEF Awaited, Statuses, Types, Taken, Holding, Runner, Final, rowVars, memory, process
<1>1. ASSUME NEW j \in Jobs, AcceptJob(j) PROVE Awaited'
  BY <1>1 DEF AcceptJob, SetStatus, Goto
<1>2. ASSUME NEW j \in Jobs, Enqueue(j) PROVE Awaited'
  <2>1. /\ job'[j] \in {"queued", "failed"} /\ pc'[j] \in {"waiting", "none"} /\ command' = command
        /\ \A k \in Jobs \ {j} : job'[k] = job[k] /\ pc'[k] = pc[k]
    BY <1>2 DEF Enqueue, SetStatus, Goto
  <2> QED
    BY <2>1
<1>3. ASSUME NEW j \in Jobs, AcquireConnection(j) PROVE Awaited'
  BY <1>3 DEF AcquireConnection, Goto
<1>4. ASSUME NEW j \in Jobs, NEW p \in Projects, LockProject(j, p) PROVE Awaited'
  BY <1>4 DEF LockProject
<1>5. ASSUME NEW j \in Jobs, EnterRunner(j) PROVE Awaited'
  BY <1>5 DEF EnterRunner, Goto
<1>6. ASSUME NEW j \in Jobs, Unlock(j) PROVE Awaited'
  BY <1>6 DEF Unlock, Goto, Released
<1>7. ASSUME NEW j \in Jobs, UnlockFails(j) PROVE Awaited'
  BY <1>7 DEF UnlockFails, SetStatus, Goto
<1>8. ASSUME NEW j \in Jobs, StartRunner(j) PROVE Awaited'
  BY <1>8 DEF StartRunner, SetStatus, Goto
<1>9. ASSUME NEW j \in Jobs, Bootstrap(j) PROVE Awaited'
  <2>1. /\ pc'[j] # "wait" /\ command' = command /\ (job'[j] = "done" => job[j] = "done")
        /\ \A k \in Jobs \ {j} : job'[k] = job[k] /\ pc'[k] = pc[k]
    BY <1>9 DEF Bootstrap, Fail, SetStatus, Goto
  <2> QED
    BY <2>1
<1>10. ASSUME NEW j \in Jobs, FindCommand(j) PROVE Awaited'
  BY <1>10 DEF FindCommand, Goto
<1>11. ASSUME NEW j \in Jobs, SubmitCommand(j) PROVE Awaited'
  <2>1. PICK n \in 1 .. MaxRestarts + 2 :
          /\ \A m \in Attempts : command[<<j, m>>] # "absent" <=> m < n
          /\ \A k \in Jobs, m \in Attempts :
               command'[<<k, m>>] = IF k = j /\ m = n THEN "queued" ELSE command[<<k, m>>]
    BY <1>11, SubmitRow
  <2>2. job[j] = "running" /\ job' = job /\ \A k \in Jobs \ {j} : pc'[k] = pc[k]
    BY <1>11 DEF SubmitCommand, Goto
  <2>3. 1 \in Attempts /\ command'[<<j, 1>>] # "absent"
    <3>1. 1 \in Attempts /\ (1 = n \/ 1 < n)
      BY <2>1, JobsAssumption DEF Attempts
    <3> QED
      BY <2>1, <3>1
  <2>4. Submitted(j)' # {}
    BY <2>3 DEF Submitted
  <2>5. ASSUME NEW k \in Jobs, k # j
        PROVE  /\ pc'[k] = "wait" => Submitted(k)' # {}
               /\ job'[k] = "done" => Submitted(k)' # {} /\ command'[<<k, Latest(k)'>>] = "done"
    <3>1. \A m \in Attempts : command'[<<k, m>>] = command[<<k, m>>]
      BY <2>1, <2>5
    <3>2. Submitted(k)' = Submitted(k) /\ Latest(k)' = Latest(k)
      BY <3>1, SameSubmitted
    <3>3. Submitted(k) # {} => Latest(k) \in Attempts
      BY LatestIsLast DEF Submitted
    <3> QED
      BY <2>2, <2>5, <3>1, <3>2, <3>3
  <2> QED
    BY <2>2, <2>4, <2>5
<1>12. ASSUME NEW j \in Jobs, WaitEnds(j) PROVE Awaited'
  <2>1. /\ pc[j] = "wait" /\ pc'[j] \in {"rollback", "unlock"} /\ command' = command
        /\ job'[j] = "done" => command[<<j, Latest(j)>>] = "done"
        /\ \A k \in Jobs \ {j} : job'[k] = job[k] /\ pc'[k] = pc[k]
    BY <1>12 DEF WaitEnds, Fail, SetStatus, Goto
  <2>2. ASSUME NEW k \in Jobs
        PROVE  Submitted(k)' = Submitted(k) /\ Latest(k)' = Latest(k)
    BY <2>1
  <2>3. ASSUME NEW k \in Jobs, k # j
        PROVE  /\ pc'[k] = "wait" => Submitted(k)' # {}
               /\ job'[k] = "done" => Submitted(k)' # {} /\ command'[<<k, Latest(k)'>>] = "done"
    BY <2>1, <2>2, <2>3
  <2>4. Submitted(j)' # {}
    BY <2>1, <2>2
  <2>5. pc'[j] # "wait" /\ (job'[j] = "done" => command'[<<j, Latest(j)'>>] = "done")
    BY <2>1, <2>2
  <2> QED
    BY <2>3, <2>4, <2>5
<1>13. ASSUME NEW j \in Jobs, Rollback(j) PROVE Awaited'
  BY <1>13 DEF Rollback, Goto
<1>14. ASSUME NEW j \in Jobs, MirrorProgress(j) PROVE Awaited'
  BY <1>14 DEF MirrorProgress, SetStatus
<1>15. ASSUME NEW j \in Jobs, WithdrawCommand(j) PROVE Awaited'
  <2>1. \A i \in Intents :
          command'[i] = command[i] \/ (command[i] = "queued" /\ command'[i] = "cancelled")
    BY <1>15 DEF WithdrawCommand, Host!Withdraw
  <2>2. pc' = pc /\ job' = job
    BY <1>15 DEF WithdrawCommand
  <2> QED
    BY <2>1, <2>2, ChangedAwaited
<1>16. ASSUME NEW j \in Jobs, LoseConnection(j) PROVE Awaited'
  BY <1>16 DEF LoseConnection, Released
<1>17. ASSUME NEW j \in Jobs, RollbackFails(j) PROVE Awaited'
  BY <1>17 DEF RollbackFails, Goto
<1>18. ASSUME NEW j \in Jobs, RunnerRaises(j) PROVE Awaited'
  BY <1>18 DEF RunnerRaises, Fail, SetStatus, Goto
<1>19. ASSUME NEW j \in Jobs, RecoverJob(j) PROVE Awaited'
  BY <1>19 DEF RecoverJob, SetStatus, Goto, Recovering
<1>20. ASSUME NEW p \in Projects, TakeNext(p) PROVE Awaited'
  <2>1. Head(queue[p]) = queue[p][1] /\ queue[p][1] \in Jobs /\ pc[queue[p][1]] = "waiting"
    BY <1>20, HeadTailProperties DEF TakeNext, Queued
  <2> QED
    BY <1>20, <2>1 DEF TakeNext, Goto
<1>21. ASSUME NEW i \in Intents, HostBegins(i) PROVE Awaited'
  <2>1. \A k \in Intents :
          command'[k] = command[k] \/ (command[k] = "queued" /\ command'[k] = "running")
    BY <1>21 DEF HostBegins, Host!Begin
  <2>2. pc' = pc /\ job' = job
    BY <1>21 DEF HostBegins
  <2> QED
    BY <2>1, <2>2, ChangedAwaited
<1>22. ASSUME NEW i \in Intents, HostEnds(i) PROVE Awaited'
  <2>1. \A k \in Intents :
          \/ command'[k] = command[k]
          \/ command[k] = "running" /\ command'[k] \in {"done", "failed"}
    BY <1>22, EndsIntent
  <2>2. pc' = pc /\ job' = job
    BY <1>22 DEF HostEnds
  <2> QED
    BY <2>1, <2>2, ChangedAwaited
<1>23. ASSUME ApiStops PROVE Awaited'
  BY <1>23 DEF ApiStops
<1>24. ASSUME ApiStarts PROVE Awaited'
  BY <1>24 DEF ApiStarts, Pending
<1>25. ASSUME Serve PROVE Awaited'
  BY <1>25 DEF Serve
<1>26. CASE UNCHANGED vars
  BY <1>26 DEF vars
<1> QED
  BY <1>1, <1>2, <1>3, <1>4, <1>5, <1>6, <1>7, <1>8, <1>9, <1>10, <1>11, <1>12,
     <1>13, <1>14, <1>15, <1>16, <1>17, <1>18, <1>19, <1>20, <1>21, <1>22, <1>23,
     <1>24, <1>25, <1>26
  DEF Next, WorkerStep, RunnerStep, Fault

-----------------------------------------------------------------------------
(* Theorems *)

\* The inductive invariant.
Workers ==
  /\ Types
  /\ Queued
  /\ Statuses
  /\ Recovering
  /\ Sessions
  /\ Scripts
  /\ Owners
  /\ Awaited

\* It holds before the first job.
LEMMA InitWorkers == Init => Workers
<1> SUFFICES ASSUME Init PROVE Workers
  OBVIOUS
<1>1. Types /\ Statuses /\ Recovering
  BY JobsAssumption DEF Init, Types, Statuses, Recovering, Taken, Holding, Runner, Host!Status
<1>2. Queued
  BY DEF Init, Queued
<1>3. Sessions
  BY DEF Init, Sessions, Runner
<1>4. Scripts /\ Owners /\ Awaited
  BY DEF Init, Scripts, Owners, Owns, Awaited, Intents, Final
<1> QED
  BY <1>1, <1>2, <1>3, <1>4 DEF Workers

\* Every step keeps it.
LEMMA NextWorkers == Workers /\ [Next]_vars => Workers'
  BY NextTypes, NextQueued, NextStatuses, NextRecovering, NextSessions, NextScripts, NextOwners,
     NextAwaited
  DEF Workers

\* So it holds of every state of the API.
THEOREM WorkersHold == Spec => []Workers
  BY InitWorkers, NextWorkers, PTL DEF Spec

\* Every variable keeps its type, and a lock its holder.
THEOREM JobsTypeCorrect == Spec => []TypeOK
<1>1. Workers => TypeOK
  BY DEF Workers, Types, Sessions, TypeOK, Holders
<1> QED
  BY <1>1, WorkersHold, PTL

\* Runners of overlapping projects exclude each other while their sessions live.
THEOREM RunnersExclude == Spec => []RunnersExclusive
<1>1. Workers => RunnersExclusive
  BY LockIdsType DEF Workers, Sessions, RunnersExclusive, Overlap
<1> QED
  BY <1>1, WorkersHold, PTL

\* A job that reuses its intent has one at most; another repeats itself only when
\* its earlier intents are final.
THEOREM ScriptsOnce == Spec => []OneScript
<1>1. Workers => OneScript
  BY DEF Workers, Scripts, OneScript
<1> QED
  BY <1>1, WorkersHold, PTL

\* A job that is done has its last intent done, and a creation left its project
\* with a row and with its keys.
THEOREM DoneIsTrue == Spec => []DoneMeansDone
<1>1. Workers => DoneMeansDone
  BY DEF Workers, Awaited, Owners, Owns, DoneMeansDone
<1> QED
  BY <1>1, WorkersHold, PTL

-----------------------------------------------------------------------------
(* Jobs that a restart of the API interrupts *)

\* A job that nobody has asked for has no row until an endpoint accepts it.
LEMMA AbsentStays ==
  ASSUME Types, Queued, Statuses, Recovering, [Next]_vars,
         NEW k \in Jobs, job[k] = "absent", ~AcceptJob(k)
  PROVE  job'[k] = "absent"
<1>1. /\ pc[k] \notin {"accepted", "unlock", "start", "bootstrap", "find", "submit", "wait"}
      /\ k \notin todo
  BY DEF Statuses, Recovering, Final
<1>2. ASSUME NEW j \in Jobs,
             \/ AcceptJob(j) \/ Enqueue(j) \/ UnlockFails(j) \/ StartRunner(j) \/ Bootstrap(j)
             \/ MirrorProgress(j) \/ WaitEnds(j) \/ RunnerRaises(j) \/ RecoverJob(j)
      PROVE  job'[k] = "absent"
  <2>1. j # k
    BY <1>1, <1>2 DEF Enqueue, UnlockFails, StartRunner, Bootstrap, MirrorProgress, WaitEnds,
       RunnerRaises, RecoverJob
  <2>2. job' = job \/ \E s : job' = [job EXCEPT ![j] = s]
    BY <1>2 DEF AcceptJob, Enqueue, UnlockFails, StartRunner, Bootstrap, MirrorProgress, WaitEnds,
       RunnerRaises, RecoverJob, Fail, SetStatus
  <2> QED
    BY <2>1, <2>2 DEF Types
<1>3. CASE \A j \in Jobs :
             ~(\/ AcceptJob(j) \/ Enqueue(j) \/ UnlockFails(j) \/ StartRunner(j) \/ Bootstrap(j)
               \/ MirrorProgress(j) \/ WaitEnds(j) \/ RunnerRaises(j) \/ RecoverJob(j))
  <2>1. job' = job
    BY <1>3 DEF Next, WorkerStep, RunnerStep, Fault, AcquireConnection, LockProject, EnterRunner,
       Unlock, FindCommand, SubmitCommand, WithdrawCommand, LoseConnection, Rollback,
       RollbackFails, TakeNext, HostBegins, HostEnds, ApiStops, ApiStarts, Serve, rowVars, vars
  <2> QED
    BY <2>1
<1> QED
  BY <1>2, <1>3

\* A project created before has its row for good, and no creation of it is accepted.
ExistingStay ==
  /\ \A p \in Existing : row[p]
  /\ \A j \in Jobs : Bootstraps(j) /\ Name[j] \in Existing => job[j] = "absent"

\* Every step keeps these rows: only a creation that failed takes one away.
LEMMA NextExisting == Workers /\ ExistingStay /\ [Next]_vars => ExistingStay'
<1> SUFFICES ASSUME Workers, ExistingStay, [Next]_vars PROVE ExistingStay'
  OBVIOUS
<1>1. CASE \E j \in Jobs : AcceptJob(j)
  <2>1. PICK j \in Jobs : AcceptJob(j)
    BY <1>1
  <2>2. /\ \A k \in Jobs \ {j} : job'[k] = job[k]
        /\ \A p \in Projects : row[p] => row'[p]
        /\ Bootstraps(j) => ~row[Name[j]]
    BY <2>1, LockIdsType DEF AcceptJob, SetStatus, Workers, Types
  <2> QED
    BY <2>2, JobsAssumption DEF ExistingStay
<1>2. CASE \E j \in Jobs : Rollback(j)
  <2>1. PICK j \in Jobs : Rollback(j)
    BY <1>2
  <2>2. Bootstraps(j) /\ job[j] = "failed" /\ job' = job /\ row' = [row EXCEPT ![Name[j]] = FALSE]
    BY <2>1 DEF Rollback, Workers, Statuses
  <2>3. Name[j] \notin Existing
    BY <2>2 DEF ExistingStay
  <2> QED
    BY <2>2, <2>3, JobsAssumption DEF ExistingStay, Workers, Types
<1>3. CASE \A j \in Jobs : ~AcceptJob(j) /\ ~Rollback(j)
  <2>1. row' = row
    BY <1>3 DEF Next, WorkerStep, RunnerStep, Fault, Enqueue, AcquireConnection, LockProject,
       EnterRunner, Unlock, UnlockFails, StartRunner, Bootstrap, FindCommand, SubmitCommand,
       WaitEnds, MirrorProgress, WithdrawCommand, LoseConnection, RollbackFails, RunnerRaises,
       RecoverJob, TakeNext, HostBegins, HostEnds, ApiStops, ApiStarts, Serve, rowVars, vars
  <2>2. \A k \in Jobs : job[k] = "absent" => job'[k] = "absent"
    BY <1>3, AbsentStays DEF Workers
  <2> QED
    BY <2>1, <2>2 DEF ExistingStay
<1> QED
  BY <1>1, <1>2, <1>3

\* Only a creation or a duplication makes keys.
Bootstrapping == \A j \in Jobs : pc[j] = "bootstrap" => Bootstraps(j)

\* Every step keeps it: a runner that starts goes where its kind tells it to.
LEMMA NextBootstrapping == Types /\ Bootstrapping /\ [Next]_vars => Bootstrapping'
<1> SUFFICES ASSUME Types, Bootstrapping, [Next]_vars PROVE Bootstrapping'
  OBVIOUS
<1>1. ASSUME NEW j \in Jobs, StartRunner(j) PROVE Bootstrapping'
  <2>1. pc' = [pc EXCEPT ![j] = IF Bootstraps(j) THEN "bootstrap" ELSE "find"]
    BY <1>1 DEF StartRunner, Goto
  <2> QED
    BY <2>1 DEF Types, Bootstrapping, Bootstraps
<1>2. ASSUME NEW j, NEW s, s # "bootstrap", pc' = [pc EXCEPT ![j] = s] PROVE Bootstrapping'
  BY <1>2 DEF Types, Bootstrapping, Bootstraps
<1>3. ASSUME pc' = pc \/ pc' = [j \in Jobs |-> "none"] PROVE Bootstrapping'
  BY <1>3 DEF Bootstrapping, Bootstraps
<1>4. ASSUME NEW j \in Jobs,
             \/ AcceptJob(j) \/ Enqueue(j) \/ AcquireConnection(j) \/ EnterRunner(j) \/ Unlock(j)
             \/ UnlockFails(j) \/ Bootstrap(j) \/ FindCommand(j) \/ SubmitCommand(j) \/ WaitEnds(j)
             \/ Rollback(j) \/ RollbackFails(j) \/ RunnerRaises(j) \/ RecoverJob(j)
      PROVE  Bootstrapping'
  <2>1. pc' = pc \/ \E s : s # "bootstrap" /\ pc' = [pc EXCEPT ![j] = s]
    BY <1>4 DEF AcceptJob, Enqueue, AcquireConnection, EnterRunner, Unlock, UnlockFails, Bootstrap,
       FindCommand, SubmitCommand, WaitEnds, Rollback, RollbackFails, RunnerRaises, RecoverJob,
       Fail, Goto
  <2> QED
    BY <1>2, <1>3, <2>1
<1>5. ASSUME NEW p \in Projects, TakeNext(p) PROVE Bootstrapping'
  BY <1>2, <1>5 DEF TakeNext, Goto
<1>6. CASE /\ \A p \in Projects : ~TakeNext(p)
           /\ \A j \in Jobs :
                ~(\/ AcceptJob(j) \/ Enqueue(j) \/ AcquireConnection(j) \/ EnterRunner(j) \/ Unlock(j)
                  \/ UnlockFails(j) \/ StartRunner(j) \/ Bootstrap(j) \/ FindCommand(j)
                  \/ SubmitCommand(j) \/ WaitEnds(j) \/ Rollback(j) \/ RollbackFails(j)
                  \/ RunnerRaises(j) \/ RecoverJob(j))
  <2>1. pc' = pc \/ pc' = [j \in Jobs |-> "none"]
    BY <1>6 DEF Next, WorkerStep, RunnerStep, Fault, LockProject, MirrorProgress, WithdrawCommand,
       LoseConnection, HostBegins, HostEnds, ApiStops, ApiStarts, Serve, memory, vars
  <2> QED
    BY <1>3, <2>1
<1> QED
  BY <1>1, <1>4, <1>5, <1>6

\* The intents of a job that were final are final still, and none is new.
LEMMA NoNewIntent ==
  ASSUME NEW j \in Jobs,
         \A k \in Attempts :
           \/ command'[<<j, k>>] = command[<<j, k>>]
           \/ command[<<j, k>>] \notin Host!Final \cup {"absent"}
  PROVE  Live(j)' => Live(j)
  BY DEF Live, Submitted

\* A job whose latest intent is final has no live one.
LEMMA LatestFinal ==
  ASSUME Workers, NEW j \in Jobs, Submitted(j) # {}, command[<<j, Latest(j)>>] \in Host!Final
  PROVE  ~Live(j)
<1>1. \A k \in Submitted(j) : k \in Attempts /\ k \in Nat /\ k <= Latest(j)
  BY LatestIsLast, JobsAssumption DEF Submitted, Attempts
<1>2. Latest(j) \in Attempts /\ Latest(j) \in Nat /\ command[<<j, Latest(j)>>] # "absent"
  BY <1>1, LatestIsLast DEF Submitted
<1>3. \A k \in Submitted(j) : k = Latest(j) \/ k < Latest(j)
  BY <1>1, <1>2
<1> QED
  BY <1>1, <1>2, <1>3 DEF Workers, Scripts, Live

\* Until a statement of a runner fails, every session lives and no job is final before
\* its intent.
Settling == faults = 0 => lost = {} /\ SettledBeforeFinal

\* What a step of a job other than the end of its wait does to the rows of the jobs: it
\* leaves those that are not final so, or ends a creation or a duplication.
EndsNoOther == \A k \in Jobs : job'[k] \in Final => job[k] \in Final \/ Bootstraps(k)

\* The jobs whose projects were created before keep Settling at every step.
LEMMA NextSettling ==
  ASSUME Workers, ExistingStay, Bootstrapping, Settling, [Next]_vars,
         \A j \in Jobs : ~Bootstraps(j) => LockIds(j) \subseteq Existing
  PROVE  Settling'
<1> SUFFICES ASSUME faults' = 0 PROVE lost' = {} /\ SettledBeforeFinal'
  BY DEF Settling
<1>0. Types /\ Statuses /\ Recovering /\ Awaited /\ Queued /\ Scripts
  BY DEF Workers
<1>1. faults = 0 /\ lost = {} /\ SettledBeforeFinal
  <2>1. faults' = faults \/ faults' = faults + 1
    BY DEF Next, WorkerStep, RunnerStep, Fault, AcceptJob, Enqueue, AcquireConnection, LockProject,
       EnterRunner, Unlock, UnlockFails, StartRunner, Bootstrap, FindCommand, SubmitCommand,
       WaitEnds, Rollback, MirrorProgress, WithdrawCommand, LoseConnection, RollbackFails,
       RunnerRaises, RecoverJob, TakeNext, HostBegins, HostEnds, ApiStops, ApiStarts, Serve, vars
  <2>2. faults \in Nat
    BY <1>0, JobsAssumption DEF Types
  <2> QED
    BY <2>1, <2>2 DEF Settling
<1>2. ASSUME EndsNoOther, command' = command PROVE SettledBeforeFinal'
  <2>1. \A k \in Jobs : Live(k)' => Live(k)
    BY <1>2, NoNewIntent
  <2> QED
    BY <1>1, <1>2, <2>1 DEF EndsNoOther, SettledBeforeFinal
<1>3. ASSUME job' = job,
             \A i \in Intents : command'[i] = command[i] \/ command[i] \notin Host!Final \cup {"absent"}
      PROVE  SettledBeforeFinal'
  <2>1. \A j \in Jobs, k \in Attempts : <<j, k>> \in Intents
    BY DEF Intents
  <2>2. \A k \in Jobs : Live(k)' => Live(k)
    BY <1>3, <2>1, NoNewIntent
  <2> QED
    BY <1>1, <1>3, <2>2 DEF SettledBeforeFinal
<1>4. ASSUME NEW j \in Jobs, AcceptJob(j) PROVE lost' = {} /\ SettledBeforeFinal'
  <2>1. EndsNoOther /\ UNCHANGED <<command, lost>>
    BY <1>0, <1>4 DEF AcceptJob, SetStatus, EndsNoOther, Final, Types
  <2> QED
    BY <1>1, <1>2, <2>1
<1>5. ASSUME NEW j \in Jobs, Enqueue(j) PROVE lost' = {} /\ SettledBeforeFinal'
  <2>1. ~Bootstraps(j) => \A p \in LockIds(j) : row[p]
    BY DEF ExistingStay
  <2>2. /\ UNCHANGED <<command, lost>> /\ \A k \in Jobs \ {j} : job'[k] = job[k]
        /\ ~Bootstraps(j) => job' = job
    BY <1>0, <1>5, <2>1 DEF Enqueue, SetStatus, Types
  <2>3. EndsNoOther
    BY <2>2 DEF EndsNoOther
  <2> QED
    BY <1>1, <1>2, <2>2, <2>3
<1>6. ASSUME NEW j \in Jobs, StartRunner(j) \/ MirrorProgress(j) PROVE lost' = {} /\ SettledBeforeFinal'
  <2>1. EndsNoOther /\ UNCHANGED <<command, lost>>
    BY <1>0, <1>6 DEF StartRunner, MirrorProgress, SetStatus, EndsNoOther, Final, Types, memory
  <2> QED
    BY <1>1, <1>2, <2>1
<1>7. ASSUME NEW j \in Jobs, Bootstrap(j) PROVE lost' = {} /\ SettledBeforeFinal'
  <2>1. Bootstraps(j)
    BY <1>0, <1>7 DEF Bootstrap, Bootstrapping
  <2>2. UNCHANGED <<command, lost>> /\ \A k \in Jobs \ {j} : job'[k] = job[k]
    BY <1>0, <1>7 DEF Bootstrap, Fail, SetStatus, Types
  <2>3. EndsNoOther
    BY <2>1, <2>2 DEF EndsNoOther
  <2> QED
    BY <1>1, <1>2, <2>2, <2>3
<1>8. ASSUME NEW j \in Jobs, SubmitCommand(j) PROVE lost' = {} /\ SettledBeforeFinal'
  <2>1. job[j] = "running" /\ UNCHANGED <<job, lost>>
    BY <1>0, <1>8 DEF SubmitCommand, Statuses, rowVars
  <2>2. \A k \in Jobs \ {j}, m \in Attempts : command'[<<k, m>>] = command[<<k, m>>]
    BY <1>0, <1>8, SubmitRow
  <2>3. \A k \in Jobs \ {j} : Live(k)' => Live(k)
    BY <2>2, NoNewIntent
  <2>4. job'[j] \notin Final
    BY <2>1 DEF Final
  <2> QED
    BY <1>1, <2>1, <2>3, <2>4 DEF SettledBeforeFinal
<1>9. ASSUME NEW j \in Jobs, WaitEnds(j) PROVE lost' = {} /\ SettledBeforeFinal'
  <2>1. pc[j] = "wait" /\ command[<<j, Latest(j)>>] \in Host!Final /\ UNCHANGED <<command, lost>>
    BY <1>9 DEF WaitEnds
  <2>2. ~Live(j)
    BY <1>0, <2>1, LatestFinal DEF Awaited
  <2>3. \A k \in Jobs \ {j} : job'[k] = job[k]
    BY <1>0, <1>9 DEF WaitEnds, Fail, SetStatus, Types
  <2>4. \A k \in Jobs : Live(k)' => Live(k)
    BY <2>1, NoNewIntent
  <2> QED
    BY <1>1, <2>1, <2>2, <2>3, <2>4 DEF SettledBeforeFinal
<1>10. ASSUME NEW j \in Jobs, RecoverJob(j) PROVE lost' = {} /\ SettledBeforeFinal'
  <2>1. ~Bootstraps(j) => CanResume(j)
    BY JobsAssumption DEF Bootstraps, CanResume, Kinds
  <2>2. /\ UNCHANGED <<command, lost>> /\ \A k \in Jobs \ {j} : job'[k] = job[k]
        /\ CanResume(j) => job'[j] = "queued"
    BY <1>0, <1>10 DEF RecoverJob, SetStatus, Types
  <2>3. EndsNoOther
    BY <2>1, <2>2 DEF EndsNoOther, Final
  <2> QED
    BY <1>1, <1>2, <2>2, <2>3
<1>11. ASSUME NEW j \in Jobs, UnlockFails(j) \/ Fault(j) PROVE lost' = {} /\ SettledBeforeFinal'
  <2>1. ~UnlockFails(j)
    BY <1>1 DEF UnlockFails
  <2>2. faults' = faults + 1
    BY <1>11, <2>1 DEF Fault, LoseConnection, RollbackFails, RunnerRaises
  <2> QED
    BY <1>1, <2>2
<1>12. ASSUME NEW j \in Jobs, WithdrawCommand(j) PROVE lost' = {} /\ SettledBeforeFinal'
  <2>1. UNCHANGED <<job, lost>>
    BY <1>12 DEF WithdrawCommand, rowVars, memory
  <2>2. \A i \in Intents : command'[i] = command[i] \/ command[i] \notin Host!Final \cup {"absent"}
    BY <1>0, <1>12 DEF WithdrawCommand, Host!Withdraw, Host!Final, Types
  <2> QED
    BY <1>1, <1>3, <2>1, <2>2
<1>13. ASSUME NEW i \in Intents, HostBegins(i) \/ HostEnds(i) PROVE lost' = {} /\ SettledBeforeFinal'
  <2>1. UNCHANGED <<job, lost>>
    BY <1>13 DEF HostBegins, HostEnds, rowVars, memory
  <2>2. \A k \in Intents : command'[k] = command[k] \/ command[k] \notin Host!Final \cup {"absent"}
    <3>1. CASE HostBegins(i)
      BY <1>0, <3>1 DEF HostBegins, Host!Begin, Host!Final, Types
    <3>2. CASE HostEnds(i)
      BY <1>0, <3>2, EndsIntent DEF Host!Final
    <3> QED
      BY <1>13, <3>1, <3>2
  <2> QED
    BY <1>1, <1>3, <2>1, <2>2
<1>14. ASSUME NEW j \in Jobs,
              \/ AcquireConnection(j) \/ EnterRunner(j) \/ Unlock(j) \/ FindCommand(j) \/ Rollback(j)
              \/ \E p \in Projects : LockProject(j, p)
       PROVE  lost' = {} /\ SettledBeforeFinal'
  <2>1. UNCHANGED <<job, command, lost>>
    BY <1>14 DEF AcquireConnection, EnterRunner, Unlock, FindCommand, Rollback, LockProject, rowVars
  <2> QED
    BY <1>1, <1>3, <2>1
<1>15. ASSUME (\E p \in Projects : TakeNext(p)) \/ ApiStops \/ ApiStarts \/ Serve \/ UNCHANGED vars
       PROVE  lost' = {} /\ SettledBeforeFinal'
  <2>1. UNCHANGED <<job, command>> /\ (lost' = lost \/ lost' = {})
    BY <1>15 DEF TakeNext, ApiStops, ApiStarts, Serve, vars, rowVars, memory
  <2> QED
    BY <1>1, <1>3, <2>1
<1> QED
  BY <1>4, <1>5, <1>6, <1>7, <1>8, <1>9, <1>10, <1>11, <1>12, <1>13, <1>14, <1>15
  DEF Next, WorkerStep, RunnerStep

\* As long as no statement of a runner fails, a backup, a restore or a restart of a
\* project that was there before is not final while the host-agent still works on it,
\* however often the API restarts.
THEOREM SettledUntilAFault ==
  ASSUME \A j \in Jobs : ~Bootstraps(j) => LockIds(j) \subseteq Existing
  PROVE  Spec => [](faults = 0 => SettledBeforeFinal)
<1>1. Init => ExistingStay /\ Bootstrapping /\ Settling
  BY JobsAssumption DEF Init, ExistingStay, Bootstrapping, Settling, SettledBeforeFinal, Final
<1>2. Workers /\ ExistingStay /\ Bootstrapping /\ Settling /\ [Next]_vars =>
        ExistingStay' /\ Bootstrapping' /\ Settling'
  BY NextExisting, NextBootstrapping, NextSettling DEF Workers
<1>3. Settling => (faults = 0 => SettledBeforeFinal)
  BY DEF Settling
<1> QED
  BY <1>1, <1>2, <1>3, WorkersHold, PTL DEF Spec
=============================================================================
