----------------------------- MODULE ProjectJobs -----------------------------
(***************************************************************************)
(* The jobs of the Projects API: rows of the table jobs, the queue of each *)
(* project with its worker coroutine, the session-level advisory locks and *)
(* the pool connections a worker keeps while its runner works (app/jobs.py,*)
(* app/project_backgrounds.py), and what a restart of the API does with    *)
(* the jobs it finds (app/main.py).  The intents a runner submits live in  *)
(* host_agent_commands; what is done to them there is CommandLifecycle,    *)
(* which HostCommands implements.                                          *)
(***************************************************************************)
EXTENDS Naturals, Sequences, FiniteSets

CONSTANTS Jobs,
          Projects,    \* in the order of sorted(..., key=str) over their ids
          Name,        \* [Jobs -> Projects]: jobs.project
          Kind,        \* [Jobs -> Kinds]: jobs.action
          Source,      \* [Jobs -> SUBSET Projects]: payload.original_name
          Existing,    \* projects created before
          PoolSize,    \* max_size of the asyncpg pool
          MaxRestarts, \* bound on crashes of the API
          MaxFaults    \* bound on failures of the database under a runner

\* "backup" stands for the actions that reuse their intent and are resumed
\* (backup, restore, delete_restore_point, rename), "restart" for the
\* idempotent ones (start, stop, restart, recreate_services).
Kinds == {"create", "duplicate", "backup", "restart"}

ASSUME JobsAssumption ==
  /\ Projects \subseteq Nat
  /\ Existing \subseteq Projects
  /\ Name \in [Jobs -> Projects]
  /\ Kind \in [Jobs -> Kinds]
  /\ Source \in [Jobs -> SUBSET Projects]
  /\ {PoolSize, MaxRestarts, MaxFaults} \subseteq Nat
  /\ "none" \notin Jobs

VARIABLES
  job,       \* jobs.status, "absent" before the INSERT
  older,     \* the jobs with an earlier updated_at
  row,       \* the project has a row in projects
  keyed,     \* that row has its initial API key slots
  pc,        \* where the coroutine that handles the job is
  queue,     \* ProjectActionQueue._queues
  advisory,  \* the job whose session holds pg_advisory_lock(id of project)
  lost,      \* jobs whose worker lost the connection that holds its locks
  command,   \* host_agent_commands.status of the intents of a job
  api,       \* the API process
  todo,      \* what _recover_pending_jobs has still to look at
  restarts, faults

rowVars == <<job, older, row, keyed>>
memory  == <<pc, queue, advisory, lost>>
process == <<api, todo, restarts>>
vars == <<rowVars, memory, command, process, faults>>

Attempts == 1 .. MaxRestarts + 1
Intents  == Jobs \X Attempts
Final    == {"done", "failed"}

Bootstraps(j) == Kind[j] \in {"create", "duplicate"}
ReusesTerminal(j) == Kind[j] # "restart"
LockIds(j) == {Name[j]} \cup Source[j]
Overlap(j, k) == LockIds(j) \cap LockIds(k) # {}

\* The intents as CommandLifecycle sees them.
IntentResources(i) == LockIds(i[1])
Host == INSTANCE CommandLifecycle
          WITH Commands <- Intents, Resources <- IntentResources, status <- command

Submitted(j) == {k \in Attempts : command[<<j, k>>] # "absent"}
Latest(j) == CHOOSE k \in Submitted(j) : \A m \in Submitted(j) : m <= k
Live(j) == \E k \in Submitted(j) : command[<<j, k>>] \notin Host!Final

\* A worker has taken the job; it holds its connection; its runner works.
Runner  == {"start", "bootstrap", "find", "submit", "wait", "rollback"}
Holding == Runner \cup {"lock", "unlock"}
Taken   == Holding \cup {"acquire"}
Holders == {j \in Jobs : pc[j] \in Holding}
\* A statement needs one more connection of the pool for a moment.
Connection == Cardinality(Holders) < PoolSize

\* set_job_status: no test of the status it replaces.
SetStatus(j, status) ==
  /\ job' = [job EXCEPT ![j] = status]
  /\ older' = [k \in Jobs |->
                IF k = j THEN {i \in Jobs \ {j} : job[i] # "absent"} ELSE older[k] \ {j}]

Goto(j, place) == pc' = [pc EXCEPT ![j] = place]

Init ==
  /\ job = [j \in Jobs |-> "absent"]
  /\ older = [j \in Jobs |-> {}]
  /\ row = [p \in Projects |-> p \in Existing]
  /\ keyed = [p \in Projects |-> p \in Existing]
  /\ pc = [j \in Jobs |-> "none"]
  /\ queue = [p \in Projects |-> <<>>]
  /\ advisory = [p \in Projects |-> "none"]
  /\ lost = {}
  /\ command = [i \in Intents |-> "absent"]
  /\ api = "up"
  /\ todo = {}
  /\ restarts = 0
  /\ faults = 0

-----------------------------------------------------------------------------
(* The endpoints *)

\* The transaction of an endpoint: check, INSERT of the project row when the
\* job makes one, INSERT of the job.  A repeated idempotent action is answered
\* with the job that is active.
AcceptJob(j) ==
  /\ api = "up"
  /\ Connection
  /\ job[j] = "absent"
  /\ IF Bootstraps(j)
     THEN /\ ~row[Name[j]]
          /\ \A p \in Source[j] : row[p]
          /\ row' = [row EXCEPT ![Name[j]] = TRUE]
     ELSE /\ row[Name[j]]
          /\ UNCHANGED row
  /\ Kind[j] = "restart" =>
       \A k \in Jobs : Kind[k] = "restart" /\ Name[k] = Name[j] =>
         job[k] \notin {"queued", "running"}
  /\ SetStatus(j, "queued")
  /\ Goto(j, "accepted")
  /\ UNCHANGED <<keyed, queue, advisory, lost, command, process, faults>>

\* enqueue_project_action: the rows of the project and of a duplication's source
\* must be there.
Enqueue(j) ==
  /\ pc[j] = "accepted"
  /\ Connection
  /\ IF \A p \in LockIds(j) : row[p]
     THEN /\ queue' = [queue EXCEPT ![Name[j]] = Append(@, j)]
          /\ Goto(j, "waiting")
          /\ UNCHANGED <<job, older>>
     ELSE /\ SetStatus(j, "failed")
          /\ Goto(j, "none")
          /\ UNCHANGED queue
  /\ UNCHANGED <<row, keyed, advisory, lost, command, process, faults>>

-----------------------------------------------------------------------------
(* The worker of a project *)

TakeNext(p) ==
  /\ queue[p] # <<>>
  /\ \A j \in Jobs : Name[j] = p => pc[j] \notin Taken
  /\ Goto(Head(queue[p]), "acquire")
  /\ queue' = [queue EXCEPT ![p] = Tail(@)]
  /\ UNCHANGED <<rowVars, advisory, lost, command, process, faults>>

\* pool.acquire: kept until the runner is through.
AcquireConnection(j) ==
  /\ pc[j] = "acquire"
  /\ Connection
  /\ Goto(j, "lock")
  /\ UNCHANGED <<rowVars, queue, advisory, lost, command, process, faults>>

\* Faulty variant: the source of a duplication is not locked.
UnlockedTarget(j) == {p \in {Name[j]} : advisory[p] # j}

\* The ids of lock_project_ids the worker has still to lock.
Unlocked(j) == {p \in LockIds(j) : advisory[p] # j}

LockProject(j, p) ==
  /\ pc[j] = "lock"
  /\ p \in Unlocked(j)
  /\ \A q \in Unlocked(j) : p <= q
  /\ advisory[p] = "none"
  /\ advisory' = [advisory EXCEPT ![p] = j]
  /\ UNCHANGED <<rowVars, pc, queue, lost, command, process, faults>>

\* await action.runner()
EnterRunner(j) ==
  /\ pc[j] = "lock"
  /\ Unlocked(j) = {}
  /\ Goto(j, "start")
  /\ UNCHANGED <<rowVars, queue, advisory, lost, command, process, faults>>

\* Faulty variant: only the target is unlocked.
ReleasedTarget(j) == [advisory EXCEPT ![Name[j]] = "none"]

Released(j) == [p \in Projects |-> IF advisory[p] = j THEN "none" ELSE advisory[p]]

\* The finally of _run_with_project_lock, and the release of the connection.
Unlock(j) ==
  /\ pc[j] = "unlock"
  /\ j \notin lost
  /\ advisory' = Released(j)
  /\ Goto(j, "none")
  /\ UNCHANGED <<rowVars, queue, lost, command, process, faults>>

\* pg_advisory_unlock raises on a dead connection, and the worker takes that for
\* a failure of the runner: queue_runner_failed.
UnlockFails(j) ==
  /\ pc[j] = "unlock"
  /\ j \in lost
  /\ SetStatus(j, "failed")
  /\ Goto(j, "none")
  /\ lost' = lost \ {j}
  /\ UNCHANGED <<row, keyed, queue, advisory, command, process, faults>>

\* The connection that holds the locks dies; the server ends its session and
\* the runner, which does not use it, works on.
LoseConnection(j) ==
  /\ pc[j] \in Runner
  /\ faults < MaxFaults
  /\ faults' = faults + 1
  /\ lost' = lost \cup {j}
  /\ advisory' = Released(j)
  /\ UNCHANGED <<rowVars, pc, queue, command, process>>

-----------------------------------------------------------------------------
(* The runner of a job *)

StartRunner(j) ==
  /\ pc[j] = "start"
  /\ Connection
  /\ SetStatus(j, "running")
  /\ Goto(j, IF Bootstraps(j) THEN "bootstrap" ELSE "find")
  /\ UNCHANGED <<row, keyed, queue, advisory, lost, command, process, faults>>

\* The except clauses: the job fails; a creation also rolls its row back.
Fail(j) ==
  /\ SetStatus(j, "failed")
  /\ Goto(j, IF Bootstraps(j) THEN "rollback" ELSE "unlock")

\* bootstrap_project_opaque_keys refuses a project that has its slots.
Bootstrap(j) ==
  /\ pc[j] = "bootstrap"
  /\ Connection
  /\ IF row[Name[j]] /\ ~keyed[Name[j]]
     THEN /\ keyed' = [keyed EXCEPT ![Name[j]] = TRUE]
          /\ Goto(j, "find")
          /\ UNCHANGED <<job, older>>
     ELSE /\ Fail(j)
          /\ UNCHANGED keyed
  /\ UNCHANGED <<row, queue, advisory, lost, command, process, faults>>

\* Faulty variant: a final intent is never reused.
FindLiveCommand(j) ==
  /\ pc[j] = "find"
  /\ Connection
  /\ IF Live(j) THEN Goto(j, "wait") ELSE Goto(j, "submit")
  /\ UNCHANGED <<rowVars, queue, advisory, lost, command, process, faults>>

\* run_command_for_job: reattach to the latest intent of the job, or submit one.
FindCommand(j) ==
  /\ pc[j] = "find"
  /\ Connection
  /\ IF Submitted(j) # {} /\ (ReusesTerminal(j) \/ command[<<j, Latest(j)>>] \notin Host!Final)
     THEN Goto(j, "wait")
     ELSE Goto(j, "submit")
  /\ UNCHANGED <<rowVars, queue, advisory, lost, command, process, faults>>

SubmitCommand(j) ==
  /\ pc[j] = "submit"
  /\ Connection
  /\ Host!Accept(<<j, Cardinality(Submitted(j)) + 1>>)
  /\ Goto(j, "wait")
  /\ UNCHANGED <<rowVars, queue, advisory, lost, process, faults>>

\* _job_progress_mirror.
MirrorProgress(j) ==
  /\ pc[j] = "wait"
  /\ Connection
  /\ \E k \in Jobs : j \in older[k]
  /\ Live(j)
  /\ SetStatus(j, "running")
  /\ UNCHANGED <<row, keyed, memory, command, process, faults>>

\* Faulty variant: whatever did not fail is taken for done.
WaitEndsUnlessFailed(j) ==
  /\ pc[j] = "wait"
  /\ Connection
  /\ command[<<j, Latest(j)>>] \in Host!Final
  /\ IF command[<<j, Latest(j)>>] # "failed"
     THEN SetStatus(j, "done") /\ Goto(j, "unlock")
     ELSE Fail(j)
  /\ UNCHANGED <<row, keyed, queue, advisory, lost, command, process, faults>>

\* wait_command returns the final row and the runner settles the job.
WaitEnds(j) ==
  /\ pc[j] = "wait"
  /\ Connection
  /\ command[<<j, Latest(j)>>] \in Host!Final
  /\ IF command[<<j, Latest(j)>>] = "done"
     THEN SetStatus(j, "done") /\ Goto(j, "unlock")
     ELSE Fail(j)
  /\ UNCHANGED <<row, keyed, queue, advisory, lost, command, process, faults>>

\* wait_command withdraws an intent that waited too long or finds no worker.
WithdrawCommand(j) ==
  /\ pc[j] = "wait"
  /\ Connection
  /\ Host!Withdraw(<<j, Latest(j)>>)
  /\ UNCHANGED <<rowVars, memory, process, faults>>

\* rollback_project_from_db; the slots go with the row (ON DELETE CASCADE).  It
\* swallows its own failure.
Rollback(j) ==
  /\ pc[j] = "rollback"
  /\ Connection
  /\ row' = [row EXCEPT ![Name[j]] = FALSE]
  /\ keyed' = [keyed EXCEPT ![Name[j]] = FALSE]
  /\ Goto(j, "unlock")
  /\ UNCHANGED <<job, older, queue, advisory, lost, command, process, faults>>

RollbackFails(j) ==
  /\ pc[j] = "rollback"
  /\ faults < MaxFaults
  /\ faults' = faults + 1
  /\ Goto(j, "unlock")
  /\ UNCHANGED <<rowVars, queue, advisory, lost, command, process>>

\* A statement of the runner raises.
RunnerRaises(j) ==
  /\ pc[j] \in {"bootstrap", "find", "submit", "wait"}
  /\ Connection
  /\ faults < MaxFaults
  /\ faults' = faults + 1
  /\ Fail(j)
  /\ UNCHANGED <<row, keyed, queue, advisory, lost, command, process>>

-----------------------------------------------------------------------------
(* The host-agent, as CommandLifecycle describes it *)

HostBegins(i) == Host!Begin(i) /\ UNCHANGED <<rowVars, memory, process, faults>>

HostEnds(i) == /\ Host!Succeed(i) \/ Host!Fail({i})
               /\ UNCHANGED <<rowVars, memory, process, faults>>

-----------------------------------------------------------------------------
(* Restart and recovery *)

\* The API process ends: coroutines, queues and sessions are gone.
ApiStops ==
  /\ api # "down"
  /\ restarts < MaxRestarts
  /\ restarts' = restarts + 1
  /\ api' = "down"
  /\ todo' = {}
  /\ pc' = [j \in Jobs |-> "none"]
  /\ queue' = [p \in Projects |-> <<>>]
  /\ advisory' = [p \in Projects |-> "none"]
  /\ lost' = {}
  /\ UNCHANGED <<rowVars, command, faults>>

\* Faulty variant: jobs that never started are forgotten.
PendingRunning == {j \in Jobs : job[j] = "running"}

\* WHERE status IN ('queued', 'running').
Pending == {j \in Jobs : job[j] \in {"queued", "running"}}

ApiStarts ==
  /\ api = "down"
  /\ api' = "recovering"
  /\ todo' = Pending
  /\ UNCHANGED <<rowVars, memory, command, restarts, faults>>

\* Faulty variant: only creations and idempotent actions are resumed.
CanResumeSafeOnly(j) == job[j] = "queued" \/ Kind[j] \in {"create", "restart"}

CanResume(j) == job[j] = "queued" \/ Kind[j] \in {"create", "restart", "backup"}

\* One turn of the loop, ORDER BY updated_at ASC: queue the job again, or fail it
\* for manual review.  The next turn waits until enqueue_project_action returned.
RecoverJob(j) ==
  /\ api = "recovering"
  /\ j \in todo
  /\ older[j] \cap todo = {}
  /\ \A k \in Jobs : pc[k] # "accepted"
  /\ Connection
  /\ IF CanResume(j)
     THEN SetStatus(j, "queued") /\ Goto(j, "accepted")
     ELSE SetStatus(j, "failed") /\ UNCHANGED pc
  /\ todo' = todo \ {j}
  /\ UNCHANGED <<row, keyed, queue, advisory, lost, command, api, restarts, faults>>

\* Startup is through: the endpoints answer.
Serve ==
  /\ api = "recovering"
  /\ todo = {}
  /\ \A j \in Jobs : pc[j] # "accepted"
  /\ api' = "up"
  /\ UNCHANGED <<rowVars, memory, command, todo, restarts, faults>>

-----------------------------------------------------------------------------
WorkerStep(j) == \/ Enqueue(j) \/ AcquireConnection(j) \/ (\E p \in Projects : LockProject(j, p))
                 \/ EnterRunner(j) \/ Unlock(j) \/ UnlockFails(j)

RunnerStep(j) == \/ StartRunner(j) \/ Bootstrap(j) \/ FindCommand(j) \/ SubmitCommand(j)
                 \/ WaitEnds(j) \/ Rollback(j)

Fault(j) == LoseConnection(j) \/ RollbackFails(j) \/ RunnerRaises(j)

Next == \/ \E j \in Jobs : \/ AcceptJob(j) \/ WorkerStep(j) \/ RunnerStep(j)
                           \/ MirrorProgress(j) \/ WithdrawCommand(j) \/ Fault(j)
                           \/ RecoverJob(j)
        \/ \E p \in Projects : TakeNext(p)
        \/ \E i \in Intents : HostBegins(i) \/ HostEnds(i)
        \/ ApiStops \/ ApiStarts \/ Serve

Spec == Init /\ [][Next]_vars

\* Coroutines that can run are run, a supervisor starts the API again, and every
\* intent ends (WaitEnds and OrphanIsReaped of HostCommands): one that waits for
\* another is begun when that has ended.
Fairness ==
  /\ \A j \in Jobs : WF_vars(WorkerStep(j)) /\ WF_vars(RunnerStep(j))
  /\ \A p \in Projects : WF_vars(TakeNext(p))
  /\ \A i \in Intents : SF_vars(HostBegins(i)) /\ WF_vars(HostEnds(i))
  /\ WF_vars(ApiStarts) /\ WF_vars(Serve) /\ \A j \in Jobs : WF_vars(RecoverJob(j))

FairSpec == Spec /\ Fairness

-----------------------------------------------------------------------------
(* Properties *)

\* Types; a lock belongs to the connection of a worker that is still busy.
TypeOK ==
  /\ job \in [Jobs -> {"absent", "queued", "running"} \cup Final]
  /\ older \in [Jobs -> SUBSET Jobs]
  /\ row \in [Projects -> BOOLEAN]
  /\ keyed \in [Projects -> BOOLEAN]
  /\ pc \in [Jobs -> Taken \cup {"none", "accepted", "waiting"}]
  /\ queue \in [Projects -> Seq(Jobs)]
  /\ advisory \in [Projects -> Holders \cup {"none"}]
  /\ lost \in SUBSET Jobs
  /\ command \in [Intents -> Host!Status]
  /\ api \in {"down", "recovering", "up"}
  /\ todo \in SUBSET Jobs
  /\ restarts \in 0 .. MaxRestarts
  /\ faults \in 0 .. MaxFaults

\* Two runners never work on one project at once, not even when one of them only
\* reads it as the source of a duplication, while their sessions live.
RunnersExclusive ==
  \A j, k \in {r \in Jobs : pc[r] \in Runner} \ lost : j # k => ~Overlap(j, k)

\* "Nunca dispara um segundo script para o mesmo job": a job that reuses its
\* intent has one at most, and a repeated idempotent action repeats itself only
\* when its earlier intent is final.
OneScript ==
  \A j \in Jobs, k, m \in Attempts :
    k < m /\ command[<<j, m>>] # "absent" =>
      ~ReusesTerminal(j) /\ command[<<j, k>>] \in Host!Final

\* A job is done only when its last intent is, and a creation that is done has
\* left its project with a row and with its keys.
DoneMeansDone ==
  \A j \in Jobs : job[j] = "done" =>
    /\ Submitted(j) # {}
    /\ command[<<j, Latest(j)>>] = "done"
    /\ Bootstraps(j) => row[Name[j]] /\ keyed[Name[j]]

\* A backup, a restore or a restart that a restart of the API interrupts is not
\* given up while the host-agent still works on it.
SettledBeforeFinal ==
  \A j \in Jobs : ~Bootstraps(j) /\ job[j] \in Final => ~Live(j)

\* "If a corresponding intent already exists, recovery reconnects the job to the
\* same intent, follows the command while active": no job is final while its
\* intent is not.
ReconnectsToIntent == \A j \in Jobs : job[j] \in Final => ~Live(j)

\* "The Projects API serializes lifecycle operations per project": while a
\* runner works, no intent of another job of its project is still open.
OneJobInProgress ==
  \A j, k \in Jobs :
    j # k /\ Name[j] = Name[k] /\ pc[k] \in {"find", "submit", "wait"} => ~Live(j)

\* Every accepted job ends.
JobEnds == \A j \in Jobs : job[j] = "queued" ~> job[j] \in Final

\* "Para a espera nunca ficar sem teto": a wait for an intent ends.
WaitHasCeiling == \A j \in Jobs : pc[j] = "wait" ~> pc[j] # "wait"
=============================================================================
