---------------------------- MODULE HostCommands ----------------------------
(***************************************************************************)
(* The durable command queue between the Projects API and the host-agent:  *)
(* one row of host_agent_commands per signed intent, the API coroutines    *)
(* that submit an intent and wait on its row (app/host_agent.py), and the  *)
(* agent processes that lease, revalidate, run, renew, finish and reap     *)
(* rows (hostagent/agent.py, hostagent/db.py).                             *)
(*                                                                         *)
(* Every SQL statement is one step; the lease transaction is several,      *)
(* because its row lock and its advisory locks are what it is about.  Time *)
(* is abstracted: a lease may lapse and a deadline may pass in any step in  *)
(* which it is pending.                                                    *)
(***************************************************************************)
EXTENDS Naturals, FiniteSets

CONSTANTS Commands,     \* intents, each the id of a row
          Projects,     \* technical names, ordered the way sorted() orders them
          Agents,       \* agent processes; every start has a worker_id of its own
          Target,       \* [Commands -> Projects]: the column "project"
          Origin,       \* [Commands -> SUBSET Projects]: args.original_name, if any
          MaxParallel,  \* config.max_parallel_commands
          NoOne

ASSUME ModelAssumption ==
  /\ Projects \subseteq Nat
  /\ Target \in [Commands -> Projects]
  /\ Origin \in [Commands -> SUBSET Projects]
  /\ MaxParallel \in Nat \ {0}
  /\ NoOne \notin Agents \cup Commands

VARIABLES
  status,     \* the row's status, "absent" before the INSERT
  errorCode,  \* the row's error_code
  worker,     \* the row's worker_id
  lapsed,     \* the row's lease_expires_at + grace lies in the past
  older,      \* the rows with an earlier created_at
  agent,      \* the state of an agent process
  busy,       \* HostAgent._busy_projects
  leasePc,    \* where the agent's lease transaction is
  leaseCmd,   \* the row that transaction has locked, then leased
  advisory,   \* holder of pg_advisory_xact_lock("host-agent-project:" || p)
  task,       \* the phase of the command's task in the agent that leased it
  abort,      \* RunningCommandState.abort of that task
  outcome,    \* the CommandOutcome.status the handler returned
  waiter      \* where the API coroutine that waits for the command is

rowVars   == <<status, errorCode, worker, lapsed, older>>
leaseVars == <<leasePc, leaseCmd, advisory>>
taskVars  == <<busy, task, abort, outcome>>
vars == <<rowVars, agent, leaseVars, taskVars, waiter>>

Final  == {"done", "failed", "cancelled"}
Status == {"absent", "queued", "running"} \cup Final
\* "wait_timeout" is queue_wait_timeout on a cancelled row and api_wait_timeout
\* on a failed one; "reported" is any code the agent itself writes.
ErrorCode == {"none", "wait_timeout", "host_agent_offline", "lease_expired", "reported"}

Resources(c) == {Target[c]} \cup Origin[c]
Overlap(c, d) == Resources(c) \cap Resources(d) # {}

\* Some row that shares a resource with c is running.
RunningNextTo(c) == \E d \in Commands : status[d] = "running" /\ Overlap(c, d)

InTransaction(a) == leasePc[a] \in {"locking", "clear"}
RowLocked(c) == \E a \in Agents : InTransaction(a) /\ leaseCmd[a] = c
\* The handler of c, or a process it started, is alive.
AtWork(c) == task[c] \in {"executing", "terminating"}
Tasks(a) == {c \in Commands : worker[c] = a /\ task[c] # "none"}

Init ==
  /\ status = [c \in Commands |-> "absent"]
  /\ errorCode = [c \in Commands |-> "none"]
  /\ worker = [c \in Commands |-> NoOne]
  /\ lapsed = [c \in Commands |-> FALSE]
  /\ older = [c \in Commands |-> {}]
  /\ agent = [a \in Agents |-> "off"]
  /\ busy = [a \in Agents |-> {}]
  /\ leasePc = [a \in Agents |-> "idle"]
  /\ leaseCmd = [a \in Agents |-> NoOne]
  /\ advisory = [p \in Projects |-> NoOne]
  /\ task = [c \in Commands |-> "none"]
  /\ abort = [c \in Commands |-> FALSE]
  /\ outcome = [c \in Commands |-> "none"]
  /\ waiter = [c \in Commands |-> "none"]

-----------------------------------------------------------------------------
(* The Projects API *)

\* submit_command and the first turn of wait_command: the INSERT commits and
\* the coroutine starts to poll the row.
SubmitCommand(c) ==
  /\ status[c] = "absent"
  /\ status' = [status EXCEPT ![c] = "queued"]
  /\ older' = [older EXCEPT ![c] = {d \in Commands : status[d] # "absent"}]
  /\ waiter' = [waiter EXCEPT ![c] = "polling"]
  /\ UNCHANGED <<errorCode, worker, lapsed, agent, leaseVars, taskVars>>

\* run_command_for_job after an API restart: the job finds its row again.
Reattach(c) ==
  /\ status[c] # "absent"
  /\ waiter[c] = "none"
  /\ waiter' = [waiter EXCEPT ![c] = "polling"]
  /\ UNCHANGED <<rowVars, agent, leaseVars, taskVars>>

\* The API process stops: every coroutine that was waiting is gone.
ApiRestart ==
  /\ \E c \in Commands : waiter[c] \notin {"none", "returned", "offline"}
  /\ waiter' = [c \in Commands |-> "none"]
  /\ UNCHANGED <<rowVars, agent, leaseVars, taskVars>>

\* A turn of the loop reads a final row and returns it.  A turn that has nothing
\* to do changes nothing; one that writes reads the status first and its UPDATE
\* tests it again, so read and write are one step where nothing lies between.
WaitReturns(c) ==
  /\ waiter[c] = "polling"
  /\ status[c] \in Final
  /\ waiter' = [waiter EXCEPT ![c] = "returned"]
  /\ UNCHANGED <<rowVars, agent, leaseVars, taskVars>>

\* Faulty variant: the UPDATE forgets its status test.
CancelAnyLive(c, code) ==
  /\ ~RowLocked(c)
  /\ IF status[c] \in {"queued", "running"}
     THEN /\ status' = [status EXCEPT ![c] = "cancelled"]
          /\ errorCode' = [errorCode EXCEPT ![c] = code]
     ELSE UNCHANGED <<status, errorCode>>
  /\ UNCHANGED <<worker, lapsed, older, agent, leaseVars, taskVars>>

\* UPDATE ... SET status = 'cancelled' WHERE id = $1 AND status = 'queued'.  It
\* waits for a lease transaction that has locked the row.
CancelQueued(c, code) ==
  /\ ~RowLocked(c)
  /\ IF status[c] = "queued"
     THEN /\ status' = [status EXCEPT ![c] = "cancelled"]
          /\ errorCode' = [errorCode EXCEPT ![c] = code]
     ELSE UNCHANGED <<status, errorCode>>
  /\ UNCHANGED <<worker, lapsed, older, agent, leaseVars, taskVars>>

\* The deadline of a queued row passed.
WaitQueueTimeout(c) ==
  /\ waiter[c] = "polling"
  /\ status[c] = "queued"
  /\ CancelQueued(c, "wait_timeout")
  /\ UNCHANGED waiter

\* worker_alive has found no worker for longer than OFFLINE_QUEUE_GRACE_SECONDS.
\* A live worker can look silent (its heartbeat fails in the database) and a
\* dead one alive (its last heartbeat is recent), so the agents' state does not
\* guard this step.
WaitSeesOffline(c) ==
  /\ waiter[c] = "polling"
  /\ status[c] = "queued"
  /\ waiter' = [waiter EXCEPT ![c] = "sawOffline"]
  /\ UNCHANGED <<rowVars, agent, leaseVars, taskVars>>

\* Faulty variant: raise without looking at what the UPDATE did.
WaitOfflineAlwaysRaises(c) ==
  /\ waiter[c] = "sawOffline"
  /\ CancelQueued(c, "host_agent_offline")
  /\ waiter' = [waiter EXCEPT ![c] = "offline"]

\* Raise HostAgentOffline only if the UPDATE did cancel the row, otherwise
\* sleep and poll on.
WaitOffline(c) ==
  /\ waiter[c] = "sawOffline"
  /\ CancelQueued(c, "host_agent_offline")
  /\ waiter' = [waiter EXCEPT ![c] = IF status[c] = "queued" THEN "offline" ELSE "polling"]

\* SELECT 1 ... AND status = 'running' AND lease_expires_at < now() - grace.
WaitSeesExpiry(c) ==
  /\ waiter[c] = "polling"
  /\ status[c] = "running"
  /\ lapsed[c]
  /\ waiter' = [waiter EXCEPT ![c] = "sawExpired"]
  /\ UNCHANGED <<rowVars, agent, leaseVars, taskVars>>

\* UPDATE ... SET status = 'failed' WHERE id = $1 AND status = 'running': it
\* names neither the worker nor the lease.
FailRunning(c, code) ==
  /\ IF status[c] = "running"
     THEN /\ status' = [status EXCEPT ![c] = "failed"]
          /\ errorCode' = [errorCode EXCEPT ![c] = code]
     ELSE UNCHANGED <<status, errorCode>>
  /\ waiter' = [waiter EXCEPT ![c] = "polling"]
  /\ UNCHANGED <<worker, lapsed, older, agent, leaseVars, taskVars>>

WaitFailExpired(c) ==
  /\ waiter[c] = "sawExpired"
  /\ FailRunning(c, "lease_expired")

\* Faulty variant: the deadline is a deadline for lapsed leases only.
WaitRunTimeoutIfLapsed(c) ==
  /\ waiter[c] = "polling"
  /\ status[c] = "running"
  /\ lapsed[c]
  /\ FailRunning(c, "wait_timeout")

\* The deadline (timeout_seconds + WAIT_EXTRA_MARGIN_SECONDS) passed.
WaitRunTimeout(c) ==
  /\ waiter[c] = "polling"
  /\ status[c] = "running"
  /\ FailRunning(c, "wait_timeout")

-----------------------------------------------------------------------------
(* Time *)

\* lease_expires_at plus the grace passes without a renewal.
LeaseLapses(c) ==
  /\ status[c] = "running"
  /\ ~lapsed[c]
  /\ lapsed' = [lapsed EXCEPT ![c] = TRUE]
  /\ UNCHANGED <<status, errorCode, worker, older, agent, leaseVars, taskVars, waiter>>

-----------------------------------------------------------------------------
(* The life of an agent process *)

StartAgent(a) ==
  /\ agent[a] = "off"
  /\ agent' = [agent EXCEPT ![a] = "up"]
  /\ UNCHANGED <<rowVars, leaseVars, taskVars, waiter>>

\* The transaction of a ends: its row lock and its advisory locks are released.
EndTransaction(a) ==
  /\ leasePc' = [leasePc EXCEPT ![a] = "idle"]
  /\ leaseCmd' = [leaseCmd EXCEPT ![a] = NoOne]
  /\ advisory' = [p \in Projects |-> IF advisory[p] = a THEN NoOne ELSE advisory[p]]

\* SIGTERM: the four loops are cancelled, commands in execution are awaited.
StopAgent(a) ==
  /\ agent[a] = "up"
  /\ agent' = [agent EXCEPT ![a] = "stopping"]
  /\ EndTransaction(a)
  /\ UNCHANGED <<rowVars, taskVars, waiter>>

\* What the end of the process takes with it: its tasks, and (the unit's
\* cgroup) the processes they started.  Rows keep the status they have.
DropTasks(a) ==
  /\ busy' = [busy EXCEPT ![a] = {}]
  /\ task' = [c \in Commands |-> IF worker[c] = a THEN "none" ELSE task[c]]
  /\ abort' = [c \in Commands |-> IF worker[c] = a THEN FALSE ELSE abort[c]]
  /\ outcome' = [c \in Commands |-> IF worker[c] = a THEN "none" ELSE outcome[c]]

\* End of the graceful stop: every task finished, or the grace ran out and the
\* remaining ones were cancelled; then mark_worker_stopped and exit.
ExitAgent(a) ==
  /\ agent[a] = "stopping"
  /\ agent' = [agent EXCEPT ![a] = "gone"]
  /\ DropTasks(a)
  /\ UNCHANGED <<rowVars, leaseVars, waiter>>

\* SIGKILL, power loss: nothing is marked and nothing is written.
CrashAgent(a) ==
  /\ agent[a] \in {"up", "stopping"}
  /\ agent' = [agent EXCEPT ![a] = "gone"]
  /\ DropTasks(a)
  /\ EndTransaction(a)
  /\ UNCHANGED <<rowVars, waiter>>

-----------------------------------------------------------------------------
(* lease_next_command *)

\* Faulty variant: the agent forgets what it is still doing itself.
EligibleIgnoringBusy(a, c) ==
  /\ status[c] = "queued"
  /\ ~RunningNextTo(c)
  /\ ~RowLocked(c)

\* The WHERE clause of the first SELECT and SKIP LOCKED.
Eligible(a, c) ==
  /\ status[c] = "queued"
  /\ Resources(c) \cap busy[a] = {}
  /\ ~RunningNextTo(c)
  /\ ~RowLocked(c)

\* ... ORDER BY created_at LIMIT 1 FOR UPDATE SKIP LOCKED.
LeaseSelect(a, c) ==
  /\ agent[a] = "up"
  /\ leasePc[a] = "idle"
  /\ Cardinality(Tasks(a)) < MaxParallel
  /\ Eligible(a, c)
  /\ \A d \in older[c] : ~Eligible(a, d)
  /\ leasePc' = [leasePc EXCEPT ![a] = "locking"]
  /\ leaseCmd' = [leaseCmd EXCEPT ![a] = c]
  /\ UNCHANGED <<rowVars, agent, advisory, taskVars, waiter>>

\* Faulty variant: only the column "project" is locked.
UnlockedTarget(a) == {p \in {Target[leaseCmd[a]]} : advisory[p] # a}

\* The resources the transaction has still to lock.
Unlocked(a) == {p \in Resources(leaseCmd[a]) : advisory[p] # a}

\* Faulty variant: the locks are taken in any order.
NextLockUnsorted(a, p) == p \in Unlocked(a)

\* The order the transaction takes its advisory locks in: sorted().
NextLock(a, p) == p \in Unlocked(a) /\ \A q \in Unlocked(a) : p <= q

\* pg_advisory_xact_lock on the next resource; it blocks while another holds it.
LeaseLock(a, p) ==
  /\ leasePc[a] = "locking"
  /\ NextLock(a, p)
  /\ advisory[p] = NoOne
  /\ advisory' = [advisory EXCEPT ![p] = a]
  /\ UNCHANGED <<rowVars, agent, leasePc, leaseCmd, taskVars, waiter>>

\* Faulty variant: trust the first SELECT.
LeaseWithoutRecheck(a) ==
  /\ leasePc[a] = "locking"
  /\ Unlocked(a) = {}
  /\ leasePc' = [leasePc EXCEPT ![a] = "clear"]
  /\ UNCHANGED <<rowVars, agent, leaseCmd, advisory, taskVars, waiter>>

\* With every lock held, look again for a running row: roll back if there is one.
LeaseRecheck(a) ==
  /\ leasePc[a] = "locking"
  /\ Unlocked(a) = {}
  /\ IF RunningNextTo(leaseCmd[a])
     THEN EndTransaction(a)
     ELSE /\ leasePc' = [leasePc EXCEPT ![a] = "clear"]
          /\ UNCHANGED <<leaseCmd, advisory>>
  /\ UNCHANGED <<rowVars, agent, taskVars, waiter>>

\* UPDATE ... SET status = 'running' ... RETURNING *, and COMMIT.
LeaseCommit(a) ==
  /\ leasePc[a] = "clear"
  /\ status[leaseCmd[a]] = "queued"
  /\ status' = [status EXCEPT ![leaseCmd[a]] = "running"]
  /\ worker' = [worker EXCEPT ![leaseCmd[a]] = a]
  /\ lapsed' = [lapsed EXCEPT ![leaseCmd[a]] = FALSE]
  /\ leasePc' = [leasePc EXCEPT ![a] = "leased"]
  /\ advisory' = [p \in Projects |-> IF advisory[p] = a THEN NoOne ELSE advisory[p]]
  /\ UNCHANGED <<errorCode, older, agent, leaseCmd, taskVars, waiter>>

\* The connection or the statement fails: before COMMIT the transaction rolls
\* back, after it the row stays leased by a worker that never learns of it.
LeaseFails(a) ==
  /\ leasePc[a] # "idle"
  /\ EndTransaction(a)
  /\ UNCHANGED <<rowVars, agent, taskVars, waiter>>

-----------------------------------------------------------------------------
(* _spawn_command, _execute_command and its heartbeat *)

SpawnCommand(a) ==
  /\ leasePc[a] = "leased"
  /\ busy' = [busy EXCEPT ![a] = @ \cup {Target[leaseCmd[a]]}]
  /\ task' = [task EXCEPT ![leaseCmd[a]] = "validating"]
  /\ leasePc' = [leasePc EXCEPT ![a] = "idle"]
  /\ leaseCmd' = [leaseCmd EXCEPT ![a] = NoOne]
  /\ UNCHANGED <<rowVars, agent, advisory, abort, outcome, waiter>>

\* The done callback: the task leaves _running_tasks, its project _busy_projects.
TaskDone(c) ==
  /\ task' = [task EXCEPT ![c] = "none"]
  /\ abort' = [abort EXCEPT ![c] = FALSE]
  /\ outcome' = [outcome EXCEPT ![c] = "none"]
  /\ busy' = [busy EXCEPT ![worker[c]] = @ \ {Target[c]}]

\* Faulty variant: the agent writes whatever the row says.
HoldsAnyRow(c) == status[c] # "absent"

\* WHERE id = $1 AND worker_id = $2 AND status = 'running', $2 the task's agent.
HoldsRow(c) == status[c] = "running"

\* _revalidate finds signature, age, arguments and authorisation in order.
StartHandler(c) ==
  /\ task[c] = "validating"
  /\ task' = [task EXCEPT ![c] = "executing"]
  /\ UNCHANGED <<rowVars, agent, leaseVars, busy, abort, outcome, waiter>>

\* reject_command.
RejectCommand(c) ==
  /\ task[c] = "validating"
  /\ IF HoldsRow(c)
     THEN /\ status' = [status EXCEPT ![c] = "failed"]
          /\ errorCode' = [errorCode EXCEPT ![c] = "reported"]
     ELSE UNCHANGED <<status, errorCode>>
  /\ TaskDone(c)
  /\ UNCHANGED <<worker, lapsed, older, agent, leaseVars, waiter>>

\* heartbeat_command: renew the lease, or learn that the row is no longer ours.
Heartbeat(c) ==
  /\ AtWork(c)
  /\ ~abort[c]
  /\ IF HoldsRow(c)
     THEN /\ lapsed' = [lapsed EXCEPT ![c] = FALSE]
          /\ UNCHANGED abort
     ELSE /\ abort' = [abort EXCEPT ![c] = TRUE]
          /\ UNCHANGED lapsed
  /\ UNCHANGED <<status, errorCode, worker, older, agent, leaseVars,
                 busy, task, outcome, waiter>>

\* Three heartbeats in a row failed in the database.
HeartbeatGivesUp(c) ==
  /\ AtWork(c)
  /\ ~abort[c]
  /\ abort' = [abort EXCEPT ![c] = TRUE]
  /\ UNCHANGED <<rowVars, agent, leaseVars, busy, task, outcome, waiter>>

\* run_process: SIGTERM to the process group when the handler's own timeout
\* passes or abort is set; the scripts roll back inside COMMAND_TERM_GRACE.
\* The container handlers (_container_action) have neither.
TerminateProcess(c) ==
  /\ task[c] = "executing"
  /\ task' = [task EXCEPT ![c] = "terminating"]
  /\ UNCHANGED <<rowVars, agent, leaseVars, busy, abort, outcome, waiter>>

\* Faulty variant: an aborted handler reports nothing.
HandlerEndsSilently(c, result) ==
  /\ AtWork(c)
  /\ task' = [task EXCEPT ![c] = "finishing"]
  /\ outcome' = [outcome EXCEPT ![c] = IF abort[c] THEN "none" ELSE result]
  /\ UNCHANGED <<rowVars, agent, leaseVars, busy, abort, waiter>>

\* The handler returns, with its process group dead; one that was terminated
\* or told to abort never counts as done.
HandlerEnds(c, result) ==
  /\ AtWork(c)
  /\ task' = [task EXCEPT ![c] = "finishing"]
  /\ outcome' = [outcome EXCEPT ![c] =
                   IF abort[c] \/ task[c] = "terminating" THEN "failed" ELSE result]
  /\ UNCHANGED <<rowVars, agent, leaseVars, busy, abort, waiter>>

\* finish_command; the task lives on for the container snapshot, and nothing
\* reads its abort flag or its outcome again.
FinishCommand(c) ==
  /\ task[c] = "finishing"
  /\ IF HoldsRow(c)
     THEN /\ status' = [status EXCEPT ![c] = outcome[c]]
          /\ errorCode' = [errorCode EXCEPT ![c] =
                             IF outcome[c] = "done" THEN "none" ELSE "reported"]
     ELSE UNCHANGED <<status, errorCode>>
  /\ task' = [task EXCEPT ![c] = "closing"]
  /\ abort' = [abort EXCEPT ![c] = FALSE]
  /\ outcome' = [outcome EXCEPT ![c] = "none"]
  /\ UNCHANGED <<worker, lapsed, older, agent, leaseVars, busy, waiter>>

CloseTask(c) ==
  /\ task[c] = "closing"
  /\ TaskDone(c)
  /\ UNCHANGED <<rowVars, agent, leaseVars, waiter>>

\* reject_command, finish_command or the reads of _revalidate raise: the task
\* ends and the row stays as it is.
TaskFails(c) ==
  /\ task[c] \in {"validating", "finishing"}
  /\ TaskDone(c)
  /\ UNCHANGED <<rowVars, agent, leaseVars, waiter>>

\* _lease_reaper_loop: one UPDATE over every row whose lease lapsed.
OwnLapsed(a) == {c \in Commands : status[c] = "running" /\ lapsed[c] /\ worker[c] = a}
\* Faulty variant: a worker reaps only the rows it leased itself.
ReapOwnLeases(a) ==
  /\ agent[a] = "up"
  /\ OwnLapsed(a) # {}
  /\ status' = [c \in Commands |-> IF c \in OwnLapsed(a) THEN "failed" ELSE status[c]]
  /\ errorCode' = [c \in Commands |-> IF c \in OwnLapsed(a) THEN "lease_expired" ELSE errorCode[c]]
  /\ UNCHANGED <<worker, lapsed, older, agent, leaseVars, taskVars, waiter>>

Lapsed == {c \in Commands : status[c] = "running" /\ lapsed[c]}
ReapLeases(a) ==
  /\ agent[a] = "up"
  /\ Lapsed # {}
  /\ status' = [c \in Commands |-> IF c \in Lapsed THEN "failed" ELSE status[c]]
  /\ errorCode' = [c \in Commands |-> IF c \in Lapsed THEN "lease_expired" ELSE errorCode[c]]
  /\ UNCHANGED <<worker, lapsed, older, agent, leaseVars, taskVars, waiter>>

-----------------------------------------------------------------------------
WaitStep(c) == \/ WaitReturns(c) \/ WaitQueueTimeout(c) \/ WaitSeesOffline(c) \/ WaitOffline(c)
               \/ WaitSeesExpiry(c) \/ WaitFailExpired(c) \/ WaitRunTimeout(c)

LeaseStep(a) == \/ \E c \in Commands : LeaseSelect(a, c)
                \/ \E p \in Projects : LeaseLock(a, p)
                \/ LeaseRecheck(a) \/ LeaseCommit(a) \/ SpawnCommand(a)

ProcessStep(a) == \/ StartAgent(a) \/ StopAgent(a) \/ ExitAgent(a) \/ CrashAgent(a)

TaskStep(c) == \/ StartHandler(c) \/ RejectCommand(c) \/ Heartbeat(c) \/ TerminateProcess(c)
               \/ (\E result \in {"done", "failed"} : HandlerEnds(c, result))
               \/ FinishCommand(c) \/ CloseTask(c)

TaskFault(c) == HeartbeatGivesUp(c) \/ TaskFails(c)

Next == \/ \E c \in Commands : SubmitCommand(c) \/ Reattach(c) \/ WaitStep(c)
                               \/ LeaseLapses(c) \/ TaskStep(c) \/ TaskFault(c)
        \/ \E a \in Agents : ProcessStep(a) \/ LeaseStep(a) \/ LeaseFails(a) \/ ReapLeases(a)
        \/ ApiRestart

Spec == Init /\ [][Next]_vars

\* The loops of the agents and of the waiting coroutines keep turning, and time
\* passes: the lease of a row nobody works on lapses.  A cancellation that waits
\* for a row lock is next in line when the lease transaction ends, even if lease
\* transactions keep failing: strong fairness.  Nothing is assumed of handlers,
\* of restarts, or of faults.
Fairness ==
  /\ \A c \in Commands :
       /\ WF_vars(WaitReturns(c)) /\ SF_vars(WaitQueueTimeout(c)) /\ SF_vars(WaitOffline(c))
       /\ WF_vars(WaitFailExpired(c)) /\ WF_vars(WaitRunTimeout(c))
       /\ WF_vars(task[c] = "none" /\ LeaseLapses(c)) /\ WF_vars(Heartbeat(c))
  /\ \A a \in Agents :
       /\ WF_vars(\E p \in Projects : LeaseLock(a, p)) /\ WF_vars(LeaseRecheck(a))
       /\ WF_vars(LeaseCommit(a)) /\ WF_vars(ReapLeases(a))

FairSpec == Spec /\ Fairness

-----------------------------------------------------------------------------
(* Properties *)

TypeOK ==
  /\ status \in [Commands -> Status]
  /\ errorCode \in [Commands -> ErrorCode]
  /\ worker \in [Commands -> Agents \cup {NoOne}]
  /\ lapsed \in [Commands -> BOOLEAN]
  /\ older \in [Commands -> SUBSET Commands]
  /\ agent \in [Agents -> {"off", "up", "stopping", "gone"}]
  /\ busy \in [Agents -> SUBSET Projects]
  /\ leasePc \in [Agents -> {"idle", "locking", "clear", "leased"}]
  /\ leaseCmd \in [Agents -> Commands \cup {NoOne}]
  /\ \A a \in Agents : leasePc[a] # "idle" => leaseCmd[a] # NoOne
  /\ advisory \in [Projects -> Agents \cup {NoOne}]
  /\ task \in [Commands -> {"none", "validating", "executing", "terminating",
                          "finishing", "closing"}]
  /\ abort \in [Commands -> BOOLEAN]
  /\ outcome \in [Commands -> {"none", "done", "failed"}]
  /\ \A c \in Commands : task[c] = "finishing" => outcome[c] # "none"
  /\ waiter \in [Commands -> {"none", "polling", "sawOffline", "sawExpired", "returned", "offline"}]

\* Two running rows never share a project, whether as target or as the source
\* of a duplication: the serialisation lease_next_command exists for.
RunningExclusive ==
  \A c, d \in Commands :
    c # d /\ status[c] = "running" /\ status[d] = "running" => ~Overlap(c, d)

\* A cancelled intent was never leased and no agent ever worked on it, whoever
\* raced the waiter's cancellation.
CancelledNeverLeased ==
  \A c \in Commands : status[c] = "cancelled" => worker[c] = NoOne /\ task[c] = "none"

\* When a job is told that the host-agent is offline (HostAgentOffline), its
\* intent has been withdrawn for that reason and can no longer run.
OfflineMeansWithdrawn ==
  \A c \in Commands :
    waiter[c] = "offline" => status[c] = "cancelled" /\ errorCode[c] = "host_agent_offline"

\* One agent process never works on two commands of one project, not even when
\* the row of the first was failed under it: _busy_projects outlives the row.
AgentSerialisesTarget ==
  \A c, d \in Commands :
    c # d /\ task[c] # "none" /\ task[d] # "none" /\ worker[c] = worker[d]
      => Target[c] # Target[d]

\* a waits for an advisory lock that b holds.
WaitsFor(a, b) ==
  leasePc[a] = "locking" /\ \E p \in Projects : NextLock(a, p) /\ advisory[p] = b

\* Lease transactions never wait for each other, because each takes the locks
\* of its resources in the same order.
NoLockCycle == \A a, b \in Agents : a # b /\ WaitsFor(a, b) => ~WaitsFor(b, a)

\* A final row is never written again: neither a late result, a late
\* rejection, a reaper nor a waiter replaces what a job may have read.
FinalIsFinal ==
  [][\A c \in Commands : status[c] \in Final =>
       status'[c] = status[c] /\ errorCode'[c] = errorCode[c]]_vars

\* The rows implement the lifecycle the jobs rely on.
Lifecycle == INSTANCE CommandLifecycle
LifecycleSpec == Lifecycle!Spec

\* "Fail-closed ... quando o lease expira sem heartbeat (agent morto no meio da
\* execucao)": a row fails with lease_expired only while its lease is lapsed.
ExpiredOnlyIfLapsed ==
  [][\A c \in Commands :
       errorCode[c] # "lease_expired" /\ errorCode'[c] = "lease_expired" => lapsed[c]]_vars

\* "Pula projetos com comando em execucao (local ou remoto) para manter a
\* serializacao por projeto": two handlers at work never share a project.
HandlersExclusive ==
  \A c, d \in Commands :
    c # d /\ AtWork(c) /\ AtWork(d) => ~Overlap(c, d)

\* wait_command has a ceiling ("para a espera nunca ficar sem teto") whatever
\* the agent does: the job gets a final row, or its API process is gone.
WaitEnds == \A c \in Commands :
  waiter[c] = "polling" ~> waiter[c] \in {"returned", "offline", "none"}

\* A handler at work on a row that was failed under it is told to abort.
ZombieIsTold == \A c \in Commands :
  AtWork(c) /\ status[c] \in Final ~> abort[c] \/ ~AtWork(c)

\* A running row that no task works on (its agent died, or never learnt that it
\* holds the lease) is failed, as long as some agent is up.
OrphanIsReaped == \A c \in Commands :
  status[c] = "running" /\ task[c] = "none"
    ~> status[c] \in Final \/ task[c] # "none" \/ \A a \in Agents : agent[a] # "up"
=============================================================================
