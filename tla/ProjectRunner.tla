---------------------------- MODULE ProjectRunner ----------------------------
(***************************************************************************)
(* What every operation on a project has in common: an endpoint commits a  *)
(* job and queues it, the project's worker takes one job at a time in      *)
(* order, the intent of a job is found again instead of being repeated, a  *)
(* restart of the API resumes a job or fails it.  ProjectJobs models the   *)
(* locks and the pool behind this.  The modules of single operations       *)
(* extend this one with the state they work on.                            *)
(***************************************************************************)
EXTENDS Naturals, Sequences, FiniteSets

CONSTANTS Jobs,
          Action,      \* [Jobs -> Actions]: jobs.action
          Requests,    \* sets of jobs the users of one behaviour ask for
          MaxTroubles  \* [Requests -> Nat]: bound on crashes, failed statements and
                       \* steps, lost agents

Actions == {"backup", "restore", "delete_restore_point", "delete", "rename", "rotate_key",
            "start", "stop", "restart", "recreate_services"}

\* The host command a runner submits, once per job; a deletion submits three.
CommandOf(action) ==
  CASE action = "backup"     -> "backup_project"
    [] action = "restore"    -> "restore_project"
    [] action = "rename"     -> "rename_project"
    [] action = "rotate_key" -> "rotate_keys"
    [] action = "start"      -> "start_project"
    [] action = "stop"       -> "stop_project"
    [] action = "restart"    -> "restart_project"
    [] OTHER -> action
CommandsOf(action) ==
  IF action = "delete"
  THEN {"delete_project_containers", "delete_project_storage", "delete_project_files"}
  ELSE {CommandOf(action)}

ASSUME RunnerAssumption ==
  /\ Action \in [Jobs -> Actions]
  /\ Requests \subseteq SUBSET Jobs
  /\ MaxTroubles \in [Requests -> Nat]

VARIABLES
  requests, \* the jobs the users ask for
  project,  \* the project has its row in projects
  files,    \* the project has its directory, with the .env
  job,      \* jobs.status, "absent" before the INSERT
  pc,       \* where the coroutine that handles the job is
  queue,    \* the project's deque of jobs
  command,  \* host_agent_commands.status
  api,      \* the API process
  restarted, \* it has crashed before
  troubles

still == <<requests, files, restarted>>
runnerVars == <<requests, project, files, job, pc, queue, command, api, restarted, troubles>>

Intents == {i \in Jobs \X UNION {CommandsOf(a) : a \in Actions} :
              i[2] \in CommandsOf(Action[i[1]])}
The(j) == <<j, CommandOf(Action[j])>>
IntentResources(i) == {"project"}
Host == INSTANCE CommandLifecycle
          WITH Commands <- Intents, Projects <- {"project"},
               Resources <- IntentResources, status <- command

JobFinal == {"done", "failed"}
Resting  == {"none", "accepted", "compensate", "waiting"}
Working  == {j \in Jobs : pc[j] \notin Resting}

Goto(j, place) == pc' = [pc EXCEPT ![j] = place]
Settle(j, status) == job' = [job EXCEPT ![j] = status]
Trouble == troubles < MaxTroubles[requests] /\ troubles' = troubles + 1

RunnerInit ==
  /\ requests \in Requests
  /\ project = TRUE
  /\ files = TRUE
  /\ job = [j \in Jobs |-> "absent"]
  /\ pc = [j \in Jobs |-> "none"]
  /\ queue = <<>>
  /\ command = [i \in Intents |-> "absent"]
  /\ api = "up"
  /\ restarted = FALSE
  /\ troubles = 0

\* Types of the shared variables; places are those of the runners, of which one works
\* at a time.
RunnerTypeOK(Places) ==
  /\ requests \in Requests
  /\ {project, files} \subseteq BOOLEAN
  /\ job \in [Jobs -> {"absent", "queued", "running"} \cup JobFinal]
  /\ pc \in [Jobs -> Resting \cup {"begin"} \cup Places]
  /\ Cardinality(Working) <= 1
  /\ queue \in Seq(Jobs)
  /\ command \in [Intents -> Host!Status]
  /\ api \in {"up", "down", "recovering"}
  /\ restarted \in BOOLEAN
  /\ troubles \in 0 .. MaxTroubles[requests]

-----------------------------------------------------------------------------
(* The endpoint, the queue and the worker.  What they do to the rows of an *)
(* operation is added by its module.                                       *)

\* The endpoint's transaction: the job and the rows that go with it.
AcceptJob(j) ==
  /\ j \in requests
  /\ api = "up"
  /\ project
  /\ job[j] = "absent"
  /\ Settle(j, "queued")
  /\ Goto(j, "accepted")
  /\ UNCHANGED <<still, project, queue, command, api, troubles>>

\* enqueue_project_action after that transaction.
Enqueue(j) ==
  /\ pc[j] = "accepted"
  /\ project
  /\ Goto(j, "waiting")
  /\ queue' = Append(queue, j)
  /\ UNCHANGED <<still, project, job, command, api, troubles>>

\* It raises: the project is gone, or a statement failed.  The job is failed;
\* the endpoint then compensates its rows, the recovery loop does not.
EnqueueFails(j) ==
  /\ pc[j] = "accepted"
  /\ IF project THEN Trouble ELSE UNCHANGED troubles
  /\ Settle(j, "failed")
  /\ Goto(j, IF api = "up" THEN "compensate" ELSE "none")
  /\ UNCHANGED <<still, project, queue, command, api>>

\* Faulty variant: a runner is started for every job.
WorkerFreeAlways == TRUE

WorkerFree == Working = {}

TakeJob(j) ==
  /\ queue # <<>> /\ j = Head(queue)
  /\ WorkerFree
  /\ queue' = Tail(queue)
  /\ Goto(j, "begin")
  /\ UNCHANGED <<still, project, job, command, api, troubles>>

-----------------------------------------------------------------------------
(* run_command_for_job *)

\* Submit the intent, or find the one of an earlier run of the job, final or not
\* (reuse_terminal).
AttachIntent(i) ==
  IF command[i] = "absent" THEN Host!Accept(i) ELSE UNCHANGED command

Ended(i) == command[i] \in Host!Final

\* The waiter withdraws an intent nobody leases.
WithdrawIntent(i) ==
  /\ pc[i[1]] \notin Resting
  /\ Host!Withdraw(i)
  /\ UNCHANGED <<still, project, job, pc, queue, api, troubles>>

HostBegins(i) ==
  /\ Host!Begin(i)
  /\ UNCHANGED <<still, project, job, pc, queue, api, troubles>>

\* The row is failed from outside the handler, which reports nothing: the agent
\* is gone and its lease has lapsed.  Its work may have removed the files.
HostLost(i) ==
  /\ Trouble
  /\ Host!Fail({i})
  /\ UNCHANGED <<requests, restarted, project, job, pc, queue, api>>

-----------------------------------------------------------------------------
(* Restart and recovery *)

ApiStops ==
  /\ api # "down"
  /\ Trouble
  /\ api' = "down"
  /\ restarted' = TRUE
  /\ pc' = [j \in Jobs |-> "none"]
  /\ queue' = <<>>
  /\ UNCHANGED <<requests, files, project, job, command>>

ApiStarts ==
  /\ api = "down"
  /\ api' = "recovering"
  /\ UNCHANGED <<still, project, job, pc, queue, command, troubles>>

Unrecovered == {j \in Jobs : job[j] \in {"queued", "running"} /\ pc[j] = "none"}

\* can_resume: what never started, and every action but a deletion.
Resumes(j) == job[j] = "queued" \/ Action[j] # "delete"

\* One turn of the loop; the order of updated_at is left open.
RecoverJob(j) ==
  /\ api = "recovering"
  /\ j \in Unrecovered
  /\ \A k \in Jobs : pc[k] # "accepted"
  /\ IF Resumes(j)
     THEN Settle(j, "queued") /\ Goto(j, "accepted")
     ELSE Settle(j, "failed") /\ UNCHANGED pc
  /\ UNCHANGED <<still, project, queue, command, api, troubles>>

Serve ==
  /\ api = "recovering"
  /\ Unrecovered = {}
  /\ \A k \in Jobs : pc[k] # "accepted"
  /\ api' = "up"
  /\ UNCHANGED <<still, project, job, pc, queue, command, troubles>>
=============================================================================
