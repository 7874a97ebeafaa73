--------------------------- MODULE ProjectDeletion ---------------------------
(***************************************************************************)
(* Deletion of a project, next to the jobs on its restore points.  The     *)
(* runner removes what the project occupies one place after another, goes  *)
(* on after a failure, and removes the control-plane row only when nothing *)
(* failed.                                                                 *)
(***************************************************************************)
EXTENDS RestorePoints

Deletions == {j \in Jobs : Action[j] = "delete"}

\* What a project occupies besides its row and its files.
Holdings == {"delete_project_containers", "delete_project_storage", "tenants",
             "metadata", "database"}

VARIABLES
  held,    \* the holdings that are still there
  errors   \* [Jobs -> BOOLEAN]: the runner's list of errors is not empty

deletionVars == <<held, errors>>

DeletionInit ==
  /\ held = Holdings
  /\ errors = [j \in Jobs |-> FALSE]

\* The steps of _delete_project_impl in their order; a step is the place of pc.
Steps == <<"delete_project_containers", "delete_project_storage", "tenants", "metadata",
           "database", "delete_project_files", "row", "verify">>
StepOf(j) == CHOOSE n \in DOMAIN Steps : Steps[n] = pc[j]
Onward(j) == Goto(j, Steps[StepOf(j) + 1])
HostSteps == CommandsOf("delete")

DeletionTypeOK ==
  /\ held \subseteq Holdings
  /\ errors \in [Jobs -> BOOLEAN]

-----------------------------------------------------------------------------

\* The endpoint does not look at other jobs; a second deletion may be accepted.
AcceptDeletion(j) ==
  /\ j \in Deletions
  /\ AcceptJob(j)
  /\ UNCHANGED <<pointVars, deletionVars>>

\* enqueue_project_action raises; this endpoint has nothing to compensate.
DeletionNotQueued(j) ==
  /\ j \in Deletions
  /\ pc[j] = "compensate"
  /\ Goto(j, "none")
  /\ UNCHANGED <<still, project, job, queue, command, api, troubles, pointVars, deletionVars>>

\* load_project_environment and the three copies of the tenant UUID; the list of
\* errors is empty in every run of the runner.
DeletionBegins(j) ==
  /\ j \in Deletions
  /\ pc[j] = "begin"
  /\ Settle(j, "running")
  /\ errors' = [errors EXCEPT ![j] = FALSE]
  /\ IF files /\ project
     THEN Goto(j, Steps[1])
     ELSE Goto(j, "fail")
  /\ UNCHANGED <<still, project, queue, command, api, troubles, pointVars, held>>

DeletionSubmits(j) ==
  /\ j \in Deletions
  /\ pc[j] \in HostSteps
  /\ command[<<j, pc[j]>>] = "absent"
  /\ Host!Accept(<<j, pc[j]>>)
  /\ UNCHANGED <<still, project, job, pc, queue, api, troubles, pointVars, deletionVars>>

\* The intent ended: whatever its result, the next step follows.
DeletionNotes(j) ==
  /\ j \in Deletions
  /\ pc[j] \in HostSteps
  /\ Ended(<<j, pc[j]>>)
  /\ errors' = [errors EXCEPT ![j] = @ \/ command[<<j, pc[j]>>] # "done"]
  /\ Onward(j)
  /\ UNCHANGED <<still, project, job, queue, command, api, troubles, pointVars, held>>

\* Tenants of Realtime and Supavisor, their rows, slots and database: done here.
DeletionCleans(j) ==
  /\ j \in Deletions
  /\ pc[j] \in Holdings \ HostSteps
  /\ \/ held' = held \ {pc[j]} /\ UNCHANGED <<errors, troubles>>
     \/ Trouble /\ errors' = [errors EXCEPT ![j] = TRUE] /\ UNCHANGED held
  /\ Onward(j)
  /\ UNCHANGED <<still, project, job, queue, command, api, pointVars>>

\* Faulty variant: only the last step is looked at.
CompleteFiles(j) == command[<<j, "delete_project_files">>] = "done"

\* if errors: raise
Complete(j) == ~errors[j]

\* The control-plane row goes, and by cascade the rows of its restore points.
DeletionRemovesRow(j) ==
  /\ j \in Deletions
  /\ pc[j] = "row"
  /\ IF Complete(j) /\ project
     THEN /\ project' = FALSE
          /\ point' = [p \in Points |-> "absent"]
          /\ Onward(j)
     ELSE Goto(j, "fail") /\ UNCHANGED <<still, project, point>>
  /\ UNCHANGED <<still, job, queue, command, api, troubles, wasFailed, dir, content, data,
                 script, report, replaced, stuckScript, deletionVars>>

DeletionVerifies(j) ==
  /\ j \in Deletions
  /\ pc[j] = "verify"
  /\ IF {"database", "metadata"} \cap held = {}
     THEN Settle(j, "done") /\ Goto(j, "none")
     ELSE Goto(j, "fail") /\ UNCHANGED job
  /\ UNCHANGED <<still, project, queue, command, api, troubles, pointVars, deletionVars>>

DeletionRaises(j) ==
  /\ j \in Deletions
  /\ pc[j] \in {"begin", "row", "verify"} \cup HostSteps
  /\ Trouble
  /\ Goto(j, "fail")
  /\ UNCHANGED <<still, project, job, queue, command, api, pointVars, deletionVars>>

DeletionFails(j) ==
  /\ j \in Deletions
  /\ pc[j] = "fail"
  /\ Settle(j, "failed")
  /\ Goto(j, "none")
  /\ UNCHANGED <<still, project, queue, command, api, troubles, pointVars, deletionVars>>

-----------------------------------------------------------------------------
(* The three host handlers.                                                *)

\* Storage needs the project's directory; the files wait for the containers to
\* be gone, and take the backups with them.
DeleteHostDone(j, c) ==
  /\ Running(j, c) /\ c \in HostSteps
  /\ c = "delete_project_storage" => files
  /\ c = "delete_project_files" => "delete_project_containers" \notin held
  /\ held' = held \ {c}
  /\ files' = (files /\ c # "delete_project_files")
  /\ IF c = "delete_project_files"
     THEN \/ dir' = [p \in Points |-> "none"] /\ UNCHANGED troubles
          \/ \* rmtree leaves something: the handler only notes it
             Trouble /\ dir' = [p \in Points |-> IF dir[p] = "none" THEN "none" ELSE "partial"]
     ELSE UNCHANGED <<dir, troubles>>
  /\ Host!Succeed(<<j, c>>)
  /\ UNCHANGED <<requests, restarted, project, job, pc, queue, api, point, wasFailed, content, data, script,
                 report, replaced, stuckScript, errors>>

\* A handler that was let in and fails may have done its work.
MayHaveRun(c) ==
  \/ UNCHANGED <<held, files>>
  \/ held' = held \ {c} /\ files' = (files /\ c # "delete_project_files")

Refused(c) == \/ c = "delete_project_storage" /\ ~files
              \/ c = "delete_project_files" /\ "delete_project_containers" \in held

DeleteHostFails(j, c) ==
  /\ Running(j, c) /\ c \in HostSteps
  /\ IF Refused(c) THEN UNCHANGED <<troubles, held, files>> ELSE Trouble /\ MayHaveRun(c)
  /\ Host!Fail({<<j, c>>})
  /\ UNCHANGED <<requests, restarted, project, job, pc, queue, api, pointVars, errors>>

\* The agent dies under a handler, whose work is done or not.
DeleteHostLost(j, c) ==
  /\ <<j, c>> \in Intents /\ c \in HostSteps
  /\ HostLost(<<j, c>>)
  /\ IF Refused(c) THEN UNCHANGED <<held, files>> ELSE MayHaveRun(c)
  /\ UNCHANGED <<pointVars, errors>>
=============================================================================
