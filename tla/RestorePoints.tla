---------------------------- MODULE RestorePoints ----------------------------
(***************************************************************************)
(* Restore points of a project: the rows of project_restore_points, the    *)
(* directories the host scripts write under backups/, and the three jobs   *)
(* that keep the two together: backup, restore and delete_restore_point.   *)
(* A restore takes a safety point of the data it replaces.                 *)
(***************************************************************************)
EXTENDS ProjectRunner

CONSTANTS Points,
          Target,    \* [Jobs -> Points \cup {"none"}]: payload.restore_point_id
          Safety,    \* [Jobs -> Points \cup {"none"}]: payload.safety_point_id
          PointLimit, \* RESTORE_POINT_LIMIT
          Versions,  \* contents of the project's database and storage
          FirstVersion

PointJobs == {j \in Jobs : Action[j] \in {"backup", "restore", "delete_restore_point"}}
Restores  == {j \in Jobs : Action[j] = "restore"}

ASSUME PointsAssumption ==
  /\ Target \in [Jobs -> Points \cup {"none"}]
  /\ Safety \in [Jobs -> Points \cup {"none"}]
  /\ \A j \in PointJobs : Target[j] \in Points
  /\ \A j \in Restores : Safety[j] \in Points \ {Target[j]}
  /\ \* the endpoints name what they insert with a uuid4
     \A j \in Restores, k \in PointJobs :
       (k # j /\ Action[k] = "restore" => Safety[k] # Safety[j])
       /\ (Action[k] = "backup" => Target[k] # Safety[j])
  /\ PointLimit \in Nat
  /\ FirstVersion \in Versions

VARIABLES
  point,    \* project_restore_points.status, "absent" without the row
  wasFailed, \* [Jobs -> BOOLEAN]: previous_status of a deletion was failed
  dir,      \* the point's directory: it appears complete, by one mv
  content,  \* what a directory holds
  data,     \* what the project holds
  script,   \* how far the script of a restore is
  report,   \* [Jobs -> BOOLEAN]: safety_backup_completed of the result
  replaced, \* [Jobs -> Versions]: the data a restore replaced (for the properties)
  stuckScript \* a restore was cut off: its leftovers stop the next one

hostVars  == <<dir, content, data, script, report, replaced, stuckScript>>
pointVars == <<point, wasFailed, hostVars>>

PointsInit ==
  /\ point = [p \in Points |-> "absent"]
  /\ wasFailed = [j \in Jobs |-> FALSE]
  /\ dir = [p \in Points |-> "none"]
  /\ content = [p \in Points |-> FirstVersion]
  /\ data = FirstVersion
  /\ script = [j \in Jobs |-> "idle"]
  /\ report = [j \in Jobs |-> FALSE]
  /\ replaced = [j \in Jobs |-> FirstVersion]
  /\ stuckScript = FALSE

PointStatus == {"absent", "creating", "ready", "restoring", "deleting", "failed"}
PointPlaces == {"wait", "settle", "finish", "except", "fail"}

PointsTypeOK ==
  /\ point \in [Points -> PointStatus]
  /\ wasFailed \in [Jobs -> BOOLEAN]
  /\ dir \in [Points -> {"none", "partial", "complete"}]
  /\ content \in [Points -> Versions]
  /\ data \in Versions
  /\ script \in [Jobs -> {"idle", "stopped", "saved", "swapped"}]
  /\ report \in [Jobs -> BOOLEAN]
  /\ replaced \in [Jobs -> Versions]
  /\ stuckScript \in BOOLEAN

\* UPDATE ... SET status WHERE id = p: nothing when the row is gone.
SetPoint(p, status) ==
  point' = [point EXCEPT ![p] = IF @ = "absent" THEN @ ELSE status]

-----------------------------------------------------------------------------
(* Endpoints *)

\* _count_active_restore_points
ActivePoints == {p \in Points : point[p] \notin {"absent", "failed"}}
BelowLimit == Cardinality(ActivePoints) < PointLimit

AcceptBackup(j) ==
  /\ Action[j] = "backup"
  /\ point[Target[j]] = "absent" /\ dir[Target[j]] = "none"
  /\ BelowLimit
  /\ AcceptJob(j)
  /\ point' = [point EXCEPT ![Target[j]] = "creating"]
  /\ UNCHANGED <<wasFailed, hostVars>>

AcceptRestore(j) ==
  /\ Action[j] = "restore"
  /\ point[Target[j]] = "ready"
  /\ point[Safety[j]] = "absent" /\ dir[Safety[j]] = "none"
  /\ BelowLimit
  /\ AcceptJob(j)
  /\ point' = [point EXCEPT ![Target[j]] = "restoring", ![Safety[j]] = "creating"]
  /\ UNCHANGED <<wasFailed, hostVars>>

AcceptDeletePoint(j) ==
  /\ Action[j] = "delete_restore_point"
  /\ point[Target[j]] \in {"ready", "failed"}
  /\ AcceptJob(j)
  /\ wasFailed' = [wasFailed EXCEPT ![j] = point[Target[j]] = "failed"]
  /\ point' = [point EXCEPT ![Target[j]] = "deleting"]
  /\ UNCHANGED hostVars

\* Faulty variant: only what the endpoint inserted is compensated.
RowsCompensatedCreating(j) ==
  [p \in Points |->
     IF p \in {Target[j], Safety[j]} /\ point[p] = "creating" THEN "failed" ELSE point[p]]

\* What an endpoint does after enqueue_project_action raised: each row only from
\* the status the endpoint had given it.
RowsCompensated(j) ==
  [p \in Points |->
     CASE p = Target[j] /\ point[p] = "creating" /\ Action[j] = "backup" -> "failed"
       [] p = Safety[j] /\ point[p] = "creating" /\ Action[j] = "restore" -> "failed"
       [] p = Target[j] /\ point[p] = "restoring" /\ Action[j] = "restore" -> "ready"
       [] p = Target[j] /\ point[p] = "deleting" /\ Action[j] = "delete_restore_point"
            -> IF wasFailed[j] THEN "failed" ELSE "ready"
       [] OTHER -> point[p]]

CompensateRows(j) ==
  /\ j \in PointJobs
  /\ pc[j] = "compensate"
  /\ point' = RowsCompensated(j)
  /\ Goto(j, "none")
  /\ UNCHANGED <<still, project, job, queue, command, api, troubles, wasFailed, hostVars>>

-----------------------------------------------------------------------------
(* Runners: _create_restore_point_background, _restore_project_background, *)
(* _delete_restore_point_background                                        *)

RunnerBegins(j) ==
  /\ j \in PointJobs
  /\ pc[j] = "begin"
  /\ project
  /\ Settle(j, "running")
  /\ AttachIntent(The(j))
  /\ Goto(j, "wait")
  /\ UNCHANGED <<still, project, queue, api, troubles, pointVars>>

\* A statement fails, or the project is gone: whatever of the runner is left is
\* skipped, also while the intent runs.
RunnerRaises(j) ==
  /\ j \in PointJobs
  /\ pc[j] \in {"begin", "wait", "settle", "finish"}
  /\ IF pc[j] = "begin" /\ ~project THEN UNCHANGED troubles ELSE Trouble
  /\ Goto(j, "except")
  /\ UNCHANGED <<still, project, job, queue, command, api, pointVars>>

\* Faulty variant: the point is usable when the intent ended.
RowsSettledByEnd(j) ==
  IF Action[j] = "backup" THEN SetPoint(Target[j], "ready")
  ELSE point' = [point EXCEPT ![Target[j]] = "absent"]

\* The rows follow the result of the intent, whatever status they have now.
RowsSettled(j) ==
  IF Action[j] = "backup"
  THEN SetPoint(Target[j], IF command[The(j)] = "done" THEN "ready" ELSE "failed")
  ELSE IF command[The(j)] = "done"
       THEN point' = [point EXCEPT ![Target[j]] = "absent"]
       ELSE SetPoint(Target[j], "failed")

SettleRows(j) ==
  /\ j \in PointJobs \ Restores
  /\ pc[j] = "wait"
  /\ Ended(The(j))
  /\ RowsSettled(j)
  /\ Goto(j, "finish")
  /\ UNCHANGED <<still, project, job, queue, command, api, troubles, wasFailed, hostVars>>

\* The safety point stays when the script said it was complete, whatever came then.
SettleSafety(j) ==
  /\ j \in Restores
  /\ pc[j] = "wait"
  /\ Ended(The(j))
  /\ IF report[j] THEN SetPoint(Safety[j], "ready")
     ELSE point' = [point EXCEPT ![Safety[j]] = "absent"]
  /\ Goto(j, "settle")
  /\ UNCHANGED <<still, project, job, queue, command, api, troubles, wasFailed, hostVars>>

SettleTarget(j) ==
  /\ j \in Restores
  /\ pc[j] = "settle"
  /\ SetPoint(Target[j], "ready")
  /\ Goto(j, "finish")
  /\ UNCHANGED <<still, project, job, queue, command, api, troubles, wasFailed, hostVars>>

FinishJob(j) ==
  /\ j \in PointJobs
  /\ pc[j] = "finish"
  /\ Settle(j, IF command[The(j)] = "done" THEN "done" ELSE "failed")
  /\ Goto(j, "none")
  /\ UNCHANGED <<still, project, queue, command, api, troubles, pointVars>>

\* Faulty variant: a point that exists is set whatever its status.
RowsExceptUnguarded(j) ==
  [p \in Points |-> IF p = Target[j] /\ point[p] # "absent"
                    THEN IF Action[j] = "restore" THEN "ready" ELSE "failed"
                    ELSE IF p = Safety[j] /\ point[p] = "creating" THEN "failed"
                    ELSE point[p]]

\* except Exception: each row only from the status the job had given it.
RowsExcept(j) ==
  [p \in Points |->
     CASE p = Safety[j] /\ Action[j] = "restore" /\ point[p] = "creating" -> "failed"
       [] p = Target[j] /\ Action[j] = "restore" /\ point[p] = "restoring" -> "ready"
       [] p = Target[j] /\ Action[j] = "backup" /\ point[p] = "creating" -> "failed"
       [] p = Target[j] /\ Action[j] = "delete_restore_point" /\ point[p] = "deleting"
            -> "failed"
       [] OTHER -> point[p]]

\* A second failure is swallowed.
ExceptRows(j) ==
  /\ j \in PointJobs
  /\ pc[j] = "except"
  /\ \/ point' = RowsExcept(j) /\ UNCHANGED troubles
     \/ Trouble /\ UNCHANGED point
  /\ Goto(j, "fail")
  /\ UNCHANGED <<still, project, job, queue, command, api, wasFailed, hostVars>>

FailJob(j) ==
  /\ j \in PointJobs
  /\ pc[j] = "fail"
  /\ Settle(j, "failed")
  /\ Goto(j, "none")
  /\ UNCHANGED <<still, project, queue, command, api, troubles, pointVars>>

-----------------------------------------------------------------------------
(* Host handlers of the three commands.                                    *)

Running(j, c) == <<j, c>> \in Intents /\ command[<<j, c>>] = "running"

\* Faulty variant: the services are stopped for the swap only.
ServingWhileSaving == ~stuckScript /\ \A j \in Jobs : script[j] # "swapped"

Serving == ~stuckScript /\ \A j \in Jobs : script[j] = "idle"

\* The users of the project write while its services run.
Write ==
  /\ files
  /\ Serving
  /\ data' \in Versions \ {data}
  /\ UNCHANGED <<runnerVars, point, wasFailed, dir, content, script, report,
                 replaced, stuckScript>>

\* handle_backup_project: the capture is moved into place as the script's last step.
BackupDone(j) ==
  /\ Running(j, "backup_project")
  /\ files
  /\ dir[Target[j]] = "none"
  /\ dir' = [dir EXCEPT ![Target[j]] = "complete"]
  /\ content' = [content EXCEPT ![Target[j]] = data]
  /\ Host!Succeed(The(j))
  /\ UNCHANGED <<still, project, job, pc, queue, api, troubles, point, wasFailed, data,
                 script, report, replaced, stuckScript>>

\* restore_project.sh, in the order of its steps: stop the services, capture the
\* safety point, swap database and storage, start again.
RestoreStops(j) ==
  /\ Running(j, "restore_project")
  /\ script[j] = "idle"
  /\ files
  /\ dir[Target[j]] = "complete" /\ dir[Safety[j]] = "none"
  /\ ~stuckScript
  /\ script' = [script EXCEPT ![j] = "stopped"]
  /\ UNCHANGED <<runnerVars, point, wasFailed, dir, content, data, report,
                 replaced, stuckScript>>

RestoreSaves(j) ==
  /\ Running(j, "restore_project")
  /\ script[j] = "stopped"
  /\ script' = [script EXCEPT ![j] = "saved"]
  /\ dir' = [dir EXCEPT ![Safety[j]] = "complete"]
  /\ content' = [content EXCEPT ![Safety[j]] = data]
  /\ UNCHANGED <<runnerVars, point, wasFailed, data, report, replaced, stuckScript>>

RestoreSwaps(j) ==
  /\ Running(j, "restore_project")
  /\ script[j] = "saved"
  /\ script' = [script EXCEPT ![j] = "swapped"]
  /\ data' = content[Target[j]]
  /\ replaced' = [replaced EXCEPT ![j] = data]
  /\ UNCHANGED <<runnerVars, point, wasFailed, dir, content, report, stuckScript>>

RestoreDone(j) ==
  /\ Running(j, "restore_project")
  /\ script[j] = "swapped"
  /\ script' = [script EXCEPT ![j] = "idle"]
  /\ report' = [report EXCEPT ![j] = TRUE]
  /\ Host!Succeed(The(j))
  /\ UNCHANGED <<still, project, job, pc, queue, api, troubles, point, wasFailed, dir,
                 content, data, replaced, stuckScript>>

\* The agent or the script refuses, for a reason of its caller's, and touches nothing.
RestoreRefused(j) ==
  /\ Running(j, "restore_project")
  /\ script[j] = "idle"
  /\ report' = [report EXCEPT ![j] = FALSE]
  /\ Host!Fail({The(j)})
  /\ UNCHANGED <<still, project, job, pc, queue, api, troubles, point, wasFailed, dir,
                 content, data, script, replaced, stuckScript>>

\* A step fails: the ERR trap puts the data back, or cannot; or what fails is the cleanup,
\* when the restored data is published already and no trap is set.
RestoreFails(j) ==
  /\ Running(j, "restore_project")
  /\ IF \/ script[j] # "idle"
        \/ /\ files /\ ~stuckScript
           /\ dir[Target[j]] = "complete" /\ dir[Safety[j]] = "none"
     THEN Trouble ELSE UNCHANGED troubles
  /\ report' = [report EXCEPT ![j] = script[j] \in {"saved", "swapped"}]
  /\ \/ /\ data' = IF script[j] = "swapped" THEN replaced[j] ELSE data
        /\ UNCHANGED stuckScript
     \/ script[j] = "swapped" /\ UNCHANGED data /\ stuckScript' \in {stuckScript, TRUE}
  /\ script' = [script EXCEPT ![j] = "idle"]
  /\ Host!Fail({The(j)})
  /\ UNCHANGED <<still, project, job, pc, queue, api, point, wasFailed, dir, content,
                 replaced>>

\* handle_delete_restore_point: rmtree, then a look whether anything is left.
DeletePointDone(j) ==
  /\ Running(j, "delete_restore_point")
  /\ files
  /\ dir' = [dir EXCEPT ![Target[j]] = "none"]
  /\ Host!Succeed(The(j))
  /\ UNCHANGED <<still, project, job, pc, queue, api, troubles, point, wasFailed,
                 content, data, script, report, replaced, stuckScript>>

\* Backups and deletions that fail: nothing is in place, or part of it is left.
PointScriptFails(j) ==
  /\ Running(j, "backup_project") \/ Running(j, "delete_restore_point")
  /\ IF files /\ (Action[j] = "backup" => dir[Target[j]] = "none")
     THEN Trouble ELSE UNCHANGED troubles
  /\ \/ UNCHANGED dir
     \/ /\ Action[j] = "delete_restore_point" /\ files
        /\ dir[Target[j]] # "none"
        /\ dir' = [dir EXCEPT ![Target[j]] = "partial"]
  /\ Host!Fail({The(j)})
  /\ UNCHANGED <<still, project, job, pc, queue, api, point, wasFailed, content, data,
                 script, report, replaced, stuckScript>>

\* The agent dies under a handler.
PointHandlerLost(j) ==
  /\ j \in PointJobs
  /\ HostLost(The(j))
  /\ \/ UNCHANGED dir
     \/ /\ Action[j] = "delete_restore_point" /\ files
        /\ dir[Target[j]] # "none"
        /\ \E left \in {"partial", "none"} : dir' = [dir EXCEPT ![Target[j]] = left]
  /\ stuckScript' = (stuckScript \/ script[j] # "idle")
  /\ script' = [script EXCEPT ![j] = "idle"]
  /\ UNCHANGED <<files, point, wasFailed, content, data, report, replaced>>
=============================================================================
