-------------------------- MODULE ReferenceRotation --------------------------
(***************************************************************************)
(* Rotation of a project's public reference: the endpoint's reservation in *)
(* project_reference_history, the runner that confirms it, and the script  *)
(* that changes files and database behind a journal, puts everything back  *)
(* when a step fails, and is put back by an operator when it was killed.   *)
(***************************************************************************)
EXTENDS ProjectServices

CONSTANT None

ASSUME RotationAssumption == None \notin Refs \cup {Broken} /\ "operator" \notin Rotations

VARIABLES
  ref,        \* projects.public_ref
  projection, \* the reference in .functions-tenants/<project>.json, or None
  withdrawn,  \* the marker .functions-locks/<project>.withdrawn
  journal,    \* the directory .reference-rotation-*: with a manifest or without
  log,        \* what the manifest holds, and the copies of the files
  lines,      \* what a script has read of .env and is about to write again
  step,       \* where the script is that holds the project's lifecycle lock
  holder,     \* the job it runs for; "operator" for an explicit recovery
  history,    \* [Rotations -> status of project_reference_history]
  oldRef,     \* [Rotations -> Refs]: history.old_ref
  rolledBack, \* [Rotations -> BOOLEAN]: result.rolled_back of the command
  raced       \* an operator recovered beside a recreation (for the properties)

scriptVars   == <<projection, withdrawn, journal, log, lines, step, holder>>
rotationVars == <<ref, scriptVars, history, oldRef, rolledBack, raced>>

Forward  == {"preflight", "mkdir", "prepare", "withdraw", "stop", "read", "render", "generate",
             "swap", "restart", "publish", "cleanup"}
Backward == {"rb_withdraw", "rb_stop", "rb_swap", "rb_files", "rb_restart", "rb_publish",
             "rb_cleanup", "last_stop"}
HistoryFinal == {"succeeded", "failed", "rolled_back"}
Open == {"queued", "running"}

RotationInit ==
  /\ ref = 0
  /\ projection = 0 /\ withdrawn = FALSE
  /\ journal = "none"
  /\ log = [old |-> 0, new |-> 0, running |-> FALSE, saved |-> Untouched, env |-> 0,
            files |-> 0]
  /\ lines = [env |-> 0, saved |-> Untouched]
  /\ step = "idle" /\ holder = "operator"
  /\ history = [j \in Rotations |-> "absent"]
  /\ oldRef = [j \in Rotations |-> 0]
  /\ rolledBack = [j \in Rotations |-> FALSE]
  /\ raced = FALSE

RotationTypeOK ==
  /\ ref \in Refs
  /\ projection \in Refs \cup {None, Broken}
  /\ withdrawn \in BOOLEAN
  /\ journal \in {"none", "bare", "complete"}
  /\ log \in [old : Refs, new : Refs, running : BOOLEAN, saved : [Entries -> Nat],
              env : Refs \cup {Broken}, files : Refs \cup {Broken}]
  /\ lines \in [env : Refs \cup {Broken}, saved : [Entries -> Nat]]
  /\ step \in {"idle"} \cup Forward \cup Backward
  /\ holder \in Rotations \cup {"operator"}
  /\ history \in [Rotations -> {"absent"} \cup Open \cup HistoryFinal]
  /\ oldRef \in [Rotations -> Refs]
  /\ rolledBack \in [Rotations -> BOOLEAN]
  /\ raced \in BOOLEAN

-----------------------------------------------------------------------------
(* rename_project and rename_project_background *)

\* Faulty variant: the endpoint looks at the jobs of the project instead.
NoActiveRotationJob == \A k \in Rotations : job[k] # "running"

NoActiveRotation == \A k \in Rotations : history[k] \notin Open

SetHistory(j, status) == history' = [history EXCEPT ![j] = status]

\* The transaction holds the advisory locks of the project and of the new reference.
AcceptRotation(j) ==
  /\ j \in Rotations
  /\ NoActiveRotation
  /\ AcceptJob(j)
  /\ SetHistory(j, "queued")
  /\ oldRef' = [oldRef EXCEPT ![j] = ref]
  /\ UNCHANGED <<serviceVars, ref, scriptVars, rolledBack, raced>>

\* The endpoint's compensation: job and history in one transaction.
CompensateRotation(j) ==
  /\ j \in Rotations
  /\ pc[j] = "compensate"
  /\ SetHistory(j, "failed")
  /\ Goto(j, "none")
  /\ UNCHANGED <<still, project, job, queue, command, api, troubles, serviceVars, ref,
                 scriptVars, oldRef, rolledBack, raced>>

\* A rotation whose history is final is not run again.
RotationBegins(j) ==
  /\ j \in Rotations
  /\ pc[j] = "begin"
  /\ IF history[j] \in HistoryFinal
     THEN /\ Settle(j, IF history[j] = "succeeded" THEN "done" ELSE "failed")
          /\ Goto(j, "none")
          /\ UNCHANGED <<history, command>>
     ELSE /\ SetHistory(j, "running")
          /\ Settle(j, "running")
          /\ AttachIntent(The(j))
          /\ Goto(j, "wait")
  /\ UNCHANGED <<still, project, queue, api, troubles, serviceVars, ref, scriptVars,
                 oldRef, rolledBack, raced>>

\* The outcome the last transaction writes; "raise" when the host says done and the
\* database says otherwise.
Confirmed(j) ==
  CASE command[The(j)] = "done" /\ ref = NewRef[j] -> "succeeded"
    [] command[The(j)] = "done" /\ ref # NewRef[j] -> "raise"
    [] command[The(j)] # "done" /\ rolledBack[j] /\ ref = oldRef[j] -> "rolled_back"
    [] OTHER -> "failed"

\* History and job in one transaction.
RotationConfirms(j) ==
  /\ j \in Rotations
  /\ pc[j] = "wait"
  /\ Ended(The(j))
  /\ IF Confirmed(j) = "raise"
     THEN Goto(j, "fail") /\ UNCHANGED <<job, history>>
     ELSE /\ IF history[j] \in HistoryFinal THEN UNCHANGED history
             ELSE SetHistory(j, Confirmed(j))
          /\ Settle(j, IF command[The(j)] = "done" THEN "done" ELSE "failed")
          /\ Goto(j, "none")
  /\ UNCHANGED <<still, project, queue, command, api, troubles, serviceVars, ref,
                 scriptVars, oldRef, rolledBack, raced>>

RotationRaises(j) ==
  /\ j \in Rotations
  /\ pc[j] \in {"begin", "wait"}
  /\ Trouble
  /\ Goto(j, "fail")
  /\ UNCHANGED <<still, project, job, queue, command, api, serviceVars, rotationVars>>

\* except Exception: history and job are failed, the intent may still run.
RotationFails(j) ==
  /\ j \in Rotations
  /\ pc[j] = "fail"
  /\ SetHistory(j, "failed")
  /\ Settle(j, "failed")
  /\ Goto(j, "none")
  /\ UNCHANGED <<still, project, queue, command, api, troubles, serviceVars, ref,
                 scriptVars, oldRef, rolledBack, raced>>

-----------------------------------------------------------------------------
(* What the script does to the project, forward and back.                  *)

outside == <<pending, saves, asked, admitted, holder, history, oldRef, rolledBack, raced>>

Withdraw ==
  /\ projection' = None /\ withdrawn' = TRUE
  /\ UNCHANGED <<ref, containerVars, saved, applied, journal, log, lines>>

StopGateway ==
  /\ up' = FALSE
  /\ UNCHANGED <<ref, envRef, fileRef, gateway, saved, applied, projection, withdrawn,
                 journal, log, lines>>

\* Those of nginx and auth that ran before are created again, nginx from the files and auth
\* from .env.
RestartGateway ==
  /\ IF log.running
     THEN /\ gateway' \in {fileRef, envRef} /\ up' = TRUE
          /\ applied' = [applied EXCEPT !["nginx"] = saved["nginx"]]
     ELSE UNCHANGED <<gateway, up, applied>>
  /\ UNCHANGED <<ref, envRef, fileRef, saved, projection, withdrawn, journal, log, lines>>

\* The entry is made from .env.
Publish ==
  /\ projection' = envRef /\ withdrawn' = FALSE
  /\ UNCHANGED <<ref, containerVars, saved, applied, journal, log, lines>>

\* .env is replaced as a whole, with what was read of it or copied; then the other files
\* are, by a whole set or by a part of it.
WriteFiles(env, settings, content) ==
  /\ envRef' = env /\ saved' = settings /\ fileRef' = content
  /\ UNCHANGED <<ref, gateway, up, applied, projection, withdrawn, journal, log, lines>>

SwapReference(new) ==
  /\ ref' = new
  /\ UNCHANGED <<containerVars, saved, applied, projection, withdrawn, journal, log, lines>>

SetJournal(state) ==
  /\ journal' = state
  /\ UNCHANGED <<ref, containerVars, saved, applied, projection, withdrawn, log, lines>>

-----------------------------------------------------------------------------
(* ReferenceRotation.rotate: the script of j has the lifecycle lock.       *)

Held(j) == j \in Rotations /\ holder = j /\ step # "idle"
InTry == {"withdraw", "stop", "read", "render", "generate", "swap", "restart", "publish"}

ScriptBegins(j) ==
  /\ j \in Rotations
  /\ step = "idle"
  /\ command[The(j)] = "running"
  /\ step' = "preflight" /\ holder' = j
  /\ UNCHANGED <<runnerVars, serviceVars, ref, projection, withdrawn, journal, log, lines,
                 history, oldRef, rolledBack, raced>>

\* Faulty variant: .env is compared with the database, and neither with the reservation.
PreflightAgrees(j) ==
  /\ files /\ journal = "none" /\ envRef = ref
  /\ history[j] \in Open /\ job[j] \in Open

\* preflight: the project's files, no journal, the same reference in .env and database, the
\* reservation of this very rotation still open.
PreflightOK(j) ==
  /\ files
  /\ journal = "none"
  /\ envRef = oldRef[j] /\ ref = oldRef[j]
  /\ history[j] \in Open /\ job[j] \in Open

Preflight(j) ==
  /\ Held(j) /\ step = "preflight"
  /\ PreflightOK(j)
  /\ step' = "mkdir"
  /\ UNCHANGED <<runnerVars, serviceVars, ref, projection, withdrawn, journal, log, lines,
                 holder, history, oldRef, rolledBack, raced>>

\* One step of the script that goes well.
Advance(j) ==
  /\ Held(j)
  /\ \/ step = "mkdir" /\ step' = "prepare" /\ SetJournal("bare")
     \/ \* copies of the files, then the first checkpoint
        /\ step = "prepare" /\ step' = "withdraw"
        /\ journal' = "complete"
        /\ log' = [old |-> oldRef[j], new |-> NewRef[j], running |-> up, saved |-> saved,
                   env |-> envRef, files |-> fileRef]
        /\ UNCHANGED <<ref, containerVars, saved, applied, projection, withdrawn, lines>>
     \/ step = "withdraw" /\ step' = "stop" /\ Withdraw
     \/ step = "stop" /\ step' = "read" /\ StopGateway
     \/ /\ step = "read" /\ step' = "render"
        /\ lines' = [env |-> envRef, saved |-> saved]
        /\ UNCHANGED <<ref, containerVars, saved, applied, projection, withdrawn, journal, log>>
     \/ step = "render" /\ step' = "generate" /\ WriteFiles(NewRef[j], lines.saved, fileRef)
     \/ \* from what .env holds by then
        step = "generate" /\ step' = "swap" /\ WriteFiles(envRef, saved, envRef)
     \/ \* compare-and-swap
        /\ step = "swap" /\ step' = "restart"
        /\ ref = oldRef[j]
        /\ SwapReference(NewRef[j])
     \/ step = "restart" /\ step' = "publish" /\ RestartGateway
     \/ step = "publish" /\ step' = "cleanup" /\ Publish
  /\ UNCHANGED <<runnerVars, outside>>

\* Half a step, as a failure or a kill leaves it.
Halfway ==
  \/ UNCHANGED <<ref, containerVars, saved, applied, projection, withdrawn, journal, log, lines>>
  \/ /\ step \in {"withdraw", "rb_withdraw"} /\ withdrawn' = TRUE
     /\ UNCHANGED <<ref, containerVars, saved, applied, projection, journal, log, lines>>
  \/ step \in {"stop", "rb_stop", "last_stop"} /\ StopGateway
  \/ step = "render" /\ WriteFiles(log.new, lines.saved, fileRef)
  \/ step = "generate" /\ WriteFiles(envRef, saved, Broken)
  \/ step = "rb_files" /\ WriteFiles(log.env, log.saved, Broken)
  \/ step = "swap" /\ ref = log.old /\ SwapReference(log.new)    \* the COMMIT went through
  \/ step \in {"restart", "rb_restart"} /\ RestartGateway
  \/ /\ step \in {"publish", "rb_publish"} /\ projection' = envRef
     /\ UNCHANGED <<ref, containerVars, saved, applied, withdrawn, journal, log, lines>>
  \/ step = "mkdir" /\ SetJournal("bare")
  \/ step \in {"cleanup", "rb_cleanup"} /\ \E rest \in {"bare", "none"} : SetJournal(rest)

EndCommand(j) ==
  /\ Host!Fail({The(j)})
  /\ step' = "idle"
  /\ UNCHANGED rolledBack

\* A step fails or a signal arrives: inside the try block the script turns back,
\* outside of it the command fails.
ScriptFails(j) ==
  /\ Held(j) /\ step \in Forward
  /\ IF step = "preflight" /\ ~PreflightOK(j) THEN UNCHANGED troubles ELSE Trouble
  /\ Halfway
  /\ IF step \in InTry
     THEN step' = "rb_withdraw" /\ UNCHANGED <<command, rolledBack>>
     ELSE EndCommand(j)
  /\ UNCHANGED <<still, project, job, pc, queue, api, pending, saves, asked, admitted, holder,
                 history, oldRef, raced>>

\* rmtree of the journal, REFERENCE_ROTATED, exit 0.
ScriptDone(j) ==
  /\ Held(j) /\ step = "cleanup"
  /\ SetJournal("none")
  /\ Host!Succeed(The(j))
  /\ step' = "idle"
  /\ UNCHANGED <<still, project, job, pc, queue, api, troubles, outside>>

-----------------------------------------------------------------------------
(* rollback, after a failure or asked for by an operator.                  *)

RollBack ==
  /\ \/ step = "rb_withdraw" /\ step' = "rb_stop" /\ Withdraw
     \/ step = "rb_stop" /\ step' = "rb_swap" /\ StopGateway
     \/ /\ step = "rb_swap" /\ step' = "rb_files"
        /\ ref \in {log.new, log.old}
        /\ SwapReference(log.old)
     \/ /\ step = "rb_files" /\ step' = "rb_restart"
        /\ WriteFiles(log.env, log.saved, log.files)
     \/ step = "rb_restart" /\ step' = "rb_publish" /\ RestartGateway
     \/ step = "rb_publish" /\ step' = "rb_cleanup" /\ Publish
  /\ UNCHANGED <<runnerVars, outside>>

\* The command fails with ROLLBACK_COMPLETE; the journal is removed.
RollBackDone ==
  /\ step = "rb_cleanup"
  /\ SetJournal("none")
  /\ step' = "idle"
  /\ IF holder \in Rotations
     THEN /\ Host!Fail({The(holder)})
          /\ rolledBack' = [rolledBack EXCEPT ![holder] = TRUE]
     ELSE UNCHANGED <<command, rolledBack>>
  /\ UNCHANGED <<still, project, job, pc, queue, api, troubles, pending, saves, asked, admitted,
                 holder, history, oldRef, raced>>

\* The rollback fails.  After a rotation the gateway is stopped once more, if that
\* works; the marker is printed before the journal is removed.
RollBackFails ==
  /\ step \in Backward \ {"last_stop"}
  /\ Trouble
  /\ Halfway
  /\ step' = IF holder \in Rotations THEN "last_stop" ELSE "idle"
  /\ rolledBack' = IF holder \in Rotations
                   THEN [rolledBack EXCEPT ![holder] = step = "rb_cleanup"]
                   ELSE rolledBack
  /\ UNCHANGED <<still, project, job, pc, queue, command, api, pending, saves, asked, admitted,
                 holder, history, oldRef, raced>>

\* Faulty variant: the journal is cleared away with the failed rollback.
JournalDropped == "none"

JournalKept == journal

LastStop ==
  /\ step = "last_stop"
  /\ up' = FALSE
  /\ journal' = JournalKept
  /\ Host!Fail({The(holder)})
  /\ step' = "idle"
  /\ UNCHANGED <<still, project, job, pc, queue, api, troubles, ref, envRef, fileRef, gateway,
                 saved, applied, projection, withdrawn, log, lines, outside>>

\* The agent is killed, and the script with it; or its command is failed before it
\* began.
ScriptKilled(j) ==
  /\ j \in Rotations
  /\ HostLost(The(j))
  /\ IF Held(j) THEN Halfway /\ step' = "idle"
     ELSE UNCHANGED <<ref, containerVars, saved, applied, projection, withdrawn, journal,
                      log, lines, step>>
  /\ UNCHANGED <<files, outside>>

\* rename_project.sh --recover-rollback, by hand: it wants a whole manifest, and a
\* database that has one of the two references.  It takes the lock of the scripts, which
\* a recreation does not take.
OperatorRecovers ==
  /\ step = "idle"
  /\ files /\ project
  /\ journal = "complete"
  /\ ref \in {log.old, log.new}
  /\ step' = "rb_withdraw" /\ holder' = "operator"
  /\ raced' = (raced \/ admitted # {})
  /\ UNCHANGED <<runnerVars, serviceVars, ref, projection, withdrawn, journal, log, lines,
                 history, oldRef, rolledBack>>

-----------------------------------------------------------------------------
(* _revalidate: before a handler that works on the files begins, the agent *)
(* compares .env with the control plane.  Of such handlers recreations     *)
(* alone look at nothing again when they have the lock, or take none.      *)

SameReference == files /\ envRef = ref

AdmitRecreation(j) ==
  /\ j \in LifecycleJobs /\ Action[j] = "recreate_services"
  /\ AtWork(j) /\ j \notin admitted
  /\ SameReference
  /\ admitted' = admitted \cup {j}
  /\ raced' = (raced \/ step # "idle")
  /\ UNCHANGED <<runnerVars, containerVars, saved, applied, pending, saves, asked, ref,
                 scriptVars, history, oldRef, rolledBack>>

RefuseRecreation(j) ==
  /\ j \in LifecycleJobs /\ Action[j] = "recreate_services"
  /\ AtWork(j) /\ j \notin admitted
  /\ ~SameReference
  /\ Host!Fail({The(j)})
  /\ UNCHANGED <<still, project, job, pc, queue, api, troubles, serviceVars, rotationVars>>

-----------------------------------------------------------------------------
(* functions_config.py sync: the Functions service starts.  It takes the   *)
(* global lock alone, withdraws first and refuses what is marked.          *)

\* Faulty variant: the marker is not looked at.
SyncPublishesAll == envRef # Broken

SyncPublishes == envRef # Broken /\ ~withdrawn

Sync ==
  /\ step = "idle"
  /\ files
  /\ projection' = IF SyncPublishes THEN envRef ELSE None
  /\ UNCHANGED <<runnerVars, serviceVars, ref, withdrawn, journal, log, lines, step, holder,
                 history, oldRef, rolledBack, raced>>
=============================================================================
