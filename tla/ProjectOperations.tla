-------------------------- MODULE ProjectOperations --------------------------
(***************************************************************************)
(* All operations on one project together: backups and restores, deletion, *)
(* settings and containers, rotation of the reference and of the API keys. *)
(* They share the job queue, the project's files, its containers and its   *)
(* entry in the Functions service.                                         *)
(***************************************************************************)
EXTENDS ProjectDeletion, KeyRotation

VARIABLES
  misplaced, \* history: .env got a reference back that it no longer had
  undone     \* history: services whose settings in .env were replaced by earlier ones

dataVars == <<pointVars, deletionVars>>
runtimeVars == <<serviceVars, rotationVars, keyRotationVars>>
vars == <<runnerVars, dataVars, runtimeVars, draft, misplaced, undone>>

\* What the users of this behaviour are after: the bound on what moves in it.
Concerns(S) == requests \cap S # {}

Init ==
  /\ RunnerInit /\ PointsInit /\ DeletionInit /\ ServicesInit /\ RotationInit /\ KeyInit
  /\ misplaced = FALSE /\ undone = {}
  /\ Concerns({j \in KeyJobs : Trigger[j] = "automatic"}) \/ (~automatic /\ expiry = "near")
  /\ Concerns(KeyJobs \cup Rotations \cup LifecycleJobs) \/ up

\* No script is in the middle of its work with the project's lifecycle lock.
LockFree == step = "idle" /\ turn = "idle" /\ \A j \in Jobs : script[j] = "idle"

\* What a script that works on data does to the runtime: its entry in the Functions
\* service, and whether nginx and auth are up.
Entry(entry, marked, running) ==
  /\ projection' = entry /\ withdrawn' = marked /\ up' = running
  /\ UNCHANGED <<envRef, fileRef, gateway, settingVars, ref, journal, log, lines, step, holder,
                 history, oldRef, rolledBack, raced, keyRotationVars>>

Data(j) ==
  \/ AcceptBackup(j) \/ AcceptRestore(j) \/ AcceptDeletePoint(j) \/ CompensateRows(j)
  \/ RunnerBegins(j) \/ SettleRows(j) \/ SettleSafety(j) \/ SettleTarget(j) \/ FinishJob(j)
  \/ ExceptRows(j) \/ FailJob(j) \/ RunnerRaises(j)
  \/ BackupDone(j) \/ RestoreSaves(j) \/ RestoreSwaps(j) \/ DeletePointDone(j)

Deletion(j) ==
  \/ AcceptDeletion(j) \/ DeletionNotQueued(j) \/ DeletionBegins(j) \/ DeletionSubmits(j)
  \/ DeletionNotes(j) \/ DeletionCleans(j) \/ DeletionRemovesRow(j) \/ DeletionVerifies(j)
  \/ DeletionRaises(j) \/ DeletionFails(j)

\* A restore withdraws the project from the Functions service, stops its containers and
\* starts every one there is, as it was created; agent and script compare .env with the
\* control plane before.  A backup starts those that it has stopped.  What fails may
\* leave them stopped, and the project withdrawn.
RestoreScript(j) ==
  \/ RestoreStops(j) /\ step = "idle" /\ turn = "idle" /\ envRef = ref /\ Entry(None, TRUE, FALSE)
  \/ RestoreRefused(j) /\ envRef # ref /\ UNCHANGED runtimeVars
  \/ RestoreDone(j) /\ Entry(envRef, FALSE, TRUE)
  \/ /\ RestoreFails(j)
     /\ IF script[j] = "idle" THEN UNCHANGED runtimeVars
        ELSE Entry(envRef, FALSE, TRUE) \/ \E on \in BOOLEAN : Entry(None, TRUE, on)
  \/ /\ PointHandlerLost(j)
     /\ \/ UNCHANGED runtimeVars
        \/ Running(j, "backup_project") /\ Entry(projection, withdrawn, FALSE)
        \/ script[j] = "swapped" /\ (Entry(None, TRUE, TRUE) \/ Entry(envRef, FALSE, TRUE))
  \/ /\ PointScriptFails(j)
     /\ \/ UNCHANGED runtimeVars
        \/ troubles' # troubles /\ Action[j] = "backup" /\ Entry(projection, withdrawn, FALSE)

DeleteScript(j, c) ==
  \/ /\ DeleteHostDone(j, c) \/ DeleteHostFails(j, c)
     /\ step = "idle" /\ turn = "idle"
     /\ CASE held' = held -> UNCHANGED runtimeVars
          [] c = "delete_project_containers" -> Entry(projection, withdrawn, FALSE)
          [] OTHER -> Entry(None, TRUE, up)
  \/ /\ DeleteHostLost(j, c)
     /\ CASE held' = held -> UNCHANGED runtimeVars
          [] c = "delete_project_containers" -> Entry(projection, withdrawn, FALSE)
          [] OTHER -> Entry(None, TRUE, up)

Lifecycle(j) ==
  \/ AcceptLifecycle(j) \/ AnswerLifecycle(j) \/ LifecycleNotQueued(j) \/ LifecycleBegins(j)
  \/ LifecycleEnds(j) \/ RecreationEnds(j) \/ LifecycleRaises(j) \/ LifecycleDone(j) \/ LifecycleFails(j)
  \/ LifecycleLost(j)

Rotation(j) ==
  \/ AcceptRotation(j) \/ CompensateRotation(j) \/ RotationBegins(j) \/ RotationConfirms(j)
  \/ RotationRaises(j) \/ RotationFails(j) \/ (turn = "idle" /\ ScriptBegins(j)) \/ Preflight(j)
  \/ Advance(j) \/ ScriptFails(j) \/ ScriptDone(j) \/ ScriptKilled(j)

KeyRotation(j) ==
  \/ AcceptManual(j) \/ ScanClaims(j) \/ KeyRotationNotQueued(j) \/ KeyRotationBegins(j)
  \/ RotationEnds(j) \/ StoreKeys(j) \/ Invalidate(j) \/ KeyRotationDone(j)
  \/ KeyRotationRaises(j) \/ BlockAfterFailure(j) \/ BlockFails(j)
  \/ KeyScriptBegins(j) \/ KeyScriptRefused(j) \/ KeyScriptStep(j) \/ KeyScriptDone(j)
  \/ KeyScriptTurnsBack(j) \/ KeyScriptTurnedBack(j) \/ KeyScriptDies(j) \/ KeyScriptLost(j)

\* The queue, the worker, recovery, and the intents before they run.
Runner ==
  \/ \E j \in requests : Enqueue(j) \/ EnqueueFails(j) \/ TakeJob(j) \/ RecoverJob(j)
  \/ \E i \in Intents : HostBegins(i) \/ WithdrawIntent(i)
  \/ ApiStops \/ ApiStarts \/ Serve

Rotates ==
  \/ RollBack \/ RollBackDone \/ RollBackFails \/ LastStop
  \/ OperatorRecovers /\ LockFree
  \/ \E j \in requests : AdmitRecreation(j) \/ RefuseRecreation(j)

Studio == Promote \/ FetchKey \/ PublishKey

\* No other job is ever begun than those the users ask for, and none acts by the handlers
\* of another kind.
Operates ==
  \/ Runner /\ UNCHANGED <<dataVars, runtimeVars>>
  \/ /\ Concerns(PointJobs)
     /\ \E j \in requests : Data(j) /\ UNCHANGED <<deletionVars, runtimeVars>>
  \/ /\ Concerns(Deletions)
     /\ \E j \in requests : Deletion(j) /\ UNCHANGED runtimeVars
  \/ Concerns(PointJobs) /\ Write /\ UNCHANGED <<deletionVars, runtimeVars>>
  \/ /\ Concerns(PointJobs)
     /\ \E j \in requests : RestoreScript(j) /\ UNCHANGED deletionVars
  \/ /\ Concerns(Deletions)
     /\ \E j \in requests, c \in HostSteps : DeleteScript(j, c)
  \/ /\ Concerns(LifecycleJobs)
     /\ \E j \in requests : Lifecycle(j) /\ UNCHANGED <<dataVars, rotationVars, keyRotationVars>>
  \/ /\ Concerns(Rotations)
     /\ (\E j \in requests : Rotation(j)) /\ UNCHANGED <<dataVars, keyRotationVars>>
  \/ Rotates /\ UNCHANGED <<dataVars, keyRotationVars>>
  \/ Concerns(Rotations) /\ Sync /\ LockFree /\ UNCHANGED <<dataVars, keyRotationVars>>
  \/ /\ Concerns(KeyJobs)
     /\ (\E j \in requests : KeyRotation(j)) /\ UNCHANGED dataVars
  \/ /\ Concerns(KeyJobs) /\ ~Concerns(Rotations \cup LifecycleJobs)
     /\ Studio \/ ScanReadsExpiry \/ KeysAge \/ \E on \in BOOLEAN : SetAutomatic(on)
     /\ UNCHANGED dataVars

\* What is written back over .env: a reference by a save or by the key script, which have
\* none to give it, and settings by whoever writes it.
Remembers ==
  /\ misplaced' = (misplaced \/ /\ envRef' # envRef
                                /\ saves' # saves \/ (turn # "idle" /\ envRef' # Broken))
  /\ undone' = undone \cup {s \in Services : saved'[s] < saved[s]}

\* A save under way ends with the API.
Next ==
  /\ \/ Operates /\ draft' = IF api' = "up" THEN draft ELSE NoDraft
     \/ Saves /\ UNCHANGED <<dataVars, rotationVars, keyRotationVars>>
  /\ Remembers

Spec == Init /\ [][Next]_vars

-----------------------------------------------------------------------------
(* Properties                                                              *)

\* Types of the variables of all modules; at most one runner works on the project.
TypeOK ==
  /\ RunnerTypeOK(PointPlaces \cup {Steps[n] : n \in DOMAIN Steps} \cup KeyPlaces)
  /\ PointsTypeOK /\ DeletionTypeOK
  /\ ServicesTypeOK /\ RotationTypeOK /\ KeyTypeOK

\* A point the API offers for a restore has a complete directory, unless its
\* deletion was asked for (a job taken up after a restart settles the row whatever
\* its status has become) or the project's own deletion took the files.
ReadyIsComplete ==
  files => \A p \in Points :
    point[p] = "ready" =>
      \/ dir[p] = "complete"
      \/ \E j \in Jobs : /\ Target[j] = p /\ Action[j] = "delete_restore_point"
                         /\ job[j] # "absent"

\* Whatever goes wrong once, no point stays in a state its endpoints refuse to act
\* on after its job is over and nothing works on it any more.
OneTroubleSticksNothing ==
  troubles <= 1 =>
    \A p \in Points :
      point[p] \in {"creating", "restoring", "deleting"} =>
        \E j \in PointJobs : /\ p \in {Target[j], Safety[j]}
                             /\ job[j] \notin JobFinal \/ pc[j] # "none"
                             /\ job[j] # "absent"

\* A restore that ends well left the data it replaced in its safety point, ready to
\* be restored, unless somebody asked for that point's deletion since; and so every
\* point that is offered can be restored.
RestoreCanBeUndone ==
  /\ ReadyIsComplete
  /\ \A j \in Restores :
       job[j] = "done" /\ files =>
         \/ /\ point[Safety[j]] \in {"ready", "restoring"}
            /\ dir[Safety[j]] = "complete"
            /\ content[Safety[j]] = replaced[j]
         \/ \E k \in Jobs : /\ Target[k] = Safety[j]
                            /\ Action[k] = "delete_restore_point" /\ job[k] # "absent"

\* What the endpoint of j made of its point, until the runner or the endpoint's
\* compensation has settled it.
Claim(j) == CASE Action[j] = "backup"  -> "creating"
              [] Action[j] = "restore" -> "restoring"
              [] OTHER -> "deleting"
Unsettled(j) ==
  j \in PointJobs /\ pc[j] \in {"accepted", "compensate", "waiting", "begin", "wait", "settle"}
ClaimsStand ==
  \A j \in Jobs : Unsettled(j) =>
    /\ point[Target[j]] = Claim(j)
    /\ \A k \in Jobs : Unsettled(k) /\ Target[k] = Target[j] => k = j

\* The state an endpoint gave a point keeps further requests away from it, until the
\* job has settled the point: no other job takes it away, neither one that settles its
\* own point late nor one that compensates.  Excepted is the error path of an earlier
\* job of the same kind, whose UPDATE tests the status and not the job_id.  As long as
\* the API is not restarted: a runner taken up again settles what it has settled before.
ClaimsAreKeptInOneLife ==
  [][~restarted /\ project' /\ ClaimsStand =>
       \/ ClaimsStand'
       \/ \E j, k \in PointJobs : /\ pc[j] = "except" /\ Unsettled(k) /\ j # k
                                 /\ Target[j] = Target[k] /\ Action[j] = Action[k]]_vars

\* A deleted project leaves nothing behind, whatever failed on the way, and no job of
\* the project puts anything back; a backup that rmtree could not remove is not usable.
DeletedLeavesNothing ==
  ~project => held = {} /\ ~files /\ \A p \in Points : dir[p] # "complete"

\* A deletion that failed leaves what the next attempt needs to begin.
DeletionCanBeRetried ==
  project /\ (\E j \in Deletions : job[j] = "failed")
    => files

\* A container of an earlier reference may have been started again: docker start does
\* not create it anew.
StartedAsItWas ==
  \E j \in Jobs : Action[j] \in {"start", "restart", "restore"} /\ job[j] # "absent"

\* With the lifecycle lock free and no manifest left, files and database agree: the
\* journal is complete before anything changes and goes when all is changed.  What a
\* killed key rotation left half written is no rotation's.
JournalCoversChange ==
  step = "idle" /\ journal # "complete" => {envRef, fileRef} \subseteq {ref, Broken}

\* Nobody is served under a reference that is not the project's: the gateway and the
\* Functions service run with the one in the database or not at all, at every step of
\* a rotation, whatever fails or is killed, and while other operations follow; and what
\* differs is in the journal.  (A key rotation that finds files of which only a part was
\* written, and fails, creates nginx from them; and a recreation beside the recovery of an
\* operator takes what .env holds at that time.)  The exception is real: a save that read
\* .env before a rotation wrote it, and replaces it after, gives the project its former
\* reference back, which whatever works from .env takes from then on.
ServesTheReference ==
  misplaced \/ /\ up => gateway \in {ref, Broken} \/ StartedAsItWas \/ raced
               /\ project => projection \in {ref, None}
               /\ JournalCoversChange

\* The intent of a job that stops containers outlives the job that failed while it was
\* queued.
StopAskedFor == \E j \in Jobs : Action[j] \in {"stop", "backup", "restore"} /\ job[j] # "absent"

\* What the history reports is so when it is reported: after a success files, gateway
\* and database have the new reference and no journal is left, after a rollback files
\* and database have the old one; unless the project is being deleted.  (A rollback that
\* cannot remove its journal stops the gateway again and is still reported as one.)  The
\* intent of a job that failed before may run, and fail, between the script's end and the
\* report: that takes two troubles and another kind of operation; and a save may put the
\* other reference back, as in ServesTheReference.
HistoryIsTrue ==
  [][~Concerns(Deletions) /\ ~misplaced /\ (troubles <= 1 \/ requests \subseteq Rotations) =>
     \A j \in Rotations :
       /\ history'[j] = "succeeded" /\ history[j] # "succeeded" =>
            /\ ref = NewRef[j] /\ fileRef = NewRef[j]
            /\ journal = "none"
            /\ log.running => gateway = NewRef[j] /\ (up \/ StopAskedFor)
       /\ history'[j] = "rolled_back" /\ history[j] # "rolled_back" =>
            ref = oldRef[j] /\ envRef = oldRef[j] /\ fileRef \in {oldRef[j], Broken}]_vars

\* After a rollback that could not be confirmed nginx and auth, which ran before, stay
\* stopped until somebody recovers it.
StaysStopped ==
  [][/\ step = "idle" /\ holder \in Rotations /\ history[holder] = "failed"
     /\ journal = "complete" /\ withdrawn /\ log.running /\ ~up
     => ~up' \/ step' # "idle"]_vars

\* A recreation that is reported done has put into force all that was saved when it was
\* asked for, whether the request got a job of its own or one that had not begun yet.
\* Excepted are settings that were taken out of .env again: by a rotation, of the reference
\* or of the keys, that puts its copy of the file back or writes what it has read before.
RecreatedIsCurrent ==
  \A j \in LifecycleJobs :
    /\ Action[j] = "recreate_services" /\ asked[j].job # "none"
    /\ job[asked[j].job] = "done"
    => \A s \in Recreates[j] : applied[s] >= asked[j].since[s] \/ s \in undone

\* "Changing settings writes the `.env` atomically" (docs/architecture/project-lifecycle.md:229):
\* a save changes the settings it was asked to change, and nothing else.
SavesAreAtomic ==
  [][saves' # saves => envRef' = envRef /\ \A e \in Entries : saved'[e] \in {saved[e], saves'}]_vars

\* Once a rotation is reported done, the Studio hands out no key of before it, however
\* long an answer with the old key was on its way.
NoOldKeyAfterRotation ==
  [][used' # used => \A j \in KeyJobs : job[j] = "done" => used' >= wrote[j]]_vars

\* Whatever goes wrong once without a restart: an automatic rotation that failed leaves
\* automatic rotation blocked, until an administrator clears it or a rotation succeeds.
FailureBlocks ==
  project /\ ~restarted /\ troubles <= 1 /\ automatic /\ ~blocked =>
    \A j \in KeyJobs : job[j] = "failed" /\ Trigger[j] = "automatic" /\ pc[j] = "none"
      => j \in forgiven

\* A failure stops further automatic attempts.
FailureStopsAttempts ==
  [][\A j, k \in KeyJobs :
       /\ Trigger[j] = "automatic" /\ Trigger[k] = "automatic"
       /\ job[j] = "failed" /\ job[k] = "absent" /\ job'[k] = "queued"
       => j \in forgiven]_vars

-----------------------------------------------------------------------------
(* What a rotation promises.                                               *)

\* The rotations whose intent is over, or whose script has written its journal.
Spent == {j \in Rotations : \/ Ended(The(j))
                            \/ holder = j /\ step \in InTry \cup {"cleanup"} \cup Backward}

Changes == INSTANCE ReferenceChange
  WITH reference <- ref, record <- history, base <- oldRef, spent <- Spent,
       change <- IF journal = "complete" THEN {[old |-> log.old, new |-> log.new]} ELSE {},
       armed <- step \in {"withdraw", "stop", "read", "render", "generate", "swap"}

\* The endpoint, the runner, the script and the operator's recovery make one change of the
\* reference: at most once for each rotation, from what the reservation found, taken back
\* only while its journal is there, and reported once and as it is.  The journal of a
\* rotation outlives its script, its row in the history may be failed while its intent
\* still runs, and the next rotation may be reserved meanwhile.
ReferenceChangesOnce == Changes!Spec
=============================================================================
