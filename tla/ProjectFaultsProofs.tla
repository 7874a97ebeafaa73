------------------------- MODULE ProjectFaultsProofs -------------------------
(***************************************************************************)
(* What failures may do to the operations on one project, and what they    *)
(* may not: whose the claim on a restore point stays and who settles it,   *)
(* when automatic rotation is blocked, what the history of the rotations   *)
(* tells, and that a rotation changes the reference once.                  *)
(***************************************************************************)
EXTENDS ProjectOperationsProofs

-----------------------------------------------------------------------------
(* Who has which claim on a restore point. *)

\* A step that moves none of these jobs.
Unmoved(S) == \A j \in S : pc'[j] = pc[j] /\ job'[j] = job[j]

\* A step after which as many troubles are counted, or one more, in the same life.
OneLife == UNCHANGED <<restarted, api>> /\ (troubles' = troubles \/ Trouble)

\* A step of the runner of a job on points, or of its endpoint.
RowsMove(k) ==
  \/ AcceptBackup(k) \/ AcceptRestore(k) \/ AcceptDeletePoint(k) \/ CompensateRows(k)
  \/ RunnerBegins(k) \/ SettleRows(k) \/ SettleSafety(k) \/ SettleTarget(k) \/ FinishJob(k)
  \/ ExceptRows(k) \/ FailJob(k) \/ RunnerRaises(k)

\* The coroutine of another job, and the host, leave a job where it is.
LEMMA OthersMoveNone ==
  ASSUME RunnerInv, NEW S \in SUBSET Jobs,
         HostWorks \/ \E k \in Jobs : k \notin S /\ (RunnerWorks(k) \/ AcceptJob(k))
  PROVE  Unmoved(S) /\ OneLife
<1>0. RunnerTypes
  BY DEF RunnerInv
<1>1. CASE HostWorks
  BY <1>1 DEF HostWorks, Unmoved, OneLife
<1>2. ASSUME NEW k \in Jobs, k \notin S, RunnerWorks(k) \/ AcceptJob(k) PROVE Unmoved(S) /\ OneLife
  <2>1. \A j \in S : pc'[j] = pc[j]
    BY <1>0, <1>2 DEF RunnerWorks, AcceptJob, Goto, RunnerTypes
  <2>2. \A j \in S : job'[j] = job[j]
    BY <1>0, <1>2 DEF RunnerWorks, AcceptJob, Settle, RunnerTypes
  <2> QED
    BY <1>2, <2>1, <2>2 DEF RunnerWorks, AcceptJob, Unmoved, OneLife, still
<1> QED
  BY <1>1, <1>2

\* The project's row takes the rows of its points with it, and does not come back.
LEMMA RowGoesWithPoints ==
  ASSUME RunnerInv, HolderRotates, [Next]_vars
  PROVE  project' = project \/ (~project' /\ \A p \in Points : point'[p] = "absent")
<1>0. project \in BOOLEAN /\ requests \subseteq Jobs
  BY RunnerAssumption DEF RunnerInv, RunnerTypes
<1> DEFINE Stays == project' = project \/ (~project' /\ \A p \in Points : point'[p] = "absent")
<1>1. ASSUME NEW k \in Jobs, Data(k) PROVE Stays
  BY <1>1 DEF Data, AcceptBackup, AcceptRestore, AcceptDeletePoint, AcceptJob, CompensateRows,
     RunnerBegins, SettleRows, SettleSafety, SettleTarget, FinishJob, ExceptRows, FailJob, RunnerRaises,
     BackupDone, RestoreSaves, RestoreSwaps, DeletePointDone, runnerVars
<1>2. ASSUME NEW k \in Jobs, Deletion(k) PROVE Stays
  BY <1>2 DEF Deletion, AcceptDeletion, AcceptJob, DeletionNotQueued, DeletionBegins, DeletionSubmits,
     DeletionNotes, DeletionCleans, DeletionRemovesRow, DeletionVerifies, DeletionRaises, DeletionFails
<1>3. ASSUME NEW k \in Jobs, Lifecycle(k) PROVE Stays
  BY <1>3 DEF Lifecycle, AcceptLifecycle, AcceptJob, AnswerLifecycle, LifecycleNotQueued, LifecycleBegins,
     LifecycleEnds, RecreationEnds, LifecycleRaises, LifecycleDone, LifecycleFails, LifecycleLost,
     HostLost, runnerVars
<1>4. ASSUME NEW k \in Jobs, Rotation(k) PROVE Stays
  BY <1>4 DEF Rotation, AcceptRotation, AcceptJob, CompensateRotation, RotationBegins, RotationConfirms,
     RotationRaises, RotationFails, ScriptBegins, Preflight, Advance, ScriptFails, ScriptDone,
     ScriptKilled, HostLost, runnerVars
<1>5. ASSUME NEW k \in Jobs, KeyRotation(k) PROVE Stays
  BY <1>5 DEF KeyRotation, AcceptManual, ScanClaims, AcceptJob, KeyRotationNotQueued, KeyRotationBegins,
     RotationEnds, StoreKeys, Invalidate, KeyRotationDone, KeyRotationRaises, BlockAfterFailure,
     BlockFails, KeyScriptBegins, KeyScriptRefused, KeyScriptStep, KeyScriptDone, KeyScriptTurnsBack,
     KeyScriptTurnedBack, KeyScriptDies, KeyScriptLost, HostLost, runnerVars
<1>6. Runner => Stays
  BY DEF Runner, Enqueue, EnqueueFails, TakeJob, RecoverJob, HostBegins, WithdrawIntent, ApiStops,
     ApiStarts, Serve
<1>7. HostWorks => Stays
  BY DEF HostWorks
<1>8. ASSUME NEW k \in Jobs, RestoreScript(k) \/ \E c \in HostSteps : DeleteScript(k, c) PROVE HostWorks
  BY <1>8, RestoreScriptActs, DeleteScriptActs
<1>11. Rotates => HostWorks
  BY RotatesActs
<1>9. Write \/ Sync \/ Studio \/ ScanReadsExpiry \/ KeysAge \/ (\E on \in BOOLEAN : SetAutomatic(on))
      \/ Saves \/ UNCHANGED vars => Stays
  BY DEF Write, Sync, Studio, Promote, FetchKey, PublishKey, ScanReadsExpiry, KeysAge, SetAutomatic,
     Saves, ReadEnv, ReplaceEnv, SaveFails, vars, runnerVars
<1>10. Stays
  <2> HIDE DEF Stays
  <2> QED
    BY <1>0, <1>1, <1>2, <1>3, <1>4, <1>5, <1>6, <1>7, <1>8, <1>11, <1>9 DEF Next, Operates
<1> QED
  BY <1>10

\* Every step is one of the queue and the worker, of a job on points, or moves none of them
\* and changes the rows only by removing all.
LEMMA NextRows ==
  ASSUME OperationsInv, [Next]_vars
  PROVE  \/ Runner /\ point' = point
         \/ \E k \in PointJobs : RowsMove(k)
         \/ /\ Unmoved(PointJobs) /\ OneLife
            /\ point' = point \/ (~project' /\ \A p \in Points : point'[p] = "absent")
<1> USE DEF OperationsInv
<1>0. /\ requests \subseteq Jobs /\ HolderRotates /\ files \in BOOLEAN /\ PointJobs \in SUBSET Jobs /\ RunnerInv
  BY RunnerAssumption DEF RunnerInv, RunnerTypes, ReferenceInv, Steady, ScriptHolds, HolderRotates, PointJobs
<1> DEFINE Aside == Unmoved(PointJobs) /\ OneLife
           Rows  == point' = point \/ (~project' /\ \A p \in Points : point'[p] = "absent")
<1>a. HostWorks => Aside
  BY <1>0, OthersMoveNone
<1>b. ASSUME NEW k \in Jobs, k \notin PointJobs, RunnerWorks(k) \/ AcceptJob(k) PROVE Aside
  BY <1>0, <1>b, OthersMoveNone
<1>c. UNCHANGED pointVars \/ UNCHANGED dataVars => point' = point
  BY DEF dataVars, pointVars
<1>d. UNCHANGED runnerVars => HostWorks
  BY <1>0 DEF runnerVars, HostWorks
<1>1. ASSUME NEW k \in Jobs, Data(k) PROVE (k \in PointJobs /\ RowsMove(k)) \/ (Aside /\ point' = point)
  <2>1. CASE RowsMove(k)
    <3>1. k \in PointJobs
      BY <2>1 DEF RowsMove, AcceptBackup, AcceptRestore, AcceptDeletePoint, CompensateRows, RunnerBegins,
         SettleRows, SettleSafety, SettleTarget, FinishJob, ExceptRows, FailJob, RunnerRaises, PointJobs,
         Restores
    <3> QED
      BY <2>1, <3>1
  <2>2. CASE BackupDone(k) \/ DeletePointDone(k) \/ RestoreSaves(k) \/ RestoreSwaps(k)
    <3>1. The(k) \in Intents \/ UNCHANGED runnerVars
      BY <2>2, RunningTells DEF BackupDone, DeletePointDone, RestoreSaves, RestoreSwaps
    <3>2. HostWorks
      BY <1>0, <1>d, <2>2, <3>1, HandlerWorks DEF BackupDone, DeletePointDone, RestoreSaves, RestoreSwaps, still
    <3> QED
      BY <1>a, <2>2, <3>2 DEF BackupDone, DeletePointDone, RestoreSaves, RestoreSwaps
  <2> QED
    BY <1>1, <2>1, <2>2 DEF Data, RowsMove
<1>2. ASSUME NEW k \in Jobs, Deletion(k) PROVE Aside /\ Rows
  <2>1. Rows
    BY <1>2, <1>c DEF Deletion, AcceptDeletion, DeletionNotQueued, DeletionBegins, DeletionSubmits,
       DeletionNotes, DeletionCleans, DeletionRemovesRow, DeletionVerifies, DeletionRaises, DeletionFails
  <2>2. k \notin PointJobs /\ OperationActs(k)
    BY <1>0, <1>2, OthersHaveNoPoint, DeletionActs
  <2> QED
    BY <1>a, <1>b, <2>1, <2>2 DEF OperationActs
<1>3. ASSUME NEW k \in Jobs, RestoreScript(k) PROVE Aside /\ point' = point
  <2>1. point' = point
    BY <1>3 DEF RestoreScript, RestoreStops, RestoreRefused, RestoreDone, RestoreFails, PointHandlerLost,
       PointScriptFails
  <2> QED
    BY <1>0, <1>3, <1>a, <2>1, RestoreScriptActs
<1>4. ASSUME NEW k \in Jobs, NEW c \in HostSteps, DeleteScript(k, c) PROVE Aside /\ point' = point
  <2>1. point' = point
    BY <1>4, DeleteScriptTells DEF DeleteHostDone, DeleteHostFails, DeleteHostLost, pointVars
  <2> QED
    BY <1>0, <1>4, <1>a, <2>1, DeleteScriptActs
<1>5. ASSUME NEW k \in Jobs, Lifecycle(k) \/ Rotation(k) \/ KeyRotation(k) PROVE Aside
  <2>1. k \notin PointJobs /\ OperationActs(k)
    BY <1>0, <1>5, OthersHaveNoPoint, LifecycleActs, RotationActs, KeyRotationActs
  <2> QED
    BY <1>a, <1>b, <2>1 DEF OperationActs
<1>6. Rotates => Aside
  BY <1>0, <1>a, RotatesActs
<1>7. Write \/ Sync \/ Studio \/ ScanReadsExpiry \/ KeysAge \/ (\E on \in BOOLEAN : SetAutomatic(on))
      \/ Saves \/ UNCHANGED vars => Aside
  BY <1>a, <1>d DEF Write, Sync, Studio, Promote, FetchKey, PublishKey, ScanReadsExpiry, KeysAge, SetAutomatic,
     Saves, ReadEnv, ReplaceEnv, SaveFails, vars
<1>8. Write => point' = point
  BY DEF Write
<1>9. /\ UNCHANGED <<dataVars, runtimeVars>> => point' = point
      /\ UNCHANGED <<dataVars, rotationVars, keyRotationVars>> => point' = point
      /\ UNCHANGED <<dataVars, keyRotationVars>> => point' = point
      /\ UNCHANGED vars => point' = point
  BY <1>c DEF vars
<1> DEFINE Claimed == \/ Runner /\ point' = point
                      \/ \E k \in PointJobs : RowsMove(k)
                      \/ Aside /\ Rows
<1>10. ASSUME NEW k \in Jobs, Data(k) PROVE Claimed
  BY <1>1, <1>10
<1>11. ASSUME NEW k \in Jobs, Deletion(k) \/ RestoreScript(k) \/ \E c \in HostSteps : DeleteScript(k, c) PROVE Claimed
  BY <1>2, <1>3, <1>4, <1>11
<1>12. Runner /\ UNCHANGED <<dataVars, runtimeVars>> => Claimed
  BY <1>9
<1>13. Aside /\ point' = point => Claimed
  OBVIOUS
<1>14. Claimed
  <2> HIDE DEF Aside, Rows, Claimed
  <2> QED
    BY <1>0, <1>c, <1>5, <1>6, <1>7, <1>8, <1>9, <1>10, <1>11, <1>12, <1>13 DEF Next, Operates
<1> QED
  BY <1>14

-----------------------------------------------------------------------------
(* Claims are kept in one life. *)

\* A restore whose safety point is still to be settled.
Saving(j) == j \in Restores /\ pc[j] \in {"accepted", "compensate", "waiting", "begin", "wait"}

\* Each job in the queue waits there, once.
QueueWaits ==
  /\ \A n \in DOMAIN queue : pc[queue[n]] = "waiting"
  /\ \A m, n \in DOMAIN queue : queue[m] = queue[n] => m = n

\* Nobody asks for anything of a safety point before the restore has settled it.
SafetyIsFree ==
  \A j \in Restores :
    /\ job[j] = "absent" => point[Safety[j]] = "absent"
    /\ Saving(j) => point[Safety[j]] \in {"creating", "absent"}
    /\ job[j] = "absent" \/ Saving(j) =>
         \A i \in PointJobs : Target[i] = Safety[j] => job[i] = "absent"

ClaimInv == QueueWaits /\ (~restarted => api = "up" /\ SafetyIsFree)

\* A job that moves on with what it has claimed.
MovesOn(j) ==
  /\ pc[j] \in {"accepted", "waiting"} /\ pc'[j] \in {"compensate", "waiting", "begin"}
  /\ job[j] # "absent" /\ job'[j] # "absent"

\* What is in the queue waits there until the worker takes it.
LEMMA QueueWaitsOn == OperationsInv /\ QueueWaits /\ [Next]_vars => QueueWaits'
<1> SUFFICES ASSUME OperationsInv, QueueWaits, [Next]_vars PROVE QueueWaits'
  OBVIOUS
<1>0. /\ RunnerInv /\ RunnerTypes /\ HolderRotates /\ requests \subseteq Jobs
      /\ \A n \in DOMAIN queue : queue[n] \in Jobs /\ pc[queue[n]] = "waiting"
  BY RunnerAssumption DEF OperationsInv, RunnerInv, RunnerTypes, ReferenceInv, Steady, ScriptHolds,
     HolderRotates, QueueWaits
<1>1. HostWorks => QueueWaits'
  BY DEF HostWorks, QueueWaits
<1>2. ASSUME NEW k \in Jobs, pc[k] # "waiting", queue' = queue, \A j \in Jobs \ {k} : pc'[j] = pc[j]
      PROVE  QueueWaits'
  BY <1>0, <1>2 DEF QueueWaits
<1>3. ASSUME NEW k \in Jobs, RunnerWorks(k) \/ AcceptJob(k) PROVE QueueWaits'
  <2>1. pc[k] # "waiting"
    BY <1>0, <1>3 DEF RunnerWorks, AcceptJob, RunnerInv, JobsAreKnown
  <2>2. queue' = queue /\ \A j \in Jobs \ {k} : pc'[j] = pc[j]
    BY <1>0, <1>3 DEF RunnerWorks, AcceptJob, Goto, RunnerTypes
  <2> QED
    BY <1>2, <2>1, <2>2
<1>4. ASSUME NEW k \in Jobs, EnqueueFails(k) \/ RecoverJob(k) PROVE QueueWaits'
  <2>1. pc[k] # "waiting" /\ queue' = queue
    BY <1>4 DEF EnqueueFails, RecoverJob, Unrecovered
  <2>2. pc' = pc \/ \E place : Goto(k, place)
    BY <1>4 DEF EnqueueFails, RecoverJob
  <2>3. \A j \in Jobs \ {k} : pc'[j] = pc[j]
    BY <1>0, <2>2 DEF Goto, RunnerTypes
  <2> QED
    BY <1>2, <2>1, <2>3
<1>5. ASSUME NEW k \in Jobs, Enqueue(k) PROVE QueueWaits'
  <2>1. queue \in Seq(Jobs) /\ queue' = Append(queue, k) /\ pc' = [pc EXCEPT ![k] = "waiting"] /\ pc[k] = "accepted"
    BY <1>0, <1>5 DEF Enqueue, Goto, RunnerTypes
  <2>2. /\ DOMAIN queue = 1 .. Len(queue) /\ DOMAIN queue' = 1 .. (Len(queue) + 1) /\ Len(queue) \in Nat
        /\ \A n \in 1 .. Len(queue) : queue'[n] = queue[n]
        /\ queue'[Len(queue) + 1] = k
    BY <2>1
  <2>3. \A n \in DOMAIN queue : queue[n] # k
    BY <1>0, <2>1
  <2>4. \A n \in DOMAIN queue' : n \in DOMAIN queue \/ n = Len(queue) + 1
    BY <2>2
  <2>5. \A n \in DOMAIN queue' : pc'[queue'[n]] = "waiting"
    BY <1>0, <2>1, <2>2, <2>4 DEF RunnerTypes
  <2>6. \A m, n \in DOMAIN queue' : queue'[m] = queue'[n] => m = n
    BY <2>2, <2>3, <2>4 DEF QueueWaits
  <2> QED
    BY <2>5, <2>6 DEF QueueWaits
<1>6. ASSUME NEW k \in Jobs, TakeJob(k) PROVE QueueWaits'
  <2>1. queue \in Seq(Jobs) /\ queue # <<>> /\ k = queue[1] /\ queue' = Tail(queue) /\ pc' = [pc EXCEPT ![k] = "begin"]
    BY <1>0, <1>6 DEF TakeJob, Goto, RunnerTypes
  <2>2. /\ DOMAIN queue = 1 .. Len(queue) /\ Len(queue) \in Nat \ {0} /\ DOMAIN queue' = 1 .. (Len(queue) - 1)
        /\ \A n \in DOMAIN queue' : queue'[n] = queue[n + 1]
    BY <2>1
  <2>3. \A n \in DOMAIN queue' : n \in Int /\ n + 1 \in DOMAIN queue /\ n + 1 # 1 /\ 1 \in DOMAIN queue
    BY <2>2
  <2>4. \A n \in DOMAIN queue' : queue'[n] \in Jobs \ {k} /\ pc[queue'[n]] = "waiting"
    BY <1>0, <2>1, <2>2, <2>3 DEF QueueWaits
  <2>5. \A m, n \in DOMAIN queue' : queue'[m] = queue'[n] => m + 1 = n + 1
    BY <2>2, <2>3 DEF QueueWaits
  <2>6. \A m, n \in DOMAIN queue' : m + 1 = n + 1 => m = n
    BY <2>3
  <2> QED
    BY <1>0, <2>1, <2>4, <2>5, <2>6 DEF QueueWaits, RunnerTypes
<1>7. (\E i \in Intents : HostBegins(i) \/ WithdrawIntent(i)) \/ ApiStarts \/ Serve => QueueWaits'
  BY DEF HostBegins, WithdrawIntent, ApiStarts, Serve, QueueWaits
<1>8. ApiStops => QueueWaits'
  BY DEF ApiStops, QueueWaits
<1> QED
  BY <1>0, <1>1, <1>3, <1>4, <1>5, <1>6, <1>7, <1>8, NextActs DEF Runner

\* In one life the queue and the worker take a job on, or leave it.
LEMMA RunnerMovesOn ==
  ASSUME OperationsInv, QueueWaits, Runner, api = "up", ~restarted'
  PROVE  /\ ~restarted /\ api' = "up"
         /\ \A j \in Jobs : (pc'[j] = pc[j] /\ job'[j] = job[j]) \/ MovesOn(j)
<1>0. RunnerInv /\ RunnerTypes /\ requests \subseteq Jobs
  BY RunnerAssumption DEF OperationsInv, RunnerInv, RunnerTypes
<1> DEFINE On == /\ ~restarted /\ api' = "up"
                 /\ \A j \in Jobs : (pc'[j] = pc[j] /\ job'[j] = job[j]) \/ MovesOn(j)
<1>1. ASSUME NEW k \in Jobs, Enqueue(k) \/ TakeJob(k) PROVE On
  <2>1. job[k] # "absent" /\ job' = job /\ UNCHANGED <<restarted, api>>
    BY <1>0, <1>1 DEF Enqueue, TakeJob, RunnerInv, JobsAreKnown, still
  <2>2. \/ pc[k] = "accepted" /\ pc' = [pc EXCEPT ![k] = "waiting"]
        \/ pc[k] = "waiting" /\ pc' = [pc EXCEPT ![k] = "begin"]
    <3>1. CASE Enqueue(k)
      BY <3>1 DEF Enqueue, Goto
    <3>2. CASE TakeJob(k)
      <4>1. queue \in Seq(Jobs) /\ queue # <<>> /\ k = queue[1]
        BY <1>0, <3>2 DEF TakeJob, RunnerTypes
      <4>2. 1 \in DOMAIN queue
        BY <4>1
      <4> QED
        BY <3>2, <4>1, <4>2 DEF TakeJob, Goto, QueueWaits
    <3> QED
      BY <1>1, <3>1, <3>2
  <2>3. MovesOn(k) /\ \A j \in Jobs \ {k} : pc'[j] = pc[j] /\ job'[j] = job[j]
    BY <1>0, <2>1, <2>2 DEF RunnerTypes, MovesOn
  <2> QED
    BY <2>1, <2>3
<1>2. ASSUME NEW k \in Jobs, EnqueueFails(k) PROVE On
  <2>1. /\ pc[k] = "accepted" /\ pc' = [pc EXCEPT ![k] = "compensate"] /\ job' = [job EXCEPT ![k] = "failed"]
        /\ UNCHANGED <<restarted, api>>
    BY <1>2 DEF EnqueueFails, Goto, Settle, still
  <2>2. job[k] # "absent"
    BY <1>0, <2>1 DEF RunnerInv, JobsAreKnown
  <2>3. MovesOn(k) /\ \A j \in Jobs \ {k} : pc'[j] = pc[j] /\ job'[j] = job[j]
    BY <1>0, <2>1, <2>2 DEF RunnerTypes, MovesOn
  <2> QED
    BY <2>1, <2>3
<1>3. (\E i \in Intents : HostBegins(i) \/ WithdrawIntent(i)) => On
  BY DEF HostBegins, WithdrawIntent, still
<1>4. ~ApiStops /\ ~ApiStarts /\ ~Serve /\ \A k \in Jobs : ~RecoverJob(k)
  BY DEF ApiStops, ApiStarts, Serve, RecoverJob
<1>5. On
  <2> HIDE DEF On
  <2> QED
    BY <1>0, <1>1, <1>2, <1>3, <1>4 DEF Runner
<1> QED
  BY <1>5

\* What moves on, or stays, keeps its claim.
LEMMA ClaimsMoveOn ==
  ASSUME \A j \in PointJobs : (pc'[j] = pc[j] /\ job'[j] = job[j]) \/ MovesOn(j)
  PROVE  /\ point' = point /\ SafetyIsFree => SafetyIsFree'
         /\ point' = point /\ ClaimsStand => ClaimsStand'
         /\ (\A p \in Points : point'[p] = "absent") /\ SafetyIsFree => SafetyIsFree'
<1>0. Restores \subseteq PointJobs /\ PointJobs \subseteq Jobs /\ \A j \in Restores : Safety[j] \in Points
  BY PointsAssumption DEF Restores, PointJobs
<1>1. \A j \in Restores : (Saving(j)' => Saving(j)) /\ (job'[j] = "absent" => job[j] = "absent")
  BY <1>0 DEF Saving, MovesOn
<1>2. \A j \in Jobs : Unsettled(j)' => Unsettled(j)
  BY DEF Unsettled, MovesOn
<1>3. \A j \in Jobs : Claim(j)' = Claim(j)
  BY DEF Claim
<1>4. \A i \in PointJobs : job[i] = "absent" => job'[i] = "absent"
  BY DEF MovesOn
<1>5. SafetyIsFree =>
        \A j \in Restores : job'[j] = "absent" \/ Saving(j)' =>
          \A i \in PointJobs : Target[i] = Safety[j] => job'[i] = "absent"
  BY <1>1, <1>4 DEF SafetyIsFree
<1>6. point' = point /\ SafetyIsFree => SafetyIsFree'
  BY <1>1, <1>5 DEF SafetyIsFree
<1>7. (\A p \in Points : point'[p] = "absent") /\ SafetyIsFree => SafetyIsFree'
  BY <1>0, <1>5 DEF SafetyIsFree
<1> QED
  BY <1>2, <1>3, <1>6, <1>7 DEF ClaimsStand

\* What the assumptions on the points say of two jobs.
LEMMA PointsAreApart ==
  /\ Restores \subseteq PointJobs /\ PointJobs \subseteq Jobs
  /\ \A j \in PointJobs : Target[j] \in Points /\ Action[j] \in {"backup", "restore", "delete_restore_point"}
  /\ \A j \in Restores : Safety[j] \in Points /\ Safety[j] # Target[j] /\ Action[j] = "restore"
  /\ \A j \in Restores, k \in Restores : j # k => Safety[j] # Safety[k]
  /\ \A j \in Restores, k \in PointJobs : Action[k] = "backup" => Target[k] # Safety[j]
  /\ \A j \in PointJobs : j \notin Restores <=> Action[j] # "restore"
  BY PointsAssumption DEF Restores, PointJobs

\* What a claim is.
LEMMA ClaimsTell ==
  ASSUME NEW j \in PointJobs
  PROVE  /\ Action[j] = "backup" => Claim(j) = "creating"
         /\ Action[j] = "restore" => Claim(j) = "restoring"
         /\ Action[j] = "delete_restore_point" => Claim(j) = "deleting"
         /\ Claim(j)' = Claim(j)
  BY DEF Claim

\* Where a step of a job on points leads.
LEMMA RowsMoveOn ==
  ASSUME RunnerInv, NEW k \in PointJobs, RowsMove(k)
  PROVE  /\ UNCHANGED <<api, restarted>>
         /\ \A j \in Jobs \ {k} : pc'[j] = pc[j] /\ job'[j] = job[j]
         /\ job'[k] # "absent"
         /\ \/ AcceptBackup(k) \/ AcceptRestore(k) \/ AcceptDeletePoint(k)
            \/ /\ pc[k] # "none" /\ job[k] # "absent"
               /\ Unsettled(k)' => Unsettled(k)
               /\ Saving(k)' => Saving(k)
<1>0. RunnerTypes /\ k \in Jobs
  BY DEF RunnerInv, PointJobs
<1>1. RunnerWorks(k) \/ AcceptJob(k)
  <2>1. CASE AcceptBackup(k) \/ AcceptRestore(k) \/ AcceptDeletePoint(k)
    BY <2>1 DEF AcceptBackup, AcceptRestore, AcceptDeletePoint
  <2>2. CASE RunnerBegins(k)
    <3>1. Action[k] # "delete"
      BY <2>2 DEF RunnerBegins, PointJobs
    <3> QED
      BY <1>0, <2>2, <3>1, AttachSubmits DEF RunnerBegins, RunnerWorks, Resting, AllPlaces, PointPlaces,
         RunnerTypes, still
  <2>3. CASE \/ CompensateRows(k) \/ SettleRows(k) \/ SettleSafety(k) \/ SettleTarget(k) \/ ExceptRows(k)
             \/ RunnerRaises(k)
    BY <1>0, <2>3 DEF CompensateRows, SettleRows, SettleSafety, SettleTarget, ExceptRows, RunnerRaises,
       RunnerWorks, Resting, AllPlaces, PointPlaces, RunnerTypes, still
  <2>4. CASE FinishJob(k) \/ FailJob(k)
    BY <1>0, <2>4 DEF FinishJob, FailJob, RunnerWorks, Resting, JobFinal, RunnerTypes, still
  <2> QED
    BY <2>1, <2>2, <2>3, <2>4 DEF RowsMove
<1>2. UNCHANGED <<api, restarted>> /\ \A j \in Jobs \ {k} : pc'[j] = pc[j] /\ job'[j] = job[j]
  BY <1>0, <1>1 DEF RunnerWorks, AcceptJob, Goto, Settle, RunnerTypes, still
<1>3. job'[k] # "absent"
  BY <1>0, <1>1 DEF RunnerWorks, AcceptJob, Settle, RunnerTypes, RunnerInv, JobsAreKnown, JobFinal
<1>4. ASSUME RowsMove(k), ~AcceptBackup(k), ~AcceptRestore(k), ~AcceptDeletePoint(k)
      PROVE  /\ pc[k] # "none"
             /\ Unsettled(k)' => Unsettled(k)
             /\ Saving(k)' => Saving(k)
  <2>1. \/ pc[k] = "compensate" /\ pc'[k] = "none"
        \/ pc[k] = "begin" /\ pc'[k] = "wait"
        \/ pc[k] \in {"begin", "wait", "settle", "finish"} /\ pc'[k] = "except"
        \/ pc[k] = "wait" /\ pc'[k] \in {"settle", "finish"}
        \/ pc[k] = "settle" /\ pc'[k] = "finish"
        \/ pc[k] = "finish" /\ pc'[k] = "none"
        \/ pc[k] = "except" /\ pc'[k] = "fail"
        \/ pc[k] = "fail" /\ pc'[k] = "none"
    BY <1>0, <1>4 DEF RowsMove, CompensateRows, RunnerBegins, SettleRows, SettleSafety, SettleTarget, FinishJob,
       ExceptRows, FailJob, RunnerRaises, Goto, RunnerTypes
  <2> QED
    BY <2>1 DEF Unsettled, Saving
<1> QED
  BY <1>0, <1>2, <1>3, <1>4 DEF RunnerInv, JobsAreKnown

\* What a step of a job on points makes of the rows: only its own change.
LEMMA RowsMoveOwn ==
  ASSUME RunnerInv, PointsTypeOK, NEW k \in PointJobs, RowsMove(k)
  PROVE  /\ \A p \in Points : p # Target[k] /\ (k \in Restores => p # Safety[k]) => point'[p] = point[p]
         /\ \/ AcceptBackup(k) \/ AcceptRestore(k) \/ AcceptDeletePoint(k)
            \/ \A p \in Points : point[p] = "absent" => point'[p] = "absent"
         /\ \/ AcceptBackup(k) \/ AcceptRestore(k) \/ AcceptDeletePoint(k)
            \/ SettleSafety(k) /\ point'[Target[k]] = point[Target[k]]
            \/ pc[k] \in {"compensate", "except"}
            \/ (SettleRows(k) \/ SettleTarget(k)) /\ (k \in Restores => point'[Safety[k]] = point[Safety[k]])
            \/ point' = point
<1>0. point \in [Points -> PointStatus]
  BY DEF PointsTypeOK
<1>1. CASE AcceptBackup(k) \/ AcceptRestore(k) \/ AcceptDeletePoint(k)
  BY <1>0, <1>1, PointsAreApart DEF AcceptBackup, AcceptRestore, AcceptDeletePoint
<1>2. CASE CompensateRows(k)
  BY <1>0, <1>2, PointsAreApart DEF CompensateRows, RowsCompensated
<1>3. CASE SettleRows(k)
  BY <1>0, <1>3, PointsAreApart DEF SettleRows, RowsSettled, SetPoint
<1>4. CASE SettleSafety(k)
  BY <1>0, <1>4, PointsAreApart DEF SettleSafety, SetPoint
<1>5. CASE SettleTarget(k)
  BY <1>0, <1>5, PointsAreApart DEF SettleTarget, SetPoint
<1>6. CASE ExceptRows(k)
  BY <1>0, <1>6, PointsAreApart DEF ExceptRows, RowsExcept
<1>7. CASE RunnerBegins(k) \/ FinishJob(k) \/ FailJob(k) \/ RunnerRaises(k)
  BY <1>7 DEF RunnerBegins, FinishJob, FailJob, RunnerRaises, pointVars
<1> QED
  BY <1>1, <1>2, <1>3, <1>4, <1>5, <1>6, <1>7 DEF RowsMove

\* A job on points leaves the safety points of the others alone.
LEMMA SafetyStaysFree ==
  ASSUME OperationsInv, SafetyIsFree, NEW k \in PointJobs, RowsMove(k)
  PROVE  SafetyIsFree'
<1>0. RunnerInv /\ PointsTypeOK
  BY DEF OperationsInv
<1>a. /\ \A j \in Jobs \ {k} : pc'[j] = pc[j] /\ job'[j] = job[j]
      /\ job'[k] # "absent"
      /\ \A p \in Points : p # Target[k] /\ (k \in Restores => p # Safety[k]) => point'[p] = point[p]
  BY <1>0, RowsMoveOn, RowsMoveOwn
<1>b. \A j \in Restores \ {k} : (Saving(j)' => Saving(j)) /\ job'[j] = job[j] /\ j \in Jobs
  BY <1>a, PointsAreApart DEF Saving
<1>1. CASE AcceptBackup(k) \/ AcceptRestore(k) \/ AcceptDeletePoint(k)
  <2>1. /\ job[k] = "absent" /\ pc[k] = "none"
        /\ k \in Restores => point[Safety[k]] = "absent" /\ point'[Safety[k]] = "creating"
        /\ Action[k] # "backup" => point[Target[k]] \notin {"absent", "creating"}
    BY <1>0, <1>1, PointsAreApart DEF AcceptBackup, AcceptRestore, AcceptDeletePoint, AcceptJob,
       RunnerInv, JobsAreKnown, PointsTypeOK
  <2>2. ASSUME NEW j \in Restores \ {k}, job'[j] = "absent" \/ Saving(j)'
        PROVE  point'[Safety[j]] = point[Safety[j]] /\ Target[k] # Safety[j]
    <3>1. point[Safety[j]] \in {"creating", "absent"}
      BY <1>b, <2>2 DEF SafetyIsFree
    <3>2. Target[k] # Safety[j]
      BY <2>1, <3>1, PointsAreApart
    <3> QED
      BY <1>a, <3>2, PointsAreApart
  <2>3. ASSUME NEW j \in Restores \ {k}, job'[j] = "absent" \/ Saving(j)', NEW i \in PointJobs, Target[i] = Safety[j]
        PROVE  job'[i] = "absent"
    BY <1>a, <1>b, <2>2, <2>3, PointsAreApart DEF SafetyIsFree
  <2>4. ASSUME k \in Restores, NEW i \in PointJobs, Target[i] = Safety[k] PROVE job'[i] = "absent"
    BY <1>a, <2>1, <2>4, PointsAreApart DEF SafetyIsFree
  <2>5. \A j \in Restores \ {k} : /\ job'[j] = "absent" => point'[Safety[j]] = "absent"
                                  /\ Saving(j)' => point'[Safety[j]] \in {"creating", "absent"}
    BY <1>b, <2>2 DEF SafetyIsFree
  <2> QED
    BY <1>a, <2>1, <2>3, <2>4, <2>5 DEF SafetyIsFree
<1>2. CASE ~(AcceptBackup(k) \/ AcceptRestore(k) \/ AcceptDeletePoint(k))
  <2>1. job[k] # "absent" /\ (Saving(k)' => Saving(k)) /\ pc[k] # "none"
    BY <1>0, <1>2, RowsMoveOn
  <2>2. ASSUME NEW j \in Restores \ {k}, job'[j] = "absent" \/ Saving(j)'
        PROVE  point'[Safety[j]] = point[Safety[j]]
    BY <1>a, <1>b, <2>1, <2>2, PointsAreApart DEF SafetyIsFree
  <2>3. ASSUME k \in Restores, Saving(k)' PROVE point'[Safety[k]] = point[Safety[k]]
    <3>1. RunnerBegins(k)
      BY <1>0, <1>2, <2>3, PointsAreApart DEF RowsMove, CompensateRows, SettleRows, SettleSafety,
         SettleTarget, FinishJob, ExceptRows, FailJob, RunnerRaises, Saving, Goto, RunnerInv, RunnerTypes
    <3> QED
      BY <3>1 DEF RunnerBegins, pointVars
  <2>4. ASSUME NEW j \in Restores, job'[j] = "absent" \/ Saving(j)', NEW i \in PointJobs, Target[i] = Safety[j]
        PROVE  job'[i] = "absent"
    BY <1>a, <1>b, <2>1, <2>4, PointsAreApart DEF SafetyIsFree
  <2>5. \A j \in Restores : /\ job'[j] = "absent" => point'[Safety[j]] = "absent"
                            /\ Saving(j)' => point'[Safety[j]] \in {"creating", "absent"}
    BY <1>a, <1>b, <2>1, <2>2, <2>3 DEF SafetyIsFree
  <2> QED
    BY <2>4, <2>5 DEF SafetyIsFree
<1> QED
  BY <1>1, <1>2

\* A job on points takes no claim of another away, but by the error path of an earlier job
\* of the same kind.
LEMMA RowsKeepClaims ==
  ASSUME OperationsInv, SafetyIsFree, ClaimsStand, NEW k \in PointJobs, RowsMove(k)
  PROVE  \/ ClaimsStand'
         \/ \E j, i \in PointJobs : /\ pc[j] = "except" /\ Unsettled(i) /\ j # i
                                   /\ Target[j] = Target[i] /\ Action[j] = Action[i]
<1>0. RunnerInv /\ PointsTypeOK
  BY DEF OperationsInv
<1>a. /\ \A j \in Jobs \ {k} : pc'[j] = pc[j] /\ job'[j] = job[j]
      /\ \A p \in Points : p # Target[k] /\ (k \in Restores => p # Safety[k]) => point'[p] = point[p]
  BY <1>0, RowsMoveOn, RowsMoveOwn
<1>b. \A j \in Jobs \ {k} : Unsettled(j)' <=> Unsettled(j)
  BY <1>a DEF Unsettled
<1>c. \A j \in Jobs : Unsettled(j) => j \in PointJobs /\ Target[j] \in Points /\ job[j] # "absent"
  BY <1>0, PointsAreApart DEF Unsettled, RunnerInv, JobsAreKnown
<1>d. \A j \in PointJobs : Claim(j)' = Claim(j) /\ Claim(j) \notin {"absent", "ready", "failed"}
  BY ClaimsTell, PointsAreApart
<1>1. CASE AcceptBackup(k) \/ AcceptRestore(k) \/ AcceptDeletePoint(k)
  <2>1. /\ point[Target[k]] \in {"absent", "ready", "failed"}
        /\ k \in Restores => point[Safety[k]] = "absent"
        /\ point'[Target[k]] = Claim(k)
    BY <1>0, <1>1, ClaimsTell, PointsAreApart DEF AcceptBackup, AcceptRestore, AcceptDeletePoint, PointsTypeOK
  <2>2. ASSUME NEW j \in Jobs \ {k}, Unsettled(j)
        PROVE  Target[j] # Target[k] /\ point'[Target[j]] = Claim(j)
    <3>1. point[Target[j]] = Claim(j) /\ Claim(j) \notin {"absent", "ready", "failed"}
      BY <1>c, <1>d, <2>2 DEF ClaimsStand
    <3> QED
      BY <1>a, <1>c, <2>1, <2>2, <3>1
  <2> QED
    BY <1>b, <1>c, <1>d, <2>1, <2>2 DEF ClaimsStand
<1>2. ASSUME ~(AcceptBackup(k) \/ AcceptRestore(k) \/ AcceptDeletePoint(k)),
             \A j \in Jobs : Unsettled(j)' => point'[Target[j]] = point[Target[j]]
      PROVE  ClaimsStand'
  <2>1. \A j \in Jobs : Unsettled(j)' => Unsettled(j)
    BY <1>0, <1>2, <1>b, RowsMoveOn
  <2> QED
    BY <1>2, <1>c, <1>d, <2>1 DEF ClaimsStand
<1>3. CASE SettleSafety(k)
  <2>1. Saving(k) /\ k \in Restores /\ ~(AcceptBackup(k) \/ AcceptRestore(k) \/ AcceptDeletePoint(k))
    BY <1>0, <1>3, PointsAreApart DEF SettleSafety, Saving, AcceptBackup, AcceptRestore,
       AcceptDeletePoint, AcceptJob, RunnerInv, JobsAreKnown
  <2>2. \A j \in Jobs \ {k} : Unsettled(j) => point'[Target[j]] = point[Target[j]]
    <3> SUFFICES ASSUME NEW j \in Jobs \ {k}, Unsettled(j) PROVE point'[Target[j]] = point[Target[j]]
      OBVIOUS
    <3>1. Target[j] # Safety[k]
      BY <1>c, <2>1 DEF SafetyIsFree
    <3>2. point'[Target[k]] = point[Target[k]]
      BY <1>0, <1>3, PointsAreApart DEF SettleSafety, SetPoint, PointsTypeOK
    <3> QED
      BY <1>a, <1>c, <3>1, <3>2
  <2>3. point'[Target[k]] = point[Target[k]]
    BY <1>0, <1>3, PointsAreApart DEF SettleSafety, SetPoint, PointsTypeOK
  <2> QED
    BY <1>2, <1>b, <2>1, <2>2, <2>3
<1>4. CASE CompensateRows(k) \/ SettleRows(k) \/ SettleTarget(k)
  <2>1. /\ Unsettled(k) /\ ~Unsettled(k)'
        /\ CompensateRows(k) \/ k \notin Restores \/ point'[Safety[k]] = point[Safety[k]]
        /\ CompensateRows(k) /\ k \in Restores => Saving(k)
        /\ ~(AcceptBackup(k) \/ AcceptRestore(k) \/ AcceptDeletePoint(k))
    <3>1. pc[k] \in {"compensate", "wait", "settle"} /\ pc'[k] \in {"none", "finish"}
      BY <1>0, <1>4 DEF CompensateRows, SettleRows, SettleTarget, Goto, RunnerInv, RunnerTypes, PointJobs
    <3>2. SettleRows(k) => k \notin Restores
      BY DEF SettleRows
    <3>3. SettleTarget(k) => k \in Restores /\ point'[Safety[k]] = point[Safety[k]]
      BY <1>0, PointsAreApart DEF SettleTarget, SetPoint, PointsTypeOK
    <3>4. CompensateRows(k) => pc[k] = "compensate"
      BY DEF CompensateRows
    <3>5. ~(AcceptBackup(k) \/ AcceptRestore(k) \/ AcceptDeletePoint(k))
      BY <1>0, <3>1, PointsAreApart DEF AcceptBackup, AcceptRestore, AcceptDeletePoint, AcceptJob,
         RunnerInv, JobsAreKnown
    <3> QED
      BY <1>4, <3>1, <3>2, <3>3, <3>4, <3>5 DEF Unsettled, Saving
  <2>2. ASSUME NEW j \in Jobs \ {k}, Unsettled(j) PROVE point'[Target[j]] = point[Target[j]]
    <3>1. Target[j] # Target[k]
      BY <2>1, <2>2, PointsAreApart DEF ClaimsStand
    <3>2. k \in Restores /\ Saving(k) => Target[j] # Safety[k]
      BY <1>c, <2>2 DEF SafetyIsFree
    <3> QED
      BY <1>a, <1>c, <1>4, <2>1, <2>2, <3>1, <3>2
  <2> QED
    BY <1>2, <1>b, <2>1, <2>2
<1>5. CASE ExceptRows(k)
  <2>1. /\ pc[k] = "except" /\ ~Unsettled(k)' /\ ~Unsettled(k)
        /\ ~(AcceptBackup(k) \/ AcceptRestore(k) \/ AcceptDeletePoint(k))
    BY <1>0, <1>5, PointsAreApart DEF ExceptRows, Goto, Unsettled, AcceptBackup, AcceptRestore,
       AcceptDeletePoint, AcceptJob, RunnerInv, RunnerTypes, JobsAreKnown
  <2>2. CASE \E j \in Jobs : Unsettled(j) /\ Target[j] = Target[k] /\ Action[j] = Action[k]
    BY <1>c, <2>1, <2>2
  <2>3. CASE ~\E j \in Jobs : Unsettled(j) /\ Target[j] = Target[k] /\ Action[j] = Action[k]
    <3>1. ASSUME NEW j \in Jobs, Unsettled(j) PROVE point'[Target[j]] = point[Target[j]]
      <4>1. j \in PointJobs /\ Target[j] \in Points /\ point[Target[j]] = Claim(j)
        BY <1>c, <3>1 DEF ClaimsStand
      <4>2. k \in Restores /\ Target[j] = Safety[k] => Claim(j) # "creating"
        BY <4>1, ClaimsTell, PointsAreApart
      <4>3. Target[j] = Target[k] => Action[j] # Action[k]
        BY <2>3, <3>1
      <4>4. Target[j] = Target[k] /\ Action[k] = "backup" => Claim(j) # "creating"
        BY <4>1, <4>3, ClaimsTell, PointsAreApart
      <4>5. Target[j] = Target[k] /\ Action[k] = "restore" => Claim(j) # "restoring"
        BY <4>1, <4>3, ClaimsTell, PointsAreApart
      <4>6. Target[j] = Target[k] /\ Action[k] = "delete_restore_point" => Claim(j) # "deleting"
        BY <4>1, <4>3, ClaimsTell, PointsAreApart
      <4>7. Action[k] = "restore" => k \in Restores
        BY PointsAreApart
      <4>8. point' = point \/ point'[Target[j]] = RowsExcept(k)[Target[j]]
        BY <1>5 DEF ExceptRows
      <4>9. RowsExcept(k)[Target[j]] = point[Target[j]]
        BY <4>1, <4>2, <4>4, <4>5, <4>6, <4>7 DEF RowsExcept
      <4> QED
        BY <4>8, <4>9
    <3> QED
      BY <1>2, <1>b, <2>1, <3>1
  <2> QED
    BY <2>2, <2>3
<1>6. CASE RunnerBegins(k) \/ FinishJob(k) \/ FailJob(k) \/ RunnerRaises(k)
  <2>1. point' = point
    BY <1>6 DEF RunnerBegins, FinishJob, FailJob, RunnerRaises, pointVars
  <2>2. ~(AcceptBackup(k) \/ AcceptRestore(k) \/ AcceptDeletePoint(k))
    BY <1>0, <1>6, PointsAreApart DEF RunnerBegins, FinishJob, FailJob, RunnerRaises, AcceptBackup,
       AcceptRestore, AcceptDeletePoint, AcceptJob, RunnerInv, JobsAreKnown
  <2> QED
    BY <1>2, <2>1, <2>2
<1> QED
  BY <1>1, <1>3, <1>4, <1>5, <1>6 DEF RowsMove

\* Nobody waits to begin with.
LEMMA InitClaims == Init => ClaimInv
<1> SUFFICES ASSUME Init PROVE ClaimInv
  OBVIOUS
<1>1. /\ queue = <<>> /\ api = "up" /\ \A j \in Jobs : pc[j] = "none" /\ job[j] = "absent"
      /\ \A p \in Points : point[p] = "absent"
  BY DEF Init, RunnerInit, PointsInit
<1>2. \A j \in Restores : Safety[j] \in Points /\ j \in Jobs /\ ~Saving(j)
  BY <1>1, PointsAreApart DEF Saving
<1> QED
  BY <1>1, <1>2, PointsAreApart DEF ClaimInv, QueueWaits, SafetyIsFree

\* Every step keeps who waits and what is free.
LEMMA NextClaims == OperationsInv /\ ClaimInv /\ [Next]_vars => ClaimInv'
<1> SUFFICES ASSUME OperationsInv, ClaimInv, [Next]_vars PROVE ClaimInv'
  OBVIOUS
<1>1. QueueWaits'
  BY QueueWaitsOn DEF ClaimInv
<1>2. ASSUME ~restarted' PROVE api' = "up" /\ SafetyIsFree'
  <2>a. RunnerInv /\ \A j \in PointJobs : j \in Jobs
    BY PointsAreApart DEF OperationsInv
  <2>b. restarted => restarted'
    BY <2>a, NextActs DEF OperationsInv, ReferenceInv, Steady, ScriptHolds, HolderRotates, Runner,
       HostWorks, RunnerWorks, AcceptJob, Enqueue, EnqueueFails, TakeJob, RecoverJob, HostBegins,
       WithdrawIntent, ApiStops, ApiStarts, Serve, still
  <2>c. api = "up" /\ SafetyIsFree
    BY <1>2, <2>b DEF ClaimInv
  <2>1. CASE Runner /\ point' = point
    BY <1>2, <2>a, <2>c, <2>1, RunnerMovesOn, ClaimsMoveOn DEF ClaimInv
  <2>2. ASSUME NEW k \in PointJobs, RowsMove(k) PROVE api' = "up" /\ SafetyIsFree'
    BY <2>a, <2>c, <2>2, RowsMoveOn, SafetyStaysFree
  <2>3. CASE /\ Unmoved(PointJobs) /\ OneLife
             /\ point' = point \/ \A p \in Points : point'[p] = "absent"
    BY <2>c, <2>3, ClaimsMoveOn DEF Unmoved, OneLife
  <2> QED
    BY <2>1, <2>2, <2>3, NextRows
<1> QED
  BY <1>1, <1>2 DEF ClaimInv

\* The state an endpoint gave a point keeps further requests away from it until the job
\* settles it (restore_points.py), and no late or compensating UPDATE of another job takes
\* it away, as long as the API is not restarted; but for the error path of an earlier job
\* of the same kind on the point, which tests the status alone (project_backgrounds.py).
THEOREM ClaimsAreKept == Spec => ClaimsAreKeptInOneLife
<1>2. OperationsInv /\ ClaimInv /\ [Next]_vars =>
        [~restarted /\ project' /\ ClaimsStand =>
           \/ ClaimsStand'
           \/ \E j, k \in PointJobs : /\ pc[j] = "except" /\ Unsettled(k) /\ j # k
                                     /\ Target[j] = Target[k] /\ Action[j] = Action[k]]_vars
  <2> SUFFICES ASSUME OperationsInv, ClaimInv, [Next]_vars, ~restarted, project', ClaimsStand
               PROVE  \/ ClaimsStand'
                      \/ \E j, k \in PointJobs : /\ pc[j] = "except" /\ Unsettled(k) /\ j # k
                                                /\ Target[j] = Target[k] /\ Action[j] = Action[k]
    OBVIOUS
  <2>0. api = "up" /\ SafetyIsFree /\ QueueWaits
    BY DEF ClaimInv
  <2>1. CASE Runner /\ point' = point
    <3>1. CASE ~restarted'
      BY <2>0, <2>1, <3>1, RunnerMovesOn, ClaimsMoveOn, PointsAreApart
    <3>2. CASE restarted'
      <4>1. ApiStops
        BY <2>1, <3>2 DEF Runner, Enqueue, EnqueueFails, TakeJob, RecoverJob, HostBegins, WithdrawIntent,
           ApiStarts, Serve, still
      <4> QED
        BY <4>1 DEF ApiStops, ClaimsStand, Unsettled
    <3> QED
      BY <3>1, <3>2
  <2>2. ASSUME NEW k \in PointJobs, RowsMove(k)
        PROVE  \/ ClaimsStand'
               \/ \E j, i \in PointJobs : /\ pc[j] = "except" /\ Unsettled(i) /\ j # i
                                         /\ Target[j] = Target[i] /\ Action[j] = Action[i]
    BY <2>0, <2>2, RowsKeepClaims
  <2>3. CASE Unmoved(PointJobs) /\ OneLife /\ point' = point
    BY <2>3, ClaimsMoveOn DEF Unmoved
  <2> QED
    BY <2>1, <2>2, <2>3, NextRows
<1> QED
  BY <1>2, InitClaims, InitOperations, NextOperations, NextClaims, PTL DEF Spec, ClaimsAreKeptInOneLife

-----------------------------------------------------------------------------
(* Who still owes a point its settling. *)

\* A job on a point that recovery takes up again.
TakenUp(j) == pc[j] = "none" /\ job[j] \in {"queued", "running"}

Owes(j, p) ==
  \/ /\ p = Target[j] /\ point[p] = Claim(j)
     /\ Unsettled(j) \/ pc[j] = "except" \/ TakenUp(j)
  \/ /\ j \in Restores /\ p = Safety[j] /\ point[p] = "creating"
     /\ Saving(j) \/ pc[j] = "except" \/ TakenUp(j)

Midway(p) == point[p] \in {"creating", "restoring", "deleting"}

\* A crash, a job that could not be queued and a runner's exception are troubles.
TroubleTells ==
  /\ restarted => troubles > 0
  /\ api # "up" => restarted
  /\ \A j \in PointJobs : pc[j] \in {"compensate", "except"} => troubles > 0

\* What a runner or the queue has is not reported as ended.
WorkIsOpen ==
  \A j \in PointJobs : pc[j] \in {"accepted", "waiting", "begin", "wait", "settle"} => job[j] \in {"queued", "running"}

OwnerInv ==
  IF project
  THEN /\ TroubleTells /\ WorkIsOpen
       /\ troubles <= 1 => \A p \in Points : Midway(p) => \E j \in PointJobs : Owes(j, p)
  ELSE \A p \in Points : point[p] = "absent"

\* Troubles are only counted up, a crash is one, and the API is up until the first crash.
LEMMA TroublesCount ==
  ASSUME RunnerInv, HolderRotates, [Next]_vars
  PROVE  /\ troubles \in Nat /\ troubles' \in {troubles, troubles + 1}
         /\ restarted => restarted'
         /\ restarted' => restarted \/ troubles' = troubles + 1
         /\ api' # "up" => api # "up" \/ restarted'
<1>0. troubles \in Nat /\ requests \in Requests /\ requests \subseteq Jobs
  BY RunnerAssumption DEF RunnerInv, RunnerTypes
<1>1. Runner \/ HostWorks \/ \E j \in Jobs : RunnerWorks(j) \/ AcceptJob(j)
  BY NextActs
<1>2. CASE HostWorks \/ \E j \in Jobs : RunnerWorks(j) \/ AcceptJob(j)
  <2>1. UNCHANGED <<restarted, api>> /\ (troubles' = troubles \/ Trouble)
    BY <1>2 DEF HostWorks, RunnerWorks, AcceptJob, still
  <2> QED
    BY <1>0, <2>1 DEF Trouble
<1>3. CASE Runner
  BY <1>0, <1>3 DEF Runner, Enqueue, EnqueueFails, TakeJob, RecoverJob, HostBegins, WithdrawIntent,
     ApiStops, ApiStarts, Serve, Trouble, still
<1> QED
  BY <1>0, <1>1, <1>2, <1>3

\* A job that stays where it is owes what it owed.
LEMMA OwesOn ==
  ASSUME NEW j \in PointJobs, NEW p \in Points, Owes(j, p), point'[p] = point[p],
         pc'[j] = pc[j] /\ job'[j] = job[j]
  PROVE  Owes(j, p)'
  BY ClaimsTell DEF Owes, Unsettled, Saving, TakenUp

\* The queue, the worker and recovery: what was owed is owed.
LEMMA RunnerOwes ==
  ASSUME OperationsInv, QueueWaits, OwnerInv, Runner, point' = point, project
  PROVE  /\ \A j \in PointJobs : pc'[j] \in {"compensate", "except"} => troubles' > 0
         /\ WorkIsOpen'
         /\ troubles' <= 1 => \A p \in Points : Midway(p)' => \E j \in PointJobs : Owes(j, p)'
<1>0. /\ RunnerTypes /\ troubles \in Nat /\ requests \subseteq Jobs /\ PointJobs \subseteq Jobs
      /\ TroubleTells /\ WorkIsOpen
      /\ \A n \in DOMAIN queue : queue[n] \in Jobs /\ pc[queue[n]] = "waiting"
  BY RunnerAssumption, PointsAreApart DEF OperationsInv, RunnerInv, RunnerTypes, OwnerInv, QueueWaits
<1> DEFINE Tells == \A j \in PointJobs : pc'[j] \in {"compensate", "except"} => troubles' > 0
           Owed  == troubles' <= 1 => \A p \in Points : Midway(p)' => \E j \in PointJobs : Owes(j, p)'
           Fine  == Tells /\ WorkIsOpen' /\ Owed
<1>a. ASSUME troubles' \in {troubles, troubles + 1},
             \A j \in PointJobs, p \in Points : Owes(j, p) /\ troubles' <= 1 => Owes(j, p)'
      PROVE  Owed
  BY <1>0, <1>a DEF OwnerInv, Midway
<1>1. ASSUME NEW k \in Jobs, Enqueue(k) \/ TakeJob(k) \/ (RecoverJob(k) /\ Resumes(k)) PROVE Fine
  <2>1. /\ troubles' = troubles /\ \A j \in Jobs \ {k} : pc'[j] = pc[j] /\ job'[j] = job[j]
        /\ pc'[k] \in {"accepted", "waiting", "begin"}
        /\ \/ job'[k] = job[k] /\ pc[k] \in {"accepted", "waiting"}
           \/ job'[k] = "queued"
    <3>1. CASE Enqueue(k)
      BY <1>0, <3>1 DEF Enqueue, Goto, RunnerTypes
    <3>2. CASE TakeJob(k)
      <4>1. queue \in Seq(Jobs) /\ queue # <<>> /\ k = queue[1]
        BY <1>0, <3>2 DEF TakeJob, RunnerTypes
      <4>2. 1 \in DOMAIN queue
        BY <4>1
      <4> QED
        BY <1>0, <3>2, <4>1, <4>2 DEF TakeJob, Goto, RunnerTypes
    <3>3. CASE RecoverJob(k) /\ Resumes(k)
      BY <1>0, <3>3 DEF RecoverJob, Goto, Settle, RunnerTypes
    <3> QED
      BY <1>1, <3>1, <3>2, <3>3
  <2>2. Tells
    BY <1>0, <2>1 DEF TroubleTells
  <2>3. WorkIsOpen'
    BY <1>0, <2>1 DEF WorkIsOpen
  <2>4. ASSUME NEW j \in PointJobs, NEW p \in Points, Owes(j, p) PROVE Owes(j, p)'
    <3>1. CASE j = k
      BY <2>1, <2>4, <3>1, ClaimsTell DEF Owes, Unsettled, Saving
    <3>2. CASE j # k
      BY <1>0, <2>1, <2>4, <3>2, OwesOn
    <3> QED
      BY <3>1, <3>2
  <2> QED
    BY <1>a, <2>1, <2>2, <2>3, <2>4
<1>2. ASSUME NEW k \in Jobs, RecoverJob(k), ~Resumes(k) PROVE Fine
  <2>1. /\ troubles' = troubles /\ pc' = pc /\ \A j \in Jobs \ {k} : job'[j] = job[j]
        /\ Action[k] = "delete"
    BY <1>0, <1>2 DEF RecoverJob, Resumes, Settle, RunnerTypes
  <2>2. \A j \in PointJobs : pc'[j] = pc[j] /\ job'[j] = job[j]
    BY <1>0, <2>1 DEF PointJobs
  <2> QED
    BY <1>0, <1>a, <2>1, <2>2, OwesOn DEF TroubleTells, WorkIsOpen
<1>3. ASSUME NEW k \in Jobs, EnqueueFails(k) PROVE Fine
  <2>1. /\ troubles' = troubles + 1 /\ \A j \in Jobs \ {k} : pc'[j] = pc[j] /\ job'[j] = job[j]
        /\ pc[k] = "accepted"
        /\ pc'[k] \in {"compensate", "none"} /\ (api = "up" => pc'[k] = "compensate")
    BY <1>0, <1>3 DEF EnqueueFails, Goto, Settle, RunnerTypes, Trouble
  <2>2. Tells /\ WorkIsOpen'
    BY <1>0, <2>1 DEF TroubleTells, WorkIsOpen
  <2>3. ASSUME NEW j \in PointJobs, NEW p \in Points, Owes(j, p), troubles' <= 1 PROVE Owes(j, p)'
    <3>1. CASE j = k
      <4>1. pc'[k] = "compensate"
        BY <1>0, <2>1, <2>3 DEF TroubleTells
      <4> QED
        BY <2>1, <2>3, <3>1, <4>1, ClaimsTell DEF Owes, Unsettled, Saving, TakenUp
    <3>2. CASE j # k
      BY <1>0, <2>1, <2>3, <3>2, OwesOn
    <3> QED
      BY <3>1, <3>2
  <2> QED
    BY <1>a, <2>1, <2>2, <2>3
<1>4. ASSUME ApiStops PROVE Fine
  <2>1. troubles' = troubles + 1 /\ job' = job /\ \A j \in Jobs : pc'[j] = "none"
    BY <1>4 DEF ApiStops, Trouble
  <2>2. Tells /\ WorkIsOpen'
    BY <1>0, <2>1 DEF WorkIsOpen
  <2>3. ASSUME NEW j \in PointJobs, NEW p \in Points, Owes(j, p), troubles' <= 1 PROVE Owes(j, p)'
    <3>1. pc[j] \notin {"compensate", "except"}
      BY <1>0, <2>1, <2>3 DEF TroubleTells
    <3>2. job[j] \in {"queued", "running"}
      BY <1>0, <2>3, <3>1 DEF Owes, Unsettled, Saving, TakenUp, WorkIsOpen
    <3>3. TakenUp(j)'
      BY <1>0, <2>1, <3>2 DEF TakenUp
    <3> QED
      BY <2>3, <3>3, ClaimsTell DEF Owes
  <2> QED
    BY <1>a, <2>1, <2>2, <2>3
<1>5. (\E i \in Intents : HostBegins(i) \/ WithdrawIntent(i)) \/ ApiStarts \/ Serve => Fine
  <2> SUFFICES ASSUME (\E i \in Intents : HostBegins(i) \/ WithdrawIntent(i)) \/ ApiStarts \/ Serve PROVE Fine
    OBVIOUS
  <2>1. troubles' = troubles /\ pc' = pc /\ job' = job
    BY DEF HostBegins, WithdrawIntent, ApiStarts, Serve
  <2> QED
    BY <1>0, <1>a, <2>1, OwesOn DEF TroubleTells, WorkIsOpen
<1>6. Fine
  <2> HIDE DEF Fine
  <2> QED
    BY <1>0, <1>1, <1>2, <1>3, <1>4, <1>5 DEF Runner
<1> QED
  BY <1>6

\* The jobs on points: what one leaves midway it still owes, or another does.
LEMMA RowsOwe ==
  ASSUME OperationsInv, OwnerInv, project, NEW k \in PointJobs, RowsMove(k)
  PROVE  /\ \A j \in PointJobs : pc'[j] \in {"compensate", "except"} => troubles' > 0
         /\ WorkIsOpen'
         /\ troubles' <= 1 => \A p \in Points : Midway(p)' => \E j \in PointJobs : Owes(j, p)'
<1>0. /\ RunnerInv /\ RunnerTypes /\ PointsTypeOK /\ troubles \in Nat /\ k \in Jobs
      /\ TroubleTells /\ WorkIsOpen
  BY RunnerAssumption, PointsAreApart DEF OperationsInv, RunnerInv, RunnerTypes, OwnerInv
<1>a. /\ \A j \in Jobs \ {k} : pc'[j] = pc[j] /\ job'[j] = job[j]
      /\ \A p \in Points : p # Target[k] /\ (k \in Restores => p # Safety[k]) => point'[p] = point[p]
  BY <1>0, RowsMoveOn, RowsMoveOwn
<1>b. troubles' \in {troubles, troubles + 1}
  BY <1>0 DEF RowsMove, AcceptBackup, AcceptRestore, AcceptDeletePoint, AcceptJob, CompensateRows, RunnerBegins,
     SettleRows, SettleSafety, SettleTarget, FinishJob, ExceptRows, FailJob, RunnerRaises, Trouble
<1>1. \A j \in PointJobs : pc'[j] \in {"compensate", "except"} => troubles' > 0
  <2>1. ASSUME pc'[k] \in {"compensate", "except"} PROVE troubles' > 0
    <3>1. RunnerRaises(k)
      BY <1>0, <2>1 DEF RowsMove, AcceptBackup, AcceptRestore, AcceptDeletePoint, AcceptJob,
         CompensateRows, RunnerBegins, SettleRows, SettleSafety, SettleTarget, FinishJob, ExceptRows,
         FailJob, Goto, RunnerTypes
    <3> QED
      BY <1>0, <3>1 DEF RunnerRaises, Trouble
  <2> QED
    BY <1>0, <1>a, <1>b, <2>1, PointsAreApart DEF TroubleTells
<1>2. WorkIsOpen'
  <2>1. pc'[k] \in {"accepted", "waiting", "begin", "wait", "settle"} => job'[k] \in {"queued", "running"}
    <3>1. CASE AcceptBackup(k) \/ AcceptRestore(k) \/ AcceptDeletePoint(k)
      BY <1>0, <3>1 DEF AcceptBackup, AcceptRestore, AcceptDeletePoint, AcceptJob, Settle, RunnerTypes
    <3>2. CASE RunnerBegins(k)
      BY <1>0, <3>2 DEF RunnerBegins, Settle, RunnerTypes
    <3>3. CASE SettleSafety(k)
      BY <1>0, <3>3 DEF SettleSafety, WorkIsOpen
    <3>4. CASE \/ CompensateRows(k) \/ SettleRows(k) \/ SettleTarget(k) \/ FinishJob(k) \/ ExceptRows(k) \/ FailJob(k)
               \/ RunnerRaises(k)
      BY <1>0, <3>4 DEF CompensateRows, SettleRows, SettleTarget, FinishJob, ExceptRows, FailJob,
         RunnerRaises, Goto, RunnerTypes
    <3> QED
      BY <3>1, <3>2, <3>3, <3>4 DEF RowsMove
  <2> QED
    BY <1>0, <1>a, <2>1, PointsAreApart DEF WorkIsOpen
<1>3. ASSUME troubles' <= 1, NEW p \in Points, Midway(p)' PROVE \E j \in PointJobs : Owes(j, p)'
  <2>a. troubles <= 1 /\ (Midway(p) => \E j \in PointJobs : Owes(j, p))
    BY <1>0, <1>b, <1>3 DEF OwnerInv
  <2>b. ASSUME point'[p] = point[p], Owes(k, p) => Owes(k, p)' PROVE \E j \in PointJobs : Owes(j, p)'
    <3>1. PICK j \in PointJobs : Owes(j, p)
      BY <1>3, <2>a, <2>b DEF Midway
    <3>2. CASE j = k
      BY <2>b, <3>1, <3>2
    <3>3. CASE j # k
      BY <1>a, <2>b, <3>1, <3>3, OwesOn, PointsAreApart
    <3> QED
      BY <3>2, <3>3
  <2>c. p # Target[k] /\ (k \in Restores => p # Safety[k]) => ~Owes(k, p) /\ point'[p] = point[p]
    BY <1>a DEF Owes
  <2>d. Midway(p)' <=> point'[p] \in {"creating", "restoring", "deleting"}
    BY DEF Midway
  <2>1. CASE AcceptBackup(k) \/ AcceptRestore(k) \/ AcceptDeletePoint(k)
    <3>1. pc'[k] = "accepted" /\ point'[Target[k]] = Claim(k) /\ (k \in Restores => point'[Safety[k]] = "creating")
      <4>1. pc'[k] = "accepted"
        BY <1>0, <2>1 DEF AcceptBackup, AcceptRestore, AcceptDeletePoint, AcceptJob, Goto, RunnerTypes
      <4>2. point'[Target[k]] = Claim(k)
        BY <1>0, <2>1, ClaimsTell, PointsAreApart DEF AcceptBackup, AcceptRestore, AcceptDeletePoint,
           PointsTypeOK
      <4>3. k \in Restores => point'[Safety[k]] = "creating"
        BY <1>0, <2>1, PointsAreApart DEF AcceptBackup, AcceptRestore, AcceptDeletePoint, PointsTypeOK
      <4> QED
        BY <4>1, <4>2, <4>3
    <3>2. p = Target[k] \/ (k \in Restores /\ p = Safety[k]) => Owes(k, p)'
      BY <3>1, ClaimsTell DEF Owes, Unsettled, Saving
    <3> QED
      BY <2>b, <2>c, <3>2
  <2>2. ASSUME k \in PointJobs, ~Owes(k, p)', Owes(k, p), point'[p] = point[p] PROVE FALSE
    <3>1. Claim(k)' = Claim(k)
      BY ClaimsTell
    <3>2. CASE CompensateRows(k)
      <4>1. pc[k] = "compensate" /\ point' = RowsCompensated(k)
        BY <3>2 DEF CompensateRows
      <4>2. \/ p = Target[k] /\ point[p] = Claim(k)
            \/ k \in Restores /\ p = Safety[k] /\ point[p] = "creating"
        BY <2>2 DEF Owes
      <4>3. point'[p] \in {"failed", "ready"}
        BY <4>1, <4>2, ClaimsTell, PointsAreApart DEF RowsCompensated
      <4> QED
        BY <1>3, <2>d, <4>3
    <3>3. CASE ExceptRows(k)
      <4>1. pc[k] = "except" /\ point' = RowsExcept(k)
        BY <1>0, <1>3, <3>3 DEF ExceptRows, TroubleTells, Trouble
      <4>2. \/ p = Target[k] /\ point[p] = Claim(k)
            \/ k \in Restores /\ p = Safety[k] /\ point[p] = "creating"
        BY <2>2 DEF Owes
      <4>3. point'[p] \in {"failed", "ready"}
        BY <4>1, <4>2, ClaimsTell, PointsAreApart DEF RowsExcept
      <4> QED
        BY <1>3, <2>d, <4>3
    <3>4. CASE RunnerBegins(k) \/ RunnerRaises(k)
      <4>1. pc[k] \in {"begin", "wait", "settle", "finish"} /\ pc'[k] \in {"wait", "except"}
            /\ (pc'[k] = "wait" => pc[k] = "begin")
        BY <1>0, <3>4 DEF RunnerBegins, RunnerRaises, Goto, RunnerTypes
      <4> QED
        BY <2>2, <3>1, <4>1 DEF Owes, Unsettled, Saving, TakenUp
    <3>5. CASE FinishJob(k) \/ FailJob(k)
      <4>1. pc[k] \in {"finish", "fail"}
        BY <3>5 DEF FinishJob, FailJob
      <4> QED
        BY <2>2, <4>1 DEF Owes, Unsettled, Saving, TakenUp
    <3>6. CASE SettleRows(k)
      <4>1. pc[k] = "wait" /\ k \notin Restores /\ point'[Target[k]] \in {"ready", "failed", "absent"}
        BY <1>0, <3>6, PointsAreApart DEF SettleRows, RowsSettled, SetPoint, PointsTypeOK
      <4> QED
        BY <1>3, <2>2, <2>d, <4>1 DEF Owes
    <3>7. CASE SettleSafety(k)
      <4>1. pc[k] = "wait" /\ pc'[k] = "settle" /\ point'[Safety[k]] \in {"ready", "absent"}
        BY <1>0, <3>7, PointsAreApart DEF SettleSafety, SetPoint, PointsTypeOK, Goto, RunnerTypes
      <4> QED
        BY <1>3, <2>2, <2>d, <3>1, <4>1 DEF Owes, Unsettled
    <3>8. CASE SettleTarget(k)
      <4>1. pc[k] = "settle" /\ point'[Target[k]] \in {"ready", "absent"}
        BY <1>0, <3>8, PointsAreApart DEF SettleTarget, SetPoint, PointsTypeOK
      <4> QED
        BY <1>3, <2>2, <2>d, <4>1 DEF Owes, Saving, TakenUp
    <3>9. CASE AcceptBackup(k) \/ AcceptRestore(k) \/ AcceptDeletePoint(k)
      <4>1. pc[k] = "none" /\ job[k] = "absent"
        BY <1>0, <3>9 DEF AcceptBackup, AcceptRestore, AcceptDeletePoint, AcceptJob, RunnerInv, JobsAreKnown
      <4> QED
        BY <2>2, <4>1 DEF Owes, Unsettled, Saving, TakenUp
    <3> QED
      BY <3>2, <3>3, <3>4, <3>5, <3>6, <3>7, <3>8, <3>9 DEF RowsMove
  <2>3. CASE ~(AcceptBackup(k) \/ AcceptRestore(k) \/ AcceptDeletePoint(k))
    <3>1. point'[p] = point[p]
      <4>1. CASE p # Target[k] /\ (k \in Restores => p # Safety[k])
        BY <2>c, <4>1
      <4>2. CASE CompensateRows(k)
        <5>1. point'[p] = RowsCompensated(k)[p]
          BY <4>2 DEF CompensateRows
        <5>2. RowsCompensated(k)[p] \in {"failed", "ready", point[p]}
          BY DEF RowsCompensated
        <5> QED
          BY <1>3, <2>d, <5>1, <5>2
      <4>3. CASE ExceptRows(k)
        <5>1. point'[p] = point[p] \/ point'[p] = RowsExcept(k)[p]
          BY <4>3 DEF ExceptRows
        <5>2. RowsExcept(k)[p] \in {"failed", "ready", point[p]}
          BY DEF RowsExcept
        <5> QED
          BY <1>3, <2>d, <5>1, <5>2
      <4>4. CASE RunnerBegins(k) \/ FinishJob(k) \/ FailJob(k) \/ RunnerRaises(k)
        BY <4>4 DEF RunnerBegins, FinishJob, FailJob, RunnerRaises, pointVars
      <4>5. CASE SettleRows(k) \/ SettleSafety(k) \/ SettleTarget(k)
        <5>1. point'[p] = point[p] \/ point'[p] \in {"ready", "failed", "absent"}
          <6>1. CASE SettleRows(k)
            BY <1>0, <6>1, PointsAreApart DEF SettleRows, RowsSettled, SetPoint, PointsTypeOK
          <6>2. CASE SettleSafety(k)
            BY <1>0, <6>2, PointsAreApart DEF SettleSafety, SetPoint, PointsTypeOK
          <6>3. CASE SettleTarget(k)
            BY <1>0, <6>3, PointsAreApart DEF SettleTarget, SetPoint, PointsTypeOK
          <6> QED
            BY <4>5, <6>1, <6>2, <6>3
        <5> QED
          BY <1>3, <2>d, <5>1
      <4> QED
        BY <2>3, <4>1, <4>2, <4>3, <4>4, <4>5 DEF RowsMove
    <3> QED
      BY <2>2, <2>b, <3>1
  <2> QED
    BY <2>1, <2>3
<1> QED
  BY <1>1, <1>2, <1>3

\* Every step keeps that whoever is midway is owed an end.
LEMMA NextOwner == OperationsInv /\ ClaimInv /\ OwnerInv /\ [Next]_vars => OwnerInv'
<1> SUFFICES ASSUME OperationsInv, ClaimInv, OwnerInv, [Next]_vars PROVE OwnerInv'
  OBVIOUS
<1>0. /\ RunnerInv /\ HolderRotates /\ project \in BOOLEAN /\ PointsTypeOK
      /\ project' = project \/ (~project' /\ \A p \in Points : point'[p] = "absent")
  BY RowGoesWithPoints DEF OperationsInv, RunnerInv, RunnerTypes, ReferenceInv, Steady, ScriptHolds,
     HolderRotates
<1>1. CASE ~project'
  <2>1. CASE project
    BY <1>0, <1>1, <2>1 DEF OwnerInv
  <2>2. CASE ~project
    <3>1. \A p \in Points : point[p] = "absent"
      BY <2>2 DEF OwnerInv
    <3>2. ASSUME NEW k \in PointJobs, RowsMove(k) PROVE \A p \in Points : point'[p] = "absent"
      <4>1. ~(AcceptBackup(k) \/ AcceptRestore(k) \/ AcceptDeletePoint(k))
        BY <2>2 DEF AcceptBackup, AcceptRestore, AcceptDeletePoint, AcceptJob
      <4> QED
        BY <1>0, <3>1, <3>2, <4>1, RowsMoveOwn
    <3>3. \A p \in Points : point'[p] = "absent"
      BY <3>1, <3>2, NextRows
    <3> QED
      BY <1>1, <3>3 DEF OwnerInv
  <2> QED
    BY <2>1, <2>2
<1>2. CASE project'
  <2>0. project /\ TroubleTells /\ WorkIsOpen
    BY <1>0, <1>2 DEF OwnerInv
  <2> DEFINE Told == \A j \in PointJobs : pc'[j] \in {"compensate", "except"} => troubles' > 0
             Owed == troubles' <= 1 => \A p \in Points : Midway(p)' => \E j \in PointJobs : Owes(j, p)'
  <2>1. Told /\ WorkIsOpen' /\ Owed
    <3>1. CASE Runner /\ point' = point
      BY <2>0, <3>1, RunnerOwes DEF ClaimInv
    <3>2. ASSUME NEW k \in PointJobs, RowsMove(k) PROVE Told /\ WorkIsOpen' /\ Owed
      BY <2>0, <3>2, RowsOwe
    <3>3. CASE Unmoved(PointJobs) /\ point' = point
      <4>1. \A j \in PointJobs : pc'[j] = pc[j] /\ job'[j] = job[j]
        BY <3>3 DEF Unmoved
      <4>2. troubles \in Nat /\ troubles' \in {troubles, troubles + 1}
        BY <1>0, TroublesCount
      <4>3. Told
        BY <2>0, <4>1, <4>2 DEF TroubleTells
      <4>4. WorkIsOpen'
        BY <2>0, <4>1 DEF WorkIsOpen
      <4>5. Owed
        <5> SUFFICES ASSUME troubles' <= 1, NEW p \in Points, Midway(p)' PROVE \E j \in PointJobs : Owes(j, p)'
          OBVIOUS
        <5>1. PICK j \in PointJobs : Owes(j, p)
          BY <2>0, <3>3, <4>2 DEF OwnerInv, Midway
        <5> QED
          BY <3>3, <4>1, <5>1, OwesOn
      <4> QED
        BY <4>3, <4>4, <4>5
    <3> HIDE DEF Told, Owed
    <3> QED
      BY <1>2, <3>1, <3>2, <3>3, NextRows
  <2>2. (restarted' => troubles' > 0) /\ (api' # "up" => restarted')
    BY <1>0, <2>0, TroublesCount DEF TroubleTells
  <2> QED
    BY <1>2, <2>1, <2>2 DEF OwnerInv, TroubleTells
<1> QED
  BY <1>1, <1>2

\* Whatever goes wrong once, no restore point stays in a state its endpoints refuse to act
\* on (restore_points.py) after its job is over: the runner, its except branch, the
\* endpoint's compensation or the recovery after a restart settles it.
THEOREM OneTroubleIsSettled == Spec => []OneTroubleSticksNothing
<1>1. Init => OwnerInv
  BY PointsAreApart DEF Init, RunnerInit, PointsInit, OwnerInv, TroubleTells, WorkIsOpen, Midway
<1>2. OperationsInv /\ OwnerInv => OneTroubleSticksNothing
  <2> SUFFICES ASSUME OperationsInv, OwnerInv, troubles <= 1, NEW p \in Points, point[p] \in {"creating", "restoring", "deleting"}
               PROVE  \E j \in PointJobs : /\ p \in {Target[j], Safety[j]}
                                           /\ job[j] \notin JobFinal \/ pc[j] # "none"
                                           /\ job[j] # "absent"
    BY DEF OneTroubleSticksNothing
  <2>1. PICK j \in PointJobs : Owes(j, p)
    BY DEF OwnerInv, Midway
  <2>2. pc[j] # "none" => job[j] # "absent"
    BY PointsAreApart DEF OperationsInv, RunnerInv, JobsAreKnown
  <2> QED
    BY <2>1, <2>2 DEF Owes, Unsettled, Saving, TakenUp, JobFinal
<1> QED
  BY <1>1, <1>2, InitClaims, InitOperations, NextOperations, NextClaims, NextOwner, PTL DEF Spec

-----------------------------------------------------------------------------
(* Failures of automatic rotations. *)

\* A step of the runner of a key rotation, of its endpoint or of the scheduler.
KeyRunner(k) ==
  \/ AcceptManual(k) \/ ScanClaims(k) \/ KeyRotationNotQueued(k) \/ KeyRotationBegins(k) \/ RotationEnds(k)
  \/ StoreKeys(k) \/ Invalidate(k) \/ KeyRotationDone(k) \/ KeyRotationRaises(k) \/ BlockAfterFailure(k) \/ BlockFails(k)

BlocksStay == UNCHANGED <<automatic, blocked, forgiven>>

\* Whether further attempts are blocked is decided by the rotations, the administrator and
\* the scan alone.
LEMMA NextBlocks ==
  ASSUME OperationsInv, [Next]_vars
  PROVE  \/ Runner /\ BlocksStay
         \/ \E k \in KeyJobs : KeyRunner(k)
         \/ \E on \in BOOLEAN : SetAutomatic(on)
         \/ ScanReadsExpiry
         \/ Unmoved(KeyJobs) /\ BlocksStay
<1> USE DEF OperationsInv
<1>0. /\ requests \subseteq Jobs /\ HolderRotates /\ files \in BOOLEAN /\ KeyJobs \in SUBSET Jobs /\ RunnerInv
  BY RunnerAssumption DEF RunnerInv, RunnerTypes, ReferenceInv, Steady, ScriptHolds, HolderRotates, KeyJobs
<1>a. HostWorks => Unmoved(KeyJobs)
  BY <1>0, OthersMoveNone
<1>b. ASSUME NEW k \in Jobs, k \notin KeyJobs, RunnerWorks(k) \/ AcceptJob(k) PROVE Unmoved(KeyJobs)
  BY <1>0, <1>b, OthersMoveNone
<1>c. UNCHANGED keyRotationVars => BlocksStay
  BY DEF keyRotationVars, keyVars, BlocksStay
<1>d. UNCHANGED runtimeVars => BlocksStay
  BY <1>c DEF runtimeVars
<1>e. UNCHANGED runnerVars => Unmoved(KeyJobs)
  BY DEF runnerVars, Unmoved
<1>1. ASSUME NEW k \in Jobs, Data(k) \/ Deletion(k) \/ Lifecycle(k) \/ Rotation(k) PROVE Unmoved(KeyJobs)
  <2>1. k \notin KeyJobs /\ OperationActs(k)
    BY <1>0, <1>1, OthersRotateNoKey, DataActs, DeletionActs, LifecycleActs, RotationActs DEF KeyJobs
  <2> QED
    BY <1>a, <1>b, <2>1 DEF OperationActs
<1>2. ASSUME NEW k \in Jobs, RestoreScript(k) PROVE Unmoved(KeyJobs) /\ BlocksStay
  <2>1. BlocksStay
    BY <1>2, <1>d DEF RestoreScript, Entry, keyRotationVars, keyVars, BlocksStay
  <2> QED
    BY <1>0, <1>2, <1>a, <2>1, RestoreScriptActs
<1>3. ASSUME NEW k \in Jobs, NEW c \in HostSteps, DeleteScript(k, c) PROVE Unmoved(KeyJobs) /\ BlocksStay
  <2>1. BlocksStay
    BY <1>3, <1>c, <1>d, DeleteScriptTells DEF Entry
  <2> QED
    BY <1>0, <1>3, <1>a, <2>1, DeleteScriptActs
<1>4. ASSUME NEW k \in Jobs, KeyRotation(k) PROVE (k \in KeyJobs /\ KeyRunner(k)) \/ (Unmoved(KeyJobs) /\ BlocksStay)
  <2>1. CASE KeyRunner(k)
    BY <2>1 DEF KeyRunner, AcceptManual, ScanClaims, KeyRotationNotQueued, KeyRotationBegins,
       RotationEnds, StoreKeys, Invalidate, KeyRotationDone, KeyRotationRaises, BlockAfterFailure,
       BlockFails
  <2>2. CASE KeyScriptBegins(k) \/ KeyScriptRefused(k) \/ KeyScriptStep(k) \/ KeyScriptDone(k)
           \/ KeyScriptTurnsBack(k) \/ KeyScriptTurnedBack(k) \/ KeyScriptDies(k) \/ KeyScriptLost(k)
    <3>1. BlocksStay
      BY <2>2 DEF KeyScriptBegins, KeyScriptRefused, KeyScriptStep, KeyScriptDone, KeyScriptTurnsBack,
         KeyScriptTurnedBack, KeyScriptDies, KeyScriptLost, beside, BlocksStay
    <3>2. UNCHANGED <<job, pc>>
      BY <2>2 DEF KeyScriptBegins, KeyScriptRefused, KeyScriptStep, KeyScriptDone, KeyScriptTurnsBack,
         KeyScriptTurnedBack, KeyScriptDies, KeyScriptLost, HostLost, runnerVars
    <3> QED
      BY <3>1, <3>2 DEF Unmoved
  <2> QED
    BY <1>4, <2>1, <2>2 DEF KeyRotation, KeyRunner
<1>5. Rotates => Unmoved(KeyJobs)
  BY <1>0, <1>a, RotatesActs
<1>6. Write \/ Sync \/ Saves => Unmoved(KeyJobs)
  BY <1>e DEF Write, Sync, Saves, ReadEnv, ReplaceEnv, SaveFails
<1>7. Studio \/ KeysAge => Unmoved(KeyJobs) /\ BlocksStay
  BY <1>e DEF Studio, Promote, FetchKey, PublishKey, KeysAge, keyVars, BlocksStay
<1>8. UNCHANGED vars => Unmoved(KeyJobs) /\ BlocksStay
  BY <1>d, <1>e DEF vars
<1>9. /\ UNCHANGED <<dataVars, runtimeVars>> => BlocksStay
      /\ UNCHANGED <<deletionVars, runtimeVars>> => BlocksStay
      /\ UNCHANGED <<dataVars, rotationVars, keyRotationVars>> => BlocksStay
      /\ UNCHANGED <<dataVars, keyRotationVars>> => BlocksStay
  BY <1>c, <1>d
<1>10. (\E k \in requests : Data(k) \/ Deletion(k) \/ Lifecycle(k) \/ Rotation(k)) => Unmoved(KeyJobs)
  BY <1>0, <1>1
<1>11. (\E k \in requests : KeyRotation(k)) => (\E k \in KeyJobs : KeyRunner(k)) \/ (Unmoved(KeyJobs) /\ BlocksStay)
  BY <1>0, <1>4
<1>12. (\E k \in requests : RestoreScript(k)) \/ (\E k \in requests, c \in HostSteps : DeleteScript(k, c))
         => Unmoved(KeyJobs) /\ BlocksStay
  BY <1>0, <1>2, <1>3
<1> QED
  BY <1>d, <1>5, <1>6, <1>7, <1>8, <1>9, <1>10, <1>11, <1>12 DEF Next, Operates

\* In one life a failed automatic rotation is over only with the block, or forgiven.
BlockInv ==
  ~restarted /\ project =>
    /\ \A j \in KeyJobs : pc[j] = "block_again" => troubles > 0
    /\ troubles <= 1 /\ automatic /\ ~blocked =>
         \A j \in KeyJobs : job[j] = "failed" /\ Trigger[j] = "automatic" /\ pc[j] = "none" => j \in forgiven

\* The steps of a rotation keep it.
LEMMA KeyRunnerBlocks ==
  ASSUME OperationsInv, BlockInv, ~restarted, project, NEW k \in KeyJobs, KeyRunner(k),
         troubles' \in {troubles, troubles + 1}
  PROVE  /\ \A j \in KeyJobs : pc'[j] = "block_again" => troubles' > 0
         /\ troubles' <= 1 /\ automatic' /\ ~blocked' =>
              \A j \in KeyJobs : job'[j] = "failed" /\ Trigger[j] = "automatic" /\ pc'[j] = "none" => j \in forgiven'
<1> USE DEF OperationsInv
<1>0. /\ RunnerTypes /\ troubles \in Nat /\ k \in Jobs /\ \A j \in KeyJobs : j \in Jobs
      /\ \A j \in KeyJobs : pc[j] = "block_again" => troubles > 0
      /\ troubles <= 1 /\ automatic /\ ~blocked =>
           \A j \in KeyJobs : job[j] = "failed" /\ Trigger[j] = "automatic" /\ pc[j] = "none" => j \in forgiven
      /\ automatic \in BOOLEAN /\ blocked \in BOOLEAN
  BY RunnerAssumption DEF RunnerInv, RunnerTypes, KeyJobs, BlockInv, VersionTypes
<1>a. OperationActs(k)
  BY <1>0, KeyRotationActs DEF KeyRunner, KeyRotation
<1>b. \A j \in KeyJobs \ {k} : pc'[j] = pc[j] /\ job'[j] = job[j]
  BY <1>0, <1>a DEF OperationActs, RunnerWorks, AcceptJob, HostWorks, Goto, Settle, RunnerTypes
<1>c. ASSUME pc'[k] = "block_again" => troubles' > 0,
             BlocksStay,
             troubles' <= 1 /\ automatic /\ ~blocked =>
               (job'[k] = "failed" /\ Trigger[k] = "automatic" /\ pc'[k] = "none" => k \in forgiven)
      PROVE  /\ \A j \in KeyJobs : pc'[j] = "block_again" => troubles' > 0
             /\ troubles' <= 1 /\ automatic' /\ ~blocked' =>
                  \A j \in KeyJobs : job'[j] = "failed" /\ Trigger[j] = "automatic" /\ pc'[j] = "none" => j \in forgiven'
  BY <1>0, <1>b, <1>c DEF BlocksStay
<1>d. /\ \A place : Goto(k, place) => pc'[k] = place
      /\ \A status : Settle(k, status) => job'[k] = status
  BY <1>0 DEF Goto, Settle, RunnerTypes
<1>e. UNCHANGED keyRotationVars => BlocksStay
  BY DEF keyRotationVars, keyVars, BlocksStay
<1>1. CASE AcceptManual(k) \/ ScanClaims(k)
  BY <1>1, <1>c, <1>d, <1>e DEF AcceptManual, ScanClaims, AcceptJob
<1>2. CASE KeyRotationBegins(k) \/ KeyRotationDone(k)
  BY <1>2, <1>c, <1>d, <1>e DEF KeyRotationBegins, KeyRotationDone
<1>3. CASE Invalidate(k)
  BY <1>3, <1>c, <1>d DEF Invalidate, keyVars, BlocksStay
<1>4. CASE RotationEnds(k)
  BY <1>4, <1>c, <1>d, <1>e DEF RotationEnds, AfterFailure
<1>5. CASE KeyRotationRaises(k)
  <2>1. troubles' = troubles + 1
    BY <1>5 DEF KeyRotationRaises, Trouble
  <2>2. Trigger[k] = "automatic" => pc'[k] # "none"
    BY <1>5, <1>d DEF KeyRotationRaises, AfterFailure
  <2>3. BlocksStay
    BY <1>5, <1>e DEF KeyRotationRaises
  <2> QED
    BY <1>0, <1>c, <2>1, <2>2, <2>3
<1>6. CASE BlockFails(k)
  <2>1. troubles' = troubles + 1 /\ BlocksStay /\ pc[k] \in {"block", "block_again"}
        /\ (pc'[k] = "none" => pc[k] = "block_again")
    BY <1>6, <1>d, <1>e DEF BlockFails, Trouble
  <2> QED
    BY <1>0, <1>c, <2>1
<1>7. CASE StoreKeys(k)
  <2>1. pc'[k] = "invalidate" /\ forgiven' = Failures /\ job' = job
    BY <1>7, <1>d DEF StoreKeys
  <2> QED
    BY <1>0, <1>b, <2>1 DEF Failures
<1>8. CASE KeyRotationNotQueued(k) \/ BlockAfterFailure(k)
  <2>1. pc'[k] = "none" /\ UNCHANGED <<automatic, forgiven, troubles, job>>
    BY <1>8, <1>d DEF KeyRotationNotQueued, BlockAfterFailure
  <2>2. \/ blocked' = (blocked \/ automatic)
        \/ blocked' = blocked /\ Trigger[k] # "automatic"
    BY <1>8 DEF KeyRotationNotQueued, BlockAfterFailure, Block
  <2>3. CASE blocked' = (blocked \/ automatic)
    BY <1>0, <1>b, <2>1, <2>3
  <2>4. CASE blocked' = blocked /\ Trigger[k] # "automatic"
    BY <1>c, <2>1, <2>4 DEF BlocksStay
  <2> QED
    BY <2>2, <2>3, <2>4
<1> QED
  BY <1>1, <1>2, <1>3, <1>4, <1>5, <1>6, <1>7, <1>8 DEF KeyRunner

\* Every step keeps it.
LEMMA NextBlock == OperationsInv /\ ClaimInv /\ BlockInv /\ [Next]_vars => BlockInv'
<1> SUFFICES ASSUME OperationsInv, ClaimInv, BlockInv, [Next]_vars, ~restarted', project' PROVE BlockInv'
  BY DEF BlockInv
<1>0. /\ RunnerInv /\ RunnerTypes /\ HolderRotates /\ \A j \in KeyJobs : j \in Jobs
      /\ automatic \in BOOLEAN /\ blocked \in BOOLEAN
  BY DEF OperationsInv, RunnerInv, ReferenceInv, Steady, ScriptHolds, HolderRotates, KeyJobs, VersionTypes
<1>1. /\ troubles \in Nat /\ troubles' \in {troubles, troubles + 1}
      /\ ~restarted /\ project /\ api = "up" /\ QueueWaits
  BY <1>0, TroublesCount, RowGoesWithPoints DEF ClaimInv
<1>2. /\ \A j \in KeyJobs : pc[j] = "block_again" => troubles > 0
      /\ troubles <= 1 /\ automatic /\ ~blocked =>
           \A j \in KeyJobs : job[j] = "failed" /\ Trigger[j] = "automatic" /\ pc[j] = "none" => j \in forgiven
  BY <1>1 DEF BlockInv
<1>3. ASSUME BlocksStay, \A j \in KeyJobs : (pc'[j] = pc[j] /\ job'[j] = job[j]) \/ MovesOn(j)
      PROVE  BlockInv'
  BY <1>1, <1>2, <1>3 DEF BlockInv, BlocksStay, MovesOn
<1>4. CASE Runner /\ BlocksStay
  BY <1>0, <1>1, <1>3, <1>4, RunnerMovesOn
<1>5. CASE Unmoved(KeyJobs) /\ BlocksStay
  BY <1>3, <1>5 DEF Unmoved
<1>6. ASSUME NEW k \in KeyJobs, KeyRunner(k) PROVE BlockInv'
  BY <1>1, <1>6, KeyRunnerBlocks DEF BlockInv
<1>7. ASSUME NEW on \in BOOLEAN, SetAutomatic(on) PROVE BlockInv'
  <2>1. UNCHANGED <<pc, job, troubles>> /\ automatic' = on /\ (on => forgiven' = Failures)
    BY <1>7 DEF SetAutomatic, runnerVars
  <2> QED
    BY <1>2, <2>1 DEF BlockInv, Failures
<1>8. CASE ScanReadsExpiry
  <2>1. UNCHANGED <<pc, job, troubles, automatic, forgiven>> /\ (blocked' = TRUE \/ blocked' = blocked)
    BY <1>8 DEF ScanReadsExpiry, runnerVars
  <2> QED
    BY <1>2, <2>1 DEF BlockInv
<1> QED
  BY <1>4, <1>5, <1>6, <1>7, <1>8, NextBlocks

\* Whatever goes wrong once without a restart, an automatic rotation of the keys that failed
\* leaves further attempts blocked (block_automatic_key_rotation, in a transaction of its own
\* after the job's, tried once more by the except branch), until an administrator clears it
\* or a rotation succeeds.
THEOREM FailuresBlock == Spec => []FailureBlocks
<1>1. Init => BlockInv
  BY DEF Init, RunnerInit, BlockInv, KeyJobs
<1>2. BlockInv => FailureBlocks
  BY DEF BlockInv, FailureBlocks
<1> QED
  BY <1>1, <1>2, InitClaims, InitOperations, NextOperations, NextClaims, NextBlock, PTL DEF Spec

-----------------------------------------------------------------------------
(* The history of the rotations. *)

\* The steps of a rotation's script, once it has a journal.
InScript == InTry \cup {"cleanup"}

\* The history has a rotation from its job on, and one that is open; a rollback is noted by
\* the script as it ends.
HistoryTells ==
  /\ \A j \in Rotations : history[j] = "absent" => job[j] = "absent"
  /\ \A j, k \in Rotations : history[j] \in Open /\ history[k] \in Open => j = k
  /\ \A j \in Rotations : rolledBack[j] =>
       \/ command[The(j)] = "failed"
       \/ command[The(j)] = "running" /\ holder = j /\ step = "last_stop"

\* The script's journal has the reference its rotation found, and the files and the gateway
\* have the new one once they are written and created again, unless a save wrote the other
\* one back.
ScriptTells ==
  /\ step \in InScript \cup Backward /\ holder \in Rotations => log.old = oldRef[holder]
  /\ step \in {"swap", "restart", "publish", "cleanup"} => misplaced \/ fileRef = log.new
  /\ step \in {"publish", "cleanup"} /\ log.running => misplaced \/ (gateway = log.new /\ up)

\* The script that rotates the keys has copied the files.
Copied == turn \notin {"idle", "backup"}

\* What a success is worth that is still to be reported: nothing has touched it since.
Succeeds(j) ==
  history[j] \in Open /\ command[The(j)] = "done" =>
    /\ step \in {"idle", "preflight"} /\ journal = "none"
    /\ ref = NewRef[j]
    /\ misplaced \/ /\ envRef = NewRef[j] /\ fileRef = NewRef[j]
                    /\ Copied => copy.files = NewRef[j]
                    /\ log.running => gateway = NewRef[j] /\ (up \/ StopAskedFor)

\* And a rollback.
RolledBackTells(j) ==
  history[j] \in Open /\ rolledBack[j] =>
    /\ ref = oldRef[j] /\ log.old = oldRef[j] /\ (misplaced \/ envRef = oldRef[j])
    /\ \/ step \in {"idle", "preflight"}
       \/ step \in Backward /\ (holder = "operator" \/ (holder = j /\ step = "last_stop"))

\* Without any trouble every intent that is open has its runner waiting, and so has every
\* rotation that is open and has got its intent.
Attended ==
  /\ ~restarted
  /\ \A i \in Intents : command[i] \in {"queued", "running"} => pc[i[1]] = "wait"
  /\ \A j \in Rotations : history[j] \in Open /\ command[The(j)] # "absent" => pc[j] = "wait"

\* Where the reports are true.
Reports == ~Concerns(Deletions) /\ (troubles <= 1 \/ requests \subseteq Rotations)

HistoryInv ==
  /\ HistoryTells /\ ScriptTells
  /\ Reports => /\ troubles = 0 => Attended
                /\ \A j \in Rotations : Succeeds(j) /\ RolledBackTells(j)

\* A step that leaves alone what the rotations and their script have written.
HistoryQuiet == UNCHANGED <<history, oldRef, rolledBack, ref, journal, log, step, holder>>

\* What another operation may do to files and gateway and leave a success as it was.
Harmless ==
  /\ envRef' = envRef
  /\ fileRef' \in {fileRef, envRef} \/ (Copied /\ fileRef' = copy.files)
  /\ gateway' \in {gateway, envRef, fileRef}
  /\ up' = up \/ up' = TRUE \/ StopAskedFor

\* The handler of i, which is no rotation's, touches the containers.
Touches(i) ==
  /\ i[1] \in requests /\ i[1] \notin Rotations
  /\ command[i] = "running"
  /\ troubles' = troubles + 1 \/ Harmless \/ i[1] \in Deletions

\* A copy is one of the files as they are, or the one there was.
CopyMoves ==
  Copied' => copy'.files = fileRef \/ (Copied /\ copy'.files = copy.files)

\* Every step but those of the queue and of the rotations.
OthersMove ==
  /\ Unmoved(Rotations) /\ CommandsStay(Rotations) /\ HistoryQuiet
  /\ misplaced' \/ UNCHANGED containerVars \/ \E i \in Intents : Touches(i)

\* What a save has written back stays so, and only the script that rotates the keys copies.
LEMMA NextCopies ==
  ASSUME OperationsInv, [Next]_vars
  PROVE  (misplaced => misplaced') /\ CopyMoves
<1> USE DEF OperationsInv, Copied
<1>0. RunnerInv /\ requests \subseteq Jobs
  BY RunnerAssumption DEF RunnerInv, RunnerTypes
<1>1. misplaced => misplaced'
  BY DEF Next, Remembers, vars
<1>2. /\ UNCHANGED keyRotationVars => CopyMoves
      /\ UNCHANGED runtimeVars => CopyMoves
      /\ UNCHANGED filesAndScript => CopyMoves
      /\ \A entry, marked, running : Entry(entry, marked, running) => CopyMoves
  BY DEF CopyMoves, keyRotationVars, keyScriptVars, runtimeVars, filesAndScript, Entry
<1>3. ASSUME NEW k \in Jobs, RestoreScript(k) PROVE CopyMoves
  BY <1>2, <1>3 DEF RestoreScript
<1>4. ASSUME NEW k \in Jobs, NEW c \in HostSteps, DeleteScript(k, c) PROVE CopyMoves
  BY <1>0, <1>2, <1>4, DeleteScriptTells
<1>5. ASSUME NEW k \in Jobs, KeyRotation(k) PROVE CopyMoves
  <2>1. CASE KeyRunner(k)
    BY <1>2, <2>1 DEF KeyRunner, AcceptManual, ScanClaims, KeyRotationNotQueued, KeyRotationBegins,
       RotationEnds, StoreKeys, Invalidate, KeyRotationDone, KeyRotationRaises, BlockAfterFailure,
       BlockFails
  <2>2. CASE KeyScriptStep(k)
    <3>1. \/ copy' = copy /\ Copied
          \/ copy' = copy /\ turn' = "idle"
          \/ copy'.files = fileRef
      BY <2>2 DEF KeyScriptStep, AtTurn
    <3> QED
      BY <3>1 DEF CopyMoves
  <2>3. CASE KeyScriptBegins(k) \/ KeyScriptRefused(k) \/ KeyScriptDone(k) \/ KeyScriptTurnedBack(k) \/ KeyScriptDies(k)
    <3>1. turn' \in {"idle", "backup"}
      BY <2>3 DEF KeyScriptBegins, KeyScriptRefused, KeyScriptDone, KeyScriptTurnedBack, KeyScriptDies,
         KeyScriptStarts, keyScriptVars
    <3> QED
      BY <3>1 DEF CopyMoves
  <2>4. CASE KeyScriptTurnsBack(k)
    <3>1. copy' = copy /\ Copied
      BY <2>4 DEF KeyScriptTurnsBack, AtTurn
    <3> QED
      BY <3>1 DEF CopyMoves
  <2>5. CASE KeyScriptLost(k)
    <3>1. copy' = copy /\ turn' \in {turn, "idle"}
      BY <2>5 DEF KeyScriptLost
    <3> QED
      BY <3>1 DEF CopyMoves
  <2> QED
    BY <1>5, <2>1, <2>2, <2>3, <2>4, <2>5 DEF KeyRotation, KeyRunner
<1>6. Studio \/ ScanReadsExpiry \/ KeysAge \/ (\E on \in BOOLEAN : SetAutomatic(on)) => CopyMoves
  BY <1>2 DEF Studio, Promote, FetchKey, PublishKey, ScanReadsExpiry, KeysAge, SetAutomatic
<1>7. UNCHANGED vars => CopyMoves
  BY <1>2 DEF vars
<1>8. /\ UNCHANGED <<deletionVars, runtimeVars>> => CopyMoves
      /\ UNCHANGED <<dataVars, runtimeVars>> => CopyMoves
      /\ UNCHANGED <<dataVars, rotationVars, keyRotationVars>> => CopyMoves
      /\ UNCHANGED <<dataVars, keyRotationVars>> => CopyMoves
  BY <1>2
<1>9. Next => CopyMoves
  <2> HIDE DEF CopyMoves
  <2> QED
    BY <1>0, <1>2, <1>3, <1>4, <1>5, <1>6, <1>8 DEF Next, Operates
<1> QED
  BY <1>1, <1>7, <1>9

\* What a step of a restore's script does to the containers.
LEMMA RestoreTouches ==
  ASSUME RunnerInv, NEW k \in requests, k \in Jobs, RestoreScript(k)
  PROVE  HistoryQuiet /\ (UNCHANGED containerVars \/ \E i \in Intents : Touches(i))
<1>0. /\ UNCHANGED runtimeVars => HistoryQuiet /\ UNCHANGED containerVars
      /\ \A entry, marked, running : Entry(entry, marked, running) =>
           HistoryQuiet /\ UNCHANGED <<envRef, fileRef, gateway>> /\ up' = running
      /\ troubles \in Nat
  BY RunnerAssumption DEF runtimeVars, serviceVars, rotationVars, scriptVars, containerVars, HistoryQuiet,
     Entry, RunnerInv, RunnerTypes
<1>1. CASE RestoreStops(k) /\ Entry(None, TRUE, FALSE)
  <2>1. <<k, "restore_project">> \in Intents /\ command[<<k, "restore_project">>] = "running" /\ Action[k] = "restore"
    BY <1>1, RunningTells DEF RestoreStops
  <2>2. StopAskedFor /\ k \notin Rotations
    BY <2>1 DEF RunnerInv, JobsAreKnown, StopAskedFor, Rotations
  <2>3. Touches(<<k, "restore_project">>)
    BY <1>0, <1>1, <2>1, <2>2 DEF Touches, Harmless
  <2> QED
    BY <1>0, <1>1, <2>1, <2>3
<1>2. CASE RestoreRefused(k) /\ UNCHANGED runtimeVars
  BY <1>0, <1>2
<1>3. CASE RestoreDone(k) /\ Entry(envRef, FALSE, TRUE)
  <2>1. <<k, "restore_project">> \in Intents /\ command[<<k, "restore_project">>] = "running" /\ Action[k] = "restore"
    BY <1>3, RunningTells DEF RestoreDone
  <2>2. Touches(<<k, "restore_project">>)
    BY <1>0, <1>3, <2>1 DEF Touches, Harmless, Rotations
  <2> QED
    BY <1>0, <1>3, <2>1, <2>2
<1>4. CASE /\ RestoreFails(k)
           /\ IF script[k] = "idle" THEN UNCHANGED runtimeVars
              ELSE Entry(envRef, FALSE, TRUE) \/ \E on \in BOOLEAN : Entry(None, TRUE, on)
  <2>1. <<k, "restore_project">> \in Intents /\ command[<<k, "restore_project">>] = "running" /\ Action[k] = "restore"
    BY <1>4, RunningTells DEF RestoreFails
  <2>2. CASE script[k] = "idle"
    BY <1>0, <1>4, <2>2
  <2>3. CASE script[k] # "idle"
    <3>1. troubles' = troubles + 1
      BY <1>4, <2>3 DEF RestoreFails, Trouble
    <3>2. Touches(<<k, "restore_project">>)
      BY <2>1, <3>1 DEF Touches, Rotations
    <3>3. HistoryQuiet
      BY <1>0, <1>4, <2>3
    <3> QED
      BY <2>1, <3>2, <3>3
  <2> QED
    BY <2>2, <2>3
<1>5. CASE /\ PointHandlerLost(k)
           /\ \/ UNCHANGED runtimeVars
              \/ Running(k, "backup_project") /\ Entry(projection, withdrawn, FALSE)
              \/ script[k] = "swapped" /\ (Entry(None, TRUE, TRUE) \/ Entry(envRef, FALSE, TRUE))
  <2>1. k \in PointJobs /\ The(k) \in Intents /\ The(k)[1] = k /\ k \notin Rotations
    BY <1>5, IntentsTell DEF PointHandlerLost, PointJobs, The, Rotations
  <2>2. command[The(k)] = "running" /\ troubles' = troubles + 1
    BY <1>5, <2>1, HostChanges DEF PointHandlerLost, HostLost, Trouble, RunnerInv
  <2>3. Touches(The(k))
    BY <2>1, <2>2 DEF Touches
  <2>4. HistoryQuiet
    BY <1>0, <1>5
  <2> QED
    BY <2>1, <2>3, <2>4
<1>6. CASE /\ PointScriptFails(k)
           /\ \/ UNCHANGED runtimeVars
              \/ troubles' # troubles /\ Action[k] = "backup" /\ Entry(projection, withdrawn, FALSE)
  <2>1. CASE UNCHANGED runtimeVars
    BY <1>0, <2>1
  <2>2. CASE troubles' # troubles /\ Action[k] = "backup" /\ Entry(projection, withdrawn, FALSE)
    <3>1. The(k) \in Intents /\ The(k)[1] = k /\ k \notin Rotations
      BY <2>2, IntentsTell DEF The, Rotations
    <3>2. command[The(k)] = "running" /\ troubles' = troubles + 1
      BY <1>6, <2>2, <3>1, HostChanges DEF PointScriptFails, Trouble, RunnerInv
    <3>3. Touches(The(k))
      BY <3>1, <3>2 DEF Touches
    <3> QED
      BY <1>0, <2>2, <3>1, <3>3
  <2> QED
    BY <1>6, <2>1, <2>2
<1> QED
  BY <1>1, <1>2, <1>3, <1>4, <1>5, <1>6 DEF RestoreScript

\* What a job on the containers does to them.
LEMMA LifecycleTouches ==
  ASSUME RunnerInv, NEW k \in requests, k \in Jobs, Lifecycle(k)
  PROVE  UNCHANGED containerVars \/ \E i \in Intents : Touches(i)
<1>0. UNCHANGED serviceVars => UNCHANGED containerVars
  BY DEF serviceVars
<1>a. /\ k \in LifecycleJobs => The(k) \in Intents /\ The(k)[1] = k /\ k \notin Rotations
      /\ troubles \in Nat
  BY RunnerAssumption, IntentsTell DEF LifecycleJobs, LifecycleActions, The, Rotations, RunnerInv, RunnerTypes
<1>1. CASE \/ AcceptLifecycle(k) \/ AnswerLifecycle(k) \/ LifecycleNotQueued(k) \/ LifecycleBegins(k)
           \/ LifecycleEnds(k) \/ RecreationEnds(k) \/ LifecycleRaises(k)
  BY <1>0, <1>1 DEF AcceptLifecycle, AnswerLifecycle, LifecycleNotQueued, LifecycleBegins, LifecycleEnds,
     RecreationEnds, LifecycleRaises
<1>2. CASE LifecycleDone(k)
  <2>1. k \in LifecycleJobs /\ command[The(k)] = "running" /\ LifecycleWork(k)
    BY <1>2 DEF LifecycleDone, LetIn, AtWork
  <2>2. Action[k] = "stop" => StopAskedFor
    BY <1>a, <2>1 DEF StopAskedFor, RunnerInv, JobsAreKnown
  <2>3. UNCHANGED containerVars \/ Harmless
    <3>1. CASE Action[k] \in {"start", "restart"}
      BY <2>1, <3>1 DEF LifecycleWork, Harmless
    <3>2. CASE Action[k] = "stop"
      BY <2>1, <2>2, <3>2 DEF LifecycleWork, Harmless
    <3>3. CASE Action[k] \notin {"start", "restart", "stop"}
      BY <2>1, <3>3 DEF LifecycleWork, RecreatedContainers, Harmless
    <3> QED
      BY <3>1, <3>2, <3>3
  <2> QED
    BY <1>a, <2>1, <2>3 DEF Touches
<1>3. CASE LifecycleFails(k)
  <2>1. k \in LifecycleJobs /\ command[The(k)] = "running"
    BY <1>3 DEF LifecycleFails, AtWork
  <2>2. CASE files
    BY <1>3, <1>a, <2>1, <2>2 DEF LifecycleFails, Trouble, Touches
  <2>3. CASE ~files
    BY <1>3, <2>3 DEF LifecycleFails, LifecycleLeaves
  <2> QED
    BY <2>2, <2>3
<1>4. CASE LifecycleLost(k)
  <2>1. k \in LifecycleJobs /\ command[The(k)] = "running" /\ troubles' = troubles + 1
    BY <1>4, <1>a, HostChanges DEF LifecycleLost, HostLost, Trouble, RunnerInv
  <2> QED
    BY <1>a, <2>1 DEF Touches
<1> QED
  BY <1>1, <1>2, <1>3, <1>4 DEF Lifecycle

\* What a rotation of the keys does to them.
LEMMA KeyRotationTouches ==
  ASSUME RunnerInv, NEW k \in requests, k \in Jobs, KeyRotation(k)
  PROVE  HistoryQuiet /\ (Agrees => UNCHANGED containerVars \/ \E i \in Intents : Touches(i))
<1>0. UNCHANGED filesAndScript => HistoryQuiet /\ UNCHANGED containerVars
  BY DEF filesAndScript, serviceVars, rotationVars, scriptVars, containerVars, HistoryQuiet
<1>a. /\ k \in KeyJobs => The(k) \in Intents /\ The(k)[1] = k /\ k \notin Rotations
      /\ troubles \in Nat
  BY RunnerAssumption, IntentsTell DEF KeyJobs, The, Rotations, RunnerInv, RunnerTypes
<1>b. /\ UNCHANGED beside => HistoryQuiet
      /\ UNCHANGED touched => UNCHANGED containerVars
      /\ \A entry, marked : InEntry(entry, marked) => UNCHANGED containerVars
  BY DEF beside, HistoryQuiet, touched, containerVars, InEntry
<1>1. CASE KeyRunner(k)
  BY <1>0, <1>1 DEF KeyRunner, AcceptManual, ScanClaims, KeyRotationNotQueued, KeyRotationBegins,
     RotationEnds, StoreKeys, Invalidate, KeyRotationDone, KeyRotationRaises, BlockAfterFailure,
     BlockFails
<1>2. CASE KeyScriptBegins(k) \/ KeyScriptDone(k) \/ KeyScriptTurnedBack(k)
  BY <1>2, <1>b DEF KeyScriptBegins, KeyScriptDone, KeyScriptTurnedBack
<1>3. CASE KeyScriptRefused(k)
  <2>1. HistoryQuiet
    BY <1>3, <1>b DEF KeyScriptRefused
  <2>2. UNCHANGED containerVars
    BY <1>3, <1>b DEF KeyScriptRefused
  <2> QED
    BY <2>1, <2>2
<1>4. CASE KeyScriptStep(k)
  <2>1. k \in KeyJobs /\ command[The(k)] = "running" /\ HistoryQuiet /\ turn # "idle"
    BY <1>4, <1>b DEF KeyScriptStep, AtTurn
  <2>2. ASSUME Agrees PROVE Harmless
    <3>1. /\ envRef = ref
          /\ turn = "write" => lines.env = ref
          /\ turn = "rb_files" => copy.env = ref
      BY <2>1, <2>2 DEF Agrees, TurnAgrees, Turns
    <3> QED
      BY <1>4, <3>1 DEF KeyScriptStep, AtTurn, Files, Env, NginxUp, touched, Harmless, Copied
  <2> QED
    BY <1>a, <2>1, <2>2 DEF Touches
<1>5. CASE KeyScriptTurnsBack(k) \/ KeyScriptDies(k)
  <2>1. k \in KeyJobs /\ command[The(k)] = "running" /\ troubles' = troubles + 1 /\ HistoryQuiet
    BY <1>5, <1>b DEF KeyScriptTurnsBack, KeyScriptDies, AtTurn, Trouble
  <2> QED
    BY <1>a, <2>1 DEF Touches
<1>6. CASE KeyScriptLost(k)
  <2>1. k \in KeyJobs /\ command[The(k)] = "running" /\ troubles' = troubles + 1 /\ HistoryQuiet
    BY <1>6, <1>a, <1>b, HostChanges DEF KeyScriptLost, HostLost, Trouble, RunnerInv
  <2> QED
    BY <1>a, <2>1 DEF Touches
<1> QED
  BY <1>1, <1>2, <1>3, <1>4, <1>5, <1>6 DEF KeyRotation, KeyRunner

\* What a deletion's handler does to them.
LEMMA DeletionTouches ==
  ASSUME RunnerInv, NEW k \in requests, k \in Jobs, NEW c \in HostSteps, DeleteScript(k, c)
  PROVE  HistoryQuiet /\ (UNCHANGED containerVars \/ \E i \in Intents : Touches(i))
<1>1. HistoryQuiet
  BY DeleteScriptTells DEF runtimeVars, serviceVars, rotationVars, scriptVars, HistoryQuiet, Entry
<1>2. <<k, c>> \in Intents /\ command[<<k, c>>] = "running"
  BY DeleteScriptTells, HostChanges DEF DeleteHostDone, DeleteHostFails, DeleteHostLost, HostLost,
     Running, RunnerInv
<1>3. Action[k] = "delete"
  BY <1>2, RunningTells DEF Running
<1>4. Touches(<<k, c>>)
  BY <1>2, <1>3 DEF Touches, Rotations, Deletions
<1> QED
  BY <1>1, <1>2, <1>4

\* The other operations are not those of rotations.
LEMMA OthersRenameNothing ==
  ASSUME RunnerInv, NEW k \in Jobs,
         \/ Data(k) \/ RestoreScript(k) \/ Deletion(k) \/ Lifecycle(k) \/ KeyRotation(k)
         \/ \E c \in HostSteps : DeleteScript(k, c)
  PROVE  k \notin Rotations
<1>1. ASSUME NEW c \in {"backup_project", "delete_restore_point", "restore_project"}, Running(k, c)
      PROVE  k \notin Rotations
  BY <1>1, RunningTells DEF Rotations
<1>2. k \in PointJobs \/ k \in Deletions \/ k \in LifecycleJobs \/ k \in KeyJobs => k \notin Rotations
  BY DEF PointJobs, Deletions, LifecycleJobs, LifecycleActions, KeyJobs, Rotations
<1>3. CASE Data(k)
  BY <1>1, <1>3 DEF Data, AcceptBackup, AcceptRestore, AcceptDeletePoint, CompensateRows,
     RunnerBegins, SettleRows, SettleSafety, SettleTarget, FinishJob, ExceptRows, FailJob, RunnerRaises,
     BackupDone, RestoreSaves, RestoreSwaps, DeletePointDone, PointJobs, Restores, Rotations
<1>4. CASE RestoreScript(k)
  BY <1>1, <1>2, <1>4 DEF RestoreScript, RestoreStops, RestoreRefused, RestoreDone, RestoreFails,
     PointHandlerLost, PointScriptFails
<1>5. CASE Deletion(k)
  BY <1>2, <1>5 DEF Deletion, AcceptDeletion, DeletionNotQueued, DeletionBegins, DeletionSubmits, DeletionNotes,
     DeletionCleans, DeletionRemovesRow, DeletionVerifies, DeletionRaises, DeletionFails
<1>6. CASE Lifecycle(k)
  BY <1>2, <1>6 DEF Lifecycle, AcceptLifecycle, AnswerLifecycle, Asks, LifecycleNotQueued, LifecycleBegins,
     LifecycleEnds, RecreationEnds, LifecycleRaises, LifecycleDone, LifecycleFails, LifecycleLost
<1>7. CASE KeyRotation(k)
  BY <1>2, <1>7 DEF KeyRotation, AcceptManual, ScanClaims, KeyRotationNotQueued, KeyRotationBegins,
     RotationEnds, StoreKeys, Invalidate, KeyRotationDone, KeyRotationRaises, BlockAfterFailure,
     BlockFails, KeyScriptBegins, KeyScriptRefused, KeyScriptStep, KeyScriptDone, KeyScriptTurnsBack,
     KeyScriptTurnedBack, KeyScriptDies, KeyScriptLost, KeyScriptStarts, AtTurn
<1>8. ASSUME NEW c \in HostSteps, DeleteScript(k, c) PROVE k \notin Rotations
  <2>1. <<k, c>> \in Intents
    BY <1>8, DeleteScriptTells DEF DeleteHostDone, DeleteHostFails, DeleteHostLost, Running
  <2>2. Action[k] = "delete"
    BY <2>1, IntentsTell, CommandTells
  <2> QED
    BY <2>2 DEF Rotations
<1> QED
  BY <1>3, <1>4, <1>5, <1>6, <1>7, <1>8

\* Every step is one of the queue and the worker, of a rotation, of a rollback, or leaves
\* the history and the script alone.
LEMMA NextHistory ==
  ASSUME OperationsInv, [Next]_vars
  PROVE  \/ Runner /\ HistoryQuiet /\ UNCHANGED containerVars
         \/ \E k \in Rotations : k \in requests /\ Rotation(k)
         \/ Rotates
         \/ OthersMove
<1> USE DEF OperationsInv
<1>0. /\ requests \subseteq Jobs /\ HolderRotates /\ files \in BOOLEAN /\ Rotations \in SUBSET Jobs /\ RunnerInv
  BY RunnerAssumption DEF RunnerInv, RunnerTypes, ReferenceInv, Steady, ScriptHolds, HolderRotates, Rotations
<1> DEFINE Alone == Unmoved(Rotations) /\ CommandsStay(Rotations)
           Moves == UNCHANGED containerVars \/ \E i \in Intents : Touches(i)
<1>m. misplaced' \/ Agrees
  BY NextCopies DEF ReferenceInv
<1>a. UNCHANGED runnerVars => Alone
  BY DEF runnerVars, Unmoved, CommandsStay
<1>b. /\ UNCHANGED runtimeVars => HistoryQuiet /\ UNCHANGED containerVars
      /\ UNCHANGED rotationVars => HistoryQuiet
      /\ UNCHANGED filesAndScript => HistoryQuiet /\ UNCHANGED containerVars
      /\ UNCHANGED serviceVars => UNCHANGED containerVars
  BY DEF runtimeVars, filesAndScript, serviceVars, rotationVars, scriptVars, containerVars, HistoryQuiet
<1>1. ASSUME NEW k \in Jobs, k \notin Rotations,
             \/ Data(k) \/ RestoreScript(k) \/ Deletion(k) \/ Lifecycle(k) \/ KeyRotation(k)
             \/ \E c \in HostSteps : DeleteScript(k, c)
      PROVE  Alone
  <2>1. OperationActs(k)
    BY <1>1, DataActs, DeletionActs, LifecycleActs, KeyRotationActs, RestoreScriptActs, DeleteScriptActs
       DEF OperationActs
  <2>2. Unmoved(Rotations)
    BY <1>0, <1>1, <2>1, OthersMoveNone DEF OperationActs
  <2> QED
    BY <1>0, <1>1, <2>2, OperationsKeepToTheirOwn
<1>2. ASSUME NEW k \in requests, Data(k) PROVE Alone
  BY <1>0, <1>1, <1>2, OthersRenameNothing
<1>3. ASSUME NEW k \in requests, Deletion(k) PROVE Alone
  BY <1>0, <1>1, <1>3, OthersRenameNothing
<1>4. ASSUME NEW k \in requests, RestoreScript(k) PROVE OthersMove
  <2>1. Alone
    BY <1>0, <1>1, <1>4, OthersRenameNothing
  <2> QED
    BY <1>0, <1>4, <2>1, RestoreTouches DEF OthersMove
<1>5. ASSUME NEW k \in requests, NEW c \in HostSteps, DeleteScript(k, c) PROVE OthersMove
  <2>1. Alone
    BY <1>0, <1>1, <1>5, OthersRenameNothing
  <2> QED
    BY <1>0, <1>5, <2>1, DeletionTouches DEF OthersMove
<1>6. ASSUME NEW k \in requests, Lifecycle(k), UNCHANGED rotationVars PROVE OthersMove
  <2>1. Alone
    BY <1>0, <1>1, <1>6, OthersRenameNothing
  <2> QED
    BY <1>0, <1>b, <1>6, <2>1, LifecycleTouches DEF OthersMove
<1>7. ASSUME NEW k \in requests, KeyRotation(k) PROVE OthersMove
  <2>1. Alone
    BY <1>0, <1>1, <1>7, OthersRenameNothing
  <2> QED
    BY <1>0, <1>m, <1>7, <2>1, KeyRotationTouches DEF OthersMove
<1>8. ASSUME NEW k \in requests, Rotation(k) PROVE k \in Rotations
  BY <1>8 DEF Rotation, AcceptRotation, CompensateRotation, RotationBegins, RotationConfirms, RotationRaises,
     RotationFails, ScriptBegins, Preflight, Advance, ScriptFails, ScriptDone, ScriptKilled, Held
<1>9. Write /\ UNCHANGED runtimeVars => OthersMove
  BY <1>a, <1>b DEF Write, OthersMove
<1>10. ASSUME Saves, UNCHANGED rotationVars, Remembers PROVE OthersMove
  <2>1. HistoryQuiet /\ UNCHANGED runnerVars
    BY <1>b, <1>10 DEF Saves, ReadEnv, ReplaceEnv, SaveFails
  <2>2. CASE ReplaceEnv
    <3>1. saves \in Nat
      <4>1. MaxSaves[requests] \in Nat
        BY ServicesAssumption DEF RunnerInv, RunnerTypes
      <4> QED
        BY <4>1 DEF NumberInv, Counted
    <3>2. saves' # saves
      BY <2>2, <3>1 DEF ReplaceEnv
    <3>3. UNCHANGED containerVars \/ misplaced'
      BY <1>10, <2>2, <3>2 DEF ReplaceEnv, Remembers, containerVars
    <3> QED
      BY <1>a, <2>1, <3>3 DEF OthersMove
  <2>3. CASE ~ReplaceEnv
    <3>1. UNCHANGED containerVars
      BY <1>b, <1>10, <2>3 DEF Saves, ReadEnv, SaveFails
    <3> QED
      BY <1>a, <2>1, <3>1 DEF OthersMove
  <2> QED
    BY <2>2, <2>3
<1>11. Sync => OthersMove
  <2>1. Sync => HistoryQuiet /\ UNCHANGED containerVars /\ UNCHANGED runnerVars
    BY DEF Sync, HistoryQuiet, serviceVars
  <2> QED
    BY <1>a, <2>1 DEF OthersMove
<1>12. Studio \/ ScanReadsExpiry \/ KeysAge \/ (\E on \in BOOLEAN : SetAutomatic(on)) => OthersMove
  BY <1>a, <1>b DEF Studio, Promote, FetchKey, PublishKey, ScanReadsExpiry, KeysAge, SetAutomatic, OthersMove
<1>13. UNCHANGED vars => OthersMove
  BY <1>a, <1>b DEF vars, OthersMove
<1>14. Alone /\ UNCHANGED runtimeVars => OthersMove
  BY <1>b DEF OthersMove
<1>15. /\ UNCHANGED <<deletionVars, runtimeVars>> => UNCHANGED runtimeVars
       /\ UNCHANGED <<dataVars, runtimeVars>> => UNCHANGED runtimeVars
       /\ UNCHANGED <<dataVars, rotationVars, keyRotationVars>> => UNCHANGED rotationVars
  OBVIOUS
<1> QED
  <2> HIDE DEF Alone
  <2> QED
    BY <1>b, <1>2, <1>3, <1>4, <1>5, <1>6, <1>7, <1>8, <1>9, <1>10, <1>11, <1>12, <1>13, <1>14, <1>15 DEF
       Next, Operates

\* A step of a runner without trouble: it comes to wait, or it has submitted nothing and has
\* not left an intent that is open.
AttendsOn(k) == pc'[k] = "wait" \/ (command' = command /\ (pc[k] = "wait" => Ended(The(k))))

\* Every runner that is there attends to its intent.
LEMMA RunnersAttend ==
  ASSUME OperationsInv, NEW k \in Jobs, troubles' = troubles,
         Data(k) \/ Lifecycle(k) \/ Rotation(k) \/ KeyRotation(k)
  PROVE  HostWorks \/ ((RunnerWorks(k) \/ AcceptJob(k)) /\ AttendsOn(k))
<1> USE DEF OperationsInv
<1>0. /\ RunnerInv /\ RunnerTypes /\ troubles \in Nat /\ ~Trouble
  BY RunnerAssumption DEF RunnerInv, RunnerTypes, Trouble
<1>a. OperationActs(k)
  BY <1>0, DataActs, LifecycleActs, RotationActs, KeyRotationActs
<1>b. \A place : Goto(k, place) => pc'[k] = place
  BY <1>0 DEF Goto, RunnerTypes
<1>c. AcceptJob(k) => command' = command /\ pc[k] # "wait"
  BY <1>0 DEF AcceptJob, RunnerInv, JobsAreKnown
<1>d. UNCHANGED runnerVars => HostWorks
  BY <1>0 DEF runnerVars, HostWorks, RunnerTypes
<1>e. ASSUME AttendsOn(k) PROVE HostWorks \/ ((RunnerWorks(k) \/ AcceptJob(k)) /\ AttendsOn(k))
  BY <1>a, <1>e DEF OperationActs
<1>1. CASE Data(k)
  <2>1. CASE RowsMove(k)
    <3>1. AttendsOn(k)
      BY <1>0, <1>b, <1>c, <2>1 DEF RowsMove, AcceptBackup, AcceptRestore, AcceptDeletePoint,
         CompensateRows, RunnerBegins, SettleRows, SettleSafety, SettleTarget, FinishJob, ExceptRows,
         FailJob, RunnerRaises, AttendsOn
    <3> QED
      BY <1>e, <3>1
  <2>2. CASE BackupDone(k) \/ DeletePointDone(k)
    <3>1. The(k) \in Intents
      BY <2>2, RunningTells DEF BackupDone, DeletePointDone
    <3> QED
      BY <1>0, <2>2, <3>1, HandlerWorks DEF BackupDone, DeletePointDone, still
  <2>3. CASE RestoreSaves(k) \/ RestoreSwaps(k)
    BY <1>d, <2>3 DEF RestoreSaves, RestoreSwaps
  <2> QED
    BY <1>1, <2>1, <2>2, <2>3 DEF Data, RowsMove
<1>2. CASE Lifecycle(k)
  <2>0. k \in LifecycleJobs => The(k) \in Intents
    BY IntentsTell DEF LifecycleJobs, LifecycleActions
  <2>1. CASE \/ AcceptLifecycle(k) \/ LifecycleNotQueued(k) \/ LifecycleBegins(k)
             \/ LifecycleEnds(k) \/ RecreationEnds(k) \/ LifecycleRaises(k)
    <3>1. AttendsOn(k)
      BY <1>0, <1>b, <1>c, <2>1 DEF AcceptLifecycle, LifecycleNotQueued, LifecycleBegins, LifecycleEnds,
         RecreationEnds, LifecycleRaises, AttendsOn
    <3> QED
      BY <1>e, <3>1
  <2>2. CASE AnswerLifecycle(k)
    BY <1>d, <2>2 DEF AnswerLifecycle
  <2>3. CASE LifecycleDone(k) \/ LifecycleFails(k)
    BY <1>0, <2>0, <2>3, HandlerWorks DEF LifecycleDone, LifecycleFails, still
  <2>4. ~LifecycleLost(k)
    BY <1>0 DEF LifecycleLost, HostLost
  <2> QED
    BY <1>2, <2>1, <2>2, <2>3, <2>4 DEF Lifecycle
<1>3. CASE Rotation(k)
  <2>0. k \in Rotations => The(k) \in Intents
    BY IntentsTell DEF Rotations
  <2>1. CASE \/ AcceptRotation(k) \/ CompensateRotation(k) \/ RotationBegins(k) \/ RotationConfirms(k)
             \/ RotationRaises(k) \/ RotationFails(k)
    <3>1. AttendsOn(k)
      BY <1>0, <1>b, <1>c, <2>1 DEF AcceptRotation, CompensateRotation, RotationBegins, RotationConfirms,
         RotationRaises, RotationFails, AttendsOn
    <3> QED
      BY <1>e, <3>1
  <2>2. CASE ScriptBegins(k) \/ Preflight(k) \/ Advance(k)
    BY <1>d, <2>2 DEF ScriptBegins, Preflight, Advance
  <2>3. CASE ScriptFails(k)
    <3>1. The(k) \in Intents /\ UNCHANGED <<requests, files, restarted, project, job, pc, queue, api>>
      BY <2>0, <2>3 DEF ScriptFails, Held, still
    <3>2. command' = command \/ Host!Fail({The(k)})
      BY <2>3 DEF ScriptFails, EndCommand
    <3>3. command' = command => HostWorks
      BY <1>0, <3>1 DEF HostWorks
    <3> QED
      BY <1>0, <3>1, <3>2, <3>3, HandlerWorks
  <2>4. CASE ScriptDone(k)
    BY <1>0, <2>0, <2>4, HandlerWorks DEF ScriptDone, Held, still
  <2>5. ~ScriptKilled(k)
    BY <1>0 DEF ScriptKilled, HostLost
  <2> QED
    BY <1>3, <2>1, <2>2, <2>3, <2>4, <2>5 DEF Rotation
<1>4. CASE KeyRotation(k)
  <2>0. k \in KeyJobs => The(k) \in Intents
    BY IntentsTell DEF KeyJobs
  <2>1. CASE KeyRunner(k)
    <3>1. AttendsOn(k)
      BY <1>0, <1>b, <1>c, <2>1 DEF KeyRunner, AcceptManual, ScanClaims, KeyRotationNotQueued,
         KeyRotationBegins, RotationEnds, StoreKeys, Invalidate, KeyRotationDone, KeyRotationRaises,
         BlockAfterFailure, BlockFails, AttendsOn
    <3> QED
      BY <1>e, <3>1
  <2>2. CASE KeyScriptBegins(k) \/ KeyScriptStep(k)
    BY <1>d, <2>2 DEF KeyScriptBegins, KeyScriptStep
  <2>3. CASE KeyScriptRefused(k) \/ KeyScriptDone(k) \/ KeyScriptTurnedBack(k) \/ KeyScriptDies(k)
    <3>1. /\ k \in KeyJobs /\ (Host!Succeed(The(k)) \/ Host!Fail({The(k)}))
          /\ UNCHANGED <<requests, files, project, job, pc, queue, api, restarted>>
      BY <2>3 DEF KeyScriptRefused, KeyScriptStarts, KeyScriptDone, KeyScriptTurnedBack, KeyScriptDies,
         AtTurn, still
    <3> QED
      BY <1>0, <2>0, <3>1, HandlerWorks
  <2>4. ~KeyScriptTurnsBack(k)
    BY <1>0 DEF KeyScriptTurnsBack
  <2>5. ~KeyScriptLost(k)
    BY <1>0 DEF KeyScriptLost, HostLost
  <2> QED
    BY <1>4, <2>1, <2>2, <2>3, <2>4, <2>5 DEF KeyRotation, KeyRunner
<1> QED
  BY <1>1, <1>2, <1>3, <1>4

\* Without trouble every step is one of the queue and the worker, of the host, or of a
\* runner that attends to its intent.
LEMMA NextAttends ==
  ASSUME OperationsInv, [Next]_vars, ~Concerns(Deletions), troubles' = troubles
  PROVE  Runner \/ HostWorks \/ \E k \in Jobs \ Deletions : (RunnerWorks(k) \/ AcceptJob(k)) /\ AttendsOn(k)
<1> USE DEF OperationsInv
<1>0. /\ requests \subseteq Jobs /\ requests \cap Deletions = {} /\ HolderRotates /\ RunnerInv /\ files \in BOOLEAN
  BY RunnerAssumption DEF RunnerInv, RunnerTypes, ReferenceInv, Steady, ScriptHolds, HolderRotates, Concerns
<1>a. UNCHANGED runnerVars => HostWorks
  BY <1>0 DEF runnerVars, HostWorks
<1>1. ASSUME NEW k \in requests, Data(k) \/ Lifecycle(k) \/ Rotation(k) \/ KeyRotation(k)
      PROVE  HostWorks \/ ((RunnerWorks(k) \/ AcceptJob(k)) /\ AttendsOn(k))
  BY <1>0, <1>1, RunnersAttend
<1>2. ASSUME NEW k \in requests, Deletion(k) PROVE FALSE
  BY <1>0, <1>2 DEF Deletion, AcceptDeletion, DeletionNotQueued, DeletionBegins, DeletionSubmits, DeletionNotes,
     DeletionCleans, DeletionRemovesRow, DeletionVerifies, DeletionRaises, DeletionFails
<1>3. ASSUME NEW k \in requests, RestoreScript(k) \/ \E c \in HostSteps : DeleteScript(k, c) PROVE HostWorks
  BY <1>0, <1>3, RestoreScriptActs, DeleteScriptActs
<1>4. Rotates => HostWorks
  BY <1>0, RotatesActs
<1>5. Write \/ Sync \/ Studio \/ ScanReadsExpiry \/ KeysAge \/ (\E on \in BOOLEAN : SetAutomatic(on))
      \/ Saves \/ UNCHANGED vars => HostWorks
  BY <1>a DEF Write, Sync, Studio, Promote, FetchKey, PublishKey, ScanReadsExpiry, KeysAge, SetAutomatic,
     Saves, ReadEnv, ReplaceEnv, SaveFails, vars
<1>6. (\E k \in requests : Data(k) \/ Lifecycle(k) \/ Rotation(k) \/ KeyRotation(k)) =>
        HostWorks \/ \E k \in Jobs \ Deletions : (RunnerWorks(k) \/ AcceptJob(k)) /\ AttendsOn(k)
  BY <1>0, <1>1
<1> QED
  BY <1>2, <1>3, <1>4, <1>5, <1>6 DEF Next, Operates

\* So every open intent keeps its runner, as long as nothing goes wrong.
LEMMA IntentsStayAttended ==
  ASSUME OperationsInv, QueueWaits, [Next]_vars, ~Concerns(Deletions), troubles' = troubles, ~restarted, api = "up",
         \A i \in Intents : command[i] \in {"queued", "running"} => pc[i[1]] = "wait"
  PROVE  \A i \in Intents : command'[i] \in {"queued", "running"} => pc'[i[1]] = "wait"
<1> USE DEF OperationsInv
<1>0. /\ requests \subseteq Jobs /\ RunnerInv /\ RunnerTypes /\ troubles \in Nat
      /\ \A i \in Intents : i[1] \in Jobs /\ (Action[i[1]] # "delete" => i = The(i[1]))
  BY RunnerAssumption, IntentsTell DEF RunnerInv, RunnerTypes
<1>1. CASE HostWorks
  BY <1>0, <1>1 DEF HostWorks, RunnerTypes, Host!Final
<1>2. ASSUME NEW k \in Jobs, k \notin Deletions, RunnerWorks(k) \/ AcceptJob(k), AttendsOn(k)
      PROVE  \A i \in Intents : command'[i] \in {"queued", "running"} => pc'[i[1]] = "wait"
  <2>1. /\ \A j \in Jobs \ {k} : pc'[j] = pc[j]
        /\ \A i \in Intents : i[1] # k => command'[i] = command[i]
    BY <1>0, <1>2 DEF RunnerWorks, AcceptJob, Goto, RunnerTypes
  <2>2. \A i \in Intents : i[1] = k => i = The(k)
    BY <1>0, <1>2 DEF Deletions
  <2>3. Ended(The(k)) => command[The(k)] \notin {"queued", "running"}
    BY DEF Ended, Host!Final
  <2>4. ASSUME NEW i \in Intents, i[1] = k, command'[i] \in {"queued", "running"} PROVE pc'[k] = "wait"
    BY <1>2, <2>2, <2>3, <2>4 DEF AttendsOn
  <2> QED
    BY <1>0, <2>1, <2>4
<1>3. CASE Runner
  <2>1. /\ \A j \in Jobs : (pc'[j] = pc[j] /\ job'[j] = job[j]) \/ MovesOn(j)
    <3>1. ~restarted'
      BY <1>0, <1>3 DEF Runner, Enqueue, EnqueueFails, TakeJob, RecoverJob, HostBegins, WithdrawIntent,
         ApiStops, ApiStarts, Serve, Trouble, still
    <3> QED
      BY <1>3, <3>1, RunnerMovesOn
  <2>2. \A i \in Intents : command'[i] \in {"queued", "running"} => command[i] \in {"queued", "running"}
    <3>1. ASSUME NEW i \in Intents, HostBegins(i) \/ WithdrawIntent(i)
          PROVE  command[i] = "queued" /\ \E s : command' = [command EXCEPT ![i] = s]
      BY <1>0, <3>1, HostChanges DEF HostBegins, WithdrawIntent
    <3>2. (\E i \in Intents : HostBegins(i) \/ WithdrawIntent(i)) =>
            \A i \in Intents : command'[i] \in {"queued", "running"} => command[i] \in {"queued", "running"}
      BY <1>0, <3>1 DEF RunnerTypes
    <3>3. ~(\E i \in Intents : HostBegins(i) \/ WithdrawIntent(i)) => command' = command
      BY <1>3 DEF Runner, Enqueue, EnqueueFails, TakeJob, RecoverJob, ApiStops, ApiStarts, Serve
    <3> QED
      BY <3>2, <3>3
  <2> QED
    BY <1>0, <2>1, <2>2 DEF MovesOn
<1> QED
  BY <1>1, <1>2, <1>3, NextAttends

\* A step of the runner of a rotation, or of its endpoint.
RotationRunner(k) ==
  \/ AcceptRotation(k) \/ CompensateRotation(k) \/ RotationBegins(k) \/ RotationConfirms(k)
  \/ RotationRaises(k) \/ RotationFails(k)

\* It writes its own row of the history, and opens one only when none is open.
LEMMA RotationRunnerTells ==
  ASSUME OperationsInv, HistoryTells, NEW k \in Rotations, RotationRunner(k)
  PROVE  /\ UNCHANGED <<rolledBack, ref, journal, log, step, holder>> /\ UNCHANGED containerVars
         /\ \A j \in Rotations : j # k =>
              history'[j] = history[j] /\ oldRef'[j] = oldRef[j] /\ command'[The(j)] = command[The(j)] /\ job'[j] = job[j]
         /\ job'[k] # "absent" /\ history'[k] # "absent"
         /\ \/ /\ AcceptRotation(k)
               /\ NoActiveRotation /\ job[k] = "absent" /\ command[The(k)] = "absent" /\ command'[The(k)] = "absent"
            \/ /\ ~AcceptRotation(k)
               /\ oldRef'[k] = oldRef[k] /\ job[k] # "absent" /\ history[k] # "absent"
               /\ history'[k] \in Open => history[k] \in Open
               /\ \/ command'[The(k)] = command[The(k)]
                  \/ command[The(k)] = "absent" /\ command'[The(k)] = "queued"
<1> USE DEF OperationsInv
<1>0. /\ RunnerInv /\ RunnerTypes /\ SettingTypes /\ ReferenceTypes
      /\ \A j \in Rotations : j \in Jobs /\ The(j) \in Intents /\ The(j)[1] = j /\ Action[j] # "delete"
      /\ \A j \in Rotations : history[j] = "absent" => job[j] = "absent"
      /\ \A j \in Jobs : pc[j] # "none" => job[j] # "absent"
  BY IntentsTell DEF RunnerInv, JobsAreKnown, ReferenceInv, Steady, Rotations, The, HistoryTells
<1>1. UNCHANGED <<rolledBack, ref, journal, log, step, holder>> /\ UNCHANGED containerVars
  BY DEF RotationRunner, AcceptRotation, CompensateRotation, RotationBegins, RotationConfirms, RotationRaises,
     RotationFails, rotationVars, scriptVars, serviceVars
<1>2. \A j \in Rotations : j # k => The(j) # The(k)
  BY DEF The
<1>3. /\ job' = job \/ \E s \in {"queued", "running", "done", "failed"} : Settle(k, s)
      /\ history' = history \/ \E s \in Open \cup HistoryFinal : SetHistory(k, s)
  <2>1. CASE RotationConfirms(k)
    <3>1. Confirmed(k) \in {"raise", "succeeded", "rolled_back", "failed"}
      BY DEF Confirmed
    <3> QED
      BY <2>1, <3>1 DEF RotationConfirms, HistoryFinal, Open
  <2>2. CASE ~RotationConfirms(k)
    BY <2>2 DEF RotationRunner, AcceptRotation, AcceptJob, CompensateRotation, RotationBegins, RotationRaises,
       RotationFails, rotationVars, Open, HistoryFinal
  <2> QED
    BY <2>1, <2>2
<1>4. command' = command \/ (command[The(k)] = "absent" /\ command' = [command EXCEPT ![The(k)] = "queued"])
  BY <1>0, HostChanges DEF RotationRunner, AcceptRotation, AcceptJob, CompensateRotation, RotationBegins,
     RotationConfirms, RotationRaises, RotationFails, AttachIntent
<1>5. oldRef' = oldRef \/ oldRef' = [oldRef EXCEPT ![k] = ref]
  BY DEF RotationRunner, AcceptRotation, CompensateRotation, RotationBegins, RotationConfirms, RotationRaises,
     RotationFails, rotationVars
<1>6. \A j \in Rotations : j # k =>
        history'[j] = history[j] /\ oldRef'[j] = oldRef[j] /\ command'[The(j)] = command[The(j)] /\ job'[j] = job[j]
  BY <1>0, <1>2, <1>3, <1>4, <1>5 DEF Settle, SetHistory, RunnerTypes, SettingTypes, ReferenceTypes
<1>7. CASE AcceptRotation(k)
  <2>1. job[k] = "absent" /\ command' = command /\ NoActiveRotation /\ SetHistory(k, "queued") /\ Settle(k, "queued")
    BY <1>7 DEF AcceptRotation, AcceptJob
  <2>2. command[The(k)] = "absent"
    BY <1>0, <2>1 DEF RunnerInv, JobsAreKnown
  <2> QED
    BY <1>0, <1>1, <1>6, <1>7, <2>1, <2>2 DEF SetHistory, Settle, RunnerTypes, SettingTypes
<1>8. CASE ~AcceptRotation(k)
  <2>1. pc[k] # "none" /\ oldRef' = oldRef
    BY <1>8 DEF RotationRunner, CompensateRotation, RotationBegins, RotationConfirms, RotationRaises,
       RotationFails, rotationVars
  <2>2. job[k] # "absent" /\ history[k] \in Open \cup HistoryFinal
    BY <1>0, <2>1 DEF SettingTypes
  <2>3. job'[k] # "absent"
    BY <1>0, <1>3, <2>2 DEF Settle, RunnerTypes
  <2>4. history'[k] # "absent" /\ (history'[k] \in Open => history[k] \in Open)
    <3>1. CASE RotationBegins(k)
      <4>1. history[k] \in Open
            \/ history' = history
        BY <2>2, <3>1 DEF RotationBegins
      <4>2. history' = history \/ SetHistory(k, "running")
        BY <3>1 DEF RotationBegins
      <4> QED
        BY <1>0, <2>2, <4>1, <4>2 DEF SetHistory, SettingTypes, Open, HistoryFinal
    <3>2. CASE RotationConfirms(k)
      <4>1. history' = history \/ \E s \in HistoryFinal : SetHistory(k, s)
        <5>1. Confirmed(k) \in {"raise", "succeeded", "rolled_back", "failed"}
          BY DEF Confirmed
        <5> QED
          BY <3>2, <5>1 DEF RotationConfirms, HistoryFinal
      <4> QED
        BY <1>0, <2>2, <4>1 DEF SetHistory, SettingTypes, Open, HistoryFinal
    <3>3. CASE CompensateRotation(k) \/ RotationFails(k) \/ RotationRaises(k)
      <4>1. history' = history \/ SetHistory(k, "failed")
        BY <3>3 DEF CompensateRotation, RotationFails, RotationRaises, rotationVars
      <4> QED
        BY <1>0, <2>2, <4>1 DEF SetHistory, SettingTypes, Open, HistoryFinal
    <3> QED
      BY <1>8, <3>1, <3>2, <3>3 DEF RotationRunner
  <2> QED
    BY <1>0, <1>1, <1>4, <1>6, <1>8, <2>1, <2>2, <2>3, <2>4 DEF RunnerTypes
<1> QED
  BY <1>7, <1>8

\* A step of a rotation's script.
RotationScript(k) ==
  ScriptBegins(k) \/ Preflight(k) \/ Advance(k) \/ ScriptFails(k) \/ ScriptDone(k) \/ ScriptKilled(k)

\* It leaves the rows to the runner, and ends its own command.
LEMMA RotationScriptTells ==
  ASSUME OperationsInv, NEW k \in Rotations, RotationScript(k)
  PROVE  /\ UNCHANGED <<history, oldRef, rolledBack, job>>
         /\ \A j \in Rotations : command'[The(j)] # command[The(j)] =>
              j = k /\ command[The(k)] = "running" /\ command'[The(k)] \in {"failed", "done"}
         /\ \A j \in Rotations : command'[The(j)] = "done" /\ command[The(j)] # "done" => ScriptDone(k)
<1> USE DEF OperationsInv
<1>0. /\ RunnerTypes /\ \A j \in Rotations : The(j) \in Intents /\ (j # k => The(j) # The(k))
  BY IntentsTell DEF RunnerInv, Rotations, The
<1>1. UNCHANGED <<history, oldRef, rolledBack, job>>
  BY DEF RotationScript, ScriptBegins, Preflight, Advance, ScriptFails, EndCommand, ScriptDone,
     ScriptKilled, HostLost, outside, runnerVars
<1>2. \/ command' = command
      \/ Host!Fail({The(k)})
      \/ Host!Succeed(The(k)) /\ ScriptDone(k)
  BY DEF RotationScript, ScriptBegins, Preflight, Advance, ScriptFails, EndCommand, ScriptDone,
     ScriptKilled, HostLost, runnerVars
<1>3. \/ command' = command
      \/ command[The(k)] = "running" /\ command' = [command EXCEPT ![The(k)] = "failed"]
      \/ command[The(k)] = "running" /\ command' = [command EXCEPT ![The(k)] = "done"] /\ ScriptDone(k)
  BY <1>0, <1>2, HostChanges
<1> QED
  BY <1>0, <1>1, <1>3 DEF RunnerTypes

\* The same of the steps of a rollback, of its recovery by hand, and of the agent's look at
\* a recreation.
LEMMA RotatesTells ==
  ASSUME OperationsInv, Rotates
  PROVE  /\ UNCHANGED <<history, oldRef, job>>
         /\ \A j \in Rotations : command'[The(j)] # command[The(j)] =>
              /\ j = holder /\ command[The(j)] = "running" /\ command'[The(j)] = "failed"
              /\ RollBackDone \/ LastStop
         /\ \A j \in Rotations : rolledBack'[j] /\ ~rolledBack[j] =>
              j = holder /\ step = "rb_cleanup" /\ (RollBackDone \/ RollBackFails)
<1> USE DEF OperationsInv
<1>0. /\ RunnerTypes /\ SettingTypes /\ \A j \in Rotations : The(j) \in Intents
      /\ holder \in Rotations => \A j \in Rotations : j # holder => The(j) # The(holder)
      /\ step = "last_stop" => holder \in Rotations
  BY IntentsTell DEF RunnerInv, Rotations, The, ReferenceInv, Steady, ScriptHolds, HolderRotates
<1>1. CASE RollBack \/ OperatorRecovers
  BY <1>1 DEF RollBack, OperatorRecovers, runnerVars, outside
<1>2. CASE RollBackDone \/ LastStop
  <2>1. UNCHANGED <<history, oldRef, job>>
    BY <1>2 DEF RollBackDone, LastStop, outside
  <2>2. \/ command' = command
        \/ holder \in Rotations /\ command[The(holder)] = "running" /\ command' = [command EXCEPT ![The(holder)] = "failed"]
    BY <1>0, <1>2, HostChanges DEF RollBackDone, LastStop
  <2>3. \/ rolledBack' = rolledBack
        \/ /\ RollBackDone /\ holder \in Rotations /\ step = "rb_cleanup"
           /\ rolledBack' = [rolledBack EXCEPT ![holder] = TRUE]
    BY <1>2 DEF RollBackDone, LastStop, outside
  <2>4. \A j \in Rotations : command'[The(j)] # command[The(j)] =>
          j = holder /\ command[The(j)] = "running" /\ command'[The(j)] = "failed"
    BY <1>0, <2>2 DEF RunnerTypes
  <2>5. \A j \in Rotations : rolledBack'[j] /\ ~rolledBack[j] => j = holder /\ step = "rb_cleanup" /\ RollBackDone
    BY <1>0, <2>3 DEF SettingTypes
  <2> QED
    BY <1>2, <2>1, <2>4, <2>5
<1>3. CASE RollBackFails
  <2>1. UNCHANGED <<history, oldRef, job, command>>
    BY <1>3 DEF RollBackFails
  <2>2. rolledBack' = rolledBack \/ rolledBack' = [rolledBack EXCEPT ![holder] = (step = "rb_cleanup")]
    BY <1>3 DEF RollBackFails
  <2>3. \A j \in Rotations : rolledBack'[j] /\ ~rolledBack[j] => j = holder /\ step = "rb_cleanup"
    BY <1>0, <2>2 DEF SettingTypes
  <2> QED
    BY <1>3, <2>1, <2>3
<1>4. ASSUME NEW k \in requests, AdmitRecreation(k) \/ RefuseRecreation(k)
      PROVE  UNCHANGED <<history, oldRef, job, rolledBack>> /\ \A j \in Rotations : command'[The(j)] = command[The(j)]
  <2>1. UNCHANGED <<history, oldRef, job, rolledBack>>
    BY <1>4 DEF AdmitRecreation, RefuseRecreation, runnerVars, rotationVars
  <2>2. k \in LifecycleJobs /\ The(k) \in Intents /\ \A j \in Rotations : The(j) # The(k)
    BY <1>4, IntentsTell DEF AdmitRecreation, RefuseRecreation, LifecycleJobs, LifecycleActions, The, Rotations
  <2>3. command' = command \/ \E s : command' = [command EXCEPT ![The(k)] = s]
    BY <1>0, <1>4, <2>2, HostChanges DEF AdmitRecreation, RefuseRecreation, runnerVars
  <2> QED
    BY <1>0, <2>1, <2>2, <2>3 DEF RunnerTypes
<1> QED
  BY <1>1, <1>2, <1>3, <1>4 DEF Rotates

\* Every step keeps what the history tells.
LEMMA NextHistoryTells ==
  OperationsInv /\ HistoryTells /\ [Next]_vars => HistoryTells'
<1> SUFFICES ASSUME OperationsInv, HistoryTells, [Next]_vars PROVE HistoryTells'
  OBVIOUS
<1> USE DEF OperationsInv
<1>0. /\ RunnerInv /\ RunnerTypes /\ SettingTypes /\ requests \subseteq Jobs
      /\ \A j \in Rotations : j \in Jobs /\ The(j) \in Intents /\ The(j)[1] = j
      /\ \A j, k \in Rotations : command[The(j)] = "running" /\ command[The(k)] = "running" => j = k
  BY RunnerAssumption, IntentsTell DEF RunnerInv, RunnerTypes, OneRuns, Rotations, The
<1>1. CASE Runner /\ HistoryQuiet /\ UNCHANGED containerVars
  <2>1. \A j \in Rotations : job[j] = "absent" => job'[j] = "absent"
    <3>1. job' = job \/ \E k \in Jobs : job[k] # "absent" /\ \E s : job' = [job EXCEPT ![k] = s]
      BY <1>0, <1>1 DEF Runner, Enqueue, EnqueueFails, TakeJob, RecoverJob, Unrecovered, HostBegins,
         WithdrawIntent, ApiStops, ApiStarts, Serve, Settle, RunnerInv, JobsAreKnown
    <3> QED
      BY <1>0, <3>1 DEF RunnerTypes
  <2>2. \A i \in Intents : command[i] \in {"running", "failed"} => command'[i] = command[i]
    <3>1. ASSUME NEW i \in Intents, HostBegins(i) \/ WithdrawIntent(i)
          PROVE  command[i] = "queued" /\ \E s : command' = [command EXCEPT ![i] = s]
      BY <1>0, <3>1, HostChanges DEF HostBegins, WithdrawIntent
    <3>2. ~(\E i \in Intents : HostBegins(i) \/ WithdrawIntent(i)) => command' = command
      BY <1>1 DEF Runner, Enqueue, EnqueueFails, TakeJob, RecoverJob, ApiStops, ApiStarts, Serve
    <3> QED
      BY <1>0, <3>1, <3>2 DEF RunnerTypes
  <2> QED
    BY <1>0, <1>1, <2>1, <2>2 DEF HistoryTells, HistoryQuiet
<1>2. CASE OthersMove
  BY <1>0, <1>2 DEF OthersMove, Unmoved, CommandsStay, HistoryQuiet, HistoryTells
<1>3. ASSUME NEW k \in Rotations, RotationRunner(k) PROVE HistoryTells'
  <2>1. \A j \in Rotations : history'[j] = "absent" => job'[j] = "absent"
    BY <1>3, RotationRunnerTells DEF HistoryTells
  <2>2. \A i, j \in Rotations : history'[i] \in Open /\ history'[j] \in Open => i = j
    BY <1>3, RotationRunnerTells DEF HistoryTells, NoActiveRotation
  <2>3. \A j \in Rotations : rolledBack'[j] =>
          command'[The(j)] = "failed" \/ (command'[The(j)] = "running" /\ holder' = j /\ step' = "last_stop")
    <3> SUFFICES ASSUME NEW j \in Rotations, rolledBack'[j]
                 PROVE  command'[The(j)] = "failed" \/ (command'[The(j)] = "running" /\ holder' = j /\ step' = "last_stop")
      OBVIOUS
    <3>1. UNCHANGED <<rolledBack, step, holder>>
      BY <1>3, RotationRunnerTells
    <3>2. rolledBack[j]
      BY <3>1
    <3>3. command[The(j)] \in {"failed", "running"}
      BY <3>2 DEF HistoryTells
    <3>4. command'[The(j)] = command[The(j)]
      BY <1>3, <3>3, RotationRunnerTells
    <3> QED
      BY <3>1, <3>2, <3>4 DEF HistoryTells
  <2> QED
    BY <2>1, <2>2, <2>3 DEF HistoryTells
<1>4. ASSUME NEW k \in Rotations, RotationScript(k) PROVE HistoryTells'
  <2>1. /\ \A j \in Rotations : history'[j] = "absent" => job'[j] = "absent"
        /\ \A i, j \in Rotations : history'[i] \in Open /\ history'[j] \in Open => i = j
    BY <1>4, RotationScriptTells DEF HistoryTells
  <2>2. ASSUME NEW j \in Rotations, rolledBack'[j]
        PROVE  command'[The(j)] = "failed" \/ (command'[The(j)] = "running" /\ holder' = j /\ step' = "last_stop")
    <3>1. rolledBack[j]
      BY <1>4, <2>2, RotationScriptTells
    <3>2. CASE command[The(j)] = "failed"
      BY <1>4, <3>2, RotationScriptTells
    <3>3. CASE command[The(j)] = "running" /\ holder = j /\ step = "last_stop"
      <4>1. ~ScriptBegins(k) /\ ~Preflight(k) /\ ~Advance(k) /\ ~ScriptFails(k) /\ ~ScriptDone(k)
        BY <3>3 DEF ScriptBegins, Preflight, Advance, ScriptFails, ScriptDone, Forward
      <4>2. HostLost(The(k))
        BY <1>4, <4>1 DEF RotationScript, ScriptKilled
      <4>3. command[The(k)] = "running" /\ command'[The(k)] = "failed"
        BY <1>0, <4>2, HostChanges DEF HostLost, RunnerTypes
      <4> QED
        BY <1>0, <3>3, <4>3
    <3> QED
      BY <3>1, <3>2, <3>3 DEF HistoryTells
  <2> QED
    BY <2>1, <2>2 DEF HistoryTells
<1>5. CASE Rotates
  <2>1. /\ \A j \in Rotations : history'[j] = "absent" => job'[j] = "absent"
        /\ \A i, j \in Rotations : history'[i] \in Open /\ history'[j] \in Open => i = j
    BY <1>5, RotatesTells DEF HistoryTells
  <2>2. ASSUME NEW j \in Rotations, rolledBack'[j]
        PROVE  command'[The(j)] = "failed" \/ (command'[The(j)] = "running" /\ holder' = j /\ step' = "last_stop")
    <3>1. CASE ~rolledBack[j]
      <4>1. j = holder /\ step = "rb_cleanup" /\ command[The(j)] = "running"
        BY <1>5, <2>2, <3>1, RotatesTells DEF ReferenceInv, Steady, ScriptHolds
      <4>2. CASE RollBackDone
        <5>1. Host!Fail({The(holder)})
          BY <4>1, <4>2 DEF RollBackDone
        <5> QED
          BY <1>0, <4>1, <5>1, HostChanges DEF RunnerTypes
      <4>3. CASE RollBackFails
        BY <4>1, <4>3 DEF RollBackFails
      <4> QED
        BY <1>5, <2>2, <3>1, <4>2, <4>3, RotatesTells
    <3>2. CASE rolledBack[j] /\ command[The(j)] = "failed"
      BY <1>5, <3>2, RotatesTells
    <3>3. CASE command[The(j)] = "running" /\ holder = j /\ step = "last_stop"
      <4>1. ~RollBack /\ ~RollBackDone /\ ~RollBackFails /\ ~OperatorRecovers
        BY <3>3 DEF RollBack, RollBackDone, RollBackFails, OperatorRecovers
      <4>2. CASE LastStop
        <5>1. Host!Fail({The(j)})
          BY <3>3, <4>2 DEF LastStop
        <5> QED
          BY <1>0, <5>1, HostChanges DEF RunnerTypes
      <4>3. CASE ~LastStop
        <5>1. UNCHANGED <<step, holder>>
          BY <1>5, <4>1, <4>3 DEF Rotates, AdmitRecreation, RefuseRecreation, scriptVars, rotationVars
        <5> QED
          BY <1>5, <3>3, <4>1, <4>3, <5>1, RotatesTells
      <4> QED
        BY <4>2, <4>3
    <3> QED
      BY <3>1, <3>2, <3>3 DEF HistoryTells
  <2> QED
    BY <2>1, <2>2 DEF HistoryTells
<1> QED
  BY <1>1, <1>2, <1>3, <1>4, <1>5, NextHistory DEF Rotation, RotationRunner, RotationScript

\* A handler of another operation works beside no rotation's script.
LEMMA TouchesAlone ==
  ASSUME OperationsInv, NEW i \in Intents, Touches(i)
  PROVE  /\ \A j \in Rotations : command[The(j)] # "running"
         /\ step # "idle" => holder \notin Rotations
         /\ step \notin Forward
<1>1. \A j \in Rotations : The(j) \in Intents /\ The(j)[1] = j
  BY IntentsTell DEF Rotations, The
<1>2. \A j \in Rotations : command[The(j)] # "running"
  BY <1>1 DEF Touches, OperationsInv, RunnerInv, OneRuns
<1> QED
  BY <1>2 DEF OperationsInv, ReferenceInv, Steady, ScriptHolds, HolderRotates, Forward

\* Every step keeps what the script's journal, files and gateway tell.
LEMMA NextScriptTells ==
  OperationsInv /\ HistoryTells /\ ScriptTells /\ [Next]_vars => ScriptTells'
<1> SUFFICES ASSUME OperationsInv, HistoryTells, ScriptTells, [Next]_vars PROVE ScriptTells'
  OBVIOUS
<1> USE DEF OperationsInv
<1>0. /\ ReferenceInv /\ ReferenceTypes /\ ScriptHolds /\ JournalTells
      /\ misplaced \/ Position
      /\ misplaced => misplaced'
  BY NextCopies DEF ReferenceInv, Steady, Agrees
<1>a. \A j \in Rotations : holder = j /\ step # "idle" => command[The(j)] = "running"
  BY <1>0 DEF ScriptHolds
<1>1. CASE HistoryQuiet /\ UNCHANGED containerVars
  BY <1>0, <1>1 DEF ScriptTells, HistoryQuiet, containerVars
<1>2. CASE OthersMove
  <2>1. CASE UNCHANGED containerVars
    BY <1>1, <1>2, <2>1 DEF OthersMove
  <2>3. CASE misplaced'
    BY <1>2, <2>3 DEF OthersMove, ScriptTells, HistoryQuiet
  <2>2. ASSUME NEW i \in Intents, Touches(i) PROVE ScriptTells'
    <3>1. step \notin Forward /\ (step # "idle" => holder \notin Rotations) /\ UNCHANGED <<step, holder>>
      BY <1>2, <2>2, TouchesAlone DEF OthersMove, HistoryQuiet
    <3> QED
      BY <1>0, <1>2, <3>1 DEF ScriptTells, Forward, InScript, InTry, Backward, OthersMove, HistoryQuiet
  <2> QED
    BY <1>2, <2>1, <2>2, <2>3 DEF OthersMove
<1>3. ASSUME NEW k \in Rotations, RotationRunner(k) PROVE ScriptTells'
  <2>1. UNCHANGED <<log, step, holder>> /\ UNCHANGED containerVars
    BY <1>3, RotationRunnerTells
  <2>2. step # "idle" /\ holder \in Rotations => oldRef'[holder] = oldRef[holder]
    BY <1>3, <1>a, RotationRunnerTells
  <2> QED
    BY <1>0, <2>1, <2>2 DEF ScriptTells, containerVars, InScript, InTry, Backward
<1>4. ASSUME NEW k \in Rotations, RotationScript(k) PROVE ScriptTells'
  <2>0. oldRef' = oldRef /\ (misplaced => misplaced')
    BY <1>0, <1>4, RotationScriptTells
  <2>1. CASE ScriptBegins(k) \/ Preflight(k) \/ ScriptDone(k)
    BY <2>1 DEF ScriptBegins, Preflight, ScriptDone, ScriptTells, InScript, InTry, Backward
  <2>2. CASE Advance(k)
    <3>0. holder' = holder /\ holder = k
      BY <2>2 DEF Advance, outside, Held
    <3>1. CASE step = "mkdir"
      BY <2>2, <3>1 DEF Advance, ScriptTells, InScript, InTry, Backward
    <3>2. CASE step = "prepare"
      BY <2>0, <2>2, <3>0, <3>2 DEF Advance, ScriptTells, InScript, InTry, Backward
    <3>3. CASE step \in {"withdraw", "stop", "read", "render"}
      BY <2>0, <2>2, <3>0, <3>3 DEF Advance, ScriptTells, InScript, InTry, Backward, Withdraw,
         StopGateway, WriteFiles
    <3>4. CASE step = "generate"
      <4>1. misplaced \/ envRef = log.new
        BY <1>0, <3>4 DEF Position
      <4> QED
        BY <2>0, <2>2, <3>0, <3>4, <4>1 DEF Advance, ScriptTells, InScript, InTry, Backward, WriteFiles
    <3>5. CASE step = "swap"
      BY <2>0, <2>2, <3>0, <3>5 DEF Advance, ScriptTells, InScript, InTry, Backward, SwapReference,
         containerVars
    <3>6. CASE step = "restart"
      <4>1. misplaced \/ envRef = log.new
        BY <1>0, <3>6 DEF Position
      <4> QED
        BY <2>0, <2>2, <3>0, <3>6, <4>1 DEF Advance, ScriptTells, InScript, InTry, Backward, RestartGateway
    <3>7. CASE step = "publish"
      BY <2>0, <2>2, <3>0, <3>7 DEF Advance, ScriptTells, InScript, InTry, Backward, Publish, containerVars
    <3> QED
      BY <2>2, <3>1, <3>2, <3>3, <3>4, <3>5, <3>6, <3>7 DEF Advance
  <2>3. CASE ScriptFails(k)
    <3>1. /\ holder' = holder /\ holder = k
          /\ step \in InTry => step' = "rb_withdraw"
          /\ step \notin InTry => step' = "idle"
      BY <2>3 DEF ScriptFails, EndCommand, Held
    <3>2. log' = log
      BY <2>3 DEF ScriptFails, Halfway, StopGateway, WriteFiles, SwapReference, RestartGateway, SetJournal
    <3> QED
      BY <2>0, <3>1, <3>2 DEF ScriptTells, InScript, InTry, Backward
  <2>4. CASE ScriptKilled(k)
    <3>1. CASE Held(k)
      BY <2>4, <3>1 DEF ScriptKilled, ScriptTells, InScript, InTry, Backward
    <3>2. CASE ~Held(k)
      BY <2>0, <2>4, <3>2 DEF ScriptKilled, outside, ScriptTells, containerVars
    <3> QED
      BY <3>1, <3>2
  <2> QED
    BY <1>4, <2>1, <2>2, <2>3, <2>4 DEF RotationScript
<1>5. CASE Rotates
  <2>0. oldRef' = oldRef /\ (misplaced => misplaced')
    BY <1>0, <1>5, RotatesTells
  <2>1. CASE RollBack
    <3>1. log' = log /\ holder' = holder /\ step \in Backward /\ step' \in Backward
      BY <2>1 DEF RollBack, outside, Withdraw, StopGateway, SwapReference, WriteFiles, RestartGateway,
         Publish, Backward
    <3> QED
      BY <2>0, <3>1 DEF ScriptTells, InScript, InTry, Backward
  <2>2. CASE RollBackDone \/ LastStop
    BY <2>2 DEF RollBackDone, LastStop, ScriptTells, InScript, InTry, Backward
  <2>3. CASE RollBackFails
    <3>1. log' = log /\ holder' = holder /\ step \in Backward /\ step' \in {"last_stop", "idle"}
      BY <2>3 DEF RollBackFails, Halfway, StopGateway, WriteFiles, SwapReference, RestartGateway, SetJournal
    <3> QED
      BY <2>0, <3>1 DEF ScriptTells, InScript, InTry, Backward
  <2>4. CASE OperatorRecovers
    BY <2>4, RotationAssumption DEF OperatorRecovers, ScriptTells, InScript, InTry, Backward
  <2>5. ASSUME NEW k \in requests, AdmitRecreation(k) \/ RefuseRecreation(k) PROVE ScriptTells'
    <3>1. UNCHANGED <<step, holder, log, oldRef>> /\ UNCHANGED containerVars
      BY <2>5 DEF AdmitRecreation, RefuseRecreation, scriptVars, rotationVars, serviceVars, HistoryQuiet
    <3> QED
      BY <2>0, <3>1 DEF ScriptTells, HistoryQuiet, containerVars
  <2> QED
    BY <1>5, <2>1, <2>2, <2>3, <2>4, <2>5 DEF Rotates
<1> QED
  BY <1>1, <1>2, <1>3, <1>4, <1>5, NextHistory DEF Rotation, RotationRunner, RotationScript

Told(j) == Succeeds(j) /\ RolledBackTells(j)

\* A step that moves neither the rotation nor its script, and does no harm.
LEMMA ToldStays ==
  ASSUME NEW j \in Rotations, Told(j),
         history'[j] \in Open => history[j] \in Open,
         command'[The(j)] = "done" => command[The(j)] = "done",
         history[j] \in Open => rolledBack'[j] = rolledBack[j] /\ oldRef'[j] = oldRef[j],
         UNCHANGED <<ref, journal, log, step, holder>>,
         misplaced => misplaced', CopyMoves,
         misplaced' \/ UNCHANGED containerVars \/ Harmless,
         StopAskedFor => StopAskedFor'
  PROVE  Told(j)'
<1>1. \/ misplaced'
      \/ /\ ~misplaced /\ envRef' = envRef
         /\ fileRef' \in {fileRef, envRef} \/ (Copied /\ fileRef' = copy.files)
         /\ gateway' \in {gateway, envRef, fileRef}
         /\ up' = up \/ up' = TRUE \/ StopAskedFor'
  BY DEF containerVars, Harmless
<1>2. Succeeds(j)'
  BY <1>1 DEF Told, Succeeds, CopyMoves
<1>3. RolledBackTells(j)'
  BY <1>1 DEF Told, RolledBackTells
<1> QED
  BY <1>2, <1>3 DEF Told

\* Where the reports are true at the end of a step they were so before, and the other
\* handlers do no harm to what is still to be reported.
LEMMA TouchesTell ==
  ASSUME OperationsInv, HistoryTells, Reports', troubles \in Nat, troubles' \in {troubles, troubles + 1},
         requests' = requests, troubles = 0 => Attended, NEW i \in Intents, Touches(i), NEW j \in Rotations,
         history[j] \in Open, command[The(j)] = "done" \/ rolledBack[j]
  PROVE  Harmless
<1>1. i[1] \notin Deletions /\ ~(requests \subseteq Rotations) /\ troubles' <= 1
  BY DEF Touches, Reports, Concerns
<1>2. ASSUME troubles' = troubles + 1 PROVE FALSE
  <2>1. troubles = 0 /\ Attended
    BY <1>1, <1>2
  <2>2. pc[i[1]] = "wait" /\ i[1] # j /\ i[1] \in Jobs /\ j \in Jobs
    BY <2>1, IntentsTell DEF Attended, Touches, Rotations
  <2>3. command[The(j)] # "absent"
    BY DEF HistoryTells
  <2>4. pc[j] = "wait"
    BY <2>1, <2>3 DEF Attended
  <2> QED
    BY <2>2, <2>4 DEF OperationsInv, RunnerInv, OneWorks, Working, Resting
<1> QED
  BY <1>1, <1>2 DEF Touches

\* The steps of the script, forward and back: what is still to be reported is so.
LEMMA ScriptsTell ==
  ASSUME OperationsInv, HistoryTells, ScriptTells, NEW j \in Rotations, Told(j),
         StopAskedFor => StopAskedFor', NEW k \in Rotations, RotationScript(k),
         misplaced => misplaced', CopyMoves
  PROVE  Told(j)'
<1> USE DEF OperationsInv
<1>0. /\ ReferenceInv /\ ReferenceTypes /\ ScriptHolds /\ JournalTells
      /\ misplaced \/ (FilesAgree /\ Position)
      /\ UNCHANGED <<history, oldRef, rolledBack>>
      /\ Succeeds(j) /\ RolledBackTells(j)
      /\ step # "idle" => turn = "idle"
  BY RotationScriptTells DEF ReferenceInv, Steady, ScriptHolds, Agrees, Told
<1>m. /\ misplaced => misplaced'
      /\ Copied' => copy'.files = fileRef \/ (Copied /\ copy'.files = copy.files)
      /\ step # "idle" /\ Copied' => copy'.files = fileRef
  BY <1>0 DEF CopyMoves, Copied
<1>a. Held(k) => holder = k /\ holder # "operator" /\ command[The(k)] = "running"
  BY <1>0, RotationAssumption DEF Held, ScriptHolds
<1>b. \A i \in Rotations : history[i] \in Open /\ history[j] \in Open => i = j
  BY DEF HistoryTells
<1>c. ~ScriptDone(k) => (command'[The(j)] = "done" => command[The(j)] = "done")
  BY RotationScriptTells
<1>d. \* with its journal the script has nothing to report
      step \in Forward \ {"preflight"} => ~(history[j] \in Open /\ (command[The(j)] = "done" \/ rolledBack[j]))
  BY <1>0 DEF Succeeds, RolledBackTells, Forward, Backward
<1>e. ASSUME step \in Forward \ {"preflight"}, command'[The(j)] = "done" => command[The(j)] = "done" PROVE Told(j)'
  BY <1>0, <1>d, <1>e DEF Told, Succeeds, RolledBackTells
<1>1. CASE ScriptBegins(k)
  <2>1. /\ UNCHANGED <<ref, journal, log, rolledBack>> /\ UNCHANGED containerVars /\ step = "idle" /\ step' = "preflight"
        /\ command' = command
    BY <1>1 DEF ScriptBegins, serviceVars, runnerVars
  <2> QED
    BY <1>0, <1>m, <2>1 DEF Told, Succeeds, RolledBackTells, containerVars
<1>2. CASE Preflight(k)
  <2>1. history[k] \in Open /\ Held(k) /\ step = "preflight" /\ command' = command
    BY <1>2 DEF Preflight, PreflightOK, runnerVars
  <2>2. ~(history[j] \in Open /\ (command[The(j)] = "done" \/ rolledBack[j]))
    BY <1>a, <1>b, <2>1 DEF HistoryTells
  <2> QED
    BY <1>0, <2>1, <2>2 DEF Told, Succeeds, RolledBackTells
<1>3. CASE Advance(k)
  <2>1. step \in Forward \ {"preflight"} /\ command' = command
    BY <1>3 DEF Advance, Forward, runnerVars
  <2> QED
    BY <1>e, <2>1
<1>4. CASE ScriptDone(k)
  <2>1. step = "cleanup" /\ Held(k) /\ step' = "idle" /\ journal' = "none"
        /\ UNCHANGED <<ref, log>> /\ UNCHANGED containerVars
    BY <1>4 DEF ScriptDone, SetJournal
  <2>2. \A i \in Rotations : command'[The(i)] # command[The(i)] => i = k
    BY RotationScriptTells
  <2>3. /\ ref = NewRef[k]
        /\ misplaced \/ /\ envRef = NewRef[k] /\ fileRef = NewRef[k]
                        /\ log.running => gateway = NewRef[k] /\ up
    BY <1>0, <1>a, <2>1 DEF Position, ScriptTells, JournalTells, InScript, InTry
  <2>4. ~(history[j] \in Open /\ (command[The(j)] = "done" \/ rolledBack[j]))
    BY <1>d, <2>1 DEF Forward
  <2>5. CASE j = k
    BY <1>0, <1>m, <2>1, <2>3, <2>4, <2>5 DEF Told, Succeeds, RolledBackTells, containerVars
  <2>6. CASE j # k
    BY <1>0, <2>2, <2>4, <2>6 DEF Told, Succeeds, RolledBackTells
  <2> QED
    BY <2>5, <2>6
<1>5. CASE ScriptFails(k)
  <2>1. step \in Forward
    BY <1>5 DEF ScriptFails
  <2>2. CASE step = "preflight"
    <3>1. UNCHANGED <<ref, journal, log, holder>> /\ UNCHANGED containerVars /\ step' = "idle"
      BY <1>5, <2>2 DEF ScriptFails, Halfway, EndCommand, InTry
    <3>2. ~ScriptDone(k)
      BY <2>2 DEF ScriptDone
    <3> QED
      BY <1>0, <1>m, <1>c, <2>2, <3>1, <3>2 DEF Told, Succeeds, RolledBackTells, containerVars
  <2>3. CASE step # "preflight"
    <3>2. command' = command \/ Host!Fail({The(k)})
      BY <1>5 DEF ScriptFails, EndCommand
    <3>3. command'[The(j)] = "done" => command[The(j)] = "done"
      <4>1. The(j) \in Intents
        BY IntentsTell DEF Rotations
      <4> QED
        BY <3>2, <4>1 DEF Host!Fail
    <3> QED
      BY <1>e, <2>1, <2>3, <3>3
  <2> QED
    BY <2>2, <2>3
<1>6. CASE ScriptKilled(k)
  <2>1. command'[The(j)] = "done" => command[The(j)] = "done"
    <3>1. The(j) \in Intents /\ Host!Fail({The(k)})
      BY <1>6, IntentsTell DEF Rotations, ScriptKilled, HostLost
    <3> QED
      BY <3>1 DEF Host!Fail
  <2>2. CASE ~Held(k)
    <3>1. UNCHANGED <<ref, journal, log, step, holder>> /\ UNCHANGED containerVars
      BY <1>6, <2>2 DEF ScriptKilled, outside
    <3> QED
      BY <1>0, <1>m, <2>1, <3>1, ToldStays
  <2>3. CASE Held(k)
    <3>0. Halfway /\ step' = "idle" /\ UNCHANGED <<holder>>
      BY <1>6, <2>3 DEF ScriptKilled, outside
    <3>1. CASE step \in Forward \ {"preflight"}
      BY <1>e, <2>1, <3>1
    <3>2. CASE step = "preflight"
      <4>1. UNCHANGED <<ref, journal, log>> /\ UNCHANGED containerVars
        BY <3>0, <3>2 DEF Halfway
      <4> QED
        BY <1>0, <1>m, <2>1, <3>0, <3>2, <4>1 DEF Told, Succeeds, RolledBackTells, containerVars
    <3>3. CASE step \in Backward
      <4>1. ~(history[j] \in Open /\ command[The(j)] = "done")
        BY <1>0, <3>3 DEF Succeeds, Backward
      <4>2. history[j] \in Open /\ rolledBack[j] => step = "last_stop"
        BY <1>0, <1>a, <2>3, <3>3 DEF RolledBackTells, Backward
      <4>3. step = "last_stop" => UNCHANGED <<ref, envRef, log>>
        BY <3>0 DEF Halfway, StopGateway, containerVars
      <4> QED
        BY <1>0, <1>m, <2>1, <3>0, <4>1, <4>2, <4>3 DEF Told, Succeeds, RolledBackTells
    <3> QED
      BY <1>0, <2>3, <3>1, <3>2, <3>3 DEF Held, ReferenceTypes
  <2> QED
    BY <2>2, <2>3
<1> QED
  BY <1>1, <1>2, <1>3, <1>4, <1>5, <1>6 DEF RotationScript

\* The steps of a rollback, of its recovery by hand, and of the agent's look at a recreation.
LEMMA RollbacksTell ==
  ASSUME OperationsInv, HistoryTells, ScriptTells, NEW j \in Rotations, Told(j),
         StopAskedFor => StopAskedFor', Rotates, misplaced => misplaced', CopyMoves
  PROVE  Told(j)'
<1> USE DEF OperationsInv
<1>0. /\ ReferenceTypes /\ ScriptHolds /\ JournalTells /\ Succeeds(j) /\ RolledBackTells(j)
      /\ misplaced \/ (FilesAgree /\ Position)
      /\ misplaced => misplaced'
      /\ UNCHANGED <<history, oldRef>>
      /\ holder \in Rotations => holder # "operator"
  BY RotatesTells, RotationAssumption DEF ReferenceInv, Steady, Agrees, Told
<1>a. command'[The(j)] = "done" => command[The(j)] = "done"
  BY RotatesTells
<1>b. \* a success keeps its script out of the rollback
      step \in Backward \/ journal = "complete" => ~(history[j] \in Open /\ command[The(j)] = "done")
  BY <1>0 DEF Succeeds, Backward
<1>c. \* and so does a rollback that is told, but for its last stop and the operator's
      history[j] \in Open /\ rolledBack[j] /\ step \in Backward => holder = "operator" \/ step = "last_stop"
  BY <1>0 DEF RolledBackTells, Backward
<1>d. ASSUME step \in Backward \/ journal = "complete" PROVE Succeeds(j)'
  BY <1>0, <1>a, <1>b, <1>d DEF Succeeds
<1>1. CASE RollBack
  <2>1. /\ step \in Backward /\ step # "last_stop" /\ step' \in Backward
        /\ UNCHANGED <<log, holder, rolledBack>>
        /\ ref' \in {ref, log.old} /\ envRef' \in {envRef, log.env}
    BY <1>1 DEF RollBack, outside, Withdraw, StopGateway, SwapReference, WriteFiles, RestartGateway, Publish,
       containerVars, Backward
  <2>2. RolledBackTells(j)'
    BY <1>0, <1>c, <2>1 DEF RolledBackTells, FilesAgree
  <2> QED
    BY <1>d, <2>1, <2>2 DEF Told
<1>2. CASE RollBackDone
  <2>1. step = "rb_cleanup" /\ step' = "idle" /\ UNCHANGED <<ref, log, holder>> /\ UNCHANGED containerVars
    BY <1>2 DEF RollBackDone, SetJournal
  <2>2. rolledBack'[j] /\ ~rolledBack[j] => j = holder
    BY <1>2, RotatesTells DEF Rotates
  <2>3. rolledBack'[j] /\ ~rolledBack[j] => ref = oldRef[j] /\ log.old = oldRef[j] /\ (misplaced \/ envRef = oldRef[j])
    BY <1>0, <2>1, <2>2 DEF Position, JournalTells, ScriptTells, Backward
  <2>4. RolledBackTells(j)'
    BY <1>0, <2>1, <2>3 DEF RolledBackTells, containerVars
  <2> QED
    BY <1>d, <2>1, <2>4 DEF Told, Backward
<1>3. CASE RollBackFails
  <2>1. /\ step \in Backward /\ step # "last_stop" /\ UNCHANGED <<ref, log, holder>>
        /\ step' = IF holder \in Rotations THEN "last_stop" ELSE "idle"
        /\ envRef' \in {envRef, log.env}
        /\ step = "rb_cleanup" => envRef' = envRef
    BY <1>3 DEF RollBackFails, Halfway, StopGateway, WriteFiles, SwapReference, RestartGateway, SetJournal,
       containerVars, Backward
  <2>2. rolledBack'[j] /\ ~rolledBack[j] => j = holder /\ step = "rb_cleanup"
    BY <1>3, RotatesTells DEF Rotates
  <2>3. rolledBack'[j] /\ ~rolledBack[j] => ref = oldRef[j] /\ log.old = oldRef[j] /\ (misplaced \/ envRef = oldRef[j])
    BY <1>0, <2>1, <2>2 DEF Position, JournalTells, ScriptTells, Backward
  <2>4. RolledBackTells(j)'
    BY <1>0, <1>c, <2>1, <2>2, <2>3 DEF RolledBackTells, FilesAgree, Backward
  <2> QED
    BY <1>d, <2>1, <2>4 DEF Told
<1>4. CASE LastStop
  <2>1. step \in Backward /\ step' = "idle" /\ UNCHANGED <<ref, envRef, log, rolledBack>>
    BY <1>4 DEF LastStop, outside, Backward
  <2>2. RolledBackTells(j)'
    BY <1>0, <2>1 DEF RolledBackTells
  <2> QED
    BY <1>d, <2>1, <2>2 DEF Told
<1>5. CASE OperatorRecovers
  <2>1. /\ journal = "complete" /\ step' \in Backward /\ holder' = "operator"
        /\ UNCHANGED <<ref, envRef, log, rolledBack>>
    BY <1>5 DEF OperatorRecovers, serviceVars, containerVars, Backward
  <2>2. RolledBackTells(j)'
    BY <1>0, <2>1 DEF RolledBackTells
  <2> QED
    BY <1>d, <2>1, <2>2 DEF Told
<1>6. ASSUME NEW k \in requests, AdmitRecreation(k) \/ RefuseRecreation(k) PROVE Told(j)'
  <2>1. UNCHANGED <<ref, journal, log, step, holder, rolledBack>> /\ UNCHANGED containerVars
    BY <1>6 DEF AdmitRecreation, RefuseRecreation, rotationVars, scriptVars, serviceVars
  <2> QED
    BY <1>0, <1>a, <2>1, ToldStays
<1> QED
  BY <1>1, <1>2, <1>3, <1>4, <1>5, <1>6 DEF Rotates

\* A step of the queue or of the worker has no rotation's intent done, and takes no runner
\* away from one.
LEMMA QueueTellsNothing ==
  ASSUME OperationsInv, Runner
  PROVE  \A i \in Intents : /\ command'[i] = "done" => command[i] = "done"
                            /\ command'[i] # "absent" => command[i] # "absent"
<1>0. RunnerInv /\ RunnerTypes
  BY DEF OperationsInv, RunnerInv
<1>1. ASSUME NEW i \in Intents, HostBegins(i) \/ WithdrawIntent(i)
      PROVE  command[i] = "queued" /\ \E s \in {"running", "cancelled"} : command' = [command EXCEPT ![i] = s]
  BY <1>0, <1>1, HostChanges DEF HostBegins, WithdrawIntent
<1>2. ~(\E i \in Intents : HostBegins(i) \/ WithdrawIntent(i)) => command' = command
  BY DEF Runner, Enqueue, EnqueueFails, TakeJob, RecoverJob, ApiStops, ApiStarts, Serve
<1> QED
  BY <1>0, <1>1, <1>2 DEF RunnerTypes

\* Reports that are true after a step were so before it.
LEMMA ReportsBefore ==
  ASSUME RunnerInv, HolderRotates, [Next]_vars
  PROVE  /\ requests' = requests
         /\ Reports' => Reports
         /\ StopAskedFor => StopAskedFor'
<1>1. requests' = requests
  BY RunnerAssumption, NextActs DEF RunnerInv, RunnerTypes, HostWorks, RunnerWorks, AcceptJob, Runner, Enqueue,
     EnqueueFails, TakeJob, RecoverJob, HostBegins, WithdrawIntent, ApiStops, ApiStarts, Serve, still
<1>2. Reports' => Reports
  BY <1>1, TroublesCount DEF Reports, Concerns
<1>3. StopAskedFor => StopAskedFor'
  BY KnownStays DEF StopAskedFor
<1> QED
  BY <1>1, <1>2, <1>3

\* Every step keeps what is still to be reported.
LEMMA EveryStepTells ==
  ASSUME OperationsInv, HistoryInv, [Next]_vars, Reports', NEW j \in Rotations
  PROVE  Told(j)'
<1> USE DEF OperationsInv
<1>0. /\ RunnerInv /\ HolderRotates /\ HistoryTells /\ ScriptTells
      /\ j \in Jobs /\ The(j) \in Intents /\ The(j)[1] = j
  BY IntentsTell DEF HistoryInv, ReferenceInv, Steady, ScriptHolds, HolderRotates, Rotations, The
<1>1. /\ requests' = requests /\ Reports /\ (StopAskedFor => StopAskedFor')
      /\ troubles \in Nat /\ troubles' \in {troubles, troubles + 1}
  BY <1>0, ReportsBefore, TroublesCount
<1>m. (misplaced => misplaced') /\ CopyMoves
  BY NextCopies
<1>2. Told(j) /\ (troubles = 0 => Attended)
  BY <1>1 DEF HistoryInv, Told
<1>3. CASE Runner /\ HistoryQuiet /\ UNCHANGED containerVars
  BY <1>0, <1>1, <1>2, <1>3, <1>m, QueueTellsNothing, ToldStays DEF HistoryQuiet
<1>4. CASE OthersMove
  <2>0. command'[The(j)] = command[The(j)] /\ HistoryQuiet
    BY <1>0, <1>4 DEF OthersMove, CommandsStay
  <2>1. CASE misplaced' \/ UNCHANGED containerVars \/ Harmless
    BY <1>0, <1>1, <1>2, <1>m, <2>0, <2>1, ToldStays DEF HistoryQuiet
  <2>2. CASE ~(history[j] \in Open /\ (command[The(j)] = "done" \/ rolledBack[j]))
    BY <2>0, <2>2 DEF Told, Succeeds, RolledBackTells, HistoryQuiet
  <2>3. CASE /\ history[j] \in Open /\ (command[The(j)] = "done" \/ rolledBack[j])
             /\ \E i \in Intents : Touches(i)
    <3>1. Harmless
      BY <1>0, <1>1, <1>2, <2>3, TouchesTell
    <3> QED
      BY <2>1, <3>1
  <2> QED
    BY <1>4, <2>1, <2>2, <2>3 DEF OthersMove
<1>5. ASSUME NEW k \in Rotations, RotationRunner(k) PROVE Told(j)'
  <2>1. /\ UNCHANGED <<rolledBack, ref, journal, log, step, holder>> /\ UNCHANGED containerVars
        /\ j # k => history'[j] = history[j] /\ oldRef'[j] = oldRef[j] /\ command'[The(j)] = command[The(j)]
    BY <1>0, <1>5, RotationRunnerTells
  <2>2. CASE j # k
    BY <1>1, <1>2, <1>m, <2>1, <2>2, ToldStays
  <2>3. CASE j = k /\ ~AcceptRotation(k)
    <3>1. /\ oldRef'[k] = oldRef[k] /\ (history'[k] \in Open => history[k] \in Open)
          /\ command'[The(k)] = command[The(k)] \/ command'[The(k)] = "queued"
      BY <1>0, <1>5, <2>3, RotationRunnerTells
    <3> QED
      BY <1>1, <1>2, <1>m, <2>1, <2>3, <3>1, ToldStays
  <2>4. CASE j = k /\ AcceptRotation(k)
    <3>1. command[The(k)] = "absent" /\ command'[The(k)] = "absent"
      BY <1>0, <1>5, <2>4, RotationRunnerTells
    <3>2. ~rolledBack'[j]
      BY <1>0, <2>1, <2>4, <3>1 DEF HistoryTells
    <3> QED
      BY <2>4, <3>1, <3>2 DEF Told, Succeeds, RolledBackTells
  <2> QED
    BY <2>2, <2>3, <2>4
<1>6. ASSUME NEW k \in Rotations, RotationScript(k) PROVE Told(j)'
  BY <1>0, <1>1, <1>2, <1>m, <1>6, ScriptsTell
<1>7. CASE Rotates
  BY <1>0, <1>1, <1>2, <1>m, <1>7, RollbacksTell
<1>8. ASSUME NEW k \in Rotations, Rotation(k) PROVE RotationRunner(k) \/ RotationScript(k)
  BY <1>8 DEF Rotation, RotationRunner, RotationScript
<1> QED
  BY <1>3, <1>4, <1>5, <1>6, <1>7, <1>8, NextHistory

\* A rotation's runner moves no other runner, and without trouble it waits for its intent
\* until it reports.
LEMMA RotationsAttend ==
  ASSUME OperationsInv, HistoryTells, NEW k \in Rotations, RotationRunner(k), ~Trouble, Succeeds(k)
  PROVE  /\ \A j \in Rotations : j # k => pc'[j] = pc[j]
         /\ history'[k] \in Open /\ command'[The(k)] # "absent" => pc'[k] = "wait"
<1> USE DEF OperationsInv
<1>0. RunnerTypes /\ SettingTypes /\ k \in Jobs
  BY DEF RunnerInv, Rotations
<1>1. \A j \in Rotations : j # k => pc'[j] = pc[j]
  <2>1. \E place : pc' = [pc EXCEPT ![k] = place]
    BY DEF RotationRunner, AcceptRotation, AcceptJob, CompensateRotation, RotationBegins, RotationConfirms,
       RotationRaises, RotationFails, Goto
  <2> QED
    BY <1>0, <2>1 DEF RunnerTypes, Rotations
<1>2. CASE AcceptRotation(k)
  BY <1>1, <1>2, RotationRunnerTells
<1>3. CASE CompensateRotation(k) \/ RotationFails(k)
  <2>1. history' = [history EXCEPT ![k] = "failed"]
    BY <1>3 DEF CompensateRotation, RotationFails, SetHistory
  <2> QED
    BY <1>0, <1>1, <2>1 DEF SettingTypes, Open
<1>4. CASE RotationBegins(k)
  BY <1>0, <1>1, <1>4 DEF RotationBegins, Goto, RunnerTypes, Open, HistoryFinal
<1>5. CASE RotationConfirms(k)
  <2>1. CASE Confirmed(k) = "raise"
    <3>1. command[The(k)] = "done" /\ ref # NewRef[k] /\ history' = history
      BY <1>5, <2>1 DEF Confirmed, RotationConfirms
    <3> QED
      BY <1>1, <3>1 DEF Succeeds
  <2>2. CASE Confirmed(k) # "raise"
    <3>1. Confirmed(k) \in HistoryFinal
      BY <2>2 DEF Confirmed, HistoryFinal
    <3>2. history' = [history EXCEPT ![k] = Confirmed(k)] \/ (history' = history /\ history[k] \in HistoryFinal)
      BY <1>5, <2>2 DEF RotationConfirms, SetHistory
    <3> QED
      BY <1>0, <1>1, <3>1, <3>2 DEF SettingTypes, Open, HistoryFinal
  <2> QED
    BY <2>1, <2>2
<1>6. ~RotationRaises(k)
  BY DEF RotationRaises
<1> QED
  BY <1>2, <1>3, <1>4, <1>5, <1>6 DEF RotationRunner

\* As long as nothing goes wrong every intent and every rotation is attended to.
LEMMA NextAttended ==
  ASSUME OperationsInv, ClaimInv, HistoryInv, [Next]_vars, Reports', troubles' = 0
  PROVE  Attended'
<1> USE DEF OperationsInv
<1>0. /\ RunnerInv /\ RunnerTypes /\ HolderRotates /\ HistoryTells
      /\ \A j \in Rotations : j \in Jobs /\ The(j) \in Intents /\ The(j)[1] = j
  BY IntentsTell DEF HistoryInv, RunnerInv, ReferenceInv, Steady, ScriptHolds, HolderRotates, Rotations, The
<1>1. /\ Reports /\ troubles = 0 /\ troubles' = troubles
      /\ ~restarted' \/ restarted
  BY <1>0, ReportsBefore, TroublesCount
<1>2. /\ Attended /\ ~restarted /\ ~restarted' /\ ~Concerns(Deletions) /\ api = "up" /\ QueueWaits /\ ~Trouble
      /\ \A j \in Rotations : Succeeds(j)
  BY <1>1 DEF HistoryInv, Attended, Reports, ClaimInv, Trouble
<1>3. \A i \in Intents : command'[i] \in {"queued", "running"} => pc'[i[1]] = "wait"
  BY <1>1, <1>2, IntentsStayAttended DEF Attended
<1> DEFINE Waits(j) == history'[j] \in Open /\ command'[The(j)] # "absent" => pc'[j] = "wait"
<1>a. ASSUME NEW j \in Rotations, history'[j] = history[j], pc'[j] = pc[j],
             command'[The(j)] # "absent" => command[The(j)] # "absent"
      PROVE  Waits(j)
  BY <1>2, <1>a DEF Attended
<1>4. CASE Runner /\ HistoryQuiet
  <2>1. ASSUME NEW j \in Rotations PROVE Waits(j)
    <3>1. pc'[j] = pc[j] \/ pc[j] # "wait"
      BY <1>0, <1>2, <1>4, RunnerMovesOn DEF MovesOn
    <3>2. history'[j] = history[j] /\ (command'[The(j)] # "absent" => command[The(j)] # "absent")
      BY <1>0, <1>4, QueueTellsNothing DEF HistoryQuiet
    <3> QED
      BY <1>2, <3>1, <3>2 DEF Attended
  <2> QED
    BY <1>2, <1>3, <2>1 DEF Attended
<1>5. CASE OthersMove
  <2>1. \A j \in Rotations : Waits(j)
    BY <1>0, <1>5, <1>a DEF OthersMove, Unmoved, CommandsStay, HistoryQuiet
  <2> QED
    BY <1>2, <1>3, <2>1 DEF Attended
<1>6. ASSUME NEW k \in Rotations, RotationRunner(k) PROVE Attended'
  <2>1. ASSUME NEW j \in Rotations, j # k PROVE Waits(j)
    <3>1. pc'[j] = pc[j] /\ history'[j] = history[j] /\ command'[The(j)] = command[The(j)]
      BY <1>0, <1>2, <1>6, <2>1, RotationsAttend, RotationRunnerTells
    <3> QED
      BY <1>a, <3>1
  <2>2. Waits(k)
    BY <1>0, <1>2, <1>6, RotationsAttend
  <2> QED
    BY <1>2, <1>3, <2>1, <2>2 DEF Attended
<1>7. ASSUME NEW k \in Rotations, RotationScript(k) PROVE Attended'
  <2>1. pc' = pc
    BY <1>7 DEF RotationScript, ScriptBegins, Preflight, Advance, ScriptFails, ScriptDone, ScriptKilled,
       HostLost, runnerVars
  <2>2. \A j \in Rotations : Waits(j)
    BY <1>7, <1>a, <2>1, RotationScriptTells
  <2> QED
    BY <1>2, <1>3, <2>2 DEF Attended
<1>8. CASE Rotates
  <2>1. pc' = pc
    BY <1>8 DEF Rotates, RollBack, RollBackDone, RollBackFails, LastStop, OperatorRecovers, AdmitRecreation,
       RefuseRecreation, runnerVars
  <2>2. \A j \in Rotations : Waits(j)
    BY <1>8, <1>a, <2>1, RotatesTells
  <2> QED
    BY <1>2, <1>3, <2>2 DEF Attended
<1> QED
  BY <1>4, <1>5, <1>6, <1>7, <1>8, NextHistory DEF Rotation, RotationRunner, RotationScript

LEMMA InitHistory == Init => HistoryInv
<1> SUFFICES ASSUME Init PROVE HistoryInv
  OBVIOUS
<1>1. /\ \A j \in Rotations : history[j] = "absent" /\ job[j] = "absent" /\ ~rolledBack[j]
      /\ step = "idle" /\ ~restarted
      /\ \A i \in Intents : command[i] = "absent"
  BY DEF Init, RunnerInit, RotationInit, Rotations, Host!Init
<1> QED
  BY <1>1 DEF HistoryInv, HistoryTells, ScriptTells, Attended, Succeeds, RolledBackTells, InScript, InTry,
     Backward, Open

LEMMA NextHistoryInv == OperationsInv /\ ClaimInv /\ HistoryInv /\ [Next]_vars => HistoryInv'
<1> SUFFICES ASSUME OperationsInv, ClaimInv, HistoryInv, [Next]_vars PROVE HistoryInv'
  OBVIOUS
<1>1. HistoryTells' /\ ScriptTells'
  BY NextHistoryTells, NextScriptTells DEF HistoryInv
<1>2. ASSUME Reports', NEW j \in Rotations PROVE Told(j)'
  BY <1>2, EveryStepTells
<1>3. Reports' /\ troubles' = 0 => Attended'
  BY NextAttended
<1> QED
  BY <1>1, <1>2, <1>3 DEF HistoryInv, Told

\* The project_ref_history row tells where the project is: a rotation recorded as succeeded
\* has its reference in the row, the files and the gateway and has left no journal, and one
\* recorded as rolled back has the old reference everywhere (the confirmation in
\* runtime_operations.py, rotate_project_ref.py), as long as no more than one thing goes
\* wrong or rotations are all there is, and until a save writes a former reference back over
\* .env (project_settings.py).
THEOREM HistoryTold == Spec => HistoryIsTrue
<1>1. OperationsInv /\ HistoryInv /\ [Next]_vars =>
        [~Concerns(Deletions) /\ ~misplaced /\ (troubles <= 1 \/ requests \subseteq Rotations) =>
           \A j \in Rotations :
             /\ history'[j] = "succeeded" /\ history[j] # "succeeded" =>
                  /\ ref = NewRef[j] /\ fileRef = NewRef[j]
                  /\ journal = "none"
                  /\ log.running => gateway = NewRef[j] /\ (up \/ StopAskedFor)
             /\ history'[j] = "rolled_back" /\ history[j] # "rolled_back" =>
                  ref = oldRef[j] /\ envRef = oldRef[j] /\ fileRef \in {oldRef[j], Broken}]_vars
  <2> SUFFICES ASSUME OperationsInv, HistoryInv, [Next]_vars, Reports, ~misplaced, NEW j \in Rotations,
                      history'[j] # history[j], history'[j] \in {"succeeded", "rolled_back"}
               PROVE  /\ history'[j] = "succeeded" =>
                           /\ ref = NewRef[j] /\ fileRef = NewRef[j]
                           /\ journal = "none"
                           /\ log.running => gateway = NewRef[j] /\ (up \/ StopAskedFor)
                      /\ history'[j] = "rolled_back" =>
                           ref = oldRef[j] /\ envRef = oldRef[j] /\ fileRef \in {oldRef[j], Broken}
    BY DEF Reports
  <2> USE DEF OperationsInv
  <2>0. /\ HistoryTells /\ RunnerInv /\ RunnerTypes /\ SettingTypes /\ FilesAgree
        /\ Succeeds(j) /\ RolledBackTells(j)
    BY DEF HistoryInv, RunnerInv, ReferenceInv, Agrees
  <2>1. RotationConfirms(j)
    <3>1. ASSUME NEW k \in Rotations, RotationRunner(k) PROVE RotationConfirms(j)
      <4>1. k = j
        BY <2>0, <3>1, RotationRunnerTells
      <4>2. CASE ~RotationConfirms(k)
        <5>1. history' = history \/ \E s \in {"queued", "running", "failed"} : history' = [history EXCEPT ![k] = s]
          BY <3>1, <4>2 DEF RotationRunner, AcceptRotation, CompensateRotation, RotationBegins, RotationRaises,
             RotationFails, SetHistory, rotationVars
        <5> QED
          BY <2>0, <4>1, <5>1 DEF SettingTypes
      <4> QED
        BY <4>1, <4>2
    <3> QED
      BY <3>1, NextHistory, RotationScriptTells, RotatesTells DEF OthersMove, HistoryQuiet, Rotation,
         RotationRunner, RotationScript
  <2>2. /\ Confirmed(j) # "raise" /\ history[j] \notin HistoryFinal /\ history'[j] = Confirmed(j)
        /\ pc[j] = "wait"
    BY <2>0, <2>1 DEF RotationConfirms, SetHistory, SettingTypes
  <2>3. history[j] \in Open
    <3>1. job[j] # "absent"
      BY <2>0, <2>2 DEF RunnerInv, JobsAreKnown, Rotations
    <3> QED
      BY <2>0, <2>2, <3>1 DEF HistoryTells, SettingTypes, Open, HistoryFinal
  <2>4. CASE history'[j] = "succeeded"
    <3>1. command[The(j)] = "done"
      BY <2>2, <2>4 DEF Confirmed
    <3> QED
      BY <2>0, <2>3, <2>4, <3>1 DEF Succeeds
  <2>5. CASE history'[j] = "rolled_back"
    <3>1. rolledBack[j]
      BY <2>2, <2>5 DEF Confirmed
    <3> QED
      BY <2>0, <2>3, <2>5, <3>1 DEF RolledBackTells, FilesAgree
  <2> QED
    BY <2>4, <2>5
<1> QED
  BY <1>1, InitHistory, InitClaims, InitOperations, NextOperations, NextClaims, NextHistoryInv, PTL DEF
     Spec, HistoryIsTrue

-----------------------------------------------------------------------------
(* A rotation changes the reference once. *)

\* A rotation that the API has in hand, or takes up again, has its row open; one nobody asked
\* for has none.
RowsAreOpen ==
  \A j \in Rotations : /\ job[j] = "absent" => history[j] = "absent"
                       /\ job[j] \in {"queued", "running"} \/ pc[j] # "none" => history[j] \in Open
                       /\ pc[j] = "compensate" => job[j] = "failed"

\* A success that is still to be reported is settled.
DoneIsSettled ==
  \A j \in Rotations : history[j] \in Open /\ command[The(j)] = "done" =>
    step \in {"idle", "preflight"} /\ journal = "none"

ChangeInv == HistoryTells /\ ScriptTells /\ RowsAreOpen /\ DoneIsSettled

\* A rotation's runner moves no other runner.
LEMMA RotationRunsAlone ==
  ASSUME RunnerInv, NEW k \in Rotations, RotationRunner(k)
  PROVE  \A j \in Rotations : j # k => pc'[j] = pc[j]
<1>1. \E place : pc' = [pc EXCEPT ![k] = place]
  BY DEF RotationRunner, AcceptRotation, AcceptJob, CompensateRotation, RotationBegins, RotationConfirms,
     RotationRaises, RotationFails, Goto
<1> QED
  BY <1>1 DEF RunnerInv, RunnerTypes, Rotations

LEMMA NextRowsAreOpen ==
  ASSUME OperationsInv, QueueWaits, HistoryTells, RowsAreOpen, [Next]_vars
  PROVE  RowsAreOpen'
<1> USE DEF OperationsInv
<1>0. RunnerInv /\ RunnerTypes /\ SettingTypes /\ \A j \in Rotations : j \in Jobs
  BY DEF RunnerInv, Rotations
<1>a. ASSUME NEW j \in Rotations, history'[j] = history[j], job'[j] = job[j], pc'[j] = pc[j]
      PROVE  /\ job'[j] = "absent" => history'[j] = "absent"
             /\ job'[j] \in {"queued", "running"} \/ pc'[j] # "none" => history'[j] \in Open
             /\ pc'[j] = "compensate" => job'[j] = "failed"
  BY <1>a DEF RowsAreOpen
<1>b. \A j \in Rotations : job'[j] = "absent" => job[j] = "absent"
  BY <1>0, KnownStays DEF ReferenceInv, Steady, ScriptHolds, HolderRotates
<1>1. CASE Runner /\ HistoryQuiet
  <2>1. ASSUME NEW k \in Jobs, Enqueue(k) \/ EnqueueFails(k) \/ TakeJob(k) \/ RecoverJob(k)
        PROVE  RowsAreOpen'
    <3>1. /\ \A j \in Rotations : j # k => job'[j] = job[j] /\ pc'[j] = pc[j]
      BY <1>0, <2>1 DEF Enqueue, EnqueueFails, TakeJob, RecoverJob, Goto, Settle, RunnerTypes
    <3>2. job[k] \in {"queued", "running"} \/ pc[k] # "none"
      <4>1. CASE TakeJob(k)
        <5>1. queue \in Seq(Jobs) /\ queue # <<>> /\ k = queue[1]
          BY <1>0, <4>1 DEF TakeJob, RunnerTypes
        <5>2. 1 \in DOMAIN queue
          BY <5>1
        <5> QED
          BY <5>1, <5>2 DEF QueueWaits
      <4> QED
        BY <2>1, <4>1 DEF Enqueue, EnqueueFails, RecoverJob, Unrecovered
    <3>3. pc'[k] = "compensate" => job'[k] = "failed"
      <4>1. \A place : Goto(k, place) => pc'[k] = place
        BY <1>0 DEF Goto, RunnerTypes
      <4> QED
        BY <1>0, <2>1, <3>2, <4>1 DEF Enqueue, EnqueueFails, TakeJob, RecoverJob, Unrecovered, Settle,
           RunnerTypes
    <3> QED
      BY <1>0, <1>1, <1>a, <1>b, <3>1, <3>2, <3>3 DEF RowsAreOpen, HistoryQuiet
  <2>2. CASE ApiStops
    BY <1>0, <1>1, <2>2 DEF ApiStops, RowsAreOpen, HistoryQuiet
  <2>3. CASE ApiStarts \/ Serve \/ \E i \in Intents : HostBegins(i) \/ WithdrawIntent(i)
    BY <1>1, <2>3 DEF ApiStarts, Serve, HostBegins, WithdrawIntent, RowsAreOpen, HistoryQuiet
  <2>4. requests \subseteq Jobs
    BY <1>0, RunnerAssumption DEF RunnerTypes
  <2> QED
    BY <1>1, <2>1, <2>2, <2>3, <2>4 DEF Runner, Unrecovered
<1>2. CASE OthersMove
  BY <1>2, <1>a DEF OthersMove, Unmoved, HistoryQuiet, RowsAreOpen
<1>3. ASSUME NEW k \in Rotations, RotationRunner(k) PROVE RowsAreOpen'
  <2>1. \A j \in Rotations : j # k => history'[j] = history[j] /\ job'[j] = job[j] /\ pc'[j] = pc[j]
    BY <1>0, <1>3, RotationRunnerTells, RotationRunsAlone
  <2>2. /\ \A place : Goto(k, place) => pc'[k] = place
        /\ \A s : Settle(k, s) => job'[k] = s
        /\ \A s : SetHistory(k, s) => history'[k] = s
    BY <1>0 DEF Goto, Settle, SetHistory, RunnerTypes, SettingTypes
  <2>4. job'[k] # "absent"
    BY <1>0, <1>3, RotationRunnerTells
  <2>3. /\ job'[k] \in {"queued", "running"} \/ pc'[k] # "none" => history'[k] \in Open
        /\ pc'[k] = "compensate" => job'[k] = "failed"
    <3>1. CASE AcceptRotation(k)
      BY <2>2, <3>1 DEF AcceptRotation, AcceptJob, Open
    <3>2. CASE CompensateRotation(k)
      BY <2>2, <3>2 DEF CompensateRotation, RowsAreOpen
    <3>3. CASE RotationBegins(k)
      BY <2>2, <3>3 DEF RotationBegins, RowsAreOpen, Open, HistoryFinal
    <3>4. CASE RotationConfirms(k)
      BY <2>2, <3>4 DEF RotationConfirms, RowsAreOpen
    <3>5. CASE RotationRaises(k)
      BY <2>2, <3>5 DEF RotationRaises, RowsAreOpen, rotationVars
    <3>6. CASE RotationFails(k)
      BY <2>2, <3>6 DEF RotationFails
    <3> QED
      BY <1>3, <3>1, <3>2, <3>3, <3>4, <3>5, <3>6 DEF RotationRunner
  <2> QED
    BY <1>a, <2>1, <2>3, <2>4 DEF RowsAreOpen
<1>4. ASSUME NEW k \in Rotations, RotationScript(k) PROVE RowsAreOpen'
  <2>1. pc' = pc
    BY <1>4 DEF RotationScript, ScriptBegins, Preflight, Advance, ScriptFails, ScriptDone, ScriptKilled,
       HostLost, runnerVars
  <2> QED
    BY <1>4, <1>a, <2>1, RotationScriptTells DEF RowsAreOpen
<1>5. CASE Rotates
  <2>1. pc' = pc
    BY <1>5 DEF Rotates, RollBack, RollBackDone, RollBackFails, LastStop, OperatorRecovers, AdmitRecreation,
       RefuseRecreation, runnerVars
  <2> QED
    BY <1>5, <1>a, <2>1, RotatesTells DEF RowsAreOpen
<1>6. ASSUME NEW k \in Rotations, Rotation(k) PROVE RotationRunner(k) \/ RotationScript(k)
  BY <1>6 DEF Rotation, RotationRunner, RotationScript
<1> QED
  BY <1>1, <1>2, <1>3, <1>4, <1>5, <1>6, NextHistory

LEMMA NextDoneIsSettled ==
  ASSUME OperationsInv, ChangeInv, [Next]_vars
  PROVE  DoneIsSettled'
<1> USE DEF OperationsInv
<1> SUFFICES ASSUME NEW j \in Rotations, history'[j] \in Open, command'[The(j)] = "done"
             PROVE  step' \in {"idle", "preflight"} /\ journal' = "none"
  BY DEF DoneIsSettled
<1>0. /\ HistoryTells /\ The(j) \in Intents /\ The(j)[1] = j
      /\ ScriptHolds /\ ReferenceTypes /\ JournalTells
  BY IntentsTell DEF ChangeInv, ReferenceInv, Steady, Rotations, The
<1>a. ASSUME history[j] \in Open, command[The(j)] = "done" PROVE step \in {"idle", "preflight"} /\ journal = "none"
  BY <1>a DEF ChangeInv, DoneIsSettled
<1>1. CASE HistoryQuiet /\ command'[The(j)] = command[The(j)]
  BY <1>1, <1>a DEF HistoryQuiet
<1>2. CASE Runner /\ HistoryQuiet
  BY <1>0, <1>2, <1>a, QueueTellsNothing DEF HistoryQuiet
<1>3. CASE OthersMove
  BY <1>0, <1>1, <1>3 DEF OthersMove, CommandsStay
<1>4. ASSUME NEW k \in Rotations, RotationRunner(k) PROVE step' \in {"idle", "preflight"} /\ journal' = "none"
  <2>1. history[j] \in Open /\ command[The(j)] = "done" /\ UNCHANGED <<step, journal>>
    BY <1>0, <1>4, RotationRunnerTells
  <2> QED
    BY <1>a, <2>1
<1>5. ASSUME NEW k \in Rotations, RotationScript(k) PROVE step' \in {"idle", "preflight"} /\ journal' = "none"
  <2>1. CASE ScriptDone(k)
    BY <2>1 DEF ScriptDone, SetJournal
  <2>2. CASE ~ScriptDone(k)
    <3>1. history[j] \in Open /\ command[The(j)] = "done"
      BY <1>0, <1>5, <2>2, RotationScriptTells
    <3>2. step \in {"idle", "preflight"} /\ journal = "none"
      BY <1>a, <3>1
    <3>3. ~Preflight(k)
      <4>1. SUFFICES ASSUME Preflight(k) PROVE FALSE
        OBVIOUS
      <4>2. history[k] \in Open /\ command[The(k)] = "running"
        BY <1>0, <4>1 DEF Preflight, PreflightOK, Held, ScriptHolds
      <4> QED
        BY <1>0, <3>1, <4>2 DEF HistoryTells
    <3>4. CASE ScriptBegins(k)
      BY <3>2, <3>4 DEF ScriptBegins
    <3>5. CASE ScriptFails(k)
      BY <3>2, <3>5 DEF ScriptFails, Halfway, EndCommand, StopGateway, WriteFiles, SwapReference,
         RestartGateway, SetJournal, InTry
    <3>6. CASE ScriptKilled(k)
      <4>1. CASE Held(k)
        BY <3>2, <3>6, <4>1 DEF ScriptKilled, Halfway, StopGateway, WriteFiles, SwapReference, RestartGateway,
           SetJournal
      <4>2. CASE ~Held(k)
        BY <3>2, <3>6, <4>2 DEF ScriptKilled
      <4> QED
        BY <4>1, <4>2
    <3>7. ~Advance(k)
      BY <3>2 DEF Advance
    <3> QED
      BY <1>5, <2>2, <3>3, <3>4, <3>5, <3>6, <3>7 DEF RotationScript
  <2> QED
    BY <2>1, <2>2
<1>6. CASE Rotates
  <2>1. history[j] \in Open /\ command[The(j)] = "done"
    BY <1>6, RotatesTells
  <2>2. step \in {"idle", "preflight"} /\ journal = "none"
    BY <1>a, <2>1
  <2>3. ~RollBack /\ ~RollBackDone /\ ~RollBackFails /\ ~LastStop /\ ~OperatorRecovers
    BY <2>2 DEF RollBack, RollBackDone, RollBackFails, LastStop, OperatorRecovers, Backward
  <2> QED
    BY <1>6, <2>2, <2>3 DEF Rotates, AdmitRecreation, RefuseRecreation, scriptVars, rotationVars
<1>7. ASSUME NEW k \in Rotations, Rotation(k) PROVE RotationRunner(k) \/ RotationScript(k)
  BY <1>7 DEF Rotation, RotationRunner, RotationScript
<1> QED
  BY <1>2, <1>3, <1>4, <1>5, <1>6, <1>7, NextHistory

\* Whatever else happens changes nothing of what a rotation promises, and an intent of a
\* rotation that ends spends it.
LEMMA ChangesStay ==
  ASSUME UNCHANGED <<ref, history, oldRef, journal, log, step, holder>>,
         \A j \in Rotations : Ended(The(j))' <=> Ended(The(j))
  PROVE  UNCHANGED Changes!vars
<1>1. Spent' = Spent
  BY DEF Spent
<1> QED
  BY <1>1 DEF Changes!vars

LEMMA OneSpends ==
  ASSUME NEW k \in Rotations,
         UNCHANGED <<ref, history, oldRef, journal, log, step, holder>>,
         \A j \in Rotations : j # k => (Ended(The(j))' <=> Ended(The(j))),
         Ended(The(k)) => Ended(The(k))'
  PROVE  [Changes!Next]_(Changes!vars)
<1>1. CASE Ended(The(k))'
  <2>1. Spent' = Spent \cup {k}
    BY <1>1 DEF Spent
  <2>2. Changes!Spend(k)
    BY <2>1 DEF Changes!Spend
  <2> QED
    BY <2>2 DEF Changes!Next
<1>2. CASE ~Ended(The(k))'
  BY <1>2, ChangesStay
<1> QED
  BY <1>1, <1>2

\* The intents of the rotations, and what the reference's invariant tells of their script.
LEMMA ScriptsAreHeld ==
  ASSUME OperationsInv, HistoryTells, ScriptTells
  PROVE  /\ RunnerTypes /\ ReferenceTypes /\ SettingTypes
         /\ \A j \in Rotations : The(j) \in Intents /\ The(j)[1] = j
         /\ \A j \in Rotations : Held(j) => command[The(j)] = "running" /\ holder # "operator"
         /\ step \in {"mkdir", "prepare"} => journal # "complete" /\ ref = oldRef[holder]
         /\ step \in InTry \cup {"cleanup"} \cup (Backward \ {"last_stop"}) => journal = "complete"
         /\ step \in InTry \cup {"cleanup"} => log.new = NewRef[holder]
         /\ step \in InTry \cup {"cleanup"} /\ holder \in Rotations => log.old = oldRef[holder]
         /\ \A j \in Rotations : j \in Spent <=>
              Ended(The(j)) \/ (holder = j /\ step \in InTry \cup {"cleanup"} \cup Backward)
BY IntentsTell, RotationAssumption DEF OperationsInv, RunnerInv, ReferenceInv, Steady, ScriptHolds,
   JournalTells, Position, ScriptTells, InScript, Held, Rotations, The, Spent

\* The rows: the endpoint reserves one, the runner carries it to its end.
LEMMA RunnersKeepPromises ==
  ASSUME OperationsInv, ChangeInv, NEW k \in Rotations, RotationRunner(k)
  PROVE  [Changes!Next]_(Changes!vars)
<1> USE DEF OperationsInv
<1>0. HistoryTells /\ ScriptTells /\ RowsAreOpen /\ DoneIsSettled /\ SettingTypes /\ ReferenceTypes
  BY DEF ChangeInv, ReferenceInv, Steady
<1>1. UNCHANGED <<ref, journal, log, step, holder>>
  BY <1>0, RotationRunnerTells
<1>2. \A j \in Rotations : Ended(The(j))' <=> Ended(The(j))
  BY <1>0, RotationRunnerTells DEF Ended, Host!Final
<1>3. Spent' = Spent
  BY <1>1, <1>2 DEF Spent
<1>4. UNCHANGED <<ref, Spent, journal, log, step>>
  BY <1>1, <1>3
<1>5. CASE AcceptRotation(k)
  <2>1. /\ history[k] = "absent" /\ \A j \in Rotations : history[j] \notin Open
        /\ history' = [history EXCEPT ![k] = "queued"] /\ oldRef' = [oldRef EXCEPT ![k] = ref]
    BY <1>0, <1>5 DEF AcceptRotation, AcceptJob, NoActiveRotation, SetHistory, RowsAreOpen
  <2>2. Changes!Reserve(k)
    BY <1>4, <2>1 DEF Changes!Reserve, Changes!Open, Open
  <2> QED
    BY <2>2 DEF Changes!Next
<1>a. ASSUME NEW s, history[k] \in Open, history' = [history EXCEPT ![k] = s], oldRef' = oldRef
      PROVE  Changes!End(k, s)
  BY <1>4, <1>a DEF Changes!End, Changes!Open, Open
<1>b. ASSUME oldRef' = oldRef, history' = history PROVE UNCHANGED Changes!vars
  BY <1>1, <1>2, <1>b, ChangesStay
<1>c. pc[k] # "none" => history[k] \in Open /\ history[k] \notin HistoryFinal
  BY <1>0 DEF RowsAreOpen, Open, HistoryFinal
<1>6. CASE CompensateRotation(k) \/ RotationFails(k)
  <2>1. Changes!GiveUp(k)
    BY <1>6, <1>a, <1>c DEF CompensateRotation, RotationFails, SetHistory, Changes!GiveUp
  <2> QED
    BY <2>1 DEF Changes!Next
<1>7. CASE RotationBegins(k)
  <2>1. Changes!Start(k)
    BY <1>7, <1>a, <1>c DEF RotationBegins, SetHistory, Changes!Start
  <2> QED
    BY <2>1 DEF Changes!Next
<1>8. CASE RotationConfirms(k)
  <2>1. Ended(The(k)) /\ pc[k] # "none" /\ oldRef' = oldRef /\ k \in Spent
    BY <1>8 DEF RotationConfirms, Spent
  <2>2. CASE Confirmed(k) = "raise"
    BY <1>8, <1>b, <2>1, <2>2 DEF RotationConfirms
  <2>3. CASE Confirmed(k) # "raise"
    <3>1. Changes!End(k, Confirmed(k))
      BY <1>8, <1>a, <1>c, <2>1, <2>3 DEF RotationConfirms, SetHistory
    <3>2. CASE Confirmed(k) = "succeeded"
      <4>1. command[The(k)] = "done" /\ ref = NewRef[k]
        BY <3>2 DEF Confirmed
      <4>2. journal # "complete"
        BY <1>0, <1>c, <2>1, <4>1 DEF DoneIsSettled
      <4>3. Changes!Succeed(k)
        BY <2>1, <3>1, <3>2, <4>1, <4>2 DEF Changes!Succeed
      <4> QED
        BY <4>3 DEF Changes!Next
    <3>3. CASE Confirmed(k) = "rolled_back"
      <4>1. ref = oldRef[k]
        BY <3>3 DEF Confirmed
      <4>2. Changes!PutBack(k)
        BY <2>1, <3>1, <3>3, <4>1 DEF Changes!PutBack
      <4> QED
        BY <4>2 DEF Changes!Next
    <3>4. CASE Confirmed(k) = "failed"
      <4>1. Changes!GiveUp(k)
        BY <3>1, <3>4 DEF Changes!GiveUp
      <4> QED
        BY <4>1 DEF Changes!Next
    <3> QED
      BY <2>3, <3>2, <3>3, <3>4 DEF Confirmed
  <2> QED
    BY <2>2, <2>3
<1>9. CASE RotationRaises(k)
  BY <1>9, <1>b DEF RotationRaises, rotationVars
<1> QED
  BY <1>5, <1>6, <1>7, <1>8, <1>9 DEF RotationRunner

\* What half a step may leave behind.
LEMMA HalfStepTells ==
  ASSUME Halfway
  PROVE  /\ log' = log
         /\ ref' = ref \/ (step = "swap" /\ ref = log.old /\ ref' = log.new)
         /\ \/ journal' = journal
            \/ step = "mkdir" /\ journal' = "bare"
            \/ step \in {"cleanup", "rb_cleanup"} /\ journal' \in {"bare", "none"}
BY DEF Halfway, StopGateway, WriteFiles, SwapReference, RestartGateway, SetJournal

\* The steps at which the change may still be made.
Armed == {"withdraw", "stop", "read", "render", "generate", "swap"}

\* Half a step makes the change, or gives it up, or settles it, or does none of this.
LEMMA HalvesKeepPromises ==
  ASSUME OperationsInv, HistoryTells, ScriptTells, Halfway, step' \notin Armed,
         UNCHANGED <<history, oldRef>>,
         NEW k \in Rotations, Spent' = Spent \cup {k},
         step \in InTry \cup {"cleanup"} \cup Backward => k \in Spent
  PROVE  [Changes!Next]_(Changes!vars)
<1>0. /\ step \in InTry \cup {"cleanup"} \cup (Backward \ {"last_stop"}) => journal = "complete"
      /\ step \in {"mkdir", "prepare"} => journal # "complete"
  BY ScriptsAreHeld
<1>1. /\ log' = log
      /\ ref' = ref \/ (step = "swap" /\ ref = log.old /\ ref' = log.new)
      /\ \/ journal' = journal
         \/ step = "mkdir" /\ journal' = "bare"
         \/ step \in {"cleanup", "rb_cleanup"} /\ journal' \in {"bare", "none"}
  BY HalfStepTells
<1>a. step \in Armed \cup {"cleanup", "rb_cleanup"} => Spent' = Spent
  BY DEF Armed, InTry, Backward
<1>2. CASE step = "swap" /\ ref' # ref
  <2>1. /\ journal = "complete" /\ journal' = journal /\ ref = log.old /\ ref' = log.new /\ Spent' = Spent
        /\ step' \notin {"withdraw", "stop", "read", "render", "generate", "swap"}
    BY <1>0, <1>1, <1>2, <1>a DEF InTry, Armed
  <2>2. Changes!Make
    BY <1>1, <1>2, <2>1 DEF Changes!Make
  <2> QED
    BY <2>2 DEF Changes!Next
<1>3. CASE step \in Armed /\ ref' = ref
  <2>1. journal' = journal /\ Spent' = Spent
    BY <1>1, <1>3, <1>a DEF Armed
  <2>2. Changes!Disarm
    BY <1>1, <1>3, <2>1 DEF Changes!Disarm, Armed
  <2> QED
    BY <2>2 DEF Changes!Next
<1>4. CASE step \in {"cleanup", "rb_cleanup"}
  <2>1. ref' = ref /\ Spent' = Spent
    BY <1>1, <1>4, <1>a
  <2>2. CASE journal' = journal
    BY <1>1, <1>4, <2>1, <2>2 DEF Changes!vars, Armed
  <2>3. CASE journal' # "complete"
    <3>1. Changes!SettleChange
      BY <1>1, <1>4, <2>1, <2>3 DEF Changes!SettleChange, Armed
    <3> QED
      BY <3>1 DEF Changes!Next
  <2> QED
    BY <1>1, <2>2, <2>3
<1>5. CASE step \notin Armed \cup {"cleanup", "rb_cleanup"}
  <2>1. ref' = ref /\ (journal' = journal \/ (journal # "complete" /\ journal' = "bare"))
    BY <1>0, <1>1, <1>5 DEF Armed
  <2>2. Changes!Spend(k)
    BY <1>1, <1>5, <2>1 DEF Changes!Spend, Armed
  <2> QED
    BY <2>2 DEF Changes!Next
<1> QED
  BY <1>1, <1>2, <1>3, <1>4, <1>5 DEF Armed

\* A script that ends its command ends its intent.
LEMMA ScriptsEnd ==
  ASSUME RunnerTypes, NEW k \in Rotations, The(k) \in Intents,
         Host!Fail({The(k)}) \/ Host!Succeed(The(k))
  PROVE  Ended(The(k))'
<1>1. PICK s \in {"failed", "done"} : command' = [command EXCEPT ![The(k)] = s]
  BY HostChanges
<1>2. command'[The(k)] = s
  BY <1>1 DEF RunnerTypes
<1>3. (The(k))' = The(k)
  BY DEF The
<1> QED
  BY <1>2, <1>3 DEF Ended, Host!Final

\* A script that ends with its command has spent its rotation.
LEMMA EndsSpend ==
  ASSUME NEW k \in Rotations, Held(k), step' = "idle", Ended(The(k))',
         \A j \in Rotations : j # k => (Ended(The(j))' <=> Ended(The(j)))
  PROVE  Spent' = Spent \cup {k}
<1>1. \A j \in Rotations : j \in Spent' <=> Ended(The(j))'
  BY DEF Spent, InTry, Backward
<1>2. \A j \in Rotations : j # k => (j \in Spent <=> Ended(The(j)))
  BY DEF Spent, Held
<1>3. Spent \subseteq Rotations /\ Spent' \subseteq Rotations
  <2>1. Rotations' = Rotations
    BY DEF Rotations
  <2> QED
    BY <2>1 DEF Spent
<1> QED
  BY <1>1, <1>2, <1>3

\* The script, forward.
LEMMA ScriptsKeepPromises ==
  ASSUME OperationsInv, ChangeInv, NEW k \in Rotations, RotationScript(k)
  PROVE  [Changes!Next]_(Changes!vars)
<1> USE DEF OperationsInv
<1>e. RunnerTypes /\ \A j \in Rotations : The(j) \in Intents
  BY ScriptsAreHeld DEF ChangeInv
<1>0. /\ HistoryTells /\ ScriptTells /\ UNCHANGED <<history, oldRef>>
      /\ \A j \in Rotations : command'[The(j)] # command[The(j)] =>
           j = k /\ command[The(k)] = "running" /\ command'[The(k)] \in {"failed", "done"}
  BY RotationScriptTells DEF ChangeInv
<1>a. /\ \A j \in Rotations : j # k => (Ended(The(j))' <=> Ended(The(j)))
      /\ Ended(The(k)) => Ended(The(k))'
      /\ command' = command => (Ended(The(k))' <=> Ended(The(k)))
  BY <1>0 DEF Ended, Host!Final
<1>b. Held(k) => holder = k /\ ~Ended(The(k)) /\ command[The(k)] = "running"
  BY <1>0, ScriptsAreHeld DEF Held, Ended, Host!Final
<1>c. step \in InTry \cup {"cleanup"} \cup Backward /\ Held(k) => k \in Spent
  BY <1>b DEF Spent
<1>1. CASE ScriptBegins(k) \/ Preflight(k)
  <2>1. /\ UNCHANGED <<ref, journal, log>> /\ command' = command
        /\ step \in {"idle", "preflight"} /\ step' \in {"preflight", "mkdir"}
    BY <1>1 DEF ScriptBegins, Preflight, runnerVars
  <2>2. Spent' = Spent
    BY <1>a, <2>1 DEF Spent, InTry, Backward
  <2> QED
    BY <1>0, <2>1, <2>2 DEF Changes!vars
<1>2. CASE Advance(k)
  <2>0. holder' = holder /\ holder = k /\ command' = command /\ Held(k)
    BY <1>2 DEF Advance, outside, Held, runnerVars
  <2>a. ASSUME step \in InTry, step' \in InTry \cup {"cleanup"} PROVE Spent' = Spent
    BY <1>a, <2>0, <2>a DEF Spent
  <2>1. CASE step = "mkdir"
    <3>1. UNCHANGED <<ref, log>> /\ journal' = "bare" /\ step' = "prepare"
      BY <1>2, <2>1 DEF Advance, SetJournal
    <3>2. Spent' = Spent
      BY <1>a, <2>0, <2>1, <3>1 DEF Spent, InTry, Backward
    <3>3. journal # "complete"
      BY <1>0, <2>1, ScriptsAreHeld
    <3> QED
      BY <1>0, <2>1, <3>1, <3>2, <3>3 DEF Changes!vars
  <2>2. CASE step = "prepare"
    <3>1. /\ ref' = ref /\ journal' = "complete" /\ step' = "withdraw"
          /\ log'.old = oldRef[k] /\ log'.new = NewRef[k]
      BY <1>2, <2>2 DEF Advance
    <3>2. ref = oldRef[k] /\ journal # "complete"
      BY <1>0, <2>0, <2>2, ScriptsAreHeld
    <3>3. k \notin Spent /\ Spent' = Spent \cup {k}
      BY <1>a, <1>b, <2>0, <2>2, <3>1 DEF Spent, InTry, Backward
    <3>4. Changes!Plan(k)
      BY <1>0, <3>1, <3>2, <3>3 DEF Changes!Plan
    <3> QED
      BY <3>4 DEF Changes!Next
  <2>3. CASE step \in {"withdraw", "stop", "read", "render", "generate"}
    <3>1. UNCHANGED <<ref, log, journal>> /\ step' \in {"stop", "read", "render", "generate", "swap"}
      BY <1>2, <2>3 DEF Advance, Withdraw, StopGateway, WriteFiles
    <3>2. Spent' = Spent
      BY <2>3, <2>a, <3>1 DEF InTry
    <3> QED
      BY <1>0, <2>3, <3>1, <3>2 DEF Changes!vars
  <2>4. CASE step = "swap"
    <3>1. UNCHANGED <<log, journal>> /\ step' = "restart" /\ ref = oldRef[k] /\ ref' = NewRef[k]
      BY <1>2, <2>4 DEF Advance, SwapReference
    <3>2. journal = "complete" /\ log.old = oldRef[k] /\ log.new = NewRef[k]
      BY <1>0, <2>0, <2>4, ScriptsAreHeld DEF InTry
    <3>3. Spent' = Spent
      BY <2>4, <2>a, <3>1 DEF InTry
    <3>4. Changes!Make
      BY <1>0, <2>4, <3>1, <3>2, <3>3 DEF Changes!Make
    <3> QED
      BY <3>4 DEF Changes!Next
  <2>5. CASE step \in {"restart", "publish"}
    <3>1. UNCHANGED <<ref, log, journal>> /\ step' \in {"publish", "cleanup"}
      BY <1>2, <2>5 DEF Advance, RestartGateway, Publish
    <3>2. Spent' = Spent
      BY <2>5, <2>a, <3>1 DEF InTry
    <3> QED
      BY <1>0, <2>5, <3>1, <3>2 DEF Changes!vars
  <2> QED
    BY <1>2, <2>1, <2>2, <2>3, <2>4, <2>5 DEF Advance
<1>3. CASE ScriptFails(k)
  <2>1. Held(k) /\ Halfway /\ step \in Forward
    BY <1>3 DEF ScriptFails
  <2>2. CASE step \in InTry
    <3>1. step' = "rb_withdraw" /\ command' = command /\ holder' = holder
      BY <1>3, <2>2 DEF ScriptFails
    <3>2. k \in Spent /\ Spent' = Spent \cup {k}
      BY <1>a, <1>b, <2>1, <2>2, <3>1 DEF Spent, Backward
    <3> QED
      BY <1>0, <2>1, <3>1, <3>2, HalvesKeepPromises DEF Armed
  <2>3. CASE step \notin InTry
    <3>1. step' = "idle" /\ Host!Fail({The(k)})
      BY <1>3, <2>3 DEF ScriptFails, EndCommand
    <3>2. Ended(The(k))'
      BY <1>e, <3>1, ScriptsEnd
    <3>3. Spent' = Spent \cup {k}
      BY <1>a, <2>1, <3>1, <3>2, EndsSpend
    <3> QED
      BY <1>0, <1>c, <2>1, <3>1, <3>3, HalvesKeepPromises DEF Armed
  <2> QED
    BY <2>2, <2>3
<1>4. CASE ScriptDone(k)
  <2>1. /\ Held(k) /\ step = "cleanup" /\ step' = "idle" /\ journal' = "none" /\ UNCHANGED <<ref, log>>
        /\ Host!Succeed(The(k))
    BY <1>4 DEF ScriptDone, SetJournal
  <2>2. Ended(The(k))'
    BY <1>e, <2>1, ScriptsEnd
  <2>3. Spent' = Spent
    BY <1>a, <1>c, <2>1, <2>2, EndsSpend
  <2>4. Changes!SettleChange
    BY <1>0, <2>1, <2>3 DEF Changes!SettleChange
  <2> QED
    BY <2>4 DEF Changes!Next
<1>5. CASE ScriptKilled(k)
  <2>1. CASE Held(k)
    <3>1. step' = "idle" /\ Host!Fail({The(k)}) /\ Halfway
      BY <1>5, <2>1 DEF ScriptKilled, HostLost
    <3>2. Ended(The(k))'
      BY <1>e, <3>1, ScriptsEnd
    <3>3. Spent' = Spent \cup {k}
      BY <1>a, <2>1, <3>1, <3>2, EndsSpend
    <3> QED
      BY <1>0, <1>c, <2>1, <3>1, <3>3, HalvesKeepPromises DEF Armed
  <2>2. CASE ~Held(k)
    <3>1. UNCHANGED <<ref, journal, log, step, holder>>
      BY <1>5, <2>2 DEF ScriptKilled, outside
    <3> QED
      BY <1>0, <1>a, <3>1, OneSpends
  <2> QED
    BY <2>1, <2>2
<1> QED
  BY <1>1, <1>2, <1>3, <1>4, <1>5 DEF RotationScript

\* The script, back, and an operator's recovery.
LEMMA RollbacksKeepPromises ==
  ASSUME OperationsInv, ChangeInv, Rotates
  PROVE  [Changes!Next]_(Changes!vars)
<1> USE DEF OperationsInv
<1>e. RunnerTypes /\ \A j \in Rotations : The(j) \in Intents
  BY ScriptsAreHeld DEF ChangeInv
<1>0. /\ HistoryTells /\ ScriptTells /\ UNCHANGED <<history, oldRef>>
      /\ \A j \in Rotations : command'[The(j)] # command[The(j)] =>
           j = holder /\ command[The(j)] = "running" /\ command'[The(j)] = "failed"
      /\ step \in Backward \ {"last_stop"} => journal = "complete"
      /\ "operator" \notin Rotations
  BY RotatesTells, ScriptsAreHeld, RotationAssumption DEF ChangeInv
<1>a. /\ \A j \in Rotations : j # holder => (Ended(The(j))' <=> Ended(The(j)))
      /\ \A j \in Rotations : Ended(The(j)) => Ended(The(j))'
      /\ command' = command => \A j \in Rotations : Ended(The(j))' <=> Ended(The(j))
  BY <1>0 DEF Ended, Host!Final
<1>1. CASE RollBack
  <2>1. /\ step \in Backward \ {"last_stop"} /\ step' \in Backward /\ command' = command
        /\ UNCHANGED <<journal, log, holder>>
        /\ ref' = ref \/ ref' = log.old
    BY <1>1 DEF RollBack, outside, runnerVars, Withdraw, StopGateway, SwapReference, WriteFiles, RestartGateway,
       Publish, Backward
  <2>2. Spent' = Spent
    BY <1>a, <2>1 DEF Spent
  <2>3. CASE ref' = ref
    BY <1>0, <2>1, <2>2, <2>3 DEF Changes!vars, Backward
  <2>4. CASE ref' = log.old
    <3>1. journal = "complete"
      BY <1>0, <2>1
    <3>2. \E c \in {[old |-> log.old, new |-> log.new]} : ref' = c.old
      BY <2>4
    <3>3. Changes!TakeBack
      BY <1>0, <2>1, <2>2, <3>1, <3>2 DEF Changes!TakeBack, Backward
    <3> QED
      BY <3>3 DEF Changes!Next
  <2> QED
    BY <2>1, <2>3, <2>4
<1>2. CASE RollBackDone
  <2>1. step = "rb_cleanup" /\ step' = "idle" /\ journal' = "none" /\ UNCHANGED <<ref, log, holder>>
    BY <1>2 DEF RollBackDone, SetJournal
  <2>2. holder \in Rotations => Ended(The(holder))'
    BY <1>e, <1>2, ScriptsEnd DEF RollBackDone
  <2>3. Spent' = Spent
    BY <1>a, <2>1, <2>2 DEF Spent, InTry, Backward
  <2>4. Changes!SettleChange
    BY <1>0, <2>1, <2>3 DEF Changes!SettleChange
  <2> QED
    BY <2>4 DEF Changes!Next
<1>3. CASE RollBackFails
  <2>1. /\ step \in Backward \ {"last_stop"} /\ Halfway /\ command' = command /\ holder' = holder
        /\ step' = IF holder \in Rotations THEN "last_stop" ELSE "idle"
    BY <1>3 DEF RollBackFails
  <2>2. Spent' = Spent
    BY <1>a, <2>1 DEF Spent, InTry, Backward
  <2>3. CASE holder \in Rotations
    <3>1. holder \in Spent
      BY <2>1, <2>3 DEF Spent
    <3>2. Spent' = Spent \cup {holder}
      BY <2>2, <3>1
    <3> QED
      BY <1>0, <2>1, <2>3, <3>1, <3>2, HalvesKeepPromises DEF Armed
  <2>4. CASE holder \notin Rotations
    <3>1. /\ log' = log /\ ref' = ref
          /\ journal' = journal \/ journal' \in {"bare", "none"}
      BY <2>1, HalfStepTells DEF Backward
    <3>2. CASE journal' = journal
      BY <1>0, <2>1, <2>2, <2>4, <3>1, <3>2 DEF Changes!vars, Backward
    <3>3. CASE journal' # "complete"
      <4>1. Changes!SettleChange
        BY <1>0, <2>1, <2>2, <2>4, <3>1, <3>3 DEF Changes!SettleChange, Backward
      <4> QED
        BY <4>1 DEF Changes!Next
    <3> QED
      BY <3>1, <3>2, <3>3
  <2> QED
    BY <2>3, <2>4
<1>4. CASE LastStop
  <2>1. step = "last_stop" /\ step' = "idle" /\ UNCHANGED <<ref, journal, log, holder>> /\ Host!Fail({The(holder)})
    BY <1>4 DEF LastStop, JournalKept, outside
  <2>2. holder \in Rotations => Ended(The(holder))'
    BY <1>e, <2>1, ScriptsEnd
  <2>3. Spent' = Spent
    BY <1>a, <2>1, <2>2 DEF Spent, InTry, Backward
  <2> QED
    BY <1>0, <2>1, <2>3 DEF Changes!vars
<1>5. CASE OperatorRecovers
  <2>1. /\ step = "idle" /\ step' = "rb_withdraw" /\ holder' = "operator" /\ command' = command
        /\ UNCHANGED <<ref, journal, log>>
    BY <1>5 DEF OperatorRecovers, runnerVars
  <2>2. Spent' = Spent
    BY <1>0, <1>a, <2>1 DEF Spent, InTry, Backward
  <2> QED
    BY <1>0, <2>1, <2>2 DEF Changes!vars
<1>6. ASSUME NEW k \in requests, AdmitRecreation(k) \/ RefuseRecreation(k) PROVE [Changes!Next]_(Changes!vars)
  <2>1. UNCHANGED <<ref, journal, log, step, holder>>
    BY <1>6 DEF AdmitRecreation, RefuseRecreation, rotationVars, scriptVars
  <2>2. \A j \in Rotations : command'[The(j)] = command[The(j)]
    <3>1. k \in LifecycleJobs /\ The(k) \in Intents /\ \A j \in Rotations : The(j) # The(k)
      BY <1>6, IntentsTell DEF AdmitRecreation, RefuseRecreation, LifecycleJobs, LifecycleActions, The,
         Rotations
    <3>2. command' = command \/ \E s : command' = [command EXCEPT ![The(k)] = s]
      BY <1>0, <1>6, <3>1, ScriptsAreHeld, HostChanges DEF AdmitRecreation, RefuseRecreation, runnerVars
    <3> QED
      BY <1>0, <3>1, <3>2, ScriptsAreHeld DEF RunnerTypes
  <2> QED
    BY <1>0, <2>1, <2>2, ChangesStay DEF Ended
<1> QED
  BY <1>1, <1>2, <1>3, <1>4, <1>5, <1>6 DEF Rotates

\* Every step of the operations is one of a rotation's promise, or none.
LEMMA NextKeepsPromises ==
  ASSUME OperationsInv, ChangeInv, [Next]_vars
  PROVE  [Changes!Next]_(Changes!vars)
<1> USE DEF OperationsInv
<1>0. HistoryTells /\ ScriptTells /\ RunnerTypes /\ \A j \in Rotations : The(j) \in Intents /\ The(j)[1] = j
  BY ScriptsAreHeld DEF ChangeInv
<1>1. CASE Runner /\ HistoryQuiet
  <2>1. ASSUME NEW i \in Intents, WithdrawIntent(i) \/ HostBegins(i) PROVE [Changes!Next]_(Changes!vars)
    <3>1. command[i] = "queued" /\ \E s \in {"running", "cancelled"} : command' = [command EXCEPT ![i] = s]
      BY <1>0, <2>1, HostChanges DEF HostBegins, WithdrawIntent
    <3>2. \A j \in Rotations : i # The(j) => (Ended(The(j))' <=> Ended(The(j)))
      BY <1>0, <3>1 DEF Ended, RunnerTypes
    <3>3. ~Ended(i)
      BY <3>1 DEF Ended, Host!Final
    <3>4. CASE \E k \in Rotations : i = The(k)
      <4>1. PICK k \in Rotations : i = The(k)
        BY <3>4
      <4>2. \A j \in Rotations : j # k => The(j) # i
        BY <1>0, <4>1
      <4> QED
        BY <1>1, <3>2, <3>3, <4>1, <4>2, OneSpends DEF HistoryQuiet
    <3>5. CASE ~ \E k \in Rotations : i = The(k)
      BY <1>1, <3>2, <3>5, ChangesStay DEF HistoryQuiet
    <3> QED
      BY <3>4, <3>5
  <2>2. CASE ~ \E i \in Intents : WithdrawIntent(i) \/ HostBegins(i)
    <3>1. command' = command
      BY <1>1, <2>2 DEF Runner, Enqueue, EnqueueFails, TakeJob, RecoverJob, ApiStops, ApiStarts, Serve
    <3> QED
      BY <1>1, <3>1, ChangesStay DEF HistoryQuiet, Ended
  <2> QED
    BY <2>1, <2>2
<1>2. CASE OthersMove
  <2>1. \A j \in Rotations : Ended(The(j))' <=> Ended(The(j))
    BY <1>0, <1>2 DEF OthersMove, CommandsStay, Ended
  <2> QED
    BY <1>2, <2>1, ChangesStay DEF OthersMove, HistoryQuiet
<1>3. ASSUME NEW k \in Rotations, Rotation(k) PROVE [Changes!Next]_(Changes!vars)
  <2>1. RotationRunner(k) \/ RotationScript(k)
    BY <1>3 DEF Rotation, RotationRunner, RotationScript
  <2> QED
    BY <2>1, RunnersKeepPromises, ScriptsKeepPromises
<1>4. CASE Rotates
  BY <1>4, RollbacksKeepPromises
<1> QED
  BY <1>1, <1>2, <1>3, <1>4, NextHistory

LEMMA InitChanges == Init => ChangeInv /\ Changes!Init
<1> SUFFICES ASSUME Init PROVE ChangeInv /\ Changes!Init
  OBVIOUS
<1>1. /\ \A j \in Rotations : job[j] = "absent" /\ pc[j] = "none" /\ history[j] = "absent" /\ The(j) \in Intents
      /\ \A i \in Intents : command[i] = "absent"
      /\ ref = 0 /\ journal = "none" /\ step = "idle"
      /\ history = [j \in Rotations |-> "absent"] /\ oldRef = [j \in Rotations |-> 0]
  BY IntentsTell DEF Init, RunnerInit, RotationInit, Rotations, Host!Init
<1>2. Spent = {}
  BY <1>1 DEF Spent, InTry, Backward, Ended, Host!Final
<1>3. Changes!Init
  BY <1>1, <1>2 DEF Changes!Init
<1>4. HistoryTells /\ ScriptTells
  BY InitHistory DEF HistoryInv
<1>5. RowsAreOpen /\ DoneIsSettled
  BY <1>1 DEF RowsAreOpen, DoneIsSettled, Open
<1> QED
  BY <1>3, <1>4, <1>5 DEF ChangeInv

LEMMA NextChanges == OperationsInv /\ ClaimInv /\ ChangeInv /\ [Next]_vars => ChangeInv'
<1> SUFFICES ASSUME OperationsInv, ClaimInv, ChangeInv, [Next]_vars PROVE ChangeInv'
  OBVIOUS
<1>1. HistoryTells' /\ ScriptTells'
  BY NextHistoryTells, NextScriptTells DEF ChangeInv
<1>2. RowsAreOpen' /\ DoneIsSettled'
  BY NextRowsAreOpen, NextDoneIsSettled DEF ChangeInv, ClaimInv
<1> QED
  BY <1>1, <1>2 DEF ChangeInv

\* Endpoint, runner, script and recovery (project_rename.py, project_reference_jobs.py,
\* rotate_project_reference.py) implement the change of a reference that ReferenceChange
\* describes, over crashes, failing statements and scripts, and beside all other operations:
\* one change for each rotation, from the reference it found, taken back only before it is
\* settled, reported once and as it is.
THEOREM ReferencesChangeOnce == Spec => ReferenceChangesOnce
<1>1. OperationsInv /\ ChangeInv /\ [Next]_vars => [Changes!Next]_(Changes!vars)
  BY NextKeepsPromises
<1> QED
  BY <1>1, InitChanges, InitClaims, InitOperations, NextOperations, NextClaims, NextChanges, PTL
  DEF Spec, ReferenceChangesOnce, Changes!Spec
=============================================================================
