--------------------------- MODULE ProjectServices ---------------------------
(***************************************************************************)
(* The generated files and the containers of a project: its settings, the  *)
(* jobs start, stop, restart and recreate_services, and their endpoints,   *)
(* which answer a request with the job that already does the same.         *)
(* Settings are numbered by the save that wrote them, references by their  *)
(* order; Broken is a file set of which only a part is written.            *)
(***************************************************************************)
EXTENDS ProjectRunner

CONSTANTS Services,   \* compose services whose containers read settings; "nginx" is one
          Affected,   \* what a save may affect: subsets of Services
          Recreates,  \* [Jobs -> SUBSET Services]: payload.services
          MaxSaves,   \* [Requests -> Nat]: bound on saves
          NewRef,     \* [Jobs -> Nat \ {0}]: references generated for rotations; 0 is the first
          Broken

\* What .env holds: the settings of a service, and the API keys.
Entries == Services \cup {"keys"}

Rotations == {j \in Jobs : Action[j] = "rename"}
Refs == {0} \cup {NewRef[j] : j \in Rotations}

LifecycleActions == {"start", "stop", "restart", "recreate_services"}
LifecycleJobs == {j \in Jobs : Action[j] \in LifecycleActions}

ASSUME ServicesAssumption ==
  /\ "nginx" \in Services /\ "keys" \notin Services
  /\ Affected \subseteq SUBSET Services
  /\ Recreates \in [Jobs -> SUBSET Services]
  /\ MaxSaves \in [Requests -> Nat]
  /\ NewRef \in [Jobs -> Nat \ {0}]
  /\ \A j, k \in Rotations : NewRef[j] = NewRef[k] => j = k
  /\ Broken \notin Refs

VARIABLES
  envRef,   \* PROJECT_PUBLIC_REF of .env
  fileRef,  \* the reference in the files generated from it
  saved,    \* [Entries -> Nat]: what .env holds, by the save or rotation that wrote it
  gateway,  \* the reference nginx and auth were created with
  applied,  \* [Services -> save]: the settings its container was created with
  up,       \* nginx and auth run
  pending,  \* .settings_pending.json: affected_services
  saves,    \* saves so far
  draft,    \* the copy of .env a save is about to put in its place
  asked,    \* what each request was answered with, and what was saved then
  admitted  \* the recreations the agent let in and has not ended

containerVars == <<envRef, fileRef, gateway, up>>
settingVars   == <<saved, applied, pending, saves, asked, admitted>>
serviceVars   == <<containerVars, settingVars>>

Untouched == [e \in Entries |-> 0]
NoDraft == [open |-> FALSE, affects |-> {}, env |-> 0, saved |-> Untouched]

ServicesInit ==
  /\ envRef = 0 /\ fileRef = 0
  /\ gateway = 0
  /\ up \in BOOLEAN
  /\ saved = Untouched /\ applied = [s \in Services |-> 0]
  /\ pending = {}
  /\ saves = 0 /\ draft = NoDraft
  /\ asked = [j \in Jobs |-> [job |-> "none", since |-> Untouched]]
  /\ admitted = {}

ServicesTypeOK ==
  /\ {envRef, fileRef, gateway} \subseteq Refs \cup {Broken}
  /\ up \in BOOLEAN
  /\ saved \in [Entries -> Nat] /\ applied \in [Services -> 0 .. MaxSaves[requests]]
  /\ pending \subseteq Services
  /\ saves \in 0 .. MaxSaves[requests]
  /\ draft \in [open : BOOLEAN, affects : SUBSET Services, env : Refs \cup {Broken},
                saved : [Entries -> Nat]]
  /\ asked \in [Jobs -> [job : Jobs \cup {"none"}, since : [Entries -> Nat]]]
  /\ admitted \subseteq LifecycleJobs

-----------------------------------------------------------------------------
(* update_project_settings                                                 *)
(*                                                                         *)
(* _write_env_whitelisted reads .env and replaces it by a copy, without the *)
(* lock of the host scripts.  It runs to its end in the API's only thread:  *)
(* no two saves overlap, and one that is under way ends with the API.       *)

ReadEnv(S) ==
  /\ api = "up" /\ project /\ files
  /\ ~draft.open /\ saves < MaxSaves[requests]
  /\ draft' = [open |-> TRUE, affects |-> S, env |-> envRef, saved |-> saved]
  /\ UNCHANGED <<runnerVars, serviceVars>>

\* What was pending is forgotten, unless the save affects no service.
ReplaceEnv ==
  /\ draft.open /\ files
  /\ saves' = saves + 1
  /\ envRef' = draft.env
  /\ saved' = [e \in Entries |-> IF e \in draft.affects THEN saves + 1 ELSE draft.saved[e]]
  /\ pending' = draft.affects
  /\ draft' = NoDraft
  /\ UNCHANGED <<runnerVars, fileRef, gateway, up, applied, asked, admitted>>

SaveFails ==
  /\ draft.open
  /\ draft' = NoDraft
  /\ UNCHANGED <<runnerVars, serviceVars>>

Saves == (\E S \in Affected : ReadEnv(S)) \/ ReplaceEnv \/ SaveFails

-----------------------------------------------------------------------------
(* _create_lifecycle_job_deduped and the four endpoints                    *)

Active(k) == job[k] \in {"queued", "running"}

\* Faulty variant: any recreation in progress answers for every other.
SameRequestAction(j, k) == Action[j] = Action[k]

\* Recreations are the same only with the same services.
SameRequest(j, k) ==
  /\ Action[j] = Action[k]
  /\ Action[j] = "recreate_services" => Recreates[j] = Recreates[k]

Asks(j) == j \in LifecycleJobs /\ j \in requests /\ asked[j].job = "none"

\* Looked at is the latest active job of the action: one that recreates other services hides
\* an earlier one that is the same.  The order is not kept, either of them may be the latest.
AcceptLifecycle(j) ==
  /\ Asks(j)
  /\ \/ ~\E k \in Jobs \ {j} : Active(k) /\ SameRequest(j, k)
     \/ \E k \in Jobs \ {j} : Active(k) /\ Action[j] = Action[k] /\ ~SameRequest(j, k)
  /\ AcceptJob(j)
  /\ asked' = [asked EXCEPT ![j] = [job |-> j, since |-> saved]]
  /\ UNCHANGED <<containerVars, saved, applied, pending, saves, admitted>>

\* The request is answered with a job that is there, also with one that has begun: it
\* may miss what was saved since.
AnswerLifecycle(j) ==
  /\ Asks(j)
  /\ api = "up" /\ project
  /\ \E k \in Jobs \ {j} :
       /\ Active(k) /\ SameRequest(j, k)
       /\ asked' = [asked EXCEPT ![j] =
            [job |-> k, since |-> IF command[The(k)] = "absent" THEN saved ELSE Untouched]]
  /\ UNCHANGED <<runnerVars, containerVars, saved, applied, pending, saves, admitted>>

\* The endpoint compensates nothing.
LifecycleNotQueued(j) ==
  /\ j \in LifecycleJobs
  /\ pc[j] = "compensate"
  /\ Goto(j, "none")
  /\ UNCHANGED <<still, project, job, queue, command, api, troubles, serviceVars>>

-----------------------------------------------------------------------------
(* _container_lifecycle_background, _recreate_project_services_background  *)

\* These jobs are idempotent: a final intent of an earlier run is repeated.
LifecycleBegins(j) ==
  /\ j \in LifecycleJobs
  /\ pc[j] = "begin"
  /\ Settle(j, "running")
  /\ IF command[The(j)] \in {"queued", "running"}
     THEN UNCHANGED command
     ELSE command' = [command EXCEPT ![The(j)] = "queued"]
  /\ Goto(j, "wait")
  /\ UNCHANGED <<still, project, queue, api, troubles, serviceVars>>

\* A recreation that went well clears all that is pending, then ends its job.
LifecycleEnds(j) ==
  /\ j \in LifecycleJobs
  /\ pc[j] = "wait"
  /\ Ended(The(j))
  /\ IF command[The(j)] = "done" /\ Action[j] = "recreate_services"
     THEN Goto(j, "finish") /\ pending' = {} /\ UNCHANGED job
     ELSE /\ Settle(j, IF command[The(j)] = "done" THEN "done" ELSE "failed")
          /\ Goto(j, "none")
          /\ UNCHANGED pending
  /\ UNCHANGED <<still, project, queue, command, api, troubles, containerVars, saved,
                 applied, saves, asked, admitted>>

RecreationEnds(j) ==
  /\ j \in LifecycleJobs
  /\ pc[j] = "finish"
  /\ Settle(j, "done")
  /\ Goto(j, "none")
  /\ UNCHANGED <<still, project, queue, command, api, troubles, serviceVars>>

LifecycleRaises(j) ==
  /\ j \in LifecycleJobs
  /\ pc[j] \in {"begin", "wait", "finish"}
  /\ Trouble
  /\ Settle(j, "failed")
  /\ Goto(j, "none")
  /\ UNCHANGED <<still, project, queue, command, api, serviceVars>>

-----------------------------------------------------------------------------
(* handle_start_project, handle_stop_project, handle_restart_project,      *)
(* handle_recreate_services                                                *)

\* docker compose up --force-recreate: settings and reference are those of the files,
\* which are generated again for nginx from what .env holds now.
RecreatedContainers(S) ==
  /\ applied' = [s \in Services |-> IF s \in S THEN saved[s] ELSE applied[s]]
  /\ IF "nginx" \in S
     THEN fileRef' = envRef /\ gateway' = envRef /\ up' = TRUE /\ UNCHANGED envRef
     ELSE UNCHANGED containerVars

\* docker start, stop and restart keep the container as it was created.
LifecycleWork(j) ==
  CASE Action[j] \in {"start", "restart"} ->
         up' = TRUE /\ UNCHANGED <<envRef, fileRef, gateway, applied>>
    [] Action[j] = "stop" -> up' = FALSE /\ UNCHANGED <<envRef, fileRef, gateway, applied>>
    [] OTHER -> RecreatedContainers(Recreates[j])

\* A recreation that ends early may have generated the files, or some of them.
GeneratedOnly(j) ==
  /\ Action[j] = "recreate_services" /\ "nginx" \in Recreates[j]
  /\ fileRef' \in {envRef, Broken}
  /\ UNCHANGED <<envRef, gateway, up, applied>>

AtWork(j) == command[The(j)] = "running"

\* The agent runs the handler of a recreation when it has let it in.
LetIn(j) == AtWork(j) /\ (Action[j] = "recreate_services" => j \in admitted)

LifecycleDone(j) ==
  /\ j \in LifecycleJobs
  /\ LetIn(j)
  /\ files
  /\ LifecycleWork(j)
  /\ admitted' = admitted \ {j}
  /\ Host!Succeed(The(j))
  /\ UNCHANGED <<still, project, job, pc, queue, api, troubles, saved, pending, saves, asked>>

\* What a handler does that does not get to its end.
LifecycleLeaves(j) ==
  \/ LetIn(j) /\ files /\ (LifecycleWork(j) \/ GeneratedOnly(j))
  \/ UNCHANGED <<containerVars, applied>>

\* An error of docker or no container: some of the work may be done.
LifecycleFails(j) ==
  /\ j \in LifecycleJobs
  /\ AtWork(j)
  /\ IF files THEN Trouble ELSE UNCHANGED troubles
  /\ LifecycleLeaves(j)
  /\ admitted' = admitted \ {j}
  /\ Host!Fail({The(j)})
  /\ UNCHANGED <<still, project, job, pc, queue, api, saved, pending, saves, asked>>

LifecycleLost(j) ==
  /\ j \in LifecycleJobs
  /\ HostLost(The(j))
  /\ LifecycleLeaves(j)
  /\ admitted' = admitted \ {j}
  /\ UNCHANGED <<files, saved, pending, saves, asked>>
=============================================================================
