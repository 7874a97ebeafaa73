----------------------- MODULE ProjectOperationsProofs -----------------------
(***************************************************************************)
(* Proofs about the operations on one project, for any set of jobs, points *)
(* and services and any number of troubles, in layers: what the runners    *)
(* and the host commands of all operations have in common, then what the   *)
(* scripts of the single operations do with the project's reference, its   *)
(* files, its keys, its holdings, its restore points and its settings.     *)
(***************************************************************************)
EXTENDS ProjectOperations, FiniteSetTheorems, SequenceTheorems, TLAPS

-----------------------------------------------------------------------------
(* Intents *)

\* Every action but a deletion has one command, and a command tells its action.
LEMMA CommandTells ==
  ASSUME NEW a \in Actions, NEW b \in Actions
  PROVE  /\ a # "delete" => CommandsOf(a) = {CommandOf(a)} /\ CommandOf(a) \notin HostSteps
         /\ a # "delete" /\ CommandOf(a) = CommandOf(b) => a = b
         /\ CommandsOf("delete") = HostSteps
  BY DEF Actions, CommandsOf, CommandOf, HostSteps

\* The intents are those of the jobs.
LEMMA IntentsTell ==
  /\ \A i \in Intents : /\ i[1] \in Jobs /\ i[2] \in CommandsOf(Action[i[1]])
                        /\ i = <<i[1], i[2]>>
                        /\ Action[i[1]] # "delete" => i = The(i[1])
  /\ \A j \in Jobs : \A c : <<j, c>> \in Intents <=> c \in CommandsOf(Action[j])
  /\ \A j \in Jobs : Action[j] # "delete" => The(j) \in Intents
  /\ \A j \in Jobs : Action[j] \in Actions
<1>1. \A j \in Jobs : Action[j] \in Actions
  BY RunnerAssumption
<1>2. \A j \in Jobs : \A c : <<j, c>> \in Intents <=> c \in CommandsOf(Action[j])
  BY <1>1 DEF Intents
<1>3. \A i \in Intents : i[1] \in Jobs /\ i[2] \in CommandsOf(Action[i[1]]) /\ i = <<i[1], i[2]>>
  BY <1>1 DEF Intents
<1>4. \A j \in Jobs : Action[j] # "delete" => CommandsOf(Action[j]) = {CommandOf(Action[j])}
  BY <1>1, CommandTells
<1> QED
  BY <1>1, <1>2, <1>3, <1>4 DEF The

-----------------------------------------------------------------------------
(* The runners and the host commands. *)

AllPlaces == {"begin"} \cup PointPlaces \cup {Steps[n] : n \in DOMAIN Steps} \cup KeyPlaces

RunnerTypes ==
  /\ requests \in Requests
  /\ project \in BOOLEAN /\ files \in BOOLEAN
  /\ job \in [Jobs -> {"absent", "queued", "running"} \cup JobFinal]
  /\ pc \in [Jobs -> Resting \cup AllPlaces]
  /\ queue \in Seq(Jobs)
  /\ command \in [Intents -> Host!Status]
  /\ api \in {"up", "down", "recovering"}
  /\ restarted \in BOOLEAN
  /\ troubles \in 0 .. MaxTroubles[requests]

\* One runner works on the project at a time, and one host command runs.
OneWorks == \A j, k \in Working : j = k
OneRuns  == \A i, k \in Intents : command[i] = "running" /\ command[k] = "running" => i = k

\* Whatever is queued, worked on or submitted belongs to a job that was accepted.
JobsAreKnown ==
  /\ \A j \in Jobs : pc[j] # "none" => job[j] # "absent"
  /\ \A i \in Intents : command[i] # "absent" => job[i[1]] # "absent"
  /\ \A n \in DOMAIN queue : job[queue[n]] # "absent"

RunnerInv == RunnerTypes /\ OneWorks /\ OneRuns /\ JobsAreKnown

\* A step of the coroutine of j, whatever else it does.
RunnerWorks(j) ==
  /\ pc[j] \notin {"none", "waiting"}
  /\ \/ pc' = pc
     \/ Goto(j, "none")
     \/ pc[j] \notin Resting /\ \E place \in AllPlaces : Goto(j, place)
  /\ job' = job \/ \E status \in {"running"} \cup JobFinal : Settle(j, status)
  /\ \/ command' = command
     \/ \E i \in Intents : /\ i[1] = j /\ command[i] # "running"
                           /\ command' = [command EXCEPT ![i] = "queued"]
  /\ troubles' = troubles \/ Trouble
  /\ project' \in BOOLEAN
  /\ UNCHANGED <<requests, files, queue, api, restarted>>

\* A step of the host, or of the waiter of an intent.
HostWorks ==
  /\ \/ command' = command
     \/ \E i \in Intents : /\ command[i] = "queued"
                           /\ \A k \in Intents : command[k] # "running"
                           /\ command' = [command EXCEPT ![i] = "running"]
     \/ \E i \in Intents, status \in Host!Final :
          /\ command[i] \in {"queued", "running"}
          /\ command' = [command EXCEPT ![i] = status]
  /\ files' \in {files, FALSE}
  /\ troubles' = troubles \/ Trouble
  /\ UNCHANGED <<requests, project, job, pc, queue, api, restarted>>

\* The bound on troubles is a number.
LEMMA TroubleIsBounded ==
  ASSUME RunnerTypes, requests' = requests, troubles' = troubles \/ Trouble
  PROVE  troubles' \in 0 .. MaxTroubles'[requests'] /\ troubles' \in 0 .. MaxTroubles[requests]
  BY RunnerAssumption DEF RunnerTypes, Trouble

\* A step of a coroutine keeps what the runners have in common.
LEMMA RunnerWorkKept ==
  ASSUME RunnerInv, NEW j \in Jobs, RunnerWorks(j)
  PROVE  RunnerInv'
<1> USE DEF RunnerInv
<1>1. troubles' \in 0 .. MaxTroubles[requests]
  BY TroubleIsBounded DEF RunnerWorks
<1>2. /\ job' \in [Jobs -> {"absent", "queued", "running"} \cup JobFinal]
      /\ \A k \in Jobs : job[k] # "absent" => job'[k] # "absent"
  BY DEF RunnerWorks, Settle, RunnerTypes, JobFinal
<1>3. /\ pc' \in [Jobs -> Resting \cup AllPlaces]
      /\ \A k \in Jobs \ {j} : pc'[k] = pc[k]
      /\ pc[j] \in Resting => pc'[j] \in Resting
  BY DEF RunnerWorks, Goto, RunnerTypes, Resting
<1>4. /\ command' \in [Intents -> Host!Status]
      /\ \A i \in Intents : command'[i] = "running" => command[i] = "running"
      /\ \A i \in Intents : command'[i] # "absent" => command[i] # "absent" \/ i[1] = j
  BY DEF RunnerWorks, RunnerTypes, Host!Status, Host!Final
<1>5. RunnerTypes'
  BY <1>1, <1>2, <1>3, <1>4 DEF RunnerWorks, RunnerTypes
<1>6. OneWorks'
  <2>1. Working' \subseteq Working
    BY <1>3 DEF Working
  <2> QED
    BY <2>1 DEF OneWorks
<1>7. OneRuns'
  BY <1>4 DEF OneRuns
<1>8. JobsAreKnown'
  <2>1. job[j] # "absent"
    BY DEF RunnerWorks, JobsAreKnown
  <2>2. \A k \in Jobs : pc'[k] # "none" => job'[k] # "absent"
    BY <1>2, <1>3, <2>1 DEF JobsAreKnown
  <2>3. \A i \in Intents : command'[i] # "absent" => job'[i[1]] # "absent"
    BY <1>2, <1>4, <2>1, IntentsTell DEF JobsAreKnown
  <2>4. \A n \in DOMAIN queue : queue[n] \in Jobs
    BY DEF RunnerTypes
  <2>5. \A n \in DOMAIN queue' : job'[queue'[n]] # "absent"
    BY <1>2, <2>4 DEF JobsAreKnown, RunnerWorks
  <2> QED
    BY <2>2, <2>3, <2>5 DEF JobsAreKnown
<1> QED
  BY <1>5, <1>6, <1>7, <1>8

\* The host keeps one intent running.
LEMMA HostWorkKept ==
  ASSUME RunnerInv, HostWorks
  PROVE  RunnerInv'
<1> USE DEF RunnerInv
<1>1. troubles' \in 0 .. MaxTroubles[requests]
  BY TroubleIsBounded DEF HostWorks
<1>2. /\ command' \in [Intents -> Host!Status]
      /\ \A i \in Intents : command'[i] # "absent" => command[i] # "absent"
  BY DEF HostWorks, RunnerTypes, Host!Status, Host!Final
<1>3. RunnerTypes'
  BY <1>1, <1>2 DEF HostWorks, RunnerTypes
<1>4. OneWorks'
  BY DEF OneWorks, HostWorks, Working
<1>5. OneRuns'
  BY DEF OneRuns, HostWorks, RunnerTypes, Host!Final
<1>6. JobsAreKnown'
  BY <1>2 DEF JobsAreKnown, HostWorks
<1> QED
  BY <1>3, <1>4, <1>5, <1>6

\* The five ways of the host to change an intent.
LEMMA HostChanges ==
  ASSUME RunnerTypes, NEW i \in Intents
  PROVE  /\ Host!Accept(i) => command[i] = "absent" /\ command' = [command EXCEPT ![i] = "queued"]
         /\ Host!Begin(i) => /\ command[i] = "queued"
                             /\ \A k \in Intents : command[k] # "running"
                             /\ command' = [command EXCEPT ![i] = "running"]
         /\ Host!Withdraw(i) => command[i] = "queued" /\ command' = [command EXCEPT ![i] = "cancelled"]
         /\ Host!Succeed(i) => command[i] = "running" /\ command' = [command EXCEPT ![i] = "done"]
         /\ Host!Fail({i}) => command[i] = "running" /\ command' = [command EXCEPT ![i] = "failed"]
<1>1. Host!Fail({i}) => command[i] = "running" /\ command' = [command EXCEPT ![i] = "failed"]
  BY DEF RunnerTypes, Host!Fail
<1>2. \A k \in Intents : Host!Overlap(i, k)
  BY DEF Host!Overlap, IntentResources
<1> QED
  BY <1>1, <1>2 DEF Host!Accept, Host!Begin, Host!Withdraw, Host!Succeed

\* What a host handler does is a step of the host.
LEMMA HandlerWorks ==
  ASSUME RunnerInv, NEW i \in Intents, Host!Succeed(i) \/ Host!Fail({i}),
         files' \in {files, FALSE}, troubles' = troubles \/ Trouble,
         UNCHANGED <<requests, project, job, pc, queue, api, restarted>>
  PROVE  HostWorks
  BY HostChanges DEF RunnerInv, HostWorks, Host!Final

\* The endpoint's transaction.
LEMMA AcceptKept ==
  ASSUME RunnerInv, NEW j \in Jobs, AcceptJob(j)
  PROVE  RunnerInv'
<1> USE DEF RunnerInv, AcceptJob, still
<1>1. /\ job' = [job EXCEPT ![j] = "queued"] /\ pc' = [pc EXCEPT ![j] = "accepted"]
      /\ UNCHANGED <<requests, project, files, queue, command, api, restarted, troubles>>
  BY DEF Settle, Goto
<1>2. RunnerTypes'
  BY <1>1 DEF RunnerTypes, Resting
<1>3. Working' \subseteq Working
  BY <1>1 DEF Working, RunnerTypes, Resting
<1>4. OneWorks' /\ OneRuns'
  BY <1>1, <1>3 DEF OneWorks, OneRuns
<1>5. JobsAreKnown'
  <2>1. \A k \in Jobs : job[k] # "absent" => job'[k] # "absent"
    BY <1>1 DEF RunnerTypes
  <2>2. \A n \in DOMAIN queue : queue[n] \in Jobs
    BY DEF RunnerTypes
  <2>3. \A k \in Jobs : pc'[k] # "none" => job'[k] # "absent"
    BY <1>1 DEF RunnerTypes, JobsAreKnown
  <2>4. \A i \in Intents : command'[i] # "absent" => job'[i[1]] # "absent"
    BY <1>1, <2>1, IntentsTell DEF JobsAreKnown
  <2>5. \A n \in DOMAIN queue' : job'[queue'[n]] # "absent"
    BY <1>1, <2>1, <2>2 DEF JobsAreKnown
  <2> QED
    BY <2>3, <2>4, <2>5 DEF JobsAreKnown
<1> QED
  BY <1>2, <1>4, <1>5

\* The queue, the worker, and a restart.
LEMMA QueueKept ==
  ASSUME RunnerInv, Runner
  PROVE  RunnerInv'
<1> USE DEF RunnerInv, still
<1>0. \A n \in DOMAIN queue : queue[n] \in Jobs
  BY DEF RunnerTypes
<1>a. requests \subseteq Jobs
  BY RunnerAssumption DEF RunnerTypes
<1>b. (troubles' = troubles \/ Trouble) /\ UNCHANGED requests => troubles' \in 0 .. MaxTroubles[requests]
  BY TroubleIsBounded
<1>1. ASSUME NEW j \in Jobs, Enqueue(j) PROVE RunnerInv'
  <2>1. /\ pc' = [pc EXCEPT ![j] = "waiting"] /\ queue' = Append(queue, j) /\ pc[j] = "accepted"
        /\ UNCHANGED <<requests, project, files, job, command, api, restarted, troubles>>
    BY <1>1 DEF Enqueue, Goto
  <2>2. queue' \in Seq(Jobs) /\ \A n \in DOMAIN queue' : queue'[n] = j \/ (n \in DOMAIN queue /\ queue'[n] = queue[n])
    <3>1. /\ queue' \in Seq(Jobs) /\ Len(queue') = Len(queue) + 1 /\ Len(queue) \in Nat
          /\ \A n \in 1 .. Len(queue) : queue'[n] = queue[n]
          /\ queue'[Len(queue) + 1] = j
      BY <2>1, AppendProperties DEF RunnerTypes
    <3>2. DOMAIN queue = 1 .. Len(queue) /\ DOMAIN queue' = 1 .. Len(queue')
      BY <3>1 DEF RunnerTypes
    <3>3. ASSUME NEW n \in DOMAIN queue'
          PROVE  queue'[n] = j \/ (n \in DOMAIN queue /\ queue'[n] = queue[n])
      <4>1. n \in 1 .. Len(queue) \/ n = Len(queue) + 1
        BY <3>1, <3>2
      <4> QED
        BY <3>1, <3>2, <4>1
    <3> QED
      BY <3>1, <3>3
  <2>3. RunnerTypes'
    BY <2>1, <2>2 DEF RunnerTypes, Resting
  <2>4. Working' \subseteq Working
    BY <2>1 DEF Working, RunnerTypes, Resting
  <2>5. OneWorks' /\ OneRuns'
    BY <2>1, <2>4 DEF OneWorks, OneRuns
  <2>6. job[j] # "absent"
    BY <2>1 DEF JobsAreKnown
  <2>7. JobsAreKnown'
    BY <2>1, <2>2, <2>6 DEF JobsAreKnown, RunnerTypes
  <2> QED
    BY <2>3, <2>5, <2>7
<1>2. ASSUME NEW j \in Jobs, EnqueueFails(j) PROVE RunnerInv'
  <2>1. /\ \E place \in {"compensate", "none"} : pc' = [pc EXCEPT ![j] = place]
        /\ job' = [job EXCEPT ![j] = "failed"] /\ pc[j] = "accepted"
        /\ UNCHANGED <<requests, project, files, queue, command, api, restarted>>
        /\ troubles' = troubles \/ Trouble
    BY <1>2 DEF EnqueueFails, Settle, Goto
  <2>2. /\ job' \in [Jobs -> {"absent", "queued", "running"} \cup JobFinal]
        /\ \A k \in Jobs : job[k] # "absent" => job'[k] # "absent"
    BY <2>1 DEF RunnerTypes, JobFinal
  <2>3. /\ pc' \in [Jobs -> Resting \cup AllPlaces]
        /\ \A k \in Jobs : pc'[k] = pc[k] \/ (pc'[k] \in Resting /\ k = j)
    <3>1. {"accepted", "compensate", "none"} \subseteq Resting
      BY DEF Resting
    <3>2. pc \in [Jobs -> Resting \cup AllPlaces]
      BY DEF RunnerTypes
    <3>3. ASSUME NEW place \in Resting, pc' = [pc EXCEPT ![j] = place]
          PROVE  /\ pc' \in [Jobs -> Resting \cup AllPlaces]
                 /\ \A k \in Jobs : pc'[k] = pc[k] \/ (pc'[k] \in Resting /\ k = j)
      BY <3>2, <3>3
    <3> QED
      BY <2>1, <3>1, <3>2, <3>3
  <2>4. RunnerTypes'
    BY <1>b, <2>1, <2>2, <2>3 DEF RunnerTypes
  <2>5. Working' \subseteq Working
    BY <2>3 DEF Working
  <2>6. OneWorks' /\ OneRuns'
    BY <2>1, <2>5 DEF OneWorks, OneRuns
  <2>7. \A k \in Jobs : pc'[k] # "none" => job'[k] # "absent"
    BY <2>1, <2>2, <2>3 DEF JobsAreKnown, RunnerTypes
  <2>8. \A i \in Intents : command'[i] # "absent" => job'[i[1]] # "absent"
    BY <2>1, <2>2, IntentsTell DEF JobsAreKnown
  <2>9. \A n \in DOMAIN queue' : job'[queue'[n]] # "absent"
    BY <1>0, <2>1, <2>2 DEF JobsAreKnown
  <2> QED
    BY <2>4, <2>6, <2>7, <2>8, <2>9 DEF JobsAreKnown
<1>3. ASSUME NEW j \in Jobs, TakeJob(j) PROVE RunnerInv'
  <2>1. /\ pc' = [pc EXCEPT ![j] = "begin"] /\ queue # <<>> /\ j = queue[1] /\ queue' = Tail(queue)
        /\ Working = {}
        /\ UNCHANGED <<requests, project, files, job, command, api, restarted, troubles>>
    BY <1>3 DEF TakeJob, Goto, WorkerFree, RunnerTypes
  <2>2. /\ queue' \in Seq(Jobs) /\ 1 \in DOMAIN queue
        /\ \A n \in DOMAIN queue' : n + 1 \in DOMAIN queue /\ queue'[n] = queue[n + 1]
    BY <2>1 DEF RunnerTypes
  <2>3. RunnerTypes'
    BY <2>1, <2>2 DEF RunnerTypes, AllPlaces
  <2>4. Working' \subseteq {j}
    BY <2>1 DEF Working, RunnerTypes
  <2>5. OneWorks' /\ OneRuns'
    BY <2>1, <2>4 DEF OneWorks, OneRuns
  <2>6. job[j] # "absent"
    BY <2>1, <2>2 DEF JobsAreKnown
  <2>7. \A k \in Jobs : pc'[k] # "none" => job'[k] # "absent"
    BY <2>1, <2>6 DEF JobsAreKnown, RunnerTypes
  <2>8. JobsAreKnown'
    BY <2>1, <2>2, <2>7 DEF JobsAreKnown
  <2> QED
    BY <2>3, <2>5, <2>8
<1>4. ASSUME NEW j \in Jobs, RecoverJob(j) PROVE RunnerInv'
  <2>1. /\ \/ job' = [job EXCEPT ![j] = "queued"] /\ pc' = [pc EXCEPT ![j] = "accepted"]
           \/ job' = [job EXCEPT ![j] = "failed"] /\ pc' = pc
        /\ pc[j] = "none"
        /\ UNCHANGED <<requests, project, files, queue, command, api, restarted, troubles>>
    BY <1>4 DEF RecoverJob, Settle, Goto, Unrecovered
  <2>2. /\ job' \in [Jobs -> {"absent", "queued", "running"} \cup JobFinal]
        /\ \A k \in Jobs : job[k] # "absent" \/ k = j => job'[k] # "absent"
    BY <2>1 DEF RunnerTypes, JobFinal
  <2>3. /\ pc' \in [Jobs -> Resting \cup AllPlaces]
        /\ \A k \in Jobs : pc'[k] = pc[k] \/ (pc'[k] \in Resting /\ k = j)
    <3>1. {"accepted", "compensate", "none"} \subseteq Resting
      BY DEF Resting
    <3>2. pc \in [Jobs -> Resting \cup AllPlaces]
      BY DEF RunnerTypes
    <3>3. ASSUME NEW place \in Resting, pc' = [pc EXCEPT ![j] = place]
          PROVE  /\ pc' \in [Jobs -> Resting \cup AllPlaces]
                 /\ \A k \in Jobs : pc'[k] = pc[k] \/ (pc'[k] \in Resting /\ k = j)
      BY <3>2, <3>3
    <3> QED
      BY <2>1, <3>1, <3>2, <3>3
  <2>4. RunnerTypes'
    BY <2>1, <2>2, <2>3 DEF RunnerTypes
  <2>5. Working' \subseteq Working
    BY <2>3 DEF Working
  <2>6. OneWorks' /\ OneRuns'
    BY <2>1, <2>5 DEF OneWorks, OneRuns
  <2>7. \A k \in Jobs : pc'[k] # "none" => job'[k] # "absent"
    BY <2>2, <2>3 DEF JobsAreKnown
  <2>8. \A i \in Intents : command'[i] # "absent" => job'[i[1]] # "absent"
    BY <2>1, <2>2, IntentsTell DEF JobsAreKnown
  <2>9. \A n \in DOMAIN queue' : job'[queue'[n]] # "absent"
    BY <1>0, <2>1, <2>2 DEF JobsAreKnown
  <2> QED
    BY <2>4, <2>6, <2>7, <2>8, <2>9 DEF JobsAreKnown
<1>5. ASSUME NEW i \in Intents, HostBegins(i) \/ WithdrawIntent(i) PROVE RunnerInv'
  <2>1. HostWorks
    BY <1>5, HostChanges DEF HostBegins, WithdrawIntent, HostWorks, Host!Final, RunnerTypes
  <2> QED
    BY <2>1, HostWorkKept
<1>6. ASSUME ApiStops PROVE RunnerInv'
  <2>1. /\ pc' = [j \in Jobs |-> "none"] /\ queue' = <<>> /\ api' = "down" /\ restarted' = TRUE
        /\ UNCHANGED <<requests, project, files, job, command>>
        /\ troubles' \in 0 .. MaxTroubles[requests]
    BY <1>6, <1>b DEF ApiStops
  <2>2. RunnerTypes'
    BY <2>1 DEF RunnerTypes, Resting
  <2>3. Working' = {}
    BY <2>1 DEF Working, Resting
  <2>4. OneWorks' /\ OneRuns'
    BY <2>1, <2>3 DEF OneWorks, OneRuns
  <2>5. JobsAreKnown'
    BY <2>1 DEF JobsAreKnown
  <2> QED
    BY <2>2, <2>4, <2>5
<1>7. ASSUME ApiStarts \/ Serve PROVE RunnerInv'
  <2>1. /\ api' \in {"up", "recovering"}
        /\ UNCHANGED <<requests, project, files, job, pc, queue, command, restarted, troubles>>
    BY <1>7 DEF ApiStarts, Serve
  <2>2. RunnerTypes'
    BY <2>1 DEF RunnerTypes
  <2>3. OneWorks' /\ OneRuns' /\ JobsAreKnown'
    BY <2>1 DEF OneWorks, OneRuns, JobsAreKnown, Working
  <2> QED
    BY <2>2, <2>3
<1> QED
  BY <1>a, <1>1, <1>2, <1>3, <1>4, <1>5, <1>6, <1>7 DEF Runner

\* A step of an operation, as the runners and the host see it.
OperationActs(j) == RunnerWorks(j) \/ HostWorks \/ AcceptJob(j)

\* The intent of a job is submitted once.
LEMMA AttachSubmits ==
  ASSUME RunnerInv, NEW j \in Jobs, Action[j] # "delete", AttachIntent(The(j))
  PROVE  \/ command' = command
         \/ \E i \in Intents : /\ i[1] = j /\ command[i] # "running"
                               /\ command' = [command EXCEPT ![i] = "queued"]
<1>1. The(j) \in Intents /\ The(j)[1] = j
  BY IntentsTell DEF The
<1> QED
  BY <1>1, HostChanges DEF AttachIntent, RunnerInv

\* A command that runs is its job's, and tells what the job does.
LEMMA RunningTells ==
  ASSUME NEW j \in Jobs, NEW c, Running(j, c)
  PROVE  /\ <<j, c>> \in Intents /\ command[<<j, c>>] = "running"
         /\ c = "backup_project" => Action[j] = "backup" /\ The(j) = <<j, c>>
         /\ c = "restore_project" => Action[j] = "restore" /\ The(j) = <<j, c>>
         /\ c = "delete_restore_point" => Action[j] = "delete_restore_point" /\ The(j) = <<j, c>>
         /\ c \in HostSteps => Action[j] = "delete"
<1>1. <<j, c>> \in Intents /\ command[<<j, c>>] = "running"
  BY DEF Running
<1>2. c \in CommandsOf(Action[j]) /\ Action[j] \in Actions
  BY <1>1, IntentsTell
<1>3. HostSteps = {"delete_project_containers", "delete_project_storage", "delete_project_files"}
  BY DEF HostSteps, CommandsOf
<1>4. CASE Action[j] = "delete"
  BY <1>1, <1>2, <1>3, <1>4 DEF HostSteps
<1>5. CASE Action[j] # "delete"
  <2>1. c = CommandOf(Action[j]) /\ c \notin HostSteps
    BY <1>2, <1>5, CommandTells
  <2>2. /\ c = "backup_project" => Action[j] = "backup"
        /\ c = "restore_project" => Action[j] = "restore"
        /\ c = "delete_restore_point" => Action[j] = "delete_restore_point"
    BY <1>2, <1>5, <2>1 DEF CommandOf, Actions
  <2> QED
    BY <1>1, <2>1, <2>2 DEF The
<1> QED
  BY <1>4, <1>5

\* The jobs on restore points.
LEMMA DataActs ==
  ASSUME RunnerInv, NEW j \in Jobs, Data(j)
  PROVE  OperationActs(j)
<1> USE DEF RunnerInv, OperationActs, still
<1>0. /\ RunnerTypes
      /\ PointPlaces \subseteq AllPlaces /\ {"wait", "settle", "finish", "except", "fail"} = PointPlaces
      /\ project \in BOOLEAN /\ files \in BOOLEAN
  BY DEF RunnerTypes, AllPlaces, PointPlaces
<1>1. CASE AcceptBackup(j) \/ AcceptRestore(j) \/ AcceptDeletePoint(j)
  BY <1>1 DEF AcceptBackup, AcceptRestore, AcceptDeletePoint
<1>2. CASE RunnerBegins(j)
  <2>1. Action[j] # "delete"
    BY <1>2 DEF RunnerBegins, PointJobs
  <2> QED
    BY <1>0, <1>2, <2>1, AttachSubmits DEF RunnerBegins, RunnerWorks, Resting
<1>3. CASE \/ CompensateRows(j) \/ SettleRows(j) \/ SettleSafety(j) \/ SettleTarget(j) \/ ExceptRows(j)
           \/ RunnerRaises(j)
  BY <1>0, <1>3 DEF CompensateRows, SettleRows, SettleSafety, SettleTarget, ExceptRows, RunnerRaises,
     RunnerWorks, Resting
<1>4. CASE FinishJob(j) \/ FailJob(j)
  BY <1>0, <1>4 DEF FinishJob, FailJob, RunnerWorks, Resting, JobFinal
<1>5. CASE BackupDone(j) \/ DeletePointDone(j)
  <2>1. The(j) \in Intents /\ Host!Succeed(The(j))
    BY <1>5, RunningTells DEF BackupDone, DeletePointDone
  <2> QED
    BY <1>0, <1>5, <2>1, HandlerWorks DEF BackupDone, DeletePointDone
<1>6. CASE RestoreSaves(j) \/ RestoreSwaps(j)
  BY <1>0, <1>6 DEF RestoreSaves, RestoreSwaps, runnerVars, HostWorks
<1> QED
  BY <1>1, <1>2, <1>3, <1>4, <1>5, <1>6 DEF Data

\* A handler that ends, or is lost, is a step of the host.
LEMMA LostWorks ==
  ASSUME RunnerInv, NEW i \in Intents, HostLost(i), files' \in {files, FALSE}
  PROVE  HostWorks /\ command[i] = "running" /\ command' = [command EXCEPT ![i] = "failed"]
<1>1. command[i] = "running" /\ command' = [command EXCEPT ![i] = "failed"]
  BY HostChanges DEF HostLost, RunnerInv
<1> QED
  BY <1>1, HandlerWorks DEF HostLost

\* The scripts of backups, restores and deletions of points.
LEMMA RestoreScriptActs ==
  ASSUME RunnerInv, NEW j \in Jobs, RestoreScript(j)
  PROVE  HostWorks
<1> USE DEF RunnerInv, still
<1>0. RunnerTypes /\ project \in BOOLEAN /\ files \in BOOLEAN
  BY DEF RunnerTypes
<1>1. CASE RestoreStops(j)
  BY <1>0, <1>1 DEF RestoreStops, runnerVars, HostWorks
<1>2. CASE RestoreDone(j)
  <2>1. The(j) \in Intents
    BY <1>2, RunningTells DEF RestoreDone
  <2> QED
    BY <1>0, <1>2, <2>1, HandlerWorks DEF RestoreDone
<1>3. CASE RestoreRefused(j) \/ RestoreFails(j)
  <2>1. The(j) \in Intents
    BY <1>3, RunningTells DEF RestoreRefused, RestoreFails
  <2> QED
    BY <1>0, <1>3, <2>1, HandlerWorks DEF RestoreRefused, RestoreFails
<1>4. CASE PointScriptFails(j)
  <2>1. The(j) \in Intents
    BY <1>4, RunningTells DEF PointScriptFails
  <2> QED
    BY <1>0, <1>4, <2>1, HandlerWorks DEF PointScriptFails
<1>5. CASE PointHandlerLost(j)
  <2>1. The(j) \in Intents
    BY <1>5, IntentsTell DEF PointHandlerLost, PointJobs
  <2> QED
    BY <1>0, <1>5, <2>1, LostWorks DEF PointHandlerLost
<1> QED
  BY <1>1, <1>2, <1>3, <1>4, <1>5 DEF RestoreScript

\* The eight steps of a deletion follow one another.
LEMMA StepsFollow ==
  ASSUME NEW j \in Jobs, NEW n \in 1 .. 8, pc[j] = Steps[n]
  PROVE  /\ DOMAIN Steps = 1 .. 8
         /\ StepOf(j) = n
         /\ n < 8 => Onward(j) <=> Goto(j, Steps[n + 1])
<1>1. DOMAIN Steps = 1 .. 8
  BY DEF Steps
<1>2. \A m \in 1 .. 8 : Steps[m] = Steps[n] => m = n
  BY DEF Steps
<1>3. StepOf(j) = n
  BY <1>1, <1>2 DEF StepOf
<1> QED
  BY <1>1, <1>3 DEF Onward

\* Every place of a deletion but the last is followed by a place.
LEMMA OnwardPlace ==
  ASSUME NEW j \in Jobs, pc[j] \in (HostSteps \cup Holdings \cup {"row"}), Onward(j)
  PROVE  pc[j] \notin Resting /\ \E place \in AllPlaces : Goto(j, place)
<1>1. HostSteps = {"delete_project_containers", "delete_project_storage", "delete_project_files"}
  BY DEF HostSteps, CommandsOf
<1>2. PICK n \in 1 .. 7 : pc[j] = Steps[n]
  BY <1>1 DEF Holdings, Steps
<1>3. Goto(j, Steps[n + 1]) /\ n + 1 \in DOMAIN Steps
  BY <1>2, StepsFollow
<1>4. pc[j] \notin Resting
  BY <1>1 DEF Holdings, Resting
<1> QED
  BY <1>3, <1>4 DEF AllPlaces

\* The deletion of the project.
LEMMA DeletionActs ==
  ASSUME RunnerInv, NEW j \in Jobs, Deletion(j)
  PROVE  OperationActs(j)
<1> USE DEF RunnerInv, OperationActs, still
<1>0. /\ RunnerTypes /\ project \in BOOLEAN /\ files \in BOOLEAN
      /\ "fail" \in AllPlaces /\ Steps[1] \in AllPlaces /\ Steps[8] \in AllPlaces
      /\ HostSteps = {"delete_project_containers", "delete_project_storage", "delete_project_files"}
  <2>1. DOMAIN Steps = 1 .. 8
    BY DEF Steps
  <2> QED
    BY <2>1 DEF RunnerTypes, AllPlaces, PointPlaces, HostSteps, CommandsOf
<1>1. CASE AcceptDeletion(j)
  BY <1>1 DEF AcceptDeletion
<1>2. CASE DeletionNotQueued(j) \/ DeletionBegins(j) \/ DeletionFails(j)
  BY <1>0, <1>2 DEF DeletionNotQueued, DeletionBegins, DeletionFails, RunnerWorks, Resting, JobFinal
<1>3. CASE DeletionSubmits(j)
  <2>1. <<j, pc[j]>> \in Intents /\ <<j, pc[j]>>[1] = j
    BY <1>3, IntentsTell DEF DeletionSubmits, Deletions, HostSteps
  <2>2. pc[j] # "none"
    BY <1>0, <1>3 DEF DeletionSubmits
  <2> QED
    BY <1>0, <1>3, <2>1, <2>2, HostChanges DEF DeletionSubmits, RunnerWorks
<1>4. CASE DeletionNotes(j)
  <2>1. pc[j] \notin Resting /\ \E place \in AllPlaces : Goto(j, place)
    BY <1>4, OnwardPlace DEF DeletionNotes
  <2> QED
    BY <1>0, <1>4, <2>1 DEF DeletionNotes, RunnerWorks, Resting
<1>5. CASE DeletionCleans(j)
  <2>1. pc[j] \notin Resting /\ \E place \in AllPlaces : Goto(j, place)
    BY <1>5, OnwardPlace DEF DeletionCleans
  <2> QED
    BY <1>0, <1>5, <2>1 DEF DeletionCleans, RunnerWorks, Resting
<1>6. CASE DeletionRemovesRow(j)
  <2>1. Onward(j) => pc[j] \notin Resting /\ \E place \in AllPlaces : Goto(j, place)
    BY <1>6, OnwardPlace DEF DeletionRemovesRow
  <2> QED
    BY <1>0, <1>6, <2>1 DEF DeletionRemovesRow, RunnerWorks, Resting
<1>7. CASE DeletionVerifies(j)
  BY <1>0, <1>7 DEF DeletionVerifies, RunnerWorks, Resting, JobFinal
<1>8. CASE DeletionRaises(j)
  BY <1>0, <1>8 DEF DeletionRaises, RunnerWorks, Resting
<1> QED
  BY <1>1, <1>2, <1>3, <1>4, <1>5, <1>6, <1>7, <1>8 DEF Deletion

\* The three handlers of a deletion.
LEMMA DeleteScriptActs ==
  ASSUME RunnerInv, NEW j \in Jobs, NEW c \in HostSteps, DeleteScript(j, c)
  PROVE  HostWorks
<1> USE DEF RunnerInv
<1>0. RunnerTypes /\ files \in BOOLEAN
  BY DEF RunnerTypes
<1>1. CASE DeleteHostDone(j, c)
  <2>1. <<j, c>> \in Intents /\ files' \in {files, FALSE}
    BY <1>0, <1>1, RunningTells DEF DeleteHostDone
  <2> QED
    BY <1>0, <1>1, <2>1, HandlerWorks DEF DeleteHostDone
<1>2. CASE DeleteHostFails(j, c)
  <2>1. <<j, c>> \in Intents /\ files' \in {files, FALSE}
    BY <1>0, <1>2, RunningTells DEF DeleteHostFails, MayHaveRun
  <2> QED
    BY <1>0, <1>2, <2>1, HandlerWorks DEF DeleteHostFails
<1>3. CASE DeleteHostLost(j, c)
  <2>1. <<j, c>> \in Intents /\ files' \in {files, FALSE}
    BY <1>0, <1>3 DEF DeleteHostLost, MayHaveRun
  <2> QED
    BY <1>3, <2>1, LostWorks DEF DeleteHostLost
<1> QED
  BY <1>1, <1>2, <1>3 DEF DeleteScript

\* The jobs on containers.
LEMMA LifecycleActs ==
  ASSUME RunnerInv, NEW j \in Jobs, Lifecycle(j)
  PROVE  OperationActs(j)
<1> USE DEF RunnerInv, OperationActs, still
<1>0. /\ RunnerTypes /\ project \in BOOLEAN /\ files \in BOOLEAN
      /\ {"wait", "finish"} \subseteq AllPlaces
  BY DEF RunnerTypes, AllPlaces, PointPlaces
<1>a. j \in LifecycleJobs => The(j) \in Intents /\ The(j)[1] = j
  BY IntentsTell DEF LifecycleJobs, LifecycleActions, The
<1>1. CASE AcceptLifecycle(j)
  BY <1>1 DEF AcceptLifecycle
<1>2. CASE AnswerLifecycle(j)
  BY <1>0, <1>2 DEF AnswerLifecycle, runnerVars, HostWorks
<1>3. CASE LifecycleNotQueued(j) \/ RecreationEnds(j) \/ LifecycleRaises(j)
  BY <1>0, <1>3 DEF LifecycleNotQueued, RecreationEnds, LifecycleRaises, RunnerWorks, JobFinal
<1>4. CASE LifecycleBegins(j)
  BY <1>0, <1>a, <1>4 DEF LifecycleBegins, RunnerWorks, Resting
<1>5. CASE LifecycleEnds(j)
  BY <1>0, <1>5 DEF LifecycleEnds, RunnerWorks, Resting, JobFinal
<1>6. CASE LifecycleDone(j)
  BY <1>0, <1>a, <1>6, HandlerWorks DEF LifecycleDone
<1>7. CASE LifecycleFails(j)
  BY <1>0, <1>a, <1>7, HandlerWorks DEF LifecycleFails
<1>8. CASE LifecycleLost(j)
  BY <1>0, <1>a, <1>8, LostWorks DEF LifecycleLost
<1> QED
  BY <1>1, <1>2, <1>3, <1>4, <1>5, <1>6, <1>7, <1>8 DEF Lifecycle

\* A rotation's script runs for a rotation; a recovery by hand only goes back.
HolderRotates == step \in Forward \cup {"last_stop"} => holder \in Rotations

\* The rotation of the reference.
LEMMA RotationActs ==
  ASSUME RunnerInv, NEW j \in Jobs, Rotation(j)
  PROVE  OperationActs(j)
<1> USE DEF RunnerInv, OperationActs, still
<1>0. /\ RunnerTypes /\ project \in BOOLEAN /\ files \in BOOLEAN
      /\ {"wait", "fail"} \subseteq AllPlaces
  BY DEF RunnerTypes, AllPlaces, PointPlaces
<1>a. j \in Rotations => The(j) \in Intents /\ The(j)[1] = j /\ Action[j] # "delete"
  BY IntentsTell DEF Rotations, The
<1>1. CASE AcceptRotation(j)
  BY <1>1 DEF AcceptRotation
<1>2. CASE CompensateRotation(j) \/ RotationRaises(j) \/ RotationFails(j)
  BY <1>0, <1>2 DEF CompensateRotation, RotationRaises, RotationFails, RunnerWorks, Resting, JobFinal
<1>3. CASE RotationBegins(j)
  <2>1. CASE history[j] \in HistoryFinal
    BY <1>0, <1>3, <2>1 DEF RotationBegins, RunnerWorks, JobFinal
  <2>2. CASE history[j] \notin HistoryFinal
    <3>1. \/ command' = command
          \/ \E i \in Intents : /\ i[1] = j /\ command[i] # "running"
                                /\ command' = [command EXCEPT ![i] = "queued"]
      BY <1>a, <1>3, <2>2, AttachSubmits DEF RotationBegins
    <3> QED
      BY <1>0, <1>3, <2>2, <3>1 DEF RotationBegins, RunnerWorks, Resting
  <2> QED
    BY <2>1, <2>2
<1>4. CASE RotationConfirms(j)
  BY <1>0, <1>4 DEF RotationConfirms, RunnerWorks, Resting, JobFinal
<1>5. CASE ScriptBegins(j) \/ Preflight(j) \/ Advance(j)
  BY <1>0, <1>5 DEF ScriptBegins, Preflight, Advance, runnerVars, HostWorks
<1>6. CASE ScriptFails(j)
  <2>1. troubles' = troubles \/ Trouble
    BY <1>6 DEF ScriptFails
  <2>2. command' = command \/ Host!Fail({The(j)})
    BY <1>6 DEF ScriptFails, EndCommand
  <2>3. The(j) \in Intents /\ UNCHANGED <<requests, files, restarted, project, job, pc, queue, api>>
    BY <1>6, <1>a DEF ScriptFails, Held
  <2> QED
    BY <1>0, <2>1, <2>2, <2>3, HandlerWorks DEF HostWorks
<1>7. CASE ScriptDone(j)
  BY <1>0, <1>a, <1>7, HandlerWorks DEF ScriptDone, Held
<1>8. CASE ScriptKilled(j)
  BY <1>0, <1>a, <1>8, LostWorks DEF ScriptKilled
<1> QED
  BY <1>1, <1>2, <1>3, <1>4, <1>5, <1>6, <1>7, <1>8 DEF Rotation

\* The rest of the rotation's scripts, and the agent that looks at the reference.
LEMMA RotatesActs ==
  ASSUME RunnerInv, HolderRotates, Rotates
  PROVE  HostWorks
<1> USE DEF RunnerInv, still
<1>0. RunnerTypes /\ project \in BOOLEAN /\ files \in BOOLEAN
  BY DEF RunnerTypes
<1>a. \A j \in Rotations \cup LifecycleJobs : The(j) \in Intents
  BY IntentsTell DEF Rotations, LifecycleJobs, LifecycleActions
<1>1. CASE RollBack \/ OperatorRecovers
  BY <1>0, <1>1 DEF RollBack, OperatorRecovers, runnerVars, HostWorks
<1>2. CASE RollBackDone
  <2>1. CASE holder \in Rotations
    BY <1>0, <1>a, <1>2, <2>1, HandlerWorks DEF RollBackDone
  <2>2. CASE holder \notin Rotations
    BY <1>0, <1>2, <2>2 DEF RollBackDone, HostWorks
  <2> QED
    BY <2>1, <2>2
<1>3. CASE RollBackFails
  BY <1>0, <1>3 DEF RollBackFails, HostWorks
<1>4. CASE LastStop
  <2>1. The(holder) \in Intents
    BY <1>a, <1>4 DEF LastStop, HolderRotates
  <2> QED
    BY <1>0, <1>4, <2>1, HandlerWorks DEF LastStop
<1>5. ASSUME NEW j \in Jobs, AdmitRecreation(j) PROVE HostWorks
  BY <1>0, <1>5 DEF AdmitRecreation, runnerVars, HostWorks
<1>6. ASSUME NEW j \in Jobs, RefuseRecreation(j) PROVE HostWorks
  BY <1>0, <1>a, <1>6, HandlerWorks DEF RefuseRecreation
<1> QED
  <2>1. requests \subseteq Jobs
    BY RunnerAssumption DEF RunnerTypes
  <2> QED
    BY <1>1, <1>2, <1>3, <1>4, <1>5, <1>6, <2>1 DEF Rotates

\* The rotation of the keys.
LEMMA KeyRotationActs ==
  ASSUME RunnerInv, NEW j \in Jobs, KeyRotation(j)
  PROVE  OperationActs(j)
<1> USE DEF RunnerInv, OperationActs, still
<1>0. /\ RunnerTypes /\ project \in BOOLEAN /\ files \in BOOLEAN
      /\ KeyPlaces \subseteq AllPlaces
      /\ KeyPlaces = {"wait", "store", "invalidate", "finish", "block", "block_again"}
  BY DEF RunnerTypes, AllPlaces, KeyPlaces
<1>a. j \in KeyJobs => The(j) \in Intents /\ The(j)[1] = j /\ Action[j] # "delete"
  BY IntentsTell DEF KeyJobs, The
<1>1. CASE AcceptManual(j) \/ ScanClaims(j)
  BY <1>1 DEF AcceptManual, ScanClaims
<1>2. CASE KeyRotationNotQueued(j) \/ KeyRotationDone(j) \/ BlockAfterFailure(j)
  BY <1>0, <1>2 DEF KeyRotationNotQueued, KeyRotationDone, BlockAfterFailure, RunnerWorks, Resting, JobFinal
<1>3. CASE KeyRotationBegins(j)
  <2>1. \/ command' = command
        \/ \E i \in Intents : /\ i[1] = j /\ command[i] # "running"
                              /\ command' = [command EXCEPT ![i] = "queued"]
    BY <1>a, <1>3, AttachSubmits DEF KeyRotationBegins
  <2> QED
    BY <1>0, <1>3, <2>1 DEF KeyRotationBegins, RunnerWorks, Resting
<1>4. CASE RotationEnds(j)
  BY <1>0, <1>4 DEF RotationEnds, AfterFailure, RunnerWorks, Resting, JobFinal
<1>5. CASE StoreKeys(j) \/ Invalidate(j)
  BY <1>0, <1>5 DEF StoreKeys, Invalidate, RunnerWorks, Resting
<1>6. CASE KeyRotationRaises(j)
  BY <1>0, <1>6 DEF KeyRotationRaises, AfterFailure, RunnerWorks, Resting, JobFinal
<1>7. CASE BlockFails(j)
  BY <1>0, <1>7 DEF BlockFails, RunnerWorks, Resting
<1>8. CASE KeyScriptBegins(j) \/ KeyScriptStep(j) \/ KeyScriptTurnsBack(j)
  BY <1>0, <1>8 DEF KeyScriptBegins, KeyScriptStep, KeyScriptTurnsBack, runnerVars, HostWorks
<1>9. CASE KeyScriptRefused(j) \/ KeyScriptDone(j) \/ KeyScriptTurnedBack(j) \/ KeyScriptDies(j)
  <2>1. /\ j \in KeyJobs /\ (Host!Succeed(The(j)) \/ Host!Fail({The(j)}))
        /\ troubles' = troubles \/ Trouble
        /\ UNCHANGED <<requests, files, project, job, pc, queue, api, restarted>>
    BY <1>9 DEF KeyScriptRefused, KeyScriptStarts, KeyScriptDone, KeyScriptTurnedBack, KeyScriptDies, AtTurn
  <2> QED
    BY <1>0, <1>a, <2>1, HandlerWorks
<1>10. CASE KeyScriptLost(j)
  BY <1>0, <1>a, <1>10, LostWorks DEF KeyScriptLost
<1> QED
  BY <1>1, <1>2, <1>3, <1>4, <1>5, <1>6, <1>7, <1>8, <1>9, <1>10 DEF KeyRotation

\* Every step is one of the queue and the worker, of a runner, or of the host.
LEMMA NextActs ==
  ASSUME RunnerInv, HolderRotates, [Next]_vars
  PROVE  Runner \/ HostWorks \/ \E j \in Jobs : RunnerWorks(j) \/ AcceptJob(j)
<1>0. /\ requests \subseteq Jobs
      /\ files \in BOOLEAN
  BY RunnerAssumption DEF RunnerInv, RunnerTypes
<1>a. UNCHANGED runnerVars => HostWorks
  BY <1>0 DEF runnerVars, HostWorks
<1>1. ASSUME NEW j \in Jobs, Data(j) \/ Deletion(j) \/ Lifecycle(j) \/ Rotation(j) \/ KeyRotation(j)
      PROVE  OperationActs(j)
  BY <1>1, DataActs, DeletionActs, LifecycleActs, RotationActs, KeyRotationActs
<1>2. ASSUME NEW j \in Jobs, RestoreScript(j) \/ \E c \in HostSteps : DeleteScript(j, c)
      PROVE  HostWorks
  BY <1>2, RestoreScriptActs, DeleteScriptActs
<1>3. Rotates => HostWorks
  BY RotatesActs
<1>4. Write \/ Sync => HostWorks
  BY <1>a DEF Write, Sync
<1>5. Saves => HostWorks
  BY <1>a DEF Saves, ReadEnv, ReplaceEnv, SaveFails
<1>6. Studio \/ ScanReadsExpiry \/ KeysAge \/ (\E on \in BOOLEAN : SetAutomatic(on)) => HostWorks
  BY <1>a DEF Studio, Promote, FetchKey, PublishKey, ScanReadsExpiry, KeysAge, SetAutomatic
<1>7. UNCHANGED vars => HostWorks
  BY <1>a DEF vars
<1> QED
  BY <1>0, <1>1, <1>2, <1>3, <1>4, <1>5, <1>6, <1>7 DEF Next, Operates, OperationActs

\* Every step keeps what all operations have in common.
LEMMA NextRunner ==
  RunnerInv /\ HolderRotates /\ [Next]_vars => RunnerInv'
  BY NextActs, QueueKept, RunnerWorkKept, HostWorkKept, AcceptKept

\* It holds to begin with.
LEMMA InitRunner == Init => RunnerInv
<1> SUFFICES ASSUME Init PROVE RunnerInv
  OBVIOUS
<1>1. RunnerTypes
  <2>1. requests \in Requests /\ troubles \in 0 .. MaxTroubles[requests]
    BY RunnerAssumption DEF Init, RunnerInit
  <2>2. job \in [Jobs -> {"absent", "queued", "running"} \cup JobFinal]
    BY DEF Init, RunnerInit
  <2>3. "none" \in Resting \cup AllPlaces
    BY DEF Resting
  <2>4. command \in [Intents -> Host!Status]
    BY DEF Init, RunnerInit, Host!Status
  <2>5. queue \in Seq(Jobs)
    BY EmptySeq DEF Init, RunnerInit
  <2> QED
    BY <2>1, <2>2, <2>3, <2>4, <2>5 DEF Init, RunnerInit, RunnerTypes
<1>2. Working = {}
  BY DEF Init, RunnerInit, Working, Resting
<1>3. OneRuns /\ JobsAreKnown
  BY DEF Init, RunnerInit, OneRuns, JobsAreKnown
<1> QED
  BY <1>1, <1>2, <1>3 DEF RunnerInv, OneWorks

-----------------------------------------------------------------------------
(* The project's reference: what the scripts of a rotation, of a restore,  *)
(* of a key rotation and of a recreation leave to one another.             *)

Recreations == {j \in LifecycleJobs : Action[j] = "recreate_services"}

Drafts == [open : BOOLEAN, affects : SUBSET Services, env : Refs \cup {Broken},
           saved : [Entries -> Nat]]

ReferenceTypes ==
  /\ envRef \in Refs \cup {Broken} /\ fileRef \in Refs \cup {Broken}
  /\ gateway \in Refs \cup {Broken} /\ up \in BOOLEAN
  /\ ref \in Refs /\ projection \in Refs \cup {None, Broken} /\ withdrawn \in BOOLEAN
  /\ saved \in [Entries -> Nat]
  /\ draft \in Drafts
  /\ journal \in {"none", "bare", "complete"}
  /\ log \in [old : Refs, new : Refs, running : BOOLEAN, saved : [Entries -> Nat],
              env : Refs \cup {Broken}, files : Refs \cup {Broken}]
  /\ lines \in [env : Refs \cup {Broken}, saved : [Entries -> Nat]]
  /\ step \in {"idle"} \cup Forward \cup Backward
  /\ holder \in Rotations \cup {"operator"}
  /\ oldRef \in [Rotations -> Refs]
  /\ raced \in BOOLEAN
  /\ turn \in {"idle"} \cup Turns
  /\ copy \in [env : Refs \cup {Broken}, files : Refs \cup {Broken}, saved : [Entries -> Nat]]

\* Who works on the project's files works alone, but for a recreation, and for a save.
ScriptHolds ==
  /\ HolderRotates
  /\ step # "idle" /\ holder \in Rotations => command[The(holder)] = "running"
  /\ step # "idle" => turn = "idle" /\ \A j \in Jobs : script[j] = "idle"
  /\ \A j \in Jobs : script[j] # "idle" => Running(j, "restore_project")
  /\ \A j \in admitted : j \in Recreations /\ command[The(j)] = "running"

\* The manifest is whole from before the first change until after the last one, and the
\* database has one of its two references meanwhile.
JournalTells ==
  /\ step \in {"mkdir", "prepare"} => journal # "complete" /\ ref = oldRef[holder]
  /\ step \in InTry \cup {"cleanup"} \cup (Backward \ {"last_stop"}) => journal = "complete"
  /\ journal = "complete" => ref \in {log.old, log.new}
  /\ step \in InTry \cup {"cleanup"} => log.new = NewRef[holder]
  /\ step \in {"withdraw", "stop", "read", "render", "generate", "swap",
               "rb_files", "rb_restart", "rb_publish", "rb_cleanup"} => ref = log.old
  /\ step \in {"restart", "publish", "cleanup"} => ref = log.new

\* What the scripts leave to one another, whatever a save writes back over .env.
Steady == ReferenceTypes /\ ScriptHolds /\ JournalTells

\* .env and the files generated from it have a reference of the manifest, or are made of
\* parts; without a manifest it is the one in the database.
FilesAgree ==
  /\ journal # "complete" => {envRef, fileRef} \subseteq {ref, Broken}
  /\ journal = "complete" => /\ {envRef, fileRef} \subseteq {log.old, log.new, Broken}
                             /\ envRef = log.old => ref = log.old
  /\ envRef = ref => fileRef \in {ref, Broken}
  /\ log.files \in {log.old, Broken} /\ log.env = log.old

\* What .env has at the steps of a rotation and of a rollback.
Position ==
  /\ step \in {"mkdir", "prepare", "withdraw", "stop", "read", "render",
               "rb_restart", "rb_publish", "rb_cleanup"} => envRef = ref
  /\ step \in {"generate", "swap", "restart", "publish", "cleanup"} => envRef = log.new
  /\ step \in {"swap", "restart", "publish", "cleanup"} => fileRef \in {envRef, Broken}

\* A restore, and a rotation of the keys, find .env with the reference of the database,
\* and what the latter copies is put back with it.
TurnAgrees ==
  /\ \A j \in Jobs : script[j] # "idle" => envRef = ref
  /\ turn # "idle" => envRef = ref
  /\ turn = "write" => lines.env = ref
  /\ turn \in Turns \ {"backup"} => copy.env = ref /\ copy.files \in {ref, Broken}

\* While .env and database differ, no Functions service is told of the project.
WithdrawnWhileApart ==
  /\ projection \in {ref, None}
  /\ envRef \notin {ref, Broken} => withdrawn
  /\ step \in {"stop", "read", "render", "generate", "swap", "restart", "publish",
               "rb_stop", "rb_swap", "rb_files", "rb_restart", "rb_publish"}
       => withdrawn /\ projection = None

\* Somebody may have started a container of another reference.
Excused == StartedAsItWas \/ raced

\* The steps between the gateway's stop and its start.
Stopping == {"read", "render", "generate", "swap", "restart", "rb_swap", "rb_files", "rb_restart"}

\* While they differ, the gateway is stopped; a recreation is let in when they do not.
StoppedWhileApart ==
  /\ up => gateway \in {ref, Broken} \/ Excused
  /\ step \in Stopping /\ up => Excused
  /\ admitted # {} /\ ~raced => step = "idle" /\ envRef = ref

\* As long as no save gave the project a reference back that it no longer had.
Agrees == FilesAgree /\ Position /\ TurnAgrees /\ WithdrawnWhileApart /\ StoppedWhileApart

ReferenceInv == Steady /\ (misplaced \/ Agrees)

\* Saves and keys are numbered.
Counted == saves \in 0 .. MaxSaves[requests] /\ generated \in Nat

\* The references of rotations are references, and no other value is one.
LEMMA ReferencesTell ==
  /\ \A j \in Rotations : NewRef[j] \in Refs
  /\ 0 \in Refs /\ Broken \notin Refs /\ None \notin Refs /\ None # Broken
  /\ \A j \in Rotations : j \in Jobs /\ The(j) \in Intents
  BY ServicesAssumption, RotationAssumption, IntentsTell DEF Refs, Rotations

\* What every step does to what is remembered of the saves, and to the one under way.
BesideSaves == (misplaced => misplaced') /\ draft' \in Drafts

\* A command that runs goes on running.
RunsOn(j) == command[The(j)] = "running" => command'[The(j)] = "running"

\* The types of what a step leaves alone that does no more than to enter the project in the
\* Functions service or to withdraw it, and to start or to stop its gateway.
LEMMA EntryTypes ==
  ASSUME ReferenceTypes, BesideSaves,
         UNCHANGED <<envRef, fileRef, gateway, ref, journal, log, lines, step, holder, raced, turn,
                     copy, saved>>,
         oldRef' \in [Rotations -> Refs], up' \in BOOLEAN, withdrawn' \in BOOLEAN,
         projection' \in {projection, None, envRef}
  PROVE  ReferenceTypes'
<1>1. projection' \in Refs \cup {None, Broken}
  BY DEF ReferenceTypes
<1>2. draft' \in Drafts
  BY DEF BesideSaves
<1> QED
  BY <1>1, <1>2 DEF ReferenceTypes

\* What a step keeps that leaves the references alone, and may stop the gateway, start it
\* as it was, withdraw the project, or publish it while .env and database agree.
LEMMA BesideKept ==
  ASSUME ReferenceInv, BesideSaves, ReferenceTypes',
         UNCHANGED <<envRef, fileRef, gateway, ref, journal, log, lines, step, holder, raced,
                     admitted, turn, copy>>,
         \A j \in Rotations : oldRef'[j] \in {oldRef[j], ref},
         up' => up \/ Excused',
         \/ UNCHANGED <<projection, withdrawn>>
         \/ projection' = None /\ (withdrawn' = TRUE \/ withdrawn' = withdrawn)
         \/ /\ projection' = envRef /\ withdrawn' = FALSE /\ step = "idle"
            /\ misplaced' \/ envRef = ref,
         \A j \in Jobs : job[j] # "absent" => job'[j] # "absent",
         \A j \in Rotations \cup Recreations : RunsOn(j),
         \A j \in Jobs : script'[j] # "idle" =>
           Running(j, "restore_project")' /\ step = "idle" /\ (misplaced' \/ envRef = ref)
  PROVE  ReferenceInv'
<1>1. ScriptHolds'
  BY DEF ReferenceInv, Steady, ScriptHolds, HolderRotates, RunsOn
<1>2. JournalTells'
  <2>1. step \in {"mkdir", "prepare"} => holder \in Rotations
    BY DEF ReferenceInv, Steady, ScriptHolds, HolderRotates, Forward
  <2> QED
    BY <2>1 DEF ReferenceInv, Steady, JournalTells
<1>3. ASSUME ~misplaced' PROVE Agrees'
  <2>1. Agrees
    BY <1>3 DEF ReferenceInv, BesideSaves
  <2>2. FilesAgree' /\ Position'
    BY <2>1 DEF Agrees, FilesAgree, Position
  <2>3. TurnAgrees'
    BY <1>3, <2>1 DEF Agrees, TurnAgrees
  <2>4. WithdrawnWhileApart'
    BY <1>3, <2>1 DEF Agrees, WithdrawnWhileApart
  <2>5. StoppedWhileApart'
    <3>1. Excused => Excused'
      BY DEF Excused, StartedAsItWas
    <3> QED
      BY <2>1, <3>1 DEF Agrees, StoppedWhileApart
  <2> QED
    BY <2>2, <2>3, <2>4, <2>5 DEF Agrees
<1> QED
  BY <1>1, <1>2, <1>3 DEF ReferenceInv, Steady

\* A step that touches neither references nor scripts.
LEMMA AsideKept ==
  ASSUME ReferenceInv, BesideSaves,
         UNCHANGED <<envRef, fileRef, gateway, up, ref, projection, withdrawn, journal, log, lines,
                     step, holder, raced, admitted, turn, copy, script>>,
         saved' \in [Entries -> Nat],
         oldRef' \in [Rotations -> Refs],
         \A j \in Rotations : oldRef'[j] \in {oldRef[j], ref},
         \A j \in Jobs : job[j] # "absent" => job'[j] # "absent",
         \A i \in Intents : command[i] = "running" => command'[i] = "running"
  PROVE  ReferenceInv'
<1>1. \A j \in Rotations \cup Recreations : RunsOn(j)
  BY IntentsTell DEF RunsOn, Rotations, Recreations, LifecycleJobs
<1>2. \A j \in Jobs : script'[j] # "idle" =>
        Running(j, "restore_project")' /\ step = "idle" /\ (misplaced' \/ envRef = ref)
  BY DEF ReferenceInv, BesideSaves, Steady, ScriptHolds, Agrees, TurnAgrees, Running
<1>3. ReferenceTypes'
  BY DEF ReferenceInv, BesideSaves, Steady, ReferenceTypes
<1> QED
  BY <1>1, <1>2, <1>3, BesideKept

\* While a runner works, or a job is queued or taken, commands run on.
LEMMA WorkRunsOn ==
  ASSUME RunnerInv, Runner \/ \E j \in Jobs : RunnerWorks(j) \/ AcceptJob(j)
  PROVE  /\ \A j \in Jobs : job[j] # "absent" => job'[j] # "absent"
         /\ \A i \in Intents : command[i] = "running" => command'[i] = "running"
<1> USE DEF RunnerInv, RunnerTypes
<1>1. ASSUME NEW j \in Jobs, RunnerWorks(j)
      PROVE  /\ \A k \in Jobs : job[k] # "absent" => job'[k] # "absent"
             /\ \A i \in Intents : command[i] = "running" => command'[i] = "running"
  BY <1>1 DEF RunnerWorks, Settle, JobFinal
<1>2. ASSUME NEW j \in Jobs, AcceptJob(j)
      PROVE  /\ \A k \in Jobs : job[k] # "absent" => job'[k] # "absent"
             /\ command' = command
  BY <1>2 DEF AcceptJob, Settle
<1>3. ASSUME NEW j \in Jobs, Enqueue(j) \/ EnqueueFails(j) \/ TakeJob(j) \/ RecoverJob(j)
      PROVE  /\ \A k \in Jobs : job[k] # "absent" => job'[k] # "absent"
             /\ command' = command
  BY <1>3 DEF Enqueue, EnqueueFails, TakeJob, RecoverJob, Settle
<1>4. ASSUME NEW i \in Intents, HostBegins(i) \/ WithdrawIntent(i)
      PROVE  /\ job' = job
             /\ \A k \in Intents : command[k] = "running" => command'[k] = "running"
  BY <1>4, HostChanges DEF HostBegins, WithdrawIntent
<1>5. ApiStops \/ ApiStarts \/ Serve => UNCHANGED <<job, command>>
  BY DEF ApiStops, ApiStarts, Serve
<1>6. requests \subseteq Jobs
  BY RunnerAssumption
<1> QED
  BY <1>1, <1>2, <1>3, <1>4, <1>5, <1>6 DEF Runner

\* A handler that ends, other than of a rotation or of a recreation.
LEMMA HandlerKept ==
  ASSUME ReferenceInv, BesideSaves, RunnerInv,
         NEW i \in Intents, i[1] \notin Rotations \cup Recreations, NEW status,
         command' = [command EXCEPT ![i] = status],
         UNCHANGED <<job, envRef, fileRef, gateway, ref, journal, log, lines, step, holder, raced,
                     admitted, turn, copy, saved, oldRef>>,
         up' \in BOOLEAN, up' => up \/ Excused',
         \/ UNCHANGED <<projection, withdrawn>>
         \/ projection' = None /\ withdrawn' = TRUE
         \/ projection' = envRef /\ withdrawn' = FALSE /\ step = "idle" /\ (misplaced' \/ envRef = ref),
         \A k \in Jobs : script'[k] # "idle" => script[k] # "idle" /\ i # <<k, "restore_project">>
  PROVE  ReferenceInv'
<1>1. command \in [Intents -> Host!Status]
  BY DEF RunnerInv, RunnerTypes
<1>2. \A k \in Rotations \cup Recreations : RunsOn(k)
  <2>1. ASSUME NEW k \in Rotations \cup Recreations PROVE The(k) \in Intents /\ The(k) # i
    BY IntentsTell DEF The, Rotations, Recreations, LifecycleJobs
  <2> QED
    BY <1>1, <2>1 DEF RunsOn
<1>3. \A k \in Jobs : script'[k] # "idle" =>
        Running(k, "restore_project")' /\ step = "idle" /\ (misplaced' \/ envRef = ref)
  BY <1>1 DEF ReferenceInv, BesideSaves, Steady, ScriptHolds, Agrees, TurnAgrees, Running
<1>4. ReferenceTypes'
  <2>1. ReferenceTypes
    BY DEF ReferenceInv, Steady
  <2>2. withdrawn' \in BOOLEAN
    BY <2>1, Zenon DEF ReferenceTypes
  <2>3. projection' \in {projection, None, envRef} /\ oldRef' \in [Rotations -> Refs]
    BY <2>1 DEF ReferenceTypes
  <2> QED
    BY <2>1, <2>2, <2>3, EntryTypes
<1> QED
  BY <1>2, <1>3, <1>4, BesideKept

\* The jobs on restore points keep what is said of the reference.
LEMMA DataReference ==
  ASSUME ReferenceInv, BesideSaves, RunnerInv, NEW j \in Jobs, Data(j), UNCHANGED runtimeVars
  PROVE  ReferenceInv'
<1> USE DEF still
<1>0. /\ RunnerTypes /\ ReferenceTypes
      /\ UNCHANGED <<envRef, fileRef, gateway, up, ref, projection, withdrawn, journal, log, lines,
                     step, holder, raced, admitted, turn, copy, saved, oldRef>>
  BY DEF RunnerInv, ReferenceInv, Steady, runtimeVars, serviceVars, containerVars, settingVars, rotationVars,
     scriptVars, keyRotationVars, keyScriptVars
<1>1. CASE AcceptBackup(j) \/ AcceptRestore(j) \/ AcceptDeletePoint(j)
  <2>1. UNCHANGED script /\ AcceptJob(j)
    BY <1>1 DEF AcceptBackup, AcceptRestore, AcceptDeletePoint, hostVars
  <2> QED
    BY <1>0, <2>1, WorkRunsOn, AsideKept DEF ReferenceTypes
<1>2. CASE RunnerBegins(j)
  <2>1. UNCHANGED script /\ Settle(j, "running") /\ Action[j] # "delete" /\ AttachIntent(The(j))
    BY <1>2 DEF RunnerBegins, PointJobs, pointVars, hostVars
  <2>2. /\ \A i \in Intents : command[i] = "running" => command'[i] = "running"
        /\ \A k \in Jobs : job[k] # "absent" => job'[k] # "absent"
    BY <1>0, <2>1, AttachSubmits DEF RunnerTypes, Settle
  <2> QED
    BY <1>0, <2>1, <2>2, AsideKept DEF ReferenceTypes
<1>3. CASE \/ CompensateRows(j) \/ SettleRows(j) \/ SettleSafety(j) \/ SettleTarget(j) \/ ExceptRows(j)
           \/ RunnerRaises(j) \/ FinishJob(j) \/ FailJob(j)
  <2>1. /\ UNCHANGED <<script, command>>
        /\ job' = job \/ Settle(j, "done") \/ Settle(j, "failed")
    BY <1>3 DEF CompensateRows, SettleRows, SettleSafety, SettleTarget, ExceptRows, RunnerRaises,
       FinishJob, FailJob, pointVars, hostVars
  <2>2. \A k \in Jobs : job[k] # "absent" => job'[k] # "absent"
    BY <1>0, <2>1 DEF RunnerTypes, Settle
  <2> QED
    BY <1>0, <2>1, <2>2, AsideKept DEF ReferenceTypes
<1>4. CASE BackupDone(j) \/ DeletePointDone(j)
  <2>1. /\ UNCHANGED <<script, job>> /\ Host!Succeed(The(j)) /\ The(j) \in Intents
        /\ Action[j] \in {"backup", "delete_restore_point"}
    BY <1>4, RunningTells DEF BackupDone, DeletePointDone
  <2>2. The(j)[1] = j /\ \A k : The(j) # <<k, "restore_project">>
    BY <2>1 DEF The, CommandOf
  <2>3. j \notin Rotations \cup Recreations
    BY <2>1 DEF Rotations, Recreations
  <2>4. up' \in BOOLEAN
    BY <1>0 DEF ReferenceTypes
  <2>5. command' = [command EXCEPT ![The(j)] = "done"]
    BY <1>0, <2>1, HostChanges
  <2> QED
    BY <1>0, <2>1, <2>2, <2>3, <2>4, <2>5, HandlerKept
<1>5. CASE RestoreSaves(j) \/ RestoreSwaps(j)
  <2>1. /\ UNCHANGED <<job, command>> /\ script[j] # "idle"
        /\ \E to \in {"saved", "swapped"} : script' = [script EXCEPT ![j] = to]
    BY <1>5 DEF RestoreSaves, RestoreSwaps, runnerVars
  <2>2. \A k \in Jobs : script'[k] # "idle" =>
          Running(k, "restore_project")' /\ step = "idle" /\ (misplaced' \/ envRef = ref)
    <3>1. ASSUME NEW k \in Jobs, script'[k] # "idle" PROVE script[k] # "idle"
      BY <2>1, <3>1
    <3> QED
      BY <2>1, <3>1 DEF ReferenceInv, BesideSaves, Steady, ScriptHolds, Agrees, TurnAgrees, Running
  <2>3. \A k \in Rotations \cup Recreations : RunsOn(k)
    BY <2>1 DEF RunsOn
  <2>4. ReferenceTypes'
    BY <1>0, EntryTypes DEF ReferenceTypes
  <2> QED
    BY <1>0, <2>1, <2>2, <2>3, <2>4, BesideKept
<1> QED
  BY <1>1, <1>2, <1>3, <1>4, <1>5 DEF Data

\* The deletion's runner.
LEMMA DeletionReference ==
  ASSUME ReferenceInv, BesideSaves, RunnerInv, NEW j \in Jobs, Deletion(j), UNCHANGED runtimeVars
  PROVE  ReferenceInv'
<1> USE DEF still
<1>0. /\ RunnerTypes /\ ReferenceTypes
      /\ UNCHANGED <<envRef, fileRef, gateway, up, ref, projection, withdrawn, journal, log, lines,
                     step, holder, raced, admitted, turn, copy, saved, oldRef>>
  BY DEF RunnerInv, ReferenceInv, Steady, runtimeVars, serviceVars, containerVars, settingVars, rotationVars,
     scriptVars, keyRotationVars, keyScriptVars
<1>1. UNCHANGED script
  BY DEF Deletion, AcceptDeletion, DeletionNotQueued, DeletionBegins, DeletionSubmits, DeletionNotes,
     DeletionCleans, DeletionRemovesRow, DeletionVerifies, DeletionRaises, DeletionFails, pointVars,
     hostVars
<1>2. CASE AcceptDeletion(j)
  BY <1>0, <1>1, <1>2, WorkRunsOn, AsideKept DEF AcceptDeletion, ReferenceTypes
<1>3. CASE DeletionSubmits(j)
  <2>1. <<j, pc[j]>> \in Intents /\ UNCHANGED job /\ Host!Accept(<<j, pc[j]>>)
    BY <1>3, IntentsTell DEF DeletionSubmits, Deletions, HostSteps
  <2>2. \A i \in Intents : command[i] = "running" => command'[i] = "running"
    BY <1>0, <2>1, HostChanges DEF RunnerTypes
  <2> QED
    BY <1>0, <1>1, <2>1, <2>2, AsideKept DEF ReferenceTypes
<1>4. CASE \/ DeletionNotQueued(j) \/ DeletionBegins(j) \/ DeletionNotes(j) \/ DeletionCleans(j)
           \/ DeletionRemovesRow(j) \/ DeletionVerifies(j) \/ DeletionRaises(j) \/ DeletionFails(j)
  <2>1. UNCHANGED command /\ (job' = job \/ \E s \in {"running", "done", "failed"} : Settle(j, s))
    BY <1>4 DEF DeletionNotQueued, DeletionBegins, DeletionNotes, DeletionCleans, DeletionRemovesRow,
       DeletionVerifies, DeletionRaises, DeletionFails
  <2>2. \A k \in Jobs : job[k] # "absent" => job'[k] # "absent"
    BY <1>0, <2>1 DEF RunnerTypes, Settle
  <2> QED
    BY <1>0, <1>1, <2>1, <2>2, AsideKept DEF ReferenceTypes
<1> QED
  BY <1>2, <1>3, <1>4 DEF Deletion

\* What a deletion's handler leaves of the project's entry and containers.
LEMMA DeleteScriptTells ==
  ASSUME RunnerInv, NEW j \in Jobs, NEW c \in HostSteps, DeleteScript(j, c)
  PROVE  /\ DeleteHostDone(j, c) \/ DeleteHostFails(j, c) \/ DeleteHostLost(j, c)
         /\ \/ UNCHANGED runtimeVars
            \/ Entry(projection, withdrawn, FALSE)
            \/ Entry(None, TRUE, up)
  BY Zenon DEF DeleteScript

\* The deletion's handlers.
LEMMA DeleteScriptReference ==
  ASSUME ReferenceInv, BesideSaves, RunnerInv, NEW j \in Jobs, NEW c \in HostSteps, DeleteScript(j, c)
  PROVE  ReferenceInv'
<1>0. RunnerTypes /\ ReferenceTypes
  BY DEF RunnerInv, ReferenceInv, Steady
<1>1. /\ UNCHANGED <<script, job>> /\ <<j, c>> \in Intents
      /\ \E status : command' = [command EXCEPT ![<<j, c>>] = status]
  <2>1. CASE DeleteHostDone(j, c)
    BY <1>0, <2>1, RunningTells, HostChanges DEF DeleteHostDone
  <2>2. CASE DeleteHostFails(j, c)
    BY <1>0, <2>2, RunningTells, HostChanges DEF DeleteHostFails, pointVars, hostVars
  <2>3. CASE DeleteHostLost(j, c)
    BY <1>0, <2>3, HostChanges DEF DeleteHostLost, HostLost, pointVars, hostVars
  <2> QED
    BY <2>1, <2>2, <2>3, DeleteScriptTells
<1>2. <<j, c>>[1] = j /\ j \notin Rotations \cup Recreations /\ \A k : <<j, c>> # <<k, "restore_project">>
  <2>1. c # "restore_project"
    BY DEF HostSteps, CommandsOf
  <2>2. Action[j] = "delete"
    BY <1>1, IntentsTell, CommandTells DEF HostSteps
  <2> QED
    BY <2>1, <2>2 DEF Rotations, Recreations
<1>3. /\ UNCHANGED <<envRef, fileRef, gateway, ref, journal, log, lines, step, holder, raced, admitted, turn, copy, saved,
                     oldRef>>
      /\ up' \in BOOLEAN /\ (up' => up)
      /\ \/ UNCHANGED <<projection, withdrawn>>
         \/ projection' = None /\ withdrawn' = TRUE
  BY <1>0, DeleteScriptTells DEF ReferenceTypes, Entry, runtimeVars, serviceVars, containerVars,
     settingVars, rotationVars, scriptVars, keyRotationVars, keyScriptVars
<1> QED
  BY <1>1, <1>2, <1>3, HandlerKept

\* A restore's script.
LEMMA RestoreScriptReference ==
  ASSUME ReferenceInv, BesideSaves, RunnerInv, PointsTypeOK, NEW j \in Jobs, RestoreScript(j)
  PROVE  ReferenceInv'
<1>0. RunnerTypes /\ ReferenceTypes /\ JobsAreKnown
  BY DEF RunnerInv, ReferenceInv, Steady
<1>a. UNCHANGED runtimeVars =>
        UNCHANGED <<envRef, fileRef, gateway, up, ref, projection, withdrawn, journal, log, lines,
                    step, holder, raced, admitted, turn, copy, saved, oldRef>>
  BY DEF runtimeVars, serviceVars, containerVars, settingVars, rotationVars, scriptVars, keyRotationVars,
     keyScriptVars
<1>b. ASSUME NEW entry, NEW marked, NEW running, Entry(entry, marked, running)
      PROVE  /\ projection' = entry /\ withdrawn' = marked /\ up' = running
             /\ UNCHANGED <<envRef, fileRef, gateway, ref, journal, log, lines, step, holder, raced,
                            admitted, turn, copy, saved, oldRef>>
  BY <1>b DEF Entry, settingVars, keyRotationVars, keyScriptVars
<1>c. \A k \in Jobs : script[k] # "idle" =>
        /\ Running(k, "restore_project") /\ step = "idle" /\ (misplaced' \/ envRef = ref)
        /\ Action[k] = "restore" /\ StartedAsItWas
  <2>1. ASSUME NEW k \in Jobs, script[k] # "idle"
        PROVE  Running(k, "restore_project") /\ step = "idle" /\ (misplaced' \/ envRef = ref)
    BY <2>1 DEF ReferenceInv, BesideSaves, Steady, ScriptHolds, Agrees, TurnAgrees
  <2>2. ASSUME NEW k \in Jobs, Running(k, "restore_project")
        PROVE  Action[k] = "restore" /\ job[k] # "absent"
    <3>1. <<k, "restore_project">>[1] = k
      OBVIOUS
    <3> QED
      BY <1>0, <2>2, <3>1, RunningTells DEF JobsAreKnown
  <2> QED
    BY <2>1, <2>2 DEF StartedAsItWas
<1>d. \A to : script' = [script EXCEPT ![j] = to] =>
        \A k \in Jobs : script'[k] = IF k = j THEN to ELSE script[k]
  BY DEF PointsTypeOK
<1>1. CASE RestoreStops(j) /\ step = "idle" /\ turn = "idle" /\ envRef = ref /\ Entry(None, TRUE, FALSE)
  <2>1. /\ UNCHANGED <<job, command>> /\ Running(j, "restore_project")
        /\ script' = [script EXCEPT ![j] = "stopped"]
    BY <1>1 DEF RestoreStops, runnerVars
  <2>2. \A k \in Jobs : script'[k] # "idle" =>
          Running(k, "restore_project")' /\ step = "idle" /\ (misplaced' \/ envRef = ref)
    BY <1>1, <1>c, <1>d, <2>1 DEF Running
  <2>3. \A k \in Rotations \cup Recreations : RunsOn(k)
    BY <2>1 DEF RunsOn
  <2>4. /\ up' = FALSE /\ projection' = None /\ withdrawn' = TRUE
        /\ UNCHANGED <<envRef, fileRef, gateway, ref, journal, log, lines, step, holder, raced,
                       admitted, turn, copy, saved, oldRef>>
    BY <1>1, <1>b
  <2>a. oldRef' \in [Rotations -> Refs]
    BY <1>0, <2>4 DEF ReferenceTypes
  <2>5. ReferenceTypes'
    BY <1>0, <2>4, <2>a, EntryTypes
  <2>6. \A k \in Rotations : oldRef'[k] \in {oldRef[k], ref}
    BY <2>4
  <2>7. \A k \in Jobs : job[k] # "absent" => job'[k] # "absent"
    BY <2>1
  <2> QED
    BY <2>2, <2>3, <2>4, <2>5, <2>6, <2>7, BesideKept
<1>2. ASSUME RestoreRefused(j) \/ RestoreDone(j) \/ RestoreFails(j) \/ PointHandlerLost(j) \/ PointScriptFails(j)
      PROVE  /\ The(j) \in Intents /\ The(j)[1] = j /\ j \notin Rotations \cup Recreations
             /\ UNCHANGED job
             /\ \E status : command' = [command EXCEPT ![The(j)] = status]
             /\ \A k \in Jobs : script'[k] # "idle" => script[k] # "idle" /\ The(j) # <<k, "restore_project">>
  <2>1. The(j) \in Intents /\ Action[j] \in {"backup", "restore", "delete_restore_point"}
    <3>1. CASE PointHandlerLost(j)
      BY <3>1, IntentsTell DEF PointHandlerLost, PointJobs
    <3>2. CASE RestoreRefused(j) \/ RestoreDone(j) \/ RestoreFails(j) \/ PointScriptFails(j)
      BY <3>2, RunningTells DEF RestoreRefused, RestoreDone, RestoreFails, PointScriptFails
    <3> QED
      BY <1>2, <3>1, <3>2
  <2>2. The(j)[1] = j /\ j \notin Rotations \cup Recreations /\ \A k : The(j) = <<k, "restore_project">> => k = j
    BY <2>1 DEF The, Rotations, Recreations
  <2>3. UNCHANGED job /\ (Host!Fail({The(j)}) \/ Host!Succeed(The(j)))
    BY <1>2 DEF RestoreRefused, RestoreDone, RestoreFails, PointHandlerLost, PointScriptFails, HostLost
  <2>4. \E status : command' = [command EXCEPT ![The(j)] = status]
    BY <1>0, <2>1, <2>3, HostChanges
  <2>5. \/ script' = [script EXCEPT ![j] = "idle"]
        \/ script' = script /\ script[j] = "idle"
        \/ script' = script /\ Action[j] # "restore"
    BY <1>2, RunningTells DEF RestoreRefused, RestoreDone, RestoreFails, PointHandlerLost, PointScriptFails
  <2>6. \A k \in Jobs : script'[k] # "idle" => script[k] # "idle" /\ k # j
    BY <1>c, <1>d, <2>5
  <2> QED
    BY <2>1, <2>2, <2>3, <2>4, <2>6
<1>3. script[j] # "idle" => step = "idle" /\ (misplaced' \/ envRef = ref) /\ (UNCHANGED job => Excused')
  BY <1>c DEF Excused, StartedAsItWas
<1>4. CASE RestoreRefused(j) /\ envRef # ref /\ UNCHANGED runtimeVars
  <2>1. PICK status : command' = [command EXCEPT ![The(j)] = status]
    BY <1>2, <1>4
  <2>2. /\ up' = up /\ UNCHANGED <<projection, withdrawn>>
        /\ UNCHANGED <<envRef, fileRef, gateway, ref, journal, log, lines, step, holder, raced,
                       admitted, turn, copy, saved, oldRef>>
    BY <1>a, <1>4
  <2>3. up' \in BOOLEAN
    BY <1>0, <2>2 DEF ReferenceTypes
  <2> QED
    BY <1>2, <1>4, <2>1, <2>2, <2>3, HandlerKept
<1>5. CASE RestoreDone(j) /\ Entry(envRef, FALSE, TRUE)
  <2>1. script[j] # "idle"
    BY <1>5 DEF RestoreDone
  <2> QED
    BY <1>b, <1>2, <1>3, <1>5, <2>1, HandlerKept
<1>6. CASE RestoreFails(j) /\ IF script[j] = "idle" THEN UNCHANGED runtimeVars
             ELSE Entry(envRef, FALSE, TRUE) \/ \E on \in BOOLEAN : Entry(None, TRUE, on)
  <2>1. CASE UNCHANGED runtimeVars
    BY <1>0, <1>a, <1>2, <1>6, <2>1, HandlerKept DEF ReferenceTypes
  <2>2. CASE script[j] # "idle" /\ (Entry(envRef, FALSE, TRUE) \/ \E on \in BOOLEAN : Entry(None, TRUE, on))
    <3>1. /\ \/ projection' = envRef /\ withdrawn' = FALSE
             \/ projection' = None /\ withdrawn' = TRUE
          /\ up' \in BOOLEAN
          /\ UNCHANGED <<envRef, fileRef, gateway, ref, journal, log, lines, step, holder, raced,
                            admitted, turn, copy, saved, oldRef>>
      BY <1>b, <2>2
    <3> QED
      BY <1>2, <1>3, <1>6, <2>2, <3>1, HandlerKept
  <2> QED
    BY <1>6, <2>1, <2>2
<1>7. CASE /\ PointHandlerLost(j)
           /\ \/ UNCHANGED runtimeVars
              \/ Running(j, "backup_project") /\ Entry(projection, withdrawn, FALSE)
              \/ script[j] = "swapped" /\ (Entry(None, TRUE, TRUE) \/ Entry(envRef, FALSE, TRUE))
  <2>1. CASE UNCHANGED runtimeVars
    BY <1>0, <1>a, <1>2, <1>7, <2>1, HandlerKept DEF ReferenceTypes
  <2>2. CASE Entry(projection, withdrawn, FALSE)
    <3>1. /\ UNCHANGED <<projection, withdrawn>> /\ up' = FALSE
          /\ UNCHANGED <<envRef, fileRef, gateway, ref, journal, log, lines, step, holder, raced,
                            admitted, turn, copy, saved, oldRef>>
      BY <1>b, <2>2
    <3> QED
      BY <1>2, <1>7, <3>1, HandlerKept
  <2>3. CASE script[j] = "swapped" /\ (Entry(None, TRUE, TRUE) \/ Entry(envRef, FALSE, TRUE))
    BY <1>b, <1>2, <1>3, <1>7, <2>3, HandlerKept
  <2> QED
    BY <1>7, <2>1, <2>2, <2>3
<1>8. CASE /\ PointScriptFails(j)
           /\ UNCHANGED runtimeVars \/ Entry(projection, withdrawn, FALSE)
  <2>1. CASE UNCHANGED runtimeVars
    BY <1>0, <1>a, <1>2, <1>8, <2>1, HandlerKept DEF ReferenceTypes
  <2>2. CASE Entry(projection, withdrawn, FALSE)
    <3>1. /\ UNCHANGED <<projection, withdrawn>> /\ up' = FALSE
          /\ UNCHANGED <<envRef, fileRef, gateway, ref, journal, log, lines, step, holder, raced,
                            admitted, turn, copy, saved, oldRef>>
      BY <1>b, <2>2
    <3> QED
      BY <1>2, <1>8, <3>1, HandlerKept
  <2> QED
    BY <1>8, <2>1, <2>2
<1> QED
  BY <1>1, <1>4, <1>5, <1>6, <1>7, <1>8 DEF RestoreScript

\* What a lifecycle handler does to the containers: it starts or stops those there are,
\* or creates them from the files when it was let in.
LEMMA ContainersTell ==
  ASSUME RunnerInv, ReferenceInv, BesideSaves, NEW j \in LifecycleJobs, AtWork(j),
         (LetIn(j) /\ LifecycleWork(j)) \/ LifecycleLeaves(j)
  PROVE  /\ envRef' = envRef /\ fileRef' \in {fileRef, envRef, Broken}
         /\ \/ gateway' = gateway /\ up' = up
            \/ gateway' = gateway /\ up' = FALSE
            \/ gateway' = gateway /\ up' = TRUE /\ StartedAsItWas
            \/ gateway' = envRef /\ up' = TRUE /\ j \in admitted
<1>0. JobsAreKnown /\ The(j) \in Intents /\ The(j)[1] = j /\ j \in Jobs /\ Action[j] \in LifecycleActions
  BY IntentsTell DEF RunnerInv, LifecycleJobs, LifecycleActions, The
<1>1. job[j] # "absent"
  BY <1>0 DEF JobsAreKnown, AtWork
<1>2. CASE LetIn(j) /\ LifecycleWork(j)
  <2>1. CASE Action[j] \in {"start", "restart"}
    <3>1. up' = TRUE /\ UNCHANGED <<envRef, fileRef, gateway, applied>>
      BY <1>2, <2>1, Zenon DEF LifecycleWork
    <3> QED
      BY <1>0, <1>1, <2>1, <3>1 DEF StartedAsItWas
  <2>2. CASE Action[j] = "stop"
    <3>1. up' = FALSE /\ UNCHANGED <<envRef, fileRef, gateway, applied>>
      BY <1>2, <2>2, Zenon DEF LifecycleWork
    <3> QED
      BY <3>1
  <2>3. CASE Action[j] = "recreate_services"
    <3>1. RecreatedContainers(Recreates[j])
      BY <1>2, <2>3, Zenon DEF LifecycleWork
    <3>2. j \in admitted
      BY <1>2, <2>3 DEF LetIn
    <3> QED
      BY <3>1, <3>2 DEF RecreatedContainers, containerVars
  <2> QED
    BY <1>0, <2>1, <2>2, <2>3 DEF LifecycleActions
<1>3. CASE GeneratedOnly(j)
  BY <1>3 DEF GeneratedOnly
<1>4. CASE UNCHANGED <<containerVars, applied>>
  BY <1>4 DEF containerVars
<1> QED
  BY <1>2, <1>3, <1>4 DEF LifecycleLeaves

\* A lifecycle handler that ends, or is lost.
LEMMA ContainersKept ==
  ASSUME RunnerInv, ReferenceInv, BesideSaves, NEW j \in LifecycleJobs, AtWork(j),
         (LetIn(j) /\ LifecycleWork(j)) \/ LifecycleLeaves(j),
         admitted' = admitted \ {j},
         NEW status, command' = [command EXCEPT ![The(j)] = status],
         UNCHANGED <<job, saved, script>>, UNCHANGED <<rotationVars, keyScriptVars>>
  PROVE  ReferenceInv'
<1> USE DEF ReferenceInv, Steady
<1>0. /\ UNCHANGED <<ref, projection, withdrawn, journal, log, lines, step, holder, oldRef, raced, turn, copy>>
      /\ draft' \in Drafts /\ (misplaced => misplaced')
  BY DEF rotationVars, scriptVars, keyScriptVars, BesideSaves
<1>1. /\ envRef' = envRef /\ fileRef' \in {fileRef, envRef, Broken}
      /\ \/ gateway' = gateway /\ up' = up
         \/ gateway' = gateway /\ up' = FALSE
         \/ gateway' = gateway /\ up' = TRUE /\ StartedAsItWas
         \/ gateway' = envRef /\ up' = TRUE /\ j \in admitted
  BY ContainersTell
<1>2. command \in [Intents -> Host!Status]
  BY DEF RunnerInv, RunnerTypes
<1>3. \A k \in Rotations \cup (Recreations \ {j}) : command'[The(k)] = command[The(k)]
  <2>1. ASSUME NEW k \in Rotations \cup (Recreations \ {j}) PROVE The(k) \in Intents /\ The(k) # The(j)
    BY IntentsTell DEF The, Rotations, Recreations, LifecycleJobs, LifecycleActions
  <2> QED
    BY <1>2, <2>1
<1>4. \A k \in Jobs : Running(k, "restore_project") => Running(k, "restore_project")'
  <2>1. ASSUME NEW k \in Jobs, Running(k, "restore_project") PROVE The(j) # <<k, "restore_project">>
    BY <2>1, RunningTells DEF The, LifecycleJobs, LifecycleActions
  <2> QED
    BY <1>2, <2>1 DEF Running
<1>5. ReferenceTypes'
  <2>1. envRef \in Refs \cup {Broken} /\ fileRef \in Refs \cup {Broken} /\ gateway \in Refs \cup {Broken}
    BY DEF ReferenceTypes
  <2>2. envRef' \in Refs \cup {Broken} /\ fileRef' \in Refs \cup {Broken} /\ gateway' \in Refs \cup {Broken}
    BY <1>1, <2>1
  <2>3. up' \in BOOLEAN
    BY <1>1 DEF ReferenceTypes
  <2> QED
    BY <1>0, <2>2, <2>3 DEF ReferenceTypes
<1>6. ScriptHolds'
  BY <1>0, <1>1, <1>3, <1>4 DEF ScriptHolds, HolderRotates
<1>7. JournalTells'
  BY <1>0 DEF JournalTells
<1>8. ASSUME ~misplaced' PROVE Agrees'
  <2>0. Agrees
    BY <1>0, <1>8
  <2>1. FilesAgree' /\ Position' /\ WithdrawnWhileApart'
    BY <1>0, <1>1, <2>0 DEF Agrees, FilesAgree, Position, WithdrawnWhileApart
  <2>2. TurnAgrees'
    BY <1>0, <1>1, <2>0 DEF Agrees, TurnAgrees
  <2>3. Excused' <=> Excused
    BY <1>0 DEF Excused, StartedAsItWas
  <2>4. StartedAsItWas => Excused
    BY DEF Excused
  <2>5. j \in admitted => Excused \/ (step = "idle" /\ envRef = ref)
    BY <2>0 DEF Agrees, StoppedWhileApart, Excused
  <2>6. up' => gateway' \in {ref', Broken} \/ Excused'
    BY <1>0, <1>1, <2>0, <2>3, <2>4, <2>5 DEF Agrees, StoppedWhileApart
  <2>7. step' \in Stopping /\ up' => Excused'
    BY <1>0, <1>1, <2>0, <2>3, <2>4, <2>5 DEF Agrees, StoppedWhileApart, Stopping
  <2>8. admitted' # {} /\ ~raced' => step' = "idle" /\ envRef' = ref'
    BY <1>0, <1>1, <2>0 DEF Agrees, StoppedWhileApart
  <2>9. StoppedWhileApart'
    BY <2>6, <2>7, <2>8 DEF StoppedWhileApart
  <2> QED
    BY <2>1, <2>2, <2>9 DEF Agrees
<1> QED
  BY <1>5, <1>6, <1>7, <1>8

\* The jobs on containers.
LEMMA LifecycleReference ==
  ASSUME ReferenceInv, BesideSaves, RunnerInv, NEW j \in Jobs, Lifecycle(j),
         UNCHANGED <<dataVars, rotationVars, keyRotationVars>>
  PROVE  ReferenceInv'
<1> USE DEF still
<1>0. /\ RunnerTypes /\ ReferenceTypes
      /\ UNCHANGED <<ref, projection, withdrawn, journal, log, lines, step, holder, raced, oldRef, script, turn, copy>>
  BY DEF RunnerInv, ReferenceInv, Steady, rotationVars, scriptVars, dataVars, pointVars, hostVars,
     keyRotationVars, keyScriptVars
<1>a. j \in LifecycleJobs => The(j) \in Intents
  BY IntentsTell DEF LifecycleJobs, LifecycleActions
<1>1. CASE AcceptLifecycle(j)
  <2>1. AcceptJob(j) /\ UNCHANGED <<envRef, fileRef, gateway, up, saved, admitted>>
    BY <1>1 DEF AcceptLifecycle, containerVars
  <2> QED
    BY <1>0, <2>1, WorkRunsOn, AsideKept DEF ReferenceTypes
<1>2. CASE \/ AnswerLifecycle(j) \/ LifecycleNotQueued(j) \/ LifecycleBegins(j) \/ LifecycleEnds(j)
           \/ RecreationEnds(j) \/ LifecycleRaises(j)
  <2>1. /\ UNCHANGED <<envRef, fileRef, gateway, up, saved, admitted>>
        /\ job' = job \/ \E s \in {"running", "done", "failed"} : Settle(j, s)
        /\ command' = command \/ (command[The(j)] # "running" /\ command' = [command EXCEPT ![The(j)] = "queued"])
    BY <1>2 DEF AnswerLifecycle, LifecycleNotQueued, LifecycleBegins, LifecycleEnds, RecreationEnds,
       LifecycleRaises, serviceVars, containerVars, settingVars, runnerVars
  <2>2. \A k \in Jobs : job[k] # "absent" => job'[k] # "absent"
    BY <1>0, <2>1 DEF RunnerTypes, Settle
  <2>3. \A i \in Intents : command[i] = "running" => command'[i] = "running"
    BY <1>0, <2>1 DEF RunnerTypes
  <2> QED
    BY <1>0, <2>1, <2>2, <2>3, AsideKept DEF ReferenceTypes
<1>3. CASE LifecycleDone(j)
  <2>1. command' = [command EXCEPT ![The(j)] = "done"]
    BY <1>0, <1>a, <1>3, HostChanges DEF LifecycleDone
  <2> QED
    BY <1>0, <1>3, <2>1, ContainersKept DEF LifecycleDone, LetIn, keyRotationVars
<1>4. CASE LifecycleFails(j)
  <2>1. command' = [command EXCEPT ![The(j)] = "failed"]
    BY <1>0, <1>a, <1>4, HostChanges DEF LifecycleFails
  <2> QED
    BY <1>0, <1>4, <2>1, ContainersKept DEF LifecycleFails, keyRotationVars
<1>5. CASE LifecycleLost(j)
  <2>1. command[The(j)] = "running" /\ command' = [command EXCEPT ![The(j)] = "failed"] /\ UNCHANGED job
    BY <1>0, <1>a, <1>5, HostChanges DEF LifecycleLost, HostLost
  <2> QED
    BY <1>0, <1>5, <2>1, ContainersKept DEF LifecycleLost, AtWork, keyRotationVars
<1> QED
  BY <1>1, <1>2, <1>3, <1>4, <1>5 DEF Lifecycle

\* What queue, worker, writers, settings, Studio and scheduler do, and the Functions
\* service when it starts.
LEMMA OthersReference ==
  ASSUME ReferenceInv, BesideSaves, RunnerInv, Counted, Remembers,
         \/ Runner /\ UNCHANGED <<dataVars, runtimeVars>>
         \/ Write /\ UNCHANGED runtimeVars
         \/ Saves /\ UNCHANGED <<dataVars, rotationVars, keyRotationVars>>
         \/ Sync /\ UNCHANGED <<dataVars, keyRotationVars>>
         \/ /\ Studio \/ ScanReadsExpiry \/ KeysAge \/ \E on \in BOOLEAN : SetAutomatic(on)
            /\ UNCHANGED dataVars
  PROVE  ReferenceInv'
<1>0. ReferenceTypes
  BY DEF ReferenceInv, Steady
<1>1. CASE Runner /\ UNCHANGED <<dataVars, runtimeVars>>
  <2>1. UNCHANGED <<envRef, fileRef, gateway, up, ref, projection, withdrawn, journal, log, lines,
                    step, holder, raced, admitted, turn, copy, script, saved, oldRef>>
    BY <1>1 DEF dataVars, pointVars, hostVars, runtimeVars, serviceVars, containerVars, settingVars,
       rotationVars, scriptVars, keyRotationVars, keyScriptVars
  <2> QED
    BY <1>0, <1>1, <2>1, WorkRunsOn, AsideKept DEF ReferenceTypes
<1>2. CASE Write /\ UNCHANGED runtimeVars
  <2>1. UNCHANGED <<envRef, fileRef, gateway, up, ref, projection, withdrawn, journal, log, lines,
                    step, holder, raced, admitted, turn, copy, script, saved, oldRef, job, command>>
    BY <1>2 DEF Write, runnerVars, runtimeVars, serviceVars, containerVars, settingVars,
       rotationVars, scriptVars, keyRotationVars, keyScriptVars
  <2> QED
    BY <1>0, <2>1, AsideKept DEF ReferenceTypes
<1>3. CASE Saves /\ UNCHANGED <<dataVars, rotationVars, keyRotationVars>>
  <2>1. /\ UNCHANGED <<fileRef, gateway, up, ref, projection, withdrawn, journal, log, lines,
                       step, holder, raced, admitted, turn, copy, script, oldRef, job, command>>
        /\ \/ UNCHANGED <<envRef, saved>>
           \/ envRef' = draft.env /\ saves' = saves + 1
    BY <1>3 DEF Saves, ReadEnv, ReplaceEnv, SaveFails, dataVars, pointVars, hostVars, runnerVars,
       serviceVars, containerVars, settingVars, rotationVars, scriptVars, keyRotationVars, keyScriptVars
  <2>2. draft.saved \in [Entries -> Nat] /\ draft.env \in Refs \cup {Broken}
    BY <1>0 DEF ReferenceTypes, Drafts
  <2>3. saved' \in [Entries -> Nat]
    BY <1>0, <1>3, <2>2 DEF Saves, ReadEnv, ReplaceEnv, SaveFails, ReferenceTypes, Counted, serviceVars,
       settingVars
  <2>4. CASE envRef' = envRef
    BY <1>0, <2>1, <2>3, <2>4, AsideKept DEF ReferenceTypes
  <2>5. CASE envRef' # envRef
    <3>1. misplaced'
      <4>1. saves' # saves
        BY <2>1, <2>5 DEF Counted
      <4> QED
        BY <2>5, <4>1 DEF Remembers
    <3>2. ReferenceTypes'
      BY <1>0, <2>1, <2>2, <2>3 DEF ReferenceTypes, BesideSaves
    <3>3. ScriptHolds' /\ JournalTells'
      BY <2>1 DEF ReferenceInv, Steady, ScriptHolds, HolderRotates, Running, JournalTells
    <3> QED
      BY <3>1, <3>2, <3>3 DEF ReferenceInv, Steady
  <2> QED
    BY <2>4, <2>5
<1>4. CASE Sync /\ UNCHANGED <<dataVars, keyRotationVars>>
  <2>1. /\ UNCHANGED <<envRef, fileRef, gateway, up, ref, withdrawn, journal, log, lines, step, holder,
                       raced, admitted, turn, copy, script, saved, oldRef, job, command>>
        /\ step = "idle"
        /\ projection' = IF SyncPublishes THEN envRef ELSE None
    BY <1>4 DEF Sync, dataVars, pointVars, hostVars, runnerVars, serviceVars, containerVars, settingVars,
       keyRotationVars, keyScriptVars
  <2>2. \/ projection' = None /\ withdrawn' = withdrawn
        \/ projection' = envRef /\ withdrawn' = FALSE /\ step = "idle" /\ (misplaced' \/ envRef = ref)
    BY <1>0, <2>1 DEF SyncPublishes, ReferenceInv, BesideSaves, Agrees, WithdrawnWhileApart, ReferenceTypes
  <2>3. up' \in BOOLEAN
    BY <1>0, <2>1 DEF ReferenceTypes
  <2>4. \A k \in Jobs : script'[k] # "idle" =>
          Running(k, "restore_project")' /\ step = "idle" /\ (misplaced' \/ envRef = ref)
    BY <2>1 DEF ReferenceInv, BesideSaves, Steady, ScriptHolds, Agrees, TurnAgrees, Running
  <2>5. ReferenceTypes'
    <3>1. withdrawn' \in BOOLEAN /\ oldRef' \in [Rotations -> Refs]
      BY <1>0, <2>1 DEF ReferenceTypes
    <3>2. projection' \in {projection, None, envRef}
      BY <2>2
    <3> QED
      BY <1>0, <2>1, <2>3, <3>1, <3>2, EntryTypes
  <2>6. /\ \A k \in Rotations : oldRef'[k] \in {oldRef[k], ref}
        /\ \A k \in Jobs : job[k] # "absent" => job'[k] # "absent"
        /\ \A k \in Rotations \cup Recreations : RunsOn(k)
    BY <2>1 DEF RunsOn
  <2> QED
    BY <2>1, <2>2, <2>4, <2>5, <2>6, BesideKept
<1>5. CASE /\ Studio \/ ScanReadsExpiry \/ KeysAge \/ \E on \in BOOLEAN : SetAutomatic(on)
           /\ UNCHANGED dataVars
  <2>1. UNCHANGED <<envRef, fileRef, gateway, up, ref, projection, withdrawn, journal, log, lines,
                    step, holder, raced, admitted, turn, copy, script, saved, oldRef, job, command>>
    BY <1>5 DEF Studio, Promote, FetchKey, PublishKey, ScanReadsExpiry, KeysAge, SetAutomatic,
       dataVars, pointVars, hostVars, runnerVars, filesAndScript, serviceVars, containerVars,
       settingVars, rotationVars, scriptVars, keyRotationVars, keyScriptVars
  <2> QED
    BY <1>0, <2>1, AsideKept DEF ReferenceTypes
<1> QED
  BY <1>1, <1>2, <1>3, <1>4, <1>5

\* The agent lets a recreation in when .env and database agree, or refuses it.
LEMMA RevalidateReference ==
  ASSUME ReferenceInv, BesideSaves, RunnerInv, NEW j \in Jobs, AdmitRecreation(j) \/ RefuseRecreation(j),
         UNCHANGED <<dataVars, keyRotationVars>>
  PROVE  ReferenceInv'
<1>0. ReferenceTypes /\ script' = script /\ UNCHANGED <<turn, copy>>
  BY DEF ReferenceInv, Steady, dataVars, pointVars, hostVars, keyRotationVars, keyScriptVars
<1>1. CASE RefuseRecreation(j)
  <2>1. /\ j \in LifecycleJobs /\ AtWork(j) /\ admitted' = admitted \ {j}
        /\ UNCHANGED <<job, saved>> /\ UNCHANGED rotationVars
        /\ UNCHANGED <<containerVars, applied>>
    BY <1>1 DEF RefuseRecreation, serviceVars, settingVars
  <2>2. LifecycleLeaves(j)
    BY <2>1 DEF LifecycleLeaves
  <2>3. command' = [command EXCEPT ![The(j)] = "failed"]
    BY <1>1, IntentsTell, HostChanges DEF RefuseRecreation, LifecycleJobs, LifecycleActions, RunnerInv,
       RunnerTypes
  <2> QED
    BY <1>0, <2>1, <2>2, <2>3, ContainersKept DEF keyScriptVars
<1>2. CASE AdmitRecreation(j)
  <2>1. /\ UNCHANGED <<envRef, fileRef, gateway, up, ref, projection, withdrawn, journal, log, lines,
                       step, holder, script, saved, oldRef, job, command>>
        /\ admitted' = admitted \cup {j} /\ raced' = (raced \/ step # "idle")
        /\ envRef = ref /\ j \in Recreations /\ command[The(j)] = "running"
    BY <1>0, <1>2 DEF AdmitRecreation, SameReference, AtWork, Recreations, containerVars, scriptVars,
       runnerVars
  <2>2. ReferenceTypes'
    <3>1. raced' \in BOOLEAN
      BY <2>1
    <3> QED
      BY <1>0, <2>1, <3>1 DEF ReferenceTypes, BesideSaves
  <2>3. ScriptHolds' /\ JournalTells'
    BY <1>0, <2>1 DEF ReferenceInv, Steady, ScriptHolds, HolderRotates, Running, JournalTells
  <2>4. ASSUME ~misplaced' PROVE Agrees'
    <3>0. Agrees
      BY <2>4 DEF ReferenceInv, BesideSaves
    <3>1. FilesAgree' /\ Position' /\ TurnAgrees' /\ WithdrawnWhileApart'
      BY <1>0, <2>1, <3>0 DEF Agrees, FilesAgree, Position, TurnAgrees, WithdrawnWhileApart
    <3>2. Excused => Excused'
      BY <2>1 DEF Excused, StartedAsItWas
    <3>3. StoppedWhileApart'
      BY <2>1, <3>0, <3>2 DEF Agrees, StoppedWhileApart
    <3> QED
      BY <3>1, <3>3 DEF Agrees
  <2> QED
    BY <2>2, <2>3, <2>4 DEF ReferenceInv, Steady
<1> QED
  BY <1>1, <1>2

\* The runner of a rotation.
LEMMA RotationReference ==
  ASSUME ReferenceInv, BesideSaves, RunnerInv, NEW j \in Jobs, UNCHANGED <<dataVars, keyRotationVars>>,
         \/ AcceptRotation(j) \/ CompensateRotation(j) \/ RotationBegins(j) \/ RotationConfirms(j)
         \/ RotationRaises(j) \/ RotationFails(j)
  PROVE  ReferenceInv'
<1>0. RunnerTypes /\ ReferenceTypes /\ script' = script
  BY DEF RunnerInv, ReferenceInv, Steady, dataVars, pointVars, hostVars
<1>1. /\ UNCHANGED <<envRef, fileRef, gateway, up, ref, projection, withdrawn, journal, log, lines,
                    step, holder, raced, admitted, turn, copy, saved>>
      /\ oldRef' = oldRef \/ oldRef' = [oldRef EXCEPT ![j] = ref]
  BY DEF AcceptRotation, CompensateRotation, RotationBegins, RotationConfirms, RotationRaises,
     RotationFails, serviceVars, containerVars, settingVars, rotationVars, scriptVars, keyRotationVars,
     keyScriptVars
<1>2. /\ job' = job \/ \E s \in {"queued", "running", "done", "failed"} : Settle(j, s)
      /\ command' = command \/ (The(j) \in Intents /\ Action[j] # "delete" /\ AttachIntent(The(j)))
  BY IntentsTell DEF AcceptRotation, AcceptJob, CompensateRotation, RotationBegins, RotationConfirms,
     RotationRaises, RotationFails, Rotations
<1>3. \A k \in Jobs : job[k] # "absent" => job'[k] # "absent"
  BY <1>0, <1>2 DEF RunnerTypes, Settle
<1>4. \A i \in Intents : command[i] = "running" => command'[i] = "running"
  BY <1>0, <1>2, AttachSubmits DEF RunnerTypes
<1>5. oldRef' \in [Rotations -> Refs] /\ \A k \in Rotations : oldRef'[k] \in {oldRef[k], ref}
  BY <1>0, <1>1 DEF ReferenceTypes
<1> QED
  BY <1>0, <1>1, <1>3, <1>4, <1>5, AsideKept DEF ReferenceTypes

\* What a step of the script that has the lock of the rotations has to leave.
ScriptAgrees ==
  /\ FilesAgree /\ Position /\ WithdrawnWhileApart
  /\ up => gateway \in {ref, Broken} \/ Excused
  /\ step \in Stopping /\ up => Excused

\* What is left to show of such a step.
LEMMA ScriptKept ==
  ASSUME ReferenceInv, BesideSaves, RunnerInv, step # "idle",
         UNCHANGED <<job, script, holder, admitted, oldRef, raced, turn, copy>>,
         \/ command' = command /\ (step' \in {"last_stop"} \cup Forward => holder \in Rotations)
         \/ /\ holder \in Rotations /\ step' = "idle"
            /\ \E status : command' = [command EXCEPT ![The(holder)] = status],
         ReferenceTypes', JournalTells', Agrees => ScriptAgrees'
  PROVE  ReferenceInv'
<1>0. turn = "idle" /\ (\A j \in Jobs : script[j] = "idle") /\ admitted \subseteq Recreations
  BY DEF ReferenceInv, Steady, ScriptHolds
<1>1. ScriptHolds'
  <2>1. HolderRotates'
    BY DEF HolderRotates, Forward
  <2>2. (step' # "idle" /\ holder' \in Rotations => command'[The(holder')] = "running")
    BY DEF ReferenceInv, Steady, ScriptHolds
  <2>3. ASSUME NEW k \in admitted' PROVE k \in Recreations /\ command'[The(k)] = "running"
    <3>1. k \in Recreations /\ command[The(k)] = "running"
      BY DEF ReferenceInv, Steady, ScriptHolds
    <3>2. holder \in Rotations => The(k) # The(holder)
      BY <3>1 DEF Recreations, Rotations, The
    <3>3. The(k) \in Intents
      BY <3>1, IntentsTell DEF Recreations, LifecycleJobs
    <3> QED
      BY <3>1, <3>2, <3>3 DEF RunnerInv, RunnerTypes
  <2> QED
    BY <1>0, <2>1, <2>2, <2>3 DEF ScriptHolds
<1>2. ASSUME ~misplaced' PROVE Agrees'
  <2>0. Agrees
    BY <1>2 DEF ReferenceInv, BesideSaves
  <2>1. admitted' = {} \/ raced'
    BY <2>0 DEF Agrees, StoppedWhileApart
  <2>2. StoppedWhileApart'
    BY <2>0, <2>1 DEF ScriptAgrees, StoppedWhileApart
  <2>3. TurnAgrees'
    BY <1>0 DEF TurnAgrees, Turns
  <2> QED
    BY <2>0, <2>2, <2>3 DEF ScriptAgrees, Agrees
<1> QED
  BY <1>1, <1>2 DEF ReferenceInv, Steady

\* A step of the script that ends half done leaves what a rollback can put right.
LEMMA HalfwayTells ==
  ASSUME ReferenceInv, BesideSaves, Halfway, UNCHANGED <<job, holder, oldRef, raced, turn, copy>>,
         step' \in {"idle", "last_stop"} \/ (step \in InTry /\ step' = "rb_withdraw")
  PROVE  ReferenceTypes' /\ JournalTells' /\ (Agrees => ScriptAgrees')
<1> USE DEF ReferenceInv, Steady
<1>0. /\ ReferenceTypes /\ JournalTells /\ UNCHANGED <<job, holder, oldRef, raced, turn, copy>>
      /\ step' \in {"idle", "last_stop"} \/ (step \in InTry /\ step' = "rb_withdraw")
  OBVIOUS
<1>e. Excused' <=> Excused
  BY DEF Excused, StartedAsItWas
<1>1. CASE UNCHANGED <<ref, containerVars, saved, applied, projection, withdrawn, journal, log, lines>>
  <2>1. ReferenceTypes'
    BY <1>0, <1>1 DEF ReferenceTypes, BesideSaves, containerVars, Forward, Backward
  <2>2. JournalTells'
    BY <1>0, <1>1 DEF JournalTells, containerVars, InTry, Backward
  <2>3. ASSUME Agrees PROVE ScriptAgrees'
    <3>1. FilesAgree'
      BY <1>0, <1>1, <2>3 DEF Agrees, JournalTells, FilesAgree, Position, containerVars, InTry, Backward
    <3>2. Position'
      BY <1>0, <1>1, <2>3 DEF Agrees, JournalTells, FilesAgree, Position, containerVars, InTry, Backward
    <3>3. WithdrawnWhileApart'
      BY <1>0, <1>1, <2>3 DEF Agrees, JournalTells, Position, WithdrawnWhileApart, containerVars, InTry
    <3>4. (up' => gateway' \in {ref', Broken} \/ Excused') /\ (step' \in Stopping /\ up' => Excused')
      BY <1>0, <1>e, <1>1, <2>3 DEF Agrees, JournalTells, FilesAgree, Position, StoppedWhileApart,
         Stopping, containerVars, InTry
    <3> QED
      BY <3>1, <3>2, <3>3, <3>4 DEF ScriptAgrees
  <2> QED
    BY <2>1, <2>2, <2>3
<1>2. CASE /\ step \in {"withdraw", "rb_withdraw"} /\ withdrawn' = TRUE
           /\ UNCHANGED <<ref, containerVars, saved, applied, projection, journal, log, lines>>
  <2>1. ReferenceTypes'
    BY <1>0, <1>2 DEF ReferenceTypes, BesideSaves, containerVars, Forward, Backward
  <2>2. JournalTells'
    BY <1>0, <1>2 DEF JournalTells, containerVars, InTry, Backward
  <2>3. ASSUME Agrees PROVE ScriptAgrees'
    <3>1. FilesAgree'
      BY <1>0, <1>2, <2>3 DEF Agrees, JournalTells, FilesAgree, Position, containerVars, InTry, Backward
    <3>2. Position'
      BY <1>0, <1>2, <2>3 DEF Agrees, JournalTells, FilesAgree, Position, containerVars, InTry, Backward
    <3>3. WithdrawnWhileApart'
      BY <1>0, <1>2, <2>3 DEF Agrees, JournalTells, Position, WithdrawnWhileApart, containerVars, InTry
    <3>4. (up' => gateway' \in {ref', Broken} \/ Excused') /\ (step' \in Stopping /\ up' => Excused')
      BY <1>0, <1>e, <1>2, <2>3 DEF Agrees, JournalTells, FilesAgree, Position, StoppedWhileApart,
         Stopping, containerVars, InTry
    <3> QED
      BY <3>1, <3>2, <3>3, <3>4 DEF ScriptAgrees
  <2> QED
    BY <2>1, <2>2, <2>3
<1>3. CASE step \in {"stop", "rb_stop", "last_stop"} /\ StopGateway
  <2>1. ReferenceTypes'
    <3>1. up' \in BOOLEAN /\ step' \in {"idle"} \cup Forward \cup Backward
      BY <1>0, <1>3 DEF StopGateway, Forward, Backward
    <3> QED
      BY <1>0, <1>3, <3>1 DEF ReferenceTypes, BesideSaves, StopGateway
  <2>2. JournalTells'
    BY <1>0, <1>3 DEF JournalTells, StopGateway, InTry, Backward
  <2>3. ASSUME Agrees PROVE ScriptAgrees'
    <3>1. FilesAgree'
      BY <1>0, <1>3, <2>3 DEF Agrees, JournalTells, FilesAgree, Position, StopGateway, InTry, Backward
    <3>2. Position'
      BY <1>0, <1>3, <2>3 DEF Agrees, JournalTells, FilesAgree, Position, StopGateway, InTry, Backward
    <3>3. WithdrawnWhileApart'
      BY <1>0, <1>3, <2>3 DEF Agrees, JournalTells, Position, WithdrawnWhileApart, StopGateway, InTry
    <3>4. (up' => gateway' \in {ref', Broken} \/ Excused') /\ (step' \in Stopping /\ up' => Excused')
      BY <1>0, <1>e, <1>3, <2>3 DEF Agrees, JournalTells, FilesAgree, Position, StoppedWhileApart,
         Stopping, StopGateway, InTry
    <3> QED
      BY <3>1, <3>2, <3>3, <3>4 DEF ScriptAgrees
  <2> QED
    BY <2>1, <2>2, <2>3
<1>4. CASE \/ step = "render" /\ WriteFiles(log.new, lines.saved, fileRef)
           \/ step = "generate" /\ WriteFiles(envRef, saved, Broken)
           \/ step = "rb_files" /\ WriteFiles(log.env, log.saved, Broken)
  <2>1. ReferenceTypes'
    BY <1>0, <1>4 DEF ReferenceTypes, BesideSaves, WriteFiles, Forward, Backward
  <2>2. JournalTells'
    BY <1>0, <1>4 DEF JournalTells, WriteFiles, InTry, Backward
  <2>3. ASSUME Agrees PROVE ScriptAgrees'
    <3>1. FilesAgree'
      BY <1>0, <1>4, <2>3 DEF Agrees, JournalTells, FilesAgree, Position, WriteFiles, InTry, Backward
    <3>2. Position'
      BY <1>0, <1>4, <2>3 DEF Agrees, JournalTells, FilesAgree, Position, WriteFiles, InTry, Backward
    <3>3. WithdrawnWhileApart'
      BY <1>0, <1>4, <2>3 DEF Agrees, JournalTells, Position, WithdrawnWhileApart, WriteFiles, InTry
    <3>4. (up' => gateway' \in {ref', Broken} \/ Excused') /\ (step' \in Stopping /\ up' => Excused')
      BY <1>0, <1>e, <1>4, <2>3 DEF Agrees, JournalTells, FilesAgree, Position, StoppedWhileApart,
         Stopping, WriteFiles, InTry
    <3> QED
      BY <3>1, <3>2, <3>3, <3>4 DEF ScriptAgrees
  <2> QED
    BY <2>1, <2>2, <2>3
<1>5. CASE step = "swap" /\ ref = log.old /\ SwapReference(log.new)
  <2>1. ReferenceTypes'
    BY <1>0, <1>5 DEF ReferenceTypes, BesideSaves, SwapReference, containerVars, Forward, Backward
  <2>2. JournalTells'
    BY <1>0, <1>5 DEF JournalTells, SwapReference, containerVars, InTry, Backward
  <2>3. ASSUME Agrees PROVE ScriptAgrees'
    <3>1. FilesAgree'
      BY <1>0, <1>5, <2>3 DEF Agrees, JournalTells, FilesAgree, Position, SwapReference, containerVars,
         InTry, Backward
    <3>2. Position'
      BY <1>0, <1>5, <2>3 DEF Agrees, JournalTells, FilesAgree, Position, SwapReference, containerVars,
         InTry, Backward
    <3>3. WithdrawnWhileApart'
      BY <1>0, <1>5, <2>3 DEF Agrees, JournalTells, Position, WithdrawnWhileApart, SwapReference,
         containerVars, InTry
    <3>4. (up' => gateway' \in {ref', Broken} \/ Excused') /\ (step' \in Stopping /\ up' => Excused')
      BY <1>0, <1>e, <1>5, <2>3 DEF Agrees, JournalTells, FilesAgree, Position, StoppedWhileApart,
         Stopping, SwapReference, containerVars, InTry
    <3> QED
      BY <3>1, <3>2, <3>3, <3>4 DEF ScriptAgrees
  <2> QED
    BY <2>1, <2>2, <2>3
<1>6. CASE step \in {"restart", "rb_restart"} /\ RestartGateway
  <2>0. /\ UNCHANGED <<ref, envRef, fileRef, saved, projection, withdrawn, journal, log, lines>>
        /\ \/ gateway' \in {fileRef, envRef} /\ up' = TRUE
           \/ UNCHANGED <<gateway, up>>
    BY <1>6 DEF RestartGateway
  <2>1. ReferenceTypes'
    <3>1. up' \in BOOLEAN /\ gateway' \in Refs \cup {Broken}
      BY <2>0 DEF ReferenceTypes
    <3> QED
      BY <1>0, <1>6, <2>0, <3>1 DEF ReferenceTypes, BesideSaves, Forward, Backward
  <2>2. JournalTells'
    BY <1>0, <1>6, <2>0 DEF JournalTells, InTry, Backward
  <2>3. ASSUME Agrees PROVE ScriptAgrees'
    <3>1. FilesAgree'
      BY <1>0, <1>6, <2>0, <2>3 DEF Agrees, JournalTells, FilesAgree, Position, InTry, Backward
    <3>2. Position'
      BY <1>0, <1>6, <2>0, <2>3 DEF Agrees, JournalTells, FilesAgree, Position, InTry, Backward
    <3>3. WithdrawnWhileApart'
      BY <1>0, <1>6, <2>0, <2>3 DEF Agrees, JournalTells, Position, WithdrawnWhileApart, InTry
    <3>4. (up' => gateway' \in {ref', Broken} \/ Excused') /\ (step' \in Stopping /\ up' => Excused')
      BY <1>0, <1>e, <1>6, <2>0, <2>3 DEF Agrees, JournalTells, FilesAgree, Position, StoppedWhileApart,
         Stopping, InTry
    <3> QED
      BY <3>1, <3>2, <3>3, <3>4 DEF ScriptAgrees
  <2> QED
    BY <2>1, <2>2, <2>3
<1>7. CASE /\ step \in {"publish", "rb_publish"} /\ projection' = envRef
           /\ UNCHANGED <<ref, containerVars, saved, applied, withdrawn, journal, log, lines>>
  <2>1. ReferenceTypes'
    BY <1>0, <1>7 DEF ReferenceTypes, BesideSaves, containerVars, Forward, Backward
  <2>2. JournalTells'
    BY <1>0, <1>7 DEF JournalTells, containerVars, InTry, Backward
  <2>3. ASSUME Agrees PROVE ScriptAgrees'
    <3>1. FilesAgree'
      BY <1>0, <1>7, <2>3 DEF Agrees, JournalTells, FilesAgree, Position, containerVars, InTry, Backward
    <3>2. Position'
      BY <1>0, <1>7, <2>3 DEF Agrees, JournalTells, FilesAgree, Position, containerVars, InTry, Backward
    <3>3. WithdrawnWhileApart'
      BY <1>0, <1>7, <2>3 DEF Agrees, JournalTells, Position, WithdrawnWhileApart, containerVars, InTry
    <3>4. (up' => gateway' \in {ref', Broken} \/ Excused') /\ (step' \in Stopping /\ up' => Excused')
      BY <1>0, <1>e, <1>7, <2>3 DEF Agrees, JournalTells, FilesAgree, Position, StoppedWhileApart,
         Stopping, containerVars, InTry
    <3> QED
      BY <3>1, <3>2, <3>3, <3>4 DEF ScriptAgrees
  <2> QED
    BY <2>1, <2>2, <2>3
<1>8. CASE \/ step = "mkdir" /\ SetJournal("bare")
           \/ step \in {"cleanup", "rb_cleanup"} /\ \E rest \in {"bare", "none"} : SetJournal(rest)
  <2>1. ReferenceTypes'
    BY <1>0, <1>8 DEF ReferenceTypes, BesideSaves, SetJournal, containerVars, Forward, Backward
  <2>2. JournalTells'
    BY <1>0, <1>8 DEF JournalTells, SetJournal, containerVars, InTry, Backward
  <2>3. ASSUME Agrees PROVE ScriptAgrees'
    <3>1. FilesAgree'
      BY <1>0, <1>8, <2>3 DEF Agrees, JournalTells, FilesAgree, Position, SetJournal, containerVars,
         InTry, Backward
    <3>2. Position'
      BY <1>0, <1>8, <2>3 DEF Agrees, JournalTells, FilesAgree, Position, SetJournal, containerVars,
         InTry, Backward
    <3>3. WithdrawnWhileApart'
      BY <1>0, <1>8, <2>3 DEF Agrees, JournalTells, Position, WithdrawnWhileApart, SetJournal,
         containerVars, InTry
    <3>4. (up' => gateway' \in {ref', Broken} \/ Excused') /\ (step' \in Stopping /\ up' => Excused')
      BY <1>0, <1>e, <1>8, <2>3 DEF Agrees, JournalTells, FilesAgree, Position, StoppedWhileApart,
         Stopping, SetJournal, containerVars, InTry
    <3> QED
      BY <3>1, <3>2, <3>3, <3>4 DEF ScriptAgrees
  <2> QED
    BY <2>1, <2>2, <2>3
<1> QED
  BY <1>1, <1>2, <1>3, <1>4, <1>5, <1>6, <1>7, <1>8 DEF Halfway

\* The script of a rotation takes the lock and looks around.
LEMMA ScriptStarts ==
  ASSUME ReferenceInv, BesideSaves, RunnerInv, NEW j \in Jobs, ScriptBegins(j) \/ Preflight(j),
         UNCHANGED <<dataVars, keyRotationVars>>,
         ScriptBegins(j) => turn = "idle" /\ \A k \in Jobs : script[k] = "idle"
  PROVE  ReferenceInv'
<1> USE DEF ReferenceInv, Steady
<1>0. /\ UNCHANGED <<envRef, fileRef, gateway, up, ref, projection, withdrawn, journal, log, lines,
                     raced, admitted, script, saved, oldRef, job, command, turn, copy>>
      /\ \/ step = "idle" /\ step' = "preflight" /\ holder' = j /\ command[The(j)] = "running"
            /\ j \in Rotations /\ turn = "idle" /\ \A k \in Jobs : script[k] = "idle"
         \/ step = "preflight" /\ step' = "mkdir" /\ holder' = holder /\ PreflightOK(j) /\ holder = j
            /\ j \in Rotations
  BY DEF ScriptBegins, Preflight, Held, runnerVars, serviceVars, containerVars, settingVars, dataVars,
     pointVars, hostVars, keyRotationVars, keyScriptVars
<1>1. ReferenceTypes'
  BY <1>0 DEF ReferenceTypes, BesideSaves, Forward
<1>2. ScriptHolds'
  BY <1>0 DEF ScriptHolds, HolderRotates, Forward, Running
<1>3. JournalTells'
  BY <1>0 DEF JournalTells, PreflightOK, InTry, Backward
<1>4. ASSUME Agrees PROVE Agrees'
  <2>1. FilesAgree' /\ WithdrawnWhileApart'
    BY <1>0, <1>4 DEF Agrees, FilesAgree, WithdrawnWhileApart
  <2>2. Position'
    BY <1>0, <1>4 DEF Agrees, Position, PreflightOK
  <2>3. TurnAgrees'
    BY <1>0, <1>4 DEF Agrees, TurnAgrees
  <2>4. Excused' <=> Excused
    BY <1>0 DEF Excused, StartedAsItWas
  <2>5. ASSUME step = "idle", NEW k \in admitted PROVE FALSE
    <3>1. k \in Recreations /\ command[The(k)] = "running"
      BY <2>5 DEF ScriptHolds
    <3>2. The(k) # The(j) /\ The(k) \in Intents /\ The(j) \in Intents
      BY <1>0, <3>1, IntentsTell DEF Recreations, Rotations, The, LifecycleJobs
    <3> QED
      BY <1>0, <2>5, <3>1, <3>2 DEF RunnerInv, OneRuns
  <2>6. StoppedWhileApart'
    BY <1>0, <1>4, <2>4, <2>5 DEF Agrees, StoppedWhileApart, Stopping
  <2> QED
    BY <2>1, <2>2, <2>3, <2>6 DEF Agrees
<1> QED
  BY <1>1, <1>2, <1>3, <1>4 DEF BesideSaves

\* Every step of a rotation that goes well.
LEMMA ScriptAdvances ==
  ASSUME ReferenceInv, BesideSaves, RunnerInv, NEW j \in Jobs, Advance(j),
         UNCHANGED <<dataVars, keyRotationVars>>
  PROVE  ReferenceInv'
<1> USE DEF ReferenceInv, Steady
<1>0. /\ UNCHANGED <<job, script, holder, admitted, oldRef, raced, command, turn, copy>>
      /\ j \in Rotations /\ holder = j /\ step # "idle"
  BY DEF Advance, Held, outside, runnerVars, dataVars, pointVars, hostVars, keyRotationVars, keyScriptVars
<1>e. Excused' <=> Excused
  BY <1>0 DEF Excused, StartedAsItWas
<1>a. NewRef[j] \in Refs /\ oldRef[j] \in Refs
  BY <1>0, ReferencesTell DEF ReferenceTypes
<1>1. CASE step = "mkdir" /\ step' = "prepare" /\ SetJournal("bare")
  <2>1. ReferenceTypes'
    BY <1>0, <1>1 DEF ReferenceTypes, BesideSaves, SetJournal, containerVars, Forward, Backward
  <2>2. JournalTells'
    BY <1>0, <1>1 DEF JournalTells, SetJournal, containerVars, InTry, Backward
  <2>3. ASSUME Agrees PROVE ScriptAgrees'
    <3>1. FilesAgree'
      BY <1>0, <1>1, <2>3 DEF Agrees, JournalTells, FilesAgree, Position, SetJournal, containerVars,
         InTry, Backward
    <3>2. Position'
      BY <1>0, <1>1, <2>3 DEF Agrees, JournalTells, FilesAgree, Position, SetJournal, containerVars,
         InTry, Backward
    <3>3. WithdrawnWhileApart'
      BY <1>0, <1>1, <2>3 DEF Agrees, JournalTells, Position, WithdrawnWhileApart, SetJournal,
         containerVars, InTry
    <3>4. (up' => gateway' \in {ref', Broken} \/ Excused') /\ (step' \in Stopping /\ up' => Excused')
      BY <1>0, <1>e, <1>1, <2>3 DEF Agrees, JournalTells, FilesAgree, Position, StoppedWhileApart,
         Stopping, SetJournal, containerVars, InTry
    <3> QED
      BY <3>1, <3>2, <3>3, <3>4 DEF ScriptAgrees
  <2> QED
    BY <1>0, <1>1, <2>1, <2>2, <2>3, ScriptKept DEF Forward
<1>2. CASE /\ step = "prepare" /\ step' = "withdraw"
           /\ journal' = "complete"
           /\ log' = [old |-> oldRef[j], new |-> NewRef[j], running |-> up, saved |-> saved,
                      env |-> envRef, files |-> fileRef]
           /\ UNCHANGED <<ref, containerVars, saved, applied, projection, withdrawn, lines>>
  <2>1. ReferenceTypes'
    BY <1>0, <1>2, <1>a DEF ReferenceTypes, BesideSaves, containerVars, Forward, Backward
  <2>2. JournalTells'
    BY <1>0, <1>2, <1>a DEF JournalTells, containerVars, InTry, Backward
  <2>3. ASSUME Agrees PROVE ScriptAgrees'
    <3>1. FilesAgree'
      BY <1>0, <1>2, <2>3, <1>a DEF Agrees, JournalTells, FilesAgree, Position, containerVars, InTry, Backward
    <3>2. Position'
      BY <1>0, <1>2, <2>3, <1>a DEF Agrees, JournalTells, FilesAgree, Position, containerVars, InTry, Backward
    <3>3. WithdrawnWhileApart'
      BY <1>0, <1>2, <2>3, <1>a DEF Agrees, JournalTells, Position, WithdrawnWhileApart, containerVars, InTry
    <3>4. (up' => gateway' \in {ref', Broken} \/ Excused') /\ (step' \in Stopping /\ up' => Excused')
      BY <1>0, <1>e, <1>2, <2>3, <1>a DEF Agrees, JournalTells, FilesAgree, Position, StoppedWhileApart,
         Stopping, containerVars, InTry
    <3> QED
      BY <3>1, <3>2, <3>3, <3>4 DEF ScriptAgrees
  <2> QED
    BY <1>0, <1>2, <2>1, <2>2, <2>3, ScriptKept DEF Forward
<1>3. CASE step = "withdraw" /\ step' = "stop" /\ Withdraw
  <2>1. ReferenceTypes'
    BY <1>0, <1>3 DEF ReferenceTypes, BesideSaves, Withdraw, containerVars, Forward, Backward
  <2>2. JournalTells'
    BY <1>0, <1>3 DEF JournalTells, Withdraw, containerVars, InTry, Backward
  <2>3. ASSUME Agrees PROVE ScriptAgrees'
    <3>1. FilesAgree'
      BY <1>0, <1>3, <2>3 DEF Agrees, JournalTells, FilesAgree, Position, Withdraw, containerVars, InTry,
         Backward
    <3>2. Position'
      BY <1>0, <1>3, <2>3 DEF Agrees, JournalTells, FilesAgree, Position, Withdraw, containerVars, InTry,
         Backward
    <3>3. WithdrawnWhileApart'
      BY <1>0, <1>3, <2>3 DEF Agrees, JournalTells, Position, WithdrawnWhileApart, Withdraw,
         containerVars, InTry
    <3>4. (up' => gateway' \in {ref', Broken} \/ Excused') /\ (step' \in Stopping /\ up' => Excused')
      BY <1>0, <1>e, <1>3, <2>3 DEF Agrees, JournalTells, FilesAgree, Position, StoppedWhileApart,
         Stopping, Withdraw, containerVars, InTry
    <3> QED
      BY <3>1, <3>2, <3>3, <3>4 DEF ScriptAgrees
  <2> QED
    BY <1>0, <1>3, <2>1, <2>2, <2>3, ScriptKept DEF Forward
<1>4. CASE step = "stop" /\ step' = "read" /\ StopGateway
  <2>1. ReferenceTypes'
    <3>1. up' \in BOOLEAN /\ step' \in {"idle"} \cup Forward \cup Backward
      BY <1>0, <1>4 DEF StopGateway, Forward, Backward
    <3> QED
      BY <1>0, <1>4, <3>1 DEF ReferenceTypes, BesideSaves, StopGateway
  <2>2. JournalTells'
    BY <1>0, <1>4 DEF JournalTells, StopGateway, InTry, Backward
  <2>3. ASSUME Agrees PROVE ScriptAgrees'
    <3>1. FilesAgree'
      BY <1>0, <1>4, <2>3 DEF Agrees, JournalTells, FilesAgree, Position, StopGateway, InTry, Backward
    <3>2. Position'
      BY <1>0, <1>4, <2>3 DEF Agrees, JournalTells, FilesAgree, Position, StopGateway, InTry, Backward
    <3>3. WithdrawnWhileApart'
      BY <1>0, <1>4, <2>3 DEF Agrees, JournalTells, Position, WithdrawnWhileApart, StopGateway, InTry
    <3>4. (up' => gateway' \in {ref', Broken} \/ Excused') /\ (step' \in Stopping /\ up' => Excused')
      BY <1>0, <1>e, <1>4, <2>3 DEF Agrees, JournalTells, FilesAgree, Position, StoppedWhileApart,
         Stopping, StopGateway, InTry
    <3> QED
      BY <3>1, <3>2, <3>3, <3>4 DEF ScriptAgrees
  <2> QED
    BY <1>0, <1>4, <2>1, <2>2, <2>3, ScriptKept DEF Forward
<1>5. CASE /\ step = "read" /\ step' = "render"
           /\ lines' = [env |-> envRef, saved |-> saved]
           /\ UNCHANGED <<ref, containerVars, saved, applied, projection, withdrawn, journal, log>>
  <2>1. ReferenceTypes'
    BY <1>0, <1>5 DEF ReferenceTypes, BesideSaves, containerVars, Forward, Backward
  <2>2. JournalTells'
    BY <1>0, <1>5 DEF JournalTells, containerVars, InTry, Backward
  <2>3. ASSUME Agrees PROVE ScriptAgrees'
    <3>1. FilesAgree'
      BY <1>0, <1>5, <2>3 DEF Agrees, JournalTells, FilesAgree, Position, containerVars, InTry, Backward
    <3>2. Position'
      BY <1>0, <1>5, <2>3 DEF Agrees, JournalTells, FilesAgree, Position, containerVars, InTry, Backward
    <3>3. WithdrawnWhileApart'
      BY <1>0, <1>5, <2>3 DEF Agrees, JournalTells, Position, WithdrawnWhileApart, containerVars, InTry
    <3>4. (up' => gateway' \in {ref', Broken} \/ Excused') /\ (step' \in Stopping /\ up' => Excused')
      BY <1>0, <1>e, <1>5, <2>3 DEF Agrees, JournalTells, FilesAgree, Position, StoppedWhileApart,
         Stopping, containerVars, InTry
    <3> QED
      BY <3>1, <3>2, <3>3, <3>4 DEF ScriptAgrees
  <2> QED
    BY <1>0, <1>5, <2>1, <2>2, <2>3, ScriptKept DEF Forward
<1>6. CASE step = "render" /\ step' = "generate" /\ WriteFiles(NewRef[j], lines.saved, fileRef)
  <2>1. ReferenceTypes'
    BY <1>0, <1>6, <1>a DEF ReferenceTypes, BesideSaves, WriteFiles, Forward, Backward
  <2>2. JournalTells'
    BY <1>0, <1>6, <1>a DEF JournalTells, WriteFiles, InTry, Backward
  <2>3. ASSUME Agrees PROVE ScriptAgrees'
    <3>1. FilesAgree'
      BY <1>0, <1>6, <2>3, <1>a DEF Agrees, JournalTells, FilesAgree, Position, WriteFiles, InTry, Backward
    <3>2. Position'
      BY <1>0, <1>6, <2>3, <1>a DEF Agrees, JournalTells, FilesAgree, Position, WriteFiles, InTry, Backward
    <3>3. WithdrawnWhileApart'
      BY <1>0, <1>6, <2>3, <1>a DEF Agrees, JournalTells, Position, WithdrawnWhileApart, WriteFiles, InTry
    <3>4. (up' => gateway' \in {ref', Broken} \/ Excused') /\ (step' \in Stopping /\ up' => Excused')
      BY <1>0, <1>e, <1>6, <2>3, <1>a DEF Agrees, JournalTells, FilesAgree, Position, StoppedWhileApart,
         Stopping, WriteFiles, InTry
    <3> QED
      BY <3>1, <3>2, <3>3, <3>4 DEF ScriptAgrees
  <2> QED
    BY <1>0, <1>6, <2>1, <2>2, <2>3, ScriptKept DEF Forward
<1>7. CASE step = "generate" /\ step' = "swap" /\ WriteFiles(envRef, saved, envRef)
  <2>1. ReferenceTypes'
    BY <1>0, <1>7 DEF ReferenceTypes, BesideSaves, WriteFiles, Forward, Backward
  <2>2. JournalTells'
    BY <1>0, <1>7 DEF JournalTells, WriteFiles, InTry, Backward
  <2>3. ASSUME Agrees PROVE ScriptAgrees'
    <3>1. FilesAgree'
      BY <1>0, <1>7, <2>3 DEF Agrees, JournalTells, FilesAgree, Position, WriteFiles, InTry, Backward
    <3>2. Position'
      BY <1>0, <1>7, <2>3 DEF Agrees, JournalTells, FilesAgree, Position, WriteFiles, InTry, Backward
    <3>3. WithdrawnWhileApart'
      BY <1>0, <1>7, <2>3 DEF Agrees, JournalTells, Position, WithdrawnWhileApart, WriteFiles, InTry
    <3>4. (up' => gateway' \in {ref', Broken} \/ Excused') /\ (step' \in Stopping /\ up' => Excused')
      BY <1>0, <1>e, <1>7, <2>3 DEF Agrees, JournalTells, FilesAgree, Position, StoppedWhileApart,
         Stopping, WriteFiles, InTry
    <3> QED
      BY <3>1, <3>2, <3>3, <3>4 DEF ScriptAgrees
  <2> QED
    BY <1>0, <1>7, <2>1, <2>2, <2>3, ScriptKept DEF Forward
<1>8. CASE step = "swap" /\ step' = "restart" /\ ref = oldRef[j] /\ SwapReference(NewRef[j])
  <2>1. ReferenceTypes'
    BY <1>0, <1>8, <1>a DEF ReferenceTypes, BesideSaves, SwapReference, containerVars, Forward, Backward
  <2>2. JournalTells'
    BY <1>0, <1>8, <1>a DEF JournalTells, SwapReference, containerVars, InTry, Backward
  <2>3. ASSUME Agrees PROVE ScriptAgrees'
    <3>1. FilesAgree'
      BY <1>0, <1>8, <2>3, <1>a DEF Agrees, JournalTells, FilesAgree, Position, SwapReference,
         containerVars, InTry, Backward
    <3>2. Position'
      BY <1>0, <1>8, <2>3, <1>a DEF Agrees, JournalTells, FilesAgree, Position, SwapReference,
         containerVars, InTry, Backward
    <3>3. WithdrawnWhileApart'
      BY <1>0, <1>8, <2>3, <1>a DEF Agrees, JournalTells, Position, WithdrawnWhileApart, SwapReference,
         containerVars, InTry
    <3>4. (up' => gateway' \in {ref', Broken} \/ Excused') /\ (step' \in Stopping /\ up' => Excused')
      BY <1>0, <1>e, <1>8, <2>3, <1>a DEF Agrees, JournalTells, FilesAgree, Position, StoppedWhileApart,
         Stopping, SwapReference, containerVars, InTry
    <3> QED
      BY <3>1, <3>2, <3>3, <3>4 DEF ScriptAgrees
  <2> QED
    BY <1>0, <1>8, <2>1, <2>2, <2>3, ScriptKept DEF Forward
<1>9. CASE step = "restart" /\ step' = "publish" /\ RestartGateway
  <2>0. /\ UNCHANGED <<ref, envRef, fileRef, saved, projection, withdrawn, journal, log, lines>>
        /\ \/ gateway' \in {fileRef, envRef} /\ up' = TRUE
           \/ UNCHANGED <<gateway, up>>
    BY <1>9 DEF RestartGateway
  <2>1. ReferenceTypes'
    <3>1. up' \in BOOLEAN /\ gateway' \in Refs \cup {Broken}
      BY <2>0 DEF ReferenceTypes
    <3> QED
      BY <1>0, <1>9, <2>0, <3>1 DEF ReferenceTypes, BesideSaves, Forward, Backward
  <2>2. JournalTells'
    BY <1>0, <1>9, <2>0 DEF JournalTells, InTry, Backward
  <2>3. ASSUME Agrees PROVE ScriptAgrees'
    <3>1. FilesAgree'
      BY <1>0, <1>9, <2>0, <2>3 DEF Agrees, JournalTells, FilesAgree, Position, InTry, Backward
    <3>2. Position'
      BY <1>0, <1>9, <2>0, <2>3 DEF Agrees, JournalTells, FilesAgree, Position, InTry, Backward
    <3>3. WithdrawnWhileApart'
      BY <1>0, <1>9, <2>0, <2>3 DEF Agrees, JournalTells, Position, WithdrawnWhileApart, InTry
    <3>4. (up' => gateway' \in {ref', Broken} \/ Excused') /\ (step' \in Stopping /\ up' => Excused')
      BY <1>0, <1>e, <1>9, <2>0, <2>3 DEF Agrees, JournalTells, FilesAgree, Position, StoppedWhileApart,
         Stopping, InTry
    <3> QED
      BY <3>1, <3>2, <3>3, <3>4 DEF ScriptAgrees
  <2> QED
    BY <1>0, <1>9, <2>1, <2>2, <2>3, ScriptKept DEF Forward
<1>10. CASE step = "publish" /\ step' = "cleanup" /\ Publish
  <2>1. ReferenceTypes'
    <3>1. projection' \in Refs \cup {None, Broken} /\ step' \in Forward \cup Backward
      BY <1>0, <1>10 DEF ReferenceTypes, Publish, Forward, Backward
    <3>2. withdrawn' \in BOOLEAN
      BY <1>10 DEF Publish
    <3>3. UNCHANGED <<envRef, fileRef, gateway, up, saved, ref, journal, log, lines>>
      BY <1>10 DEF Publish, containerVars
    <3> QED
      BY <1>0, <3>1, <3>2, <3>3 DEF ReferenceTypes, BesideSaves
  <2>2. JournalTells'
    BY <1>0, <1>10 DEF JournalTells, Publish, containerVars, InTry, Backward
  <2>3. ASSUME Agrees PROVE ScriptAgrees'
    <3>1. FilesAgree'
      BY <1>0, <1>10, <2>3 DEF Agrees, JournalTells, FilesAgree, Position, Publish, containerVars, InTry,
         Backward
    <3>2. Position'
      BY <1>0, <1>10, <2>3 DEF Agrees, JournalTells, FilesAgree, Position, Publish, containerVars, InTry,
         Backward
    <3>3. WithdrawnWhileApart'
      BY <1>0, <1>10, <2>3 DEF Agrees, JournalTells, Position, WithdrawnWhileApart, Publish,
         containerVars, InTry
    <3>4. (up' => gateway' \in {ref', Broken} \/ Excused') /\ (step' \in Stopping /\ up' => Excused')
      BY <1>0, <1>e, <1>10, <2>3 DEF Agrees, JournalTells, FilesAgree, Position, StoppedWhileApart,
         Stopping, Publish, containerVars, InTry
    <3> QED
      BY <3>1, <3>2, <3>3, <3>4 DEF ScriptAgrees
  <2> QED
    BY <1>0, <1>10, <2>1, <2>2, <2>3, ScriptKept DEF Forward
<1> QED
  BY <1>1, <1>2, <1>3, <1>4, <1>5, <1>6, <1>7, <1>8, <1>9, <1>10 DEF Advance

\* A rotation's script that fails, ends, or is killed.
LEMMA ScriptStops ==
  ASSUME ReferenceInv, BesideSaves, RunnerInv, NEW j \in Jobs, ScriptFails(j) \/ ScriptDone(j) \/ ScriptKilled(j),
         UNCHANGED <<dataVars, keyRotationVars>>
  PROVE  ReferenceInv'
<1> USE DEF ReferenceInv, Steady
<1>0. /\ UNCHANGED <<job, script, holder, admitted, oldRef, raced, turn, copy>>
      /\ j \in Rotations /\ The(j) \in Intents
  BY ReferencesTell DEF ScriptFails, ScriptDone, ScriptKilled, HostLost, Held, outside, dataVars, pointVars,
     hostVars, keyRotationVars, keyScriptVars
<1>1. CASE ScriptFails(j)
  <2>1. /\ Halfway /\ holder = j /\ step # "idle"
        /\ \/ step \in InTry /\ step' = "rb_withdraw" /\ command' = command
           \/ step' = "idle" /\ Host!Fail({The(j)})
    BY <1>1 DEF ScriptFails, EndCommand, Held
  <2>2. Host!Fail({The(j)}) => command' = [command EXCEPT ![The(j)] = "failed"]
    BY <1>0, HostChanges DEF RunnerInv, RunnerTypes
  <2>3. step' \in {"idle", "last_stop"} \/ (step \in InTry /\ step' = "rb_withdraw")
    BY <2>1
  <2>4. ReferenceTypes' /\ JournalTells' /\ (Agrees => ScriptAgrees')
    BY <1>0, <2>1, <2>3, HalfwayTells
  <2> QED
    BY <1>0, <2>1, <2>2, <2>4, ScriptKept DEF Forward
<1>2. CASE ScriptDone(j)
  <2>1. /\ holder = j /\ step = "cleanup" /\ step' = "idle" /\ SetJournal("none")
        /\ command' = [command EXCEPT ![The(j)] = "done"]
    BY <1>0, <1>2, HostChanges DEF ScriptDone, Held, RunnerInv, RunnerTypes
  <2>2. Halfway
    BY <2>1 DEF Halfway
  <2>3. ReferenceTypes' /\ JournalTells' /\ (Agrees => ScriptAgrees')
    BY <1>0, <2>1, <2>2, HalfwayTells
  <2> QED
    BY <1>0, <2>1, <2>3, ScriptKept
<1>3. CASE ScriptKilled(j)
  <2>0. command' = [command EXCEPT ![The(j)] = "failed"]
    BY <1>0, <1>3, HostChanges DEF ScriptKilled, HostLost, RunnerInv, RunnerTypes
  <2>1. CASE Held(j)
    <3>1. Halfway /\ step' = "idle" /\ holder = j /\ step # "idle"
      BY <1>3, <2>1 DEF ScriptKilled, Held
    <3>2. ReferenceTypes' /\ JournalTells' /\ (Agrees => ScriptAgrees')
      BY <1>0, <3>1, HalfwayTells
    <3> QED
      BY <1>0, <2>0, <3>1, <3>2, ScriptKept
  <2>2. CASE ~Held(j)
    <3>1. UNCHANGED <<ref, envRef, fileRef, gateway, up, saved, projection, withdrawn, journal, log, lines, step>>
      BY <1>3, <2>2 DEF ScriptKilled, containerVars
    <3>2. \A k \in Jobs : Action[k] # "rename" /\ The(k) \in Intents => command'[The(k)] = command[The(k)]
      BY <1>0, <2>0 DEF Rotations, The, RunnerInv, RunnerTypes
    <3>3. ReferenceTypes'
      BY <1>0, <3>1 DEF ReferenceTypes, BesideSaves
    <3>4. ScriptHolds'
      <4>1. step' # "idle" /\ holder' \in Rotations => command'[The(holder')] = "running"
        <5>1. step # "idle" /\ holder \in Rotations => The(holder) # The(j) /\ The(holder) \in Intents
          BY <1>0, <2>2, ReferencesTell DEF Held, The
        <5> QED
          BY <1>0, <2>0, <3>1, <5>1 DEF ScriptHolds, RunnerInv, RunnerTypes
      <4>2. \A k \in Jobs : Running(k, "restore_project") => Running(k, "restore_project")'
        <5>1. ASSUME NEW k \in Jobs, Running(k, "restore_project") PROVE The(j) # <<k, "restore_project">>
          BY <1>0, <5>1, RunningTells DEF The, Rotations
        <5> QED
          BY <2>0, <5>1 DEF Running, RunnerInv, RunnerTypes
      <4>3. ASSUME NEW k \in admitted PROVE k \in Recreations /\ command'[The(k)] = "running"
        BY <3>2, IntentsTell DEF ScriptHolds, Recreations, LifecycleJobs
      <4> QED
        BY <1>0, <3>1, <4>1, <4>2, <4>3 DEF ScriptHolds, HolderRotates
    <3>5. JournalTells'
      BY <1>0, <3>1 DEF JournalTells
    <3>6. ASSUME Agrees PROVE Agrees'
      <4>1. Excused' <=> Excused
        BY <1>0 DEF Excused, StartedAsItWas
      <4>2. FilesAgree' /\ Position' /\ TurnAgrees' /\ WithdrawnWhileApart'
        BY <1>0, <3>1, <3>6 DEF Agrees, FilesAgree, Position, TurnAgrees, WithdrawnWhileApart
      <4>3. StoppedWhileApart'
        BY <1>0, <3>1, <3>6, <4>1 DEF Agrees, StoppedWhileApart
      <4> QED
        BY <4>2, <4>3 DEF Agrees
    <3> QED
      BY <3>3, <3>4, <3>5, <3>6 DEF BesideSaves
  <2> QED
    BY <2>1, <2>2
<1> QED
  BY <1>1, <1>2, <1>3

\* Every step of a rollback that goes well.
LEMMA RollBackAdvances ==
  ASSUME ReferenceInv, BesideSaves, RunnerInv, RollBack, UNCHANGED <<dataVars, keyRotationVars>>
  PROVE  ReferenceInv'
<1> USE DEF ReferenceInv, Steady
<1>0. /\ UNCHANGED <<job, script, holder, admitted, oldRef, raced, command, turn, copy>>
      /\ ReferenceTypes
  BY DEF RollBack, outside, runnerVars, dataVars, pointVars, hostVars, keyRotationVars, keyScriptVars
<1>e. Excused' <=> Excused
  BY <1>0 DEF Excused, StartedAsItWas
<1>1. CASE step = "rb_withdraw" /\ step' = "rb_stop" /\ Withdraw
  <2>1. ReferenceTypes'
    BY <1>0, <1>1 DEF ReferenceTypes, BesideSaves, Withdraw, containerVars, Forward, Backward
  <2>2. JournalTells'
    BY <1>0, <1>1 DEF JournalTells, Withdraw, containerVars, InTry, Backward
  <2>3. ASSUME Agrees PROVE ScriptAgrees'
    <3>1. FilesAgree'
      BY <1>0, <1>1, <2>3 DEF Agrees, JournalTells, FilesAgree, Position, Withdraw, containerVars, InTry,
         Backward
    <3>2. Position'
      BY <1>0, <1>1, <2>3 DEF Agrees, JournalTells, FilesAgree, Position, Withdraw, containerVars, InTry,
         Backward
    <3>3. WithdrawnWhileApart'
      BY <1>0, <1>1, <2>3 DEF Agrees, JournalTells, Position, WithdrawnWhileApart, Withdraw,
         containerVars, InTry
    <3>4. (up' => gateway' \in {ref', Broken} \/ Excused') /\ (step' \in Stopping /\ up' => Excused')
      BY <1>0, <1>e, <1>1, <2>3 DEF Agrees, JournalTells, FilesAgree, Position, StoppedWhileApart,
         Stopping, Withdraw, containerVars, InTry
    <3> QED
      BY <3>1, <3>2, <3>3, <3>4 DEF ScriptAgrees
  <2> QED
    BY <1>0, <1>1, <2>1, <2>2, <2>3, ScriptKept DEF Forward
<1>2. CASE step = "rb_stop" /\ step' = "rb_swap" /\ StopGateway
  <2>1. ReferenceTypes'
    <3>1. up' \in BOOLEAN /\ step' \in {"idle"} \cup Forward \cup Backward
      BY <1>0, <1>2 DEF StopGateway, Forward, Backward
    <3> QED
      BY <1>0, <1>2, <3>1 DEF ReferenceTypes, BesideSaves, StopGateway
  <2>2. JournalTells'
    BY <1>0, <1>2 DEF JournalTells, StopGateway, InTry, Backward
  <2>3. ASSUME Agrees PROVE ScriptAgrees'
    <3>1. FilesAgree'
      BY <1>0, <1>2, <2>3 DEF Agrees, JournalTells, FilesAgree, Position, StopGateway, InTry, Backward
    <3>2. Position'
      BY <1>0, <1>2, <2>3 DEF Agrees, JournalTells, FilesAgree, Position, StopGateway, InTry, Backward
    <3>3. WithdrawnWhileApart'
      BY <1>0, <1>2, <2>3 DEF Agrees, JournalTells, Position, WithdrawnWhileApart, StopGateway, InTry
    <3>4. (up' => gateway' \in {ref', Broken} \/ Excused') /\ (step' \in Stopping /\ up' => Excused')
      BY <1>0, <1>e, <1>2, <2>3 DEF Agrees, JournalTells, FilesAgree, Position, StoppedWhileApart,
         Stopping, StopGateway, InTry
    <3> QED
      BY <3>1, <3>2, <3>3, <3>4 DEF ScriptAgrees
  <2> QED
    BY <1>0, <1>2, <2>1, <2>2, <2>3, ScriptKept DEF Forward
<1>3. CASE step = "rb_swap" /\ step' = "rb_files" /\ SwapReference(log.old)
  <2>1. ReferenceTypes'
    BY <1>0, <1>3 DEF ReferenceTypes, BesideSaves, SwapReference, containerVars, Forward, Backward
  <2>2. JournalTells'
    BY <1>0, <1>3 DEF JournalTells, SwapReference, containerVars, InTry, Backward
  <2>3. ASSUME Agrees PROVE ScriptAgrees'
    <3>1. FilesAgree'
      BY <1>0, <1>3, <2>3 DEF Agrees, JournalTells, FilesAgree, Position, SwapReference, containerVars,
         InTry, Backward
    <3>2. Position'
      BY <1>0, <1>3, <2>3 DEF Agrees, JournalTells, FilesAgree, Position, SwapReference, containerVars,
         InTry, Backward
    <3>3. WithdrawnWhileApart'
      BY <1>0, <1>3, <2>3 DEF Agrees, JournalTells, Position, WithdrawnWhileApart, SwapReference,
         containerVars, InTry
    <3>4. (up' => gateway' \in {ref', Broken} \/ Excused') /\ (step' \in Stopping /\ up' => Excused')
      BY <1>0, <1>e, <1>3, <2>3 DEF Agrees, JournalTells, FilesAgree, Position, StoppedWhileApart,
         Stopping, SwapReference, containerVars, InTry
    <3> QED
      BY <3>1, <3>2, <3>3, <3>4 DEF ScriptAgrees
  <2> QED
    BY <1>0, <1>3, <2>1, <2>2, <2>3, ScriptKept DEF Forward
<1>4. CASE step = "rb_files" /\ step' = "rb_restart" /\ WriteFiles(log.env, log.saved, log.files)
  <2>1. ReferenceTypes'
    BY <1>0, <1>4 DEF ReferenceTypes, BesideSaves, WriteFiles, Forward, Backward
  <2>2. JournalTells'
    BY <1>0, <1>4 DEF JournalTells, WriteFiles, InTry, Backward
  <2>3. ASSUME Agrees PROVE ScriptAgrees'
    <3>1. FilesAgree'
      BY <1>0, <1>4, <2>3 DEF Agrees, JournalTells, FilesAgree, Position, WriteFiles, InTry, Backward
    <3>2. Position'
      BY <1>0, <1>4, <2>3 DEF Agrees, JournalTells, FilesAgree, Position, WriteFiles, InTry, Backward
    <3>3. WithdrawnWhileApart'
      BY <1>0, <1>4, <2>3 DEF Agrees, JournalTells, Position, WithdrawnWhileApart, WriteFiles, InTry
    <3>4. (up' => gateway' \in {ref', Broken} \/ Excused') /\ (step' \in Stopping /\ up' => Excused')
      BY <1>0, <1>e, <1>4, <2>3 DEF Agrees, JournalTells, FilesAgree, Position, StoppedWhileApart,
         Stopping, WriteFiles, InTry
    <3> QED
      BY <3>1, <3>2, <3>3, <3>4 DEF ScriptAgrees
  <2> QED
    BY <1>0, <1>4, <2>1, <2>2, <2>3, ScriptKept DEF Forward
<1>5. CASE step = "rb_restart" /\ step' = "rb_publish" /\ RestartGateway
  <2>0. /\ UNCHANGED <<ref, envRef, fileRef, saved, projection, withdrawn, journal, log, lines>>
        /\ \/ gateway' \in {fileRef, envRef} /\ up' = TRUE
           \/ UNCHANGED <<gateway, up>>
    BY <1>5 DEF RestartGateway
  <2>1. ReferenceTypes'
    <3>1. up' \in BOOLEAN /\ gateway' \in Refs \cup {Broken}
      BY <2>0 DEF ReferenceTypes
    <3> QED
      BY <1>0, <1>5, <2>0, <3>1 DEF ReferenceTypes, BesideSaves, Forward, Backward
  <2>2. JournalTells'
    BY <1>0, <1>5, <2>0 DEF JournalTells, InTry, Backward
  <2>3. ASSUME Agrees PROVE ScriptAgrees'
    <3>1. FilesAgree'
      BY <1>0, <1>5, <2>0, <2>3 DEF Agrees, JournalTells, FilesAgree, Position, InTry, Backward
    <3>2. Position'
      BY <1>0, <1>5, <2>0, <2>3 DEF Agrees, JournalTells, FilesAgree, Position, InTry, Backward
    <3>3. WithdrawnWhileApart'
      BY <1>0, <1>5, <2>0, <2>3 DEF Agrees, JournalTells, Position, WithdrawnWhileApart, InTry
    <3>4. (up' => gateway' \in {ref', Broken} \/ Excused') /\ (step' \in Stopping /\ up' => Excused')
      BY <1>0, <1>e, <1>5, <2>0, <2>3 DEF Agrees, JournalTells, FilesAgree, Position, StoppedWhileApart,
         Stopping, InTry
    <3> QED
      BY <3>1, <3>2, <3>3, <3>4 DEF ScriptAgrees
  <2> QED
    BY <1>0, <1>5, <2>1, <2>2, <2>3, ScriptKept DEF Forward
<1>6. CASE step = "rb_publish" /\ step' = "rb_cleanup" /\ Publish
  <2>1. ReferenceTypes'
    <3>1. projection' \in Refs \cup {None, Broken} /\ step' \in Forward \cup Backward
      BY <1>0, <1>6 DEF ReferenceTypes, Publish, Forward, Backward
    <3>2. withdrawn' \in BOOLEAN
      BY <1>6 DEF Publish
    <3>3. UNCHANGED <<envRef, fileRef, gateway, up, saved, ref, journal, log, lines>>
      BY <1>6 DEF Publish, containerVars
    <3> QED
      BY <1>0, <3>1, <3>2, <3>3 DEF ReferenceTypes, BesideSaves
  <2>2. JournalTells'
    BY <1>0, <1>6 DEF JournalTells, Publish, containerVars, InTry, Backward
  <2>3. ASSUME Agrees PROVE ScriptAgrees'
    <3>1. FilesAgree'
      BY <1>0, <1>6, <2>3 DEF Agrees, JournalTells, FilesAgree, Position, Publish, containerVars, InTry,
         Backward
    <3>2. Position'
      BY <1>0, <1>6, <2>3 DEF Agrees, JournalTells, FilesAgree, Position, Publish, containerVars, InTry,
         Backward
    <3>3. WithdrawnWhileApart'
      BY <1>0, <1>6, <2>3 DEF Agrees, JournalTells, Position, WithdrawnWhileApart, Publish, containerVars, InTry
    <3>4. (up' => gateway' \in {ref', Broken} \/ Excused') /\ (step' \in Stopping /\ up' => Excused')
      BY <1>0, <1>e, <1>6, <2>3 DEF Agrees, JournalTells, FilesAgree, Position, StoppedWhileApart,
         Stopping, Publish, containerVars, InTry
    <3> QED
      BY <3>1, <3>2, <3>3, <3>4 DEF ScriptAgrees
  <2> QED
    BY <1>0, <1>6, <2>1, <2>2, <2>3, ScriptKept DEF Forward
<1> QED
  BY <1>1, <1>2, <1>3, <1>4, <1>5, <1>6 DEF RollBack

\* A rollback that ends, or fails, and the last stop after that.
LEMMA RollBackStops ==
  ASSUME ReferenceInv, BesideSaves, RunnerInv, RollBackDone \/ RollBackFails \/ LastStop, UNCHANGED <<dataVars, keyRotationVars>>
  PROVE  ReferenceInv'
<1> USE DEF ReferenceInv, Steady
<1>0. UNCHANGED <<job, script, holder, admitted, oldRef, raced, turn, copy>>
  BY DEF RollBackDone, RollBackFails, LastStop, outside, dataVars, pointVars, hostVars,
     keyRotationVars, keyScriptVars
<1>a. holder \in Rotations /\ Host!Fail({The(holder)}) => command' = [command EXCEPT ![The(holder)] = "failed"]
  BY ReferencesTell, HostChanges DEF RunnerInv, RunnerTypes
<1>1. CASE RollBackDone
  <2>1. /\ step = "rb_cleanup" /\ step' = "idle" /\ SetJournal("none")
        /\ (holder \in Rotations /\ Host!Fail({The(holder)})) \/ command' = command
    BY <1>1 DEF RollBackDone
  <2>2. Halfway
    BY <2>1 DEF Halfway
  <2>3. ReferenceTypes' /\ JournalTells' /\ (Agrees => ScriptAgrees')
    BY <1>0, <2>1, <2>2, HalfwayTells
  <2> QED
    BY <1>0, <1>a, <2>1, <2>3, ScriptKept DEF Forward
<1>2. CASE RollBackFails
  <2>1. /\ step # "idle" /\ Halfway /\ command' = command
        /\ step' = "idle" \/ (step' = "last_stop" /\ holder \in Rotations)
    BY <1>2 DEF RollBackFails, Backward
  <2>3. ReferenceTypes' /\ JournalTells' /\ (Agrees => ScriptAgrees')
    BY <1>0, <2>1, HalfwayTells
  <2> QED
    BY <1>0, <2>1, <2>3, ScriptKept DEF Forward
<1>3. CASE LastStop
  <2>1. /\ step = "last_stop" /\ step' = "idle" /\ StopGateway
        /\ holder \in Rotations /\ Host!Fail({The(holder)})
    BY <1>3 DEF LastStop, StopGateway, JournalKept, ScriptHolds, HolderRotates
  <2>2. Halfway
    BY <2>1 DEF Halfway
  <2>3. ReferenceTypes' /\ JournalTells' /\ (Agrees => ScriptAgrees')
    BY <1>0, <2>1, <2>2, HalfwayTells
  <2> QED
    BY <1>0, <1>a, <2>1, <2>3, ScriptKept
<1> QED
  BY <1>1, <1>2, <1>3

\* An operator starts a recovery by hand, with the lock free and a whole manifest.
LEMMA RecoveryReference ==
  ASSUME ReferenceInv, BesideSaves, RunnerInv, OperatorRecovers, LockFree, UNCHANGED <<dataVars, keyRotationVars>>
  PROVE  ReferenceInv'
<1> USE DEF ReferenceInv, Steady
<1>0. /\ UNCHANGED <<envRef, fileRef, gateway, up, ref, projection, withdrawn, journal, log, lines,
                     admitted, script, saved, oldRef, job, command, turn, copy>>
      /\ step = "idle" /\ step' = "rb_withdraw" /\ holder' = "operator"
      /\ raced' = (raced \/ admitted # {})
      /\ journal = "complete" /\ turn = "idle" /\ \A k \in Jobs : script[k] = "idle"
  BY DEF OperatorRecovers, LockFree, runnerVars, serviceVars, containerVars, settingVars, dataVars,
     pointVars, hostVars, keyRotationVars, keyScriptVars
<1>1. ReferenceTypes'
  <2>1. raced' \in BOOLEAN /\ step' \in Backward
    BY <1>0 DEF Backward
  <2> QED
    BY <1>0, <2>1 DEF ReferenceTypes, BesideSaves
<1>2. ScriptHolds'
  <2>1. "operator" \notin Rotations
    BY RotationAssumption
  <2> QED
    BY <1>0, <2>1 DEF ScriptHolds, HolderRotates, Forward, Running
<1>3. JournalTells'
  BY <1>0 DEF JournalTells, InTry
<1>4. ASSUME Agrees PROVE Agrees'
  <2>1. FilesAgree' /\ Position' /\ WithdrawnWhileApart'
    BY <1>0, <1>4 DEF Agrees, FilesAgree, Position, WithdrawnWhileApart
  <2>2. TurnAgrees'
    BY <1>0, <1>4 DEF Agrees, TurnAgrees
  <2>3. Excused => Excused'
    BY <1>0 DEF Excused, StartedAsItWas
  <2>4. StoppedWhileApart'
    BY <1>0, <1>4, <2>3 DEF Agrees, StoppedWhileApart, Stopping
  <2> QED
    BY <2>1, <2>2, <2>4 DEF Agrees
<1> QED
  BY <1>1, <1>2, <1>3, <1>4 DEF BesideSaves

\* What the script of a key rotation changes keeps its types.
KeyTypes ==
  /\ envRef \in Refs \cup {Broken} /\ fileRef \in Refs \cup {Broken}
  /\ gateway \in Refs \cup {Broken} /\ up \in BOOLEAN
  /\ projection \in Refs \cup {None, Broken} /\ withdrawn \in BOOLEAN
  /\ saved \in [Entries -> Nat]
  /\ lines \in [env : Refs \cup {Broken}, saved : [Entries -> Nat]]
  /\ turn \in {"idle"} \cup Turns
  /\ copy \in [env : Refs \cup {Broken}, files : Refs \cup {Broken}, saved : [Entries -> Nat]]

\* It finds, keeps and leaves files of the project's reference, or a part of them.
KeyAgrees ==
  /\ envRef \in {ref, Broken} /\ fileRef \in {ref, Broken} /\ projection \in {ref, None}
  /\ up => gateway \in {ref, Broken} \/ Excused
  /\ turn # "idle" => envRef = ref
  /\ turn = "write" => lines.env = ref
  /\ turn \in Turns \ {"backup"} => copy.env = ref /\ copy.files \in {ref, Broken}

LEMMA KeyScriptFinds ==
  ASSUME ReferenceInv, Agrees, turn # "idle" \/ envRef = ref
  PROVE  KeyAgrees
BY DEF ReferenceInv, Steady, ReferenceTypes, Agrees, FilesAgree, TurnAgrees, WithdrawnWhileApart,
   StoppedWhileApart, KeyAgrees, Turns

\* What is left to show of a step of that script.
LEMMA KeyScriptKept ==
  ASSUME ReferenceInv, BesideSaves, RunnerInv, NEW j \in KeyJobs,
         command[The(j)] = "running", step = "idle",
         command' = command \/ \E status : command' = [command EXCEPT ![The(j)] = status],
         UNCHANGED <<job, script, ref, journal, log, step, holder, raced, admitted, oldRef>>,
         KeyTypes', Agrees => KeyAgrees'
  PROVE  ReferenceInv'
<1> USE DEF ReferenceInv, Steady
<1>0. j \in Jobs /\ The(j) \in Intents /\ Action[j] = "rotate_key"
  BY IntentsTell DEF KeyJobs
<1>1. \A k \in Jobs : script[k] = "idle"
  <2>1. ASSUME NEW k \in Jobs, Running(k, "restore_project") PROVE FALSE
    <3>1. The(j) # <<k, "restore_project">> /\ <<k, "restore_project">> \in Intents
      BY <1>0, <2>1, RunningTells DEF The
    <3> QED
      BY <1>0, <2>1, <3>1 DEF Running, RunnerInv, OneRuns
  <2> QED
    BY <2>1 DEF ScriptHolds
<1>2. admitted = {}
  <2>1. ASSUME NEW k \in admitted PROVE FALSE
    <3>1. k \in Recreations /\ command[The(k)] = "running"
      BY DEF ScriptHolds
    <3>2. The(k) \in Intents /\ The(k) # The(j)
      BY <1>0, <3>1, IntentsTell DEF The, Recreations, LifecycleJobs
    <3> QED
      BY <1>0, <3>1, <3>2 DEF RunnerInv, OneRuns
  <2> QED
    BY <2>1
<1>3. ReferenceTypes'
  BY DEF ReferenceTypes, KeyTypes, BesideSaves
<1>4. ScriptHolds'
  BY <1>1, <1>2 DEF ScriptHolds, HolderRotates
<1>5. JournalTells'
  BY DEF JournalTells
<1>6. ASSUME Agrees PROVE Agrees'
  <2>1. FilesAgree'
    <3>1. log.old # Broken /\ (journal = "complete" => ref \in {log.old, log.new})
      BY ReferencesTell DEF ReferenceTypes, JournalTells
    <3>2. log.files \in {log.old, Broken} /\ log.env = log.old
      BY <1>6 DEF Agrees, FilesAgree
    <3> QED
      BY <1>6, <3>1, <3>2 DEF FilesAgree, KeyAgrees
  <2>2. Position' /\ WithdrawnWhileApart'
    BY <1>6 DEF Position, WithdrawnWhileApart, KeyAgrees
  <2>3. TurnAgrees'
    BY <1>1, <1>6 DEF TurnAgrees, KeyAgrees
  <2>4. StoppedWhileApart'
    BY <1>2, <1>6 DEF StoppedWhileApart, Stopping, KeyAgrees
  <2> QED
    BY <2>1, <2>2, <2>3, <2>4 DEF Agrees
<1> QED
  BY <1>3, <1>4, <1>5, <1>6 DEF BesideSaves

\* The numbers the script writes for the keys are numbers.
LEMMA NewKeysAreNumbers ==
  ASSUME Counted, NEW settings \in [Entries -> Nat]
  PROVE  NewKeys(settings) \in [Entries -> Nat]
<1>1. generated + 1 \in Nat
  BY DEF Counted
<1> QED
  BY <1>1, Zenon DEF NewKeys

\* One of its steps that goes well.
LEMMA KeyStepTells ==
  ASSUME ReferenceInv, Counted, NEW j \in Jobs, KeyScriptStep(j)
  PROVE  KeyTypes' /\ (Agrees => KeyAgrees')
<1> USE DEF ReferenceInv, Steady
<1>0. /\ ReferenceTypes /\ turn # "idle" /\ UNCHANGED <<job, ref, raced>>
      /\ \A settings \in [Entries -> Nat] : NewKeys(settings) \in [Entries -> Nat]
  BY NewKeysAreNumbers DEF KeyScriptStep, AtTurn, runnerVars, beside
<1>e. (Excused' <=> Excused) /\ (Agrees => KeyAgrees)
  BY <1>0, KeyScriptFinds DEF Excused, StartedAsItWas
<1>1. CASE /\ AtTurn(j, "backup") /\ turn' = "read"
           /\ copy' = [env |-> envRef, files |-> fileRef, saved |-> saved]
           /\ UNCHANGED <<touched, lines>>
  <2>1. KeyTypes'
    BY <1>0, <1>1 DEF KeyTypes, ReferenceTypes, touched, Turns
  <2> QED
    BY <1>0, <1>e, <1>1, <2>1 DEF KeyAgrees, touched, Turns, AtTurn
<1>2. CASE /\ AtTurn(j, "read") /\ turn' = "write"
           /\ Files(ref) /\ lines' = [env |-> envRef, saved |-> saved]
           /\ UNCHANGED <<envRef, saved, generated, copy>>
  <2>1. KeyTypes'
    BY <1>0, <1>2 DEF KeyTypes, ReferenceTypes, Files, Turns
  <2> QED
    BY <1>0, <1>e, <1>2, <2>1 DEF KeyAgrees, Files, Turns, AtTurn
<1>3. CASE /\ AtTurn(j, "write") /\ turn' = "up"
           /\ Env(lines.env, NewKeys(lines.saved)) /\ generated' = generated + 1
           /\ UNCHANGED <<fileRef, lines, copy>>
  <2>1. KeyTypes'
    <3>1. lines.saved \in [Entries -> Nat] /\ lines.env \in Refs \cup {Broken}
      BY <1>0 DEF ReferenceTypes
    <3>2. saved' \in [Entries -> Nat] /\ envRef' \in Refs \cup {Broken}
      BY <1>0, <1>3, <3>1 DEF Env
    <3> QED
      BY <1>0, <1>3, <3>2 DEF KeyTypes, ReferenceTypes, Env, Turns
  <2> QED
    BY <1>0, <1>e, <1>3, <2>1 DEF KeyAgrees, Env, Turns, AtTurn
<1>4. CASE /\ \/ AtTurn(j, "up") /\ turn' = "publish"
              \/ AtTurn(j, "rb_up") /\ turn' = "rb_publish"
           /\ NginxUp /\ UNCHANGED <<lines, copy>>
  <2>1. KeyTypes'
    <3>1. up' \in BOOLEAN /\ gateway' \in Refs \cup {Broken}
      BY <1>0, <1>4 DEF NginxUp, ReferenceTypes
    <3> QED
      BY <1>0, <1>4, <3>1 DEF KeyTypes, ReferenceTypes, NginxUp, Turns
  <2> QED
    BY <1>0, <1>e, <1>4, <2>1 DEF KeyAgrees, NginxUp, Turns, AtTurn
<1>5. CASE /\ AtTurn(j, "rb_files") /\ turn' = "rb_up"
           /\ Env(copy.env, copy.saved) /\ Files(copy.files)
           /\ UNCHANGED <<generated, lines, copy>>
  <2>1. KeyTypes'
    BY <1>0, <1>5 DEF KeyTypes, ReferenceTypes, Env, Files, Turns
  <2> QED
    BY <1>0, <1>e, <1>5, <2>1 DEF KeyAgrees, Env, Files, Turns, AtTurn
<1> QED
  BY <1>1, <1>2, <1>3, <1>4, <1>5 DEF KeyScriptStep

\* One of its steps that ends half done.
LEMMA KeyHalfwayTells ==
  ASSUME ReferenceInv, Counted, KeyHalfway, turn # "idle", turn' = "idle",
         UNCHANGED <<job, ref, raced, lines, copy>>
  PROVE  KeyTypes' /\ (Agrees => KeyAgrees')
<1> USE DEF ReferenceInv, Steady
<1>0. /\ ReferenceTypes /\ turn # "idle" /\ turn' = "idle" /\ UNCHANGED <<job, ref, raced, lines, copy>>
      /\ \A settings \in [Entries -> Nat] : NewKeys(settings) \in [Entries -> Nat]
  BY NewKeysAreNumbers
<1>e. (Excused' <=> Excused) /\ (Agrees => KeyAgrees)
  BY <1>0, KeyScriptFinds DEF Excused, StartedAsItWas
<1>1. CASE UNCHANGED touched
  BY <1>0, <1>e, <1>1 DEF KeyTypes, ReferenceTypes, KeyAgrees, touched, Turns
<1>2. CASE turn = "read" /\ Files(Broken) /\ UNCHANGED <<envRef, saved, generated>>
  BY <1>0, <1>e, <1>2 DEF KeyTypes, ReferenceTypes, KeyAgrees, Files, Turns
<1>3. CASE /\ turn = "write"
           /\ \/ Env(Broken, saved)
              \/ Env(lines.env, lines.saved)
              \/ Env(lines.env, NewKeys(lines.saved))
           /\ UNCHANGED fileRef
  <2>1. lines.saved \in [Entries -> Nat] /\ lines.env \in Refs \cup {Broken}
    BY <1>0 DEF ReferenceTypes
  <2>2. /\ saved' \in [Entries -> Nat] /\ envRef' \in {lines.env, Broken}
        /\ UNCHANGED <<fileRef, gateway, up, projection, withdrawn>>
    BY <1>0, <1>3, <2>1 DEF Env, ReferenceTypes
  <2>3. KeyTypes'
    BY <1>0, <2>1, <2>2 DEF KeyTypes, ReferenceTypes, Turns
  <2> QED
    BY <1>0, <1>e, <1>3, <2>2, <2>3 DEF KeyAgrees, Turns
<1>4. CASE turn \in {"up", "rb_up"} /\ NginxUp
  <2>1. up' \in BOOLEAN /\ gateway' \in Refs \cup {Broken}
    BY <1>0, <1>4 DEF NginxUp, ReferenceTypes
  <2> QED
    BY <1>0, <1>e, <1>4, <2>1 DEF KeyTypes, ReferenceTypes, KeyAgrees, NginxUp, Turns
<1>5. CASE turn \in {"publish", "rb_publish"} /\ InEntry(envRef, withdrawn)
  <2>1. projection' \in Refs \cup {None, Broken}
    BY <1>0, <1>5 DEF InEntry, ReferenceTypes
  <2> QED
    BY <1>0, <1>e, <1>5, <2>1 DEF KeyTypes, ReferenceTypes, KeyAgrees, InEntry, Turns
<1>6. CASE /\ turn = "rb_files"
           /\ \/ envRef' = Broken /\ UNCHANGED saved
              \/ envRef' = copy.env /\ saved' = copy.saved
              \/ UNCHANGED <<envRef, saved>>
           /\ fileRef' \in {Broken, copy.files}
           /\ \/ UNCHANGED <<gateway, up, applied>>
              \/ gateway' = fileRef' /\ up' = TRUE
           /\ UNCHANGED <<projection, withdrawn, generated>>
  <2>1. copy.env \in Refs \cup {Broken} /\ copy.files \in Refs \cup {Broken} /\ copy.saved \in [Entries -> Nat]
    BY <1>0 DEF ReferenceTypes
  <2>2. /\ envRef' \in {Broken, copy.env, envRef} /\ saved' \in [Entries -> Nat]
        /\ up' \in BOOLEAN
    BY <1>0, <1>6, <2>1 DEF ReferenceTypes
  <2>3. KeyTypes'
    <3>1. envRef' \in Refs \cup {Broken} /\ fileRef' \in Refs \cup {Broken} /\ gateway' \in Refs \cup {Broken}
      BY <1>0, <1>6, <2>1, <2>2 DEF ReferenceTypes
    <3> QED
      BY <1>0, <1>6, <2>2, <3>1 DEF KeyTypes, ReferenceTypes
  <2> QED
    BY <1>0, <1>e, <1>6, <2>2, <2>3 DEF KeyAgrees, Turns
<1> QED
  BY <1>1, <1>2, <1>3, <1>4, <1>5, <1>6 DEF KeyHalfway

\* The rotation of the keys.
LEMMA KeyRotationReference ==
  ASSUME ReferenceInv, BesideSaves, RunnerInv, Counted, NEW j \in Jobs, KeyRotation(j),
         UNCHANGED dataVars
  PROVE  ReferenceInv'
<1>0. RunnerTypes /\ ReferenceTypes /\ script' = script
  BY DEF RunnerInv, ReferenceInv, Steady, dataVars, pointVars, hostVars
<1>a. j \in KeyJobs => The(j) \in Intents /\ Action[j] # "delete"
  BY IntentsTell DEF KeyJobs
<1>1. CASE \/ AcceptManual(j) \/ ScanClaims(j) \/ KeyRotationNotQueued(j) \/ KeyRotationBegins(j)
           \/ RotationEnds(j) \/ StoreKeys(j) \/ Invalidate(j) \/ KeyRotationDone(j)
           \/ KeyRotationRaises(j) \/ BlockAfterFailure(j) \/ BlockFails(j)
  <2>1. UNCHANGED <<envRef, fileRef, gateway, up, ref, projection, withdrawn, journal, log, lines,
                    step, holder, raced, admitted, saved, oldRef, turn, copy>>
    BY <1>1 DEF AcceptManual, ScanClaims, KeyRotationNotQueued, KeyRotationBegins, RotationEnds,
       StoreKeys, Invalidate, KeyRotationDone, KeyRotationRaises, BlockAfterFailure, BlockFails,
       filesAndScript, serviceVars, containerVars, settingVars, rotationVars, scriptVars,
       keyRotationVars, keyScriptVars
  <2>2. /\ job' = job \/ \E s \in {"queued", "running", "done", "failed"} : Settle(j, s)
        /\ command' = command \/ (j \in KeyJobs /\ AttachIntent(The(j)))
    BY <1>1 DEF AcceptManual, ScanClaims, AcceptJob, KeyRotationNotQueued, KeyRotationBegins, RotationEnds,
       StoreKeys, Invalidate, KeyRotationDone, KeyRotationRaises, BlockAfterFailure, BlockFails
  <2>3. \A k \in Jobs : job[k] # "absent" => job'[k] # "absent"
    BY <1>0, <2>2 DEF RunnerTypes, Settle
  <2>4. \A i \in Intents : command[i] = "running" => command'[i] = "running"
    BY <1>0, <1>a, <2>2, AttachSubmits DEF RunnerTypes
  <2> QED
    BY <1>0, <2>1, <2>3, <2>4, AsideKept DEF ReferenceTypes
<1>2. ASSUME \/ KeyScriptBegins(j) \/ KeyScriptRefused(j) \/ KeyScriptStep(j) \/ KeyScriptDone(j)
             \/ KeyScriptTurnsBack(j) \/ KeyScriptTurnedBack(j) \/ KeyScriptDies(j) \/ KeyScriptLost(j)
      PROVE  /\ j \in KeyJobs
             /\ UNCHANGED <<job, ref, journal, log, step, holder, raced, admitted, oldRef>>
             /\ command' = command \/ \E status : command' = [command EXCEPT ![The(j)] = status]
  <2>1. /\ j \in KeyJobs
        /\ UNCHANGED <<job, ref, journal, log, step, holder, raced, admitted, oldRef>>
        /\ Host!Succeed(The(j)) \/ Host!Fail({The(j)}) \/ command' = command
    BY <1>2 DEF KeyScriptBegins, KeyScriptRefused, KeyScriptStarts, KeyScriptStep, KeyScriptDone,
       KeyScriptTurnsBack, KeyScriptTurnedBack, KeyScriptDies, KeyScriptLost, AtTurn, HostLost, beside,
       runnerVars
  <2> QED
    BY <1>0, <1>a, <2>1, HostChanges
<1>3. turn # "idle" => step = "idle"
  BY DEF ReferenceInv, Steady, ScriptHolds
<1>e. UNCHANGED <<job, raced>> => (Excused' <=> Excused)
  BY DEF Excused, StartedAsItWas
<1>4. CASE KeyScriptBegins(j)
  <2>1. /\ step = "idle" /\ command[The(j)] = "running" /\ envRef = ref /\ turn' = "backup"
        /\ projection' = None /\ withdrawn' = TRUE
        /\ UNCHANGED <<envRef, fileRef, gateway, up, saved, lines, copy>>
    BY <1>4 DEF KeyScriptBegins, KeyScriptStarts, KeyScriptAccepts, SameReference, InEntry
  <2>2. KeyTypes'
    BY <1>0, <2>1 DEF KeyTypes, ReferenceTypes, Turns
  <2>3. Agrees => KeyAgrees'
    BY <1>2, <1>4, <1>e, <2>1, KeyScriptFinds DEF KeyAgrees
  <2> QED
    BY <1>0, <1>2, <1>4, <2>1, <2>2, <2>3, KeyScriptKept
<1>5. ASSUME NEW status, command' = [command EXCEPT ![The(j)] = status], j \in KeyJobs,
             UNCHANGED <<job, ref, journal, log, step, holder, raced, admitted, oldRef>>,
             UNCHANGED <<touched, turn, lines, copy>>
      PROVE  ReferenceInv'
  <2>1. UNCHANGED <<envRef, fileRef, gateway, up, saved, projection, withdrawn>>
    BY <1>5 DEF touched
  <2>2. The(j)[1] = j /\ j \notin Rotations \cup Recreations /\ \A k : The(j) # <<k, "restore_project">>
    BY <1>5 DEF The, KeyJobs, CommandOf, Rotations, Recreations
  <2> QED
    BY <1>0, <1>a, <1>5, <2>1, <2>2, HandlerKept DEF ReferenceTypes
<1>6. CASE KeyScriptRefused(j)
  <2>1. /\ step = "idle" /\ command[The(j)] = "running" /\ Host!Fail({The(j)})
        /\ UNCHANGED <<lines, turn, copy>>
    BY <1>6 DEF KeyScriptRefused, KeyScriptStarts, keyScriptVars
  <2>2. \E status : command' = [command EXCEPT ![The(j)] = status]
    BY <1>0, <1>2, <1>6, <1>a, <2>1, HostChanges
  <2>3. CASE KeyScriptAccepts
    <3>1. /\ envRef = ref /\ projection' = projection /\ withdrawn' \in {withdrawn, TRUE}
          /\ UNCHANGED <<envRef, fileRef, gateway, up, saved>>
      BY <1>6, <2>3 DEF KeyScriptRefused, KeyScriptAccepts, SameReference, InEntry
    <3>2. KeyTypes'
      <4>1. withdrawn' \in BOOLEAN
        BY <1>0, <3>1, Zenon DEF ReferenceTypes
      <4> QED
        BY <1>0, <2>1, <3>1, <4>1 DEF KeyTypes, ReferenceTypes
    <3>3. Agrees => KeyAgrees'
      BY <1>2, <1>6, <1>e, <2>1, <3>1, KeyScriptFinds DEF KeyAgrees
    <3> QED
      BY <1>0, <1>2, <1>6, <2>1, <3>2, <3>3, KeyScriptKept
  <2>4. CASE ~KeyScriptAccepts
    BY <1>2, <1>5, <1>6, <2>1, <2>2, <2>4 DEF KeyScriptRefused
  <2> QED
    BY <2>3, <2>4
<1>7. CASE KeyScriptStep(j)
  <2>1. turn # "idle" /\ command[The(j)] = "running"
    BY <1>7 DEF KeyScriptStep, AtTurn
  <2> QED
    BY <1>0, <1>2, <1>3, <1>7, <2>1, KeyStepTells, KeyScriptKept
<1>8. CASE KeyScriptDone(j) \/ KeyScriptTurnedBack(j)
  <2>1. /\ turn # "idle" /\ command[The(j)] = "running" /\ turn' = "idle"
        /\ projection' = envRef /\ withdrawn' = FALSE
        /\ UNCHANGED <<envRef, fileRef, gateway, up, saved, lines, copy>>
    BY <1>8 DEF KeyScriptDone, KeyScriptTurnedBack, AtTurn, InEntry
  <2>2. KeyTypes'
    <3>1. projection' \in Refs \cup {None, Broken}
      BY <1>0, <2>1 DEF ReferenceTypes
    <3> QED
      BY <1>0, <2>1, <3>1 DEF KeyTypes, ReferenceTypes
  <2>3. Agrees => KeyAgrees'
    BY <1>2, <1>8, <1>e, <2>1, KeyScriptFinds DEF KeyAgrees, Turns
  <2> QED
    BY <1>0, <1>2, <1>3, <1>8, <2>1, <2>2, <2>3, KeyScriptKept
<1>9. CASE KeyScriptTurnsBack(j)
  <2>1. /\ turn \in {"write", "up"} /\ command[The(j)] = "running" /\ turn' = "rb_files"
        /\ UNCHANGED touched \/ NginxUp
        /\ UNCHANGED <<lines, copy>>
    BY <1>9 DEF KeyScriptTurnsBack, AtTurn
  <2>2. /\ UNCHANGED <<envRef, fileRef, saved, projection, withdrawn>>
        /\ (up' = up /\ gateway' = gateway) \/ (up' = TRUE /\ gateway' = fileRef)
    BY <2>1 DEF touched, NginxUp
  <2>3. KeyTypes'
    <3>1. up' \in BOOLEAN /\ gateway' \in Refs \cup {Broken}
      BY <1>0, <2>2 DEF ReferenceTypes
    <3> QED
      BY <1>0, <2>1, <2>2, <3>1 DEF KeyTypes, ReferenceTypes, Turns
  <2>4. Agrees => KeyAgrees'
    BY <1>2, <1>9, <1>e, <2>1, <2>2, KeyScriptFinds DEF KeyAgrees, Turns
  <2> QED
    BY <1>0, <1>2, <1>3, <1>9, <2>1, <2>3, <2>4, KeyScriptKept
<1>10. CASE KeyScriptDies(j) \/ (KeyScriptLost(j) /\ command[The(j)] = "running" /\ turn # "idle")
  <2>1. /\ turn # "idle" /\ command[The(j)] = "running" /\ KeyHalfway /\ turn' = "idle"
        /\ UNCHANGED <<lines, copy>>
    BY <1>10 DEF KeyScriptDies, KeyScriptLost, AtTurn, Turns
  <2> QED
    BY <1>0, <1>2, <1>3, <1>10, <2>1, KeyHalfwayTells, KeyScriptKept
<1>11. CASE KeyScriptLost(j) /\ ~(command[The(j)] = "running" /\ turn # "idle")
  <2>1. UNCHANGED <<touched, turn, lines, copy>> /\ Host!Fail({The(j)})
    BY <1>11 DEF KeyScriptLost, KeyHalfway, HostLost
  <2>2. \E status : command' = [command EXCEPT ![The(j)] = status]
    BY <1>0, <1>2, <1>11, <1>a, <2>1, HostChanges
  <2> QED
    BY <1>2, <1>5, <1>11, <2>1, <2>2
<1> QED
  BY <1>1, <1>4, <1>6, <1>7, <1>8, <1>9, <1>10, <1>11 DEF KeyRotation

\* No restore is at work while the command of another job runs.
LEMMA ScriptAlone ==
  ASSUME ReferenceInv, RunnerInv, NEW j \in Jobs, ScriptBegins(j)
  PROVE  \A k \in Jobs : script[k] = "idle"
<1>1. j \in Rotations /\ The(j) \in Intents /\ command[The(j)] = "running"
  BY ReferencesTell DEF ScriptBegins
<1>2. ASSUME NEW k \in Jobs, Running(k, "restore_project") PROVE FALSE
  <2>1. Action[k] = "restore"
    BY <1>2, RunningTells
  <2>2. <<k, "restore_project">> \in Intents /\ command[<<k, "restore_project">>] = "running"
    BY <1>2 DEF Running
  <2>3. The(j) # <<k, "restore_project">>
    BY <1>1, <2>1 DEF The, Rotations
  <2> QED
    BY <1>1, <2>2, <2>3 DEF RunnerInv, OneRuns
<1> QED
  BY <1>2 DEF ReferenceInv, Steady, ScriptHolds

\* It holds to begin with.
LEMMA InitReference == Init => ReferenceInv
<1> SUFFICES ASSUME Init PROVE ReferenceInv
  OBVIOUS
<1> USE DEF Init, ServicesInit, RotationInit, PointsInit, KeyInit
<1>1. ReferenceTypes
  <2>1. draft \in Drafts
    BY ReferencesTell DEF NoDraft, Drafts, Untouched
  <2> QED
    BY <2>1, ReferencesTell DEF ReferenceTypes, Untouched
<1>2. ScriptHolds /\ JournalTells
  BY DEF ScriptHolds, HolderRotates, Forward, Backward, InTry, JournalTells
<1>3. FilesAgree /\ Position /\ TurnAgrees /\ WithdrawnWhileApart
  BY DEF FilesAgree, Position, TurnAgrees, Turns, WithdrawnWhileApart
<1>4. StoppedWhileApart
  BY DEF StoppedWhileApart, Stopping
<1> QED
  BY <1>1, <1>2, <1>3, <1>4 DEF ReferenceInv, Steady, Agrees

\* What is remembered of the saves, and the save that is under way.
LEMMA NextBesideSaves ==
  ASSUME ReferenceTypes, [Next]_vars
  PROVE  BesideSaves /\ (Remembers \/ UNCHANGED vars)
<1>1. CASE UNCHANGED vars
  BY <1>1 DEF vars, ReferenceTypes, BesideSaves
<1>2. CASE Next
  <2>1. misplaced => misplaced'
    BY <1>2 DEF Next, Remembers
  <2>2. draft \in Drafts /\ NoDraft \in Drafts
    BY ReferencesTell DEF ReferenceTypes, Drafts, NoDraft, Untouched
  <2>3. ASSUME NEW S \in Affected, ReadEnv(S) PROVE draft' \in Drafts
    <3>1. S \in SUBSET Services
      BY ServicesAssumption
    <3> QED
      BY <2>3, <3>1 DEF ReadEnv, ReferenceTypes, Drafts
  <2>4. draft' \in Drafts
    BY <1>2, <2>2, <2>3 DEF Next, Saves, ReplaceEnv, SaveFails
  <2> QED
    BY <1>2, <2>1, <2>4 DEF BesideSaves, Next
<1> QED
  BY <1>1, <1>2

\* Every step keeps what the scripts leave to one another.
LEMMA NextReference ==
  ReferenceInv /\ RunnerInv /\ Counted /\ PointsTypeOK /\ [Next]_vars => ReferenceInv'
<1> SUFFICES ASSUME ReferenceInv, RunnerInv, Counted, PointsTypeOK, [Next]_vars
             PROVE  ReferenceInv'
  OBVIOUS
<1>0. requests \subseteq Jobs
  BY RunnerAssumption DEF RunnerInv, RunnerTypes
<1>a. BesideSaves /\ (Remembers \/ UNCHANGED vars)
  BY NextBesideSaves DEF ReferenceInv, Steady
<1>b. CASE UNCHANGED vars
  <2>1. UNCHANGED <<envRef, fileRef, gateway, up, ref, projection, withdrawn, journal, log, lines,
                    step, holder, raced, admitted, turn, copy, script, saved, oldRef, job, command>>
    BY <1>b DEF vars, dataVars, pointVars, hostVars, runnerVars, runtimeVars, serviceVars, containerVars,
       settingVars, rotationVars, scriptVars, keyRotationVars, keyScriptVars
  <2> QED
    BY <1>a, <2>1, AsideKept DEF ReferenceInv, Steady, ReferenceTypes
<1>c. CASE Remembers /\ Saves /\ UNCHANGED <<dataVars, rotationVars, keyRotationVars>>
  BY <1>a, <1>c, OthersReference
<1>d. CASE Remembers /\ Operates
  <2>1. CASE Runner /\ UNCHANGED <<dataVars, runtimeVars>>
    BY <1>a, <1>d, <2>1, OthersReference
  <2>2. ASSUME NEW j \in Jobs, Data(j), UNCHANGED <<deletionVars, runtimeVars>> PROVE ReferenceInv'
    BY <1>a, <2>2, DataReference
  <2>3. ASSUME NEW j \in Jobs, Deletion(j), UNCHANGED runtimeVars PROVE ReferenceInv'
    BY <1>a, <2>3, DeletionReference
  <2>4. CASE Write /\ UNCHANGED <<deletionVars, runtimeVars>>
    BY <1>a, <1>d, <2>4, OthersReference
  <2>5. ASSUME NEW j \in Jobs, RestoreScript(j) PROVE ReferenceInv'
    BY <1>a, <2>5, RestoreScriptReference
  <2>6. ASSUME NEW j \in Jobs, NEW c \in HostSteps, DeleteScript(j, c) PROVE ReferenceInv'
    BY <1>a, <2>6, DeleteScriptReference
  <2>7. ASSUME NEW j \in Jobs, Lifecycle(j), UNCHANGED <<dataVars, rotationVars, keyRotationVars>>
        PROVE  ReferenceInv'
    BY <1>a, <2>7, LifecycleReference
  <2>8. ASSUME NEW j \in Jobs, Rotation(j), UNCHANGED <<dataVars, keyRotationVars>> PROVE ReferenceInv'
    <3>1. ScriptBegins(j) => \A k \in Jobs : script[k] = "idle"
      BY ScriptAlone
    <3>2. CASE (turn = "idle" /\ ScriptBegins(j)) \/ Preflight(j)
      <4>1. ScriptBegins(j) => turn = "idle"
        BY <3>2 DEF ScriptBegins, Preflight, Held
      <4> QED
        BY <1>a, <2>8, <3>1, <3>2, <4>1, ScriptStarts
    <3>3. CASE Advance(j)
      BY <1>a, <2>8, <3>3, ScriptAdvances
    <3>4. CASE ScriptFails(j) \/ ScriptDone(j) \/ ScriptKilled(j)
      BY <1>a, <2>8, <3>4, ScriptStops
    <3>5. CASE \/ AcceptRotation(j) \/ CompensateRotation(j) \/ RotationBegins(j) \/ RotationConfirms(j)
               \/ RotationRaises(j) \/ RotationFails(j)
      BY <1>a, <2>8, <3>5, RotationReference
    <3> QED
      BY <2>8, <3>2, <3>3, <3>4, <3>5 DEF Rotation
  <2>9. CASE Rotates /\ UNCHANGED <<dataVars, keyRotationVars>>
    BY <1>0, <1>a, <2>9, RollBackAdvances, RollBackStops, RecoveryReference, RevalidateReference DEF Rotates
  <2>10. CASE Sync /\ UNCHANGED <<dataVars, keyRotationVars>>
    BY <1>a, <1>d, <2>10, OthersReference
  <2>11. ASSUME NEW j \in Jobs, KeyRotation(j), UNCHANGED dataVars PROVE ReferenceInv'
    BY <1>a, <2>11, KeyRotationReference
  <2>12. CASE /\ Studio \/ ScanReadsExpiry \/ KeysAge \/ \E on \in BOOLEAN : SetAutomatic(on)
              /\ UNCHANGED dataVars
    BY <1>a, <1>d, <2>12, OthersReference
  <2> QED
    BY <1>0, <1>d, <2>1, <2>2, <2>3, <2>4, <2>5, <2>6, <2>7, <2>8, <2>9, <2>10, <2>11, <2>12 DEF Operates
<1> QED
  BY <1>a, <1>b, <1>c, <1>d DEF Next

-----------------------------------------------------------------------------
(* Restore points and deletions, and what is numbered. *)

\* What the endpoints and the runners make of the rows are statuses.
LEMMA RowsAreStatuses ==
  ASSUME PointsTypeOK, NEW j \in Jobs
  PROVE  /\ RowsCompensated(j) \in [Points -> PointStatus]
         /\ RowsExcept(j) \in [Points -> PointStatus]
         /\ \A p : \A s \in PointStatus : SetPoint(p, s) => point' \in [Points -> PointStatus]
<1>1. \A p \in Points : point[p] \in PointStatus
  BY DEF PointsTypeOK
<1>2. {"failed", "ready"} \subseteq PointStatus
  BY DEF PointStatus
<1>3. ASSUME NEW p \in Points PROVE RowsCompensated(j)[p] \in PointStatus
  BY <1>1, <1>2, Zenon DEF RowsCompensated
<1>4. ASSUME NEW p \in Points PROVE RowsExcept(j)[p] \in PointStatus
  BY <1>1, <1>2, Zenon DEF RowsExcept
<1>5. \A p : \A s \in PointStatus : SetPoint(p, s) => point' \in [Points -> PointStatus]
  BY DEF PointsTypeOK, SetPoint
<1> QED
  BY <1>3, <1>4, <1>5 DEF RowsCompensated, RowsExcept

\* The jobs on points, the deletion and the handlers keep the types of their variables.
LEMMA NextPoints ==
  ASSUME RunnerInv, PointsTypeOK, DeletionTypeOK, [Next]_vars
  PROVE  PointsTypeOK' /\ DeletionTypeOK'
<1>0. requests \subseteq Jobs
  BY RunnerAssumption DEF RunnerInv, RunnerTypes
<1>a. UNCHANGED pointVars => PointsTypeOK'
  BY DEF PointsTypeOK, pointVars, hostVars
<1>b. UNCHANGED deletionVars => DeletionTypeOK'
  BY DEF DeletionTypeOK, deletionVars
<1>c. ASSUME NEW j \in PointJobs PROVE j \in Jobs /\ Target[j] \in Points /\ (j \in Restores => Safety[j] \in Points)
  BY PointsAssumption DEF PointJobs, Restores
<1>d. \A j \in Jobs : Action[j] = "backup" \/ Action[j] = "restore" \/ Action[j] = "delete_restore_point"
        => j \in PointJobs
  BY DEF PointJobs
<1>1. ASSUME NEW j \in Jobs, Data(j) PROVE PointsTypeOK'
  <2> USE DEF PointStatus
  <2>1. CASE AcceptBackup(j) \/ AcceptRestore(j) \/ AcceptDeletePoint(j)
    BY <1>1, <2>1 DEF AcceptBackup, AcceptRestore, AcceptDeletePoint, PointsTypeOK, hostVars
  <2>2. CASE CompensateRows(j) \/ ExceptRows(j)
    BY <2>2, RowsAreStatuses DEF CompensateRows, ExceptRows, PointsTypeOK, hostVars
  <2>3. CASE RunnerBegins(j) \/ FinishJob(j) \/ FailJob(j) \/ RunnerRaises(j)
    BY <1>a, <2>3 DEF RunnerBegins, FinishJob, FailJob, RunnerRaises
  <2>4. CASE SettleRows(j) \/ SettleSafety(j) \/ SettleTarget(j)
    <3>1. point' \in [Points -> PointStatus]
      BY <2>4, RowsAreStatuses DEF SettleRows, RowsSettled, SettleSafety, SettleTarget, PointsTypeOK
    <3> QED
      BY <2>4, <3>1 DEF SettleRows, SettleSafety, SettleTarget, PointsTypeOK, hostVars
  <2>5. CASE BackupDone(j) \/ DeletePointDone(j)
    BY <2>5 DEF BackupDone, DeletePointDone, PointsTypeOK
  <2>6. CASE RestoreSaves(j)
    BY <2>6 DEF RestoreSaves, PointsTypeOK
  <2>7. CASE RestoreSwaps(j)
    <3>1. Target[j] \in Points
      BY <1>c, <2>7, RunningTells, <1>d DEF RestoreSwaps
    <3> QED
      BY <2>7, <3>1 DEF RestoreSwaps, PointsTypeOK
  <2> QED
    BY <1>1, <2>1, <2>2, <2>3, <2>4, <2>5, <2>6, <2>7 DEF Data
<1>2. ASSUME NEW j \in Jobs, Deletion(j) PROVE PointsTypeOK' /\ DeletionTypeOK'
  <2>1. CASE DeletionRemovesRow(j)
    BY <2>1, <1>b DEF DeletionRemovesRow, PointsTypeOK, PointStatus
  <2>2. CASE DeletionBegins(j) \/ DeletionNotes(j) \/ DeletionCleans(j)
    <3>1. UNCHANGED pointVars /\ held' \in SUBSET Holdings
      BY <2>2 DEF DeletionBegins, DeletionNotes, DeletionCleans, DeletionTypeOK
    <3>2. errors' \in [Jobs -> BOOLEAN]
      <4>1. CASE DeletionNotes(j)
        <5>1. errors[j] \in BOOLEAN
          BY DEF DeletionTypeOK
        <5>2. (errors[j] \/ command[<<j, pc[j]>>] # "done") \in BOOLEAN
          OBVIOUS
        <5>3. errors' = [errors EXCEPT ![j] = (errors[j] \/ command[<<j, pc[j]>>] # "done")]
          BY <4>1, Zenon DEF DeletionNotes
        <5> QED
          BY <5>2, <5>3 DEF DeletionTypeOK
      <4> QED
        BY <2>2, <4>1 DEF DeletionBegins, DeletionCleans, DeletionTypeOK
    <3> QED
      BY <1>a, <3>1, <3>2 DEF DeletionTypeOK
  <2>3. CASE \/ AcceptDeletion(j) \/ DeletionNotQueued(j) \/ DeletionSubmits(j) \/ DeletionVerifies(j)
             \/ DeletionRaises(j) \/ DeletionFails(j)
    BY <1>a, <1>b, <2>3 DEF AcceptDeletion, DeletionNotQueued, DeletionSubmits, DeletionVerifies,
       DeletionRaises, DeletionFails
  <2> QED
    BY <1>2, <2>1, <2>2, <2>3 DEF Deletion
<1>3. ASSUME NEW j \in Jobs, RestoreScript(j) PROVE PointsTypeOK'
  <2>1. CASE RestoreStops(j)
    BY <2>1 DEF RestoreStops, PointsTypeOK
  <2>2. CASE RestoreRefused(j) \/ RestoreDone(j)
    BY <2>2 DEF RestoreRefused, RestoreDone, PointsTypeOK
  <2>3. CASE RestoreFails(j)
    <3>1. report' \in [Jobs -> BOOLEAN]
      <4>1. (script[j] \in {"saved", "swapped"}) \in BOOLEAN
        OBVIOUS
      <4> QED
        BY <2>3, <4>1 DEF RestoreFails, PointsTypeOK
    <3>2. data' \in Versions /\ script' \in [Jobs -> {"idle", "stopped", "saved", "swapped"}]
      <4>1. data' \in {data, replaced[j]} /\ script' = [script EXCEPT ![j] = "idle"]
        BY <2>3, Zenon DEF RestoreFails
      <4> QED
        BY <4>1 DEF PointsTypeOK
    <3>3. stuckScript' \in BOOLEAN
      BY <2>3, Zenon DEF RestoreFails, PointsTypeOK
    <3> QED
      BY <2>3, <3>1, <3>2, <3>3 DEF RestoreFails, PointsTypeOK
  <2>4. CASE PointHandlerLost(j) \/ PointScriptFails(j)
    <3>1. dir' \in [Points -> {"none", "partial", "complete"}]
      BY <2>4 DEF PointHandlerLost, PointScriptFails, PointsTypeOK
    <3>2. stuckScript' \in BOOLEAN
      BY <2>4 DEF PointHandlerLost, PointScriptFails, PointsTypeOK
    <3> QED
      BY <2>4, <3>1, <3>2 DEF PointHandlerLost, PointScriptFails, PointsTypeOK
  <2> QED
    BY <1>3, <2>1, <2>2, <2>3, <2>4 DEF RestoreScript
<1>4. ASSUME NEW j \in Jobs, NEW c \in HostSteps, DeleteScript(j, c) PROVE PointsTypeOK' /\ DeletionTypeOK'
  <2>1. /\ held' \in {held, held \ {c}} /\ errors' = errors
        /\ UNCHANGED <<point, wasFailed, content, data, script, report, replaced, stuckScript>>
    BY <1>4, DeleteScriptTells DEF DeleteHostDone, DeleteHostFails, DeleteHostLost, MayHaveRun, pointVars,
       hostVars
  <2>2. dir' \in [Points -> {"none", "partial", "complete"}]
    BY <1>4, DeleteScriptTells DEF DeleteHostDone, DeleteHostFails, DeleteHostLost, pointVars, hostVars,
       PointsTypeOK
  <2> QED
    BY <2>1, <2>2 DEF PointsTypeOK, DeletionTypeOK
<1>5. Write => PointsTypeOK'
  BY DEF Write, PointsTypeOK
<1> QED
  BY <1>0, <1>a, <1>b, <1>1, <1>2, <1>3, <1>4, <1>5 DEF Next, Operates, dataVars, vars

\* Nobody else is after anything in a behaviour.
LEMMA RequestsStay ==
  ASSUME RunnerInv, HolderRotates, [Next]_vars
  PROVE  requests' = requests
<1>1. Runner => requests' = requests
  BY DEF Runner, Enqueue, EnqueueFails, TakeJob, RecoverJob, HostBegins, WithdrawIntent, ApiStops, ApiStarts,
     Serve, still
<1>2. \A j \in Jobs : RunnerWorks(j) \/ AcceptJob(j) \/ HostWorks => requests' = requests
  BY DEF RunnerWorks, HostWorks, AcceptJob, still
<1> QED
  BY <1>1, <1>2, NextActs DEF HostWorks

\* What settings there are in .env, in the copies of it and in what is about to be written
\* over it was saved or generated.
Contents == {saved, draft.saved, lines.saved, copy.saved, log.saved}
Within(settings, keys, last) == settings["keys"] <= keys /\ \A s \in Services : settings[s] <= last

\* And so were the settings of every container and the key in the database.
NumberInv ==
  /\ Counted
  /\ dbKey \in 0 .. generated
  /\ \A settings \in Contents : Within(settings, generated, saves)
  /\ applied \in [Services -> 0 .. MaxSaves[requests]]
  /\ draft.open => saves < MaxSaves[requests]

\* What a step may make of the settings of the containers.
AppliedMoves ==
  \/ applied' = applied
  \/ \E settings \in {saved, saved'} : applied' = [applied EXCEPT !["nginx"] = settings["nginx"]]
  \/ \E S \in SUBSET Services : applied' = [s \in Services |-> IF s \in S THEN saved[s] ELSE applied[s]]

\* What a step may do to the numbers, other than save.
NumbersMove ==
  /\ saves' = saves /\ generated' \in {generated, generated + 1} /\ dbKey' \in {dbKey, saved["keys"]}
  /\ saved' \in Contents \/ (saved' = NewKeys(lines.saved) /\ generated' = generated + 1)
  /\ {lines'.saved, copy'.saved, log'.saved} \subseteq Contents
  /\ AppliedMoves

\* The settings of .env and its copies are numbers, within bounds that do not fall.
LEMMA ContentsTell ==
  ASSUME NumberInv, ReferenceTypes, RunnerTypes
  PROVE  /\ saves \in Nat /\ saves <= MaxSaves[requests] /\ MaxSaves[requests] \in Nat /\ generated \in Nat
         /\ "keys" \in Entries /\ Services \subseteq Entries /\ "keys" \notin Services /\ "nginx" \in Services
         /\ \A settings \in Contents : settings \in [Entries -> Nat]
         /\ Untouched \in [Entries -> Nat] /\ Within(Untouched, generated, saves)
<1>1. MaxSaves[requests] \in Nat
  BY ServicesAssumption DEF RunnerTypes
<1>2. "keys" \in Entries /\ Services \subseteq Entries /\ "keys" \notin Services /\ "nginx" \in Services
  BY ServicesAssumption DEF Entries
<1>3. \A settings \in Contents : settings \in [Entries -> Nat]
  BY DEF Contents, ReferenceTypes, Drafts
<1>4. saves \in Nat /\ saves <= MaxSaves[requests] /\ generated \in Nat
  BY <1>1 DEF NumberInv, Counted
<1>5. Untouched \in [Entries -> Nat] /\ Within(Untouched, generated, saves)
  BY <1>2, <1>4 DEF Untouched, Within
<1> QED
  BY <1>1, <1>2, <1>3, <1>4, <1>5

\* Such a step keeps the numbers in bounds.
LEMMA NumbersKept ==
  ASSUME NumberInv, ReferenceTypes, RunnerTypes, NumbersMove, requests' = requests,
         draft' \in {draft, NoDraft} \/ (draft'.saved = saved /\ saves < MaxSaves[requests])
  PROVE  NumberInv'
<1>0. /\ saves \in Nat /\ saves <= MaxSaves[requests] /\ MaxSaves[requests] \in Nat /\ generated \in Nat
      /\ "keys" \in Entries /\ Services \subseteq Entries /\ "keys" \notin Services /\ "nginx" \in Services
      /\ \A settings \in Contents : settings \in [Entries -> Nat] /\ Within(settings, generated, saves)
  BY ContentsTell DEF NumberInv
<1>1. Counted' /\ generated' \in Nat /\ generated <= generated'
  BY <1>0 DEF NumbersMove, Counted
<1>2. \A settings \in Contents : Within(settings, generated', saves')
  BY <1>0, <1>1 DEF Within, NumbersMove
<1>3. saved \in Contents /\ draft.saved \in Contents /\ lines.saved \in Contents
  BY DEF Contents
<1>4. dbKey' \in 0 .. generated'
  BY <1>0, <1>1, <1>3 DEF NumberInv, NumbersMove, Within
<1>5. Within(NewKeys(lines.saved), generated + 1, saves)
  BY <1>0, <1>3 DEF NewKeys, Within
<1>6. Within(draft'.saved, generated', saves')
  <2>1. NoDraft.saved = Untouched
    BY DEF NoDraft
  <2>2. Within(Untouched, generated', saves')
    BY <1>0, <1>1 DEF Untouched, Within, NumbersMove
  <2> QED
    BY <1>2, <1>3, <2>1, <2>2
<1>7. Within(saved', generated', saves')
  BY <1>2, <1>5 DEF NumbersMove
<1>8. \A settings \in Contents' : Within(settings, generated', saves')
  BY <1>2, <1>6, <1>7 DEF Contents, NumbersMove
<1>9. applied' \in [Services -> 0 .. MaxSaves[requests]]
  <2>0. saved' \in [Entries -> Nat]
    BY <1>0, <1>3 DEF NumbersMove, NewKeys
  <2>1. \A settings \in {saved, saved'} : \A s \in Services : settings[s] \in 0 .. MaxSaves[requests]
    BY <1>0, <1>3, <1>7, <2>0 DEF Within, NumbersMove
  <2>2. ASSUME NEW settings \in {saved, saved'}, applied' = [applied EXCEPT !["nginx"] = settings["nginx"]]
        PROVE  applied' \in [Services -> 0 .. MaxSaves[requests]]
    BY <1>0, <2>1, <2>2 DEF NumberInv
  <2>3. ASSUME NEW S \in SUBSET Services,
               applied' = [s \in Services |-> IF s \in S THEN saved[s] ELSE applied[s]]
        PROVE  applied' \in [Services -> 0 .. MaxSaves[requests]]
    BY <1>3, <2>1, <2>3 DEF NumberInv
  <2> QED
    BY <2>2, <2>3 DEF NumberInv, NumbersMove, AppliedMoves
<1>10. draft'.open => saves' < MaxSaves[requests]
  BY DEF NumberInv, NumbersMove, NoDraft
<1> QED
  BY <1>1, <1>4, <1>8, <1>9, <1>10 DEF NumberInv, Within

\* A save is the next one.
LEMMA SaveKept ==
  ASSUME NumberInv, ReferenceTypes, RunnerTypes, ReplaceEnv, UNCHANGED <<rotationVars, keyRotationVars>>
  PROVE  NumberInv'
<1>0. /\ saves \in Nat /\ MaxSaves[requests] \in Nat /\ generated \in Nat
      /\ "keys" \in Entries /\ Services \subseteq Entries /\ "keys" \notin Services
      /\ \A settings \in Contents : settings \in [Entries -> Nat] /\ Within(settings, generated, saves)
      /\ Within(Untouched, generated, saves) /\ Untouched \in [Entries -> Nat]
  BY ContentsTell DEF NumberInv
<1>1. /\ saves' = saves + 1 /\ draft.open /\ draft'.saved = Untouched
      /\ saved' = [e \in Entries |-> IF e \in draft.affects THEN saves + 1 ELSE draft.saved[e]]
      /\ draft.affects \in SUBSET Services /\ draft.saved \in Contents
      /\ UNCHANGED <<log, lines, copy, generated, dbKey, applied, requests>>
  BY DEF ReplaceEnv, NoDraft, rotationVars, scriptVars, keyRotationVars, keyVars, keyScriptVars, runnerVars,
     Contents, ReferenceTypes, Drafts
<1>2. saves < MaxSaves[requests]
  BY <1>1 DEF NumberInv, Counted
<1>3. Counted'
  BY <1>0, <1>1, <1>2 DEF Counted
<1>4. \A settings \in Contents \cup {Untouched} : Within(settings, generated', saves')
  BY <1>0, <1>1 DEF Within
<1>5. Within(saved', generated', saves')
  BY <1>0, <1>1 DEF Within
<1>6. \A settings \in Contents' : Within(settings, generated', saves')
  BY <1>1, <1>4, <1>5 DEF Contents
<1>7. ~draft'.open
  BY DEF ReplaceEnv, NoDraft
<1> QED
  BY <1>1, <1>3, <1>6, <1>7 DEF NumberInv

\* Half a step of a rotation's script, and a whole one.
LEMMA ScriptMovesNumbers ==
  ASSUME Halfway \/ (\E j \in Jobs : Advance(j)) \/ RollBack,
         UNCHANGED <<saves, generated, dbKey, copy>>
  PROVE  NumbersMove
<1> USE DEF Halfway, Advance, RollBack, StopGateway, WriteFiles, SwapReference, RestartGateway, SetJournal,
            Withdraw, Publish, Contents
<1>1. saved' \in Contents
  OBVIOUS
<1>2. lines'.saved \in Contents
  OBVIOUS
<1>3. log'.saved \in Contents
  OBVIOUS
<1>4. applied' = applied \/ applied' = [applied EXCEPT !["nginx"] = saved["nginx"]]
  OBVIOUS
<1>5. saved \in Contents /\ copy'.saved \in Contents
  OBVIOUS
<1> QED
  BY <1>1, <1>2, <1>3, <1>4, <1>5, Zenon DEF NumbersMove, AppliedMoves

\* The steps of the script of a key rotation.
LEMMA KeyScriptMovesNumbers ==
  ASSUME NEW j \in Jobs, KeyScriptStep(j) \/ (KeyHalfway /\ UNCHANGED <<lines, copy>>),
         UNCHANGED <<saves, dbKey, log>>, generated' # generated + 1 => generated' = generated
  PROVE  NumbersMove
<1> USE DEF KeyScriptStep, KeyHalfway, touched, Env, Files, InEntry, NginxUp, Contents
<1>1. saved' \in Contents \/ (saved' = NewKeys(lines.saved) /\ generated' = generated + 1)
  OBVIOUS
<1>2. lines'.saved \in Contents
  OBVIOUS
<1>3. copy'.saved \in Contents
  OBVIOUS
<1>4. applied' = applied \/ \E settings \in {saved, saved'} : applied' = [applied EXCEPT !["nginx"] = settings["nginx"]]
  OBVIOUS
<1>5. log'.saved \in Contents
  OBVIOUS
<1> QED
  BY <1>1, <1>2, <1>3, <1>4, <1>5, Zenon DEF NumbersMove, AppliedMoves

\* So does every other operation.
LEMMA OperatesMovesNumbers ==
  ASSUME RunnerInv, Operates
  PROVE  NumbersMove
<1>0. requests \subseteq Jobs
  BY RunnerAssumption DEF RunnerInv, RunnerTypes
<1> DEFINE numbers == <<saves, saved, applied, log, lines, copy, generated, dbKey>>
<1>a. UNCHANGED numbers => NumbersMove
  BY DEF NumbersMove, AppliedMoves, Contents
<1>b. UNCHANGED runtimeVars => UNCHANGED numbers
  BY DEF runtimeVars, serviceVars, settingVars, rotationVars, scriptVars, keyRotationVars, keyVars,
     keyScriptVars
<1>c. \A entry, marked, running : Entry(entry, marked, running) => UNCHANGED numbers
  BY DEF Entry, settingVars, keyRotationVars, keyVars, keyScriptVars
<1>1. ASSUME NEW j \in Jobs, RestoreScript(j) \/ \E c \in HostSteps : DeleteScript(j, c) PROVE UNCHANGED numbers
  BY <1>b, <1>c, <1>1, DeleteScriptTells DEF RestoreScript
<1>2. ASSUME NEW j \in Jobs, Lifecycle(j), UNCHANGED <<rotationVars, keyRotationVars>> PROVE NumbersMove
  <2>0. UNCHANGED <<log, lines, copy, generated, dbKey, saves, saved>>
    BY <1>2 DEF rotationVars, scriptVars, keyRotationVars, keyVars, keyScriptVars, Lifecycle,
       AcceptLifecycle, AnswerLifecycle, LifecycleNotQueued, LifecycleBegins, LifecycleEnds,
       RecreationEnds, LifecycleRaises, LifecycleDone, LifecycleFails, LifecycleLost, serviceVars,
       settingVars
  <2>1. ASSUME LifecycleWork(j), j \in LifecycleJobs
        PROVE  \/ applied' = applied
               \/ \E S \in SUBSET Services :
                    applied' = [s \in Services |-> IF s \in S THEN saved[s] ELSE applied[s]]
    <3>1. applied' = applied \/ RecreatedContainers(Recreates[j])
      BY <2>1, Zenon DEF LifecycleWork
    <3>2. Recreates[j] \in SUBSET Services
      BY ServicesAssumption
    <3> QED
      BY <3>1, <3>2 DEF RecreatedContainers
  <2>2. ASSUME LifecycleDone(j) \/ LifecycleFails(j) \/ LifecycleLost(j)
        PROVE  applied' = applied \/ (LifecycleWork(j) /\ j \in LifecycleJobs)
    BY <2>2 DEF LifecycleDone, LifecycleFails, LifecycleLost, LifecycleLeaves, GeneratedOnly
  <2>3. \/ applied' = applied \/ LifecycleDone(j) \/ LifecycleFails(j) \/ LifecycleLost(j)
    BY <1>2 DEF Lifecycle, AcceptLifecycle, AnswerLifecycle, LifecycleNotQueued, LifecycleBegins,
       LifecycleEnds, RecreationEnds, LifecycleRaises, serviceVars, settingVars
  <2> QED
    BY <2>0, <2>1, <2>2, <2>3 DEF NumbersMove, AppliedMoves, Contents
<1>3. ASSUME NEW j \in Jobs, Rotation(j), UNCHANGED keyRotationVars PROVE NumbersMove
  <2>1. UNCHANGED <<generated, dbKey, saves, copy>>
    BY <1>3 DEF keyRotationVars, keyVars, keyScriptVars, Rotation, AcceptRotation, CompensateRotation,
       RotationBegins, RotationConfirms, RotationRaises, RotationFails, ScriptBegins, Preflight, Advance,
       ScriptFails, ScriptDone, ScriptKilled, outside, serviceVars, settingVars
  <2>2. CASE \/ AcceptRotation(j) \/ CompensateRotation(j) \/ RotationBegins(j) \/ RotationConfirms(j)
             \/ RotationRaises(j) \/ RotationFails(j) \/ ScriptBegins(j) \/ Preflight(j)
             \/ ScriptDone(j) \/ (ScriptKilled(j) /\ ~Held(j))
    BY <1>a, <2>1, <2>2 DEF AcceptRotation, CompensateRotation, RotationBegins,
       RotationConfirms, RotationRaises, RotationFails, ScriptBegins, Preflight,
       ScriptDone, ScriptKilled, serviceVars, settingVars, rotationVars, scriptVars, SetJournal
  <2>3. CASE Advance(j) \/ ScriptFails(j) \/ (ScriptKilled(j) /\ Held(j))
    BY <1>0, <2>1, <2>3, ScriptMovesNumbers DEF ScriptFails, ScriptKilled
  <2> QED
    BY <1>3, <2>2, <2>3 DEF Rotation
<1>4. ASSUME Rotates, UNCHANGED keyRotationVars PROVE NumbersMove
  <2>1. UNCHANGED <<generated, dbKey, saves, copy>>
    BY <1>4 DEF keyRotationVars, keyVars, keyScriptVars, Rotates, RollBack, RollBackDone, RollBackFails,
       LastStop, OperatorRecovers, AdmitRecreation, RefuseRecreation, outside, serviceVars, settingVars
  <2>2. CASE RollBack \/ RollBackFails
    BY <1>0, <2>1, <2>2, ScriptMovesNumbers DEF RollBackFails
  <2>3. CASE \/ RollBackDone \/ LastStop \/ OperatorRecovers
             \/ \E j \in requests : AdmitRecreation(j) \/ RefuseRecreation(j)
    BY <1>a, <2>1, <2>3 DEF RollBackDone, LastStop, OperatorRecovers, AdmitRecreation, RefuseRecreation,
       SetJournal, serviceVars, settingVars, rotationVars, scriptVars
  <2> QED
    BY <1>4, <2>2, <2>3 DEF Rotates
<1>5. ASSUME NEW j \in Jobs, KeyRotation(j) PROVE NumbersMove
  <2>0. UNCHANGED <<saves, log>>
    BY <1>5 DEF KeyRotation, AcceptManual, ScanClaims, KeyRotationNotQueued, KeyRotationBegins,
       RotationEnds, StoreKeys, Invalidate, KeyRotationDone, KeyRotationRaises, BlockAfterFailure,
       BlockFails, KeyScriptBegins, KeyScriptRefused, KeyScriptStep, KeyScriptDone, KeyScriptTurnsBack,
       KeyScriptTurnedBack, KeyScriptDies, KeyScriptLost, filesAndScript, serviceVars, settingVars,
       rotationVars, scriptVars, beside
  <2>1. CASE \/ AcceptManual(j) \/ ScanClaims(j) \/ KeyRotationNotQueued(j) \/ KeyRotationBegins(j)
             \/ RotationEnds(j) \/ StoreKeys(j) \/ Invalidate(j) \/ KeyRotationDone(j)
             \/ KeyRotationRaises(j) \/ BlockAfterFailure(j) \/ BlockFails(j)
    BY <2>0, <2>1 DEF AcceptManual, ScanClaims, KeyRotationNotQueued, KeyRotationBegins, RotationEnds,
       StoreKeys, Invalidate, KeyRotationDone, KeyRotationRaises, BlockAfterFailure, BlockFails,
       filesAndScript, serviceVars, settingVars, rotationVars, scriptVars, keyRotationVars, keyVars,
       keyScriptVars, NumbersMove, AppliedMoves, Contents
  <2>2. CASE KeyScriptBegins(j) \/ KeyScriptRefused(j) \/ KeyScriptDone(j) \/ KeyScriptTurnedBack(j)
    BY <1>a, <2>0, <2>2 DEF KeyScriptBegins, KeyScriptRefused, KeyScriptDone, KeyScriptTurnedBack,
       InEntry, touched, beside, keyScriptVars
  <2>3. CASE KeyScriptTurnsBack(j)
    BY <2>0, <2>3 DEF KeyScriptTurnsBack, NginxUp, touched, beside, NumbersMove, AppliedMoves, Contents
  <2>4. KeyScriptStep(j) \/ KeyHalfway => generated' \in {generated, generated + 1}
    BY DEF KeyScriptStep, KeyHalfway, touched, Files, Env, InEntry, NginxUp
  <2>5. CASE KeyScriptStep(j) \/ KeyScriptDies(j)
    BY <2>0, <2>4, <2>5, KeyScriptMovesNumbers DEF KeyScriptStep, KeyScriptDies, beside
  <2>6. CASE KeyScriptLost(j)
    BY <1>a, <2>0, <2>4, <2>6, KeyScriptMovesNumbers DEF KeyScriptLost, beside, touched
  <2> QED
    BY <1>5, <2>1, <2>2, <2>3, <2>5, <2>6 DEF KeyRotation
<1>6. Sync /\ UNCHANGED keyRotationVars => UNCHANGED numbers
  BY DEF Sync, serviceVars, settingVars, keyRotationVars, keyVars, keyScriptVars
<1>7. Studio \/ ScanReadsExpiry \/ KeysAge \/ (\E on \in BOOLEAN : SetAutomatic(on)) => UNCHANGED numbers
  BY DEF Studio, Promote, FetchKey, PublishKey, ScanReadsExpiry, KeysAge, SetAutomatic,
     filesAndScript, serviceVars, settingVars, rotationVars, scriptVars, keyVars, keyScriptVars
<1> HIDE DEF numbers
<1> QED
  BY <1>0, <1>a, <1>b, <1>1, <1>2, <1>3, <1>4, <1>5, <1>6, <1>7 DEF Operates

\* Every step keeps them.
LEMMA NextNumbers ==
  NumberInv /\ ReferenceInv /\ RunnerInv /\ [Next]_vars => NumberInv'
<1> SUFFICES ASSUME NumberInv, ReferenceInv, RunnerInv, [Next]_vars PROVE NumberInv'
  OBVIOUS
<1>0. requests \subseteq Jobs /\ ReferenceTypes /\ RunnerTypes /\ requests' = requests
  BY RequestsStay, RunnerAssumption DEF RunnerInv, RunnerTypes, ReferenceInv, Steady, ScriptHolds
<1>1. CASE UNCHANGED vars
  <2>1. UNCHANGED <<saves, saved, applied, log, lines, copy, generated, dbKey, draft, requests>>
    BY <1>1 DEF vars, runtimeVars, runnerVars, serviceVars, settingVars, rotationVars, scriptVars,
       keyRotationVars, keyVars, keyScriptVars
  <2>2. NumbersMove
    BY <2>1 DEF NumbersMove, AppliedMoves, Contents
  <2> QED
    BY <1>0, <2>1, <2>2, NumbersKept
<1>2. CASE Operates /\ draft' = IF api' = "up" THEN draft ELSE NoDraft
  BY <1>0, <1>2, OperatesMovesNumbers, NumbersKept
<1>3. CASE Saves /\ UNCHANGED <<dataVars, rotationVars, keyRotationVars>>
  <2>1. CASE ReplaceEnv
    BY <1>0, <1>3, <2>1, SaveKept
  <2>2. CASE (\E S \in Affected : ReadEnv(S)) \/ SaveFails
    <3>1. /\ UNCHANGED <<saves, saved, applied, log, lines, copy, generated, dbKey>>
          /\ draft' = NoDraft \/ (draft'.saved = saved /\ saves < MaxSaves[requests])
      BY <1>3, <2>2 DEF ReadEnv, SaveFails, serviceVars, settingVars, rotationVars, scriptVars, keyRotationVars,
         keyVars, keyScriptVars
    <3>2. NumbersMove
      BY <3>1 DEF NumbersMove, AppliedMoves, Contents
    <3> QED
      BY <1>0, <3>1, <3>2, NumbersKept
  <2> QED
    BY <1>3, <2>1, <2>2 DEF Saves
<1> QED
  BY <1>1, <1>2, <1>3 DEF Next

-----------------------------------------------------------------------------
(* Requests, history and keys. *)

SettingTypes ==
  /\ pending \subseteq Services
  /\ asked \in [Jobs -> [job : Jobs \cup {"none"}, since : [Entries -> Nat]]]
  /\ history \in [Rotations -> {"absent"} \cup Open \cup HistoryFinal]
  /\ rolledBack \in [Rotations -> BOOLEAN]

VersionTypes ==
  /\ version \in Nat \ {0}
  /\ automatic \in BOOLEAN /\ blocked \in BOOLEAN
  /\ forgiven \subseteq KeyJobs
  /\ expiry \in {"unknown", "far", "near"}
  /\ wrote \in [Jobs -> 0 .. version]
  /\ required \in 0 .. version /\ cached \in 0 .. version
  /\ fetched \in 0 .. version /\ used \in 0 .. version

\* Every step keeps the types of what was asked and of the history.
LEMMA NextSettings ==
  SettingTypes /\ ReferenceInv /\ RunnerInv /\ [Next]_vars => SettingTypes'
<1> SUFFICES ASSUME SettingTypes, ReferenceInv, RunnerInv, [Next]_vars PROVE SettingTypes'
  OBVIOUS
<1>0. requests \subseteq Jobs /\ saved \in [Entries -> Nat]
  BY RunnerAssumption DEF RunnerInv, RunnerTypes, ReferenceInv, Steady, ReferenceTypes
<1> DEFINE settings == <<pending, asked, history, rolledBack>>
<1>a. UNCHANGED settings => SettingTypes'
  BY DEF SettingTypes
<1>b. UNCHANGED runtimeVars => UNCHANGED settings
  BY DEF runtimeVars, serviceVars, settingVars, rotationVars
<1>c. \A entry, marked, running : Entry(entry, marked, running) => UNCHANGED settings
  BY DEF Entry, settingVars
<1>1. ASSUME NEW j \in Jobs, RestoreScript(j) \/ \E c \in HostSteps : DeleteScript(j, c) PROVE UNCHANGED settings
  BY <1>b, <1>c, <1>1, DeleteScriptTells DEF RestoreScript
<1>2. ASSUME NEW j \in Jobs, Lifecycle(j), UNCHANGED <<rotationVars, keyRotationVars>> PROVE SettingTypes'
  <2>0. UNCHANGED <<history, rolledBack>>
    BY <1>2 DEF rotationVars
  <2>1. CASE AcceptLifecycle(j)
    <3>1. asked' = [asked EXCEPT ![j] = [job |-> j, since |-> saved]] /\ pending' = pending
      BY <2>1 DEF AcceptLifecycle
    <3> QED
      BY <1>0, <2>0, <3>1 DEF SettingTypes
  <2>2. CASE AnswerLifecycle(j)
    <3>1. PICK k \in Jobs : asked' = [asked EXCEPT ![j] =
            [job |-> k, since |-> IF command[The(k)] = "absent" THEN saved ELSE Untouched]]
      BY <2>2 DEF AnswerLifecycle
    <3>2. (IF command[The(k)] = "absent" THEN saved ELSE Untouched) \in [Entries -> Nat]
      BY <1>0 DEF Untouched
    <3>3. pending' = pending
      BY <2>2 DEF AnswerLifecycle
    <3> QED
      BY <2>0, <3>1, <3>2, <3>3 DEF SettingTypes
  <2>3. CASE \/ LifecycleNotQueued(j) \/ LifecycleBegins(j) \/ LifecycleEnds(j) \/ RecreationEnds(j)
             \/ LifecycleRaises(j) \/ LifecycleDone(j) \/ LifecycleFails(j) \/ LifecycleLost(j)
    <3>1. asked' = asked /\ pending' \in {pending, {}}
      BY <2>3 DEF LifecycleNotQueued, LifecycleBegins, LifecycleEnds, RecreationEnds, LifecycleRaises,
         LifecycleDone, LifecycleFails, LifecycleLost, serviceVars, settingVars
    <3> QED
      BY <2>0, <3>1 DEF SettingTypes
  <2> QED
    BY <1>2, <2>1, <2>2, <2>3 DEF Lifecycle
<1>3. CASE Saves /\ UNCHANGED rotationVars
  <2>1. draft.affects \subseteq Services
    BY DEF ReferenceInv, Steady, ReferenceTypes, Drafts
  <2>2. asked' = asked /\ pending' \in {pending, draft.affects} /\ UNCHANGED <<history, rolledBack>>
    BY <1>3 DEF Saves, ReadEnv, ReplaceEnv, SaveFails, serviceVars, settingVars, rotationVars
  <2> QED
    BY <2>1, <2>2 DEF SettingTypes
<1>4. ASSUME NEW j \in Jobs, Rotation(j) PROVE SettingTypes'
  <2>0. UNCHANGED <<pending, asked>>
    BY <1>4 DEF Rotation, AcceptRotation, CompensateRotation, RotationBegins,
       RotationConfirms, RotationRaises, RotationFails, ScriptBegins, Preflight, Advance, ScriptFails,
       ScriptDone, ScriptKilled, outside, serviceVars, settingVars
  <2>1. CASE AcceptRotation(j) \/ CompensateRotation(j) \/ RotationBegins(j) \/ RotationFails(j)
    <3>1. rolledBack' = rolledBack /\ (history' = history \/ \E s \in Open \cup HistoryFinal : SetHistory(j, s))
      BY <2>1 DEF AcceptRotation, CompensateRotation, RotationBegins, RotationFails, Open, HistoryFinal
    <3> QED
      BY <2>0, <3>1 DEF SettingTypes, SetHistory
  <2>2. CASE RotationConfirms(j)
    <3>1. Confirmed(j) \in HistoryFinal \cup {"raise"}
      <4>1. Confirmed(j) \in {"succeeded", "raise", "rolled_back", "failed"}
        BY Zenon DEF Confirmed
      <4> QED
        BY <4>1 DEF HistoryFinal
    <3>2. rolledBack' = rolledBack /\ (history' = history \/ \E s \in Open \cup HistoryFinal : SetHistory(j, s))
      BY <2>2, <3>1 DEF RotationConfirms
    <3> QED
      BY <2>0, <3>2 DEF SettingTypes, SetHistory
  <2>3. CASE \/ RotationRaises(j) \/ ScriptBegins(j) \/ Preflight(j) \/ Advance(j)
             \/ ScriptFails(j) \/ ScriptDone(j) \/ ScriptKilled(j)
    BY <1>a, <2>0, <2>3 DEF RotationRaises, ScriptBegins, Preflight, Advance, ScriptFails, ScriptDone,
       ScriptKilled, EndCommand, outside, rotationVars
  <2> QED
    BY <1>4, <2>1, <2>2, <2>3 DEF Rotation
<1>5. ASSUME Rotates PROVE SettingTypes'
  <2>1. UNCHANGED <<pending, asked, history>>
    BY <1>5 DEF Rotates, RollBack, RollBackDone, RollBackFails, LastStop,
       OperatorRecovers, AdmitRecreation, RefuseRecreation, outside, serviceVars, settingVars, rotationVars
  <2>2. rolledBack' = rolledBack \/ \E b \in BOOLEAN : rolledBack' = [rolledBack EXCEPT ![holder] = b]
    <3>1. CASE RollBackFails
      <4>1. (step = "rb_cleanup") \in BOOLEAN
        OBVIOUS
      <4> QED
        BY <3>1, <4>1, Zenon DEF RollBackFails
    <3>2. CASE RollBackDone
      <4>1. TRUE \in BOOLEAN
        OBVIOUS
      <4> QED
        BY <3>2, <4>1, Zenon DEF RollBackDone
    <3>3. CASE RollBack \/ LastStop \/ OperatorRecovers
      BY <3>3 DEF RollBack, LastStop, OperatorRecovers, outside
    <3>4. ASSUME NEW j, AdmitRecreation(j) \/ RefuseRecreation(j) PROVE rolledBack' = rolledBack
      BY <3>4 DEF AdmitRecreation, RefuseRecreation, rotationVars
    <3> QED
      BY <1>5, <3>1, <3>2, <3>3, <3>4 DEF Rotates
  <2> QED
    BY <2>1, <2>2 DEF SettingTypes
<1>6. ASSUME NEW j \in Jobs, KeyRotation(j) PROVE UNCHANGED settings
  BY <1>6 DEF KeyRotation, AcceptManual, ScanClaims, KeyRotationNotQueued, KeyRotationBegins,
     RotationEnds, StoreKeys, Invalidate, KeyRotationDone, KeyRotationRaises, BlockAfterFailure,
     BlockFails, KeyScriptBegins, KeyScriptRefused, KeyScriptStep, KeyScriptDone, KeyScriptTurnsBack,
     KeyScriptTurnedBack, KeyScriptDies, KeyScriptLost, filesAndScript, serviceVars, settingVars,
     rotationVars, beside
<1>7. Sync => UNCHANGED settings
  BY DEF Sync, serviceVars, settingVars
<1>8. Studio \/ ScanReadsExpiry \/ KeysAge \/ (\E on \in BOOLEAN : SetAutomatic(on)) => UNCHANGED settings
  BY DEF Studio, Promote, FetchKey, PublishKey, ScanReadsExpiry, KeysAge, SetAutomatic,
     filesAndScript, serviceVars, settingVars, rotationVars
<1>9. UNCHANGED vars => UNCHANGED settings
  BY <1>b DEF vars
<1> HIDE DEF settings
<1> QED
  BY <1>0, <1>a, <1>b, <1>1, <1>2, <1>3, <1>4, <1>5, <1>6, <1>7, <1>8, <1>9 DEF Next, Operates

\* Every step keeps the types of what is said of the keys.
LEMMA NextKeys ==
  VersionTypes /\ RunnerInv /\ [Next]_vars => VersionTypes'
<1> SUFFICES ASSUME VersionTypes, RunnerInv, [Next]_vars PROVE VersionTypes'
  OBVIOUS
<1>0. requests \subseteq Jobs
  BY RunnerAssumption DEF RunnerInv, RunnerTypes
<1> DEFINE kept == <<version, automatic, blocked, forgiven, expiry, wrote, cacheVars>>
<1>a. UNCHANGED kept => VersionTypes'
  BY DEF VersionTypes, cacheVars
<1>b. UNCHANGED keyRotationVars => UNCHANGED kept
  BY DEF keyRotationVars, keyVars
<1>c. \A entry, marked, running : Entry(entry, marked, running) => UNCHANGED keyRotationVars
  BY DEF Entry
<1>d. UNCHANGED runtimeVars => UNCHANGED keyRotationVars
  BY DEF runtimeVars
<1>e. Failures \subseteq KeyJobs
  BY DEF Failures
<1>f. Block => blocked' \in BOOLEAN
  BY DEF Block, VersionTypes
<1>1. ASSUME NEW j \in Jobs, RestoreScript(j) \/ \E c \in HostSteps : DeleteScript(j, c) PROVE UNCHANGED keyRotationVars
  BY <1>c, <1>d, <1>1, DeleteScriptTells DEF RestoreScript
<1>2. ASSUME NEW j \in Jobs, KeyRotation(j) PROVE VersionTypes'
  <2>1. CASE StoreKeys(j)
    <3>1. /\ version' = version + 1 /\ wrote' = [wrote EXCEPT ![j] = version'] /\ blocked' = FALSE
          /\ forgiven' = Failures /\ expiry' = "far" /\ UNCHANGED <<automatic, cacheVars>>
      BY <2>1 DEF StoreKeys
    <3>2. version' \in Nat \ {0} /\ \A n \in 0 .. version : n \in 0 .. version'
      BY <3>1 DEF VersionTypes
    <3>3. wrote' \in [Jobs -> 0 .. version']
      BY <3>1, <3>2 DEF VersionTypes
    <3> QED
      BY <1>e, <3>1, <3>2, <3>3 DEF VersionTypes, cacheVars
  <2>2. CASE Invalidate(j)
    <3>1. /\ required' = IF wrote[j] > required THEN wrote[j] ELSE required
          /\ cached' = IF cached < required' THEN 0 ELSE cached
          /\ UNCHANGED <<keyVars, fetched, used>>
      BY <2>2 DEF Invalidate
    <3>2. wrote[j] \in 0 .. version
      BY DEF VersionTypes
    <3>3. required' \in 0 .. version /\ cached' \in 0 .. version
      BY <3>1, <3>2 DEF VersionTypes
    <3> QED
      BY <3>1, <3>3 DEF VersionTypes, keyVars
  <2>3. CASE KeyRotationNotQueued(j) \/ BlockAfterFailure(j)
    <3>1. blocked' \in BOOLEAN /\ UNCHANGED <<version, automatic, forgiven, expiry, wrote, cacheVars>>
      BY <1>f, <2>3 DEF KeyRotationNotQueued, BlockAfterFailure, VersionTypes
    <3> QED
      BY <3>1 DEF VersionTypes, cacheVars
  <2>4. CASE \/ AcceptManual(j) \/ ScanClaims(j) \/ KeyRotationBegins(j) \/ RotationEnds(j)
             \/ KeyRotationDone(j) \/ KeyRotationRaises(j) \/ BlockFails(j)
             \/ KeyScriptBegins(j) \/ KeyScriptRefused(j) \/ KeyScriptStep(j) \/ KeyScriptDone(j)
             \/ KeyScriptTurnsBack(j) \/ KeyScriptTurnedBack(j) \/ KeyScriptDies(j) \/ KeyScriptLost(j)
    BY <1>a, <1>b, <2>4 DEF AcceptManual, ScanClaims, KeyRotationBegins, RotationEnds, KeyRotationDone,
       KeyRotationRaises, BlockFails, KeyScriptBegins, KeyScriptRefused, KeyScriptStep, KeyScriptDone,
       KeyScriptTurnsBack, KeyScriptTurnedBack, KeyScriptDies, KeyScriptLost, beside
  <2> QED
    BY <1>2, <2>1, <2>2, <2>3, <2>4 DEF KeyRotation
<1>3. ASSUME Studio PROVE VersionTypes'
  <2>1. CASE Promote
    BY <2>1 DEF Promote, VersionTypes, keyVars
  <2>2. CASE FetchKey
    BY <2>2 DEF FetchKey, VersionTypes, keyVars
  <2>3. CASE PublishKey
    <3>1. /\ fetched' = 0 /\ {required', cached', used'} \subseteq {required, cached, used, fetched}
          /\ UNCHANGED keyVars
      BY <2>3 DEF PublishKey
    <3> QED
      BY <3>1 DEF VersionTypes, keyVars
  <2> QED
    BY <1>3, <2>1, <2>2, <2>3 DEF Studio
<1>4. ASSUME ScanReadsExpiry \/ KeysAge \/ \E on \in BOOLEAN : SetAutomatic(on) PROVE VersionTypes'
  <2>1. UNCHANGED <<version, wrote, cacheVars>>
    BY <1>4 DEF ScanReadsExpiry, KeysAge, SetAutomatic
  <2>2. expiry' \in {"unknown", "far", "near"} /\ forgiven' \subseteq KeyJobs
    BY <1>4, <1>e DEF ScanReadsExpiry, KeysAge, SetAutomatic, VersionTypes
  <2>3. automatic' \in BOOLEAN /\ blocked' \in BOOLEAN
    <3>1. ASSUME NEW on \in BOOLEAN, SetAutomatic(on) PROVE automatic' \in BOOLEAN /\ blocked' \in BOOLEAN
      BY <3>1 DEF SetAutomatic
    <3>2. CASE ScanReadsExpiry \/ KeysAge
      BY <3>2 DEF ScanReadsExpiry, KeysAge, VersionTypes
    <3> QED
      BY <1>4, <3>1, <3>2
  <2> QED
    BY <2>1, <2>2, <2>3 DEF VersionTypes, cacheVars
<1>5. UNCHANGED vars => UNCHANGED keyRotationVars
  BY <1>d DEF vars
<1> HIDE DEF kept
<1> QED
  BY <1>0, <1>a, <1>b, <1>d, <1>1, <1>2, <1>3, <1>4, <1>5 DEF Next, Operates

-----------------------------------------------------------------------------
(* The operations together. *)

OperationsInv ==
  /\ RunnerInv /\ PointsTypeOK /\ DeletionTypeOK /\ ReferenceInv
  /\ NumberInv /\ SettingTypes /\ VersionTypes

\* It holds to begin with.
LEMMA InitOperations == Init => OperationsInv
<1> SUFFICES ASSUME Init PROVE OperationsInv
  OBVIOUS
<1> USE DEF Init
<1>1. PointsTypeOK
  BY PointsAssumption DEF PointsInit, PointsTypeOK, PointStatus
<1>2. DeletionTypeOK
  BY DEF DeletionInit, DeletionTypeOK
<1>3. NumberInv
  <2>1. MaxSaves[requests] \in Nat /\ "keys" \in Entries /\ Services \subseteq Entries
    BY ServicesAssumption DEF Entries, RunnerInit
  <2>2. \A settings \in Contents : settings = Untouched
    BY DEF ServicesInit, RotationInit, KeyInit, Contents, NoDraft
  <2>3. saves = 0 /\ generated = 0 /\ dbKey = 0 /\ applied = [s \in Services |-> 0] /\ ~draft.open
    BY DEF ServicesInit, KeyInit, NoDraft
  <2>4. Within(Untouched, 0, 0)
    BY <2>1 DEF Within, Untouched
  <2> QED
    BY <2>1, <2>2, <2>3, <2>4 DEF NumberInv, Counted
<1>4. SettingTypes
  BY DEF ServicesInit, RotationInit, SettingTypes, Untouched
<1>5. VersionTypes
  <2>1. automatic \in BOOLEAN
    BY DEF KeyInit
  <2>2. version = 1 /\ 0 \in 0 .. version /\ wrote = [j \in Jobs |-> 0]
    BY DEF KeyInit
  <2>3. blocked \in BOOLEAN /\ forgiven \subseteq KeyJobs /\ expiry \in {"unknown", "far", "near"}
    BY DEF KeyInit
  <2>4. required = 0 /\ cached = 0 /\ fetched = 0 /\ used = 0
    BY DEF KeyInit
  <2> QED
    BY <2>1, <2>2, <2>3, <2>4 DEF VersionTypes
<1> QED
  BY <1>1, <1>2, <1>3, <1>4, <1>5, InitRunner, InitReference DEF OperationsInv

\* Every step keeps it.
LEMMA NextOperations == OperationsInv /\ [Next]_vars => OperationsInv'
<1> SUFFICES ASSUME OperationsInv, [Next]_vars PROVE OperationsInv'
  OBVIOUS
<1>1. HolderRotates /\ Counted
  BY DEF OperationsInv, ReferenceInv, Steady, ScriptHolds, NumberInv
<1> QED
  BY <1>1, NextRunner, NextPoints, NextReference, NextNumbers, NextSettings, NextKeys DEF OperationsInv

\* In every behaviour of the operations.
THEOREM OperationsHold == Spec => []OperationsInv
  BY InitOperations, NextOperations, PTL DEF Spec

\* The types of the variables of all modules; at most one runner works on the project,
\* which the deque and the worker of the project (project_actions.py) are for.
THEOREM OperationsTyped == Spec => []TypeOK
<1>1. OperationsInv => TypeOK
  <2> SUFFICES ASSUME OperationsInv PROVE TypeOK
    OBVIOUS
  <2> USE DEF OperationsInv
  <2>1. RunnerTypeOK(PointPlaces \cup {Steps[n] : n \in DOMAIN Steps} \cup KeyPlaces)
    <3>1. Cardinality(Working) <= 1
      <4>1. CASE Working = {}
        BY <4>1, FS_EmptySet
      <4>2. ASSUME NEW j \in Working PROVE Cardinality(Working) <= 1
        <5>1. Working = {j}
          BY <4>2 DEF RunnerInv, OneWorks
        <5>2. Cardinality({j}) = 1
          BY FS_Singleton
        <5> QED
          BY <5>1, <5>2
      <4> QED
        BY <4>1, <4>2
    <3>2. Resting \cup {"begin"} \cup (PointPlaces \cup {Steps[n] : n \in DOMAIN Steps} \cup KeyPlaces)
            = Resting \cup AllPlaces
      BY DEF AllPlaces
    <3>3. {project, files} \subseteq BOOLEAN
      BY DEF RunnerInv, RunnerTypes
    <3> QED
      BY <3>1, <3>2, <3>3 DEF RunnerTypeOK, RunnerInv, RunnerTypes
  <2>2. ServicesTypeOK
    <3>1. admitted \subseteq LifecycleJobs
      BY DEF ReferenceInv, Steady, ScriptHolds, Recreations
    <3>2. ReferenceTypes
      BY DEF ReferenceInv, Steady
    <3> QED
      BY <3>1, <3>2 DEF ServicesTypeOK, ReferenceTypes, Drafts, SettingTypes, NumberInv, Counted
  <2>3. RotationTypeOK
    BY DEF RotationTypeOK, ReferenceInv, Steady, ReferenceTypes, SettingTypes
  <2>4. KeyTypeOK
    <3>1. {automatic, blocked} \subseteq BOOLEAN
      BY DEF VersionTypes
    <3> QED
      BY <3>1 DEF KeyTypeOK, VersionTypes, NumberInv, Counted, ReferenceInv, Steady, ReferenceTypes
  <2> QED
    BY <2>1, <2>2, <2>3, <2>4 DEF TypeOK
<1> QED
  BY <1>1, OperationsHold, PTL

\* Nobody is served under a reference that is not the project's, at every step of a
\* rotation, whatever fails or is killed, for any number of rotations, restores, key
\* rotations, recreations, saves and troubles (rotate_project_reference.py), until a save
\* writes a former reference back over .env (project_settings.py), or the rotation of the
\* keys does with what it has read of such a save (rotate_key.sh).
THEOREM ReferenceServed == Spec => []ServesTheReference
<1>1. OperationsInv => ServesTheReference
  <2> SUFFICES ASSUME OperationsInv, ~misplaced PROVE ServesTheReference
    BY DEF ServesTheReference
  <2>1. Agrees
    BY DEF OperationsInv, ReferenceInv
  <2>2. JournalCoversChange
    BY <2>1 DEF Agrees, FilesAgree, JournalCoversChange
  <2> QED
    BY <2>1, <2>2 DEF Agrees, WithdrawnWhileApart, StoppedWhileApart, Excused, ServesTheReference
<1> QED
  BY <1>1, OperationsHold, PTL

-----------------------------------------------------------------------------
(* What a deletion has removed stays removed. *)

\* Neither files nor a backup that could be restored, nor a script that makes one.
NoneUsable == ~files /\ (\A p \in Points : dir[p] # "complete") /\ \A j \in Jobs : script[j] = "idle"

\* What a step of the deletion removes is not there.
Gone(c) == c \notin held /\ (c = "delete_project_files" => NoneUsable)

\* A handler that is done has removed what it is for, a runner without errors has seen
\* everything before its place removed, and the row goes last.
GoneInv ==
  /\ \A j \in Deletions, c \in HostSteps : command[<<j, c>>] = "done" => Gone(c)
  /\ \A j \in Deletions, n \in 1 .. 8 :
       pc[j] = Steps[n] /\ ~errors[j] => \A m \in 1 .. (n - 1) : Gone(Steps[m])
  /\ ~project => held = {} /\ NoneUsable

\* Nothing comes back: the files go once, and every script that makes a backup needs them.
LEMMA GoneStays ==
  ASSUME OperationsInv, [Next]_vars
  PROVE  /\ held' \subseteq held
         /\ NoneUsable => NoneUsable'
<1> USE DEF OperationsInv
<1>0. requests \subseteq Jobs /\ PointsTypeOK
  BY RunnerAssumption DEF RunnerInv, RunnerTypes
<1> DEFINE Stays == held' \subseteq held /\ (NoneUsable => NoneUsable')
<1>a. UNCHANGED <<held, files, dir, script>> => Stays
  BY DEF NoneUsable
<1>b. UNCHANGED dataVars => UNCHANGED <<held, dir, script>>
  BY DEF dataVars, pointVars, hostVars, deletionVars
<1>c. UNCHANGED runnerVars \/ UNCHANGED still => files' = files
  BY DEF runnerVars, still
<1>1. ASSUME Runner, UNCHANGED dataVars PROVE Stays
  <2>1. files' = files
    BY <1>1 DEF Runner, Enqueue, EnqueueFails, TakeJob, RecoverJob, HostBegins, WithdrawIntent, ApiStops,
       ApiStarts, Serve, still
  <2> QED
    BY <1>a, <1>b, <1>1, <2>1
<1>2. ASSUME NEW j \in Jobs, Data(j), UNCHANGED deletionVars PROVE Stays
  <2>0. held' = held
    BY <1>2 DEF deletionVars
  <2>1. files' = files
    BY <1>2 DEF Data, AcceptBackup, AcceptRestore, AcceptDeletePoint, AcceptJob, CompensateRows, RunnerBegins,
       SettleRows, SettleSafety, SettleTarget, FinishJob, ExceptRows, FailJob, RunnerRaises, BackupDone,
       RestoreSaves, RestoreSwaps, DeletePointDone, still, runnerVars
  <2>2. CASE ~files => UNCHANGED <<dir, script>>
    BY <2>0, <2>1, <2>2 DEF NoneUsable
  <2>3. CASE RestoreSaves(j) \/ RestoreSwaps(j)
    BY <2>0, <2>3 DEF RestoreSaves, RestoreSwaps, NoneUsable
  <2>4. BackupDone(j) \/ DeletePointDone(j) => files
    BY DEF BackupDone, DeletePointDone
  <2> QED
    BY <1>2, <2>2, <2>3, <2>4 DEF Data, AcceptBackup, AcceptRestore, AcceptDeletePoint, CompensateRows,
       RunnerBegins, SettleRows, SettleSafety, SettleTarget, FinishJob, ExceptRows, FailJob, RunnerRaises,
       pointVars, hostVars
<1>3. ASSUME NEW j \in Jobs, Deletion(j) PROVE Stays
  <2>1. UNCHANGED <<files, dir, script>>
    BY <1>3 DEF Deletion, AcceptDeletion, AcceptJob, DeletionNotQueued, DeletionBegins, DeletionSubmits,
       DeletionNotes, DeletionCleans, DeletionRemovesRow, DeletionVerifies, DeletionRaises, DeletionFails,
       pointVars, hostVars, still
  <2>2. held' \subseteq held
    BY <1>3 DEF Deletion, AcceptDeletion, DeletionNotQueued, DeletionBegins, DeletionSubmits, DeletionNotes,
     DeletionCleans, DeletionRemovesRow, DeletionVerifies, DeletionRaises, DeletionFails, deletionVars
  <2> QED
    BY <2>1, <2>2 DEF NoneUsable
<1>4. ASSUME Write, UNCHANGED deletionVars PROVE Stays
  BY <1>a, <1>4 DEF Write, deletionVars, runnerVars
<1>5. ASSUME NEW j \in Jobs, RestoreScript(j), UNCHANGED deletionVars PROVE Stays
  <2>0. held' = held
    BY <1>5 DEF deletionVars
  <2>1. files' = files
    BY <1>5 DEF RestoreScript, RestoreStops, RestoreRefused, RestoreDone, RestoreFails, PointHandlerLost,
       PointScriptFails, runnerVars, still
  <2>2. CASE RestoreStops(j)
    BY <2>0, <2>1, <2>2 DEF RestoreStops, NoneUsable
  <2>3. CASE RestoreRefused(j) \/ RestoreDone(j) \/ RestoreFails(j)
    <3>1. dir' = dir /\ (script' = script \/ script' = [script EXCEPT ![j] = "idle"])
      BY <2>3 DEF RestoreRefused, RestoreDone, RestoreFails
    <3> QED
      BY <1>0, <2>0, <2>1, <3>1 DEF NoneUsable, PointsTypeOK
  <2>4. CASE PointHandlerLost(j) \/ PointScriptFails(j)
    <3>1. (~files => dir' = dir) /\ (script' = script \/ script' = [script EXCEPT ![j] = "idle"])
      BY <2>4 DEF PointHandlerLost, PointScriptFails
    <3> QED
      BY <1>0, <2>0, <2>1, <3>1 DEF NoneUsable, PointsTypeOK
  <2> QED
    BY <1>5, <2>2, <2>3, <2>4 DEF RestoreScript
<1>6. ASSUME NEW j \in Jobs, NEW c \in HostSteps, DeleteScript(j, c) PROVE Stays
  <2>1. held' \subseteq held /\ (files' => files) /\ files' \in {files, FALSE}
    BY <1>6, DeleteScriptTells DEF DeleteHostDone, DeleteHostFails, DeleteHostLost, MayHaveRun, RunnerInv,
       RunnerTypes
  <2>2. script' = script /\ (\/ dir' = dir \/ dir' = [p \in Points |-> "none"]
                             \/ dir' = [p \in Points |-> IF dir[p] = "none" THEN "none" ELSE "partial"])
    BY <1>6, DeleteScriptTells DEF DeleteHostDone, DeleteHostFails, DeleteHostLost, pointVars, hostVars
  <2> QED
    BY <2>1, <2>2 DEF NoneUsable
<1>7. ASSUME NEW j \in Jobs, Lifecycle(j), UNCHANGED dataVars PROVE Stays
  <2>1. files' = files
    BY <1>7 DEF Lifecycle, AcceptLifecycle, AcceptJob, AnswerLifecycle, LifecycleNotQueued,
       LifecycleBegins, LifecycleEnds, RecreationEnds, LifecycleRaises, LifecycleDone, LifecycleFails,
       LifecycleLost, still, runnerVars
  <2> QED
    BY <1>a, <1>b, <1>7, <2>1
<1>8. ASSUME NEW j \in Jobs, Rotation(j), UNCHANGED dataVars PROVE Stays
  <2>1. files' = files
    BY <1>8 DEF Rotation, AcceptRotation, AcceptJob, CompensateRotation, RotationBegins, RotationConfirms,
       RotationRaises, RotationFails, ScriptBegins, Preflight, Advance, ScriptFails, ScriptDone, ScriptKilled,
       still, runnerVars
  <2> QED
    BY <1>a, <1>b, <1>8, <2>1
<1>9. ASSUME Rotates, UNCHANGED dataVars PROVE Stays
  <2>1. files' = files
    BY <1>9 DEF Rotates, RollBack, RollBackDone, RollBackFails, LastStop, OperatorRecovers, AdmitRecreation,
       RefuseRecreation, still, runnerVars
  <2> QED
    BY <1>a, <1>b, <1>9, <2>1
<1>10. ASSUME NEW j \in Jobs, KeyRotation(j), UNCHANGED dataVars PROVE Stays
  <2>1. files' = files
    BY <1>10 DEF KeyRotation, AcceptManual, ScanClaims, AcceptJob, KeyRotationNotQueued,
       KeyRotationBegins, RotationEnds, StoreKeys, Invalidate, KeyRotationDone, KeyRotationRaises,
       BlockAfterFailure, BlockFails, KeyScriptBegins, KeyScriptRefused, KeyScriptStep, KeyScriptDone,
       KeyScriptTurnsBack, KeyScriptTurnedBack, KeyScriptDies, KeyScriptLost, still, runnerVars
  <2> QED
    BY <1>a, <1>b, <1>10, <2>1
<1>11. ASSUME \/ Studio \/ ScanReadsExpiry \/ KeysAge \/ (\E on \in BOOLEAN : SetAutomatic(on))
              \/ Sync \/ Saves,
              UNCHANGED dataVars
       PROVE  Stays
  <2>1. UNCHANGED runnerVars
    BY <1>11 DEF Studio, Promote, FetchKey, PublishKey, ScanReadsExpiry, KeysAge, SetAutomatic, Sync,
       Saves, ReadEnv, ReplaceEnv, SaveFails
  <2> QED
    BY <1>a, <1>b, <1>c, <1>11, <2>1
<1>12. UNCHANGED vars => Stays
  BY <1>a, <1>b, <1>c DEF vars
<1>13. Stays
  <2> HIDE DEF Stays
  <2>1. UNCHANGED <<dataVars, runtimeVars>> => UNCHANGED dataVars
    OBVIOUS
  <2>2. UNCHANGED <<deletionVars, runtimeVars>> => UNCHANGED deletionVars
    OBVIOUS
  <2> QED
    BY <1>0, <1>1, <1>2, <1>3, <1>4, <1>5, <1>6, <1>7, <1>8, <1>9, <1>10, <1>11, <1>12 DEF Next, Operates
<1> QED
  BY <1>13

\* A handler of a deletion is reported done by that handler alone.
DeletionsQuiet ==
  \A i \in Intents : Action[i[1]] = "delete" /\ command'[i] = "done" => command[i] = "done"

\* The coroutines, and whatever else reports no command of a deletion done, are quiet.
LEMMA OthersAreQuiet ==
  ASSUME RunnerInv,
         \/ command' = command
         \/ \E k \in Intents : \/ Host!Accept(k) \/ Host!Begin(k) \/ Host!Withdraw(k) \/ Host!Fail({k})
                               \/ command' = [command EXCEPT ![k] = "queued"]
                               \/ Action[k[1]] # "delete" /\ Host!Succeed(k)
  PROVE  DeletionsQuiet
<1>0. RunnerTypes /\ command \in [Intents -> Host!Status]
  BY DEF RunnerInv, RunnerTypes
<1>1. ASSUME NEW k \in Intents,
             \/ Host!Accept(k) \/ Host!Begin(k) \/ Host!Withdraw(k) \/ Host!Fail({k})
             \/ command' = [command EXCEPT ![k] = "queued"]
             \/ Action[k[1]] # "delete" /\ Host!Succeed(k)
      PROVE  DeletionsQuiet
  <2>1. \E s : command' = [command EXCEPT ![k] = s] /\ (s = "done" => Action[k[1]] # "delete")
    BY <1>0, <1>1, HostChanges
  <2> QED
    BY <1>0, <2>1 DEF DeletionsQuiet
<1> QED
  BY <1>1 DEF DeletionsQuiet

\* The other operations are not of the deletion's job.
LEMMA OthersDeleteNothing ==
  ASSUME NEW j \in Jobs, Data(j) \/ RestoreScript(j) \/ Lifecycle(j) \/ Rotation(j) \/ KeyRotation(j)
  PROVE  Action[j] # "delete"
<1>1. (\E c : Running(j, c) /\ c \notin HostSteps) => Action[j] # "delete"
  <2>1. ASSUME NEW c, Running(j, c), c \notin HostSteps PROVE Action[j] # "delete"
    BY <2>1, RunningTells, IntentsTell, CommandTells DEF HostSteps
  <2> QED
    BY <2>1
<1>2. {"backup_project", "restore_project", "delete_restore_point"} \cap HostSteps = {}
  BY DEF HostSteps, CommandsOf
<1>3. CASE Data(j)
  BY <1>1, <1>2, <1>3 DEF Data, AcceptBackup, AcceptRestore, AcceptDeletePoint, CompensateRows,
     RunnerBegins, SettleRows, SettleSafety, SettleTarget, FinishJob, ExceptRows, FailJob, RunnerRaises,
     BackupDone, RestoreSaves, RestoreSwaps, DeletePointDone, PointJobs, Restores
<1>4. CASE RestoreScript(j)
  BY <1>1, <1>2, <1>4 DEF RestoreScript, RestoreStops, RestoreRefused, RestoreDone, RestoreFails,
     PointHandlerLost, PointScriptFails, PointJobs
<1>5. CASE Lifecycle(j)
  BY <1>5 DEF Lifecycle, AcceptLifecycle, AnswerLifecycle, Asks, LifecycleNotQueued, LifecycleBegins,
     LifecycleEnds, RecreationEnds, LifecycleRaises, LifecycleDone, LifecycleFails, LifecycleLost,
     LifecycleJobs, LifecycleActions
<1>6. CASE Rotation(j)
  BY <1>6 DEF Rotation, AcceptRotation, CompensateRotation, RotationBegins, RotationConfirms,
     RotationRaises, RotationFails, ScriptBegins, Preflight, Advance, ScriptFails, ScriptDone, ScriptKilled,
     Held, Rotations
<1>7. CASE KeyRotation(j)
  BY <1>7 DEF KeyRotation, AcceptManual, ScanClaims, KeyRotationNotQueued, KeyRotationBegins,
     RotationEnds, StoreKeys, Invalidate, KeyRotationDone, KeyRotationRaises, BlockAfterFailure,
     BlockFails, KeyScriptBegins, KeyScriptRefused, KeyScriptStep, KeyScriptDone, KeyScriptTurnsBack,
     KeyScriptTurnedBack, KeyScriptDies, KeyScriptLost, KeyScriptStarts, AtTurn, KeyJobs
<1> QED
  BY <1>3, <1>4, <1>5, <1>6, <1>7

\* So do all operations but the deletion's handlers.
LEMMA OperationsAreQuiet ==
  ASSUME RunnerInv, NEW j \in Jobs,
         Data(j) \/ Deletion(j) \/ RestoreScript(j) \/ Lifecycle(j) \/ Rotation(j) \/ KeyRotation(j)
  PROVE  DeletionsQuiet
<1>0. \A k \in Jobs : Action[k] # "delete" => The(k) \in Intents /\ The(k)[1] = k
  BY IntentsTell DEF The
<1>a. ASSUME Action[j] # "delete",
             \/ command' = command
             \/ AttachIntent(The(j))
             \/ command' = [command EXCEPT ![The(j)] = "queued"]
             \/ Host!Fail({The(j)}) \/ Host!Succeed(The(j))
      PROVE  DeletionsQuiet
  BY <1>0, <1>a, OthersAreQuiet DEF AttachIntent
<1>b. UNCHANGED runnerVars => command' = command
  BY DEF runnerVars
<1>c. AcceptJob(j) => command' = command
  BY DEF AcceptJob
<1>d. HostLost(The(j)) => Host!Fail({The(j)})
  BY DEF HostLost
<1>e. ~Deletion(j) => Action[j] # "delete"
  BY OthersDeleteNothing
<1>1. CASE Data(j) /\ ~Deletion(j)
  BY <1>a, <1>b, <1>c, <1>e, <1>1 DEF Data, AcceptBackup, AcceptRestore, AcceptDeletePoint, CompensateRows,
     RunnerBegins, SettleRows, SettleSafety, SettleTarget, FinishJob, ExceptRows, FailJob, RunnerRaises,
     BackupDone, RestoreSaves, RestoreSwaps, DeletePointDone
<1>2. CASE RestoreScript(j) /\ ~Deletion(j)
  BY <1>a, <1>b, <1>d, <1>e, <1>2 DEF RestoreScript, RestoreStops, RestoreRefused, RestoreDone, RestoreFails,
     PointHandlerLost, PointScriptFails
<1>3. CASE Lifecycle(j) /\ ~Deletion(j)
  BY <1>a, <1>b, <1>c, <1>d, <1>e, <1>3 DEF Lifecycle, AcceptLifecycle, AnswerLifecycle, LifecycleNotQueued,
     LifecycleBegins, LifecycleEnds, RecreationEnds, LifecycleRaises, LifecycleDone, LifecycleFails,
     LifecycleLost
<1>4. CASE Rotation(j) /\ ~Deletion(j)
  BY <1>a, <1>b, <1>c, <1>d, <1>e, <1>4 DEF Rotation, AcceptRotation, CompensateRotation, RotationBegins,
     RotationConfirms, RotationRaises, RotationFails, ScriptBegins, Preflight, Advance, ScriptFails,
     ScriptDone, ScriptKilled, EndCommand
<1>5. CASE KeyRotation(j) /\ ~Deletion(j)
  BY <1>a, <1>b, <1>c, <1>d, <1>e, <1>5 DEF KeyRotation, AcceptManual, ScanClaims, KeyRotationNotQueued,
     KeyRotationBegins, RotationEnds, StoreKeys, Invalidate, KeyRotationDone, KeyRotationRaises,
     BlockAfterFailure, BlockFails, KeyScriptBegins, KeyScriptRefused, KeyScriptStep, KeyScriptDone,
     KeyScriptTurnsBack, KeyScriptTurnedBack, KeyScriptDies, KeyScriptLost
<1>6. CASE Deletion(j)
  <2>1. CASE DeletionSubmits(j)
    BY <2>1, IntentsTell, OthersAreQuiet DEF DeletionSubmits, Deletions, HostSteps
  <2>2. CASE ~DeletionSubmits(j)
    BY <1>6, <1>c, <2>2, OthersAreQuiet DEF Deletion, AcceptDeletion, DeletionNotQueued, DeletionBegins,
       DeletionNotes, DeletionCleans, DeletionRemovesRow, DeletionVerifies, DeletionRaises, DeletionFails
  <2> QED
    BY <2>1, <2>2
<1> QED
  BY <1>1, <1>2, <1>3, <1>4, <1>5, <1>6

\* A handler of a deletion that is done has removed what it is for.
LEMMA DoneIsGone ==
  ASSUME OperationsInv, GoneInv, [Next]_vars, NEW j \in Deletions, NEW c \in HostSteps,
         command'[<<j, c>>] = "done"
  PROVE  Gone(c)'
<1> USE DEF OperationsInv
<1>0. requests \subseteq Jobs /\ <<j, c>> \in Intents /\ Action[j] = "delete" /\ RunnerTypes
  BY RunnerAssumption, IntentsTell DEF RunnerInv, RunnerTypes, Deletions, HostSteps
<1>1. CASE command[<<j, c>>] = "done"
  BY <1>1, GoneStays DEF GoneInv, Gone
<1>2. CASE \E k \in Jobs, d \in HostSteps : DeleteScript(k, d)
  <2>1. PICK k \in Jobs, d \in HostSteps : DeleteScript(k, d)
    BY <1>2
  <2>2. CASE DeleteHostDone(k, d)
    <3>1. /\ <<k, d>> \in Intents /\ command[<<k, d>>] = "running"
          /\ command' = [command EXCEPT ![<<k, d>>] = "done"]
      BY <1>0, <2>2, RunningTells, HostChanges DEF DeleteHostDone
    <3>2. CASE command[<<j, c>>] # "done"
      <4>1. d = c
        BY <1>0, <3>1, <3>2
      <4>2. c \notin held'
        BY <2>2, <4>1 DEF DeleteHostDone
      <4>3. ASSUME c = "delete_project_files" PROVE NoneUsable'
        <5>1. ASSUME NEW l \in Jobs, script[l] # "idle" PROVE FALSE
          <6>1. <<l, "restore_project">> \in Intents /\ command[<<l, "restore_project">>] = "running"
            BY <5>1 DEF ReferenceInv, Steady, ScriptHolds, Running
          <6> QED
            BY <3>1, <4>1, <4>3, <6>1 DEF RunnerInv, OneRuns
        <5>2. ~files' /\ script' = script
          BY <2>2, <4>1, <4>3 DEF DeleteHostDone
        <5>3. \/ dir' = [p \in Points |-> "none"]
              \/ dir' = [p \in Points |-> IF dir[p] = "none" THEN "none" ELSE "partial"]
          BY <2>2, <4>1, <4>3 DEF DeleteHostDone
        <5> QED
          BY <5>1, <5>2, <5>3 DEF NoneUsable
      <4> QED
        BY <4>2, <4>3 DEF Gone
    <3> QED
      BY <1>1, <3>2
  <2>3. CASE DeleteHostFails(k, d) \/ DeleteHostLost(k, d)
    <3>1. <<k, d>> \in Intents /\ command' = [command EXCEPT ![<<k, d>>] = "failed"]
      BY <1>0, <2>3, RunningTells, HostChanges DEF DeleteHostFails, DeleteHostLost, HostLost
    <3> QED
      BY <1>0, <1>1, <3>1
  <2> QED
    BY <2>1, <2>2, <2>3, DeleteScriptTells
<1>3. CASE DeletionsQuiet
  <2>1. command[<<j, c>>] = "done"
    BY <1>0, <1>3 DEF DeletionsQuiet
  <2> QED
    BY <1>1, <2>1
<1>4. DeletionsQuiet \/ \E k \in Jobs, d \in HostSteps : DeleteScript(k, d)
  <2>1. ASSUME NEW k \in Jobs, Data(k) \/ Deletion(k) \/ RestoreScript(k) \/ Lifecycle(k) \/ Rotation(k) \/ KeyRotation(k)
        PROVE  DeletionsQuiet
    BY <2>1, OperationsAreQuiet
  <2>2. Runner => DeletionsQuiet
    BY OthersAreQuiet DEF Runner, Enqueue, EnqueueFails, TakeJob, RecoverJob, HostBegins, WithdrawIntent,
       ApiStops, ApiStarts, Serve
  <2>3. Rotates => DeletionsQuiet
    <3>1. CASE RollBack \/ RollBackFails \/ OperatorRecovers
      BY <3>1, OthersAreQuiet DEF RollBack, RollBackFails, OperatorRecovers, runnerVars
    <3>2. CASE RollBackDone \/ LastStop
      <4>1. (holder \in Rotations /\ Host!Fail({The(holder)})) \/ command' = command
        BY <3>2 DEF RollBackDone, LastStop, ReferenceInv, Steady, ScriptHolds, HolderRotates
      <4> QED
        BY <4>1, ReferencesTell, OthersAreQuiet
    <3>3. ASSUME NEW k \in requests, AdmitRecreation(k) \/ RefuseRecreation(k) PROVE DeletionsQuiet
      BY <1>0, <3>3, IntentsTell, OthersAreQuiet DEF AdmitRecreation, RefuseRecreation, runnerVars
    <3> QED
      BY <3>1, <3>2, <3>3 DEF Rotates
  <2>4. UNCHANGED runnerVars => DeletionsQuiet
    BY DEF runnerVars, DeletionsQuiet
  <2>5. Write \/ Sync \/ Studio \/ ScanReadsExpiry \/ KeysAge \/ (\E on \in BOOLEAN : SetAutomatic(on))
          \/ Saves \/ UNCHANGED vars
        => UNCHANGED runnerVars
    BY DEF Write, Sync, Studio, Promote, FetchKey, PublishKey, ScanReadsExpiry, KeysAge, SetAutomatic,
       Saves, ReadEnv, ReplaceEnv, SaveFails, vars
  <2> QED
    BY <1>0, <2>1, <2>2, <2>3, <2>4, <2>5 DEF Next, Operates
<1> QED
  BY <1>2, <1>3, <1>4

\* A deletion's runner moves on, and its errors are noted, by its own steps alone.
PlacesQuiet ==
  /\ errors' = errors
  /\ \A j \in Deletions, n \in 1 .. 8 : pc'[j] = Steps[n] => pc[j] = Steps[n]

\* The coroutine of another job, the host and the queue leave it where it is.
LEMMA OthersStayAside ==
  ASSUME RunnerInv, errors' = errors,
         \/ HostWorks \/ Runner
         \/ \E k \in Jobs : Action[k] # "delete" /\ (RunnerWorks(k) \/ AcceptJob(k))
  PROVE  PlacesQuiet
<1>0. RunnerTypes /\ requests \subseteq Jobs
  BY RunnerAssumption DEF RunnerInv, RunnerTypes
<1>a. \A n \in 1 .. 8 : Steps[n] \notin Resting \cup {"begin"}
  BY DEF Steps, Resting
<1>b. (\A j \in Deletions : pc'[j] = pc[j] \/ pc'[j] \in Resting \cup {"begin"}) => PlacesQuiet
  BY <1>a DEF PlacesQuiet
<1>1. CASE HostWorks
  BY <1>1, <1>b DEF HostWorks
<1>2. CASE Runner
  <2>1. ASSUME NEW k \in Jobs, NEW place \in Resting \cup {"begin"}, Goto(k, place)
        PROVE  \A j \in Jobs : pc'[j] = pc[j] \/ pc'[j] \in Resting \cup {"begin"}
    BY <1>0, <2>1 DEF Goto, RunnerTypes
  <2>2. ASSUME NEW k \in Jobs, Enqueue(k) \/ EnqueueFails(k) \/ TakeJob(k) \/ RecoverJob(k)
        PROVE  pc' = pc \/ \E place \in Resting \cup {"begin"} : Goto(k, place)
    BY <2>2 DEF Enqueue, EnqueueFails, TakeJob, RecoverJob, Resting
  <2>3. (\E i \in Intents : HostBegins(i) \/ WithdrawIntent(i)) \/ ApiStarts \/ Serve => pc' = pc
    BY DEF HostBegins, WithdrawIntent, ApiStarts, Serve
  <2>4. ApiStops => \A j \in Jobs : pc'[j] \in Resting
    BY DEF ApiStops, Resting
  <2>5. \A j \in Jobs : pc'[j] = pc[j] \/ pc'[j] \in Resting \cup {"begin"}
    BY <1>0, <1>2, <2>1, <2>2, <2>3, <2>4 DEF Runner
  <2> QED
    BY <1>b, <2>5 DEF Deletions
<1>3. ASSUME NEW k \in Jobs, Action[k] # "delete", RunnerWorks(k) \/ AcceptJob(k)
      PROVE  PlacesQuiet
  <2>1. \A j \in Jobs \ {k} : pc'[j] = pc[j]
    BY <1>0, <1>3 DEF RunnerWorks, AcceptJob, Goto, RunnerTypes
  <2> QED
    BY <1>b, <1>3, <2>1 DEF Deletions
<1> QED
  BY <1>1, <1>2, <1>3

\* So do all operations but the deletion's own.
LEMMA OperationsStayAside ==
  ASSUME OperationsInv, [Next]_vars
  PROVE  PlacesQuiet \/ \E k \in Jobs : Deletion(k)
<1> USE DEF OperationsInv
<1>0. requests \subseteq Jobs /\ HolderRotates /\ files \in BOOLEAN
  BY RunnerAssumption DEF RunnerInv, RunnerTypes, ReferenceInv, Steady, ScriptHolds, HolderRotates
<1>a. UNCHANGED deletionVars \/ UNCHANGED dataVars => errors' = errors
  BY DEF dataVars, deletionVars
<1>b. UNCHANGED runnerVars => HostWorks
  BY <1>0 DEF runnerVars, HostWorks
<1>1. ASSUME NEW k \in Jobs, Data(k) \/ Lifecycle(k) \/ Rotation(k) \/ KeyRotation(k), errors' = errors
      PROVE  PlacesQuiet
  <2>1. Action[k] # "delete"
    BY <1>1, OthersDeleteNothing
  <2>2. OperationActs(k)
    BY <1>1, DataActs, LifecycleActs, RotationActs, KeyRotationActs
  <2> QED
    BY <1>1, <2>1, <2>2, OthersStayAside DEF OperationActs
<1>2. ASSUME NEW k \in Jobs, RestoreScript(k), errors' = errors PROVE PlacesQuiet
  BY <1>2, RestoreScriptActs, OthersStayAside
<1>3. ASSUME NEW k \in Jobs, NEW c \in HostSteps, DeleteScript(k, c) PROVE PlacesQuiet
  <2>1. errors' = errors
    BY <1>3, DeleteScriptTells DEF DeleteHostDone, DeleteHostFails, DeleteHostLost
  <2> QED
    BY <1>3, <2>1, DeleteScriptActs, OthersStayAside
<1>4. ASSUME Rotates, errors' = errors PROVE PlacesQuiet
  BY <1>0, <1>4, RotatesActs, OthersStayAside
<1>5. ASSUME Runner, errors' = errors PROVE PlacesQuiet
  BY <1>5, OthersStayAside
<1>6. ASSUME \/ Write \/ Sync \/ Studio \/ ScanReadsExpiry \/ KeysAge \/ (\E on \in BOOLEAN : SetAutomatic(on))
             \/ Saves \/ UNCHANGED vars,
             errors' = errors
      PROVE  PlacesQuiet
  <2>1. UNCHANGED runnerVars
    BY <1>6 DEF Write, Sync, Studio, Promote, FetchKey, PublishKey, ScanReadsExpiry, KeysAge, SetAutomatic,
       Saves, ReadEnv, ReplaceEnv, SaveFails, vars
  <2> QED
    BY <1>b, <1>6, <2>1, OthersStayAside
<1>7. UNCHANGED vars => errors' = errors
  BY <1>a DEF vars
<1>8. /\ UNCHANGED <<dataVars, runtimeVars>> => errors' = errors
      /\ UNCHANGED <<deletionVars, runtimeVars>> => errors' = errors
      /\ UNCHANGED <<dataVars, rotationVars, keyRotationVars>> => errors' = errors
      /\ UNCHANGED <<dataVars, keyRotationVars>> => errors' = errors
  BY <1>a
<1> QED
  BY <1>0, <1>a, <1>1, <1>2, <1>3, <1>4, <1>5, <1>6, <1>7, <1>8 DEF Next, Operates

\* What a deletion's runner has passed without an error is gone.
LEMMA PassedIsGone ==
  ASSUME OperationsInv, GoneInv, [Next]_vars, NEW j \in Deletions, NEW n \in 1 .. 8,
         pc'[j] = Steps[n], ~errors'[j], NEW m \in 1 .. (n - 1)
  PROVE  Gone(Steps[m])'
<1> USE DEF OperationsInv
<1>0. RunnerTypes /\ j \in Jobs /\ DOMAIN Steps = 1 .. 8 /\ errors \in [Jobs -> BOOLEAN] /\ held \subseteq Holdings
  BY DEF RunnerInv, Deletions, Steps, DeletionTypeOK
<1>a. \A c : Gone(c) => Gone(c)'
  BY GoneStays DEF Gone
<1>b. \A a, b \in 1 .. 8 : Steps[a] = Steps[b] => a = b
  BY DEF Steps
<1>1. CASE pc[j] = Steps[n] /\ ~errors[j]
  BY <1>1, <1>a DEF GoneInv
<1>2. CASE PlacesQuiet
  BY <1>1, <1>2 DEF PlacesQuiet
<1>3. ASSUME NEW k \in Jobs, Deletion(k), k # j PROVE Gone(Steps[m])'
  <2>1. pc'[j] = pc[j]
    BY <1>0, <1>3, DeletionActs DEF OperationActs, RunnerWorks, AcceptJob, HostWorks, Goto, RunnerTypes
  <2>2. errors'[j] = errors[j]
    BY <1>0, <1>3 DEF Deletion, AcceptDeletion, DeletionNotQueued, DeletionBegins, DeletionSubmits,
       DeletionNotes, DeletionCleans, DeletionRemovesRow, DeletionVerifies, DeletionRaises, DeletionFails,
       deletionVars
  <2> QED
    BY <1>1, <2>1, <2>2
<1>4. ASSUME Deletion(j), ~(pc[j] = Steps[n] /\ ~errors[j]) PROVE Gone(Steps[m])'
  <2>0. \A s \in 1 .. 8 : Steps[s] \notin {"accepted", "none", "fail", "begin"}
    BY DEF Steps
  <2>a. \A place : Goto(j, place) => pc'[j] = place
    BY <1>0 DEF Goto, RunnerTypes
  <2>b. Onward(j) /\ (\E s \in 1 .. 7 : pc[j] = Steps[s]) => n > 1 /\ pc[j] = Steps[n - 1]
    <3>1. ASSUME NEW s \in 1 .. 7, pc[j] = Steps[s], Onward(j) PROVE n > 1 /\ pc[j] = Steps[n - 1]
      <4>1. pc'[j] = Steps[s + 1] /\ s + 1 \in 1 .. 8
        BY <1>0, <2>a, <3>1, StepsFollow
      <4>2. n = s + 1
        BY <1>b, <4>1
      <4> QED
        BY <3>1, <4>2
    <3> QED
      BY <3>1
  <2>c. \A place \in HostSteps \cup Holdings \cup {"row"} : \E s \in 1 .. 7 : place = Steps[s]
    BY DEF HostSteps, CommandsOf, Holdings, Steps
  \* What was gone before stays gone, and the step that was passed is new.
  <2>d. ASSUME n > 1, pc[j] = Steps[n - 1], ~errors[j], Gone(Steps[n - 1])' PROVE Gone(Steps[m])'
    <3>1. CASE m = n - 1
      BY <2>d, <3>1
    <3>2. CASE m # n - 1
      <4>1. m \in 1 .. ((n - 1) - 1) /\ n - 1 \in 1 .. 8
        BY <2>d, <3>2
      <4>2. Gone(Steps[m])
        BY <2>d, <4>1 DEF GoneInv
      <4> QED
        BY <1>a, <4>2
    <3> QED
      BY <3>1, <3>2
  <2>1. CASE AcceptDeletion(j)
    BY <2>0, <2>1, <2>a DEF AcceptDeletion, AcceptJob
  <2>2. CASE DeletionNotQueued(j) \/ DeletionVerifies(j) \/ DeletionRaises(j) \/ DeletionFails(j)
    BY <2>0, <2>2, <2>a DEF DeletionNotQueued, DeletionVerifies, DeletionRaises, DeletionFails
  <2>3. CASE DeletionBegins(j)
    <3>1. pc'[j] = Steps[1]
      BY <2>0, <2>3, <2>a DEF DeletionBegins
    <3>2. n = 1
      BY <1>b, <3>1, 1 \in 1 .. 8
    <3> QED
      BY <3>2
  <2>4. CASE DeletionSubmits(j)
    BY <1>4, <2>4 DEF DeletionSubmits, deletionVars
  <2>5. CASE DeletionNotes(j)
    <3>1. n > 1 /\ pc[j] = Steps[n - 1]
      BY <2>5, <2>b, <2>c DEF DeletionNotes
    <3>2. errors'[j] <=> errors[j] \/ command[<<j, pc[j]>>] # "done"
      BY <1>0, <2>5 DEF DeletionNotes
    <3>3. Gone(pc[j])
      BY <2>5, <3>2 DEF DeletionNotes, GoneInv
    <3> QED
      BY <1>a, <2>d, <3>1, <3>2, <3>3
  <2>6. CASE DeletionCleans(j)
    <3>1. n > 1 /\ pc[j] = Steps[n - 1] /\ pc[j] # "delete_project_files"
      BY <2>6, <2>b, <2>c DEF DeletionCleans, HostSteps, CommandsOf
    <3>2. errors' = errors /\ held' = held \ {pc[j]}
      BY <1>0, <2>6 DEF DeletionCleans
    <3>3. ASSUME NEW c, c = pc[j] PROVE Gone(c)'
      BY <3>1, <3>2, <3>3 DEF Gone
    <3>4. Gone(Steps[n - 1])'
      BY <3>1, <3>3
    <3> QED
      BY <2>d, <3>1, <3>2, <3>4
  <2>7. CASE DeletionRemovesRow(j)
    <3>1. Onward(j) \/ pc'[j] = "fail"
      BY <2>7, <2>a DEF DeletionRemovesRow
    <3>2. n > 1 /\ pc[j] = Steps[n - 1]
      BY <2>0, <2>7, <2>b, <2>c, <3>1 DEF DeletionRemovesRow
    <3>3. errors' = errors /\ held' = held /\ Steps[n - 1] = "row"
      BY <2>7, <3>2 DEF DeletionRemovesRow, deletionVars
    <3>4. Gone(Steps[n - 1])'
      BY <1>0, <3>3 DEF Gone, Holdings
    <3> QED
      BY <2>d, <3>2, <3>3, <3>4
  <2> QED
    BY <1>4, <2>1, <2>2, <2>3, <2>4, <2>5, <2>6, <2>7 DEF Deletion
<1> QED
  BY <1>1, <1>2, <1>3, <1>4, OperationsStayAside

\* The row goes when everything else has gone, and nothing brings it back.
LEMMA RowGoesLast ==
  ASSUME OperationsInv, GoneInv, [Next]_vars, ~project'
  PROVE  (held = {} /\ NoneUsable)'
<1> USE DEF OperationsInv
<1>0. requests \subseteq Jobs /\ HolderRotates /\ project \in BOOLEAN /\ held \subseteq Holdings /\ files \in BOOLEAN
  BY RunnerAssumption DEF RunnerInv, RunnerTypes, ReferenceInv, Steady, ScriptHolds, HolderRotates,
     DeletionTypeOK
<1>1. held = {} /\ NoneUsable
  <2>1. CASE ~project
    BY <2>1 DEF GoneInv
  <2>2. ASSUME NEW k \in Jobs, DeletionRemovesRow(k), project PROVE held = {} /\ NoneUsable
    <3>1. k \in Deletions /\ pc[k] = Steps[7] /\ ~errors[k]
      BY <2>2 DEF DeletionRemovesRow, Complete, Steps
    <3>2. \A m \in 1 .. 6 : Gone(Steps[m])
      BY <3>1 DEF GoneInv
    <3>3. NoneUsable
      BY <3>2 DEF Gone, Steps
    <3>4. \A c \in Holdings : c \notin held
      BY <3>2 DEF Gone, Steps, Holdings
    <3> QED
      BY <1>0, <3>3, <3>4
  <2>3. CASE project
    <3>1. \E k \in Jobs : DeletionRemovesRow(k)
      <4>a. ASSUME NEW k \in Jobs, Deletion(k) PROVE DeletionRemovesRow(k)
        BY <2>3, <4>a DEF Deletion, AcceptDeletion, AcceptJob, DeletionNotQueued, DeletionBegins,
           DeletionSubmits, DeletionNotes, DeletionCleans, DeletionVerifies, DeletionRaises, DeletionFails
      <4>b. ASSUME NEW k \in Jobs, Data(k) PROVE FALSE
        BY <2>3, <4>b DEF Data, AcceptBackup, AcceptRestore, AcceptDeletePoint, AcceptJob, CompensateRows,
           RunnerBegins, SettleRows, SettleSafety, SettleTarget, FinishJob, ExceptRows, FailJob,
           RunnerRaises, BackupDone, RestoreSaves, RestoreSwaps, DeletePointDone, runnerVars
      <4>c. ASSUME NEW k \in Jobs, Lifecycle(k) PROVE FALSE
        BY <2>3, <4>c DEF Lifecycle, AcceptLifecycle, AcceptJob, AnswerLifecycle, LifecycleNotQueued,
           LifecycleBegins, LifecycleEnds, RecreationEnds, LifecycleRaises, LifecycleDone, LifecycleFails,
           LifecycleLost, HostLost, runnerVars
      <4>d. ASSUME NEW k \in Jobs, Rotation(k) PROVE FALSE
        BY <2>3, <4>d DEF Rotation, AcceptRotation, AcceptJob, CompensateRotation, RotationBegins,
           RotationConfirms, RotationRaises, RotationFails, ScriptBegins, Preflight, Advance, ScriptFails,
           ScriptDone, ScriptKilled, HostLost, runnerVars
      <4>e. ASSUME NEW k \in Jobs, KeyRotation(k) PROVE FALSE
        BY <2>3, <4>e DEF KeyRotation, AcceptManual, ScanClaims, AcceptJob, KeyRotationNotQueued,
           KeyRotationBegins, RotationEnds, StoreKeys, Invalidate, KeyRotationDone, KeyRotationRaises,
           BlockAfterFailure, BlockFails, KeyScriptBegins, KeyScriptRefused, KeyScriptStep, KeyScriptDone,
           KeyScriptTurnsBack, KeyScriptTurnedBack, KeyScriptDies, KeyScriptLost, HostLost, runnerVars
      <4>f. HostWorks => FALSE
        BY <2>3 DEF HostWorks
      <4>g. ASSUME NEW k \in Jobs, RestoreScript(k) \/ \E c \in HostSteps : DeleteScript(k, c) PROVE FALSE
        BY <4>f, <4>g, RestoreScriptActs, DeleteScriptActs
      <4>h. Rotates => FALSE
        BY <1>0, <4>f, RotatesActs
      <4>i. Runner => FALSE
        BY <2>3 DEF Runner, Enqueue, EnqueueFails, TakeJob, RecoverJob, HostBegins, WithdrawIntent, ApiStops,
           ApiStarts, Serve
      <4>j. Write \/ Sync \/ Studio \/ ScanReadsExpiry \/ KeysAge \/ (\E on \in BOOLEAN : SetAutomatic(on))
            \/ Saves \/ UNCHANGED vars => FALSE
        BY <2>3 DEF Write, Sync, Studio, Promote, FetchKey, PublishKey, ScanReadsExpiry, KeysAge, SetAutomatic,
           Saves, ReadEnv, ReplaceEnv, SaveFails, vars, runnerVars
      <4> QED
        BY <1>0, <4>a, <4>b, <4>c, <4>d, <4>e, <4>g, <4>h, <4>i, <4>j DEF Next, Operates
    <3> QED
      BY <2>2, <2>3, <3>1
  <2> QED
    BY <1>0, <2>1, <2>3
<1> QED
  BY <1>1, GoneStays

\* What is gone stays gone.
LEMMA NextGone ==
  OperationsInv /\ GoneInv /\ [Next]_vars => GoneInv'
<1> SUFFICES ASSUME OperationsInv, GoneInv, [Next]_vars PROVE GoneInv'
  OBVIOUS
<1>1. \A j \in Deletions, c \in HostSteps : command'[<<j, c>>] = "done" => Gone(c)'
  BY DoneIsGone
<1>2. \A j \in Deletions, n \in 1 .. 8 :
        pc'[j] = Steps[n] /\ ~errors'[j] => \A m \in 1 .. (n - 1) : Gone(Steps[m])'
  BY PassedIsGone
<1>3. ~project' => (held = {} /\ NoneUsable)'
  BY RowGoesLast
<1> QED
  BY <1>1, <1>2, <1>3 DEF GoneInv

\* Nothing is gone to begin with.
LEMMA InitGone == Init => GoneInv
<1> SUFFICES ASSUME Init PROVE GoneInv
  OBVIOUS
<1>1. project = TRUE /\ \A j \in Jobs : pc[j] = "none"
  BY DEF Init, RunnerInit
<1>2. \A j \in Deletions, c \in HostSteps : command[<<j, c>>] = "absent"
  BY IntentsTell DEF Init, RunnerInit, Deletions, HostSteps
<1>3. \A n \in 1 .. 8 : Steps[n] # "none"
  BY DEF Steps
<1> QED
  BY <1>1, <1>2, <1>3 DEF GoneInv, Deletions

\* A deleted project leaves nothing behind, whatever failed on the way, and no job puts
\* anything back: _delete_project_impl removes the row only when every step before it
\* has removed what it is for.
THEOREM DeletionLeavesNothing == Spec => []DeletedLeavesNothing
<1>1. OperationsInv /\ GoneInv => DeletedLeavesNothing
  BY DEF GoneInv, NoneUsable, DeletedLeavesNothing
<1> QED
  BY <1>1, InitGone, NextGone, OperationsHold, PTL DEF Spec

-----------------------------------------------------------------------------
(* No key of before a rotation is handed out after it. *)

\* The Studio was told what a rotation wrote before the rotation is reported done, and
\* what writes a new version is not reported yet.
StudioWasTold ==
  \A j \in KeyJobs :
    /\ pc[j] = "finish" \/ job[j] = "done" => required >= wrote[j]
    /\ pc[j] \in {"wait", "store", "invalidate"} => job[j] = "running"

\* A rotation of the keys moves on by its own steps alone.
KeysQuiet ==
  /\ UNCHANGED <<wrote, required>>
  /\ \A j \in KeyJobs : \/ pc'[j] = pc[j] /\ job'[j] = job[j]
                        \/ pc'[j] \in Resting \cup {"begin"} /\ (job'[j] = job[j] \/ job'[j] # "done")

\* The coroutine of another job, the host and the queue leave it where it is.
LEMMA OthersKeepQuiet ==
  ASSUME RunnerInv, UNCHANGED <<wrote, required>>,
         \/ HostWorks \/ Runner
         \/ \E k \in Jobs : Action[k] # "rotate_key" /\ (RunnerWorks(k) \/ AcceptJob(k))
  PROVE  KeysQuiet
<1>0. RunnerTypes /\ requests \subseteq Jobs /\ \A j \in KeyJobs : j \in Jobs /\ Action[j] = "rotate_key"
  BY RunnerAssumption DEF RunnerInv, RunnerTypes, KeyJobs
<1>1. CASE HostWorks
  BY <1>1 DEF HostWorks, KeysQuiet
<1>2. CASE Runner
  <2>1. ASSUME NEW k \in Jobs, Enqueue(k) \/ TakeJob(k) PROVE KeysQuiet
    BY <1>0, <2>1 DEF Enqueue, TakeJob, Goto, RunnerTypes, KeysQuiet, Resting
  <2>2. ASSUME NEW k \in Jobs, EnqueueFails(k) PROVE KeysQuiet
    <3>1. PICK place \in {"compensate", "none"} : Goto(k, place)
      BY <2>2 DEF EnqueueFails
    <3>2. Settle(k, "failed")
      BY <2>2 DEF EnqueueFails
    <3> QED
      BY <1>0, <3>1, <3>2 DEF Settle, Goto, RunnerTypes, KeysQuiet, Resting
  <2>3. ASSUME NEW k \in Jobs, RecoverJob(k) PROVE KeysQuiet
    <3>1. CASE Resumes(k)
      BY <1>0, <2>3, <3>1 DEF RecoverJob, Settle, Goto, RunnerTypes, KeysQuiet, Resting
    <3>2. CASE ~Resumes(k)
      <4>1. k \notin KeyJobs /\ pc' = pc /\ Settle(k, "failed")
        BY <1>0, <2>3, <3>2 DEF RecoverJob, Resumes
      <4> QED
        BY <1>0, <4>1 DEF Settle, RunnerTypes, KeysQuiet
    <3> QED
      BY <3>1, <3>2
  <2>4. (\E i \in Intents : HostBegins(i) \/ WithdrawIntent(i)) \/ ApiStarts \/ Serve => KeysQuiet
    BY DEF HostBegins, WithdrawIntent, ApiStarts, Serve, KeysQuiet
  <2>5. ApiStops => KeysQuiet
    BY <1>0 DEF ApiStops, Resting, KeysQuiet
  <2> QED
    BY <1>0, <1>2, <2>1, <2>2, <2>3, <2>4, <2>5 DEF Runner
<1>3. ASSUME NEW k \in Jobs, Action[k] # "rotate_key", RunnerWorks(k) \/ AcceptJob(k)
      PROVE  KeysQuiet
  <2>1. \A j \in Jobs \ {k} : pc'[j] = pc[j] /\ job'[j] = job[j]
    BY <1>0, <1>3 DEF RunnerWorks, AcceptJob, Goto, Settle, RunnerTypes
  <2> QED
    BY <1>0, <1>3, <2>1 DEF KeysQuiet
<1> QED
  BY <1>1, <1>2, <1>3

\* The other operations are not of a key rotation's job.
LEMMA OthersRotateNoKey ==
  ASSUME NEW j \in Jobs, Data(j) \/ Deletion(j) \/ Lifecycle(j) \/ Rotation(j)
  PROVE  Action[j] # "rotate_key"
<1>1. ASSUME NEW c \in {"backup_project", "delete_restore_point", "restore_project"}, Running(j, c)
      PROVE  Action[j] # "rotate_key"
  BY <1>1, RunningTells
<1>2. CASE Data(j)
  BY <1>1, <1>2 DEF Data, AcceptBackup, AcceptRestore, AcceptDeletePoint, CompensateRows,
     RunnerBegins, SettleRows, SettleSafety, SettleTarget, FinishJob, ExceptRows, FailJob, RunnerRaises,
     BackupDone, RestoreSaves, RestoreSwaps, DeletePointDone, PointJobs, Restores
<1>3. CASE Deletion(j)
  BY <1>3 DEF Deletion, AcceptDeletion, DeletionNotQueued, DeletionBegins, DeletionSubmits, DeletionNotes,
     DeletionCleans, DeletionRemovesRow, DeletionVerifies, DeletionRaises, DeletionFails, Deletions
<1>4. CASE Lifecycle(j)
  BY <1>4 DEF Lifecycle, AcceptLifecycle, AnswerLifecycle, Asks, LifecycleNotQueued, LifecycleBegins,
     LifecycleEnds, RecreationEnds, LifecycleRaises, LifecycleDone, LifecycleFails, LifecycleLost,
     LifecycleJobs, LifecycleActions
<1>5. CASE Rotation(j)
  BY <1>5 DEF Rotation, AcceptRotation, CompensateRotation, RotationBegins, RotationConfirms,
     RotationRaises, RotationFails, ScriptBegins, Preflight, Advance, ScriptFails, ScriptDone, ScriptKilled,
     Held, Rotations
<1> QED
  BY <1>2, <1>3, <1>4, <1>5

\* A step of a key rotation writes for its own job, and the Studio never forgets what it
\* was told.
LEMMA RotationTells ==
  ASSUME OperationsInv, StudioWasTold, NEW j \in Jobs, KeyRotation(j)
  PROVE  StudioWasTold'
<1> USE DEF OperationsInv
<1>0. /\ RunnerTypes /\ j \in KeyJobs /\ VersionTypes
  BY DEF RunnerInv, KeyRotation, AcceptManual, ScanClaims, KeyRotationNotQueued, KeyRotationBegins,
     RotationEnds, StoreKeys, Invalidate, KeyRotationDone, KeyRotationRaises, BlockAfterFailure,
     BlockFails, KeyScriptBegins, KeyScriptRefused, KeyScriptStep, KeyScriptDone, KeyScriptTurnsBack,
     KeyScriptTurnedBack, KeyScriptDies, KeyScriptLost, KeyScriptStarts, AtTurn
<1>a. OperationActs(j)
  BY KeyRotationActs
<1>1. \A k \in KeyJobs \ {j} : pc'[k] = pc[k] /\ job'[k] = job[k]
  BY <1>0, <1>a DEF OperationActs, RunnerWorks, AcceptJob, HostWorks, Goto, Settle, RunnerTypes, KeyJobs
<1>2. ASSUME \A k \in KeyJobs \ {j} : wrote'[k] = wrote[k], required' >= required, required' \in Nat,
             /\ pc'[j] = "finish" \/ job'[j] = "done" => required' >= wrote'[j]
             /\ pc'[j] \in {"wait", "store", "invalidate"} => job'[j] = "running"
      PROVE  StudioWasTold'
  <2>1. \A k \in KeyJobs : required \in Nat /\ wrote[k] \in Nat
    BY <1>0 DEF VersionTypes, KeyJobs
  <2> QED
    BY <1>1, <1>2, <2>1 DEF StudioWasTold
<1>b. /\ \A place : Goto(j, place) => pc'[j] = place
      /\ \A status : Settle(j, status) => job'[j] = status
      /\ required \in Nat
  BY <1>0 DEF Goto, Settle, RunnerTypes, VersionTypes, KeyJobs
<1>c. UNCHANGED keyRotationVars => UNCHANGED <<wrote, required>>
  BY DEF keyRotationVars, keyVars, cacheVars
<1>d. UNCHANGED <<wrote, required>> /\ pc'[j] \in Resting \cup {"begin", "block", "block_again"}
        /\ (job'[j] = job[j] \/ job'[j] # "done") => StudioWasTold'
  BY <1>0, <1>2, <1>b DEF StudioWasTold, Resting
<1>3. CASE AcceptManual(j) \/ ScanClaims(j)
  BY <1>3, <1>b, <1>c, <1>d DEF AcceptManual, ScanClaims, AcceptJob, Resting
<1>4. CASE KeyRotationNotQueued(j) \/ BlockAfterFailure(j)
  BY <1>4, <1>b, <1>d DEF KeyRotationNotQueued, BlockAfterFailure, cacheVars, Resting
<1>5. CASE KeyRotationBegins(j)
  <2>1. UNCHANGED <<wrote, required>> /\ pc'[j] = "wait" /\ job'[j] = "running"
    BY <1>5, <1>b, <1>c DEF KeyRotationBegins
  <2> QED
    BY <1>2, <1>b, <2>1
<1>6. CASE RotationEnds(j)
  <2>1. UNCHANGED <<wrote, required>>
    BY <1>6, <1>c DEF RotationEnds
  <2>2. \/ pc'[j] = "store" /\ job'[j] = job[j] /\ pc[j] = "wait"
        \/ pc'[j] \in {"block", "none"} /\ job'[j] = "failed"
    BY <1>6, <1>b DEF RotationEnds, AfterFailure
  <2> QED
    BY <1>0, <1>2, <1>b, <1>d, <2>1, <2>2 DEF StudioWasTold, Resting
<1>7. CASE StoreKeys(j)
  <2>1. required' = required /\ pc'[j] = "invalidate" /\ job' = job /\ pc[j] = "store"
    BY <1>7, <1>b DEF StoreKeys, cacheVars
  <2>2. \A k \in KeyJobs \ {j} : wrote'[k] = wrote[k]
    BY <1>0, <1>7 DEF StoreKeys, VersionTypes, KeyJobs
  <2> QED
    BY <1>0, <1>2, <1>b, <2>1, <2>2 DEF StudioWasTold
<1>8. CASE Invalidate(j)
  <2>1. wrote' = wrote /\ pc'[j] = "finish" /\ job' = job
    BY <1>8, <1>b DEF Invalidate, keyVars
  <2>2. wrote[j] \in Nat /\ required' = IF wrote[j] > required THEN wrote[j] ELSE required
    BY <1>0, <1>8 DEF Invalidate, VersionTypes, KeyJobs
  <2>3. required' >= required /\ required' \in Nat /\ required' >= wrote'[j]
    BY <1>b, <2>1, <2>2
  <2> QED
    BY <1>2, <2>1, <2>3
<1>9. CASE KeyRotationDone(j)
  <2>1. UNCHANGED <<wrote, required>> /\ pc'[j] = "none" /\ pc[j] = "finish"
    BY <1>9, <1>b, <1>c DEF KeyRotationDone
  <2> QED
    BY <1>0, <1>2, <1>b, <2>1 DEF StudioWasTold
<1>10. CASE KeyRotationRaises(j)
  <2>1. UNCHANGED <<wrote, required>> /\ pc'[j] \in {"block_again", "none"} /\ job'[j] = "failed"
    BY <1>10, <1>b, <1>c DEF KeyRotationRaises, AfterFailure
  <2> QED
    BY <1>d, <2>1 DEF Resting
<1>11. CASE BlockFails(j)
  <2>1. UNCHANGED <<wrote, required>> /\ pc'[j] \in {"block_again", "none"} /\ job' = job
    BY <1>11, <1>b, <1>c DEF BlockFails
  <2> QED
    BY <1>d, <2>1 DEF Resting
<1>12. CASE KeyScriptBegins(j) \/ KeyScriptRefused(j) \/ KeyScriptStep(j) \/ KeyScriptDone(j)
             \/ KeyScriptTurnsBack(j) \/ KeyScriptTurnedBack(j) \/ KeyScriptDies(j) \/ KeyScriptLost(j)
  <2>1. UNCHANGED <<wrote, required, pc, job>>
    BY <1>12 DEF KeyScriptBegins, KeyScriptRefused, KeyScriptStep, KeyScriptDone, KeyScriptTurnsBack,
       KeyScriptTurnedBack, KeyScriptDies, KeyScriptLost, HostLost, beside, cacheVars, runnerVars
  <2> QED
    BY <2>1 DEF StudioWasTold
<1> QED
  BY <1>3, <1>4, <1>5, <1>6, <1>7, <1>8, <1>9, <1>10, <1>11, <1>12 DEF KeyRotation

\* Every step keeps it.
LEMMA NextTold ==
  OperationsInv /\ StudioWasTold /\ [Next]_vars => StudioWasTold'
<1> SUFFICES ASSUME OperationsInv, StudioWasTold, [Next]_vars PROVE StudioWasTold'
  OBVIOUS
<1> USE DEF OperationsInv
<1>0. requests \subseteq Jobs /\ HolderRotates /\ files \in BOOLEAN
  BY RunnerAssumption DEF RunnerInv, RunnerTypes, ReferenceInv, Steady, ScriptHolds, HolderRotates
<1> DEFINE Same == UNCHANGED <<wrote, required>>
<1>a. UNCHANGED keyRotationVars \/ UNCHANGED runtimeVars => Same
  BY DEF runtimeVars, keyRotationVars, keyVars, cacheVars
<1>b. KeysQuiet => StudioWasTold'
  BY DEF KeysQuiet, StudioWasTold, Resting
<1>c. UNCHANGED runnerVars => HostWorks
  BY <1>0 DEF runnerVars, HostWorks
<1>1. ASSUME NEW k \in Jobs, Data(k) \/ Deletion(k) \/ Lifecycle(k) \/ Rotation(k), Same
      PROVE  StudioWasTold'
  <2>1. Action[k] # "rotate_key"
    BY <1>1, OthersRotateNoKey
  <2>2. OperationActs(k)
    BY <1>1, DataActs, DeletionActs, LifecycleActs, RotationActs
  <2> QED
    BY <1>b, <1>1, <2>1, <2>2, OthersKeepQuiet DEF OperationActs
<1>2. ASSUME NEW k \in Jobs, RestoreScript(k) PROVE StudioWasTold'
  <2>1. Same
    BY <1>2, <1>a DEF RestoreScript, Entry
  <2> QED
    BY <1>b, <1>2, <2>1, RestoreScriptActs, OthersKeepQuiet
<1>3. ASSUME NEW k \in Jobs, NEW c \in HostSteps, DeleteScript(k, c) PROVE StudioWasTold'
  <2>1. Same
    BY <1>3, <1>a, DeleteScriptTells DEF Entry
  <2> QED
    BY <1>b, <1>3, <2>1, DeleteScriptActs, OthersKeepQuiet
<1>4. ASSUME Rotates, Same PROVE StudioWasTold'
  BY <1>0, <1>b, <1>4, RotatesActs, OthersKeepQuiet
<1>5. ASSUME Runner, Same PROVE StudioWasTold'
  BY <1>b, <1>5, OthersKeepQuiet
<1>6. ASSUME NEW k \in Jobs, KeyRotation(k) PROVE StudioWasTold'
  BY <1>6, RotationTells
<1>7. ASSUME Write \/ Sync \/ Saves, Same PROVE StudioWasTold'
  <2>1. UNCHANGED runnerVars
    BY <1>7 DEF Write, Sync, Saves, ReadEnv, ReplaceEnv, SaveFails
  <2> QED
    BY <1>b, <1>c, <1>7, <2>1, OthersKeepQuiet
<1>8. ASSUME Studio \/ ScanReadsExpiry \/ KeysAge \/ (\E on \in BOOLEAN : SetAutomatic(on)) \/ UNCHANGED vars
      PROVE  StudioWasTold'
  <2>1. UNCHANGED <<pc, job, wrote>>
    BY <1>8 DEF Studio, Promote, FetchKey, PublishKey, ScanReadsExpiry, KeysAge, SetAutomatic, runnerVars,
       keyVars, vars, runtimeVars, keyRotationVars
  <2>2. required' = required \/ (Promote \/ PublishKey)
    BY <1>8 DEF Studio, FetchKey, ScanReadsExpiry, KeysAge, SetAutomatic, cacheVars, vars, runtimeVars,
       keyRotationVars
  <2>3. /\ required \in Nat /\ version \in Nat /\ fetched \in Nat
        /\ \A k \in KeyJobs : wrote[k] \in Nat
    BY DEF VersionTypes, KeyJobs
  <2>4. required' \in Nat /\ required' >= required
    BY <2>2, <2>3 DEF Promote, PublishKey, IsRecent
  <2> QED
    BY <2>1, <2>3, <2>4 DEF StudioWasTold
<1>9. /\ UNCHANGED <<dataVars, runtimeVars>> => Same
      /\ UNCHANGED <<deletionVars, runtimeVars>> => Same
      /\ UNCHANGED <<dataVars, rotationVars, keyRotationVars>> => Same
      /\ UNCHANGED <<dataVars, keyRotationVars>> => Same
  BY <1>a
<1> HIDE DEF Same
<1> QED
  BY <1>0, <1>a, <1>1, <1>2, <1>3, <1>4, <1>5, <1>6, <1>7, <1>8, <1>9 DEF Next, Operates

\* Once a rotation of the keys is reported done, the Studio answers with no key of before
\* it, however long an answer with the old key was on its way to its cache.
THEOREM OldKeysAreNotServed == Spec => NoOldKeyAfterRotation
<1>1. Init => StudioWasTold
  <2> SUFFICES ASSUME Init PROVE StudioWasTold
    OBVIOUS
  <2>1. \A j \in KeyJobs : pc[j] = "none" /\ job[j] = "absent"
    BY DEF Init, RunnerInit, KeyJobs
  <2> QED
    BY <2>1 DEF StudioWasTold
<1>2. OperationsInv /\ StudioWasTold /\ [Next]_vars
      => [used' # used => \A j \in KeyJobs : job[j] = "done" => used' >= wrote[j]]_vars
  <2> SUFFICES ASSUME OperationsInv, StudioWasTold, [Next]_vars, used' # used, NEW j \in KeyJobs, job[j] = "done"
               PROVE  used' >= wrote[j]
    BY DEF vars
  <2> USE DEF OperationsInv
  <2>a. UNCHANGED keyRotationVars \/ UNCHANGED runtimeVars \/ UNCHANGED cacheVars => used' = used
    BY DEF runtimeVars, keyRotationVars, cacheVars
  <2>b. ASSUME NEW k \in Jobs, KeyRotation(k) PROVE used' = used
    BY <2>a, <2>b DEF KeyRotation, AcceptManual, ScanClaims, KeyRotationNotQueued, KeyRotationBegins,
       RotationEnds, StoreKeys, Invalidate, KeyRotationDone, KeyRotationRaises, BlockAfterFailure,
       BlockFails, KeyScriptBegins, KeyScriptRefused, KeyScriptStep, KeyScriptDone, KeyScriptTurnsBack,
       KeyScriptTurnedBack, KeyScriptDies, KeyScriptLost, beside
  <2>c. (Studio /\ ~PublishKey) \/ ScanReadsExpiry \/ KeysAge \/ (\E on \in BOOLEAN : SetAutomatic(on)) => used' = used
    BY <2>a DEF Studio, Promote, FetchKey, ScanReadsExpiry, KeysAge, SetAutomatic
  <2>d. ASSUME NEW k \in Jobs, RestoreScript(k) \/ \E c \in HostSteps : DeleteScript(k, c) PROVE used' = used
    BY <2>a, <2>d, DeleteScriptTells DEF RestoreScript, Entry
  <2>1. PublishKey
    BY <2>a, <2>b, <2>c, <2>d, RunnerAssumption DEF Next, Operates, vars, RunnerInv, RunnerTypes
  <2>2. required \in Nat /\ fetched \in Nat /\ wrote[j] \in Nat
    BY DEF VersionTypes, KeyJobs
  <2>3. required >= wrote[j]
    BY DEF StudioWasTold
  <2> QED
    BY <2>1, <2>2, <2>3 DEF PublishKey, IsRecent
<1> QED
  BY <1>1, <1>2, NextTold, OperationsHold, PTL DEF Spec, NoOldKeyAfterRotation

-----------------------------------------------------------------------------
(* What a restore point offers is there. *)

\* The deletion of p was asked for; otherwise its directory is there.
Dropped(p) == \E k \in Jobs : Target[k] = p /\ Action[k] = "delete_restore_point" /\ job[k] # "absent"
Kept(p) == dir[p] = "complete" \/ Dropped(p)

\* A point is there after the backup that is done, before a restore from it, from the
\* moment a restore has captured its safety point, and while it is offered.
CapturesAreKept ==
  /\ \A j \in PointJobs : Action[j] = "backup" /\ command[The(j)] = "done" => Kept(Target[j])
  /\ \A j \in Restores : job[j] # "absent" => Kept(Target[j])
  /\ \A j \in Restores : script[j] \in {"saved", "swapped"} \/ report[j] => Kept(Safety[j])
  /\ \A p \in Points : point[p] = "ready" => Kept(p)

\* The safety point of a restore is free until it is captured, and holds what the restore
\* replaces from then on; a restore that is done has said so.
SafetyHolds(j) ==
  /\ script[j] = "stopped" => dir[Safety[j]] = "none"
  /\ command[The(j)] = "done" => report[j]
  /\ \/ Dropped(Safety[j])
     \/ /\ script[j] = "saved" => content[Safety[j]] = data
        /\ script[j] = "swapped" \/ command[The(j)] = "done" => content[Safety[j]] = replaced[j]

\* Its row is there unless the script ended without it, and is offered, or in use for
\* another restore, from the step that settles it on.
SafetyOffered(j) ==
  /\ job[j] = "done" => command[The(j)] = "done"
  /\ pc[j] \in {"settle", "finish"} => Ended(The(j))
  /\ \/ Dropped(Safety[j])
     \/ /\ job[j] # "absent" /\ point[Safety[j]] = "absent" => Ended(The(j)) /\ ~report[j]
        /\ (command[The(j)] = "done" /\ pc[j] \in {"settle", "finish"}) \/ job[j] = "done"
             => point[Safety[j]] \in {"ready", "restoring"}

PointFacts == CapturesAreKept /\ \A j \in Restores : SafetyHolds(j) /\ SafetyOffered(j)

\* As long as the project has its files.
PointInv == files => PointFacts

\* A job that is known stays known.
LEMMA KnownStays ==
  ASSUME RunnerInv, HolderRotates, [Next]_vars, NEW j \in Jobs, job[j] # "absent"
  PROVE  job'[j] # "absent"
<1>0. RunnerTypes /\ requests \subseteq Jobs
  BY RunnerAssumption DEF RunnerInv, RunnerTypes
<1>1. CASE HostWorks
  BY <1>1 DEF HostWorks
<1>2. ASSUME NEW k \in Jobs, RunnerWorks(k) \/ AcceptJob(k) PROVE job'[j] # "absent"
  BY <1>0, <1>2 DEF RunnerWorks, AcceptJob, Settle, RunnerTypes, JobFinal
<1>3. CASE Runner
  BY <1>0, <1>3 DEF Runner, Enqueue, EnqueueFails, TakeJob, RecoverJob, HostBegins, WithdrawIntent, ApiStops,
     ApiStarts, Serve, Settle, RunnerTypes
<1> QED
  BY <1>1, <1>2, <1>3, NextActs

\* What is kept stays unless its deletion was asked for.
LEMMA KeptStays ==
  ASSUME \A k \in Jobs : job[k] # "absent" => job'[k] # "absent",
         NEW p, dir'[p] = dir[p] \/ dir'[p] = "complete" \/ Dropped(p)
  PROVE  (Dropped(p) => Dropped(p)') /\ (Kept(p) => Kept(p)')
<1>1. Dropped(p) => Dropped(p)'
  BY DEF Dropped
<1> QED
  BY <1>1 DEF Kept

\* A step that touches neither points nor what the jobs on them have reached.
PointsQuiet ==
  /\ UNCHANGED <<point, dir, content, data, script, report, replaced>>
  /\ \A j \in PointJobs : /\ command'[The(j)] = "done" => command[The(j)] = "done"
                          /\ Ended(The(j)) => command'[The(j)] = command[The(j)]
  /\ \A j \in Restores : /\ pc'[j] \in {"settle", "finish"} => pc'[j] = pc[j]
                         /\ job'[j] = "done" => job[j] = "done"
                         /\ job'[j] # "absent" => job[j] # "absent"

\* Such a step keeps the points as they are.
LEMMA QuietKeepsPoints ==
  ASSUME PointFacts, PointsQuiet, \A k \in Jobs : job[k] # "absent" => job'[k] # "absent"
  PROVE  PointFacts'
<1>0. Restores \subseteq PointJobs
  BY DEF Restores, PointJobs
<1>1. \A p : (Dropped(p) => Dropped(p)') /\ (Kept(p) => Kept(p)')
  BY KeptStays DEF PointsQuiet
<1>2. CapturesAreKept'
  BY <1>0, <1>1 DEF PointFacts, CapturesAreKept, PointsQuiet
<1>3. ASSUME NEW j \in Restores PROVE SafetyHolds(j)'
  BY <1>0, <1>1 DEF PointFacts, SafetyHolds, PointsQuiet
<1>4. ASSUME NEW j \in Restores PROVE SafetyOffered(j)'
  <2>0. j \in PointJobs /\ SafetyOffered(j) /\ (Dropped(Safety[j]) => Dropped(Safety[j])')
    BY <1>0, <1>1 DEF PointFacts
  <2>1. Ended(The(j)) => Ended(The(j))'
    BY <2>0 DEF PointsQuiet, Ended
  <2>2. /\ job'[j] = "done" => command'[The(j)] = "done"
        /\ pc'[j] \in {"settle", "finish"} => Ended(The(j))'
    BY <2>0, <2>1 DEF SafetyOffered, PointsQuiet, Ended, Host!Final
  <2>3. ASSUME ~Dropped(Safety[j])
        PROVE  /\ job'[j] # "absent" /\ point'[Safety[j]] = "absent" => Ended(The(j))' /\ ~report'[j]
               /\ (command'[The(j)] = "done" /\ pc'[j] \in {"settle", "finish"}) \/ job'[j] = "done"
                    => point'[Safety[j]] \in {"ready", "restoring"}
    BY <2>0, <2>1, <2>3 DEF SafetyOffered, PointsQuiet
  <2> QED
    BY <2>0, <2>2, <2>3 DEF SafetyOffered
<1> QED
  BY <1>2, <1>3, <1>4 DEF PointFacts

\* The runner of a job on points: the directories and the scripts stay as they are.
LEMMA RunnersKeepCaptures ==
  ASSUME PointFacts, UNCHANGED hostVars,
         \A k \in Jobs : job[k] # "absent" => job'[k] # "absent",
         \A j \in PointJobs : command'[The(j)] = "done" => command[The(j)] = "done",
         \A j \in Restores : job'[j] # "absent" => job[j] # "absent" \/ Kept(Target[j]),
         \A p \in Points : point'[p] = "ready" => Kept(p)
  PROVE  /\ CapturesAreKept'
         /\ \A j \in Restores : SafetyHolds(j)'
         /\ \A p : (Dropped(p) => Dropped(p)') /\ (Kept(p) => Kept(p)')
<1>0. Restores \subseteq PointJobs
  BY DEF Restores, PointJobs
<1>1. \A p : (Dropped(p) => Dropped(p)') /\ (Kept(p) => Kept(p)')
  BY KeptStays DEF hostVars
<1>2. CapturesAreKept'
  BY <1>0, <1>1 DEF PointFacts, CapturesAreKept, hostVars
<1>3. ASSUME NEW j \in Restores PROVE SafetyHolds(j)'
  BY <1>0, <1>1 DEF PointFacts, SafetyHolds, hostVars
<1> QED
  BY <1>1, <1>2, <1>3

\* What the endpoint and the runner make of a row when something failed.
LEMMA RowsTell ==
  ASSUME NEW k \in Jobs, NEW p \in Points,
         NEW row, row = RowsCompensated(k)[p] \/ row = RowsExcept(k)[p]
  PROVE  \/ row = point[p]
         \/ row = "failed" /\ point[p] = "creating"
         \/ row = "ready" /\ point[p] = "restoring" /\ p = Target[k] /\ Action[k] = "restore"
         \/ /\ row \in {"ready", "failed"} /\ point[p] = "deleting"
            /\ p = Target[k] /\ Action[k] = "delete_restore_point"
<1>1. CASE row = RowsCompensated(k)[p]
  BY <1>1, Zenon DEF RowsCompensated
<1>2. CASE row = RowsExcept(k)[p]
  BY <1>2, Zenon DEF RowsExcept
<1> QED
  BY <1>1, <1>2

\* When a step of a runner leaves the safety point of j on offer.
LEMMA OfferStays ==
  ASSUME NEW j \in Restores, SafetyOffered(j), report' = report, Dropped(Safety[j]) => Dropped(Safety[j])',
         command'[The(j)] = command[The(j)] \/ (~Ended(The(j)) /\ command'[The(j)] = "queued"),
         job'[j] = "done" => job[j] = "done" \/ (command[The(j)] = "done" /\ pc[j] = "finish"),
         pc'[j] \in {"settle", "finish"} =>
           \/ pc[j] \in {"settle", "finish"}
           \/ Ended(The(j)) /\ (Dropped(Safety[j])' \/ command[The(j)] # "done" \/ point'[Safety[j]] \in {"ready", "restoring"}),
         \/ Dropped(Safety[j])'
         \/ /\ job'[j] # "absent" /\ point'[Safety[j]] = "absent" =>
                 (job[j] # "absent" /\ point[Safety[j]] = "absent") \/ (Ended(The(j)) /\ ~report[j])
            /\ point[Safety[j]] \in {"ready", "restoring"} => point'[Safety[j]] \in {"ready", "restoring"}
  PROVE  SafetyOffered(j)'
<1>1. /\ Ended(The(j)) => Ended(The(j))' /\ command'[The(j)] = command[The(j)]
      /\ command'[The(j)] = "done" <=> command[The(j)] = "done"
  BY DEF Ended, Host!Final
<1>2. job'[j] = "done" => command'[The(j)] = "done"
  BY <1>1 DEF SafetyOffered
<1>3. pc'[j] \in {"settle", "finish"} => Ended(The(j))'
  BY <1>1 DEF SafetyOffered
<1>4. ASSUME ~Dropped(Safety[j])'
      PROVE  /\ job'[j] # "absent" /\ point'[Safety[j]] = "absent" => Ended(The(j))' /\ ~report'[j]
             /\ (command'[The(j)] = "done" /\ pc'[j] \in {"settle", "finish"}) \/ job'[j] = "done"
                  => point'[Safety[j]] \in {"ready", "restoring"}
  BY <1>1, <1>4 DEF SafetyOffered
<1> QED
  BY <1>2, <1>3, <1>4 DEF SafetyOffered

\* The endpoints.
LEMMA AcceptsKeepPoints ==
  ASSUME OperationsInv, PointFacts, NEW k \in Jobs,
         AcceptBackup(k) \/ AcceptRestore(k) \/ AcceptDeletePoint(k)
  PROVE  PointFacts'
<1> USE DEF OperationsInv
<1>0. /\ RunnerTypes /\ PointsTypeOK /\ Restores \subseteq PointJobs /\ PointJobs \subseteq Jobs
  BY DEF RunnerInv, Restores, PointJobs
<1>1. /\ job' = [job EXCEPT ![k] = "queued"] /\ pc' = [pc EXCEPT ![k] = "accepted"] /\ job[k] = "absent"
      /\ command' = command /\ UNCHANGED hostVars
  BY DEF AcceptBackup, AcceptRestore, AcceptDeletePoint, AcceptJob, Settle, Goto
<1>2. \A i \in Jobs : job[i] # "absent" => job'[i] # "absent"
  BY <1>0, <1>1 DEF RunnerTypes
<1>a. Action[k] \in {"backup", "restore", "delete_restore_point"} => k \in PointJobs /\ Target[k] \in Points
  BY PointsAssumption DEF PointJobs
<1>b. Action[k] = "restore" => k \in Restores /\ Safety[k] \in Points \ {Target[k]}
  BY PointsAssumption DEF Restores
<1>3. \/ Action[k] = "backup" /\ point[Target[k]] = "absent" /\ point' = [point EXCEPT ![Target[k]] = "creating"]
      \/ /\ Action[k] = "restore" /\ point[Target[k]] = "ready" /\ point[Safety[k]] = "absent"
         /\ point' = [point EXCEPT ![Target[k]] = "restoring", ![Safety[k]] = "creating"]
      \/ Action[k] = "delete_restore_point" /\ point' = [point EXCEPT ![Target[k]] = "deleting"]
  BY DEF AcceptBackup, AcceptRestore, AcceptDeletePoint
<1>4. \A p \in Points : point'[p] = "ready" => point[p] = "ready"
  BY <1>0, <1>3 DEF PointsTypeOK
<1>5. \A j \in Restores : job'[j] # "absent" => job[j] # "absent" \/ Kept(Target[j])
  BY <1>0, <1>1, <1>3, <1>a DEF PointFacts, CapturesAreKept, Restores, RunnerTypes
<1>6. /\ CapturesAreKept' /\ \A j \in Restores : SafetyHolds(j)'
      /\ \A p : (Dropped(p) => Dropped(p)') /\ (Kept(p) => Kept(p)')
  BY <1>1, <1>2, <1>4, <1>5, RunnersKeepCaptures DEF PointFacts, CapturesAreKept
<1>7. ASSUME NEW j \in Restores PROVE SafetyOffered(j)'
  <2>1. /\ j \in Jobs /\ Safety[j] \in Points /\ SafetyOffered(j) /\ report' = report
        /\ (Dropped(Safety[j]) => Dropped(Safety[j])')
    BY <1>0, <1>1, <1>6, PointsAssumption DEF PointFacts, hostVars
  <2>2. /\ job'[j] = "done" => job[j] = "done"
        /\ pc'[j] \in {"settle", "finish"} => pc[j] \in {"settle", "finish"}
    BY <1>0, <1>1, <2>1 DEF RunnerTypes
  <2>3. CASE Action[k] = "delete_restore_point" /\ Target[k] = Safety[j]
    <3>1. Dropped(Safety[j])'
      BY <1>0, <1>1, <2>3 DEF Dropped, RunnerTypes
    <3> QED
      BY <1>1, <2>1, <2>2, <3>1, OfferStays
  <2>4. CASE ~(Action[k] = "delete_restore_point" /\ Target[k] = Safety[j])
    <3>1. point[Safety[j]] \in {"ready", "restoring"} => point'[Safety[j]] \in {"ready", "restoring"}
      BY <1>0, <1>3, <1>a, <1>b, <2>1, <2>4 DEF PointsTypeOK
    <3>2. job'[j] # "absent" /\ point'[Safety[j]] = "absent" => job[j] # "absent" /\ point[Safety[j]] = "absent"
      <4>1. CASE j = k
        <5>1. point'[Safety[j]] = "creating"
          BY <1>0, <1>3, <1>b, <2>1, <4>1 DEF PointsTypeOK, Restores
        <5> QED
          BY <5>1
      <4>2. CASE j # k
        <5>1. job'[j] = job[j]
          BY <1>0, <1>1, <2>1, <4>2 DEF RunnerTypes
        <5>2. point'[Safety[j]] = "absent" => point[Safety[j]] = "absent"
          BY <1>0, <1>3, <1>a, <1>b, <2>1 DEF PointsTypeOK
        <5> QED
          BY <5>1, <5>2
      <4> QED
        BY <4>1, <4>2
    <3> QED
      BY <1>1, <2>1, <2>2, <3>1, <3>2, OfferStays
  <2> QED
    BY <2>3, <2>4
<1> QED
  BY <1>6, <1>7 DEF PointFacts

\* The coroutines, but for the step that ends a job.
LEMMA RunnersKeepPoints ==
  ASSUME OperationsInv, PointFacts, NEW k \in Jobs,
         \/ CompensateRows(k) \/ RunnerBegins(k) \/ RunnerRaises(k) \/ SettleRows(k) \/ SettleSafety(k)
         \/ SettleTarget(k) \/ FinishJob(k) \/ ExceptRows(k) \/ FailJob(k)
  PROVE  PointFacts'
<1> USE DEF OperationsInv
<1>0. /\ RunnerTypes /\ PointsTypeOK /\ Restores \subseteq PointJobs /\ PointJobs \subseteq Jobs
      /\ k \in PointJobs /\ Target[k] \in Points /\ (Action[k] = "restore" <=> k \in Restores)
      /\ \A j \in Restores : Safety[j] \in Points \ {Target[j]}
  BY PointsAssumption DEF RunnerInv, Restores, PointJobs, CompensateRows, RunnerBegins, RunnerRaises,
     SettleRows, SettleSafety, SettleTarget, FinishJob, ExceptRows, FailJob
<1>1. UNCHANGED hostVars /\ pc[k] # "none" /\ job[k] # "absent"
  <2>1. UNCHANGED hostVars /\ pc[k] # "none"
    BY DEF CompensateRows, RunnerBegins, RunnerRaises, SettleRows,
       SettleSafety, SettleTarget, FinishJob, ExceptRows, FailJob, pointVars
  <2> QED
    BY <2>1 DEF RunnerInv, JobsAreKnown
<1>2. PICK status, place :
         /\ job' = job \/ (job' = [job EXCEPT ![k] = status] /\ status \in {"running", "done", "failed"})
         /\ status = "done" => pc[k] = "finish" /\ command[The(k)] = "done"
         /\ pc' = [pc EXCEPT ![k] = place]
         /\ place = "settle" => SettleSafety(k) /\ k \in Restores
         /\ place = "finish" => (SettleRows(k) /\ k \notin Restores) \/ (SettleTarget(k) /\ pc[k] = "settle")
  <2>a. /\ \A s : Settle(k, s) => job' = [job EXCEPT ![k] = s]
        /\ \A s : Goto(k, s) => pc' = [pc EXCEPT ![k] = s]
    BY DEF Settle, Goto
  <2>1. CASE CompensateRows(k) \/ RunnerRaises(k) \/ ExceptRows(k)
    BY <2>1, <2>a DEF CompensateRows, RunnerRaises, ExceptRows
  <2>2. CASE RunnerBegins(k)
    BY <2>2, <2>a DEF RunnerBegins
  <2>3. CASE SettleRows(k) \/ SettleSafety(k) \/ SettleTarget(k)
    BY <2>3, <2>a DEF SettleRows, SettleSafety, SettleTarget
  <2>4. CASE FinishJob(k)
    BY <2>4, <2>a DEF FinishJob
  <2>5. CASE FailJob(k)
    BY <2>5, <2>a DEF FailJob
  <2> QED
    BY <2>1, <2>2, <2>3, <2>4, <2>5
<1>3. \A i \in Jobs : /\ job[i] # "absent" <=> job'[i] # "absent"
                      /\ i # k => job'[i] = job[i] /\ pc'[i] = pc[i]
  BY <1>0, <1>1, <1>2 DEF RunnerTypes
<1>4. command' = command \/ (command[The(k)] = "absent" /\ command' = [command EXCEPT ![The(k)] = "queued"])
  BY <1>0, IntentsTell, HostChanges DEF CompensateRows, RunnerBegins, RunnerRaises, SettleRows, SettleSafety,
     SettleTarget, FinishJob, ExceptRows, FailJob, AttachIntent, PointJobs
<1>5. \A j \in PointJobs : \/ command'[The(j)] = command[The(j)]
                           \/ ~Ended(The(j)) /\ command'[The(j)] = "queued"
  <2>1. \A j \in PointJobs : The(j) \in Intents
    BY IntentsTell DEF PointJobs
  <2> QED
    BY <1>0, <1>4, <2>1 DEF RunnerTypes, Ended, Host!Final
\* What becomes of the rows.
<1>6. \A p \in Points : point'[p] = "ready" => Kept(p)
  <2>a. /\ \A p \in Points : point[p] = "ready" => Kept(p)
        /\ Action[k] = "restore" => Kept(Target[k])
        /\ Action[k] = "delete_restore_point" => Kept(Target[k])
    BY <1>0, <1>1 DEF PointFacts, CapturesAreKept, Kept, Dropped
  <2>1. CASE CompensateRows(k) \/ ExceptRows(k)
    <3>1. point' = point \/ point' = RowsCompensated(k) \/ point' = RowsExcept(k)
      BY <2>1 DEF CompensateRows, ExceptRows
    <3> QED
      BY <2>a, <3>1, RowsTell
  <2>2. CASE SettleRows(k)
    <3>1. point'[Target[k]] = "ready" => Kept(Target[k])
      BY <1>0, <2>2, <2>a DEF SettleRows, RowsSettled, SetPoint, PointsTypeOK, PointFacts, CapturesAreKept
    <3>2. \A p \in Points \ {Target[k]} : point'[p] = point[p]
      BY <1>0, <2>2 DEF SettleRows, RowsSettled, SetPoint, PointsTypeOK
    <3> QED
      BY <2>a, <3>1, <3>2
  <2>3. CASE SettleSafety(k)
    BY <1>0, <2>3, <2>a DEF SettleSafety, SetPoint, PointsTypeOK, PointFacts, CapturesAreKept
  <2>4. CASE SettleTarget(k)
    BY <1>0, <2>4, <2>a DEF SettleTarget, SetPoint, PointsTypeOK
  <2>5. CASE RunnerBegins(k) \/ RunnerRaises(k) \/ FinishJob(k) \/ FailJob(k)
    BY <2>5, <2>a DEF RunnerBegins, RunnerRaises, FinishJob, FailJob, pointVars
  <2> QED
    BY <2>1, <2>2, <2>3, <2>4, <2>5
<1>7. /\ CapturesAreKept' /\ \A j \in Restores : SafetyHolds(j)'
      /\ \A p : (Dropped(p) => Dropped(p)') /\ (Kept(p) => Kept(p)')
  BY <1>0, <1>1, <1>3, <1>5, <1>6, RunnersKeepCaptures
<1>8. ASSUME NEW j \in Restores, ~Dropped(Safety[j])
      PROVE  /\ point[Safety[j]] \in {"ready", "restoring"} => point'[Safety[j]] \in {"ready", "restoring"}
                                                              \/ (SettleSafety(k) /\ k = j /\ ~report[j])
             /\ point'[Safety[j]] = "absent" => point[Safety[j]] = "absent" \/ (Ended(The(j)) /\ ~report[j])
  <2>0. Safety[j] \in Points
    BY <1>0
  <2>1. CASE CompensateRows(k) \/ ExceptRows(k)
    <3>1. point' = point \/ point' = RowsCompensated(k) \/ point' = RowsExcept(k)
      BY <2>1 DEF CompensateRows, ExceptRows
    <3> QED
      BY <2>0, <3>1, RowsTell
  <2>2. CASE SettleRows(k)
    <3>1. Target[k] # Safety[j]
      BY <1>0, <1>1, <1>8, <2>2, PointsAssumption DEF SettleRows, Restores, PointJobs, Dropped
    <3> QED
      BY <1>0, <2>0, <2>2, <3>1 DEF SettleRows, RowsSettled, SetPoint, PointsTypeOK
  <2>3. CASE SettleSafety(k)
    <3>1. CASE k = j
      BY <1>0, <2>0, <2>3, <3>1 DEF SettleSafety, SetPoint, PointsTypeOK
    <3>2. CASE k # j
      <4>1. Safety[k] # Safety[j]
        BY <1>0, <2>3, <3>2, PointsAssumption DEF SettleSafety
      <4> QED
        BY <1>0, <2>0, <2>3, <4>1 DEF SettleSafety, SetPoint, PointsTypeOK
    <3> QED
      BY <3>1, <3>2
  <2>4. CASE SettleTarget(k)
    BY <1>0, <2>0, <2>4 DEF SettleTarget, SetPoint, PointsTypeOK
  <2>5. CASE RunnerBegins(k) \/ RunnerRaises(k) \/ FinishJob(k) \/ FailJob(k)
    BY <2>5 DEF RunnerBegins, RunnerRaises, FinishJob, FailJob, pointVars
  <2> QED
    BY <2>1, <2>2, <2>3, <2>4, <2>5
<1>9. ASSUME NEW j \in Restores PROVE SafetyOffered(j)'
  <2>1. /\ j \in Jobs /\ SafetyOffered(j) /\ SafetyHolds(j) /\ report' = report
        /\ (Dropped(Safety[j]) => Dropped(Safety[j])')
    BY <1>0, <1>1, <1>7 DEF PointFacts, hostVars
  <2>2. job'[j] = "done" => job[j] = "done" \/ (command[The(j)] = "done" /\ pc[j] = "finish")
    BY <1>0, <1>2, <1>3, <2>1 DEF RunnerTypes
  <2>3. CASE SettleSafety(k) /\ k = j
    <3>1. pc'[j] = "settle" /\ job'[j] = job[j] /\ Ended(The(j)) /\ command' = command /\ job[j] # "absent"
      BY <1>0, <1>1, <2>1, <2>3 DEF SettleSafety, Goto, RunnerTypes
    <3>2. CASE Dropped(Safety[j])'
      BY <2>1, <2>2, <3>1, <3>2, OfferStays
    <3>3. CASE ~Dropped(Safety[j])'
      <4>1. CASE report[j]
        <5>1. point[Safety[j]] # "absent" /\ point'[Safety[j]] = "ready"
          <6>1. point[Safety[j]] # "absent"
            BY <2>1, <3>1, <3>3, <4>1 DEF SafetyOffered
          <6> QED
            BY <1>0, <2>3, <4>1, <6>1 DEF SettleSafety, SetPoint, PointsTypeOK
        <5> QED
          BY <2>1, <2>2, <3>1, <5>1, OfferStays
      <4>2. CASE ~report[j]
        <5>1. command[The(j)] # "done" /\ job[j] # "done"
          BY <2>1, <4>2 DEF SafetyHolds, SafetyOffered
        <5> QED
          BY <2>1, <3>1, <4>2, <5>1 DEF SafetyOffered, Ended
      <4> QED
        BY <4>1, <4>2
    <3> QED
      BY <3>2, <3>3
  <2>4. CASE ~(SettleSafety(k) /\ k = j)
    <3>1. pc'[j] \in {"settle", "finish"} => pc[j] \in {"settle", "finish"}
      BY <1>0, <1>2, <1>3, <2>1, <2>4 DEF RunnerTypes
    <3>2. \/ Dropped(Safety[j])'
          \/ /\ job'[j] # "absent" /\ point'[Safety[j]] = "absent" =>
                 (job[j] # "absent" /\ point[Safety[j]] = "absent") \/ (Ended(The(j)) /\ ~report[j])
             /\ point[Safety[j]] \in {"ready", "restoring"} => point'[Safety[j]] \in {"ready", "restoring"}
      BY <1>3, <1>8, <2>1, <2>4
    <3> QED
      BY <1>0, <1>5, <2>1, <2>2, <3>1, <3>2, OfferStays
  <2> QED
    BY <2>3, <2>4
<1> QED
  BY <1>7, <1>9 DEF PointFacts

\* While a host command runs, the only script at work is its own.
LEMMA ScriptsAreAlone ==
  ASSUME OperationsInv, NEW k \in Jobs, The(k) \in Intents, command[The(k)] = "running"
  PROVE  /\ \A j \in Jobs : j # k => script[j] = "idle"
         /\ Action[k] # "restore" => script[k] = "idle"
<1>1. ASSUME NEW j \in Jobs, script[j] # "idle" PROVE j = k /\ Action[j] = "restore"
  <2>1. Running(j, "restore_project")
    BY <1>1 DEF OperationsInv, ReferenceInv, Steady, ScriptHolds
  <2>2. <<j, "restore_project">> = The(k)
    BY <2>1, RunningTells DEF OperationsInv, RunnerInv, OneRuns
  <2> QED
    BY <2>1, <2>2, RunningTells DEF The
<1> QED
  BY <1>1

\* What a restore that is over left stays, as nothing is captured where something is.
LEMMA SettledStays ==
  ASSUME PointFacts, NEW j \in Restores, script'[j] = "idle",
         command'[The(j)] = "done" => command[The(j)] = "done" /\ report'[j] = report[j],
         replaced'[j] = replaced[j],
         Dropped(Safety[j]) => Dropped(Safety[j])',
         dir[Safety[j]] = "complete" => content'[Safety[j]] = content[Safety[j]]
  PROVE  SafetyHolds(j)'
<1>1. ASSUME command'[The(j)] = "done"
      PROVE  report'[j] /\ (Dropped(Safety[j])' \/ content'[Safety[j]] = replaced'[j])
  <2>1. SafetyHolds(j) /\ report[j] /\ Kept(Safety[j])
    BY <1>1 DEF PointFacts, SafetyHolds, CapturesAreKept
  <2> QED
    BY <1>1, <2>1 DEF SafetyHolds, Kept
<1> QED
  BY <1>1 DEF SafetyHolds

\* A handler, and the users, leave rows and runners alone.
LEMMA HandlersKeepFacts ==
  ASSUME PointFacts, UNCHANGED <<point, pc, job>>,
         \A p \in Points : dir'[p] = dir[p] \/ dir'[p] = "complete" \/ Dropped(p),
         \A j \in PointJobs : /\ Ended(The(j)) => command'[The(j)] = command[The(j)]
                              /\ Action[j] = "backup" /\ command'[The(j)] = "done" /\ command[The(j)] # "done"
                                   => dir'[Target[j]] = "complete",
         \A j \in Restores : /\ Ended(The(j)) => report'[j] = report[j]
                             /\ script'[j] \in {"saved", "swapped"} \/ report'[j]
                                  => script[j] \in {"saved", "swapped"} \/ report[j] \/ dir'[Safety[j]] = "complete"
                             /\ SafetyHolds(j)'
  PROVE  PointFacts'
<1>0. Restores \subseteq PointJobs /\ (\A j \in PointJobs : Target[j] \in Points) /\ \A j \in Restores : Safety[j] \in Points
  BY PointsAssumption DEF Restores, PointJobs
<1>1. \A p \in Points : (Dropped(p) => Dropped(p)') /\ (Kept(p) => Kept(p)')
  BY KeptStays
<1>2. CapturesAreKept'
  BY <1>0, <1>1 DEF PointFacts, CapturesAreKept, Kept
<1>3. ASSUME NEW j \in Restores PROVE SafetyOffered(j)'
  <2>1. SafetyOffered(j) /\ (Ended(The(j)) => Ended(The(j))' /\ command'[The(j)] = command[The(j)] /\ report'[j] = report[j])
    BY <1>0 DEF PointFacts, Ended
  <2>2. Dropped(Safety[j]) => Dropped(Safety[j])'
    BY <1>0, <1>1
  <2>3. command[The(j)] = "done" => Ended(The(j))
    BY DEF Ended, Host!Final
  <2>4. /\ job'[j] = "done" => command'[The(j)] = "done"
        /\ pc'[j] \in {"settle", "finish"} => Ended(The(j))'
    BY <2>1, <2>3 DEF SafetyOffered
  <2>5. ASSUME ~Dropped(Safety[j])
        PROVE  /\ job'[j] # "absent" /\ point'[Safety[j]] = "absent" => Ended(The(j))' /\ ~report'[j]
               /\ (command'[The(j)] = "done" /\ pc'[j] \in {"settle", "finish"}) \/ job'[j] = "done"
                    => point'[Safety[j]] \in {"ready", "restoring"}
    BY <2>1, <2>5 DEF SafetyOffered
  <2> QED
    BY <2>2, <2>4, <2>5 DEF SafetyOffered
<1> QED
  BY <1>2, <1>3 DEF PointFacts

\* The scripts of the jobs on points, and the users of the project.
LEMMA HandlersKeepPoints ==
  ASSUME OperationsInv, PointFacts, NEW k \in Jobs,
         \/ BackupDone(k) \/ RestoreSaves(k) \/ RestoreSwaps(k) \/ DeletePointDone(k)
         \/ RestoreStops(k) \/ RestoreRefused(k) \/ RestoreDone(k) \/ RestoreFails(k)
         \/ PointHandlerLost(k) \/ PointScriptFails(k)
  PROVE  PointFacts'
<1> USE DEF OperationsInv
<1>0. /\ RunnerTypes /\ PointsTypeOK /\ Restores \subseteq PointJobs /\ PointJobs \subseteq Jobs
      /\ \A j \in PointJobs : The(j) \in Intents /\ The(j)[1] = j
      /\ \A j \in Restores : Safety[j] \in Points \ {Target[j]}
      /\ \A j \in PointJobs : Target[j] \in Points
  BY PointsAssumption, IntentsTell DEF RunnerInv, Restores, PointJobs, The
<1>1. /\ k \in PointJobs /\ command[The(k)] = "running" /\ UNCHANGED <<point, pc, job>>
      /\ (Action[k] = "restore" <=> k \in Restores) /\ job[k] # "absent"
  <2>1. k \in PointJobs /\ command[The(k)] = "running"
    <3>1. CASE PointHandlerLost(k)
      BY <1>0, <3>1, HostChanges DEF PointHandlerLost, HostLost
    <3>2. CASE ~PointHandlerLost(k)
      <4>1. \E c \in {"backup_project", "restore_project", "delete_restore_point"} : Running(k, c)
        BY <3>2 DEF BackupDone, RestoreSaves, RestoreSwaps, DeletePointDone, RestoreStops,
           RestoreRefused, RestoreDone, RestoreFails, PointScriptFails
      <4> QED
        BY <4>1, RunningTells DEF PointJobs
    <3> QED
      BY <3>1, <3>2
  <2>2. UNCHANGED <<point, pc, job>>
    BY DEF BackupDone, RestoreSaves, RestoreSwaps, DeletePointDone, RestoreStops,
       RestoreRefused, RestoreDone, RestoreFails, PointHandlerLost, PointScriptFails, HostLost, runnerVars
  <2> QED
    BY <1>0, <2>1, <2>2 DEF RunnerInv, JobsAreKnown, Restores
<1>2. /\ \A j \in Jobs : j # k => script[j] = "idle"
      /\ Action[k] # "restore" => script[k] = "idle"
  BY <1>0, <1>1, ScriptsAreAlone
<1>3. /\ \A j \in PointJobs : j # k => command'[The(j)] = command[The(j)]
      /\ command' = command \/ (\E s \in {"done", "failed"} : command' = [command EXCEPT ![The(k)] = s])
  <2>1. command' = command \/ Host!Succeed(The(k)) \/ Host!Fail({The(k)})
    BY DEF BackupDone, RestoreSaves, RestoreSwaps, DeletePointDone, RestoreStops,
       RestoreRefused, RestoreDone, RestoreFails, PointHandlerLost, PointScriptFails, HostLost, runnerVars
  <2>2. command' = command \/ (\E s \in {"done", "failed"} : command' = [command EXCEPT ![The(k)] = s])
    BY <1>0, <1>1, <2>1, HostChanges
  <2>3. \A j \in PointJobs : j # k => The(j) # The(k)
    BY <1>0, <1>1
  <2> QED
    BY <1>0, <2>2, <2>3 DEF RunnerTypes
<1>4. \A j \in PointJobs : Ended(The(j)) => command'[The(j)] = command[The(j)]
  BY <1>1, <1>3 DEF Ended, Host!Final
<1>5. \A j \in Restores : j # k => replaced'[j] = replaced[j] /\ report'[j] = report[j] /\ script'[j] = "idle"
  <2>1. CASE RestoreFails(k)
    <3>1. /\ replaced' = replaced /\ script' = [script EXCEPT ![k] = "idle"]
          /\ \E b : report' = [report EXCEPT ![k] = b]
      BY <2>1 DEF RestoreFails
    <3> QED
      BY <1>0, <1>2, <3>1 DEF PointsTypeOK
  <2> QED
    BY <1>0, <1>2, <2>1 DEF BackupDone, RestoreSaves, RestoreSwaps, DeletePointDone, RestoreStops,
       RestoreRefused, RestoreDone, PointHandlerLost, PointScriptFails, PointsTypeOK
<1>6. /\ \A p \in Points : dir'[p] = dir[p] \/ dir'[p] = "complete" \/ Dropped(p)
      /\ \A p \in Points : dir[p] = "complete" => content'[p] = content[p]
  <2>1. CASE BackupDone(k)
    BY <1>0, <1>1, <2>1 DEF BackupDone, PointsTypeOK
  <2>2. CASE RestoreSaves(k)
    <3>1. k \in Restores
      BY <1>1, <2>2, RunningTells DEF RestoreSaves
    <3>2. Dropped(Safety[k]) \/ dir[Safety[k]] = "none"
      BY <2>2, <3>1 DEF RestoreSaves, PointFacts, SafetyHolds
    <3>3. dir[Safety[k]] = "none"
      BY <2>2, <3>1 DEF RestoreSaves, PointFacts, SafetyHolds
    <3> QED
      BY <1>0, <2>2, <3>1, <3>3 DEF RestoreSaves, PointsTypeOK
  <2>3. CASE DeletePointDone(k) \/ PointScriptFails(k) \/ PointHandlerLost(k)
    <3>1. content' = content /\ (dir' = dir \/ \E left \in {"none", "partial"} : dir' = [dir EXCEPT ![Target[k]] = left])
      BY <2>3 DEF DeletePointDone, PointScriptFails, PointHandlerLost
    <3>2. dir' = dir \/ Dropped(Target[k])
      BY <1>0, <1>1, <2>3, RunningTells DEF DeletePointDone, PointScriptFails, PointHandlerLost, Dropped
    <3> QED
      BY <1>0, <3>1, <3>2 DEF PointsTypeOK
  <2>4. CASE RestoreSwaps(k) \/ RestoreStops(k) \/ RestoreRefused(k) \/ RestoreDone(k) \/ RestoreFails(k)
    BY <2>4 DEF RestoreSwaps, RestoreStops, RestoreRefused, RestoreDone, RestoreFails
  <2> QED
    BY <2>1, <2>2, <2>3, <2>4
<1>7. \A p \in Points : Dropped(p) => Dropped(p)'
  BY <1>1 DEF Dropped
<1>8. ASSUME NEW j \in Restores, j # k PROVE SafetyHolds(j)'
  BY <1>0, <1>3, <1>5, <1>6, <1>7, <1>8, SettledStays
<1>9. ASSUME k \in Restores
      PROVE  /\ SafetyHolds(k)'
             /\ script'[k] \in {"saved", "swapped"} \/ report'[k]
                  => script[k] \in {"saved", "swapped"} \/ report[k] \/ dir'[Safety[k]] = "complete"
  <2>0. /\ SafetyHolds(k) /\ Safety[k] \in Points /\ Action[k] = "restore" /\ Running(k, "restore_project")
        /\ (Dropped(Safety[k]) => Dropped(Safety[k])')
    BY <1>0, <1>1, <1>7, <1>9 DEF PointFacts, Running, The, CommandOf
  <2>1. CASE RestoreSaves(k)
    <3>1. /\ script'[k] = "saved" /\ dir'[Safety[k]] = "complete" /\ content'[Safety[k]] = data /\ data' = data
          /\ command'[The(k)] = "running"
      BY <1>0, <1>1, <2>0, <2>1 DEF RestoreSaves, PointsTypeOK, runnerVars
    <3> QED
      BY <3>1 DEF SafetyHolds
  <2>2. CASE RestoreSwaps(k)
    <3>1. /\ script[k] = "saved" /\ script'[k] = "swapped" /\ content' = content /\ replaced'[k] = data
          /\ command'[The(k)] = "running"
      BY <1>0, <1>1, <2>0, <2>2 DEF RestoreSwaps, PointsTypeOK, runnerVars
    <3> QED
      BY <2>0, <3>1 DEF SafetyHolds
  <2>3. CASE RestoreStops(k)
    <3>1. /\ script'[k] = "stopped" /\ dir'[Safety[k]] = "none" /\ command'[The(k)] = "running" /\ report' = report
      BY <1>0, <1>1, <2>0, <2>3 DEF RestoreStops, PointsTypeOK, runnerVars
    <3> QED
      BY <3>1 DEF SafetyHolds
  <2>4. CASE RestoreDone(k)
    <3>1. /\ script[k] = "swapped" /\ script'[k] = "idle" /\ report'[k] /\ content' = content /\ replaced' = replaced
      BY <1>0, <1>1, <2>0, <2>4 DEF RestoreDone, PointsTypeOK
    <3> QED
      BY <2>0, <3>1 DEF SafetyHolds
  <2>5. CASE RestoreRefused(k) \/ RestoreFails(k) \/ PointHandlerLost(k)
    <3>0. Host!Fail({The(k)})
      BY <2>5 DEF RestoreRefused, RestoreFails, PointHandlerLost, HostLost
    <3>1. script'[k] = "idle" /\ command'[The(k)] = "failed"
      <4>1. script'[k] = "idle"
        BY <1>0, <1>1, <2>5 DEF RestoreRefused, RestoreFails, PointHandlerLost, PointsTypeOK
      <4>2. command' = [command EXCEPT ![The(k)] = "failed"]
        BY <1>0, <1>1, <3>0, HostChanges
      <4> QED
        BY <1>0, <1>1, <4>1, <4>2 DEF RunnerTypes
    <3>2. report'[k] => script[k] \in {"saved", "swapped"} \/ report[k]
      BY <1>0, <1>1, <2>0, <2>5 DEF RestoreRefused, RestoreFails, PointHandlerLost, PointsTypeOK
    <3> QED
      BY <3>1, <3>2 DEF SafetyHolds
  <2>6. CASE BackupDone(k) \/ DeletePointDone(k) \/ PointScriptFails(k)
    BY <2>0, <2>6, RunningTells DEF BackupDone, DeletePointDone, PointScriptFails
  <2> QED
    BY <2>1, <2>2, <2>3, <2>4, <2>5, <2>6
<1>10. Action[k] = "backup" /\ command'[The(k)] = "done" => dir'[Target[k]] = "complete"
  <2>1. CASE BackupDone(k)
    BY <1>0, <1>1, <2>1 DEF BackupDone, PointsTypeOK
  <2>2. CASE PointHandlerLost(k) \/ PointScriptFails(k)
    <3>1. command'[The(k)] = "failed"
      BY <1>0, <1>1, <2>2, HostChanges DEF PointHandlerLost, PointScriptFails, HostLost, RunnerTypes
    <3> QED
      BY <3>1
  <2>3. CASE ~(BackupDone(k) \/ PointHandlerLost(k) \/ PointScriptFails(k))
    BY <1>1, <2>3, RunningTells DEF RestoreSaves, RestoreSwaps, DeletePointDone, RestoreStops,
       RestoreRefused, RestoreDone, RestoreFails
  <2> QED
    BY <2>1, <2>2, <2>3
<1>11. \A j \in Restores : Ended(The(j)) => report'[j] = report[j]
  BY <1>1, <1>5 DEF Ended, Host!Final
<1>12. \A j \in Restores :
         /\ script'[j] \in {"saved", "swapped"} \/ report'[j]
              => script[j] \in {"saved", "swapped"} \/ report[j] \/ dir'[Safety[j]] = "complete"
         /\ SafetyHolds(j)'
  BY <1>5, <1>8, <1>9
<1>13. \A j \in PointJobs : Action[j] = "backup" /\ command'[The(j)] = "done" /\ command[The(j)] # "done"
         => dir'[Target[j]] = "complete"
  BY <1>3, <1>10
<1> QED
  BY <1>1, <1>4, <1>6, <1>11, <1>12, <1>13, HandlersKeepFacts

\* The users of the project.
LEMMA WriteKeepsPoints ==
  ASSUME PointFacts, Write
  PROVE  PointFacts'
<1>1. /\ \A j \in Jobs : script[j] = "idle"
      /\ UNCHANGED <<point, pc, job, command, dir, content, script, report, replaced>>
  BY DEF Write, Serving, runnerVars
<1>2. Restores \subseteq Jobs
  BY DEF Restores
<1>3. \A j \in Restores : SafetyHolds(j)'
  BY <1>1, <1>2, SettledStays DEF Dropped
<1> QED
  BY <1>1, <1>3, HandlersKeepFacts

\* The other operations are of jobs that have no point.
LEMMA OthersHaveNoPoint ==
  ASSUME RunnerInv, NEW k \in Jobs,
         \/ Deletion(k) \/ Lifecycle(k) \/ Rotation(k) \/ KeyRotation(k) \/ k \in Rotations \cup LifecycleJobs
         \/ \E c \in HostSteps : DeleteScript(k, c)
  PROVE  k \notin PointJobs
<1>1. CASE Deletion(k)
  BY <1>1 DEF Deletion, AcceptDeletion, DeletionNotQueued, DeletionBegins, DeletionSubmits, DeletionNotes,
     DeletionCleans, DeletionRemovesRow, DeletionVerifies, DeletionRaises, DeletionFails, Deletions, PointJobs
<1>2. CASE Lifecycle(k) \/ k \in LifecycleJobs
  BY <1>2 DEF Lifecycle, AcceptLifecycle, AnswerLifecycle, Asks, LifecycleNotQueued, LifecycleBegins,
     LifecycleEnds, RecreationEnds, LifecycleRaises, LifecycleDone, LifecycleFails, LifecycleLost,
     LifecycleJobs, LifecycleActions, PointJobs
<1>3. CASE Rotation(k) \/ k \in Rotations
  BY <1>3 DEF Rotation, AcceptRotation, CompensateRotation, RotationBegins, RotationConfirms,
     RotationRaises, RotationFails, ScriptBegins, Preflight, Advance, ScriptFails, ScriptDone, ScriptKilled,
     Held, Rotations, PointJobs
<1>4. CASE KeyRotation(k)
  BY <1>4 DEF KeyRotation, AcceptManual, ScanClaims, KeyRotationNotQueued, KeyRotationBegins,
     RotationEnds, StoreKeys, Invalidate, KeyRotationDone, KeyRotationRaises, BlockAfterFailure,
     BlockFails, KeyScriptBegins, KeyScriptRefused, KeyScriptStep, KeyScriptDone, KeyScriptTurnsBack,
     KeyScriptTurnedBack, KeyScriptDies, KeyScriptLost, KeyScriptStarts, AtTurn, KeyJobs, PointJobs
<1>5. ASSUME NEW c \in HostSteps, DeleteScript(k, c) PROVE k \notin PointJobs
  <2>1. <<k, c>> \in Intents
    BY <1>5, DeleteScriptTells DEF DeleteHostDone, DeleteHostFails, DeleteHostLost, Running
  <2>2. Action[k] = "delete"
    BY <2>1, IntentsTell, CommandTells
  <2> QED
    BY <2>2 DEF PointJobs
<1> QED
  BY <1>1, <1>2, <1>3, <1>4, <1>5

\* A step ends no intent of these jobs.
EndsNothingOf(S) ==
  \A i \in Intents : i[1] \in S /\ command'[i] = "done" => command[i] = "done"

\* The host, the waiters and the handlers change one intent at a time.
LEMMA OneIntentChanges ==
  ASSUME RunnerInv, NEW S,
         \/ command' = command
         \/ \E i \in Intents : \/ Host!Accept(i) \/ Host!Begin(i) \/ Host!Withdraw(i) \/ Host!Fail({i})
                               \/ command' = [command EXCEPT ![i] = "queued"]
                               \/ i[1] \notin S /\ Host!Succeed(i)
  PROVE  EndsNothingOf(S)
<1>0. RunnerTypes
  BY DEF RunnerInv
<1>1. ASSUME NEW i \in Intents,
             \/ Host!Accept(i) \/ Host!Begin(i) \/ Host!Withdraw(i) \/ Host!Fail({i})
             \/ command' = [command EXCEPT ![i] = "queued"]
             \/ i[1] \notin S /\ Host!Succeed(i)
      PROVE  EndsNothingOf(S)
  <2>1. \E s : command' = [command EXCEPT ![i] = s] /\ (s = "done" => i[1] \notin S)
    <3>1. CASE i[1] \notin S /\ Host!Succeed(i)
      BY <1>0, <3>1, HostChanges
    <3>2. CASE ~(i[1] \notin S /\ Host!Succeed(i))
      <4>1. \E s \in {"queued", "running", "cancelled", "failed"} : command' = [command EXCEPT ![i] = s]
        BY <1>0, <1>1, <3>2, HostChanges
      <4> QED
        BY <4>1
    <3> QED
      BY <3>1, <3>2
  <2> QED
    BY <1>0, <2>1 DEF EndsNothingOf, RunnerTypes
<1> QED
  BY <1>1 DEF EndsNothingOf

\* A step changes no intent of these jobs.
CommandsStay(S) == \A i \in Intents : i[1] \in S => command'[i] = command[i]

\* An operation is at work on the intents of its own job.
LEMMA OperationsKeepToTheirOwn ==
  ASSUME RunnerInv, NEW k \in Jobs, NEW S, k \notin S,
         \/ Data(k) \/ RestoreScript(k) \/ Deletion(k) \/ Lifecycle(k) \/ Rotation(k) \/ KeyRotation(k)
         \/ \E c \in HostSteps : DeleteScript(k, c)
  PROVE  CommandsStay(S)
<1>0. /\ Action[k] # "delete" => The(k) \in Intents /\ The(k)[1] = k
      /\ RunnerTypes
  BY IntentsTell DEF The, RunnerInv
<1>a. ASSUME NEW i \in Intents, i[1] = k,
             \/ command' = command
             \/ Host!Accept(i)
             \/ command' = [command EXCEPT ![i] = "queued"]
             \/ Host!Fail({i}) \/ Host!Succeed(i)
      PROVE  CommandsStay(S)
  <2>1. command' = command \/ \E s : command' = [command EXCEPT ![i] = s]
    BY <1>0, <1>a, HostChanges
  <2> QED
    BY <1>0, <1>a, <2>1 DEF CommandsStay, RunnerTypes
<1>b. ASSUME Action[k] # "delete",
             \/ command' = command
             \/ AttachIntent(The(k))
             \/ command' = [command EXCEPT ![The(k)] = "queued"]
             \/ Host!Fail({The(k)}) \/ Host!Succeed(The(k))
      PROVE  CommandsStay(S)
  BY <1>0, <1>a, <1>b DEF AttachIntent
<1>c. UNCHANGED runnerVars => command' = command
  BY DEF runnerVars
<1>d. AcceptJob(k) => command' = command
  BY DEF AcceptJob
<1>e. HostLost(The(k)) => Host!Fail({The(k)})
  BY DEF HostLost
<1>f. Data(k) \/ RestoreScript(k) \/ Lifecycle(k) \/ Rotation(k) \/ KeyRotation(k) => Action[k] # "delete"
  BY OthersDeleteNothing
<1>1. CASE Lifecycle(k)
  BY <1>b, <1>c, <1>d, <1>e, <1>f, <1>1 DEF Lifecycle, AcceptLifecycle, AnswerLifecycle, LifecycleNotQueued,
     LifecycleBegins, LifecycleEnds, RecreationEnds, LifecycleRaises, LifecycleDone, LifecycleFails,
     LifecycleLost
<1>2. CASE Rotation(k)
  BY <1>b, <1>c, <1>d, <1>e, <1>f, <1>2 DEF Rotation, AcceptRotation, CompensateRotation, RotationBegins,
     RotationConfirms, RotationRaises, RotationFails, ScriptBegins, Preflight, Advance, ScriptFails,
     ScriptDone, ScriptKilled, EndCommand
<1>3. CASE KeyRotation(k)
  BY <1>b, <1>c, <1>d, <1>e, <1>f, <1>3 DEF KeyRotation, AcceptManual, ScanClaims, KeyRotationNotQueued,
     KeyRotationBegins, RotationEnds, StoreKeys, Invalidate, KeyRotationDone, KeyRotationRaises,
     BlockAfterFailure, BlockFails, KeyScriptBegins, KeyScriptRefused, KeyScriptStep, KeyScriptDone,
     KeyScriptTurnsBack, KeyScriptTurnedBack, KeyScriptDies, KeyScriptLost
<1>4. CASE Data(k)
  BY <1>b, <1>c, <1>d, <1>f, <1>4 DEF Data, AcceptBackup, AcceptRestore, AcceptDeletePoint, CompensateRows,
     RunnerBegins, SettleRows, SettleSafety, SettleTarget, FinishJob, ExceptRows, FailJob, RunnerRaises,
     BackupDone, RestoreSaves, RestoreSwaps, DeletePointDone
<1>5. CASE RestoreScript(k)
  BY <1>b, <1>c, <1>e, <1>f, <1>5 DEF RestoreScript, RestoreStops, RestoreRefused, RestoreDone, RestoreFails,
     PointHandlerLost, PointScriptFails
<1>6. CASE Deletion(k)
  <2>0. command' = command => CommandsStay(S)
    BY DEF CommandsStay
  <2>1. CASE DeletionSubmits(k)
    <3>1. <<k, pc[k]>> \in Intents /\ <<k, pc[k]>>[1] = k
      BY <2>1, IntentsTell DEF DeletionSubmits, Deletions, HostSteps
    <3> QED
      BY <1>a, <2>1, <3>1 DEF DeletionSubmits
  <2>2. CASE ~DeletionSubmits(k)
    BY <1>6, <1>d, <2>0, <2>2 DEF Deletion, AcceptDeletion, DeletionNotQueued, DeletionBegins,
       DeletionNotes, DeletionCleans, DeletionRemovesRow, DeletionVerifies, DeletionRaises, DeletionFails
  <2> QED
    BY <2>1, <2>2
<1>7. ASSUME NEW c \in HostSteps, DeleteScript(k, c) PROVE CommandsStay(S)
  <2>1. <<k, c>> \in Intents /\ (Host!Succeed(<<k, c>>) \/ Host!Fail({<<k, c>>})) /\ <<k, c>>[1] = k
    BY <1>7, DeleteScriptTells DEF DeleteHostDone, DeleteHostFails, DeleteHostLost, HostLost, Running
  <2> QED
    BY <1>a, <2>1
<1> QED
  BY <1>1, <1>2, <1>3, <1>4, <1>5, <1>6, <1>7

\* So it ends no intent of another job.
LEMMA OperationsEndTheirOwn ==
  ASSUME RunnerInv, NEW k \in Jobs, NEW S, k \notin S,
         \/ Data(k) \/ RestoreScript(k) \/ Deletion(k) \/ Lifecycle(k) \/ Rotation(k) \/ KeyRotation(k)
         \/ \E c \in HostSteps : DeleteScript(k, c)
  PROVE  EndsNothingOf(S)
  BY OperationsKeepToTheirOwn DEF CommandsStay, EndsNothingOf

\* Whatever else happens leaves the points alone.
LEMMA PointsLeftAlone ==
  ASSUME RunnerInv, UNCHANGED <<point, dir, content, data, script, report, replaced>>, EndsNothingOf(PointJobs),
         \/ Runner \/ HostWorks
         \/ \E k \in Jobs : k \notin PointJobs /\ (RunnerWorks(k) \/ AcceptJob(k))
  PROVE  PointsQuiet
<1>0. /\ RunnerTypes /\ requests \subseteq Jobs /\ Restores \subseteq PointJobs /\ PointJobs \subseteq Jobs
      /\ \A j \in PointJobs : The(j) \in Intents /\ The(j)[1] = j
  BY RunnerAssumption, IntentsTell DEF RunnerInv, RunnerTypes, Restores, PointJobs, The
<1> DEFINE Same == /\ \A j \in PointJobs : Ended(The(j)) => command'[The(j)] = command[The(j)]
                   /\ \A j \in Restores : /\ pc'[j] \in {"settle", "finish"} => pc'[j] = pc[j]
                                          /\ job'[j] = "done" => job[j] = "done"
                                          /\ job'[j] # "absent" => job[j] # "absent"
<1>1. ASSUME HostWorks PROVE Same
  BY <1>0, <1>1 DEF HostWorks, RunnerTypes, Ended, Host!Final
<1>2. ASSUME NEW k \in Jobs, k \notin PointJobs, RunnerWorks(k) \/ AcceptJob(k) PROVE Same
  <2>1. \A j \in PointJobs : pc'[j] = pc[j] /\ job'[j] = job[j]
    BY <1>0, <1>2 DEF RunnerWorks, AcceptJob, Goto, Settle, RunnerTypes
  <2>2. \A j \in PointJobs : command'[The(j)] = command[The(j)]
    BY <1>0, <1>2 DEF RunnerWorks, AcceptJob, RunnerTypes
  <2> QED
    BY <1>0, <2>1, <2>2
<1>3. ASSUME Runner PROVE Same
  <2>1. ASSUME NEW k \in Jobs, Enqueue(k) \/ TakeJob(k) PROVE Same
    BY <1>0, <2>1 DEF Enqueue, TakeJob, Goto, RunnerTypes
  <2>2. ASSUME NEW k \in Jobs, EnqueueFails(k) PROVE Same
    <3>1. PICK place \in {"compensate", "none"} : Goto(k, place)
      BY <2>2 DEF EnqueueFails
    <3>2. Settle(k, "failed") /\ command' = command /\ job[k] # "absent"
      BY <2>2 DEF EnqueueFails, RunnerInv, JobsAreKnown
    <3> QED
      BY <1>0, <3>1, <3>2 DEF Settle, Goto, RunnerTypes
  <2>3. ASSUME NEW k \in Jobs, RecoverJob(k) PROVE Same
    <3>1. job[k] # "absent" /\ command' = command /\ (Settle(k, "queued") \/ Settle(k, "failed"))
          /\ (pc' = pc \/ Goto(k, "accepted"))
      BY <2>3 DEF RecoverJob, Unrecovered
    <3> QED
      BY <1>0, <3>1 DEF Settle, Goto, RunnerTypes
  <2>4. ASSUME NEW i \in Intents, HostBegins(i) \/ WithdrawIntent(i) PROVE Same
    <3>1. command[i] = "queued" /\ (\E s : command' = [command EXCEPT ![i] = s]) /\ UNCHANGED <<pc, job>>
      BY <1>0, <2>4, HostChanges DEF HostBegins, WithdrawIntent
    <3> QED
      BY <1>0, <3>1 DEF RunnerTypes, Ended, Host!Final
  <2>5. ApiStops \/ ApiStarts \/ Serve => Same
    BY <1>0 DEF ApiStops, ApiStarts, Serve
  <2> HIDE DEF Same
  <2> QED
    BY <1>0, <1>3, <2>1, <2>2, <2>3, <2>4, <2>5 DEF Runner
<1>4. Same
  <2> HIDE DEF Same
  <2> QED
    BY <1>1, <1>2, <1>3
<1> QED
  BY <1>0, <1>4 DEF PointsQuiet, EndsNothingOf

\* Every step keeps what the points offer.
LEMMA NextPointInv ==
  OperationsInv /\ GoneInv /\ PointInv /\ [Next]_vars => PointInv'
<1> SUFFICES ASSUME OperationsInv, GoneInv, PointInv, [Next]_vars, files' PROVE PointFacts'
  BY DEF PointInv
<1> USE DEF OperationsInv
<1>0. /\ requests \subseteq Jobs /\ HolderRotates /\ files \in BOOLEAN /\ project \in BOOLEAN
      /\ \A k \in Jobs : job[k] # "absent" => job'[k] # "absent"
  BY RunnerAssumption, KnownStays DEF RunnerInv, RunnerTypes, ReferenceInv, Steady, ScriptHolds, HolderRotates
<1>1. project' /\ files
  <2>1. project'
    BY <1>0, RowGoesLast, NextRunner DEF NoneUsable, RunnerInv, RunnerTypes
  <2>2. files
    BY <1>0, NextActs DEF HostWorks, RunnerWorks, AcceptJob, Runner, Enqueue, EnqueueFails, TakeJob, RecoverJob,
       HostBegins, WithdrawIntent, ApiStops, ApiStarts, Serve, still
  <2> QED
    BY <2>1, <2>2
<1>2. PointFacts
  BY <1>1 DEF PointInv
<1> DEFINE Same == UNCHANGED <<point, dir, content, data, script, report, replaced>>
<1>a. UNCHANGED pointVars \/ UNCHANGED dataVars => Same
  BY DEF dataVars, pointVars, hostVars
<1>b. PointsQuiet => PointFacts'
  BY <1>0, <1>2, QuietKeepsPoints
<1>c. UNCHANGED runnerVars => HostWorks /\ EndsNothingOf(PointJobs)
  BY <1>0 DEF runnerVars, HostWorks, EndsNothingOf
<1>3. ASSUME NEW k \in Jobs, Data(k) PROVE PointFacts'
  BY <1>2, <1>3, AcceptsKeepPoints, RunnersKeepPoints, HandlersKeepPoints DEF Data
<1>4. ASSUME NEW k \in Jobs, RestoreScript(k) PROVE PointFacts'
  BY <1>2, <1>4, HandlersKeepPoints DEF RestoreScript
<1>5. Write => PointFacts'
  BY <1>2, WriteKeepsPoints
<1>6. ASSUME NEW k \in Jobs, Deletion(k) PROVE PointFacts'
  <2>1. Same
    BY <1>1, <1>6, <1>a DEF Deletion, AcceptDeletion, DeletionNotQueued, DeletionBegins, DeletionSubmits,
       DeletionNotes, DeletionCleans, DeletionRemovesRow, DeletionVerifies, DeletionRaises, DeletionFails,
       hostVars
  <2> QED
    BY <1>b, <1>6, <2>1, DeletionActs, OthersHaveNoPoint, OperationsEndTheirOwn, PointsLeftAlone DEF
       OperationActs
<1>7. ASSUME NEW k \in Jobs, NEW c \in HostSteps, DeleteScript(k, c) PROVE PointFacts'
  <2>1. Same
    BY <1>1, <1>7, <1>a, DeleteScriptTells DEF DeleteHostDone, DeleteHostFails, DeleteHostLost
  <2> QED
    BY <1>b, <1>7, <2>1, DeleteScriptActs, OthersHaveNoPoint, OperationsEndTheirOwn,
       PointsLeftAlone
<1>8. ASSUME NEW k \in Jobs, Lifecycle(k) \/ Rotation(k) \/ KeyRotation(k), UNCHANGED dataVars PROVE PointFacts'
  <2>1. OperationActs(k) /\ k \notin PointJobs /\ EndsNothingOf(PointJobs)
    BY <1>8, LifecycleActs, RotationActs, KeyRotationActs, OthersHaveNoPoint, OperationsEndTheirOwn
  <2> QED
    BY <1>a, <1>b, <1>8, <2>1, PointsLeftAlone DEF OperationActs
<1>9. ASSUME Rotates, UNCHANGED dataVars PROVE PointFacts'
  <2>1. EndsNothingOf(PointJobs)
    <3>1. CASE RollBack \/ RollBackFails \/ OperatorRecovers
      BY <3>1, OneIntentChanges DEF RollBack, RollBackFails, OperatorRecovers, runnerVars
    <3>2. CASE RollBackDone \/ LastStop
      <4>1. (holder \in Rotations /\ Host!Fail({The(holder)})) \/ command' = command
        BY <1>0, <3>2 DEF RollBackDone, LastStop, HolderRotates
      <4> QED
        BY <4>1, ReferencesTell, OneIntentChanges
    <3>3. ASSUME NEW k \in requests, AdmitRecreation(k) \/ RefuseRecreation(k) PROVE EndsNothingOf(PointJobs)
      BY <1>0, <3>3, IntentsTell, OneIntentChanges DEF AdmitRecreation, RefuseRecreation, runnerVars
    <3> QED
      BY <1>9, <3>1, <3>2, <3>3 DEF Rotates
  <2> QED
    BY <1>0, <1>a, <1>b, <1>9, <2>1, RotatesActs, PointsLeftAlone
<1>10. ASSUME Runner, UNCHANGED dataVars PROVE PointFacts'
  <2>1. EndsNothingOf(PointJobs)
    BY <1>10, OneIntentChanges DEF Runner, Enqueue, EnqueueFails, TakeJob, RecoverJob, HostBegins,
       WithdrawIntent, ApiStops, ApiStarts, Serve
  <2> QED
    BY <1>a, <1>b, <1>10, <2>1, PointsLeftAlone
<1>11. ASSUME \/ Sync \/ Studio \/ ScanReadsExpiry \/ KeysAge \/ (\E on \in BOOLEAN : SetAutomatic(on))
              \/ Saves \/ UNCHANGED vars,
              UNCHANGED dataVars
       PROVE  PointFacts'
  <2>1. UNCHANGED runnerVars
    BY <1>11 DEF Sync, Studio, Promote, FetchKey, PublishKey, ScanReadsExpiry, KeysAge, SetAutomatic,
       Saves, ReadEnv, ReplaceEnv, SaveFails, vars
  <2> QED
    BY <1>a, <1>b, <1>c, <1>11, <2>1, PointsLeftAlone
<1>12. UNCHANGED <<dataVars, runtimeVars>> \/ UNCHANGED vars => UNCHANGED dataVars
  BY DEF vars
<1> HIDE DEF Same
<1> QED
  BY <1>0, <1>3, <1>4, <1>5, <1>6, <1>7, <1>8, <1>9, <1>10, <1>11, <1>12 DEF Next, Operates

\* A restore that ends well left the data it replaced in its safety point, which can be
\* restored in turn; and whatever point the API offers has a complete directory: unless its
\* deletion was asked for, or the project was deleted.
THEOREM RestoresCanBeUndone == Spec => []RestoreCanBeUndone
<1>1. Init => GoneInv /\ PointInv
  <2> SUFFICES ASSUME Init PROVE GoneInv /\ PointInv
    OBVIOUS
  <2>1. /\ project = TRUE /\ \A j \in Jobs : pc[j] = "none" /\ job[j] = "absent"
        /\ \A j \in PointJobs : command[The(j)] = "absent"
    BY IntentsTell DEF Init, RunnerInit, PointJobs
  <2>2. \A p \in Points : point[p] = "absent"
    BY DEF Init, PointsInit
  <2>3. \A j \in Restores : j \in Jobs /\ j \in PointJobs /\ script[j] = "idle" /\ ~report[j]
    BY DEF Init, PointsInit, Restores, PointJobs
  <2>4. PointFacts
    BY <2>1, <2>2, <2>3 DEF PointFacts, CapturesAreKept, SafetyHolds, SafetyOffered
  <2> QED
    BY <2>4, InitGone DEF PointInv
<1>2. OperationsInv /\ PointInv => RestoreCanBeUndone
  <2> SUFFICES ASSUME OperationsInv, PointInv PROVE RestoreCanBeUndone
    OBVIOUS
  <2>1. ReadyIsComplete
    BY DEF PointInv, PointFacts, CapturesAreKept, Kept, Dropped, ReadyIsComplete
  <2>2. ASSUME NEW j \in Restores, job[j] = "done", files, ~Dropped(Safety[j])
        PROVE  /\ point[Safety[j]] \in {"ready", "restoring"}
               /\ dir[Safety[j]] = "complete"
               /\ content[Safety[j]] = replaced[j]
    BY <2>2 DEF PointInv, PointFacts, CapturesAreKept, SafetyHolds, SafetyOffered, Kept
  <2> QED
    BY <2>1, <2>2 DEF RestoreCanBeUndone, Dropped
<1> QED
  BY <1>1, <1>2, NextGone, NextPointInv, OperationsHold, PTL DEF Spec

-----------------------------------------------------------------------------
(* What a recreation that is reported done has put into force. *)

\* The recreations for which the agent has created the containers again, and which are
\* not to be run once more.
Through == {k \in Recreations : command[The(k)] = "done" \/ job[k] = "done"}

\* A recreation about to be reported done has recreated the containers.
ReportIsTrue == \A k \in Recreations : pc[k] = "finish" => command[The(k)] = "done"

\* A request is answered with a job for the same services, and what was saved before, and
\* not taken out of .env again, is in force once that job is through.
AnswerHolds(j) ==
  asked[j].job # "none" =>
    /\ asked[j].job \in Recreations /\ Recreates[asked[j].job] = Recreates[j]
    /\ \A s \in Recreates[j] \ undone :
         /\ asked[j].since[s] <= saved[s]
         /\ asked[j].job \in Through => asked[j].since[s] <= applied[s]

\* No container is ahead of .env, unless settings were taken out of it again.
CurrentInv ==
  /\ \A s \in Services \ undone : applied[s] <= saved[s]
  /\ ReportIsTrue
  /\ \A j \in Recreations : AnswerHolds(j)

\* A step that takes nothing back creates containers, if any, with what .env holds.
FilesMoveOn ==
  /\ undone \subseteq undone'
  /\ \A s \in Services \ undone' :
       saved[s] <= saved'[s] /\ applied'[s] \in {applied[s], saved[s], saved'[s]}

\* A step after which recreations are reported, or through, that were before, or that just
\* put into force what .env holds.
RecreationsMoveOn ==
  /\ \A k \in Recreations : pc'[k] = "finish" => command'[The(k)] = "done"
  /\ \A k \in Through' : k \in Through \/ \A s \in Recreates[k] : applied'[s] = saved[s]

\* Recreations are jobs on containers with an intent of their own.
LEMMA RecreationsTell ==
  /\ Recreations \subseteq Jobs /\ Recreations \subseteq LifecycleJobs
  /\ \A j \in Recreations : /\ Action[j] = "recreate_services"
                            /\ The(j) \in Intents /\ The(j)[1] = j
                            /\ Recreates[j] \subseteq Services
  BY IntentsTell, ServicesAssumption DEF Recreations, LifecycleJobs, The

\* The numbers compared are numbers.
LEMMA SettingsAreNumbers ==
  OperationsInv => /\ \A s \in Services : saved[s] \in Nat /\ applied[s] \in Nat
                   /\ \A j \in Jobs : \A s \in Services : asked[j].since[s] \in Nat
<1> SUFFICES ASSUME OperationsInv
             PROVE  /\ \A s \in Services : saved[s] \in Nat /\ applied[s] \in Nat
                    /\ \A j \in Jobs : \A s \in Services : asked[j].since[s] \in Nat
  OBVIOUS
<1>1. Services \subseteq Entries /\ MaxSaves[requests] \in Nat
  BY ServicesAssumption DEF Entries, OperationsInv, RunnerInv, RunnerTypes
<1>2. saved \in [Entries -> Nat] /\ applied \in [Services -> 0 .. MaxSaves[requests]]
  BY DEF OperationsInv, ReferenceInv, Steady, ReferenceTypes, NumberInv
<1>3. \A j \in Jobs : asked[j].since \in [Entries -> Nat]
  BY DEF OperationsInv, SettingTypes
<1> QED
  BY <1>1, <1>2, <1>3

\* Every step is of this kind: what is taken back is remembered.
LEMMA FilesMove ==
  ASSUME OperationsInv, OperationsInv', [Next]_vars
  PROVE  FilesMoveOn
<1>0. /\ \A s \in Services : saved[s] \in Nat
      /\ \A s \in Services : saved'[s] \in Nat
  <2>1. (/\ \A s \in Services : saved[s] \in Nat /\ applied[s] \in Nat
         /\ \A j \in Jobs : \A s \in Services : asked[j].since[s] \in Nat)'
    BY SettingsAreNumbers, PTL
  <2>2. \A s \in Services : saved'[s] \in Nat
    BY <2>1
  <2> QED
    BY <2>2, SettingsAreNumbers
<1>1. CASE UNCHANGED vars
  <2>1. UNCHANGED <<saved, applied, undone>>
    BY <1>1 DEF vars, runtimeVars, serviceVars, settingVars
  <2> QED
    BY <1>0, <2>1 DEF FilesMoveOn
<1>2. CASE Next
  <2>1. undone' = undone \cup {s \in Services : saved'[s] < saved[s]}
    BY <1>2 DEF Next, Remembers
  <2>2. \A s \in Services \ undone' : saved[s] <= saved'[s]
    BY <1>0, <2>1
  <2>3. AppliedMoves
    <3>1. Saves => applied' = applied
      BY DEF Saves, ReadEnv, ReplaceEnv, SaveFails, serviceVars, settingVars
    <3> QED
      BY <1>2, <3>1, OperatesMovesNumbers DEF Next, NumbersMove, AppliedMoves, OperationsInv
  <2>4. \A s \in Services : applied'[s] \in {applied[s], saved[s], saved'[s]}
    <3>1. applied \in [Services -> 0 .. MaxSaves[requests]]
      BY DEF OperationsInv, NumberInv
    <3> QED
      BY <2>3, <3>1 DEF AppliedMoves
  <2> QED
    BY <2>1, <2>2, <2>4 DEF FilesMoveOn
<1> QED
  BY <1>1, <1>2

\* Such steps keep every answer good.
LEMMA CurrentKept ==
  ASSUME OperationsInv, OperationsInv', CurrentInv, FilesMoveOn, RecreationsMoveOn,
         \A j \in Recreations : asked'[j] = asked[j] \/ AnswerHolds(j)'
  PROVE  CurrentInv'
<1>0. /\ \A s \in Services : saved[s] \in Nat /\ applied[s] \in Nat
      /\ \A s \in Services : saved'[s] \in Nat /\ applied'[s] \in Nat
      /\ \A j \in Jobs : \A s \in Services : asked[j].since[s] \in Nat
  <2>1. (\A s \in Services : saved[s] \in Nat /\ applied[s] \in Nat)'
    BY SettingsAreNumbers, PTL
  <2>2. \A s \in Services : saved'[s] \in Nat /\ applied'[s] \in Nat
    BY <2>1
  <2> QED
    BY <2>2, SettingsAreNumbers
<1>1. \A s \in Services \ undone' : applied[s] <= applied'[s] /\ applied'[s] <= saved'[s]
  BY <1>0 DEF CurrentInv, FilesMoveOn
<1>2. ReportIsTrue'
  BY DEF RecreationsMoveOn, ReportIsTrue
<1>3. ASSUME NEW j \in Recreations, asked'[j] = asked[j] PROVE AnswerHolds(j)'
  <2> SUFFICES ASSUME asked[j].job # "none"
               PROVE  /\ asked[j].job \in Recreations /\ Recreates[asked[j].job] = Recreates[j]
                      /\ \A s \in Recreates[j] \ undone' :
                           /\ asked[j].since[s] <= saved'[s]
                           /\ asked[j].job \in Through' => asked[j].since[s] <= applied'[s]
    BY <1>3 DEF AnswerHolds
  <2>1. /\ asked[j].job \in Recreations /\ Recreates[asked[j].job] = Recreates[j]
        /\ \A s \in Recreates[j] \ undone :
             asked[j].since[s] <= saved[s] /\ (asked[j].job \in Through => asked[j].since[s] <= applied[s])
    BY DEF CurrentInv, AnswerHolds
  <2>2. ASSUME NEW s \in Recreates[j] \ undone'
        PROVE  /\ asked[j].since[s] <= saved'[s]
               /\ asked[j].job \in Through' => asked[j].since[s] <= applied'[s]
    <3>1. s \in Services /\ j \in Jobs /\ s \notin undone
      BY RecreationsTell DEF FilesMoveOn
    <3>2. asked[j].job \in Through' => asked[j].job \in Through \/ applied'[s] = saved[s]
      BY <2>1 DEF RecreationsMoveOn
    <3>3. saved[s] <= saved'[s] /\ applied[s] <= applied'[s]
      BY <1>1, <2>2, <3>1 DEF FilesMoveOn
    <3>4. asked[j].since[s] <= saved[s] /\ (asked[j].job \in Through => asked[j].since[s] <= applied[s])
      BY <2>1, <2>2, <3>1
    <3> QED
      BY <1>0, <3>1, <3>2, <3>3, <3>4
  <2> QED
    BY <2>1, <2>2
<1>4. (\A j \in Recreations : AnswerHolds(j))'
  BY <1>3 DEF Recreations, LifecycleJobs
<1> QED
  BY <1>1, <1>2, <1>4 DEF CurrentInv

\* The operations of other jobs, the host, the queue and the worker leave them alone.
LEMMA RecreationsLeftAlone ==
  ASSUME RunnerInv, ReportIsTrue, EndsNothingOf(Recreations),
         \/ Runner \/ HostWorks
         \/ \E k \in Jobs : AcceptJob(k) \/ (k \notin Recreations /\ RunnerWorks(k))
  PROVE  RecreationsMoveOn
<1>0. /\ RunnerTypes /\ requests \subseteq Jobs
      /\ Recreations \subseteq Jobs
      /\ \A k \in Recreations : The(k) \in Intents /\ The(k)[1] = k
  BY RunnerAssumption, RecreationsTell DEF RunnerInv, RunnerTypes
<1> DEFINE Same == \A k \in Recreations :
                     /\ pc'[k] = "finish" => pc[k] = "finish"
                     /\ command[The(k)] = "done" => command'[The(k)] = "done"
                     /\ job'[k] = "done" => job[k] = "done"
<1>1. ASSUME HostWorks PROVE Same
  BY <1>0, <1>1 DEF HostWorks, RunnerTypes, Host!Final
<1>2. ASSUME NEW k \in Jobs, AcceptJob(k) \/ (k \notin Recreations /\ RunnerWorks(k)) PROVE Same
  <2>1. CASE AcceptJob(k)
    BY <1>0, <2>1 DEF AcceptJob, Goto, Settle, RunnerTypes
  <2>2. CASE k \notin Recreations /\ RunnerWorks(k)
    <3>1. \A j \in Recreations : pc'[j] = pc[j] /\ job'[j] = job[j]
      BY <1>0, <2>2 DEF RunnerWorks, Goto, Settle, RunnerTypes
    <3>2. \A j \in Recreations : command'[The(j)] = command[The(j)]
      BY <1>0, <2>2 DEF RunnerWorks, RunnerTypes
    <3> QED
      BY <3>1, <3>2
  <2> QED
    BY <1>2, <2>1, <2>2
<1>3. ASSUME Runner PROVE Same
  <2>1. ASSUME NEW k \in Jobs, Enqueue(k) \/ TakeJob(k) PROVE Same
    BY <1>0, <2>1 DEF Enqueue, TakeJob, Goto, RunnerTypes
  <2>2. ASSUME NEW k \in Jobs, EnqueueFails(k) PROVE Same
    <3>1. PICK place \in {"compensate", "none"} : Goto(k, place)
      BY <2>2 DEF EnqueueFails
    <3>2. Settle(k, "failed") /\ command' = command
      BY <2>2 DEF EnqueueFails
    <3> QED
      BY <1>0, <3>1, <3>2 DEF Settle, Goto, RunnerTypes
  <2>3. ASSUME NEW k \in Jobs, RecoverJob(k) PROVE Same
    <3>1. command' = command /\ (Settle(k, "queued") \/ Settle(k, "failed")) /\ (pc' = pc \/ Goto(k, "accepted"))
      BY <2>3 DEF RecoverJob
    <3> QED
      BY <1>0, <3>1 DEF Settle, Goto, RunnerTypes
  <2>4. ASSUME NEW i \in Intents, HostBegins(i) \/ WithdrawIntent(i) PROVE Same
    <3>1. command[i] = "queued" /\ (\E s : command' = [command EXCEPT ![i] = s]) /\ UNCHANGED <<pc, job>>
      BY <1>0, <2>4, HostChanges DEF HostBegins, WithdrawIntent
    <3> QED
      BY <1>0, <3>1 DEF RunnerTypes
  <2>5. ApiStops \/ ApiStarts \/ Serve => Same
    BY <1>0 DEF ApiStops, ApiStarts, Serve
  <2> HIDE DEF Same
  <2> QED
    BY <1>0, <1>3, <2>1, <2>2, <2>3, <2>4, <2>5 DEF Runner
<1>4. Same
  <2> HIDE DEF Same
  <2> QED
    BY <1>1, <1>2, <1>3
<1> QED
  BY <1>0, <1>4 DEF RecreationsMoveOn, Through, ReportIsTrue, EndsNothingOf

\* The operations that are not recreations answer no request for one.
LEMMA OthersAnswerNothing ==
  ASSUME OperationsInv, NEW k \in Jobs,
         \/ (Data(k) \/ Deletion(k)) /\ UNCHANGED runtimeVars
         \/ RestoreScript(k) \/ \E c \in HostSteps : DeleteScript(k, c)
         \/ Rotation(k) \/ KeyRotation(k)
  PROVE  k \notin Recreations /\ asked' = asked
<1>a. UNCHANGED runtimeVars => asked' = asked
  BY DEF runtimeVars, serviceVars, settingVars
<1>b. \A entry, marked, running : Entry(entry, marked, running) => asked' = asked
  BY DEF Entry, settingVars
<1>1. ASSUME Data(k) \/ RestoreScript(k) PROVE k \notin Recreations
  <2>1. (\E c : Running(k, c) /\ c \in {"backup_project", "restore_project", "delete_restore_point"}) => k \in PointJobs
    BY RunningTells DEF PointJobs
  <2>2. k \in PointJobs
    BY <1>1, <2>1 DEF Data, AcceptBackup, AcceptRestore, AcceptDeletePoint, CompensateRows, RunnerBegins,
       SettleRows, SettleSafety, SettleTarget, FinishJob, ExceptRows, FailJob, RunnerRaises, BackupDone,
       RestoreSaves, RestoreSwaps, DeletePointDone, Restores, PointJobs, RestoreScript, RestoreStops,
       RestoreRefused, RestoreDone, RestoreFails, PointHandlerLost, PointScriptFails
  <2> QED
    BY <2>2 DEF PointJobs, Recreations
<1>2. ASSUME Deletion(k) \/ \E c \in HostSteps : DeleteScript(k, c) PROVE Action[k] = "delete"
  <2>1. ASSUME NEW c \in HostSteps, <<k, c>> \in Intents PROVE Action[k] = "delete"
    BY <2>1, IntentsTell, CommandTells
  <2>2. CASE Deletion(k)
    BY <2>2 DEF Deletion, AcceptDeletion, DeletionNotQueued, DeletionBegins, DeletionSubmits, DeletionNotes,
       DeletionCleans, DeletionRemovesRow, DeletionVerifies, DeletionRaises, DeletionFails, Deletions
  <2>3. ASSUME NEW c \in HostSteps, DeleteScript(k, c) PROVE Action[k] = "delete"
    BY <2>1, <2>3, DeleteScriptTells DEF OperationsInv, DeleteHostDone, DeleteHostFails, DeleteHostLost, Running
  <2> QED
    BY <1>2, <2>2, <2>3
<1>3. CASE KeyRotation(k)
  <2>1. k \in KeyJobs
    BY <1>3 DEF KeyRotation, AcceptManual, ScanClaims, KeyRotationNotQueued, KeyRotationBegins,
       RotationEnds, StoreKeys, Invalidate, KeyRotationDone, KeyRotationRaises, BlockAfterFailure,
       BlockFails, KeyScriptBegins, KeyScriptRefused, KeyScriptStep, KeyScriptDone, KeyScriptTurnsBack,
       KeyScriptTurnedBack, KeyScriptDies, KeyScriptLost, KeyScriptStarts, AtTurn
  <2>2. asked' = asked
    BY <1>3 DEF KeyRotation, AcceptManual, ScanClaims, KeyRotationNotQueued, KeyRotationBegins,
       RotationEnds, StoreKeys, Invalidate, KeyRotationDone, KeyRotationRaises, BlockAfterFailure,
       BlockFails, KeyScriptBegins, KeyScriptRefused, KeyScriptStep, KeyScriptDone, KeyScriptTurnsBack,
       KeyScriptTurnedBack, KeyScriptDies, KeyScriptLost, filesAndScript, serviceVars, settingVars, beside
  <2> QED
    BY <2>1, <2>2 DEF KeyJobs, Recreations
<1>4. CASE RestoreScript(k) \/ \E c \in HostSteps : DeleteScript(k, c)
  <2>1. asked' = asked
    BY <1>a, <1>b, <1>4, DeleteScriptTells DEF OperationsInv, RestoreScript
  <2> QED
    BY <1>1, <1>2, <1>4, <2>1 DEF Recreations
<1>5. CASE Rotation(k)
  BY <1>5 DEF Rotation, AcceptRotation, CompensateRotation, RotationBegins, RotationConfirms, RotationRaises,
     RotationFails, ScriptBegins, Preflight, Advance, ScriptFails, ScriptDone, ScriptKilled, Held, outside,
     serviceVars, settingVars, Rotations, Recreations
<1> QED
  BY <1>a, <1>1, <1>2, <1>3, <1>4, <1>5 DEF Recreations

\* What a job on containers does to the settings in force, and which requests it answers.
LEMMA LifecycleAnswers ==
  ASSUME OperationsInv, NEW k \in Jobs, Lifecycle(k)
  PROVE  /\ k \in Recreations /\ LifecycleDone(k) => \A s \in Recreates[k] : applied'[s] = saved[s]
         /\ \A j \in Jobs \ {k} : asked'[j] = asked[j]
         /\ AcceptLifecycle(k) \/ AnswerLifecycle(k) \/ asked' = asked
<1>0. /\ asked \in [Jobs -> [job : Jobs \cup {"none"}, since : [Entries -> Nat]]]
      /\ Recreates[k] \subseteq Services
  BY ServicesAssumption DEF OperationsInv, SettingTypes
<1>1. k \in Recreations /\ LifecycleDone(k) => \A s \in Recreates[k] : applied'[s] = saved[s]
  <2>1. k \in Recreations /\ LifecycleWork(k) => RecreatedContainers(Recreates[k])
    BY Zenon DEF LifecycleWork, Recreations
  <2> QED
    BY <1>0, <2>1 DEF LifecycleDone, RecreatedContainers
<1>2. CASE AcceptLifecycle(k) \/ AnswerLifecycle(k)
  <2>1. \E a : asked' = [asked EXCEPT ![k] = a]
    BY <1>2 DEF AcceptLifecycle, AnswerLifecycle
  <2> QED
    BY <1>0, <1>1, <1>2, <2>1
<1>3. CASE ~(AcceptLifecycle(k) \/ AnswerLifecycle(k))
  <2>1. asked' = asked
    BY <1>3 DEF Lifecycle, LifecycleNotQueued, LifecycleBegins, LifecycleEnds, RecreationEnds,
       LifecycleRaises, LifecycleDone, LifecycleFails, LifecycleLost, serviceVars, settingVars
  <2> QED
    BY <1>1, <2>1
<1> QED
  BY <1>2, <1>3

\* A request gets a job that has not begun, or one whose answer promises nothing.
LEMMA RequestsAreAnswered ==
  ASSUME OperationsInv, CurrentInv, NEW k \in Recreations, AcceptLifecycle(k) \/ AnswerLifecycle(k)
  PROVE  AnswerHolds(k)'
<1>0. /\ k \in Jobs /\ Recreates[k] \subseteq Services /\ The(k) \in Intents /\ The(k)[1] = k
      /\ saved' = saved /\ applied' = applied
      /\ \A s \in Services : saved[s] \in Nat /\ applied[s] \in Nat
      /\ asked \in [Jobs -> [job : Jobs \cup {"none"}, since : [Entries -> Nat]]]
      /\ job \in [Jobs -> {"absent", "queued", "running"} \cup JobFinal]
  BY RecreationsTell, SettingsAreNumbers DEF OperationsInv, SettingTypes, AcceptLifecycle, AnswerLifecycle,
     RunnerInv, RunnerTypes
<1>1. CASE AcceptLifecycle(k)
  <2>1. asked'[k].job = k /\ asked'[k].since = saved
    BY <1>0, <1>1 DEF AcceptLifecycle
  <2>2. job[k] = "absent" /\ job' = [job EXCEPT ![k] = "queued"] /\ command' = command
    BY <1>1 DEF AcceptLifecycle, AcceptJob, Settle
  <2>3. command[The(k)] = "absent"
    BY <1>0, <2>2 DEF OperationsInv, RunnerInv, JobsAreKnown
  <2>4. k \notin Through'
    BY <1>0, <2>2, <2>3 DEF Through
  <2> QED
    BY <1>0, <2>1, <2>4 DEF AnswerHolds
<1>2. CASE AnswerLifecycle(k)
  <2>1. PICK m \in Jobs : /\ Active(m) /\ SameRequest(k, m)
                          /\ asked' = [asked EXCEPT ![k] =
                               [job |-> m, since |-> IF command[The(m)] = "absent" THEN saved ELSE Untouched]]
                          /\ UNCHANGED runnerVars
    BY <1>2 DEF AnswerLifecycle
  <2>2. asked'[k].job = m /\ asked'[k].since = IF command[The(m)] = "absent" THEN saved ELSE Untouched
    BY <1>0, <2>1
  <2>3. m \in Recreations /\ Recreates[m] = Recreates[k]
    BY <2>1 DEF SameRequest, Recreations, LifecycleJobs
  <2>4. command[The(m)] = "absent" => m \notin Through'
    BY <2>1 DEF Through, Active, runnerVars
  <2>5. \A s \in Services : Untouched[s] = 0
    BY DEF Untouched, Entries
  <2>6. CASE command[The(m)] = "absent"
    BY <1>0, <2>2, <2>3, <2>4, <2>6 DEF AnswerHolds
  <2>7. CASE command[The(m)] # "absent"
    BY <1>0, <2>2, <2>3, <2>5, <2>7 DEF AnswerHolds
  <2> QED
    BY <2>6, <2>7
<1> QED
  BY <1>1, <1>2

\* The steps of a recreation.
LEMMA RecreationMovesOn ==
  ASSUME OperationsInv, CurrentInv, NEW k \in Recreations, Lifecycle(k)
  PROVE  RecreationsMoveOn
<1>0. /\ RunnerTypes /\ k \in Jobs /\ Action[k] = "recreate_services"
      /\ \A m \in Recreations : The(m) \in Intents /\ The(m)[1] = m /\ m \in Jobs
      /\ ReportIsTrue
  BY RecreationsTell DEF OperationsInv, RunnerInv, CurrentInv
<1>1. CASE AcceptLifecycle(k) \/ AnswerLifecycle(k)
  <2>1. command' = command /\ (AcceptJob(k) \/ UNCHANGED runnerVars)
    BY <1>1 DEF AcceptLifecycle, AnswerLifecycle, AcceptJob, runnerVars
  <2>2. UNCHANGED runnerVars => HostWorks
    BY DEF runnerVars, HostWorks
  <2> QED
    BY <1>0, <2>1, <2>2, RecreationsLeftAlone DEF OperationsInv, EndsNothingOf
<1>2. CASE LifecycleNotQueued(k) \/ LifecycleBegins(k) \/ LifecycleRaises(k)
  <2>1. \A m \in Recreations \ {k} : pc'[m] = pc[m] /\ job'[m] = job[m] /\ command'[The(m)] = command[The(m)]
    BY <1>0, <1>2 DEF LifecycleNotQueued, LifecycleBegins, LifecycleRaises, Goto, Settle, RunnerTypes
  <2>2. pc'[k] # "finish" /\ (command'[The(k)] = "done" => command[The(k)] = "done")
        /\ (job'[k] = "done" => job[k] = "done")
    BY <1>0, <1>2 DEF LifecycleNotQueued, LifecycleBegins, LifecycleRaises, Goto, Settle, RunnerTypes
  <2> QED
    BY <1>0, <2>1, <2>2 DEF RecreationsMoveOn, ReportIsTrue, Through
<1>3. CASE LifecycleEnds(k) \/ RecreationEnds(k)
  <2>1. \A m \in Recreations \ {k} : pc'[m] = pc[m] /\ job'[m] = job[m]
    BY <1>0, <1>3 DEF LifecycleEnds, RecreationEnds, Goto, Settle, RunnerTypes
  <2>2. command' = command
    BY <1>3 DEF LifecycleEnds, RecreationEnds
  <2>3. /\ pc'[k] = "finish" => command[The(k)] = "done"
        /\ job'[k] = "done" => job[k] = "done" \/ command[The(k)] = "done"
    BY <1>0, <1>3 DEF LifecycleEnds, RecreationEnds, Goto, Settle, RunnerTypes, ReportIsTrue
  <2> QED
    BY <1>0, <2>1, <2>2, <2>3 DEF RecreationsMoveOn, ReportIsTrue, Through
<1>4. CASE LifecycleDone(k) \/ LifecycleFails(k) \/ LifecycleLost(k)
  <2>1. UNCHANGED <<pc, job>> /\ command[The(k)] = "running"
        /\ command' \in {[command EXCEPT ![The(k)] = "done"], [command EXCEPT ![The(k)] = "failed"]}
        /\ (LifecycleDone(k) \/ command' = [command EXCEPT ![The(k)] = "failed"])
    BY <1>0, <1>4, HostChanges DEF LifecycleDone, LifecycleFails, LifecycleLost, HostLost
  <2>2. \A m \in Recreations \ {k} : command'[The(m)] = command[The(m)]
    BY <1>0, <2>1 DEF RunnerTypes
  <2>3. LifecycleDone(k) \/ command'[The(k)] # "done"
    BY <1>0, <2>1 DEF RunnerTypes
  <2>4. LifecycleDone(k) => \A s \in Recreates[k] : applied'[s] = saved[s]
    BY <1>0, LifecycleAnswers
  <2> QED
    BY <1>0, <2>1, <2>2, <2>3, <2>4 DEF RecreationsMoveOn, ReportIsTrue, Through
<1> QED
  BY <1>1, <1>2, <1>3, <1>4 DEF Lifecycle

\* Every step keeps what recreations report.
LEMMA NextCurrent ==
  OperationsInv /\ OperationsInv' /\ CurrentInv /\ [Next]_vars => CurrentInv'
<1> SUFFICES ASSUME OperationsInv, OperationsInv', CurrentInv, [Next]_vars PROVE CurrentInv'
  OBVIOUS
<1>0. RunnerInv /\ HolderRotates /\ requests \subseteq Jobs /\ FilesMoveOn /\ ReportIsTrue
  BY RunnerAssumption, FilesMove DEF OperationsInv, RunnerInv, RunnerTypes, ReferenceInv, Steady, ScriptHolds,
     CurrentInv
<1>c. ASSUME asked' = asked, EndsNothingOf(Recreations),
             \/ Runner \/ HostWorks
             \/ \E k \in Jobs : k \notin Recreations /\ OperationActs(k)
      PROVE  CurrentInv'
  BY <1>0, <1>c, RecreationsLeftAlone, CurrentKept DEF OperationActs
<1>d. UNCHANGED runnerVars => HostWorks /\ EndsNothingOf(Recreations)
  BY <1>0 DEF runnerVars, HostWorks, EndsNothingOf, RunnerInv, RunnerTypes
<1>2. ASSUME NEW k \in Jobs,
             \/ (Data(k) \/ Deletion(k)) /\ UNCHANGED runtimeVars
             \/ RestoreScript(k) \/ \E c \in HostSteps : DeleteScript(k, c)
             \/ Rotation(k) \/ KeyRotation(k)
      PROVE  CurrentInv'
  <2>1. k \notin Recreations /\ asked' = asked
    BY <1>2, OthersAnswerNothing
  <2>2. EndsNothingOf(Recreations)
    BY <1>0, <1>2, <2>1, OperationsEndTheirOwn
  <2>3. OperationActs(k) \/ HostWorks
    BY <1>0, <1>2, DataActs, DeletionActs, RestoreScriptActs, DeleteScriptActs, RotationActs, KeyRotationActs
  <2> QED
    BY <1>c, <2>1, <2>2, <2>3
<1>3. ASSUME NEW k \in Jobs, Lifecycle(k) PROVE CurrentInv'
  <2>1. (\A j \in Jobs \ {k} : asked'[j] = asked[j]) /\ (AcceptLifecycle(k) \/ AnswerLifecycle(k) \/ asked' = asked)
    BY <1>3, LifecycleAnswers
  <2>2. \A j \in Recreations : asked'[j] = asked[j] \/ AnswerHolds(j)'
    BY <2>1, RequestsAreAnswered, RecreationsTell
  <2>3. RecreationsMoveOn
    <3>1. CASE k \in Recreations
      BY <1>3, <3>1, RecreationMovesOn
    <3>2. CASE k \notin Recreations
      BY <1>0, <1>3, <3>2, LifecycleActs, OperationsEndTheirOwn, RecreationsLeftAlone DEF OperationActs
    <3> QED
      BY <3>1, <3>2
  <2> QED
    BY <1>0, <2>2, <2>3, CurrentKept
<1>4. ASSUME Rotates PROVE CurrentInv'
  <2>1. asked' = asked
    BY <1>4 DEF Rotates, RollBack, RollBackDone, RollBackFails, LastStop, OperatorRecovers, AdmitRecreation,
       RefuseRecreation, outside, serviceVars, settingVars
  <2>2. EndsNothingOf(Recreations)
    <3>1. CASE RollBack \/ RollBackFails \/ OperatorRecovers
      BY <1>0, <3>1, OneIntentChanges DEF RollBack, RollBackFails, OperatorRecovers, runnerVars
    <3>2. CASE RollBackDone \/ LastStop
      <4>1. (holder \in Rotations /\ Host!Fail({The(holder)})) \/ command' = command
        BY <1>0, <3>2 DEF RollBackDone, LastStop, HolderRotates
      <4> QED
        BY <1>0, <4>1, ReferencesTell, OneIntentChanges
    <3>3. ASSUME NEW k \in requests, AdmitRecreation(k) \/ RefuseRecreation(k) PROVE EndsNothingOf(Recreations)
      BY <1>0, <3>3, IntentsTell, OneIntentChanges DEF AdmitRecreation, RefuseRecreation, runnerVars
    <3> QED
      BY <1>4, <3>1, <3>2, <3>3 DEF Rotates
  <2> QED
    BY <1>0, <1>c, <1>4, <2>1, <2>2, RotatesActs
<1>5. ASSUME Runner, UNCHANGED runtimeVars PROVE CurrentInv'
  <2>1. EndsNothingOf(Recreations)
    BY <1>0, <1>5, OneIntentChanges DEF Runner, Enqueue, EnqueueFails, TakeJob, RecoverJob, HostBegins,
       WithdrawIntent, ApiStops, ApiStarts, Serve
  <2> QED
    BY <1>c, <1>5, <2>1 DEF runtimeVars, serviceVars, settingVars
<1>6. ASSUME \/ Write /\ UNCHANGED runtimeVars
             \/ Saves \/ Sync
             \/ Studio \/ ScanReadsExpiry \/ KeysAge \/ (\E on \in BOOLEAN : SetAutomatic(on))
             \/ UNCHANGED vars
      PROVE  CurrentInv'
  <2>1. UNCHANGED runnerVars /\ asked' = asked
    BY <1>6 DEF Write, Saves, ReadEnv, ReplaceEnv, SaveFails, Sync, Studio, Promote, FetchKey, PublishKey,
       ScanReadsExpiry, KeysAge, SetAutomatic, vars, runtimeVars, filesAndScript, serviceVars, settingVars
  <2> QED
    BY <1>c, <1>d, <2>1
<1> QED
  BY <1>0, <1>2, <1>3, <1>4, <1>5, <1>6 DEF Next, Operates

\* A recreation that is reported done has put into force all that was saved when it was
\* asked for, whether it got a job of its own or was answered with one that had not begun,
\* whatever fails, is repeated after a restart, or is saved in the meantime; unless the
\* settings were taken out of .env again, by a rotation of the reference or of the keys or
\* by a save that had read it before (project_lifecycle_ops.py, project_backgrounds.py).
THEOREM RecreationsAreCurrent == Spec => []RecreatedIsCurrent
<1>1. Init => CurrentInv
  <2> SUFFICES ASSUME Init PROVE CurrentInv
    OBVIOUS
  <2>1. Services \subseteq Entries
    BY DEF Entries
  <2>2. \A s \in Services : applied[s] = 0 /\ saved[s] = 0
    BY <2>1 DEF Init, ServicesInit, Untouched
  <2>3. \A j \in Recreations : pc[j] = "none" /\ asked[j].job = "none"
    BY RecreationsTell DEF Init, RunnerInit, ServicesInit
  <2> QED
    BY <2>2, <2>3 DEF CurrentInv, ReportIsTrue, AnswerHolds
<1>2. OperationsInv /\ CurrentInv => RecreatedIsCurrent
  <2> SUFFICES ASSUME OperationsInv, CurrentInv, NEW j \in LifecycleJobs,
                      Action[j] = "recreate_services", asked[j].job # "none", job[asked[j].job] = "done",
                      NEW s \in Recreates[j] \ undone
               PROVE  applied[s] >= asked[j].since[s]
    BY DEF RecreatedIsCurrent
  <2>1. j \in Recreations /\ AnswerHolds(j) /\ s \in Services /\ j \in Jobs
    BY RecreationsTell DEF CurrentInv, Recreations
  <2>2. asked[j].since[s] <= applied[s]
    BY <2>1 DEF AnswerHolds, Through
  <2> QED
    BY <2>1, <2>2, SettingsAreNumbers
<1> QED
  BY <1>1, <1>2, NextCurrent, OperationsHold, PTL DEF Spec
=============================================================================
