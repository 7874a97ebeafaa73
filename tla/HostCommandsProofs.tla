------------------------- MODULE HostCommandsProofs -------------------------
(***************************************************************************)
(* Proofs about HostCommands for any intents, projects and agents: the     *)
(* type invariant, the discipline of the advisory locks, that the rows     *)
(* implement CommandLifecycle, and what follows from it; that a final row  *)
(* stays final, that a withdrawn intent was never begun, and that an agent *)
(* never works twice on one target.                                        *)
(***************************************************************************)
EXTENDS HostCommands, TLAPS

-----------------------------------------------------------------------------
(* Types *)

\* The type invariant holds initially.
LEMMA InitTypeOK == Init => TypeOK
  BY DEF Init, TypeOK, Status, ErrorCode

\* The end of a task leaves the types of what it clears.
LEMMA TaskDoneType ==
  ASSUME TypeOK, NEW c \in Commands, TaskDone(c)
  PROVE  /\ task' \in [Commands -> {"none", "validating", "executing", "terminating",
                                    "finishing", "closing"}]
         /\ abort' \in [Commands -> BOOLEAN]
         /\ outcome' \in [Commands -> {"none", "done", "failed"}]
         /\ \A d \in Commands : task'[d] = "finishing" => outcome'[d] # "none"
         /\ busy' \in [Agents -> SUBSET Projects]
<1>1. /\ task' = [task EXCEPT ![c] = "none"]
      /\ outcome' = [outcome EXCEPT ![c] = "none"]
      /\ abort' = [abort EXCEPT ![c] = FALSE]
      /\ busy' = [busy EXCEPT ![worker[c]] = @ \ {Target[c]}]
  BY DEF TaskDone
<1>2. busy' \in [Agents -> SUBSET Projects]
  BY <1>1 DEF TypeOK
<1>3. \A d \in Commands : task'[d] = "finishing" => outcome'[d] # "none"
  BY <1>1 DEF TypeOK
<1> QED
  BY <1>1, <1>2, <1>3 DEF TypeOK

\* The type invariant is kept by every step.
LEMMA NextTypeOK == TypeOK /\ [Next]_vars => TypeOK'
<1> SUFFICES ASSUME TypeOK, [Next]_vars PROVE TypeOK'
  OBVIOUS
<1> USE DEF TypeOK, rowVars, leaseVars, taskVars, Status, ErrorCode, Final, AtWork
<1>1. ASSUME NEW c \in Commands, SubmitCommand(c) PROVE TypeOK'
  BY <1>1 DEF SubmitCommand
<1>2. ASSUME NEW c \in Commands, Reattach(c) PROVE TypeOK'
  BY <1>2 DEF Reattach
<1>3. ASSUME NEW c \in Commands, WaitReturns(c) PROVE TypeOK'
  BY <1>3 DEF WaitReturns
<1>4. ASSUME NEW c \in Commands, WaitQueueTimeout(c) PROVE TypeOK'
  BY <1>4 DEF WaitQueueTimeout, CancelQueued
<1>5. ASSUME NEW c \in Commands, WaitSeesOffline(c) PROVE TypeOK'
  BY <1>5 DEF WaitSeesOffline
<1>6. ASSUME NEW c \in Commands, WaitOffline(c) PROVE TypeOK'
  BY <1>6 DEF WaitOffline, CancelQueued
<1>7. ASSUME NEW c \in Commands, WaitSeesExpiry(c) PROVE TypeOK'
  BY <1>7 DEF WaitSeesExpiry
<1>8. ASSUME NEW c \in Commands, WaitFailExpired(c) PROVE TypeOK'
  BY <1>8 DEF WaitFailExpired, FailRunning
<1>9. ASSUME NEW c \in Commands, WaitRunTimeout(c) PROVE TypeOK'
  BY <1>9 DEF WaitRunTimeout, FailRunning
<1>10. ASSUME NEW c \in Commands, LeaseLapses(c) PROVE TypeOK'
  BY <1>10 DEF LeaseLapses
<1>11. ASSUME NEW c \in Commands, StartHandler(c) PROVE TypeOK'
  BY <1>11 DEF StartHandler
<1>12. ASSUME NEW c \in Commands, RejectCommand(c) PROVE TypeOK'
  <2>1. status' \in [Commands -> Status] /\ errorCode' \in [Commands -> ErrorCode]
    BY <1>12 DEF RejectCommand
  <2> QED
    BY <1>12, <2>1, TaskDoneType DEF RejectCommand
<1>13. ASSUME NEW c \in Commands, Heartbeat(c) PROVE TypeOK'
  <2>1. abort' \in [Commands -> BOOLEAN] /\ lapsed' \in [Commands -> BOOLEAN]
    <3>1. CASE lapsed' = [lapsed EXCEPT ![c] = FALSE] /\ abort' = abort
      BY <3>1
    <3>2. CASE abort' = [abort EXCEPT ![c] = TRUE] /\ lapsed' = lapsed
      BY <3>2
    <3> QED
      BY <1>13, <3>1, <3>2 DEF Heartbeat
  <2> QED
    BY <1>13, <2>1 DEF Heartbeat
<1>14. ASSUME NEW c \in Commands, TerminateProcess(c) PROVE TypeOK'
  BY <1>14 DEF TerminateProcess
<1>15. ASSUME NEW c \in Commands, NEW result \in {"done", "failed"}, HandlerEnds(c, result) PROVE TypeOK'
  BY <1>15 DEF HandlerEnds
<1>16. ASSUME NEW c \in Commands, FinishCommand(c) PROVE TypeOK'
  BY <1>16 DEF FinishCommand, HoldsRow
<1>17. ASSUME NEW c \in Commands, CloseTask(c) PROVE TypeOK'
  BY <1>17, TaskDoneType DEF CloseTask
<1>18. ASSUME NEW c \in Commands, HeartbeatGivesUp(c) PROVE TypeOK'
  BY <1>18 DEF HeartbeatGivesUp
<1>19. ASSUME NEW c \in Commands, TaskFails(c) PROVE TypeOK'
  BY <1>19, TaskDoneType DEF TaskFails
<1>20. ASSUME NEW a \in Agents, StartAgent(a) PROVE TypeOK'
  BY <1>20 DEF StartAgent
<1>21. ASSUME NEW a \in Agents, StopAgent(a) PROVE TypeOK'
  BY <1>21 DEF StopAgent, EndTransaction
<1>22. ASSUME NEW a \in Agents, ExitAgent(a) PROVE TypeOK'
  BY <1>22 DEF ExitAgent, DropTasks
<1>23. ASSUME NEW a \in Agents, CrashAgent(a) PROVE TypeOK'
  BY <1>23 DEF CrashAgent, DropTasks, EndTransaction
<1>24. ASSUME NEW a \in Agents, NEW c \in Commands, LeaseSelect(a, c) PROVE TypeOK'
  BY <1>24, ModelAssumption DEF LeaseSelect
<1>25. ASSUME NEW a \in Agents, NEW p \in Projects, LeaseLock(a, p) PROVE TypeOK'
  BY <1>25 DEF LeaseLock
<1>26. ASSUME NEW a \in Agents, LeaseRecheck(a) PROVE TypeOK'
  BY <1>26 DEF LeaseRecheck, EndTransaction
<1>27. ASSUME NEW a \in Agents, LeaseCommit(a) PROVE TypeOK'
  BY <1>27 DEF LeaseCommit
<1>28. ASSUME NEW a \in Agents, SpawnCommand(a) PROVE TypeOK'
  <2>1. leaseCmd[a] \in Commands
    BY <1>28, ModelAssumption DEF SpawnCommand
  <2>2. Target[leaseCmd[a]] \in Projects
    BY <2>1, ModelAssumption
  <2> QED
    BY <1>28, <2>1, <2>2 DEF SpawnCommand
<1>29. ASSUME NEW a \in Agents, LeaseFails(a) PROVE TypeOK'
  BY <1>29 DEF LeaseFails, EndTransaction
<1>30. ASSUME NEW a \in Agents, ReapLeases(a) PROVE TypeOK'
  BY <1>30 DEF ReapLeases, Lapsed
<1>31. ASSUME ApiRestart PROVE TypeOK'
  BY <1>31 DEF ApiRestart
<1>32. CASE UNCHANGED vars
  BY <1>32 DEF vars
<1> HIDE DEF TypeOK, rowVars, leaseVars, taskVars, Status, ErrorCode, Final, AtWork
<1> QED
  BY <1>1, <1>2, <1>3, <1>4, <1>5, <1>6, <1>7, <1>8, <1>9, <1>10, <1>11,
     <1>12, <1>13, <1>14, <1>15, <1>16, <1>17, <1>18, <1>19, <1>20, <1>21, <1>22,
     <1>23, <1>24, <1>25, <1>26, <1>27, <1>28, <1>29, <1>30, <1>31, <1>32
  DEF Next, WaitStep, TaskStep, TaskFault, ProcessStep, LeaseStep

\* Every variable keeps its type, whatever the constants.
THEOREM TypeCorrect == Spec => []TypeOK
  BY InitTypeOK, NextTypeOK, PTL DEF Spec

\* The projects an intent occupies are projects.
LEMMA ResourcesType == \A c \in Commands : Resources(c) \subseteq Projects
  BY ModelAssumption DEF Resources

-----------------------------------------------------------------------------
(* The advisory locks of the lease transactions *)

NoNewRunning == \A c \in Commands : status'[c] = "running" => status[c] = "running"

\* All that can happen to a lease transaction and to the running rows: an
\* ordinary step touches no lock and starts no row, a transaction ends, or it
\* takes one of its own steps.
LockStep ==
  \/ UNCHANGED leaseVars /\ NoNewRunning
  \/ \E a \in Agents :
       \/ EndTransaction(a) /\ UNCHANGED status
       \/ \E c \in Commands : LeaseSelect(a, c)
       \/ \E p \in Projects : LeaseLock(a, p)
       \/ LeaseRecheck(a) \/ LeaseCommit(a) \/ SpawnCommand(a)

\* Every step is one of those.
LEMMA NextLockStep == TypeOK /\ [Next]_vars => LockStep
<1> SUFFICES ASSUME TypeOK, [Next]_vars PROVE LockStep
  OBVIOUS
<1>1. ASSUME NEW c \in Commands, SubmitCommand(c) PROVE LockStep
  BY <1>1 DEF SubmitCommand, LockStep, NoNewRunning, TypeOK, rowVars, leaseVars
<1>2. ASSUME NEW c \in Commands, Reattach(c) PROVE LockStep
  BY <1>2 DEF Reattach, LockStep, NoNewRunning, TypeOK, rowVars, leaseVars
<1>3. ASSUME NEW c \in Commands, WaitReturns(c) PROVE LockStep
  BY <1>3 DEF WaitReturns, LockStep, NoNewRunning, TypeOK, rowVars, leaseVars
<1>4. ASSUME NEW c \in Commands, WaitQueueTimeout(c) PROVE LockStep
  BY <1>4 DEF WaitQueueTimeout, CancelQueued, LockStep, NoNewRunning, TypeOK, rowVars, leaseVars
<1>5. ASSUME NEW c \in Commands, WaitSeesOffline(c) PROVE LockStep
  BY <1>5 DEF WaitSeesOffline, LockStep, NoNewRunning, TypeOK, rowVars, leaseVars
<1>6. ASSUME NEW c \in Commands, WaitOffline(c) PROVE LockStep
  BY <1>6 DEF WaitOffline, CancelQueued, LockStep, NoNewRunning, TypeOK, rowVars, leaseVars
<1>7. ASSUME NEW c \in Commands, WaitSeesExpiry(c) PROVE LockStep
  BY <1>7 DEF WaitSeesExpiry, LockStep, NoNewRunning, TypeOK, rowVars, leaseVars
<1>8. ASSUME NEW c \in Commands, WaitFailExpired(c) PROVE LockStep
  BY <1>8 DEF WaitFailExpired, FailRunning, LockStep, NoNewRunning, TypeOK, rowVars, leaseVars
<1>9. ASSUME NEW c \in Commands, WaitRunTimeout(c) PROVE LockStep
  BY <1>9 DEF WaitRunTimeout, FailRunning, LockStep, NoNewRunning, TypeOK, rowVars, leaseVars
<1>10. ASSUME NEW c \in Commands, LeaseLapses(c) PROVE LockStep
  BY <1>10 DEF LeaseLapses, LockStep, NoNewRunning, TypeOK, rowVars, leaseVars
<1>11. ASSUME NEW c \in Commands, StartHandler(c) PROVE LockStep
  BY <1>11 DEF StartHandler, LockStep, NoNewRunning, TypeOK, rowVars, leaseVars
<1>12. ASSUME NEW c \in Commands, RejectCommand(c) PROVE LockStep
  BY <1>12 DEF RejectCommand, TaskDone, HoldsRow, LockStep, NoNewRunning, TypeOK, rowVars, leaseVars
<1>13. ASSUME NEW c \in Commands, Heartbeat(c) PROVE LockStep
  BY <1>13 DEF Heartbeat, HoldsRow, LockStep, NoNewRunning, TypeOK, rowVars, leaseVars
<1>14. ASSUME NEW c \in Commands, TerminateProcess(c) PROVE LockStep
  BY <1>14 DEF TerminateProcess, LockStep, NoNewRunning, TypeOK, rowVars, leaseVars
<1>15. ASSUME NEW c \in Commands, NEW result \in {"done", "failed"}, HandlerEnds(c, result) PROVE LockStep
  BY <1>15 DEF HandlerEnds, LockStep, NoNewRunning, TypeOK, rowVars, leaseVars
<1>16. ASSUME NEW c \in Commands, FinishCommand(c) PROVE LockStep
  BY <1>16 DEF FinishCommand, HoldsRow, LockStep, NoNewRunning, TypeOK, rowVars, leaseVars
<1>17. ASSUME NEW c \in Commands, CloseTask(c) PROVE LockStep
  BY <1>17 DEF CloseTask, TaskDone, LockStep, NoNewRunning, TypeOK, rowVars, leaseVars
<1>18. ASSUME NEW c \in Commands, HeartbeatGivesUp(c) PROVE LockStep
  BY <1>18 DEF HeartbeatGivesUp, LockStep, NoNewRunning, TypeOK, rowVars, leaseVars
<1>19. ASSUME NEW c \in Commands, TaskFails(c) PROVE LockStep
  BY <1>19 DEF TaskFails, TaskDone, LockStep, NoNewRunning, TypeOK, rowVars, leaseVars
<1>20. ASSUME NEW a \in Agents, StartAgent(a) PROVE LockStep
  BY <1>20 DEF StartAgent, LockStep, NoNewRunning, TypeOK, rowVars, leaseVars
<1>21. ASSUME NEW a \in Agents, StopAgent(a) PROVE LockStep
  BY <1>21 DEF StopAgent, LockStep, rowVars
<1>22. ASSUME NEW a \in Agents, ExitAgent(a) PROVE LockStep
  BY <1>22 DEF ExitAgent, DropTasks, LockStep, NoNewRunning, TypeOK, rowVars, leaseVars
<1>23. ASSUME NEW a \in Agents, CrashAgent(a) PROVE LockStep
  BY <1>23 DEF CrashAgent, LockStep, rowVars
<1>24. ASSUME NEW a \in Agents, NEW c \in Commands, LeaseSelect(a, c) PROVE LockStep
  BY <1>24 DEF LockStep
<1>25. ASSUME NEW a \in Agents, NEW p \in Projects, LeaseLock(a, p) PROVE LockStep
  BY <1>25 DEF LockStep
<1>26. ASSUME NEW a \in Agents, LeaseRecheck(a) PROVE LockStep
  BY <1>26 DEF LockStep
<1>27. ASSUME NEW a \in Agents, LeaseCommit(a) PROVE LockStep
  BY <1>27 DEF LockStep
<1>28. ASSUME NEW a \in Agents, SpawnCommand(a) PROVE LockStep
  BY <1>28 DEF LockStep
<1>29. ASSUME NEW a \in Agents, LeaseFails(a) PROVE LockStep
  BY <1>29 DEF LeaseFails, LockStep, rowVars
<1>30. ASSUME NEW a \in Agents, ReapLeases(a) PROVE LockStep
  BY <1>30 DEF ReapLeases, Lapsed, LockStep, NoNewRunning, TypeOK, rowVars, leaseVars
<1>31. ASSUME ApiRestart PROVE LockStep
  BY <1>31 DEF ApiRestart, LockStep, NoNewRunning, TypeOK, rowVars, leaseVars
<1>32. CASE UNCHANGED vars
  BY <1>32 DEF vars, LockStep, NoNewRunning, TypeOK, rowVars, leaseVars
<1> QED
  BY <1>1, <1>2, <1>3, <1>4, <1>5, <1>6, <1>7, <1>8, <1>9, <1>10, <1>11,
     <1>12, <1>13, <1>14, <1>15, <1>16, <1>17, <1>18, <1>19, <1>20, <1>21, <1>22,
     <1>23, <1>24, <1>25, <1>26, <1>27, <1>28, <1>29, <1>30, <1>31, <1>32
  DEF Next, WaitStep, TaskStep, TaskFault, ProcessStep, LeaseStep

\* What the end of a transaction changes, and what it leaves to the others.
LEMMA EndOfTransaction ==
  ASSUME TypeOK, NEW a \in Agents, EndTransaction(a)
  PROVE  /\ leasePc'[a] = "idle"
         /\ \A b \in Agents \ {a} : leasePc'[b] = leasePc[b] /\ leaseCmd'[b] = leaseCmd[b]
         /\ \A p \in Projects : advisory'[p] # a
         /\ \A p \in Projects, b \in Agents \ {a} : advisory'[p] = b <=> advisory[p] = b
  BY ModelAssumption DEF TypeOK, EndTransaction

\* A lock belongs to a transaction that is open and needs it.
HeldLocks == \A a \in Agents, p \in Projects :
  advisory[p] = a => leasePc[a] \in {"locking", "clear"} /\ p \in Resources(leaseCmd[a])

\* A transaction that is still locking holds the smallest of its resources.
InOrder == \A a \in Agents : leasePc[a] = "locking" =>
  \A p, q \in Resources(leaseCmd[a]) : advisory[p] = a /\ advisory[q] # a => p < q

\* A transaction about to commit holds all its locks, and what its second look
\* found is still true: nobody runs on its resources.
ClearToRun == \A a \in Agents : leasePc[a] = "clear" =>
  /\ \A p \in Resources(leaseCmd[a]) : advisory[p] = a
  /\ ~RunningNextTo(leaseCmd[a])

\* Every step leaves the advisory locks with transactions that asked for them.
LEMMA NextHeldLocks == TypeOK /\ HeldLocks /\ LockStep => HeldLocks'
<1> SUFFICES ASSUME TypeOK, HeldLocks, LockStep PROVE HeldLocks'
  OBVIOUS
<1> USE DEF HeldLocks
<1>1. CASE UNCHANGED leaseVars
  BY <1>1 DEF leaseVars
<1>2. ASSUME NEW a \in Agents, EndTransaction(a) PROVE HeldLocks'
  BY <1>2, EndOfTransaction
<1>3. ASSUME NEW a \in Agents, NEW c \in Commands, LeaseSelect(a, c) PROVE HeldLocks'
  BY <1>3 DEF LeaseSelect, TypeOK
<1>4. ASSUME NEW a \in Agents, NEW p \in Projects, LeaseLock(a, p) PROVE HeldLocks'
  BY <1>4 DEF LeaseLock, NextLock, Unlocked, TypeOK
<1>5. ASSUME NEW a \in Agents, LeaseRecheck(a) PROVE HeldLocks'
  BY <1>5, EndOfTransaction DEF LeaseRecheck, TypeOK
<1>6. ASSUME NEW a \in Agents, LeaseCommit(a) PROVE HeldLocks'
  BY <1>6, ModelAssumption DEF LeaseCommit, TypeOK
<1>7. ASSUME NEW a \in Agents, SpawnCommand(a) PROVE HeldLocks'
  BY <1>7 DEF SpawnCommand, TypeOK
<1> QED
  BY <1>1, <1>2, <1>3, <1>4, <1>5, <1>6, <1>7 DEF LockStep

\* A transaction that ends leaves the others in order.
LEMMA EndKeepsOrder ==
  ASSUME TypeOK, InOrder, NEW a \in Agents, EndTransaction(a) PROVE InOrder'
<1> SUFFICES ASSUME NEW b \in Agents, leasePc'[b] = "locking",
                    NEW p \in Resources(leaseCmd'[b]), NEW q \in Resources(leaseCmd'[b]),
                    advisory'[p] = b, advisory'[q] # b
             PROVE  p < q
  BY DEF InOrder
<1>1. b # a
  BY EndOfTransaction
<1>2. leasePc[b] = "locking" /\ leaseCmd'[b] = leaseCmd[b] /\ leaseCmd[b] \in Commands
  BY <1>1, EndOfTransaction DEF TypeOK
<1>3. p \in Projects /\ q \in Projects
  BY <1>2, ResourcesType
<1>4. advisory[p] = b /\ advisory[q] # b
  BY <1>1, <1>3, EndOfTransaction
<1> QED
  BY <1>2, <1>4 DEF InOrder

\* Every step keeps the locks taken smallest first.
LEMMA NextInOrder == TypeOK /\ HeldLocks /\ InOrder /\ LockStep => InOrder'
<1> SUFFICES ASSUME TypeOK, HeldLocks, InOrder, LockStep PROVE InOrder'
  OBVIOUS
<1>1. CASE UNCHANGED leaseVars
  BY <1>1 DEF leaseVars, InOrder
<1>2. ASSUME NEW a \in Agents, EndTransaction(a) PROVE InOrder'
  BY <1>2, EndKeepsOrder
<1>3. ASSUME NEW a \in Agents, NEW c \in Commands, LeaseSelect(a, c) PROVE InOrder'
  <2>1. \A q \in Projects : advisory'[q] # a
    BY <1>3 DEF LeaseSelect, HeldLocks
  <2>2. \A q \in Resources(c) : q \in Projects
    BY ResourcesType
  <2>3. /\ leaseCmd'[a] = c
        /\ \A b \in Agents \ {a} : leasePc'[b] = leasePc[b] /\ leaseCmd'[b] = leaseCmd[b]
        /\ UNCHANGED advisory
    BY <1>3 DEF LeaseSelect, TypeOK
  <2> QED
    BY <2>1, <2>2, <2>3 DEF InOrder
<1>4. ASSUME NEW a \in Agents, NEW p \in Projects, LeaseLock(a, p) PROVE InOrder'
  BY <1>4, ResourcesType, ModelAssumption DEF LeaseLock, NextLock, Unlocked, TypeOK, InOrder
<1>5. ASSUME NEW a \in Agents, LeaseRecheck(a) PROVE InOrder'
  <2>1. CASE EndTransaction(a)
    BY <2>1, EndKeepsOrder
  <2>2. CASE ~EndTransaction(a)
    BY <1>5, <2>2 DEF LeaseRecheck, TypeOK, InOrder
  <2> QED
    BY <2>1, <2>2
<1>6. ASSUME NEW a \in Agents, LeaseCommit(a) PROVE InOrder'
  <2>1. \A b \in Agents : leasePc'[b] = "locking" =>
          b # a /\ leasePc[b] = "locking" /\ leaseCmd[b] \in Commands
    BY <1>6 DEF LeaseCommit, TypeOK
  <2>2. \A b \in Agents \ {a}, p \in Projects : advisory'[p] = b <=> advisory[p] = b
    BY <1>6, ModelAssumption DEF LeaseCommit, TypeOK
  <2>3. UNCHANGED leaseCmd
    BY <1>6 DEF LeaseCommit
  <2> QED
    BY <2>1, <2>2, <2>3, ResourcesType DEF InOrder
<1>7. ASSUME NEW a \in Agents, SpawnCommand(a) PROVE InOrder'
  BY <1>7 DEF SpawnCommand, TypeOK, InOrder
<1> QED
  BY <1>1, <1>2, <1>3, <1>4, <1>5, <1>6, <1>7 DEF LockStep

\* A transaction that ends leaves the others their locks and their recheck.
LEMMA EndKeepsClear ==
  ASSUME TypeOK, ClearToRun, NEW a \in Agents, EndTransaction(a), UNCHANGED status
  PROVE  ClearToRun'
<1> SUFFICES ASSUME NEW b \in Agents, leasePc'[b] = "clear"
             PROVE  /\ \A p \in Resources(leaseCmd'[b]) : advisory'[p] = b
                    /\ ~RunningNextTo(leaseCmd[b])'
  BY DEF ClearToRun
<1>1. b # a
  BY EndOfTransaction
<1>2. leasePc[b] = "clear" /\ leaseCmd'[b] = leaseCmd[b] /\ leaseCmd[b] \in Commands
  BY <1>1, EndOfTransaction DEF TypeOK
<1>3. \A p \in Resources(leaseCmd[b]) : p \in Projects /\ advisory[p] = b
  BY <1>2, ResourcesType DEF ClearToRun
<1>4. \A p \in Resources(leaseCmd[b]) : advisory'[p] = b
  BY <1>1, <1>3, EndOfTransaction
<1>5. ~RunningNextTo(leaseCmd[b])'
  BY <1>2 DEF ClearToRun, RunningNextTo
<1> QED
  BY <1>2, <1>4, <1>5

\* LeaseCommit by another agent is the step that could break ClearToRun: the
\* locks that both would have to hold forbid it.
LEMMA NextClearToRun == TypeOK /\ HeldLocks /\ ClearToRun /\ LockStep => ClearToRun'
<1> SUFFICES ASSUME TypeOK, HeldLocks, ClearToRun, LockStep PROVE ClearToRun'
  OBVIOUS
<1>1. CASE UNCHANGED leaseVars /\ NoNewRunning
  BY <1>1 DEF leaseVars, NoNewRunning, ClearToRun, RunningNextTo
<1>2. ASSUME NEW a \in Agents, EndTransaction(a), UNCHANGED status PROVE ClearToRun'
  BY <1>2, EndKeepsClear
<1>3. ASSUME NEW a \in Agents, NEW c \in Commands, LeaseSelect(a, c) PROVE ClearToRun'
  BY <1>3 DEF LeaseSelect, rowVars, TypeOK, ClearToRun, RunningNextTo
<1>4. ASSUME NEW a \in Agents, NEW p \in Projects, LeaseLock(a, p) PROVE ClearToRun'
  <2>1. UNCHANGED <<leasePc, leaseCmd, status>>
    BY <1>4 DEF LeaseLock, rowVars
  <2>2. \A b \in Agents, q \in Projects : advisory[q] = b => advisory'[q] = b
    BY <1>4, ModelAssumption DEF LeaseLock, TypeOK
  <2>3. \A b \in Agents : leasePc[b] = "clear" => leaseCmd[b] \in Commands
    BY DEF TypeOK
  <2> QED
    BY <2>1, <2>2, <2>3, ResourcesType DEF ClearToRun, RunningNextTo
<1>5. ASSUME NEW a \in Agents, LeaseRecheck(a) PROVE ClearToRun'
  <2>1. CASE RunningNextTo(leaseCmd[a])
    BY <1>5, <2>1, EndKeepsClear DEF LeaseRecheck, rowVars
  <2>2. CASE ~RunningNextTo(leaseCmd[a])
    <3>1. \A p \in Resources(leaseCmd[a]) : advisory[p] = a
      BY <1>5 DEF LeaseRecheck, Unlocked
    <3>2. leasePc' = [leasePc EXCEPT ![a] = "clear"] /\ UNCHANGED <<leaseCmd, advisory, status>>
      BY <1>5, <2>2 DEF LeaseRecheck, rowVars
    <3> QED
      BY <2>2, <3>1, <3>2 DEF ClearToRun, RunningNextTo, TypeOK
  <2> QED
    BY <2>1, <2>2
<1>6. ASSUME NEW a \in Agents, LeaseCommit(a) PROVE ClearToRun'
  <2> DEFINE c == leaseCmd[a]
  <2> SUFFICES ASSUME NEW b \in Agents, leasePc'[b] = "clear"
               PROVE  /\ \A p \in Resources(leaseCmd'[b]) : advisory'[p] = b
                      /\ ~RunningNextTo(leaseCmd[b])'
    BY DEF ClearToRun
  <2>1. c \in Commands /\ UNCHANGED leaseCmd
    BY <1>6 DEF LeaseCommit, TypeOK
  <2>2. b # a /\ leasePc[b] = "clear" /\ leaseCmd[b] \in Commands
    BY <1>6 DEF LeaseCommit, TypeOK
  <2>3. \A p \in Resources(leaseCmd[b]) : p \in Projects /\ advisory[p] = b
    BY <2>2, ResourcesType DEF ClearToRun
  <2>4. \A p \in Resources(leaseCmd[b]) : advisory'[p] = b
    BY <1>6, <2>2, <2>3 DEF LeaseCommit
  <2>5. \A p \in Resources(c) : advisory[p] = a
    BY <1>6 DEF LeaseCommit, ClearToRun
  <2>6. ~Overlap(c, leaseCmd[b])
    BY <2>2, <2>3, <2>5 DEF Overlap
  <2>7. \A d \in Commands : status'[d] = "running" => status[d] = "running" \/ d = c
    BY <1>6 DEF LeaseCommit, TypeOK
  <2>8. ~RunningNextTo(leaseCmd[b])
    BY <2>2 DEF ClearToRun
  <2>9. ~RunningNextTo(leaseCmd[b])'
    BY <2>1, <2>6, <2>7, <2>8 DEF RunningNextTo, Overlap
  <2> QED
    BY <2>1, <2>4, <2>9
<1>7. ASSUME NEW a \in Agents, SpawnCommand(a) PROVE ClearToRun'
  BY <1>7 DEF SpawnCommand, rowVars, TypeOK, ClearToRun, RunningNextTo
<1> QED
  BY <1>1, <1>2, <1>3, <1>4, <1>5, <1>6, <1>7 DEF LockStep

Locks == TypeOK /\ HeldLocks /\ InOrder /\ ClearToRun

\* The discipline of the lease transactions holds in every behaviour.
THEOREM LockDiscipline == Spec => []Locks
<1>1. Init => Locks
  <2>1. Init => HeldLocks /\ InOrder /\ ClearToRun
    BY ModelAssumption DEF Init, HeldLocks, InOrder, ClearToRun
  <2> QED
    BY <2>1, InitTypeOK DEF Locks
<1>2. Locks /\ [Next]_vars => Locks'
  BY NextTypeOK, NextLockStep, NextHeldLocks, NextInOrder, NextClearToRun DEF Locks
<1> QED
  BY <1>1, <1>2, PTL DEF Spec

\* Lease transactions never wait for each other: what each still needs is
\* larger than all it holds, so one of two would need a smaller lock than it has.
THEOREM LeasesNeverDeadlock == Spec => []NoLockCycle
<1>1. Locks => NoLockCycle
  <2> SUFFICES ASSUME Locks, NEW a \in Agents, NEW b \in Agents, a # b,
                      WaitsFor(a, b), WaitsFor(b, a)
               PROVE  FALSE
    BY DEF NoLockCycle
  <2>1. PICK p \in Projects : NextLock(a, p) /\ advisory[p] = b
    BY DEF WaitsFor
  <2>2. PICK q \in Projects : NextLock(b, q) /\ advisory[q] = a
    BY DEF WaitsFor
  <2>3. q < p
    BY <2>1, <2>2 DEF Locks, HeldLocks, InOrder, WaitsFor, NextLock, Unlocked
  <2>4. p < q
    BY <2>1, <2>2 DEF Locks, HeldLocks, InOrder, WaitsFor, NextLock, Unlocked
  <2> QED
    BY <2>3, <2>4, ModelAssumption
<1> QED
  BY <1>1, LockDiscipline, PTL

-----------------------------------------------------------------------------
(* The rows implement CommandLifecycle *)

\* Every step of the queue is a step of the lifecycle, or leaves it alone.
LEMMA NextLifecycle == TypeOK /\ ClearToRun /\ [Next]_vars => [Lifecycle!Next]_status
<1> SUFFICES ASSUME TypeOK, ClearToRun, [Next]_vars PROVE [Lifecycle!Next]_status
  OBVIOUS
<1>1. ASSUME NEW c \in Commands, SubmitCommand(c) PROVE [Lifecycle!Next]_status
  BY <1>1 DEF SubmitCommand, Lifecycle!Next, Lifecycle!Accept
<1>2. ASSUME NEW c \in Commands, Reattach(c) PROVE [Lifecycle!Next]_status
  BY <1>2 DEF Reattach, rowVars
<1>3. ASSUME NEW c \in Commands, WaitReturns(c) PROVE [Lifecycle!Next]_status
  BY <1>3 DEF WaitReturns, rowVars
<1>4. ASSUME NEW c \in Commands, WaitQueueTimeout(c) PROVE [Lifecycle!Next]_status
  BY <1>4 DEF WaitQueueTimeout, CancelQueued, Lifecycle!Next, Lifecycle!Withdraw
<1>5. ASSUME NEW c \in Commands, WaitSeesOffline(c) PROVE [Lifecycle!Next]_status
  BY <1>5 DEF WaitSeesOffline, rowVars
<1>6. ASSUME NEW c \in Commands, WaitOffline(c) PROVE [Lifecycle!Next]_status
  BY <1>6 DEF WaitOffline, CancelQueued, Lifecycle!Next, Lifecycle!Withdraw
<1>7. ASSUME NEW c \in Commands, WaitSeesExpiry(c) PROVE [Lifecycle!Next]_status
  BY <1>7 DEF WaitSeesExpiry, rowVars
<1>8. ASSUME NEW c \in Commands, WaitFailExpired(c) PROVE [Lifecycle!Next]_status
  <2>1. CASE status[c] = "running"
    <3>1. Lifecycle!Fail({c})
      BY <1>8, <2>1 DEF WaitFailExpired, FailRunning, Lifecycle!Fail, TypeOK
    <3> QED
      BY <3>1 DEF Lifecycle!Next
  <2>2. CASE status[c] # "running"
    BY <1>8, <2>2 DEF WaitFailExpired, FailRunning
  <2> QED
    BY <2>1, <2>2
<1>9. ASSUME NEW c \in Commands, WaitRunTimeout(c) PROVE [Lifecycle!Next]_status
  <2>1. CASE status[c] = "running"
    <3>1. Lifecycle!Fail({c})
      BY <1>9, <2>1 DEF WaitRunTimeout, FailRunning, Lifecycle!Fail, TypeOK
    <3> QED
      BY <3>1 DEF Lifecycle!Next
  <2>2. CASE status[c] # "running"
    BY <1>9, <2>2 DEF WaitRunTimeout, FailRunning
  <2> QED
    BY <2>1, <2>2
<1>10. ASSUME NEW c \in Commands, LeaseLapses(c) PROVE [Lifecycle!Next]_status
  BY <1>10 DEF LeaseLapses, rowVars
<1>11. ASSUME NEW c \in Commands, StartHandler(c) PROVE [Lifecycle!Next]_status
  BY <1>11 DEF StartHandler, rowVars
<1>12. ASSUME NEW c \in Commands, RejectCommand(c) PROVE [Lifecycle!Next]_status
  <2>1. CASE status[c] = "running"
    <3>1. Lifecycle!Fail({c})
      BY <1>12, <2>1 DEF RejectCommand, HoldsRow, Lifecycle!Fail, TypeOK
    <3> QED
      BY <3>1 DEF Lifecycle!Next
  <2>2. CASE status[c] # "running"
    BY <1>12, <2>2 DEF RejectCommand, HoldsRow
  <2> QED
    BY <2>1, <2>2
<1>13. ASSUME NEW c \in Commands, Heartbeat(c) PROVE [Lifecycle!Next]_status
  BY <1>13 DEF Heartbeat, HoldsRow, rowVars
<1>14. ASSUME NEW c \in Commands, TerminateProcess(c) PROVE [Lifecycle!Next]_status
  BY <1>14 DEF TerminateProcess, rowVars
<1>15. ASSUME NEW c \in Commands, NEW result \in {"done", "failed"}, HandlerEnds(c, result) PROVE [Lifecycle!Next]_status
  BY <1>15 DEF HandlerEnds, rowVars
<1>16. ASSUME NEW c \in Commands, FinishCommand(c) PROVE [Lifecycle!Next]_status
  <2>1. CASE status[c] = "running" /\ outcome[c] = "done"
    BY <1>16, <2>1 DEF FinishCommand, HoldsRow, Lifecycle!Next, Lifecycle!Succeed
  <2>2. CASE status[c] = "running" /\ outcome[c] = "failed"
    <3>1. Lifecycle!Fail({c})
      BY <1>16, <2>2 DEF FinishCommand, HoldsRow, Lifecycle!Fail, TypeOK
    <3> QED
      BY <3>1 DEF Lifecycle!Next
  <2>3. CASE status[c] # "running"
    BY <1>16, <2>3 DEF FinishCommand, HoldsRow
  <2> QED
    BY <1>16, <2>1, <2>2, <2>3 DEF FinishCommand, TypeOK
<1>17. ASSUME NEW c \in Commands, CloseTask(c) PROVE [Lifecycle!Next]_status
  BY <1>17 DEF CloseTask, TaskDone, rowVars
<1>18. ASSUME NEW c \in Commands, HeartbeatGivesUp(c) PROVE [Lifecycle!Next]_status
  BY <1>18 DEF HeartbeatGivesUp, rowVars
<1>19. ASSUME NEW c \in Commands, TaskFails(c) PROVE [Lifecycle!Next]_status
  BY <1>19 DEF TaskFails, TaskDone, rowVars
<1>20. ASSUME NEW a \in Agents, StartAgent(a) PROVE [Lifecycle!Next]_status
  BY <1>20 DEF StartAgent, rowVars
<1>21. ASSUME NEW a \in Agents, StopAgent(a) PROVE [Lifecycle!Next]_status
  BY <1>21 DEF StopAgent, EndTransaction, rowVars
<1>22. ASSUME NEW a \in Agents, ExitAgent(a) PROVE [Lifecycle!Next]_status
  BY <1>22 DEF ExitAgent, DropTasks, rowVars
<1>23. ASSUME NEW a \in Agents, CrashAgent(a) PROVE [Lifecycle!Next]_status
  BY <1>23 DEF CrashAgent, DropTasks, EndTransaction, rowVars
<1>24. ASSUME NEW a \in Agents, NEW c \in Commands, LeaseSelect(a, c) PROVE [Lifecycle!Next]_status
  BY <1>24 DEF LeaseSelect, rowVars
<1>25. ASSUME NEW a \in Agents, NEW p \in Projects, LeaseLock(a, p) PROVE [Lifecycle!Next]_status
  BY <1>25 DEF LeaseLock, rowVars
<1>26. ASSUME NEW a \in Agents, LeaseRecheck(a) PROVE [Lifecycle!Next]_status
  BY <1>26 DEF LeaseRecheck, EndTransaction, rowVars
<1>27. ASSUME NEW a \in Agents, LeaseCommit(a) PROVE [Lifecycle!Next]_status
  <2>1. leaseCmd[a] \in Commands /\ ~RunningNextTo(leaseCmd[a])
    BY <1>27 DEF LeaseCommit, TypeOK, ClearToRun
  <2>2. Lifecycle!Begin(leaseCmd[a])
    BY <1>27, <2>1 DEF LeaseCommit, Lifecycle!Begin, RunningNextTo, Overlap, Lifecycle!Overlap
  <2> QED
    BY <2>1, <2>2 DEF Lifecycle!Next
<1>28. ASSUME NEW a \in Agents, SpawnCommand(a) PROVE [Lifecycle!Next]_status
  BY <1>28 DEF SpawnCommand, rowVars
<1>29. ASSUME NEW a \in Agents, LeaseFails(a) PROVE [Lifecycle!Next]_status
  BY <1>29 DEF LeaseFails, EndTransaction, rowVars
<1>30. ASSUME NEW a \in Agents, ReapLeases(a) PROVE [Lifecycle!Next]_status
  <2>1. Lifecycle!Fail(Lapsed)
    BY <1>30 DEF ReapLeases, Lapsed, Lifecycle!Fail
  <2>2. Lapsed \in SUBSET Commands
    BY DEF Lapsed
  <2> QED
    BY <2>1, <2>2 DEF Lifecycle!Next
<1>31. ASSUME ApiRestart PROVE [Lifecycle!Next]_status
  BY <1>31 DEF ApiRestart, rowVars
<1>32. CASE UNCHANGED vars
  BY <1>32 DEF vars, rowVars
<1> QED
  BY <1>1, <1>2, <1>3, <1>4, <1>5, <1>6, <1>7, <1>8, <1>9, <1>10, <1>11,
     <1>12, <1>13, <1>14, <1>15, <1>16, <1>17, <1>18, <1>19, <1>20, <1>21, <1>22,
     <1>23, <1>24, <1>25, <1>26, <1>27, <1>28, <1>29, <1>30, <1>31, <1>32
  DEF Next, WaitStep, TaskStep, TaskFault, ProcessStep, LeaseStep

\* Whatever agents, waiters, reapers and faults do, the jobs see the lifecycle.
THEOREM ImplementsLifecycle == Spec => LifecycleSpec
<1>1. Init => Lifecycle!Init
  BY DEF Init, Lifecycle!Init
<1>2. Locks /\ [Next]_vars => [Lifecycle!Next]_status
  BY NextLifecycle DEF Locks
<1> QED
  BY <1>1, <1>2, LockDiscipline, PTL DEF Spec, LifecycleSpec, Lifecycle!Spec

\* The lifecycle keeps running rows apart: only Begin starts one, and it looks.
LEMMA LifecycleExclusive ==
  ASSUME TypeOK, RunningExclusive, [Lifecycle!Next]_status PROVE RunningExclusive'
<1> USE DEF RunningExclusive, Overlap
<1>1. ASSUME NEW c \in Commands, Lifecycle!Accept(c) PROVE RunningExclusive'
  BY <1>1 DEF Lifecycle!Accept, TypeOK
<1>2. ASSUME NEW c \in Commands, Lifecycle!Begin(c) PROVE RunningExclusive'
  BY <1>2 DEF Lifecycle!Begin, Lifecycle!Overlap, TypeOK
<1>3. ASSUME NEW c \in Commands, Lifecycle!Withdraw(c) PROVE RunningExclusive'
  BY <1>3 DEF Lifecycle!Withdraw, TypeOK
<1>4. ASSUME NEW c \in Commands, Lifecycle!Succeed(c) PROVE RunningExclusive'
  BY <1>4 DEF Lifecycle!Succeed, TypeOK
<1>5. ASSUME NEW S \in SUBSET Commands, Lifecycle!Fail(S) PROVE RunningExclusive'
  BY <1>5 DEF Lifecycle!Fail
<1>6. CASE UNCHANGED status
  BY <1>6
<1> QED
  BY <1>1, <1>2, <1>3, <1>4, <1>5, <1>6 DEF Lifecycle!Next

\* Two running rows never share a project.
THEOREM Exclusive == Spec => []RunningExclusive
<1>1. Init => RunningExclusive
  BY DEF Init, RunningExclusive
<1>2. Locks /\ RunningExclusive /\ [Next]_vars => RunningExclusive'
  BY NextLifecycle, LifecycleExclusive DEF Locks
<1> QED
  BY <1>1, <1>2, LockDiscipline, PTL DEF Spec

-----------------------------------------------------------------------------
(* Final rows *)

FinalKept == \A c \in Commands : status[c] \in Final =>
               status'[c] = status[c] /\ errorCode'[c] = errorCode[c]

\* No step writes a final row: every UPDATE tests the status it replaces.
LEMMA NextFinalKept == TypeOK /\ [Next]_vars => FinalKept
<1> SUFFICES ASSUME TypeOK, [Next]_vars PROVE FinalKept
  OBVIOUS
<1> USE DEF FinalKept, TypeOK, Final, rowVars
<1>1. ASSUME NEW c \in Commands, SubmitCommand(c) PROVE FinalKept
  BY <1>1 DEF SubmitCommand
<1>2. ASSUME NEW c \in Commands, Reattach(c) PROVE FinalKept
  BY <1>2 DEF Reattach
<1>3. ASSUME NEW c \in Commands, WaitReturns(c) PROVE FinalKept
  BY <1>3 DEF WaitReturns
<1>4. ASSUME NEW c \in Commands, WaitQueueTimeout(c) PROVE FinalKept
  BY <1>4 DEF WaitQueueTimeout, CancelQueued
<1>5. ASSUME NEW c \in Commands, WaitSeesOffline(c) PROVE FinalKept
  BY <1>5 DEF WaitSeesOffline
<1>6. ASSUME NEW c \in Commands, WaitOffline(c) PROVE FinalKept
  BY <1>6 DEF WaitOffline, CancelQueued
<1>7. ASSUME NEW c \in Commands, WaitSeesExpiry(c) PROVE FinalKept
  BY <1>7 DEF WaitSeesExpiry
<1>8. ASSUME NEW c \in Commands, WaitFailExpired(c) PROVE FinalKept
  BY <1>8 DEF WaitFailExpired, FailRunning
<1>9. ASSUME NEW c \in Commands, WaitRunTimeout(c) PROVE FinalKept
  BY <1>9 DEF WaitRunTimeout, FailRunning
<1>10. ASSUME NEW c \in Commands, LeaseLapses(c) PROVE FinalKept
  BY <1>10 DEF LeaseLapses
<1>11. ASSUME NEW c \in Commands, StartHandler(c) PROVE FinalKept
  BY <1>11 DEF StartHandler
<1>12. ASSUME NEW c \in Commands, RejectCommand(c) PROVE FinalKept
  BY <1>12 DEF RejectCommand, TaskDone, HoldsRow
<1>13. ASSUME NEW c \in Commands, Heartbeat(c) PROVE FinalKept
  BY <1>13 DEF Heartbeat, HoldsRow
<1>14. ASSUME NEW c \in Commands, TerminateProcess(c) PROVE FinalKept
  BY <1>14 DEF TerminateProcess
<1>15. ASSUME NEW c \in Commands, NEW result \in {"done", "failed"}, HandlerEnds(c, result) PROVE FinalKept
  BY <1>15 DEF HandlerEnds
<1>16. ASSUME NEW c \in Commands, FinishCommand(c) PROVE FinalKept
  BY <1>16 DEF FinishCommand, HoldsRow
<1>17. ASSUME NEW c \in Commands, CloseTask(c) PROVE FinalKept
  BY <1>17 DEF CloseTask, TaskDone
<1>18. ASSUME NEW c \in Commands, HeartbeatGivesUp(c) PROVE FinalKept
  BY <1>18 DEF HeartbeatGivesUp
<1>19. ASSUME NEW c \in Commands, TaskFails(c) PROVE FinalKept
  BY <1>19 DEF TaskFails, TaskDone
<1>20. ASSUME NEW a \in Agents, StartAgent(a) PROVE FinalKept
  BY <1>20 DEF StartAgent
<1>21. ASSUME NEW a \in Agents, StopAgent(a) PROVE FinalKept
  BY <1>21 DEF StopAgent, EndTransaction
<1>22. ASSUME NEW a \in Agents, ExitAgent(a) PROVE FinalKept
  BY <1>22 DEF ExitAgent, DropTasks
<1>23. ASSUME NEW a \in Agents, CrashAgent(a) PROVE FinalKept
  BY <1>23 DEF CrashAgent, DropTasks, EndTransaction
<1>24. ASSUME NEW a \in Agents, NEW c \in Commands, LeaseSelect(a, c) PROVE FinalKept
  BY <1>24 DEF LeaseSelect
<1>25. ASSUME NEW a \in Agents, NEW p \in Projects, LeaseLock(a, p) PROVE FinalKept
  BY <1>25 DEF LeaseLock
<1>26. ASSUME NEW a \in Agents, LeaseRecheck(a) PROVE FinalKept
  BY <1>26 DEF LeaseRecheck, EndTransaction
<1>27. ASSUME NEW a \in Agents, LeaseCommit(a) PROVE FinalKept
  BY <1>27 DEF LeaseCommit
<1>28. ASSUME NEW a \in Agents, SpawnCommand(a) PROVE FinalKept
  BY <1>28 DEF SpawnCommand
<1>29. ASSUME NEW a \in Agents, LeaseFails(a) PROVE FinalKept
  BY <1>29 DEF LeaseFails, EndTransaction
<1>30. ASSUME NEW a \in Agents, ReapLeases(a) PROVE FinalKept
  BY <1>30 DEF ReapLeases, Lapsed
<1>31. ASSUME ApiRestart PROVE FinalKept
  BY <1>31 DEF ApiRestart
<1>32. CASE UNCHANGED vars
  BY <1>32 DEF vars
<1> QED
  BY <1>1, <1>2, <1>3, <1>4, <1>5, <1>6, <1>7, <1>8, <1>9, <1>10, <1>11,
     <1>12, <1>13, <1>14, <1>15, <1>16, <1>17, <1>18, <1>19, <1>20, <1>21, <1>22,
     <1>23, <1>24, <1>25, <1>26, <1>27, <1>28, <1>29, <1>30, <1>31, <1>32
  DEF Next, WaitStep, TaskStep, TaskFault, ProcessStep, LeaseStep


\* A final row is never written again.
THEOREM FinalForGood == Spec => FinalIsFinal
<1>1. TypeOK /\ [Next]_vars => FinalKept
  BY NextFinalKept
<1>2. TypeOK /\ [Next]_vars =>
        [\A c \in Commands : status[c] \in Final =>
           status'[c] = status[c] /\ errorCode'[c] = errorCode[c]]_vars
  BY <1>1 DEF FinalKept
<1> QED
  BY <1>2, TypeCorrect, PTL DEF Spec, FinalIsFinal

-----------------------------------------------------------------------------
(* Rows, leases and tasks *)

\* Only a row that was leased has a worker.
LeasedRows == \A c \in Commands :
  worker[c] # NoOne => status[c] \in {"running", "done", "failed"}

\* A task works on a row its agent leased, and the agent knows its project.
TaskRows == \A c \in Commands :
  task[c] # "none" => worker[c] \in Agents /\ Target[c] \in busy[worker[c]]

\* What an agent is leasing is not what it works on.
NewLeases == \A a \in Agents :
  leasePc[a] # "idle" => Target[leaseCmd[a]] \notin busy[a]

\* A lease that was just won is the agent's own.
WonLeases == \A a \in Agents :
  leasePc[a] = "leased" => worker[leaseCmd[a]] = a

Work == /\ TypeOK
        /\ LeasedRows
        /\ TaskRows
        /\ NewLeases
        /\ WonLeases
        /\ AgentSerialisesTarget

\* Every step keeps the workers of rows what they are.
LEMMA NextLeasedRows == TypeOK /\ LeasedRows /\ [Next]_vars => LeasedRows'
<1> SUFFICES ASSUME TypeOK, LeasedRows, [Next]_vars PROVE LeasedRows'
  OBVIOUS
<1> USE DEF LeasedRows, TypeOK, rowVars, leaseVars, taskVars, Final, Status
<1>1. ASSUME NEW c \in Commands, SubmitCommand(c) PROVE LeasedRows'
  BY <1>1 DEF SubmitCommand
<1>2. ASSUME NEW c \in Commands, Reattach(c) PROVE LeasedRows'
  BY <1>2 DEF Reattach
<1>3. ASSUME NEW c \in Commands, WaitReturns(c) PROVE LeasedRows'
  BY <1>3 DEF WaitReturns
<1>4. ASSUME NEW c \in Commands, WaitQueueTimeout(c) PROVE LeasedRows'
  BY <1>4 DEF WaitQueueTimeout, CancelQueued
<1>5. ASSUME NEW c \in Commands, WaitSeesOffline(c) PROVE LeasedRows'
  BY <1>5 DEF WaitSeesOffline
<1>6. ASSUME NEW c \in Commands, WaitOffline(c) PROVE LeasedRows'
  BY <1>6 DEF WaitOffline, CancelQueued
<1>7. ASSUME NEW c \in Commands, WaitSeesExpiry(c) PROVE LeasedRows'
  BY <1>7 DEF WaitSeesExpiry
<1>8. ASSUME NEW c \in Commands, WaitFailExpired(c) PROVE LeasedRows'
  BY <1>8 DEF WaitFailExpired, FailRunning
<1>9. ASSUME NEW c \in Commands, WaitRunTimeout(c) PROVE LeasedRows'
  BY <1>9 DEF WaitRunTimeout, FailRunning
<1>10. ASSUME NEW c \in Commands, LeaseLapses(c) PROVE LeasedRows'
  BY <1>10 DEF LeaseLapses
<1>11. ASSUME NEW c \in Commands, StartHandler(c) PROVE LeasedRows'
  BY <1>11 DEF StartHandler
<1>12. ASSUME NEW c \in Commands, RejectCommand(c) PROVE LeasedRows'
  BY <1>12 DEF RejectCommand, TaskDone, HoldsRow
<1>13. ASSUME NEW c \in Commands, Heartbeat(c) PROVE LeasedRows'
  BY <1>13 DEF Heartbeat, HoldsRow
<1>14. ASSUME NEW c \in Commands, TerminateProcess(c) PROVE LeasedRows'
  BY <1>14 DEF TerminateProcess
<1>15. ASSUME NEW c \in Commands, NEW result \in {"done", "failed"}, HandlerEnds(c, result) PROVE LeasedRows'
  BY <1>15 DEF HandlerEnds
<1>16. ASSUME NEW c \in Commands, FinishCommand(c) PROVE LeasedRows'
  BY <1>16 DEF FinishCommand, HoldsRow
<1>17. ASSUME NEW c \in Commands, CloseTask(c) PROVE LeasedRows'
  BY <1>17 DEF CloseTask, TaskDone
<1>18. ASSUME NEW c \in Commands, HeartbeatGivesUp(c) PROVE LeasedRows'
  BY <1>18 DEF HeartbeatGivesUp
<1>19. ASSUME NEW c \in Commands, TaskFails(c) PROVE LeasedRows'
  BY <1>19 DEF TaskFails, TaskDone
<1>20. ASSUME NEW a \in Agents, StartAgent(a) PROVE LeasedRows'
  BY <1>20 DEF StartAgent
<1>21. ASSUME NEW a \in Agents, StopAgent(a) PROVE LeasedRows'
  BY <1>21 DEF StopAgent, EndTransaction
<1>22. ASSUME NEW a \in Agents, ExitAgent(a) PROVE LeasedRows'
  BY <1>22 DEF ExitAgent, DropTasks
<1>23. ASSUME NEW a \in Agents, CrashAgent(a) PROVE LeasedRows'
  BY <1>23 DEF CrashAgent, DropTasks, EndTransaction
<1>24. ASSUME NEW a \in Agents, NEW c \in Commands, LeaseSelect(a, c) PROVE LeasedRows'
  BY <1>24 DEF LeaseSelect
<1>25. ASSUME NEW a \in Agents, NEW p \in Projects, LeaseLock(a, p) PROVE LeasedRows'
  BY <1>25 DEF LeaseLock
<1>26. ASSUME NEW a \in Agents, LeaseRecheck(a) PROVE LeasedRows'
  BY <1>26 DEF LeaseRecheck, EndTransaction
<1>27. ASSUME NEW a \in Agents, LeaseCommit(a) PROVE LeasedRows'
  BY <1>27 DEF LeaseCommit
<1>28. ASSUME NEW a \in Agents, SpawnCommand(a) PROVE LeasedRows'
  BY <1>28 DEF SpawnCommand
<1>29. ASSUME NEW a \in Agents, LeaseFails(a) PROVE LeasedRows'
  BY <1>29 DEF LeaseFails, EndTransaction
<1>30. ASSUME NEW a \in Agents, ReapLeases(a) PROVE LeasedRows'
  BY <1>30 DEF ReapLeases, Lapsed
<1>31. ASSUME ApiRestart PROVE LeasedRows'
  BY <1>31 DEF ApiRestart
<1>32. CASE UNCHANGED vars
  BY <1>32 DEF vars
<1> QED
  BY <1>1, <1>2, <1>3, <1>4, <1>5, <1>6, <1>7, <1>8, <1>9, <1>10, <1>11,
     <1>12, <1>13, <1>14, <1>15, <1>16, <1>17, <1>18, <1>19, <1>20, <1>21, <1>22,
     <1>23, <1>24, <1>25, <1>26, <1>27, <1>28, <1>29, <1>30, <1>31, <1>32
  DEF Next, WaitStep, TaskStep, TaskFault, ProcessStep, LeaseStep


\* Every step leaves the tasks with the agents that leased their rows.
LEMMA NextTaskRows == TypeOK /\ LeasedRows /\ TaskRows /\ WonLeases /\ AgentSerialisesTarget /\ [Next]_vars => TaskRows'
<1> SUFFICES ASSUME TypeOK, LeasedRows, TaskRows, WonLeases, AgentSerialisesTarget, [Next]_vars PROVE TaskRows'
  OBVIOUS
<1> USE DEF TaskRows, TypeOK, rowVars, leaseVars, taskVars, Final, Status
<1>1. ASSUME NEW c \in Commands, SubmitCommand(c) PROVE TaskRows'
  BY <1>1 DEF SubmitCommand
<1>2. ASSUME NEW c \in Commands, Reattach(c) PROVE TaskRows'
  BY <1>2 DEF Reattach
<1>3. ASSUME NEW c \in Commands, WaitReturns(c) PROVE TaskRows'
  BY <1>3 DEF WaitReturns
<1>4. ASSUME NEW c \in Commands, WaitQueueTimeout(c) PROVE TaskRows'
  BY <1>4 DEF WaitQueueTimeout, CancelQueued
<1>5. ASSUME NEW c \in Commands, WaitSeesOffline(c) PROVE TaskRows'
  BY <1>5 DEF WaitSeesOffline
<1>6. ASSUME NEW c \in Commands, WaitOffline(c) PROVE TaskRows'
  BY <1>6 DEF WaitOffline, CancelQueued
<1>7. ASSUME NEW c \in Commands, WaitSeesExpiry(c) PROVE TaskRows'
  BY <1>7 DEF WaitSeesExpiry
<1>8. ASSUME NEW c \in Commands, WaitFailExpired(c) PROVE TaskRows'
  BY <1>8 DEF WaitFailExpired, FailRunning
<1>9. ASSUME NEW c \in Commands, WaitRunTimeout(c) PROVE TaskRows'
  BY <1>9 DEF WaitRunTimeout, FailRunning
<1>10. ASSUME NEW c \in Commands, LeaseLapses(c) PROVE TaskRows'
  BY <1>10 DEF LeaseLapses
<1>11. ASSUME NEW c \in Commands, StartHandler(c) PROVE TaskRows'
  BY <1>11 DEF StartHandler
<1>12. ASSUME NEW c \in Commands, RejectCommand(c) PROVE TaskRows'
  BY <1>12 DEF RejectCommand, TaskDone, HoldsRow, AgentSerialisesTarget
<1>13. ASSUME NEW c \in Commands, Heartbeat(c) PROVE TaskRows'
  BY <1>13 DEF Heartbeat, HoldsRow
<1>14. ASSUME NEW c \in Commands, TerminateProcess(c) PROVE TaskRows'
  BY <1>14 DEF TerminateProcess
<1>15. ASSUME NEW c \in Commands, NEW result \in {"done", "failed"}, HandlerEnds(c, result) PROVE TaskRows'
  BY <1>15 DEF HandlerEnds, AtWork
<1>16. ASSUME NEW c \in Commands, FinishCommand(c) PROVE TaskRows'
  BY <1>16 DEF FinishCommand, HoldsRow
<1>17. ASSUME NEW c \in Commands, CloseTask(c) PROVE TaskRows'
  BY <1>17 DEF CloseTask, TaskDone, HoldsRow, AgentSerialisesTarget
<1>18. ASSUME NEW c \in Commands, HeartbeatGivesUp(c) PROVE TaskRows'
  BY <1>18 DEF HeartbeatGivesUp
<1>19. ASSUME NEW c \in Commands, TaskFails(c) PROVE TaskRows'
  BY <1>19 DEF TaskFails, TaskDone, HoldsRow, AgentSerialisesTarget
<1>20. ASSUME NEW a \in Agents, StartAgent(a) PROVE TaskRows'
  BY <1>20 DEF StartAgent
<1>21. ASSUME NEW a \in Agents, StopAgent(a) PROVE TaskRows'
  BY <1>21 DEF StopAgent, EndTransaction
<1>22. ASSUME NEW a \in Agents, ExitAgent(a) PROVE TaskRows'
  BY <1>22 DEF ExitAgent, DropTasks
<1>23. ASSUME NEW a \in Agents, CrashAgent(a) PROVE TaskRows'
  BY <1>23 DEF CrashAgent, DropTasks, EndTransaction
<1>24. ASSUME NEW a \in Agents, NEW c \in Commands, LeaseSelect(a, c) PROVE TaskRows'
  BY <1>24 DEF LeaseSelect
<1>25. ASSUME NEW a \in Agents, NEW p \in Projects, LeaseLock(a, p) PROVE TaskRows'
  BY <1>25 DEF LeaseLock
<1>26. ASSUME NEW a \in Agents, LeaseRecheck(a) PROVE TaskRows'
  BY <1>26 DEF LeaseRecheck, EndTransaction
<1>27. ASSUME NEW a \in Agents, LeaseCommit(a) PROVE TaskRows'
  <2>1. leaseCmd[a] \in Commands /\ status[leaseCmd[a]] = "queued"
    BY <1>27 DEF LeaseCommit
  <2>2. task[leaseCmd[a]] = "none"
    BY <2>1, ModelAssumption DEF LeasedRows
  <2> QED
    BY <1>27, <2>1, <2>2 DEF LeaseCommit
<1>28. ASSUME NEW a \in Agents, SpawnCommand(a) PROVE TaskRows'
  <2>1. leaseCmd[a] \in Commands /\ worker[leaseCmd[a]] = a
    BY <1>28, ModelAssumption DEF SpawnCommand, WonLeases
  <2> QED
    BY <1>28, <2>1 DEF SpawnCommand
<1>29. ASSUME NEW a \in Agents, LeaseFails(a) PROVE TaskRows'
  BY <1>29 DEF LeaseFails, EndTransaction
<1>30. ASSUME NEW a \in Agents, ReapLeases(a) PROVE TaskRows'
  BY <1>30 DEF ReapLeases, Lapsed
<1>31. ASSUME ApiRestart PROVE TaskRows'
  BY <1>31 DEF ApiRestart
<1>32. CASE UNCHANGED vars
  BY <1>32 DEF vars
<1> QED
  BY <1>1, <1>2, <1>3, <1>4, <1>5, <1>6, <1>7, <1>8, <1>9, <1>10, <1>11,
     <1>12, <1>13, <1>14, <1>15, <1>16, <1>17, <1>18, <1>19, <1>20, <1>21, <1>22,
     <1>23, <1>24, <1>25, <1>26, <1>27, <1>28, <1>29, <1>30, <1>31, <1>32
  DEF Next, WaitStep, TaskStep, TaskFault, ProcessStep, LeaseStep


\* Every step keeps the lease in progress apart from the work in progress.
LEMMA NextNewLeases == TypeOK /\ NewLeases /\ [Next]_vars => NewLeases'
<1> SUFFICES ASSUME TypeOK, NewLeases, [Next]_vars PROVE NewLeases'
  OBVIOUS
<1> USE DEF NewLeases, TypeOK, rowVars, leaseVars, taskVars, Final, Status
<1>1. ASSUME NEW c \in Commands, SubmitCommand(c) PROVE NewLeases'
  BY <1>1 DEF SubmitCommand
<1>2. ASSUME NEW c \in Commands, Reattach(c) PROVE NewLeases'
  BY <1>2 DEF Reattach
<1>3. ASSUME NEW c \in Commands, WaitReturns(c) PROVE NewLeases'
  BY <1>3 DEF WaitReturns
<1>4. ASSUME NEW c \in Commands, WaitQueueTimeout(c) PROVE NewLeases'
  BY <1>4 DEF WaitQueueTimeout, CancelQueued
<1>5. ASSUME NEW c \in Commands, WaitSeesOffline(c) PROVE NewLeases'
  BY <1>5 DEF WaitSeesOffline
<1>6. ASSUME NEW c \in Commands, WaitOffline(c) PROVE NewLeases'
  BY <1>6 DEF WaitOffline, CancelQueued
<1>7. ASSUME NEW c \in Commands, WaitSeesExpiry(c) PROVE NewLeases'
  BY <1>7 DEF WaitSeesExpiry
<1>8. ASSUME NEW c \in Commands, WaitFailExpired(c) PROVE NewLeases'
  BY <1>8 DEF WaitFailExpired, FailRunning
<1>9. ASSUME NEW c \in Commands, WaitRunTimeout(c) PROVE NewLeases'
  BY <1>9 DEF WaitRunTimeout, FailRunning
<1>10. ASSUME NEW c \in Commands, LeaseLapses(c) PROVE NewLeases'
  BY <1>10 DEF LeaseLapses
<1>11. ASSUME NEW c \in Commands, StartHandler(c) PROVE NewLeases'
  BY <1>11 DEF StartHandler
<1>12. ASSUME NEW c \in Commands, RejectCommand(c) PROVE NewLeases'
  BY <1>12 DEF RejectCommand, TaskDone, HoldsRow
<1>13. ASSUME NEW c \in Commands, Heartbeat(c) PROVE NewLeases'
  BY <1>13 DEF Heartbeat, HoldsRow
<1>14. ASSUME NEW c \in Commands, TerminateProcess(c) PROVE NewLeases'
  BY <1>14 DEF TerminateProcess
<1>15. ASSUME NEW c \in Commands, NEW result \in {"done", "failed"}, HandlerEnds(c, result) PROVE NewLeases'
  BY <1>15 DEF HandlerEnds
<1>16. ASSUME NEW c \in Commands, FinishCommand(c) PROVE NewLeases'
  BY <1>16 DEF FinishCommand, HoldsRow
<1>17. ASSUME NEW c \in Commands, CloseTask(c) PROVE NewLeases'
  BY <1>17 DEF CloseTask, TaskDone
<1>18. ASSUME NEW c \in Commands, HeartbeatGivesUp(c) PROVE NewLeases'
  BY <1>18 DEF HeartbeatGivesUp
<1>19. ASSUME NEW c \in Commands, TaskFails(c) PROVE NewLeases'
  BY <1>19 DEF TaskFails, TaskDone
<1>20. ASSUME NEW a \in Agents, StartAgent(a) PROVE NewLeases'
  BY <1>20 DEF StartAgent
<1>21. ASSUME NEW a \in Agents, StopAgent(a) PROVE NewLeases'
  BY <1>21 DEF StopAgent, EndTransaction
<1>22. ASSUME NEW a \in Agents, ExitAgent(a) PROVE NewLeases'
  BY <1>22 DEF ExitAgent, DropTasks
<1>23. ASSUME NEW a \in Agents, CrashAgent(a) PROVE NewLeases'
  BY <1>23 DEF CrashAgent, DropTasks, EndTransaction
<1>24. ASSUME NEW a \in Agents, NEW c \in Commands, LeaseSelect(a, c) PROVE NewLeases'
  BY <1>24 DEF LeaseSelect, Eligible, Resources
<1>25. ASSUME NEW a \in Agents, NEW p \in Projects, LeaseLock(a, p) PROVE NewLeases'
  BY <1>25 DEF LeaseLock
<1>26. ASSUME NEW a \in Agents, LeaseRecheck(a) PROVE NewLeases'
  BY <1>26 DEF LeaseRecheck, EndTransaction
<1>27. ASSUME NEW a \in Agents, LeaseCommit(a) PROVE NewLeases'
  BY <1>27 DEF LeaseCommit
<1>28. ASSUME NEW a \in Agents, SpawnCommand(a) PROVE NewLeases'
  BY <1>28 DEF SpawnCommand
<1>29. ASSUME NEW a \in Agents, LeaseFails(a) PROVE NewLeases'
  BY <1>29 DEF LeaseFails, EndTransaction
<1>30. ASSUME NEW a \in Agents, ReapLeases(a) PROVE NewLeases'
  BY <1>30 DEF ReapLeases, Lapsed
<1>31. ASSUME ApiRestart PROVE NewLeases'
  BY <1>31 DEF ApiRestart
<1>32. CASE UNCHANGED vars
  BY <1>32 DEF vars
<1> QED
  BY <1>1, <1>2, <1>3, <1>4, <1>5, <1>6, <1>7, <1>8, <1>9, <1>10, <1>11,
     <1>12, <1>13, <1>14, <1>15, <1>16, <1>17, <1>18, <1>19, <1>20, <1>21, <1>22,
     <1>23, <1>24, <1>25, <1>26, <1>27, <1>28, <1>29, <1>30, <1>31, <1>32
  DEF Next, WaitStep, TaskStep, TaskFault, ProcessStep, LeaseStep


\* Every step leaves a lease that was won with its winner.
LEMMA NextWonLeases == TypeOK /\ LeasedRows /\ WonLeases /\ [Next]_vars => WonLeases'
<1> SUFFICES ASSUME TypeOK, LeasedRows, WonLeases, [Next]_vars PROVE WonLeases'
  OBVIOUS
<1> USE DEF WonLeases, TypeOK, rowVars, leaseVars, taskVars, Final, Status
<1>1. ASSUME NEW c \in Commands, SubmitCommand(c) PROVE WonLeases'
  BY <1>1 DEF SubmitCommand
<1>2. ASSUME NEW c \in Commands, Reattach(c) PROVE WonLeases'
  BY <1>2 DEF Reattach
<1>3. ASSUME NEW c \in Commands, WaitReturns(c) PROVE WonLeases'
  BY <1>3 DEF WaitReturns
<1>4. ASSUME NEW c \in Commands, WaitQueueTimeout(c) PROVE WonLeases'
  BY <1>4 DEF WaitQueueTimeout, CancelQueued
<1>5. ASSUME NEW c \in Commands, WaitSeesOffline(c) PROVE WonLeases'
  BY <1>5 DEF WaitSeesOffline
<1>6. ASSUME NEW c \in Commands, WaitOffline(c) PROVE WonLeases'
  BY <1>6 DEF WaitOffline, CancelQueued
<1>7. ASSUME NEW c \in Commands, WaitSeesExpiry(c) PROVE WonLeases'
  BY <1>7 DEF WaitSeesExpiry
<1>8. ASSUME NEW c \in Commands, WaitFailExpired(c) PROVE WonLeases'
  BY <1>8 DEF WaitFailExpired, FailRunning
<1>9. ASSUME NEW c \in Commands, WaitRunTimeout(c) PROVE WonLeases'
  BY <1>9 DEF WaitRunTimeout, FailRunning
<1>10. ASSUME NEW c \in Commands, LeaseLapses(c) PROVE WonLeases'
  BY <1>10 DEF LeaseLapses
<1>11. ASSUME NEW c \in Commands, StartHandler(c) PROVE WonLeases'
  BY <1>11 DEF StartHandler
<1>12. ASSUME NEW c \in Commands, RejectCommand(c) PROVE WonLeases'
  BY <1>12 DEF RejectCommand, TaskDone, HoldsRow
<1>13. ASSUME NEW c \in Commands, Heartbeat(c) PROVE WonLeases'
  BY <1>13 DEF Heartbeat, HoldsRow
<1>14. ASSUME NEW c \in Commands, TerminateProcess(c) PROVE WonLeases'
  BY <1>14 DEF TerminateProcess
<1>15. ASSUME NEW c \in Commands, NEW result \in {"done", "failed"}, HandlerEnds(c, result) PROVE WonLeases'
  BY <1>15 DEF HandlerEnds
<1>16. ASSUME NEW c \in Commands, FinishCommand(c) PROVE WonLeases'
  BY <1>16 DEF FinishCommand, HoldsRow
<1>17. ASSUME NEW c \in Commands, CloseTask(c) PROVE WonLeases'
  BY <1>17 DEF CloseTask, TaskDone
<1>18. ASSUME NEW c \in Commands, HeartbeatGivesUp(c) PROVE WonLeases'
  BY <1>18 DEF HeartbeatGivesUp
<1>19. ASSUME NEW c \in Commands, TaskFails(c) PROVE WonLeases'
  BY <1>19 DEF TaskFails, TaskDone
<1>20. ASSUME NEW a \in Agents, StartAgent(a) PROVE WonLeases'
  BY <1>20 DEF StartAgent
<1>21. ASSUME NEW a \in Agents, StopAgent(a) PROVE WonLeases'
  BY <1>21 DEF StopAgent, EndTransaction
<1>22. ASSUME NEW a \in Agents, ExitAgent(a) PROVE WonLeases'
  BY <1>22 DEF ExitAgent, DropTasks
<1>23. ASSUME NEW a \in Agents, CrashAgent(a) PROVE WonLeases'
  BY <1>23 DEF CrashAgent, DropTasks, EndTransaction
<1>24. ASSUME NEW a \in Agents, NEW c \in Commands, LeaseSelect(a, c) PROVE WonLeases'
  BY <1>24 DEF LeaseSelect
<1>25. ASSUME NEW a \in Agents, NEW p \in Projects, LeaseLock(a, p) PROVE WonLeases'
  BY <1>25 DEF LeaseLock
<1>26. ASSUME NEW a \in Agents, LeaseRecheck(a) PROVE WonLeases'
  BY <1>26 DEF LeaseRecheck, EndTransaction
<1>27. ASSUME NEW a \in Agents, LeaseCommit(a) PROVE WonLeases'
  <2>1. leaseCmd[a] \in Commands /\ worker[leaseCmd[a]] = NoOne
    <3>1. leasePc[a] = "clear" /\ status[leaseCmd[a]] = "queued"
      BY <1>27 DEF LeaseCommit
    <3>2. leaseCmd[a] \in Commands
      BY <3>1
    <3> QED
      BY <3>1, <3>2 DEF LeasedRows
  <2>2. /\ worker' = [worker EXCEPT ![leaseCmd[a]] = a] /\ leaseCmd' = leaseCmd
        /\ \A b \in Agents \ {a} : leasePc'[b] = leasePc[b]
    BY <1>27 DEF LeaseCommit
  <2>3. ASSUME NEW b \in Agents \ {a}, leasePc'[b] = "leased" PROVE worker'[leaseCmd'[b]] = b
    <3>1. worker[leaseCmd[b]] = b /\ b # NoOne
      BY <2>2, <2>3, ModelAssumption
    <3> QED
      BY <2>1, <2>2, <3>1
  <2>4. worker'[leaseCmd'[a]] = a
    BY <2>1, <2>2
  <2> QED
    BY <2>3, <2>4
<1>28. ASSUME NEW a \in Agents, SpawnCommand(a) PROVE WonLeases'
  BY <1>28 DEF SpawnCommand
<1>29. ASSUME NEW a \in Agents, LeaseFails(a) PROVE WonLeases'
  BY <1>29 DEF LeaseFails, EndTransaction
<1>30. ASSUME NEW a \in Agents, ReapLeases(a) PROVE WonLeases'
  BY <1>30 DEF ReapLeases, Lapsed
<1>31. ASSUME ApiRestart PROVE WonLeases'
  BY <1>31 DEF ApiRestart
<1>32. CASE UNCHANGED vars
  BY <1>32 DEF vars
<1> QED
  BY <1>1, <1>2, <1>3, <1>4, <1>5, <1>6, <1>7, <1>8, <1>9, <1>10, <1>11,
     <1>12, <1>13, <1>14, <1>15, <1>16, <1>17, <1>18, <1>19, <1>20, <1>21, <1>22,
     <1>23, <1>24, <1>25, <1>26, <1>27, <1>28, <1>29, <1>30, <1>31, <1>32
  DEF Next, WaitStep, TaskStep, TaskFault, ProcessStep, LeaseStep


\* Only SpawnCommand starts a task, and its target is new to the agent.
LEMMA NextSerialises == TypeOK /\ LeasedRows /\ TaskRows /\ NewLeases /\ WonLeases /\ AgentSerialisesTarget /\ [Next]_vars => AgentSerialisesTarget'
<1> SUFFICES ASSUME TypeOK, LeasedRows, TaskRows, NewLeases, WonLeases, AgentSerialisesTarget, [Next]_vars PROVE AgentSerialisesTarget'
  OBVIOUS
<1> USE DEF AgentSerialisesTarget, TypeOK, rowVars, leaseVars, taskVars, Final, Status
<1>1. ASSUME NEW c \in Commands, SubmitCommand(c) PROVE AgentSerialisesTarget'
  BY <1>1 DEF SubmitCommand
<1>2. ASSUME NEW c \in Commands, Reattach(c) PROVE AgentSerialisesTarget'
  BY <1>2 DEF Reattach
<1>3. ASSUME NEW c \in Commands, WaitReturns(c) PROVE AgentSerialisesTarget'
  BY <1>3 DEF WaitReturns
<1>4. ASSUME NEW c \in Commands, WaitQueueTimeout(c) PROVE AgentSerialisesTarget'
  BY <1>4 DEF WaitQueueTimeout, CancelQueued
<1>5. ASSUME NEW c \in Commands, WaitSeesOffline(c) PROVE AgentSerialisesTarget'
  BY <1>5 DEF WaitSeesOffline
<1>6. ASSUME NEW c \in Commands, WaitOffline(c) PROVE AgentSerialisesTarget'
  BY <1>6 DEF WaitOffline, CancelQueued
<1>7. ASSUME NEW c \in Commands, WaitSeesExpiry(c) PROVE AgentSerialisesTarget'
  BY <1>7 DEF WaitSeesExpiry
<1>8. ASSUME NEW c \in Commands, WaitFailExpired(c) PROVE AgentSerialisesTarget'
  BY <1>8 DEF WaitFailExpired, FailRunning
<1>9. ASSUME NEW c \in Commands, WaitRunTimeout(c) PROVE AgentSerialisesTarget'
  BY <1>9 DEF WaitRunTimeout, FailRunning
<1>10. ASSUME NEW c \in Commands, LeaseLapses(c) PROVE AgentSerialisesTarget'
  BY <1>10 DEF LeaseLapses
<1>11. ASSUME NEW c \in Commands, StartHandler(c) PROVE AgentSerialisesTarget'
  BY <1>11 DEF StartHandler
<1>12. ASSUME NEW c \in Commands, RejectCommand(c) PROVE AgentSerialisesTarget'
  BY <1>12 DEF RejectCommand, TaskDone, HoldsRow
<1>13. ASSUME NEW c \in Commands, Heartbeat(c) PROVE AgentSerialisesTarget'
  BY <1>13 DEF Heartbeat, HoldsRow
<1>14. ASSUME NEW c \in Commands, TerminateProcess(c) PROVE AgentSerialisesTarget'
  BY <1>14 DEF TerminateProcess
<1>15. ASSUME NEW c \in Commands, NEW result \in {"done", "failed"}, HandlerEnds(c, result) PROVE AgentSerialisesTarget'
  BY <1>15 DEF HandlerEnds, AtWork
<1>16. ASSUME NEW c \in Commands, FinishCommand(c) PROVE AgentSerialisesTarget'
  BY <1>16 DEF FinishCommand, HoldsRow
<1>17. ASSUME NEW c \in Commands, CloseTask(c) PROVE AgentSerialisesTarget'
  BY <1>17 DEF CloseTask, TaskDone
<1>18. ASSUME NEW c \in Commands, HeartbeatGivesUp(c) PROVE AgentSerialisesTarget'
  BY <1>18 DEF HeartbeatGivesUp
<1>19. ASSUME NEW c \in Commands, TaskFails(c) PROVE AgentSerialisesTarget'
  BY <1>19 DEF TaskFails, TaskDone
<1>20. ASSUME NEW a \in Agents, StartAgent(a) PROVE AgentSerialisesTarget'
  BY <1>20 DEF StartAgent
<1>21. ASSUME NEW a \in Agents, StopAgent(a) PROVE AgentSerialisesTarget'
  BY <1>21 DEF StopAgent, EndTransaction
<1>22. ASSUME NEW a \in Agents, ExitAgent(a) PROVE AgentSerialisesTarget'
  BY <1>22 DEF ExitAgent, DropTasks
<1>23. ASSUME NEW a \in Agents, CrashAgent(a) PROVE AgentSerialisesTarget'
  BY <1>23 DEF CrashAgent, DropTasks, EndTransaction
<1>24. ASSUME NEW a \in Agents, NEW c \in Commands, LeaseSelect(a, c) PROVE AgentSerialisesTarget'
  BY <1>24 DEF LeaseSelect
<1>25. ASSUME NEW a \in Agents, NEW p \in Projects, LeaseLock(a, p) PROVE AgentSerialisesTarget'
  BY <1>25 DEF LeaseLock
<1>26. ASSUME NEW a \in Agents, LeaseRecheck(a) PROVE AgentSerialisesTarget'
  BY <1>26 DEF LeaseRecheck, EndTransaction
<1>27. ASSUME NEW a \in Agents, LeaseCommit(a) PROVE AgentSerialisesTarget'
  <2>1. leaseCmd[a] \in Commands /\ status[leaseCmd[a]] = "queued"
    BY <1>27 DEF LeaseCommit
  <2>2. worker[leaseCmd[a]] = NoOne
    BY <2>1 DEF LeasedRows
  <2>3. task[leaseCmd[a]] = "none"
    BY <2>1, <2>2, ModelAssumption DEF TaskRows
  <2> QED
    BY <1>27, <2>1, <2>3 DEF LeaseCommit
<1>28. ASSUME NEW a \in Agents, SpawnCommand(a) PROVE AgentSerialisesTarget'
  <2>1. leaseCmd[a] \in Commands /\ worker[leaseCmd[a]] = a
    BY <1>28, ModelAssumption DEF SpawnCommand, WonLeases
  <2>2. Target[leaseCmd[a]] \notin busy[a]
    BY <1>28 DEF SpawnCommand, NewLeases
  <2>3. \A d \in Commands : task[d] # "none" /\ worker[d] = a => Target[d] \in busy[a]
    BY DEF TaskRows
  <2> QED
    BY <1>28, <2>1, <2>2, <2>3 DEF SpawnCommand
<1>29. ASSUME NEW a \in Agents, LeaseFails(a) PROVE AgentSerialisesTarget'
  BY <1>29 DEF LeaseFails, EndTransaction
<1>30. ASSUME NEW a \in Agents, ReapLeases(a) PROVE AgentSerialisesTarget'
  BY <1>30 DEF ReapLeases, Lapsed
<1>31. ASSUME ApiRestart PROVE AgentSerialisesTarget'
  BY <1>31 DEF ApiRestart
<1>32. CASE UNCHANGED vars
  BY <1>32 DEF vars
<1> QED
  BY <1>1, <1>2, <1>3, <1>4, <1>5, <1>6, <1>7, <1>8, <1>9, <1>10, <1>11,
     <1>12, <1>13, <1>14, <1>15, <1>16, <1>17, <1>18, <1>19, <1>20, <1>21, <1>22,
     <1>23, <1>24, <1>25, <1>26, <1>27, <1>28, <1>29, <1>30, <1>31, <1>32
  DEF Next, WaitStep, TaskStep, TaskFault, ProcessStep, LeaseStep


\* The inductive invariant about rows and tasks.
THEOREM WorkDiscipline == Spec => []Work
<1>1. Init => Work
  BY InitTypeOK DEF Init, Work, LeasedRows, TaskRows, NewLeases, WonLeases, AgentSerialisesTarget
<1>2. Work /\ [Next]_vars => Work'
  BY NextTypeOK, NextLeasedRows, NextTaskRows, NextNewLeases, NextWonLeases, NextSerialises DEF Work
<1> QED
  BY <1>1, <1>2, PTL DEF Spec

\* One agent process never works on two commands of one target project.
THEOREM AgentSerialises == Spec => []AgentSerialisesTarget
<1>1. Work => AgentSerialisesTarget
  BY DEF Work
<1> QED
  BY <1>1, WorkDiscipline, PTL

\* A cancelled intent was never leased and never worked on.
THEOREM WithdrawnUnbegun == Spec => []CancelledNeverLeased
<1>1. Work => CancelledNeverLeased
  BY ModelAssumption DEF Work, LeasedRows, TaskRows, CancelledNeverLeased, TypeOK
<1> QED
  BY <1>1, WorkDiscipline, PTL

\* A job that was told the host-agent is offline has its intent withdrawn.
LEMMA NextOffline == TypeOK /\ FinalKept /\ OfflineMeansWithdrawn /\ [Next]_vars => OfflineMeansWithdrawn'
<1> SUFFICES ASSUME TypeOK, FinalKept, OfflineMeansWithdrawn, [Next]_vars PROVE OfflineMeansWithdrawn'
  OBVIOUS
<1> USE DEF OfflineMeansWithdrawn, FinalKept, TypeOK, rowVars, leaseVars, taskVars, Final, Status
<1>1. ASSUME NEW c \in Commands, SubmitCommand(c) PROVE OfflineMeansWithdrawn'
  BY <1>1 DEF SubmitCommand
<1>2. ASSUME NEW c \in Commands, Reattach(c) PROVE OfflineMeansWithdrawn'
  BY <1>2 DEF Reattach
<1>3. ASSUME NEW c \in Commands, WaitReturns(c) PROVE OfflineMeansWithdrawn'
  BY <1>3 DEF WaitReturns
<1>4. ASSUME NEW c \in Commands, WaitQueueTimeout(c) PROVE OfflineMeansWithdrawn'
  BY <1>4 DEF WaitQueueTimeout, CancelQueued
<1>5. ASSUME NEW c \in Commands, WaitSeesOffline(c) PROVE OfflineMeansWithdrawn'
  BY <1>5 DEF WaitSeesOffline
<1>6. ASSUME NEW c \in Commands, WaitOffline(c) PROVE OfflineMeansWithdrawn'
  BY <1>6 DEF WaitOffline, CancelQueued
<1>7. ASSUME NEW c \in Commands, WaitSeesExpiry(c) PROVE OfflineMeansWithdrawn'
  BY <1>7 DEF WaitSeesExpiry
<1>8. ASSUME NEW c \in Commands, WaitFailExpired(c) PROVE OfflineMeansWithdrawn'
  BY <1>8 DEF WaitFailExpired, FailRunning
<1>9. ASSUME NEW c \in Commands, WaitRunTimeout(c) PROVE OfflineMeansWithdrawn'
  BY <1>9 DEF WaitRunTimeout, FailRunning
<1>10. ASSUME NEW c \in Commands, LeaseLapses(c) PROVE OfflineMeansWithdrawn'
  BY <1>10 DEF LeaseLapses
<1>11. ASSUME NEW c \in Commands, StartHandler(c) PROVE OfflineMeansWithdrawn'
  BY <1>11 DEF StartHandler
<1>12. ASSUME NEW c \in Commands, RejectCommand(c) PROVE OfflineMeansWithdrawn'
  BY <1>12 DEF RejectCommand, TaskDone, HoldsRow
<1>13. ASSUME NEW c \in Commands, Heartbeat(c) PROVE OfflineMeansWithdrawn'
  BY <1>13 DEF Heartbeat, HoldsRow
<1>14. ASSUME NEW c \in Commands, TerminateProcess(c) PROVE OfflineMeansWithdrawn'
  BY <1>14 DEF TerminateProcess
<1>15. ASSUME NEW c \in Commands, NEW result \in {"done", "failed"}, HandlerEnds(c, result) PROVE OfflineMeansWithdrawn'
  BY <1>15 DEF HandlerEnds
<1>16. ASSUME NEW c \in Commands, FinishCommand(c) PROVE OfflineMeansWithdrawn'
  BY <1>16 DEF FinishCommand, HoldsRow
<1>17. ASSUME NEW c \in Commands, CloseTask(c) PROVE OfflineMeansWithdrawn'
  BY <1>17 DEF CloseTask, TaskDone
<1>18. ASSUME NEW c \in Commands, HeartbeatGivesUp(c) PROVE OfflineMeansWithdrawn'
  BY <1>18 DEF HeartbeatGivesUp
<1>19. ASSUME NEW c \in Commands, TaskFails(c) PROVE OfflineMeansWithdrawn'
  BY <1>19 DEF TaskFails, TaskDone
<1>20. ASSUME NEW a \in Agents, StartAgent(a) PROVE OfflineMeansWithdrawn'
  BY <1>20 DEF StartAgent
<1>21. ASSUME NEW a \in Agents, StopAgent(a) PROVE OfflineMeansWithdrawn'
  BY <1>21 DEF StopAgent, EndTransaction
<1>22. ASSUME NEW a \in Agents, ExitAgent(a) PROVE OfflineMeansWithdrawn'
  BY <1>22 DEF ExitAgent, DropTasks
<1>23. ASSUME NEW a \in Agents, CrashAgent(a) PROVE OfflineMeansWithdrawn'
  BY <1>23 DEF CrashAgent, DropTasks, EndTransaction
<1>24. ASSUME NEW a \in Agents, NEW c \in Commands, LeaseSelect(a, c) PROVE OfflineMeansWithdrawn'
  BY <1>24 DEF LeaseSelect
<1>25. ASSUME NEW a \in Agents, NEW p \in Projects, LeaseLock(a, p) PROVE OfflineMeansWithdrawn'
  BY <1>25 DEF LeaseLock
<1>26. ASSUME NEW a \in Agents, LeaseRecheck(a) PROVE OfflineMeansWithdrawn'
  BY <1>26 DEF LeaseRecheck, EndTransaction
<1>27. ASSUME NEW a \in Agents, LeaseCommit(a) PROVE OfflineMeansWithdrawn'
  BY <1>27 DEF LeaseCommit
<1>28. ASSUME NEW a \in Agents, SpawnCommand(a) PROVE OfflineMeansWithdrawn'
  BY <1>28 DEF SpawnCommand
<1>29. ASSUME NEW a \in Agents, LeaseFails(a) PROVE OfflineMeansWithdrawn'
  BY <1>29 DEF LeaseFails, EndTransaction
<1>30. ASSUME NEW a \in Agents, ReapLeases(a) PROVE OfflineMeansWithdrawn'
  BY <1>30 DEF ReapLeases, Lapsed
<1>31. ASSUME ApiRestart PROVE OfflineMeansWithdrawn'
  BY <1>31 DEF ApiRestart
<1>32. CASE UNCHANGED vars
  BY <1>32 DEF vars
<1> QED
  BY <1>1, <1>2, <1>3, <1>4, <1>5, <1>6, <1>7, <1>8, <1>9, <1>10, <1>11,
     <1>12, <1>13, <1>14, <1>15, <1>16, <1>17, <1>18, <1>19, <1>20, <1>21, <1>22,
     <1>23, <1>24, <1>25, <1>26, <1>27, <1>28, <1>29, <1>30, <1>31, <1>32
  DEF Next, WaitStep, TaskStep, TaskFault, ProcessStep, LeaseStep


\* When a job sees HostAgentOffline, its intent can no longer run.
THEOREM OfflineWithdraws == Spec => []OfflineMeansWithdrawn
<1>1. Init => OfflineMeansWithdrawn
  BY DEF Init, OfflineMeansWithdrawn
<1>2. TypeOK /\ OfflineMeansWithdrawn /\ [Next]_vars => OfflineMeansWithdrawn'
  BY NextFinalKept, NextOffline
<1> QED
  BY <1>1, <1>2, TypeCorrect, PTL DEF Spec
=============================================================================
