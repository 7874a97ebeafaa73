------------------------------- MODULE JobsApi -------------------------------
(***************************************************************************)
(* The jobs as the Studio sees them: watchers that wait for the next       *)
(* change of the table, and retries of a failed job. One connection of the *)
(* API listens to the table's NOTIFY and moves a version on; a watcher     *)
(* sleeps until it moves. A retry is made in one transaction, from any     *)
(* failed attempt of a tree, under the tree's advisory lock.               *)
(***************************************************************************)
EXTENDS Naturals, Sequences, FiniteSets

CONSTANTS Watchers, Retries,  \* requests: GET /api/jobs/watch, POST .../retry
          Asked,              \* [Retries -> the row each one retries]
          MaxRows,            \* bound on the table
          Together            \* the sets of requests that are made side by side

Unheld == "-"

ASSUME JobsApiAssumption ==
  /\ MaxRows \in Nat \ {0, 1} /\ Asked \in [Retries -> 1 .. MaxRows]
  /\ Together \subseteq SUBSET (Watchers \cup Retries) /\ Unheld \notin Retries

VARIABLES
  clients,   \* the requests of this behaviour
  rows,      \* jobs: [status, of, attempt]; of is 0 in the first attempt
  changes,   \* statements committed on jobs
  told,      \* how many of them the listener heard of
  listening, \* FALSE once the listening connection is gone: nothing reconnects it
  watch,     \* [at, version, seen, cursor, late] of a watcher
  retry,     \* [at, attempt] of a retry
  jobLock,   \* who holds a row FOR UPDATE
  treeLock   \* who holds the advisory lock of a tree, by its first row

hubVars  == <<told, listening, watch>>
treeVars == <<retry, jobLock, treeLock>>
jobsApiVars == <<clients, rows, changes, hubVars, treeVars>>

Rows   == 1 .. Len(rows)
Between   == [at |-> "idle", version |-> 0, seen |-> 0, cursor |-> 0, late |-> FALSE]

\* JobChangeHub.version: one more for every notification, and for the end of the connection.
Version == told + IF listening THEN 0 ELSE 1

\* A job that failed, and a retry of it that failed too.
JobsApiInit ==
  /\ clients \in Together
  /\ rows = << [status |-> "failed", of |-> 0, attempt |-> 1],
               [status |-> "failed", of |-> 1, attempt |-> 2] >>
  /\ changes = 0 /\ told = 0 /\ listening = TRUE
  /\ watch = [w \in Watchers |-> Between]
  /\ retry = [q \in Retries |-> [at |-> "new", attempt |-> 0]]
  /\ jobLock = [i \in 1 .. MaxRows |-> Unheld]
  /\ treeLock = [i \in 1 .. MaxRows |-> Unheld]

JobsApiTypeOK ==
  /\ rows \in Seq([status : {"queued", "running", "failed", "done"}, of : Nat, attempt : Nat])
  /\ changes \in Nat /\ told \in 0 .. changes /\ listening \in BOOLEAN
  /\ \A w \in Watchers : watch[w].at \in {"idle", "known", "user", "shown", "waiting"}
  /\ \A q \in Retries : retry[q].at \in {"new", "row", "tree", "free", "made", "sent", "refused", "aborted"}
  /\ jobLock \in [1 .. MaxRows -> Retries \cup {Unheld}]
  /\ treeLock \in [1 .. MaxRows -> Retries \cup {Unheld}]

-----------------------------------------------------------------------------
(* The jobs and their listener. *)

\* A runner writes its job; the statement's trigger notifies when it commits.
RunnerWrites(i) ==
  /\ \/ rows[i].status = "queued" /\ \E s \in {"running", "failed"} : rows' = [rows EXCEPT ![i].status = s]
     \/ rows[i].status = "running" /\ \E s \in {"failed", "done"} : rows' = [rows EXCEPT ![i].status = s]
  /\ changes' = changes + 1
  /\ UNCHANGED <<clients, hubVars, treeVars>>

\* pg_notify is delivered when the transaction commits.
Committed == told < changes

Notification ==
  /\ listening /\ Committed /\ told' = told + 1
  /\ UNCHANGED <<clients, rows, changes, listening, watch, treeVars>>

\* The listening connection ends. Who waits is woken to be told so.
Terminated ==
  /\ listening /\ listening' = FALSE
  /\ UNCHANGED <<clients, rows, changes, told, watch, treeVars>>

-----------------------------------------------------------------------------
(* A watcher: read the version, prove the user, read the jobs, and sleep if *)
(* the client has seen them.                                                *)

\* The client has the answer and asks again with its cursor.
Answered(w, cursor) == [watch EXCEPT ![w] = [Between EXCEPT !.cursor = cursor]]

\* Faulty variant: the version is read when the watcher goes to sleep.
VersionReadLate(w, v) == [watch[w] EXCEPT !.at = IF @ = "shown" THEN "waiting" ELSE "known",
                                          !.version = Version]

\* ensure_ready, and the version before anything is read.
VersionRead(w, v) == [watch[w] EXCEPT !.at = IF @ = "shown" THEN "waiting" ELSE "known",
                                      !.version = v]

WatchBegins(w) ==
  /\ watch[w].at = "idle" /\ listening
  /\ watch' = [watch EXCEPT ![w] = VersionRead(w, Version)]
  /\ UNCHANGED <<clients, rows, changes, told, listening, treeVars>>

\* resolve_current_user is an exchange with the directory: the world goes on meanwhile.
WatchKnowsUser(w) ==
  /\ watch[w].at = "known"
  /\ watch' = [watch EXCEPT ![w].at = "user"]
  /\ UNCHANGED <<clients, rows, changes, told, listening, treeVars>>

WatchSnapshot(w) ==
  /\ watch[w].at = "user"
  /\ watch' = [watch EXCEPT ![w].at = "shown", ![w].seen = changes]
  /\ UNCHANGED <<clients, rows, changes, told, listening, treeVars>>

\* The answer, when the jobs differ from the client's cursor or time is up (a job never
\* returns to an earlier state, so the cursor is the last change it shows); else the
\* sleep, unless the version moved since it was read or the listener is gone.
WatchAnswers(w) ==
  /\ watch[w].at = "shown"
  /\ IF watch[w].seen # watch[w].cursor \/ watch[w].late
     THEN watch' = Answered(w, watch[w].seen)
     ELSE IF listening THEN watch' = [watch EXCEPT ![w] = VersionRead(w, watch[w].version)]
     ELSE watch' = Answered(w, watch[w].cursor)
  /\ UNCHANGED <<clients, rows, changes, told, listening, treeVars>>

\* The event, or the rest of the 25 seconds: around the loop once more.
WatchWakes(w) ==
  /\ watch[w].at = "waiting"
  /\ \E late \in {l \in BOOLEAN : l \/ Version # watch[w].version} :
       watch' = IF listening
                THEN [watch EXCEPT ![w] = [@ EXCEPT !.at = "known", !.version = Version, !.late = late]]
                ELSE Answered(w, watch[w].cursor)
  /\ UNCHANGED <<clients, rows, changes, told, listening, treeVars>>

-----------------------------------------------------------------------------
(* A retry: create_retry_job, and the runner that carries it out. *)

Root(q) == IF rows[Asked[q]].of = 0 THEN Asked[q] ELSE rows[Asked[q]].of
Tree(root) == {i \in Rows : i = root \/ rows[i].of = root}
Active(root) == \E i \in Rows : rows[i].of = root /\ rows[i].status \in {"queued", "running"}

\* The transaction ends: its locks are free.
Released(q, locks) == [i \in DOMAIN locks |-> IF locks[i] = q THEN Unheld ELSE locks[i]]

Ends(q, at) ==
  /\ retry' = [retry EXCEPT ![q].at = at]
  /\ jobLock' = Released(q, jobLock) /\ treeLock' = Released(q, treeLock)

\* SELECT ... FOR UPDATE of the attempt that is retried.
LockSource(q) ==
  /\ retry[q].at = "new" /\ Asked[q] \in Rows /\ jobLock[Asked[q]] = Unheld
  /\ IF rows[Asked[q]].status = "failed"
     THEN /\ retry' = [retry EXCEPT ![q].at = "row"]
          /\ jobLock' = [jobLock EXCEPT ![Asked[q]] = q] /\ UNCHANGED treeLock
     ELSE Ends(q, "refused")
  /\ UNCHANGED <<clients, rows, changes, hubVars>>

\* Faulty variant: the lock is that of the attempt, not of its tree.
LockedTreeOwn(q) == Asked[q]

LockedTree(q) == Root(q)

LockTree(q) ==
  /\ retry[q].at = "row" /\ treeLock[LockedTree(q)] = Unheld
  /\ retry' = [retry EXCEPT ![q].at = "tree"]
  /\ treeLock' = [treeLock EXCEPT ![LockedTree(q)] = q]
  /\ UNCHANGED <<clients, rows, changes, hubVars, jobLock>>

\* The active retry, and the number of the next attempt.
CheckTree(q) ==
  /\ retry[q].at = "tree"
  /\ IF Active(Root(q)) THEN Ends(q, "refused")
     ELSE /\ \E n \in {rows[i].attempt : i \in Tree(Root(q))} :
               /\ \A i \in Tree(Root(q)) : rows[i].attempt <= n
               /\ retry' = [retry EXCEPT ![q] = [at |-> "free", attempt |-> n + 1]]
          /\ UNCHANGED <<jobLock, treeLock>>
  /\ UNCHANGED <<clients, rows, changes, hubVars>>

\* The foreign key of retry_of takes KEY SHARE of the first row: not while another
\* transaction holds it FOR UPDATE. The unique index refuses a second active retry.
KeyIsFree(q) == jobLock[Root(q)] \in {Unheld, q}

InsertRetry(q) ==
  /\ retry[q].at = "free" /\ KeyIsFree(q) /\ Len(rows) < MaxRows
  /\ IF Active(Root(q)) THEN Ends(q, "aborted") /\ UNCHANGED <<clients, rows, changes>>
     ELSE /\ rows' = Append(rows, [status |-> "queued", of |-> Root(q), attempt |-> retry[q].attempt])
          /\ changes' = changes + 1 /\ Ends(q, "made")
  /\ UNCHANGED <<clients, hubVars>>

\* The runner is built again from the row and queued; without one the retry has failed.
\* The wakeup it also sends is a change of its own.
DispatchRetry(q) ==
  /\ retry[q].at = "made"
  /\ \/ retry' = [retry EXCEPT ![q].at = "sent"] /\ UNCHANGED <<clients, rows, changes>>
     \/ \E i \in Rows : /\ rows[i].attempt = retry[q].attempt /\ rows[i].of = Root(q)
                        /\ rows' = [rows EXCEPT ![i].status = "failed"] /\ changes' = changes + 1
                        /\ retry' = [retry EXCEPT ![q].at = "refused"]
  /\ UNCHANGED <<clients, hubVars, jobLock, treeLock>>

\* Each of two transactions waits for what the other holds.
Deadlocked(q, p) ==
  /\ retry[q].at = "row" /\ treeLock[LockedTree(q)] = p
  /\ retry[p].at = "free" /\ jobLock[Root(p)] = q

\* PostgreSQL ends one of them.
DeadlockVictim(q) ==
  /\ \E p \in Retries : Deadlocked(q, p) \/ Deadlocked(p, q)
  /\ Ends(q, "aborted")
  /\ UNCHANGED <<clients, rows, changes, hubVars>>

-----------------------------------------------------------------------------
JobsApiNext ==
  \/ Notification \/ Terminated
  \/ \E i \in Rows : RunnerWrites(i)
  \/ \E w \in Watchers \cap clients : WatchBegins(w) \/ WatchKnowsUser(w) \/ WatchSnapshot(w)
                           \/ WatchAnswers(w) \/ WatchWakes(w)
  \/ \E q \in Retries \cap clients : LockSource(q) \/ LockTree(q) \/ CheckTree(q) \/ InsertRetry(q)
                          \/ DispatchRetry(q) \/ DeadlockVictim(q)

JobsApiSpec == JobsApiInit /\ [][JobsApiNext]_jobsApiVars

-----------------------------------------------------------------------------
(* Correctness. *)

\* A watcher that sleeps has seen every change the listener was told of, or the
\* version has moved and it is about to wake: no change falls between its snapshot
\* and its sleep.
NoLostChange ==
  \A w \in Watchers :
    watch[w].at = "waiting" /\ watch[w].version = Version => watch[w].seen >= told

\* The attempts of a tree are numbered once each, from whichever of them they are retried.
AttemptsAreDistinct ==
  \A i, j \in Rows : i < j /\ rows[j].of # 0 /\ i \in Tree(rows[j].of) => rows[i].attempt # rows[j].attempt

\* "Serializa retries feitos a partir de tentativas diferentes da mesma arvore":
\* two retries of one tree wait for each other in one order.
RetriesNeverDeadlock == \A q, p \in Retries : ~Deadlocked(q, p)
=============================================================================
