# Verification of supabase-multitenant

TLA+ specifications of the control plane of this repository, TLC configurations
that check them on small instances, and theorems about them checked by TLAPS.
Paths below are relative to `src/servidor/` unless they start with `src/`.

Run everything from this directory: `tlc -config X.cfg M` for a run of
`PROJECT.json`, `tlapm M.tla` for a module of proofs.

## 1. The system

A Projects API (`api-internal/app`, FastAPI and asyncpg) creates, duplicates,
renames, backs up, restores, rotates and deletes tenant projects. It owns no
Docker socket: what touches the host is written as a signed *intent*, a row of
`host_agent_commands`, which a privileged host-agent (`host-agent/hostagent`)
leases, revalidates and executes with the scripts of `generateProject/`.

    endpoint ── INSERT job ──> jobs            queue + worker per project
                                 │                     │  advisory lock per project
                                 │  set_job_status     ▼
                                 └─────────────── runner (coroutine)
                                                       │ submit / find / wait
                                                       ▼
                                              host_agent_commands
                                                       ▲ lease / heartbeat / finish
                                                  host-agent(s) ──> scripts, Docker

PostgreSQL rows and session locks are the only state that the two sides share;
a project's directory (`.env`, generated files, `backups/`) is written by scripts
and, for its settings, by the API too. Around this core: a push worker, the team
of a project and its directory, Edge Functions, a key authorizer with Redis, a
migrator.

### Components

| Component | State | Operations | Hard because |
|---|---|---|---|
| Command queue, API side (`host_agent.py`) | a row per intent; a waiting coroutine | submit, find again, wait with deadlines, cancel, give up on a lease | the waiter reads, sleeps and writes while an agent leases, renews and finishes |
| Host-agent (`agent.py`, `db.py`) | leases, `_busy_projects`, running tasks, abort flags | lease under advisory locks, revalidate, run, heartbeat, finish, reject, reap, stop | several agents, crashes at any point, a row ended by somebody else under its handler |
| Handlers (`commands.py`) | a process group | run, time out, terminate with a grace in which scripts roll back | the script outlives the row |
| Jobs and queues (`jobs.py`) | `jobs`, one FIFO and one worker per project, session-level advisory locks, pool connections | create, enqueue, run under the locks, set status | a connection is kept for minutes; an exception anywhere is charged to the job |
| Recovery (`main.py`) | `jobs` left queued or running | re-queue or fail for manual review | the host went on working while the API was away |
| Runners (`project_backgrounds.py`) | the project's row, its API key slots, records of restore points, rename history | bootstrap keys, run an intent, settle the job, roll back | every step may be the last one before a crash and the first one after it |
| Deletion (`project_deletion.py`) | containers, storage, tenants, metadata, database, files, row of a project | an ordered list of removals that may fail one by one | goes on after a failed step; other jobs write what it removed |
| Restore points (`routers/restore_points.py`, `generateProject/lib`) | `project_restore_points`, directories under `backups/` | create, restore with a safety point, delete, limit | status changes by endpoints, runners, error paths and recovery; a script killed in the swap |
| Reference rotation (`project_rename.py`, `rotate_project_reference.py`) | history, reference, files, journal, marker, Functions entry | reserve, prepare, commit, publish, roll back, recover | the commit decision is on the host, the record in the database |
| Opaque API keys (`opaque_key_service.py`, `automatic_opaque_key_rotation.py`, the cutover of `routers/opaque_keys.py`) | slots with a policy, versions of their keys, stored plaintexts, the phase of the migration | bootstrap or migrate, create, prepare, confirm, cancel, rotate, disable, change the policy, scan | a transaction judges time by the instant it began, the authorizer by the clock; scheduler and administrators race; a cutover stops half-way |
| Service key rotation (`automatic_key_rotation.py`, `service_key_cache.py`) | `.env`, stored keys, version, block, the Studio's cache | ask or scan, rotate, store, invalidate, block | an answer with the old key is on its way while the cache is invalidated; the script puts its copy of `.env` back when it fails |
| Settings and lifecycle (`project_settings.py`, `project_lifecycle_ops.py`) | `.env`, pending services, containers | save, start, stop, restart, recreate, answer with a job that does the same | cleared for values saved meanwhile; a request answered with too early a job; a save reads `.env`, and replaces it later, without the lock of the scripts that write it |
| Capacity (`project_settings.py`, `lib/resource_profiles.sh`, `rotate_key.sh`) | profile, totals and derived limits in `.env`; `projects.resource_profile` | derive and save, derive again and render, render a duplicate's | two derivations in two languages, no lock between them |
| Push worker (`push_worker.py`) | outbox, claims with leases, deliveries, registrations | reconcile, poll, claim, send, record, retry | a claim lapses while its holder waits for the push service |
| Team and directory (`dependencies.py`, `directory_service.py`, `routers/collaboration.py`, access policies) | members, owner, policies and grants, notes, hints, messages, notices | prove the directory, check, commit | administrators change each other; snapshots arrive out of order |
| Jobs API (`routers/jobs_api.py`, `job_watch.py`) | a version moved by NOTIFY, retry trees | watch, retry | a change between snapshot and sleep; row and tree locks |
| Edge Functions (`edge_functions.py`, `edge_function_store.py`) | `state.json`, `publication.json`, the runtime's context, settings in the database | save, publish, configure, recover | two files and a row, no transaction over them |
| Authorizer (`key-authorizer/`) | Redis counters and epoch, quota rows, tickets | start, admit, rate, count, issue, redeem | Redis is lost or replaced under counters that must survive |
| Secrets at rest (`project_secret_service.py`, `migrate_project_secrets.py`) | an envelope per project, values encrypted with its data key | create, wrap again, store, read, migrate | several writers make the first envelope; a tool replaces the key |
| Tenant pools (`tenant_pools.py`) | a table of pools, user counts, one lock | reserve, expire, replace, evict, open, release, close | an await at every step, requests that give up at any of them |
| Migrations and roles (`schema_migrations.py`, role scripts, Compose) | ledger, tables, grants, tenant identities, the API that runs | lock, apply, provision, replace, verify, reconcile | separate transactions, overlapping migrators of several images, restarts in between |
| Gateways, Studio, generated client, Elixir patches, SQL assistant, probes, vendored code | — | request filters, screens, pure transformations | not state machines of this project |

`PROJECT.json` lists all of them with their files and what is and is not
modelled, and 40 hazards at their lines.

### What makes each component correct

- queue and agent: no two running rows share a project; a final row is final; a
  cancelled row never ran; every wait and every orphaned row ends; lease
  transactions do not deadlock; handlers, not only rows, exclude each other.
- jobs: no two runners share a project; one script per job; a job is done only
  when its intent is; recovery follows what the host still does; every accepted
  job ends; final is final; a watcher misses no change.
- restore points: what is offered can be restored, a restore can be undone, a
  claim keeps others away and is always released.
- deletion: what is gone is gone completely, what failed can be tried again.
- references and keys: nobody is served under another reference or, after a
  rotation, an earlier key; what the history says is so; a failure blocks
  further automatic attempts; a save changes what it was asked to change.
- containers: what is reported as recreated runs with what was saved; what was
  stopped for recovery stays stopped.
- opaque keys: one version of a slot opens it at a time; whoever confirmed a
  replacement is never without a key; a life that is over stays over; the
  scheduler handles every row it selects and leaves no cutover undone.
- team: the owner is an admin; rights the directory took away are refused.
- Edge Functions: what is served is what was published.
- authorizer: lost counters are not started anew; a call goes through once.
- secrets: what is stored can be read; what is migrated is encrypted anew.
- capacity: shares add up and suffice, whoever wrote them last.
- pools: a pool in use is its user's and stays open; limits hold.
- push: results stand, nobody is notified too often, every notification ends.
- deployment: an API that serves finds the schema, the rights and the tenants its
  image was written for.

## 2. Modules

| Module | Models | Role |
|---|---|---|
| `CommandLifecycle` | `host_agent_commands` as a job sees it | abstract specification: accepted once, begun at most once and never beside a running overlap, ended in one final status |
| `HostCommands` | `host_agent.py`, `agent.py`, `db.py`, the exit paths of `commands.py` | detailed specification; implements `CommandLifecycle` |
| `ProjectJobs` | `jobs.py`, `main.py` (recovery), the runners of `project_backgrounds.py` by kind, `bootstrap_project_opaque_keys`, `database.py` | uses `CommandLifecycle` as its host (`Host == INSTANCE ... WITH status <- command`) |
| `OpaqueKeys` | `opaque_key_service.py`, `automatic_opaque_key_rotation.py`, the cutover of `routers/opaque_keys.py`, the master switch of `routers/project_keys.py`, `key_identity` of `key-authorizer/app.py` | stands alone: no operation on a key waits for an intent, except the cutover, whose two intents are the gaps between its three transactions |
| `ProjectRunner` | what every operation on a project has in common | has `CommandLifecycle` as its host; extended, directly or not, by the next six |
| `RestorePoints` | backup, restore, deletion of a point | extends `ProjectRunner` |
| `ProjectDeletion` | deletion of a project | extends `RestorePoints` |
| `ProjectServices` | settings, start, stop, restart, recreation | extends `ProjectRunner` |
| `ReferenceRotation` | rotation of the public reference | extends `ProjectServices` |
| `ReferenceChange` | what a rotation of the reference promises | abstract specification: a rotation changes the reference at most once, from the one it found, takes the change back only before it is settled, and reports what is so |
| `KeyRotation` | rotation of the API keys, the Studio's cache | extends `ReferenceRotation` |
| `ProjectOperations` | all of them on one project | composes `ProjectDeletion` and `KeyRotation`; implements `ReferenceChange` |
| `PushOutbox`, `ProjectTeam`, `JobsApi`, `EdgeFunctions`, `AccessAdmission`, `ProjectSecrets`, `ProjectCapacity`, `TenantPools`, `ControlPlaneStart` | one component each | specifications of their own |
| `Platform` | — | these nine side by side |
| `HostCommandsProofs`, `ProjectJobsProofs`, `OpaqueKeysProofs`, `ProjectOperationsProofs` | — | theorems about the module of that name |
| `ProjectFaultsProofs` | — | theorems about `ProjectOperations`: what failures may do; extends `ProjectOperationsProofs` |
| `AccessProofs` | — | theorems about `ProjectTeam`, `AccessAdmission`, `JobsApi` |
| `StorageProofs` | — | theorems about `TenantPools`, `ProjectSecrets`, `ControlPlaneStart`, `EdgeFunctions`, `PushOutbox`, `ProjectCapacity` |
| `PlatformProofs` | — | theorems about `Platform`, from those of its parts |
| `MCHostCommands`, `MCProjectJobs`, `MCOpaqueKeys`, `MCProjectOperations`, `MCPushOutbox`, `MCPlatform` | — | instances for TLC |

`HostCommands` refines `CommandLifecycle` and `ProjectJobs` is built on
`CommandLifecycle`: what is shown of jobs holds over the real queue as long as
a job reads nothing but the status of its intents, which is what
`run_command_for_job` returns to the runners. `ProjectJobs` has the locks, the
pool and several projects, and knows runners by kind; `ProjectRunner` and its
extensions have one project whose runners, scripts, rows and files are modelled
statement by statement, and take from `ProjectJobs` that one runner works at a
time.

The parts of `Platform` share no state in the code (other tables, other files,
other processes), so a behaviour of `Platform` is a behaviour of one of them
(`part`), and a run of it checks each by itself.

### HostCommands

One row per intent (`status`, `errorCode`, `worker`, `lapsed` for "lease
expired beyond its grace", `older` for `created_at`), per agent its process
state, its lease transaction (`leasePc`, `leaseCmd`, advisory locks) and
`_busy_projects`, per intent the task that works on it (`task`, `abort`,
`outcome`) and the coroutine that waits for it (`waiter`).

Each SQL statement is one step. `lease_next_command` is five: the `SELECT ...
FOR UPDATE SKIP LOCKED` (`LeaseSelect`), one `LeaseLock` per advisory lock, the
second look (`LeaseRecheck`), the `UPDATE` with its commit (`LeaseCommit`), and
`SpawnCommand` when the reply arrives; `LeaseFails` cuts it at any point, also
between the commit and the reply. `wait_command` reads and writes in one step
where nothing happens between (its `UPDATE`s test the status again), and in two
where something does: "no live worker" (`WaitSeesOffline`, `WaitOffline`) and
"lease expired" (`WaitSeesExpiry`, `WaitFailExpired`). Time is not counted: a
lease may lapse, a deadline may pass and a worker may look silent whenever it is
pending, which includes every real timing. `TerminateProcess` marks the grace in
which a terminated script rolls back.

### ProjectJobs

Per job its row's status and place in the order of `updated_at`, the place of
its coroutine (`pc`), its intents (`command`, one per attempt); per project its
row, its key slots, its queue and the holder of its advisory lock; the pool as
the number of workers that keep a connection plus one per statement. A worker
acquires a connection, locks its projects in order, runs the runner, unlocks.
Kinds: `create` and `duplicate` (keys are bootstrapped first, a failure rolls
the row back), `backup` (stands for backup, restore, point deletion, rename: the
intent is reused even when final, resumed at startup), `restart` (start, stop,
restart, recreate: idempotent, a final intent is repeated). `ApiStops` can
happen anywhere and drops coroutines, queues and sessions; recovery is one
`RecoverJob` per row, in the order of `updated_at`. Faults: the connection with
the locks dies, a statement of the runner raises, the rollback fails.

The order of jobs whose rollbacks are half done, messages, progress numbers and
tails are left out; so are the steps between the end of the intent and the final
status of a creation (reading the generated keys, comparing identities), whose
failures are `RunnerRaises`.

### OpaqueKeys

Per slot its row (`slot`) and the versions of its key in order of creation
(`key`: status, trigger, `activate`, `expires`, and whether it was revealed,
confirmed, and still has a stored plaintext); per project the `phase` of its
`opaque_*` timestamps and the master switch `automatic`; the `clock`.

    legacy ─ PrepareMigration ─> prepared ─ BeginCutover ─> cutover
       │ <───── AbortMigration ─────┘          │ ActivateMigration
       └── Bootstrap ──> ready <─ FinishCutover ─ activated

Every service function is one transaction that locks the slot and the project
before it reads a key, so it is one action. Its time is PostgreSQL's `now()`,
the instant the transaction *began*: with lock waits up to `Lag`, it is any
member of `Began`, and two transactions may be served in the order opposite to
their times. `Accepted` is the authorizer's query, which reads the clock and
changes over to a confirmed replacement at `activate_at`, before any row says
so. The scheduler's four queries are `DueRotation`, `Unconfirmed` /
`ExpiredPending` / `ExpiredActive`, `DuePreparation` and the clean-up of
`ScanReveals`; `ScanActivate`, `ScanBlock` and `ScanPrepare` are what it does
with a row, another transaction being free to come between any two.

A revoked version is reduced to `GoneKey`, an absent one to `NoKey`. Left out:
`allowed_services`, names, hints, the keyset version (an invalidation signal),
`replaces_key_id`, and the order of row locks: PostgreSQL aborts one of two
transactions that wait for each other, which then did nothing.

### ProjectRunner, RestorePoints, ProjectDeletion

Per job its row (`job`), the place of its coroutine (`pc`, a name per statement
that commits), the project's `queue`, per intent its `command`. An endpoint
commits the row in one step and queues it in the next (`AcceptJob`, `Enqueue`);
between them the API may stop, or the queueing raise, which each endpoint
compensates in its own way. `AttachIntent` is `run_command_for_job`: an intent
that is there is waited for, not repeated. `ApiStops` drops coroutines and the
queue; `RecoverJob` queues what can be resumed and fails what cannot. Troubles
(`MaxTroubles`) are a crash of the API, a statement that raises, a script that
fails, an agent that dies under its script.

`RestorePoints` adds the row of each point, its directory (which appears complete,
by one `mv`), what it holds, and the project's `data`, which clients change while
the project is up (`Write`). A restore's script saves the data, stops Nginx,
swaps, starts again; killed after it began it leaves directories that stop the next one
(`stuckScript`). The runner settles the target, the safety point and the job in
separate transactions, and so does its error path.

`ProjectDeletion` is the list `Steps`: each may fail and be noted in `errors`,
the row goes only without errors, and the last look verifies that nothing came
back. The endpoint looks at no other job: backups and restores queued earlier
or later run on what is left.

### ProjectServices, ReferenceRotation, KeyRotation

Settings are numbered by the save that wrote them (`saved`), and a container
has the numbers it was created with (`applied`); `docker start` creates nothing
anew. A save is two steps, as `_write_env_whitelisted` is: `ReadEnv` takes all of `.env`
into `draft`, `ReplaceEnv` puts it in place of whatever is there by then; `SaveFails` is an
error in between, and a save ends with the API. The function runs to its end in the API's
one thread, so no two saves overlap; the model lets other steps of the API fall
between the two, which only adds behaviours, since none of them writes `.env`.
`AcceptLifecycle` and `AnswerLifecycle` are the two outcomes of
`_create_lifecycle_job_deduped`; `asked` keeps what each request was answered
with, for the properties. The code compares a request with the latest active job of its
action; the order of creation is not kept, so a recreation may get a job of its own as
soon as one of other services is active, and be answered with any that is the same:
every outcome of the code, and those of the other order. `envRef` is the reference in `.env`, `fileRef` the one in
the files generated from it (`Broken` when only a part of them was written), `gateway`
the one Nginx was created with. `AdmitRecreation` and `RefuseRecreation` are
`HostAgent._revalidate`: before a recreation the agent compares `.env` with the control
plane; the handler then generates the files from `.env` without the scripts' lock. The
same comparison before a restore, a key rotation and a rename is part of their first
steps, since their scripts make it again when they have the lock.

The script of a rotation is a sequence of steps (`Forward`; `read` and `render` are the two
ends of rewriting `.env`, with what was read in `lines`), each of which may
fail or be killed, then the rollback (`Backward`) unless killed, then the operator's
recovery from the manifest (`OperatorRecovers`), all under the project's
lifecycle lock. `journal` and `log` are the directory and its manifest;
`projection` and `withdrawn` the entry and the marker of the Functions service,
which `Sync`, restores, deletions and key rotations write too.

A key rotation writes the keys into `.env` (script), stores them and raises the
version, invalidates the Studio's cache, settles the job (runner). The script goes through
`Turns`: it withdraws the project from the Functions service, copies the files (`copy`), renders
them, writes limits and keys over `.env`, creates Nginx again and publishes. An error the
`ERR` trap sees goes through `rb_files`, `rb_up` and `rb_publish`, which put the copies back
with whatever was saved meanwhile gone; `die`, an error inside a function and a kill leave
everything as it is, half a step included (`KeyHalfway`). The cache is
`service_key_version.lua`: `Promote`, `FetchKey` and `PublishKey` are the three
places where an old answer can cross an invalidation.

`ProjectOperations` lets all of this meet: one queue, one set of files and
containers, one Functions entry, one lifecycle lock. What a data script does to
the runtime is `Entry`. `Next` is `Operates`, which is all of them, or a save, and then
`Remembers`: `misplaced` says that a save, or the script of the keys with what it had read of
one, put a reference into `.env` other than the one there was; `undone` holds the services
whose settings went back to earlier ones. Its `Changes == INSTANCE ReferenceChange WITH ...` maps a
rotation to its promise: the reference is the database's, a change is open while its
journal is complete, it may still be made until the script's `swap` is behind it, and a
rotation is spent once it has its journal or its intent is over.

### The parts of Platform

- `PushOutbox`: pollers (a process and a tenant) hold one of `Slots` connections,
  claim a notification, read its deliveries, send them in parallel outside any
  transaction and record each under the claim. Leases lapse, retries fall due,
  devices register again (`generation`), a restore swaps a database.
- `ProjectTeam`: a request reads the Studio's directory, writes the snapshot it
  got unless a later one is there, and works in one transaction with the row
  locks of its handler, reading at `Check...` and writing at `Commit...`.
- `JobsApi`: the listener's version and a watcher's snapshot, wait and answer; a
  retry locks the row it was asked for, then the tree, and its `INSERT` needs
  the row of the first attempt.
- `EdgeFunctions`: requests under a file lock the kernel frees with the process;
  a publication writes intent, context and pointers, and recovery finishes
  or takes back what it finds. Writes fail, processes are killed.
- `AccessAdmission`: startup establishes an epoch in Redis and the database; a call
  is judged, rated, counted and given a ticket, and a ticket is taken and the
  policies are read once more when it is presented, also twice at once.
- `ProjectSecrets`: storing makes or locks the envelope, reading wraps it again
  under a new master key, the migration tool goes through all values.
- `ProjectCapacity`: the shares of memory, CPUs and PIDs as pure operators, in the
  API's derivation and in the script's, and saves and the script that read,
  derive and write without a lock between them.
- `TenantPools`: `_lock` held over closing what expired, what has other credentials
  or what makes room; a request may give up at each await.
- `ControlPlaneStart`: migrators of several images under an advisory lock, one
  transaction per migration, per role and per tenant identity; the replacement of the
  API; its check of the ledger and its reconciliation of tenants. A role of `Enumerated`
  loses every right and gets those on the tables that the migrator's image names
  (`control_plane_roles.py:77`, `:125`, `:214`), the other two get all there is
  (`Granted`); `lowered` remembers which roles an older image has taken rights from.

## 3. Runs

| Run | Instance | Shows |
|---|---|---|
| `source` | duplication 1→2, command for 1, two agents, one task per agent | running rows exclude each other; refinement of `CommandLifecycle` |
| `retry` | the same duplication twice, two agents, two tasks per agent | an agent never works twice on one target; no cycle of advisory locks |
| `live` | one duplication, two agents, fairness | waits end, zombies are told, orphans are reaped |
| `jobs_queue` | duplication 1→2, backup and restart of 1, one crash, one fault | runners exclude each other, done means done |
| `jobs_live` | duplication and backup, one crash, fairness, a spare connection | every accepted job ends; a backup is not settled before its intent |
| `keys` | an initial slot and a later one, lives of one unit, three versions, delays up to one unit, fairness | one accepted version, no gap after a confirmation, a life that stays over; every cutover is persisted, every lapse reported |
| `operations` | one project, sixteen sets of requests, at most two troubles | types and the ten properties of `ProjectOperations` (below) |
| `platform` | a few requests and faults for each part | the twelve properties of its parts (below) |
| `push_live` | one process, two tenants, one slot, one device registered twice, one fault, fairness | every notification ends |
| `stays_stopped` | as `operations` | **violated**: a start that waited in the queue starts Auth and Nginx after an unconfirmed rollback |
| `deletion_retry` | as `operations` | **violated**: a deletion that failed late leaves nothing the next one can begin with |
| `re_encrypts` | two saves and a replacement of the data key | **violated**: only two columns are encrypted again |

What `operations` shows, each across every interleaving of the requests of a
behaviour and every place of a trouble:
`OneTroubleSticksNothing` (no point is left claimed), `RestoreCanBeUndone` (the
safety point holds what was replaced; every offered point is complete),
`ClaimsAreKeptInOneLife` (a claim stands until its job settles it; excepted is the
error path of an earlier job of the same kind, whose `UPDATE` tests the point's status and
not the job, `project_backgrounds.py:1193`),
`DeletedLeavesNothing`, `ServesTheReference` (gateway and Functions serve the
database's reference or nothing, and the journal covers every difference; excepted are a container
that `docker start` starts as it was created, files of which a killed script wrote a
part and which a failing key rotation puts back, a recreation let in beside an operator's
recovery, which takes what `.env` holds at that moment, and everything after a save has put
a former reference back, `misplaced`),
`HistoryIsTrue` (also until then), `ReferenceChangesOnce` (the refinement of `ReferenceChange`,
which is about the database and needs no such exception),
`RecreatedIsCurrent` (but for settings that were taken out of `.env` again, `undone`: by a
rotation of the keys or of the reference, or a save, that writes what it read or copied
before), `FailureBlocks`, `NoOldKeyAfterRotation`.

What `platform` shows: `ResultsStand` (push), `OwnerIsAdmin` and
`RevokedIsRefused` (team), `NoLostChange` (watch), `ServedIsPublished` (Edge
Functions), `CountersSurvive` and `ForwardedOnceAsJudged` (authorizer),
`SecretsReadable`, `CapacityFits` and `RotationKeepsCapacity`, `PoolsAreKept`,
`ServesWhatItWasBuiltFor` (deployment). The rights have an exception: once the migrator
of an older image has run beside a newer API, as when a release is taken back, the
three roles of `Enumerated` lack the newer tables until a newer migrator runs again, whether
the older one got to its end or not (`lowered`; `i1` after `i2` in the instance).

### Bounds

Rows and jobs. Two intents are enough for every pairwise property of rows, and two
agents for every race of lease transactions; each agent process starts once
(a replacement is another agent with a `worker_id` of its own, as in the code).
One target and one origin per intent is what the code has. Three jobs cover a
running job, one queued behind it and one of another queue that shares a
project; one crash covers a first run and a resumed one, and one fault a partial
failure in either. `MaxRestarts`, `MaxFaults` are the only counters. Agents are
symmetric (nothing compares them); projects are not (locks are sorted).
Deadlock is not checked because the systems may really stop: every row final,
every agent gone, every request answered.

Opaque keys. Three versions let a slot hold a revoked, an active and a pending one and
reuse none; three instants beyond the first let a key be replaced, expire and be
rotated again; a `Lag` as long as a life puts every operation on either side of
every deadline. Slots share only the phase and the master switch, so
`OneSlot` of `MCOpaqueKeys` keeps one slot active at a time; the theorems need
no such restriction. All intervals are equal in the instance, so that `Null` and
a number are the two policies.

Operations. `MCRequests` names the requests that touch common state: a backup, two
restores of its point and that point's deletion (`RestorePoints`), so that a claim can meet
the late end of an earlier one; a backup and the deletion of the project; two rotations of
the reference, with two troubles so that a rollback or a recovery may fail too; two
automatic key rotations; a rotation of the reference beside a key rotation, a deletion, a
start, a stop, a recreation, a backup and a restore; two recreations of all services, one
of all beside one of some; a recreation beside a key rotation. Each of these has a trouble.
Without troubles there are two backups and two restores, a backup, a restore and the
deletion of the project, and three recreations.
`PointLimit` 3 is reached by a backup and two safety points, with a fourth point that is
refused; in the behaviours with the recreation of all services (`MCSaves`) one save reads
before, within or after each job, a rotation of the reference or of the keys among them,
and replaces at any time after; the others have none. `Concerns`
and the constraints of `Init` hold still what none of a behaviour's requests touches.

Platform. Two push processes for one tenant and two devices; three or four requests per
scenario of a team, two versions of the directory; a watcher or two retries of
one tree; three to five requests to the Functions, one kill and one failing
write; two calls presented twice each, a burst of one, a limit of two, one lost
Redis and one stop; five pieces of work on secrets, of which two make the first
envelope; three saves per scenario of capacity with the totals of
`.env.example` (the custom slot has 1 MiB more, to make divisions leave a rest);
two tenants and two requests per tenant as limits, three requests, one
fault; three images of which the third edits a migration, one restart, and installations
with and without projects, each with the migrators that may run there: two of
different images at once, the one of an older image after or beside a newer one, and the one
with the edited migration. A clean installation migrates like any other. Each bound lets the limit it stands for be reached and
one fault fall at every step.

### Fairness

`HostCommands`: the loops turn (asyncio schedules a ready coroutine),
deadlines pass, a lease nobody renews lapses, statements that block on a row
lock are served when it is free (strong fairness, for a row that lease
transactions lock over and over). Nothing is assumed of handlers, which may hang,
of restarts, or of faults. `ProjectJobs`: ready coroutines and free locks are
served, a supervisor restarts the API, and the host ends every intent it begins.
That last assumption is what `WaitEnds` and `OrphanIsReaped` establish of
`HostCommands` for an intent somebody waits for. `OpaqueKeys`: the scheduler
scans for ever and passes over a row only while it is locked, so what stays due
is handled (weak fairness of `ScanActivate` and `ScanBlock` for each slot; none
of administrators, of consumers, or of the clock). `PushOutbox`: a task runs
on, requests to the push service end (they have timeouts), slots of the
semaphore are given in the order they are asked for (strong fairness of
`Connect`), sessions end (they have a length), leases and delays run out,
tenants are looked up every minute; nothing of registrations, databases or faults. The
other specifications state safety only.

### The violated properties

The findings in `PROJECT.json` quote both sides.

1. `stays_stopped`: a rotation fails with `rotation_unresolved`, nothing in the
   lifecycle endpoints or in `handle_start_project` looks at the journal, and a start
   that waited behind the rotation starts what was to remain stopped
   (`src/docs/architecture/project-lifecycle.md:118`).
2. `deletion_retry`: `_delete_project_impl` reads the project's `.env` before its first
   step; the files step removes it. A failure after that step leaves a row every
   further deletion raises on, although the message and
   `src/docs/05-common-errors.md:235` advise another attempt.
3. `re_encrypts`: `migrate_project_secrets --rotate-deks` stores two columns of
   `projects` again; what other tables hold stays encrypted with the data key the
   envelope no longer has and cannot be read.

### Other statements TLC refutes

They stand in the modules, without a run of their own; put the name on the
INVARIANTS or PROPERTIES line of the configuration named.

| Statement | Configuration | What happens |
|---|---|---|
| `HostCommands.ExpiredOnlyIfLapsed` | `HostCommandsSource` | `wait_command` looks at the lease in one statement and fails the row in another that does not; a heartbeat between them is lost. The reaper does both in one |
| `HostCommands.HandlersExclusive` | `HostCommandsSource` with `SPECIFICATION PunctualSpec` | `_busy_projects` holds targets only: with the deadline of the wait inside the TERM grace of a duplication the row is failed while the script rolls back, and a command for the source starts beside it. `AgentSerialisesTarget` is what does hold |
| `ProjectJobs.ReconnectsToIntent` | `ProjectJobsQueue` | a duplication or deletion is failed at startup while its intent is open; a resumed creation fails on its own key slots and drops its row while the script runs |
| `ProjectJobs.OneJobInProgress` | `ProjectJobsQueue` | recovery goes by `updated_at`, which progress keeps changing, and runs the later job beside the earlier one's intent |
| `ProjectJobs.WaitHasCeiling` | `ProjectJobsLive` with `PoolSize` 2, `Jobs` {"backup", "restartCopy"} | a connection per busy worker for the whole run, no timeout on `acquire` |
| `OpaqueKeys.CutoverIsFinal` | `OpaqueKeys` | a cancellation that waited for its locks revokes a replacement in force. `NeverRevived` is what does hold |
| `ProjectOperations.SavesAreAtomic` | `ProjectOperations` | a save replaces `.env` by what it has read, without the lifecycle lock of the scripts: the reference, or the keys, of before a rotation that wrote them in between come back (`src/docs/architecture/project-lifecycle.md:229` calls the change atomic; the replacement of the file is). The control plane has the new reference then, and the agent refuses recreations, restores and rotations of the project until somebody corrects the file |
| `ProjectOperations.FailureStopsAttempts` | `ProjectOperations` | the block is set in a transaction after the failure; a restart or a failing statement between the two lets the next scan try again |
| `EdgeFunctions.InterruptedIsRecoverable` | `Platform` | publishing again what is published leaves an intent that recovery refuses |
| `JobsApi.RetriesNeverDeadlock` | `Platform` | two retries of one tree, one from the first attempt: each holds what the other waits for; PostgreSQL ends one (`DeadlockVictim`) |
| `ProjectCapacity.CloneKeepsSizing` | `Platform` | a duplicate takes the profile from a row that a save updates after the `.env`, or did not come to update (`src/docs/architecture/project-lifecycle.md:223`) |
| `ProjectCapacity.EditsWhatItNames`, `SettingsSurvive` | `Platform` | a save or the script writes back what it read before another save wrote |
| `ProjectCapacity.NeverBlank` | `Platform` | `cat > .env` empties the file before it fills it (`lib/resource_profiles.sh:187`) |
| `ControlPlaneStart.LegacyIsTakenOver` | `Platform` | a project without tenant UUID stops every migrator, and so the API whose start would give it one (`src/docs/architecture/control-plane-migrations.md:118`); the way out is `--skip-roles` by hand |

`RotationKeepsCapacity` holds but for `Overlooked`: the script takes a project's own
totals for those of profile `custom` whichever is later
(`lib/resource_profiles.sh:170`). Met while modelling, and in no statement: an error
of `pg_advisory_unlock` is charged to a job that is already done
(`UnlockFails`); a manual replacement of an opaque key that nobody confirms suppresses the
block that would report its slot's lapse (the exception in `Lapsed`); the lock of
the tenant pools is held across a close of up to 5 s, longer than the 2 s an
admission may take.

Hold, are proved (section 4), and are in no run because others say more of the same
code: `PushOutbox.EndedTells`, `ProjectTeam.AuditReplays` and `NothingOverwritten`,
`JobsApi.AttemptsAreDistinct`.

## 4. Proofs

Assumptions: the `ASSUME` of each module. They type the constants, say that projects
are totally ordered (numbers) and that the mark of "nobody", "no file" or "no image" is
not a member of the set beside it: ids of requests are not 0 (`ProjectTeam`), `None` is
no code, request or intent (`EdgeFunctions`), `Unheld` no retry (`JobsApi`), `"none"` no
image (`ControlPlaneStart`), `"operator"` no rotation and `None` no reference
(`ReferenceRotation`). Three say more. `JobsApiAssumption` leaves room for the two
attempts there are at first. `StartAssumption` lets an API run at first only where the
migrations of its image are applied, which Compose and the check at its startup see to.
`PointsAssumption` says that what a request inserts, a backup's point or a restore's safety
point, is no other request's: the endpoints name it with `uuid.uuid4()`
(`routers/restore_points.py:283` and `:400`).
Otherwise any sets, finite or not, any pool size, any bound on restarts and faults, any
totals and any number of requests.

`HostCommandsProofs`

- `TypeCorrect`: every variable keeps its type.
- The inductive invariant of the lease transactions is
  `Locks == TypeOK /\ HeldLocks /\ InOrder /\ ClearToRun`. That running rows
  exclude each other is not inductive: the row becomes running one step after the
  second look that allowed it. `HeldLocks` says which advisory locks a
  transaction has at each point, `InOrder` that it took them smallest first,
  `ClearToRun` that after the second look no row running overlaps, which stays so
  because whoever could start such a row needs a lock the transaction holds. The
  many actions that neither touch a lock nor start a row are classified once
  (`LockStep`), and the invariant is proved over the classes.
- From it: `Exclusive`, `LeasesNeverDeadlock` (a cycle of two waits contradicts
  the order), `LockDiscipline`, and `ImplementsLifecycle` (initial states map to
  initial states, every step to a step of `CommandLifecycle` or a stutter).
- `FinalForGood` is a property of steps and needs only the types.
- The last three need the invariant
  `Work == TypeOK /\ LeasedRows /\ TaskRows /\ NewLeases /\ WonLeases /\ AgentSerialisesTarget`:
  which row a task may have in which state, and that a lease in progress is for a
  target its agent is not busy with.
- From it: `AgentSerialises`, `WithdrawnUnbegun`, `OfflineWithdraws`.

`ProjectJobsProofs`

- The inductive invariant `Workers` relates seven things: what a queue holds
  (`Queued`), the status of a job to the place of its coroutine (`Statuses`), what
  recovery has still to look at (`Recovering`), locks to sessions (`Sessions`),
  the attempts of a job (`Scripts`: numbered from one, each earlier one final),
  a creation to the project it owns (`Owners`), a runner to its latest intent
  (`Awaited`). `Queued`, `Statuses` and `Recovering` need each other: only
  together do they say that a job is handled by one coroutine at a time.
- From it: `JobsTypeCorrect`, `RunnersExclude`, `ScriptsOnce`, `DoneIsTrue`.
- `SettledUntilAFault`: as long as no statement of a runner fails, `SettledBeforeFinal`
  holds of jobs about projects that were there before. It adds three facts to `Workers`:
  such a project keeps its row (`ExistingStay`), only creations make keys
  (`Bootstrapping`), and sessions live until a fault (`Settling`). Both hypotheses are
  needed, as TLC shows on an instance without each: a runner that raises while it waits
  fails its job with the intent still live; and a restart of a copy, queued behind the
  duplication that fails and removes its row, submits its intent all the same, and after
  a crash recovery fails it because the row is gone.
- `LatestIsLast` and `NumberedFromOne` justify the model's own `CHOOSE` and
  `Cardinality` for "the latest intent" and "the next attempt".

`OpaqueKeysProofs`

- The inductive invariant is `Keyset == TypeOK /\ CutoverResumable /\ \A s : Row(s)`.
  What the authorizer accepts is not inductive: that a confirmed replacement
  leaves no gap depends on there being an active version at all (`Opened`), only
  one of each status (`Single`), and the pending one taking over before the
  active one expires (`InTime`), which `PrepareRotation` establishes and a change
  of policy must not undo. Operations on one slot are classified by what they do
  to its versions (`OneVersion`, `PendingRevoked`, `SameVersions`, `Untouched`).
- From it: `OneAcceptedHolds`, `HandoverHolds`, `RevealsLiveHolds`,
  `CutoverResumableHolds`, `ScanNeverRaisesHolds`.
- `NeverRevivedHolds`: a transaction that runs now began at most `Lag` ago, so
  what was over `Lag` ago is over by its own time too, and no guard lets it undo
  that (`EndedShut`, one step per operation); what is `Shut` at one instant is
  refused at every later one (`ShutRefused`).

`AccessProofs`

- `ProjectTeam`, invariant `TeamInv`. What a handler checked is still so when it
  commits, because of the row it locked before it looked: `MembersAreHeld` (members and
  owner, under the project's row), `PolicyIsHeld`, `NoticeIsHeld`. Without the first
  `OwnerIsAdmin` is not inductive: a demotion and a transfer are each right by themselves.
  `DirectoryIsFresh` relates the snapshot a request holds to the latest one when it came
  in, and gives `RevokedIsRefused`; `NotSentYet` is what `AuditReplays` lacks.
  From it: `TeamTyping`, `OwnerStaysAdmin`, `RevokedStaysRefused`, `AuditAlwaysReplays`,
  `PoliciesAreNotOverwritten`.
- `AccessAdmission`, invariant `AccessInv`. `EpochsAgree` says which of Redis, the
  row and the process may know which epoch, and that Redis counts what its epoch let pass;
  `TicketsAreOnce` that a ticket is in Redis, with one redeemer, or gone;
  `CallsAreCounted` that calls beyond the quota are among the admitted, a count of a set
  that is shown finite along the way.
  From it: `AccessTyping`, `CountersAlwaysSurvive`, `ForwardedOnce`.
- `JobsApi`, invariant `JobsApiInv`. `WatchersSawTheirVersion`: the version was read
  before the jobs were, so they show at least that. `TreesAreHeld`: the number a retry is
  about to give is above all in its tree as long as it has the tree's lock.
  From it: `JobsApiTyping`, `NoChangeIsLost`, `AttemptsStayDistinct`.

`StorageProofs`

- `TenantPools`, invariant `PoolsInv`. The counting argument: an entry's `users` is the
  cardinality of the requests that have it (`UsersAreCounted`), so that an entry without
  users may be closed (`PoolsAreHeld`), and only under the lock (`LockIsHeld`);
  `TableIsBounded` counts the tenants. From it: `PoolsTyping`, `PoolsStayKept`.
- `ProjectSecrets`, invariant `SecretsInv`. Types hold in every behaviour
  (`SecretsTyping`). Readability has a hypothesis, `NothingRotates`: with
  `--rotate-deks` the run `re_encrypts` refutes it. Under it `EnvelopeIsCommitted`
  (a transaction only wraps the envelope again or makes the first one),
  `EnvelopeIsHeld`, `ReadersHaveAKey` and `WrapsAreKnown` (which master key wraps it, and
  that a migration that is over left it so) are inductive together and give
  `SecretsStayReadable`.
- `ControlPlaneStart`, invariant `StartInv`. `MigratorsProvision` says what a migrator
  has granted by the role it is at, but for what an older image took from it since;
  `ApiIsReady` carries that over the replacement of the
  API, `TenantsAgree` from the check for conflicts over the write to the API that serves.
  From it: `StartTyping`, `ServesItsImage`.
- `EdgeFunctions`, invariant `EdgeInv`. A process may be killed between any two writes, so
  what an intent says must be true for whoever finds it (`IntentIsTruthful`), and what the
  holder of the lock relies on is written down step by step (`LoadHolds`,
  `PublicationHolds`, `ConfigurationHolds`); `WorkIsLocked` makes it one holder.
  From it: `EdgeTyping`, `ServedStaysPublished`.
- `PushOutbox`, invariant `OutboxInv`. Claims are numbered (`ClaimsAreKnown`,
  `ClaimsAreUnique`), so an answer under a claim that lapsed writes nothing;
  what the owner sends is not settled (`BatchesAreClaimed`). "Not more often than
  `MaxAttempts`" is proved by counting the requests that have left and the ones still to
  be answered, whoever has the notification by then, against the attempts
  (`SendsAreCounted`). `AnswersWereSent` and `EndedTells` complete it. The theorems are
  about `OutboxBehaviour`, the specification without its fairness, and
  `FairOutboxIsSafe` carries them over. From it: `OutboxTyping`, `ResultsStay`,
  `EndedTellsHow`.
- `ProjectCapacity`. The arithmetic first: `Rounding` bounds sums of rounded-down parts;
  `SharesFit` says that what `ByWeight` hands out adds up and is no less than the
  floors wherever `Divides` lets a total through; `PidsAndHeap` and `LimitsFit` that
  the limits of such totals fit them; `DerivationsAgree` that the script's
  derivation, with its own order of operations, yields the API's limits.
  `CapacityFits` is not inductive: what is in the `.env` was computed earlier,
  from totals read earlier still. The invariant `IInv` carries it through every
  place where a capacity is on its way: in each save's and the script's `update` the limits
  are those of the totals written with them (`Sound`); the totals of a save are its
  own or its slot's (`Stated`), those of the script and of the capacity itself are
  the ones the script would find again (`Found`).
  From it: `CapacityTyping`, `CapacityAlwaysFits`, and `RotationKeeps`
  (`RotationKeepsCapacity`, from `IInv` and `DerivationsAgree`).

`ProjectOperationsProofs`

One invariant for all operations, since what an operation finds is what the others left. The
layers:

- What all operations have in common (`RunnerInv`): types, one coroutine works on the
  project, one host command runs, what is queued or submitted belongs to a job that was
  accepted. Every action is one of four kinds (`NextActs`): a step of one job's coroutine
  (`RunnerWorks`), of the host or of a waiter (`HostWorks`), a request (`AcceptJob`), or
  of queue and API (`Runner`). `RunnerInv` is proved over the kinds, and so is
  whatever only asks which kind a step is.
- The reference (`ReferenceInv == Steady /\ (misplaced \/ Agrees)`). `Steady` is what the
  scripts leave to one another in every behaviour, `Agrees` what is so until a save puts a
  former reference back over `.env`. `ServesTheReference` relates what is served to the
  database at every instant; a script that dies leaves `.env`, the generated files, the
  gateway, the published context and the database in one of many combinations. What
  makes these combinations harmless: `ScriptHolds` (who changes files runs alone, but for
  a recreation), `JournalTells` (the manifest is whole from before the first change until
  after the last, and the database has one of its two references meanwhile), which make
  `Steady` with the types; and `FilesAgree`, `Position` (which reference is where, at each step forward and
  back), `TurnAgrees` (what a restore or a key rotation finds, copies and reads has the
  reference of the database), `WithdrawnWhileApart` and `StoppedWhileApart` (while `.env` and database differ,
  no Functions service is told of the project and the gateway is stopped, unless
  somebody started a container of before, which the property excepts). From it:
  `ReferenceServed`.
- Settings and keys are numbered (`NumberInv`: what a file, a container, the database, a
  manifest, a script's copy or a save under way holds was saved or generated before), and `SettingTypes`, `KeyTypes`. All
  layers together are `OperationsInv`; `OperationsHold`, `OperationsTyped`.
- `DeletionLeavesNothing` needs `GoneInv`: a handler that is done has removed what it is
  for, a runner without errors has seen everything before its place removed, and nothing
  comes back (`GoneStays`), because every script that makes a backup needs the files.
- `OldKeysAreNotServed` needs `StudioWasTold`: a rotation that is about to be
  reported done has told the Studio the version it wrote. The Studio never answers with
  less than it was told, whatever was on its way to its cache.
- `RestoresCanBeUndone` needs `PointInv`, which follows a point from the request to
  the end: `CapturesAreKept` (the directory is there after a backup that is done, before a
  restore from it, from the capture of a safety point on, and while the point is offered),
  `SafetyHolds` (it holds what the restore replaced), `SafetyOffered` (the row is there
  when the job is done). It speaks of projects that have their files, and of points whose
  deletion nobody asked for, as the property does.
- `RecreationsAreCurrent` needs `CurrentInv`, which speaks of each service by itself, in
  every behaviour, rotations of the reference and of the keys included, until its settings
  go back (`undone`): no container is ahead of `.env` (`FilesMoveOn`: what is saved only
  grows), a runner about to report a recreation has seen its
  command done (`ReportIsTrue`), and `AnswerHolds`: what a request was promised was
  saved, and is in force once the job it was answered with is through (`Through`: its
  command or the job itself is done). Only a handler that ends well makes a job through,
  and it applies what `.env` holds then.

`ProjectFaultsProofs`

What failures may do, each from `OperationsInv` and an invariant of its own:

- `ClaimsAreKept` needs `ClaimInv`: what is in the queue waits there, once (`QueueWaits`),
  and before a restart nobody asks for anything of a safety point that its restore has
  still to settle (`SafetyIsFree`). TLC showed the first form of the property false on two
  restores of one point: the first settles the point and fails at its last statement, the
  second claims the point in between, and the error path of the first settles that claim.
  The property now says so.
- `OneTroubleIsSettled` needs `OwnerInv`: every point between two states has a job that
  owes it (`Owes`: it claimed the point and is in a place from which it settles it), and how
  many troubles have been spent where a runner has left its straight path (`TroubleTells`).
  A point is unowned only where one trouble has been spent and the next would be needed.
- `FailuresBlock` needs `BlockInv`: a runner that has to block again has met a trouble.
- `HistoryTold` needs `HistoryInv`, which carries a script's result from the instant it
  ends to the transaction that reports it. `HistoryTells` (one open row, and a rollback
  only of an intent that failed), `ScriptTells` (journal, files and gateway at each step
  of the script), `Succeeds` and `RolledBackTells` (nothing has touched since what is still
  to be reported, but a save; and the copies a key rotation would put back are of the
  reference reported). The last two hold with one trouble because then nobody else's script is
  about: until the first one every intent has its runner waiting (`Attended`), so only the
  one in progress can be left behind.
- `ReferencesChangeOnce` is the refinement: every step maps to one of `ReferenceChange` or
  a stutter. `ChangeInv` adds to the above that the rotation a runner has in hand has
  its row open (`RowsAreOpen`) and that a success still to be reported is settled
  (`DoneIsSettled`). It has no hypothesis on troubles: one change for each rotation, taken
  back only by its own journal, whatever fails, however often. The script's steps map to
  `Plan` (the checkpoint), `Make` (`swap`), `Disarm` (an error or a signal
  before it), `TakeBack` (the `swap` of a rollback or of an operator's recovery) and
  `SettleChange` (the journal goes); a half-done step to one of these or none
  (`HalvesKeepPromises`).

`PlatformProofs`

- `ImplementsItsParts`: a behaviour of `Platform` is a behaviour of each part, the others'
  steps being stutters to it (`PartsKeepToThemselves`). From it and the theorems of the
  parts: `PlatformTyping`, `PlatformKeepsItsParts`.

Proved for every instance and not repeated in a run: `TypeOK` of `HostCommands`, `ProjectJobs` and `OpaqueKeys`,
`PlatformTypeOK`,
`FinalIsFinal`, `OfflineMeansWithdrawn`, that a cancelled row is never leased,
`OneScript`, `RevealsLive`, `CutoverResumable`, `ScanNeverRaises`, `EndedTells`,
`AuditReplays`, `NothingOverwritten`, `AttemptsAreDistinct`.

Only model-checked: liveness (`WaitEnds`, `ZombieIsTold`, `OrphanIsReaped`, `JobEnds`,
`CutoverPersists`, `LapseReported`, `NotificationsEnd`: it needs fairness and ENABLED).
Every safety property of a passing run is a theorem; the violated ones have none.

## 5. Not modelled, and what comes next

Left out of the modules, and why it does not matter to their properties:

- `ProjectServices`, `ProjectOperations`: which service a setting affects is a free
  choice; a save that reads `.env` while a script rewrites it in place, and so takes a part
  of it; values of settings and their validation; that a recreation clears pending flags of
  values saved while it ran is modelled, that the Studio shows them is not.
- `KeyRotation`: `opaque_gateway_ready_at` is taken as set, as on every project
  that has finished its cutover. Limits and keys are written over `.env` by three edits one
  after another, here one read and one write; the keys the script gives to Storage, and
  takes back, are left out.
- `RestorePoints`: a restore that fails after the swap leaves the data it put back, or cannot
  and leaves the restored (`RestoreFails`); sizes, names, `restore_count`, which a resumed restore counts twice.
- `ProjectTeam`: tags, reads and lists, details of hints, the Studio's own
  sync endpoint; the count of last admins includes inactive users, as in the code.
- `PushOutbox`: message contents and OAuth; a send whose answer is lost is repeated, as
  in the code.
- `ProjectSecrets`: values of before the envelopes.
- `TenantPools`: building a DSN; a cancellation while a connection is given back.
- `ControlPlaneStart`: the SQL inside a migration or a grant is one step; every image
  provisions the same five roles, and what an enumerated one gets is all the tables of the
  image's migrations; `--skip-roles`; `migrate_client_configuration_material`, which runs after the migrator.
- `ProjectCapacity`: the exits of the script on totals that do not divide leave
  everything as it was.
- `OpaqueKeys`: `allowed_services`, names, hints, the keyset version.

Not modelled at all: the SQL assistant (one conversation), gateways (request filters
in Go and Lua), Elixir patches, screens and the generated client, the load and
bottleneck probes under `src/tools`, vendored lyaml, and the inside of the scripts
that generate and duplicate a project (they succeed or fail). Cryptography, HTTP
routing and serialisation are outside the models.

Next, in this order:

1. `KeyRotation` and `OpaqueKeys` on one project: the cutover's two intents among the other
   operations, and the authorizer's snapshot beside the Studio's cache.
2. The inside of generation and duplication, so that what a duplicate takes over
   (`ProjectCapacity.CloneKeepsSizing`) can be related to what was saved.
