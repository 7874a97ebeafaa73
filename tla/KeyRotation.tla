----------------------------- MODULE KeyRotation -----------------------------
(***************************************************************************)
(* Rotation of a project's API keys, asked for by an administrator or by   *)
(* the scheduler: the script that writes new keys into .env, the runner    *)
(* that stores them and raises the version, the block a failure puts on    *)
(* further automatic attempts, and the Studio's cache of the service key.  *)
(* Keys are numbered in the order they are generated.                      *)
(***************************************************************************)
EXTENDS ReferenceRotation

CONSTANT Trigger \* [Jobs -> {"manual", "automatic"}]: payload.trigger

KeyJobs == {j \in Jobs : Action[j] = "rotate_key"}

ASSUME KeyAssumption == Trigger \in [Jobs -> {"manual", "automatic"}]

VARIABLES
  generated, \* keys generated so far
  dbKey,     \* projects.service_role
  version,   \* projects.project_key_version
  automatic, \* automatic_key_rotation_enabled
  blocked,   \* automatic_key_rotation_blocked_at is set
  forgiven,  \* the failed jobs whose block was cleared since (for the properties)
  expiry,    \* key_expires_at: unknown, far or within the lead time
  wrote,     \* [Jobs -> version]: the version a rotation committed last
  required,  \* the Studio's required_version
  cached,    \* its cached_version, 0 without a value
  fetched,   \* the version of an enc-key answer on its way to the cache, or 0
  used,      \* the version of the key a request got last
  turn,      \* where rotate_key.sh is, with the project's lifecycle lock
  copy       \* its copies of the files

Turns == {"backup", "read", "write", "up", "publish", "rb_files", "rb_up", "rb_publish"}

keyVars == <<generated, dbKey, version, automatic, blocked, forgiven, expiry, wrote>>
cacheVars == <<required, cached, fetched, used>>
keyScriptVars == <<turn, copy>>
keyRotationVars == <<keyVars, cacheVars, keyScriptVars>>
filesAndScript == <<serviceVars, rotationVars, keyScriptVars>>

KeyInit ==
  /\ generated = 0 /\ dbKey = 0 /\ version = 1
  /\ automatic \in BOOLEAN
  /\ blocked = FALSE /\ forgiven = {}
  /\ expiry \in {"unknown", "near"}
  /\ wrote = [j \in Jobs |-> 0]
  /\ required = 0 /\ cached = 0 /\ fetched = 0 /\ used = 0
  /\ turn = "idle" /\ copy = [env |-> 0, files |-> 0, saved |-> Untouched]

KeyTypeOK ==
  /\ generated \in Nat /\ dbKey \in 0 .. generated
  /\ version \in Nat \ {0}
  /\ {automatic, blocked} \subseteq BOOLEAN
  /\ forgiven \subseteq KeyJobs
  /\ expiry \in {"unknown", "far", "near"}
  /\ wrote \in [Jobs -> 0 .. version]
  /\ {required, cached, fetched, used} \subseteq 0 .. version
  /\ turn \in {"idle"} \cup Turns
  /\ copy \in [env : Refs \cup {Broken}, files : Refs \cup {Broken}, saved : [Entries -> Nat]]

KeyPlaces == {"wait", "store", "invalidate", "finish", "block", "block_again"}

-----------------------------------------------------------------------------
(* rotate_project_key, update_automatic_key_rotation and the scheduler     *)

AcceptManual(j) ==
  /\ j \in KeyJobs /\ Trigger[j] = "manual"
  /\ ~\E k \in KeyJobs : Active(k)
  /\ AcceptJob(j)
  /\ UNCHANGED <<filesAndScript, keyRotationVars>>

\* What may be scanned: enabled, not blocked, nothing of the project in progress.
MayRotate == automatic /\ ~blocked /\ \A k \in Jobs : ~Active(k)

\* One candidate of scan_automatic_key_rotations: a job when the keys expire soon.
ScanClaims(j) ==
  /\ j \in KeyJobs /\ Trigger[j] = "automatic"
  /\ MayRotate
  /\ expiry = "near"
  /\ AcceptJob(j)
  /\ UNCHANGED <<filesAndScript, keyRotationVars>>

\* An unknown expiry is read from the keys, or blocks when they have none.
ScanReadsExpiry ==
  /\ api = "up" /\ project
  /\ MayRotate
  /\ expiry = "unknown"
  /\ \/ expiry' \in {"far", "near"} /\ UNCHANGED blocked
     \/ blocked' = TRUE /\ UNCHANGED expiry
  /\ UNCHANGED <<runnerVars, filesAndScript, generated, dbKey, version, automatic, forgiven, wrote,
                 cacheVars>>

KeysAge ==
  /\ expiry = "far"
  /\ expiry' = "near"
  /\ UNCHANGED <<runnerVars, filesAndScript, generated, dbKey, version, automatic, blocked,
                 forgiven, wrote, cacheVars>>

Failures == {j \in KeyJobs : job[j] = "failed"}

\* Enabling clears the block.
SetAutomatic(enabled) ==
  /\ api = "up" /\ project
  /\ automatic # enabled \/ blocked
  /\ automatic' = enabled
  /\ blocked' = (blocked /\ ~enabled)
  /\ forgiven' = IF enabled THEN Failures ELSE forgiven
  /\ UNCHANGED <<runnerVars, filesAndScript, generated, dbKey, version, expiry, wrote,
                 cacheVars>>

\* block_automatic_key_rotation
Block == blocked' = (blocked \/ automatic)

\* enqueue_project_action raised: the scheduler blocks, the endpoint does nothing.
KeyRotationNotQueued(j) ==
  /\ j \in KeyJobs
  /\ pc[j] = "compensate"
  /\ IF Trigger[j] = "automatic" THEN Block ELSE UNCHANGED blocked
  /\ Goto(j, "none")
  /\ UNCHANGED <<still, project, job, queue, command, api, troubles, filesAndScript,
                 generated, dbKey, version, automatic, forgiven, expiry, wrote, cacheVars>>

-----------------------------------------------------------------------------
(* _rotate_project_key_background                                          *)

KeyRotationBegins(j) ==
  /\ j \in KeyJobs
  /\ pc[j] = "begin"
  /\ Settle(j, "running")
  /\ AttachIntent(The(j))
  /\ Goto(j, "wait")
  /\ UNCHANGED <<still, project, queue, api, troubles, filesAndScript, keyRotationVars>>

\* Faulty variant: only the job is failed.
AfterFailureNothing(j, place) == "none"

\* fail_rotation: the job first, the block in a transaction of its own.
AfterFailure(j, place) == IF Trigger[j] = "automatic" THEN place ELSE "none"

RotationEnds(j) ==
  /\ j \in KeyJobs
  /\ pc[j] = "wait"
  /\ Ended(The(j))
  /\ IF command[The(j)] = "done" /\ files
     THEN Goto(j, "store") /\ UNCHANGED job
     ELSE Settle(j, "failed") /\ Goto(j, AfterFailure(j, "block"))
  /\ UNCHANGED <<still, project, queue, command, api, troubles, filesAndScript,
                 keyRotationVars>>

\* The keys are those .env holds now; one transaction stores them, raises the version,
\* notes when they expire and clears the block.
StoreKeys(j) ==
  /\ j \in KeyJobs
  /\ pc[j] = "store"
  /\ project
  /\ dbKey' = saved["keys"]
  /\ version' = version + 1
  /\ wrote' = [wrote EXCEPT ![j] = version']
  /\ blocked' = FALSE
  /\ forgiven' = Failures
  /\ expiry' = "far"
  /\ Goto(j, "invalidate")
  /\ UNCHANGED <<still, project, job, queue, command, api, troubles, filesAndScript,
                 generated, automatic, cacheVars>>

\* invalidate_service_key_cache, and the Studio's side of it.
Invalidate(j) ==
  /\ j \in KeyJobs
  /\ pc[j] = "invalidate"
  /\ required' = IF wrote[j] > required THEN wrote[j] ELSE required
  /\ cached' = IF cached < required' THEN 0 ELSE cached
  /\ Goto(j, "finish")
  /\ UNCHANGED <<still, project, job, queue, command, api, troubles, filesAndScript,
                 keyVars, fetched, used>>

KeyRotationDone(j) ==
  /\ j \in KeyJobs
  /\ pc[j] = "finish"
  /\ Settle(j, "done")
  /\ Goto(j, "none")
  /\ UNCHANGED <<still, project, queue, command, api, troubles, filesAndScript,
                 keyRotationVars>>

\* A statement fails, the Studio does not answer three times, the project is gone.
KeyRotationRaises(j) ==
  /\ j \in KeyJobs
  /\ pc[j] \in {"begin", "wait", "store", "invalidate", "finish"}
  /\ IF pc[j] = "store" /\ ~project THEN UNCHANGED troubles ELSE Trouble
  /\ Settle(j, "failed")
  /\ Goto(j, AfterFailure(j, "block_again"))
  /\ UNCHANGED <<still, project, queue, command, api, filesAndScript, keyRotationVars>>

BlockAfterFailure(j) ==
  /\ j \in KeyJobs
  /\ pc[j] \in {"block", "block_again"}
  /\ Block
  /\ Goto(j, "none")
  /\ UNCHANGED <<still, project, job, queue, command, api, troubles, filesAndScript,
                 generated, dbKey, version, automatic, forgiven, expiry, wrote, cacheVars>>

\* That transaction fails: except Exception calls fail_rotation once more.
BlockFails(j) ==
  /\ j \in KeyJobs
  /\ pc[j] \in {"block", "block_again"}
  /\ Trouble
  /\ Goto(j, IF pc[j] = "block" THEN "block_again" ELSE "none")
  /\ UNCHANGED <<still, project, job, queue, command, api, filesAndScript,
                 keyRotationVars>>

-----------------------------------------------------------------------------
(* rotate_key.sh, under the project's lifecycle lock.  It withdraws the    *)
(* project from the Functions service, copies and writes the files, creates *)
(* nginx again and publishes; an error puts the copies back.  The API takes *)
(* no notice of the lock: a save may fall between any two steps.           *)

beside == <<pending, saves, asked, admitted, ref, journal, log, step, holder, history, oldRef,
            rolledBack, raced, dbKey, version, automatic, blocked, forgiven, expiry, wrote,
            cacheVars>>
touched == <<envRef, fileRef, gateway, up, saved, applied, projection, withdrawn, generated>>

Env(env, settings) ==
  /\ envRef' = env /\ saved' = settings
  /\ UNCHANGED <<gateway, up, applied, projection, withdrawn>>
Files(content) == fileRef' = content /\ UNCHANGED <<gateway, up, applied, projection, withdrawn>>
InEntry(entry, marked) ==
  /\ projection' = entry /\ withdrawn' = marked
  /\ UNCHANGED <<envRef, fileRef, gateway, up, saved, applied, generated>>

\* docker compose up --build with what the files hold now.
NginxUp ==
  /\ gateway' = fileRef /\ up' = TRUE
  /\ applied' = [applied EXCEPT !["nginx"] = saved["nginx"]]
  /\ UNCHANGED <<envRef, fileRef, saved, projection, withdrawn, generated>>

\* The agent, and project_public_ref_assert again with the lock: .env and the database
\* have one reference.
KeyScriptAccepts == SameReference

KeyScriptStarts(j) ==
  /\ j \in KeyJobs
  /\ step = "idle" /\ turn = "idle"
  /\ command[The(j)] = "running"

KeyScriptBegins(j) ==
  /\ KeyScriptStarts(j) /\ KeyScriptAccepts
  /\ turn' = "backup"
  /\ InEntry(None, TRUE)
  /\ UNCHANGED <<runnerVars, beside, lines, copy>>

\* Refused, or failed before the withdrawal is done.
KeyScriptRefused(j) ==
  /\ KeyScriptStarts(j)
  /\ IF KeyScriptAccepts
     THEN Trouble /\ \E marked \in {withdrawn, TRUE} : InEntry(projection, marked)
     ELSE UNCHANGED <<troubles, touched>>
  /\ Host!Fail({The(j)})
  /\ UNCHANGED <<still, project, job, pc, queue, api, beside, lines, keyScriptVars>>

AtTurn(j, where) == turn = where /\ j \in KeyJobs /\ command[The(j)] = "running"

NewKeys(settings) == [settings EXCEPT !["keys"] = generated + 1]

\* The reference asked for with the lock goes into the templates; the keys and the limits are
\* written over .env after it was read.
KeyScriptStep(j) ==
  /\ \/ /\ AtTurn(j, "backup") /\ turn' = "read"
        /\ copy' = [env |-> envRef, files |-> fileRef, saved |-> saved]
        /\ UNCHANGED <<touched, lines>>
     \/ /\ AtTurn(j, "read") /\ turn' = "write"
        /\ Files(ref) /\ lines' = [env |-> envRef, saved |-> saved]
        /\ UNCHANGED <<envRef, saved, generated, copy>>
     \/ /\ AtTurn(j, "write") /\ turn' = "up"
        /\ Env(lines.env, NewKeys(lines.saved)) /\ generated' = generated + 1
        /\ UNCHANGED <<fileRef, lines, copy>>
     \/ AtTurn(j, "up") /\ turn' = "publish" /\ NginxUp /\ UNCHANGED <<lines, copy>>
     \/ \* rollback_transaction
        /\ AtTurn(j, "rb_files") /\ turn' = "rb_up"
        /\ Env(copy.env, copy.saved) /\ Files(copy.files)
        /\ UNCHANGED <<generated, lines, copy>>
     \/ AtTurn(j, "rb_up") /\ turn' = "rb_publish" /\ NginxUp /\ UNCHANGED <<lines, copy>>
  /\ UNCHANGED <<runnerVars, beside>>

KeyScriptDone(j) ==
  /\ AtTurn(j, "publish") /\ turn' = "idle"
  /\ InEntry(envRef, FALSE)
  /\ Host!Succeed(The(j))
  /\ UNCHANGED <<still, project, job, pc, queue, api, troubles, beside, lines, copy>>

\* The ERR trap sees the commands outside of functions: chmod and docker compose.
KeyScriptTurnsBack(j) ==
  /\ \/ AtTurn(j, "write") /\ UNCHANGED touched
     \/ AtTurn(j, "up") /\ (NginxUp \/ UNCHANGED touched)
  /\ Trouble
  /\ turn' = "rb_files"
  /\ UNCHANGED <<still, project, job, pc, queue, command, api, beside, lines, copy>>

KeyScriptTurnedBack(j) ==
  /\ AtTurn(j, "rb_publish") /\ turn' = "idle"
  /\ InEntry(envRef, FALSE)
  /\ Host!Fail({The(j)})
  /\ UNCHANGED <<still, project, job, pc, queue, api, troubles, beside, lines, copy>>

\* Half a step.  The limits are written over .env in place, one file is copied after the
\* other, and the rollback goes on after a copy that fails.
KeyHalfway ==
  \/ UNCHANGED touched
  \/ turn = "read" /\ Files(Broken) /\ UNCHANGED <<envRef, saved, generated>>
  \/ /\ turn = "write"
     /\ \/ Env(Broken, saved) /\ UNCHANGED generated
        \/ Env(lines.env, lines.saved) /\ UNCHANGED generated
        \/ Env(lines.env, NewKeys(lines.saved)) /\ generated' = generated + 1
     /\ UNCHANGED fileRef
  \/ turn \in {"up", "rb_up"} /\ NginxUp
  \/ turn \in {"publish", "rb_publish"} /\ InEntry(envRef, withdrawn)
  \/ /\ turn = "rb_files"
     /\ \/ envRef' = Broken /\ UNCHANGED saved
        \/ envRef' = copy.env /\ saved' = copy.saved
        \/ UNCHANGED <<envRef, saved>>
     /\ fileRef' \in {Broken, copy.files}
     /\ \/ UNCHANGED <<gateway, up, applied>>
        \/ /\ gateway' = fileRef' /\ up' = TRUE
           /\ applied' = [applied EXCEPT !["nginx"] = saved'["nginx"]]
     /\ UNCHANGED <<projection, withdrawn, generated>>

\* die(), or a failure in a function: everything is left as it is.
KeyScriptDies(j) ==
  /\ \E where \in Turns : AtTurn(j, where)
  /\ Trouble
  /\ KeyHalfway
  /\ turn' = "idle"
  /\ Host!Fail({The(j)})
  /\ UNCHANGED <<still, project, job, pc, queue, api, beside, lines, copy>>

\* The agent is killed.
KeyScriptLost(j) ==
  /\ j \in KeyJobs
  /\ HostLost(The(j))
  /\ IF command[The(j)] = "running" THEN KeyHalfway /\ turn' = "idle"
     ELSE UNCHANGED <<touched, turn>>
  /\ UNCHANGED <<files, beside, lines, copy>>

-----------------------------------------------------------------------------
(* get_service_key.lua and service_key_version.lua of the Studio.          *)

\* get_required_version: the version in the database is asked for now and then.
Promote ==
  /\ required < version
  /\ required' = version
  /\ UNCHANGED <<runnerVars, filesAndScript, keyVars, cached, fetched, used>>

\* enc_key: the key and its version, in one transaction.
FetchKey ==
  /\ api = "up" /\ project
  /\ fetched = 0
  /\ cached = 0 \/ cached < required
  /\ fetched' = version
  /\ UNCHANGED <<runnerVars, filesAndScript, keyVars, required, cached, used>>

\* Faulty variant: whatever was fetched is published.
IsRecentAlways(candidate) == TRUE

IsRecent(candidate) == candidate >= required

\* The answer goes to the cache and to the request, or to neither.  A request answered from
\* the cache gets the key published last again.
PublishKey ==
  /\ fetched # 0
  /\ fetched' = 0
  /\ IF IsRecent(fetched)
     THEN /\ required' = fetched
          /\ cached' = fetched
          /\ used' = fetched
     ELSE UNCHANGED <<required, cached, used>>
  /\ UNCHANGED <<runnerVars, filesAndScript, keyVars>>
=============================================================================
