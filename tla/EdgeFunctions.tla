---------------------------- MODULE EdgeFunctions ----------------------------
(***************************************************************************)
(* The Edge Functions of a project: drafts and published versions in       *)
(* state.json, the runtime's context in a file of its own, and the block   *)
(* and network policy in the database. Requests work under the project's   *)
(* file lock, which the kernel frees when the process is killed. A         *)
(* publication writes two files: publication.json, written before them,    *)
(* tells the next request what was under way.                              *)
(***************************************************************************)
EXTENDS Naturals, FiniteSets

CONSTANTS Functions, Codes,        \* function names; what a function's files may be
          Networks, Network0,      \* network policies, and the first one
          FunctionScenarios,       \* what may be asked in a behaviour: sets of FunctionRequest
          MaxKills, MaxStorageErrors, \* bounds on faults
          None

FunctionRequest == [id : Nat, op : {"save", "publish", "configure"}, function : Functions,
                    code : Codes, enabled : BOOLEAN, network : Networks]

\* state.json, the file of the runtime's context, publication.json.
Pointers == [Functions -> [draft : Codes \cup {None}, published : Codes \cup {None}]]
Contexts == [files : [Functions -> Codes \cup {None}], network : Networks]
Intents == [previous : Pointers, proposed : Pointers, revision : Contexts]

ASSUME EdgeFunctionsAssumption ==
  /\ None \notin Codes /\ None \notin FunctionRequest /\ None \notin Intents
  /\ Network0 \in Networks
  /\ \A S \in FunctionScenarios : S \subseteq FunctionRequest
  /\ MaxKills \in Nat /\ MaxStorageErrors \in Nat

VARIABLES
  wanted,        \* the requests of this behaviour
  pointers,      \* state.json: [draft, published] of each function
  intent,        \* publication.json: None or [previous, proposed, revision]
  context,       \* the runtime's context: None or [files, network]
  settings,      \* project_edge_functions: [enabled, network]
  lock,          \* who holds the project's lock
  step,          \* how far a request is
  expected,      \* the pointers its author had on the screen
  prepared,      \* the context it prepared
  previous,      \* the pointers and the context it found
  kills, storageErrors

fileVars  == <<pointers, intent, context, settings>>
localVars == <<expected, prepared, previous>>
faultVars == <<kills, storageErrors>>
edgeVars  == <<wanted, fileVars, lock, step, localVars, faultVars>>

NoFile == [draft |-> None, published |-> None]
Files(p) == [f \in Functions |-> p[f].published]
Context(p, network) == [files |-> Files(p), network |-> network]

EdgeInit ==
  /\ wanted \in FunctionScenarios
  /\ pointers = [f \in Functions |-> NoFile] /\ intent = None /\ context = None
  /\ settings = [enabled |-> TRUE, network |-> Network0]
  /\ lock = None
  /\ step = [r \in wanted |-> "new"]
  /\ expected = [r \in wanted |-> NoFile]
  /\ prepared = [r \in wanted |-> None]
  /\ previous = [r \in wanted |-> None]
  /\ kills = 0 /\ storageErrors = 0

EdgeTypeOK ==
  /\ pointers \in Pointers /\ intent \in Intents \cup {None} /\ context \in Contexts \cup {None}
  /\ settings \in [enabled : BOOLEAN, network : Networks]
  /\ lock \in wanted \cup {None}
  /\ step \in [wanted -> {"new", "sent", "locked", "recovering", "loaded", "prepared",
       "intended", "active", "written", "blocked", "withdrawn", "applied", "restoring",
       "restored", "reset", "failing", "done", "refused"}]

-----------------------------------------------------------------------------
(* Locking and loading. *)

Goes(r, from, to) == step[r] = from /\ step' = [step EXCEPT ![r] = to]

\* The author has read the function when he sends his change.
Send(r) ==
  /\ r \in wanted /\ Goes(r, "new", "sent")
  /\ expected' = [expected EXCEPT ![r] = pointers[r.function]]
  /\ UNCHANGED <<wanted, fileVars, lock, prepared, previous, faultVars>>

\* configuration_lock: a flock that is polled, by whoever comes first.
Lock(r) ==
  /\ lock = None /\ lock' = r /\ Goes(r, "sent", "locked")
  /\ UNCHANGED <<wanted, fileVars, localVars, faultVars>>

Unlock(r, at) == lock' = None /\ step' = [step EXCEPT ![r] = at]

\* recover_publication accepts an intent that activates exactly one saved draft.
Changed(i) == {f \in Functions : i.previous[f] # i.proposed[f]}
Recoverable(i) ==
  /\ Cardinality(Changed(i)) = 1
  /\ \A f \in Functions : i.previous[f].draft = i.proposed[f].draft
  /\ \A f \in Changed(i) : i.proposed[f].published = i.proposed[f].draft

\* What was activated counts as published, what was not is undone.
Recovered(i) == IF context = i.revision THEN i.proposed ELSE i.previous

\* load: without an intent the pointers are read as they are.
Load(r) ==
  /\ intent = None /\ Goes(r, "locked", "loaded")
  /\ previous' = [previous EXCEPT ![r] = [pointers |-> pointers, context |-> context]]
  /\ UNCHANGED <<wanted, fileVars, lock, expected, prepared, faultVars>>

RecoverPointers(r) ==
  /\ intent # None /\ Recoverable(intent) /\ pointers \in {intent.previous, intent.proposed}
  /\ Goes(r, "locked", "recovering")
  /\ pointers' = Recovered(intent)
  /\ UNCHANGED <<wanted, intent, context, settings, lock, localVars, faultVars>>

FinishRecovery(r) ==
  /\ Goes(r, "recovering", "locked") /\ intent' = None
  /\ UNCHANGED <<wanted, pointers, context, settings, lock, localVars, faultVars>>

\* Withdrawn, and 503; but who only wants to block the functions goes on without them.
RecoveryFails(r) ==
  /\ step[r] = "locked" /\ intent # None
  /\ ~ (Recoverable(intent) /\ pointers \in {intent.previous, intent.proposed})
  /\ context' = None
  /\ IF r.op = "configure" /\ ~r.enabled
     THEN step' = [step EXCEPT ![r] = "loaded"] /\ UNCHANGED lock
     ELSE Unlock(r, "refused")
  /\ UNCHANGED <<wanted, pointers, intent, settings, localVars, faultVars>>

-----------------------------------------------------------------------------
(* Saving a draft. *)

Save(r) ==
  /\ r.op = "save" /\ step[r] = "loaded"
  /\ IF expected[r].draft = pointers[r.function].draft
     THEN pointers' = [pointers EXCEPT ![r.function].draft = r.code] /\ Unlock(r, "done")
     ELSE UNCHANGED pointers /\ Unlock(r, "refused")
  /\ UNCHANGED <<wanted, intent, context, settings, localVars, faultVars>>

-----------------------------------------------------------------------------
(* Publishing the draft that was seen. *)

Proposed(r) == [pointers EXCEPT ![r.function].published = expected[r].draft]

MayPublish(r) ==
  settings.enabled /\ expected[r] = pointers[r.function] /\ expected[r].draft # None

\* prepare_context: the code of the new generation is laid out beside the old one.
PreparePublication(r) ==
  /\ r.op = "publish" /\ step[r] = "loaded"
  /\ IF MayPublish(r)
     THEN /\ prepared' = [prepared EXCEPT ![r] = Context(Proposed(r), settings.network)]
          /\ step' = [step EXCEPT ![r] = "prepared"] /\ UNCHANGED lock
     ELSE Unlock(r, "refused") /\ UNCHANGED prepared
  /\ UNCHANGED <<wanted, fileVars, expected, previous, faultVars>>

\* Faulty variant: the context is activated without an intent.
IntendedNothing(r) == None

\* begin_publication
Intended(r) == [previous |-> pointers, proposed |-> Proposed(r), revision |-> prepared[r]]

BeginPublication(r) ==
  /\ Goes(r, "prepared", "intended") /\ intent' = Intended(r)
  /\ UNCHANGED <<wanted, pointers, context, settings, lock, localVars, faultVars>>

Activate(r) ==
  /\ Goes(r, "intended", "active") /\ context' = prepared[r]
  /\ UNCHANGED <<wanted, pointers, intent, settings, lock, localVars, faultVars>>

WritePublished(r) ==
  /\ Goes(r, "active", "written") /\ pointers' = Proposed(r)
  /\ UNCHANGED <<wanted, intent, context, settings, lock, localVars, faultVars>>

FinishPublication(r) ==
  /\ step[r] = "written" /\ intent' = None /\ Unlock(r, "done")
  /\ UNCHANGED <<wanted, pointers, context, settings, localVars, faultVars>>

\* Storage fails in one of the writes: the context and the pointers are put back, and
\* the intent is removed. Then management_context withdraws what was put back.
PublicationFails(r) ==
  /\ storageErrors < MaxStorageErrors /\ storageErrors' = storageErrors + 1
  /\ step[r] \in {"prepared", "intended", "active"} /\ step' = [step EXCEPT ![r] = "restoring"]
  /\ UNCHANGED <<wanted, fileVars, lock, localVars, kills>>

RestoreContext(r) ==
  /\ Goes(r, "restoring", "restored") /\ context' = previous[r].context
  /\ UNCHANGED <<wanted, pointers, intent, settings, lock, localVars, faultVars>>

RestorePointers(r) ==
  /\ Goes(r, "restored", "reset") /\ pointers' = previous[r].pointers
  /\ UNCHANGED <<wanted, intent, context, settings, lock, localVars, faultVars>>

AbandonPublication(r) ==
  /\ Goes(r, "reset", "failing") /\ intent' = None
  /\ UNCHANGED <<wanted, pointers, context, settings, lock, localVars, faultVars>>

WithdrawFailed(r) ==
  /\ step[r] = "failing" /\ context' = None /\ Unlock(r, "refused")
  /\ UNCHANGED <<wanted, pointers, intent, settings, localVars, faultVars>>

-----------------------------------------------------------------------------
(* The settings: blocked in the database before anything is changed. *)

\* Faulty variant: the block is not written before the context is replaced.
BlockFirstNever(s) == s

BlockFirst(s) == [s EXCEPT !.enabled = FALSE]

Block(r) ==
  /\ r.op = "configure" /\ Goes(r, "loaded", "blocked")
  /\ settings' = BlockFirst(settings)
  /\ UNCHANGED <<wanted, pointers, intent, context, lock, localVars, faultVars>>

WithdrawContext(r) ==
  /\ Goes(r, "blocked", "withdrawn") /\ context' = None
  /\ UNCHANGED <<wanted, pointers, intent, settings, lock, localVars, faultVars>>

ApplyContext(r) ==
  /\ r.enabled /\ Goes(r, "withdrawn", "applied")
  /\ context' = Context(pointers, r.network)
  /\ UNCHANGED <<wanted, pointers, intent, settings, lock, localVars, faultVars>>

StoreSettings(r) ==
  /\ step[r] = IF r.enabled THEN "applied" ELSE "withdrawn"
  /\ r.op = "configure"
  /\ settings' = [enabled |-> r.enabled, network |-> r.network] /\ Unlock(r, "done")
  /\ UNCHANGED <<wanted, pointers, intent, context, localVars, faultVars>>

\* The context cannot be prepared, or the database does not take the settings.
ConfigurationFails(r) ==
  /\ storageErrors < MaxStorageErrors /\ storageErrors' = storageErrors + 1
  /\ r.op = "configure" /\ step[r] \in {"withdrawn", "applied"}
  /\ context' = None /\ Unlock(r, "refused")
  /\ UNCHANGED <<wanted, pointers, intent, settings, localVars, kills>>

-----------------------------------------------------------------------------
\* The API is killed: its requests end where they are, and the lock is free.
Kill ==
  /\ kills < MaxKills /\ kills' = kills + 1
  /\ lock # None /\ lock' = None
  /\ step' = [r \in wanted |->
                IF step[r] \in {"new", "done", "refused"} THEN step[r] ELSE "refused"]
  /\ UNCHANGED <<wanted, fileVars, localVars, storageErrors>>

EdgeNext ==
  \/ Kill
  \/ \E r \in wanted :
       \/ Send(r) \/ Lock(r) \/ Load(r) \/ RecoverPointers(r) \/ FinishRecovery(r) \/ RecoveryFails(r)
       \/ Save(r)
       \/ PreparePublication(r) \/ BeginPublication(r) \/ Activate(r) \/ WritePublished(r)
       \/ FinishPublication(r) \/ PublicationFails(r) \/ RestoreContext(r) \/ RestorePointers(r)
       \/ AbandonPublication(r) \/ WithdrawFailed(r)
       \/ Block(r) \/ WithdrawContext(r) \/ ApplyContext(r) \/ StoreSettings(r) \/ ConfigurationFails(r)

EdgeSpec == EdgeInit /\ [][EdgeNext]_edgeVars

-----------------------------------------------------------------------------
(* Correctness. *)

\* What is reachable is what was published, under the network policy the database
\* shows, wherever a process was killed or a write failed; only while a publication
\* is under way, or was interrupted, may it be the version before or after it.
ServedIsPublished ==
  settings.enabled /\ context # None =>
    /\ context.network = settings.network
    /\ \/ context.files = Files(pointers)
       \/ intent # None /\ context.files \in {Files(intent.previous), Files(intent.proposed)}

\* "A process killed after runtime activation can be recovered without publishing
\* any later draft": the intent it leaves on disk is one the next request can recover.
InterruptedIsRecoverable == intent # None /\ lock = None => Recoverable(intent)
=============================================================================
