---------------------------- MODULE ProjectSecrets ----------------------------
(***************************************************************************)
(* The secrets of a project at rest: its two service keys in columns of    *)
(* projects, other material (API keys to reveal, the Functions' and the    *)
(* Studio's keys) in tables of their own, all encrypted with the project's *)
(* data key (DEK), which its envelope holds wrapped by the master key. The *)
(* envelope is made when it is first needed, and wrapped again by whoever  *)
(* meets it under an older master key. The migration tool does the same    *)
(* for all projects, and on request replaces the DEK.                      *)
(***************************************************************************)
EXTENDS Naturals, FiniteSets

CONSTANTS Columns, Material,   \* what is stored: of these kinds
          SecretScenarios      \* what may be done in a behaviour: sets of Work

Items == Columns \cup Material
Work  == [id : Nat \ {0}, op : {"store", "read", "migrate"}, item : Items, rotate : BOOLEAN]

ASSUME SecretsAssumption ==
  /\ Columns \cap Material = {}
  /\ \A S \in SecretScenarios : S \subseteq Work

VARIABLES
  work,     \* the work of this behaviour
  envelope,  \* project_key_envelopes: [key, dek, wrap]; key 0: no row
  stored,    \* what an item is encrypted with, and what it says: [key, dek, value]; key 0: nothing
  truth,     \* the value last stored
  holder,    \* who holds the envelope's row: an id, or 0
  undo,      \* the envelope as it was committed
  phase,     \* how far the work is
  has,       \* the envelope it works with
  took,      \* the rows it has read
  masters    \* [current, known]: PROJECT_SECRETS_MASTER_KEY and the previous ones

secretsVars == <<work, envelope, stored, truth, holder, undo, phase, has, took, masters>>

NoEnvelope == [key |-> 0, dek |-> 0, wrap |-> 0]
Nothing == [key |-> 0, dek |-> 0, value |-> 0]

SecretsInit ==
  /\ work \in SecretScenarios
  /\ envelope = NoEnvelope /\ undo = NoEnvelope /\ holder = 0
  /\ stored = [i \in Items |-> Nothing] /\ truth = [i \in Items |-> 0]
  /\ phase = [w \in work |-> "new"]
  /\ has = [w \in work |-> NoEnvelope]
  /\ took = [w \in work |-> stored]
  /\ masters = [current |-> 1, known |-> {1}]

SecretsTypeOK ==
  /\ envelope \in [key : Nat, dek : Nat, wrap : 0 .. 2]
  /\ stored \in [Items -> [key : Nat, dek : Nat, value : Nat]]
  /\ holder \in {w.id : w \in work} \cup {0}
  /\ phase \in [work -> {"new", "absent", "row", "unlocked", "locked", "done", "failed"}]
  /\ masters \in [current : 1 .. 2, known : SUBSET (1 .. 2)]

-----------------------------------------------------------------------------
(* _get_project_key_envelope. *)

Step(w, to) == phase' = [phase EXCEPT ![w] = to]

\* The row as its locker finds it, wrapped by the current master key from now on.
Wrapped(e) == [e EXCEPT !.wrap = masters.current]

\* unwrap_dek needs the master key the row is wrapped with.
Unwraps(e) == e.wrap \in masters.known

\* SELECT ... FOR UPDATE inside a transaction.
TakeEnvelope(w) ==
  /\ holder = 0 /\ envelope.key # 0
  /\ IF Unwraps(envelope)
     THEN /\ envelope' = Wrapped(envelope) /\ holder' = w.id
          /\ has' = [has EXCEPT ![w] = Wrapped(envelope)] /\ Step(w, "locked")
     ELSE Step(w, "failed") /\ UNCHANGED <<envelope, holder, has>>
  /\ UNCHANGED <<work, stored, truth, undo, took, masters>>

LockEnvelope(w) == w.op = "store" /\ phase[w] = "new" /\ TakeEnvelope(w)

\* There is no row: a key is made, to be inserted.
FindNoEnvelope(w) ==
  /\ w.op = "store" /\ phase[w] = "new" /\ holder = 0 /\ envelope.key = 0
  /\ Step(w, "absent")
  /\ UNCHANGED <<work, envelope, stored, truth, holder, undo, has, took, masters>>

Made(w) == [key |-> w.id, dek |-> w.id, wrap |-> masters.current]

\* INSERT ... ON CONFLICT DO NOTHING waits for a row another transaction is inserting.
InsertEnvelope(w) ==
  /\ phase[w] = "absent" /\ holder = 0 /\ envelope.key = 0
  /\ envelope' = Made(w) /\ holder' = w.id
  /\ has' = [has EXCEPT ![w] = Made(w)] /\ Step(w, "locked")
  /\ UNCHANGED <<work, stored, truth, undo, took, masters>>

\* Faulty variant: the key that was made is used although another one is stored.
AfterConflictMade(w) ==
  /\ envelope.key # 0 /\ holder = 0 /\ holder' = w.id
  /\ has' = [has EXCEPT ![w] = Made(w)] /\ Step(w, "locked")
  /\ UNCHANGED <<work, envelope, stored, truth, undo, took, masters>>

\* Another one is stored by now: it is locked, read again and used.
AfterConflict(w) == TakeEnvelope(w)

MeetConflict(w) == phase[w] = "absent" /\ AfterConflict(w)

-----------------------------------------------------------------------------
(* Storing and reading. *)

\* encrypt, the UPDATE and the commit.
Store(w) ==
  /\ w.op = "store" /\ phase[w] = "locked" /\ Step(w, "done")
  /\ stored' = [stored EXCEPT ![w.item] = [key |-> has[w].key, dek |-> has[w].dek, value |-> w.id]]
  /\ truth' = [truth EXCEPT ![w.item] = w.id]
  /\ holder' = 0 /\ undo' = envelope
  /\ UNCHANGED <<work, envelope, has, took, masters>>

\* The transaction is rolled back, the row it inserted or wrapped with it.
Abort(w) ==
  /\ phase[w] = "locked" /\ Step(w, "failed")
  /\ envelope' = undo /\ holder' = 0
  /\ UNCHANGED <<work, stored, truth, undo, has, took, masters>>

\* A reader has no transaction: it reads the item, then the envelope, and keeps no lock.
ReadRow(w) ==
  /\ w.op = "read" /\ phase[w] = "new" /\ stored[w.item].key # 0
  /\ took' = [took EXCEPT ![w] = stored] /\ Step(w, "row")
  /\ UNCHANGED <<work, envelope, stored, truth, holder, undo, has, masters>>

ReadEnvelope(w) ==
  /\ w.op = "read" /\ phase[w] = "row" /\ holder = 0
  /\ has' = [has EXCEPT ![w] = envelope]
  /\ Step(w, IF Unwraps(envelope) THEN "unlocked" ELSE "failed")
  /\ UNCHANGED <<work, envelope, stored, truth, holder, undo, took, masters>>

\* The envelope is wrapped again if it was met under an older master key, and the item
\* is decrypted if it was encrypted with that envelope's key.
Read(w) ==
  /\ phase[w] = "unlocked" /\ holder = 0
  /\ envelope' = IF has[w].wrap # masters.current
                 THEN [envelope EXCEPT !.dek = has[w].dek, !.wrap = masters.current] ELSE envelope
  /\ undo' = envelope'
  /\ Step(w, IF took[w][w.item].key = has[w].key THEN "done" ELSE "failed")
  /\ UNCHANGED <<work, stored, truth, holder, has, took, masters>>

-----------------------------------------------------------------------------
(* app.migrate_project_secrets --apply. *)

\* The columns of all projects are read first, without a lock.
MigrateBegins(w) ==
  /\ w.op = "migrate" /\ phase[w] = "new" /\ \E i \in Columns : stored[i].key # 0
  /\ took' = [took EXCEPT ![w] = stored] /\ Step(w, "row")
  /\ UNCHANGED <<work, envelope, stored, truth, holder, undo, has, masters>>

MigrateLocks(w) == w.op = "migrate" /\ phase[w] = "row" /\ TakeEnvelope(w)

\* What is stored again when the DEK is replaced: the columns, and only they.
ReEncrypted == Columns

\* The values that were read, with the key they are to have from now on; without
\* --rotate-deks they are only tried.
MigrateCommits(w) ==
  /\ w.op = "migrate" /\ phase[w] = "locked" /\ holder' = 0
  /\ LET values == {i \in ReEncrypted : took[w][i].key # 0}
     IN IF \E i \in values : took[w][i].key # has[w].key
        THEN Step(w, "failed") /\ envelope' = undo /\ UNCHANGED <<stored, undo>>
        ELSE /\ Step(w, "done")
             /\ IF w.rotate
                THEN /\ envelope' = Made(w)
                     /\ stored' = [i \in Items |->
                          IF i \in values
                          THEN [key |-> w.id, dek |-> w.id, value |-> took[w][i].value]
                          ELSE stored[i]]
                ELSE UNCHANGED <<envelope, stored>>
             /\ undo' = envelope'
  /\ UNCHANGED <<work, truth, has, took, masters>>

\* The API is started again with a new master key and the previous one...
MasterKeyChanges ==
  /\ masters.current = 1 /\ \A w \in work : phase[w] \in {"new", "done", "failed"}
  /\ masters' = [current |-> 2, known |-> {1, 2}]
  /\ UNCHANGED <<work, envelope, stored, truth, holder, undo, phase, has, took>>

\* ... which is removed after the migration tool has gone through.
PreviousKeyIsRemoved ==
  /\ masters.current = 2 /\ \A w \in work : phase[w] \in {"new", "done", "failed"}
  /\ \E w \in work : w.op = "migrate" /\ phase[w] = "done" /\ has[w].wrap = 2
  /\ masters' = [current |-> 2, known |-> {2}]
  /\ UNCHANGED <<work, envelope, stored, truth, holder, undo, phase, has, took>>

-----------------------------------------------------------------------------
SecretsNext ==
  \/ MasterKeyChanges \/ PreviousKeyIsRemoved
  \/ \E w \in work :
       \/ LockEnvelope(w) \/ FindNoEnvelope(w) \/ InsertEnvelope(w) \/ MeetConflict(w)
       \/ Store(w) \/ Abort(w) \/ ReadRow(w) \/ ReadEnvelope(w) \/ Read(w)
       \/ MigrateBegins(w) \/ MigrateLocks(w) \/ MigrateCommits(w)

SecretsSpec == SecretsInit /\ [][SecretsNext]_secretsVars

-----------------------------------------------------------------------------
(* Correctness. *)

\* Whatever is stored can be read: it was encrypted with the data key of the envelope,
\* which is wrapped by a master key the API has, however writers that make the first
\* envelope, readers that wrap it again and the migration tool without --rotate-deks meet.
\* (With it, values are left behind: ReEncryptsEverything is violated.)
SecretsReadable ==
  holder = 0 => \A i \in Items : stored[i].key # 0 =>
    /\ stored[i].key = envelope.key /\ stored[i].dek = envelope.dek
    /\ envelope.wrap \in masters.known

\* "re-encrypt every value for each project": a migration that replaces the data key
\* leaves no value it found encrypted with the one before.
ReEncryptsEverything ==
  \A w \in work : w.rotate /\ phase[w] = "done" =>
    \A i \in Items : took[w][i].key # 0 => stored[i].key = envelope.key
=============================================================================
