----------------------------- MODULE OpaqueKeys -----------------------------
(***************************************************************************)
(* The opaque API keys of one project: slots (one per consumer), the       *)
(* versions of each slot's key, the migration of the project to an         *)
(* opaque-only gateway, the administrators' operations, the scheduler of   *)
(* automatic rotations, and the rule the key authorizer decides by.        *)
(*                                                                         *)
(* Every operation is one database transaction that locks the slot and the *)
(* project rows, hence one action.  Its time is now(), the instant the     *)
(* transaction BEGAN: it may have waited for a lock since, up to Lag.  The *)
(* authorizer's query is its own transaction and reads the clock.          *)
(***************************************************************************)
EXTENDS Naturals

CONSTANTS
  Slots,        \* rows of project_api_key_slots the project may have
  Initial,      \* the default-publishable and default-secret slots
  MaxVersions,  \* bound: key versions of one slot
  Intervals,    \* the values of rotation_interval_days, in units of the clock
  Default,      \* DEFAULT_ROTATION_INTERVAL_DAYS
  Window,       \* MIGRATION_PREPARATION_WINDOW_DAYS
  Lead,         \* AUTOMATIC_KEY_ROTATION_LEAD_DAYS
  Lag,          \* how long a transaction may wait between its start and its locks
  MaxTime       \* bound: the clock of the database

ASSUME KeysAssumption ==
  /\ Initial \subseteq Slots
  /\ MaxVersions \in Nat \ {0}
  /\ Intervals \subseteq Nat \ {0}
  /\ Default \in Intervals
  /\ Window \in Nat /\ Lead \in Nat /\ Lag \in Nat /\ MaxTime \in Nat

VARIABLES
  phase,      \* the opaque_* timestamps of the project, in the order they are set
  automatic,  \* projects.automatic_key_rotation_enabled, the master switch
  slot,       \* [Slots -> Slot]
  key,        \* [Slots -> [Versions -> Key]], the versions in order of creation
  clock       \* the clock of PostgreSQL; instants are positive

vars == <<phase, automatic, slot, key, clock>>

Null == 0                  \* SQL NULL in a timestamp or an interval
Versions == 1..MaxVersions
Phases == {"legacy", "prepared", "cutover", "activated", "ready"}

Slot == [status   : {"absent", "active", "disabled"},
         auto     : BOOLEAN,                \* automatic_rotation_enabled
         interval : Intervals \cup {Null},  \* rotation_interval_days
         blocked  : BOOLEAN]                \* automatic_rotation_blocked_at

Key == [status    : {"absent", "pending", "active", "revoked"},
        trigger   : {"initial", "manual", "automatic"},
        activate  : Nat,                    \* activate_at
        expires   : Nat,                    \* expires_at
        revealed  : BOOLEAN,                \* revealed_at
        confirmed : BOOLEAN,                \* confirmed_at
        reveal    : BOOLEAN]                \* a row of project_api_key_reveals

TypeOK == /\ phase \in Phases
          /\ automatic \in BOOLEAN
          /\ slot \in [Slots -> Slot]
          /\ \A s \in Slots : slot[s].interval = Null => ~slot[s].auto
          /\ key \in [Slots -> [Versions -> Key]]
          /\ clock \in Nat \ {0}

NoSlot == [status |-> "absent", auto |-> FALSE, interval |-> Null, blocked |-> FALSE]
NoKey  == [status |-> "absent", trigger |-> "initial", activate |-> Null, expires |-> Null,
           revealed |-> FALSE, confirmed |-> FALSE, reveal |-> FALSE]

Init == /\ phase = "legacy"
        /\ automatic = TRUE
        /\ slot = [s \in Slots |-> NoSlot]
        /\ key = [s \in Slots |-> [v \in Versions |-> NoKey]]
        /\ clock = 1
-----------------------------------------------------------------------------
(* Time, rows and the decision of the authorizer. *)

\* The instants at which a transaction that gets its locks now may have begun.
Began == {t \in 1..clock : clock <= t + Lag}

\* A comparison with NULL is not true.
Past(t, now) == t # Null /\ t <= now

Expiration(from, interval) == IF interval = Null THEN Null ELSE from + interval

With(s, status) == {v \in Versions : key[s][v].status = status}
Pending(s) == With(s, "pending")
Active(s)  == With(s, "active")

\* A confirmed replacement is in force from activate_at on, persisted or not.
Effective(k, now) == k.status = "pending" /\ k.confirmed /\ Past(k.activate, now)

AcceptedByStatus(s, v, now) ==
  /\ phase \in {"activated", "ready"}
  /\ slot[s].status = "active"
  /\ ~Past(key[s][v].expires, now)
  /\ Effective(key[s][v], now) \/ key[s][v].status = "active"

Accepted(s, v, now) ==
  /\ phase \in {"activated", "ready"}
  /\ slot[s].status = "active"
  /\ ~Past(key[s][v].expires, now)
  /\ \/ Effective(key[s][v], now)
     \/ /\ key[s][v].status = "active"
        /\ \A due \in Versions : ~Effective(key[s][due], now)

\* The slot an operation may manage: active, behind a ready opaque gateway.
Managed(s) == phase = "ready" /\ slot[s].status = "active"

\* Automatic preparations that are not in force, which opting out cancels.
Unneeded(s, now) ==
  {v \in Pending(s) : key[s][v].trigger = "automatic" /\ ~Effective(key[s][v], now)}

\* A slot without an expiry has nothing to rotate automatically.
LifecycleUnchecked(auto, interval) == TRUE
ValidLifecycle(auto, interval) == interval = Null => ~auto

NewSlot(auto, interval) ==
  [status |-> "active", auto |-> auto, interval |-> interval, blocked |-> FALSE]

\* A new version always has its plaintext stored for a reveal.
NewKey(status, trigger, activate, expires, inline) ==
  [status |-> status, trigger |-> trigger, activate |-> activate, expires |-> expires,
   revealed |-> status = "pending" /\ inline, confirmed |-> FALSE, reveal |-> TRUE]

Fresh(s) == {v \in With(s, "absent") : \A w \in 1..(v - 1) : key[s][w].status # "absent"}

RevokedOnly == [NoKey EXCEPT !.status = "revoked", !.reveal = TRUE]

\* A revoked version has no plaintext left; the rest of its row is history.
GoneKey == [NoKey EXCEPT !.status = "revoked"]

\* The versions of s once those in S are revoked, and once a version is added.
Without(s, S) == [v \in Versions |-> IF v \in S THEN GoneKey ELSE key[s][v]]
Replaced(s, S, n, k) == [Without(s, S) EXCEPT ![n] = k]

Unblocked(s) == [slot EXCEPT ![s].blocked = FALSE]
-----------------------------------------------------------------------------
(* The first keys of a project: at its creation, or by migration. *)

\* The project gets its initial slots, each with the first version k.
Introduce(k) ==
  /\ phase = "legacy"
  /\ \A s \in Slots : slot[s].status = "absent"
  /\ slot' = [s \in Slots |-> IF s \in Initial THEN NewSlot(automatic, Default) ELSE slot[s]]
  /\ key' = [s \in Slots |-> IF s \in Initial THEN Replaced(s, {}, 1, k) ELSE key[s]]
  /\ UNCHANGED <<automatic, clock>>

Bootstrap(now) ==
  /\ Introduce(NewKey("active", "initial", Null, now + Default, FALSE))
  /\ phase' = "ready"

PrepareMigration(now) ==
  /\ Introduce(NewKey("pending", "initial", Null, now + Window + Default, FALSE))
  /\ phase' = "prepared"

\* The keyset of a prepared migration: the initial slots, one pending key each.
Prepared == /\ {s \in Slots : slot[s].status # "absent"} = Initial
            /\ \A s \in Initial : /\ slot[s].status = "active"
                                  /\ With(s, "absent") = Versions \ {1}
                                  /\ key[s][1].status = "pending"
                                  /\ key[s][1].trigger = "initial"

AbortMigration ==
  /\ phase = "prepared"
  /\ Prepared
  /\ phase' = "legacy"
  /\ slot' = [s \in Slots |-> NoSlot]
  /\ key' = [s \in Slots |-> [v \in Versions |-> NoKey]]
  /\ UNCHANGED <<automatic, clock>>

InstalledIfClaimed(now) == \A s \in Initial : key[s][1].revealed /\ ~Past(key[s][1].expires, now)

\* Both initial keys were delivered, are confirmed and have not expired.
Installed(now) == \A s \in Initial : /\ key[s][1].revealed /\ key[s][1].confirmed
                                     /\ ~Past(key[s][1].expires, now)

BeginCutover(now) ==
  /\ phase = "prepared"
  /\ Prepared /\ Installed(now)
  /\ phase' = "cutover"
  /\ UNCHANGED <<automatic, slot, key, clock>>

\* The transaction between the two commands the cutover sends to the host
\* agent.  A cutover that failed half-way is requested again.
ActivateMigration(now) ==
  /\ phase = "cutover"
  /\ Prepared /\ Installed(now)
  /\ phase' = "activated"
  /\ key' = [s \in Slots |-> IF s \in Initial
               THEN [key[s] EXCEPT ![1].status = "active", ![1].activate = now,
                                   ![1].expires = Expiration(now, slot[s].interval)]
               ELSE key[s]]
  /\ UNCHANGED <<automatic, slot, clock>>

FinishCutover == /\ phase = "activated"
                 /\ phase' = "ready"
                 /\ UNCHANGED <<automatic, slot, key, clock>>
-----------------------------------------------------------------------------
(* The operations on a slot. *)

CreateSlot(s, auto, interval, now) ==
  /\ phase = "ready"
  /\ slot[s].status = "absent"
  /\ ValidLifecycle(auto, interval)
  /\ slot' = [slot EXCEPT ![s] = NewSlot(auto, interval)]
  /\ key' = [key EXCEPT ![s] = Replaced(s, {}, 1,
               NewKey("active", "manual", Null, Expiration(now, interval), TRUE))]
  /\ UNCHANGED <<phase, automatic, clock>>

\* A pending replacement that is already in force is replaced as well.
RotateImmediately(s, now) ==
  /\ Managed(s)
  /\ \A v \in Pending(s) : Effective(key[s][v], now)
  /\ Active(s) # {}
  /\ \E n \in Fresh(s) : key' = [key EXCEPT ![s] = Replaced(s, Pending(s) \cup Active(s), n,
       NewKey("active", "manual", Null, Expiration(now, slot[s].interval), FALSE))]
  /\ slot' = Unblocked(s)
  /\ UNCHANGED <<phase, automatic, clock>>

CanPrepareAnyTime(s, at, now) == at > now /\ Pending(s) = {} /\ Active(s) # {}

\* What prepare_slot_rotation demands of an active slot.
CanPrepare(s, at, now) ==
  /\ at > now
  /\ Pending(s) = {}
  /\ \E v \in Active(s) : key[s][v].expires # Null => at <= key[s][v].expires

PrepareRotation(s, at, trigger, now) ==
  /\ Managed(s)
  /\ CanPrepare(s, at, now)
  /\ \E n \in Fresh(s) : key' = [key EXCEPT ![s] = Replaced(s, {}, n,
       NewKey("pending", trigger, at, Expiration(at, slot[s].interval), trigger = "manual"))]
  /\ slot' = Unblocked(s)
  /\ UNCHANGED <<phase, automatic, clock>>

\* What activate_pending_key demands of an active slot.
CanActivate(s, now) ==
  /\ Active(s) # {}
  /\ \E v \in Pending(s) : Effective(key[s][v], now) /\ ~Past(key[s][v].expires, now)

ActivatePending(s, now) ==
  /\ Managed(s)
  /\ CanActivate(s, now)
  /\ \E v \in Pending(s) : key' = [key EXCEPT ![s] =
       Replaced(s, Active(s), v, [key[s][v] EXCEPT !.status = "active"])]
  /\ UNCHANGED <<phase, automatic, slot, clock>>

ConfirmInstallation(s, v, now) ==
  /\ slot[s].status = "active"
  /\ v \in Pending(s)
  /\ phase = "ready" \/ (phase = "prepared" /\ key[s][v].trigger = "initial")
  /\ key[s][v].revealed /\ ~key[s][v].confirmed
  /\ ~Past(key[s][v].expires, now)
  /\ key' = [key EXCEPT ![s][v].confirmed = TRUE]
  /\ slot' = Unblocked(s)
  /\ UNCHANGED <<phase, automatic, clock>>

CancelAnyPending(s, now) ==
  /\ Managed(s)
  /\ \E v \in Pending(s) : key' = [key EXCEPT ![s][v] = GoneKey]
  /\ slot' = Unblocked(s)
  /\ UNCHANGED <<phase, automatic, clock>>

CancelPending(s, now) ==
  /\ Managed(s)
  /\ \E v \in Pending(s) :
       /\ ~Effective(key[s][v], now)
       /\ key' = [key EXCEPT ![s][v] = GoneKey]
  /\ slot' = Unblocked(s)
  /\ UNCHANGED <<phase, automatic, clock>>

DisableSlot(s) ==
  /\ Managed(s)
  /\ slot' = [slot EXCEPT ![s].status = "disabled"]
  /\ key' = [key EXCEPT ![s] = Without(s, Pending(s) \cup Active(s))]
  /\ UNCHANGED <<phase, automatic, clock>>

\* choice is automatic_rotation_enabled as the request gives it: "on", "off",
\* or "keep" when the field is left out.  A new interval restarts the life of
\* the active key, and is refused beside a pending key or for an expired one.
UpdatePolicy(s, choice, interval, now) ==
  LET auto    == choice = "on" \/ (choice = "keep" /\ slot[s].auto)
      dropped == IF choice = "off" THEN Unneeded(s, now) ELSE {}
      changed == interval # slot[s].interval
  IN /\ Managed(s)
     /\ ValidLifecycle(auto, interval)
     /\ changed => /\ Pending(s) \subseteq dropped
                   /\ \E v \in Active(s) : ~Past(key[s][v].expires, now)
     /\ key' = [key EXCEPT ![s] = [v \in Versions |->
                  IF v \in dropped THEN GoneKey
                  ELSE IF changed /\ v \in Active(s)
                       THEN [key[s][v] EXCEPT !.expires = Expiration(now, interval)]
                       ELSE key[s][v]]]
     /\ slot' = [slot EXCEPT ![s].auto = auto, ![s].interval = interval,
                             ![s].blocked = @ /\ ~auto /\ interval # Null]
     /\ UNCHANGED <<phase, automatic, clock>>

\* The master switch; switching it off cancels the automatic preparations.
SetAutomatic(on, now) ==
  /\ automatic' = on
  /\ key' = [s \in Slots |-> IF on THEN key[s] ELSE Without(s, Unneeded(s, now))]
  /\ UNCHANGED <<phase, slot, clock>>

\* A claim shows the stored plaintext without consuming it.
ClaimReveal(s, v) ==
  /\ key[s][v].reveal
  /\ v \in Pending(s) \cup Active(s)
  /\ key' = [key EXCEPT ![s][v].revealed = TRUE]
  /\ UNCHANGED <<phase, automatic, slot, clock>>
-----------------------------------------------------------------------------
(* The scheduler: its queries pick slots, in batches and in phases; another *)
(* transaction may come between any two, and a locked slot is skipped.      *)

DueEvenIfExpired(s, now) == Managed(s) /\ \E v \in Pending(s) : Effective(key[s][v], now)
DueAutomatic(s, now) ==
  /\ Managed(s)
  /\ \E v \in Pending(s) : /\ Effective(key[s][v], now) /\ ~Past(key[s][v].expires, now)
                           /\ key[s][v].trigger = "automatic"

DueRotation(s, now) ==
  /\ Managed(s)
  /\ \E v \in Pending(s) : Effective(key[s][v], now) /\ ~Past(key[s][v].expires, now)

UnconfirmedUnclaimed(s, now) ==
  \E v \in Pending(s) : /\ key[s][v].trigger = "automatic" /\ ~key[s][v].revealed
                        /\ Past(key[s][v].activate, now)

Unconfirmed(s, now) ==
  \E v \in Pending(s) : /\ key[s][v].trigger = "automatic" /\ ~key[s][v].confirmed
                        /\ Past(key[s][v].activate, now)

ExpiredPending(s, now) ==
  \E v \in Pending(s) : key[s][v].trigger = "automatic" /\ Past(key[s][v].expires, now)

\* Slots of which the scheduler looks after the active key.
Scheduled(s) == /\ automatic /\ slot[s].auto /\ slot[s].interval # Null
                /\ Pending(s) = {}

ExpiredActive(s, now) ==
  Scheduled(s) /\ \E v \in Active(s) : Past(key[s][v].expires, now)

DuePreparation(s, at, now) ==
  /\ Managed(s) /\ ~slot[s].blocked /\ Scheduled(s)
  /\ \E v \in Active(s) : key[s][v].expires = at
  /\ at # Null /\ at > now /\ at <= now + Lead

ScanReveals(now) ==
  /\ key' = [s \in Slots |-> [v \in Versions |->
       IF key[s][v].status = "revoked" \/ Past(key[s][v].expires, now)
       THEN [key[s][v] EXCEPT !.reveal = FALSE] ELSE key[s][v]]]
  /\ UNCHANGED <<phase, automatic, slot, clock>>

ScanActivate(s, now) == DueRotation(s, now) /\ ActivatePending(s, now)

ScanBlock(s, now) ==
  /\ Managed(s) /\ ~slot[s].blocked
  /\ Unconfirmed(s, now) \/ ExpiredPending(s, now) \/ ExpiredActive(s, now)
  /\ slot' = [slot EXCEPT ![s].blocked = TRUE]
  /\ UNCHANGED <<phase, automatic, key, clock>>

ScanPrepare(s, now) == \E at \in (now + 1)..(now + Lead) :
  DuePreparation(s, at, now) /\ PrepareRotation(s, at, "automatic", now)

Tick == /\ clock < MaxTime
        /\ clock' = clock + 1
        /\ UNCHANGED <<phase, automatic, slot, key>>
-----------------------------------------------------------------------------
Migration(now) == \/ Bootstrap(now) \/ PrepareMigration(now) \/ AbortMigration
                  \/ BeginCutover(now) \/ ActivateMigration(now) \/ FinishCutover

Manage(s, now) ==
  \/ \E auto \in BOOLEAN, interval \in Intervals \cup {Null} :
       CreateSlot(s, auto, interval, now)
  \/ RotateImmediately(s, now)
  \/ \E at \in (now + 1)..MaxTime : PrepareRotation(s, at, "manual", now)
  \/ ActivatePending(s, now)
  \/ \E v \in Versions : ConfirmInstallation(s, v, now) \/ ClaimReveal(s, v)
  \/ CancelPending(s, now)
  \/ DisableSlot(s)
  \/ \E choice \in {"on", "off", "keep"}, interval \in Intervals \cup {Null} :
       UpdatePolicy(s, choice, interval, now)

Scan(s, now) == ScanActivate(s, now) \/ ScanBlock(s, now) \/ ScanPrepare(s, now)

Next == \/ \E now \in Began : \/ Migration(now)
                              \/ \E on \in BOOLEAN : SetAutomatic(on, now)
                              \/ ScanReveals(now)
                              \/ \E s \in Slots : Manage(s, now) \/ Scan(s, now)
        \/ Tick

Spec == Init /\ [][Next]_vars

\* _automatic_opaque_key_rotation_loop scans for ever; a scan skips only what
\* another transaction has locked.
ScanFairness(s) == /\ WF_vars(\E now \in Began : ScanActivate(s, now))
                   /\ WF_vars(\E now \in Began : ScanBlock(s, now))

LiveSpec == Spec /\ \A s \in Slots : ScanFairness(s)
-----------------------------------------------------------------------------
(* Correctness. *)

\* No two versions of a slot are accepted at the same time: the authorizer stops
\* accepting the active key at the instant it starts accepting its replacement.
OneAccepted == \A s \in Slots : \A v, w \in Versions :
  Accepted(s, v, clock) /\ Accepted(s, w, clock) => v = w

\* From the confirmation of a replacement to its expiry its consumer is never
\* without a key: the old one does not expire before activate_at.
Handover == \A s \in Slots :
  Managed(s) /\ (\E v \in Pending(s) : key[s][v].confirmed /\ ~Past(key[s][v].expires, clock))
    => \E v \in Versions : Accepted(s, v, clock)

\* The plaintext of a version is erased by whatever revokes the version: both
\* rotations, cancelling, disabling, opting out of automatic rotation.
RevealsLive == \A s \in Slots : \A v \in Versions :
  key[s][v].reveal => v \in Pending(s) \cup Active(s)

\* Until it is activated the keyset of a migration stays as it was prepared, and
\* from the start of the cutover it is installed: only the expiry of its keys
\* can keep a repeated cutover from completing.
CutoverResumable ==
  /\ phase \in {"prepared", "cutover"} => Prepared
  /\ phase = "cutover" => \A s \in Initial : key[s][1].revealed /\ key[s][1].confirmed

\* The scheduler never selects a row its service function refuses: the error
\* would roll its batch back and come again at every scan.
ScanNeverRaises == \A s \in Slots : \A now \in Began :
  /\ DueRotation(s, now) => CanActivate(s, now)
  /\ \A at \in now..(now + Lead) : DuePreparation(s, at, now) => CanPrepare(s, at, now)

\* The life of a version is over at instant t.
Ended(s, v, t) ==
  \/ key[s][v].status = "revoked"
  \/ Past(key[s][v].expires, t)
  \/ key[s][v].status = "active" /\ \E due \in Versions : Effective(key[s][due], t)

\* A version whose life has been over for Lag (longer than any transaction
\* waits) is never accepted again, whatever the operation: no cancellation, no
\* change of policy, no rotation, no scan.
NeverRevived == [][\A s \in Slots : \A v \in Versions :
  clock > Lag /\ Ended(s, v, clock - Lag) => ~Accepted(s, v, clock)']_vars

\* What the specification of the keys says: after a confirmed activate_at the
\* old key is never accepted again.
CutoverIsFinal == [][\A s \in Slots : \A v \in Active(s) :
  (\E due \in Versions : Effective(key[s][due], clock)) => ~Accepted(s, v, clock)']_vars

\* A replacement in force becomes the persisted active key, unless it is
\* replaced, its slot is disabled, or it expires first.
CutoverPersists == \A s \in Slots : \A v \in Versions :
  Managed(s) /\ Effective(key[s][v], clock)
    ~> v \notin Pending(s) \/ Past(key[s][v].expires, clock)

\* A slot under automatic rotation that no key opens any more is blocked, with
\* an error an administrator is told of, unless a manual rotation is pending.
Lapsed(s) == /\ Managed(s) /\ automatic /\ slot[s].auto /\ ~slot[s].blocked
             /\ \A v \in Versions : ~Accepted(s, v, clock)
             /\ \A v \in Pending(s) : key[s][v].trigger = "automatic"
LapseReported == \A s \in Slots : Lapsed(s) ~> ~Lapsed(s)
=============================================================================
