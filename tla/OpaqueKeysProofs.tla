--------------------------- MODULE OpaqueKeysProofs ---------------------------
(***************************************************************************)
(* Proofs about OpaqueKeys, for every set of slots, every number of        *)
(* versions, every policy and every time a transaction may wait.  The      *)
(* inductive invariant, Keyset, says slot by slot which versions there are *)
(* and when a pending one takes over; what is accepted follows from it.    *)
(***************************************************************************)
EXTENDS OpaqueKeys, TLAPS

-----------------------------------------------------------------------------
(* Types *)

\* A transaction begins at a positive instant, at most Lag before the clock's.
LEMMA BeganType ==
  ASSUME TypeOK, NEW now \in Began
  PROVE  now \in Nat \ {0} /\ now <= clock /\ clock <= now + Lag
  BY KeysAssumption DEF TypeOK, Began

\* The expiry of a key is an instant or Null.
LEMMA ExpirationType ==
  ASSUME NEW from \in Nat, NEW i \in Intervals \cup {Null}
  PROVE  Expiration(from, i) \in Nat
  BY KeysAssumption DEF Expiration, Null

\* The policy of a slot is an interval or none.
LEMMA PolicyType ==
  ASSUME TypeOK, NEW s \in Slots
  PROVE  /\ slot[s].interval \in Intervals \cup {Null}
         /\ slot[s].auto \in BOOLEAN
         /\ slot[s].blocked \in BOOLEAN
         /\ slot[s].status \in {"absent", "active", "disabled"}
         /\ Default \in Intervals /\ Default # Null
  BY KeysAssumption DEF TypeOK, Slot, Null

\* Every row made by an operation is a key.
LEMMA NewKeyType ==
  ASSUME NEW st \in {"pending", "active"}, NEW tr \in {"initial", "manual", "automatic"},
         NEW a \in Nat, NEW e \in Nat, NEW i \in BOOLEAN
  PROVE  NewKey(st, tr, a, e, i) \in Key
  BY DEF NewKey, Key

\* So are the row of a revoked version and the absent one.
LEMMA GoneType == GoneKey \in Key /\ NoKey \in Key
  BY DEF GoneKey, NoKey, Key, Null

\* A keyset stays one when versions are revoked or a version is written.
LEMMA ReplacedType ==
  ASSUME TypeOK, NEW s \in Slots, NEW S
  PROVE  /\ Without(s, S) \in [Versions -> Key]
         /\ \A n \in Versions, k \in Key : Replaced(s, S, n, k) \in [Versions -> Key]
  BY GoneType DEF TypeOK, Without, Replaced

\* The first version is one of the versions.
LEMMA FirstVersion == 1 \in Versions
  BY KeysAssumption DEF Versions

\* An operation that writes the keyset of one slot keeps the type of key.
LEMMA OneSlotType ==
  ASSUME TypeOK, NEW s \in Slots, NEW f \in [Versions -> Key], key' = [key EXCEPT ![s] = f]
  PROVE  key' \in [Slots -> [Versions -> Key]]
  BY DEF TypeOK

\* So does one that writes one version.
LEMMA OneKeyType ==
  ASSUME TypeOK, NEW s \in Slots, NEW v \in Versions, NEW k \in Key,
         key' = [key EXCEPT ![s][v] = k]
  PROVE  key' \in [Slots -> [Versions -> Key]]
  BY DEF TypeOK

\* Clearing the block of a slot changes nothing else of it.
LEMMA UnblockedType ==
  ASSUME TypeOK, NEW s \in Slots, slot' = Unblocked(s)
  PROVE  /\ slot' \in [Slots -> Slot]
         /\ \A r \in Slots : slot'[r].interval = Null => ~slot'[r].auto
         /\ \A r \in Slots : slot'[r].status = slot[r].status
  BY DEF TypeOK, Unblocked, Slot

\* The slots and keys a project starts with are slots and keys.
LEMMA IntroduceType ==
  ASSUME TypeOK, NEW k \in Key, Introduce(k)
  PROVE  /\ slot' \in [Slots -> Slot]
         /\ \A r \in Slots : slot'[r].interval = Null => ~slot'[r].auto
         /\ key' \in [Slots -> [Versions -> Key]]
<1>1. NewSlot(automatic, Default) \in Slot /\ Default # Null
  BY KeysAssumption DEF TypeOK, NewSlot, Slot, Null
<1>2. \A s \in Slots : slot'[s] \in Slot /\ (slot'[s].interval = Null => ~slot'[s].auto)
  BY <1>1 DEF Introduce, TypeOK, NewSlot
<1>3. slot' \in [Slots -> Slot]
  BY <1>1 DEF Introduce, TypeOK
<1>4. key' \in [Slots -> [Versions -> Key]]
  BY ReplacedType, FirstVersion DEF Introduce, TypeOK
<1> QED
  BY <1>2, <1>3, <1>4

\* What a write to the fields of a key keeps.
LEMMA EditedType ==
  ASSUME NEW k \in Key, NEW a \in Nat, NEW e \in Nat
  PROVE  /\ [k EXCEPT !.status = "active"] \in Key
         /\ [k EXCEPT !.status = "active", !.activate = a, !.expires = e] \in Key
         /\ [k EXCEPT !.expires = e] \in Key
         /\ [k EXCEPT !.confirmed = TRUE] \in Key
         /\ [k EXCEPT !.revealed = TRUE] \in Key
         /\ [k EXCEPT !.reveal = FALSE] \in Key
  BY DEF Key

\* Every step keeps the types.
LEMMA NextTypes == TypeOK /\ [Next]_vars => TypeOK'
<1> SUFFICES ASSUME TypeOK, [Next]_vars PROVE TypeOK'
  OBVIOUS
<1> USE FirstVersion
<1>1. ASSUME NEW now \in Began, Bootstrap(now) PROVE TypeOK'
  <2> DEFINE k == NewKey("active", "initial", Null, now + Default, FALSE)
  <2>0. now + Default \in Nat
    BY BeganType, KeysAssumption
  <2>1. k \in Key
    BY <2>0, NewKeyType DEF Null
  <2>2. Introduce(k)
    BY <1>1 DEF Bootstrap
  <2> HIDE DEF k
  <2> QED
    BY <1>1, <2>1, <2>2, IntroduceType DEF Bootstrap, Introduce, TypeOK, Phases
<1>2. ASSUME NEW now \in Began, PrepareMigration(now) PROVE TypeOK'
  <2> DEFINE k == NewKey("pending", "initial", Null, now + Window + Default, FALSE)
  <2>0. now + Window + Default \in Nat
    BY BeganType, KeysAssumption
  <2>1. k \in Key
    BY <2>0, NewKeyType DEF Null
  <2>2. Introduce(k)
    BY <1>2 DEF PrepareMigration
  <2> HIDE DEF k
  <2> QED
    BY <1>2, <2>1, <2>2, IntroduceType DEF PrepareMigration, Introduce, TypeOK, Phases
<1>3. ASSUME AbortMigration PROVE TypeOK'
  <2>1. NoSlot \in Slot /\ ~NoSlot.auto
    BY DEF NoSlot, Slot, Null
  <2> QED
    BY <1>3, <2>1, GoneType DEF AbortMigration, TypeOK, Phases
<1>4. ASSUME NEW now \in Began, BeginCutover(now) \/ FinishCutover PROVE TypeOK'
  BY <1>4 DEF BeginCutover, FinishCutover, TypeOK, Phases
<1>5. ASSUME NEW now \in Began, ActivateMigration(now) PROVE TypeOK'
  <2>1. \A s \in Slots : Expiration(now, slot[s].interval) \in Nat
    BY BeganType, PolicyType, ExpirationType
  <2>2. ASSUME NEW s \in Slots
        PROVE  [key[s] EXCEPT ![1].status = "active", ![1].activate = now,
                              ![1].expires = Expiration(now, slot[s].interval)] \in [Versions -> Key]
    <3> DEFINE e == Expiration(now, slot[s].interval)
               k == [key[s][1] EXCEPT !.status = "active", !.activate = now, !.expires = e]
    <3>1. e \in Nat /\ now \in Nat /\ key[s] \in [Versions -> Key]
      BY <2>1, BeganType DEF TypeOK
    <3> HIDE DEF e
    <3>2. k \in Key
      BY <3>1, EditedType
    <3>3. [key[s] EXCEPT ![1].status = "active", ![1].activate = now, ![1].expires = e]
            = [key[s] EXCEPT ![1] = k]
      BY <3>1 DEF Key
    <3> HIDE DEF k
    <3> QED
      BY <3>1, <3>2, <3>3 DEF e
  <2>3. key' \in [Slots -> [Versions -> Key]]
    BY <1>5, <2>2 DEF ActivateMigration, TypeOK
  <2> QED
    BY <1>5, <2>3 DEF ActivateMigration, TypeOK, Phases
<1>6. ASSUME NEW s \in Slots, NEW auto \in BOOLEAN, NEW i \in Intervals \cup {Null}, NEW now \in Began,
             CreateSlot(s, auto, i, now)
      PROVE  TypeOK'
  <2>1. NewKey("active", "manual", Null, Expiration(now, i), TRUE) \in Key
    BY BeganType, NewKeyType, ExpirationType DEF Null
  <2>2. key' \in [Slots -> [Versions -> Key]]
    BY <1>6, <2>1, ReplacedType, OneSlotType DEF CreateSlot
  <2>3. NewSlot(auto, i) \in Slot /\ (NewSlot(auto, i).interval = Null => ~NewSlot(auto, i).auto)
    BY <1>6 DEF CreateSlot, ValidLifecycle, NewSlot, Slot
  <2> QED
    BY <1>6, <2>2, <2>3 DEF CreateSlot, TypeOK
<1>7. ASSUME NEW s \in Slots, NEW now \in Began, RotateImmediately(s, now) PROVE TypeOK'
  <2> DEFINE k == NewKey("active", "manual", Null, Expiration(now, slot[s].interval), FALSE)
  <2>1. k \in Key
    BY BeganType, NewKeyType, ExpirationType, PolicyType DEF Null
  <2>2. PICK n \in Versions : key' = [key EXCEPT ![s] = Replaced(s, Pending(s) \cup Active(s), n, k)]
    BY <1>7 DEF RotateImmediately, Fresh, With
  <2> HIDE DEF k
  <2>3. key' \in [Slots -> [Versions -> Key]]
    BY <2>1, <2>2, ReplacedType, OneSlotType
  <2> QED
    BY <1>7, <2>3, UnblockedType DEF RotateImmediately, TypeOK
<1>8. ASSUME NEW s \in Slots, NEW at \in Nat, NEW tr \in {"manual", "automatic"}, NEW now \in Began,
             PrepareRotation(s, at, tr, now)
      PROVE  TypeOK'
  <2> DEFINE k == NewKey("pending", tr, at, Expiration(at, slot[s].interval), tr = "manual")
  <2>1. k \in Key
    BY NewKeyType, ExpirationType, PolicyType
  <2>2. PICK n \in Versions : key' = [key EXCEPT ![s] = Replaced(s, {}, n, k)]
    BY <1>8 DEF PrepareRotation, Fresh, With
  <2> HIDE DEF k
  <2>3. key' \in [Slots -> [Versions -> Key]]
    BY <2>1, <2>2, ReplacedType, OneSlotType
  <2> QED
    BY <1>8, <2>3, UnblockedType DEF PrepareRotation, TypeOK
<1>9. ASSUME NEW s \in Slots, NEW now \in Began, ActivatePending(s, now) PROVE TypeOK'
  <2>1. PICK v \in Versions : key' = [key EXCEPT ![s] =
                                 Replaced(s, Active(s), v, [key[s][v] EXCEPT !.status = "active"])]
    BY <1>9 DEF ActivatePending, Pending, With
  <2>2. [key[s][v] EXCEPT !.status = "active"] \in Key
    BY EditedType DEF TypeOK
  <2>3. key' \in [Slots -> [Versions -> Key]]
    BY <2>1, <2>2, ReplacedType, OneSlotType
  <2> QED
    BY <1>9, <2>3 DEF ActivatePending, TypeOK
<1>10. ASSUME NEW s \in Slots, NEW v \in Versions, NEW now \in Began, ConfirmInstallation(s, v, now)
       PROVE  TypeOK'
  <2>1. key' = [key EXCEPT ![s][v] = [key[s][v] EXCEPT !.confirmed = TRUE]]
    BY <1>10 DEF ConfirmInstallation, TypeOK
  <2>2. key' \in [Slots -> [Versions -> Key]]
    BY <2>1, EditedType, OneKeyType DEF TypeOK
  <2> QED
    BY <1>10, <2>2, UnblockedType DEF ConfirmInstallation, TypeOK
<1>11. ASSUME NEW s \in Slots, NEW v \in Versions, ClaimReveal(s, v) PROVE TypeOK'
  <2>1. key' = [key EXCEPT ![s][v] = [key[s][v] EXCEPT !.revealed = TRUE]]
    BY <1>11 DEF ClaimReveal, TypeOK
  <2>2. key' \in [Slots -> [Versions -> Key]]
    BY <2>1, EditedType, OneKeyType DEF TypeOK
  <2> QED
    BY <1>11, <2>2 DEF ClaimReveal, TypeOK
<1>12. ASSUME NEW s \in Slots, NEW now \in Began, CancelPending(s, now) PROVE TypeOK'
  <2>1. PICK v \in Versions : key' = [key EXCEPT ![s][v] = GoneKey]
    BY <1>12 DEF CancelPending, Pending, With
  <2>2. key' \in [Slots -> [Versions -> Key]]
    BY <2>1, GoneType, OneKeyType
  <2> QED
    BY <1>12, <2>2, UnblockedType DEF CancelPending, TypeOK
<1>13. ASSUME NEW s \in Slots, DisableSlot(s) PROVE TypeOK'
  <2>1. key' \in [Slots -> [Versions -> Key]]
    BY <1>13, ReplacedType, OneSlotType DEF DisableSlot
  <2>2. [slot[s] EXCEPT !.status = "disabled"] \in Slot
    BY DEF TypeOK, Slot
  <2>3. slot' = [slot EXCEPT ![s] = [slot[s] EXCEPT !.status = "disabled"]]
    BY <1>13 DEF DisableSlot, TypeOK
  <2>4. slot' \in [Slots -> Slot]
    BY <2>2, <2>3 DEF TypeOK
  <2>5. \A r \in Slots : slot'[r].interval = slot[r].interval /\ slot'[r].auto = slot[r].auto
    BY <2>3 DEF TypeOK, Slot
  <2> QED
    BY <1>13, <2>1, <2>4, <2>5 DEF DisableSlot, TypeOK
<1>14. ASSUME NEW s \in Slots, NEW choice, NEW i \in Intervals \cup {Null}, NEW now \in Began,
              UpdatePolicy(s, choice, i, now)
       PROVE  TypeOK'
  <2> DEFINE auto    == choice = "on" \/ (choice = "keep" /\ slot[s].auto)
             dropped == IF choice = "off" THEN Unneeded(s, now) ELSE {}
             changed == i # slot[s].interval
             f == [v \in Versions |-> IF v \in dropped THEN GoneKey
                                      ELSE IF changed /\ v \in Active(s)
                                           THEN [key[s][v] EXCEPT !.expires = Expiration(now, i)]
                                           ELSE key[s][v]]
             blocked == slot[s].blocked /\ ~auto /\ i # Null
             new == [slot[s] EXCEPT !.auto = auto, !.interval = i, !.blocked = blocked]
  <2>1. key' = [key EXCEPT ![s] = f]
    BY <1>14 DEF UpdatePolicy
  <2>2. f \in [Versions -> Key]
    <3>1. ASSUME NEW v \in Versions PROVE [key[s][v] EXCEPT !.expires = Expiration(now, i)] \in Key
      BY EditedType, ExpirationType, BeganType DEF TypeOK
    <3> QED
      BY <3>1, GoneType DEF TypeOK
  <2>3. slot' = [slot EXCEPT ![s] = new]
    BY <1>14 DEF UpdatePolicy, TypeOK
  <2>4. auto \in BOOLEAN /\ blocked \in BOOLEAN /\ (i = Null => ~auto)
    BY <1>14, PolicyType DEF UpdatePolicy, ValidLifecycle
  <2> HIDE DEF f, auto, blocked
  <2>5. new \in Slot /\ (new.interval = Null => ~new.auto)
    BY <2>4 DEF TypeOK, Slot
  <2>6. key' \in [Slots -> [Versions -> Key]]
    BY <2>1, <2>2, OneSlotType
  <2> HIDE DEF new
  <2>7. /\ slot' \in [Slots -> Slot]
        /\ \A r \in Slots : slot'[r].interval = Null => ~slot'[r].auto
    BY <2>3, <2>5 DEF TypeOK
  <2> QED
    BY <1>14, <2>6, <2>7 DEF UpdatePolicy, TypeOK
<1>15. ASSUME NEW on \in BOOLEAN, NEW now \in Began, SetAutomatic(on, now) PROVE TypeOK'
  BY <1>15, ReplacedType DEF SetAutomatic, TypeOK
<1>16. ASSUME NEW now \in Began, ScanReveals(now) PROVE TypeOK'
  <2>1. \A s \in Slots, v \in Versions : [key[s][v] EXCEPT !.reveal = FALSE] \in Key
    BY EditedType DEF TypeOK
  <2> QED
    BY <1>16, <2>1 DEF ScanReveals, TypeOK
<1>17. ASSUME NEW s \in Slots, NEW now \in Began, ScanBlock(s, now) PROVE TypeOK'
  <2>1. slot' = [slot EXCEPT ![s] = [slot[s] EXCEPT !.blocked = TRUE]]
    BY <1>17 DEF ScanBlock, TypeOK
  <2>2. [slot[s] EXCEPT !.blocked = TRUE] \in Slot
    BY DEF TypeOK, Slot
  <2>3. \A r \in Slots : slot'[r].interval = slot[r].interval /\ slot'[r].auto = slot[r].auto
    BY <2>1 DEF TypeOK, Slot
  <2> QED
    BY <1>17, <2>1, <2>2, <2>3 DEF ScanBlock, TypeOK
<1>18. CASE Tick
  BY <1>18 DEF Tick, TypeOK
<1>19. CASE UNCHANGED vars
  BY <1>19 DEF vars, TypeOK
<1> QED
  <2>1. ASSUME NEW now \in Began, NEW at \in (now + 1)..MaxTime PROVE at \in Nat
    BY BeganType, KeysAssumption
  <2>2. ASSUME NEW now \in Began, NEW at \in (now + 1)..(now + Lead) PROVE at \in Nat
    BY BeganType, KeysAssumption
  <2> QED
    BY <1>1, <1>2, <1>3, <1>4, <1>5, <1>6, <1>7, <1>8, <1>9, <1>10, <1>11, <1>12, <1>13, <1>14, <1>15,
       <1>16, <1>17, <1>18, <1>19, <2>1, <2>2
       DEF Next, Migration, Manage, Scan, ScanActivate, ScanPrepare

\* The initial state is well typed.
LEMMA InitTypes == Init => TypeOK
<1>1. NoSlot \in Slot /\ ~NoSlot.auto
  BY DEF NoSlot, Slot, Null
<1> QED
  BY <1>1, GoneType DEF Init, TypeOK, Phases

\* Every reachable state is well typed: in particular a slot without an expiry
\* is never under automatic rotation, whatever the order of the requests.
THEOREM KeysTypeCorrect == Spec => []TypeOK
  BY InitTypes, NextTypes, PTL DEF Spec
-----------------------------------------------------------------------------
(* The inductive invariant *)

\* A slot that does not exist has no versions, a disabled one none in use.
Bare(s) == /\ slot[s].status = "absent" => \A v \in Versions : key[s][v].status = "absent"
           /\ slot[s].status = "disabled" => Pending(s) = {} /\ Active(s) = {}

\* A version that does not exist has no expiry that it could inherit.
Blank(s) == \A v \in Versions : key[s][v].status = "absent" => key[s][v].expires = Null

\* A slot has at most one pending and one active version, and a pending one
\* beside an active one takes over before that one expires.
Single(s) == /\ \A v, w \in Pending(s) : v = w
             /\ \A v, w \in Active(s) : v = w
InTime(s) == \A v \in Pending(s), w \in Active(s) :
               /\ key[s][v].activate # Null
               /\ key[s][w].expires # Null => key[s][v].activate <= key[s][w].expires

\* Behind an opaque gateway every slot in use has an active version.
Opened(s) == phase \in {"activated", "ready"} /\ slot[s].status = "active" => Active(s) # {}

\* Only versions in use have a plaintext.
Erased(s) == \A v \in Versions : key[s][v].reveal => v \in Pending(s) \cup Active(s)

Row(s) == Bare(s) /\ Blank(s) /\ Single(s) /\ InTime(s) /\ Opened(s) /\ Erased(s)

Keyset == TypeOK /\ CutoverResumable /\ \A s \in Slots : Row(s)

\* What a write to some fields of a key leaves as it was.
LEMMA EditedFields ==
  ASSUME NEW k \in Key, NEW a, NEW e
  PROVE  /\ LET x == [k EXCEPT !.status = "active"]
            IN  x.status = "active" /\ x.expires = k.expires /\ x.activate = k.activate
                /\ x.reveal = k.reveal
         /\ LET x == [k EXCEPT !.status = "active", !.activate = a, !.expires = e]
            IN  x.status = "active" /\ x.expires = e /\ x.activate = a /\ x.reveal = k.reveal
         /\ LET x == [k EXCEPT !.expires = e]
            IN  x.status = k.status /\ x.expires = e /\ x.activate = k.activate
                /\ x.reveal = k.reveal /\ x.confirmed = k.confirmed
         /\ LET x == [k EXCEPT !.confirmed = TRUE]
            IN  x.status = k.status /\ x.expires = k.expires /\ x.activate = k.activate
                /\ x.reveal = k.reveal /\ x.confirmed
                /\ x.trigger = k.trigger /\ x.revealed = k.revealed
         /\ LET x == [k EXCEPT !.revealed = TRUE]
            IN  x.status = k.status /\ x.expires = k.expires /\ x.activate = k.activate
                /\ x.reveal = k.reveal /\ x.confirmed = k.confirmed
                /\ x.trigger = k.trigger /\ x.revealed
         /\ LET x == [k EXCEPT !.reveal = FALSE]
            IN  x.status = k.status /\ x.expires = k.expires /\ x.activate = k.activate
                /\ ~x.reveal /\ x.confirmed = k.confirmed
                /\ x.trigger = k.trigger /\ x.revealed = k.revealed
  BY DEF Key

\* A revoked version: nothing of it is in use.
LEMMA GoneFields ==
  /\ GoneKey.status = "revoked" /\ ~GoneKey.reveal
  /\ NoKey.status = "absent" /\ NoKey.expires = Null /\ ~NoKey.reveal
  BY DEF GoneKey, NoKey

\* The versions of a keyset with some revoked and one written.
LEMMA ReplacedFields ==
  ASSUME TypeOK, NEW s \in Slots, NEW S, NEW n \in Versions, NEW k
  PROVE  /\ Replaced(s, S, n, k)[n] = k
         /\ \A v \in Versions \ {n} :
              Replaced(s, S, n, k)[v] = IF v \in S THEN GoneKey ELSE key[s][v]
  BY DEF TypeOK, Replaced, Without

\* A slot whose row and keys stay keeps its part of the invariant.
LEMMA Untouched ==
  ASSUME NEW r \in Slots, Row(r), phase' = phase, slot'[r].status = slot[r].status,
         key'[r] = key[r]
  PROVE  Row(r)'
  BY DEF Row, Bare, Blank, Single, InTime, Opened, Erased, Pending, Active, With

\* So does one of which fields the invariant does not mention are written, or
\* of which plaintexts are erased.
LEMMA SameVersions ==
  ASSUME NEW r \in Slots, Row(r), phase' = phase, slot'[r].status = slot[r].status,
         \A v \in Versions : /\ key'[r][v].status = key[r][v].status
                             /\ key'[r][v].activate = key[r][v].activate
                             /\ key'[r][v].expires = key[r][v].expires
                             /\ key'[r][v].reveal => key[r][v].reveal
  PROVE  Row(r)'
  BY DEF Row, Bare, Blank, Single, InTime, Opened, Erased, Pending, Active, With

\* So does one of which pending versions are revoked.
LEMMA PendingRevoked ==
  ASSUME NEW r \in Slots, Row(r), NEW S \in SUBSET Pending(r),
         phase' = phase, slot'[r].status = slot[r].status,
         \A v \in Versions : key'[r][v] = IF v \in S THEN GoneKey ELSE key[r][v]
  PROVE  Row(r)'
  BY GoneFields DEF Row, Bare, Blank, Single, InTime, Opened, Erased, Pending, Active, With

\* A slot all of whose versions in use are replaced by one active version, or
\* by one pending version while it is still behind the legacy gateway.
LEMMA OneVersion ==
  ASSUME NEW r \in Slots, Row(r), NEW n \in Versions, slot'[r].status = "active",
         key'[r][n].status = "active" \/ (key'[r][n].status = "pending" /\ phase' = "prepared"),
         \A v \in Versions \ {n} : key'[r][v] = GoneKey
                                    \/ (key'[r][v] = key[r][v] /\ v \notin Pending(r) \cup Active(r))
  PROVE  Row(r)'
  BY GoneFields DEF Row, Bare, Blank, Single, InTime, Opened, Erased, Pending, Active, With

\* Nothing outside a migration touches the invariant of its keyset.
LEMMA NoMigration == phase' = "ready" => CutoverResumable'
  BY DEF CutoverResumable

\* What the keyset of a migration is left alone by.
LEMMA SameMigration ==
  ASSUME CutoverResumable, phase' = phase,
         \A r \in Slots : slot'[r].status = slot[r].status,
         phase \in {"prepared", "cutover"} => \A r \in Initial, v \in Versions :
           /\ key'[r][v].status = key[r][v].status
           /\ key'[r][v].trigger = key[r][v].trigger
           /\ key[r][v].revealed => key'[r][v].revealed
           /\ key[r][v].confirmed => key'[r][v].confirmed
  PROVE  CutoverResumable'
  BY FirstVersion, KeysAssumption DEF CutoverResumable, Prepared, With

\* The first version of every initial slot, in a project that had none.
LEMMA IntroducedRows ==
  ASSUME Keyset, NEW k \in Key, Introduce(k),
         (k.status = "active" /\ phase' = "ready") \/ (k.status = "pending" /\ phase' = "prepared"),
         NEW r \in Slots
  PROVE  Row(r)'
<1>1. TypeOK /\ Row(r) /\ slot[r].status = "absent"
  BY DEF Keyset, Introduce
<1>2. CASE r \in Initial
  <2>1. slot'[r].status = "active" /\ key'[r] = Replaced(r, {}, 1, k)
    BY <1>2 DEF Introduce, NewSlot
  <2>2. key'[r][1] = k /\ \A v \in Versions \ {1} : key'[r][v] = key[r][v]
    BY <1>1, <2>1, ReplacedFields, FirstVersion
  <2>3. \A v \in Versions : v \notin Pending(r) \cup Active(r)
    BY <1>1 DEF Row, Bare, Pending, Active, With
  <2> QED
    BY <1>1, <2>1, <2>2, <2>3, OneVersion, FirstVersion
<1>3. CASE r \notin Initial
  BY <1>1, <1>3 DEF Introduce, Row, Bare, Blank, Single, InTime, Opened, Erased, Pending, Active, With
<1> QED
  BY <1>2, <1>3

\* The keys of a migration once it is activated.
LEMMA ActivatedFields ==
  ASSUME TypeOK, NEW now \in Began, ActivateMigration(now), NEW r \in Initial
  PROVE  /\ key'[r][1].status = "active"
         /\ key'[r][1].expires = Expiration(now, slot[r].interval)
         /\ \A v \in Versions \ {1} : key'[r][v] = key[r][v]
<1> DEFINE e == Expiration(now, slot[r].interval)
<1>1. key[r] \in [Versions -> Key] /\ r \in Slots
  BY KeysAssumption DEF TypeOK
<1>2. key'[r] = [key[r] EXCEPT ![1].status = "active", ![1].activate = now, ![1].expires = e]
  BY <1>1 DEF ActivateMigration
<1> HIDE DEF e
<1>3. [key[r] EXCEPT ![1].status = "active", ![1].activate = now, ![1].expires = e]
        = [key[r] EXCEPT ![1] = [key[r][1] EXCEPT !.status = "active", !.activate = now, !.expires = e]]
  BY <1>1, FirstVersion DEF Key
<1> DEFINE k == [key[r][1] EXCEPT !.status = "active", !.activate = now, !.expires = e]
<1>4. k.status = "active" /\ k.expires = e
  BY <1>1, FirstVersion, EditedFields
<1> HIDE DEF k
<1>5. key'[r] = [key[r] EXCEPT ![1] = k]
  BY <1>2, <1>3 DEF k
<1> QED
  BY <1>1, <1>4, <1>5, FirstVersion DEF e

\* Every step keeps the invariant.
LEMMA NextKeyset == Keyset /\ [Next]_vars => Keyset'
<1> SUFFICES ASSUME Keyset, [Next]_vars PROVE CutoverResumable' /\ \A r \in Slots : Row(r)'
  BY NextTypes DEF Keyset
<1>0. TypeOK /\ CutoverResumable /\ (\A r \in Slots : Row(r))
  BY DEF Keyset
<1> DEFINE Goal == CutoverResumable' /\ \A r \in Slots : Row(r)'
<1>1. ASSUME NEW now \in Began, Bootstrap(now) PROVE Goal
  <2> DEFINE k == NewKey("active", "initial", Null, now + Default, FALSE)
  <2>1. now + Default \in Nat
    BY <1>0, BeganType, KeysAssumption
  <2>2. k \in Key /\ k.status = "active" /\ Introduce(k) /\ phase' = "ready"
    BY <1>1, <2>1, NewKeyType DEF Null, NewKey, Bootstrap
  <2> QED
    BY <2>2, IntroducedRows, NoMigration
<1>2. ASSUME NEW now \in Began, PrepareMigration(now) PROVE Goal
  <2> DEFINE k == NewKey("pending", "initial", Null, now + Window + Default, FALSE)
  <2>1. now + Window + Default \in Nat
    BY <1>0, BeganType, KeysAssumption
  <2>2. k \in Key /\ k.status = "pending" /\ k.trigger = "initial" /\ Introduce(k) /\ phase' = "prepared"
    BY <1>2, <2>1, NewKeyType DEF Null, NewKey, PrepareMigration
  <2> HIDE DEF k
  <2>3. ASSUME NEW r \in Initial
        PROVE  /\ slot'[r].status = "active"
               /\ key'[r][1] = k
               /\ \A v \in Versions \ {1} : key'[r][v].status = "absent"
    <3>1. r \in Slots /\ slot[r].status = "absent" /\ slot'[r].status = "active"
          /\ key'[r] = Replaced(r, {}, 1, k)
      BY <2>2, KeysAssumption DEF Introduce, NewSlot
    <3>2. \A v \in Versions : key[r][v].status = "absent"
      BY <1>0, <3>1 DEF Row, Bare
    <3> QED
      BY <1>0, <3>1, <3>2, ReplacedFields, FirstVersion
  <2>4. \A r \in Slots \ Initial : slot'[r].status = "absent"
    BY <2>2 DEF Introduce
  <2>5. Prepared'
    BY <2>2, <2>3, <2>4, KeysAssumption, FirstVersion DEF Prepared, With
  <2> QED
    BY <2>2, <2>5, IntroducedRows DEF CutoverResumable
<1>3. ASSUME AbortMigration PROVE Goal
  <2>1. /\ phase' = "legacy"
        /\ \A r \in Slots : slot'[r].status = "absent" /\ \A v \in Versions : key'[r][v] = NoKey
    BY <1>3 DEF AbortMigration, NoSlot
  <2> QED
    BY <2>1, GoneFields DEF CutoverResumable, Row, Bare, Blank, Single, InTime, Opened, Erased,
                            Pending, Active, With
<1>4. ASSUME NEW now \in Began, BeginCutover(now) PROVE Goal
  <2>1. CutoverResumable'
    BY <1>4 DEF BeginCutover, CutoverResumable, Prepared, Installed, With
  <2> QED
    BY <1>0, <1>4, <2>1 DEF BeginCutover, Row, Bare, Blank, Single, InTime, Opened, Erased,
                            Pending, Active, With
<1>5. ASSUME FinishCutover PROVE Goal
  BY <1>0, <1>5, NoMigration DEF FinishCutover, Row, Bare, Blank, Single, InTime, Opened, Erased,
                            Pending, Active, With
<1>6. ASSUME NEW now \in Began, ActivateMigration(now) PROVE Goal
  <2>1. CutoverResumable'
    BY <1>6 DEF ActivateMigration, CutoverResumable
  <2>2. ASSUME NEW r \in Initial PROVE Row(r)'
    <3>1. r \in Slots /\ slot'[r].status = "active" /\ phase' = "activated"
      BY <1>6, <2>2, KeysAssumption DEF ActivateMigration, Prepared
    <3>2. key'[r][1].status = "active" /\ \A v \in Versions \ {1} : key'[r][v] = key[r][v]
      BY <1>0, <1>6, <2>2, ActivatedFields
    <3>3. \A v \in Versions \ {1} : v \notin Pending(r) \cup Active(r)
      BY <1>6, <2>2 DEF ActivateMigration, Prepared, Pending, Active, With
    <3> QED
      BY <1>0, <3>1, <3>2, <3>3, OneVersion, FirstVersion
  <2>3. ASSUME NEW r \in Slots \ Initial PROVE Row(r)'
    <3>1. slot[r].status = "absent" /\ slot'[r] = slot[r] /\ key'[r] = key[r]
      BY <1>6, <2>3 DEF ActivateMigration, Prepared
    <3> QED
      BY <1>0, <2>3, <3>1 DEF Row, Bare, Blank, Single, InTime, Opened, Erased, Pending, Active, With
  <2> QED
    BY <2>1, <2>2, <2>3
<1>7. ASSUME NEW s \in Slots, NEW auto \in BOOLEAN, NEW i \in Intervals \cup {Null}, NEW now \in Began,
             CreateSlot(s, auto, i, now)
      PROVE  Goal
  <2> DEFINE k == NewKey("active", "manual", Null, Expiration(now, i), TRUE)
  <2>1. k.status = "active" /\ key' = [key EXCEPT ![s] = Replaced(s, {}, 1, k)]
    BY <1>7 DEF CreateSlot, NewKey
  <2> HIDE DEF k
  <2>2. key'[s] = Replaced(s, {}, 1, k) /\ \A r \in Slots \ {s} : key'[r] = key[r]
    BY <1>0, <2>1 DEF TypeOK
  <2>3. /\ phase = "ready" /\ phase' = "ready" /\ slot[s].status = "absent"
        /\ slot'[s].status = "active" /\ \A r \in Slots \ {s} : slot'[r] = slot[r]
    BY <1>0, <1>7 DEF CreateSlot, NewSlot, TypeOK
  <2>4. key'[s][1] = k /\ \A v \in Versions \ {1} : key'[s][v] = key[s][v]
    BY <1>0, <2>2, ReplacedFields, FirstVersion
  <2>5. \A v \in Versions : v \notin Pending(s) \cup Active(s)
    BY <1>0, <2>3 DEF Row, Bare, Pending, Active, With
  <2>6. Row(s)'
    BY <1>0, <2>1, <2>3, <2>4, <2>5, OneVersion, FirstVersion
  <2> QED
    BY <1>0, <2>2, <2>3, <2>6, Untouched, NoMigration
<1>8. ASSUME NEW s \in Slots, NEW now \in Began, RotateImmediately(s, now) PROVE Goal
  <2> DEFINE k == NewKey("active", "manual", Null, Expiration(now, slot[s].interval), FALSE)
             S == Pending(s) \cup Active(s)
  <2>1. k.status = "active"
    BY DEF NewKey
  <2>2. PICK n \in Fresh(s) : key' = [key EXCEPT ![s] = Replaced(s, S, n, k)]
    BY <1>8 DEF RotateImmediately
  <2> HIDE DEF k
  <2>3. n \in Versions
    BY DEF Fresh, With
  <2>4. key'[s] = Replaced(s, S, n, k) /\ \A r \in Slots \ {s} : key'[r] = key[r]
    BY <1>0, <2>2 DEF TypeOK
  <2>5. phase = "ready" /\ phase' = "ready" /\ slot[s].status = "active"
        /\ \A r \in Slots : slot'[r].status = slot[r].status
    BY <1>0, <1>8, UnblockedType DEF RotateImmediately, Managed
  <2>6. key'[s][n] = k /\ \A v \in Versions \ {n} :
                             key'[s][v] = IF v \in S THEN GoneKey ELSE key[s][v]
    BY <1>0, <2>3, <2>4, ReplacedFields
  <2>7. Row(s)'
    BY <1>0, <2>1, <2>3, <2>5, <2>6, OneVersion
  <2> QED
    BY <1>0, <2>4, <2>5, <2>7, Untouched, NoMigration
<1>9. ASSUME NEW s \in Slots, NEW at \in Nat, NEW tr \in {"manual", "automatic"}, NEW now \in Began,
             PrepareRotation(s, at, tr, now)
      PROVE  Goal
  <2> DEFINE k == NewKey("pending", tr, at, Expiration(at, slot[s].interval), tr = "manual")
  <2>1. k.status = "pending" /\ k.activate = at
    BY DEF NewKey
  <2>2. PICK n \in Fresh(s) : key' = [key EXCEPT ![s] = Replaced(s, {}, n, k)]
    BY <1>9 DEF PrepareRotation
  <2> HIDE DEF k
  <2>3. n \in Versions /\ key[s][n].status = "absent"
    BY DEF Fresh, With
  <2>4. key'[s] = Replaced(s, {}, n, k) /\ \A r \in Slots \ {s} : key'[r] = key[r]
    BY <1>0, <2>2 DEF TypeOK
  <2>5. phase = "ready" /\ phase' = "ready" /\ slot[s].status = "active"
        /\ \A r \in Slots : slot'[r].status = slot[r].status
    BY <1>0, <1>9, UnblockedType DEF PrepareRotation, Managed
  <2>6. key'[s][n] = k /\ \A v \in Versions \ {n} : key'[s][v] = key[s][v]
    BY <1>0, <2>3, <2>4, ReplacedFields
  <2>7. /\ at # Null
        /\ Pending(s) = {}
        /\ \A w \in Active(s) : key[s][w].expires # Null => at <= key[s][w].expires
    <3>1. at > now /\ Pending(s) = {}
          /\ \E w \in Active(s) : key[s][w].expires # Null => at <= key[s][w].expires
      BY <1>9 DEF PrepareRotation, CanPrepare
    <3>2. \A v, w \in Active(s) : v = w
      BY <1>0 DEF Row, Single
    <3>3. now \in Nat
      BY <1>0, BeganType
    <3> QED
      BY <3>1, <3>2, <3>3 DEF Null
  <2>8. Row(s)'
    BY <1>0, <2>1, <2>3, <2>5, <2>6, <2>7
       DEF Row, Bare, Blank, Single, InTime, Opened, Erased, Pending, Active, With
  <2> QED
    BY <1>0, <2>4, <2>5, <2>8, Untouched, NoMigration
<1>10. ASSUME NEW s \in Slots, NEW now \in Began, ActivatePending(s, now) PROVE Goal
  <2>1. PICK v \in Pending(s) : key' = [key EXCEPT ![s] =
                              Replaced(s, Active(s), v, [key[s][v] EXCEPT !.status = "active"])]
    BY <1>10 DEF ActivatePending
  <2>2. v \in Versions
    BY DEF Pending, With
  <2> DEFINE k == [key[s][v] EXCEPT !.status = "active"]
  <2>3. k.status = "active"
    BY <1>0, <2>2, EditedFields DEF TypeOK
  <2> HIDE DEF k
  <2>4. key'[s] = Replaced(s, Active(s), v, k) /\ \A r \in Slots \ {s} : key'[r] = key[r]
    BY <1>0, <2>1 DEF TypeOK, k
  <2>5. phase = "ready" /\ phase' = "ready" /\ slot[s].status = "active" /\ slot' = slot
    BY <1>10 DEF ActivatePending, Managed
  <2>6. key'[s][v] = k /\ \A w \in Versions \ {v} :
                             key'[s][w] = IF w \in Active(s) THEN GoneKey ELSE key[s][w]
    BY <1>0, <2>2, <2>4, ReplacedFields
  <2>7. \A w \in Versions \ {v} : w \notin Pending(s)
    BY <1>0, <2>1 DEF Row, Single
  <2>8. Row(s)'
    BY <1>0, <2>2, <2>3, <2>5, <2>6, <2>7, OneVersion
  <2> QED
    BY <1>0, <2>4, <2>5, <2>8, Untouched, NoMigration
<1>11. ASSUME NEW s \in Slots, NEW v \in Versions, NEW now \in Began,
              ConfirmInstallation(s, v, now) \/ ClaimReveal(s, v)
       PROVE  Goal
  <2>1. \/ key' = [key EXCEPT ![s][v] = [key[s][v] EXCEPT !.confirmed = TRUE]]
        \/ key' = [key EXCEPT ![s][v] = [key[s][v] EXCEPT !.revealed = TRUE]]
    BY <1>0, <1>11 DEF ConfirmInstallation, ClaimReveal, TypeOK
  <2>2. phase' = phase /\ \A r \in Slots : slot'[r].status = slot[r].status
    BY <1>0, <1>11, UnblockedType DEF ConfirmInstallation, ClaimReveal
  <2>3. ASSUME NEW r \in Slots, NEW w \in Versions
        PROVE  /\ key'[r][w].status = key[r][w].status
               /\ key'[r][w].activate = key[r][w].activate
               /\ key'[r][w].expires = key[r][w].expires
               /\ key'[r][w].reveal = key[r][w].reveal
               /\ key'[r][w].trigger = key[r][w].trigger
               /\ key[r][w].revealed => key'[r][w].revealed
               /\ key[r][w].confirmed => key'[r][w].confirmed
    <3>1. CASE r = s /\ w = v
      <4>1. key[s][v] \in Key
        BY <1>0 DEF TypeOK
      <4>2. \/ key'[r][w] = [key[s][v] EXCEPT !.confirmed = TRUE]
            \/ key'[r][w] = [key[s][v] EXCEPT !.revealed = TRUE]
        <5>1. PICK k : /\ key' = [key EXCEPT ![s][v] = k]
                       /\ k = [key[s][v] EXCEPT !.confirmed = TRUE] \/ k = [key[s][v] EXCEPT !.revealed = TRUE]
          BY <2>1
        <5>2. key'[s][v] = k
          BY <1>0, <5>1 DEF TypeOK
        <5> QED
          BY <3>1, <5>1, <5>2
      <4>3. CASE key'[r][w] = [key[s][v] EXCEPT !.confirmed = TRUE]
        BY <3>1, <4>1, <4>3, EditedFields
      <4>4. CASE key'[r][w] = [key[s][v] EXCEPT !.revealed = TRUE]
        BY <3>1, <4>1, <4>4, EditedFields
      <4> QED
        BY <4>2, <4>3, <4>4
    <3>2. CASE ~(r = s /\ w = v)
      BY <1>0, <2>1, <3>2 DEF TypeOK
    <3> QED
      BY <3>1, <3>2
  <2> QED
    BY <1>0, <2>2, <2>3, SameVersions, SameMigration, KeysAssumption
<1>12. ASSUME NEW s \in Slots, NEW now \in Began, CancelPending(s, now) PROVE Goal
  <2>1. PICK v \in Pending(s) : key' = [key EXCEPT ![s][v] = GoneKey]
    BY <1>12 DEF CancelPending
  <2>2. v \in Versions
    BY DEF Pending, With
  <2>3. phase' = "ready" /\ phase' = phase /\ \A r \in Slots : slot'[r].status = slot[r].status
    BY <1>0, <1>12, UnblockedType DEF CancelPending, Managed
  <2>4. /\ \A w \in Versions : key'[s][w] = IF w \in {v} THEN GoneKey ELSE key[s][w]
        /\ \A r \in Slots \ {s} : key'[r] = key[r]
    BY <1>0, <2>1, <2>2 DEF TypeOK
  <2>5. Row(s)'
    BY <1>0, <2>1, <2>3, <2>4, PendingRevoked
  <2> QED
    BY <1>0, <2>3, <2>4, <2>5, Untouched, NoMigration
<1>13. ASSUME NEW s \in Slots, DisableSlot(s) PROVE Goal
  <2>1. /\ phase' = "ready" /\ phase' = phase /\ slot'[s].status = "disabled"
        /\ \A r \in Slots \ {s} : slot'[r] = slot[r]
    BY <1>0, <1>13 DEF DisableSlot, Managed, TypeOK, Slot
  <2>2. /\ \A v \in Versions : key'[s][v] = IF v \in Pending(s) \cup Active(s) THEN GoneKey ELSE key[s][v]
        /\ \A r \in Slots \ {s} : key'[r] = key[r]
    BY <1>0, <1>13 DEF DisableSlot, TypeOK, Without
  <2>3. Row(s)'
    BY <1>0, <2>1, <2>2, GoneFields
       DEF Row, Bare, Blank, Single, InTime, Opened, Erased, Pending, Active, With
  <2> QED
    BY <1>0, <2>1, <2>2, <2>3, Untouched, NoMigration
<1>14. ASSUME NEW s \in Slots, NEW choice, NEW i \in Intervals \cup {Null}, NEW now \in Began,
              UpdatePolicy(s, choice, i, now)
       PROVE  Goal
  <2> DEFINE dropped == IF choice = "off" THEN Unneeded(s, now) ELSE {}
  <2>1. /\ phase' = "ready" /\ phase' = phase
        /\ slot'[s].status = slot[s].status
        /\ \A r \in Slots \ {s} : slot'[r] = slot[r] /\ key'[r] = key[r]
    BY <1>0, <1>14 DEF UpdatePolicy, Managed, TypeOK, Slot
  <2>2. dropped \subseteq Pending(s)
    BY DEF Unneeded
  <2>3. ASSUME NEW v \in Versions
        PROVE  key'[s][v] = IF v \in dropped THEN GoneKey
                            ELSE IF i # slot[s].interval /\ v \in Active(s)
                                 THEN [key[s][v] EXCEPT !.expires = Expiration(now, i)]
                                 ELSE key[s][v]
    BY <1>0, <1>14 DEF UpdatePolicy, TypeOK
  <2>4. CASE i = slot[s].interval
    <3>1. \A v \in Versions : key'[s][v] = IF v \in dropped THEN GoneKey ELSE key[s][v]
      BY <2>3, <2>4
    <3>2. Row(s)'
      BY <1>0, <2>1, <2>2, <3>1, PendingRevoked
    <3> QED
      BY <1>0, <2>1, <3>2, Untouched, NoMigration
  <2>5. CASE i # slot[s].interval
    <3>1. Pending(s) = dropped
      BY <1>14, <2>2, <2>5 DEF UpdatePolicy
    <3>2. ASSUME NEW v \in Versions
          PROVE  /\ v \in Pending(s) => key'[s][v] = GoneKey
                 /\ v \in Active(s) => key'[s][v].status = "active"
                 /\ v \notin Pending(s) \cup Active(s) => key'[s][v] = key[s][v]
      <4>1. key[s][v] \in Key
        BY <1>0 DEF TypeOK
      <4>2. CASE v \in Pending(s)
        BY <2>3, <3>1, <4>2 DEF Pending, Active, With
      <4>3. CASE v \in Active(s)
        <5>1. key'[s][v] = [key[s][v] EXCEPT !.expires = Expiration(now, i)]
              /\ key[s][v].status = "active"
          BY <2>3, <2>5, <3>1, <4>3 DEF Pending, Active, With
        <5> QED
          BY <4>1, <4>3, <5>1, EditedFields DEF Pending, Active, With
      <4> QED
        BY <2>3, <3>1, <4>2, <4>3
    <3>3. Row(s)'
      BY <1>0, <2>1, <3>2, GoneFields
         DEF Row, Bare, Blank, Single, InTime, Opened, Erased, Pending, Active, With
    <3> QED
      BY <1>0, <2>1, <3>3, Untouched, NoMigration
  <2> QED
    BY <2>4, <2>5
<1>15. ASSUME NEW on \in BOOLEAN, NEW now \in Began, SetAutomatic(on, now) PROVE Goal
  <2>1. phase' = phase /\ slot' = slot
    BY <1>15 DEF SetAutomatic
  <2>2. ASSUME NEW r \in Slots
        PROVE  \E S \in SUBSET Pending(r) :
                 /\ \A v \in S : key[r][v].trigger = "automatic"
                 /\ \A v \in Versions : key'[r][v] = IF v \in S THEN GoneKey ELSE key[r][v]
    <3>1. CASE on
      <4>1. key'[r] = key[r]
        BY <1>15, <3>1 DEF SetAutomatic
      <4>2. {} \in SUBSET Pending(r)
        OBVIOUS
      <4> QED
        BY <4>1, <4>2
    <3>2. CASE ~on
      <4>1. \A v \in Versions : key'[r][v] = IF v \in Unneeded(r, now) THEN GoneKey ELSE key[r][v]
        BY <1>15, <3>2 DEF SetAutomatic, Without
      <4> QED
        BY <4>1 DEF Unneeded
    <3> QED
      BY <3>1, <3>2
  <2>3. \A r \in Slots : Row(r)'
    BY <1>0, <2>1, <2>2, PendingRevoked
  <2>4. ASSUME phase \in {"prepared", "cutover"}, NEW r \in Initial, NEW v \in Versions
        PROVE  key'[r][v] = key[r][v]
    <3>1. r \in Slots /\ (key[r][v].status = "pending" => key[r][v].trigger = "initial")
      BY <1>0, <2>4, KeysAssumption DEF CutoverResumable, Prepared, With
    <3> QED
      BY <2>2, <3>1 DEF Pending, With
  <2> QED
    BY <1>0, <2>1, <2>3, <2>4, SameMigration
<1>16. ASSUME NEW now \in Began, ScanReveals(now) PROVE Goal
  <2>1. phase' = phase /\ slot' = slot
    BY <1>16 DEF ScanReveals
  <2>2. ASSUME NEW r \in Slots, NEW w \in Versions
        PROVE  /\ key'[r][w].status = key[r][w].status
               /\ key'[r][w].activate = key[r][w].activate
               /\ key'[r][w].expires = key[r][w].expires
               /\ key'[r][w].reveal => key[r][w].reveal
               /\ key'[r][w].trigger = key[r][w].trigger
               /\ key'[r][w].revealed = key[r][w].revealed
               /\ key'[r][w].confirmed = key[r][w].confirmed
    <3>1. key'[r][w] = key[r][w] \/ key'[r][w] = [key[r][w] EXCEPT !.reveal = FALSE]
      BY <1>16 DEF ScanReveals
    <3>2. key[r][w] \in Key
      BY <1>0 DEF TypeOK
    <3>3. CASE key'[r][w] = [key[r][w] EXCEPT !.reveal = FALSE]
      BY <3>2, <3>3, EditedFields
    <3> QED
      BY <3>1, <3>3
  <2> QED
    BY <1>0, <2>1, <2>2, SameVersions, SameMigration, KeysAssumption
<1>17. ASSUME NEW s \in Slots, NEW now \in Began, ScanBlock(s, now) PROVE Goal
  <2>1. phase' = phase /\ key' = key /\ \A r \in Slots : slot'[r].status = slot[r].status
    BY <1>0, <1>17 DEF ScanBlock, TypeOK, Slot
  <2> QED
    BY <1>0, <2>1, Untouched, SameMigration
<1>18. CASE Tick
  BY <1>0, <1>18, Untouched, SameMigration DEF Tick
<1>19. CASE UNCHANGED vars
  BY <1>0, <1>19, Untouched, SameMigration DEF vars
<1> QED
  <2>1. ASSUME NEW now \in Began, NEW at \in (now + 1)..MaxTime PROVE at \in Nat
    BY <1>0, BeganType, KeysAssumption
  <2>2. ASSUME NEW now \in Began, NEW at \in (now + 1)..(now + Lead) PROVE at \in Nat
    BY <1>0, BeganType, KeysAssumption
  <2> QED
    BY <1>1, <1>2, <1>3, <1>4, <1>5, <1>6, <1>7, <1>8, <1>9, <1>10, <1>11, <1>12, <1>13, <1>14, <1>15,
       <1>16, <1>17, <1>18, <1>19, <2>1, <2>2
       DEF Next, Migration, Manage, Scan, ScanActivate, ScanPrepare

\* The initial state satisfies the invariant.
LEMMA InitKeyset == Init => Keyset
<1> SUFFICES ASSUME Init PROVE Keyset
  OBVIOUS
<1>1. TypeOK
  BY InitTypes
<1>2. \A r \in Slots : slot[r].status = "absent" /\ \A v \in Versions : key[r][v] = NoKey
  BY DEF Init, NoSlot
<1>3. CutoverResumable
  BY DEF Init, CutoverResumable
<1> QED
  BY <1>1, <1>2, <1>3, GoneFields
     DEF Keyset, Row, Bare, Blank, Single, InTime, Opened, Erased, Pending, Active, With

\* The inductive invariant holds in every reachable state.
THEOREM KeysetInvariant == Spec => []Keyset
  BY InitKeyset, NextKeyset, PTL DEF Spec
-----------------------------------------------------------------------------
(* What follows from the invariant in every state *)

\* No two versions of a slot open it at the same time, at any instant.
THEOREM OneAcceptedHolds == Spec => []OneAccepted
<1>1. Keyset => OneAccepted
  BY DEF Keyset, OneAccepted, Accepted, Effective, Row, Single, Pending, Active, With
<1> QED
  BY <1>1, KeysetInvariant, PTL

\* A consumer that confirmed its replacement has a key until that one expires:
\* before activate_at the active one, which expires later, and then the new one.
THEOREM HandoverHolds == Spec => []Handover
<1>1. Keyset => Handover
  <2> SUFFICES ASSUME Keyset, NEW s \in Slots, Managed(s), NEW v \in Pending(s),
                      key[s][v].confirmed, ~Past(key[s][v].expires, clock)
               PROVE  \E w \in Versions : Accepted(s, w, clock)
    BY DEF Handover
  <2>1. TypeOK /\ Row(s) /\ v \in Versions /\ key[s][v].status = "pending"
    BY DEF Keyset, Pending, With
  <2>2. CASE Past(key[s][v].activate, clock)
    BY <2>1, <2>2 DEF Managed, Accepted, Effective
  <2>3. CASE ~Past(key[s][v].activate, clock)
    <3>1. PICK w \in Active(s) : TRUE
      BY <2>1 DEF Row, Opened, Managed
    <3>2. w \in Versions /\ key[s][w].status = "active"
      BY <3>1 DEF Active, With
    <3>3. \A due \in Versions : ~Effective(key[s][due], clock)
      BY <2>1, <2>3 DEF Row, Single, Effective, Pending, With
    <3>4. ~Past(key[s][w].expires, clock)
      <4>1. key[s][v].activate # Null
            /\ (key[s][w].expires # Null => key[s][v].activate <= key[s][w].expires)
        BY <2>1 DEF Row, InTime
      <4>2. key[s][v].activate \in Nat /\ key[s][w].expires \in Nat /\ clock \in Nat
        BY <2>1, <3>2 DEF TypeOK, Key
      <4> QED
        BY <2>3, <4>1, <4>2 DEF Past
    <3> QED
      BY <3>2, <3>3, <3>4 DEF Managed, Accepted
  <2> QED
    BY <2>2, <2>3
<1> QED
  BY <1>1, KeysetInvariant, PTL

\* Whatever revokes a version erases its plaintext.
THEOREM RevealsLiveHolds == Spec => []RevealsLive
<1>1. Keyset => RevealsLive
  BY DEF Keyset, RevealsLive, Row, Erased
<1> QED
  BY <1>1, KeysetInvariant, PTL

\* The keyset of a migration stays prepared, and installed once its cutover
\* has begun: a repeated cutover finds what the first one checked.
THEOREM CutoverResumableHolds == Spec => []CutoverResumable
<1>1. Keyset => CutoverResumable
  BY DEF Keyset
<1> QED
  BY <1>1, KeysetInvariant, PTL

\* No row the scheduler selects is refused by the service function it calls.
THEOREM ScanNeverRaisesHolds == Spec => []ScanNeverRaises
<1>1. Keyset => ScanNeverRaises
  <2> SUFFICES ASSUME Keyset, NEW s \in Slots, NEW now \in Began
               PROVE  /\ DueRotation(s, now) => CanActivate(s, now)
                      /\ \A at \in now..(now + Lead) : DuePreparation(s, at, now) => CanPrepare(s, at, now)
    BY DEF ScanNeverRaises
  <2>1. TypeOK /\ Row(s) /\ now \in Nat
    BY BeganType DEF Keyset
  <2>2. DueRotation(s, now) => CanActivate(s, now)
    BY <2>1 DEF DueRotation, CanActivate, Managed, Row, Opened
  <2>3. ASSUME NEW at \in now..(now + Lead), DuePreparation(s, at, now) PROVE CanPrepare(s, at, now)
    BY <2>1, <2>3, KeysAssumption DEF DuePreparation, Scheduled, CanPrepare
  <2> QED
    BY <2>2, <2>3
<1> QED
  BY <1>1, KeysetInvariant, PTL
-----------------------------------------------------------------------------
(* What follows for every step: a life that is over stays over *)

\* A version is shut once it is revoked or gone, it has expired at t, or its
\* replacement is in force at t.
Shut(s, v, t) == \/ key[s][v].status \in {"absent", "revoked"}
                 \/ Past(key[s][v].expires, t)
                 \/ key[s][v].status = "active" /\ \E due \in Versions : Effective(key[s][due], t)

\* A comparison with a time that is true stays true.
LEMMA PastMonotone ==
  ASSUME NEW a \in Nat, NEW t \in Nat, NEW u \in Nat, t <= u, Past(a, t)
  PROVE  Past(a, u)
  BY DEF Past

\* Neither is a replacement in force ever out of force for time alone.
LEMMA EffectiveMonotone ==
  ASSUME NEW k \in Key, NEW t \in Nat, NEW u \in Nat, t <= u, Effective(k, t)
  PROVE  Effective(k, u)
  BY PastMonotone DEF Effective, Key

\* The authorizer refuses, after a step, a version that has been shut.
LEMMA ShutRefused ==
  ASSUME TypeOK', NEW s \in Slots, NEW v \in Versions, NEW t \in Nat, t <= clock', Shut(s, v, t)'
  PROVE  ~Accepted(s, v, clock)'
<1>1. clock' \in Nat /\ key'[s][v].expires \in Nat /\ \A w \in Versions : key'[s][w] \in Key
  BY DEF TypeOK, Key
<1>2. CASE key'[s][v].status \in {"absent", "revoked"}
  BY <1>2 DEF Accepted, Effective
<1>3. CASE Past(key'[s][v].expires, t)
  BY <1>1, <1>3, PastMonotone DEF Accepted
<1>4. CASE key'[s][v].status = "active" /\ \E due \in Versions : Effective(key'[s][due], t)
  BY <1>1, <1>4, EffectiveMonotone DEF Accepted, Effective
<1> QED
  BY <1>2, <1>3, <1>4 DEF Shut

\* A life that is over in a slot whose keys the step hardly touches.
LEMMA KeptShut ==
  ASSUME NEW s \in Slots, NEW v \in Versions, NEW t \in Nat, Ended(s, v, t),
         \A w \in Versions : /\ key'[s][w].status = key[s][w].status
                             /\ key'[s][w].activate = key[s][w].activate
                             /\ key'[s][w].expires = key[s][w].expires
                             /\ key[s][w].confirmed => key'[s][w].confirmed
  PROVE  Shut(s, v, t)'
  BY DEF Ended, Shut, Effective, Past

\* A life that has begun is over only in a slot that exists, for a version that
\* exists.
LEMMA EndedExists ==
  ASSUME NEW s \in Slots, NEW v \in Versions, NEW t \in Nat, Row(s), Ended(s, v, t)
  PROVE  slot[s].status # "absent" /\ key[s][v].status # "absent"
  BY DEF Row, Bare, Blank, Ended, Past

\* A version whose life was over before any transaction that is running began
\* is shut after the next step, whatever the step.
LEMMA EndedShut ==
  ASSUME Keyset, [Next]_vars, NEW s \in Slots, NEW v \in Versions,
         NEW t \in Nat, \A now \in Began : t <= now, Ended(s, v, t)
  PROVE  Shut(s, v, t)'
<1>0. TypeOK /\ Row(s) /\ slot[s].status # "absent" /\ key[s][v].status # "absent"
      /\ CutoverResumable /\ \A w \in Versions : key[s][w] \in Key
  BY EndedExists DEF Keyset, TypeOK
<1> DEFINE Goal == Shut(s, v, t)'
<1>1. ASSUME key'[s] = key[s] PROVE Goal
  BY <1>1, KeptShut
<1>2. ASSUME NEW k, Introduce(k) PROVE Goal
  BY <1>0, <1>2 DEF Introduce
<1>3. ASSUME AbortMigration PROVE Goal
  BY <1>3, GoneFields DEF AbortMigration, Shut
<1>4. ASSUME NEW now \in Began, ActivateMigration(now) PROVE Goal
  <2>1. CASE s \in Initial
    <3>1. v = 1 /\ key[s][v].status = "pending" /\ ~Past(key[s][v].expires, now)
      BY <1>0, <1>4, <2>1, FirstVersion DEF ActivateMigration, Prepared, Installed, With
    <3>2. key[s][v].expires \in Nat /\ now \in Nat
      BY <1>0, BeganType DEF Key
    <3> QED
      BY <3>1, <3>2, PastMonotone DEF Ended
  <2>2. CASE s \notin Initial
    BY <1>1, <1>4, <2>2 DEF ActivateMigration
  <2> QED
    BY <2>1, <2>2
<1>5. ASSUME NEW r \in Slots, NEW auto, NEW i, NEW now, CreateSlot(r, auto, i, now) PROVE Goal
  BY <1>0, <1>1, <1>5 DEF CreateSlot, TypeOK
<1>6. ASSUME NEW r \in Slots, NEW now \in Began, RotateImmediately(r, now) PROVE Goal
  <2> DEFINE S == Pending(r) \cup Active(r)
  <2>0. PICK n \in Fresh(r) : \E k : key' = [key EXCEPT ![r] = Replaced(r, S, n, k)]
    BY <1>6 DEF RotateImmediately
  <2>1. PICK k : key' = [key EXCEPT ![r] = Replaced(r, S, n, k)]
    BY <2>0
  <2>2. n \in Versions /\ key[r][n].status = "absent"
    BY DEF Fresh, With
  <2>3. CASE r = s
    <3>1. key'[s] = Replaced(s, S, n, k)
      BY <1>0, <2>1, <2>3 DEF TypeOK
    <3>2. key'[s][v] = IF v \in S THEN GoneKey ELSE key[s][v]
      BY <1>0, <2>2, <2>3, <3>1, ReplacedFields
    <3> QED
      BY <2>3, <3>2, GoneFields DEF Ended, Shut, Pending, Active, With
  <2>4. CASE r # s
    BY <1>0, <1>1, <2>1, <2>4 DEF TypeOK
  <2> QED
    BY <2>3, <2>4
<1>7. ASSUME NEW r \in Slots, NEW at, NEW tr, NEW now \in Began, PrepareRotation(r, at, tr, now) PROVE Goal
  <2>0. PICK n \in Fresh(r) : \E k : key' = [key EXCEPT ![r] = Replaced(r, {}, n, k)]
    BY <1>7 DEF PrepareRotation
  <2>1. PICK k : key' = [key EXCEPT ![r] = Replaced(r, {}, n, k)]
    BY <2>0
  <2>2. n \in Versions /\ key[r][n].status = "absent" /\ Pending(r) = {}
    BY <1>7 DEF Fresh, With, PrepareRotation, CanPrepare
  <2>3. CASE r = s
    <3>1. key'[s] = Replaced(s, {}, n, k)
      BY <1>0, <2>1, <2>3 DEF TypeOK
    <3>2. key'[s][v] = key[s][v]
      BY <1>0, <2>2, <2>3, <3>1, ReplacedFields
    <3> QED
      BY <2>2, <2>3, <3>2 DEF Ended, Shut, Effective, Pending, With
  <2>4. CASE r # s
    BY <1>0, <1>1, <2>1, <2>4 DEF TypeOK
  <2> QED
    BY <2>3, <2>4
<1>8. ASSUME NEW r \in Slots, NEW now \in Began, ActivatePending(r, now) PROVE Goal
  <2>1. PICK p \in Pending(r) : key' = [key EXCEPT ![r] =
                              Replaced(r, Active(r), p, [key[r][p] EXCEPT !.status = "active"])]
    BY <1>8 DEF ActivatePending
  <2> DEFINE k == [key[r][p] EXCEPT !.status = "active"]
  <2>2. p \in Versions /\ key[r][p].status = "pending"
    BY DEF Pending, With
  <2>3. CASE r = s
    <3>1. k.expires = key[s][p].expires
      BY <1>0, <2>2, <2>3, EditedFields
    <3> HIDE DEF k
    <3>2. key'[s] = Replaced(s, Active(s), p, k)
      BY <1>0, <2>1, <2>3 DEF TypeOK, k
    <3>3. key'[s][p] = k /\ \A w \in Versions \ {p} :
                               key'[s][w] = IF w \in Active(s) THEN GoneKey ELSE key[s][w]
      BY <1>0, <2>2, <3>2, ReplacedFields
    <3> QED
      BY <2>2, <2>3, <3>1, <3>3, GoneFields DEF Ended, Shut, Active, With
  <2>4. CASE r # s
    BY <1>0, <1>1, <2>1, <2>4 DEF TypeOK
  <2> QED
    BY <2>3, <2>4
<1>9. ASSUME NEW r \in Slots, NEW n \in Versions, NEW now \in Began,
             ConfirmInstallation(r, n, now) \/ ClaimReveal(r, n)
      PROVE  Goal
  <2>1. PICK k : /\ key' = [key EXCEPT ![r][n] = k]
                 /\ k = [key[r][n] EXCEPT !.confirmed = TRUE] \/ k = [key[r][n] EXCEPT !.revealed = TRUE]
    BY <1>0, <1>9 DEF ConfirmInstallation, ClaimReveal, TypeOK
  <2>2. key[r][n] \in Key /\ key'[r][n] = k
    BY <1>0, <2>1 DEF TypeOK
  <2>3. /\ k.status = key[r][n].status /\ k.activate = key[r][n].activate
        /\ k.expires = key[r][n].expires /\ (key[r][n].confirmed => k.confirmed)
    <3>1. CASE k = [key[r][n] EXCEPT !.confirmed = TRUE]
      BY <2>2, <3>1, EditedFields
    <3>2. CASE k = [key[r][n] EXCEPT !.revealed = TRUE]
      BY <2>2, <3>2, EditedFields
    <3> QED
      BY <2>1, <3>1, <3>2
  <2>4. \A w \in Versions : w # n \/ s # r => key'[s][w] = key[s][w]
    BY <1>0, <2>1 DEF TypeOK
  <2> QED
    BY <2>2, <2>3, <2>4, KeptShut
<1>10. ASSUME NEW r \in Slots, NEW now \in Began, CancelPending(r, now) PROVE Goal
  <2>1. PICK p \in Pending(r) : ~Effective(key[r][p], now) /\ key' = [key EXCEPT ![r][p] = GoneKey]
    BY <1>10 DEF CancelPending
  <2>2. p \in Versions
    BY DEF Pending, With
  <2>3. CASE r = s
    <3>1. key'[s][p] = GoneKey /\ \A w \in Versions \ {p} : key'[s][w] = key[s][w]
      BY <1>0, <2>1, <2>2, <2>3 DEF TypeOK
    <3>2. \A due \in Versions : ~Effective(key[s][due], t)
      <4>1. ~Effective(key[s][p], t)
        BY <1>0, <2>1, <2>2, <2>3, BeganType, EffectiveMonotone
      <4> QED
        BY <1>0, <2>1, <2>3, <4>1 DEF Row, Single, Effective, Pending, With
    <3> QED
      BY <3>1, <3>2, GoneFields DEF Ended, Shut
  <2>4. CASE r # s
    BY <1>0, <1>1, <2>1, <2>4 DEF TypeOK
  <2> QED
    BY <2>3, <2>4
<1>11. ASSUME NEW r \in Slots, DisableSlot(r) PROVE Goal
  <2>1. CASE r = s
    <3>1. key'[s][v] = IF v \in Pending(s) \cup Active(s) THEN GoneKey ELSE key[s][v]
      BY <1>0, <1>11, <2>1 DEF DisableSlot, TypeOK, Without
    <3> QED
      BY <3>1, GoneFields DEF Ended, Shut, Pending, Active, With
  <2>2. CASE r # s
    BY <1>0, <1>1, <1>11, <2>2 DEF DisableSlot, TypeOK
  <2> QED
    BY <2>1, <2>2
<1>12. ASSUME NEW S, \A due \in S : ~Effective(key[s][due], t),
              \A w \in Versions : key'[s][w] = IF w \in S THEN GoneKey ELSE key[s][w]
       PROVE  Goal
  BY <1>12, GoneFields DEF Ended, Shut
<1>13. ASSUME NEW r \in Slots, NEW choice, NEW i \in Intervals \cup {Null}, NEW now \in Began,
              UpdatePolicy(r, choice, i, now)
       PROVE  Goal
  <2> DEFINE dropped == IF choice = "off" THEN Unneeded(s, now) ELSE {}
  <2>1. CASE r = s
    <3>1. ASSUME NEW w \in Versions
          PROVE  key'[s][w] = IF w \in dropped THEN GoneKey
                              ELSE IF i # slot[s].interval /\ w \in Active(s)
                                   THEN [key[s][w] EXCEPT !.expires = Expiration(now, i)]
                                   ELSE key[s][w]
      BY <1>0, <1>13, <2>1 DEF UpdatePolicy, TypeOK
    <3>2. \A due \in dropped : ~Effective(key[s][due], t)
      BY <1>0, BeganType, EffectiveMonotone DEF Unneeded, Pending, With
    <3>3. CASE i = slot[s].interval \/ v \notin Active(s) \cup Pending(s)
      BY <1>12, <3>1, <3>2, <3>3, GoneFields DEF Ended, Shut, Active, Pending, With
    <3>4. CASE i # slot[s].interval /\ v \in Pending(s)
      BY <1>13, <2>1, <3>1, <3>4, GoneFields DEF UpdatePolicy, Shut
    <3>5. CASE i # slot[s].interval /\ v \in Active(s)
      <4>1. ~Past(key[s][v].expires, now) /\ Pending(s) \subseteq dropped
        BY <1>0, <1>13, <2>1, <3>5 DEF UpdatePolicy, Row, Single
      <4>2. ~Past(key[s][v].expires, t)
        BY <1>0, <4>1, BeganType, PastMonotone DEF Key
      <4> QED
        BY <3>2, <3>5, <4>1, <4>2 DEF Ended, Effective, Pending, Active, With
    <3> QED
      BY <3>3, <3>4, <3>5
  <2>2. CASE r # s
    BY <1>0, <1>1, <1>13, <2>2 DEF UpdatePolicy, TypeOK
  <2> QED
    BY <2>1, <2>2
<1>14. ASSUME NEW on \in BOOLEAN, NEW now \in Began, SetAutomatic(on, now) PROVE Goal
  <2>1. CASE on
    BY <1>1, <1>14, <2>1 DEF SetAutomatic
  <2>2. CASE ~on
    <3>1. \A w \in Versions : key'[s][w] = IF w \in Unneeded(s, now) THEN GoneKey ELSE key[s][w]
      BY <1>14, <2>2 DEF SetAutomatic, Without
    <3>2. \A due \in Unneeded(s, now) : ~Effective(key[s][due], t)
      BY <1>0, BeganType, EffectiveMonotone DEF Unneeded, Pending, With
    <3> QED
      BY <1>12, <3>1, <3>2
  <2> QED
    BY <2>1, <2>2
<1>15. ASSUME NEW now \in Began, ScanReveals(now) PROVE Goal
  <2>1. ASSUME NEW w \in Versions
        PROVE  /\ key'[s][w].status = key[s][w].status
               /\ key'[s][w].activate = key[s][w].activate
               /\ key'[s][w].expires = key[s][w].expires
               /\ key'[s][w].confirmed = key[s][w].confirmed
    <3>1. key'[s][w] = key[s][w] \/ key'[s][w] = [key[s][w] EXCEPT !.reveal = FALSE]
      BY <1>15 DEF ScanReveals
    <3>2. CASE key'[s][w] = [key[s][w] EXCEPT !.reveal = FALSE]
      BY <1>0, <3>2, EditedFields
    <3> QED
      BY <3>1, <3>2
  <2> QED
    BY <2>1, KeptShut
<1> QED
  <2>1. ASSUME NEW now \in Began, Migration(now) PROVE Goal
    BY <1>1, <1>2, <1>3, <1>4, <2>1
       DEF Migration, Bootstrap, PrepareMigration, BeginCutover, FinishCutover
  <2>2. ASSUME NEW now \in Began, NEW r \in Slots, Manage(r, now) PROVE Goal
    BY <1>5, <1>6, <1>7, <1>8, <1>9, <1>10, <1>11, <1>13, <2>2 DEF Manage
  <2>3. ASSUME NEW now \in Began, NEW r \in Slots, Scan(r, now) PROVE Goal
    BY <1>1, <1>7, <1>8, <2>3 DEF Scan, ScanActivate, ScanBlock, ScanPrepare
  <2>4. CASE Tick \/ UNCHANGED vars
    BY <1>1, <2>4 DEF Tick, vars
  <2> QED
    BY <1>14, <1>15, <2>1, <2>2, <2>3, <2>4 DEF Next

\* Time passes by Tick alone.
LEMMA OnlyTick == [Next]_vars => clock' = clock \/ clock' = clock + 1
<1>1. \A now : Migration(now) => clock' = clock
  BY DEF Migration, Introduce, Bootstrap, PrepareMigration, AbortMigration, BeginCutover,
         ActivateMigration, FinishCutover
<1>2. ASSUME NEW s, NEW now, Manage(s, now) PROVE clock' = clock
  <2>1. \A choice, i : UpdatePolicy(s, choice, i, now) => clock' = clock
    BY DEF UpdatePolicy
  <2>2. \A auto, i : CreateSlot(s, auto, i, now) => clock' = clock
    BY DEF CreateSlot
  <2>3. \A at, tr : PrepareRotation(s, at, tr, now) => clock' = clock
    BY DEF PrepareRotation
  <2>4. \A v : ConfirmInstallation(s, v, now) \/ ClaimReveal(s, v) => clock' = clock
    BY DEF ConfirmInstallation, ClaimReveal
  <2>5. RotateImmediately(s, now) \/ ActivatePending(s, now) \/ CancelPending(s, now) \/ DisableSlot(s)
        => clock' = clock
    BY DEF RotateImmediately, ActivatePending, CancelPending, DisableSlot
  <2> QED
    BY <1>2, <2>1, <2>2, <2>3, <2>4, <2>5 DEF Manage
<1>3. \A s, now : Scan(s, now) => clock' = clock
  BY DEF Scan, ScanActivate, ScanBlock, ScanPrepare, ActivatePending, PrepareRotation
<1> QED
  BY <1>1, <1>2, <1>3 DEF Next, SetAutomatic, ScanReveals, Tick, vars

\* A version whose life has been over for longer than a transaction can wait
\* is never accepted again.
THEOREM NeverRevivedHolds == Spec => NeverRevived
<1> DEFINE A == \A s \in Slots : \A v \in Versions :
                 clock > Lag /\ Ended(s, v, clock - Lag) => ~Accepted(s, v, clock)'
<1>1. Keyset /\ [Next]_vars => A
  <2> SUFFICES ASSUME Keyset, [Next]_vars, NEW s \in Slots, NEW v \in Versions,
                      clock > Lag, Ended(s, v, clock - Lag)
               PROVE  ~Accepted(s, v, clock)'
    OBVIOUS
  <2>1. Keyset' /\ TypeOK /\ TypeOK'
    BY NextKeyset, NextTypes DEF Keyset
  <2>2. clock \in Nat /\ Lag \in Nat /\ clock - Lag \in Nat /\ \A now \in Began : clock - Lag <= now
    BY <2>1, BeganType, KeysAssumption DEF TypeOK
  <2>3. PICK t \in Nat : t = clock - Lag
    BY <2>2
  <2>4. Shut(s, v, t)'
    BY <2>2, <2>3, EndedShut
  <2>5. clock' = clock \/ clock' = clock + 1
    BY OnlyTick
  <2> QED
    BY <2>1, <2>2, <2>3, <2>4, <2>5, ShutRefused
<1> QED
  BY <1>1, KeysetInvariant, PTL DEF Spec, NeverRevived

=============================================================================
