---------------------------- MODULE StorageProofs ----------------------------
(***************************************************************************)
(* What holds of the pools to the tenants' databases, of the secrets at    *)
(* rest, of a deployment, of the Edge Functions, of the push worker and of *)
(* a project's capacity, for any number of requests, projects, migrators   *)
(* and processes and for all totals.                                       *)
(***************************************************************************)
EXTENDS TenantPools, ProjectSecrets, ControlPlaneStart, EdgeFunctions, PushOutbox,
        ProjectCapacity, FiniteSetTheorems, TLAPS

-----------------------------------------------------------------------------
(* Tenant pools: the inductive invariant. *)

PoolStates == {"new", "locked", "reserved", "using", "leaving", "served", "refused"}
PoolHeld == {"reserved", "using", "leaving"}
Gone == {r \in requests : at[r] \in {"served", "refused"}}
UsersOf(e) == {r \in requests : HasPool(r) /\ entry[r] = e}

\* Only finitely many requests have come and gone, and entries are numbered.
PoolsShape ==
  /\ requests \subseteq PoolRequests
  /\ \E n \in Nat : entries \in [1 .. n -> Entries]
  /\ table = open /\ table \subseteq DOMAIN entries
  /\ lockedBy \in {0} \cup {r.id : r \in requests}
  /\ at \in [requests -> PoolStates]
  /\ entry \in [requests -> {0} \cup DOMAIN entries]
  /\ closed \in BOOLEAN /\ poolFaults \in 0 .. MaxPoolFaults
  /\ IsFiniteSet(Gone)

\* One request is past the lock at a time, and what it has still to close is unused;
\* the end of the API leaves nothing open.
LockIsHeld ==
  /\ \A r \in requests : at[r] = "locked" => lockedBy # 0
  /\ \A r, s \in requests : at[r] = "locked" /\ at[s] = "locked" => r = s
  /\ lockedBy = 0 => expiring = {}
  /\ expiring \subseteq Unused
  /\ closed => lockedBy = 0 /\ table = {}

\* Who has a pool has its tenant's, of its credentials, and it is open.
PoolsAreHeld ==
  \A r \in requests : HasPool(r) =>
    /\ entry[r] \in DOMAIN entries
    /\ entries[entry[r]].tenant = r.tenant /\ entries[entry[r]].dsns = r.dsns
    /\ r.access \in entries[entry[r]].pools
    /\ entry[r] \in table \/ closed

TableIsBounded ==
  /\ IsFiniteSet(table) /\ Cardinality(table) <= MaxTenants
  /\ \A e, f \in table : entries[e].tenant = entries[f].tenant => e = f

UsersAreCounted ==
  \A e \in DOMAIN entries :
    /\ IsFiniteSet(UsersOf(e))
    /\ entries[e].users = Cardinality(UsersOf(e))
    /\ entries[e].users <= MaxRequests

PoolsInv == PoolsShape /\ LockIsHeld /\ PoolsAreHeld /\ TableIsBounded /\ UsersAreCounted

\* The invariant of the pools holds to begin with.
LEMMA PoolsInitHolds ==
  ASSUME PoolsInit
  PROVE  PoolsInv
<1>0. requests \subseteq PoolRequests /\ IsFiniteSet({}) /\ Cardinality({}) = 0
  BY TenantPoolsAssumption, FS_EmptySet DEF PoolsInit
<1>1. DOMAIN entries = {} /\ entries \in [1 .. 0 -> Entries]
  BY DEF PoolsInit
<1>2. Gone = {}
  BY DEF PoolsInit, Gone
<1>3. \A r \in requests : ~HasPool(r)
  BY DEF PoolsInit, HasPool
<1>4. PoolsShape
  <2>1. at \in [requests -> PoolStates] /\ entry \in [requests -> {0} \cup DOMAIN entries]
    BY <1>1 DEF PoolsInit, PoolStates
  <2>2. poolFaults \in 0 .. MaxPoolFaults
    BY TenantPoolsAssumption DEF PoolsInit
  <2>3. \E n \in Nat : entries \in [1 .. n -> Entries]
    BY <1>1
  <2> QED BY <1>0, <1>1, <1>2, <2>1, <2>2, <2>3 DEF PoolsInit, PoolsShape
<1>5. LockIsHeld
  BY DEF PoolsInit, LockIsHeld
<1>6. TableIsBounded
  BY <1>0, TenantPoolsAssumption DEF PoolsInit, TableIsBounded
<1> QED BY <1>1, <1>3, <1>4, <1>5, <1>6 DEF PoolsInv, PoolsAreHeld, UsersAreCounted

\* An entry that counts nobody serves nobody.
LEMMA UnusedServesNobody ==
  ASSUME PoolsInv, NEW e \in DOMAIN entries, entries[e].users = 0,
         NEW r \in requests, HasPool(r)
  PROVE  entry[r] # e
<1>1. IsFiniteSet(UsersOf(e)) /\ Cardinality(UsersOf(e)) = 0
  BY DEF PoolsInv, UsersAreCounted
<1>2. UsersOf(e) = {}
  BY <1>1, FS_EmptySet
<1> QED BY <1>2 DEF UsersOf

\* A request that moves without getting or leaving a pool.
LEMMA MoveKept ==
  ASSUME PoolsInv, NEW r \in requests, NEW to \in PoolStates,
         at' = [at EXCEPT ![r] = to],
         UNCHANGED <<requests, entries, table, open, entry, closed>>,
         to \in PoolHeld <=> HasPool(r),
         at[r] \notin {"served", "refused"},
         lockedBy' \in {0} \cup {s.id : s \in requests}, poolFaults' \in 0 .. MaxPoolFaults,
         LockIsHeld'
  PROVE  PoolsInv'
<1>0. PoolsShape /\ LockIsHeld
  BY DEF PoolsInv
<1>1. at' \in [requests -> PoolStates] /\ \A s \in requests : at'[s] = IF s = r THEN to ELSE at[s]
  BY <1>0 DEF PoolsShape
<1>2. \A s \in requests : HasPool(s)' <=> HasPool(s)
  BY <1>1 DEF HasPool, PoolHeld
<1>3. Gone' = Gone \/ Gone' = Gone \cup {r}
  BY <1>1 DEF Gone
<1>4. IsFiniteSet(Gone')
  <2>1. IsFiniteSet(Gone) /\ IsFiniteSet(Gone \cup {r})
    BY <1>0, FS_AddElement DEF PoolsShape
  <2> QED BY <1>3, <2>1
<1>5. PoolsShape'
  BY <1>0, <1>1, <1>4 DEF PoolsShape
<1>6. PoolsAreHeld' /\ TableIsBounded'
  BY <1>2 DEF PoolsInv, PoolsAreHeld, TableIsBounded
<1>7. \A e : UsersOf(e)' = UsersOf(e)
  BY <1>2 DEF UsersOf
<1>8. UsersAreCounted'
  BY <1>7 DEF PoolsInv, UsersAreCounted
<1> QED BY <1>5, <1>6, <1>8 DEF PoolsInv

\* Pools nobody uses are closed by whoever has the lock.
LEMMA CloseKept ==
  ASSUME PoolsInv, NEW r \in requests, at[r] = "locked", NEW e \in table,
         entries[e].users = 0,
         table' = table \ {e}, open' = open \ {e}, expiring' = expiring \ {e},
         UNCHANGED <<requests, entries, lockedBy, at, entry, closed, poolFaults>>
  PROVE  PoolsInv'
<1>0. PoolsShape /\ LockIsHeld /\ TableIsBounded /\ e \in DOMAIN entries
  BY DEF PoolsInv, PoolsShape
<1>1. \A s \in requests : (HasPool(s)' <=> HasPool(s)) /\ (HasPool(s) => entry[s] # e)
  BY <1>0, UnusedServesNobody DEF HasPool
<1>2. PoolsShape'
  BY <1>0 DEF PoolsShape, Gone
<1>3. LockIsHeld'
  BY <1>0 DEF LockIsHeld, Unused
<1>4. PoolsAreHeld'
  BY <1>1 DEF PoolsInv, PoolsAreHeld
<1>5. IsFiniteSet(table') /\ Cardinality(table') <= Cardinality(table)
  BY <1>0, FS_Subset DEF TableIsBounded
<1>6. Cardinality(table') \in Nat /\ Cardinality(table) \in Nat
  BY <1>0, <1>5, FS_CardinalityType DEF TableIsBounded
<1>7. TableIsBounded'
  BY <1>0, <1>5, <1>6, TenantPoolsAssumption DEF TableIsBounded
<1>8. \A f : UsersOf(f)' = UsersOf(f)
  BY <1>1 DEF UsersOf
<1>9. UsersAreCounted'
  BY <1>8 DEF PoolsInv, UsersAreCounted
<1> QED BY <1>2, <1>3, <1>4, <1>7, <1>9 DEF PoolsInv

\* There are finitely many entries, and the clock counts.
LEMMA EntriesAreNumbered ==
  ASSUME PoolsShape
  PROVE  /\ Cardinality(DOMAIN entries) \in Nat /\ Clock \in Nat
         /\ DOMAIN entries = 1 .. Cardinality(DOMAIN entries)
         /\ entries \in [1 .. Cardinality(DOMAIN entries) -> Entries]
<1>1. PICK n \in Nat : entries \in [1 .. n -> Entries]
  BY DEF PoolsShape
<1>2. Cardinality(1 .. n) = n
  BY FS_Interval
<1>3. Cardinality(Gone) \in Nat
  BY FS_CardinalityType DEF PoolsShape
<1> QED BY <1>1, <1>2, <1>3 DEF Clock, Gone

\* A request that takes the lock keeps it.
LEMMA ReserveKept ==
  ASSUME PoolsInv, NEW r \in requests, Reserve(r)
  PROVE  PoolsInv'
<1>0. PoolsShape /\ LockIsHeld
  BY DEF PoolsInv
<1>1. r.id # 0 /\ at' \in [requests -> PoolStates]
      /\ \A s \in requests : at'[s] = IF s = r THEN "locked" ELSE at[s]
  BY <1>0 DEF PoolsShape, PoolRequests, Reserve, RequestAt, PoolStates
<1>2. expiring' \subseteq Unused /\ Unused' = Unused
  BY DEF Reserve, Unused
<1>3. LockIsHeld'
  BY <1>0, <1>1, <1>2 DEF LockIsHeld, Reserve
<1>4. at[r] = "new" /\ ~HasPool(r) /\ "locked" \notin PoolHeld /\ "locked" \in PoolStates
  BY DEF Reserve, HasPool, PoolHeld, PoolStates
<1> QED BY <1>0, <1>3, <1>4, MoveKept DEF Reserve, RequestAt, PoolsShape

\* A request that is refused under the lock leaves it.
LEMMA RefusedKept ==
  ASSUME PoolsInv, NEW r \in requests, Refused(r),
         at[r] = "locked" \/ (at[r] = "new" /\ lockedBy = 0),
         poolFaults' \in 0 .. MaxPoolFaults
  PROVE  PoolsInv'
<1>0. PoolsShape /\ LockIsHeld
  BY DEF PoolsInv
<1>1. \A s \in requests : at'[s] = IF s = r THEN "refused" ELSE at[s]
  BY <1>0 DEF PoolsShape, Refused, RequestAt
<1>2. \A s \in requests : at'[s] # "locked"
  BY <1>0, <1>1 DEF LockIsHeld
<1>3. LockIsHeld'
  BY <1>0, <1>2 DEF LockIsHeld, Refused
<1>4. at[r] \notin {"served", "refused"} /\ ~HasPool(r) /\ "refused" \notin PoolHeld
      /\ "refused" \in PoolStates
  BY DEF HasPool, PoolHeld, PoolStates
<1> QED BY <1>0, <1>3, <1>4, MoveKept DEF Refused, RequestAt, PoolsShape

\* A new entry of the table keeps it.
LEMMA EnterKept ==
  ASSUME PoolsInv, NEW r \in requests, Enter(r)
  PROVE  PoolsInv'
<1>0. PoolsShape /\ LockIsHeld /\ PoolsAreHeld /\ TableIsBounded /\ UsersAreCounted
  BY DEF PoolsInv
<1>a. PICK n : n = Cardinality(DOMAIN entries)
  OBVIOUS
<1>b. PICK e : e = n + 1
  OBVIOUS
<1>1. n \in Nat /\ Clock \in Nat /\ DOMAIN entries = 1 .. n /\ entries \in [1 .. n -> Entries]
  BY <1>0, <1>a, EntriesAreNumbered
<1>2. DOMAIN entries \cup {e} = 1 .. e /\ e \notin DOMAIN entries /\ e \in Nat
  BY <1>1, <1>b
<1>3. r.tenant \in STRING /\ r.dsns \in Nat
  BY <1>0 DEF PoolsShape, PoolRequests
<1>4. entries' = [f \in 1 .. e |->
         IF f \in DOMAIN entries THEN entries[f]
         ELSE [tenant |-> r.tenant, dsns |-> r.dsns, pools |-> {}, users |-> 0, touched |-> Clock]]
  BY <1>a, <1>b, <1>2 DEF Enter, NewEntry
<1>5. entries' \in [1 .. e -> Entries] /\ entries'[e].users = 0 /\ entries'[e].tenant = r.tenant
      /\ DOMAIN entries' = 1 .. e /\ \A f \in DOMAIN entries : entries'[f] = entries[f]
  BY <1>1, <1>2, <1>3, <1>4 DEF Entries
<1>6. /\ at[r] = "locked" /\ expiring = {} /\ OfTenant(r) = {} /\ Cardinality(table) < MaxTenants
      /\ table' = table \cup {e} /\ open' = open \cup {e}
      /\ UNCHANGED <<requests, lockedBy, at, entry, expiring, closed, poolFaults>>
  BY <1>a, <1>b DEF Enter, Reserving, NewEntry
<1>7. PoolsShape'
  BY <1>0, <1>2, <1>5, <1>6 DEF PoolsShape, Gone
<1>8. LockIsHeld'
  BY <1>0, <1>6 DEF LockIsHeld, Unused
<1>9. \A s \in requests : HasPool(s)' <=> HasPool(s)
  BY <1>6 DEF HasPool
<1>10. PoolsAreHeld'
  BY <1>0, <1>2, <1>5, <1>6, <1>9 DEF PoolsAreHeld
<1>11. TableIsBounded'
  <2>1. IsFiniteSet(table \cup {e}) /\ Cardinality(table \cup {e}) <= Cardinality(table) + 1
        /\ Cardinality(table) \in Nat /\ Cardinality(table \cup {e}) \in Nat
    <3>1. IsFiniteSet(table)
      BY <1>0 DEF TableIsBounded
    <3>2. IsFiniteSet(table \cup {e}) /\ Cardinality(table) \in Nat
      BY <3>1, FS_AddElement, FS_CardinalityType
    <3>3. Cardinality(table \cup {e}) \in Nat
      BY <3>2, FS_CardinalityType
    <3> QED BY <3>1, <3>2, <3>3, FS_AddElement
  <2>2. \A f \in table : f \in DOMAIN entries /\ entries[f].tenant # r.tenant
    BY <1>0, <1>6 DEF OfTenant, PoolsShape
  <2>3. \A f, g \in table' : entries'[f].tenant = entries'[g].tenant => f = g
    BY <1>0, <1>5, <1>6, <2>2 DEF TableIsBounded
  <2> QED BY <1>6, <2>1, <2>3, TenantPoolsAssumption DEF TableIsBounded
<1>12. UsersAreCounted'
  <2>1. \A f : UsersOf(f)' = UsersOf(f)
    BY <1>6, <1>9 DEF UsersOf
  <2>4. ASSUME NEW f \in DOMAIN entries'
        PROVE  IsFiniteSet(UsersOf(f)') /\ entries'[f].users = Cardinality(UsersOf(f)')
               /\ entries'[f].users <= MaxRequests
    <3>1. CASE f = e
      <4>1. UsersOf(f) = {}
        BY <1>0, <1>2, <3>1 DEF UsersOf, PoolsAreHeld
      <4>2. IsFiniteSet(UsersOf(f)') /\ Cardinality(UsersOf(f)') = 0
        BY <2>1, <4>1, FS_EmptySet
      <4> QED BY <1>5, <4>2, <3>1, TenantPoolsAssumption
    <3>2. CASE f \in DOMAIN entries
      BY <1>0, <1>5, <2>1, <3>2 DEF UsersAreCounted
    <3> QED BY <1>2, <1>5, <3>1, <3>2
  <2> QED BY <2>4 DEF UsersAreCounted
<1> QED BY <1>7, <1>8, <1>10, <1>11, <1>12 DEF PoolsInv

\* A request that reserves the pools of its entry keeps it.
LEMMA OpenPoolKept ==
  ASSUME PoolsInv, NEW r \in requests, OpenPool(r)
  PROVE  PoolsInv'
<1>0. PoolsShape /\ LockIsHeld /\ PoolsAreHeld /\ TableIsBounded /\ UsersAreCounted
  BY DEF PoolsInv
<1>1. PICK e \in Own(r) : ~Saturated(e) /\ Reserved(r, e) /\ entry' = [entry EXCEPT ![r] = e]
  BY DEF OpenPool
<1>2. PICK n \in Nat : entries \in [1 .. n -> Entries]
  BY <1>0 DEF PoolsShape
<1>3. e \in table /\ e \in DOMAIN entries /\ entries[e].tenant = r.tenant /\ entries[e].dsns = r.dsns
      /\ r.access \in Accesses /\ entries[e] \in Entries
  BY <1>0, <1>2 DEF Own, OfTenant, OtherCredentials, PoolsShape, PoolRequests
<1>a. PICK v : v = [entries[e] EXCEPT !.users = @ + 1, !.pools = @ \cup {r.access}]
  OBVIOUS
<1>b. v \in Entries /\ v.tenant = entries[e].tenant /\ v.dsns = entries[e].dsns
      /\ v.users = entries[e].users + 1 /\ v.pools = entries[e].pools \cup {r.access}
  <2>1. entries[e].pools \cup {r.access} \subseteq Accesses /\ entries[e].users + 1 \in Nat
    BY <1>3 DEF Entries
  <2>2. v = [tenant |-> entries[e].tenant, dsns |-> entries[e].dsns,
             pools |-> entries[e].pools \cup {r.access}, users |-> entries[e].users + 1,
             touched |-> entries[e].touched]
    BY <1>3, <1>a DEF Entries
  <2> QED BY <1>3, <2>1, <2>2 DEF Entries
<1>4. entries' = [entries EXCEPT ![e] = v]
  BY <1>1, <1>a DEF Reserved
<1>5. entries' \in [1 .. n -> Entries] /\ DOMAIN entries' = DOMAIN entries
      /\ (\A f \in DOMAIN entries \ {e} : entries'[f] = entries[f])
      /\ entries'[e].tenant = entries[e].tenant /\ entries'[e].dsns = entries[e].dsns
      /\ entries'[e].users = entries[e].users + 1
      /\ entries'[e].pools = entries[e].pools \cup {r.access}
  BY <1>2, <1>3, <1>4, <1>b
<1>6. ASSUME NEW f \in DOMAIN entries
      PROVE  /\ entries'[f].tenant = entries[f].tenant /\ entries'[f].dsns = entries[f].dsns
             /\ entries[f].pools \subseteq entries'[f].pools
  BY <1>5
<1>7. /\ at[r] = "locked" /\ expiring = {} /\ lockedBy' = 0
      /\ at' = [at EXCEPT ![r] = "reserved"]
      /\ UNCHANGED <<requests, table, open, expiring, closed, poolFaults>>
  BY DEF OpenPool, Reserving, RequestAt
<1>8. at' \in [requests -> PoolStates] /\ entry' \in [requests -> {0} \cup DOMAIN entries]
      /\ \A s \in requests : /\ at'[s] = IF s = r THEN "reserved" ELSE at[s]
                             /\ entry'[s] = IF s = r THEN e ELSE entry[s]
  BY <1>0, <1>1, <1>3, <1>7 DEF PoolsShape, PoolStates
<1>9. PoolsShape'
  <2>1. Gone' = Gone
    BY <1>7, <1>8 DEF Gone
  <2> QED BY <1>0, <1>5, <1>7, <1>8, <2>1 DEF PoolsShape
<1>10. LockIsHeld'
  BY <1>0, <1>7, <1>8 DEF LockIsHeld
<1>11. ~HasPool(r) /\ \A s \in requests : HasPool(s)' <=> HasPool(s) \/ s = r
  BY <1>7, <1>8 DEF HasPool
<1>12. PoolsAreHeld'
  <2>1. ASSUME NEW s \in requests, HasPool(s)'
        PROVE  /\ entry'[s] \in DOMAIN entries'
               /\ entries'[entry'[s]].tenant = s.tenant /\ entries'[entry'[s]].dsns = s.dsns
               /\ s.access \in entries'[entry'[s]].pools
               /\ entry'[s] \in table' \/ closed'
    <3>1. CASE s = r
      <4>1. entry'[s] = e /\ r.access \in entries'[e].pools
        BY <1>5, <1>8, <3>1
      <4> QED BY <1>3, <1>5, <1>7, <3>1, <4>1
    <3>2. CASE s # r
      BY <1>0, <1>5, <1>6, <1>7, <1>8, <1>11, <2>1, <3>2 DEF PoolsAreHeld
    <3> QED BY <3>1, <3>2
  <2> QED BY <1>7, <2>1 DEF PoolsAreHeld
<1>13. TableIsBounded'
  BY <1>0, <1>6, <1>7 DEF TableIsBounded, PoolsShape
<1>14. UsersAreCounted'
  <2>1. \A f : UsersOf(f)' = IF f = e THEN UsersOf(f) \cup {r} ELSE UsersOf(f)
    BY <1>7, <1>8, <1>11 DEF UsersOf
  <2>5. ASSUME NEW f \in DOMAIN entries'
        PROVE  IsFiniteSet(UsersOf(f)') /\ entries'[f].users = Cardinality(UsersOf(f)')
               /\ entries'[f].users <= MaxRequests
    <3>1. CASE f = e
      <4>1. UsersOf(f)' = UsersOf(f) \cup {r} /\ r \notin UsersOf(f)
        BY <1>11, <2>1, <3>1 DEF UsersOf
      <4>2. IsFiniteSet(UsersOf(f)) /\ entries[f].users = Cardinality(UsersOf(f))
            /\ entries[f].users \in Nat
        BY <1>0, <1>3, <3>1 DEF UsersAreCounted, Entries
      <4>3. IsFiniteSet(UsersOf(f) \cup {r})
            /\ Cardinality(UsersOf(f) \cup {r}) = Cardinality(UsersOf(f)) + 1
        BY <4>1, <4>2, FS_AddElement
      <4>4. entries[f].users + 1 <= MaxRequests
        BY <1>1, <3>1, <4>2, TenantPoolsAssumption DEF Saturated
      <4> QED BY <1>5, <3>1, <4>1, <4>2, <4>3, <4>4
    <3>2. CASE f # e
      BY <1>0, <1>5, <2>1, <3>2 DEF UsersAreCounted
    <3> QED BY <3>1, <3>2
  <2> QED BY <2>5 DEF UsersAreCounted
<1> QED BY <1>9, <1>10, <1>12, <1>13, <1>14 DEF PoolsInv

\* A request that leaves, whatever it had, keeps it.
LEMMA LeaveKept ==
  ASSUME PoolsInv, NEW r \in requests, Leave(r)
  PROVE  PoolsInv'
<1>0. PoolsShape /\ LockIsHeld /\ PoolsAreHeld /\ TableIsBounded /\ UsersAreCounted
  BY DEF PoolsInv
<1>a. PICK e : e = entry[r]
  OBVIOUS
<1>1. /\ at[r] = "leaving" /\ lockedBy = 0 /\ at' = [at EXCEPT ![r] = "served"]
      /\ entries' = [entries EXCEPT ![e].users = @ - 1, ![e].touched = Clock]
      /\ UNCHANGED <<requests, table, open, lockedBy, entry, expiring, closed, poolFaults>>
  BY <1>a DEF Leave, RequestAt
<1>2. HasPool(r) /\ e \in DOMAIN entries
  BY <1>0, <1>1, <1>a DEF HasPool, PoolsAreHeld
<1>3. PICK n \in Nat : entries \in [1 .. n -> Entries]
  BY <1>0 DEF PoolsShape
<1>4. /\ IsFiniteSet(UsersOf(e)) /\ entries[e].users = Cardinality(UsersOf(e))
      /\ entries[e].users <= MaxRequests /\ entries[e] \in Entries /\ r \in UsersOf(e)
  BY <1>0, <1>2, <1>3, <1>a DEF UsersAreCounted, UsersOf
<1>5. entries[e].users \in Nat /\ entries[e].users # 0
  BY <1>4, FS_EmptySet DEF Entries
<1>6. Clock \in Nat
  BY <1>0, EntriesAreNumbered
<1>7. PICK v : v = [entries[e] EXCEPT !.users = @ - 1, !.touched = Clock]
  OBVIOUS
<1>8. v = [tenant |-> entries[e].tenant, dsns |-> entries[e].dsns, pools |-> entries[e].pools,
           users |-> entries[e].users - 1, touched |-> Clock]
  BY <1>4, <1>7 DEF Entries
<1>9. v \in Entries
  BY <1>4, <1>5, <1>6, <1>8 DEF Entries
<1>10. entries' = [entries EXCEPT ![e] = v]
  BY <1>1, <1>2, <1>3, <1>7
<1>11. /\ entries' \in [1 .. n -> Entries] /\ DOMAIN entries' = DOMAIN entries
       /\ \A f \in DOMAIN entries : entries'[f] = IF f = e THEN v ELSE entries[f]
  BY <1>2, <1>3, <1>9, <1>10
<1>12. ASSUME NEW f \in DOMAIN entries
       PROVE  /\ entries'[f].tenant = entries[f].tenant /\ entries'[f].dsns = entries[f].dsns
              /\ entries'[f].pools = entries[f].pools
  BY <1>8, <1>11
<1>13. /\ at' \in [requests -> PoolStates]
       /\ \A s \in requests : at'[s] = IF s = r THEN "served" ELSE at[s]
  BY <1>0, <1>1 DEF PoolsShape, PoolStates
<1>14. PoolsShape'
  <2>1. Gone' = Gone \cup {r}
    BY <1>1, <1>13 DEF Gone
  <2>2. IsFiniteSet(Gone \cup {r})
    BY <1>0, FS_AddElement DEF PoolsShape
  <2> QED BY <1>0, <1>1, <1>11, <1>13, <2>1, <2>2 DEF PoolsShape
<1>15. LockIsHeld'
  BY <1>0, <1>1, <1>13 DEF LockIsHeld
<1>16. \A s \in requests : HasPool(s)' <=> HasPool(s) /\ s # r
  BY <1>1, <1>13 DEF HasPool
<1>17. PoolsAreHeld'
  BY <1>0, <1>1, <1>11, <1>12, <1>16 DEF PoolsAreHeld
<1>18. TableIsBounded'
  BY <1>0, <1>1, <1>12 DEF TableIsBounded, PoolsShape
<1>19. UsersAreCounted'
  <2>1. \A f : UsersOf(f)' = IF f = e THEN UsersOf(f) \ {r} ELSE UsersOf(f)
    BY <1>1, <1>16, <1>a DEF UsersOf
  <2>2. ASSUME NEW f \in DOMAIN entries'
        PROVE  IsFiniteSet(UsersOf(f)') /\ entries'[f].users = Cardinality(UsersOf(f)')
               /\ entries'[f].users <= MaxRequests
    <3>1. CASE f = e
      <4>1. UsersOf(f)' = UsersOf(f) \ {r} /\ r \in UsersOf(f) /\ IsFiniteSet(UsersOf(f))
            /\ entries[f].users = Cardinality(UsersOf(f))
        BY <1>4, <2>1, <3>1
      <4>2. IsFiniteSet(UsersOf(f) \ {r})
            /\ Cardinality(UsersOf(f) \ {r}) = Cardinality(UsersOf(f)) - 1
        BY <4>1, FS_RemoveElement
      <4>3. entries'[f].users = entries[f].users - 1
        BY <1>2, <1>8, <1>11, <3>1
      <4>4. entries[f].users - 1 <= MaxRequests
        BY <1>4, <1>5, <3>1, TenantPoolsAssumption
      <4> QED BY <4>1, <4>2, <4>3, <4>4
    <3>2. CASE f # e
      BY <1>0, <1>11, <2>1, <3>2 DEF UsersAreCounted
    <3> QED BY <3>1, <3>2
  <2> QED BY <2>2 DEF UsersAreCounted
<1> QED BY <1>14, <1>15, <1>17, <1>18, <1>19 DEF PoolsInv

\* The end of the API keeps it.
LEMMA ClosePoolsKept ==
  ASSUME PoolsInv, ClosePools
  PROVE  PoolsInv'
<1>0. PoolsShape /\ LockIsHeld /\ PoolsAreHeld /\ UsersAreCounted
  BY DEF PoolsInv
<1>1. PoolsShape'
  BY <1>0 DEF PoolsShape, ClosePools, Gone
<1>2. LockIsHeld'
  BY <1>0 DEF LockIsHeld, ClosePools
<1>3. \A s \in requests : HasPool(s)' <=> HasPool(s)
  BY DEF ClosePools, HasPool
<1>4. PoolsAreHeld'
  BY <1>0, <1>3 DEF PoolsAreHeld, ClosePools
<1>5. TableIsBounded'
  BY FS_EmptySet, TenantPoolsAssumption DEF TableIsBounded, ClosePools
<1>6. \A f : UsersOf(f)' = UsersOf(f)
  BY <1>3 DEF UsersOf, ClosePools
<1>7. UsersAreCounted'
  BY <1>0, <1>6 DEF UsersAreCounted, ClosePools
<1> QED BY <1>1, <1>2, <1>4, <1>5, <1>7 DEF PoolsInv

\* In every behaviour of the pools.
LEMMA PoolsInvariance == PoolsSpec => []PoolsInv
<1>1. PoolsInit => PoolsInv
  BY PoolsInitHolds
<1>2. PoolsInv /\ [PoolsNext]_poolVars => PoolsInv'
  <2> SUFFICES ASSUME PoolsInv, [PoolsNext]_poolVars PROVE PoolsInv'
    OBVIOUS
  <2>0. PoolsShape /\ LockIsHeld
    BY DEF PoolsInv
  <2>1. ASSUME NEW r \in requests, Reserve(r) PROVE PoolsInv'
    BY <2>1, ReserveKept
  <2>2. ASSUME NEW r \in requests, CloseExpired(r) PROVE PoolsInv'
    <3>1. PICK e \in expiring : expiring' = expiring \ {e}
                                  /\ table' = table \ {e} /\ open' = open \ {e}
      BY <2>2 DEF CloseExpired
    <3>2. e \in table /\ entries[e].users = 0
      BY <2>0 DEF LockIsHeld, Unused
    <3> QED BY <2>2, <3>1, <3>2, CloseKept DEF CloseExpired
  <2>3. ASSUME NEW r \in requests, CloseChanged(r) PROVE PoolsInv'
    <3>1. PICK e \in OtherCredentials(r) : entries[e].users = 0
                                  /\ table' = table \ {e} /\ open' = open \ {e}
      BY <2>3 DEF CloseChanged
    <3>2. e \in table /\ at[r] = "locked" /\ expiring' = expiring \ {e}
      BY <2>3 DEF CloseChanged, Reserving, OtherCredentials, OfTenant
    <3> QED BY <2>3, <3>1, <3>2, CloseKept DEF CloseChanged
  <2>4. ASSUME NEW r \in requests, Evict(r) PROVE PoolsInv'
    <3>1. PICK e \in Evictable : table' = table \ {e} /\ open' = open \ {e}
      BY <2>4 DEF Evict
    <3>2. e \in table /\ entries[e].users = 0 /\ at[r] = "locked" /\ expiring' = expiring \ {e}
      BY <2>4 DEF Evict, Reserving, Evictable, Unused
    <3> QED BY <2>4, <3>1, <3>2, CloseKept DEF Evict
  <2>5. ASSUME NEW r \in requests, RefuseChanged(r) \/ RefuseFull(r) \/ RefuseSaturated(r)
                                   \/ RefuseClosed(r)
        PROVE  PoolsInv'
    <3>1. Refused(r) /\ (at[r] = "locked" \/ (at[r] = "new" /\ lockedBy = 0))
          /\ poolFaults' \in 0 .. MaxPoolFaults
      <4>1. Refused(r) /\ (at[r] = "locked" \/ (at[r] = "new" /\ lockedBy = 0)) /\ UNCHANGED poolFaults
        BY <2>5 DEF RefuseChanged, RefuseFull, RefuseSaturated, RefuseClosed, Reserving
      <4> QED BY <2>0, <4>1 DEF PoolsShape
    <3> QED BY <3>1, RefusedKept
  <2>6. ASSUME NEW r \in requests, PoolFault(r) PROVE PoolsInv'
    <3>1. poolFaults' \in 0 .. MaxPoolFaults
      BY <2>0, <2>6, TenantPoolsAssumption DEF PoolFault, PoolsShape
    <3>2. CASE at[r] = "locked" /\ Refused(r)
      BY <3>1, <3>2, RefusedKept
    <3>3. CASE at[r] = "new" /\ RequestAt(r, "refused")
               /\ UNCHANGED <<requests, entries, table, open, lockedBy, entry, expiring, closed>>
      <4>1. \A s \in requests : at'[s] = "locked" => at[s] = "locked"
        BY <2>0, <3>3 DEF RequestAt, PoolsShape
      <4>2. LockIsHeld'
        BY <2>0, <3>3, <4>1 DEF LockIsHeld, Unused
      <4>3. "refused" \in PoolStates /\ "refused" \notin PoolHeld /\ ~HasPool(r)
            /\ at[r] \notin {"served", "refused"}
        BY <3>3 DEF PoolStates, PoolHeld, HasPool
      <4> QED BY <2>0, <3>1, <3>3, <4>2, <4>3, MoveKept DEF RequestAt, PoolsShape
    <3> QED BY <2>6, <3>2, <3>3 DEF PoolFault
  <2>7. ASSUME NEW r \in requests, AcquireConnection(r) \/ GiveBack(r) PROVE PoolsInv'
    <3>1. PICK to \in {"using", "leaving"} : at' = [at EXCEPT ![r] = to]
      BY <2>7 DEF AcquireConnection, GiveBack, RequestAt
    <3>2. at[r] \in {"reserved", "using"}
          /\ UNCHANGED <<requests, entries, table, open, lockedBy, entry, expiring, closed, poolFaults>>
      BY <2>7 DEF AcquireConnection, GiveBack
    <3>3. \A s \in requests : at'[s] = "locked" => at[s] = "locked"
      BY <2>0, <3>1 DEF PoolsShape
    <3>4. LockIsHeld'
      BY <2>0, <3>2, <3>3 DEF LockIsHeld, Unused
    <3>5. to \in PoolStates /\ to \in PoolHeld /\ HasPool(r) /\ at[r] \notin {"served", "refused"}
      BY <3>2 DEF PoolStates, PoolHeld, HasPool
    <3> QED BY <2>0, <3>1, <3>2, <3>4, <3>5, MoveKept DEF PoolsShape
  <2>8. ASSUME NEW r \in requests, Enter(r) \/ OpenPool(r) \/ Leave(r) PROVE PoolsInv'
    BY <2>8, EnterKept, OpenPoolKept, LeaveKept
  <2>9. CASE ClosePools
    BY <2>9, ClosePoolsKept
  <2>10. CASE UNCHANGED poolVars
    <3>1. PoolsShape'
      BY <2>0, <2>10 DEF poolVars, PoolsShape, Gone
    <3>2. LockIsHeld'
      BY <2>0, <2>10 DEF poolVars, LockIsHeld, Unused
    <3>3. PoolsAreHeld' /\ TableIsBounded'
      BY <2>10 DEF poolVars, PoolsInv, PoolsAreHeld, TableIsBounded, HasPool
    <3>4. \A f : UsersOf(f)' = UsersOf(f)
      BY <2>10 DEF poolVars, UsersOf, HasPool
    <3>5. UsersAreCounted'
      BY <2>10, <3>4 DEF poolVars, PoolsInv, UsersAreCounted
    <3> QED BY <3>1, <3>2, <3>3, <3>5 DEF PoolsInv
  <2> QED BY <2>1, <2>2, <2>3, <2>4, <2>5, <2>6, <2>7, <2>8, <2>9, <2>10 DEF PoolsNext
<1> QED BY <1>1, <1>2, PTL DEF PoolsSpec

\* The variables of the pools have the values their code gives them.
THEOREM PoolsTyping == PoolsSpec => []PoolsTypeOK
<1>1. PoolsInv => PoolsTypeOK
  <2> SUFFICES ASSUME PoolsInv PROVE PoolsTypeOK
    OBVIOUS
  <2>1. PoolsShape /\ LockIsHeld /\ DOMAIN entries = 1 .. Cardinality(DOMAIN entries)
        /\ \A e \in DOMAIN entries : entries[e] \in Entries
    BY EntriesAreNumbered DEF PoolsInv
  <2> QED BY <2>1 DEF PoolsShape, PoolsTypeOK, LockIsHeld, Unused, PoolStates
<1> QED BY <1>1, PoolsInvariance, PTL

\* However requests make room for one another, time out and are refused, a pool that is
\* used is its user's tenant's and stays open until the API ends; there are never more
\* tenants' pools than the limit, and an entry counts exactly its users.
THEOREM PoolsStayKept == PoolsSpec => []PoolsAreKept
<1>1. PoolsInv => PoolsAreKept
  BY DEF PoolsInv, PoolsShape, PoolsAreHeld, TableIsBounded, UsersAreCounted, PoolsAreKept, UsersOf
<1> QED BY <1>1, PoolsInvariance, PTL

-----------------------------------------------------------------------------
(* Secrets at rest. *)

EnvelopeType == [key : Nat, dek : Nat, wrap : 0 .. 2]
StoredType == [key : Nat, dek : Nat, value : Nat]
SecretPhases == {"new", "absent", "row", "unlocked", "locked", "done", "failed"}

SecretsShape ==
  /\ work \subseteq Work
  /\ envelope \in EnvelopeType /\ undo \in EnvelopeType
  /\ stored \in [Items -> StoredType]
  /\ holder \in {w.id : w \in work} \cup {0}
  /\ phase \in [work -> SecretPhases]
  /\ has \in [work -> EnvelopeType]
  /\ took \in [work -> [Items -> StoredType]]
  /\ masters \in [current : 1 .. 2, known : SUBSET (1 .. 2)]

\* What a piece of work is, and has.
LEMMA WorkFields ==
  ASSUME SecretsShape, NEW w \in work
  PROVE  /\ w.id \in Nat /\ w.id # 0 /\ w.item \in Items /\ w.rotate \in BOOLEAN
         /\ w.op \in {"store", "read", "migrate"}
         /\ has[w] \in EnvelopeType /\ took[w] \in [Items -> StoredType]
BY DEF SecretsShape, Work

\* An envelope wrapped again has the same data key.
LEMMA WrappedFields ==
  ASSUME SecretsShape, NEW e \in EnvelopeType
  PROVE  /\ Wrapped(e) \in EnvelopeType /\ Wrapped(e).key = e.key /\ Wrapped(e).dek = e.dek
         /\ Wrapped(e).wrap = masters.current /\ masters.current \in 1 .. 2
<1>1. masters.current \in 1 .. 2
  BY DEF SecretsShape
<1>2. Wrapped(e) = [key |-> e.key, dek |-> e.dek, wrap |-> masters.current]
  BY DEF Wrapped, EnvelopeType
<1> QED BY <1>1, <1>2 DEF EnvelopeType

\* The types of the secrets hold to begin with.
LEMMA SecretsInitShape ==
  ASSUME SecretsInit
  PROVE  SecretsShape
<1>1. NoEnvelope \in EnvelopeType /\ Nothing \in StoredType
  BY DEF NoEnvelope, Nothing, EnvelopeType, StoredType
<1>2. stored \in [Items -> StoredType]
  BY <1>1 DEF SecretsInit
<1>3. masters \in [current : 1 .. 2, known : SUBSET (1 .. 2)]
  BY DEF SecretsInit
<1>4. work \subseteq Work
  BY SecretsAssumption DEF SecretsInit
<1> QED BY <1>1, <1>2, <1>3, <1>4 DEF SecretsInit, SecretsShape, SecretPhases

\* The envelope as Read leaves it.
LEMMA ReadEnvelopeType ==
  ASSUME SecretsShape, NEW w \in work, Read(w)
  PROVE  /\ envelope' \in EnvelopeType /\ undo' = envelope' /\ envelope'.key = envelope.key
         /\ envelope'.wrap \in {envelope.wrap, masters.current}
         /\ envelope'.dek \in {envelope.dek, has[w].dek}
         /\ has[w].wrap = masters.current => envelope' = envelope
<1>1. CASE has[w].wrap # masters.current
  <2>1. envelope' = [key |-> envelope.key, dek |-> has[w].dek, wrap |-> masters.current]
    BY <1>1 DEF Read, SecretsShape, EnvelopeType
  <2>2. masters.current \in 0 .. 2 /\ has[w].dek \in Nat /\ envelope.key \in Nat
    BY WorkFields DEF SecretsShape, EnvelopeType
  <2> QED BY <1>1, <2>1, <2>2 DEF Read, EnvelopeType
<1>2. CASE has[w].wrap = masters.current
  BY <1>2 DEF Read, SecretsShape
<1> QED BY <1>1, <1>2

\* Every step keeps the types of the secrets.
LEMMA SecretsShapeKept ==
  ASSUME SecretsShape, [SecretsNext]_secretsVars
  PROVE  SecretsShape'
<1>1. ASSUME NEW w \in work, TakeEnvelope(w) PROVE SecretsShape'
  <2>1. Wrapped(envelope) \in EnvelopeType
    BY WrappedFields DEF SecretsShape
  <2>2. phase' \in [work -> SecretPhases]
    BY <1>1 DEF TakeEnvelope, Step, SecretsShape, SecretPhases
  <2>3. CASE Unwraps(envelope)
    BY <1>1, <2>1, <2>2, <2>3 DEF TakeEnvelope, SecretsShape
  <2>4. CASE ~Unwraps(envelope)
    BY <1>1, <2>2, <2>4 DEF TakeEnvelope, SecretsShape
  <2> QED BY <2>3, <2>4
<1>2. ASSUME NEW w \in work, LockEnvelope(w) \/ MeetConflict(w) \/ MigrateLocks(w)
      PROVE  SecretsShape'
  BY <1>1, <1>2 DEF LockEnvelope, MeetConflict, AfterConflict, MigrateLocks
<1>3. ASSUME NEW w \in work
      PROVE  Made(w) \in EnvelopeType
  BY WorkFields DEF Made, EnvelopeType, SecretsShape
<1>4. ASSUME NEW w \in work, InsertEnvelope(w) PROVE SecretsShape'
  <2>1. phase' \in [work -> SecretPhases]
    BY <1>4 DEF InsertEnvelope, Step, SecretsShape, SecretPhases
  <2> QED BY <1>3, <1>4, <2>1 DEF InsertEnvelope, SecretsShape
<1>5. ASSUME NEW w \in work, Store(w) PROVE SecretsShape'
  <2>1. phase' \in [work -> SecretPhases]
    BY <1>5 DEF Store, Step, SecretsShape, SecretPhases
  <2>2. [key |-> has[w].key, dek |-> has[w].dek, value |-> w.id] \in StoredType
    BY WorkFields DEF StoredType, EnvelopeType
  <2>3. stored' \in [Items -> StoredType]
    BY <1>5, <2>2, WorkFields DEF Store, SecretsShape
  <2> QED BY <1>5, <2>1, <2>3 DEF Store, SecretsShape
<1>6. ASSUME NEW w \in work, FindNoEnvelope(w) \/ Abort(w) \/ ReadRow(w) \/ ReadEnvelope(w)
                             \/ MigrateBegins(w)
      PROVE  SecretsShape'
  <2>1. phase' \in [work -> SecretPhases]
    BY <1>6 DEF FindNoEnvelope, Abort, ReadRow, ReadEnvelope, MigrateBegins, Step, SecretsShape,
       SecretPhases
  <2> QED BY SMTT(20), <1>6, <2>1 DEF FindNoEnvelope, Abort, ReadRow, ReadEnvelope, MigrateBegins, SecretsShape
<1>7. ASSUME NEW w \in work, Read(w) PROVE SecretsShape'
  <2>1. phase' \in [work -> SecretPhases]
    BY <1>7 DEF Read, Step, SecretsShape, SecretPhases
  <2> QED BY <1>7, <2>1, ReadEnvelopeType DEF Read, SecretsShape
<1>8. ASSUME NEW w \in work, MigrateCommits(w) PROVE SecretsShape'
  <2>1. phase' \in [work -> SecretPhases]
    BY <1>8 DEF MigrateCommits, Step, SecretsShape, SecretPhases
  <2>2. envelope' \in {envelope, undo, Made(w)} /\ undo' \in {undo, envelope'}
    BY <1>8 DEF MigrateCommits
  <2>3. envelope' \in EnvelopeType /\ undo' \in EnvelopeType
    BY <1>3, <2>2 DEF SecretsShape
  <2>4. stored' \in [Items -> StoredType]
    <3>1. CASE UNCHANGED stored
      BY <3>1 DEF SecretsShape
    <3>2. CASE ~UNCHANGED stored
      <4>1. PICK values \in SUBSET ReEncrypted : stored' = [i \in Items |->
              IF i \in values THEN [key |-> w.id, dek |-> w.id, value |-> took[w][i].value]
              ELSE stored[i]]
        BY <1>8, <3>2 DEF MigrateCommits
      <4>2. ASSUME NEW i \in Items
            PROVE  [key |-> w.id, dek |-> w.id, value |-> took[w][i].value] \in StoredType
        <5>1. took[w][i] \in StoredType /\ w.id \in Nat
          BY WorkFields
        <5> QED BY <5>1 DEF StoredType
      <4> QED BY <4>1, <4>2 DEF SecretsShape
    <3> QED BY <3>1, <3>2
  <2> QED BY <1>8, <2>1, <2>3, <2>4 DEF MigrateCommits, SecretsShape
<1>9. CASE MasterKeyChanges \/ PreviousKeyIsRemoved
  <2>1. masters' \in [current : 1 .. 2, known : SUBSET (1 .. 2)]
    BY <1>9 DEF MasterKeyChanges, PreviousKeyIsRemoved
  <2> QED BY <1>9, <2>1 DEF MasterKeyChanges, PreviousKeyIsRemoved, SecretsShape
<1>10. CASE UNCHANGED secretsVars
  BY <1>10 DEF secretsVars, SecretsShape
<1> QED BY <1>2, <1>4, <1>5, <1>6, <1>7, <1>8, <1>9, <1>10 DEF SecretsNext

\* The variables of the secrets have the values their code gives them.
THEOREM SecretsTyping == SecretsSpec => []SecretsTypeOK
<1>1. SecretsInit => SecretsShape
  BY SecretsInitShape
<1>2. SecretsShape /\ [SecretsNext]_secretsVars => SecretsShape'
  BY SecretsShapeKept
<1>3. SecretsShape => SecretsTypeOK
  BY DEF SecretsShape, SecretsTypeOK, EnvelopeType, StoredType, SecretPhases
<1> QED BY <1>1, <1>2, <1>3, PTL DEF SecretsSpec

\* Nobody asks for another data key: then no value is left behind, which a migration that
\* replaces the key may do (ReEncryptsEverything).
NothingRotates == \A w \in work : ~w.rotate

\* Without a holder the envelope is the committed one; a holder only wraps it, or makes
\* the first. What is stored has the committed key.
EnvelopeIsCommitted ==
  /\ holder = 0 => envelope = undo
  /\ undo.key # 0 => /\ envelope.key = undo.key /\ envelope.dek = undo.dek
                     /\ undo.wrap = 2 => envelope.wrap = 2
  /\ \A i \in Items : stored[i].key # 0 => stored[i].key = undo.key /\ stored[i].dek = undo.dek

\* One holder at a time works with the envelope as it is.
EnvelopeIsHeld ==
  /\ \A w \in work : phase[w] = "locked" => holder # 0 /\ has[w] = envelope /\ envelope.key # 0
  /\ \A v, w \in work : phase[v] = "locked" /\ phase[w] = "locked" => v = w

\* Who reads has an envelope to find, and the one it found is still the committed one, but
\* for its wrapping.
ReadersHaveAKey ==
  \A w \in work :
    /\ phase[w] = "row" /\ w.op = "read" => undo.key # 0
    /\ phase[w] = "unlocked" => w.op = "read" /\ undo.key # 0 /\ has[w].key = undo.key /\ has[w].dek = undo.dek

\* The master keys of the API unwrap the envelope; a migration that found it wrapped by the
\* new one has left it so.
WrapsAreKnown ==
  /\ masters.current \in masters.known /\ (masters.current = 1 => masters.known = {1})
  /\ undo.key # 0 => undo.wrap \in masters.known
  /\ envelope.key # 0 => envelope.wrap \in masters.known
  /\ \A w \in work : w.op = "migrate" /\ phase[w] = "done" /\ has[w].wrap = 2 =>
       undo.key # 0 /\ undo.wrap = 2

SecretsHeld == EnvelopeIsCommitted /\ EnvelopeIsHeld /\ ReadersHaveAKey /\ WrapsAreKnown
SecretsInv == SecretsShape /\ (NothingRotates => SecretsHeld)

\* The invariant of the secrets holds to begin with.
LEMMA SecretsInitHolds ==
  ASSUME SecretsInit
  PROVE  SecretsInv
<1>1. \A i \in Items : stored[i].key = 0
  BY DEF SecretsInit, Nothing
<1>2. undo.key = 0 /\ envelope.key = 0 /\ \A w \in work : phase[w] = "new"
  BY DEF SecretsInit, NoEnvelope
<1>3. masters.current = 1 /\ masters.known = {1}
  BY DEF SecretsInit
<1>4. EnvelopeIsCommitted
  BY <1>1, <1>2 DEF EnvelopeIsCommitted, SecretsInit
<1>5. EnvelopeIsHeld /\ ReadersHaveAKey /\ WrapsAreKnown
  BY <1>2, <1>3 DEF EnvelopeIsHeld, ReadersHaveAKey, WrapsAreKnown
<1> QED BY <1>4, <1>5, SecretsInitShape DEF SecretsInv, SecretsHeld

\* How the phase of one work changes.
LEMMA StepFields ==
  ASSUME SecretsShape, NEW w \in work, NEW to, Step(w, to)
  PROVE  \A v \in work : phase'[v] = IF v = w THEN to ELSE phase[v]
BY DEF SecretsShape, Step

\* Whoever takes the envelope keeps what is held.
LEMMA TakeKept ==
  ASSUME SecretsShape, SecretsHeld, NEW w \in work, TakeEnvelope(w)
  PROVE  SecretsHeld'
<1>0. EnvelopeIsCommitted /\ EnvelopeIsHeld /\ ReadersHaveAKey /\ WrapsAreKnown
  BY DEF SecretsHeld
<1>1. holder = 0 /\ envelope.key # 0 /\ undo = envelope
      /\ UNCHANGED <<work, stored, undo, masters>> /\ w.id # 0
  BY <1>0, WorkFields DEF TakeEnvelope, EnvelopeIsCommitted
<1>2. \A v \in work : phase[v] # "locked"
  BY <1>0, <1>1 DEF EnvelopeIsHeld
<1>3. CASE Unwraps(envelope)
  <2>1. /\ envelope'.key = envelope.key /\ envelope'.dek = envelope.dek
        /\ envelope'.wrap = masters.current /\ masters.current \in 1 .. 2
    BY <1>3, WrappedFields DEF TakeEnvelope, SecretsShape
  <2>2. holder' = w.id /\ has' = [has EXCEPT ![w] = envelope']
    BY <1>3 DEF TakeEnvelope
  <2>3. \A v \in work : /\ phase'[v] = IF v = w THEN "locked" ELSE phase[v]
                        /\ has'[v] = IF v = w THEN envelope' ELSE has[v]
    BY <1>3, <2>2, StepFields DEF TakeEnvelope, SecretsShape
  <2>4. envelope.wrap = 2 => masters.current = 2
    BY <1>0, <1>1, <2>1 DEF WrapsAreKnown
  <2>5. EnvelopeIsCommitted'
    BY <1>0, <1>1, <2>1, <2>2, <2>4 DEF EnvelopeIsCommitted
  <2>6. EnvelopeIsHeld'
    BY <1>1, <1>2, <2>1, <2>2, <2>3 DEF EnvelopeIsHeld
  <2>7. ReadersHaveAKey'
    BY <1>0, <1>1, <2>3 DEF ReadersHaveAKey
  <2>8. WrapsAreKnown'
    BY <1>0, <1>1, <2>1, <2>3 DEF WrapsAreKnown
  <2> QED BY <2>5, <2>6, <2>7, <2>8 DEF SecretsHeld
<1>4. CASE ~Unwraps(envelope)
  BY <1>0, <1>1, <1>4 DEF Unwraps, WrapsAreKnown
<1> QED BY <1>3, <1>4

\* The first envelope of a project keeps what is held.
LEMMA InsertKey ==
  ASSUME SecretsShape, SecretsHeld, NEW w \in work, InsertEnvelope(w)
  PROVE  SecretsHeld'
<1>0. EnvelopeIsCommitted /\ EnvelopeIsHeld /\ ReadersHaveAKey /\ WrapsAreKnown
  BY DEF SecretsHeld
<1>1. holder = 0 /\ envelope.key = 0 /\ undo = envelope /\ holder' = w.id
      /\ UNCHANGED <<work, stored, undo, masters>> /\ w.id # 0
  BY <1>0, WorkFields DEF InsertEnvelope, EnvelopeIsCommitted
<1>2. \A v \in work : phase[v] # "locked"
  BY <1>0, <1>1 DEF EnvelopeIsHeld
<1>3. envelope'.key = w.id /\ envelope'.wrap = masters.current /\ has' = [has EXCEPT ![w] = envelope']
  BY DEF InsertEnvelope, Made
<1>4. \A v \in work : /\ phase'[v] = IF v = w THEN "locked" ELSE phase[v]
                      /\ has'[v] = IF v = w THEN envelope' ELSE has[v]
  BY <1>3, StepFields DEF InsertEnvelope, SecretsShape
<1>5. EnvelopeIsCommitted'
  BY <1>0, <1>1 DEF EnvelopeIsCommitted
<1>6. EnvelopeIsHeld'
  BY <1>1, <1>2, <1>3, <1>4 DEF EnvelopeIsHeld
<1>7. ReadersHaveAKey'
  BY <1>0, <1>1, <1>4 DEF ReadersHaveAKey
<1>8. WrapsAreKnown'
  BY <1>0, <1>1, <1>3, <1>4 DEF WrapsAreKnown
<1> QED BY <1>5, <1>6, <1>7, <1>8 DEF SecretsHeld

\* The holder commits what it has, or rolls back.
LEMMA HolderEnds ==
  ASSUME SecretsShape, SecretsHeld, NEW w \in work, phase[w] = "locked", holder' = 0,
         \/ Step(w, "done") /\ envelope' = envelope /\ undo' = envelope
         \/ Step(w, "failed") /\ envelope' = undo /\ undo' = undo,
         UNCHANGED <<work, has, masters>>,
         \/ UNCHANGED stored
         \/ /\ w.op = "store" /\ Step(w, "done")
            /\ stored' = [stored EXCEPT ![w.item] = [key |-> has[w].key, dek |-> has[w].dek,
                                                    value |-> w.id]]
  PROVE  SecretsHeld'
<1>0. EnvelopeIsCommitted /\ EnvelopeIsHeld /\ ReadersHaveAKey /\ WrapsAreKnown
  BY DEF SecretsHeld
<1>1. has[w] = envelope /\ envelope.key # 0 /\ envelope' = undo'
  BY <1>0 DEF EnvelopeIsHeld
<1>2. PICK to \in {"done", "failed"} :
        /\ \A v \in work : phase'[v] = IF v = w THEN to ELSE phase[v]
        /\ undo' = IF to = "done" THEN envelope ELSE undo
  BY StepFields
<1>3. \A v \in work : phase'[v] # "locked"
  BY <1>0, <1>2 DEF EnvelopeIsHeld
<1>4. undo.key # 0 => undo'.key = undo.key /\ undo'.dek = undo.dek /\ (undo.wrap = 2 => undo'.wrap = 2)
  BY <1>0, <1>2 DEF EnvelopeIsCommitted
<1>5. EnvelopeIsCommitted'
  <2>1. ASSUME NEW i \in Items, stored'[i].key # 0
        PROVE  stored'[i].key = undo'.key /\ stored'[i].dek = undo'.dek
    <3>1. CASE stored'[i] = stored[i]
      <4>1. stored[i].key = undo.key /\ stored[i].dek = undo.dek /\ undo.key # 0
        BY <1>0, <2>1, <3>1 DEF EnvelopeIsCommitted
      <4> QED BY <1>4, <3>1, <4>1
    <3>2. CASE stored'[i] # stored[i]
      <4>1. stored'[i] = [key |-> has[w].key, dek |-> has[w].dek, value |-> w.id]
            /\ phase'[w] = "done"
        BY <3>2, StepFields DEF SecretsShape
      <4> QED BY <1>1, <1>2, <4>1
    <3> QED BY <3>1, <3>2
  <2> QED BY <1>1, <2>1 DEF EnvelopeIsCommitted
<1>6. EnvelopeIsHeld'
  BY <1>3 DEF EnvelopeIsHeld
<1>7. ReadersHaveAKey'
  BY <1>0, <1>2, <1>4 DEF ReadersHaveAKey
<1>8. WrapsAreKnown'
  <2>1. undo'.key # 0 => undo'.wrap \in masters.known
    BY <1>0, <1>2 DEF WrapsAreKnown
  <2>2. ASSUME NEW v \in work, v.op = "migrate", phase'[v] = "done", has[v].wrap = 2
        PROVE  undo'.key # 0 /\ undo'.wrap = 2
    <3>1. CASE v = w
      BY <1>1, <1>2, <2>2, <3>1
    <3>2. CASE v # w
      BY <1>0, <1>2, <1>4, <2>2, <3>2 DEF WrapsAreKnown
    <3> QED BY <3>1, <3>2
  <2> QED BY <1>0, <1>1, <2>1, <2>2 DEF WrapsAreKnown
<1> QED BY <1>5, <1>6, <1>7, <1>8 DEF SecretsHeld

\* Work that moves without touching the envelope.
LEMMA MovedKept ==
  ASSUME SecretsShape, SecretsHeld, NEW w \in work, NEW to \in {"absent", "row", "unlocked", "failed"},
         Step(w, to), phase[w] # "locked",
         UNCHANGED <<work, envelope, stored, holder, undo, masters>>,
         \/ UNCHANGED has
         \/ has' = [has EXCEPT ![w] = envelope] /\ holder = 0,
         to = "row" /\ w.op = "read" => undo.key # 0,
         to = "unlocked" => w.op = "read" /\ undo.key # 0 /\ holder = 0 /\ has' = [has EXCEPT ![w] = envelope]
  PROVE  SecretsHeld'
<1>0. EnvelopeIsCommitted /\ EnvelopeIsHeld /\ ReadersHaveAKey /\ WrapsAreKnown
  BY DEF SecretsHeld
<1>1. \A v \in work : /\ phase'[v] = IF v = w THEN to ELSE phase[v]
                      /\ v # w => has'[v] = has[v]
  BY StepFields DEF SecretsShape
<1>2. to = "unlocked" => w.op = "read" /\ undo.key # 0 /\ has'[w] = undo
  BY <1>0 DEF EnvelopeIsCommitted, SecretsShape
<1>3. EnvelopeIsCommitted'
  BY <1>0 DEF EnvelopeIsCommitted
<1>4. EnvelopeIsHeld'
  BY <1>0, <1>1 DEF EnvelopeIsHeld
<1>5. ReadersHaveAKey'
  BY <1>0, <1>1, <1>2 DEF ReadersHaveAKey
<1>6. WrapsAreKnown'
  BY <1>0, <1>1 DEF WrapsAreKnown
<1> QED BY <1>3, <1>4, <1>5, <1>6 DEF SecretsHeld

\* A reader keeps what is held.
LEMMA ReadKept ==
  ASSUME SecretsShape, SecretsHeld, NEW w \in work, Read(w)
  PROVE  SecretsHeld'
<1>0. EnvelopeIsCommitted /\ EnvelopeIsHeld /\ ReadersHaveAKey /\ WrapsAreKnown
  BY DEF SecretsHeld
<1>1. holder = 0 /\ phase[w] = "unlocked" /\ w.op = "read" /\ undo = envelope /\ envelope.key # 0
      /\ has[w].dek = envelope.dek /\ UNCHANGED <<work, stored, holder, has, masters>>
  BY <1>0 DEF Read, EnvelopeIsCommitted, ReadersHaveAKey
<1>2. /\ undo' = envelope' /\ envelope'.key = envelope.key /\ envelope'.dek = envelope.dek
      /\ envelope'.wrap \in {envelope.wrap, masters.current}
      /\ has[w].wrap = masters.current => envelope' = envelope
  BY <1>1, ReadEnvelopeType
<1>3. masters.current \in 1 .. 2 /\ (envelope.wrap = 2 => envelope'.wrap = 2)
      /\ envelope'.wrap \in masters.known
  BY <1>0, <1>1, <1>2 DEF WrapsAreKnown, SecretsShape
<1>4. PICK to \in {"done", "failed"} : \A v \in work : phase'[v] = IF v = w THEN to ELSE phase[v]
  BY StepFields DEF Read
<1>5. EnvelopeIsCommitted'
  BY <1>0, <1>1, <1>2 DEF EnvelopeIsCommitted
<1>6. EnvelopeIsHeld'
  BY <1>0, <1>1, <1>4 DEF EnvelopeIsHeld
<1>7. ReadersHaveAKey'
  BY <1>0, <1>1, <1>2, <1>4 DEF ReadersHaveAKey
<1>8. WrapsAreKnown'
  BY <1>0, <1>1, <1>2, <1>3, <1>4 DEF WrapsAreKnown
<1> QED BY <1>5, <1>6, <1>7, <1>8 DEF SecretsHeld

\* Every step keeps what is held, as long as no migration replaces the data key.
LEMMA SecretsHeldKept ==
  ASSUME SecretsShape, SecretsHeld, NothingRotates, [SecretsNext]_secretsVars
  PROVE  SecretsHeld'
<1>0. EnvelopeIsCommitted /\ EnvelopeIsHeld /\ ReadersHaveAKey /\ WrapsAreKnown
  BY DEF SecretsHeld
<1>1. ASSUME NEW w \in work, LockEnvelope(w) \/ MeetConflict(w) \/ MigrateLocks(w)
      PROVE  SecretsHeld'
  BY <1>1, TakeKept DEF LockEnvelope, MeetConflict, AfterConflict, MigrateLocks
<1>2. ASSUME NEW w \in work, InsertEnvelope(w) PROVE SecretsHeld'
  BY <1>2, InsertKey
<1>3. ASSUME NEW w \in work, Store(w) \/ Abort(w) PROVE SecretsHeld'
  BY <1>3, HolderEnds DEF Store, Abort
<1>4. ASSUME NEW w \in work, MigrateCommits(w) PROVE SecretsHeld'
  <2>1. ~w.rotate /\ holder' = 0 /\ phase[w] = "locked" /\ UNCHANGED <<work, has, masters>>
    BY <1>4 DEF NothingRotates, MigrateCommits
  <2>2. \/ Step(w, "done") /\ envelope' = envelope /\ undo' = envelope /\ UNCHANGED stored
        \/ Step(w, "failed") /\ envelope' = undo /\ undo' = undo /\ UNCHANGED stored
    BY <1>4, <2>1 DEF MigrateCommits
  <2> QED BY <2>1, <2>2, HolderEnds
<1>5. ASSUME NEW w \in work, FindNoEnvelope(w) \/ ReadRow(w) \/ MigrateBegins(w) PROVE SecretsHeld'
  <2>1. PICK to \in {"absent", "row"} :
          Step(w, to) /\ (to = "row" /\ w.op = "read" => stored[w.item].key # 0)
    BY <1>5 DEF FindNoEnvelope, ReadRow, MigrateBegins
  <2>2. phase[w] = "new" /\ UNCHANGED <<work, envelope, stored, holder, undo, masters, has>>
    BY <1>5 DEF FindNoEnvelope, ReadRow, MigrateBegins
  <2>3. stored[w.item].key # 0 => undo.key # 0
    BY <1>0, WorkFields DEF EnvelopeIsCommitted
  <2> QED BY <2>1, <2>2, <2>3, MovedKept
<1>6. ASSUME NEW w \in work, ReadEnvelope(w) PROVE SecretsHeld'
  <2>1. undo.key # 0 /\ holder = 0 /\ phase[w] = "row" /\ w.op = "read"
    BY <1>0, <1>6 DEF ReadEnvelope, ReadersHaveAKey
  <2>2. PICK to \in {"unlocked", "failed"} : Step(w, to)
    BY <1>6 DEF ReadEnvelope
  <2> QED BY <1>6, <2>1, <2>2, MovedKept DEF ReadEnvelope
<1>7. ASSUME NEW w \in work, Read(w) PROVE SecretsHeld'
  BY <1>7, ReadKept
<1>8. CASE MasterKeyChanges
  <2>1. masters.known = {1} /\ masters'.current = 2 /\ masters'.known = {1, 2}
    BY <1>0, <1>8 DEF MasterKeyChanges, WrapsAreKnown
  <2>2. UNCHANGED <<work, envelope, stored, holder, undo, phase, has>>
    BY <1>8 DEF MasterKeyChanges
  <2>3. EnvelopeIsCommitted' /\ EnvelopeIsHeld' /\ ReadersHaveAKey'
    BY <1>0, <2>2 DEF EnvelopeIsCommitted, EnvelopeIsHeld, ReadersHaveAKey
  <2>4. WrapsAreKnown'
    BY <1>0, <2>1, <2>2 DEF WrapsAreKnown
  <2> QED BY <2>3, <2>4 DEF SecretsHeld
<1>9. CASE PreviousKeyIsRemoved
  <2>1. PICK w \in work : w.op = "migrate" /\ phase[w] = "done" /\ has[w].wrap = 2
    BY <1>9 DEF PreviousKeyIsRemoved
  <2>2. undo.key # 0 /\ undo.wrap = 2 /\ envelope.wrap = 2
    BY <1>0, <2>1 DEF WrapsAreKnown, EnvelopeIsCommitted
  <2>3. UNCHANGED <<work, envelope, stored, holder, undo, phase, has>>
        /\ masters'.current = 2 /\ masters'.known = {2}
    BY <1>9 DEF PreviousKeyIsRemoved
  <2>4. EnvelopeIsCommitted' /\ EnvelopeIsHeld' /\ ReadersHaveAKey'
    BY <1>0, <2>3 DEF EnvelopeIsCommitted, EnvelopeIsHeld, ReadersHaveAKey
  <2>5. WrapsAreKnown'
    BY <1>0, <2>2, <2>3 DEF WrapsAreKnown
  <2> QED BY <2>4, <2>5 DEF SecretsHeld
<1>10. CASE UNCHANGED secretsVars
  BY <1>0, <1>10 DEF secretsVars, SecretsHeld, EnvelopeIsCommitted, EnvelopeIsHeld, ReadersHaveAKey,
     WrapsAreKnown
<1> QED BY <1>1, <1>2, <1>3, <1>4, <1>5, <1>6, <1>7, <1>8, <1>9, <1>10 DEF SecretsNext

\* Whatever is stored can be read, however writers that make the first envelope, readers
\* that wrap it again, migrations and changes of the master key meet, unless a migration
\* replaces the data key.
THEOREM SecretsStayReadable == SecretsSpec => [](NothingRotates => SecretsReadable)
<1>1. SecretsInit => SecretsInv
  BY SecretsInitHolds
<1>2. SecretsInv /\ [SecretsNext]_secretsVars => SecretsInv'
  <2> SUFFICES ASSUME SecretsInv, [SecretsNext]_secretsVars PROVE SecretsInv'
    OBVIOUS
  <2>1. SecretsShape'
    BY SMTT(20), SecretsShapeKept DEF SecretsInv
  <2>2. work' = work
    BY DEF SecretsNext, secretsVars, MasterKeyChanges, PreviousKeyIsRemoved, LockEnvelope,
       FindNoEnvelope, InsertEnvelope, MeetConflict, AfterConflict, TakeEnvelope, Store, Abort,
       ReadRow, ReadEnvelope, Read, MigrateBegins, MigrateLocks, MigrateCommits
  <2>3. NothingRotates' => SecretsHeld'
    BY <2>2, SecretsHeldKept DEF SecretsInv, NothingRotates
  <2> QED BY <2>1, <2>3 DEF SecretsInv
<1>3. SecretsInv => (NothingRotates => SecretsReadable)
  <2> SUFFICES ASSUME SecretsInv, NothingRotates, holder = 0, NEW i \in Items, stored[i].key # 0
               PROVE  /\ stored[i].key = envelope.key /\ stored[i].dek = envelope.dek
                      /\ envelope.wrap \in masters.known
    BY DEF SecretsReadable
  <2> QED BY DEF SecretsInv, SecretsHeld, EnvelopeIsCommitted, WrapsAreKnown
<1> QED BY <1>1, <1>2, <1>3, PTL DEF SecretsSpec

-----------------------------------------------------------------------------
(* Deployments. *)

MigratorPhases == {"new", "locked", "applying", "roles", "tenants", "succeeded", "failed"}
MigratorType == [at : MigratorPhases, known : Nat, role : 1 .. 6]
ApiType == [image : Images \cup {"none"}, at : {"down", "starting", "verified", "writing", "serving"}]

StartShape ==
  /\ site.rows \subseteq Projects
  /\ ledger \in Seq(STRING) /\ schema = ledger
  /\ migrator \in [DOMAIN Migrators -> MigratorType]
  /\ advisory \in DOMAIN Migrators \cup {0}
  /\ granted \in [RoleNames -> Nat] /\ lowered \subseteq Enumerated
  /\ tenantRoles \subseteq site.rows
  /\ tenantOf \in [site.rows -> Nat] /\ updates \in [site.rows -> Nat]
  /\ api \in ApiType
  /\ restarts \in 0 .. MaxRestarts

\* A migrator has seen no more than there is, and has worked through its roles in order.
MigratorsAreInOrder ==
  \A m \in DOMAIN Migrators :
    /\ migrator[m].at \in {"new", "locked", "applying"} => migrator[m].role = 1
    /\ migrator[m].at = "applying" => migrator[m].known <= Len(ledger)
    /\ migrator[m].at = "roles" => migrator[m].role \in 1 .. 5
    /\ migrator[m].at \in {"tenants", "succeeded"} => migrator[m].role = 6

\* What a migrator has applied, and the roles it has been through: they have its rights
\* unless an older image has taken them back.
MigratorsProvision ==
  \A m \in DOMAIN Migrators :
    migrator[m].at \in {"roles", "tenants", "succeeded"} =>
      /\ Len(Catalog[Migrators[m]]) <= Len(ledger)
      /\ \A k \in 1 .. 5 : k < migrator[m].role =>
           granted[RoleOrder[k]] >= Len(Catalog[Migrators[m]]) \/ RoleOrder[k] \in lowered

\* The image of the API: its migrations have been applied, its roles have their rights
\* unless an older image has taken them back, and from the check on the ledger is its own.
ApiIsReady ==
  /\ \A r \in RoleNames : granted[r] <= Len(ledger)
  /\ api.at # "down" => api.image # "none"
  /\ api.image # "none" =>
       /\ Len(Catalog[api.image]) <= Len(ledger)
       /\ \A r \in RoleNames : granted[r] >= Len(Catalog[api.image]) \/ r \in lowered
  /\ api.at \in {"verified", "writing", "serving"} => Compatible(Catalog[api.image])

\* What is written is what was found without a conflict; after it the tenants agree with
\* the projects' files and with one another.
TenantsAgree ==
  /\ api.at = "writing" =>
       /\ ~Conflict
       /\ updates = [p \in site.rows |-> IF tenantOf[p] = 0 THEN Selected(p) ELSE 0]
  /\ api.at = "serving" =>
       /\ \A p \in site.rows : Evidence(p) \subseteq {tenantOf[p]}
       /\ \A p, q \in site.rows : p # q /\ tenantOf[p] # 0 => tenantOf[p] # tenantOf[q]

StartInv == StartShape /\ MigratorsAreInOrder /\ MigratorsProvision /\ ApiIsReady /\ TenantsAgree

\* There are five roles, each at one place of the order.
LEMMA RolesAreFive ==
  /\ Len(RoleOrder) = 5 /\ DOMAIN RoleOrder = 1 .. 5
  /\ RoleNames = {RoleOrder[k] : k \in 1 .. 5}
BY DEF RoleOrder, RoleNames

\* The migrations of an image are a sequence.
LEMMA CatalogTypes ==
  ASSUME NEW i \in Images
  PROVE  Catalog[i] \in Seq(STRING) /\ Len(Catalog[i]) \in Nat
BY StartAssumption

\* What a migrator has.
LEMMA MigratorFields ==
  ASSUME StartShape, NEW m \in DOMAIN Migrators
  PROVE  /\ migrator[m] \in MigratorType /\ migrator[m].at \in MigratorPhases
         /\ migrator[m].known \in Nat /\ migrator[m].role \in 1 .. 6
         /\ Migrators[m] \in Images
<1>1. migrator[m] \in MigratorType
  BY DEF StartShape
<1> QED BY <1>1, StartAssumption DEF MigratorType

\* One migrator goes to another phase.
LEMMA MigratorMoves ==
  ASSUME StartShape, NEW m \in DOMAIN Migrators, NEW to \in MigratorPhases, MigratorAt(m, to)
  PROVE  /\ migrator' \in [DOMAIN Migrators -> MigratorType]
         /\ \A k \in DOMAIN Migrators \ {m} : migrator'[k] = migrator[k]
         /\ migrator'[m].at = to /\ migrator'[m].known = migrator[m].known
         /\ migrator'[m].role = migrator[m].role
<1>1. PICK v : v = [migrator[m] EXCEPT !.at = to]
  OBVIOUS
<1>2. v = [at |-> to, known |-> migrator[m].known, role |-> migrator[m].role]
  BY <1>1, MigratorFields DEF MigratorType
<1>3. v \in MigratorType
  BY <1>2, MigratorFields DEF MigratorType
<1>4. migrator' = [migrator EXCEPT ![m] = v]
  BY <1>1 DEF MigratorAt, StartShape
<1> QED BY <1>2, <1>3, <1>4 DEF StartShape

\* The invariant of a deployment holds to begin with.
LEMMA StartInitHolds ==
  ASSUME StartInit
  PROVE  StartInv
<1>1. site \in Installations /\ (site.api # "none" => Len(Catalog[site.api]) <= Len(site.ledger))
  BY StartAssumption DEF StartInit
<1>2. site.rows \subseteq Projects /\ site.ledger \in Seq(STRING) /\ site.api \in Images \cup {"none"}
  BY <1>1 DEF Installations
<1>3. Len(ledger) \in Nat /\ ledger = site.ledger /\ schema = ledger /\ ledger \in Seq(STRING)
  BY <1>2 DEF StartInit
<1>4. migrator \in [DOMAIN Migrators -> MigratorType]
      /\ (\A m \in DOMAIN Migrators : migrator[m].at = "new")
      /\ (\A m \in DOMAIN Migrators : migrator[m].role = 1)
  BY DEF StartInit, MigratorType, MigratorPhases
<1>5. tenantOf \in [site.rows -> Nat] /\ updates \in [site.rows -> Nat]
  BY <1>2 DEF StartInit, Projects
<1>6. api \in ApiType /\ api.image = site.api /\ api.at \in {"down", "starting"}
      /\ (api.at # "down" => api.image # "none")
  BY <1>2 DEF StartInit, ApiType
<1>7. granted = [r \in RoleNames |-> Len(ledger)]
  BY <1>3 DEF StartInit
<1>8. restarts \in 0 .. MaxRestarts
  BY StartAssumption DEF StartInit
<1>9. StartShape
  BY <1>2, <1>3, <1>4, <1>5, <1>6, <1>7, <1>8 DEF StartShape, StartInit
<1>10. ApiIsReady
  BY <1>1, <1>3, <1>6, <1>7 DEF ApiIsReady
<1> QED BY <1>4, <1>6, <1>9, <1>10 DEF StartInv, MigratorsAreInOrder, MigratorsProvision, TenantsAgree

\* As long as the tenants of the projects stay, so does what is made of them.
LEMMA TenantsStay ==
  ASSUME TenantsAgree, UNCHANGED <<site, tenantOf, updates>>, api'.at = api.at
  PROVE  TenantsAgree'
<1>1. \A p : Selected(p)' = Selected(p) /\ Evidence(p)' = Evidence(p)
  BY DEF Selected, Evidence
<1>2. Conflict' <=> Conflict
  BY <1>1 DEF Conflict
<1>3. updates = [p \in site.rows |-> IF tenantOf[p] = 0 THEN Selected(p) ELSE 0]
        => updates' = [p \in site'.rows |-> IF tenantOf'[p] = 0 THEN Selected(p)' ELSE 0]
  BY <1>1
<1> QED BY <1>1, <1>2, <1>3 DEF TenantsAgree

\* A migrator that moves without changing the database.
LEMMA MigratorKept ==
  ASSUME StartInv, NEW m \in DOMAIN Migrators,
         NEW to \in MigratorPhases, MigratorAt(m, to),
         advisory' \in DOMAIN Migrators \cup {0}, tenantRoles' \subseteq site.rows,
         UNCHANGED <<site, ledger, schema, granted, lowered, tenantOf, api, updates, restarts>>,
         to \notin {"new", "applying"}, to = "locked" => migrator[m].at = "new",
         to = "roles" => migrator[m].role \in 1 .. 5 /\ Len(Catalog[Migrators[m]]) <= Len(ledger)
                         /\ \A k \in 1 .. 5 : k < migrator[m].role =>
                              \/ granted[RoleOrder[k]] >= Len(Catalog[Migrators[m]])
                              \/ RoleOrder[k] \in lowered,
         to \in {"tenants", "succeeded"} => migrator[m].at = "tenants"
  PROVE  StartInv'
<1>0. StartShape /\ MigratorsAreInOrder /\ MigratorsProvision /\ ApiIsReady /\ TenantsAgree
  BY DEF StartInv
<1>1. /\ migrator' \in [DOMAIN Migrators -> MigratorType]
      /\ \A k \in DOMAIN Migrators \ {m} : migrator'[k] = migrator[k]
      /\ migrator'[m].at = to /\ migrator'[m].role = migrator[m].role
  BY <1>0, MigratorMoves
<1>2. StartShape'
  BY <1>0, <1>1 DEF StartShape
<1>3. MigratorsAreInOrder'
  <2>1. ASSUME NEW k \in DOMAIN Migrators
        PROVE  /\ migrator'[k].at \in {"new", "locked", "applying"} => migrator'[k].role = 1
               /\ migrator'[k].at = "applying" => migrator'[k].known <= Len(ledger)
               /\ migrator'[k].at = "roles" => migrator'[k].role \in 1 .. 5
               /\ migrator'[k].at \in {"tenants", "succeeded"} => migrator'[k].role = 6
    <3>1. CASE k = m
      BY <1>0, <1>1, <3>1 DEF MigratorsAreInOrder
    <3>2. CASE k # m
      BY <1>0, <1>1, <3>2 DEF MigratorsAreInOrder
    <3> QED BY <3>1, <3>2
  <2> QED BY <2>1 DEF MigratorsAreInOrder
<1>4. MigratorsProvision'
  <2>1. ASSUME NEW k \in DOMAIN Migrators, migrator'[k].at \in {"roles", "tenants", "succeeded"}
        PROVE  /\ Len(Catalog[Migrators[k]]) <= Len(ledger)
               /\ \A r \in 1 .. 5 : r < migrator'[k].role =>
                    granted[RoleOrder[r]] >= Len(Catalog[Migrators[k]]) \/ RoleOrder[r] \in lowered
    <3>1. CASE k = m
      BY <1>0, <1>1, <2>1, <3>1 DEF MigratorsProvision
    <3>2. CASE k # m
      BY <1>0, <1>1, <2>1, <3>2 DEF MigratorsProvision
    <3> QED BY <3>1, <3>2
  <2> QED BY <2>1 DEF MigratorsProvision
<1>5. ApiIsReady'
  BY <1>0 DEF ApiIsReady, Compatible, Drifted
<1>6. TenantsAgree'
  BY <1>0, TenantsStay
<1> QED BY <1>2, <1>3, <1>4, <1>5, <1>6 DEF StartInv

\* A migrator that reads the ledger keeps it.
LEMMA ReadTheLedgerKept ==
  ASSUME StartInv, NEW m \in DOMAIN Migrators, ReadTheLedger(m)
  PROVE  StartInv'
<1>0. StartShape /\ MigratorsAreInOrder /\ MigratorsProvision /\ ApiIsReady /\ TenantsAgree
  BY DEF StartInv
<1>1. UNCHANGED <<site, ledger, schema, advisory, granted, lowered, tenantRoles, tenantOf, api,
                  updates, restarts>>
  BY DEF ReadTheLedger
<1>2. Len(ledger) \in Nat
  BY <1>0 DEF StartShape
<1>3. PICK v : v = [migrator[m] EXCEPT !.at = "applying", !.known = Len(ledger)]
  OBVIOUS
<1>4. v = [at |-> "applying", known |-> Len(ledger), role |-> migrator[m].role]
  BY <1>0, <1>3, MigratorFields DEF MigratorType
<1>5. v \in MigratorType
  BY <1>0, <1>2, <1>4, MigratorFields DEF MigratorType, MigratorPhases
<1>6. migrator' = [migrator EXCEPT ![m] = v]
  BY <1>0, <1>3 DEF ReadTheLedger, StartShape
<1>7. /\ migrator' \in [DOMAIN Migrators -> MigratorType]
      /\ \A k \in DOMAIN Migrators : migrator'[k] = IF k = m THEN v ELSE migrator[k]
  BY <1>0, <1>5, <1>6 DEF StartShape
<1>8. StartShape'
  BY <1>0, <1>1, <1>7 DEF StartShape
<1>a. migrator[m].role = 1
  BY <1>0 DEF ReadTheLedger, MigratorsAreInOrder
<1>9. MigratorsAreInOrder'
  BY <1>0, <1>1, <1>2, <1>4, <1>7, <1>a DEF MigratorsAreInOrder
<1>10. MigratorsProvision'
  BY <1>0, <1>1, <1>4, <1>7 DEF MigratorsProvision
<1>11. ApiIsReady'
  BY <1>0, <1>1 DEF ApiIsReady, Compatible, Drifted
<1>12. TenantsAgree'
  BY <1>0, <1>1, TenantsStay
<1> QED BY <1>8, <1>9, <1>10, <1>11, <1>12 DEF StartInv

\* What a catalog asks of the ledger it goes on having when the ledger grows.
LEMMA GrowthKeeps ==
  ASSUME NEW i \in Images, ledger \in Seq(STRING), NEW c \in STRING, ledger' = Append(ledger, c),
         Compatible(Catalog[i])
  PROVE  Compatible(Catalog[i])'
<1>1. /\ Len(ledger) \in Nat /\ Len(ledger') = Len(ledger) + 1
      /\ \A v \in 1 .. Len(ledger) : ledger'[v] = ledger[v]
  OBVIOUS
<1>2. DOMAIN Catalog[i] = 1 .. Len(Catalog[i]) /\ Len(Catalog[i]) \in Nat
  BY CatalogTypes
<1>3. Len(Catalog[i]) <= Len(ledger) /\ \A v \in 1 .. Len(Catalog[i]) : Catalog[i][v] = ledger[v]
  BY <1>1, <1>2 DEF Compatible, Drifted
<1>4. Len(Catalog[i]) <= Len(ledger') /\ \A v \in 1 .. Len(Catalog[i]) : Catalog[i][v] = ledger'[v]
  <2>1. ASSUME NEW v \in 1 .. Len(Catalog[i]) PROVE Catalog[i][v] = ledger'[v]
    <3>1. v \in 1 .. Len(ledger)
      BY <1>1, <1>2, <1>3
    <3> QED BY <1>1, <1>3, <3>1
  <2>2. Len(Catalog[i]) <= Len(ledger')
    BY <1>1, <1>2, <1>3
  <2> QED BY <2>1, <2>2
<1>5. ~ \E v \in DOMAIN Catalog[i] \cap 1 .. Len(ledger') : Catalog[i][v] # ledger'[v]
  BY <1>2, <1>4
<1> QED BY <1>4, <1>5 DEF Compatible, Drifted

\* A migration that is applied keeps it.
LEMMA ApplyOneKept ==
  ASSUME StartInv, NEW m \in DOMAIN Migrators, ApplyOne(m)
  PROVE  StartInv'
<1>0. StartShape /\ MigratorsAreInOrder /\ MigratorsProvision /\ ApiIsReady /\ TenantsAgree
  BY DEF StartInv
<1>a. PICK n : n = migrator[m].known + 1
  OBVIOUS
<1>b. PICK c : c = Catalog[Migrators[m]][n]
  OBVIOUS
<1>1. /\ migrator[m].at = "applying" /\ n <= Len(Catalog[Migrators[m]]) /\ n > Len(ledger)
      /\ ledger' = Append(ledger, c) /\ schema' = Append(schema, c)
      /\ migrator' = [migrator EXCEPT ![m].known = n]
      /\ UNCHANGED <<site, advisory, granted, lowered, tenantRoles, tenantOf, api, updates, restarts>>
  BY <1>0, <1>a, <1>b, MigratorFields, CatalogTypes DEF ApplyOne, Pending, Applied
<1>2. n \in Nat \ {0} /\ c \in STRING
  <2>1. Catalog[Migrators[m]] \in Seq(STRING) /\ migrator[m].known \in Nat
    BY <1>0, MigratorFields, CatalogTypes
  <2> QED BY <1>1, <1>a, <1>b, <2>1
<1>3. /\ ledger' \in Seq(STRING) /\ schema' = ledger' /\ Len(ledger) \in Nat
      /\ Len(ledger') = Len(ledger) + 1
  BY <1>0, <1>1, <1>2 DEF StartShape
<1>4. n = Len(ledger')
  BY <1>0, <1>1, <1>2, <1>3, <1>a, MigratorFields DEF MigratorsAreInOrder
<1>5. PICK v : v = [migrator[m] EXCEPT !.known = n]
  OBVIOUS
<1>6. v = [at |-> "applying", known |-> n, role |-> migrator[m].role]
  BY <1>0, <1>1, <1>5, MigratorFields DEF MigratorType
<1>7. v \in MigratorType
  BY <1>0, <1>2, <1>6, MigratorFields DEF MigratorType, MigratorPhases
<1>8. migrator' = [migrator EXCEPT ![m] = v]
  BY <1>0, <1>1, <1>5 DEF StartShape
<1>9. /\ migrator' \in [DOMAIN Migrators -> MigratorType]
      /\ \A k \in DOMAIN Migrators : migrator'[k] = IF k = m THEN v ELSE migrator[k]
  BY <1>0, <1>7, <1>8 DEF StartShape
<1>10. StartShape'
  BY <1>0, <1>1, <1>3, <1>9 DEF StartShape
<1>11. MigratorsAreInOrder'
  <2>1. ASSUME NEW k \in DOMAIN Migrators
        PROVE  /\ migrator'[k].at \in {"new", "locked", "applying"} => migrator'[k].role = 1
               /\ migrator'[k].at = "applying" => migrator'[k].known <= Len(ledger')
               /\ migrator'[k].at = "roles" => migrator'[k].role \in 1 .. 5
               /\ migrator'[k].at \in {"tenants", "succeeded"} => migrator'[k].role = 6
    <3>1. CASE k = m
      BY <1>0, <1>1, <1>3, <1>4, <1>6, <1>9, <3>1 DEF MigratorsAreInOrder
    <3>2. CASE k # m
      BY <1>0, <1>3, <1>9, <3>2, MigratorFields DEF MigratorsAreInOrder
    <3> QED BY <3>1, <3>2
  <2> QED BY <2>1 DEF MigratorsAreInOrder
<1>12. MigratorsProvision'
  <2>1. ASSUME NEW k \in DOMAIN Migrators, migrator'[k].at \in {"roles", "tenants", "succeeded"}
        PROVE  /\ Len(Catalog[Migrators[k]]) <= Len(ledger')
               /\ \A r \in 1 .. 5 : r < migrator'[k].role =>
                    granted[RoleOrder[r]] >= Len(Catalog[Migrators[k]]) \/ RoleOrder[r] \in lowered
    <3>1. k # m /\ migrator'[k] = migrator[k]
      BY <1>6, <1>9, <2>1
    <3>2. Len(Catalog[Migrators[k]]) \in Nat
      BY <1>0, MigratorFields, CatalogTypes
    <3> QED BY <1>0, <1>3, <2>1, <3>1, <3>2 DEF MigratorsProvision
  <2> QED BY <1>1, <2>1 DEF MigratorsProvision
<1>13. ApiIsReady'
  <2>1. \A r \in RoleNames : granted[r] <= Len(ledger')
    BY <1>0, <1>3 DEF ApiIsReady, StartShape
  <2>2. ASSUME api.at \in {"verified", "writing", "serving"}
        PROVE  Compatible(Catalog[api.image])'
    <3>1. api.image \in Images /\ Compatible(Catalog[api.image]) /\ api' = api
      BY <1>0, <1>1, <2>2 DEF ApiIsReady, StartShape, ApiType
    <3>2. ASSUME NEW i \in Images, i = api.image
          PROVE  Compatible(Catalog[i])'
      BY <1>0, <1>1, <1>2, <3>1, <3>2, GrowthKeeps DEF StartShape
    <3>3. PICK i \in Images : i = api.image
      BY <3>1
    <3> QED BY <3>1, <3>2, <3>3 DEF Compatible, Drifted
  <2>3. api.image # "none" => Len(Catalog[api.image]) <= Len(ledger')
    BY <1>0, <1>3, CatalogTypes DEF ApiIsReady, StartShape, ApiType
  <2> QED BY <1>0, <1>1, <2>1, <2>2, <2>3 DEF ApiIsReady
<1>14. TenantsAgree'
  BY <1>0, <1>1, TenantsStay
<1> QED BY <1>10, <1>11, <1>12, <1>13, <1>14 DEF StartInv

\* A role that is provisioned keeps it.
LEMMA ProvisionRoleKept ==
  ASSUME StartInv, NEW m \in DOMAIN Migrators, ProvisionRole(m)
  PROVE  StartInv'
<1>0. StartShape /\ MigratorsAreInOrder /\ MigratorsProvision /\ ApiIsReady /\ TenantsAgree
  BY DEF StartInv
<1>a. PICK r : r = migrator[m].role
  OBVIOUS
<1>b. PICK to : to = IF r = 5 THEN "tenants" ELSE "roles"
  OBVIOUS
<1>c. PICK g : g = Granted(m, RoleOrder[r])
  OBVIOUS
<1>1. /\ migrator[m].at = "roles" /\ r \in 1 .. 5
      /\ granted' = [granted EXCEPT ![RoleOrder[r]] = g] /\ lowered' = Lowered(RoleOrder[r], g)
      /\ migrator' = [migrator EXCEPT ![m].role = r + 1, ![m].at = to]
      /\ UNCHANGED <<site, ledger, schema, advisory, tenantRoles, tenantOf, api, updates, restarts>>
  BY <1>0, <1>a, <1>b, <1>c, RolesAreFive DEF ProvisionRole, MigratorsAreInOrder
<1>2. /\ Len(ledger) \in Nat /\ RoleOrder[r] \in RoleNames
      /\ Len(Catalog[Migrators[m]]) \in Nat /\ Len(Catalog[Migrators[m]]) <= Len(ledger)
  BY <1>0, <1>1, RolesAreFive, MigratorFields, CatalogTypes DEF StartShape, MigratorsProvision
<1>d. /\ g \in Nat /\ Len(Catalog[Migrators[m]]) <= g /\ g <= Len(ledger)
      /\ RoleOrder[r] \notin Enumerated => g = Len(ledger)
  BY <1>0, <1>2, <1>c DEF Granted, StartShape
<1>3. /\ granted' \in [RoleNames -> Nat]
      /\ \A q \in RoleNames : granted'[q] = IF q = RoleOrder[r] THEN g ELSE granted[q]
  BY <1>0, <1>1, <1>2, <1>d DEF StartShape
<1>4. \A q \in RoleNames : granted'[q] <= Len(ledger)
  BY <1>0, <1>3, <1>d DEF ApiIsReady
<1>e. /\ lowered' \subseteq Enumerated
      /\ \A q \in RoleNames \ {RoleOrder[r]} : q \in lowered' <=> q \in lowered
      /\ g < granted[RoleOrder[r]] => RoleOrder[r] \in lowered'
      /\ RoleOrder[r] \in lowered /\ g < Len(ledger) => RoleOrder[r] \in lowered'
  <2>1. granted[RoleOrder[r]] \in Nat /\ granted[RoleOrder[r]] <= Len(ledger) /\ lowered \subseteq Enumerated
    BY <1>0, <1>2 DEF StartShape, ApiIsReady
  <2>2. CASE g < granted[RoleOrder[r]]
    <3>1. lowered' = lowered \cup {RoleOrder[r]}
      BY <1>1, <2>2 DEF Lowered
    <3>2. RoleOrder[r] \in Enumerated
      BY <1>2, <1>d, <2>1, <2>2
    <3> QED BY <2>1, <3>1, <3>2
  <2>3. CASE ~(g < granted[RoleOrder[r]]) /\ g >= Len(ledger)
    BY <1>1, <1>2, <1>d, <2>1, <2>3 DEF Lowered
  <2>4. CASE ~(g < granted[RoleOrder[r]]) /\ ~(g >= Len(ledger))
    BY <1>1, <2>1, <2>4 DEF Lowered
  <2> QED BY <2>2, <2>3, <2>4
\* What a role had it keeps, or an older image has taken it back.
<1>f. ASSUME NEW q \in RoleNames, NEW n \in Nat, n <= Len(ledger),
             granted[q] >= n \/ q \in lowered
      PROVE  granted'[q] >= n \/ q \in lowered'
  <2>1. CASE q # RoleOrder[r]
    BY <1>3, <1>e, <1>f, <2>1
  <2>2. CASE q = RoleOrder[r]
    <3>1. granted[q] \in Nat /\ granted'[q] = g
      BY <1>0, <1>3, <2>2 DEF StartShape
    <3> QED BY <1>2, <1>d, <1>e, <1>f, <2>2, <3>1
  <2> QED BY <2>1, <2>2
<1>5. PICK v : v = [migrator[m] EXCEPT !.role = r + 1, !.at = to]
  OBVIOUS
<1>6. v = [at |-> to, known |-> migrator[m].known, role |-> r + 1]
  BY <1>0, <1>5, MigratorFields DEF MigratorType
<1>7. v \in MigratorType
  BY <1>0, <1>1, <1>6, <1>b, MigratorFields DEF MigratorType, MigratorPhases
<1>8. migrator' = [migrator EXCEPT ![m] = v]
  BY <1>0, <1>1, <1>5 DEF StartShape
<1>9. /\ migrator' \in [DOMAIN Migrators -> MigratorType]
      /\ \A k \in DOMAIN Migrators : migrator'[k] = IF k = m THEN v ELSE migrator[k]
  BY <1>0, <1>7, <1>8 DEF StartShape
<1>10. StartShape'
  BY <1>0, <1>1, <1>3, <1>9, <1>e DEF StartShape
<1>11. MigratorsAreInOrder'
  BY <1>0, <1>1, <1>6, <1>9, <1>b DEF MigratorsAreInOrder
<1>12. MigratorsProvision'
  <2>1. ASSUME NEW k \in DOMAIN Migrators, migrator'[k].at \in {"roles", "tenants", "succeeded"}
        PROVE  /\ Len(Catalog[Migrators[k]]) <= Len(ledger)
               /\ \A q \in 1 .. 5 : q < migrator'[k].role =>
                    \/ granted'[RoleOrder[q]] >= Len(Catalog[Migrators[k]])
                    \/ RoleOrder[q] \in lowered'
    <3>1. migrator[k].at \in {"roles", "tenants", "succeeded"}
      BY <1>1, <1>9, <2>1
    <3>2. /\ Len(Catalog[Migrators[k]]) <= Len(ledger) /\ Len(Catalog[Migrators[k]]) \in Nat
          /\ \A q \in 1 .. 5 : q < migrator[k].role =>
               \/ granted[RoleOrder[q]] >= Len(Catalog[Migrators[k]])
               \/ RoleOrder[q] \in lowered
      BY <1>0, <3>1, MigratorFields, CatalogTypes DEF MigratorsProvision
    <3>3. ASSUME NEW q \in 1 .. 5, q < migrator'[k].role
          PROVE  \/ granted'[RoleOrder[q]] >= Len(Catalog[Migrators[k]])
                 \/ RoleOrder[q] \in lowered'
      <4>1. RoleOrder[q] \in RoleNames
        BY RolesAreFive
      <4>2. CASE k = m /\ q = r
        BY <1>3, <1>d, <4>1, <4>2
      <4>3. CASE ~(k = m /\ q = r)
        <5>1. q < migrator[k].role
          BY <1>1, <1>6, <1>9, <1>a, <3>3, <4>3
        <5> QED BY <1>f, <3>2, <4>1, <5>1
      <4> QED BY <4>2, <4>3
    <3> QED BY <3>2, <3>3
  <2> QED BY <1>1, <2>1 DEF MigratorsProvision
<1>13. ApiIsReady'
  <2>1. ASSUME api.image # "none", NEW q \in RoleNames
        PROVE  granted'[q] >= Len(Catalog[api.image]) \/ q \in lowered'
    <3>1. /\ Len(Catalog[api.image]) \in Nat /\ Len(Catalog[api.image]) <= Len(ledger)
          /\ granted[q] >= Len(Catalog[api.image]) \/ q \in lowered
      BY <1>0, <2>1, CatalogTypes DEF ApiIsReady, StartShape, ApiType
    <3> QED BY <1>f, <3>1
  <2>2. (api.at \in {"verified", "writing", "serving"} => Compatible(Catalog[api.image]))'
    BY <1>0, <1>1 DEF ApiIsReady, Compatible, Drifted
  <2> QED BY <1>0, <1>1, <1>4, <2>1, <2>2 DEF ApiIsReady
<1>14. TenantsAgree'
  BY <1>0, <1>1, TenantsStay
<1> QED BY <1>10, <1>11, <1>12, <1>13, <1>14 DEF StartInv

\* The other steps of a migrator keep it.
LEMMA MigratorStepsKept ==
  ASSUME StartInv, NEW m \in DOMAIN Migrators,
         TakeLock(m) \/ ReleaseLock(m) \/ Succeed(m) \/ MigratorFails(m)
  PROVE  StartInv'
<1>0. StartShape /\ MigratorsAreInOrder /\ MigratorsProvision
  BY DEF StartInv
<1>1. CASE TakeLock(m)
  <2>1. advisory' \in DOMAIN Migrators \cup {0} /\ tenantRoles' \subseteq site.rows
        /\ MigratorAt(m, "locked") /\ "locked" \in MigratorPhases
    BY <1>0, <1>1 DEF TakeLock, StartShape, MigratorPhases
  <2> QED BY <1>1, <2>1, MigratorKept DEF TakeLock
<1>2. CASE ReleaseLock(m)
  <2>1. advisory' \in DOMAIN Migrators \cup {0} /\ tenantRoles' \subseteq site.rows
        /\ MigratorAt(m, "roles") /\ "roles" \in MigratorPhases
    BY <1>0, <1>2 DEF ReleaseLock, StartShape, MigratorPhases
  <2>2. Len(Catalog[Migrators[m]]) <= Len(ledger)
    BY <1>0, <1>2, MigratorFields, CatalogTypes DEF ReleaseLock, Pending, MigratorsAreInOrder, StartShape
  <2>3. migrator[m].role = 1
    BY <1>0, <1>2 DEF ReleaseLock, MigratorsAreInOrder
  <2> QED BY <1>2, <2>1, <2>2, <2>3, MigratorKept DEF ReleaseLock
<1>3. CASE Succeed(m)
  <2>1. advisory' \in DOMAIN Migrators \cup {0} /\ tenantRoles' \subseteq site.rows
        /\ MigratorAt(m, "succeeded") /\ "succeeded" \in MigratorPhases
    BY <1>0, <1>3 DEF Succeed, StartShape, MigratorPhases
  <2> QED BY <1>3, <2>1, MigratorKept DEF Succeed
<1>4. CASE MigratorFails(m)
  <2>1. advisory' \in DOMAIN Migrators \cup {0} /\ tenantRoles' \subseteq site.rows
        /\ MigratorAt(m, "failed") /\ "failed" \in MigratorPhases
    BY <1>0, <1>4 DEF MigratorFails, StartShape, MigratorPhases
  <2> QED BY <1>4, <2>1, MigratorKept DEF MigratorFails
<1> QED BY <1>1, <1>2, <1>3, <1>4

\* Steps of the API's start that leave the migrators and what they did alone.
LEMMA ApiStepKept ==
  ASSUME StartInv, UNCHANGED <<site, ledger, schema, migrator, advisory, granted, lowered, tenantRoles>>,
         tenantOf' \in [site.rows -> Nat], updates' \in [site.rows -> Nat], api' \in ApiType,
         restarts' \in 0 .. MaxRestarts,
         api'.at # "down" => api'.image # "none",
         api'.image # "none" =>
           /\ Len(Catalog[api'.image]) <= Len(ledger)
           /\ \A r \in RoleNames : granted[r] >= Len(Catalog[api'.image]) \/ r \in lowered,
         api'.at \in {"verified", "writing", "serving"} => Compatible(Catalog[api'.image]),
         TenantsAgree'
  PROVE  StartInv'
<1>0. StartShape /\ MigratorsAreInOrder /\ MigratorsProvision /\ ApiIsReady
  BY DEF StartInv
<1>1. StartShape'
  BY <1>0 DEF StartShape
<1>2. MigratorsAreInOrder' /\ MigratorsProvision'
  BY <1>0 DEF MigratorsAreInOrder, MigratorsProvision
<1>3. ApiIsReady'
  BY <1>0 DEF ApiIsReady, Compatible, Drifted
<1> QED BY <1>1, <1>2, <1>3 DEF StartInv

\* What the API has, and what its steps make of it.
LEMMA ApiFields ==
  ASSUME StartShape
  PROVE  /\ api.image \in Images \cup {"none"}
         /\ \A to \in {"down", "starting", "verified", "writing", "serving"} :
              [api EXCEPT !.at = to] = [image |-> api.image, at |-> to]
              /\ [image |-> api.image, at |-> to] \in ApiType
BY DEF StartShape, ApiType

\* An API that starts, again or from another image, keeps it.
LEMMA StartsAgain ==
  ASSUME StartInv, RestartApi \/ VerifySchema \/ \E m \in DOMAIN Migrators : Replace(m)
  PROVE  StartInv'
<1>0. StartShape /\ MigratorsProvision /\ MigratorsAreInOrder /\ ApiIsReady /\ TenantsAgree
  BY DEF StartInv
<1>1. CASE RestartApi
  <2>1. /\ api' = [image |-> api.image, at |-> "starting"] /\ api' \in ApiType
        /\ api.image # "none"
    BY <1>0, <1>1, ApiFields DEF RestartApi, ApiIsReady
  <2>2. updates' \in [site.rows -> Nat] /\ restarts' \in 0 .. MaxRestarts
        /\ tenantOf' \in [site.rows -> Nat]
    BY <1>0, <1>1, StartAssumption DEF RestartApi, StartShape
  <2>3. TenantsAgree'
    BY <2>1 DEF TenantsAgree
  <2> QED BY <1>0, <1>1, <2>1, <2>2, <2>3, ApiStepKept DEF RestartApi, ApiIsReady
<1>2. CASE VerifySchema
  <2>1. /\ api' = [image |-> api.image, at |-> "verified"] /\ api' \in ApiType
        /\ api.image # "none"
    BY <1>0, <1>2, ApiFields DEF VerifySchema, ApiIsReady
  <2>2. updates' \in [site.rows -> Nat] /\ restarts' \in 0 .. MaxRestarts
        /\ tenantOf' \in [site.rows -> Nat]
    BY <1>0, <1>2 DEF VerifySchema, StartShape
  <2>3. TenantsAgree'
    BY <2>1 DEF TenantsAgree
  <2> QED BY <1>0, <1>2, <2>1, <2>2, <2>3, ApiStepKept DEF VerifySchema, ApiIsReady
<1>3. ASSUME NEW m \in DOMAIN Migrators, Replace(m) PROVE StartInv'
  <2>1. /\ api' = [image |-> Migrators[m], at |-> "starting"] /\ api' \in ApiType
        /\ Migrators[m] \in Images /\ Migrators[m] # "none"
    BY <1>0, <1>3, MigratorFields, StartAssumption DEF Replace, ApiType
  <2>2. updates' \in [site.rows -> Nat] /\ restarts' \in 0 .. MaxRestarts
        /\ tenantOf' \in [site.rows -> Nat]
    BY <1>0, <1>3 DEF Replace, StartShape
  <2>3. ASSUME NEW r \in RoleNames PROVE granted[r] >= Len(Catalog[Migrators[m]]) \/ r \in lowered
    <3>1. PICK k \in 1 .. 5 : r = RoleOrder[k]
      BY RolesAreFive
    <3>2. migrator[m].at = "succeeded" /\ migrator[m].role = 6
      BY <1>0, <1>3 DEF Replace, MayReplace, MigratorsAreInOrder
    <3> QED BY <1>0, <3>1, <3>2 DEF MigratorsProvision
  <2>4. TenantsAgree'
    BY <2>1 DEF TenantsAgree
  <2>5. Len(Catalog[Migrators[m]]) <= Len(ledger)
    BY <1>0, <1>3 DEF Replace, MayReplace, MigratorsProvision
  <2> QED BY <1>3, <2>1, <2>2, <2>3, <2>4, <2>5, ApiStepKept DEF Replace
<1> QED BY <1>1, <1>2, <1>3

\* What is settled on for a project is a number, and it is the row's own if it has one.
LEMMA SelectedFields ==
  ASSUME StartShape, NEW p \in site.rows
  PROVE  Selected(p) \in Nat /\ Evidence(p) \subseteq Nat /\ (tenantOf[p] # 0 => Selected(p) = tenantOf[p])
<1>1. p.id \in Nat /\ p.env \in Nat /\ p.command \in Nat /\ tenantOf[p] \in Nat
  BY DEF StartShape, Projects
<1>2. Evidence(p) \subseteq Nat
  BY <1>1 DEF Evidence
<1>3. Evidence(p) # {} => (CHOOSE t \in Evidence(p) : TRUE) \in Nat
  BY <1>2
<1> QED BY <1>1, <1>2, <1>3 DEF Selected

\* The comparison of the tenants at startup keeps it.
LEMMA ReconcileKept ==
  ASSUME StartInv, ReconcileTenants
  PROVE  StartInv'
<1>0. StartShape /\ ApiIsReady
  BY DEF StartInv
<1>1. /\ api' = [image |-> api.image, at |-> "writing"] /\ api' \in ApiType
      /\ api.at = "verified" /\ UNCHANGED <<site, tenantOf>>
      /\ updates' = [p \in site.rows |-> IF tenantOf[p] = 0 THEN Selected(p) ELSE 0]
  BY <1>0, ApiFields DEF ReconcileTenants
<1>2. updates' \in [site.rows -> Nat]
  BY <1>0, <1>1, SelectedFields
<1>3. \A p : Selected(p)' = Selected(p) /\ Evidence(p)' = Evidence(p)
  BY <1>1 DEF Selected, Evidence
<1>4. ~Conflict'
  BY <1>1, <1>3 DEF ReconcileTenants, Conflict
<1>5. TenantsAgree'
  BY <1>1, <1>3, <1>4 DEF TenantsAgree
<1>6. tenantOf' \in [site.rows -> Nat] /\ restarts' \in 0 .. MaxRestarts
  BY <1>0 DEF ReconcileTenants, StartShape
<1> QED BY <1>0, <1>1, <1>2, <1>5, <1>6, ApiStepKept DEF ReconcileTenants, ApiIsReady

\* The tenants written at startup keep it.
LEMMA WriteTenantsKept ==
  ASSUME StartInv, WriteTenants
  PROVE  StartInv'
<1>0. StartShape /\ ApiIsReady /\ TenantsAgree
  BY DEF StartInv
<1>1. /\ api' = [image |-> api.image, at |-> "serving"] /\ api' \in ApiType
      /\ api.at = "writing" /\ UNCHANGED site
  BY <1>0, ApiFields DEF WriteTenants
<1>2. ~Conflict /\ \A p \in site.rows : tenantOf'[p] = Selected(p)
  BY <1>0, <1>1, SelectedFields DEF TenantsAgree, WriteTenants
<1>3. tenantOf' \in [site.rows -> Nat] /\ updates' \in [site.rows -> Nat]
  BY <1>0 DEF WriteTenants, StartShape
<1>4. \A p : Evidence(p)' = Evidence(p)
  BY DEF Evidence
<1>5. TenantsAgree'
  BY <1>1, <1>2, <1>4 DEF TenantsAgree, Conflict
<1>6. restarts' \in 0 .. MaxRestarts
  BY <1>0 DEF WriteTenants, StartShape
<1> QED BY <1>0, <1>1, <1>3, <1>5, <1>6, ApiStepKept DEF WriteTenants, ApiIsReady

\* A runner that finds a project's tenant keeps it.
LEMMA RunnerFindsKept ==
  ASSUME StartInv, RunnerFindsTenant
  PROVE  StartInv'
<1>0. StartShape /\ ApiIsReady /\ TenantsAgree
  BY DEF StartInv
<1>1. PICK p \in site.rows :
        /\ tenantOf[p] = 0 /\ Cardinality(JobTenants(p)) = 1
        /\ \A q \in site.rows : tenantOf[q] \notin JobTenants(p)
        /\ tenantOf' = [tenantOf EXCEPT ![p] = CHOOSE t \in JobTenants(p) : TRUE]
  BY DEF RunnerFindsTenant
<1>2. PICK t : t = CHOOSE s \in JobTenants(p) : TRUE
  OBVIOUS
<1>3. JobTenants(p) # {}
  BY <1>1, FS_EmptySet
<1>4. t \in JobTenants(p) /\ t \in Nat /\ t # 0
  <2>1. t \in JobTenants(p)
    BY <1>2, <1>3
  <2> QED BY <1>0, <2>1 DEF JobTenants, StartShape, Projects
<1>5. \A q \in site.rows : tenantOf'[q] = IF q = p THEN t ELSE tenantOf[q]
  BY <1>0, <1>1, <1>2 DEF StartShape
<1>6. api.at = "serving" /\ UNCHANGED <<site, api, updates, restarts>>
  BY DEF RunnerFindsTenant
<1>7. Evidence(p) = {}
  BY <1>0, <1>1, <1>6 DEF TenantsAgree, Evidence
<1>8. TenantsAgree'
  <2>1. \A q : Evidence(q)' = Evidence(q)
    BY DEF Evidence
  <2>2. \A q \in site.rows : Evidence(q) \subseteq {tenantOf'[q]}
    BY <1>0, <1>5, <1>6, <1>7 DEF TenantsAgree
  <2>3. \A q, s \in site.rows : q # s /\ tenantOf'[q] # 0 => tenantOf'[q] # tenantOf'[s]
    BY <1>0, <1>1, <1>4, <1>5, <1>6 DEF TenantsAgree
  <2> QED BY <1>6, <2>1, <2>2, <2>3 DEF TenantsAgree
<1>9. tenantOf' \in [site.rows -> Nat] /\ updates' \in [site.rows -> Nat] /\ api' \in ApiType
      /\ restarts' \in 0 .. MaxRestarts
  BY <1>0, <1>1, <1>2, <1>4, <1>6 DEF StartShape
<1> QED BY <1>0, <1>6, <1>8, <1>9, ApiStepKept DEF RunnerFindsTenant, ApiIsReady

\* In every behaviour of a deployment.
LEMMA StartInvariance == StartSpec => []StartInv
<1>1. StartInit => StartInv
  BY StartInitHolds
<1>2. StartInv /\ [StartNext]_startVars => StartInv'
  <2> SUFFICES ASSUME StartInv, [StartNext]_startVars PROVE StartInv'
    OBVIOUS
  <2>0. StartShape /\ MigratorsAreInOrder /\ MigratorsProvision /\ ApiIsReady /\ TenantsAgree
    BY DEF StartInv
  <2>1. ASSUME NEW m \in DOMAIN Migrators,
               TakeLock(m) \/ ReleaseLock(m) \/ Succeed(m) \/ MigratorFails(m)
        PROVE  StartInv'
    BY <2>1, MigratorStepsKept
  <2>2. ASSUME NEW m \in DOMAIN Migrators, ReadTheLedger(m) \/ ApplyOne(m) \/ ProvisionRole(m)
        PROVE  StartInv'
    BY <2>2, ReadTheLedgerKept, ApplyOneKept, ProvisionRoleKept
  <2>3. ASSUME NEW m \in DOMAIN Migrators, ProvisionTenant(m) PROVE StartInv'
    <3>1. /\ UNCHANGED <<site, ledger, schema, migrator, advisory, granted, lowered, tenantOf, api,
                        updates, restarts>>
          /\ tenantRoles' \subseteq site.rows
      BY <2>0, <2>3 DEF ProvisionTenant, StartShape
    <3>2. StartShape' /\ MigratorsAreInOrder' /\ MigratorsProvision'
      BY <2>0, <3>1 DEF StartShape, MigratorsAreInOrder, MigratorsProvision
    <3>3. ApiIsReady'
      BY <2>0, <3>1 DEF ApiIsReady, Compatible, Drifted
    <3> QED BY <2>0, <3>1, <3>2, <3>3, TenantsStay DEF StartInv
  <2>4. CASE RestartApi \/ VerifySchema \/ \E m \in DOMAIN Migrators : Replace(m)
    BY <2>4, StartsAgain
  <2>5. CASE ReconcileTenants \/ WriteTenants \/ RunnerFindsTenant
    BY <2>5, ReconcileKept, WriteTenantsKept, RunnerFindsKept
  <2>6. CASE UNCHANGED startVars
    <3>1. StartShape' /\ MigratorsAreInOrder' /\ MigratorsProvision'
      BY <2>0, <2>6 DEF startVars, StartShape, MigratorsAreInOrder, MigratorsProvision
    <3>2. ApiIsReady'
      BY <2>0, <2>6 DEF startVars, ApiIsReady, Compatible, Drifted
    <3> QED BY <2>0, <2>6, <3>1, <3>2, TenantsStay DEF StartInv, startVars
  <2> QED BY <2>1, <2>2, <2>3, <2>4, <2>5, <2>6 DEF StartNext
<1> QED BY <1>1, <1>2, PTL DEF StartSpec

\* The variables of a deployment have the values their code gives them.
THEOREM StartTyping == StartSpec => []StartTypeOK
<1>1. StartInv => StartTypeOK
  <2> SUFFICES ASSUME StartInv PROVE StartTypeOK
    OBVIOUS
  <2>1. StartShape /\ api \in ApiType
    BY DEF StartInv, StartShape
  <2>2. migrator \in [DOMAIN Migrators ->
          [at : {"new", "locked", "applying", "roles", "tenants", "succeeded", "failed"},
           known : Nat, role : 1 .. Len(RoleOrder) + 1]]
    BY <2>1, RolesAreFive DEF StartShape, MigratorType, MigratorPhases
  <2> QED BY <2>1, <2>2 DEF StartShape, StartTypeOK, ApiType
<1> QED BY <1>1, StartInvariance, PTL

\* However migrators of several images overlap, fail and are followed by restarts: an API
\* that serves finds its migrations, agreeing tenants, and its roles' rights, but those an
\* older image's migrator has taken from the roles whose tables it enumerates.
THEOREM ServesItsImage == StartSpec => []ServesWhatItWasBuiltFor
<1>1. StartInv => ServesWhatItWasBuiltFor
  <2> SUFFICES ASSUME StartInv PROVE ServesWhatItWasBuiltFor
    OBVIOUS
  <2>0. StartShape /\ ApiIsReady /\ TenantsAgree
    BY DEF StartInv
  <2>1. ASSUME api.at = "serving", NEW v \in DOMAIN Catalog[api.image]
        PROVE  v <= Len(schema) /\ schema[v] = Catalog[api.image][v]
    <3>1. api.image \in Images /\ Compatible(Catalog[api.image]) /\ schema = ledger
          /\ Len(ledger) \in Nat
      BY <2>0, <2>1 DEF ApiIsReady, StartShape, ApiType
    <3>2. Catalog[api.image] \in Seq(STRING) /\ DOMAIN Catalog[api.image] = 1 .. Len(Catalog[api.image])
          /\ Len(Catalog[api.image]) \in Nat
      BY <3>1, CatalogTypes
    <3> QED BY <2>1, <3>1, <3>2 DEF Compatible, Drifted
  <2>2. api.at = "serving" =>
          \A r \in RoleNames : granted[r] >= Len(Catalog[api.image]) \/ r \in lowered
    BY <2>0 DEF ApiIsReady
  <2> QED BY <2>0, <2>1, <2>2 DEF ServesWhatItWasBuiltFor, StartShape, TenantsAgree
<1> QED BY <1>1, StartInvariance, PTL

-----------------------------------------------------------------------------
(* Edge Functions. *)

EdgeSteps == {"new", "sent", "locked", "recovering", "loaded", "prepared",
              "intended", "active", "written", "blocked", "withdrawn", "applied", "restoring",
              "restored", "reset", "failing", "done", "refused"}
\* A request that is not at work, and so has no lock.
Aside == {"new", "sent", "done", "refused"}

PointerType == [draft : Codes \cup {None}, published : Codes \cup {None}]
FoundType == [pointers : Pointers, context : Contexts \cup {None}]

EdgeShape ==
  /\ wanted \subseteq FunctionRequest
  /\ pointers \in Pointers /\ intent \in Intents \cup {None} /\ context \in Contexts \cup {None}
  /\ settings \in [enabled : BOOLEAN, network : Networks]
  /\ lock \in wanted \cup {None}
  /\ step \in [wanted -> EdgeSteps]
  /\ expected \in [wanted -> PointerType]
  /\ prepared \in [wanted -> Contexts \cup {None}]
  /\ previous \in [wanted -> FoundType \cup {None}]
  /\ kills \in 0 .. MaxKills /\ storageErrors \in 0 .. MaxStorageErrors

\* Who is at work holds the lock.
WorkIsLocked == \A r \in wanted : step[r] \notin Aside => lock = r

\* What an intent was to activate is what it names, under the policy the database shows.
Truthful == intent.revision = Context(intent.proposed, settings.network)
IntentIsTruthful == intent # None /\ settings.enabled /\ context # None => Truthful

\* A context that may be put back is of its pointers and of the policy the database shows.
FoundIsServable(found_) ==
  settings.enabled /\ found_.context # None =>
    found_.context.network = settings.network /\ found_.context.files = Files(found_.pointers)

\* What the holder of the lock relies on.
LoadHolds(r) ==
  /\ step[r] = "recovering" => intent # None /\ pointers = Recovered(intent)
  /\ step[r] = "loaded" =>
       /\ intent = None \/ (r.op = "configure" /\ ~r.enabled)
       /\ r.op = "publish" => previous[r] = [pointers |-> pointers, context |-> context]

PublicationHolds(r) ==
  /\ step[r] \in {"prepared", "intended", "active", "restoring", "restored", "reset"} =>
       /\ previous[r] \in FoundType /\ previous[r].pointers = pointers /\ FoundIsServable(previous[r])
  /\ step[r] \in {"prepared", "intended", "active"} =>
       prepared[r] = Context(Proposed(r), settings.network)
  /\ step[r] = "prepared" => intent = None
  /\ step[r] \in {"intended", "active"} => intent = Intended(r)
  /\ step[r] = "active" => context = prepared[r]
  /\ step[r] = "written" =>
       intent # None /\ Truthful /\ context = intent.revision /\ pointers = intent.proposed
  /\ step[r] = "restoring" => intent = None \/ Truthful
  /\ step[r] \in {"restored", "reset"} => context = previous[r].context

ConfigurationHolds(r) ==
  /\ step[r] \in {"blocked", "withdrawn", "applied"} =>
       ~settings.enabled /\ (r.enabled => intent = None)
  /\ step[r] = "withdrawn" => context = None
  /\ step[r] = "applied" => r.enabled /\ context = Context(pointers, r.network)

HolderIsRight(r) == LoadHolds(r) /\ PublicationHolds(r) /\ ConfigurationHolds(r)

EdgeInv ==
  /\ EdgeShape /\ WorkIsLocked /\ ServedIsPublished /\ IntentIsTruthful
  /\ \A r \in wanted : HolderIsRight(r)

\* What a request for a function is, and has.
LEMMA RequestFields ==
  ASSUME EdgeShape, NEW r \in wanted
  PROVE  /\ r.function \in Functions /\ r.code \in Codes /\ r.network \in Networks
         /\ r.enabled \in BOOLEAN /\ r.op \in {"save", "publish", "configure"}
         /\ r # None /\ step[r] \in EdgeSteps /\ expected[r] \in PointerType
         /\ prepared[r] \in Contexts \cup {None} /\ previous[r] \in FoundType \cup {None}
<1>1. r \in FunctionRequest
  BY DEF EdgeShape
<1> QED BY <1>1, EdgeFunctionsAssumption DEF EdgeShape, FunctionRequest

\* A context is of the type of contexts, and what it is made of is found in it.
LEMMA ContextFields ==
  ASSUME NEW p \in Pointers, NEW n \in Networks
  PROVE  Context(p, n) \in Contexts /\ Context(p, n).files = Files(p) /\ Context(p, n).network = n
<1>1. \A f \in Functions : p[f].published \in Codes \cup {None}
  BY DEF Pointers
<1>2. Files(p) \in [Functions -> Codes \cup {None}]
  BY <1>1 DEF Files
<1> QED BY <1>2 DEF Context, Contexts

\* A context is its files and its policy.
LEMMA ContextIsItsParts ==
  ASSUME NEW c \in Contexts, NEW p \in Pointers, NEW n \in Networks,
         c.files = Files(p), c.network = n
  PROVE  c = Context(p, n)
BY DEF Contexts, Context

\* What a publication proposes is a pointer of each function.
LEMMA ProposedFields ==
  ASSUME EdgeShape, NEW r \in wanted
  PROVE  Proposed(r) \in Pointers
<1>1. PICK v : v = [pointers[r.function] EXCEPT !.published = expected[r].draft]
  OBVIOUS
<1>2. pointers[r.function] \in PointerType /\ expected[r].draft \in Codes \cup {None}
  BY RequestFields DEF EdgeShape, Pointers, PointerType
<1>3. v = [draft |-> pointers[r.function].draft, published |-> expected[r].draft]
  BY <1>1, <1>2 DEF PointerType
<1>4. v \in PointerType
  BY <1>2, <1>3 DEF PointerType
<1>5. Proposed(r) = [pointers EXCEPT ![r.function] = v]
  BY <1>1 DEF Proposed
<1> QED BY <1>4, <1>5 DEF EdgeShape, Pointers, PointerType

\* What an intent on disk says.
LEMMA IntentFields ==
  ASSUME EdgeShape, intent # None
  PROVE  /\ intent \in Intents /\ intent.previous \in Pointers /\ intent.proposed \in Pointers
         /\ intent.revision \in Contexts
BY DEF EdgeShape, Intents

\* Beside the holder of the lock everybody is aside.
LEMMA OthersAreAside ==
  ASSUME EdgeShape, WorkIsLocked, NEW r \in wanted, step[r] \notin Aside \/ lock = None
  PROVE  \A q \in wanted \ {r} : step[q] \in Aside
<1>1. \A q \in wanted : q # None
  BY RequestFields
<1> QED BY <1>1 DEF WorkIsLocked

\* Nothing is asked of a request that does not have the lock.
LEMMA AsideIsRight ==
  ASSUME NEW r \in wanted, step[r] \in Aside
  PROVE  HolderIsRight(r)
BY DEF Aside, HolderIsRight, LoadHolds, PublicationHolds, ConfigurationHolds

\* A step of the holder keeps the invariant if it keeps what is served and what it relies on.
LEMMA HolderKept ==
  ASSUME EdgeInv, NEW r \in wanted, NEW to \in EdgeSteps, step' = [step EXCEPT ![r] = to],
         step[r] \notin Aside \/ lock = None, wanted' = wanted,
         to \in Aside \/ lock' = r,
         EdgeShape', ServedIsPublished', IntentIsTruthful',
         to \notin Aside => HolderIsRight(r)'
  PROVE  EdgeInv'
<1>1. \A q \in wanted \ {r} : step[q] \in Aside
  BY OthersAreAside DEF EdgeInv
<1>2. \A q \in wanted : step'[q] = IF q = r THEN to ELSE step[q]
  BY DEF EdgeInv, EdgeShape
<1>3. WorkIsLocked'
  BY <1>1, <1>2 DEF WorkIsLocked
<1>4. ASSUME NEW q \in wanted PROVE HolderIsRight(q)'
  <2>1. CASE step'[q] \in Aside
    BY <2>1 DEF Aside, HolderIsRight, LoadHolds, PublicationHolds, ConfigurationHolds
  <2>2. CASE step'[q] \notin Aside
    BY <1>1, <1>2, <2>2
  <2> QED BY <2>1, <2>2
<1> QED BY <1>3, <1>4 DEF EdgeInv

\* The invariant of the functions holds to begin with.
LEMMA EdgeInitHolds ==
  ASSUME EdgeInit
  PROVE  EdgeInv
<1>1. NoFile \in PointerType
  BY DEF NoFile, PointerType
<1>2. EdgeShape
  <2>1. wanted \subseteq FunctionRequest /\ kills \in 0 .. MaxKills
        /\ storageErrors \in 0 .. MaxStorageErrors /\ Network0 \in Networks
    BY EdgeFunctionsAssumption DEF EdgeInit
  <2>2. pointers \in Pointers
    BY <1>1 DEF EdgeInit, Pointers, PointerType
  <2>3. step \in [wanted -> EdgeSteps]
    BY DEF EdgeInit, EdgeSteps
  <2> QED BY <1>1, <2>1, <2>2, <2>3 DEF EdgeInit, EdgeShape
<1>3. \A r \in wanted : step[r] = "new" /\ step[r] \in Aside
  BY DEF EdgeInit, Aside
<1>4. WorkIsLocked /\ \A r \in wanted : HolderIsRight(r)
  BY <1>3, AsideIsRight DEF WorkIsLocked
<1> QED BY <1>2, <1>4 DEF EdgeInv, ServedIsPublished, IntentIsTruthful, EdgeInit

\* What no step writes stays true.
LEMMA FilesStay ==
  ASSUME ServedIsPublished, IntentIsTruthful, UNCHANGED fileVars
  PROVE  ServedIsPublished' /\ IntentIsTruthful'
BY DEF fileVars, ServedIsPublished, IntentIsTruthful, Truthful, Context, Files

\* Without a context, or while the functions are blocked, nothing is served.
LEMMA NothingServed ==
  ASSUME context' = None \/ ~settings'.enabled
  PROVE  ServedIsPublished' /\ IntentIsTruthful'
BY DEF ServedIsPublished, IntentIsTruthful

\* A request that is sent keeps the invariant.
LEMMA SendKept ==
  ASSUME EdgeInv, NEW r \in wanted, Send(r)
  PROVE  EdgeInv'
<1>0. EdgeShape /\ WorkIsLocked /\ ServedIsPublished /\ IntentIsTruthful
  BY DEF EdgeInv
<1>1. /\ step' = [step EXCEPT ![r] = "sent"] /\ step[r] = "new"
      /\ expected' = [expected EXCEPT ![r] = pointers[r.function]]
      /\ UNCHANGED <<wanted, pointers, intent, context, settings, lock, prepared, previous, kills,
                     storageErrors>>
  BY DEF Send, Goes, fileVars, faultVars
<1>2. /\ step' \in [wanted -> EdgeSteps]
      /\ \A q \in wanted : step'[q] = IF q = r THEN "sent" ELSE step[q]
  BY <1>0, <1>1 DEF EdgeShape, EdgeSteps
<1>3. /\ expected' \in [wanted -> PointerType]
      /\ \A q \in wanted \ {r} : expected'[q] = expected[q]
  <2>1. pointers[r.function] \in PointerType
    BY <1>0, RequestFields DEF EdgeShape, Pointers, PointerType
  <2> QED BY <1>0, <1>1, <2>1 DEF EdgeShape
<1>4. EdgeShape'
  BY <1>0, <1>1, <1>2, <1>3 DEF EdgeShape
<1>5. WorkIsLocked'
  BY <1>0, <1>1, <1>2 DEF WorkIsLocked, Aside
<1>6. ASSUME NEW q \in wanted PROVE HolderIsRight(q)'
  <2>1. CASE q = r
    BY <1>2, <2>1 DEF HolderIsRight, LoadHolds, PublicationHolds, ConfigurationHolds
  <2>2. CASE q # r
    <3>1. HolderIsRight(q) /\ step'[q] = step[q] /\ expected'[q] = expected[q]
      BY <1>2, <1>3, <2>2 DEF EdgeInv
    <3>2. Proposed(q)' = Proposed(q) /\ (Truthful' <=> Truthful) /\ Recovered(intent)' = Recovered(intent)
      BY <1>1, <3>1 DEF Proposed, Truthful, Context, Files, Recovered
    <3>3. Intended(q)' = Intended(q) /\ Context(Proposed(q), settings.network)' = Context(Proposed(q), settings.network)
      BY <1>1, <3>2 DEF Intended, Context, Files
    <3>4. LoadHolds(q)'
      BY <1>1, <3>1, <3>2 DEF HolderIsRight, LoadHolds
    <3>5. PublicationHolds(q)'
      BY <1>1, <3>1, <3>2, <3>3 DEF HolderIsRight, PublicationHolds, FoundIsServable, Files
    <3>6. ConfigurationHolds(q)'
      BY <1>1, <3>1 DEF HolderIsRight, ConfigurationHolds, Context, Files
    <3> QED BY <3>4, <3>5, <3>6 DEF HolderIsRight
  <2> QED BY <2>1, <2>2
<1>7. ServedIsPublished' /\ IntentIsTruthful'
  BY <1>0, <1>1, FilesStay DEF fileVars
<1> QED BY <1>1, <1>4, <1>5, <1>6, <1>7 DEF EdgeInv

\* The lock, and the pointers loaded under it, keep it.
LEMMA LockAndLoadKept ==
  ASSUME EdgeInv, NEW r \in wanted, Lock(r) \/ Load(r)
  PROVE  EdgeInv'
<1>0. EdgeShape /\ WorkIsLocked /\ ServedIsPublished /\ IntentIsTruthful
  BY DEF EdgeInv
<1>1. CASE Lock(r)
  <2>1. /\ step' = [step EXCEPT ![r] = "locked"] /\ lock = None /\ lock' = r /\ UNCHANGED fileVars
        /\ UNCHANGED <<wanted, pointers, intent, context, settings, expected, prepared, previous, kills,
                       storageErrors>> /\ "locked" \in EdgeSteps
    BY <1>1 DEF Lock, Goes, fileVars, localVars, faultVars, EdgeSteps
  <2>2. EdgeShape'
    BY <1>0, <2>1 DEF EdgeShape
  <2>3. step'[r] = "locked"
    BY <1>0, <2>1 DEF EdgeShape
  <2>4. HolderIsRight(r)'
    BY <2>3 DEF HolderIsRight, LoadHolds, PublicationHolds, ConfigurationHolds
  <2> QED BY <1>0, <2>1, <2>2, <2>4, FilesStay, HolderKept
<1>2. CASE Load(r)
  <2>1. /\ step' = [step EXCEPT ![r] = "loaded"] /\ step[r] = "locked" /\ intent = None /\ UNCHANGED fileVars
        /\ previous' = [previous EXCEPT ![r] = [pointers |-> pointers, context |-> context]]
        /\ UNCHANGED <<wanted, pointers, intent, context, settings, lock, expected, prepared, kills,
                       storageErrors>> /\ "loaded" \in EdgeSteps
    BY <1>2 DEF Load, Goes, fileVars, faultVars, EdgeSteps
  <2>2. lock = r /\ step[r] \notin Aside
    BY <1>0, <2>1 DEF WorkIsLocked, Aside
  <2>3. [pointers |-> pointers, context |-> context] \in FoundType
    BY <1>0 DEF EdgeShape, FoundType
  <2>4. EdgeShape'
    BY <1>0, <2>1, <2>3 DEF EdgeShape
  <2>5. step'[r] = "loaded" /\ previous'[r] = [pointers |-> pointers, context |-> context]
    BY <1>0, <2>1 DEF EdgeShape
  <2>6. HolderIsRight(r)'
    BY <2>1, <2>5 DEF HolderIsRight, LoadHolds, PublicationHolds, ConfigurationHolds
  <2> QED BY <1>0, <2>1, <2>2, <2>4, <2>6, FilesStay, HolderKept
<1> QED BY <1>1, <1>2

\* The recovery of an interrupted publication keeps it.
LEMMA RecoverPointersKept ==
  ASSUME EdgeInv, NEW r \in wanted, RecoverPointers(r)
  PROVE  EdgeInv'
<1>0. EdgeShape /\ WorkIsLocked /\ ServedIsPublished /\ IntentIsTruthful
  BY DEF EdgeInv
<1>1. /\ step' = [step EXCEPT ![r] = "recovering"] /\ step[r] = "locked" /\ intent # None
      /\ pointers \in {intent.previous, intent.proposed} /\ pointers' = Recovered(intent)
      /\ UNCHANGED <<wanted, intent, context, settings, lock, expected, prepared, previous, kills,
                     storageErrors>> /\ "recovering" \in EdgeSteps
  BY DEF RecoverPointers, Goes, localVars, faultVars, EdgeSteps
<1>2. lock = r /\ step[r] \notin Aside
  BY <1>0, <1>1 DEF WorkIsLocked, Aside
<1>3. pointers' \in {intent.previous, intent.proposed} /\ pointers' \in Pointers
  BY <1>0, <1>1, IntentFields DEF Recovered
<1>4. EdgeShape'
  BY <1>0, <1>1, <1>3 DEF EdgeShape
<1>5. ServedIsPublished'
  BY <1>0, <1>1 DEF ServedIsPublished, Files
<1>6. IntentIsTruthful'
  BY <1>0, <1>1 DEF IntentIsTruthful, Truthful, Context, Files
<1>7. step'[r] = "recovering" /\ Recovered(intent)' = Recovered(intent)
  BY <1>0, <1>1 DEF EdgeShape, Recovered
<1>8. HolderIsRight(r)'
  BY <1>1, <1>7 DEF HolderIsRight, LoadHolds, PublicationHolds, ConfigurationHolds
<1> QED BY <1>1, <1>2, <1>4, <1>5, <1>6, <1>8, HolderKept

\* Either the context is the intent's and the pointers are the proposed ones, or it is that
\* of the previous ones.
LEMMA FinishRecoveryKept ==
  ASSUME EdgeInv, NEW r \in wanted, FinishRecovery(r)
  PROVE  EdgeInv'
<1>0. EdgeShape /\ WorkIsLocked /\ ServedIsPublished /\ IntentIsTruthful /\ LoadHolds(r)
  BY DEF EdgeInv, HolderIsRight
<1>1. /\ step' = [step EXCEPT ![r] = "locked"] /\ step[r] = "recovering" /\ intent' = None
      /\ UNCHANGED <<wanted, pointers, context, settings, lock, expected, prepared, previous, kills,
                     storageErrors>> /\ "locked" \in EdgeSteps
  BY DEF FinishRecovery, Goes, localVars, faultVars, EdgeSteps
<1>2. lock = r /\ step[r] \notin Aside
  BY <1>0, <1>1 DEF WorkIsLocked, Aside
<1>3. EdgeShape'
  BY <1>0, <1>1 DEF EdgeShape
<1>4. ASSUME settings.enabled, context # None
      PROVE  context.network = settings.network /\ context.files = Files(pointers)
  <2>1. intent # None /\ pointers = Recovered(intent) /\ Truthful
    BY <1>0, <1>1, <1>4 DEF LoadHolds, IntentIsTruthful
  <2>2. context.network = settings.network
        /\ context.files \in {Files(pointers), Files(intent.previous), Files(intent.proposed)}
    BY <1>0, <1>4, <2>1 DEF ServedIsPublished
  <2>3. intent.proposed \in Pointers /\ settings.network \in Networks /\ context \in Contexts
    BY <1>0, <1>4, <2>1, IntentFields DEF EdgeShape
  <2>4. CASE context = intent.revision
    BY <2>1, <2>2, <2>3, <2>4, ContextFields DEF Recovered, Truthful
  <2>5. CASE context # intent.revision
    <3>1. context.files # Files(intent.proposed)
      BY <2>1, <2>2, <2>3, <2>5, ContextIsItsParts DEF Truthful
    <3> QED BY <2>1, <2>2, <2>5, <3>1 DEF Recovered
  <2> QED BY <2>4, <2>5
<1>5. ServedIsPublished' /\ IntentIsTruthful'
  BY <1>1, <1>4 DEF ServedIsPublished, IntentIsTruthful, Files
<1>6. step'[r] = "locked"
  BY <1>0, <1>1 DEF EdgeShape
<1>7. HolderIsRight(r)'
  BY <1>6 DEF HolderIsRight, LoadHolds, PublicationHolds, ConfigurationHolds
<1> QED BY <1>1, <1>2, <1>3, <1>5, <1>7, HolderKept

\* A recovery that is refused or fails keeps it.
LEMMA RecoveryFailsKept ==
  ASSUME EdgeInv, NEW r \in wanted, RecoveryFails(r)
  PROVE  EdgeInv'
<1>0. EdgeShape /\ WorkIsLocked
  BY DEF EdgeInv
<1>1. /\ step[r] = "locked" /\ context' = None
      /\ UNCHANGED <<wanted, pointers, intent, settings, expected, prepared, previous, kills,
                     storageErrors>>
  BY DEF RecoveryFails, localVars, faultVars
<1>2. lock = r /\ step[r] \notin Aside
  BY <1>0, <1>1 DEF WorkIsLocked, Aside
<1>3. ServedIsPublished' /\ IntentIsTruthful'
  BY <1>1, NothingServed
<1>4. CASE r.op = "configure" /\ ~r.enabled
  <2>1. step' = [step EXCEPT ![r] = "loaded"] /\ UNCHANGED lock /\ "loaded" \in EdgeSteps
    BY <1>4 DEF RecoveryFails, EdgeSteps
  <2>2. EdgeShape' /\ step'[r] = "loaded"
    BY <1>0, <1>1, <2>1 DEF EdgeShape
  <2>3. HolderIsRight(r)'
    BY <1>4, <2>2 DEF HolderIsRight, LoadHolds, PublicationHolds, ConfigurationHolds
  <2> QED BY <1>1, <1>2, <1>3, <2>1, <2>2, <2>3, HolderKept
<1>5. CASE ~(r.op = "configure" /\ ~r.enabled)
  <2>1. step' = [step EXCEPT ![r] = "refused"] /\ lock' = None /\ "refused" \in EdgeSteps
        /\ "refused" \in Aside
    BY <1>5 DEF RecoveryFails, Unlock, EdgeSteps, Aside
  <2>2. EdgeShape'
    BY <1>0, <1>1, <2>1 DEF EdgeShape
  <2> QED BY <1>1, <1>2, <1>3, <2>1, <2>2, HolderKept
<1> QED BY <1>4, <1>5

\* A draft that is saved keeps it.
LEMMA SaveKept ==
  ASSUME EdgeInv, NEW r \in wanted, Save(r)
  PROVE  EdgeInv'
<1>0. EdgeShape /\ WorkIsLocked /\ ServedIsPublished /\ IntentIsTruthful /\ LoadHolds(r)
  BY DEF EdgeInv, HolderIsRight
<1>1. /\ step[r] = "loaded" /\ r.op = "save" /\ lock' = None
      /\ UNCHANGED <<wanted, intent, context, settings, expected, prepared, previous, kills,
                     storageErrors>>
  BY DEF Save, Unlock, localVars, faultVars
<1>2. lock = r /\ step[r] \notin Aside
  BY <1>0, <1>1 DEF WorkIsLocked, Aside
<1>3. PICK to \in {"done", "refused"} : step' = [step EXCEPT ![r] = to]
  BY DEF Save, Unlock
<1>4. to \in EdgeSteps /\ to \in Aside
  BY DEF EdgeSteps, Aside
<1>5. pointers' \in Pointers /\ Files(pointers') = Files(pointers)
  <2>1. CASE pointers' = pointers
    BY <1>0, <2>1 DEF EdgeShape
  <2>2. CASE pointers' # pointers
    <3>1. PICK v : v = [pointers[r.function] EXCEPT !.draft = r.code]
      OBVIOUS
    <3>2. pointers[r.function] \in PointerType /\ r.code \in Codes /\ r.function \in Functions
      BY <1>0, RequestFields DEF EdgeShape, Pointers, PointerType
    <3>3. v = [draft |-> r.code, published |-> pointers[r.function].published]
      BY <3>1, <3>2 DEF PointerType
    <3>4. v \in PointerType /\ v.published = pointers[r.function].published
      BY <3>2, <3>3 DEF PointerType
    <3>5. pointers' = [pointers EXCEPT ![r.function] = v]
      BY <2>2, <3>1 DEF Save
    <3>6. pointers' \in Pointers /\ \A f \in Functions : pointers'[f].published = pointers[f].published
      BY <1>0, <3>2, <3>4, <3>5 DEF EdgeShape, Pointers, PointerType
    <3> QED BY <3>6 DEF Files
  <2> QED BY <2>1, <2>2
<1>6. EdgeShape'
  BY <1>0, <1>1, <1>3, <1>4, <1>5 DEF EdgeShape
<1>7. ServedIsPublished'
  BY <1>0, <1>1, <1>5 DEF ServedIsPublished, LoadHolds
<1>8. IntentIsTruthful'
  BY <1>0, <1>1 DEF IntentIsTruthful, LoadHolds
<1> QED BY <1>1, <1>2, <1>3, <1>4, <1>6, <1>7, <1>8, HolderKept

\* What is found before a publication is what is served, and so may be put back.
LEMMA PreparePublicationKept ==
  ASSUME EdgeInv, NEW r \in wanted, PreparePublication(r)
  PROVE  EdgeInv'
<1>0. EdgeShape /\ WorkIsLocked /\ ServedIsPublished /\ IntentIsTruthful /\ LoadHolds(r)
  BY DEF EdgeInv, HolderIsRight
<1>1. /\ step[r] = "loaded" /\ r.op = "publish" /\ UNCHANGED fileVars
      /\ UNCHANGED <<wanted, pointers, intent, context, settings, expected, previous, kills,
                     storageErrors>>
  BY DEF PreparePublication, fileVars, faultVars
<1>2. lock = r /\ step[r] \notin Aside
  BY <1>0, <1>1 DEF WorkIsLocked, Aside
<1>3. ServedIsPublished' /\ IntentIsTruthful'
  BY <1>0, <1>1, FilesStay
<1>4. CASE MayPublish(r)
  <2>1. /\ prepared' = [prepared EXCEPT ![r] = Context(Proposed(r), settings.network)]
        /\ step' = [step EXCEPT ![r] = "prepared"] /\ UNCHANGED lock /\ "prepared" \in EdgeSteps
    BY <1>4 DEF PreparePublication, EdgeSteps
  <2>2. Context(Proposed(r), settings.network) \in Contexts
    <3>1. settings.network \in Networks
      BY <1>0 DEF EdgeShape
    <3> QED BY <1>0, <3>1, ProposedFields, ContextFields
  <2>3. EdgeShape'
    BY <1>0, <1>1, <2>1, <2>2 DEF EdgeShape
  <2>4. step'[r] = "prepared" /\ prepared'[r] = Context(Proposed(r), settings.network)
    BY <1>0, <2>1 DEF EdgeShape
  <2>5. Context(Proposed(r), settings.network)' = Context(Proposed(r), settings.network)
    BY <1>1 DEF Proposed, Context, Files
  <2>6. intent = None /\ previous[r] = [pointers |-> pointers, context |-> context]
    BY <1>0, <1>1 DEF LoadHolds
  <2>7. previous[r] \in FoundType /\ previous[r].pointers = pointers /\ previous[r].context = context
    BY <1>0, <2>6 DEF FoundType, EdgeShape
  <2>8. FoundIsServable(previous[r])'
    BY <1>0, <1>1, <2>6, <2>7 DEF FoundIsServable, ServedIsPublished, Files
  <2>9. HolderIsRight(r)'
    BY <1>1, <2>4, <2>5, <2>6, <2>7, <2>8
       DEF HolderIsRight, LoadHolds, PublicationHolds, ConfigurationHolds
  <2> QED BY <1>1, <1>2, <1>3, <2>1, <2>3, <2>9, HolderKept
<1>5. CASE ~MayPublish(r)
  <2>1. step' = [step EXCEPT ![r] = "refused"] /\ lock' = None /\ UNCHANGED prepared
        /\ "refused" \in EdgeSteps /\ "refused" \in Aside
    BY <1>5 DEF PreparePublication, Unlock, EdgeSteps, Aside
  <2>2. EdgeShape'
    BY <1>0, <1>1, <2>1 DEF EdgeShape
  <2> QED BY <1>1, <1>2, <1>3, <2>1, <2>2, HolderKept
<1> QED BY <1>4, <1>5

\* What the holder of a publication knows of what he found, of his context and his intent.
LEMMA PublicationFields ==
  ASSUME EdgeInv, NEW r \in wanted, step[r] \in {"prepared", "intended", "active"}
  PROVE  /\ prepared[r] \in Contexts /\ prepared[r].files = Files(Proposed(r))
         /\ prepared[r].network = settings.network
         /\ Proposed(r) \in Pointers /\ Intended(r) \in Intents /\ Intended(r) # None
         /\ Intended(r).previous = pointers /\ Intended(r).proposed = Proposed(r)
         /\ Intended(r).revision = prepared[r]
         /\ prepared[r] = Context(Proposed(r), settings.network)
<1>0. EdgeShape /\ PublicationHolds(r)
  BY DEF EdgeInv, HolderIsRight
<1>1. settings.network \in Networks /\ Proposed(r) \in Pointers /\ pointers \in Pointers
  BY <1>0, ProposedFields DEF EdgeShape
<1>2. prepared[r] = Context(Proposed(r), settings.network)
  BY <1>0 DEF PublicationHolds
<1>3. prepared[r] \in Contexts /\ prepared[r].files = Files(Proposed(r))
      /\ prepared[r].network = settings.network
  BY <1>1, <1>2, ContextFields
<1>4. Intended(r) \in Intents
  BY <1>1, <1>3 DEF Intended, Intents
<1> QED BY <1>1, <1>2, <1>3, <1>4, EdgeFunctionsAssumption DEF Intended

\* The intent, written before anything is published, keeps it.
LEMMA BeginPublicationKept ==
  ASSUME EdgeInv, NEW r \in wanted, BeginPublication(r)
  PROVE  EdgeInv'
<1>0. EdgeShape /\ WorkIsLocked /\ ServedIsPublished /\ PublicationHolds(r)
  BY DEF EdgeInv, HolderIsRight
<1>1. /\ step' = [step EXCEPT ![r] = "intended"] /\ step[r] = "prepared" /\ intent' = Intended(r)
      /\ UNCHANGED <<wanted, pointers, context, settings, lock, expected, prepared, previous, kills,
                     storageErrors>> /\ "intended" \in EdgeSteps
  BY DEF BeginPublication, Goes, localVars, faultVars, EdgeSteps
<1>2. lock = r /\ step[r] \notin Aside
  BY <1>0, <1>1 DEF WorkIsLocked, Aside
<1>3. /\ Intended(r) \in Intents /\ Intended(r).proposed = Proposed(r)
      /\ Intended(r).revision = Context(Proposed(r), settings.network)
  BY <1>1, PublicationFields
<1>4. EdgeShape'
  BY <1>0, <1>1, <1>3 DEF EdgeShape
<1>5. Context(Proposed(r), settings.network)' = Context(Proposed(r), settings.network)
      /\ Intended(r)' = Intended(r)
  BY <1>1 DEF Proposed, Context, Files, Intended
<1>6. intent = None
  BY <1>0, <1>1 DEF PublicationHolds
<1>7. ServedIsPublished'
  BY <1>0, <1>1, <1>6 DEF ServedIsPublished, Files
<1>8. IntentIsTruthful'
  BY <1>1, <1>3 DEF IntentIsTruthful, Truthful, Context, Files
<1>9. step'[r] = "intended"
  BY <1>0, <1>1 DEF EdgeShape
<1>10. FoundIsServable(previous[r]) => FoundIsServable(previous[r])'
  BY <1>1 DEF FoundIsServable, Files
<1>11. PublicationHolds(r)'
  BY <1>0, <1>1, <1>5, <1>9, <1>10 DEF PublicationHolds
<1>12. HolderIsRight(r)'
  BY <1>9, <1>11 DEF HolderIsRight, LoadHolds, ConfigurationHolds
<1> QED BY <1>1, <1>2, <1>4, <1>7, <1>8, <1>12, HolderKept

\* The new context is the one the intent names.
LEMMA ActivateKept ==
  ASSUME EdgeInv, NEW r \in wanted, Activate(r)
  PROVE  EdgeInv'
<1>0. EdgeShape /\ WorkIsLocked /\ ServedIsPublished /\ PublicationHolds(r)
  BY DEF EdgeInv, HolderIsRight
<1>1. /\ step' = [step EXCEPT ![r] = "active"] /\ step[r] = "intended" /\ context' = prepared[r]
      /\ UNCHANGED <<wanted, pointers, intent, settings, lock, expected, prepared, previous, kills,
                     storageErrors>> /\ "active" \in EdgeSteps
  BY DEF Activate, Goes, localVars, faultVars, EdgeSteps
<1>2. lock = r /\ step[r] \notin Aside
  BY <1>0, <1>1 DEF WorkIsLocked, Aside
<1>3. /\ prepared[r] \in Contexts /\ prepared[r].files = Files(Proposed(r))
      /\ prepared[r].network = settings.network /\ intent = Intended(r) /\ intent # None
      /\ intent.proposed = Proposed(r) /\ intent.revision = Context(Proposed(r), settings.network)
  BY <1>0, <1>1, PublicationFields DEF PublicationHolds
<1>4. EdgeShape'
  BY <1>0, <1>1, <1>3 DEF EdgeShape
<1>5. Context(Proposed(r), settings.network)' = Context(Proposed(r), settings.network)
      /\ Intended(r)' = Intended(r)
  BY <1>1 DEF Proposed, Context, Files, Intended
<1>7. ServedIsPublished'
  BY <1>1, <1>3 DEF ServedIsPublished, Files
<1>8. IntentIsTruthful'
  BY <1>1, <1>3 DEF IntentIsTruthful, Truthful, Context, Files
<1>9. step'[r] = "active"
  BY <1>0, <1>1 DEF EdgeShape
<1>10. FoundIsServable(previous[r]) => FoundIsServable(previous[r])'
  BY <1>1 DEF FoundIsServable, Files
<1>11. PublicationHolds(r)'
  BY <1>0, <1>1, <1>5, <1>9, <1>10 DEF PublicationHolds
<1>12. HolderIsRight(r)'
  BY <1>9, <1>11 DEF HolderIsRight, LoadHolds, ConfigurationHolds
<1> QED BY <1>1, <1>2, <1>4, <1>7, <1>8, <1>12, HolderKept

\* The pointers of a publication keep it.
LEMMA WritePublishedKept ==
  ASSUME EdgeInv, NEW r \in wanted, WritePublished(r)
  PROVE  EdgeInv'
<1>0. EdgeShape /\ WorkIsLocked /\ PublicationHolds(r)
  BY DEF EdgeInv, HolderIsRight
<1>1. /\ step' = [step EXCEPT ![r] = "written"] /\ step[r] = "active" /\ pointers' = Proposed(r)
      /\ UNCHANGED <<wanted, intent, context, settings, lock, expected, prepared, previous, kills,
                     storageErrors>> /\ "written" \in EdgeSteps
  BY DEF WritePublished, Goes, localVars, faultVars, EdgeSteps
<1>2. lock = r /\ step[r] \notin Aside
  BY <1>0, <1>1 DEF WorkIsLocked, Aside
<1>3. /\ prepared[r].files = Files(Proposed(r)) /\ context = prepared[r]
      /\ prepared[r].network = settings.network /\ intent # None /\ Proposed(r) \in Pointers
      /\ intent.proposed = Proposed(r) /\ intent.revision = prepared[r]
      /\ intent.revision = Context(intent.proposed, settings.network)
  BY <1>0, <1>1, PublicationFields DEF PublicationHolds
<1>4. EdgeShape'
  BY <1>0, <1>1, <1>3 DEF EdgeShape
<1>5. Truthful'
  BY <1>1, <1>3 DEF Truthful, Context, Files
<1>7. ServedIsPublished'
  BY <1>1, <1>3 DEF ServedIsPublished, Files
<1>9. step'[r] = "written"
  BY <1>0, <1>1 DEF EdgeShape
<1>11. PublicationHolds(r)'
  BY <1>1, <1>3, <1>5, <1>9 DEF PublicationHolds
<1>12. HolderIsRight(r)'
  BY <1>9, <1>11 DEF HolderIsRight, LoadHolds, ConfigurationHolds
<1> QED BY <1>1, <1>2, <1>4, <1>5, <1>7, <1>12, HolderKept DEF IntentIsTruthful

\* The intent that is removed at the end keeps it.
LEMMA FinishPublicationKept ==
  ASSUME EdgeInv, NEW r \in wanted, FinishPublication(r)
  PROVE  EdgeInv'
<1>0. EdgeShape /\ WorkIsLocked /\ PublicationHolds(r)
  BY DEF EdgeInv, HolderIsRight
<1>1. /\ step' = [step EXCEPT ![r] = "done"] /\ step[r] = "written" /\ intent' = None /\ lock' = None
      /\ UNCHANGED <<wanted, pointers, context, settings, expected, prepared, previous, kills,
                     storageErrors>> /\ "done" \in EdgeSteps /\ "done" \in Aside
  BY DEF FinishPublication, Unlock, localVars, faultVars, EdgeSteps, Aside
<1>2. lock = r /\ step[r] \notin Aside
  BY <1>0, <1>1 DEF WorkIsLocked, Aside
<1>3. context = Context(pointers, settings.network)
  BY <1>0, <1>1 DEF PublicationHolds, Truthful
<1>4. pointers \in Pointers /\ settings.network \in Networks
  BY <1>0 DEF EdgeShape
<1>5. context.network = settings.network /\ context.files = Files(pointers)
  BY <1>3, <1>4, ContextFields
<1>6. EdgeShape'
  BY <1>0, <1>1 DEF EdgeShape
<1>7. ServedIsPublished' /\ IntentIsTruthful'
  BY <1>1, <1>5 DEF ServedIsPublished, IntentIsTruthful, Files
<1> QED BY <1>1, <1>2, <1>6, <1>7, HolderKept

\* A publication that fails keeps it.
LEMMA PublicationFailsKept ==
  ASSUME EdgeInv, NEW r \in wanted, PublicationFails(r)
  PROVE  EdgeInv'
<1>0. EdgeShape /\ WorkIsLocked /\ ServedIsPublished /\ IntentIsTruthful /\ PublicationHolds(r)
  BY DEF EdgeInv, HolderIsRight
<1>1. /\ step' = [step EXCEPT ![r] = "restoring"] /\ step[r] \in {"prepared", "intended", "active"}
      /\ UNCHANGED fileVars
      /\ UNCHANGED <<wanted, pointers, intent, context, settings, lock, expected, prepared, previous,
                     kills>>
      /\ storageErrors < MaxStorageErrors /\ storageErrors' = storageErrors + 1
      /\ "restoring" \in EdgeSteps
  BY DEF PublicationFails, fileVars, localVars, EdgeSteps
<1>2. lock = r /\ step[r] \notin Aside
  BY <1>0, <1>1 DEF WorkIsLocked, Aside
<1>3. storageErrors' \in 0 .. MaxStorageErrors
  BY <1>0, <1>1, EdgeFunctionsAssumption DEF EdgeShape
<1>4. EdgeShape'
  BY <1>0, <1>1, <1>3 DEF EdgeShape
<1>5. intent = None \/ Truthful
  BY <1>0, <1>1, PublicationFields DEF PublicationHolds, Truthful
<1>6. (intent = None \/ Truthful)'
  BY <1>1, <1>5 DEF Truthful, Context, Files
<1>7. FoundIsServable(previous[r]) => FoundIsServable(previous[r])'
  BY <1>1 DEF FoundIsServable, Files
<1>8. step'[r] = "restoring"
  BY <1>0, <1>1 DEF EdgeShape
<1>9. PublicationHolds(r)'
  BY <1>0, <1>1, <1>6, <1>7, <1>8 DEF PublicationHolds
<1>10. HolderIsRight(r)'
  BY <1>8, <1>9 DEF HolderIsRight, LoadHolds, ConfigurationHolds
<1>11. ServedIsPublished' /\ IntentIsTruthful'
  BY <1>0, <1>1, FilesStay
<1> QED BY <1>1, <1>2, <1>4, <1>10, <1>11, HolderKept

\* The context put back after a failure keeps it.
LEMMA RestoreContextKept ==
  ASSUME EdgeInv, NEW r \in wanted, RestoreContext(r)
  PROVE  EdgeInv'
<1>0. EdgeShape /\ WorkIsLocked /\ PublicationHolds(r)
  BY DEF EdgeInv, HolderIsRight
<1>1. /\ step' = [step EXCEPT ![r] = "restored"] /\ step[r] = "restoring"
      /\ context' = previous[r].context
      /\ UNCHANGED <<wanted, pointers, intent, settings, lock, expected, prepared, previous, kills,
                     storageErrors>> /\ "restored" \in EdgeSteps
  BY DEF RestoreContext, Goes, localVars, faultVars, EdgeSteps
<1>2. lock = r /\ step[r] \notin Aside
  BY <1>0, <1>1 DEF WorkIsLocked, Aside
<1>3. /\ previous[r] \in FoundType /\ previous[r].pointers = pointers /\ FoundIsServable(previous[r])
      /\ intent = None \/ Truthful
  BY <1>0, <1>1 DEF PublicationHolds
<1>4. EdgeShape'
  BY <1>0, <1>1, <1>3 DEF EdgeShape, FoundType
<1>5. ServedIsPublished'
  BY <1>1, <1>3 DEF ServedIsPublished, FoundIsServable, Files
<1>6. IntentIsTruthful'
  BY <1>1, <1>3 DEF IntentIsTruthful, Truthful, Context, Files
<1>7. FoundIsServable(previous[r])'
  BY <1>1, <1>3 DEF FoundIsServable, Files
<1>8. step'[r] = "restored"
  BY <1>0, <1>1 DEF EdgeShape
<1>9. PublicationHolds(r)'
  BY <1>1, <1>3, <1>7, <1>8 DEF PublicationHolds
<1>10. HolderIsRight(r)'
  BY <1>8, <1>9 DEF HolderIsRight, LoadHolds, ConfigurationHolds
<1> QED BY <1>1, <1>2, <1>4, <1>5, <1>6, <1>10, HolderKept

\* The pointers that are put back are those that are there: nobody wrote them meanwhile.
LEMMA RestorePointersKept ==
  ASSUME EdgeInv, NEW r \in wanted, RestorePointers(r)
  PROVE  EdgeInv'
<1>0. EdgeShape /\ WorkIsLocked /\ ServedIsPublished /\ IntentIsTruthful /\ PublicationHolds(r)
  BY DEF EdgeInv, HolderIsRight
<1>1. /\ step' = [step EXCEPT ![r] = "reset"] /\ step[r] = "restored"
      /\ pointers' = previous[r].pointers
      /\ UNCHANGED <<wanted, intent, context, settings, lock, expected, prepared, previous, kills,
                     storageErrors>> /\ "reset" \in EdgeSteps
  BY DEF RestorePointers, Goes, localVars, faultVars, EdgeSteps
<1>2. lock = r /\ step[r] \notin Aside
  BY <1>0, <1>1 DEF WorkIsLocked, Aside
<1>3. /\ previous[r] \in FoundType /\ previous[r].pointers = pointers /\ FoundIsServable(previous[r])
      /\ context = previous[r].context /\ pointers' = pointers
  BY <1>0, <1>1 DEF PublicationHolds
<1>4. EdgeShape'
  BY <1>0, <1>1, <1>3 DEF EdgeShape
<1>5. ServedIsPublished' /\ IntentIsTruthful'
  BY <1>0, <1>1, <1>3, FilesStay DEF fileVars
<1>7. FoundIsServable(previous[r])'
  BY <1>1, <1>3 DEF FoundIsServable, Files
<1>8. step'[r] = "reset"
  BY <1>0, <1>1 DEF EdgeShape
<1>9. PublicationHolds(r)'
  BY <1>1, <1>3, <1>7, <1>8 DEF PublicationHolds
<1>10. HolderIsRight(r)'
  BY <1>8, <1>9 DEF HolderIsRight, LoadHolds, ConfigurationHolds
<1> QED BY <1>1, <1>2, <1>4, <1>5, <1>10, HolderKept

\* The intent removed after a failure keeps it.
LEMMA AbandonPublicationKept ==
  ASSUME EdgeInv, NEW r \in wanted, AbandonPublication(r)
  PROVE  EdgeInv'
<1>0. EdgeShape /\ WorkIsLocked /\ PublicationHolds(r)
  BY DEF EdgeInv, HolderIsRight
<1>1. /\ step' = [step EXCEPT ![r] = "failing"] /\ step[r] = "reset" /\ intent' = None
      /\ UNCHANGED <<wanted, pointers, context, settings, lock, expected, prepared, previous, kills,
                     storageErrors>> /\ "failing" \in EdgeSteps
  BY DEF AbandonPublication, Goes, localVars, faultVars, EdgeSteps
<1>2. lock = r /\ step[r] \notin Aside
  BY <1>0, <1>1 DEF WorkIsLocked, Aside
<1>3. /\ previous[r].pointers = pointers /\ FoundIsServable(previous[r])
      /\ context = previous[r].context
  BY <1>0, <1>1 DEF PublicationHolds
<1>4. EdgeShape'
  BY <1>0, <1>1 DEF EdgeShape
<1>5. ServedIsPublished' /\ IntentIsTruthful'
  BY <1>1, <1>3 DEF ServedIsPublished, IntentIsTruthful, FoundIsServable, Files
<1>8. step'[r] = "failing"
  BY <1>0, <1>1 DEF EdgeShape
<1>10. HolderIsRight(r)'
  BY <1>8 DEF HolderIsRight, LoadHolds, PublicationHolds, ConfigurationHolds
<1> QED BY <1>1, <1>2, <1>4, <1>5, <1>10, HolderKept

\* A withdrawal that fails keeps it.
LEMMA WithdrawFailedKept ==
  ASSUME EdgeInv, NEW r \in wanted, WithdrawFailed(r)
  PROVE  EdgeInv'
<1>0. EdgeShape /\ WorkIsLocked
  BY DEF EdgeInv
<1>1. /\ step' = [step EXCEPT ![r] = "refused"] /\ step[r] = "failing" /\ context' = None
      /\ lock' = None
      /\ UNCHANGED <<wanted, pointers, intent, settings, expected, prepared, previous, kills,
                     storageErrors>> /\ "refused" \in EdgeSteps /\ "refused" \in Aside
  BY DEF WithdrawFailed, Unlock, localVars, faultVars, EdgeSteps, Aside
<1>2. lock = r /\ step[r] \notin Aside
  BY <1>0, <1>1 DEF WorkIsLocked, Aside
<1>3. EdgeShape'
  BY <1>0, <1>1 DEF EdgeShape
<1> QED BY <1>1, <1>2, <1>3, NothingServed, HolderKept

\* The block of the functions in the database keeps it.
LEMMA BlockKept ==
  ASSUME EdgeInv, NEW r \in wanted, Block(r)
  PROVE  EdgeInv'
<1>0. EdgeShape /\ WorkIsLocked /\ LoadHolds(r)
  BY DEF EdgeInv, HolderIsRight
<1>1. /\ step' = [step EXCEPT ![r] = "blocked"] /\ step[r] = "loaded"
      /\ settings' = [settings EXCEPT !.enabled = FALSE]
      /\ UNCHANGED <<wanted, pointers, intent, context, lock, expected, prepared, previous, kills,
                     storageErrors>> /\ "blocked" \in EdgeSteps
  BY DEF Block, BlockFirst, Goes, localVars, faultVars, EdgeSteps
<1>2. lock = r /\ step[r] \notin Aside
  BY <1>0, <1>1 DEF WorkIsLocked, Aside
<1>3. settings' \in [enabled : BOOLEAN, network : Networks] /\ ~settings'.enabled
  BY <1>0, <1>1 DEF EdgeShape
<1>4. EdgeShape'
  BY <1>0, <1>1, <1>3 DEF EdgeShape
<1>5. step'[r] = "blocked" /\ (r.enabled => intent = None)
  BY <1>0, <1>1 DEF EdgeShape, LoadHolds
<1>6. HolderIsRight(r)'
  BY <1>1, <1>3, <1>5 DEF HolderIsRight, LoadHolds, PublicationHolds, ConfigurationHolds
<1> QED BY <1>1, <1>2, <1>3, <1>4, <1>6, NothingServed, HolderKept

\* The context taken away before new settings keeps it.
LEMMA WithdrawContextKept ==
  ASSUME EdgeInv, NEW r \in wanted, WithdrawContext(r)
  PROVE  EdgeInv'
<1>0. EdgeShape /\ WorkIsLocked /\ ConfigurationHolds(r)
  BY DEF EdgeInv, HolderIsRight
<1>1. /\ step' = [step EXCEPT ![r] = "withdrawn"] /\ step[r] = "blocked" /\ context' = None
      /\ UNCHANGED <<wanted, pointers, intent, settings, lock, expected, prepared, previous, kills,
                     storageErrors>> /\ "withdrawn" \in EdgeSteps
  BY DEF WithdrawContext, Goes, localVars, faultVars, EdgeSteps
<1>2. lock = r /\ step[r] \notin Aside
  BY <1>0, <1>1 DEF WorkIsLocked, Aside
<1>4. EdgeShape'
  BY <1>0, <1>1 DEF EdgeShape
<1>5. step'[r] = "withdrawn" /\ ~settings.enabled /\ (r.enabled => intent = None)
  BY <1>0, <1>1 DEF EdgeShape, ConfigurationHolds
<1>6. HolderIsRight(r)'
  BY <1>1, <1>5 DEF HolderIsRight, LoadHolds, PublicationHolds, ConfigurationHolds
<1> QED BY <1>1, <1>2, <1>4, <1>6, NothingServed, HolderKept

\* The context of new settings keeps it.
LEMMA ApplyContextKept ==
  ASSUME EdgeInv, NEW r \in wanted, ApplyContext(r)
  PROVE  EdgeInv'
<1>0. EdgeShape /\ WorkIsLocked /\ ConfigurationHolds(r)
  BY DEF EdgeInv, HolderIsRight
<1>1. /\ step' = [step EXCEPT ![r] = "applied"] /\ step[r] = "withdrawn" /\ r.enabled
      /\ context' = Context(pointers, r.network)
      /\ UNCHANGED <<wanted, pointers, intent, settings, lock, expected, prepared, previous, kills,
                     storageErrors>> /\ "applied" \in EdgeSteps
  BY DEF ApplyContext, Goes, localVars, faultVars, EdgeSteps
<1>2. lock = r /\ step[r] \notin Aside
  BY <1>0, <1>1 DEF WorkIsLocked, Aside
<1>3. Context(pointers, r.network) \in Contexts
  BY <1>0, RequestFields, ContextFields DEF EdgeShape
<1>4. EdgeShape'
  BY <1>0, <1>1, <1>3 DEF EdgeShape
<1>5. step'[r] = "applied" /\ ~settings.enabled /\ (r.enabled => intent = None)
  BY <1>0, <1>1 DEF EdgeShape, ConfigurationHolds
<1>6. context' = Context(pointers, r.network)'
  BY <1>1 DEF Context, Files
<1>7. HolderIsRight(r)'
  BY <1>1, <1>5, <1>6 DEF HolderIsRight, LoadHolds, PublicationHolds, ConfigurationHolds
<1> QED BY <1>1, <1>2, <1>4, <1>5, <1>7, NothingServed, HolderKept

\* The settings in the database keep it.
LEMMA StoreSettingsKept ==
  ASSUME EdgeInv, NEW r \in wanted, StoreSettings(r)
  PROVE  EdgeInv'
<1>0. EdgeShape /\ WorkIsLocked /\ ConfigurationHolds(r)
  BY DEF EdgeInv, HolderIsRight
<1>1. /\ step' = [step EXCEPT ![r] = "done"] /\ step[r] = (IF r.enabled THEN "applied" ELSE "withdrawn")
      /\ settings' = [enabled |-> r.enabled, network |-> r.network] /\ lock' = None
      /\ UNCHANGED <<wanted, pointers, intent, context, expected, prepared, previous, kills,
                     storageErrors>> /\ "done" \in EdgeSteps /\ "done" \in Aside
  BY DEF StoreSettings, Unlock, localVars, faultVars, EdgeSteps, Aside
<1>2. lock = r /\ step[r] \notin Aside
  BY <1>0, <1>1 DEF WorkIsLocked, Aside
<1>3. r.enabled \in BOOLEAN /\ r.network \in Networks /\ pointers \in Pointers
  BY <1>0, RequestFields DEF EdgeShape
<1>4. EdgeShape'
  BY <1>0, <1>1, <1>3 DEF EdgeShape
<1>5. settings'.enabled = r.enabled /\ settings'.network = r.network
  BY <1>1
<1>6. CASE r.enabled
  <2>1. context = Context(pointers, r.network) /\ intent = None
    BY <1>0, <1>1, <1>6 DEF ConfigurationHolds
  <2>2. context.network = r.network /\ context.files = Files(pointers)
    BY <1>3, <2>1, ContextFields
  <2>3. ServedIsPublished' /\ IntentIsTruthful'
    BY <1>1, <1>5, <2>1, <2>2 DEF ServedIsPublished, IntentIsTruthful, Files
  <2> QED BY <1>1, <1>2, <1>4, <2>3, HolderKept
<1>7. CASE ~r.enabled
  BY <1>1, <1>2, <1>4, <1>5, <1>7, NothingServed, HolderKept
<1> QED BY <1>6, <1>7

\* A configuration that fails keeps it.
LEMMA ConfigurationFailsKept ==
  ASSUME EdgeInv, NEW r \in wanted, ConfigurationFails(r)
  PROVE  EdgeInv'
<1>0. EdgeShape /\ WorkIsLocked
  BY DEF EdgeInv
<1>1. /\ step' = [step EXCEPT ![r] = "refused"] /\ step[r] \in {"withdrawn", "applied"}
      /\ context' = None /\ lock' = None
      /\ UNCHANGED <<wanted, pointers, intent, settings, expected, prepared, previous, kills>>
      /\ storageErrors < MaxStorageErrors /\ storageErrors' = storageErrors + 1
      /\ "refused" \in EdgeSteps /\ "refused" \in Aside
  BY DEF ConfigurationFails, Unlock, localVars, EdgeSteps, Aside
<1>2. lock = r /\ step[r] \notin Aside
  BY <1>0, <1>1 DEF WorkIsLocked, Aside
<1>3. storageErrors' \in 0 .. MaxStorageErrors
  BY <1>0, <1>1, EdgeFunctionsAssumption DEF EdgeShape
<1>4. EdgeShape'
  BY <1>0, <1>1, <1>3 DEF EdgeShape
<1> QED BY <1>1, <1>2, <1>4, NothingServed, HolderKept

\* A kill leaves the files as they are, and nobody at work.
LEMMA KillKept ==
  ASSUME EdgeInv, Kill
  PROVE  EdgeInv'
<1>0. EdgeShape /\ WorkIsLocked /\ ServedIsPublished /\ IntentIsTruthful
  BY DEF EdgeInv
<1>1. /\ lock # None /\ lock' = None /\ kills < MaxKills /\ kills' = kills + 1 /\ UNCHANGED fileVars
      /\ step' = [r \in wanted |->
                    IF step[r] \in {"new", "done", "refused"} THEN step[r] ELSE "refused"]
      /\ UNCHANGED <<wanted, pointers, intent, context, settings, expected, prepared, previous,
                     storageErrors>>
  BY DEF Kill, localVars, fileVars
<1>2. kills' \in 0 .. MaxKills
  BY <1>0, <1>1, EdgeFunctionsAssumption DEF EdgeShape
<1>3. \A r \in wanted : step'[r] \in EdgeSteps /\ step'[r] \in Aside
  BY <1>1 DEF EdgeSteps, Aside
<1>4. step' \in [wanted -> EdgeSteps]
  BY <1>1, <1>3
<1>5. EdgeShape'
  BY <1>0, <1>1, <1>2, <1>4 DEF EdgeShape
<1>6. ServedIsPublished' /\ IntentIsTruthful'
  BY <1>0, <1>1, FilesStay
<1>7. \A r \in wanted' : HolderIsRight(r)'
  BY <1>1, <1>3 DEF Aside, HolderIsRight, LoadHolds, PublicationHolds, ConfigurationHolds
<1>8. WorkIsLocked'
  BY <1>1, <1>3 DEF WorkIsLocked
<1> QED BY <1>5, <1>6, <1>7, <1>8 DEF EdgeInv

\* In every behaviour of the functions.
LEMMA EdgeInvariance == EdgeSpec => []EdgeInv
<1>1. ASSUME EdgeInit PROVE EdgeInv
  BY <1>1, EdgeInitHolds
<1>2. ASSUME EdgeInv, [EdgeNext]_edgeVars PROVE EdgeInv'
  <2>1. CASE EdgeNext
    <3>1. CASE Kill
      BY <1>2, <3>1, KillKept
    <3>2. ASSUME NEW r \in wanted,
                 \/ Send(r) \/ Lock(r) \/ Load(r) \/ RecoverPointers(r) \/ FinishRecovery(r)
                 \/ RecoveryFails(r) \/ Save(r)
          PROVE  EdgeInv'
      BY <1>2, <3>2, SendKept, LockAndLoadKept, RecoverPointersKept, FinishRecoveryKept,
         RecoveryFailsKept, SaveKept
    <3>3. ASSUME NEW r \in wanted,
                 \/ PreparePublication(r) \/ BeginPublication(r) \/ Activate(r) \/ WritePublished(r)
                 \/ FinishPublication(r)
          PROVE  EdgeInv'
      BY <1>2, <3>3, PreparePublicationKept, BeginPublicationKept, ActivateKept,
         WritePublishedKept, FinishPublicationKept
    <3>4. ASSUME NEW r \in wanted,
                 \/ PublicationFails(r) \/ RestoreContext(r) \/ RestorePointers(r)
                 \/ AbandonPublication(r) \/ WithdrawFailed(r)
          PROVE  EdgeInv'
      BY <1>2, <3>4, PublicationFailsKept, RestoreContextKept, RestorePointersKept,
         AbandonPublicationKept, WithdrawFailedKept
    <3>5. ASSUME NEW r \in wanted,
                 \/ Block(r) \/ WithdrawContext(r) \/ ApplyContext(r) \/ StoreSettings(r)
                 \/ ConfigurationFails(r)
          PROVE  EdgeInv'
      BY <1>2, <3>5, BlockKept, WithdrawContextKept, ApplyContextKept, StoreSettingsKept,
         ConfigurationFailsKept
    <3> QED BY <2>1, <3>1, <3>2, <3>3, <3>4, <3>5 DEF EdgeNext
  <2>2. CASE UNCHANGED edgeVars
    <3>1. UNCHANGED <<wanted, pointers, intent, context, settings, lock, step, expected, prepared,
                      previous, kills, storageErrors>>
      BY <2>2 DEF edgeVars, fileVars, localVars, faultVars
    <3>2. EdgeShape' /\ WorkIsLocked' /\ ServedIsPublished' /\ IntentIsTruthful'
      BY <1>2, <3>1, FilesStay DEF EdgeInv, EdgeShape, WorkIsLocked, fileVars
    <3>3. ASSUME NEW r \in wanted PROVE HolderIsRight(r)'
      <4>1. HolderIsRight(r)
        BY <1>2 DEF EdgeInv
      <4>2. LoadHolds(r)'
        BY <3>1, <4>1 DEF HolderIsRight, LoadHolds, Recovered
      <4>3. PublicationHolds(r)'
        BY <3>1, <4>1 DEF HolderIsRight, PublicationHolds, FoundIsServable, Proposed, Intended,
                          Truthful, Context, Files
      <4>4. ConfigurationHolds(r)'
        BY <3>1, <4>1 DEF HolderIsRight, ConfigurationHolds, Context, Files
      <4> QED BY <4>2, <4>3, <4>4 DEF HolderIsRight
    <3> QED BY <3>1, <3>2, <3>3 DEF EdgeInv
  <2> QED BY <1>2, <2>1, <2>2
<1> QED BY <1>1, <1>2, PTL DEF EdgeSpec

\* The files, the settings, the lock and the steps of the requests are of their types.
THEOREM EdgeTyping == EdgeSpec => []EdgeTypeOK
<1>1. ASSUME EdgeInv PROVE EdgeTypeOK
  BY <1>1 DEF EdgeInv, EdgeShape, EdgeTypeOK, EdgeSteps
<1> QED BY <1>1, EdgeInvariance, PTL

\* Whatever requests meet, wherever the API is killed and whichever write fails: what the
\* runtime serves is what was published, under the network policy the database shows, or,
\* while a publication is under way or was interrupted, the version before or after it.
THEOREM ServedStaysPublished == EdgeSpec => []ServedIsPublished
<1>1. ASSUME EdgeInv PROVE ServedIsPublished
  BY <1>1 DEF EdgeInv
<1> QED BY <1>1, EdgeInvariance, PTL

-----------------------------------------------------------------------------
(* The push worker. *)

PollerStates == {"off", "none", "waiting", "ended"} \cup InSession
\* A poller that has claimed a notification.
Working == {"prepare", "renew", "sending", "finalize"}
Batches == UNION {[D -> Categories \cup {"sent"}] : D \in SUBSET Tokens}
PollerType == [pc : PollerStates, row : Notifications \cup {"none"}, claim : Nat, batch : Batches]
OutboxRow == [status : {"none", "pendente", "processando"} \cup Final, claim : Nat,
              lapsed : BOOLEAN, due : BOOLEAN, initialized : BOOLEAN]
DeliveryRow == [status : {"none", "pendente", "processando"} \cup Settled, claim : Nat,
                attempts : 0 .. MaxAttempts, generation : Nat, due : BOOLEAN]

OutboxShape ==
  /\ database \in [Tenants -> {"none", "present", "removed"}]
  /\ outbox \in [Notifications -> OutboxRow]
  /\ delivery \in [Notifications -> [Tokens -> DeliveryRow]]
  /\ issued \in [Tokens -> Nat] /\ token \in [Tokens -> Nat]
  /\ \A k \in Tokens : issued[k] <= MaxGenerations[k] /\ token[k] \in {0, issued[k]}
  /\ poller \in [Pollers -> PollerType]
  /\ sends \in [Notifications -> [Tokens -> Nat]]
  /\ faults \in 0 .. MaxFaults

\* Claims are numbered: a poller's is the notification's last one or an older one, and no
\* two pollers have the same.
ClaimsAreKnown ==
  \A q \in Pollers : poller[q].pc \in Working =>
    poller[q].row \in Notifications /\ poller[q].claim <= outbox[poller[q].row].claim
ClaimsAreUnique ==
  \A q, s \in Pollers :
    /\ poller[q].pc \in Working /\ poller[s].pc \in Working
    /\ poller[q].row = poller[s].row /\ poller[q].claim = poller[s].claim
    => q = s

\* What the owner of a notification is sending is not settled yet.
BatchesAreClaimed ==
  \A q \in Pollers : poller[q].pc = "sending" /\ Owned(q) =>
    \A k \in DOMAIN poller[q].batch : delivery[poller[q].row][k].status = "processando"

\* The requests that are still to be answered, whoever has the notification by now.
Outstanding(n, k) ==
  {q \in Pollers : /\ poller[q].pc = "sending" /\ poller[q].row = n
                   /\ k \in DOMAIN poller[q].batch /\ poller[q].batch[k] = "sent"}
SendsAreCounted ==
  \A n \in Notifications, k \in Tokens :
    /\ IsFiniteSet(Outstanding(n, k))
    /\ sends[n][k] + Cardinality(Outstanding(n, k)) <= delivery[n][k].attempts

\* An answer is of a request that was sent, and so is a result.
AnswersWereSent ==
  /\ \A q \in Pollers : poller[q].pc = "sending" =>
       \A k \in DOMAIN poller[q].batch :
         poller[q].batch[k] # "sent" => sends[poller[q].row][k] > 0
  /\ \A n \in Notifications, k \in Tokens : delivery[n][k].status = "enviado" => sends[n][k] > 0

OutboxInv ==
  /\ OutboxShape /\ ClaimsAreKnown /\ ClaimsAreUnique /\ BatchesAreClaimed
  /\ SendsAreCounted /\ AnswersWereSent /\ EndedTells

\* A poller that has nothing is a poller.
LEMMA IdleIsAPoller ==
  ASSUME NEW pc \in PollerStates
  PROVE  Idle(pc) \in PollerType /\ Idle(pc).pc = pc
<1>1. [k \in {} |-> "sent"] \in [{} -> Categories \cup {"sent"}] /\ {} \in SUBSET Tokens
  OBVIOUS
<1>2. [k \in {} |-> "sent"] \in Batches
  BY <1>1 DEF Batches
<1> QED BY <1>2 DEF Idle, PollerType

\* What a batch holds.
LEMMA BatchFields ==
  ASSUME NEW b \in Batches
  PROVE  /\ DOMAIN b \subseteq Tokens /\ \A k \in DOMAIN b : b[k] \in Categories \cup {"sent"}
         /\ b = [k \in DOMAIN b |-> b[k]]
BY DEF Batches

\* A batch is made of answers to devices.
LEMMA BatchMade ==
  ASSUME NEW D \in SUBSET Tokens, NEW b \in [D -> Categories \cup {"sent"}]
  PROVE  b \in Batches
BY DEF Batches

\* The fields of the rows, where they are.
LEMMA OutboxFields ==
  ASSUME OutboxShape
  PROVE  /\ \A q \in Pollers : /\ poller[q] \in PollerType /\ poller[q].pc \in PollerStates
                               /\ poller[q].row \in Notifications \cup {"none"}
                               /\ poller[q].claim \in Nat /\ poller[q].batch \in Batches
         /\ \A n \in Notifications : /\ outbox[n] \in OutboxRow /\ outbox[n].claim \in Nat
                                     /\ outbox[n].status \in {"none", "pendente", "processando"} \cup Final
         /\ \A n \in Notifications, k \in Tokens :
              /\ delivery[n][k] \in DeliveryRow /\ delivery[n][k].attempts \in 0 .. MaxAttempts
              /\ delivery[n][k].generation \in Nat
              /\ delivery[n][k].status \in {"none", "pendente", "processando"} \cup Settled
              /\ sends[n][k] \in Nat
<1>1. \A q \in Pollers : /\ poller[q] \in PollerType /\ poller[q].pc \in PollerStates
                         /\ poller[q].row \in Notifications \cup {"none"}
                         /\ poller[q].claim \in Nat /\ poller[q].batch \in Batches
  BY DEF OutboxShape, PollerType
<1>2. \A n \in Notifications : /\ outbox[n] \in OutboxRow /\ outbox[n].claim \in Nat
                               /\ outbox[n].status \in {"none", "pendente", "processando"} \cup Final
  BY DEF OutboxShape, OutboxRow
<1>3. \A n \in Notifications, k \in Tokens :
        /\ delivery[n][k] \in DeliveryRow /\ delivery[n][k].attempts \in 0 .. MaxAttempts
        /\ delivery[n][k].generation \in Nat
        /\ delivery[n][k].status \in {"none", "pendente", "processando"} \cup Settled
        /\ sends[n][k] \in Nat
  BY DEF OutboxShape, DeliveryRow
<1> QED BY <1>1, <1>2, <1>3

\* The invariant of the outbox holds to begin with.
LEMMA OutboxInitHolds ==
  ASSUME OutboxInit
  PROVE  OutboxInv
<1>1. "none" \in PollerStates /\ "off" \in PollerStates /\ "none" \notin Working /\ "off" \notin Working
  BY DEF PollerStates, Working
<1>2. /\ poller \in [Pollers -> PollerType]
      /\ \A q \in Pollers : poller[q].pc \in {"none", "off"}
  <2>1. PICK d \in Deployments :
          poller = [q \in Pollers |-> Idle(IF q[1] \in d.processes THEN "none" ELSE "off")]
    BY DEF OutboxInit
  <2>2. Idle("none") \in PollerType /\ Idle("off") \in PollerType
        /\ Idle("none").pc = "none" /\ Idle("off").pc = "off"
    BY <1>1, IdleIsAPoller
  <2> QED BY <2>1, <2>2
<1>3. /\ outbox \in [Notifications -> OutboxRow] /\ delivery \in [Notifications -> [Tokens -> DeliveryRow]]
      /\ \A n \in Notifications : outbox[n].status = "none"
      /\ \A n \in Notifications, k \in Tokens : delivery[n][k] = NoRow /\ NoRow.status = "none"
           /\ NoRow.attempts = 0 /\ sends[n][k] = 0
  <2>1. NoRow \in DeliveryRow /\ NoRow.status = "none" /\ NoRow.attempts = 0
    BY OutboxAssumption DEF NoRow, DeliveryRow
  <2> QED BY <2>1 DEF OutboxInit, OutboxRow
<1>4. /\ token \in [Tokens -> Nat] /\ issued = token
      /\ \A k \in Tokens : token[k] \in {0, 1} /\ issued[k] <= MaxGenerations[k]
  <2>1. token \in [Tokens -> {0, 1}] /\ issued = token
    BY DEF OutboxInit
  <2> QED BY <2>1, OutboxAssumption
<1>5. OutboxShape
  <2>1. database \in [Tenants -> {"none", "present", "removed"}] /\ faults \in 0 .. MaxFaults
        /\ sends \in [Notifications -> [Tokens -> Nat]]
    BY OutboxAssumption DEF OutboxInit
  <2> QED BY <1>2, <1>3, <1>4, <2>1 DEF OutboxShape
<1>6. ClaimsAreKnown /\ ClaimsAreUnique /\ BatchesAreClaimed /\ AnswersWereSent
  BY <1>2, <1>3 DEF ClaimsAreKnown, ClaimsAreUnique, BatchesAreClaimed, AnswersWereSent, Working
<1>7. SendsAreCounted
  <2>1. \A n, k : Outstanding(n, k) = {}
    BY <1>2 DEF Outstanding
  <2>2. \A n \in Notifications, k \in Tokens : sends[n][k] = 0 /\ delivery[n][k].attempts = 0
    BY <1>3
  <2>3. IsFiniteSet({}) /\ Cardinality({}) = 0
    BY FS_EmptySet
  <2>4. ASSUME NEW n \in Notifications, NEW k \in Tokens
        PROVE  /\ IsFiniteSet(Outstanding(n, k))
               /\ sends[n][k] + Cardinality(Outstanding(n, k)) <= delivery[n][k].attempts
    <3>1. Outstanding(n, k) = {} /\ sends[n][k] = 0 /\ delivery[n][k].attempts = 0
      BY <2>1, <2>2
    <3> QED BY <2>3, <3>1
  <2> QED BY <2>4 DEF SendsAreCounted
<1>8. EndedTells
  BY <1>3, <1>4 DEF EndedTells, Final
<1> QED BY <1>5, <1>6, <1>7, <1>8 DEF OutboxInv

\* The count of a delivery's requests is kept where none is sent and none is answered.
LEMMA SendsCountKept ==
  ASSUME OutboxShape, OutboxShape', NEW n \in Notifications, NEW k \in Tokens,
         IsFiniteSet(Outstanding(n, k)),
         sends[n][k] + Cardinality(Outstanding(n, k)) <= delivery[n][k].attempts,
         sends'[n][k] = sends[n][k], delivery[n][k].attempts <= delivery'[n][k].attempts,
         Outstanding(n, k)' \subseteq Outstanding(n, k)
  PROVE  /\ IsFiniteSet(Outstanding(n, k)')
         /\ sends'[n][k] + Cardinality(Outstanding(n, k)') <= delivery'[n][k].attempts
<1>1. /\ IsFiniteSet(Outstanding(n, k)')
      /\ Cardinality(Outstanding(n, k)') <= Cardinality(Outstanding(n, k))
  BY FS_Subset
<1>2. Cardinality(Outstanding(n, k)') \in Nat /\ Cardinality(Outstanding(n, k)) \in Nat
  BY <1>1, FS_CardinalityType
<1>3. /\ sends[n][k] \in Nat /\ delivery[n][k].attempts \in Nat /\ delivery'[n][k].attempts \in Nat
  <2>1. delivery[n][k].attempts \in 0 .. MaxAttempts /\ sends[n][k] \in Nat
    BY OutboxFields
  <2>2. delivery'[n][k].attempts \in 0 .. MaxAttempts
    BY DEF OutboxShape, DeliveryRow
  <2> QED BY <2>1, <2>2
<1> QED BY <1>1, <1>2, <1>3

\* Pollers let go, or only move between sessions.
LEMMA LetGoKept ==
  ASSUME OutboxInv, poller' \in [Pollers -> PollerType],
         database' \in [Tenants -> {"none", "present", "removed"}], faults' \in 0 .. MaxFaults,
         \A q \in Pollers : poller'[q] = poller[q] \/ poller'[q].pc \notin Working,
         UNCHANGED <<outbox, delivery, token, issued, sends>>
  PROVE  OutboxInv'
<1>0. /\ OutboxShape /\ ClaimsAreKnown /\ ClaimsAreUnique /\ BatchesAreClaimed
      /\ SendsAreCounted /\ AnswersWereSent /\ EndedTells
  BY DEF OutboxInv
<1>1. OutboxShape'
  BY <1>0 DEF OutboxShape
<1>2. \A q \in Pollers : poller'[q].pc \in Working => poller'[q] = poller[q] /\ (Owned(q)' <=> Owned(q))
  BY DEF Owned
<1>3. ClaimsAreKnown' /\ ClaimsAreUnique'
  BY <1>0, <1>2 DEF ClaimsAreKnown, ClaimsAreUnique
<1>4. BatchesAreClaimed' /\ AnswersWereSent'
  BY <1>0, <1>2 DEF BatchesAreClaimed, AnswersWereSent, Working
<1>5. \A n, k : Outstanding(n, k)' \subseteq Outstanding(n, k)
  BY <1>2 DEF Outstanding, Working
<1>6. SendsAreCounted'
  <2>1. ASSUME NEW n \in Notifications, NEW k \in Tokens
        PROVE  /\ IsFiniteSet(Outstanding(n, k)')
               /\ sends'[n][k] + Cardinality(Outstanding(n, k)') <= delivery'[n][k].attempts
    <3>1. delivery[n][k].attempts \in Nat
      BY <1>0, OutboxFields
    <3> QED BY <1>0, <1>1, <1>5, <3>1, SendsCountKept DEF SendsAreCounted
  <2> QED BY <2>1 DEF SendsAreCounted
<1>7. EndedTells'
  BY <1>0 DEF EndedTells, Open, RowsOf, Recipients
<1> QED BY <1>1, <1>3, <1>4, <1>6, <1>7 DEF OutboxInv

\* What the application, its devices and the time do leaves the pollers and the results
\* alone, and gives nobody a claim.
LEMMA OutsideKept ==
  ASSUME OutboxInv, OutboxShape', UNCHANGED <<poller, sends>>,
         \A n \in Notifications :
           /\ outbox'[n].claim = outbox[n].claim
           /\ outbox'[n].status = "processando" /\ ~outbox'[n].lapsed =>
                outbox[n].status = "processando" /\ ~outbox[n].lapsed
           /\ outbox'[n].status \in Final => outbox'[n].status = outbox[n].status
           /\ \A k \in Tokens : /\ delivery'[n][k].status = delivery[n][k].status
                                /\ delivery'[n][k].attempts = delivery[n][k].attempts
                                /\ delivery'[n][k].generation = delivery[n][k].generation,
         \A k \in Tokens : token'[k] = 0 => token[k] = 0 /\ issued'[k] = issued[k]
  PROVE  OutboxInv'
<1>0. /\ OutboxShape /\ ClaimsAreKnown /\ ClaimsAreUnique /\ BatchesAreClaimed
      /\ SendsAreCounted /\ AnswersWereSent /\ EndedTells
  BY DEF OutboxInv
<1>1. ClaimsAreKnown' /\ ClaimsAreUnique'
  BY <1>0 DEF ClaimsAreKnown, ClaimsAreUnique
<1>2. \A q \in Pollers : poller[q].pc \in Working /\ Owned(q)' => Owned(q)
  BY <1>0 DEF Owned, ClaimsAreKnown
<1>3. BatchesAreClaimed'
  <2>1. ASSUME NEW q \in Pollers, poller[q].pc = "sending", Owned(q)', NEW k \in DOMAIN poller[q].batch
        PROVE  delivery'[poller[q].row][k].status = "processando"
    <3>1. Owned(q) /\ poller[q].row \in Notifications
      BY <1>0, <1>2, <2>1 DEF Working, ClaimsAreKnown
    <3>2. k \in Tokens
      BY <1>0, <2>1, OutboxFields, BatchFields
    <3> QED BY <1>0, <2>1, <3>1, <3>2 DEF BatchesAreClaimed
  <2> QED BY <2>1 DEF BatchesAreClaimed
<1>4. AnswersWereSent'
  BY <1>0 DEF AnswersWereSent
<1>5. SendsAreCounted'
  BY <1>0 DEF SendsAreCounted, Outstanding
<1>6. EndedTells'
  <2>1. \A n \in Notifications : RowsOf(n)' = RowsOf(n) /\ Open(n)' = Open(n)
    BY DEF Open, RowsOf, Recipients
  <2>2. ASSUME NEW n \in Notifications, outbox'[n].status \in Final
        PROVE  /\ Open(n)' = {}
               /\ outbox'[n].status = "enviado" =>
                    \A k \in RowsOf(n)' : sends'[n][k] > 0 /\ delivery'[n][k].status = "enviado"
    <3>1. RowsOf(n) \subseteq Tokens
      BY DEF RowsOf, Recipients
    <3> QED BY <1>0, <2>1, <2>2, <3>1 DEF EndedTells
  <2>3. ASSUME NEW k \in Tokens, token'[k] = 0, issued'[k] > 1
        PROVE  \E n \in Notifications : delivery'[n][k].generation = issued'[k]
    BY <1>0, <2>3 DEF EndedTells
  <2> QED BY <2>2, <2>3 DEF EndedTells
<1> QED BY <1>1, <1>3, <1>4, <1>5, <1>6 DEF OutboxInv

\* What a step of a session changes of its poller.
LEMMA MoveEffect ==
  ASSUME OutboxShape, NEW q \in Pollers, NEW pc \in PollerStates, Move(q, pc)
  PROVE  /\ poller' \in [Pollers -> PollerType]
         /\ \A s \in Pollers \ {q} : poller'[s] = poller[s]
         /\ poller'[q].pc = pc /\ poller'[q].row = poller[q].row
         /\ poller'[q].claim = poller[q].claim /\ poller'[q].batch = poller[q].batch
<1>1. PICK v : v = [poller[q] EXCEPT !.pc = pc]
  OBVIOUS
<1>2. /\ poller[q] \in PollerType /\ poller[q].row \in Notifications \cup {"none"}
      /\ poller[q].claim \in Nat /\ poller[q].batch \in Batches
  BY OutboxFields
<1>3. v = [pc |-> pc, row |-> poller[q].row, claim |-> poller[q].claim, batch |-> poller[q].batch]
  BY <1>1, <1>2 DEF PollerType
<1>4. /\ v \in PollerType /\ v.pc = pc /\ v.row = poller[q].row /\ v.claim = poller[q].claim
      /\ v.batch = poller[q].batch
  BY <1>2, <1>3 DEF PollerType
<1>5. poller' = [poller EXCEPT ![q] = v]
  BY <1>1 DEF Move
<1> QED BY <1>4, <1>5 DEF OutboxShape

\* Faults stay in bounds.
LEMMA TroubleIsBounded ==
  ASSUME OutboxShape, Trouble \/ UNCHANGED faults
  PROVE  faults' \in 0 .. MaxFaults
BY OutboxAssumption DEF OutboxShape, Trouble

\* Sessions begin and end, connections and processes are lost, tenants come and go.
LEMMA SessionStepsKept ==
  ASSUME OutboxInv, NEW q \in Pollers,
         \/ Connect(q) \/ SessionEnds(q) \/ ClaimNothing(q) \/ ClaimLost(q) \/ Disconnect(q)
  PROVE  OutboxInv'
<1>0. OutboxShape /\ database \in [Tenants -> {"none", "present", "removed"}]
  BY DEF OutboxInv, OutboxShape
<1>1. CASE Connect(q) \/ SessionEnds(q) \/ ClaimNothing(q)
  <2>1. PICK pc \in {"connected", "ended", "waiting", "top"} :
          Move(q, pc) /\ UNCHANGED <<database, outbox, delivery, token, issued, sends, faults>>
    BY <1>1 DEF Connect, SessionEnds, ClaimNothing
  <2>2. pc \in PollerStates /\ pc \notin Working
    BY DEF PollerStates, InSession, Working
  <2>3. poller' \in [Pollers -> PollerType]
        /\ \A s \in Pollers : poller'[s] = poller[s] \/ poller'[s].pc \notin Working
    BY <1>0, <2>1, <2>2, MoveEffect
  <2>4. faults' \in 0 .. MaxFaults
    BY <1>0, <2>1, TroubleIsBounded
  <2> QED BY <1>0, <2>1, <2>3, <2>4, LetGoKept
<1>2. CASE ClaimLost(q) \/ Disconnect(q)
  <2>1. PICK pc \in {"waiting", "top"} :
          poller' = [poller EXCEPT ![q] = Idle(pc)]
          /\ UNCHANGED <<database, outbox, delivery, token, issued, sends>>
    BY <1>2 DEF ClaimLost, Disconnect
  <2>2. pc \in PollerStates /\ pc \notin Working
    BY DEF PollerStates, InSession, Working
  <2>3. Idle(pc) \in PollerType /\ Idle(pc).pc = pc
    BY <2>2, IdleIsAPoller
  <2>4. poller' \in [Pollers -> PollerType]
        /\ \A s \in Pollers : poller'[s] = poller[s] \/ poller'[s].pc \notin Working
    BY <1>0, <2>1, <2>2, <2>3 DEF OutboxShape
  <2>5. faults' \in 0 .. MaxFaults
    BY <1>0, <1>2, TroubleIsBounded DEF ClaimLost, Disconnect
  <2> QED BY <1>0, <2>1, <2>4, <2>5, LetGoKept
<1> QED BY <1>1, <1>2

\* Processes and databases that come and go keep the invariant.
LEMMA ProcessStepsKept ==
  ASSUME OutboxInv,
         \/ \E p \in Processes : Reconcile(p) \/ ProcessRestarts(p)
         \/ \E t \in Tenants : DatabaseRemoved(t)
  PROVE  OutboxInv'
<1>0. OutboxShape
  BY DEF OutboxInv
<1>1. /\ "none" \in PollerStates \ Working /\ "waiting" \in PollerStates \ Working
      /\ Idle("none") \in PollerType /\ Idle("waiting") \in PollerType
      /\ Idle("none").pc = "none" /\ Idle("waiting").pc = "waiting"
  BY IdleIsAPoller DEF PollerStates, Working
<1>2. /\ poller' = [q \in Pollers |-> poller'[q]]
      /\ \A q \in Pollers : poller'[q] \in {poller[q], Idle("none"), Idle("waiting")}
      /\ UNCHANGED <<outbox, delivery, token, issued, sends>>
  <2>1. ASSUME NEW p \in Processes, Reconcile(p)
        PROVE  /\ poller' = [q \in Pollers |-> poller'[q]]
               /\ \A q \in Pollers : poller'[q] \in {poller[q], Idle("none"), Idle("waiting")}
    BY <2>1 DEF Reconcile
  <2>2. ASSUME NEW p \in Processes, ProcessRestarts(p)
        PROVE  /\ poller' = [q \in Pollers |-> poller'[q]]
               /\ \A q \in Pollers : poller'[q] \in {poller[q], Idle("none"), Idle("waiting")}
    BY <2>2 DEF ProcessRestarts
  <2>3. ASSUME NEW t \in Tenants, DatabaseRemoved(t)
        PROVE  /\ poller' = [q \in Pollers |-> poller'[q]]
               /\ \A q \in Pollers : poller'[q] \in {poller[q], Idle("none"), Idle("waiting")}
    BY <2>3 DEF DatabaseRemoved
  <2>4. UNCHANGED <<outbox, delivery, token, issued, sends>>
    BY DEF Reconcile, ProcessRestarts, DatabaseRemoved
  <2> QED BY <2>1, <2>2, <2>3, <2>4
<1>3. poller' \in [Pollers -> PollerType]
      /\ \A q \in Pollers : poller'[q] = poller[q] \/ poller'[q].pc \notin Working
  BY <1>0, <1>1, <1>2 DEF OutboxShape
<1>4. faults' \in 0 .. MaxFaults
  BY <1>0, TroubleIsBounded DEF Reconcile, ProcessRestarts, DatabaseRemoved
<1>5. database' \in [Tenants -> {"none", "present", "removed"}]
  BY <1>0 DEF OutboxShape, Reconcile, ProcessRestarts, DatabaseRemoved
<1> QED BY <1>2, <1>3, <1>4, <1>5, LetGoKept

\* A database that comes back keeps it.
LEMMA DatabaseBackKept ==
  ASSUME OutboxInv, NEW t \in Tenants, DatabaseBack(t)
  PROVE  OutboxInv'
<1>0. OutboxShape
  BY DEF OutboxInv
<1>1. database' \in [Tenants -> {"none", "present", "removed"}]
  BY <1>0 DEF OutboxShape, DatabaseBack
<1>2. UNCHANGED <<outbox, delivery, token, issued, poller, sends, faults>>
  BY DEF DatabaseBack
<1>3. OutboxShape'
  BY <1>0, <1>1, <1>2 DEF OutboxShape
<1> QED BY <1>2, <1>3, OutsideKept

\* A new notification keeps it.
LEMMA InsertNotificationKept ==
  ASSUME OutboxInv, NEW n \in Notifications, Insert(n)
  PROVE  OutboxInv'
<1>0. OutboxShape
  BY DEF OutboxInv
<1>1. PICK v : v = [outbox[n] EXCEPT !.status = "pendente", !.due = TRUE]
  OBVIOUS
<1>2. v = [status |-> "pendente", claim |-> outbox[n].claim, lapsed |-> outbox[n].lapsed,
           due |-> TRUE, initialized |-> outbox[n].initialized]
  BY <1>0, <1>1, OutboxFields DEF OutboxRow
<1>3. /\ outbox[n].status = "none" /\ outbox' = [outbox EXCEPT ![n] = v]
      /\ UNCHANGED <<database, delivery, token, issued, poller, sends, faults>>
  BY <1>1 DEF Insert
<1>4. outbox[n].claim \in Nat /\ outbox[n].lapsed \in BOOLEAN /\ outbox[n].initialized \in BOOLEAN
  BY <1>0, OutboxFields DEF OutboxRow
<1>5. /\ outbox' \in [Notifications -> OutboxRow]
      /\ \A m \in Notifications \ {n} : outbox'[m] = outbox[m]
      /\ outbox'[n].status = "pendente" /\ outbox'[n].claim = outbox[n].claim
  <2>1. v \in OutboxRow /\ v.status = "pendente" /\ v.claim = outbox[n].claim
    BY <1>2, <1>4 DEF OutboxRow
  <2> QED BY <1>0, <1>3, <2>1 DEF OutboxShape
<1>6. OutboxShape'
  BY <1>0, <1>3, <1>5 DEF OutboxShape
<1> QED BY <1>3, <1>5, <1>6, OutsideKept DEF Final

\* A device that registers keeps it.
LEMMA RegisterKept ==
  ASSUME OutboxInv, NEW k \in Tokens, Register(k)
  PROVE  OutboxInv'
<1>0. OutboxShape
  BY DEF OutboxInv
<1>1. /\ issued[k] \in 1 .. MaxGenerations[k] - 1 /\ issued' = [issued EXCEPT ![k] = issued[k] + 1]
      /\ token' = [token EXCEPT ![k] = issued[k] + 1]
      /\ UNCHANGED <<database, outbox, delivery, poller, sends, faults>>
  BY DEF Register
<1>2. MaxGenerations[k] \in Nat /\ issued[k] \in Nat
  BY <1>0, OutboxAssumption DEF OutboxShape
<1>3. /\ issued' \in [Tokens -> Nat] /\ token' \in [Tokens -> Nat]
      /\ issued'[k] <= MaxGenerations[k] /\ token'[k] = issued'[k] /\ token'[k] # 0
      /\ \A l \in Tokens \ {k} : issued'[l] = issued[l] /\ token'[l] = token[l]
  BY <1>0, <1>1, <1>2 DEF OutboxShape
<1>4. OutboxShape'
  BY <1>0, <1>1, <1>3 DEF OutboxShape
<1> QED BY <1>1, <1>3, <1>4, OutsideKept

\* A claim that lapses keeps it.
LEMMA LeaseLapsesKept ==
  ASSUME OutboxInv, NEW n \in Notifications, LeaseLapses(n)
  PROVE  OutboxInv'
<1>0. OutboxShape
  BY DEF OutboxInv
<1>1. PICK v : v = [outbox[n] EXCEPT !.lapsed = TRUE]
  OBVIOUS
<1>2. v = [status |-> outbox[n].status, claim |-> outbox[n].claim, lapsed |-> TRUE,
           due |-> outbox[n].due, initialized |-> outbox[n].initialized]
  BY <1>0, <1>1, OutboxFields DEF OutboxRow
<1>3. /\ outbox[n].status = "processando" /\ outbox' = [outbox EXCEPT ![n] = v]
      /\ UNCHANGED <<database, delivery, token, issued, poller, sends>>
  BY <1>1 DEF LeaseLapses
<1>4. /\ outbox[n].claim \in Nat /\ outbox[n].due \in BOOLEAN /\ outbox[n].initialized \in BOOLEAN
      /\ outbox[n].status \in {"none", "pendente", "processando"} \cup Final
  BY <1>0, OutboxFields DEF OutboxRow
<1>5. /\ outbox' \in [Notifications -> OutboxRow]
      /\ \A m \in Notifications \ {n} : outbox'[m] = outbox[m]
      /\ outbox'[n].status = outbox[n].status /\ outbox'[n].claim = outbox[n].claim
      /\ outbox'[n].lapsed
  <2>1. v \in OutboxRow /\ v.status = outbox[n].status /\ v.claim = outbox[n].claim /\ v.lapsed
    BY <1>2, <1>4 DEF OutboxRow
  <2> QED BY <1>0, <1>3, <2>1 DEF OutboxShape
<1>6. faults' \in 0 .. MaxFaults
  BY <1>0, TroubleIsBounded DEF LeaseLapses
<1>7. OutboxShape'
  BY <1>0, <1>3, <1>5, <1>6 DEF OutboxShape
<1> QED BY <1>3, <1>5, <1>7, OutsideKept

\* A delivery that is due again keeps it.
LEMMA RetryIsDueKept ==
  ASSUME OutboxInv, NEW n \in Notifications, NEW k \in Tokens, RetryIsDue(n, k)
  PROVE  OutboxInv'
<1>0. OutboxShape
  BY DEF OutboxInv
<1>1. PICK v : v = [outbox[n] EXCEPT !.due = @ \/ outbox[n].status = "pendente"]
  OBVIOUS
<1>2. PICK w : w = [delivery[n][k] EXCEPT !.due = TRUE]
  OBVIOUS
<1>3. /\ outbox' = [outbox EXCEPT ![n] = v]
      /\ delivery' = [delivery EXCEPT ![n] = [delivery[n] EXCEPT ![k] = w]]
      /\ UNCHANGED <<database, token, issued, poller, sends, faults>>
  BY <1>0, <1>1, <1>2 DEF RetryIsDue, OutboxShape
<1>4. /\ outbox[n].claim \in Nat /\ outbox[n].due \in BOOLEAN /\ outbox[n].initialized \in BOOLEAN
      /\ outbox[n].lapsed \in BOOLEAN
      /\ outbox[n].status \in {"none", "pendente", "processando"} \cup Final
      /\ (outbox[n].due \/ outbox[n].status = "pendente") \in BOOLEAN
  BY <1>0, OutboxFields DEF OutboxRow
<1>5. v = [status |-> outbox[n].status, claim |-> outbox[n].claim, lapsed |-> outbox[n].lapsed,
           due |-> (outbox[n].due \/ outbox[n].status = "pendente"),
           initialized |-> outbox[n].initialized]
  BY <1>0, <1>1, OutboxFields DEF OutboxRow
<1>6. /\ outbox' \in [Notifications -> OutboxRow]
      /\ \A m \in Notifications \ {n} : outbox'[m] = outbox[m]
      /\ outbox'[n].status = outbox[n].status /\ outbox'[n].claim = outbox[n].claim
      /\ outbox'[n].lapsed = outbox[n].lapsed
  <2>1. v \in OutboxRow /\ v.status = outbox[n].status /\ v.claim = outbox[n].claim
        /\ v.lapsed = outbox[n].lapsed
    BY <1>4, <1>5 DEF OutboxRow
  <2> QED BY <1>0, <1>3, <2>1 DEF OutboxShape
<1>7. delivery[n][k] \in DeliveryRow
  BY <1>0, OutboxFields
<1>8. /\ w \in DeliveryRow /\ w.status = delivery[n][k].status
      /\ w.attempts = delivery[n][k].attempts /\ w.generation = delivery[n][k].generation
  BY <1>2, <1>7 DEF DeliveryRow
<1>9. /\ delivery' \in [Notifications -> [Tokens -> DeliveryRow]]
      /\ \A m \in Notifications, l \in Tokens :
           delivery'[m][l] = IF m = n /\ l = k THEN w ELSE delivery[m][l]
  BY <1>0, <1>3, <1>8 DEF OutboxShape
<1>10. OutboxShape'
  BY <1>0, <1>3, <1>6, <1>9 DEF OutboxShape
<1> QED BY <1>3, <1>6, <1>8, <1>9, <1>10, OutsideKept

\* Two sessions do not work on one notification under a claim in force.
LEMMA OwnerIsUnique ==
  ASSUME ClaimsAreUnique, NEW q \in Pollers, NEW s \in Pollers, Owned(q), Owned(s),
         poller[q].pc \in Working, poller[s].pc \in Working, poller[q].row = poller[s].row
  PROVE  q = s
BY DEF ClaimsAreUnique, Owned

\* A notification that has ended is left alone, and generations stay.
LEMMA EndedKept ==
  ASSUME EndedTells, UNCHANGED issued,
         \A n \in Notifications : outbox'[n].status \in Final =>
           /\ outbox'[n].status = outbox[n].status
           /\ \A k \in Tokens : /\ delivery'[n][k].status = delivery[n][k].status
                                /\ sends[n][k] > 0 => sends'[n][k] > 0,
         \A n \in Notifications, k \in Tokens :
           delivery[n][k].generation # 0 => delivery'[n][k].generation = delivery[n][k].generation,
         \A k \in Tokens : token'[k] = 0 /\ issued[k] > 1 =>
           \E n \in Notifications : delivery[n][k].generation = issued[k]
  PROVE  EndedTells'
<1>1. ASSUME NEW n \in Notifications, outbox'[n].status \in Final
      PROVE  /\ Open(n)' = {}
             /\ outbox'[n].status = "enviado" =>
                  \A k \in RowsOf(n)' : sends'[n][k] > 0 /\ delivery'[n][k].status = "enviado"
  <2>1. RowsOf(n)' = RowsOf(n) /\ RowsOf(n) \subseteq Tokens
    BY <1>1 DEF RowsOf, Recipients
  <2>2. Open(n)' = Open(n)
    BY <1>1, <2>1 DEF Open
  <2> QED BY <1>1, <2>1, <2>2 DEF EndedTells
<1>2. ASSUME NEW k \in Tokens, token'[k] = 0, issued'[k] > 1
      PROVE  \E n \in Notifications : delivery'[n][k].generation = issued'[k]
  <2>1. PICK n \in Notifications : delivery[n][k].generation = issued[k]
    BY <1>2
  <2>2. delivery[n][k].generation # 0
    BY <1>2, <2>1
  <2> QED BY <2>1, <2>2
<1> QED BY <1>1, <1>2 DEF EndedTells

\* A claim is a new one, and takes the notification from whoever had it.
LEMMA ClaimNotificationKept ==
  ASSUME OutboxInv, NEW q \in Pollers, NEW n \in Notifications, ClaimNotification(q, n)
  PROVE  OutboxInv'
<1>0. /\ OutboxShape /\ ClaimsAreKnown /\ ClaimsAreUnique /\ BatchesAreClaimed
      /\ SendsAreCounted /\ AnswersWereSent /\ EndedTells
  BY DEF OutboxInv
<1>1. PICK v : v = [outbox[n] EXCEPT !.status = "processando", !.lapsed = FALSE, !.claim = @ + 1]
  OBVIOUS
<1>2. PICK p : p = [pc |-> "prepare", row |-> n, claim |-> outbox[n].claim + 1,
                    batch |-> [k \in {} |-> "sent"]]
  OBVIOUS
<1>3. /\ outbox' = [outbox EXCEPT ![n] = v] /\ poller' = [poller EXCEPT ![q] = p]
      /\ outbox[n].status \in {"pendente", "processando"}
      /\ UNCHANGED <<database, delivery, token, issued, sends, faults>>
  BY <1>0, <1>1, <1>2 DEF ClaimNotification, Claimable, OutboxShape
<1>4. /\ v \in OutboxRow /\ v.status = "processando" /\ v.claim = outbox[n].claim + 1
      /\ outbox[n].claim \in Nat
  <2>1. v = [status |-> "processando", claim |-> outbox[n].claim + 1, lapsed |-> FALSE,
             due |-> outbox[n].due, initialized |-> outbox[n].initialized]
    BY <1>0, <1>1, OutboxFields DEF OutboxRow
  <2>2. /\ outbox[n].claim \in Nat /\ outbox[n].due \in BOOLEAN
        /\ outbox[n].initialized \in BOOLEAN
    BY <1>0, OutboxFields DEF OutboxRow
  <2> QED BY <2>1, <2>2 DEF OutboxRow
<1>5. p \in PollerType /\ p.pc = "prepare" /\ p.row = n /\ p.claim = outbox[n].claim + 1
  <2>1. [k \in {} |-> "sent"] \in Batches
    <3>1. [k \in {} |-> "sent"] \in [{} -> Categories \cup {"sent"}] /\ {} \in SUBSET Tokens
      OBVIOUS
    <3> QED BY <3>1, BatchMade
  <2>2. "prepare" \in PollerStates
    BY DEF PollerStates, InSession
  <2> QED BY <1>2, <1>4, <2>1, <2>2 DEF PollerType
<1>6. /\ outbox' \in [Notifications -> OutboxRow]
      /\ (\A m \in Notifications : outbox'[m] = IF m = n THEN v ELSE outbox[m])
      /\ poller' \in [Pollers -> PollerType]
      /\ \A s \in Pollers : poller'[s] = IF s = q THEN p ELSE poller[s]
  BY <1>0, <1>3, <1>4, <1>5 DEF OutboxShape
<1>7. OutboxShape'
  BY <1>0, <1>3, <1>6 DEF OutboxShape
<1>8. \A s \in Pollers \ {q} : poller[s].pc \in Working =>
        /\ poller[s].row \in Notifications /\ poller[s].claim <= outbox[poller[s].row].claim
        /\ poller[s].claim \in Nat /\ outbox[poller[s].row].claim \in Nat
  BY <1>0, OutboxFields DEF ClaimsAreKnown
<1>9. ClaimsAreKnown'
  <2>1. ASSUME NEW s \in Pollers, poller'[s].pc \in Working
        PROVE  poller'[s].row \in Notifications /\ poller'[s].claim <= outbox'[poller'[s].row].claim
    <3>1. CASE s = q
      BY <1>4, <1>5, <1>6, <3>1
    <3>2. CASE s # q
      BY <1>4, <1>6, <1>8, <2>1, <3>2
    <3> QED BY <3>1, <3>2
  <2> QED BY <2>1 DEF ClaimsAreKnown
<1>10. ClaimsAreUnique'
  <2>1. ASSUME NEW s \in Pollers \ {q}, poller[s].pc \in Working, poller[s].row = n
        PROVE  poller[s].claim # outbox[n].claim + 1
    BY <1>8, <2>1
  <2> QED BY <1>0, <1>5, <1>6, <2>1 DEF ClaimsAreUnique
<1>11. BatchesAreClaimed'
  <2>1. ASSUME NEW s \in Pollers, poller'[s].pc = "sending", Owned(s)'
        PROVE  \A k \in DOMAIN poller'[s].batch : delivery'[poller'[s].row][k].status = "processando"
    <3>1. s # q /\ poller'[s] = poller[s]
      BY <1>5, <1>6, <2>1
    <3>2. poller[s].row # n
      BY <1>4, <1>6, <1>8, <2>1, <3>1 DEF Owned, Working
    <3>3. Owned(s)
      BY <1>6, <1>8, <2>1, <3>1, <3>2 DEF Owned, Working
    <3> QED BY <1>0, <1>3, <2>1, <3>1, <3>3 DEF BatchesAreClaimed
  <2> QED BY <2>1 DEF BatchesAreClaimed
<1>12. SendsAreCounted'
  <2>1. ASSUME NEW m \in Notifications, NEW k \in Tokens
        PROVE  /\ IsFiniteSet(Outstanding(m, k)')
               /\ sends'[m][k] + Cardinality(Outstanding(m, k)') <= delivery'[m][k].attempts
    <3>1. delivery[m][k].attempts \in Nat /\ delivery'[m][k].attempts = delivery[m][k].attempts
      BY <1>0, <1>3, OutboxFields
    <3>2. Outstanding(m, k)' \subseteq Outstanding(m, k)
      BY <1>5, <1>6 DEF Outstanding
    <3> QED BY <1>0, <1>3, <1>7, <3>1, <3>2, SendsCountKept DEF SendsAreCounted
  <2> QED BY <2>1 DEF SendsAreCounted
<1>13. AnswersWereSent'
  BY <1>0, <1>3, <1>5, <1>6 DEF AnswersWereSent
<1>14. EndedTells'
  <2>1. "processando" \notin Final
    BY DEF Final
  <2>2. \A m \in Notifications : outbox'[m].status \in Final => outbox'[m].status = outbox[m].status
    BY <1>4, <1>6, <2>1
  <2>3. \A k \in Tokens : token'[k] = 0 /\ issued[k] > 1 =>
          \E m \in Notifications : delivery[m][k].generation = issued[k]
    BY <1>0, <1>3 DEF EndedTells
  <2> QED BY <1>0, <1>3, <2>2, <2>3, EndedKept
<1> QED BY <1>7, <1>9, <1>10, <1>11, <1>12, <1>13, <1>14 DEF OutboxInv

\* A step of the owner of a notification: he keeps his claim or lets it go, and the other
\* notifications, and the pollers that have them, are left alone.
LEMMA OwnerKeepsClaims ==
  ASSUME OutboxInv, NEW q \in Pollers, Owned(q), poller[q].pc \in Working,
         \A m \in Notifications : /\ outbox'[m].claim = outbox[m].claim
                                  /\ m # poller[q].row => outbox'[m] = outbox[m],
         \A m \in Notifications : m # poller[q].row => delivery'[m] = delivery[m],
         \A s \in Pollers \ {q} : poller'[s] = poller[s],
         \/ poller'[q].pc \notin Working
         \/ poller'[q].row = poller[q].row /\ poller'[q].claim = poller[q].claim
  PROVE  /\ ClaimsAreKnown' /\ ClaimsAreUnique'
         /\ \A s \in Pollers \ {q} :
              poller[s].pc = "sending" /\ Owned(s)' =>
                \A k \in DOMAIN poller[s].batch : delivery'[poller[s].row][k].status = "processando"
<1>0. ClaimsAreKnown /\ ClaimsAreUnique /\ BatchesAreClaimed /\ poller[q].row \in Notifications
  BY DEF OutboxInv, ClaimsAreKnown
<1>1. ClaimsAreKnown'
  <2>1. ASSUME NEW s \in Pollers, poller'[s].pc \in Working
        PROVE  poller'[s].row \in Notifications /\ poller'[s].claim <= outbox'[poller'[s].row].claim
    BY <1>0, <2>1 DEF ClaimsAreKnown
  <2> QED BY <2>1 DEF ClaimsAreKnown
<1>2. ClaimsAreUnique'
  <2>1. \A s \in Pollers : poller'[s].pc \in Working =>
          /\ poller[s].pc \in Working
          /\ poller'[s].row = poller[s].row /\ poller'[s].claim = poller[s].claim
    OBVIOUS
  <2> QED BY <1>0, <2>1 DEF ClaimsAreUnique
<1>3. ASSUME NEW s \in Pollers \ {q}, poller[s].pc = "sending", Owned(s)',
             NEW k \in DOMAIN poller[s].batch
      PROVE  delivery'[poller[s].row][k].status = "processando"
  <2>1. poller[s].row \in Notifications /\ poller'[s] = poller[s]
    BY <1>0, <1>3 DEF ClaimsAreKnown, Working
  <2>2. poller[s].row # poller[q].row
    BY <1>0, <1>3, <2>1 DEF Owned, ClaimsAreUnique, Working
  <2>3. Owned(s)
    BY <1>3, <2>1, <2>2 DEF Owned
  <2> QED BY <1>0, <1>3, <2>1, <2>2, <2>3 DEF BatchesAreClaimed
<1> QED BY <1>1, <1>2, <1>3

\* The recipients get rows nobody has counted in, and rows that are there are kept.
LEMMA CreateDeliveryRowsKept ==
  ASSUME OutboxInv, NEW q \in Pollers, CreateDeliveryRows(q)
  PROVE  OutboxInv'
<1>0. /\ OutboxShape /\ ClaimsAreKnown /\ ClaimsAreUnique /\ BatchesAreClaimed
      /\ SendsAreCounted /\ AnswersWereSent /\ EndedTells
  BY DEF OutboxInv
<1>1. PICK n : n = poller[q].row
  OBVIOUS
<1>2. /\ poller[q].pc = "prepare" /\ Owned(q) /\ Move(q, "renew")
      /\ UNCHANGED <<database, token, issued, sends, faults>>
  BY DEF CreateDeliveryRows
<1>3. n \in Notifications /\ outbox[n].status = "processando" /\ poller[q].pc \in Working
      /\ "renew" \in PollerStates
  BY <1>0, <1>1, <1>2 DEF Owned, ClaimsAreKnown, Working, PollerStates, InSession
<1>4. /\ outbox' \in [Notifications -> OutboxRow]
      /\ \A m \in Notifications : m # n => outbox'[m] = outbox[m]
      /\ outbox'[n].status = "processando" /\ outbox'[n].claim = outbox[n].claim
  <2>1. PICK v : v = [outbox[n] EXCEPT !.initialized = TRUE]
    OBVIOUS
  <2>2. v = [status |-> outbox[n].status, claim |-> outbox[n].claim, lapsed |-> outbox[n].lapsed,
             due |-> outbox[n].due, initialized |-> TRUE]
    BY <1>0, <1>3, <2>1, OutboxFields DEF OutboxRow
  <2>3. outbox[n] \in OutboxRow
    BY <1>0, <1>3, OutboxFields
  <2>4. v \in OutboxRow /\ v.status = "processando" /\ v.claim = outbox[n].claim
    BY <1>3, <2>2, <2>3 DEF OutboxRow
  <2>5. outbox' = [outbox EXCEPT ![n] = v]
    BY <1>1, <2>1 DEF CreateDeliveryRows
  <2> QED BY <1>0, <1>3, <2>4, <2>5 DEF OutboxShape
<1>5. /\ delivery' \in [Notifications -> [Tokens -> DeliveryRow]]
      /\ \A m \in Notifications : m # n => delivery'[m] = delivery[m]
      /\ \A k \in Tokens :
           \/ delivery'[n][k] = delivery[n][k]
           \/ /\ delivery[n][k] = NoRow /\ delivery'[n][k].status = "pendente"
              /\ delivery'[n][k].attempts = 0
  <2>1. PICK f : f = [k \in Tokens |->
          IF ~outbox[n].initialized /\ k \in Recipients(n) /\ token[k] # 0 /\ delivery[n][k] = NoRow
          THEN [status |-> "pendente", claim |-> 0, attempts |-> 0, generation |-> token[k],
                due |-> TRUE]
          ELSE delivery[n][k]]
    OBVIOUS
  <2>2. delivery' = [delivery EXCEPT ![n] = f]
    BY <1>0, <1>1, <1>3, <2>1 DEF CreateDeliveryRows, OutboxShape
  <2>3. ASSUME NEW k \in Tokens
        PROVE  /\ f[k] \in DeliveryRow
               /\ \/ f[k] = delivery[n][k]
                  \/ delivery[n][k] = NoRow /\ f[k].status = "pendente" /\ f[k].attempts = 0
    <3>1. delivery[n][k] \in DeliveryRow /\ token[k] \in Nat /\ MaxAttempts \in Nat
      BY <1>0, <1>3, OutboxFields, OutboxAssumption DEF OutboxShape
    <3>2. [status |-> "pendente", claim |-> 0, attempts |-> 0, generation |-> token[k], due |-> TRUE]
          \in DeliveryRow
      BY <3>1 DEF DeliveryRow
    <3> QED BY <2>1, <3>1, <3>2
  <2>4. f \in [Tokens -> DeliveryRow]
    BY <2>1, <2>3
  <2> QED BY <1>0, <1>3, <2>2, <2>3, <2>4 DEF OutboxShape
<1>6. /\ poller' \in [Pollers -> PollerType] /\ \A s \in Pollers \ {q} : poller'[s] = poller[s]
      /\ poller'[q].pc = "renew" /\ poller'[q].row = poller[q].row
      /\ poller'[q].claim = poller[q].claim
  BY <1>0, <1>2, <1>3, MoveEffect
<1>7. OutboxShape'
  BY <1>0, <1>2, <1>4, <1>5, <1>6 DEF OutboxShape
<1>8. NoRow.status = "none" /\ NoRow.attempts = 0 /\ NoRow.generation = 0
  BY DEF NoRow
<1>9. /\ ClaimsAreKnown' /\ ClaimsAreUnique'
      /\ \A s \in Pollers \ {q} :
           poller[s].pc = "sending" /\ Owned(s)' =>
             \A k \in DOMAIN poller[s].batch : delivery'[poller[s].row][k].status = "processando"
  BY <1>1, <1>2, <1>3, <1>4, <1>5, <1>6, OwnerKeepsClaims
<1>10. BatchesAreClaimed'
  BY <1>6, <1>9 DEF BatchesAreClaimed
<1>11. SendsAreCounted'
  <2>1. ASSUME NEW m \in Notifications, NEW k \in Tokens
        PROVE  /\ IsFiniteSet(Outstanding(m, k)')
               /\ sends'[m][k] + Cardinality(Outstanding(m, k)') <= delivery'[m][k].attempts
    <3>1. delivery'[m][k].attempts = delivery[m][k].attempts
      BY <1>5, <1>8
    <3>2. delivery[m][k].attempts \in Nat
      BY <1>0, OutboxFields
    <3>3. Outstanding(m, k)' \subseteq Outstanding(m, k)
      BY <1>6 DEF Outstanding
    <3> QED BY <1>0, <1>2, <1>7, <3>1, <3>2, <3>3, SendsCountKept DEF SendsAreCounted
  <2> QED BY <2>1 DEF SendsAreCounted
<1>12. AnswersWereSent'
  <2>1. \A m \in Notifications, k \in Tokens :
          delivery'[m][k].status = "enviado" => delivery[m][k].status = "enviado"
    BY <1>5
  <2> QED BY <1>0, <1>2, <1>6, <2>1 DEF AnswersWereSent
<1>13. EndedTells'
  <2>1. "processando" \notin Final
    BY DEF Final
  <2>2. \A m \in Notifications : outbox'[m].status \in Final =>
          outbox'[m].status = outbox[m].status /\ delivery'[m] = delivery[m]
    BY <1>4, <1>5, <2>1
  <2>3. \A m \in Notifications, k \in Tokens :
          delivery[m][k].generation # 0 => delivery'[m][k].generation = delivery[m][k].generation
    BY <1>5, <1>8
  <2>4. \A k \in Tokens : token'[k] = 0 /\ issued[k] > 1 =>
          \E m \in Notifications : delivery[m][k].generation = issued[k]
    BY <1>0, <1>2 DEF EndedTells
  <2> QED BY <1>0, <1>2, <2>2, <2>3, <2>4, EndedKept
<1> QED BY <1>7, <1>9, <1>10, <1>11, <1>12, <1>13 DEF OutboxInv

\* What the claim of deliveries does: they are given up, sent once more, or left alone.
DeliveriesClaimed(q, n, batch) ==
  /\ poller' \in [Pollers -> PollerType]
  /\ \A s \in Pollers \ {q} : poller'[s] = poller[s]
  /\ poller'[q].pc \in {"finalize", "sending"} /\ poller'[q].row = n
  /\ poller'[q].claim = poller[q].claim /\ DOMAIN poller'[q].batch = batch
  /\ \A k \in batch : poller'[q].batch[k] = "sent"
  /\ delivery' \in [Notifications -> [Tokens -> DeliveryRow]]
  /\ \A m \in Notifications : m # n => delivery'[m] = delivery[m]
  /\ \A k \in Tokens :
       /\ delivery'[n][k].generation = delivery[n][k].generation
       /\ delivery[n][k].status \in Settled => delivery'[n][k].status = delivery[n][k].status
       /\ delivery'[n][k].status = "enviado" => delivery[n][k].status = "enviado"
       /\ k \in batch => delivery'[n][k].status = "processando"
       /\ delivery'[n][k].attempts =
            IF k \in batch THEN delivery[n][k].attempts + 1 ELSE delivery[n][k].attempts

\* Which deliveries a claim takes, and how it counts them.
LEMMA ClaimDeliveriesEffect ==
  ASSUME OutboxShape, NEW q \in Pollers, NEW n \in Notifications, n = poller[q].row,
         ClaimDeliveries(q)
  PROVE  \E batch \in SUBSET Tokens : DeliveriesClaimed(q, n, batch)
<1>a. n = poller[q].row
  OBVIOUS
<1>1. PICK batch \in SUBSET Candidates(poller[q].row) :
        /\ delivery' = [delivery EXCEPT ![poller[q].row] = [k \in Tokens |->
             IF k \in Exhausted(poller[q].row)
             THEN [delivery[poller[q].row][k] EXCEPT !.status = "erro", !.claim = 0]
             ELSE IF k \in batch
                  THEN [delivery[poller[q].row][k] EXCEPT !.status = "processando",
                          !.claim = poller[q].claim, !.attempts = delivery[poller[q].row][k].attempts + 1]
                  ELSE delivery[poller[q].row][k]]]
        /\ poller' = [poller EXCEPT ![q].pc = IF batch = {} THEN "finalize" ELSE "sending",
                                    ![q].batch = [k \in batch |-> "sent"]]
  BY DEF ClaimDeliveries
<1>b. PICK f : f = [k \in Tokens |->
             IF k \in Exhausted(poller[q].row)
             THEN [delivery[poller[q].row][k] EXCEPT !.status = "erro", !.claim = 0]
             ELSE IF k \in batch
                  THEN [delivery[poller[q].row][k] EXCEPT !.status = "processando",
                          !.claim = poller[q].claim, !.attempts = delivery[poller[q].row][k].attempts + 1]
                  ELSE delivery[poller[q].row][k]]
  BY Zenon
<1>c. delivery' = [delivery EXCEPT ![poller[q].row] = f]
  BY <1>1, <1>b, Zenon
<1>d. /\ batch \in SUBSET Candidates(n)
      /\ \A k \in Candidates(n) : k \in Tokens /\ delivery[n][k].attempts < MaxAttempts
                                   /\ delivery[n][k].status \notin Settled
      /\ \A k \in Exhausted(n) : delivery[n][k].attempts >= MaxAttempts /\ delivery[n][k].status \notin Settled
  <2>1. batch \in SUBSET Candidates(n)
    BY <1>1, <1>a, Zenon
  <2>2. \A k \in Open(n) : k \in Tokens /\ delivery[n][k].status \notin Settled
    BY Zenon DEF Open, RowsOf, Recipients
  <2> QED BY <2>1, <2>2, Zenon DEF Candidates, Exhausted
<1>3. delivery' = [delivery EXCEPT ![n] = f]
  BY <1>a, <1>c, Zenon
<1>4. ASSUME NEW k \in Tokens
      PROVE  /\ f[k] \in DeliveryRow /\ f[k].generation = delivery[n][k].generation
             /\ delivery[n][k].status \in Settled => f[k].status = delivery[n][k].status
             /\ f[k].status = "enviado" => delivery[n][k].status = "enviado"
             /\ k \in batch => f[k].status = "processando"
             /\ f[k].attempts =
                  IF k \in batch THEN delivery[n][k].attempts + 1 ELSE delivery[n][k].attempts
  <2>1. PICK d : d = delivery[n][k]
    OBVIOUS
  <2>2. d \in DeliveryRow /\ d.attempts \in 0 .. MaxAttempts /\ poller[q].claim \in Nat
        /\ MaxAttempts \in Nat /\ d.generation \in Nat /\ d.claim \in Nat /\ d.due \in BOOLEAN
    BY <2>1, OutboxFields, OutboxAssumption DEF DeliveryRow
  <2>3. CASE k \in Exhausted(n)
    <3>1. k \notin batch /\ d.status \notin Settled
      <4>1. k \in batch => d.attempts < MaxAttempts
        BY <1>d, <2>1
      <4> QED BY <1>d, <2>1, <2>2, <2>3, <4>1
    <3>2. f[k] = [d EXCEPT !.status = "erro", !.claim = 0]
      BY <1>a, <1>b, <2>1, <2>3, Zenon
    <3>3. f[k] = [status |-> "erro", claim |-> 0, attempts |-> d.attempts,
                  generation |-> d.generation, due |-> d.due]
      BY <2>2, <3>2 DEF DeliveryRow
    <3> QED BY <2>1, <2>2, <3>1, <3>3 DEF DeliveryRow, Settled
  <2>4. CASE k \notin Exhausted(n) /\ k \in batch
    <3>1. d.attempts < MaxAttempts /\ d.status \notin Settled
      BY <1>d, <2>1, <2>4
    <3>2. f[k] = [d EXCEPT !.status = "processando", !.claim = poller[q].claim, !.attempts = d.attempts + 1]
      BY <1>a, <1>b, <2>1, <2>4, Zenon
    <3>3. f[k] = [status |-> "processando", claim |-> poller[q].claim, attempts |-> d.attempts + 1,
                  generation |-> d.generation, due |-> d.due]
      BY <2>2, <3>2 DEF DeliveryRow
    <3>4. d.attempts + 1 \in 0 .. MaxAttempts
      BY <2>2, <3>1
    <3> QED BY <2>1, <2>2, <2>4, <3>1, <3>3, <3>4 DEF DeliveryRow
  <2>5. CASE k \notin Exhausted(n) /\ k \notin batch
    <3>1. f[k] = d
      BY <1>a, <1>b, <2>1, <2>5, Zenon
    <3> QED BY <2>1, <2>2, <2>5, <3>1
  <2> QED BY <2>3, <2>4, <2>5
<1>5. f \in [Tokens -> DeliveryRow] /\ batch \in SUBSET Tokens
  BY <1>b, <1>d, <1>4, Zenon
<1>6. /\ delivery' \in [Notifications -> [Tokens -> DeliveryRow]] /\ delivery'[n] = f
      /\ \A m \in Notifications : m # n => delivery'[m] = delivery[m]
  BY <1>3, <1>5 DEF OutboxShape
<1>7. /\ poller' \in [Pollers -> PollerType]
      /\ \A s \in Pollers \ {q} : poller'[s] = poller[s]
      /\ poller'[q].pc \in {"finalize", "sending"} /\ poller'[q].row = n
      /\ poller'[q].claim = poller[q].claim /\ DOMAIN poller'[q].batch = batch
      /\ \A k \in batch : poller'[q].batch[k] = "sent"
  <2>1. PICK pc \in {"finalize", "sending"} : pc = IF batch = {} THEN "finalize" ELSE "sending"
    OBVIOUS
  <2>2. PICK b : b = [k \in batch |-> "sent"]
    OBVIOUS
  <2>3. b \in Batches /\ pc \in PollerStates
    BY <1>5, <2>2, BatchMade DEF PollerStates, InSession
  <2>4. PICK v : v = [poller[q] EXCEPT !.pc = pc, !.batch = b]
    OBVIOUS
  <2>5. poller' = [poller EXCEPT ![q] = v]
    BY <1>1, <2>1, <2>2, <2>4 DEF OutboxShape
  <2>6. /\ poller[q] \in PollerType /\ poller[q].row \in Notifications \cup {"none"}
        /\ poller[q].claim \in Nat
    BY OutboxFields
  <2>7. v = [pc |-> pc, row |-> poller[q].row, claim |-> poller[q].claim, batch |-> b]
    BY <2>4, <2>6, Zenon DEF PollerType
  <2>8. /\ v \in PollerType /\ v.pc = pc /\ v.row = n /\ v.claim = poller[q].claim
        /\ v.batch = b
    BY <1>a, <2>3, <2>6, <2>7, Zenon DEF PollerType
  <2>9. poller' \in [Pollers -> PollerType] /\ poller'[q] = v
        /\ \A s \in Pollers \ {q} : poller'[s] = poller[s]
    BY <2>5, <2>8 DEF OutboxShape
  <2> QED BY <2>1, <2>2, <2>8, <2>9
<1>8. \A k \in Tokens :
        /\ delivery'[n][k].generation = delivery[n][k].generation
        /\ delivery[n][k].status \in Settled => delivery'[n][k].status = delivery[n][k].status
        /\ delivery'[n][k].status = "enviado" => delivery[n][k].status = "enviado"
        /\ k \in batch => delivery'[n][k].status = "processando"
        /\ delivery'[n][k].attempts =
             IF k \in batch THEN delivery[n][k].attempts + 1 ELSE delivery[n][k].attempts
  BY <1>4, <1>6
<1> QED BY <1>5, <1>6, <1>7, <1>8, Zenon DEF DeliveriesClaimed

\* A claim of deliveries keeps it.
LEMMA ClaimDeliveriesKept ==
  ASSUME OutboxInv, NEW q \in Pollers, ClaimDeliveries(q)
  PROVE  OutboxInv'
<1>0. /\ OutboxShape /\ ClaimsAreKnown /\ ClaimsAreUnique /\ BatchesAreClaimed
      /\ SendsAreCounted /\ AnswersWereSent /\ EndedTells
  BY DEF OutboxInv
<1>1. PICK n : n = poller[q].row
  OBVIOUS
<1>2. /\ poller[q].pc = "renew" /\ Owned(q)
      /\ UNCHANGED <<database, outbox, token, issued, sends, faults>>
  BY DEF ClaimDeliveries
<1>3. n \in Notifications /\ outbox[n].status = "processando" /\ poller[q].pc \in Working
  BY <1>0, <1>1, <1>2 DEF Owned, ClaimsAreKnown, Working
<1>a. PICK batch \in SUBSET Tokens : DeliveriesClaimed(q, n, batch)
  BY <1>0, <1>1, <1>3, ClaimDeliveriesEffect
<1>4. /\ poller' \in [Pollers -> PollerType] /\ \A s \in Pollers \ {q} : poller'[s] = poller[s]
      /\ poller'[q].pc \in {"finalize", "sending"} /\ poller'[q].row = n
      /\ poller'[q].claim = poller[q].claim /\ DOMAIN poller'[q].batch = batch
      /\ \A k \in batch : poller'[q].batch[k] = "sent"
      /\ delivery' \in [Notifications -> [Tokens -> DeliveryRow]]
      /\ \A m \in Notifications : m # n => delivery'[m] = delivery[m]
  BY <1>a DEF DeliveriesClaimed
<1>5. \A k \in Tokens :
        /\ delivery'[n][k].generation = delivery[n][k].generation
        /\ delivery'[n][k].status = "enviado" => delivery[n][k].status = "enviado"
        /\ k \in batch => delivery'[n][k].status = "processando"
        /\ delivery'[n][k].attempts =
             IF k \in batch THEN delivery[n][k].attempts + 1 ELSE delivery[n][k].attempts
  BY <1>a DEF DeliveriesClaimed
<1>6. OutboxShape'
  BY <1>0, <1>2, <1>4 DEF OutboxShape
<1>7. /\ ClaimsAreKnown' /\ ClaimsAreUnique'
      /\ \A s \in Pollers \ {q} :
           poller[s].pc = "sending" /\ Owned(s)' =>
             \A k \in DOMAIN poller[s].batch : delivery'[poller[s].row][k].status = "processando"
  BY <1>1, <1>2, <1>3, <1>4, OwnerKeepsClaims
<1>8. BatchesAreClaimed'
  BY <1>1, <1>4, <1>5, <1>7 DEF BatchesAreClaimed
<1>9. SendsAreCounted'
  <2>1. ASSUME NEW m \in Notifications, NEW k \in Tokens
        PROVE  /\ IsFiniteSet(Outstanding(m, k)')
               /\ sends'[m][k] + Cardinality(Outstanding(m, k)') <= delivery'[m][k].attempts
    <3>1. /\ delivery[m][k].attempts \in Nat /\ sends[m][k] \in Nat
          /\ IsFiniteSet(Outstanding(m, k)) /\ Cardinality(Outstanding(m, k)) \in Nat
          /\ sends[m][k] + Cardinality(Outstanding(m, k)) <= delivery[m][k].attempts
      <4>1. delivery[m][k].attempts \in 0 .. MaxAttempts /\ sends[m][k] \in Nat
        BY <1>0, OutboxFields
      <4> QED BY <1>0, <4>1, FS_CardinalityType DEF SendsAreCounted
    <3>2. CASE m = n /\ k \in batch
      <4>1. Outstanding(m, k)' \subseteq Outstanding(m, k) \cup {q}
        BY <1>4 DEF Outstanding
      <4>2. /\ IsFiniteSet(Outstanding(m, k) \cup {q})
            /\ Cardinality(Outstanding(m, k) \cup {q}) <= Cardinality(Outstanding(m, k)) + 1
        <5>1. IsFiniteSet(Outstanding(m, k))
          BY <3>1
        <5>2. /\ IsFiniteSet(Outstanding(m, k) \cup {q})
              /\ Cardinality(Outstanding(m, k) \cup {q}) =
                   IF q \in Outstanding(m, k) THEN Cardinality(Outstanding(m, k))
                   ELSE Cardinality(Outstanding(m, k)) + 1
          BY <5>1, FS_AddElement
        <5> QED BY <3>1, <5>2
      <4>3. /\ IsFiniteSet(Outstanding(m, k)')
            /\ Cardinality(Outstanding(m, k)') <= Cardinality(Outstanding(m, k) \cup {q})
        BY <4>1, <4>2, FS_Subset
      <4>4. Cardinality(Outstanding(m, k)') \in Nat /\ Cardinality(Outstanding(m, k) \cup {q}) \in Nat
        BY <4>2, <4>3, FS_CardinalityType
      <4>5. delivery'[m][k].attempts = delivery[m][k].attempts + 1 /\ sends'[m][k] = sends[m][k]
        BY <1>2, <1>5, <3>2
      <4> QED BY <3>1, <4>2, <4>3, <4>4, <4>5
    <3>3. CASE m # n \/ k \notin batch
      <4>1. Outstanding(m, k)' \subseteq Outstanding(m, k)
        BY <1>4, <3>3 DEF Outstanding
      <4>2. delivery'[m][k].attempts = delivery[m][k].attempts
        BY <1>4, <1>5, <3>3
      <4> QED BY <1>0, <1>2, <1>6, <3>1, <4>1, <4>2, SendsCountKept
    <3> QED BY <3>2, <3>3
  <2> QED BY <2>1 DEF SendsAreCounted
<1>10. AnswersWereSent'
  <2>1. \A m \in Notifications, k \in Tokens :
          delivery'[m][k].status = "enviado" => delivery[m][k].status = "enviado"
    BY <1>4, <1>5
  <2> QED BY <1>0, <1>2, <1>4, <2>1 DEF AnswersWereSent
<1>11. EndedTells'
  <2>1. "processando" \notin Final
    BY DEF Final
  <2>2. \A m \in Notifications : outbox'[m].status \in Final =>
          outbox'[m].status = outbox[m].status /\ delivery'[m] = delivery[m]
    BY <1>2, <1>3, <1>4, <2>1
  <2>3. \A m \in Notifications, k \in Tokens :
          delivery[m][k].generation # 0 => delivery'[m][k].generation = delivery[m][k].generation
    BY <1>4, <1>5
  <2>4. \A k \in Tokens : token'[k] = 0 /\ issued[k] > 1 =>
          \E m \in Notifications : delivery[m][k].generation = issued[k]
    BY <1>0, <1>2 DEF EndedTells
  <2> QED BY <1>0, <1>2, <2>2, <2>3, <2>4, EndedKept
<1> QED BY <1>6, <1>7, <1>8, <1>9, <1>10, <1>11 DEF OutboxInv

\* An answer turns one outstanding request into one that was sent.
LEMMA AnswerKept ==
  ASSUME OutboxInv, NEW q \in Pollers, NEW l \in Tokens, NEW category \in Categories,
         Answer(q, l, category)
  PROVE  OutboxInv'
<1>0. /\ OutboxShape /\ ClaimsAreKnown /\ ClaimsAreUnique /\ BatchesAreClaimed
      /\ SendsAreCounted /\ AnswersWereSent /\ EndedTells
  BY DEF OutboxInv
<1>1. PICK n : n = poller[q].row
  OBVIOUS
<1>2. PICK b : b = [poller[q].batch EXCEPT ![l] = category]
  OBVIOUS
<1>3. PICK v : v = [poller[q] EXCEPT !.batch = b]
  OBVIOUS
<1>4. /\ poller[q].pc = "sending" /\ l \in DOMAIN poller[q].batch /\ poller[q].batch[l] = "sent"
      /\ poller' = [poller EXCEPT ![q] = v]
      /\ sends' = [sends EXCEPT ![n] = [sends[n] EXCEPT ![l] = sends[n][l] + 1]]
      /\ UNCHANGED <<database, outbox, delivery, token, issued, faults>>
  BY <1>0, <1>1, <1>2, <1>3 DEF Answer, OutboxShape
<1>5. n \in Notifications /\ "sending" \in Working
  BY <1>0, <1>1, <1>4 DEF ClaimsAreKnown, Working
<1>6. category # "sent"
  BY DEF Categories
<1>7. /\ b \in Batches /\ DOMAIN b = DOMAIN poller[q].batch
      /\ \A k \in DOMAIN b : b[k] = IF k = l THEN category ELSE poller[q].batch[k]
  <2>1. PICK D \in SUBSET Tokens : poller[q].batch \in [D -> Categories \cup {"sent"}]
    BY <1>0, OutboxFields DEF Batches
  <2>2. b \in [D -> Categories \cup {"sent"}]
    BY <1>2, <2>1
  <2> QED BY <1>2, <2>1, <2>2 DEF Batches
<1>8. /\ v \in PollerType /\ v.pc = "sending" /\ v.row = n /\ v.claim = poller[q].claim
      /\ v.batch = b
  <2>1. poller[q] \in PollerType
    BY <1>0, OutboxFields
  <2>2. v = [pc |-> poller[q].pc, row |-> poller[q].row, claim |-> poller[q].claim, batch |-> b]
    BY <1>3, <2>1 DEF PollerType
  <2> QED BY <1>1, <1>4, <1>7, <2>1, <2>2 DEF PollerType
<1>9. /\ poller' \in [Pollers -> PollerType]
      /\ \A s \in Pollers : poller'[s] = IF s = q THEN v ELSE poller[s]
  BY <1>0, <1>4, <1>8 DEF OutboxShape
<1>10. /\ sends' \in [Notifications -> [Tokens -> Nat]]
       /\ \A m \in Notifications, k \in Tokens :
            sends'[m][k] = IF m = n /\ k = l THEN sends[m][k] + 1 ELSE sends[m][k]
  BY <1>0, <1>4, <1>5 DEF OutboxShape
<1>11. OutboxShape'
  BY <1>0, <1>4, <1>9, <1>10 DEF OutboxShape
<1>12. \A s \in Pollers : /\ poller'[s].pc = poller[s].pc /\ poller'[s].row = poller[s].row
                          /\ poller'[s].claim = poller[s].claim
                          /\ DOMAIN poller'[s].batch = DOMAIN poller[s].batch
                          /\ Owned(s)' <=> Owned(s)
  BY <1>1, <1>4, <1>7, <1>8, <1>9 DEF Owned
<1>13. ClaimsAreKnown' /\ ClaimsAreUnique'
  BY <1>0, <1>4, <1>12 DEF ClaimsAreKnown, ClaimsAreUnique
<1>14. BatchesAreClaimed'
  BY <1>0, <1>4, <1>12 DEF BatchesAreClaimed
<1>15. SendsAreCounted'
  <2>1. ASSUME NEW m \in Notifications, NEW k \in Tokens
        PROVE  /\ IsFiniteSet(Outstanding(m, k)')
               /\ sends'[m][k] + Cardinality(Outstanding(m, k)') <= delivery'[m][k].attempts
    <3>1. /\ delivery[m][k].attempts \in Nat /\ sends[m][k] \in Nat
          /\ IsFiniteSet(Outstanding(m, k)) /\ Cardinality(Outstanding(m, k)) \in Nat
          /\ sends[m][k] + Cardinality(Outstanding(m, k)) <= delivery[m][k].attempts
      <4>1. delivery[m][k].attempts \in 0 .. MaxAttempts /\ sends[m][k] \in Nat
        BY <1>0, OutboxFields
      <4> QED BY <1>0, <4>1, FS_CardinalityType DEF SendsAreCounted
    <3>2. CASE m = n /\ k = l
      <4>1. Outstanding(m, k)' = Outstanding(m, k) \ {q} /\ q \in Outstanding(m, k)
        BY <1>1, <1>4, <1>6, <1>7, <1>8, <1>9, <3>2 DEF Outstanding
      <4>2. /\ IsFiniteSet(Outstanding(m, k)')
            /\ Cardinality(Outstanding(m, k)') = Cardinality(Outstanding(m, k)) - 1
        BY <3>1, <4>1, FS_RemoveElement
      <4>3. sends'[m][k] = sends[m][k] + 1
        BY <1>10, <3>2
      <4> QED BY <1>4, <3>1, <4>2, <4>3
    <3>3. CASE m # n \/ k # l
      <4>1. Outstanding(m, k)' \subseteq Outstanding(m, k)
        BY <1>1, <1>4, <1>7, <1>8, <1>9, <3>3 DEF Outstanding
      <4>2. sends'[m][k] = sends[m][k]
        BY <1>10, <3>3
      <4> QED BY <1>0, <1>4, <1>11, <3>1, <4>1, <4>2, SendsCountKept
    <3> QED BY <3>2, <3>3
  <2> QED BY <2>1 DEF SendsAreCounted
<1>16. AnswersWereSent'
  <2>1. \A m \in Notifications, k \in Tokens : sends[m][k] > 0 => sends'[m][k] > 0
    BY <1>0, <1>10, OutboxFields
  <2>2. sends'[n][l] > 0
    BY <1>0, <1>5, <1>10, OutboxFields
  <2>3. ASSUME NEW s \in Pollers, poller'[s].pc = "sending", NEW k \in DOMAIN poller'[s].batch,
               poller'[s].batch[k] # "sent"
        PROVE  sends'[poller'[s].row][k] > 0
    <3>1. k \in Tokens /\ poller[s].row \in Notifications
      BY <1>0, <1>5, <1>12, <2>3, OutboxFields, BatchFields DEF ClaimsAreKnown
    <3>2. CASE s = q /\ k = l
      BY <1>8, <1>9, <2>2, <3>2
    <3>3. CASE ~(s = q /\ k = l)
      <4>1. poller[s].batch[k] # "sent" /\ k \in DOMAIN poller[s].batch
        BY <1>7, <1>8, <1>9, <1>12, <2>3, <3>3
      <4> QED BY <1>0, <1>12, <2>1, <2>3, <3>1, <4>1 DEF AnswersWereSent
    <3> QED BY <3>2, <3>3
  <2>4. \A m \in Notifications, k \in Tokens : delivery'[m][k].status = "enviado" => sends'[m][k] > 0
    BY <1>0, <1>4, <2>1 DEF AnswersWereSent
  <2> QED BY <2>3, <2>4 DEF AnswersWereSent
<1>17. EndedTells'
  <2>1. \A m \in Notifications, k \in Tokens : sends[m][k] > 0 => sends'[m][k] > 0
    BY <1>0, <1>10, OutboxFields
  <2>2. \A k \in Tokens : token'[k] = 0 /\ issued[k] > 1 =>
          \E m \in Notifications : delivery[m][k].generation = issued[k]
    BY <1>0, <1>4 DEF EndedTells
  <2> QED BY <1>0, <1>4, <2>1, <2>2, EndedKept
<1> QED BY <1>11, <1>13, <1>14, <1>15, <1>16, <1>17 DEF OutboxInv

\* What the record of a result does: one delivery gets it, and leaves the batch.
ResultRecorded(q, n, l) ==
  /\ delivery' \in [Notifications -> [Tokens -> DeliveryRow]]
  /\ \A m \in Notifications, k \in Tokens : m # n \/ k # l => delivery'[m][k] = delivery[m][k]
  /\ delivery'[n][l].attempts = delivery[n][l].attempts
  /\ delivery'[n][l].generation = delivery[n][l].generation
  /\ delivery'[n][l].status = "enviado" => poller[q].batch[l] # "sent"
  /\ poller' \in [Pollers -> PollerType]
  /\ \A s \in Pollers \ {q} : poller'[s] = poller[s]
  /\ poller'[q].row = n /\ poller'[q].claim = poller[q].claim
  /\ DOMAIN poller'[q].batch = DOMAIN poller[q].batch \ {l}
  /\ \A k \in DOMAIN poller'[q].batch : poller'[q].batch[k] = poller[q].batch[k]

\* What the record of an answer changes, if the claim is in force.
LEMMA RecordDeliveryEffect ==
  ASSUME OutboxShape, NEW q \in Pollers, NEW n \in Notifications, n = poller[q].row,
         NEW l \in Tokens, RecordDelivery(q, l)
  PROVE  ResultRecorded(q, n, l)
<1>a. poller[q].row = n
  OBVIOUS
<1>b. l \in DOMAIN poller[q].batch /\ poller[q].batch \in Batches /\ poller[q].batch[l] # "sent"
  BY OutboxFields DEF RecordDelivery
<1>1. PICK status \in {"enviado", "pendente", "erro"} :
        delivery' = [delivery EXCEPT ![poller[q].row][l] =
                       [@ EXCEPT !.claim = 0, !.due = FALSE, !.status = status]]
  BY DEF RecordDelivery
<1>2. PICK d : d = delivery[n][l]
  OBVIOUS
<1>3. PICK w : w = [d EXCEPT !.claim = 0, !.due = FALSE, !.status = status]
  OBVIOUS
<1>4. delivery' = [delivery EXCEPT ![n] = [delivery[n] EXCEPT ![l] = w]]
  BY <1>a, <1>1, <1>2, <1>3 DEF OutboxShape
<1>5. d \in DeliveryRow
  BY <1>2, OutboxFields
<1>6. w = [status |-> status, claim |-> 0, attempts |-> d.attempts, generation |-> d.generation,
           due |-> FALSE]
  BY <1>3, <1>5 DEF DeliveryRow
<1>7. w \in DeliveryRow /\ w.attempts = d.attempts /\ w.generation = d.generation
  BY <1>5, <1>6 DEF DeliveryRow, Settled
<1>8. /\ delivery' \in [Notifications -> [Tokens -> DeliveryRow]] /\ delivery'[n][l] = w
      /\ \A m \in Notifications, k \in Tokens : m # n \/ k # l => delivery'[m][k] = delivery[m][k]
  BY <1>4, <1>7 DEF OutboxShape
<1>9. PICK b : b = Without(l, poller[q].batch)
  OBVIOUS
<1>10. /\ b \in Batches /\ DOMAIN b = DOMAIN poller[q].batch \ {l}
       /\ \A k \in DOMAIN b : b[k] = poller[q].batch[k]
  <2>1. DOMAIN poller[q].batch \ {l} \in SUBSET Tokens
        /\ \A k \in DOMAIN poller[q].batch : poller[q].batch[k] \in Categories \cup {"sent"}
    BY <1>b, BatchFields
  <2>2. b = [k \in DOMAIN poller[q].batch \ {l} |-> poller[q].batch[k]]
    BY <1>9 DEF Without
  <2>3. b \in [DOMAIN poller[q].batch \ {l} -> Categories \cup {"sent"}]
    BY <2>1, <2>2
  <2> QED BY <2>1, <2>2, <2>3, BatchMade
<1>11. PICK pc \in {"renew", "sending"} :
         poller' = [poller EXCEPT ![q].batch = b, ![q].pc = pc]
  BY <1>9 DEF RecordDelivery
<1>12. PICK v : v = [poller[q] EXCEPT !.batch = b, !.pc = pc]
  OBVIOUS
<1>13. poller' = [poller EXCEPT ![q] = v]
  BY <1>11, <1>12 DEF OutboxShape
<1>14. /\ poller[q] \in PollerType /\ poller[q].claim \in Nat /\ pc \in PollerStates
  BY OutboxFields DEF PollerStates, InSession
<1>15. v = [pc |-> pc, row |-> n, claim |-> poller[q].claim, batch |-> b]
  BY <1>a, <1>12, <1>14 DEF PollerType
<1>16. v \in PollerType /\ v.row = n /\ v.claim = poller[q].claim /\ v.batch = b
  BY <1>10, <1>14, <1>15 DEF PollerType
<1>17. /\ poller' \in [Pollers -> PollerType] /\ poller'[q] = v
       /\ \A s \in Pollers \ {q} : poller'[s] = poller[s]
  BY <1>13, <1>16 DEF OutboxShape
<1> QED BY <1>2, <1>7, <1>8, <1>10, <1>16, <1>17, <1>b DEF ResultRecorded

\* An answer that is recorded keeps it.
LEMMA RecordDeliveryKept ==
  ASSUME OutboxInv, NEW q \in Pollers, NEW l \in Tokens, RecordDelivery(q, l)
  PROVE  OutboxInv'
<1>0. /\ OutboxShape /\ ClaimsAreKnown /\ ClaimsAreUnique /\ BatchesAreClaimed
      /\ SendsAreCounted /\ AnswersWereSent /\ EndedTells
  BY DEF OutboxInv
<1>1. PICK n : n = poller[q].row
  OBVIOUS
<1>2. /\ poller[q].pc = "sending" /\ Owned(q) /\ l \in DOMAIN poller[q].batch
      /\ token' = [token EXCEPT ![l] = IF @ = delivery[n][l].generation THEN 0 ELSE @]
         \/ UNCHANGED token
      /\ UNCHANGED <<database, outbox, issued, sends, faults>>
  BY <1>1 DEF RecordDelivery, Unregister
<1>3. n \in Notifications /\ outbox[n].status = "processando" /\ poller[q].pc \in Working
  BY <1>0, <1>1, <1>2 DEF Owned, ClaimsAreKnown, Working
<1>a. ResultRecorded(q, n, l)
  BY <1>0, <1>1, <1>3, RecordDeliveryEffect
<1>4. /\ delivery' \in [Notifications -> [Tokens -> DeliveryRow]]
      /\ \A m \in Notifications, k \in Tokens : m # n \/ k # l => delivery'[m][k] = delivery[m][k]
      /\ delivery'[n][l].attempts = delivery[n][l].attempts
      /\ delivery'[n][l].generation = delivery[n][l].generation
      /\ delivery'[n][l].status = "enviado" => poller[q].batch[l] # "sent"
  BY <1>a DEF ResultRecorded
<1>5. /\ poller' \in [Pollers -> PollerType]
      /\ \A s \in Pollers \ {q} : poller'[s] = poller[s]
      /\ poller'[q].row = n /\ poller'[q].claim = poller[q].claim
      /\ DOMAIN poller'[q].batch = DOMAIN poller[q].batch \ {l}
      /\ \A k \in DOMAIN poller'[q].batch : poller'[q].batch[k] = poller[q].batch[k]
  BY <1>a DEF ResultRecorded
<1>6. /\ token' \in [Tokens -> Nat]
      /\ \A k \in Tokens : \/ token'[k] = token[k]
                           \/ k = l /\ token'[k] = 0 /\ token[k] = delivery[n][l].generation
  BY <1>0, <1>2 DEF OutboxShape
<1>7. OutboxShape'
  BY <1>0, <1>2, <1>4, <1>5, <1>6 DEF OutboxShape
<1>8. \A m \in Notifications : m # n => delivery'[m] = delivery[m]
  BY <1>0, <1>4 DEF OutboxShape
<1>9. /\ ClaimsAreKnown' /\ ClaimsAreUnique'
      /\ \A s \in Pollers \ {q} :
           poller[s].pc = "sending" /\ Owned(s)' =>
             \A k \in DOMAIN poller[s].batch : delivery'[poller[s].row][k].status = "processando"
  BY <1>1, <1>2, <1>3, <1>5, <1>8, OwnerKeepsClaims
<1>10. DOMAIN poller[q].batch \subseteq Tokens
  BY <1>0, OutboxFields, BatchFields
<1>11. BatchesAreClaimed'
  <2>1. ASSUME NEW k \in DOMAIN poller'[q].batch
        PROVE  delivery'[n][k].status = "processando"
    BY <1>0, <1>1, <1>2, <1>3, <1>4, <1>5, <1>10 DEF BatchesAreClaimed
  <2> QED BY <1>5, <1>9, <2>1 DEF BatchesAreClaimed
<1>12. \A m \in Notifications, k \in Tokens :
         /\ delivery'[m][k].attempts = delivery[m][k].attempts
         /\ delivery'[m][k].generation = delivery[m][k].generation
  BY <1>4
<1>13. SendsAreCounted'
  <2>1. ASSUME NEW m \in Notifications, NEW k \in Tokens
        PROVE  /\ IsFiniteSet(Outstanding(m, k)')
               /\ sends'[m][k] + Cardinality(Outstanding(m, k)') <= delivery'[m][k].attempts
    <3>1. delivery[m][k].attempts \in Nat
      BY <1>0, OutboxFields
    <3>2. Outstanding(m, k)' \subseteq Outstanding(m, k)
      BY <1>1, <1>2, <1>5 DEF Outstanding
    <3> QED BY <1>0, <1>2, <1>7, <1>12, <3>1, <3>2, SendsCountKept DEF SendsAreCounted
  <2> QED BY <2>1 DEF SendsAreCounted
<1>14. AnswersWereSent'
  <2>1. delivery'[n][l].status = "enviado" => sends[n][l] > 0
    BY <1>0, <1>1, <1>2, <1>4 DEF AnswersWereSent
  <2>2. \A m \in Notifications, k \in Tokens : delivery'[m][k].status = "enviado" => sends'[m][k] > 0
    BY <1>0, <1>2, <1>4, <2>1 DEF AnswersWereSent
  <2>3. \A s \in Pollers : poller'[s].pc = "sending" =>
          \A k \in DOMAIN poller'[s].batch :
            poller'[s].batch[k] # "sent" => sends'[poller'[s].row][k] > 0
    BY <1>0, <1>1, <1>2, <1>5 DEF AnswersWereSent
  <2> QED BY <2>2, <2>3 DEF AnswersWereSent
<1>15. EndedTells'
  <2>1. "processando" \notin Final
    BY DEF Final
  <2>2. \A m \in Notifications : outbox'[m].status \in Final =>
          outbox'[m].status = outbox[m].status /\ delivery'[m] = delivery[m]
    BY <1>2, <1>3, <1>8, <2>1
  <2>3. ASSUME NEW k \in Tokens, token'[k] = 0, issued[k] > 1
        PROVE  \E m \in Notifications : delivery[m][k].generation = issued[k]
    <3>1. CASE token'[k] = token[k]
      BY <1>0, <2>3, <3>1 DEF EndedTells
    <3>2. CASE k = l /\ token'[k] = 0 /\ token[k] = delivery[n][l].generation /\ token[k] # 0
      BY <1>0, <1>3, <3>2 DEF OutboxShape
    <3> QED BY <1>6, <2>3, <3>1, <3>2
  <2> QED BY <1>0, <1>2, <1>12, <2>2, <2>3, EndedKept
<1> QED BY <1>7, <1>9, <1>11, <1>13, <1>14, <1>15 DEF OutboxInv

\* A status tells how the deliveries ended, and only when all of them have.
LEMMA StatusTells ==
  ASSUME NEW n \in Notifications
  PROVE  /\ StatusOf(n) \in {"pendente"} \cup Final
         /\ StatusOf(n) \in Final => Open(n) = {}
         /\ StatusOf(n) = "enviado" => \A k \in RowsOf(n) : delivery[n][k].status = "enviado"
<1>1. PICK sent : sent = {k \in RowsOf(n) : delivery[n][k].status = "enviado"}
  OBVIOUS
<1>2. CASE Open(n) # {}
  BY <1>2 DEF StatusOf, Final
<1>3. CASE Open(n) = {}
  <2>1. StatusOf(n) = StatusOfSent(n)
    BY <1>3 DEF StatusOf
  <2>2. StatusOfSent(n) = CASE RowsOf(n) = {} -> "sem_token"
                            [] RowsOf(n) # {} /\ sent = {} -> "erro"
                            [] RowsOf(n) # {} /\ sent = RowsOf(n) -> "enviado"
                            [] OTHER -> "enviado_parcial"
    BY <1>1 DEF StatusOfSent
  <2>3. CASE RowsOf(n) = {}
    <3>1. StatusOfSent(n) = "sem_token"
      BY <2>2, <2>3
    <3> QED BY <1>3, <2>1, <2>3, <3>1 DEF Final
  <2>4. CASE RowsOf(n) # {} /\ sent = {}
    <3>1. StatusOfSent(n) = "erro"
      BY <2>2, <2>4
    <3> QED BY <1>3, <2>1, <3>1 DEF Final
  <2>5. CASE RowsOf(n) # {} /\ sent # {} /\ sent = RowsOf(n)
    <3>1. StatusOfSent(n) = "enviado"
      BY <2>2, <2>5
    <3> QED BY <1>1, <1>3, <2>1, <2>5, <3>1 DEF Final
  <2>6. CASE RowsOf(n) # {} /\ sent # {} /\ sent # RowsOf(n)
    <3>1. StatusOfSent(n) = "enviado_parcial"
      BY <2>2, <2>6
    <3> QED BY <1>3, <2>1, <3>1 DEF Final
  <2> QED BY <2>3, <2>4, <2>5, <2>6
<1> QED BY <1>2, <1>3

\* A notification that ends keeps it.
LEMMA FinalizeKept ==
  ASSUME OutboxInv, NEW q \in Pollers, FinalizeNotification(q)
  PROVE  OutboxInv'
<1>0. /\ OutboxShape /\ ClaimsAreKnown /\ ClaimsAreUnique /\ BatchesAreClaimed
      /\ SendsAreCounted /\ AnswersWereSent /\ EndedTells
  BY DEF OutboxInv
<1>1. PICK n : n = poller[q].row
  OBVIOUS
<1>2. /\ poller[q].pc = "finalize" /\ Owned(q) /\ poller' = [poller EXCEPT ![q] = Idle("top")]
      /\ UNCHANGED <<database, delivery, token, issued, sends, faults>>
  BY DEF FinalizeNotification
<1>3. n \in Notifications /\ poller[q].pc \in Working
  BY <1>0, <1>1, <1>2 DEF ClaimsAreKnown, Working
<1>4. PICK due \in BOOLEAN : due = \E k \in Open(n) : delivery[n][k].due
  OBVIOUS
<1>5. PICK v : v = [outbox[n] EXCEPT !.status = StatusOf(n), !.due = due]
  OBVIOUS
<1>6. outbox' = [outbox EXCEPT ![n] = v]
  BY <1>0, <1>1, <1>4, <1>5 DEF FinalizeNotification, OutboxShape
<1>7. v \in OutboxRow /\ v.status = StatusOf(n) /\ v.claim = outbox[n].claim
  <2>1. outbox[n] \in OutboxRow /\ StatusOf(n) \in {"pendente"} \cup Final
    BY <1>0, <1>3, OutboxFields, StatusTells
  <2>2. v = [status |-> StatusOf(n), claim |-> outbox[n].claim, lapsed |-> outbox[n].lapsed,
             due |-> due, initialized |-> outbox[n].initialized]
    BY <1>5, <2>1 DEF OutboxRow
  <2> QED BY <2>1, <2>2 DEF OutboxRow
<1>8. /\ outbox' \in [Notifications -> OutboxRow]
      /\ \A m \in Notifications : outbox'[m] = IF m = n THEN v ELSE outbox[m]
  BY <1>0, <1>3, <1>6, <1>7 DEF OutboxShape
<1>9. /\ poller' \in [Pollers -> PollerType] /\ \A s \in Pollers \ {q} : poller'[s] = poller[s]
      /\ poller'[q].pc = "top" /\ poller'[q].pc \notin Working
  <2>1. Idle("top") \in PollerType /\ Idle("top").pc = "top" /\ "top" \notin Working
    BY IdleIsAPoller DEF PollerStates, InSession, Working
  <2> QED BY <1>0, <1>2, <2>1 DEF OutboxShape
<1>10. OutboxShape'
  BY <1>0, <1>2, <1>8, <1>9 DEF OutboxShape
<1>11. /\ ClaimsAreKnown' /\ ClaimsAreUnique'
       /\ \A s \in Pollers \ {q} :
            poller[s].pc = "sending" /\ Owned(s)' =>
              \A k \in DOMAIN poller[s].batch : delivery'[poller[s].row][k].status = "processando"
  <2>1. \A m \in Notifications : /\ outbox'[m].claim = outbox[m].claim
                                 /\ m # poller[q].row => outbox'[m] = outbox[m]
    BY <1>1, <1>7, <1>8
  <2> QED BY <1>2, <1>3, <1>9, <2>1, OwnerKeepsClaims
<1>12. BatchesAreClaimed'
  BY <1>9, <1>11 DEF BatchesAreClaimed
<1>13. SendsAreCounted'
  <2>1. ASSUME NEW m \in Notifications, NEW k \in Tokens
        PROVE  /\ IsFiniteSet(Outstanding(m, k)')
               /\ sends'[m][k] + Cardinality(Outstanding(m, k)') <= delivery'[m][k].attempts
    <3>1. delivery[m][k].attempts \in Nat /\ delivery'[m][k].attempts = delivery[m][k].attempts
      BY <1>0, <1>2, OutboxFields
    <3>2. Outstanding(m, k)' \subseteq Outstanding(m, k)
      BY <1>9 DEF Outstanding
    <3> QED BY <1>0, <1>2, <1>10, <3>1, <3>2, SendsCountKept DEF SendsAreCounted
  <2> QED BY <2>1 DEF SendsAreCounted
<1>14. AnswersWereSent'
  BY <1>0, <1>2, <1>9 DEF AnswersWereSent
<1>15. EndedTells'
  <2>1. \A m \in Notifications : RowsOf(m)' = RowsOf(m) /\ Open(m)' = Open(m)
    BY <1>2 DEF Open, RowsOf, Recipients
  <2>2. ASSUME NEW m \in Notifications, outbox'[m].status \in Final
        PROVE  /\ Open(m)' = {}
               /\ outbox'[m].status = "enviado" =>
                    \A k \in RowsOf(m)' : sends'[m][k] > 0 /\ delivery'[m][k].status = "enviado"
    <3>1. CASE m = n
      <4>1. outbox'[m].status = StatusOf(m)
        BY <1>7, <1>8, <3>1
      <4>2. RowsOf(m) \subseteq Tokens
        BY DEF RowsOf, Recipients
      <4>3. Open(m) = {}
        BY <2>2, <4>1, StatusTells
      <4>4. StatusOf(m) = "enviado" =>
              \A k \in RowsOf(m) : sends[m][k] > 0 /\ delivery[m][k].status = "enviado"
        BY <1>0, <4>2, StatusTells DEF AnswersWereSent
      <4> QED BY <1>2, <2>1, <4>1, <4>3, <4>4
    <3>2. CASE m # n
      BY <1>0, <1>2, <1>8, <2>1, <2>2, <3>2 DEF EndedTells
    <3> QED BY <3>1, <3>2
  <2> QED BY <1>0, <1>2, <2>2 DEF EndedTells
<1> QED BY <1>10, <1>11, <1>12, <1>13, <1>14, <1>15 DEF OutboxInv

\* Every step keeps it.
LEMMA OutboxStepKept ==
  ASSUME OutboxInv, OutboxNext
  PROVE  OutboxInv'
<1>1. ASSUME NEW q \in Pollers, Session(q) \/ Disconnect(q) PROVE OutboxInv'
  <2>1. CASE Connect(q) \/ SessionEnds(q) \/ ClaimNothing(q) \/ ClaimLost(q) \/ Disconnect(q)
    BY <2>1, SessionStepsKept
  <2>2. CASE CreateDeliveryRows(q)
    BY <2>2, CreateDeliveryRowsKept
  <2>3. CASE ClaimDeliveries(q)
    BY <2>3, ClaimDeliveriesKept
  <2>4. CASE FinalizeNotification(q)
    BY <2>4, FinalizeKept
  <2>5. CASE \E n \in Notifications : ClaimNotification(q, n)
    BY <2>5, ClaimNotificationKept
  <2>6. CASE \E k \in Tokens : RecordDelivery(q, k)
    BY <2>6, RecordDeliveryKept
  <2>7. CASE \E k \in Tokens : \E c \in Categories : Answer(q, k, c)
    BY <2>7, AnswerKept
  <2> QED BY <1>1, <2>1, <2>2, <2>3, <2>4, <2>5, <2>6, <2>7 DEF Session
<1>2. CASE \/ \E p \in Processes : Reconcile(p) \/ ProcessRestarts(p)
           \/ \E t \in Tenants : DatabaseRemoved(t)
  BY <1>2, ProcessStepsKept
<1>3. CASE \E t \in Tenants : DatabaseBack(t)
  BY <1>3, DatabaseBackKept
<1>4. CASE \E n \in Notifications : Insert(n)
  BY <1>4, InsertNotificationKept
<1>5. CASE \E n \in Notifications : LeaseLapses(n)
  BY <1>5, LeaseLapsesKept
<1>6. CASE \E n \in Notifications : \E k \in Tokens : RetryIsDue(n, k)
  BY <1>6, RetryIsDueKept
<1>7. CASE \E k \in Tokens : Register(k)
  BY <1>7, RegisterKept
<1> QED BY <1>1, <1>2, <1>3, <1>4, <1>5, <1>6, <1>7 DEF OutboxNext

\* A stutter keeps it.
LEMMA OutboxStutterKept ==
  ASSUME OutboxInv, UNCHANGED outboxVars
  PROVE  OutboxInv'
<1>1. UNCHANGED <<database, outbox, delivery, token, issued, poller, sends, faults>>
  BY DEF outboxVars
<1>2. OutboxShape'
  BY <1>1 DEF OutboxInv, OutboxShape
<1> QED BY <1>1, <1>2, OutsideKept

\* The invariants need no fairness.
OutboxBehaviour == OutboxInit /\ [][OutboxNext]_outboxVars

\* In every behaviour of the outbox.
LEMMA OutboxInvariance == OutboxBehaviour => []OutboxInv
<1>1. OutboxInv /\ [OutboxNext]_outboxVars => OutboxInv'
  BY OutboxStepKept, OutboxStutterKept
<1> QED BY <1>1, OutboxInitHolds, PTL DEF OutboxBehaviour

\* The rows, the pollers and the registrations of the push worker are of their types.
THEOREM OutboxTyping == OutboxBehaviour => []OutboxTypeOK
<1>1. ASSUME OutboxInv PROVE OutboxTypeOK
  <2>0. OutboxShape
    BY <1>1 DEF OutboxInv
  <2>1. \A k \in Tokens : issued[k] \in 0 .. MaxGenerations[k] /\ token[k] \in {0, issued[k]}
    BY <2>0, OutboxAssumption DEF OutboxShape
  <2>2. \A q \in Pollers : /\ poller[q].pc \in {"off", "none", "waiting", "ended"} \cup InSession
                           /\ poller[q].row \in Notifications \cup {"none"}
                           /\ \A k \in DOMAIN poller[q].batch :
                                k \in Tokens /\ poller[q].batch[k] \in Categories \cup {"sent"}
    BY <2>0, OutboxFields, BatchFields DEF PollerStates
  <2> QED BY <2>0, <2>1, <2>2 DEF OutboxShape, OutboxTypeOK, OutboxRow, DeliveryRow
<1> QED BY <1>1, OutboxInvariance, PTL

\* A notification that ended stays as it is.
LEMMA FinalStays ==
  ASSUME OutboxInv, OutboxNext, NEW n \in Notifications, outbox[n].status \in Final
  PROVE  outbox'[n].status = outbox[n].status
<1>0. OutboxShape /\ outbox[n].status \notin {"none", "pendente", "processando"}
  BY DEF OutboxInv, Final
<1>1. CASE UNCHANGED outbox
  BY <1>1
<1>2. ASSUME NEW m \in Notifications, Insert(m) \/ LeaseLapses(m)
      PROVE  outbox'[n].status = outbox[n].status
  BY <1>0, <1>2 DEF Insert, LeaseLapses, OutboxShape
<1>3. ASSUME NEW m \in Notifications, NEW k \in Tokens, RetryIsDue(m, k)
      PROVE  outbox'[n].status = outbox[n].status
  <2>1. PICK due : outbox' = [outbox EXCEPT ![m].due = due]
    BY <1>3 DEF RetryIsDue
  <2>2. outbox[m] \in OutboxRow /\ outbox[n] \in OutboxRow
    BY <1>0, OutboxFields
  <2> QED BY <1>0, <2>1, <2>2 DEF OutboxShape, OutboxRow
<1>4. ASSUME NEW q \in Pollers, NEW m \in Notifications, ClaimNotification(q, m)
      PROVE  outbox'[n].status = outbox[n].status
  BY <1>0, <1>4 DEF ClaimNotification, Claimable, OutboxShape
<1>5. ASSUME NEW q \in Pollers, CreateDeliveryRows(q) \/ FinalizeNotification(q)
      PROVE  outbox'[n].status = outbox[n].status
  <2>1. poller[q].row # n
    BY <1>0, <1>5 DEF CreateDeliveryRows, FinalizeNotification, Owned
  <2>2. CASE CreateDeliveryRows(q)
    <3>1. PICK b : outbox' = [outbox EXCEPT ![poller[q].row].initialized = b]
      BY <2>2, Zenon DEF CreateDeliveryRows
    <3> QED BY <1>0, <2>1, <3>1 DEF OutboxShape
  <2>3. CASE FinalizeNotification(q)
    <3>1. PICK s, d : outbox' = [outbox EXCEPT ![poller[q].row].status = s, ![poller[q].row].due = d]
      BY <2>3 DEF FinalizeNotification
    <3> QED BY <1>0, <2>1, <3>1 DEF OutboxShape
  <2> QED BY <1>5, <2>2, <2>3
<1>6. UNCHANGED outbox \/ (\E m \in Notifications : Insert(m) \/ LeaseLapses(m))
      \/ (\E m \in Notifications : \E k \in Tokens : RetryIsDue(m, k))
      \/ (\E q \in Pollers : CreateDeliveryRows(q) \/ FinalizeNotification(q))
      \/ \E q \in Pollers : \E m \in Notifications : ClaimNotification(q, m)
  <2>1. ASSUME NEW q \in Pollers, Session(q) \/ Disconnect(q)
        PROVE  \/ UNCHANGED outbox \/ CreateDeliveryRows(q) \/ FinalizeNotification(q)
               \/ \E m \in Notifications : ClaimNotification(q, m)
    BY <2>1, Zenon DEF Session, Connect, SessionEnds, ClaimNothing, ClaimLost, ClaimDeliveries,
       RecordDelivery, Answer, Disconnect
  <2>2. ASSUME \/ \E p \in Processes : Reconcile(p) \/ ProcessRestarts(p)
               \/ \E t \in Tenants : DatabaseRemoved(t) \/ DatabaseBack(t)
               \/ \E k \in Tokens : Register(k)
        PROVE  UNCHANGED outbox
    BY <2>2, Zenon DEF Reconcile, ProcessRestarts, DatabaseRemoved, DatabaseBack, Register
  <2> QED BY <2>1, <2>2, Zenon DEF OutboxNext
<1> QED BY <1>1, <1>2, <1>3, <1>4, <1>5, <1>6

\* A result that was recorded stays as it is.
LEMMA SettledStays ==
  ASSUME OutboxInv, OutboxNext, NEW n \in Notifications, NEW k \in Tokens,
         delivery[n][k].status \in Settled
  PROVE  delivery'[n][k].status = delivery[n][k].status
<1>0. /\ OutboxShape /\ ClaimsAreKnown /\ BatchesAreClaimed
      /\ delivery[n][k].status \notin {"none", "pendente", "processando"}
  BY DEF OutboxInv, Settled
<1>1. CASE UNCHANGED delivery
  BY <1>1
<1>2. ASSUME NEW m \in Notifications, NEW l \in Tokens, RetryIsDue(m, l)
      PROVE  delivery'[n][k].status = delivery[n][k].status
  <2>1. delivery'[n][k] = IF m = n /\ l = k THEN [delivery[n][k] EXCEPT !.due = TRUE]
                          ELSE delivery[n][k]
    BY <1>0, <1>2 DEF RetryIsDue, OutboxShape
  <2>2. delivery[n][k] \in DeliveryRow
    BY <1>0, OutboxFields
  <2> QED BY <2>1, <2>2 DEF DeliveryRow
<1>3. ASSUME NEW q \in Pollers, CreateDeliveryRows(q)
      PROVE  delivery'[n][k].status = delivery[n][k].status
  <2>1. delivery[n][k] # NoRow
    BY <1>0 DEF NoRow
  <2>2. delivery'[n][k] = delivery[n][k]
    BY <1>0, <1>3, <2>1 DEF CreateDeliveryRows, OutboxShape
  <2> QED BY <2>2
<1>4. ASSUME NEW q \in Pollers, ClaimDeliveries(q)
      PROVE  delivery'[n][k].status = delivery[n][k].status
  <2>1. PICK m : m = poller[q].row
    OBVIOUS
  <2>2. m \in Notifications
    BY <1>0, <1>4, <2>1 DEF ClaimDeliveries, ClaimsAreKnown, Working
  <2>3. PICK batch \in SUBSET Tokens : DeliveriesClaimed(q, m, batch)
    BY <1>0, <1>4, <2>1, <2>2, ClaimDeliveriesEffect
  <2>4. CASE n = m
    BY <2>3, <2>4 DEF DeliveriesClaimed
  <2>5. CASE n # m
    BY <2>3, <2>5 DEF DeliveriesClaimed
  <2> QED BY <2>4, <2>5
<1>5. ASSUME NEW q \in Pollers, NEW l \in Tokens, RecordDelivery(q, l)
      PROVE  delivery'[n][k].status = delivery[n][k].status
  <2>1. PICK m : m = poller[q].row
    OBVIOUS
  <2>2. poller[q].pc = "sending" /\ Owned(q) /\ l \in DOMAIN poller[q].batch
    BY <1>5 DEF RecordDelivery
  <2>3. m \in Notifications /\ delivery[m][l].status = "processando"
    BY <1>0, <2>1, <2>2 DEF BatchesAreClaimed, ClaimsAreKnown, Working
  <2>4. ResultRecorded(q, m, l)
    BY <1>0, <1>5, <2>1, <2>3, RecordDeliveryEffect
  <2>5. n # m \/ k # l
    BY <1>0, <2>3
  <2> QED BY <2>4, <2>5 DEF ResultRecorded
<1>6. UNCHANGED delivery
      \/ (\E m \in Notifications : \E l \in Tokens : RetryIsDue(m, l))
      \/ (\E q \in Pollers : CreateDeliveryRows(q) \/ ClaimDeliveries(q))
      \/ \E q \in Pollers : \E l \in Tokens : RecordDelivery(q, l)
  <2>1. ASSUME NEW q \in Pollers, Session(q) \/ Disconnect(q)
        PROVE  \/ UNCHANGED delivery \/ CreateDeliveryRows(q) \/ ClaimDeliveries(q)
               \/ \E l \in Tokens : RecordDelivery(q, l)
    BY <2>1, Zenon DEF Session, Connect, SessionEnds, ClaimNothing, ClaimLost, ClaimNotification,
       FinalizeNotification, Answer, Disconnect
  <2>2. ASSUME \/ \E p \in Processes : Reconcile(p) \/ ProcessRestarts(p)
               \/ \E t \in Tenants : DatabaseRemoved(t) \/ DatabaseBack(t)
               \/ \E m \in Notifications : Insert(m) \/ LeaseLapses(m)
               \/ \E l \in Tokens : Register(l)
        PROVE  UNCHANGED delivery
    BY <2>2, Zenon DEF Reconcile, ProcessRestarts, DatabaseRemoved, DatabaseBack, Insert,
       LeaseLapses, Register
  <2> QED BY <2>1, <2>2, Zenon DEF OutboxNext
<1> QED BY <1>1, <1>2, <1>3, <1>4, <1>5, <1>6

\* However claims lapse and sessions overlap: a recorded result is never overwritten, a
\* notification that ended is never taken up again, and no device is sent a notification
\* more often than MaxAttempts.
THEOREM ResultsStay == OutboxBehaviour => ResultsStand
<1>1. ASSUME OutboxInv, OutboxInv', OutboxNext, NEW n \in Notifications
      PROVE  /\ outbox[n].status \in Final => outbox'[n].status = outbox[n].status
             /\ \A k \in Tokens : /\ delivery[n][k].status \in Settled =>
                                       delivery'[n][k].status = delivery[n][k].status
                                  /\ sends'[n][k] <= MaxAttempts
  <2>1. ASSUME NEW k \in Tokens PROVE sends'[n][k] <= MaxAttempts
    <3>1. SendsAreCounted' /\ OutboxShape'
      BY <1>1 DEF OutboxInv
    <3>2. delivery'[n][k].attempts \in 0 .. MaxAttempts /\ sends'[n][k] \in Nat
      BY <3>1 DEF OutboxShape, DeliveryRow
    <3>3. /\ IsFiniteSet(Outstanding(n, k)')
          /\ sends'[n][k] + Cardinality(Outstanding(n, k)') <= delivery'[n][k].attempts
      BY <3>1 DEF SendsAreCounted
    <3>4. Cardinality(Outstanding(n, k)') \in Nat
      BY <3>3, FS_CardinalityType
    <3> QED BY <3>2, <3>3, <3>4, OutboxAssumption
  <2> QED BY <1>1, <2>1, FinalStays, SettledStays
<1>2. OutboxInv /\ OutboxInv' /\ [OutboxNext]_outboxVars =>
        [\A n \in Notifications :
           /\ outbox[n].status \in Final => outbox'[n].status = outbox[n].status
           /\ \A k \in Tokens : /\ delivery[n][k].status \in Settled =>
                                     delivery'[n][k].status = delivery[n][k].status
                                /\ sends'[n][k] <= MaxAttempts]_outboxVars
  BY <1>1
<1> QED BY <1>2, OutboxInvariance, PTL DEF OutboxBehaviour, ResultsStand

\* A notification that ended has no delivery left, and its status tells how they ended; a
\* registration made after its recipients were read outlives its answers.
THEOREM EndedTellsHow == OutboxBehaviour => []EndedTells
<1>1. OutboxInv => EndedTells
  BY DEF OutboxInv
<1> QED BY <1>1, OutboxInvariance, PTL

\* The specification with its fairness is one of those behaviours.
THEOREM FairOutboxIsSafe == OutboxSpec => []OutboxTypeOK /\ []EndedTells /\ ResultsStand
BY OutboxTyping, EndedTellsHow, ResultsStay, PTL DEF OutboxSpec, OutboxBehaviour

-----------------------------------------------------------------------------
(* Capacity: the arithmetic of the shares. The limits anybody is about to write *)
(* are the ones of the totals written with them, so whoever is last leaves a    *)
(* .env that fits; and the two derivations agree, so a script gives the limits  *)
(* it found.                                                                    *)

\* A sum of rounded-down parts does not exceed what is divided.
LEMMA Rounding ==
  ASSUME NEW x \in Nat
  PROVE  /\ x \div 8 \in Nat /\ (2 * x) \div 8 \in Nat
         /\ x \div 8 + (2 * x) \div 8 <= x
         /\ x \div 6 \in Nat /\ (4 * x) \div 6 \in Nat
         /\ x \div 6 + (4 * x) \div 6 <= x
         /\ 5 * ((x * 80) \div 100) \in 4 * x - 4 .. 4 * x
  OBVIOUS

\* The shares of totals that divide are natural numbers, add up and meet the floors.
LEMMA SharesFit ==
  ASSUME NEW t \in Totals, Divides(t)
  PROVE  /\ MemoryShares(t) \in [Services -> Nat] /\ CpuShares(t) \in [Services -> Nat]
         /\ Sum(MemoryShares(t)) = t.memory /\ Sum(CpuShares(t)) = t.cpus
         /\ \A s \in Services : /\ MemoryShares(t)[s] >= MemoryFloor[s]
                                /\ CpuShares(t)[s] >= CpuFloor[s]
<1>1. /\ t.memory \in Nat /\ t.cpus \in Nat /\ t.cpus - 185 \in Nat
      /\ \A s \in Services : MemoryShares(t)[s] >= MemoryFloor[s]
  BY DEF Totals, Divides
<1>2. /\ t.memory * 1 = t.memory /\ t.memory * 2 = 2 * t.memory
      /\ (t.cpus - 185) * 1 = t.cpus - 185 /\ (t.cpus - 185) * 4 = 4 * (t.cpus - 185)
  BY <1>1
<1>3. MemoryShares(t) = [nginx |-> t.memory \div 8, auth |-> (2 * t.memory) \div 8,
                         rest |-> t.memory - t.memory \div 8 - (2 * t.memory) \div 8]
  BY <1>2 DEF MemoryShares, ByWeight
<1>4. CpuShares(t) = [s \in Services |-> CpuFloor[s] +
        [nginx |-> (t.cpus - 185) \div 6, auth |-> (4 * (t.cpus - 185)) \div 6,
         rest |-> t.cpus - 185 - (t.cpus - 185) \div 6 - (4 * (t.cpus - 185)) \div 6][s]]
  BY <1>2 DEF CpuShares, ByWeight
<1>5. MemoryShares(t) \in [Services -> Nat] /\ Sum(MemoryShares(t)) = t.memory
  BY <1>1, <1>3, Rounding DEF Services, Sum
<1>6. /\ CpuShares(t) \in [Services -> Nat] /\ Sum(CpuShares(t)) = t.cpus
      /\ \A s \in Services : CpuShares(t)[s] >= CpuFloor[s]
  <2>1. /\ CpuShares(t)["nginx"] = 40 + (t.cpus - 185) \div 6
        /\ CpuShares(t)["auth"] = 120 + (4 * (t.cpus - 185)) \div 6
        /\ CpuShares(t)["rest"] =
             25 + (t.cpus - 185 - (t.cpus - 185) \div 6 - (4 * (t.cpus - 185)) \div 6)
    BY <1>4 DEF Services, CpuFloor
  <2>2. /\ (t.cpus - 185) \div 6 \in Nat /\ (4 * (t.cpus - 185)) \div 6 \in Nat
        /\ (t.cpus - 185) \div 6 + (4 * (t.cpus - 185)) \div 6 <= t.cpus - 185
    BY <1>1, Rounding
  <2>3. \A s \in Services : CpuShares(t)[s] \in Nat /\ CpuShares(t)[s] >= CpuFloor[s]
    BY <1>1, <2>1, <2>2 DEF Services, CpuFloor
  <2>4. CpuShares(t) \in [Services -> Nat]
    BY <1>4, <2>3
  <2>5. Sum(CpuShares(t)) = t.cpus
    BY <1>1, <2>1, <2>2 DEF Sum
  <2> QED BY <2>3, <2>4, <2>5
<1> QED BY <1>1, <1>5, <1>6

\* The three kinds of limits beside the shares, for totals that divide.
LEMMA PidsAndHeap ==
  ASSUME NEW t \in Totals, Divides(t)
  PROVE  /\ \A s \in Services : /\ Larger(t.pids, PidsFloor[s]) \in Int
                                /\ Larger(t.pids, PidsFloor[s]) >= t.pids
                                /\ Larger(t.pids, PidsFloor[s]) >= PidsFloor[s]
         /\ (MemoryShares(t).rest * 80) \div 100 \in Int
         /\ 5 * ((MemoryShares(t).rest * 80) \div 100)
              \in 4 * MemoryShares(t).rest - 4 .. 4 * MemoryShares(t).rest
<1>1. \A s \in Services : /\ Larger(t.pids, PidsFloor[s]) \in Int
                         /\ Larger(t.pids, PidsFloor[s]) >= t.pids
                         /\ Larger(t.pids, PidsFloor[s]) >= PidsFloor[s]
  BY DEF Larger, PidsFloor, Services, Totals
<1>2. MemoryShares(t)["rest"] \in Nat
  BY SharesFit DEF Services
<1> QED BY <1>1, <1>2, Rounding

\* What is written for totals that divide has the shape the .env has ...
LEMMA LimitsAreTyped ==
  ASSUME NEW t \in Totals, Divides(t)
  PROVE  Limits(t) \in LimitsType
  BY PidsAndHeap, SharesFit DEF Limits, LimitsType

\* ... and fits them.
LEMMA LimitsFit ==
  ASSUME NEW e, e.totals \in Totals, Divides(e.totals), e.limits = Limits(e.totals)
  PROVE  Fits(e)
  BY PidsAndHeap, SharesFit DEF Fits, Limits

\* The script derives the same.
LEMMA DerivationsAgree ==
  ASSUME NEW t \in Totals, Divides(t)
  PROVE  Rendered(t) = Limits(t)
<1>1. /\ t.memory \in Nat /\ t.cpus - 185 \in Nat /\ t.cpus \in Nat
      /\ t.memory * 1 = t.memory /\ t.memory * 2 = 2 * t.memory
      /\ (t.cpus - 185) * 1 = t.cpus - 185 /\ (t.cpus - 185) * 4 = 4 * (t.cpus - 185)
  BY DEF Totals, Divides
<1>2. ScriptMemory(t) = MemoryShares(t)
  BY <1>1, Rounding DEF ScriptMemory, MemoryShares, ByWeight
<1>3. ScriptCpus(t) = CpuShares(t)
  <2>1. \A s \in Services : ScriptCpus(t)[s] = CpuShares(t)[s]
    BY <1>1, Rounding DEF ScriptCpus, CpuShares, ByWeight, CpuFloor, Services
  <2> QED BY <2>1 DEF ScriptCpus, CpuShares, Services
<1>4. ScriptPids(t) = [s \in Services |-> Larger(t.pids, PidsFloor[s])]
  BY DEF ScriptPids, Larger
<1> QED BY <1>2, <1>3, <1>4 DEF Rendered, Limits

-----------------------------------------------------------------------------
(* Capacity: the invariant. *)

\* The limits are the ones of totals that divide.
Sound(e) == e.profile # "none" => Divides(e.totals) /\ e.limits = Limits(e.totals)

\* The totals are the ones a script would find for the profile.
Found(e) == e.profile # "none" => Overlooked(e) \/ e.totals = ScriptTotals(e.profile, e.own)

\* A save either sends totals, which become the project's own, or names a slot.
Stated(u) ==
  \/ u.profile = "none" /\ u.own = Absent
  \/ u.profile = "custom" /\ u.own = u.totals
  \/ u.profile # "none" /\ u.own = Absent /\ u.totals = RootTotals[u.profile]

IInv ==
  /\ CapacityTypeOK
  /\ saves \in CapacityScenarios
  /\ Sound(capacity) /\ Found(capacity)
  /\ \A r \in saves : Sound(saving[r].update) /\ Stated(saving[r].update)
  /\ Sound(script.update) /\ Found(script.update)

\* No capacity is derived from totals that are absent.
LEMMA AbsentDoesNotDivide == ~Divides(Absent)
  BY DEF Divides, Absent

\* The script derives from totals, and keeps what is the project's own.
LEMMA TotalsOfTheScript ==
  ASSUME NEW p \in Profiles, NEW own \in Totals
  PROVE  ScriptTotals(p, own) \in Totals /\ OwnOf(p, ScriptTotals(p, own)) \in Totals
  BY CapacityAssumption DEF ScriptTotals, OwnOf, Absent, Totals

\* A rendered .env is well typed and sound, and a script would render the same again.
LEMMA RenderedIsSound ==
  ASSUME NEW p \in Profiles, NEW own \in Totals, NEW other \in Nat,
         Divides(ScriptTotals(p, own))
  PROVE  /\ RenderedEnv(p, own, other) \in EnvType
         /\ Sound(RenderedEnv(p, own, other)) /\ Found(RenderedEnv(p, own, other))
<1> DEFINE t == ScriptTotals(p, own)
           e == RenderedEnv(p, own, other)
<1>1. t \in Totals /\ OwnOf(p, t) \in Totals
  BY TotalsOfTheScript
<1>2. /\ e = [profile |-> p, totals |-> t, own |-> OwnOf(p, t), limits |-> Rendered(t),
              other |-> other]
      /\ e.profile = p /\ e.totals = t /\ e.own = OwnOf(p, t) /\ e.limits = Rendered(t)
  BY DEF RenderedEnv, Env
<1>3. Rendered(t) = Limits(t)
  BY <1>1, DerivationsAgree
<1>4. Limits(t) \in LimitsType
  BY <1>1, LimitsAreTyped
<1>5. e \in EnvType
  BY <1>1, <1>2, <1>3, <1>4 DEF EnvType
<1>6. Sound(e)
  BY <1>2, <1>3 DEF Sound
<1>7. t # Absent
  BY AbsentDoesNotDivide
<1>8. ScriptTotals(p, OwnOf(p, t)) = t
  <2>1. CASE p = "custom"
    BY <2>1, <1>7 DEF ScriptTotals, OwnOf
  <2>2. CASE p # "custom"
    BY <2>2 DEF ScriptTotals
  <2> QED BY <2>1, <2>2
<1>9. Found(e)
  BY <1>2, <1>8 DEF Found
<1> QED BY <1>5, <1>6, <1>9

\* What a save writes is well typed, sound and stated.
LEMMA UpdateIsSound ==
  ASSUME IInv, NEW r \in saves, ~IsRefused(r)
  PROVE  Update(r) \in EnvType /\ Sound(Update(r)) /\ Stated(Update(r))
<1> DEFINE t == AskedTotals(r)
<1>1. /\ r \in Settings /\ r.other \in Nat /\ r.profile \in Profiles \cup {"none"}
      /\ r.totals \in Totals /\ capacity.totals \in Totals
  BY CapacityAssumption DEF IInv, Settings, CapacityTypeOK, EnvType
<1>2. Inherited(r) \in Totals
  BY <1>1 DEF Inherited, Totals
<1>3. Absent \in Totals /\ NoLimits \in LimitsType
  BY DEF Absent, Totals, NoLimits, Nothing0, LimitsType
<1>4. CASE ~SendsTotals(r) /\ r.profile = "none"
  <2>1. Update(r) = [profile |-> "none", totals |-> Absent, own |-> Absent,
                     limits |-> NoLimits, other |-> r.other]
    BY <1>4 DEF Update, Env
  <2> QED BY <2>1, <1>1, <1>3 DEF EnvType, Sound, Stated
<1>5. CASE SendsTotals(r)
  <2>1. t = Inherited(r) /\ t \in Totals /\ Divides(t)
    BY <1>5, <1>2 DEF IsRefused, AskedTotals
  <2>2. Limits(t) \in LimitsType
    BY <2>1, LimitsAreTyped
  <2>3. Update(r) = [profile |-> "custom", totals |-> t, own |-> t, limits |-> Limits(t),
                     other |-> r.other]
    BY <1>5 DEF Update, Env
  <2> QED BY <2>1, <2>2, <2>3, <1>1 DEF EnvType, Sound, Stated, Profiles
<1>6. CASE ~SendsTotals(r) /\ r.profile # "none"
  <2>1. t = RootTotals[r.profile] /\ t \in Totals /\ Divides(t)
    BY <1>6, <1>1, CapacityAssumption DEF IsRefused, AskedTotals
  <2>2. Limits(t) \in LimitsType
    BY <2>1, LimitsAreTyped
  <2>3. Update(r) = [profile |-> r.profile, totals |-> t, own |-> Absent,
                     limits |-> Limits(t), other |-> r.other]
    BY <1>6 DEF Update, Env
  <2> QED BY <2>1, <2>2, <2>3, <1>1, <1>3, <1>6 DEF EnvType, Sound, Stated
<1> QED BY <1>4, <1>5, <1>6

\* Written over a sound .env it leaves a sound one.
LEMMA OverIsSound ==
  ASSUME NEW e \in EnvType, Sound(e), Found(e), NEW u \in EnvType, Sound(u), Stated(u)
  PROVE  Over(e, u) \in EnvType /\ Sound(Over(e, u)) /\ Found(Over(e, u))
<1> DEFINE w == Over(e, u)
<1>1. /\ w.profile = IF u.profile = "none" THEN e.profile ELSE u.profile
      /\ w.totals = IF u.profile = "none" THEN e.totals ELSE u.totals
      /\ w.own = IF u.own = Absent THEN e.own ELSE u.own
      /\ w.limits = IF u.profile = "none" THEN e.limits ELSE u.limits
  BY DEF Over, Env
<1>2. w \in EnvType
  BY DEF Over, Env, EnvType
<1>3. CASE u.profile = "none"
  <2>1. w.profile = e.profile /\ w.totals = e.totals /\ w.own = e.own /\ w.limits = e.limits
    BY <1>1, <1>3 DEF Stated
  <2> QED BY <1>2, <2>1 DEF Sound, Found, Overlooked
<1>4. CASE u.profile # "none"
  <2>1. w.profile = u.profile /\ w.totals = u.totals /\ w.limits = u.limits
    BY <1>1, <1>4
  <2>2. Sound(w)
    BY <2>1 DEF Sound
  <2>3. CASE u.profile = "custom" /\ u.own = u.totals
    <3>1. u.own # Absent
      BY <2>3, AbsentDoesNotDivide DEF Sound
    <3>2. w.own = u.totals /\ w.own # Absent
      BY <1>1, <2>3, <3>1
    <3>3. ScriptTotals(w.profile, w.own) = w.totals
      BY <2>1, <2>3, <3>2 DEF ScriptTotals
    <3> QED BY <1>2, <2>2, <3>3 DEF Found
  <2>4. CASE u.own = Absent /\ u.totals = RootTotals[u.profile]
    <3>1. CASE u.profile = "custom" /\ e.own \notin {Absent, u.totals}
      BY <1>1, <1>2, <2>1, <2>2, <2>4, <3>1 DEF Found, Overlooked
    <3>2. CASE u.profile # "custom" \/ e.own \in {Absent, u.totals}
      <4>1. w.own = e.own
        BY <1>1, <2>4
      <4>2. ScriptTotals(w.profile, w.own) = w.totals
        BY <2>1, <2>4, <3>2, <4>1 DEF ScriptTotals
      <4> QED BY <1>2, <2>2, <4>2 DEF Found
    <3> QED BY <3>1, <3>2
  <2> QED BY <1>4, <2>3, <2>4 DEF Stated
<1> QED BY <1>3, <1>4

-----------------------------------------------------------------------------
(* Capacity: the initial states and the steps. *)

\* The invariant holds to begin with.
LEMMA InitHolds == CapacityInit => IInv
<1> SUFFICES ASSUME CapacityInit PROVE IInv
  OBVIOUS
<1> DEFINE t == RootTotals[FirstProfile]
<1>1. t \in Totals /\ Divides(t) /\ t # Absent /\ FirstProfile \in Profiles
  BY CapacityAssumption, AbsentDoesNotDivide DEF CapacityInit
<1>2. capacity = [profile |-> FirstProfile, totals |-> t, own |-> OwnOf(FirstProfile, t),
                  limits |-> Rendered(t), other |-> 1]
  BY DEF CapacityInit, Env
<1>3. Rendered(t) = Limits(t) /\ Limits(t) \in LimitsType
  BY <1>1, DerivationsAgree, LimitsAreTyped
<1>4. Absent \in Totals /\ NoLimits \in LimitsType
  BY DEF Absent, Totals, NoLimits, Nothing0, LimitsType
<1>5. OwnOf(FirstProfile, t) \in Totals
  BY <1>1, <1>4 DEF OwnOf
<1>6. ScriptTotals(FirstProfile, OwnOf(FirstProfile, t)) = t
  BY <1>1 DEF ScriptTotals, OwnOf
<1>7. FirstProfile # "none"
  BY <1>1 DEF Profiles
<1>8. capacity \in EnvType /\ Sound(capacity) /\ Found(capacity)
  <2>1. capacity \in EnvType
    BY <1>1, <1>2, <1>3, <1>5 DEF EnvType
  <2>2. Sound(capacity)
    BY <1>1, <1>2, <1>3 DEF Sound
  <2>3. Found(capacity)
    BY <1>2, <1>6 DEF Found
  <2> QED BY <2>1, <2>2, <2>3
<1>9. Blank \in EnvType /\ Sound(Blank) /\ Stated(Blank) /\ Found(Blank)
  BY <1>4 DEF Blank, Env, EnvType, Sound, Stated, Found
<1>10. saving \in [saves -> [at : {"new", "read", "derived", "written", "done"},
                             row : Profiles \cup {"none"}, update : EnvType]]
  BY <1>9 DEF CapacityInit, Untold
<1>11. \A r \in saves : Sound(saving[r].update) /\ Stated(saving[r].update)
  BY <1>9 DEF CapacityInit, Untold
<1>12. /\ script \in [at : {"idle", "derived", "copied", "emptied", "ended"},
                      update : EnvType, file : BOOLEAN]
       /\ Sound(script.update) /\ Found(script.update)
  BY <1>9 DEF CapacityInit, NoScript
<1>13. rowProfile \in Profiles /\ cloned \in Totals /\ saves \in CapacityScenarios
  BY <1>1, <1>4 DEF CapacityInit
<1> QED BY <1>8, <1>10, <1>11, <1>12, <1>13 DEF IInv, CapacityTypeOK

\* Writing the .env, whenever the update was derived.
LEMMA WriteKeeps ==
  ASSUME IInv, NEW r \in saves, NEW u \in EnvType, Sound(u), Stated(u), WritesEnv(r, u)
  PROVE  IInv'
<1>1. capacity \in EnvType /\ Sound(capacity) /\ Found(capacity)
  BY DEF IInv, CapacityTypeOK
<1>2. capacity' \in EnvType /\ Sound(capacity') /\ Found(capacity')
  BY <1>1, OverIsSound DEF WritesEnv
<1>3. /\ saving' \in [saves' -> [at : {"new", "read", "derived", "written", "done"},
                                 row : Profiles \cup {"none"}, update : EnvType]]
      /\ \A q \in saves' : Sound(saving'[q].update) /\ Stated(saving'[q].update)
  BY DEF IInv, CapacityTypeOK, WritesEnv
<1>4. /\ script' \in [at : {"idle", "derived", "copied", "emptied", "ended"},
                      update : EnvType, file : BOOLEAN]
      /\ Sound(script'.update) /\ Found(script'.update)
  BY DEF IInv, CapacityTypeOK, WritesEnv
<1>5. rowProfile' \in Profiles /\ cloned' \in Totals /\ saves' \in CapacityScenarios
  BY DEF IInv, CapacityTypeOK, WritesEnv
<1>6. CapacityTypeOK'
  BY <1>2, <1>3, <1>4, <1>5 DEF CapacityTypeOK
<1> QED BY <1>2, <1>3, <1>4, <1>5, <1>6 DEF IInv, Sound, Found, Stated, Overlooked

\* The end of a request, with the row updated or not.
LEMMA EndKeeps ==
  ASSUME IInv, NEW r \in saves, RefuseSave(r) \/ UpdateRow(r) \/ GiveUp(r)
  PROVE  IInv'
<1>1. rowProfile' \in Profiles
  BY DEF IInv, CapacityTypeOK, EnvType, RefuseSave, UpdateRow, GiveUp
<1>2. /\ saving' = [saving EXCEPT ![r].at = "done"]
      /\ UNCHANGED <<capacity, saves, script, cloned>>
  BY DEF RefuseSave, UpdateRow, GiveUp, SavingAt
<1>3. /\ saving' \in [saves' -> [at : {"new", "read", "derived", "written", "done"},
                                 row : Profiles \cup {"none"}, update : EnvType]]
      /\ \A q \in saves' : Sound(saving'[q].update) /\ Stated(saving'[q].update)
  BY <1>2 DEF IInv, CapacityTypeOK
<1>4. CapacityTypeOK'
  BY <1>1, <1>2, <1>3 DEF IInv, CapacityTypeOK
<1> QED BY <1>2, <1>3, <1>4 DEF IInv, Sound, Found, Stated, Overlooked

\* Every step keeps it.
LEMMA StepKeeps == IInv /\ [CapacityNext]_capacityVars => IInv'
<1> SUFFICES ASSUME IInv, [CapacityNext]_capacityVars PROVE IInv'
  OBVIOUS
<1> USE DEF CapacityTypeOK
<1>1. ASSUME NEW r \in saves, ReadProject(r) PROVE IInv'
  BY <1>1 DEF IInv, ReadProject, Sound, Stated, Found, Overlooked
<1>2. ASSUME NEW r \in saves, RefuseSave(r) \/ UpdateRow(r) \/ GiveUp(r) PROVE IInv'
  BY <1>2, EndKeeps
<1>3. ASSUME NEW r \in saves, DeriveAndWrite(r) PROVE IInv'
  BY <1>3, UpdateIsSound, WriteKeeps DEF DeriveAndWrite
<1>4. ASSUME NEW r \in saves, Derive(r) PROVE IInv'
  <2>1. Update(r) \in EnvType /\ Sound(Update(r)) /\ Stated(Update(r))
    BY <1>4, UpdateIsSound DEF Derive
  <2>2. /\ saving' \in [saves' -> [at : {"new", "read", "derived", "written", "done"},
                                   row : Profiles \cup {"none"}, update : EnvType]]
        /\ \A q \in saves' : Sound(saving'[q].update) /\ Stated(saving'[q].update)
    BY <1>4, <2>1 DEF IInv, Derive
  <2>3. UNCHANGED <<capacity, rowProfile, saves, script, cloned>>
    BY <1>4 DEF Derive
  <2> QED BY <2>2, <2>3 DEF IInv, Sound, Stated, Found, Overlooked
<1>5. ASSUME NEW r \in saves, WriteDerived(r) PROVE IInv'
  <2>1. saving[r].update \in EnvType /\ Sound(saving[r].update) /\ Stated(saving[r].update)
    BY DEF IInv
  <2> QED BY <1>5, <2>1, WriteKeeps DEF WriteDerived
<1>6. CASE ScriptDerives
  <2> DEFINE p == IF capacity.profile = "none" THEN FirstProfile ELSE capacity.profile
  <2>1. p \in Profiles /\ capacity.own \in Totals
    BY CapacityAssumption DEF IInv, EnvType
  <2>2. /\ script' = [at |-> "derived", update |-> RenderedEnv(p, capacity.own, 0), file |-> TRUE]
        /\ Divides(ScriptTotals(p, capacity.own))
    BY <1>6 DEF ScriptDerives
  <2>3. /\ RenderedEnv(p, capacity.own, 0) \in EnvType
        /\ Sound(RenderedEnv(p, capacity.own, 0)) /\ Found(RenderedEnv(p, capacity.own, 0))
    BY <2>1, <2>2, RenderedIsSound
  <2> QED BY <1>6, <2>2, <2>3 DEF IInv, ScriptDerives, Sound, Stated, Found, Overlooked
<1>7. CASE ScriptCopies
  <2> DEFINE u == script.update
             w == [u EXCEPT !.other = capacity.other]
  <2>1. script' = [script EXCEPT !.at = "copied", !.update = w]
    BY <1>7 DEF ScriptCopies
  <2>2. u \in EnvType /\ capacity.other \in Nat
    BY DEF IInv, EnvType
  <2>3. /\ w \in EnvType /\ w.profile = u.profile /\ w.totals = u.totals
        /\ w.own = u.own /\ w.limits = u.limits
    BY <2>2 DEF EnvType
  <2>4. Sound(w) /\ Found(w)
    BY <2>3 DEF IInv, Sound, Found, Overlooked
  <2>5. /\ script' \in [at : {"idle", "derived", "copied", "emptied", "ended"},
                        update : EnvType, file : BOOLEAN]
        /\ script'.update = w
    BY <2>1, <2>3 DEF IInv
  <2> QED BY <1>7, <2>4, <2>5 DEF IInv, ScriptCopies, Sound, Stated, Found, Overlooked
<1>8. CASE ScriptEmpties
  <2>1. Blank \in EnvType /\ Sound(Blank) /\ Found(Blank)
    BY DEF Blank, Env, EnvType, Sound, Found, Absent, Totals, NoLimits, Nothing0, LimitsType
  <2> QED BY <1>8, <2>1 DEF IInv, ScriptEmpties, Sound, Stated, Found, Overlooked
<1>9. CASE ScriptFills
  BY <1>9 DEF IInv, ScriptFills, Sound, Stated, Found, Overlooked
<1>10. CASE Duplicate
  <2>1. ScriptTotals(rowProfile, capacity.own) \in Totals
    BY TotalsOfTheScript DEF IInv, EnvType
  <2> QED BY <1>10, <2>1 DEF IInv, Duplicate, Sound, Stated, Found, Overlooked
<1>11. CASE UNCHANGED capacityVars
  BY <1>11 DEF IInv, capacityVars, Sound, Stated, Found, Overlooked
<1> QED BY <1>1, <1>2, <1>3, <1>4, <1>5, <1>6, <1>7, <1>8, <1>9, <1>10, <1>11 DEF CapacityNext

-----------------------------------------------------------------------------
(* Capacity: the theorems. *)

\* In every behaviour of the saves and the script.
LEMMA Invariance == CapacitySpec => []IInv
<1>1. CapacityInit => IInv
  BY InitHolds
<1>2. IInv /\ [CapacityNext]_capacityVars => IInv'
  BY StepKeeps
<1> QED BY <1>1, <1>2, PTL DEF CapacitySpec

\* Every variable keeps its type.
THEOREM CapacityTyping == CapacitySpec => []CapacityTypeOK
<1>1. IInv => CapacityTypeOK
  BY DEF IInv
<1> QED BY <1>1, Invariance, PTL

\* Whoever wrote the .env last, API or script, the services share exactly what the
\* project has and each gets what it needs.
THEOREM CapacityAlwaysFits == CapacitySpec => []CapacityFits
<1>1. IInv => CapacityFits
  BY LimitsFit DEF IInv, CapacityTypeOK, EnvType, Sound, CapacityFits
<1> QED BY <1>1, Invariance, PTL

\* The script derives for a project what the API wrote for it.
THEOREM RotationKeeps == CapacitySpec => RotationKeepsCapacity
<1> DEFINE A == capacity.profile # "none" /\ ~Overlooked(capacity)
                  /\ script'.at = "derived" /\ script.at = "idle"
                => script'.update.limits = capacity.limits
<1>1. IInv /\ [CapacityNext]_capacityVars => [A]_capacityVars
  <2> SUFFICES ASSUME IInv, [CapacityNext]_capacityVars, capacity.profile # "none",
                      ~Overlooked(capacity), script'.at = "derived", script.at = "idle"
               PROVE  script'.update.limits = capacity.limits
    OBVIOUS
  <2> DEFINE p == capacity.profile
             t == ScriptTotals(p, capacity.own)
  <2>1. p \in Profiles /\ capacity.own \in Totals /\ t \in Totals
    BY TotalsOfTheScript DEF IInv, CapacityTypeOK, EnvType
  <2>2. capacity.totals = t /\ Divides(t) /\ capacity.limits = Limits(t)
    BY DEF IInv, Sound, Found
  <2>3. ScriptDerives
    <3>1. \A r \in saves : ~(ReadProject(r) \/ RefuseSave(r) \/ Derive(r) \/ UpdateRow(r) \/ GiveUp(r))
      BY DEF ReadProject, RefuseSave, Derive, UpdateRow, GiveUp
    <3>2. ASSUME NEW r \in saves, DeriveAndWrite(r) \/ WriteDerived(r) PROVE FALSE
      BY <3>2 DEF DeriveAndWrite, WriteDerived, WritesEnv, IInv, CapacityTypeOK
    <3>3. ~(ScriptCopies \/ ScriptEmpties \/ ScriptFills \/ Duplicate \/ UNCHANGED capacityVars)
      BY DEF ScriptCopies, ScriptEmpties, ScriptFills, Duplicate, capacityVars
    <3> QED BY <3>1, <3>2, <3>3 DEF CapacityNext
  <2>4. script'.update = RenderedEnv(p, capacity.own, 0)
    BY <2>3 DEF ScriptDerives
  <2>5. script'.update.limits = Rendered(t)
    BY <2>4 DEF RenderedEnv, Env
  <2> QED BY <2>1, <2>2, <2>5, DerivationsAgree
<1> QED BY <1>1, Invariance, PTL DEF CapacitySpec, RotationKeepsCapacity

=============================================================================
