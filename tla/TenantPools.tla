----------------------------- MODULE TenantPools -----------------------------
(***************************************************************************)
(* The API's connection pools to the tenants' databases: at most           *)
(* MaxTenants tenants have pools at a time, each a reader's and an         *)
(* administrator's, each tenant at most MaxRequests requests. Room is made *)
(* by closing pools nobody uses, under one lock, with an await at every    *)
(* step; a request that waits too long for its admission gives up at any   *)
(* of them.                                                                *)
(***************************************************************************)
EXTENDS Naturals, FiniteSets

CONSTANTS MaxTenants, MaxRequests, \* max_tenants, max_requests
          MaxPoolFaults,           \* bounds failing connections and time-outs
          PoolScenarios            \* what may be asked in a behaviour: sets of PoolRequests

Accesses == {"reader", "admin"}
\* Who asks, for which tenant, with which credentials (dsns: the version) and access.
PoolRequests == [id : Nat \ {0}, tenant : STRING, dsns : Nat, access : Accesses]

ASSUME TenantPoolsAssumption ==
  /\ MaxTenants \in Nat \ {0} /\ MaxRequests \in Nat \ {0} /\ MaxPoolFaults \in Nat
  /\ \A S \in PoolScenarios : S \subseteq PoolRequests

VARIABLES
  requests,  \* the requests of this behaviour
  entries,   \* the TenantPools there ever were: [tenant, dsns, pools, users, touched]
  table,     \* _tenants: indexes of entries
  open,      \* entries whose pools are open
  lockedBy,  \* who holds _lock: a request, or 0
  at,        \* how far a request is
  entry,     \* the entry a request has, or 0
  expiring,  \* entries the holder of the lock has still to close as expired
  closed,    \* _closed
  poolFaults

poolVars == <<requests, entries, table, open, lockedBy, at, entry, expiring, closed, poolFaults>>

PoolsInit ==
  /\ requests \in PoolScenarios
  /\ entries = <<>> /\ table = {} /\ open = {}
  /\ lockedBy = 0 /\ expiring = {}
  /\ at = [r \in requests |-> "new"] /\ entry = [r \in requests |-> 0]
  /\ closed = FALSE /\ poolFaults = 0

Entries == [tenant : STRING, dsns : Nat, pools : SUBSET Accesses, users : Nat, touched : Nat]
PoolsTypeOK ==
  /\ DOMAIN entries = 1 .. Cardinality(DOMAIN entries)
  /\ \A e \in DOMAIN entries : entries[e] \in Entries
  /\ table \subseteq open /\ open \subseteq DOMAIN entries /\ expiring \subseteq open
  /\ lockedBy \in {0} \cup {r.id : r \in requests}
  /\ at \in [requests -> {"new", "locked", "reserved", "using",
                          "leaving", "served", "refused"}]
  /\ entry \in [requests -> {0} \cup DOMAIN entries]
  /\ closed \in BOOLEAN /\ poolFaults \in 0 .. MaxPoolFaults

-----------------------------------------------------------------------------

RequestAt(r, to) == at' = [at EXCEPT ![r] = to]
Clock == Cardinality({r \in requests : at[r] \in {"served", "refused"}}) + Cardinality(DOMAIN entries)

\* Faulty variant: whoever is oldest may go, used or not.
UnusedOrNot == table

\* What may be closed.
Unused == {e \in table : entries[e].users = 0}

OfTenant(r) == {e \in table : entries[e].tenant = r.tenant}

\* _reserve has the lock; what nobody used for idle_seconds is to be closed first: the
\* entries up to some age.
Reserve(r) ==
  /\ at[r] = "new" /\ lockedBy = 0 /\ ~closed
  /\ lockedBy' = r.id /\ RequestAt(r, "locked")
  /\ \E age \in 0 .. Clock : expiring' = {e \in Unused : entries[e].touched < age}
  /\ UNCHANGED <<requests, entries, table, open, entry, closed, poolFaults>>

\* del _tenants[...], then _close is awaited; however the wait ends, its pools are closed.
CloseExpired(r) ==
  /\ at[r] = "locked" /\ expiring # {}
  /\ \E e \in expiring :
       /\ expiring' = expiring \ {e}
       /\ table' = table \ {e} /\ open' = open \ {e}
  /\ UNCHANGED <<requests, entries, lockedBy, at, entry, closed, poolFaults>>

Reserving(r) == at[r] = "locked" /\ expiring = {}

Refused(r) ==
  /\ lockedBy' = 0 /\ expiring' = {} /\ RequestAt(r, "refused")
  /\ UNCHANGED <<requests, entries, table, open, entry, closed>>

\* Who asks with other credentials than a tenant's pools were made with.
OtherCredentials(r) == {e \in OfTenant(r) : entries[e].dsns # r.dsns}

\* Pools of other credentials go, unless they are used.
CloseChanged(r) ==
  /\ Reserving(r)
  /\ \E e \in OtherCredentials(r) :
       /\ entries[e].users = 0
       /\ table' = table \ {e} /\ open' = open \ {e}
  /\ UNCHANGED <<requests, entries, lockedBy, at, entry, expiring, closed, poolFaults>>
RefuseChanged(r) ==
  /\ Reserving(r)
  /\ \E e \in OtherCredentials(r) : entries[e].users > 0
  /\ Refused(r) /\ UNCHANGED poolFaults

\* At the limit the entry that was left longest ago goes, among those nobody uses.
Evictable == {e \in Unused : \A f \in Unused : entries[e].touched <= entries[f].touched}
Evict(r) ==
  /\ Reserving(r) /\ OfTenant(r) = {} /\ Cardinality(table) >= MaxTenants
  /\ \E e \in Evictable : table' = table \ {e} /\ open' = open \ {e}
  /\ UNCHANGED <<requests, entries, lockedBy, at, entry, expiring, closed, poolFaults>>
RefuseFull(r) ==
  /\ Reserving(r) /\ OfTenant(r) = {} /\ Cardinality(table) >= MaxTenants /\ Unused = {}
  /\ Refused(r) /\ UNCHANGED poolFaults

\* A new entry enters the table before its first pool is opened.
NewEntry(r) == Cardinality(DOMAIN entries) + 1
Enter(r) ==
  /\ Reserving(r) /\ OfTenant(r) = {} /\ Cardinality(table) < MaxTenants
  /\ entries' = [e \in DOMAIN entries \cup {NewEntry(r)} |->
       IF e \in DOMAIN entries THEN entries[e]
       ELSE [tenant |-> r.tenant, dsns |-> r.dsns, pools |-> {}, users |-> 0, touched |-> Clock]]
  /\ table' = table \cup {NewEntry(r)} /\ open' = open \cup {NewEntry(r)}
  /\ UNCHANGED <<requests, lockedBy, at, entry, expiring, closed, poolFaults>>

Own(r) == OfTenant(r) \ OtherCredentials(r)
Saturated(e) == entries[e].users >= MaxRequests

RefuseSaturated(r) ==
  /\ Reserving(r) /\ \E e \in Own(r) : Saturated(e)
  /\ Refused(r) /\ UNCHANGED poolFaults

\* The pool is awaited, then counted and handed out with the lock.
Reserved(r, e) == entries' = [entries EXCEPT ![e].users = @ + 1, ![e].pools = @ \cup {r.access}]
OpenPool(r) ==
  /\ Reserving(r)
  /\ \E e \in Own(r) : ~Saturated(e) /\ Reserved(r, e) /\ entry' = [entry EXCEPT ![r] = e]
  /\ lockedBy' = 0 /\ RequestAt(r, "reserved")
  /\ UNCHANGED <<requests, table, open, expiring, closed, poolFaults>>

\* The pool cannot be opened, or admission takes longer than acquire_timeout: while the
\* lock is awaited, or at any await under it. What was removed stays removed.
PoolFault(r) ==
  /\ poolFaults < MaxPoolFaults /\ poolFaults' = poolFaults + 1
  /\ \/ at[r] = "new" /\ RequestAt(r, "refused")
        /\ UNCHANGED <<requests, entries, table, open, lockedBy, entry, expiring, closed>>
     \/ at[r] = "locked" /\ Refused(r)

\* A connection of the pool, or none in time; it is given back before the request leaves.
AcquireConnection(r) ==
  /\ at[r] = "reserved" /\ RequestAt(r, "using")
  /\ UNCHANGED <<requests, entries, table, open, lockedBy, entry, expiring, closed, poolFaults>>
GiveBack(r) ==
  /\ at[r] \in {"reserved", "using"} /\ RequestAt(r, "leaving")
  /\ UNCHANGED <<requests, entries, table, open, lockedBy, entry, expiring, closed, poolFaults>>

\* users goes down under the lock, on the entry the request was given.
Leave(r) ==
  /\ at[r] = "leaving" /\ lockedBy = 0
  /\ entries' = [entries EXCEPT ![entry[r]].users = @ - 1, ![entry[r]].touched = Clock]
  /\ RequestAt(r, "served")
  /\ UNCHANGED <<requests, table, open, lockedBy, entry, expiring, closed, poolFaults>>

\* close(), when the API ends: used or not. Whoever comes later is refused.
ClosePools ==
  /\ lockedBy = 0 /\ ~closed /\ requests # {}
  /\ closed' = TRUE /\ table' = {} /\ open' = {}
  /\ UNCHANGED <<requests, entries, lockedBy, at, entry, expiring, poolFaults>>
RefuseClosed(r) ==
  /\ at[r] = "new" /\ lockedBy = 0 /\ closed
  /\ Refused(r) /\ UNCHANGED poolFaults

PoolsNext ==
  \/ \E r \in requests :
       \/ Reserve(r) \/ CloseExpired(r) \/ CloseChanged(r) \/ RefuseChanged(r) \/ Evict(r)
       \/ RefuseFull(r) \/ Enter(r) \/ RefuseSaturated(r) \/ OpenPool(r) \/ PoolFault(r)
       \/ AcquireConnection(r) \/ GiveBack(r) \/ Leave(r) \/ RefuseClosed(r)
  \/ ClosePools

PoolsSpec == PoolsInit /\ [][PoolsNext]_poolVars

-----------------------------------------------------------------------------
(* Correctness. *)

HasPool(r) == at[r] \in {"reserved", "using", "leaving"}

\* While a request works with a pool it is its tenant's, of its credentials, and nobody
\* closes it, however many others make room at the same time; only the end of the API
\* does. A tenant has one entry, there are never more open than the limit, and an entry
\* counts exactly the requests it serves: so it can be closed when they are gone.
PoolsAreKept ==
  /\ \A r \in requests : HasPool(r) =>
       /\ entries[entry[r]].tenant = r.tenant /\ entries[entry[r]].dsns = r.dsns
       /\ r.access \in entries[entry[r]].pools
       /\ entry[r] \in table \/ closed
  /\ Cardinality(open) <= MaxTenants
  /\ \A e, f \in table : entries[e].tenant = entries[f].tenant => e = f
  /\ \A e \in DOMAIN entries :
       /\ entries[e].users = Cardinality({r \in requests : HasPool(r) /\ entry[r] = e})
       /\ entries[e].users <= MaxRequests
=============================================================================
