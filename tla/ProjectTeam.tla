----------------------------- MODULE ProjectTeam -----------------------------
(***************************************************************************)
(* The people of a project: its members and its owner, the directory that  *)
(* says who may act, the access policy, notes, hints and messages with the *)
(* notices they send. Requests run side by side. Each first proves the     *)
(* canonical directory, a call to the Studio, and then works in one        *)
(* transaction, which reads at Check and writes at Commit: between the two *)
(* only the rows it locked are its own.                                    *)
(***************************************************************************)
EXTENDS Naturals, FiniteSets

CONSTANTS Users, Owner, Admins,  \* the first owner and the first admins of the project
          TeamScenarios,         \* what may be asked in a behaviour: sets of Request
          Directories,           \* [Nat -> [Users -> standing]]: the directory, by sequence
          MaxSequence,           \* bound on its changes
          Nobody

Roles     == {"none", "member", "admin"}
Standings == {"absent", "inactive", "active", "admin"}
MemberOps == {"add", "remove", "transfer"}
Request   == [id : Nat \ {0}, actor : Users, op : MemberOps \cup {"policy", "note", "unnote", "hint",
                "resolve", "reopen", "message", "read", "unread"},
              user : Users, role : Roles, about : Nat]

ASSUME TeamAssumption ==
  /\ Owner \in Admins /\ Admins \subseteq Users /\ Nobody \notin Users
  /\ \A S \in TeamScenarios : S \subseteq Request /\ \A r, s \in S : r.id = s.id => r = s
  /\ MaxSequence \in Nat \ {0}
  /\ Directories \in [1 .. MaxSequence -> [Users -> Standings]]

VARIABLES
  sequence,  \* the sequence the Studio's directory is at
  synced,    \* studio_directory_state, and users and user_groups with it: a sequence
  asking,    \* the requests of this behaviour
  stage,     \* how far a request is
  snapshot,  \* the sequence a request read
  since,     \* the sequence when it came in
  authority, \* auth_user: what users said of the actor
  base,      \* the policy revision its author had on the screen
  found,     \* what it read at Check: the role of its user, or the state of a notice
  members, owner,
  rowLock,   \* who locked the project's row, the policy's row, a notice
  audit,     \* project_members_audit: the last new_role, and whether every old_role fits
  policy,    \* [revision, grants]: the grants used for it
  posts,     \* what was written: by id, [status, author]
  notices    \* studio_project_notifications: by id and user, [state, audit, fits]

identityVars == <<sequence, synced, asking, snapshot, since, base>>
teamDataVars == <<members, owner, audit, policy, posts, notices>>
workVars     == <<authority, found, rowLock, teamDataVars>>
teamVars     == <<identityVars, stage, workVars>>

Ids == {r.id : r \in asking}
NoNotice == [state |-> "none", audit |-> "unread", fits |-> TRUE]

TeamInit ==
  /\ sequence = 1 /\ synced = 1
  /\ asking \in TeamScenarios
  /\ stage = [r \in asking |-> "new"]
  /\ snapshot = [r \in asking |-> 0] /\ since = [r \in asking |-> 0]
  /\ authority = [r \in asking |-> "absent"]
  /\ base = [r \in asking |-> 0]
  /\ found = [r \in asking |-> "none"]
  /\ members = [u \in Users |-> IF u \in Admins THEN "admin" ELSE "none"]
  /\ owner = Owner
  /\ rowLock = [row \in {"project", "policy", "notice"} |-> 0]
  /\ audit = [u \in Users |-> [role |-> members[u], fits |-> TRUE]]
  /\ policy = [revision |-> 1, grants |-> {}]
  /\ posts = [i \in Ids |-> [status |-> "none", author |-> Nobody]]
  /\ notices = [i \in Ids |-> [u \in Users |-> NoNotice]]

TeamTypeOK ==
  /\ sequence \in 1 .. MaxSequence /\ synced \in 1 .. MaxSequence
  /\ stage \in [asking -> {"new", "read", "proved", "known", "admitted", "checked", "done", "refused"}]
  /\ snapshot \in [asking -> 0 .. MaxSequence] /\ since \in [asking -> 0 .. MaxSequence]
  /\ authority \in [asking -> Standings]
  /\ members \in [Users -> Roles] /\ owner \in Users
  /\ rowLock \in [{"project", "policy", "notice"} -> Ids \cup {0}]
  /\ audit \in [Users -> [role : Roles, fits : BOOLEAN]]
  /\ policy \in [revision : Nat, grants : SUBSET Nat]
  /\ posts \in [Ids -> [status : {"none", "open", "resolved", "deleted"}, author : Users \cup {Nobody}]]
  /\ notices \in [Ids -> [Users -> [state : {"none", "unread", "read"}, audit : {"unread", "read"},
                                    fits : BOOLEAN]]]

-----------------------------------------------------------------------------
(* Who the actor is. *)

\* An administrator of the platform changes the directory.
DirectoryChanges ==
  /\ sequence < MaxSequence /\ sequence' = sequence + 1
  /\ UNCHANGED <<synced, asking, stage, snapshot, since, base, workVars>>

\* One PUT of the policy, sent twice with the same grant.
SamePut(q, r) == q.op = "policy" /\ r.op = "policy" /\ q.about = r.about

\* read_directory: the Studio answers with its directory of that moment.
ReadDirectory(r) ==
  /\ r \in asking /\ stage[r] = "new"
  /\ stage' = [stage EXCEPT ![r] = "read"]
  /\ since' = [since EXCEPT ![r] = sequence] /\ snapshot' = [snapshot EXCEPT ![r] = sequence]
  /\ base' = [base EXCEPT ![r] =
       IF \E o \in asking : SamePut(o, r) /\ stage[o] # "new"
       THEN base[CHOOSE o \in asking : SamePut(o, r) /\ stage[o] # "new"]
       ELSE policy.revision]
  /\ UNCHANGED <<sequence, synced, asking, workVars>>

\* Faulty variant: the last snapshot to arrive is the directory.
ReconciledLast(s) == s

\* reconcile_directory: what is known after it, or 0 when the snapshot is refused:
\* one that is older, unless its contents are the same.
Reconciled(s) ==
  IF s > synced THEN s ELSE IF Directories[s] = Directories[synced] THEN synced ELSE 0

\* sync_user_record for every user of the snapshot: users and user_groups are its.
SyncUsers(s) == synced' = s

ConfirmDirectory(r) ==
  /\ stage[r] = "read"
  /\ LET known == Reconciled(snapshot[r])
     IN IF known = 0
        THEN UNCHANGED synced /\ stage' = [stage EXCEPT ![r] = "refused"]
        ELSE SyncUsers(known) /\ stage' = [stage EXCEPT ![r] = "proved"]
  /\ UNCHANGED <<sequence, asking, snapshot, since, base, workVars>>

\* resolve_current_user: what the tables say by now; only an active user goes on.
ResolveUser(r) ==
  /\ stage[r] = "proved"
  /\ authority' = [authority EXCEPT ![r] = Directories[synced][r.actor]]
  /\ stage' = [stage EXCEPT ![r] =
       IF Directories[synced][r.actor] \in {"active", "admin"} THEN "known" ELSE "refused"]
  /\ UNCHANGED <<identityVars, found, rowLock, teamDataVars>>

Global(r) == authority[r] = "admin"
MemberAccess(r) == members[r.actor] # "none" \/ Global(r)
AdminAccess(r)  == members[r.actor] = "admin" \/ Global(r)
TargetActive(r) == Directories[synced][r.user] \in {"active", "admin"}

-----------------------------------------------------------------------------
(* Members, under the lock of the project's row. *)

NewRole(r) == CASE r.op = "add" -> r.role [] r.op = "transfer" -> "admin" [] OTHER -> "none"

\* ensure_member_role_change_allowed
RoleChangeAllowed(r, old) ==
  \/ old = NewRole(r)
  \/ /\ r.user = owner => NewRole(r) = "admin"
     /\ old = "admin" /\ NewRole(r) # "admin" =>
          /\ r.user = r.actor \/ owner = r.actor \/ Global(r)
          /\ Cardinality({u \in Users : members[u] = "admin"}) > 1

MayChangeMembers(r) ==
  CASE r.op = "add"      -> AdminAccess(r) /\ TargetActive(r) /\ RoleChangeAllowed(r, members[r.user])
    [] r.op = "remove"   -> /\ AdminAccess(r) /\ members[r.user] # "none"
                            /\ RoleChangeAllowed(r, members[r.user])
    [] r.op = "transfer" -> Global(r) /\ TargetActive(r) /\ r.user # owner

\* Faulty variant: the row is read without FOR UPDATE.
UnlockedRow(row) == TRUE

\* FOR UPDATE waits for the transaction that holds the row.
FreeRow(row) == rowLock[row] = 0

Refuse(r) ==
  /\ stage' = [stage EXCEPT ![r] = "refused"]
  /\ UNCHANGED <<found, rowLock>>

CheckMembers(r) ==
  /\ stage[r] = "known" /\ r.op \in MemberOps /\ FreeRow("project")
  /\ IF MayChangeMembers(r)
     THEN /\ stage' = [stage EXCEPT ![r] = "checked"]
          /\ found' = [found EXCEPT ![r] = members[r.user]]
          /\ rowLock' = [rowLock EXCEPT !["project"] = r.id]
     ELSE Refuse(r)
  /\ UNCHANGED <<identityVars, authority, teamDataVars>>

Audited(u, old, new, log) ==
  [log EXCEPT ![u] = [role |-> new, fits |-> @.fits /\ old = @.role]]

\* transfer_project: the new owner is admin; the old one, if he was admin, a member.
Transferred(r) == [members EXCEPT ![r.user] = "admin",
                                  ![owner] = IF @ = "admin" THEN "member" ELSE @]

CommitMembers(r) ==
  /\ stage[r] = "checked" /\ r.op \in MemberOps
  /\ stage' = [stage EXCEPT ![r] = "done"]
  /\ rowLock' = [rowLock EXCEPT !["project"] = IF @ = r.id THEN 0 ELSE @]
  /\ LET logged == Audited(r.user, found[r], NewRole(r), audit)
     IN IF r.op = "transfer"
        THEN /\ owner' = r.user /\ members' = Transferred(r)
             /\ audit' = Audited(owner, "admin", "member", logged)
        ELSE /\ members' = [members EXCEPT ![r.user] = NewRole(r)]
             /\ audit' = logged /\ UNCHANGED owner
  /\ UNCHANGED <<identityVars, authority, found, policy, posts, notices>>

-----------------------------------------------------------------------------
(* The access policy: compare and set on its revision, once per grant. *)

AdmitPolicy(r) ==
  /\ stage[r] = "known" /\ r.op = "policy"
  /\ stage' = [stage EXCEPT ![r] = IF AdminAccess(r) THEN "admitted" ELSE "refused"]
  /\ UNCHANGED <<identityVars, workVars>>

\* consume_step_up_grant comes after the revision: a stale save does not use the grant up.
CheckPolicy(r) ==
  /\ stage[r] = "admitted" /\ FreeRow("policy")
  /\ IF base[r] = policy.revision /\ r.about \notin policy.grants
     THEN /\ stage' = [stage EXCEPT ![r] = "checked"]
          /\ rowLock' = [rowLock EXCEPT !["policy"] = r.id]
          /\ UNCHANGED found
     ELSE Refuse(r)
  /\ UNCHANGED <<identityVars, authority, teamDataVars>>

CommitPolicy(r) ==
  /\ stage[r] = "checked" /\ r.op = "policy"
  /\ stage' = [stage EXCEPT ![r] = "done"]
  /\ rowLock' = [rowLock EXCEPT !["policy"] = IF @ = r.id THEN 0 ELSE @]
  /\ policy' = [revision |-> policy.revision + 1, grants |-> policy.grants \cup {r.about}]
  /\ UNCHANGED <<identityVars, authority, found, members, owner, audit, posts, notices>>

-----------------------------------------------------------------------------
(* Notes, hints, messages and notices. *)

Writes == {"note", "unnote", "hint", "resolve", "reopen", "message"}

\* Who may change what another wrote: its author, an admin, and the one a hint is for.
MayChangePost(r) ==
  /\ posts[r.about].status \in {"open", "resolved"}
  /\ \/ AdminAccess(r) \/ posts[r.about].author = r.actor
     \/ r.op # "unnote" /\ notices[r.about][r.actor].state # "none"

MayWrite(r) ==
  /\ MemberAccess(r)
  /\ r.op = "hint" => members[r.user] # "none"
  /\ r.op \in {"unnote", "resolve", "reopen"} => MayChangePost(r)

CheckWrite(r) ==
  /\ stage[r] = "known" /\ r.op \in Writes
  /\ stage' = [stage EXCEPT ![r] = IF MayWrite(r) THEN "checked" ELSE "refused"]
  /\ UNCHANGED <<identityVars, workVars>>

\* A message goes to every other member, a hint to the one it is for.
Targets(r) == CASE r.op = "message" -> {u \in Users \ {r.actor} : members[u] # "none"}
                [] r.op = "hint"    -> {r.user}
                [] OTHER            -> {}

CommitWrite(r) ==
  /\ stage[r] = "checked" /\ r.op \in Writes
  /\ stage' = [stage EXCEPT ![r] = "done"]
  /\ posts' = CASE r.op \in {"note", "hint", "message"} ->
                      [posts EXCEPT ![r.id] = [status |-> "open", author |-> r.actor]]
                [] r.op = "unnote"  -> [posts EXCEPT ![r.about].status = "deleted"]
                [] r.op = "resolve" -> [posts EXCEPT ![r.about].status = "resolved"]
                [] r.op = "reopen"  -> [posts EXCEPT ![r.about].status = "open"]
  /\ notices' = [notices EXCEPT ![r.id] = [u \in Users |->
                  IF u \in Targets(r) THEN [NoNotice EXCEPT !.state = "unread"] ELSE @[u]]]
  /\ UNCHANGED <<identityVars, authority, found, rowLock, members, owner, audit, policy>>

\* The reader needs no membership, only a notice of his own; its row is locked.
CheckNotice(r) ==
  /\ stage[r] = "known" /\ r.op \in {"read", "unread"} /\ FreeRow("notice")
  /\ LET state == notices[r.about][r.actor].state
     IN IF state = "none" THEN Refuse(r)
        ELSE /\ stage' = [stage EXCEPT ![r] = "checked"]
             /\ found' = [found EXCEPT ![r] = state]
             /\ rowLock' = [rowLock EXCEPT !["notice"] = r.id]
  /\ UNCHANGED <<identityVars, authority, teamDataVars>>

CommitNotice(r) ==
  /\ stage[r] = "checked" /\ r.op \in {"read", "unread"}
  /\ stage' = [stage EXCEPT ![r] = "done"]
  /\ rowLock' = [rowLock EXCEPT !["notice"] = IF @ = r.id THEN 0 ELSE @]
  /\ notices' = IF found[r] = r.op THEN notices
                ELSE [notices EXCEPT ![r.about][r.actor] =
                       [state |-> r.op, audit |-> r.op, fits |-> @.fits /\ @.audit = found[r]]]
  /\ UNCHANGED <<identityVars, authority, found, members, owner, audit, policy, posts>>

-----------------------------------------------------------------------------
TeamNext ==
  \/ DirectoryChanges
  \/ \E r \in asking :
       \/ ReadDirectory(r) \/ ConfirmDirectory(r) \/ ResolveUser(r)
       \/ CheckMembers(r) \/ CommitMembers(r)
       \/ AdmitPolicy(r) \/ CheckPolicy(r) \/ CommitPolicy(r)
       \/ CheckWrite(r) \/ CommitWrite(r) \/ CheckNotice(r) \/ CommitNotice(r)

TeamSpec == TeamInit /\ [][TeamNext]_teamVars

-----------------------------------------------------------------------------
(* Correctness. *)

\* Whatever two administrators do to each other at once, and whoever the project
\* is transferred to meanwhile, its owner is one of its admins.
OwnerIsAdmin == members[owner] = "admin"

\* The audit trail of the members, and of the notices, tells what happened: every
\* old value in it is the new value before it, and the last one is the state.
AuditReplays ==
  /\ \A u \in Users : audit[u] = [role |-> members[u], fits |-> TRUE]
  /\ \A i \in Ids, u \in Users :
       notices[i][u].fits /\ notices[i][u].state \in {"none", notices[i][u].audit}

\* Nobody acts with rights the directory took away before the request came in,
\* although requests prove it side by side, from snapshots of different ages.
RevokedIsRefused ==
  \A r \in asking : stage[r] \in {"known", "admitted", "checked", "done"} =>
    \E s \in since[r] .. sequence : Directories[s][r.actor] = authority[r]

\* A policy is only replaced by one that was made from it, and a grant makes one change.
NothingOverwritten ==
  [][\A r \in asking : r.op = "policy" /\ stage[r] = "checked" /\ stage'[r] = "done" =>
       base[r] = policy.revision /\ r.about \notin policy.grants]_teamVars
=============================================================================
