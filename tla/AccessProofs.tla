----------------------------- MODULE AccessProofs -----------------------------
(***************************************************************************)
(* Who gets through, and what they are shown, for any number of people,    *)
(* requests, calls and watchers: the team of a project, the admission of   *)
(* calls to it and the watch of the jobs. Each part is proved from an      *)
(* inductive invariant of its own.                                         *)
(***************************************************************************)
EXTENDS ProjectTeam, AccessAdmission, JobsApi, FiniteSetTheorems, TLAPS

-----------------------------------------------------------------------------
(* The team: what its requests know while they hold a row. *)

\* The transaction that changes the members has the project's row to itself: what it
\* found is still so, and what it is about to write leaves the owner an admin.
MembersAreHeld ==
  \A r \in asking : stage[r] = "checked" /\ r.op \in MemberOps =>
    /\ rowLock["project"] = r.id /\ found[r] = members[r.user]
    /\ r.op = "transfer" => r.user # owner
    /\ r.op # "transfer" /\ r.user = owner => NewRole(r) = "admin"

\* The one that replaces the policy has the policy's row.
PolicyIsHeld ==
  \A r \in asking :
    /\ stage[r] = "admitted" => r.op = "policy"
    /\ stage[r] = "checked" /\ r.op = "policy" =>
         rowLock["policy"] = r.id /\ base[r] = policy.revision /\ r.about \notin policy.grants

\* The one that marks a notice has the notice, and there is one.
NoticeIsHeld ==
  \A r \in asking : stage[r] = "checked" /\ r.op \in {"read", "unread"} =>
    /\ rowLock["notice"] = r.id /\ found[r] # "none"
    /\ r.about \in Ids => found[r] = notices[r.about][r.actor].state

\* Nobody has a notice of what is not written yet.
NotSentYet ==
  \A r \in asking : stage[r] # "done" => \A u \in Users : notices[r.id][u].state = "none"

\* The directory a request proved is no older than the one there was when it came in.
DirectoryIsFresh ==
  /\ synced <= sequence
  /\ \A r \in asking :
       /\ stage[r] = "read" => since[r] = snapshot[r] /\ snapshot[r] \in 1 .. sequence
       /\ stage[r] = "proved" => since[r] <= synced

TeamShape ==
  /\ TeamTypeOK /\ asking \in TeamScenarios
  /\ base \in [asking -> Nat] /\ DOMAIN found = asking

TeamInv ==
  /\ TeamShape /\ DirectoryIsFresh /\ RevokedIsRefused
  /\ MembersAreHeld /\ OwnerIsAdmin /\ PolicyIsHeld
  /\ NoticeIsHeld /\ NotSentYet /\ AuditReplays

\* Requests are told apart by their id, which is never the mark of a free row.
LEMMA IdsAreUnique ==
  ASSUME asking \in TeamScenarios
  PROVE  /\ asking \subseteq Request
         /\ \A r \in asking : r.id # 0 /\ r.id \in Ids /\ r.actor \in Users /\ r.user \in Users
                              /\ r.role \in Roles /\ r.about \in Nat
         /\ \A r, s \in asking : r.id = s.id => r = s
  BY TeamAssumption DEF Request, Ids

\* The invariant of the team holds to begin with.
LEMMA TeamInitHolds == TeamInit => TeamInv
<1> SUFFICES ASSUME TeamInit PROVE TeamInv
  OBVIOUS
<1>1. /\ asking \in TeamScenarios /\ Owner \in Admins /\ Admins \subseteq Users
      /\ MaxSequence \in Nat \ {0}
  BY TeamAssumption DEF TeamInit
<1>2. TeamShape
  BY <1>1 DEF TeamInit, TeamShape, TeamTypeOK, Standings, Roles, NoNotice
<1>3. DirectoryIsFresh /\ RevokedIsRefused /\ MembersAreHeld /\ PolicyIsHeld /\ NoticeIsHeld
  BY DEF TeamInit, DirectoryIsFresh, RevokedIsRefused, MembersAreHeld, PolicyIsHeld, NoticeIsHeld
<1>4. OwnerIsAdmin
  BY <1>1 DEF TeamInit, OwnerIsAdmin
<1>5. NotSentYet /\ AuditReplays
  BY <1>1, IdsAreUnique DEF TeamInit, NotSentYet, AuditReplays, NoNotice
<1> QED BY <1>2, <1>3, <1>4, <1>5 DEF TeamInv

-----------------------------------------------------------------------------
(* Every step keeps it. What a request does to the directory is apart from what *)
(* it does to the project.                                                      *)

\* The steps that work in the project, not in the directory.
WorkStep(r) ==
  \/ CheckMembers(r) \/ CommitMembers(r) \/ AdmitPolicy(r) \/ CheckPolicy(r) \/ CommitPolicy(r)
  \/ CheckWrite(r) \/ CommitWrite(r) \/ CheckNotice(r) \/ CommitNotice(r)

\* They leave alone who the actor is, and only ever move a request on.
LEMMA WorkMovesOn ==
  ASSUME NEW r \in asking, WorkStep(r), TeamShape
  PROVE  /\ UNCHANGED <<identityVars, authority>>
         /\ stage[r] \in {"known", "admitted", "checked"}
         /\ \E s \in {"admitted", "checked", "done", "refused"} : stage' = [stage EXCEPT ![r] = s]
         /\ \A q \in asking : /\ stage'[q] \in {"read", "proved"} => stage'[q] = stage[q]
                              /\ stage'[q] \in {"known", "admitted", "checked", "done"} =>
                                   stage[q] \in {"known", "admitted", "checked", "done"}
<1>1. /\ UNCHANGED <<identityVars, authority>>
      /\ stage[r] \in {"known", "admitted", "checked"}
      /\ \E s \in {"admitted", "checked", "done", "refused"} : stage' = [stage EXCEPT ![r] = s]
  BY DEF WorkStep, CheckMembers, CommitMembers, AdmitPolicy, CheckPolicy, CommitPolicy, CheckWrite,
         CommitWrite, CheckNotice, CommitNotice, Refuse, identityVars, workVars
<1>2. stage = [q \in asking |-> stage[q]]
  BY DEF TeamShape, TeamTypeOK
<1> QED BY <1>1, <1>2

\* The steps that find out who the actor is leave the project alone.
LEMMA DirectoryKeepsWork ==
  ASSUME TeamInv, [TeamNext]_teamVars, \A r \in asking : ~WorkStep(r)
  PROVE  /\ UNCHANGED <<asking, found, rowLock, teamDataVars>> /\ sequence <= sequence'
         /\ \A r \in asking : /\ stage[r] \in {"known", "admitted", "checked", "done", "refused"}
                                   => stage'[r] = stage[r] /\ base'[r] = base[r]
                              /\ stage'[r] \in {"admitted", "checked", "done"} => stage'[r] = stage[r]
<1> USE DEF TeamInv, TeamShape, TeamTypeOK
<1>1. CASE DirectoryChanges
  BY <1>1 DEF DirectoryChanges, workVars
<1>2. ASSUME NEW q \in asking, ReadDirectory(q)
      PROVE  /\ UNCHANGED <<asking, found, rowLock, teamDataVars, sequence>> /\ stage[q] = "new"
             /\ stage' = [stage EXCEPT ![q] = "read"] /\ \A r \in asking \ {q} : base'[r] = base[r]
  BY <1>2 DEF ReadDirectory, workVars
<1>3. ASSUME NEW q \in asking, ConfirmDirectory(q) \/ ResolveUser(q)
      PROVE  /\ UNCHANGED <<asking, found, rowLock, teamDataVars, sequence, base>>
             /\ stage[q] \in {"read", "proved"}
             /\ \E s \in {"proved", "known", "refused"} : stage' = [stage EXCEPT ![q] = s]
  BY <1>3 DEF ConfirmDirectory, ResolveUser, workVars, identityVars
<1>4. CASE UNCHANGED teamVars
  BY <1>4 DEF teamVars, identityVars, workVars
<1> QED BY <1>1, <1>2, <1>3, <1>4 DEF TeamNext, WorkStep

Stages == {"new", "read", "proved", "known", "admitted", "checked", "done", "refused"}
PostType == [status : {"none", "open", "resolved", "deleted"}, author : Users \cup {Nobody}]
NoticeType == [state : {"none", "unread", "read"}, audit : {"unread", "read"}, fits : BOOLEAN]

\* What the project's rows and their locks are.
RowShape ==
  /\ rowLock \in [{"project", "policy", "notice"} -> Ids \cup {0}] /\ DOMAIN found = asking
  /\ members \in [Users -> Roles] /\ owner \in Users
  /\ audit \in [Users -> [role : Roles, fits : BOOLEAN]]
  /\ policy \in [revision : Nat, grants : SUBSET Nat]
  /\ posts \in [Ids -> PostType] /\ notices \in [Ids -> [Users -> NoticeType]]
\* What is known of the directory.
IdentityShape ==
  /\ asking \in TeamScenarios /\ base \in [asking -> Nat]
  /\ sequence \in 1 .. MaxSequence /\ synced \in 1 .. MaxSequence
  /\ snapshot \in [asking -> 0 .. MaxSequence] /\ since \in [asking -> 0 .. MaxSequence]

\* The types of the team, in parts.
LEMMA TeamShapeParts ==
  TeamShape <=> /\ IdentityShape /\ RowShape /\ stage \in [asking -> Stages]
                /\ authority \in [asking -> Standings]
BY DEF TeamShape, TeamTypeOK, IdentityShape, RowShape, Stages, PostType, NoticeType

\* The locks a step takes, and those it gives back.
LEMMA LocksOfRows ==
  ASSUME RowShape, NEW i \in Ids, NEW row \in {"project", "policy", "notice"}, UNCHANGED asking
  PROVE  /\ [rowLock EXCEPT ![row] = i] \in [{"project", "policy", "notice"} -> (Ids \cup {0})']
         /\ [rowLock EXCEPT ![row] = IF @ = i THEN 0 ELSE @]
              \in [{"project", "policy", "notice"} -> (Ids \cup {0})']
<1>1. Ids' = Ids /\ rowLock \in [{"project", "policy", "notice"} -> Ids \cup {0}]
  BY DEF Ids, RowShape
<1> QED BY <1>1

\* A step in the project keeps the shape of its rows, one at a time.
LEMMA MembersShapeKept ==
  ASSUME RowShape, asking \in TeamScenarios, NEW r \in asking, CheckMembers(r) \/ CommitMembers(r)
  PROVE  RowShape'
<1>0. r.id \in Ids /\ r.user \in Users /\ r.role \in Roles /\ asking' = asking /\ Ids' = Ids
  BY IdsAreUnique DEF Ids, CheckMembers, CommitMembers, identityVars
<1>1. CASE CheckMembers(r)
  <2>1. /\ UNCHANGED teamDataVars
        /\ \/ UNCHANGED <<found, rowLock>>
           \/ /\ \E n : found' = [found EXCEPT ![r] = n]
              /\ rowLock' = [rowLock EXCEPT !["project"] = r.id]
    BY <1>1 DEF CheckMembers, Refuse
  <2> QED BY <1>0, <2>1, LocksOfRows DEF RowShape, teamDataVars
<1>2. CASE CommitMembers(r)
  <2>0. /\ members \in [Users -> Roles] /\ owner \in Users
        /\ audit \in [Users -> [role : Roles, fits : BOOLEAN]]
    BY DEF RowShape
  <2>1. NewRole(r) \in Roles
    BY <1>0 DEF NewRole, Roles
  <2>2. \A u, o, n, log : log \in [Users -> [role : Roles, fits : BOOLEAN]] /\ n \in Roles
          => Audited(u, o, n, log) \in [Users -> [role : Roles, fits : BOOLEAN]]
    BY DEF Audited
  <2>3. Transferred(r) \in [Users -> Roles] /\ "member" \in Roles
    BY <2>0 DEF Transferred, Roles
  <2>4. members' \in [Users -> Roles] /\ owner' \in Users
    BY <1>0, <1>2, <2>0, <2>1, <2>3 DEF CommitMembers
  <2> DEFINE logged == Audited(r.user, found[r], NewRole(r), audit)
  <2>5. logged \in [Users -> [role : Roles, fits : BOOLEAN]]
    BY <2>0, <2>1, <2>2
  <2>6. audit' = logged \/ audit' = Audited(owner, "admin", "member", logged)
    BY <1>2 DEF CommitMembers
  <2>7. audit' \in [Users -> [role : Roles, fits : BOOLEAN]]
    BY <2>2, <2>3, <2>5, <2>6
  <2>8. /\ UNCHANGED <<found, policy, posts, notices>>
        /\ rowLock' = [rowLock EXCEPT !["project"] = IF @ = r.id THEN 0 ELSE @]
    BY <1>2 DEF CommitMembers
  <2> QED BY <1>0, <2>4, <2>7, <2>8, LocksOfRows DEF RowShape
<1> QED BY <1>1, <1>2

\* A change of the access policy keeps the types of the rows.
LEMMA PolicyShapeKept ==
  ASSUME RowShape, asking \in TeamScenarios, NEW r \in asking,
         AdmitPolicy(r) \/ CheckPolicy(r) \/ CommitPolicy(r)
  PROVE  RowShape'
<1>0. r.id \in Ids /\ r.about \in Nat /\ asking' = asking /\ Ids' = Ids
  BY IdsAreUnique DEF Ids, AdmitPolicy, CheckPolicy, CommitPolicy, identityVars
<1>1. CASE AdmitPolicy(r)
  BY <1>0, <1>1 DEF AdmitPolicy, RowShape, workVars, teamDataVars
<1>2. CASE CheckPolicy(r)
  <2>1. /\ UNCHANGED <<found, teamDataVars>>
        /\ UNCHANGED rowLock \/ rowLock' = [rowLock EXCEPT !["policy"] = r.id]
    BY <1>2 DEF CheckPolicy, Refuse
  <2>2. rowLock' \in [{"project", "policy", "notice"} -> Ids' \cup {0}]
    BY <1>0, <2>1, LocksOfRows DEF RowShape
  <2> QED BY <1>0, <2>1, <2>2 DEF RowShape, teamDataVars
<1>3. CASE CommitPolicy(r)
  <2>1. policy' \in [revision : Nat, grants : SUBSET Nat]
    BY <1>0, <1>3 DEF CommitPolicy, RowShape
  <2>2. /\ UNCHANGED <<found, members, owner, audit, posts, notices>>
        /\ rowLock' = [rowLock EXCEPT !["policy"] = IF @ = r.id THEN 0 ELSE @]
    BY <1>3 DEF CommitPolicy
  <2> QED BY <1>0, <2>1, <2>2, LocksOfRows DEF RowShape
<1> QED BY <1>1, <1>2, <1>3

\* A change of members or owner keeps the types of the rows.
LEMMA WritesShapeKept ==
  ASSUME RowShape, asking \in TeamScenarios, NEW r \in asking, CheckWrite(r) \/ CommitWrite(r)
  PROVE  RowShape'
<1>0. r.id \in Ids /\ r.actor \in Users /\ asking' = asking /\ Ids' = Ids
  BY IdsAreUnique DEF Ids, CheckWrite, CommitWrite, identityVars
<1>1. CASE CheckWrite(r)
  BY <1>0, <1>1 DEF CheckWrite, RowShape, workVars, teamDataVars
<1>2. CASE CommitWrite(r)
  <2>0. posts \in [Ids -> PostType] /\ notices \in [Ids -> [Users -> NoticeType]]
    BY DEF RowShape
  <2>1. \A i \in Ids, s \in {"open", "resolved", "deleted"} :
          [posts[i] EXCEPT !.status = s] \in PostType
    BY <2>0 DEF PostType
  <2>2. \A s \in {"open", "resolved", "deleted"} : [posts EXCEPT ![r.about].status = s] \in [Ids -> PostType]
    BY <2>0, <2>1
  <2>3. [status |-> "open", author |-> r.actor] \in PostType
    BY <1>0 DEF PostType
  <2>4. r.op \in {"note", "hint", "message"} \/ r.op = "unnote" \/ r.op = "resolve" \/ r.op = "reopen"
    BY <1>2 DEF CommitWrite, Writes
  <2>5. posts' = [posts EXCEPT ![r.id] = [status |-> "open", author |-> r.actor]]
        \/ \E s \in {"open", "resolved", "deleted"} : posts' = [posts EXCEPT ![r.about].status = s]
    BY <1>2, <2>4 DEF CommitWrite
  <2>6. posts' \in [Ids -> PostType]
    BY <1>0, <2>0, <2>2, <2>3, <2>5
  <2> DEFINE sent == [NoNotice EXCEPT !.state = "unread"]
  <2>7. sent \in NoticeType
    BY DEF NoNotice, NoticeType
  <2>8. notices' = [notices EXCEPT ![r.id] = [u \in Users |->
                     IF u \in Targets(r) THEN sent ELSE notices[r.id][u]]]
    BY <1>2 DEF CommitWrite
  <2>9. notices' \in [Ids -> [Users -> NoticeType]]
    <3> HIDE DEF sent
    <3> QED BY <1>0, <2>0, <2>7, <2>8
  <2>10. UNCHANGED <<found, rowLock, members, owner, audit, policy>>
    BY <1>2 DEF CommitWrite
  <2> QED BY <1>0, <2>6, <2>9, <2>10 DEF RowShape
<1> QED BY <1>1, <1>2

\* A notice keeps the types of the rows.
LEMMA NoticesShapeKept ==
  ASSUME RowShape, asking \in TeamScenarios, NEW r \in asking, CheckNotice(r) \/ CommitNotice(r)
  PROVE  RowShape'
<1>0. r.id \in Ids /\ r.actor \in Users /\ asking' = asking /\ Ids' = Ids
  BY IdsAreUnique DEF Ids, CheckNotice, CommitNotice, identityVars
<1>1. CASE CheckNotice(r)
  <2>1. /\ UNCHANGED teamDataVars
        /\ \/ UNCHANGED <<found, rowLock>>
           \/ /\ \E n : found' = [found EXCEPT ![r] = n]
              /\ rowLock' = [rowLock EXCEPT !["notice"] = r.id]
    BY <1>1 DEF CheckNotice, Refuse
  <2> QED BY <1>0, <2>1, LocksOfRows DEF RowShape, teamDataVars
<1>2. CASE CommitNotice(r)
  <2>0. notices \in [Ids -> [Users -> NoticeType]] /\ r.op \in {"read", "unread"}
    BY <1>2 DEF RowShape, CommitNotice
  <2>1. \A fits \in BOOLEAN : [state |-> r.op, audit |-> r.op, fits |-> fits] \in NoticeType
    BY <2>0 DEF NoticeType
  <2>2. \/ notices' = notices
        \/ \E fits \in BOOLEAN : notices' = [notices EXCEPT ![r.about][r.actor] =
                                              [state |-> r.op, audit |-> r.op, fits |-> fits]]
    <3> DEFINE fits == notices[r.about][r.actor].fits /\ notices[r.about][r.actor].audit = found[r]
    <3>1. \/ notices' = notices
          \/ notices' = [notices EXCEPT ![r.about][r.actor] = [state |-> r.op, audit |-> r.op, fits |-> fits]]
      BY <1>2 DEF CommitNotice
    <3>2. fits \in BOOLEAN
      OBVIOUS
    <3> QED BY <3>1, <3>2
  <2>3. ASSUME NEW fits \in BOOLEAN
        PROVE  [notices EXCEPT ![r.about][r.actor] = [state |-> r.op, audit |-> r.op, fits |-> fits]]
                 \in [Ids -> [Users -> NoticeType]]
    <3> DEFINE n == [state |-> r.op, audit |-> r.op, fits |-> fits]
    <3>1. n \in NoticeType
      BY <2>1
    <3> HIDE DEF n
    <3>2. \A i \in Ids : [notices[i] EXCEPT ![r.actor] = n] \in [Users -> NoticeType]
      BY <2>0, <3>1
    <3>3. [notices EXCEPT ![r.about] = [notices[r.about] EXCEPT ![r.actor] = n]] \in [Ids -> [Users -> NoticeType]]
      BY <2>0, <3>2
    <3> QED BY <3>3 DEF n
  <2>5. notices' \in [Ids -> [Users -> NoticeType]]
    BY <2>0, <2>2, <2>3
  <2>4. /\ UNCHANGED <<found, members, owner, audit, policy, posts>>
        /\ rowLock' = [rowLock EXCEPT !["notice"] = IF @ = r.id THEN 0 ELSE @]
    BY <1>2 DEF CommitNotice
  <2> QED BY <1>0, <2>4, <2>5, LocksOfRows DEF RowShape
<1> QED BY <1>1, <1>2

\* Every step of the team keeps its types.
LEMMA TeamShapeKept ==
  ASSUME TeamInv, [TeamNext]_teamVars
  PROVE  TeamShape'
<1>0. /\ IdentityShape /\ RowShape /\ stage \in [asking -> Stages] /\ DirectoryIsFresh
      /\ authority \in [asking -> Standings] /\ TeamShape /\ asking \in TeamScenarios
  BY TeamShapeParts DEF TeamInv, IdentityShape
<1>1. ASSUME IdentityShape', RowShape', stage' \in [asking -> Stages],
             authority' \in [asking -> Standings], asking' = asking
      PROVE  TeamShape'
  <2>1. /\ asking' \in TeamScenarios /\ base' \in [asking' -> Nat]
        /\ sequence' \in 1 .. MaxSequence /\ synced' \in 1 .. MaxSequence
        /\ snapshot' \in [asking' -> 0 .. MaxSequence] /\ since' \in [asking' -> 0 .. MaxSequence]
    BY <1>1 DEF IdentityShape
  <2>2. /\ rowLock' \in [{"project", "policy", "notice"} -> Ids' \cup {0}] /\ DOMAIN found' = asking'
        /\ members' \in [Users -> Roles] /\ owner' \in Users
        /\ audit' \in [Users -> [role : Roles, fits : BOOLEAN]]
        /\ policy' \in [revision : Nat, grants : SUBSET Nat]
        /\ posts' \in [Ids' -> PostType] /\ notices' \in [Ids' -> [Users -> NoticeType]]
    BY <1>1 DEF RowShape
  <2> QED BY <1>1, <2>1, <2>2 DEF TeamShape, TeamTypeOK, Stages, PostType, NoticeType
<1>2. UNCHANGED <<asking, found, rowLock, teamDataVars>> => RowShape'
  BY <1>0 DEF RowShape, Ids, teamDataVars
<1>3. UNCHANGED identityVars => IdentityShape'
  BY <1>0 DEF IdentityShape, identityVars
<1>4. MaxSequence \in Nat /\ \A n \in 1 .. MaxSequence : \A u \in Users : Directories[n][u] \in Standings
  BY TeamAssumption
<1>5. CASE DirectoryChanges
  <2>1. /\ sequence < MaxSequence /\ sequence' = sequence + 1
        /\ UNCHANGED <<synced, asking, stage, snapshot, since, base, authority, found, rowLock, teamDataVars>>
    BY <1>5 DEF DirectoryChanges, workVars
  <2>2. IdentityShape'
    BY <1>0, <1>4, <2>1 DEF IdentityShape
  <2> QED BY <1>0, <1>1, <1>2, <2>1, <2>2
<1>6. ASSUME NEW r \in asking, ReadDirectory(r) PROVE TeamShape'
  <2>1. /\ stage' = [stage EXCEPT ![r] = "read"]
        /\ since' = [since EXCEPT ![r] = sequence] /\ snapshot' = [snapshot EXCEPT ![r] = sequence]
        /\ UNCHANGED <<sequence, synced, asking, authority, found, rowLock, teamDataVars>>
    BY <1>6 DEF ReadDirectory, workVars
  <2>2. base' \in [asking -> Nat]
    <3>1. base \in [asking -> Nat] /\ policy.revision \in Nat
      BY <1>0 DEF IdentityShape, RowShape
    <3> QED BY <1>6, <3>1 DEF ReadDirectory
  <2>3. IdentityShape'
    <3>1. /\ sequence \in 0 .. MaxSequence
          /\ snapshot \in [asking -> 0 .. MaxSequence] /\ since \in [asking -> 0 .. MaxSequence]
      BY <1>0, <1>4 DEF IdentityShape
    <3>2. snapshot' \in [asking -> 0 .. MaxSequence] /\ since' \in [asking -> 0 .. MaxSequence]
      BY <2>1, <3>1
    <3> QED BY <1>0, <2>1, <2>2, <3>2 DEF IdentityShape
  <2>4. stage' \in [asking -> Stages]
    BY <1>0, <2>1 DEF Stages
  <2> QED BY <1>0, <1>1, <1>2, <2>1, <2>3, <2>4
<1>7. ASSUME NEW r \in asking, ConfirmDirectory(r) PROVE TeamShape'
  <2>1. /\ UNCHANGED <<sequence, asking, snapshot, since, base, authority, found, rowLock, teamDataVars>>
        /\ stage' = [stage EXCEPT ![r] = "refused"] \/ stage' = [stage EXCEPT ![r] = "proved"]
    BY <1>7 DEF ConfirmDirectory, workVars
  <2>2. synced' = synced \/ synced' = snapshot[r]
    BY <1>7 DEF ConfirmDirectory, SyncUsers, Reconciled
  <2>3. snapshot[r] \in 1 .. sequence
    BY <1>0, <1>7 DEF ConfirmDirectory, DirectoryIsFresh
  <2>4. IdentityShape'
    BY <1>0, <1>4, <2>1, <2>2, <2>3 DEF IdentityShape
  <2>5. stage' \in [asking -> Stages]
    BY <1>0, <2>1 DEF Stages
  <2> QED BY <1>0, <1>1, <1>2, <2>1, <2>4, <2>5
<1>8. ASSUME NEW r \in asking, ResolveUser(r) PROVE TeamShape'
  <2>1. /\ UNCHANGED <<identityVars, found, rowLock, teamDataVars>>
        /\ authority' = [authority EXCEPT ![r] = Directories[synced][r.actor]]
        /\ stage' = [stage EXCEPT ![r] = "known"] \/ stage' = [stage EXCEPT ![r] = "refused"]
    BY <1>8 DEF ResolveUser
  <2>2. Directories[synced][r.actor] \in Standings
    BY <1>0, <1>4, IdsAreUnique DEF IdentityShape
  <2>3. stage' \in [asking -> Stages] /\ authority' \in [asking -> Standings] /\ asking' = asking
    BY <1>0, <2>1, <2>2 DEF Stages, identityVars
  <2> QED BY <1>1, <1>2, <1>3, <2>1, <2>3
<1>9. ASSUME NEW r \in asking, WorkStep(r) PROVE TeamShape'
  <2>1. /\ UNCHANGED <<identityVars, authority>>
        /\ \E s \in {"admitted", "checked", "done", "refused"} : stage' = [stage EXCEPT ![r] = s]
    BY <1>0, <1>9, WorkMovesOn
  <2>2. RowShape'
    BY <1>0, <1>9, MembersShapeKept, PolicyShapeKept, WritesShapeKept, NoticesShapeKept DEF WorkStep
  <2>3. stage' \in [asking -> Stages] /\ authority' \in [asking -> Standings] /\ asking' = asking
    BY <1>0, <2>1 DEF Stages, identityVars
  <2> QED BY <1>1, <1>3, <2>1, <2>2, <2>3
<1>10. CASE UNCHANGED teamVars
  <2>1. UNCHANGED <<identityVars, asking, stage, authority, found, rowLock, teamDataVars>>
    BY <1>10 DEF teamVars, workVars, identityVars
  <2> QED BY <1>0, <1>1, <1>2, <1>3, <2>1
<1> QED BY <1>5, <1>6, <1>7, <1>8, <1>9, <1>10 DEF TeamNext, WorkStep

\* Who is proved is proved by a directory there was since he came.
LEMMA DirectoryKept ==
  ASSUME TeamInv, [TeamNext]_teamVars
  PROVE  (DirectoryIsFresh /\ RevokedIsRefused)'
<1>0. /\ sequence \in Nat /\ synced \in Nat /\ synced <= sequence /\ DirectoryIsFresh /\ RevokedIsRefused
      /\ snapshot \in [asking -> Nat] /\ since \in [asking -> Nat] /\ TeamShape
      /\ stage = [q \in asking |-> stage[q]] /\ authority = [q \in asking |-> authority[q]]
  BY TeamAssumption DEF TeamInv, TeamShape, TeamTypeOK, DirectoryIsFresh
\* A step that makes nobody known who was not.
<1>7. ASSUME UNCHANGED <<sequence, asking, snapshot, since, authority>>, synced' \in synced .. sequence,
             \A q \in asking :
               /\ stage'[q] = "read" => stage[q] = "read"
               /\ stage'[q] = "proved" => stage[q] = "proved" \/ since[q] <= synced'
               /\ stage'[q] \in {"known", "admitted", "checked", "done"} =>
                    stage[q] \in {"known", "admitted", "checked", "done"}
      PROVE  (DirectoryIsFresh /\ RevokedIsRefused)'
  <2>1. DirectoryIsFresh'
    <3>1. \A q \in asking : stage'[q] = "read" => since[q] = snapshot[q] /\ snapshot[q] \in 1 .. sequence
      BY <1>0, <1>7 DEF DirectoryIsFresh
    <3>2. \A q \in asking : stage'[q] = "proved" => since[q] <= synced'
      BY <1>0, <1>7 DEF DirectoryIsFresh
    <3> QED BY <1>0, <1>7, <3>1, <3>2 DEF DirectoryIsFresh
  <2>2. RevokedIsRefused'
    BY <1>0, <1>7, Zenon DEF RevokedIsRefused
  <2> QED BY <2>1, <2>2
<1>1. CASE DirectoryChanges
  <2>1. sequence' = sequence + 1 /\ UNCHANGED <<synced, asking, stage, snapshot, since, authority>>
    BY <1>1 DEF DirectoryChanges, workVars
  <2> QED BY <1>0, <2>1 DEF DirectoryIsFresh, RevokedIsRefused
<1>2. ASSUME NEW r \in asking, ReadDirectory(r) PROVE (DirectoryIsFresh /\ RevokedIsRefused)'
  <2>1. /\ UNCHANGED <<sequence, synced, asking, authority>> /\ stage[r] = "new"
        /\ stage' = [stage EXCEPT ![r] = "read"]
        /\ since' = [since EXCEPT ![r] = sequence] /\ snapshot' = [snapshot EXCEPT ![r] = sequence]
    BY <1>2 DEF ReadDirectory, workVars
  <2>2. /\ stage'[r] = "read" /\ since'[r] = sequence /\ snapshot'[r] = sequence /\ sequence \in 1 .. sequence
        /\ \A q \in asking \ {r} : stage'[q] = stage[q] /\ since'[q] = since[q] /\ snapshot'[q] = snapshot[q]
    BY <1>0, <2>1 DEF TeamShape, TeamTypeOK
  <2>3. DirectoryIsFresh'
    BY <1>0, <2>1, <2>2 DEF DirectoryIsFresh
  <2>4. RevokedIsRefused'
    BY <2>1, <2>2, <1>0 DEF RevokedIsRefused
  <2> QED BY <2>3, <2>4
<1>3. ASSUME NEW r \in asking, ConfirmDirectory(r) PROVE (DirectoryIsFresh /\ RevokedIsRefused)'
  <2>1. since[r] = snapshot[r] /\ snapshot[r] \in 1 .. sequence
    BY <1>0, <1>3 DEF ConfirmDirectory, DirectoryIsFresh
  <2>2. Reconciled(snapshot[r]) # 0 =>
          Reconciled(snapshot[r]) >= since[r] /\ Reconciled(snapshot[r]) \in synced .. sequence
    BY <1>0, <2>1 DEF Reconciled
  <2>3. /\ UNCHANGED <<sequence, asking, snapshot, since, authority>> /\ synced' \in synced .. sequence
        /\ \/ stage' = [stage EXCEPT ![r] = "refused"]
           \/ stage' = [stage EXCEPT ![r] = "proved"] /\ since[r] <= synced'
    BY <1>0, <1>3, <2>1, <2>2 DEF ConfirmDirectory, SyncUsers, workVars
  <2>4. /\ \A q \in asking \ {r} : stage'[q] = stage[q]
        /\ stage'[r] = "refused" \/ (stage'[r] = "proved" /\ since[r] <= synced')
    BY <1>0, <2>3
  <2> QED BY <1>7, <2>3, <2>4
<1>4. ASSUME NEW r \in asking, ResolveUser(r) PROVE (DirectoryIsFresh /\ RevokedIsRefused)'
  <2>1. since[r] \in Nat /\ synced \in since[r] .. sequence
    BY <1>0, <1>4 DEF ResolveUser, DirectoryIsFresh
  <2>2. /\ UNCHANGED <<sequence, synced, asking, snapshot, since>>
        /\ authority' = [authority EXCEPT ![r] = Directories[synced][r.actor]]
        /\ \E s \in {"known", "refused"} : stage' = [stage EXCEPT ![r] = s]
    BY <1>4 DEF ResolveUser, identityVars
  <2>3. /\ stage'[r] \in {"known", "refused"} /\ authority'[r] = Directories[synced][r.actor]
        /\ \A q \in asking \ {r} : stage'[q] = stage[q] /\ authority'[q] = authority[q]
    BY <1>0, <2>2
  <2>4. DirectoryIsFresh'
    BY <1>0, <2>2, <2>3 DEF DirectoryIsFresh
  <2>5. RevokedIsRefused'
    BY SMTT(20), <1>0, <2>1, <2>2, <2>3 DEF RevokedIsRefused
  <2> QED BY <2>4, <2>5
<1>5. ASSUME NEW r \in asking, WorkStep(r) PROVE (DirectoryIsFresh /\ RevokedIsRefused)'
  <2>1. UNCHANGED <<sequence, synced, asking, since, snapshot, authority>>
    BY <1>0, <1>5, WorkMovesOn DEF identityVars
  <2>2. \A q \in asking : /\ stage'[q] \in {"read", "proved"} => stage'[q] = stage[q]
                          /\ stage'[q] \in {"known", "admitted", "checked", "done"} =>
                               stage[q] \in {"known", "admitted", "checked", "done"}
    BY <1>0, <1>5, WorkMovesOn
  <2>3. synced' \in synced .. sequence
    BY <1>0, <2>1
  <2> QED BY <1>7, <2>1, <2>2, <2>3
<1>6. CASE UNCHANGED teamVars
  <2>1. UNCHANGED <<sequence, synced, asking, since, snapshot, authority, stage>>
    BY <1>6 DEF teamVars, identityVars, workVars
  <2> QED BY <1>0, <2>1 DEF DirectoryIsFresh, RevokedIsRefused
<1> QED BY <1>1, <1>2, <1>3, <1>4, <1>5, <1>6 DEF TeamNext, WorkStep

\* The project's row keeps everyone else out between what a request finds and what it writes.
LEMMA MembersKept ==
  ASSUME TeamInv, [TeamNext]_teamVars
  PROVE  (MembersAreHeld /\ OwnerIsAdmin)'
<1>0. /\ MembersAreHeld /\ OwnerIsAdmin /\ members \in [Users -> Roles] /\ owner \in Users
      /\ stage = [q \in asking |-> stage[q]] /\ DOMAIN found = asking
      /\ rowLock = [row \in {"project", "policy", "notice"} |-> rowLock[row]]
  BY DEF TeamInv, TeamShape, TeamTypeOK
<1>1. /\ \A r \in asking : r.id # 0 /\ r.user \in Users
      /\ \A r, s \in asking : r.id = s.id => r = s
  BY IdsAreUnique DEF TeamInv, TeamShape
<1>2. CASE \A r \in asking : ~WorkStep(r)
  BY <1>0, <1>2, DirectoryKeepsWork DEF MembersAreHeld, OwnerIsAdmin, teamDataVars, NewRole
<1>3. ASSUME NEW r \in asking, CheckMembers(r) PROVE (MembersAreHeld /\ OwnerIsAdmin)'
  <2>1. UNCHANGED <<asking, members, owner>> /\ rowLock["project"] = 0
    BY <1>3 DEF CheckMembers, FreeRow, identityVars, teamDataVars
  <2>2. \A q \in asking : ~(stage[q] = "checked" /\ q.op \in MemberOps)
    BY <1>0, <1>1, <2>1 DEF MembersAreHeld
  <2>3. CASE MayChangeMembers(r)
    <3>1. /\ stage' = [stage EXCEPT ![r] = "checked"] /\ found' = [found EXCEPT ![r] = members[r.user]]
          /\ rowLock' = [rowLock EXCEPT !["project"] = r.id] /\ r.op \in MemberOps
      BY <1>3, <2>3 DEF CheckMembers
    <3>2. /\ r.op = "transfer" => r.user # owner
          /\ r.op # "transfer" /\ r.user = owner => NewRole(r) = "admin"
      BY <1>0, <2>3, <3>1 DEF MayChangeMembers, RoleChangeAllowed, OwnerIsAdmin, MemberOps
    <3> QED BY <1>0, <2>1, <2>2, <3>1, <3>2 DEF MembersAreHeld, OwnerIsAdmin, NewRole
  <2>4. CASE ~MayChangeMembers(r)
    <3>1. stage' = [stage EXCEPT ![r] = "refused"]
      BY <1>3, <2>4 DEF CheckMembers, Refuse
    <3> QED BY <1>0, <2>1, <2>2, <3>1 DEF MembersAreHeld, OwnerIsAdmin
  <2> QED BY <2>3, <2>4
<1>4. ASSUME NEW r \in asking, CommitMembers(r) PROVE (MembersAreHeld /\ OwnerIsAdmin)'
  <2>1. stage[r] = "checked" /\ r.op \in MemberOps /\ asking' = asking
        /\ stage' = [stage EXCEPT ![r] = "done"]
    BY <1>4 DEF CommitMembers, identityVars
  <2>2. \A q \in asking \ {r} : ~(stage[q] = "checked" /\ q.op \in MemberOps)
    BY <1>0, <1>1, <2>1 DEF MembersAreHeld
  <2>3. MembersAreHeld'
    BY <1>0, <2>1, <2>2 DEF MembersAreHeld
  <2>4. CASE r.op = "transfer"
    <3>1. owner' = r.user /\ members' = Transferred(r) /\ r.user # owner
      BY <1>0, <1>4, <2>1, <2>4 DEF CommitMembers, MembersAreHeld
    <3> QED BY <1>0, <1>1, <2>3, <3>1 DEF Transferred, OwnerIsAdmin
  <2>5. CASE r.op # "transfer"
    <3>1. owner' = owner /\ members' = [members EXCEPT ![r.user] = NewRole(r)]
      BY <1>4, <2>5 DEF CommitMembers
    <3> QED BY <1>0, <1>1, <2>1, <2>3, <2>5, <3>1 DEF MembersAreHeld, OwnerIsAdmin
  <2> QED BY <2>4, <2>5
<1>5. ASSUME NEW r \in asking, WorkStep(r), ~CheckMembers(r), ~CommitMembers(r)
      PROVE (MembersAreHeld /\ OwnerIsAdmin)'
  <2>1. /\ UNCHANGED <<asking, members, owner>> /\ rowLock'["project"] = rowLock["project"]
        /\ r.op \notin MemberOps
    BY <1>0, <1>5 DEF WorkStep, AdmitPolicy, CheckPolicy, CommitPolicy, CheckWrite, CommitWrite,
       CheckNotice, CommitNotice, Refuse, identityVars, workVars, teamDataVars, Writes, MemberOps,
       TeamInv, PolicyIsHeld
  <2>2. \A q \in asking \ {r} : stage'[q] = stage[q] /\ found'[q] = found[q]
    BY <1>0, <1>5 DEF WorkStep, AdmitPolicy, CheckPolicy, CommitPolicy, CheckWrite, CommitWrite,
       CheckNotice, CommitNotice, Refuse, workVars
  <2> QED BY <1>0, <2>1, <2>2 DEF MembersAreHeld, OwnerIsAdmin, NewRole
<1> QED BY <1>2, <1>3, <1>4, <1>5

\* A policy's row keeps everyone else out between the comparison and the new revision.
LEMMA PolicyKept ==
  ASSUME TeamInv, [TeamNext]_teamVars
  PROVE  PolicyIsHeld'
<1>0. /\ PolicyIsHeld /\ stage = [q \in asking |-> stage[q]]
      /\ rowLock = [row \in {"project", "policy", "notice"} |-> rowLock[row]]
  BY DEF TeamInv, TeamShape, TeamTypeOK
<1>1. /\ \A r \in asking : r.id # 0
      /\ \A r, s \in asking : r.id = s.id => r = s
  BY IdsAreUnique DEF TeamInv, TeamShape
<1>2. CASE \A r \in asking : ~WorkStep(r)
  <2>1. /\ UNCHANGED <<asking, rowLock, policy>>
        /\ \A r \in asking : stage'[r] \in {"admitted", "checked"} =>
                               stage'[r] = stage[r] /\ base'[r] = base[r]
    BY <1>2, DirectoryKeepsWork DEF teamDataVars
  <2> QED BY <1>0, <2>1 DEF PolicyIsHeld
<1>3. ASSUME NEW r \in asking, WorkStep(r) PROVE asking' = asking /\ base' = base
  BY <1>3, WorkMovesOn DEF TeamInv, identityVars
<1>4. ASSUME NEW r \in asking, CheckPolicy(r) PROVE PolicyIsHeld'
  <2>1. UNCHANGED <<asking, base, policy>> /\ rowLock["policy"] = 0
    BY <1>4 DEF CheckPolicy, FreeRow, identityVars, teamDataVars
  <2>2. \A q \in asking : ~(stage[q] = "checked" /\ q.op = "policy")
    BY <1>0, <1>1, <2>1 DEF PolicyIsHeld
  <2>3. CASE base[r] = policy.revision /\ r.about \notin policy.grants
    <3>1. /\ stage' = [stage EXCEPT ![r] = "checked"]
          /\ rowLock' = [rowLock EXCEPT !["policy"] = r.id]
      BY <1>4, <2>3 DEF CheckPolicy
    <3> QED BY <1>0, <2>1, <2>2, <2>3, <3>1 DEF PolicyIsHeld
  <2>4. CASE ~(base[r] = policy.revision /\ r.about \notin policy.grants)
    <3>1. stage' = [stage EXCEPT ![r] = "refused"]
      BY <1>4, <2>4 DEF CheckPolicy, Refuse
    <3> QED BY <1>0, <2>1, <2>2, <3>1 DEF PolicyIsHeld
  <2> QED BY <2>3, <2>4
<1>5. ASSUME NEW r \in asking, CommitPolicy(r) PROVE PolicyIsHeld'
  <2>1. stage[r] = "checked" /\ r.op = "policy" /\ asking' = asking
        /\ stage' = [stage EXCEPT ![r] = "done"]
    BY <1>5 DEF CommitPolicy, identityVars
  <2>2. \A q \in asking \ {r} : ~(stage[q] = "checked" /\ q.op = "policy")
    BY <1>0, <1>1, <2>1 DEF PolicyIsHeld
  <2> QED BY <1>0, <2>1, <2>2 DEF PolicyIsHeld
<1>6. ASSUME NEW r \in asking, AdmitPolicy(r) PROVE PolicyIsHeld'
  <2>1. UNCHANGED <<rowLock, policy>> /\ r.op = "policy"
    BY <1>6 DEF AdmitPolicy, workVars, teamDataVars
  <2>2. stage' = [stage EXCEPT ![r] = "admitted"] \/ stage' = [stage EXCEPT ![r] = "refused"]
    BY <1>6 DEF AdmitPolicy
  <2> QED BY <1>0, <1>3, <1>6, <2>1, <2>2 DEF WorkStep, PolicyIsHeld
<1>7. ASSUME NEW r \in asking, CheckMembers(r) \/ CommitMembers(r) \/ CheckWrite(r) \/ CommitWrite(r)
                                 \/ CheckNotice(r) \/ CommitNotice(r)
      PROVE PolicyIsHeld'
  <2>1. policy' = policy /\ rowLock'["policy"] = rowLock["policy"] /\ r.op # "policy"
    BY <1>0, <1>7 DEF CheckMembers, CommitMembers, CheckWrite, CommitWrite, CheckNotice, CommitNotice,
       Refuse, workVars, teamDataVars, Writes, MemberOps
  <2>2. \E s \in {"checked", "done", "refused"} : stage' = [stage EXCEPT ![r] = s]
    BY <1>7 DEF CheckMembers, CommitMembers, CheckWrite, CommitWrite, CheckNotice, CommitNotice, Refuse
  <2> QED BY <1>0, <1>3, <1>7, <2>1, <2>2 DEF WorkStep, PolicyIsHeld
<1> QED BY <1>2, <1>4, <1>5, <1>6, <1>7 DEF WorkStep

\* A transaction that marks a notice has it to itself, and what it marks is written.
LEMMA NoticesKept ==
  ASSUME TeamInv, [TeamNext]_teamVars
  PROVE  (NoticeIsHeld /\ NotSentYet)'
<1>0. /\ NoticeIsHeld /\ NotSentYet /\ stage = [q \in asking |-> stage[q]] /\ DOMAIN found = asking
      /\ rowLock = [row \in {"project", "policy", "notice"} |-> rowLock[row]]
      /\ notices = [i \in Ids |-> notices[i]]
      /\ \A i \in Ids : notices[i] = [u \in Users |-> notices[i][u]]
      /\ \A i \in Ids, u \in Users : notices[i][u] = [state |-> notices[i][u].state,
           audit |-> notices[i][u].audit, fits |-> notices[i][u].fits]
  BY DEF TeamInv, TeamShape, TeamTypeOK
<1>1. /\ \A r \in asking : r.id # 0 /\ r.id \in Ids /\ r.actor \in Users
      /\ \A r, s \in asking : r.id = s.id => r = s
      /\ asking' = asking => Ids' = Ids
  BY IdsAreUnique DEF TeamInv, TeamShape, Ids
<1>2. CASE \A r \in asking : ~WorkStep(r)
  <2>1. /\ UNCHANGED <<asking, rowLock, found, notices>>
        /\ \A r \in asking : /\ stage'[r] = "checked" => stage'[r] = stage[r]
                             /\ stage[r] = "done" => stage'[r] = stage[r]
    BY <1>2, DirectoryKeepsWork DEF teamDataVars
  <2> QED BY <1>0, <1>1, <2>1 DEF NoticeIsHeld, NotSentYet
<1>3. ASSUME NEW r \in asking, WorkStep(r) PROVE asking' = asking
  BY <1>3, WorkMovesOn DEF TeamInv, identityVars
<1>4. ASSUME NEW r \in asking, CheckNotice(r) PROVE (NoticeIsHeld /\ NotSentYet)'
  <2>1. UNCHANGED <<asking, notices>> /\ rowLock["notice"] = 0
    BY <1>4 DEF CheckNotice, FreeRow, identityVars, teamDataVars
  <2>2. \A q \in asking : ~(stage[q] = "checked" /\ q.op \in {"read", "unread"})
    BY <1>0, <1>1, <2>1 DEF NoticeIsHeld
  <2>3. CASE notices[r.about][r.actor].state # "none"
    <3>1. /\ stage' = [stage EXCEPT ![r] = "checked"] /\ stage[r] = "known"
          /\ found' = [found EXCEPT ![r] = notices[r.about][r.actor].state]
          /\ rowLock' = [rowLock EXCEPT !["notice"] = r.id]
      BY <1>4, <2>3 DEF CheckNotice
    <3>2. NoticeIsHeld'
      BY <1>0, <1>1, <2>1, <2>2, <2>3, <3>1 DEF NoticeIsHeld
    <3>3. NotSentYet'
      BY <1>0, <2>1, <3>1 DEF NotSentYet
    <3> QED BY <3>2, <3>3
  <2>4. CASE notices[r.about][r.actor].state = "none"
    <3>1. stage' = [stage EXCEPT ![r] = "refused"] /\ stage[r] = "known"
      BY <1>4, <2>4 DEF CheckNotice, Refuse
    <3> QED BY <1>0, <1>1, <2>1, <2>2, <3>1 DEF NoticeIsHeld, NotSentYet
  <2> QED BY <2>3, <2>4
<1>5. ASSUME NEW r \in asking, CommitNotice(r) PROVE (NoticeIsHeld /\ NotSentYet)'
  <2>1. stage[r] = "checked" /\ r.op \in {"read", "unread"} /\ asking' = asking
        /\ stage' = [stage EXCEPT ![r] = "done"]
    BY <1>5 DEF CommitNotice, identityVars
  <2>2. \A q \in asking \ {r} : ~(stage[q] = "checked" /\ q.op \in {"read", "unread"})
    BY <1>0, <1>1, <2>1 DEF NoticeIsHeld
  <2>3. NoticeIsHeld'
    BY <1>0, <2>1, <2>2 DEF NoticeIsHeld
  <2>4. \A q \in asking : stage[q] # "done" => notices'[q.id] = notices[q.id]
    <3> SUFFICES ASSUME NEW q \in asking, stage[q] # "done" PROVE notices'[q.id] = notices[q.id]
      OBVIOUS
    <3>1. q.id # r.about
      BY <1>0, <1>1, <2>1 DEF NoticeIsHeld, NotSentYet
    <3>2. notices' = notices \/ \E n : notices' = [notices EXCEPT ![r.about] = n]
      BY <1>5 DEF CommitNotice
    <3> QED BY <1>0, <1>1, <3>1, <3>2
  <2> QED BY <1>0, <2>1, <2>3, <2>4 DEF NotSentYet
<1>6. ASSUME NEW r \in asking, CommitWrite(r) PROVE (NoticeIsHeld /\ NotSentYet)'
  <2>1. /\ stage[r] = "checked" /\ r.op \in Writes /\ UNCHANGED <<asking, found, rowLock>>
        /\ stage' = [stage EXCEPT ![r] = "done"]
        /\ \A i \in Ids \ {r.id} : notices'[i] = notices[i]
    BY <1>0, <1>6 DEF CommitWrite, identityVars
  <2>2. \A q \in asking : stage[q] = "checked" /\ q.op \in {"read", "unread"} => q.about # r.id
    BY SMTT(20), <1>0, <1>1, <2>1 DEF NoticeIsHeld, NotSentYet
  <2> QED BY <1>0, <1>1, <2>1, <2>2 DEF NoticeIsHeld, NotSentYet
<1>7. ASSUME NEW r \in asking, WorkStep(r), ~CheckNotice(r), ~CommitNotice(r), ~CommitWrite(r)
      PROVE (NoticeIsHeld /\ NotSentYet)'
  <2>1. notices' = notices /\ rowLock'["notice"] = rowLock["notice"] /\ r.op \notin {"read", "unread"}
    BY <1>0, <1>7 DEF WorkStep, CheckMembers, CommitMembers, AdmitPolicy, CheckPolicy, CommitPolicy,
       CheckWrite, Refuse, workVars, teamDataVars, Writes, MemberOps, TeamInv, PolicyIsHeld
  <2>2. \A q \in asking \ {r} : found'[q] = found[q]
    BY <1>0, <1>7 DEF WorkStep, CheckMembers, CommitMembers, AdmitPolicy, CheckPolicy, CommitPolicy,
       CheckWrite, Refuse, workVars
  <2>3. stage[r] # "done" /\ \E s \in {"admitted", "checked", "done", "refused"} : stage' = [stage EXCEPT ![r] = s]
    BY <1>7, WorkMovesOn DEF TeamInv
  <2> QED BY <1>0, <1>1, <1>3, <1>7, <2>1, <2>2, <2>3 DEF NoticeIsHeld, NotSentYet
<1> QED BY <1>2, <1>4, <1>5, <1>6, <1>7

\* What the audit says was there is what the transaction found, and left.
LEMMA AuditKept ==
  ASSUME TeamInv, [TeamNext]_teamVars
  PROVE  AuditReplays'
<1>0. /\ AuditReplays /\ MembersAreHeld /\ NoticeIsHeld /\ OwnerIsAdmin
      /\ members = [u \in Users |-> members[u]] /\ owner \in Users
      /\ audit = [u \in Users |-> audit[u]]
      /\ notices \in [Ids -> [Users -> [state : {"none", "unread", "read"}, audit : {"unread", "read"},
                                        fits : BOOLEAN]]]
  BY DEF TeamInv, TeamShape, TeamTypeOK
<1>1. /\ \A r \in asking : r.id \in Ids /\ r.user \in Users /\ r.actor \in Users
      /\ asking' = asking => Ids' = Ids
  BY IdsAreUnique DEF TeamInv, TeamShape, Ids
<1>2. CASE \A r \in asking : ~WorkStep(r)
  <2>1. UNCHANGED <<asking, members, audit, notices>>
    BY <1>2, DirectoryKeepsWork DEF teamDataVars
  <2> QED BY <1>0, <1>1, <2>1 DEF AuditReplays
<1>3. ASSUME NEW r \in asking, WorkStep(r) PROVE Ids' = Ids
  BY <1>1, <1>3, WorkMovesOn DEF TeamInv, identityVars
<1>4. ASSUME NEW r \in asking, CommitMembers(r) PROVE AuditReplays'
  <2>1. notices' = notices /\ found[r] = members[r.user] /\ (r.op = "transfer" => r.user # owner)
    BY <1>0, <1>4 DEF CommitMembers, MembersAreHeld
  <2> DEFINE logged == Audited(r.user, found[r], NewRole(r), audit)
  <2>2. /\ logged = [u \in Users |-> logged[u]]
        /\ \A u \in Users : logged[u] = [role |-> IF u = r.user THEN NewRole(r) ELSE members[u], fits |-> TRUE]
    <3>1. logged = [audit EXCEPT ![r.user] = [role |-> NewRole(r), fits |-> @.fits /\ found[r] = @.role]]
      BY DEF Audited
    <3>2. \A u \in Users : audit[u].role = members[u] /\ audit[u].fits
      BY <1>0 DEF AuditReplays
    <3>3. audit[r.user].fits /\ found[r] = audit[r.user].role
      BY <1>1, <2>1, <3>2
    <3>6. r.user \in DOMAIN audit
      BY <1>0, <1>1 DEF TeamInv, TeamShape, TeamTypeOK
    <3>4. logged[r.user] = [role |-> NewRole(r), fits |-> TRUE]
      BY <3>1, <3>3, <3>6
    <3>5. \A u \in Users \ {r.user} : logged[u] = audit[u]
      BY <1>0, <3>1
    <3> QED BY ZenonT(40), <1>0, <3>1, <3>4, <3>5 DEF AuditReplays
  <2>3. \A u \in Users : audit'[u] = [role |-> members'[u], fits |-> TRUE]
    <3>1. CASE r.op = "transfer"
      <4>1. members' = Transferred(r) /\ audit' = Audited(owner, "admin", "member", logged)
        BY <1>4, <3>1 DEF CommitMembers
      <4>2. /\ \A u \in Users \ {r.user, owner} : members'[u] = members[u]
            /\ members'[r.user] = "admin" /\ members'[owner] = "member"
        BY <1>0, <1>1, <2>1, <3>1, <4>1 DEF Transferred, OwnerIsAdmin
      <4>3. \A u \in Users \ {owner} : audit'[u] = logged[u]
        BY <1>0, <2>2, <4>1 DEF Audited
      <4>4. audit'[owner] = [role |-> "member", fits |-> TRUE]
        <5>1. logged[owner] = [role |-> "admin", fits |-> TRUE]
          BY <1>0, <2>1, <2>2, <3>1 DEF OwnerIsAdmin
        <5>2. logged[owner].fits /\ "admin" = logged[owner].role
          BY <5>1
        <5>3. audit' = [logged EXCEPT ![owner] = [role |-> "member", fits |-> @.fits /\ "admin" = @.role]]
          BY <4>1 DEF Audited
        <5>4. owner \in DOMAIN logged
          BY <1>0, <2>2 DEF TeamInv, TeamShape, TeamTypeOK
        <5> HIDE DEF logged
        <5> QED BY <5>2, <5>3, <5>4
      <4>5. NewRole(r) = "admin"
        BY <3>1 DEF NewRole
      <4> QED BY ZenonT(40), <2>1, <2>2, <3>1, <4>2, <4>3, <4>4, <4>5
    <3>2. CASE r.op # "transfer"
      BY <1>0, <1>4, <2>2, <3>2 DEF CommitMembers
    <3> QED BY <3>1, <3>2
  <2> QED BY <1>0, <1>3, <1>4, <2>1, <2>3 DEF WorkStep, AuditReplays
<1>5. ASSUME NEW r \in asking, CommitWrite(r) PROVE AuditReplays'
  <2> DEFINE sent == [NoNotice EXCEPT !.state = "unread"]
  <2>1. UNCHANGED <<members, audit>> /\ notices' = [notices EXCEPT ![r.id] = [u \in Users |->
                      IF u \in Targets(r) THEN sent ELSE notices[r.id][u]]]
    BY <1>5 DEF CommitWrite
  <2>2. sent.fits /\ sent.state = sent.audit
    BY DEF NoNotice
  <2> HIDE DEF sent
  <2> QED BY <1>0, <1>1, <1>3, <1>5, <2>1, <2>2 DEF WorkStep, AuditReplays
<1>6. ASSUME NEW r \in asking, CommitNotice(r) PROVE AuditReplays'
  <2>1. UNCHANGED <<members, audit>> /\ r.op \in {"read", "unread"} /\ found[r] # "none"
        /\ (r.about \in Ids => found[r] = notices[r.about][r.actor].state)
    BY <1>0, <1>6 DEF CommitNotice, NoticeIsHeld
  <2>2. CASE notices' = notices
    BY <1>0, <1>3, <1>6, <2>1, <2>2 DEF WorkStep, AuditReplays
  <2>3. CASE r.about \notin Ids
    <3>1. notices' = notices \/ \E n : notices' = [notices EXCEPT ![r.about] = n]
      BY <1>6 DEF CommitNotice
    <3>2. \A i \in Ids : notices'[i] = notices[i]
      BY <1>0, <2>3, <3>1
    <3> QED BY <1>0, <1>3, <1>6, <2>1, <3>2 DEF WorkStep, AuditReplays
  <2>4. CASE notices' # notices /\ r.about \in Ids
    <3>1. notices' = [notices EXCEPT ![r.about][r.actor] =
                       [state |-> r.op, audit |-> r.op, fits |-> @.fits /\ @.audit = found[r]]]
      BY <1>6, <2>4 DEF CommitNotice
    <3>2. notices[r.about][r.actor].fits /\ notices[r.about][r.actor].audit = found[r]
      BY <1>0, <1>1, <2>1, <2>4 DEF AuditReplays
    <3>3. \A i \in Ids, u \in Users : ~(i = r.about /\ u = r.actor) => notices'[i][u] = notices[i][u]
      BY <1>0, <3>1
    <3>4. /\ notices'[r.about][r.actor].fits
          /\ notices'[r.about][r.actor].state = notices'[r.about][r.actor].audit
      BY <1>0, <1>1, <2>4, <3>1, <3>2
    <3> QED BY <1>0, <1>3, <1>6, <2>1, <3>3, <3>4 DEF WorkStep, AuditReplays
  <2> QED BY <2>2, <2>3, <2>4
<1>7. ASSUME NEW r \in asking, WorkStep(r), ~CommitMembers(r), ~CommitWrite(r), ~CommitNotice(r)
      PROVE  AuditReplays'
  <2>1. UNCHANGED <<members, audit, notices>>
    BY <1>7 DEF WorkStep, CheckMembers, AdmitPolicy, CheckPolicy, CommitPolicy, CheckWrite, CheckNotice,
       workVars, teamDataVars
  <2> QED BY <1>0, <1>3, <1>7, <2>1 DEF AuditReplays
<1> QED BY <1>2, <1>4, <1>5, <1>6, <1>7

-----------------------------------------------------------------------------
(* What holds of the team. *)

\* In every behaviour of the team.
LEMMA TeamInvariance == TeamSpec => []TeamInv
<1>1. TeamInit => TeamInv
  BY TeamInitHolds
<1>2. TeamInv /\ [TeamNext]_teamVars => TeamInv'
  BY TeamShapeKept, DirectoryKept, MembersKept, PolicyKept, NoticesKept, AuditKept DEF TeamInv
<1> QED BY <1>1, <1>2, PTL DEF TeamSpec

\* The variables of the team have the values their code gives them.
THEOREM TeamTyping == TeamSpec => []TeamTypeOK
<1>1. TeamInv => TeamTypeOK
  BY DEF TeamInv, TeamShape
<1> QED BY <1>1, TeamInvariance, PTL

\* However many administrators change each other and the owner at once, the owner of
\* the project is one of its admins.
THEOREM OwnerStaysAdmin == TeamSpec => []OwnerIsAdmin
<1>1. TeamInv => OwnerIsAdmin
  BY DEF TeamInv
<1> QED BY <1>1, TeamInvariance, PTL

\* Nobody acts with rights that were taken away before his request came in.
THEOREM RevokedStaysRefused == TeamSpec => []RevokedIsRefused
<1>1. TeamInv => RevokedIsRefused
  BY DEF TeamInv
<1> QED BY <1>1, TeamInvariance, PTL

\* The audit trails of members and notices replay to what there is.
THEOREM AuditAlwaysReplays == TeamSpec => []AuditReplays
<1>1. TeamInv => AuditReplays
  BY DEF TeamInv
<1> QED BY <1>1, TeamInvariance, PTL

\* A policy replaces the one it was made from, and a grant is used once.
THEOREM PoliciesAreNotOverwritten == TeamSpec => NothingOverwritten
<1>1. TeamInv /\ [TeamNext]_teamVars =>
        [\A r \in asking : r.op = "policy" /\ stage[r] = "checked" /\ stage'[r] = "done" =>
           base[r] = policy.revision /\ r.about \notin policy.grants]_teamVars
  BY DEF TeamInv, PolicyIsHeld
<1> QED BY <1>1, TeamInvariance, PTL DEF TeamSpec, NothingOverwritten

-----------------------------------------------------------------------------
(* The admission of calls: which counters are which, and whose ticket is where. *)

\* The authorizer works with an epoch that was started, Redis with none that is to
\* come, and what Redis says was spent is what the epoch let pass.
EpochsAgree ==
  /\ engine.at # "down" => engine.epoch \in 1 .. epochRow.epoch
  /\ engine.at = "starting" => engine.epoch = epochRow.epoch
  /\ engine.at = "up" => engine.epoch < epochRow.epoch \/ epochRow.initialized
  /\ redis.epoch <= epochRow.epoch /\ redis.spent <= Burst
  /\ IF redis.epoch = 0 THEN redis.spent = 0 ELSE redis.spent = spent[redis.epoch]
  /\ \A e \in 1 .. MaxEpoch :
       spent[e] # 0 => e < epochRow.epoch \/ (e = epochRow.epoch /\ epochRow.initialized)
  /\ \A c \in Calls : call[c].at \in {"known", "judged", "rated", "counted"} => engine.at = "up"

\* A ticket is of a call that was issued one, for the policies it was judged by; once
\* it is taken it is nowhere else.
TicketsAreOnce ==
  /\ \A c \in Calls : call[c].at \in {"judged", "rated", "counted", "issued"} => call[c].judged \in 1 .. revision
  /\ \A t \in redis.tickets : call[t[1]].at = "issued" /\ t[2] = call[t[1]].judged
  /\ \A d \in Calls \X Redeemers :
       /\ redeem[d].at # "new" => call[d[1]].at = "issued" /\ redeem[d].since <= revision
       /\ redeem[d].at \in {"taken", "forwarded"} =>
            /\ redeem[d].bears = call[d[1]].judged
            /\ \A t \in redis.tickets : t[1] # d[1]
            /\ \A e \in Calls \X Redeemers :
                 redeem[e].at \in {"taken", "forwarded"} /\ e[1] = d[1] => d = e
       /\ redeem[d].at = "forwarded" => call[d[1]].judged >= redeem[d].since

CountedCalls == {c \in Calls : call[c].at \in {"counted", "issued"}}

\* Every call that passed the quota is in its count.
CallsAreCounted == IsFiniteSet(CountedCalls) /\ Cardinality(CountedCalls) <= admitted

AccessInv == AccessTypeOK /\ CountersSurvive /\ EpochsAgree /\ TicketsAreOnce /\ CallsAreCounted

\* The invariant of the authorizer holds to begin with.
LEMMA AccessInitHolds == AccessInit => AccessInv
<1> SUFFICES ASSUME AccessInit PROVE AccessInv
  OBVIOUS
<1>1. AccessTypeOK /\ CountersSurvive /\ EpochsAgree /\ TicketsAreOnce
  BY AccessAssumption DEF AccessInit, Empty, AccessTypeOK, CountersSurvive, EpochsAgree, TicketsAreOnce
<1>2. CountedCalls = {}
  BY DEF AccessInit, CountedCalls
<1> QED BY <1>1, <1>2, FS_EmptySet DEF AccessInit, AccessInv, CallsAreCounted

CallType   == [at : {"new", "known", "judged", "rated", "counted", "issued", "refused"},
               judged : 0 .. MaxRevision]
RedeemType == [at : {"new", "known", "current", "taken", "forwarded", "refused"},
               since : 0 .. MaxRevision, bears : 0 .. MaxRevision]
RedisType  == [epoch : 0 .. MaxEpoch, spent : Nat, tickets : SUBSET (Calls \X (1 .. MaxRevision))]

\* A record with a field replaced by a value of the field's type has its type.
LEMMA CallFields ==
  ASSUME NEW v \in CallType
  PROVE  /\ v.at \in {"new", "known", "judged", "rated", "counted", "issued", "refused"}
         /\ v.judged \in 0 .. MaxRevision
         /\ \A at \in {"new", "known", "judged", "rated", "counted", "issued", "refused"} :
              /\ [v EXCEPT !.at = at] \in CallType
              /\ \A n \in 0 .. MaxRevision : [at |-> at, judged |-> n] \in CallType
<1>1. /\ v.at \in {"new", "known", "judged", "rated", "counted", "issued", "refused"}
      /\ v.judged \in 0 .. MaxRevision
  BY DEF CallType
<1>2. ASSUME NEW at \in {"new", "known", "judged", "rated", "counted", "issued", "refused"}
      PROVE  [v EXCEPT !.at = at] \in CallType
  BY Zenon DEF CallType
<1>3. ASSUME NEW at \in {"new", "known", "judged", "rated", "counted", "issued", "refused"},
             NEW n \in 0 .. MaxRevision
      PROVE  [at |-> at, judged |-> n] \in CallType
  BY Zenon DEF CallType
<1> QED BY <1>1, <1>2, <1>3

\* What a redemption holds, and what its steps make of it.
LEMMA RedeemFields ==
  ASSUME NEW v \in RedeemType
  PROVE  /\ v.since \in 0 .. MaxRevision /\ v.bears \in 0 .. MaxRevision
         /\ \A at \in {"new", "known", "current", "taken", "forwarded", "refused"} :
              /\ [v EXCEPT !.at = at] \in RedeemType
              /\ \A n \in 0 .. MaxRevision : /\ [v EXCEPT !.at = at, !.since = n] \in RedeemType
                                             /\ [v EXCEPT !.at = at, !.bears = n] \in RedeemType
  BY Zenon DEF RedeemType

\* What Redis holds, and what the steps make of it.
LEMMA RedisFields ==
  ASSUME NEW v \in RedisType
  PROVE  /\ v.epoch \in 0 .. MaxEpoch /\ v.spent \in Nat
         /\ v.tickets \in SUBSET (Calls \X (1 .. MaxRevision))
         /\ \A e \in 0 .. MaxEpoch : [v EXCEPT !.epoch = e] \in RedisType
         /\ [v EXCEPT !.spent = @ + 1] \in RedisType
         /\ \A T \in SUBSET (Calls \X (1 .. MaxRevision)) : [v EXCEPT !.tickets = T] \in RedisType
  BY DEF RedisType

\* Every step of the authorizer keeps its types.
LEMMA AccessTypesKept ==
  ASSUME AccessInv, [AccessNext]_accessVars
  PROVE  AccessTypeOK'
<1>0. /\ MaxRevision \in Nat /\ MaxEpoch \in Nat /\ TicketsAreOnce /\ EpochsAgree
      /\ revision \in 1 .. MaxRevision /\ keyLive \in BOOLEAN /\ admitted \in Nat
      /\ epochRow \in [epoch : 1 .. MaxEpoch, initialized : BOOLEAN]
      /\ redis \in RedisType
      /\ engine \in [at : {"down", "starting", "up"}, epoch : 0 .. MaxEpoch]
      /\ call \in [Calls -> CallType] /\ redeem \in [Calls \X Redeemers -> RedeemType]
      /\ spent \in [1 .. MaxEpoch -> Nat]
  BY AccessAssumption DEF AccessInv, AccessTypeOK, CallType, RedeemType, RedisType
<1>00. ASSUME /\ revision' \in 1 .. MaxRevision /\ keyLive' \in BOOLEAN /\ admitted' \in Nat
              /\ epochRow' \in [epoch : 1 .. MaxEpoch, initialized : BOOLEAN]
              /\ redis' \in RedisType
              /\ engine' \in [at : {"down", "starting", "up"}, epoch : 0 .. MaxEpoch]
              /\ call' \in [Calls -> CallType] /\ redeem' \in [Calls \X Redeemers -> RedeemType]
              /\ spent' \in [1 .. MaxEpoch -> Nat]
       PROVE  AccessTypeOK'
  BY <1>00 DEF AccessTypeOK, CallType, RedeemType, RedisType
<1>01. /\ epochRow.epoch \in 1 .. MaxEpoch /\ redis.epoch \in 0 .. MaxEpoch /\ redis.spent \in Nat
       /\ redis.tickets \in SUBSET (Calls \X (1 .. MaxRevision))
       /\ [redis EXCEPT !.spent = @ + 1] \in RedisType
       /\ \A e \in 0 .. MaxEpoch : [redis EXCEPT !.epoch = e] \in RedisType
       /\ \A T \in SUBSET redis.tickets : [redis EXCEPT !.tickets = T] \in RedisType
  BY <1>0, RedisFields
<1>02. ASSUME NEW c \in Calls, NEW at \in {"new", "known", "judged", "rated", "counted", "issued", "refused"}
       PROVE  [call EXCEPT ![c].at = at] \in [Calls -> CallType]
  <2>1. [call[c] EXCEPT !.at = at] \in CallType
    BY <1>0, CallFields, Zenon
  <2> QED BY <1>0, <2>1
<1>03. ASSUME NEW d \in Calls \X Redeemers,
              NEW at \in {"new", "known", "current", "taken", "forwarded", "refused"}
       PROVE  /\ [redeem EXCEPT ![d].at = at] \in [Calls \X Redeemers -> RedeemType]
              /\ \A n \in 0 .. MaxRevision :
                   /\ [redeem EXCEPT ![d] = [@ EXCEPT !.at = at, !.since = n]] \in [Calls \X Redeemers -> RedeemType]
                   /\ [redeem EXCEPT ![d] = [@ EXCEPT !.at = at, !.bears = n]] \in [Calls \X Redeemers -> RedeemType]
  <2>1. /\ [redeem[d] EXCEPT !.at = at] \in RedeemType
        /\ \A n \in 0 .. MaxRevision : /\ [redeem[d] EXCEPT !.at = at, !.since = n] \in RedeemType
                                       /\ [redeem[d] EXCEPT !.at = at, !.bears = n] \in RedeemType
    BY <1>0, RedeemFields, Zenon
  <2> QED BY <1>0, <2>1
<1> USE DEF countVars, engineVars
<1>1. CASE Startup
  <2>1. epochRow.epoch \in 0 .. MaxEpoch /\ redis.epoch \in 0 .. MaxEpoch
    BY <1>0, <1>01
  <2>2. redis' \in RedisType
    BY <1>1, <1>01, <2>1 DEF Startup
  <2> QED BY <1>0, <1>00, <1>1, <2>1, <2>2 DEF Startup
<1>2. CASE Started
  BY <1>0, <1>00, <1>2 DEF Started
<1>3. CASE Stop
  <2>1. call' \in [Calls -> CallType] /\ redeem' \in [Calls \X Redeemers -> RedeemType]
    BY <1>0, <1>3, CallFields, RedeemFields DEF Stop
  <2> QED BY <1>0, <1>00, <1>3, <2>1 DEF Stop
<1>4. CASE RedisIsLost
  <2>1. Empty \in RedisType
    BY <1>0 DEF Empty, RedisType
  <2> QED BY <1>0, <1>00, <1>4, <2>1 DEF RedisIsLost
<1>5. CASE ResetEpoch
  BY <1>0, <1>00, <1>5 DEF ResetEpoch
<1>6. CASE PolicyChanges \/ KeyEnds
  <2>1. revision' \in 1 .. MaxRevision /\ keyLive' \in BOOLEAN
    <3>1. CASE PolicyChanges
      BY <1>0, <3>1 DEF PolicyChanges
    <3>2. CASE KeyEnds
      <4>1. keyLive' \in BOOLEAN
        BY <3>2, Zenon DEF KeyEnds
      <4>2. revision' = revision
        BY <3>2 DEF KeyEnds
      <4> QED BY <1>0, <4>1, <4>2
    <3> QED BY <1>6, <3>1, <3>2
  <2> QED BY <1>0, <1>00, <1>6, <2>1 DEF PolicyChanges, KeyEnds
<1>7. ASSUME NEW c \in Calls, Admit(c) \/ Judge(c) PROVE AccessTypeOK'
  <2>1. call' \in [Calls -> CallType]
    <3>1. CASE Admit(c)
      BY <1>02, <3>1 DEF Admit, At
    <3>2. CASE Judge(c)
      <4>1. [at |-> "judged", judged |-> revision] \in CallType
        BY <1>0 DEF CallType
      <4> QED BY <1>0, <3>2, <4>1 DEF Judge
    <3> QED BY <1>7, <3>1, <3>2
  <2> QED BY <1>0, <1>00, <1>7, <2>1 DEF Admit, Judge
<1>8. ASSUME NEW c \in Calls, Rate(c) PROVE AccessTypeOK'
  <2>1. engine.epoch \in 1 .. MaxEpoch
    BY <1>0, <1>8 DEF Rate, EpochsAgree
  <2>2. call' \in [Calls -> CallType]
    <3>1. CASE redis.epoch = engine.epoch /\ redis.spent < Burst
      <4>1. call' = [call EXCEPT ![c].at = "rated"]
        BY <1>8, <3>1 DEF Rate, At
      <4> QED BY <1>02, <4>1
    <3>2. CASE ~(redis.epoch = engine.epoch /\ redis.spent < Burst)
      <4>1. call' = [call EXCEPT ![c].at = "refused"]
        BY <1>8, <3>2 DEF Rate, At
      <4> QED BY <1>02, <4>1
    <3> QED BY <3>1, <3>2
  <2>3. redis' \in RedisType /\ spent' \in [1 .. MaxEpoch -> Nat]
    <3>1. CASE redis.epoch = engine.epoch /\ redis.spent < Burst
      <4>1. redis' = [redis EXCEPT !.spent = @ + 1] /\ spent' = [spent EXCEPT ![engine.epoch] = @ + 1]
        BY <1>8, <3>1 DEF Rate
      <4>2. spent[engine.epoch] + 1 \in Nat
        BY <1>0, <2>1
      <4> QED BY <1>0, <1>01, <2>1, <4>1, <4>2
    <3>2. CASE ~(redis.epoch = engine.epoch /\ redis.spent < Burst)
      BY <1>0, <1>8, <3>2 DEF Rate
    <3> QED BY <3>1, <3>2
  <2> QED BY <1>0, <1>00, <1>8, <2>2, <2>3 DEF Rate
<1>9. ASSUME NEW c \in Calls, Quota(c) PROVE AccessTypeOK'
  <2>1. call' \in [Calls -> CallType] /\ admitted' \in Nat
    <3>1. CASE admitted < QuotaOf(revision)
      <4>1. call' = [call EXCEPT ![c].at = "counted"] /\ admitted' = admitted + 1
        BY <1>9, <3>1 DEF Quota, At
      <4>2. [call EXCEPT ![c].at = "counted"] \in [Calls -> CallType]
        BY <1>02
      <4>3. admitted + 1 \in Nat
        BY <1>0
      <4> QED BY <4>1, <4>2, <4>3
    <3>2. CASE ~(admitted < QuotaOf(revision))
      <4>1. call' = [call EXCEPT ![c].at = "refused"] /\ admitted' = admitted
        BY <1>9, <3>2 DEF Quota, At
      <4> QED BY <1>0, <1>02, <4>1
    <3> QED BY <3>1, <3>2
  <2> QED BY <1>0, <1>00, <1>9, <2>1 DEF Quota
<1>10. ASSUME NEW c \in Calls, IssueTicket(c) PROVE AccessTypeOK'
  <2>1. call[c].judged \in 1 .. MaxRevision
    BY <1>0, <1>10 DEF IssueTicket, TicketsAreOnce
  <2>2. redis.tickets \cup {<<c, call[c].judged>>} \in SUBSET (Calls \X (1 .. MaxRevision))
    BY <1>01, <2>1
  <2>3. call' \in [Calls -> CallType]
    BY <1>10, <1>02 DEF IssueTicket, At
  <2>4. redis' \in RedisType
    BY <1>0, <1>10, <2>2, RedisFields DEF IssueTicket, TicketRevision
  <2> QED BY <1>0, <1>00, <1>10, <2>3, <2>4 DEF IssueTicket
<1>11. ASSUME NEW c \in Calls, TicketLapses(c) PROVE AccessTypeOK'
  <2>1. redis' \in RedisType
    <3>1. PICK t \in redis.tickets : redis' = [redis EXCEPT !.tickets = redis.tickets \ {t}]
      BY <1>11 DEF TicketLapses
    <3> QED BY <1>01, <3>1
  <2> QED BY <1>0, <1>00, <1>11, <2>1 DEF TicketLapses
<1>12. ASSUME NEW d \in Calls \X Redeemers, PresentTicket(d) \/ CheckEpoch(d) \/ Forward(d)
       PROVE AccessTypeOK'
  <2>1. redeem' \in [Calls \X Redeemers -> RedeemType]
    <3>1. CASE PresentTicket(d)
      <4>1. revision \in 0 .. MaxRevision
        BY <1>0
      <4>2. PICK at \in {"known", "refused"} :
              redeem' = [redeem EXCEPT ![d] = [@ EXCEPT !.at = at, !.since = revision]]
        BY <3>1 DEF PresentTicket
      <4>3. [redeem EXCEPT ![d] = [@ EXCEPT !.at = at, !.since = revision]]
              \in [Calls \X Redeemers -> RedeemType]
        BY <1>03, <4>1
      <4> QED BY <4>2, <4>3
    <3>2. CASE CheckEpoch(d)
      BY <1>03, <3>2 DEF CheckEpoch
    <3>3. CASE Forward(d)
      BY <1>03, <3>3 DEF Forward
    <3> QED BY <1>12, <3>1, <3>2, <3>3
  <2> QED BY <1>0, <1>00, <1>12, <2>1 DEF PresentTicket, CheckEpoch, Forward
<1>13. ASSUME NEW d \in Calls \X Redeemers, TakeTicket(d) PROVE AccessTypeOK'
  <2>1. CASE \E t \in redis.tickets : t[1] = d[1]
    <3>1. PICK t \in redis.tickets : /\ redis' = [redis EXCEPT !.tickets = redis.tickets \ {t}]
                                     /\ redeem' = [redeem EXCEPT ![d] = [@ EXCEPT !.at = "taken", !.bears = t[2]]]
      BY <1>13, <2>1 DEF TakeTicket, Taken
    <3>2. t[2] \in 0 .. MaxRevision
      BY <1>01
    <3>3. redis' \in RedisType /\ redeem' \in [Calls \X Redeemers -> RedeemType]
      BY <1>01, <1>03, <3>1, <3>2
    <3> QED BY <1>0, <1>00, <1>13, <3>3 DEF TakeTicket
  <2>2. CASE ~ \E t \in redis.tickets : t[1] = d[1]
    <3>1. redeem' \in [Calls \X Redeemers -> RedeemType] /\ redis' = redis
      <4>1. redeem' = [redeem EXCEPT ![d].at = "refused"] /\ redis' = redis
        BY <1>13, <2>2 DEF TakeTicket
      <4> QED BY <1>03, <4>1
    <3> QED BY <1>0, <1>00, <1>13, <3>1 DEF TakeTicket
  <2> QED BY <2>1, <2>2
<1>14. CASE UNCHANGED accessVars
  BY <1>0, <1>00, <1>14 DEF accessVars
<1> QED BY <1>1, <1>2, <1>3, <1>4, <1>5, <1>6, <1>7, <1>8, <1>9, <1>10, <1>11, <1>12, <1>13, <1>14
        DEF AccessNext

\* The counters of an epoch go on where they were, or the epoch is over.
LEMMA EpochsKept ==
  ASSUME AccessInv, [AccessNext]_accessVars
  PROVE  (CountersSurvive /\ EpochsAgree)'
<1>0. /\ MaxEpoch \in Nat /\ Burst \in Nat /\ epochRow.epoch \in 1 .. MaxEpoch
      /\ redis.epoch \in 0 .. MaxEpoch /\ redis.spent \in Nat /\ engine.epoch \in 0 .. MaxEpoch
      /\ engine.at \in {"down", "starting", "up"} /\ spent \in [1 .. MaxEpoch -> Nat]
      /\ CountersSurvive /\ EpochsAgree
  BY AccessAssumption DEF AccessInv, AccessTypeOK
<1>t. /\ epochRow \in [epoch : 1 .. MaxEpoch, initialized : BOOLEAN]
      /\ redis \in RedisType /\ call \in [Calls -> CallType]
      /\ engine \in [at : {"down", "starting", "up"}, epoch : 0 .. MaxEpoch]
  BY DEF AccessInv, AccessTypeOK, RedisType, CallType
<1> USE DEF CountersSurvive, EpochsAgree, countVars, engineVars
<1>1. CASE Startup
  <2>1. /\ engine' = [at |-> "starting", epoch |-> epochRow.epoch]
        /\ redis'.epoch = (IF redis.epoch = 0 THEN epochRow.epoch ELSE redis.epoch)
        /\ redis'.spent = redis.spent /\ UNCHANGED <<spent, epochRow, call>> /\ engine.at = "down"
    BY <1>0, <1>t, <1>1 DEF RedisType, CallType, Startup
  <2>2. redis.epoch = 0 => ~epochRow.initialized
    BY <1>0, <1>t, <1>1 DEF RedisType, CallType, Startup, Belongs
  <2> QED BY <1>0, <2>1, <2>2
<1>2. CASE Started
  <2>1. /\ engine.at = "starting" /\ engine'.at = "up" /\ engine'.epoch = engine.epoch
        /\ epochRow'.epoch = epochRow.epoch /\ epochRow'.initialized
        /\ UNCHANGED <<redis, spent, call>>
    BY <1>0, <1>t, <1>2 DEF RedisType, CallType, Started
  <2> QED BY <1>0, <2>1
<1>3. CASE Stop
  <2>1. /\ engine'.at = "down" /\ UNCHANGED <<epochRow, redis, spent>>
        /\ \A c \in Calls : call'[c].at \notin {"known", "judged", "rated", "counted"}
    BY <1>0, <1>t, <1>3 DEF RedisType, CallType, Stop
  <2> QED BY <1>0, <2>1
<1>4. CASE RedisIsLost
  BY <1>0, <1>t, <1>4 DEF RedisType, CallType, RedisIsLost, Empty
<1>5. CASE ResetEpoch
  <2>1. /\ engine.at # "starting" /\ epochRow'.epoch = epochRow.epoch + 1
        /\ UNCHANGED <<engine, redis, spent, call>>
    BY <1>5 DEF ResetEpoch
  <2>2. ASSUME NEW e \in 1 .. MaxEpoch, spent'[e] # 0 PROVE e < epochRow'.epoch
    <3>1. e <= epochRow.epoch
      BY <1>0, <2>1, <2>2
    <3> QED BY <1>0, <2>1, <3>1
  <2>3. engine'.at # "down" => engine'.epoch \in 1 .. epochRow'.epoch /\ engine'.epoch < epochRow'.epoch
    BY <1>0, <2>1
  <2>4. redis'.epoch <= epochRow'.epoch /\ redis' = redis /\ call' = call /\ spent' = spent
    BY <1>0, <2>1
  <2>5. /\ engine' = engine /\ engine.at # "starting"
        /\ redis'.spent <= Burst /\ \A e \in 1 .. MaxEpoch : spent'[e] <= Burst
        /\ IF redis'.epoch = 0 THEN redis'.spent = 0 ELSE redis'.spent = spent'[redis'.epoch]
        /\ \A c \in Calls : call'[c].at \in {"known", "judged", "rated", "counted"} => engine'.at = "up"
    BY <1>0, <2>1, <2>4
  <2> QED BY <2>2, <2>3, <2>4, <2>5
<1>6. CASE PolicyChanges \/ KeyEnds
  BY <1>0, <1>6 DEF PolicyChanges, KeyEnds
<1>7. ASSUME NEW c \in Calls, Admit(c)
      PROVE  (CountersSurvive /\ EpochsAgree)'
  <2>1. engine.at = "up" /\ UNCHANGED <<engine, epochRow, redis, spent>>
    BY <1>7 DEF Admit
  <2> QED BY <1>0, <2>1
<1>8. ASSUME NEW c \in Calls, Rate(c)
      PROVE  (CountersSurvive /\ EpochsAgree)'
  <2>1. UNCHANGED <<engine, epochRow>> /\ engine.at = "up"
    BY <1>0, <1>8 DEF Rate
  <2>2. CASE redis.epoch = engine.epoch /\ redis.spent < Burst
    <3>1. /\ redis'.spent = redis.spent + 1 /\ redis'.epoch = redis.epoch
          /\ spent' = [spent EXCEPT ![engine.epoch] = @ + 1]
      BY <1>0, <1>t, <1>8, <2>2 DEF RedisType, Rate
    <3>2. /\ spent'[engine.epoch] = redis'.spent /\ redis'.spent <= Burst
          /\ \A e \in 1 .. MaxEpoch : e # engine.epoch => spent'[e] = spent[e]
      BY <1>0, <2>1, <2>2, <3>1
    <3>3. /\ redis'.epoch = engine.epoch /\ engine.epoch \in 1 .. epochRow.epoch
          /\ engine.epoch < epochRow.epoch \/ epochRow.initialized
      BY <1>0, <2>1, <2>2, <3>1
    <3>4. CountersSurvive'
      BY <1>0, <3>2
    <3>5. \A b \in Calls : call'[b].at \in {"known", "judged", "rated", "counted"} => engine'.at = "up"
      BY <2>1
    <3>6. \A e \in 1 .. MaxEpoch :
            spent'[e] # 0 => e < epochRow.epoch \/ (e = epochRow.epoch /\ epochRow.initialized)
      <4> SUFFICES ASSUME NEW e \in 1 .. MaxEpoch, spent'[e] # 0
                   PROVE  e < epochRow.epoch \/ (e = epochRow.epoch /\ epochRow.initialized)
        OBVIOUS
      <4>1. CASE e = engine.epoch
        <5>1. e < epochRow.epoch \/ (e = epochRow.epoch /\ ~(engine.epoch < epochRow.epoch))
          BY <1>0, <3>3, <4>1
        <5> QED BY <3>3, <5>1, Zenon
      <4>2. CASE e # engine.epoch
        BY <1>0, <3>2, <4>2
      <4> QED BY <4>1, <4>2
    <3> QED BY <1>0, <2>1, <3>1, <3>2, <3>3, <3>4, <3>5, <3>6
  <2>3. CASE ~(redis.epoch = engine.epoch /\ redis.spent < Burst)
    <3>1. UNCHANGED <<redis, spent>>
      BY <1>8, <2>3 DEF Rate
    <3> QED BY <1>0, <2>1, <3>1
  <2> QED BY <2>2, <2>3
<1>9. ASSUME NEW c \in Calls, Judge(c) \/ Quota(c) \/ IssueTicket(c) \/ TicketLapses(c)
      PROVE  (CountersSurvive /\ EpochsAgree)'
  <2>1. /\ UNCHANGED <<engine, epochRow, spent>>
        /\ redis'.epoch = redis.epoch /\ redis'.spent = redis.spent
    BY <1>0, <1>t, <1>9 DEF RedisType, CallType, Judge, Quota, IssueTicket, TicketLapses
  <2>2. \A b \in Calls : call'[b].at \in {"known", "judged", "rated", "counted"}
                           => call[b].at \in {"known", "judged", "rated", "counted"}
    BY <1>0, <1>t, <1>9 DEF RedisType, CallType, Judge, Quota, IssueTicket, TicketLapses, At
  <2> QED BY <1>0, <2>1, <2>2
<1>10. ASSUME NEW d \in Calls \X Redeemers, PresentTicket(d) \/ CheckEpoch(d) \/ TakeTicket(d) \/ Forward(d)
       PROVE  (CountersSurvive /\ EpochsAgree)'
  <2>1. /\ UNCHANGED <<engine, epochRow, spent, call>>
        /\ redis'.epoch = redis.epoch /\ redis'.spent = redis.spent
    BY <1>0, <1>t, <1>10 DEF RedisType, CallType, PresentTicket, CheckEpoch, TakeTicket, Forward
  <2> QED BY <1>0, <2>1
<1>11. CASE UNCHANGED accessVars
  BY <1>0, <1>11 DEF accessVars
<1> QED BY <1>1, <1>2, <1>3, <1>4, <1>5, <1>6, <1>7, <1>8, <1>9, <1>10, <1>11 DEF AccessNext

\* Whoever passed the quota is counted, as long as his call goes on and after it.
LEMMA CountKept ==
  ASSUME AccessInv, [AccessNext]_accessVars
  PROVE  CallsAreCounted'
<1>0. /\ call = [c \in Calls |-> call[c]] /\ admitted \in Nat
      /\ \A c \in Calls : call[c] = [at |-> call[c].at, judged |-> call[c].judged]
      /\ IsFiniteSet(CountedCalls) /\ Cardinality(CountedCalls) <= admitted
  BY DEF AccessInv, AccessTypeOK, CallsAreCounted
<1>1. ASSUME CountedCalls' \subseteq CountedCalls, admitted' = admitted PROVE CallsAreCounted'
  BY <1>0, <1>1, FS_Subset, FS_CardinalityType DEF CallsAreCounted
<1>2. ASSUME NEW c \in Calls, Quota(c) PROVE CallsAreCounted'
  <2>1. CASE admitted < QuotaOf(revision)
    <3>1. admitted' = admitted + 1 /\ CountedCalls' = CountedCalls \cup {c}
      BY <1>0, <1>2, <2>1 DEF Quota, At, CountedCalls
    <3>2. /\ IsFiniteSet(CountedCalls \cup {c}) /\ Cardinality(CountedCalls) \in Nat
          /\ Cardinality(CountedCalls \cup {c}) <= Cardinality(CountedCalls) + 1
      <4>1. Cardinality(CountedCalls) \in Nat
        BY <1>0, FS_CardinalityType
      <4>2. /\ IsFiniteSet(CountedCalls \cup {c})
            /\ Cardinality(CountedCalls \cup {c}) =
                 IF c \in CountedCalls THEN Cardinality(CountedCalls) ELSE Cardinality(CountedCalls) + 1
        BY <1>0, FS_AddElement
      <4> QED BY <4>1, <4>2
    <3>3. Cardinality(CountedCalls \cup {c}) \in Nat
      BY <3>2, FS_CardinalityType
    <3>4. IsFiniteSet(CountedCalls') /\ Cardinality(CountedCalls') <= admitted'
      BY <1>0, <3>1, <3>2, <3>3
    <3> QED BY <3>4 DEF CallsAreCounted
  <2>2. CASE ~(admitted < QuotaOf(revision))
    <3>1. admitted' = admitted /\ CountedCalls' \subseteq CountedCalls
      BY <1>0, <1>2, <2>2 DEF Quota, At, CountedCalls
    <3> QED BY <1>1, <3>1
  <2> QED BY <2>1, <2>2
<1>3. ASSUME NEW c \in Calls, Admit(c) \/ Judge(c) \/ Rate(c) \/ IssueTicket(c) PROVE CallsAreCounted'
  <2>1. admitted' = admitted /\ CountedCalls' \subseteq CountedCalls
    BY <1>0, <1>3 DEF Admit, Judge, Rate, IssueTicket, At, CountedCalls, countVars
  <2> QED BY <1>1, <2>1
<1>4. CASE Stop
  <2>1. admitted' = admitted /\ CountedCalls' \subseteq CountedCalls
    BY <1>0, <1>4 DEF Stop, CountedCalls, countVars
  <2> QED BY <1>1, <2>1
<1>5. CASE UNCHANGED <<admitted, call>>
  <2>1. admitted' = admitted /\ CountedCalls' \subseteq CountedCalls
    BY <1>5 DEF CountedCalls
  <2> QED BY <1>1, <2>1
<1>6. \/ Stop \/ UNCHANGED <<admitted, call>>
      \/ \E c \in Calls : Admit(c) \/ Judge(c) \/ Rate(c) \/ Quota(c) \/ IssueTicket(c)
  BY DEF AccessNext, Startup, Started, RedisIsLost, ResetEpoch, PolicyChanges, KeyEnds, TicketLapses,
         PresentTicket, CheckEpoch, TakeTicket, Forward, accessVars, countVars
<1> QED BY <1>2, <1>3, <1>4, <1>5, <1>6

\* A ticket is made once, of an issued call, and taken once.
LEMMA TicketsKept ==
  ASSUME AccessInv, [AccessNext]_accessVars
  PROVE  TicketsAreOnce'
<1>0. /\ TicketsAreOnce /\ revision \in Nat \ {0} /\ redis \in RedisType
      /\ call \in [Calls -> CallType] /\ redeem \in [Calls \X Redeemers -> RedeemType]
      /\ redis.tickets \subseteq Calls \X (1 .. MaxRevision)
  BY AccessAssumption DEF AccessInv, AccessTypeOK, CallType, RedeemType, RedisType
<1> USE DEF countVars, engineVars
<1>1. ASSUME redis'.tickets \subseteq redis.tickets, call' = call, redeem' = redeem,
             revision' \in {revision, revision + 1}
      PROVE  TicketsAreOnce'
  BY <1>0, <1>1 DEF TicketsAreOnce, CallType, RedeemType
<1>2. CASE Startup \/ Started \/ RedisIsLost \/ ResetEpoch \/ PolicyChanges \/ KeyEnds
             \/ UNCHANGED accessVars \/ \E c \in Calls : TicketLapses(c)
  <2>1. redis'.tickets \subseteq redis.tickets
    BY <1>0, <1>2 DEF RedisType, Startup, Started, RedisIsLost, ResetEpoch, PolicyChanges, KeyEnds,
       TicketLapses, accessVars, Empty
  <2>2. call' = call /\ redeem' = redeem /\ revision' \in {revision, revision + 1}
    BY <1>2 DEF Startup, Started, RedisIsLost, ResetEpoch, PolicyChanges, KeyEnds,
       TicketLapses, accessVars
  <2> QED BY <1>1, <2>1, <2>2
<1>3. CASE Stop
  <2>1. /\ redis' = redis /\ revision' = revision
        /\ \A c \in Calls : /\ call'[c].judged = call[c].judged
                            /\ call[c].at = "issued" => call'[c].at = "issued"
                            /\ call'[c].at \in {"judged", "rated", "counted", "issued"} => call'[c].at = call[c].at
        /\ \A d \in Calls \X Redeemers :
             /\ redeem'[d].since = redeem[d].since /\ redeem'[d].bears = redeem[d].bears
             /\ redeem'[d].at # "new" => redeem[d].at # "new"
             /\ redeem'[d].at \in {"taken", "forwarded"} => redeem'[d].at = redeem[d].at
    BY <1>0, <1>3 DEF Stop, CallType, RedeemType
  <2> QED BY <1>0, <2>1 DEF TicketsAreOnce
<1>4. ASSUME NEW c \in Calls, Admit(c) \/ Judge(c) \/ Rate(c) \/ Quota(c) PROVE TicketsAreOnce'
  <2>1. /\ redis'.tickets = redis.tickets /\ redeem' = redeem /\ revision' = revision
        /\ \A b \in Calls \ {c} : call'[b] = call[b]
        /\ call[c].at # "issued" /\ call'[c].at # "issued"
    BY <1>0, <1>4 DEF RedisType, CallType, Admit, Judge, Rate, Quota, At
  <2>2. call'[c].at \in {"judged", "rated", "counted"} => call'[c].judged \in 1 .. revision
    BY <1>0, <1>4 DEF CallType, Admit, Judge, Rate, Quota, At, TicketsAreOnce
  <2> QED BY <1>0, <2>1, <2>2 DEF TicketsAreOnce
<1>5. ASSUME NEW c \in Calls, IssueTicket(c) PROVE TicketsAreOnce'
  <2>1. /\ redis'.tickets = redis.tickets \cup {<<c, call[c].judged>>}
        /\ redeem' = redeem /\ revision' = revision
        /\ \A b \in Calls \ {c} : call'[b] = call[b]
        /\ call[c].at = "counted" /\ call'[c].at = "issued" /\ call'[c].judged = call[c].judged
    BY <1>0, <1>5 DEF RedisType, CallType, IssueTicket, At, TicketRevision
  <2>2. \A t \in redis.tickets : t[1] # c
    BY <1>0, <2>1 DEF TicketsAreOnce
  <2>3. \A d \in Calls \X Redeemers : redeem[d].at # "new" => d[1] # c
    BY <1>0, <2>1 DEF TicketsAreOnce
  <2> QED BY <1>0, <2>1, <2>2, <2>3 DEF TicketsAreOnce
<1>6. ASSUME NEW d \in Calls \X Redeemers, PresentTicket(d) \/ CheckEpoch(d) \/ Forward(d)
      PROVE  TicketsAreOnce'
  <2>1. /\ redis' = redis /\ call' = call /\ revision' = revision
        /\ \A e \in Calls \X Redeemers : e # d => redeem'[e] = redeem[e]
        /\ redeem'[d].bears = redeem[d].bears
    <3>1. redis' = redis /\ call' = call /\ revision' = revision
      BY <1>6 DEF PresentTicket, CheckEpoch, Forward
    <3>2. \/ \E at, n : redeem' = [redeem EXCEPT ![d] = [@ EXCEPT !.at = at, !.since = n]]
          \/ \E at : redeem' = [redeem EXCEPT ![d].at = at]
      <4>1. CASE PresentTicket(d)
        BY <4>1, Zenon DEF PresentTicket
      <4>2. CASE CheckEpoch(d)
        BY <4>2, Zenon DEF CheckEpoch
      <4>3. CASE Forward(d)
        BY <4>3, Zenon DEF Forward
      <4> QED BY <1>6, <4>1, <4>2, <4>3, Zenon
    <3>3. redeem \in [Calls \X Redeemers -> RedeemType] /\ "bears" \in DOMAIN redeem[d]
      BY <1>0 DEF RedeemType
    <3>4. \A e \in Calls \X Redeemers : e # d => redeem'[e] = redeem[e]
      BY <3>2, <3>3
    <3>5. redeem'[d].bears = redeem[d].bears
      BY <3>2, <3>3
    <3> QED BY <3>1, <3>4, <3>5
  <2>2. /\ call[d[1]].at = "issued" /\ redeem'[d].since <= revision
        /\ redeem'[d].at # "taken"
        /\ redeem'[d].at = "forwarded" =>
             redeem[d].at = "taken" /\ redeem[d].bears = revision /\ redeem'[d].since = redeem[d].since
    <3>1. CASE PresentTicket(d)
      <4>1. call[d[1]].at = "issued" /\ redeem'[d].since = revision /\ redeem'[d].at \in {"known", "refused"}
        BY <1>0, <3>1 DEF RedeemType, PresentTicket
      <4> QED BY <1>0, <4>1
    <3>2. CASE CheckEpoch(d)
      <4>1. /\ redeem[d].at = "known" /\ redeem'[d].since = redeem[d].since
            /\ redeem'[d].at \in {"current", "refused"}
        BY <1>0, <3>2 DEF RedeemType, CheckEpoch
      <4> QED BY <1>0, <4>1 DEF TicketsAreOnce
    <3>3. CASE Forward(d)
      <4>1. /\ redeem[d].at = "taken" /\ redeem'[d].since = redeem[d].since
            /\ redeem'[d].at \in {"forwarded", "refused"}
            /\ redeem'[d].at = "forwarded" => redeem[d].bears = revision
        BY <1>0, <3>3 DEF RedeemType, Forward
      <4> QED BY <1>0, <4>1 DEF TicketsAreOnce
    <3> QED BY <1>6, <3>1, <3>2, <3>3
  <2> QED BY <1>0, <2>1, <2>2 DEF TicketsAreOnce
<1>7. ASSUME NEW d \in Calls \X Redeemers, TakeTicket(d) PROVE TicketsAreOnce'
  <2>0. call' = call /\ revision' = revision /\ redeem[d].at = "current"
    BY <1>7 DEF TakeTicket
  <2>1. CASE \E t \in redis.tickets : t[1] = d[1]
    <3>1. PICK t \in redis.tickets :
            /\ t[1] = d[1] /\ redis' = [redis EXCEPT !.tickets = redis.tickets \ {t}]
            /\ redeem' = [redeem EXCEPT ![d] = [@ EXCEPT !.at = "taken", !.bears = t[2]]]
      BY <1>7, <2>1 DEF TakeTicket, Taken
    <3>2. /\ redis'.tickets = redis.tickets \ {t}
          /\ redeem'[d].at = "taken" /\ redeem'[d].bears = t[2] /\ redeem'[d].since = redeem[d].since
          /\ \A e \in Calls \X Redeemers : e # d => redeem'[e] = redeem[e]
      BY <1>0, <3>1 DEF RedisType, RedeemType
    <3>3. t[2] = call[d[1]].judged /\ call[d[1]].at = "issued"
      BY <1>0, <3>1 DEF TicketsAreOnce
    <3>4. \A u \in redis.tickets : u[1] = d[1] => u = t
      BY <1>0, <3>1, <3>3 DEF TicketsAreOnce
    <3>5. \A e \in Calls \X Redeemers : redeem[e].at \in {"taken", "forwarded"} => e[1] # d[1]
      BY <1>0, <3>1 DEF TicketsAreOnce
    <3> QED BY <1>0, <2>0, <3>2, <3>3, <3>4, <3>5 DEF TicketsAreOnce
  <2>2. CASE ~ \E t \in redis.tickets : t[1] = d[1]
    <3>1. redis' = redis /\ redeem' = [redeem EXCEPT ![d].at = "refused"]
      BY <1>7, <2>2 DEF TakeTicket
    <3>2. /\ redeem'[d].at = "refused" /\ redeem'[d].since = redeem[d].since
          /\ \A e \in Calls \X Redeemers : e # d => redeem'[e] = redeem[e]
      BY <1>0, <3>1 DEF RedeemType
    <3> QED BY <1>0, <2>0, <3>1, <3>2 DEF TicketsAreOnce
  <2> QED BY <2>1, <2>2
<1> QED BY <1>2, <1>3, <1>4, <1>5, <1>6, <1>7 DEF AccessNext

-----------------------------------------------------------------------------
(* What holds of the admission. *)

\* In every behaviour of the authorizer.
LEMMA AccessInvariance == AccessSpec => []AccessInv
<1>1. AccessInit => AccessInv
  BY AccessInitHolds
<1>2. AccessInv /\ [AccessNext]_accessVars => AccessInv'
  BY AccessTypesKept, EpochsKept, TicketsKept, CountKept DEF AccessInv
<1> QED BY <1>1, <1>2, PTL DEF AccessSpec

\* The forwarded presentations are of calls that were counted, one of each.
LEMMA ForwardedAreCounted ==
  ASSUME AccessInv
  PROVE  ForwardedOnceAsJudged
<1> DEFINE F == {d \in Calls \X Redeemers : redeem[d].at = "forwarded"}
           f == [d \in F |-> d[1]]
<1>1. \A d, e \in F : d[1] = e[1] => d = e
  BY DEF AccessInv, TicketsAreOnce
<1>2. \A d \in F : d[1] \in CountedCalls
  BY DEF AccessInv, TicketsAreOnce, CountedCalls
<1>3. f \in Injection(F, CountedCalls)
  BY <1>1, <1>2 DEF Injection, IsInjective
<1>4. IsFiniteSet(F) /\ Cardinality(F) <= Cardinality(CountedCalls)
  <2> HIDE DEF F, f
  <2> QED BY <1>3, FS_Injection DEF AccessInv, CallsAreCounted
<1>5. Cardinality(F) <= admitted
  <2> HIDE DEF F
  <2>1. Cardinality(F) \in Nat /\ Cardinality(CountedCalls) \in Nat
    BY <1>4, FS_CardinalityType DEF AccessInv, CallsAreCounted
  <2> QED BY <1>4, <2>1 DEF AccessInv, AccessTypeOK, CallsAreCounted
<1> QED BY <1>1, <1>5 DEF AccessInv, TicketsAreOnce, ForwardedOnceAsJudged

\* The variables of the admission have the values their code gives them.
THEOREM AccessTyping == AccessSpec => []AccessTypeOK
<1>1. AccessInv => AccessTypeOK
  BY DEF AccessInv
<1> QED BY <1>1, AccessInvariance, PTL

\* However often Redis is lost, the authorizer stopped and the epoch replaced, no epoch
\* lets more calls pass than the burst.
THEOREM CountersAlwaysSurvive == AccessSpec => []CountersSurvive
<1>1. AccessInv => CountersSurvive
  BY DEF AccessInv
<1> QED BY <1>1, AccessInvariance, PTL

\* However often a ticket is presented, its call goes through once at most, counted, and
\* judged by policies no older than the presentation.
THEOREM ForwardedOnce == AccessSpec => []ForwardedOnceAsJudged
<1>1. AccessInv => ForwardedOnceAsJudged
  BY ForwardedAreCounted
<1> QED BY <1>1, AccessInvariance, PTL

-----------------------------------------------------------------------------
(* The jobs API: what a watcher saw against what the listener was told, and who *)
(* numbers the attempts of a tree.                                              *)

WatchType == [at : {"idle", "known", "user", "shown", "waiting"}, version : Nat, seen : Nat,
              cursor : Nat, late : BOOLEAN]
RowType   == [status : {"queued", "running", "failed", "done"}, of : Nat, attempt : Nat]
RetryType == [at : {"new", "row", "tree", "free", "made", "sent", "refused", "aborted"}, attempt : Nat]

JobsApiShape ==
  /\ rows \in Seq(RowType) /\ changes \in Nat /\ told \in 0 .. changes /\ listening \in BOOLEAN
  /\ watch \in [Watchers -> WatchType] /\ retry \in [Retries -> RetryType]
  /\ jobLock \in [1 .. MaxRows -> Retries \cup {Unheld}]
  /\ treeLock \in [1 .. MaxRows -> Retries \cup {Unheld}]

\* A version is read while somebody listens, so it is one the listener was told; a
\* watcher that has read the jobs since saw at least that.
WatchersSawTheirVersion ==
  \A w \in Watchers :
    /\ watch[w].version <= told
    /\ watch[w].at \in {"shown", "waiting"} => watch[w].version <= watch[w].seen

\* A row is of one in the table, and a retry that got on is too.
RetriesAreOfRows ==
  /\ Len(rows) <= MaxRows /\ \A i \in Rows : rows[i].of <= Len(rows)
  /\ \A q \in Retries : retry[q].at \in {"row", "tree", "free", "made"} => Asked[q] <= Len(rows)

\* Who works on a tree has its lock; the number it is about to give is above the tree's.
TreesAreHeld ==
  \A q \in Retries :
    /\ retry[q].at \in {"tree", "free"} => treeLock[Root(q)] = q
    /\ retry[q].at = "free" => \A i \in Tree(Root(q)) : rows[i].attempt < retry[q].attempt

JobsApiInv ==
  /\ JobsApiShape /\ WatchersSawTheirVersion
  /\ RetriesAreOfRows /\ TreesAreHeld /\ AttemptsAreDistinct

\* The invariant of the jobs API holds to begin with.
LEMMA JobsApiInitHolds == JobsApiInit => JobsApiInv
<1> SUFFICES ASSUME JobsApiInit PROVE JobsApiInv
  OBVIOUS
<1>1. MaxRows \in Nat /\ MaxRows >= 2
  BY JobsApiAssumption
<1>2. /\ rows \in Seq(RowType) /\ Len(rows) = 2 /\ Rows = {1, 2}
      /\ rows[1] = [status |-> "failed", of |-> 0, attempt |-> 1]
      /\ rows[2] = [status |-> "failed", of |-> 1, attempt |-> 2]
  BY DEF JobsApiInit, RowType, Rows
<1>3. JobsApiShape
  BY <1>1, <1>2 DEF JobsApiInit, JobsApiShape, WatchType, RetryType, Between
<1>4. WatchersSawTheirVersion
  BY DEF JobsApiInit, WatchersSawTheirVersion, Between
<1>5. RetriesAreOfRows /\ TreesAreHeld
  <2>1. \A q \in Retries : retry[q].at = "new"
    BY DEF JobsApiInit
  <2> QED BY <1>1, <1>2, <2>1 DEF RetriesAreOfRows, TreesAreHeld
<1>6. AttemptsAreDistinct
  BY <1>2 DEF AttemptsAreDistinct
<1> QED BY <1>3, <1>4, <1>5, <1>6 DEF JobsApiInv

\* The row a retry starts from, once it got on.
LEMMA RootIsARow ==
  ASSUME JobsApiInv, NEW q \in Retries, retry[q].at \in {"row", "tree", "free", "made"}
  PROVE  /\ Asked[q] \in Rows /\ Root(q) \in Rows /\ Root(q) \in 1 .. MaxRows
<1>1. /\ Asked[q] \in 1 .. MaxRows /\ MaxRows \in Nat /\ Asked[q] <= Len(rows)
      /\ Len(rows) \in Nat /\ Len(rows) <= MaxRows
  BY JobsApiAssumption DEF JobsApiInv, JobsApiShape, RetriesAreOfRows
<1>2. Asked[q] \in Rows
  BY <1>1 DEF Rows
<1>3. rows[Asked[q]].of \in Nat /\ rows[Asked[q]].of <= Len(rows)
  <2>1. rows[Asked[q]] \in RowType
    BY <1>2 DEF JobsApiInv, JobsApiShape, Rows
  <2> QED BY <1>2, <2>1 DEF JobsApiInv, RetriesAreOfRows, RowType
<1>4. CASE rows[Asked[q]].of = 0
  BY <1>1, <1>2, <1>4 DEF Root
<1>5. CASE rows[Asked[q]].of # 0
  <2>1. Root(q) = rows[Asked[q]].of
    BY <1>5 DEF Root
  <2> QED BY <1>1, <1>2, <1>3, <1>5, <2>1 DEF Rows
<1> QED BY <1>4, <1>5

\* The steps of a watcher, and those around it.
LEMMA WatchKept ==
  ASSUME JobsApiInv,
         \/ Notification \/ Terminated
         \/ \E w \in Watchers : WatchBegins(w) \/ WatchKnowsUser(w) \/ WatchSnapshot(w)
                                  \/ WatchAnswers(w) \/ WatchWakes(w)
  PROVE  JobsApiInv'
<1>0. /\ changes \in Nat /\ told \in Nat /\ told <= changes
      /\ watch \in [Watchers -> WatchType] /\ WatchersSawTheirVersion
  BY DEF JobsApiInv, JobsApiShape
<1>1. UNCHANGED <<rows, changes, treeVars>>
  BY DEF Notification, Terminated, WatchBegins, WatchKnowsUser, WatchSnapshot, WatchAnswers, WatchWakes
<1> DEFINE Good == /\ told' \in Nat /\ told' <= changes
                   /\ watch' \in [Watchers -> WatchType] /\ WatchersSawTheirVersion'
<1>2. ASSUME NEW w \in Watchers, NEW v \in WatchType, watch' = [watch EXCEPT ![w] = v],
             told' = told, v.version <= told,
             v.at \in {"shown", "waiting"} => v.version <= v.seen
      PROVE  Good
  BY <1>0, <1>2 DEF WatchersSawTheirVersion
<1>3. ASSUME Notification PROVE Good
  <2>1. told' = told + 1 /\ told' <= changes /\ watch' = watch
    BY <1>0, <1>3 DEF Notification, Committed
  <2>2. \A w \in Watchers : watch[w].version \in Nat
    BY <1>0 DEF WatchType
  <2> QED BY <1>0, <2>1, <2>2 DEF WatchersSawTheirVersion
<1>4. ASSUME Terminated PROVE Good
  BY <1>0, <1>4 DEF Terminated, WatchersSawTheirVersion
<1>5. ASSUME NEW w \in Watchers, WatchBegins(w) PROVE Good
  <2> DEFINE v == VersionRead(w, told)
  <2>1. watch' = [watch EXCEPT ![w] = v] /\ told' = told
        /\ watch[w].at = "idle"
    BY <1>0, <1>5 DEF WatchBegins, Version
  <2>2. v \in WatchType /\ v.version = told /\ v.at = "known"
    BY <1>0, <2>1 DEF WatchType, VersionRead
  <2>3. v.version <= told
    BY <1>0, <2>2
  <2> HIDE DEF v
  <2> QED BY <1>2, <2>1, <2>2, <2>3
<1>6. ASSUME NEW w \in Watchers, WatchKnowsUser(w) PROVE Good
  <2> DEFINE v == [watch[w] EXCEPT !.at = "user"]
  <2>1. watch' = [watch EXCEPT ![w] = v] /\ told' = told
    BY <1>6 DEF WatchKnowsUser
  <2>2. v \in WatchType /\ v.version <= told /\ v.at = "user"
    BY <1>0 DEF WatchType, WatchersSawTheirVersion
  <2> HIDE DEF v
  <2> QED BY <1>2, <2>1, <2>2
<1>7. ASSUME NEW w \in Watchers, WatchSnapshot(w) PROVE Good
  <2> DEFINE v == [watch[w] EXCEPT !.at = "shown", !.seen = changes]
  <2>1. told' = told
    BY <1>7 DEF WatchSnapshot
  <2>2. watch' = [watch EXCEPT ![w] = v]
    BY <1>0, <1>7 DEF WatchSnapshot, WatchType
  <2>3. v \in WatchType /\ v.version = watch[w].version /\ v.seen = changes /\ v.version \in Nat
    BY <1>0 DEF WatchType
  <2>4. v.version <= told /\ v.version <= v.seen
    BY <1>0, <2>3 DEF WatchersSawTheirVersion
  <2> HIDE DEF v
  <2> QED BY <1>2, <2>1, <2>2, <2>3, <2>4
<1>8. ASSUME NEW w \in Watchers, NEW c \in Nat, told' = told,
             watch' = Answered(w, c)
      PROVE  Good
  <2> DEFINE v == [Between EXCEPT !.cursor = c]
  <2>1. v \in WatchType /\ v.version = 0 /\ v.at = "idle"
    BY DEF Between, WatchType
  <2>2. watch' = [watch EXCEPT ![w] = v]
    BY <1>8 DEF Answered
  <2>3. v.version <= told
    BY <1>0, <2>1
  <2> HIDE DEF v
  <2> QED BY <1>2, <1>8, <2>1, <2>2, <2>3
<1>9. ASSUME NEW w \in Watchers, WatchAnswers(w) PROVE Good
  <2>1. /\ told' = told /\ watch[w].at = "shown"
        /\ watch[w].seen \in Nat /\ watch[w].cursor \in Nat
    BY <1>0, <1>9 DEF WatchAnswers, WatchType
  <2>2. CASE watch' = Answered(w, watch[w].seen) \/ watch' = Answered(w, watch[w].cursor)
    BY <1>8, <2>1, <2>2
  <2>3. CASE watch' = [watch EXCEPT ![w] = VersionRead(w, watch[w].version)]
    <3> DEFINE v == VersionRead(w, watch[w].version)
    <3>1. v \in WatchType /\ v.version = watch[w].version /\ v.seen = watch[w].seen
      BY <1>0, <2>1 DEF WatchType, VersionRead
    <3>2. v.version <= told /\ v.version <= v.seen
      BY <1>0, <2>1, <3>1 DEF WatchersSawTheirVersion
    <3>3. watch' = [watch EXCEPT ![w] = v]
      BY <2>3
    <3> HIDE DEF v
    <3> QED BY <1>2, <2>1, <3>1, <3>2, <3>3
  <2> QED BY <1>9, <2>2, <2>3 DEF WatchAnswers
<1>10. ASSUME NEW w \in Watchers, WatchWakes(w) PROVE Good
  <2>1. told' = told /\ watch[w].cursor \in Nat
    BY <1>0, <1>10 DEF WatchWakes, WatchType
  <2>2. CASE listening
    <3>1. PICK late \in BOOLEAN :
            watch' = [watch EXCEPT ![w] = [@ EXCEPT !.at = "known", !.version = told, !.late = late]]
      <4>1. Version = told
        BY <1>0, <2>2 DEF Version
      <4>2. \E late \in BOOLEAN :
              watch' = [watch EXCEPT ![w] = [@ EXCEPT !.at = "known", !.version = Version, !.late = late]]
        BY <1>10, <2>2, Zenon DEF WatchWakes
      <4> QED BY <4>1, <4>2
    <3> DEFINE v == [watch[w] EXCEPT !.at = "known", !.version = told, !.late = late]
    <3>2. v \in WatchType /\ v.version = told /\ v.at = "known"
      BY <1>0 DEF WatchType
    <3>3. watch' = [watch EXCEPT ![w] = v]
      BY <3>1
    <3>4. v.version <= told
      BY <1>0, <3>2
    <3> HIDE DEF v
    <3> QED BY <1>2, <2>1, <3>2, <3>3, <3>4
  <2>3. CASE ~listening
    <3>1. watch' = Answered(w, watch[w].cursor)
      BY <1>10, <2>3 DEF WatchWakes
    <3> QED BY <1>8, <2>1, <3>1
  <2> QED BY <2>2, <2>3
<1>11. Good
  BY <1>3, <1>4, <1>5, <1>6, <1>7, <1>9, <1>10
<1>12. listening' \in BOOLEAN
  <2>1. listening' = listening \/ listening' = FALSE
    BY Zenon DEF Notification, Terminated, WatchBegins, WatchKnowsUser, WatchSnapshot, WatchAnswers, WatchWakes
  <2> QED BY <2>1 DEF JobsApiInv, JobsApiShape
<1> QED BY <1>0, <1>1, <1>11, <1>12 DEF JobsApiInv, JobsApiShape, RetriesAreOfRows, TreesAreHeld,
        AttemptsAreDistinct, treeVars, Rows, Root, Tree

\* The end of a retry's transaction: what it held is free, what others hold is theirs.
LEMMA EndsReleases ==
  ASSUME JobsApiInv, NEW q \in Retries,
         NEW at \in {"refused", "aborted", "made"}, Ends(q, at)
  PROVE  /\ retry' \in [Retries -> RetryType]
         /\ jobLock' \in [1 .. MaxRows -> Retries \cup {Unheld}]
         /\ treeLock' \in [1 .. MaxRows -> Retries \cup {Unheld}]
         /\ retry'[q].at = at /\ retry'[q].attempt = retry[q].attempt
         /\ \A p \in Retries \ {q} : /\ retry'[p] = retry[p]
                                     /\ \A i \in 1 .. MaxRows : treeLock[i] = p => treeLock'[i] = p
<1>0. /\ retry \in [Retries -> RetryType] /\ jobLock \in [1 .. MaxRows -> Retries \cup {Unheld}]
      /\ treeLock \in [1 .. MaxRows -> Retries \cup {Unheld}]
  BY DEF JobsApiInv, JobsApiShape
<1>1. retry' = [retry EXCEPT ![q].at = at]
  BY DEF Ends
<1>2. /\ retry' \in [Retries -> RetryType] /\ retry'[q].at = at /\ retry'[q].attempt = retry[q].attempt
      /\ \A p \in Retries \ {q} : retry'[p] = retry[p]
  BY <1>0, <1>1 DEF RetryType
<1>3. jobLock' \in [1 .. MaxRows -> Retries \cup {Unheld}]
  BY <1>0 DEF Ends, Released
<1>4. /\ treeLock' \in [1 .. MaxRows -> Retries \cup {Unheld}]
      /\ \A p \in Retries \ {q} : \A i \in 1 .. MaxRows : treeLock[i] = p => treeLock'[i] = p
  BY <1>0 DEF Ends, Released
<1> QED BY <1>2, <1>3, <1>4

\* A step of a retry that writes no row, and takes no one's tree.
LEMMA RowsStay ==
  ASSUME JobsApiInv, NEW q \in Retries, UNCHANGED <<rows, changes, told, listening, watch>>,
         retry' \in [Retries -> RetryType],
         jobLock' \in [1 .. MaxRows -> Retries \cup {Unheld}],
         treeLock' \in [1 .. MaxRows -> Retries \cup {Unheld}],
         \A p \in Retries \ {q} : /\ retry'[p] = retry[p]
                                  /\ \A i \in 1 .. MaxRows : treeLock[i] = p => treeLock'[i] = p,
         retry'[q].at \in {"row", "tree", "free", "made"} => Asked[q] <= Len(rows),
         retry'[q].at \in {"tree", "free"} => treeLock'[Root(q)] = q,
         retry'[q].at = "free" => \A i \in Tree(Root(q)) : rows[i].attempt < retry'[q].attempt
  PROVE  JobsApiInv'
<1>1. JobsApiShape' /\ WatchersSawTheirVersion' /\ AttemptsAreDistinct'
  BY DEF JobsApiInv, JobsApiShape, WatchersSawTheirVersion, AttemptsAreDistinct, Rows, Tree
<1>2. RetriesAreOfRows'
  BY DEF JobsApiInv, RetriesAreOfRows, Rows
<1>3. TreesAreHeld'
  <2> SUFFICES ASSUME NEW p \in Retries
               PROVE  /\ retry'[p].at \in {"tree", "free"} => treeLock'[Root(p)] = p
                      /\ retry'[p].at = "free" => \A i \in Tree(Root(p)) : rows[i].attempt < retry'[p].attempt
    BY DEF TreesAreHeld, Root, Tree, Rows
  <2>1. CASE p = q
    BY <2>1
  <2>2. CASE p # q
    <3>1. retry'[p] = retry[p] /\ \A i \in 1 .. MaxRows : treeLock[i] = p => treeLock'[i] = p
      BY <2>2
    <3>2. retry[p].at \in {"tree", "free"} => treeLock[Root(p)] = p /\ Root(p) \in 1 .. MaxRows
      BY RootIsARow DEF JobsApiInv, TreesAreHeld
    <3> QED BY <3>1, <3>2 DEF JobsApiInv, TreesAreHeld
  <2> QED BY <2>1, <2>2
<1> QED BY <1>1, <1>2, <1>3 DEF JobsApiInv

\* The steps of a retry up to its row.
LEMMA RetryKept ==
  ASSUME JobsApiInv, NEW q \in Retries,
         LockSource(q) \/ LockTree(q) \/ CheckTree(q) \/ DeadlockVictim(q)
  PROVE  JobsApiInv'
<1>0. /\ retry \in [Retries -> RetryType] /\ jobLock \in [1 .. MaxRows -> Retries \cup {Unheld}]
      /\ treeLock \in [1 .. MaxRows -> Retries \cup {Unheld}] /\ RetriesAreOfRows /\ TreesAreHeld
      /\ Asked[q] \in 1 .. MaxRows /\ Unheld \notin Retries /\ Len(rows) \in Nat
  BY JobsApiAssumption DEF JobsApiInv, JobsApiShape
<1>1. UNCHANGED <<rows, changes, told, listening, watch>>
  BY DEF LockSource, LockTree, CheckTree, DeadlockVictim, hubVars
<1>2. ASSUME NEW at \in {"refused", "aborted"}, Ends(q, at) PROVE JobsApiInv'
  <2> HIDE DEF Ends
  <2> QED BY <1>1, <1>2, EndsReleases, RowsStay
<1>3. CASE LockSource(q)
  <2>1. CASE rows[Asked[q]].status = "failed"
    <3>1. /\ retry' = [retry EXCEPT ![q].at = "row"] /\ treeLock' = treeLock
          /\ jobLock' = [jobLock EXCEPT ![Asked[q]] = q] /\ Asked[q] <= Len(rows)
      BY <1>0, <1>3, <2>1 DEF LockSource, Rows
    <3>2. /\ retry' \in [Retries -> RetryType] /\ retry'[q].at = "row"
          /\ \A p \in Retries \ {q} : retry'[p] = retry[p]
      BY <1>0, <3>1 DEF RetryType
    <3>3. jobLock' \in [1 .. MaxRows -> Retries \cup {Unheld}]
      BY <1>0, <3>1
    <3> QED BY <1>0, <1>1, <3>1, <3>2, <3>3, RowsStay
  <2>2. CASE rows[Asked[q]].status # "failed"
    BY <1>2, <1>3, <2>2 DEF LockSource
  <2> QED BY <2>1, <2>2
<1>4. CASE LockTree(q)
  <2>1. /\ retry' = [retry EXCEPT ![q].at = "tree"] /\ retry[q].at = "row" /\ jobLock' = jobLock
        /\ treeLock' = [treeLock EXCEPT ![Root(q)] = q] /\ treeLock[Root(q)] = Unheld
    BY <1>4 DEF LockTree, LockedTree
  <2>2. /\ retry' \in [Retries -> RetryType] /\ retry'[q].at = "tree"
        /\ \A p \in Retries \ {q} : retry'[p] = retry[p]
    BY <1>0, <2>1 DEF RetryType
  <2>3. Root(q) \in 1 .. MaxRows /\ Asked[q] <= Len(rows)
    BY <1>0, <2>1, RootIsARow DEF RetriesAreOfRows
  <2>4. /\ treeLock' \in [1 .. MaxRows -> Retries \cup {Unheld}] /\ treeLock'[Root(q)] = q
        /\ \A p \in Retries \ {q} : \A i \in 1 .. MaxRows : treeLock[i] = p => treeLock'[i] = p
    BY <1>0, <2>1, <2>3
  <2> QED BY <1>0, <1>1, <2>1, <2>2, <2>3, <2>4, RowsStay
<1>5. CASE CheckTree(q)
  <2>1. CASE Active(Root(q))
    BY <1>2, <1>5, <2>1 DEF CheckTree
  <2>2. CASE ~Active(Root(q))
    <3>1. PICK n \in {rows[i].attempt : i \in Tree(Root(q))} :
            /\ \A i \in Tree(Root(q)) : rows[i].attempt <= n
            /\ retry' = [retry EXCEPT ![q] = [at |-> "free", attempt |-> n + 1]]
      BY <1>5, <2>2 DEF CheckTree
    <3>2. retry[q].at = "tree" /\ jobLock' = jobLock /\ treeLock' = treeLock
      BY <1>5, <2>2 DEF CheckTree
    <3>3. \A i \in Tree(Root(q)) : rows[i].attempt \in Nat
      <4>1. \A i \in Rows : rows[i] \in RowType
        BY DEF Rows, JobsApiInv, JobsApiShape
      <4> QED BY <4>1 DEF Tree, RowType
    <3>4. n \in Nat /\ \A i \in Tree(Root(q)) : rows[i].attempt < n + 1
      BY <3>1, <3>3
    <3>5. /\ retry' \in [Retries -> RetryType] /\ retry'[q].at = "free" /\ retry'[q].attempt = n + 1
          /\ \A p \in Retries \ {q} : retry'[p] = retry[p]
      BY <1>0, <3>1, <3>4 DEF RetryType
    <3>6. Asked[q] <= Len(rows) /\ treeLock[Root(q)] = q
      BY <1>0, <3>2 DEF RetriesAreOfRows, TreesAreHeld
    <3> QED BY <1>0, <1>1, <3>2, <3>4, <3>5, <3>6, RowsStay
  <2> QED BY <2>1, <2>2
<1>6. CASE DeadlockVictim(q)
  BY <1>2, <1>6 DEF DeadlockVictim
<1> QED BY <1>3, <1>4, <1>5, <1>6

\* A tree keeps its root while rows are added and written.
LEMMA RootStays ==
  ASSUME JobsApiInv, NEW q \in Retries, retry[q].at \in {"row", "tree", "free", "made"},
         \A j \in Rows : rows'[j].of = rows[j].of
  PROVE  Root(q)' = Root(q)
  BY RootIsARow DEF Root

\* Writing the status of a row changes nothing else of the table.
LEMMA StatusKept ==
  ASSUME JobsApiInv, NEW i \in Rows, NEW s \in {"queued", "running", "failed", "done"},
         rows' = [rows EXCEPT ![i].status = s], changes' = changes + 1,
         retry' \in [Retries -> RetryType], UNCHANGED <<hubVars, jobLock, treeLock>>,
         \A q \in Retries : retry'[q].at \in {"row", "tree", "free", "made"} => retry'[q] = retry[q]
  PROVE  JobsApiInv'
<1>0. /\ rows \in Seq(RowType) /\ changes \in Nat /\ told \in 0 .. changes /\ listening \in BOOLEAN
      /\ watch \in [Watchers -> WatchType]
      /\ jobLock \in [1 .. MaxRows -> Retries \cup {Unheld}]
      /\ treeLock \in [1 .. MaxRows -> Retries \cup {Unheld}]
      /\ WatchersSawTheirVersion /\ RetriesAreOfRows /\ TreesAreHeld /\ AttemptsAreDistinct
  BY DEF JobsApiInv, JobsApiShape
<1>1. /\ rows' \in Seq(RowType) /\ Len(rows') = Len(rows) /\ Rows' = Rows
      /\ \A j \in Rows : rows'[j].of = rows[j].of /\ rows'[j].attempt = rows[j].attempt
  <2>1. \A j \in Rows : rows[j] \in RowType
    BY <1>0 DEF Rows
  <2>2. [rows[i] EXCEPT !.status = s] \in RowType
    BY <2>1 DEF RowType
  <2>3. /\ rows' \in Seq(RowType) /\ Len(rows') = Len(rows)
        /\ \A j \in Rows : rows'[j] = IF j = i THEN [rows[i] EXCEPT !.status = s] ELSE rows[j]
    BY <1>0, <2>2 DEF Rows
  <2> QED BY <2>1, <2>3 DEF RowType, Rows
<1>2. \A n : Tree(n)' = Tree(n)
  BY <1>1 DEF Tree
<1>3. \A q \in Retries : retry[q].at \in {"row", "tree", "free", "made"} => Root(q)' = Root(q)
  BY <1>1, RootStays
<1>4. JobsApiShape'
  <2>1. told' \in 0 .. changes' /\ changes' \in Nat
    BY <1>0 DEF hubVars
  <2> QED BY <1>0, <1>1, <2>1 DEF JobsApiShape, hubVars
<1>5. WatchersSawTheirVersion'
  BY <1>0 DEF WatchersSawTheirVersion, hubVars
<1>6. RetriesAreOfRows'
  BY <1>0, <1>1 DEF RetriesAreOfRows
<1>7. TreesAreHeld'
  <2> SUFFICES ASSUME NEW q \in Retries, retry'[q].at \in {"tree", "free"}
               PROVE  /\ treeLock'[Root(q)'] = q
                      /\ retry'[q].at = "free" =>
                           \A j \in Tree(Root(q))' : rows'[j].attempt < retry'[q].attempt
    BY DEF TreesAreHeld
  <2>1. retry'[q] = retry[q] /\ Root(q)' = Root(q) /\ treeLock' = treeLock
    BY <1>3
  <2>2. Tree(Root(q))' = Tree(Root(q)) /\ Tree(Root(q)) \subseteq Rows
    BY <1>1, <2>1 DEF Tree
  <2> QED BY <1>0, <1>1, <2>1, <2>2 DEF TreesAreHeld
<1>8. AttemptsAreDistinct'
  BY <1>0, <1>1 DEF AttemptsAreDistinct, Tree
<1> QED BY <1>4, <1>5, <1>6, <1>7, <1>8 DEF JobsApiInv

\* The new attempt has a number of its own: its tree was held since it was chosen.
LEMMA InsertKept ==
  ASSUME JobsApiInv, NEW q \in Retries, InsertRetry(q)
  PROVE  JobsApiInv'
<1>0. /\ rows \in Seq(RowType) /\ changes \in Nat /\ told \in 0 .. changes /\ listening \in BOOLEAN
      /\ watch \in [Watchers -> WatchType] /\ retry \in [Retries -> RetryType]
      /\ WatchersSawTheirVersion /\ RetriesAreOfRows /\ TreesAreHeld /\ AttemptsAreDistinct
      /\ Len(rows) \in Nat /\ MaxRows \in Nat
  BY JobsApiAssumption DEF JobsApiInv, JobsApiShape
<1>1. retry[q].at = "free" /\ Len(rows) < MaxRows /\ UNCHANGED hubVars
  BY DEF InsertRetry
<1>2. /\ Asked[q] <= Len(rows) /\ Root(q) \in Rows /\ Root(q) \in 1 .. MaxRows /\ treeLock[Root(q)] = q
      /\ \A i \in Tree(Root(q)) : rows[i].attempt < retry[q].attempt
  BY <1>0, <1>1, RootIsARow DEF RetriesAreOfRows, TreesAreHeld
<1>3. CASE Active(Root(q))
  <2>1. Ends(q, "aborted") /\ UNCHANGED <<rows, changes>>
    BY <1>3 DEF InsertRetry
  <2> HIDE DEF Ends
  <2> QED BY <1>1, <2>1, EndsReleases, RowsStay DEF hubVars
<1>4. CASE ~Active(Root(q))
  <2> DEFINE new == [status |-> "queued", of |-> Root(q), attempt |-> retry[q].attempt]
  <2>1. rows' = Append(rows, new) /\ changes' = changes + 1 /\ Ends(q, "made")
    BY <1>4 DEF InsertRetry
  <2>2. /\ retry' \in [Retries -> RetryType]
        /\ jobLock' \in [1 .. MaxRows -> Retries \cup {Unheld}]
        /\ treeLock' \in [1 .. MaxRows -> Retries \cup {Unheld}]
        /\ retry'[q].at = "made"
        /\ \A p \in Retries \ {q} : /\ retry'[p] = retry[p]
                                    /\ \A i \in 1 .. MaxRows : treeLock[i] = p => treeLock'[i] = p
    BY <2>1, EndsReleases
  <2>3. new \in RowType /\ new.of = Root(q) /\ new.attempt = retry[q].attempt
    BY <1>0, <1>2 DEF RowType, RetryType, Rows
  <2> HIDE DEF new
  <2>4. /\ rows' \in Seq(RowType) /\ Len(rows') = Len(rows) + 1
        /\ rows'[Len(rows) + 1] = new /\ \A i \in Rows : rows'[i] = rows[i]
        /\ Rows' = Rows \cup {Len(rows) + 1} /\ Len(rows) + 1 \notin Rows
    BY <1>0, <2>1, <2>3 DEF Rows
  <2>5. JobsApiShape'
    <3>1. told' \in 0 .. changes' /\ changes' \in Nat
      BY <1>0, <1>1, <2>1 DEF hubVars
    <3> QED BY <1>0, <1>1, <2>2, <2>4, <3>1 DEF JobsApiShape, hubVars
  <2>6. WatchersSawTheirVersion'
    BY <1>0, <1>1 DEF WatchersSawTheirVersion, hubVars
  <2>7. RetriesAreOfRows'
    <3>1. \A i \in Rows' : rows'[i].of <= Len(rows')
      <4>1. \A i \in Rows : rows[i].of \in Nat /\ rows[i].of <= Len(rows)
        <5>1. \A i \in Rows : rows[i] \in RowType
          BY <1>0 DEF Rows
        <5> QED BY <1>0, <5>1 DEF RetriesAreOfRows, RowType
      <4>2. Root(q) <= Len(rows) /\ Root(q) \in Nat
        BY <1>0, <1>2 DEF Rows
      <4> QED BY <1>0, <2>3, <2>4, <4>1, <4>2
    <3>2. \A p \in Retries : retry'[p].at \in {"row", "tree", "free", "made"} => Asked[p] <= Len(rows')
      <4>1. \A p \in Retries : Asked[p] \in Nat
        BY JobsApiAssumption
      <4> QED BY <1>0, <1>2, <2>2, <2>4, <4>1 DEF RetriesAreOfRows
    <3> QED BY <1>0, <1>1, <2>4, <3>1, <3>2 DEF RetriesAreOfRows
  <2>8. TreesAreHeld'
    <3> SUFFICES ASSUME NEW p \in Retries, retry'[p].at \in {"tree", "free"}
                 PROVE  /\ treeLock'[Root(p)'] = p
                        /\ retry'[p].at = "free" =>
                             \A j \in Tree(Root(p))' : rows'[j].attempt < retry'[p].attempt
      BY DEF TreesAreHeld
    <3>1. p # q /\ retry'[p] = retry[p]
      BY <2>2
    <3>2. Root(p)' = Root(p) /\ Root(p) \in Rows /\ Root(p) \in 1 .. MaxRows /\ treeLock[Root(p)] = p
      BY <1>0, <2>4, <3>1, RootStays, RootIsARow DEF TreesAreHeld
    <3>3. Root(p) # Root(q)
      BY <1>2, <3>1, <3>2
    <3>4. Tree(Root(p))' \subseteq Tree(Root(p))
      BY <2>3, <2>4, <3>2, <3>3 DEF Tree
    <3> QED BY <1>0, <2>2, <2>4, <3>1, <3>2, <3>4 DEF TreesAreHeld, Tree
  <2>9. AttemptsAreDistinct'
    <3> SUFFICES ASSUME NEW i \in Rows', NEW j \in Rows', i < j, rows'[j].of # 0,
                        i = rows'[j].of \/ rows'[i].of = rows'[j].of
                 PROVE  rows'[i].attempt # rows'[j].attempt
      BY DEF AttemptsAreDistinct, Tree
    <3>0. i \in Rows /\ rows'[i] = rows[i]
      BY <1>0, <2>4 DEF Rows
    <3>1. CASE j \in Rows
      BY <1>0, <2>4, <3>0, <3>1 DEF AttemptsAreDistinct, Tree
    <3>2. CASE j = Len(rows) + 1
      <4>1. i \in Tree(Root(q)) /\ rows'[j].attempt = retry[q].attempt
        BY <2>3, <2>4, <3>0, <3>2 DEF Tree
      <4>2. rows[i].attempt \in Nat /\ retry[q].attempt \in Nat
        <5>1. rows[i] \in RowType
          BY <1>0, <3>0 DEF Rows
        <5> QED BY <1>0, <5>1 DEF RowType, RetryType
      <4> QED BY <1>2, <3>0, <4>1, <4>2
    <3> QED BY <2>4, <3>1, <3>2
  <2> QED BY <2>5, <2>6, <2>7, <2>8, <2>9 DEF JobsApiInv
<1> QED BY <1>3, <1>4

\* A retry that is dispatched keeps the invariant.
LEMMA DispatchKept ==
  ASSUME JobsApiInv, NEW q \in Retries, DispatchRetry(q)
  PROVE  JobsApiInv'
<1>0. retry \in [Retries -> RetryType] /\ retry[q].at = "made" /\ UNCHANGED <<hubVars, jobLock, treeLock>>
  BY DEF JobsApiInv, JobsApiShape, DispatchRetry
<1>1. ASSUME NEW at \in {"sent", "refused"}, retry' = [retry EXCEPT ![q].at = at]
      PROVE  /\ retry' \in [Retries -> RetryType] /\ retry'[q].at = at
             /\ \A p \in Retries \ {q} : retry'[p] = retry[p]
  BY <1>0, <1>1 DEF RetryType
<1>2. CASE retry' = [retry EXCEPT ![q].at = "sent"] /\ UNCHANGED <<rows, changes>>
  <2>1. /\ jobLock' \in [1 .. MaxRows -> Retries \cup {Unheld}]
        /\ treeLock' \in [1 .. MaxRows -> Retries \cup {Unheld}]
    BY <1>0 DEF JobsApiInv, JobsApiShape
  <2> QED BY <1>0, <1>1, <1>2, <2>1, RowsStay DEF hubVars
<1>3. ASSUME NEW i \in Rows, rows' = [rows EXCEPT ![i].status = "failed"], changes' = changes + 1,
             retry' = [retry EXCEPT ![q].at = "refused"]
      PROVE  JobsApiInv'
  BY <1>0, <1>1, <1>3, StatusKept
<1> QED BY <1>2, <1>3 DEF DispatchRetry

-----------------------------------------------------------------------------
(* What holds of the jobs API. *)

\* In every behaviour of the jobs API.
LEMMA JobsApiInvariance == JobsApiSpec => []JobsApiInv
<1>1. JobsApiInit => JobsApiInv
  BY JobsApiInitHolds
<1>2. JobsApiInv /\ [JobsApiNext]_jobsApiVars => JobsApiInv'
  <2> SUFFICES ASSUME JobsApiInv, [JobsApiNext]_jobsApiVars PROVE JobsApiInv'
    OBVIOUS
  <2>1. CASE \/ Notification \/ Terminated
             \/ \E w \in Watchers : WatchBegins(w) \/ WatchKnowsUser(w) \/ WatchSnapshot(w)
                                      \/ WatchAnswers(w) \/ WatchWakes(w)
    BY <2>1, WatchKept
  <2>2. ASSUME NEW i \in Rows, RunnerWrites(i) PROVE JobsApiInv'
    <3>1. PICK s \in {"running", "failed", "done"} : rows' = [rows EXCEPT ![i].status = s]
      BY <2>2 DEF RunnerWrites
    <3>2. retry' \in [Retries -> RetryType] /\ UNCHANGED <<hubVars, jobLock, treeLock, retry>>
          /\ changes' = changes + 1
      BY <2>2 DEF RunnerWrites, treeVars, JobsApiInv, JobsApiShape
    <3> QED BY <3>1, <3>2, StatusKept
  <2>3. ASSUME NEW q \in Retries,
               LockSource(q) \/ LockTree(q) \/ CheckTree(q) \/ DeadlockVictim(q)
        PROVE  JobsApiInv'
    BY <2>3, RetryKept
  <2>4. ASSUME NEW q \in Retries, InsertRetry(q) PROVE JobsApiInv'
    BY <2>4, InsertKept
  <2>5. ASSUME NEW q \in Retries, DispatchRetry(q) PROVE JobsApiInv'
    BY <2>5, DispatchKept
  <2>6. CASE UNCHANGED jobsApiVars
    BY <2>6 DEF jobsApiVars, hubVars, treeVars, JobsApiInv, JobsApiShape, WatchersSawTheirVersion,
       RetriesAreOfRows, TreesAreHeld, AttemptsAreDistinct, Rows, Root, Tree
  <2> QED BY <2>1, <2>2, <2>3, <2>4, <2>5, <2>6 DEF JobsApiNext
<1> QED BY <1>1, <1>2, PTL DEF JobsApiSpec

\* The variables of the jobs API have the values their code gives them.
THEOREM JobsApiTyping == JobsApiSpec => []JobsApiTypeOK
<1>1. JobsApiInv => JobsApiTypeOK
  BY DEF JobsApiInv, JobsApiShape, JobsApiTypeOK, WatchType, RetryType, RowType
<1> QED BY <1>1, JobsApiInvariance, PTL

\* Whatever changes while a watcher proves its user and reads the jobs, it does not
\* sleep over a change the listener was told of.
THEOREM NoChangeIsLost == JobsApiSpec => []NoLostChange
<1>1. JobsApiInv => NoLostChange
  <2> SUFFICES ASSUME JobsApiInv, NEW w \in Watchers,
                      watch[w].at = "waiting", watch[w].version = Version
               PROVE  watch[w].seen >= told
    BY DEF NoLostChange
  <2>1. told \in Nat /\ watch[w].version <= told /\ watch[w].version <= watch[w].seen
        /\ watch[w].seen \in Nat /\ watch[w].version \in Nat
    BY DEF JobsApiInv, JobsApiShape, WatchersSawTheirVersion, WatchType
  <2>2. watch[w].version >= told
    BY <2>1 DEF Version
  <2> QED BY <2>1, <2>2
<1> QED BY <1>1, JobsApiInvariance, PTL

\* Two retries of a tree, whichever of its attempts they start from, never make two
\* attempts of one number.
THEOREM AttemptsStayDistinct == JobsApiSpec => []AttemptsAreDistinct
<1>1. JobsApiInv => AttemptsAreDistinct
  BY DEF JobsApiInv
<1> QED BY <1>1, JobsApiInvariance, PTL

=============================================================================
