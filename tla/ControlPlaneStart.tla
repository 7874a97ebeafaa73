-------------------------- MODULE ControlPlaneStart --------------------------
(***************************************************************************)
(* A deployment of the control plane: the migrator of an image applies the *)
(* image's migrations to the database, each with its ledger entry, and     *)
(* provisions the database roles; then Compose replaces the API by the     *)
(* image's, which checks the ledger and the tenant identity of every       *)
(* project before it serves. Migrators may overlap and fail at any step,   *)
(* and the API that runs is restarted by Docker without asking a migrator. *)
(***************************************************************************)
EXTENDS Naturals, Sequences, FiniteSets

CONSTANTS Catalog,        \* image -> the checksums of its migrations, in order
          Migrators,      \* the runs of control-plane-migrations: id -> image
          MaxRestarts,    \* bounds the restarts of the API
          StartScenarios  \* installations

Images == DOMAIN Catalog
RoleOrder == <<"key_authorizer", "host_agent_rw", "platform_app", "client_configuration_reader",
           "platform_meta_admin">>
\* Every right on a table is taken from these, and given again on those the image names;
\* the others are given what is there.
Enumerated == {"key_authorizer", "host_agent_rw", "client_configuration_reader"}

\* projects.id, tenant_uuid (0: NULL), the tenant in .env, in a create command and in a
\* job's payload, whether it has keys or files, and whether its database is there.
Projects == [id : Nat \ {0}, tenant : Nat, env : Nat, command : Nat, payload : Nat,
             exists : BOOLEAN, database : BOOLEAN]
\* What is there before: the versions applied, the image of the API, projects; and the
\* migrators that may run.
Installations == [ledger : Seq(STRING), api : Images \cup {"none"}, rows : SUBSET Projects,
                  runs : SUBSET DOMAIN Migrators]

\* The API that runs was put there after its image's migrations.
ASSUME StartAssumption ==
  /\ "none" \notin Images /\ \A i \in Images : Catalog[i] \in Seq(STRING)
  /\ \A m \in DOMAIN Migrators : m # 0 /\ Migrators[m] \in Images
  /\ MaxRestarts \in Nat
  /\ \A s \in StartScenarios :
       s \in Installations /\ (s.api # "none" => Len(Catalog[s.api]) <= Len(s.ledger))

VARIABLES
  site,     \* the installation of this behaviour
  ledger,   \* control_plane_schema_migrations: the checksums, by version
  schema,   \* the migrations the tables are made of
  migrator, \* how far a migrator is: [at, known, role]
  advisory, \* who holds MIGRATION_ADVISORY_LOCK_KEY, or 0
  granted,  \* role -> the versions whose tables it has rights on
  lowered,  \* history: roles an older image has taken rights from, and no newer one given back
  tenantRoles, \* projects whose SQL identity is provisioned
  tenantOf, \* projects.tenant_uuid
  api,      \* [image, at]
  updates,  \* what the reconciliation is about to write
  restarts

startVars == <<site, ledger, schema, migrator, advisory, granted, lowered, tenantRoles, tenantOf,
               api, updates, restarts>>

RoleNames == {RoleOrder[r] : r \in DOMAIN RoleOrder}

StartInit ==
  /\ site \in StartScenarios
  /\ ledger = site.ledger /\ schema = site.ledger
  /\ migrator = [m \in DOMAIN Migrators |-> [at |-> "new", known |-> 0, role |-> 1]]
  /\ advisory = 0
  /\ granted = [r \in RoleNames |-> Len(site.ledger)]
  /\ lowered = {} /\ tenantRoles = {}
  /\ tenantOf = [p \in site.rows |-> p.tenant]
  /\ api = [image |-> site.api, at |-> IF site.api = "none" THEN "down" ELSE "starting"]
  /\ updates = [p \in site.rows |-> 0]
  /\ restarts = 0

StartTypeOK ==
  /\ ledger \in Seq(STRING) /\ schema \in Seq(STRING)
  /\ migrator \in [DOMAIN Migrators ->
       [at : {"new", "locked", "applying", "roles", "tenants", "succeeded", "failed"},
        known : Nat, role : 1 .. Len(RoleOrder) + 1]]
  /\ advisory \in DOMAIN Migrators \cup {0}
  /\ granted \in [RoleNames -> Nat] /\ lowered \subseteq Enumerated
  /\ tenantRoles \subseteq site.rows
  /\ tenantOf \in [site.rows -> Nat] /\ updates \in [site.rows -> Nat]
  /\ api.image \in Images \cup {"none"} /\ api.at \in {"down", "starting", "verified", "writing", "serving"}
  /\ restarts \in 0 .. MaxRestarts

-----------------------------------------------------------------------------
(* python -m app.schema_migrations apply. *)

MigratorAt(m, to) == migrator' = [migrator EXCEPT ![m].at = to]

\* Versions of a catalog that the ledger has with another checksum.
Drifted(catalog, applied) ==
  \E v \in DOMAIN catalog \cap 1 .. Len(applied) : catalog[v] # applied[v]

TakeLock(m) ==
  /\ m \in site.runs /\ migrator[m].at = "new" /\ advisory = 0
  /\ advisory' = m /\ MigratorAt(m, "locked")
  /\ UNCHANGED <<site, ledger, schema, granted, lowered, tenantRoles, tenantOf, api, updates,
                 restarts>>

\* The ledger is read once, under the lock.
ReadTheLedger(m) ==
  /\ migrator[m].at = "locked" /\ ~Drifted(Catalog[Migrators[m]], ledger)
  /\ migrator' = [migrator EXCEPT ![m].at = "applying", ![m].known = Len(ledger)]
  /\ UNCHANGED <<site, ledger, schema, advisory, granted, lowered, tenantRoles, tenantOf, api, updates,
                 restarts>>

Pending(m) == migrator[m].known < Len(Catalog[Migrators[m]])

\* One transaction: the migration and its entry, whose version is the primary key.
Applied(checksum) == ledger' = Append(ledger, checksum) /\ schema' = Append(schema, checksum)
ApplyOne(m) ==
  LET v == migrator[m].known + 1
  IN  /\ migrator[m].at = "applying" /\ Pending(m) /\ v > Len(ledger)
      /\ Applied(Catalog[Migrators[m]][v])
      /\ migrator' = [migrator EXCEPT ![m].known = v]
      /\ UNCHANGED <<site, advisory, granted, lowered, tenantRoles, tenantOf, api, updates,
                     restarts>>

ReleaseLock(m) ==
  /\ migrator[m].at = "applying" /\ ~Pending(m)
  /\ advisory' = 0 /\ MigratorAt(m, "roles")
  /\ UNCHANGED <<site, ledger, schema, granted, lowered, tenantRoles, tenantOf, api, updates,
                 restarts>>

\* One transaction per role: an enumerated one ends up with the tables this image names,
\* whatever it had, the others with those that are there by then.
Granted(m, role) == IF role \in Enumerated THEN Len(Catalog[Migrators[m]]) ELSE Len(schema)
Lowered(role, to) ==
  IF to < granted[role] THEN lowered \cup {role}
  ELSE IF to >= Len(ledger) THEN lowered \ {role} ELSE lowered
ProvisionRole(m) ==
  LET r == migrator[m].role
      to == Granted(m, RoleOrder[r])
  IN  /\ migrator[m].at = "roles"
      /\ granted' = [granted EXCEPT ![RoleOrder[r]] = to] /\ lowered' = Lowered(RoleOrder[r], to)
      /\ migrator' = [migrator EXCEPT ![m].role = r + 1,
                                      ![m].at = IF r = Len(RoleOrder) THEN "tenants" ELSE "roles"]
      /\ UNCHANGED <<site, ledger, schema, advisory, tenantRoles, tenantOf, api, updates,
                     restarts>>

\* ensure_tenant_meta_roles needs the tenant UUID and the database of every project.
CanProvision(p) == tenantOf[p] # 0 /\ p.database
ProvisionTenant(m) ==
  /\ migrator[m].at = "tenants"
  /\ \E p \in site.rows \ tenantRoles : CanProvision(p) /\ tenantRoles' = tenantRoles \cup {p}
  /\ UNCHANGED <<site, ledger, schema, migrator, advisory, granted, lowered, tenantOf, api, updates,
                 restarts>>
Succeed(m) ==
  /\ migrator[m].at = "tenants" /\ \A p \in site.rows : CanProvision(p) /\ p \in tenantRoles
  /\ MigratorAt(m, "succeeded")
  /\ UNCHANGED <<site, ledger, schema, advisory, granted, lowered, tenantRoles, tenantOf, api, updates,
                 restarts>>

\* lock_timeout, a drift, an SQL error, a project without UUID or database, or a kill: the
\* transaction is rolled back, and the session's end releases the lock.
MigratorFails(m) ==
  /\ \/ migrator[m].at \in {"locked", "applying", "roles", "tenants"}
     \/ m \in site.runs /\ migrator[m].at = "new" /\ advisory # 0
  /\ MigratorAt(m, "failed")
  /\ advisory' = IF advisory = m THEN 0 ELSE advisory
  /\ UNCHANGED <<site, ledger, schema, granted, lowered, tenantRoles, tenantOf, api, updates,
                 restarts>>

-----------------------------------------------------------------------------
(* Compose, and the start of the API. *)

\* Faulty variant: service_started.
MayReplaceStarted(m) == migrator[m].at # "new"

\* service_completed_successfully: the API of an image replaces the one that runs.
MayReplace(m) == migrator[m].at = "succeeded"

Replace(m) ==
  /\ MayReplace(m) /\ api.image # Migrators[m]
  /\ api' = [image |-> Migrators[m], at |-> "starting"]
  /\ updates' = [p \in site.rows |-> 0]
  /\ UNCHANGED <<site, ledger, schema, migrator, advisory, granted, lowered, tenantRoles, tenantOf,
                 restarts>>

\* restart: unless-stopped.
RestartApi ==
  /\ api.at \in {"verified", "writing", "serving"} /\ restarts < MaxRestarts
  /\ api' = [api EXCEPT !.at = "starting"] /\ restarts' = restarts + 1
  /\ updates' = [p \in site.rows |-> 0]
  /\ UNCHANGED <<site, ledger, schema, migrator, advisory, granted, lowered, tenantRoles, tenantOf>>

\* verify_control_plane_schema: a database ahead of the image is served, one behind is
\* not, and the container goes on trying.
Compatible(catalog) == Len(catalog) <= Len(ledger) /\ ~Drifted(catalog, ledger)
VerifySchema ==
  /\ api.at = "starting" /\ Compatible(Catalog[api.image])
  /\ api' = [api EXCEPT !.at = "verified"]
  /\ UNCHANGED <<site, ledger, schema, migrator, advisory, granted, lowered, tenantRoles, tenantOf, updates,
                 restarts>>

\* What is known of a project's tenant besides the row.
Evidence(p) == {p.env, p.command} \ {0}

\* The tenant the reconciliation settles on; 0 when nothing shows it. Its own id will do
\* for a project that has neither keys nor files.
Selected(p) ==
  IF tenantOf[p] # 0 THEN tenantOf[p]
  ELSE IF Evidence(p) # {} THEN CHOOSE t \in Evidence(p) : TRUE
  ELSE IF p.exists THEN 0 ELSE p.id

Conflict ==
  \/ \E p \in site.rows : ~(Evidence(p) \subseteq {Selected(p)})
  \/ \E p, q \in site.rows : p # q /\ Selected(p) # 0 /\ Selected(p) = Selected(q)

\* A conflict ends the start; nothing was written.
ReconcileTenants ==
  /\ api.at = "verified" /\ ~Conflict
  /\ updates' = [p \in site.rows |-> IF tenantOf[p] = 0 THEN Selected(p) ELSE 0]
  /\ api' = [api EXCEPT !.at = "writing"]
  /\ UNCHANGED <<site, ledger, schema, migrator, advisory, granted, lowered, tenantRoles, tenantOf,
                 restarts>>

\* UPDATE ... WHERE tenant_uuid IS NULL, all of them or none; then the API serves.
WriteTenants ==
  /\ api.at = "writing"
  /\ tenantOf' = [p \in site.rows |-> IF tenantOf[p] = 0 THEN updates[p] ELSE tenantOf[p]]
  /\ api' = [api EXCEPT !.at = "serving"] /\ updates' = [p \in site.rows |-> 0]
  /\ UNCHANGED <<site, ledger, schema, migrator, advisory, granted, lowered, tenantRoles,
                 restarts>>

\* get_job_project_identity: a runner takes a tenant the row lacks from its job or its
\* command, when they agree; a tenant of another project breaks the unique index.
JobTenants(p) == {tenantOf[p], p.payload, p.command} \ {0}
RunnerFindsTenant ==
  /\ api.at = "serving"
  /\ \E p \in site.rows :
       /\ tenantOf[p] = 0 /\ Cardinality(JobTenants(p)) = 1
       /\ \A q \in site.rows : tenantOf[q] \notin JobTenants(p)
       /\ tenantOf' = [tenantOf EXCEPT ![p] = CHOOSE t \in JobTenants(p) : TRUE]
  /\ UNCHANGED <<site, ledger, schema, migrator, advisory, granted, lowered, tenantRoles, api, updates,
                 restarts>>

StartNext ==
  \/ \E m \in DOMAIN Migrators :
       \/ TakeLock(m) \/ ReadTheLedger(m) \/ ApplyOne(m) \/ ReleaseLock(m) \/ ProvisionRole(m)
       \/ ProvisionTenant(m) \/ Succeed(m) \/ MigratorFails(m) \/ Replace(m)
  \/ RestartApi \/ VerifySchema \/ ReconcileTenants \/ WriteTenants \/ RunnerFindsTenant

StartSpec == StartInit /\ [][StartNext]_startVars

-----------------------------------------------------------------------------
(* Correctness. *)

\* An API that serves finds what its image was written for: every migration of the image
\* in the database, with the content the image has ("fails closed when the database is
\* behind the image", architecture/control-plane-migrations.md:5), rights on the tables
\* of every one of them, and for each project a tenant that its own .env and command
\* name and no other project has. The ledger says exactly what the tables are made of.
\* The exception on the rights is real: the migrator of an older image, which finds no
\* drift, takes those of three roles back to the tables it names, while the newer API
\* serves; nothing restores them until a newer migrator runs again.
ServesWhatItWasBuiltFor ==
  /\ ledger = schema
  /\ api.at = "serving" =>
       /\ \A v \in DOMAIN Catalog[api.image] : v <= Len(schema) /\ schema[v] = Catalog[api.image][v]
       /\ \A r \in RoleNames : granted[r] >= Len(Catalog[api.image]) \/ r \in lowered
       /\ \A p \in site.rows : tenantOf[p] # 0 => Evidence(p) \subseteq {tenantOf[p]}
       /\ \A p, q \in site.rows : p # q /\ tenantOf[p] # 0 => tenantOf[p] # tenantOf[q]

\* An installation of before the migrations is taken over ("The first apply run on an
\* existing installation", architecture/control-plane-migrations.md:118): unless it has
\* failed for another reason its API can serve some day. A project without tenant UUID
\* stops every migrator, and so the API whose start would give it one.
LegacyIsTakenOver ==
  \A m \in DOMAIN Migrators :
    migrator[m].at = "tenants" => \A p \in site.rows : p.database => tenantOf[p] # 0
=============================================================================
