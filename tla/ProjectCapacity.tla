--------------------------- MODULE ProjectCapacity ---------------------------
(***************************************************************************)
(* The capacity of a project: memory (MiB), CPUs (hundredths) and PIDs,    *)
(* and what Nginx, Auth and PostgREST get of each. PUT .../settings        *)
(* derives the shares and writes them to the project's .env, next to its   *)
(* other settings; rotate_key.sh renders them again with a derivation of   *)
(* its own, and a duplicate's .env is rendered from the profile in the     *)
(* projects row. Nothing orders a save and a script.                       *)
(***************************************************************************)
EXTENDS Integers, FiniteSets

CONSTANTS RootTotals,      \* resource-profiles.env and the root .env: profile -> totals
          FirstProfile,    \* the profile a project is created with
          CapacityScenarios \* what may be asked in a behaviour: sets of Settings

Services == {"nginx", "auth", "rest"}
Profiles == {"small", "medium", "large", "custom"}
Totals   == [memory : Nat, cpus : Nat, pids : Nat]
Absent   == [memory |-> 0, cpus |-> 0, pids |-> 0]

\* Settings to save: a profile, totals (a zero is not sent), another setting;
\* together with settings of the Functions, which are awaited, or without.
Settings == [id : Nat \ {0}, profile : Profiles \cup {"none"}, totals : Totals,
             other : Nat, functions : BOOLEAN]

ASSUME CapacityAssumption ==
  /\ RootTotals \in [Profiles -> Totals]
  /\ FirstProfile \in Profiles
  /\ \A S \in CapacityScenarios : S \subseteq Settings

Larger(a, b) == IF a > b THEN a ELSE b

MemoryFloor == [nginx |-> 16, auth |-> 64, rest |-> 32]
CpuFloor    == [nginx |-> 40, auth |-> 120, rest |-> 25]
PidsFloor   == [nginx |-> 128, auth |-> 256, rest |-> 512]

\* Faulty variant: every service gets its rounded part.
ByWeightRounded(total, n, a, r) ==
  [nginx |-> (total * n) \div (n + a + r), auth |-> (total * a) \div (n + a + r),
   rest |-> (total * r) \div (n + a + r)]

\* A total by weight; the last service takes what the divisions leave.
ByWeight(total, n, a, r) ==
  LET nginx == (total * n) \div (n + a + r)
      auth  == (total * a) \div (n + a + r)
  IN  [nginx |-> nginx, auth |-> auth, rest |-> total - nginx - auth]

MemoryShares(t) == ByWeight(t.memory, 1, 2, 5)
CpuShares(t) ==
  LET spare == ByWeight(t.cpus - 185, 1, 4, 1)
  IN  [s \in Services |-> CpuFloor[s] + spare[s]]

\* _split_across_services refuses (409) what leaves a service under its floor.
Divides(t) ==
  /\ t.cpus >= 185
  /\ \A s \in Services : MemoryShares(t)[s] >= MemoryFloor[s]

\* What is written for the services: their limits, and PostgREST's heap.
Limits(t) ==
  [memory |-> MemoryShares(t), cpus |-> CpuShares(t),
   pids |-> [s \in Services |-> Larger(t.pids, PidsFloor[s])],
   heap |-> (MemoryShares(t).rest * 80) \div 100]

\* The same in the script: resource_split adds up what it has given away, and the
\* last service's part is what is left of the total.
ScriptMemory(t) ==
  LET nginx == t.memory \div 8
      used  == nginx + (2 * t.memory) \div 8
  IN  [nginx |-> nginx, auth |-> used - nginx, rest |-> t.memory - used]
ScriptCpus(t) ==
  LET left == t.cpus - (40 + 120 + 25)
      used == left \div 6 + (4 * left) \div 6
  IN  [nginx |-> 40 + left \div 6, auth |-> 120 + (4 * left) \div 6, rest |-> 25 + left - used]
ScriptPids(t) == [s \in Services |-> IF t.pids > PidsFloor[s] THEN t.pids ELSE PidsFloor[s]]
Rendered(t) ==
  [memory |-> ScriptMemory(t), cpus |-> ScriptCpus(t), pids |-> ScriptPids(t),
   heap |-> (ScriptMemory(t).rest * 80) \div 100]

Nothing0 == [s \in Services |-> 0]
NoLimits == [memory |-> Nothing0, cpus |-> Nothing0, pids |-> Nothing0, heap |-> 0]

VARIABLES
  capacity, \* the project's .env: [profile, totals, own, limits, other]
  rowProfile, \* projects.resource_profile
  saves,    \* the requests of this behaviour
  saving,   \* how far a request is: [at, row, update]
  script,   \* the rotation's script: [at, update, other, file]
  cloned    \* the totals of a duplicate made last

capacityVars == <<capacity, rowProfile, saves, saving, script, cloned>>

\* The .env as a rendering of totals leaves it; own: PROJECT_RES_CUSTOM_*.
Env(profile, totals, own, limits, other) ==
  [profile |-> profile, totals |-> totals, own |-> own, limits |-> limits, other |-> other]
Blank == Env("none", Absent, Absent, NoLimits, 0)

OwnOf(profile, t) == IF profile = "custom" THEN t ELSE Absent

Untold == [at |-> "new", row |-> "none", update |-> Blank]
NoScript == [at |-> "idle", update |-> Blank, file |-> FALSE]

CapacityInit ==
  /\ saves \in CapacityScenarios
  /\ LET t == RootTotals[FirstProfile]
     IN  /\ Divides(t)
         /\ capacity = Env(FirstProfile, t, OwnOf(FirstProfile, t), Rendered(t), 1)
  /\ rowProfile = FirstProfile
  /\ saving = [r \in saves |-> Untold]
  /\ script = NoScript
  /\ cloned = Absent

LimitsType == [memory : [Services -> Int], cpus : [Services -> Int],
               pids : [Services -> Int], heap : Int]
EnvType == [profile : Profiles \cup {"none"}, totals : Totals, own : Totals,
            limits : LimitsType, other : Nat]

CapacityTypeOK ==
  /\ capacity \in EnvType
  /\ rowProfile \in Profiles
  /\ saving \in [saves -> [at : {"new", "read", "derived", "written", "done"},
                           row : Profiles \cup {"none"}, update : EnvType]]
  /\ script \in [at : {"idle", "derived", "copied", "emptied", "ended"}, update : EnvType,
                 file : BOOLEAN]
  /\ cloned \in Totals

-----------------------------------------------------------------------------
(* PUT .../settings. *)

SavingAt(r, to) == saving' = [saving EXCEPT ![r].at = to]

\* The row and the rights are read; then the connection is given back.
ReadProject(r) ==
  /\ saving[r].at = "new"
  /\ saving' = [saving EXCEPT ![r].at = "read", ![r].row = rowProfile]
  /\ UNCHANGED <<capacity, rowProfile, saves, script, cloned>>

\* Totals that were not sent are the ones of the .env.
Inherited(r) ==
  [k \in {"memory", "cpus", "pids"} |-> IF r.totals[k] > 0 THEN r.totals[k] ELSE capacity.totals[k]]

SendsTotals(r) == r.totals # Absent

\* What a request asks of the capacity: the totals, and which are the project's own.
AskedTotals(r) == IF SendsTotals(r) THEN Inherited(r) ELSE RootTotals[r.profile]

\* split_resource_directives and resolve_resource_limits: 400 and 409.
IsRefused(r) ==
  \/ SendsTotals(r) /\ r.profile # "none"
  \/ SendsTotals(r) /\ \E k \in {"memory", "cpus", "pids"} : Inherited(r)[k] = 0
  \/ (SendsTotals(r) \/ r.profile # "none") /\ ~Divides(AskedTotals(r))

\* What is to be written over the .env; a profile of "none" leaves its capacity, and
\* absent own totals leave the ones it has: only totals that were sent become its own.
Update(r) ==
  IF ~SendsTotals(r) /\ r.profile = "none"
  THEN Env("none", Absent, Absent, NoLimits, r.other)
  ELSE Env(IF SendsTotals(r) THEN "custom" ELSE r.profile, AskedTotals(r),
           IF SendsTotals(r) THEN AskedTotals(r) ELSE Absent, Limits(AskedTotals(r)), r.other)

\* _write_env_whitelisted: other lines stay, and a new file takes the name.
Over(env, u) ==
  Env(IF u.profile = "none" THEN env.profile ELSE u.profile,
      IF u.profile = "none" THEN env.totals ELSE u.totals,
      IF u.own = Absent THEN env.own ELSE u.own,
      IF u.profile = "none" THEN env.limits ELSE u.limits,
      IF u.other = 0 THEN env.other ELSE u.other)

WritesEnv(r, u) ==
  /\ capacity' = Over(capacity, u)
  /\ script' = [script EXCEPT !.file = FALSE]
  /\ saving' = [saving EXCEPT ![r].at = "written", ![r].update = u]
  /\ UNCHANGED <<rowProfile, saves, cloned>>

\* Without Functions settings nothing is awaited between the derivation and the write.
RefuseSave(r) ==
  /\ saving[r].at = "read" /\ IsRefused(r)
  /\ SavingAt(r, "done") /\ UNCHANGED <<capacity, rowProfile, saves, script, cloned>>
DeriveAndWrite(r) == saving[r].at = "read" /\ ~IsRefused(r) /\ ~r.functions /\ WritesEnv(r, Update(r))
Derive(r) ==
  /\ saving[r].at = "read" /\ ~IsRefused(r) /\ r.functions
  /\ saving' = [saving EXCEPT ![r].at = "derived", ![r].update = Update(r)]
  /\ UNCHANGED <<capacity, rowProfile, saves, script, cloned>>
WriteDerived(r) == saving[r].at = "derived" /\ WritesEnv(r, saving[r].update)

\* The row follows only when the profile is not the one it was read with.
UpdateRow(r) ==
  LET p == saving[r].update.profile
  IN  /\ saving[r].at = "written"
      /\ rowProfile' = IF p \notin {"none", saving[r].row} THEN p ELSE rowProfile
      /\ SavingAt(r, "done") /\ UNCHANGED <<capacity, saves, script, cloned>>

\* configure_project fails, or the API ends.
GiveUp(r) ==
  /\ saving[r].at \in {"read", "derived", "written"}
  /\ SavingAt(r, "done") /\ UNCHANGED <<capacity, rowProfile, saves, script, cloned>>

-----------------------------------------------------------------------------
(* apply_project_resource_limits, called by rotate_key.sh and for a duplicate. *)

\* Faulty variant: only the root's slot.
ScriptTotalsRoot(profile, own) == RootTotals[profile]

\* The project's own totals come before the root's slot.
ScriptTotals(profile, own) ==
  IF profile = "custom" /\ own # Absent THEN own ELSE RootTotals[profile]

RenderedEnv(profile, own, other) ==
  LET t == ScriptTotals(profile, own)
  IN  Env(profile, t, OwnOf(profile, t), Rendered(t), other)

\* Profile and totals are read, one sed each, and derived.
ScriptDerives ==
  /\ script.at = "idle" /\ saves # {}
  /\ LET p == IF capacity.profile = "none" THEN FirstProfile ELSE capacity.profile
     IN  /\ Divides(ScriptTotals(p, capacity.own))
         /\ script' = [at |-> "derived", update |-> RenderedEnv(p, capacity.own, 0), file |-> TRUE]
  /\ UNCHANGED <<capacity, rowProfile, saves, saving, cloned>>

\* The other lines are copied to the temporary file.
ScriptCopies ==
  /\ script.at = "derived"
  /\ script' = [script EXCEPT !.at = "copied", !.update.other = capacity.other]
  /\ UNCHANGED <<capacity, rowProfile, saves, saving, cloned>>

\* cat opens the .env, which empties it, and fills the file it opened: should a save
\* have put another in its place, what it writes is lost with the old one.
ScriptEmpties ==
  /\ script.at = "copied"
  /\ script' = [script EXCEPT !.at = "emptied", !.file = TRUE]
  /\ capacity' = Blank
  /\ UNCHANGED <<rowProfile, saves, saving, cloned>>
ScriptFills ==
  /\ script.at = "emptied"
  /\ script' = [script EXCEPT !.at = "ended"]
  /\ capacity' = IF script.file THEN script.update ELSE capacity
  /\ UNCHANGED <<rowProfile, saves, saving, cloned>>

\* A duplicate is rendered with the row's profile and the source's own totals.
Duplicate ==
  /\ saves # {} /\ \A r \in saves : saving[r].at = "done"
  /\ script.at \in {"idle", "ended"} /\ cloned = Absent
  /\ Divides(ScriptTotals(rowProfile, capacity.own))
  /\ cloned' = ScriptTotals(rowProfile, capacity.own)
  /\ UNCHANGED <<capacity, rowProfile, saves, saving, script>>

CapacityNext ==
  \/ \E r \in saves : \/ ReadProject(r) \/ RefuseSave(r) \/ DeriveAndWrite(r) \/ Derive(r)
                      \/ WriteDerived(r) \/ UpdateRow(r) \/ GiveUp(r)
  \/ ScriptDerives \/ ScriptCopies \/ ScriptEmpties \/ ScriptFills \/ Duplicate

CapacitySpec == CapacityInit /\ [][CapacityNext]_capacityVars

-----------------------------------------------------------------------------
(* Correctness. *)

Sum(f) == f.nginx + f.auth + f.rest

\* The services share exactly what the project has, each gets what it needs to run,
\* and PostgREST's heap fits its memory: whoever wrote the limits, from whichever
\* totals, in whichever order.
Fits(e) ==
  LET t == e.totals
      l == e.limits
  IN  /\ Sum(l.memory) = t.memory /\ Sum(l.cpus) = t.cpus
      /\ \A s \in Services : /\ l.memory[s] >= MemoryFloor[s] /\ l.cpus[s] >= CpuFloor[s]
                             /\ l.pids[s] >= t.pids /\ l.pids[s] >= PidsFloor[s]
      /\ 5 * l.heap \in 4 * l.memory.rest - 4 .. 4 * l.memory.rest
CapacityFits == capacity.profile # "none" => Fits(capacity)

\* The limits the script derives are the ones the services have: a rotation of the
\* service key leaves a capacity as it was saved ("em rotacoes e regeneracoes
\* seguintes", lib/resource_profiles.sh:170), whichever of the two derived it last. The
\* exception is a project with totals of its own whose profile custom was named since.
Overlooked(e) == e.profile = "custom" /\ e.own \notin {Absent, e.totals}
RotationKeepsCapacity ==
  [][capacity.profile # "none" /\ ~Overlooked(capacity) /\ script'.at = "derived" /\ script.at = "idle"
     => script'.update.limits = capacity.limits]_capacityVars

\* A duplicate has the capacity of its source ("clones keep the original sizing",
\* architecture/project-lifecycle.md:223). The row it takes the profile from may be
\* behind the .env.
CloneKeepsSizing ==
  [][cloned' # cloned /\ capacity.profile # "none" /\ ~Overlooked(capacity)
     => cloned' = capacity.totals]_capacityVars

\* A save changes the totals it names and no others, or all of them with a profile.
EditsWhatItNames ==
  [][\A r \in saves : saving[r].at # "written" /\ saving'[r].at = "written" /\ SendsTotals(r)
       /\ capacity.profile # "none" =>
       \A k \in {"memory", "cpus", "pids"} :
         r.totals[k] = 0 => capacity'.totals[k] = capacity.totals[k]]_capacityVars

\* What a save wrote of another setting is not taken back by a script.
SettingsSurvive ==
  [][script.at = "emptied" /\ script'.at = "ended" => capacity'.other >= script.update.other
     /\ \A r \in saves : saving[r].at = "written" => capacity'.other >= r.other]_capacityVars

\* The .env is never left without a capacity.
NeverBlank == capacity.profile = "none" => script.at = "emptied"
=============================================================================
