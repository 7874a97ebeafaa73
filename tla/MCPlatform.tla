----------------------------- MODULE MCPlatform -----------------------------
(* A few requests to each part, chosen to meet. *)
EXTENDS Platform

MCHome == [x \in {"n1", "k1", "k2"} |-> "t1"]
MCGenerations == [k \in {"k1", "k2"} |-> IF k = "k1" THEN 2 ELSE 1]
MCDeployments ==
  {[processes |-> {"p1", "p2"}, tenants |-> {"t1"}, devices |-> {"k1", "k2"}],
   [processes |-> {}, tenants |-> {}, devices |-> {}]}

Ask(i, actor, op, user, role, about) ==
  [id |-> i, actor |-> actor, op |-> op, user |-> user, role |-> role, about |-> about]
Mutual == {Ask(1, "ann", "remove", "bob", "none", 0), Ask(2, "bob", "remove", "ann", "none", 0),
           Ask(3, "root", "transfer", "bob", "none", 0)}
Demote == {Ask(4, "bob", "add", "ann", "member", 0), Ask(5, "ann", "add", "cid", "member", 0),
           Ask(6, "root", "transfer", "cid", "none", 0)}
Policies == {Ask(7, "ann", "policy", "ann", "none", 1), Ask(8, "ann", "policy", "ann", "none", 1),
             Ask(9, "bob", "policy", "bob", "none", 2)}
Messages == {Ask(10, "ann", "message", "ann", "none", 0), Ask(11, "bob", "read", "bob", "none", 10),
             Ask(12, "bob", "unread", "bob", "none", 10), Ask(13, "root", "remove", "bob", "none", 0)}
Hints == {Ask(14, "ann", "hint", "bob", "none", 0), Ask(15, "bob", "resolve", "bob", "none", 14),
          Ask(16, "ann", "reopen", "bob", "none", 14)}
Notes == {Ask(17, "bob", "note", "bob", "none", 0), Ask(18, "ann", "unnote", "bob", "none", 17),
          Ask(19, "root", "remove", "bob", "none", 0)}
MCTeam == {{}, Mutual, Demote, Policies, Messages, Hints, Notes}
MCUsers == {"ann", "bob", "cid", "root"}
\* bob is deactivated in the second version.
MCDirectories == [s \in 1 .. 2 |-> [u \in MCUsers |->
  CASE u = "root" -> "admin" [] u = "bob" /\ s = 2 -> "inactive" [] OTHER -> "active"]]

MCAsked == [q \in {"q1", "q2", "q3"} |-> CASE q = "q1" -> 1 [] q = "q2" -> 2 [] q = "q3" -> 3]
MCTogether == {{}, {"w1", "q1"}, {"q1", "q2"}, {"q1", "q3"}}

Call(i, op, function, code, enabled, network) ==
  [id |-> i, op |-> op, function |-> function, code |-> code, enabled |-> enabled,
   network |-> network]
Saved == {Call(1, "save", "f", "a", TRUE, "n1"), Call(2, "publish", "f", "a", TRUE, "n1")}
MCFunctions ==
  {{}, Saved \cup {Call(3, "save", "f", "b", TRUE, "n1"), Call(5, "configure", "f", "a", TRUE, "n2")},
   Saved \cup {Call(4, "publish", "f", "b", TRUE, "n1"), Call(8, "configure", "f", "a", FALSE, "n1")},
   Saved \cup {Call(6, "save", "g", "b", TRUE, "n1"), Call(7, "publish", "g", "b", TRUE, "n1")}}

Do(i, op, item) == [id |-> i, op |-> op, item |-> item, rotate |-> FALSE]
MCWork == {Do(1, "store", "anon"), Do(2, "store", "reveal"), Do(3, "read", "anon"),
           Do(4, "migrate", "anon"), Do(5, "store", "anon")}
MCSecretScenarios == {{}, MCWork}

Of(m, c, p) == [memory |-> m, cpus |-> c, pids |-> p]
\* .env.example, but for 1 MiB more in the slot.
MCRootTotals == [small |-> Of(256, 185, 128), medium |-> Of(1024, 200, 384),
                 large |-> Of(4096, 300, 768), custom |-> Of(769, 225, 512)]
Save1(i, profile, totals, other, functions) ==
  [id |-> i, profile |-> profile, totals |-> totals, other |-> other, functions |-> functions]
MCCapacityScenarios ==
  {{}, {Save1(1, "none", Of(1027, 0, 0), 0, FALSE), Save1(2, "none", Of(0, 191, 0), 0, TRUE),
        Save1(3, "custom", Absent, 0, FALSE)},
   {Save1(4, "small", Absent, 0, FALSE), Save1(5, "large", Absent, 0, TRUE),
    Save1(6, "none", Of(255, 0, 0), 2, FALSE)},
   {Save1(7, "none", Absent, 2, FALSE), Save1(8, "none", Of(263, 186, 600), 0, TRUE),
    Save1(9, "medium", Absent, 0, FALSE)}}

From(i, tenant, dsns, access) == [id |-> i, tenant |-> tenant, dsns |-> dsns, access |-> access]
MCPoolScenarios ==
  {{}, {From(1, "t1", 1, "reader"), From(2, "t2", 1, "admin"), From(3, "t1", 2, "reader")},
   {From(1, "t1", 1, "reader"), From(2, "t2", 1, "admin"), From(3, "t3", 1, "admin")},
   {From(1, "t1", 1, "reader"), From(2, "t1", 1, "admin"), From(3, "t1", 1, "admin")}}

\* i3 is i2 with a migration edited and one missing; i1 its release before.
MCCatalog == [i \in {"i1", "i2", "i3"} |->
  CASE i = "i1" -> <<"a">> [] i = "i2" -> <<"a", "b", "c">> [] i = "i3" -> <<"a", "b2">>]
\* i2 twice, at once or after i1's, which is the rollback of a release.
MCMigrators == <<"i2", "i1", "i2", "i3">>
Project(i, tenant, env, command, payload, exists, there) ==
  [id |-> i, tenant |-> tenant, env |-> env, command |-> command, payload |-> payload,
   exists |-> exists, database |-> there]
Installed(applied, image, projects, runs) ==
  [ledger |-> applied, api |-> image, rows |-> projects, runs |-> runs]
\* Nothing yet, with one image's migrator twice and the other's before, between or after;
\* an installation of the first image, whose projects lack their tenants, contradict their
\* files or another project, or never came to be.
MCStartScenarios ==
  {Installed(<<>>, "none", {}, {1, 2, 3}),
   Installed(<<>>, "none", {Project(1, 1, 1, 1, 1, TRUE, TRUE)}, {1, 3, 4}),
   Installed(<<"a">>, "i1", {Project(1, 1, 1, 1, 1, TRUE, TRUE), Project(2, 0, 5, 0, 0, TRUE, TRUE),
                             Project(3, 0, 0, 0, 3, TRUE, TRUE)}, {1, 2, 4}),
   Installed(<<"a">>, "i1", {Project(1, 1, 2, 0, 0, TRUE, TRUE)}, {1, 2, 4}),
   Installed(<<"a">>, "i1", {Project(1, 0, 0, 0, 0, FALSE, TRUE), Project(2, 0, 1, 0, 0, TRUE, TRUE)},
             {1, 3, 4}),
   Installed(<<"a">>, "i1", {Project(1, 0, 0, 1, 0, FALSE, FALSE)}, {1, 2, 3})}

\* The data key is replaced, a save is killed, or two retries meet, and nothing else.
Rotate(i) == [id |-> i, op |-> "migrate", item |-> "anon", rotate |-> TRUE]
MCReplacement == {{Do(1, "store", "anon"), Do(2, "store", "reveal"), Rotate(6)}}
MCNothing == {{}}
MCNobody == {Installed(<<>>, "none", {}, {})}
MCNoDeployments == {[processes |-> {}, tenants |-> {}, devices |-> {}]}
=============================================================================
