------------------------- MODULE MCProjectOperations -------------------------
(* A project with a few requests in each behaviour. *)
EXTENDS ProjectOperations

MCJobs == {"backup1", "backup2", "restore", "restore2", "drop", "delete", "rename1",
           "rename2", "automatic1", "automatic2", "manual", "start", "stop", "recreate",
           "again", "auth"}
MCAction == [j \in MCJobs |->
  CASE j \in {"backup1", "backup2"} -> "backup"
    [] j \in {"restore", "restore2"} -> "restore"
    [] j = "drop" -> "delete_restore_point"
    [] j = "delete" -> "delete"
    [] j \in {"rename1", "rename2"} -> "rename"
    [] j \in {"automatic1", "automatic2", "manual"} -> "rotate_key"
    [] j \in {"start", "stop"} -> j
    [] OTHER -> "recreate_services"]
MCTarget == [j \in MCJobs |->
  CASE j \in {"backup1", "restore", "restore2", "drop"} -> "point1"
    [] j = "backup2" -> "point2"
    [] OTHER -> "none"]
MCSafety == [j \in MCJobs |->
  CASE j = "restore" -> "safety"
    [] j = "restore2" -> "safety2"
    [] OTHER -> "none"]
MCTrigger == [j \in MCJobs |->
  IF j \in {"automatic1", "automatic2"} THEN "automatic" ELSE "manual"]
MCNewRef == [j \in MCJobs |-> IF j = "rename1" THEN 1 ELSE 2]
MCServices == {"nginx", "auth"}
MCAffected == {{"nginx"}, {"nginx", "auth"}}
MCRecreates == [j \in MCJobs |-> IF j = "auth" THEN {"auth"} ELSE {"nginx", "auth"}]

Data1     == {"backup1", "restore", "delete"}
Data2     == {"backup1", "restore", "restore2", "drop"}
Data3     == {"backup1", "backup2", "restore", "restore2"}
Reference == {"rename1", "rename2"}
Keys      == {"automatic1", "automatic2"}
Three     == {"recreate", "auth", "again"}
MCRequests == {Data1, Data2, Data3, Reference, Keys, {"backup1", "delete"},
               {"rename1", "manual"}, {"rename1", "delete"}, {"rename1", "start"},
               {"rename1", "stop"}, {"rename1", "recreate"}, {"rename1", "backup1", "restore"},
               {"recreate", "again"}, {"recreate", "auth"}, Three, {"manual", "recreate"}}
MCTroubles == [r \in MCRequests |->
  CASE r = Reference -> 2
    [] r \in {Data1, Data3, Three} -> 0
    [] OTHER -> 1]
\* Settings are saved where something is made of them.
MCSaves == [r \in MCRequests |->
  IF "recreate" \in r THEN 1 ELSE 0]
=============================================================================
