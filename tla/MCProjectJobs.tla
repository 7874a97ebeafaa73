---------------------------- MODULE MCProjectJobs ----------------------------
(* Small instances of ProjectJobs for TLC. *)
EXTENDS ProjectJobs

\* Project 1 exists; "copy" duplicates it into project 2, "make" creates
\* project 3, and the others work on project 1 or 2.
MCName == [j \in Jobs |->
  CASE j \in {"copy", "restartCopy"} -> 2 [] j = "make" -> 3 [] OTHER -> 1]
MCKind == [j \in Jobs |->
  CASE j = "copy" -> "duplicate"
    [] j = "make" -> "create"
    [] j \in {"restart", "restartCopy"} -> "restart"
    [] OTHER -> "backup"]
MCSource == [j \in Jobs |-> IF j = "copy" THEN {1} ELSE {}]
=============================================================================
