--------------------------- MODULE MCHostCommands ---------------------------
(* Small instances of HostCommands for TLC. *)
EXTENDS HostCommands, TLC

CONSTANTS c1, c2, c3

\* c1 duplicates project 1 into project 2, c2 is a command for project 1, and
\* c3 is the duplication of c1 submitted again (a retry that found c1 still
\* queued by an API process that is gone).
MCTarget == [c \in Commands |-> IF c = c2 THEN 1 ELSE 2]
MCOrigin == [c \in Commands |-> IF c = c2 THEN {} ELSE {1}]

\* Behaviours in which clocks and heartbeats work as configured: a lease lapses
\* only after its heartbeat stopped, and the deadline of wait_command, which is
\* WAIT_EXTRA_MARGIN_SECONDS (120 s) after the command's timeout, passes only
\* while the process that outlived that timeout is in its TERM grace (180 s for
\* create and duplicate, 240 s for rename and restore).
Punctual == \A c \in Commands :
  /\ lapsed'[c] /\ ~lapsed[c] => abort[c]
  /\ errorCode[c] = "none" /\ errorCode'[c] = "wait_timeout" => task[c] = "terminating"
PunctualSpec == Init /\ [][Next /\ Punctual]_vars

\* Agents differ in nothing but their worker_id.
AgentSymmetry == Permutations(Agents)
=============================================================================
