-------------------------- MODULE CommandLifecycle --------------------------
(***************************************************************************)
(* What the table host_agent_commands promises to the jobs of the Projects *)
(* API, whatever agents, waiters and reapers do to it: an intent is        *)
(* accepted once, is begun at most once and never next to another intent   *)
(* that is running on one of its resources, and ends in one final status.  *)
(***************************************************************************)
CONSTANTS Commands,     \* the intents, one row of host_agent_commands each
          Projects,     \* technical project names
          Resources(_)  \* the projects an intent occupies

VARIABLE status         \* [Commands -> Status]; "absent" before the INSERT

Final  == {"done", "failed", "cancelled"}
Status == {"absent", "queued", "running"} \cup Final

Overlap(c, d) == Resources(c) \cap Resources(d) # {}

Init == status = [c \in Commands |-> "absent"]

Accept(c) == /\ status[c] = "absent"
             /\ status' = [status EXCEPT ![c] = "queued"]

Begin(c) == /\ status[c] = "queued"
            /\ \A d \in Commands : status[d] = "running" => ~Overlap(c, d)
            /\ status' = [status EXCEPT ![c] = "running"]

\* Only an intent nobody has begun can be withdrawn.
Withdraw(c) == /\ status[c] = "queued"
               /\ status' = [status EXCEPT ![c] = "cancelled"]

Succeed(c) == /\ status[c] = "running"
              /\ status' = [status EXCEPT ![c] = "done"]

\* A reaper fails every intent whose lease has lapsed in one UPDATE.
Fail(S) == /\ S # {}
           /\ \A c \in S : status[c] = "running"
           /\ status' = [c \in Commands |-> IF c \in S THEN "failed" ELSE status[c]]

Next == \/ \E c \in Commands : Accept(c) \/ Begin(c) \/ Withdraw(c) \/ Succeed(c)
        \/ \E S \in SUBSET Commands : Fail(S)

Spec == Init /\ [][Next]_status
=============================================================================
