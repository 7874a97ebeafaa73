---------------------------- MODULE MCPushOutbox ----------------------------
(* A push worker with one slot on two tenants, one device. *)
EXTENDS PushOutbox

MCHome == [x \in {"n1", "n2", "k1"} |-> IF x = "n2" THEN "t2" ELSE "t1"]
MCGenerations == [k \in {"k1"} |-> 2]
MCDeployments ==
  {[processes |-> {"p1"}, tenants |-> {"t1", "t2"}, devices |-> {"k1"}]}

=============================================================================
