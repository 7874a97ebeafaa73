--------------------------- MODULE ReferenceChange ---------------------------
(***************************************************************************)
(* What a rotation of the public reference promises, whatever the API, the *)
(* script, its journal and an operator do for it: a rotation changes the   *)
(* reference at most once, from the one it found to its own; a change can  *)
(* be taken back until it is settled and by nobody after that; one row of  *)
(* the history is open at a time, ends once, and says what was so.         *)
(***************************************************************************)
CONSTANTS Rotations,  \* the rotations that may be asked for
          NewRef      \* [Rotations -> the reference each one draws]

VARIABLES
  reference,  \* the reference of the project
  record,     \* [Rotations -> status of its row in the history]
  base,       \* [Rotations -> the reference it found]
  spent,      \* the rotations that have planned their change, or will not
  change,     \* the change that is not settled: a set of at most one
  armed       \* it may still be made

vars == <<reference, record, base, spent, change, armed>>

Open == {"queued", "running"}

Init ==
  /\ reference = 0
  /\ record = [j \in Rotations |-> "absent"]
  /\ base = [j \in Rotations |-> 0]
  /\ spent = {} /\ change = {} /\ armed = FALSE

\* The row of the history.
Reserve(j) ==
  /\ record[j] = "absent"
  /\ \A k \in Rotations : record[k] \notin Open
  /\ record' = [record EXCEPT ![j] = "queued"]
  /\ base' = [base EXCEPT ![j] = reference]
  /\ UNCHANGED <<reference, spent, change, armed>>

End(j, status) ==
  /\ record[j] \in Open
  /\ record' = [record EXCEPT ![j] = status]
  /\ UNCHANGED <<reference, base, spent, change, armed>>

Start(j) == End(j, "running")

\* A success is settled: nobody can take its change back.
Succeed(j) == j \in spent /\ change = {} /\ reference = NewRef[j] /\ End(j, "succeeded")

PutBack(j) == j \in spent /\ reference = base[j] /\ End(j, "rolled_back")

GiveUp(j) == End(j, "failed")

\* The reference.
Plan(j) ==
  /\ j \notin spent /\ change = {} /\ reference = base[j]
  /\ spent' = spent \cup {j}
  /\ change' = {[old |-> reference, new |-> NewRef[j]]} /\ armed' = TRUE
  /\ UNCHANGED <<reference, record, base>>

Make ==
  /\ armed /\ armed' = FALSE
  /\ \E c \in change : reference = c.old /\ reference' = c.new
  /\ UNCHANGED <<record, base, spent, change>>

Disarm ==
  /\ armed /\ armed' = FALSE
  /\ UNCHANGED <<reference, record, base, spent, change>>

TakeBack ==
  /\ ~armed
  /\ \E c \in change : reference' = c.old
  /\ UNCHANGED <<record, base, spent, change, armed>>

SettleChange ==
  /\ ~armed /\ change' = {}
  /\ UNCHANGED <<reference, record, base, spent, armed>>

Spend(j) ==
  /\ spent' = spent \cup {j}
  /\ UNCHANGED <<reference, record, base, change, armed>>

Next ==
  \/ \E j \in Rotations : \/ Reserve(j) \/ Start(j) \/ Succeed(j) \/ PutBack(j) \/ GiveUp(j)
                          \/ Plan(j) \/ Spend(j)
  \/ Make \/ Disarm \/ TakeBack \/ SettleChange

Spec == Init /\ [][Next]_vars
=============================================================================
