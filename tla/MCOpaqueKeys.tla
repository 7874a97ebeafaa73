---------------------------- MODULE MCOpaqueKeys ----------------------------
(* Small instances of OpaqueKeys for TLC. *)
EXTENDS OpaqueKeys

\* Slots share nothing but the phase of the project and its master switch, so
\* the instances look at one active slot at a time: another one is created only
\* after the first was disabled, and only if that one was never rotated.
OneSlot == \A s, t \in Slots : s # t /\ slot'[s].status = "active" =>
  /\ slot'[t].status # "active"
  /\ With(t, "absent") \in {Versions, Versions \ {1}}

OneSlotSpec == /\ Init /\ [][Next /\ OneSlot]_vars
               /\ \A s \in Slots : ScanFairness(s)
=============================================================================
