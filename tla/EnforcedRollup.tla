--------------------------- MODULE EnforcedRollup ---------------------------
(***************************************************************************)
(* What delegating a task promises (README "Fork", "Enforced rollup"): a   *)
(* task either answers its parent, and then the parent's namespace holds a *)
(* summary of it, or it raises to the parent.  What a task has reported is *)
(* never taken back, and nothing is reported for it once it is over.       *)
(***************************************************************************)
CONSTANT Task

VARIABLES
  outcome,   \* outcome[t]: how far task t has come
  reported   \* the tasks the parent's namespace holds a summary of

Outcome == {"unborn", "running", "returned", "raised"}

Init == outcome = [t \in Task |-> "unborn"] /\ reported = {}

Spawn(t) ==
  /\ outcome[t] = "unborn"
  /\ outcome' = [outcome EXCEPT ![t] = "running"]
  /\ UNCHANGED reported

Report(t) ==
  /\ outcome[t] = "running"
  /\ reported' = reported \cup {t}
  /\ UNCHANGED outcome

Answer(t) ==
  /\ outcome[t] = "running" /\ t \in reported
  /\ outcome' = [outcome EXCEPT ![t] = "returned"]
  /\ UNCHANGED reported

Raise(t) ==
  /\ outcome[t] \in {"unborn", "running"}
  /\ outcome' = [outcome EXCEPT ![t] = "raised"]
  /\ UNCHANGED reported

Next == \E t \in Task : Spawn(t) \/ Report(t) \/ Answer(t) \/ Raise(t)

Spec == Init /\ [][Next]_<<outcome, reported>>
=============================================================================
