----------------------------- MODULE ConfigStore -----------------------------
(***************************************************************************)
(* What the configuration editor promises: a command is one atomic change  *)
(* of the file, to a configuration the runtime accepts, or it reports an   *)
(* error (or dies) and has changed nothing.                                *)
(***************************************************************************)
EXTENDS ConfigRules

CONSTANTS Procs,   \* command invocations
          Absent   \* there is no file

VARIABLES file, outcome

svars == <<file, outcome>>

Acceptable(f) == f = Absent \/ Validate(f)

Init ==
  /\ Acceptable(file)
  /\ outcome = [p \in Procs |-> "running"]

Succeed(p) ==
  /\ outcome[p] = "running"
  /\ outcome' = [outcome EXCEPT ![p] = "ok"]
  /\ file' # file => Validate(file')

Fail(p) ==
  /\ outcome[p] = "running"
  /\ outcome' = [outcome EXCEPT ![p] = "error"]
  /\ UNCHANGED file

Next == \E p \in Procs : Succeed(p) \/ Fail(p)

Spec == Init /\ [][Next]_svars
=============================================================================
