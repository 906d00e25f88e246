----------------------------- MODULE ConfigDiff -----------------------------
(***************************************************************************)
(* How a changed configuration is turned into events, and which role a     *)
(* configuration selects: calculate_events and                             *)
(* calculate_instance_config_events of src/src/config_watcher.rs and       *)
(* determine_run_mode of src/src/lib.rs.                                   *)
(***************************************************************************)
CONSTANTS Names,      \* service names
          Settings,   \* configurations of one service
          Bases,      \* everything of a section but its services
          None

Roles == {"server", "client"}

Services == [Names -> Settings \cup {None}]
Section  == [base : Bases, services : Services]
Config   == [Roles -> Section \cup {None}]

General(new)    == [kind |-> "general", cfg |-> new]
Delete(role, n) == [kind |-> "delete", role |-> role, name |-> n]
Add(role, n, s) == [kind |-> "add", role |-> role, name |-> n, set |-> s]

\* Mutant of Additions: only new services are added, changed ones are missed.
AdditionsOnlyNew(role, old, new) ==
  {Add(role, n, new[n]) : n \in {m \in Names : new[m] # None /\ old[m] = None}}

Deletions(role, old, new) ==
  {Delete(role, n) : n \in {m \in Names : old[m] # None /\ new[m] = None}}

Additions(role, old, new) ==
  {Add(role, n, new[n]) : n \in {m \in Names : new[m] # None /\ old[m] # new[m]}}

\* A section appears or disappears, or something other than services changed.
NeedsRestart(old, new) ==
  \E r \in Roles :
    \/ (old[r] = None) # (new[r] = None)
    \/ old[r] # None /\ new[r] # None /\ old[r].base # new[r].base

\* The events of a section: its deletions come before its additions, and the
\* order within each is that of a hash map.
SectionEvents(r, old, new) ==
  IF old[r] = None THEN [deletions |-> {}, additions |-> {}]
  ELSE [deletions |-> Deletions(r, old[r].services, new[r].services),
        additions |-> Additions(r, old[r].services, new[r].services)]

\* What an event does to a configuration.
Apply(cfg, e) ==
  CASE e.kind = "general" -> e.cfg
    [] e.kind = "delete" -> [cfg EXCEPT ![e.role].services[e.name] = None]
    [] e.kind = "add"    -> [cfg EXCEPT ![e.role].services[e.name] = e.set]

\* determine_run_mode: the flag of `run` wins, else the only section present.
RunMode(cfg, flag) ==
  CASE flag # None -> flag
    [] flag = None /\ cfg["client"] # None /\ cfg["server"] = None -> "client"
    [] flag = None /\ cfg["server"] # None /\ cfg["client"] = None -> "server"
    [] OTHER -> None
=============================================================================
