--------------------------- MODULE ServiceManager ---------------------------
(***************************************************************************)
(* Installed services: the commands `service install|uninstall|start|stop| *)
(* restart` and `upgrade` of src/src/lib.rs over the back ends of          *)
(* src/src/platform.  systemd and OpenRC take the same steps and are one   *)
(* platform here; Windows is the other.  A command is a sequence of steps  *)
(* on files and on the service manager, each of which may fail or be the   *)
(* last before the command is killed; services stop on their own account,  *)
(* and configurations are edited by hand between the steps.                *)
(***************************************************************************)
EXTENDS Naturals, FiniteSets

CONSTANTS Names,     \* service names; the managed directory has one file per name
          None,
          MaxEdits   \* bound: names whose configuration is edited by hand

ASSUME ManagerAssumption ==
  /\ None \notin {"server", "client"}
  /\ MaxEdits \in Nat

Roles    == {"server", "client"}
Services == Names \X Roles        \* rathole-x-<role>-<name>

VARIABLES
  os,       \* the platform
  config,   \* the role of a name's configuration file, None when there is none
  stamp,    \* version.toml is there
  binary,   \* the shared binary: "none", "whole" or "torn"
  unit,     \* unit file, init script or SCM registration of a service
  up,       \* it has a process
  edited,   \* names whose file was edited by hand (for the properties only)
  job       \* the command that runs

vars == <<os, config, stamp, binary, unit, up, edited, job>>

Ended == {"ok", "error", "killed"}

\* `todo` are the names still to be handled, `list` what list_installed_services
\* returned, `was` the services that ran when an upgrade began and did not end
\* after it had started them again, `failed` those whose start or rollback failed, `back` that the
\* upgrade has failed and only restarts.
Jobs == [op : {"none", "install", "uninstall", "start", "stop", "restart", "upgrade"},
         name : Names \cup {None}, role : Roles \cup {None}, purge : BOOLEAN, all : BOOLEAN,
         todo : SUBSET Names, list : [Names -> Roles \cup {None}], was : SUBSET Services,
         failed : SUBSET Services, back : BOOLEAN,
         step : Ended \cup {"config", "stamp", "binary", "register", "harden", "lockdown",
                            "start", "find", "stop", "delete", "reload", "files", "shared",
                            "control", "halt", "grant", "rewrite", "resume"}]

TypeOK ==
  /\ os \in {"linux", "windows"}
  /\ config \in [Names -> Roles \cup {None}]
  /\ stamp \in BOOLEAN
  /\ binary \in {"none", "whole", "torn"}
  /\ unit \in [Services -> {"none", "present", "marked"}]
  /\ up \in [Services -> BOOLEAN]
  /\ edited \subseteq Names
  /\ job \in Jobs

Idle == [op |-> "none", name |-> None, role |-> None, purge |-> FALSE, all |-> FALSE,
         todo |-> {}, list |-> [n \in Names |-> None], was |-> {}, failed |-> {},
         back |-> FALSE, step |-> "ok"]

Init ==
  /\ os \in {"linux", "windows"}
  /\ config \in [Names -> Roles \cup {None}]
  /\ stamp = FALSE /\ binary = "none"
  /\ unit = [s \in Services |-> "none"]
  /\ up = [s \in Services |-> FALSE]
  /\ edited = {}
  /\ job = Idle

Windows == os = "windows"
Listed  == {n \in Names : config[n] # None}
Running == {s \in Services : up[s]}
Known   == {s \in Services : unit[s] # "none"}

\* A command that has ended leaves its result and nothing else.
Result(r) == [Idle EXCEPT !.step = r]

Goto(s) == job' = IF s \in Ended THEN Result(s) ELSE [job EXCEPT !.step = s]

-----------------------------------------------------------------------------
(* Which service a name stands for.                                        *)

Found(n) == {r \in Roles : unit[<<n, r>>] # "none"}

\* existing_unit and existing_service: the client variant first.
ClientFirst(rs) == IF "client" \in rs THEN "client" ELSE "server"

\* The service a start, a stop or an upgrade acts on, for a name that was listed
\* with a role: on Linux the one that exists under either role.
Target(n) ==
  <<n, CASE ~Windows /\ Found(n) # {} -> ClientFirst(Found(n))
         [] (Windows \/ Found(n) = {}) /\ job.list[n] # None -> job.list[n]
         [] OTHER -> "server">>

\* What an uninstall looks for: on Windows a single one trusts a readable
\* configuration, the others look at both variants.
Looked(n) == IF Windows /\ ~job.all /\ config[n] # None THEN Found(n) \cap {config[n]} ELSE Found(n)

Chosen(n) == IF Windows /\ config[n] \in Looked(n) THEN config[n] ELSE ClientFirst(Looked(n))

-----------------------------------------------------------------------------
(* Commands.                                                               *)

Begin(op, name, role, purge, step) ==
  /\ job.step \in Ended
  /\ job' = IF step \in Ended THEN Result(step) ELSE
            [op |-> op, name |-> name, role |-> role, purge |-> purge, all |-> name = None,
             todo |-> IF name = None THEN Listed ELSE {name},
             list |-> IF step \in {"control", "halt"} THEN config ELSE Idle.list,
             was |-> IF step = "halt" THEN Running ELSE {},
             failed |-> {}, back |-> FALSE, step |-> step]
  /\ UNCHANGED <<os, config, stamp, binary, unit, up, edited>>

BeginInstall(n, r) == Begin("install", n, r, FALSE, "config")

\* On Windows `--all` with nothing listed returns before the shared binary goes.
BeginUninstall(n, purge) ==
  Begin("uninstall", n, None, purge,
        IF n # None \/ Listed # {} THEN "find" ELSE IF Windows THEN "ok" ELSE "shared")

\* On Windows there must be a target, and a name needs a readable configuration.
BeginControl(op, n) ==
  Begin(op, n, None, FALSE,
        IF Windows /\ (Listed = {} \/ (n # None /\ config[n] = None)) THEN "error" ELSE "control")

BeginUpgrade ==
  Begin("upgrade", None, None, FALSE, IF Listed = {} /\ ~Windows THEN "ok" ELSE "halt")

\* The steps that can report an error and have changed nothing.  Stopping a
\* service to remove it is best effort on Linux, removing its files on Windows.
Fallible ==
  {"config", "stamp", "binary", "register", "delete", "reload", "control", "grant", "rewrite"}
    \cup (IF Windows THEN {"stop"} ELSE {"start", "files"})

\* Mutant of Fail: a failed upgrade returns at once on Windows too.
FailAtOnce ==
  /\ job.step \in Fallible
  /\ Goto("error")
  /\ UNCHANGED <<os, config, stamp, binary, unit, up, edited>>

\* An upgrade on Windows that cannot grant access, replace the binary or lock it
\* down starts what it stopped (Halted has the failure before that).
Fail ==
  /\ job.step \in Fallible
  /\ IF Windows /\ job.op = "upgrade"
     THEN job' = [job EXCEPT !.step = "resume", !.back = TRUE, !.todo = {n \in Names : job.list[n] # None}]
     ELSE Goto("error")
  /\ UNCHANGED <<os, config, stamp, binary, unit, up, edited>>

Kill ==
  /\ job.step \notin Ended
  /\ Goto("killed")
  /\ UNCHANGED <<os, config, stamp, binary, unit, up, edited>>

-----------------------------------------------------------------------------
(* service install.                                                        *)

New == <<job.name, job.role>>

\* ensure_role_config: a missing file is written, another one must be of the role.
EnsureConfig ==
  /\ job.step = "config" /\ config[job.name] \in {None, job.role}
  /\ config' = [config EXCEPT ![job.name] = job.role]
  /\ Goto("stamp")
  /\ UNCHANGED <<os, stamp, binary, unit, up, edited>>

\* On Linux a unit of the same role is in the way.
WriteStamp ==
  /\ job.step = "stamp" /\ (Windows \/ unit[New] = "none")
  /\ stamp' = TRUE
  /\ Goto("binary")
  /\ UNCHANGED <<os, config, binary, unit, up, edited>>

\* deploy_binary and ensure_binary_copy.  Linux copies over the binary, which
\* the kernel refuses while a process runs it; Windows replaces it.
CopyBinary ==
  /\ job.step = "binary" /\ (Windows \/ Running = {})
  /\ \/ binary' = "whole" /\ Goto(IF job.op = "install" THEN "register" ELSE "rewrite")
     \/ ~Windows /\ binary' = "torn" /\ Goto("error")
  /\ UNCHANGED <<os, config, stamp, unit, up, edited>>

\* A unit file, or create_service, which refuses a name that is taken.
Register ==
  /\ job.step = "register" /\ (Windows => unit[New] = "none")
  /\ unit' = [unit EXCEPT ![New] = "present"]
  /\ Goto(IF Windows THEN "harden" ELSE "start")
  /\ UNCHANGED <<os, config, stamp, binary, up, edited>>

\* Mutant of Rollback: the error is returned and nothing undone.
NoRollback == Goto("error") /\ UNCHANGED unit

\* The registration is deleted again, which may fail too.
Rollback ==
  \/ unit' = [unit EXCEPT ![New] = "none"] /\ Goto("error")
  \/ job' = [Result("error") EXCEPT !.failed = {New}] /\ UNCHANGED unit

Harden ==
  /\ job.step = "harden"
  /\ (Goto("lockdown") /\ UNCHANGED unit) \/ Rollback
  /\ UNCHANGED <<os, config, stamp, binary, up, edited>>

\* managed_service_names: one account per listed configuration, and the new one.
Managed == {<<n, config[n]>> : n \in Listed} \cup {New}

\* The access of every managed service is granted by its account, a name that
\* does not resolve unless the service manager knows the service.
Lockdown ==
  /\ job.step = "lockdown"
  /\ (Managed \subseteq Known /\ Goto("start") /\ UNCHANGED unit) \/ Rollback
  /\ UNCHANGED <<os, config, stamp, binary, up, edited>>

StartNew ==
  /\ job.step = "start"
  /\ \/ up' = [up EXCEPT ![New] = TRUE] /\ Goto("ok") /\ UNCHANGED unit
     \/ Windows /\ Rollback /\ UNCHANGED up
  /\ UNCHANGED <<os, config, stamp, binary, edited>>

-----------------------------------------------------------------------------
(* service uninstall, of one name or of all.                               *)

\* The service of a name, or none and only its files are left.
Find(n) ==
  /\ job.step = "find" /\ n \in job.todo
  /\ job' = IF Looked(n) = {} THEN [job EXCEPT !.name = n, !.step = "files"]
            ELSE [job EXCEPT !.name = n, !.role = Chosen(n), !.step = "stop"]
  /\ UNCHANGED <<os, config, stamp, binary, unit, up, edited>>

\* Best effort: the process ends, or not (on Windows, not within STOP_WAIT_TIMEOUT).
StopOld ==
  /\ job.step = "stop"
  /\ up' \in {up, [up EXCEPT ![New] = FALSE]}
  /\ Goto("delete")
  /\ UNCHANGED <<os, config, stamp, binary, unit, edited>>

\* Mutant of DeleteOld: an error of the service manager is ignored.
DeleteUnchecked ==
  /\ job.step = "delete"
  /\ unit' \in {unit, [unit EXCEPT ![New] = "none"]}
  /\ Goto("files")
  /\ UNCHANGED <<os, config, stamp, binary, up, edited>>

\* The unit file or init script goes; the SCM keeps a service that still runs
\* until it ends.
DeleteOld ==
  /\ job.step = "delete"
  /\ unit' = [unit EXCEPT ![New] = IF Windows /\ up[New] THEN "marked" ELSE "none"]
  /\ Goto(IF Windows THEN "files" ELSE "reload")
  /\ UNCHANGED <<os, config, stamp, binary, up, edited>>

\* systemd is told; OpenRC removes the pid and log files, which cannot fail.
DaemonReload ==
  /\ job.step = "reload"
  /\ Goto("files")
  /\ UNCHANGED <<os, config, stamp, binary, unit, up, edited>>

\* Is this the last configuration?  On Linux one that is kept counts.
LastConfig(c, n) == \A m \in Names : c[m] = None \/ (Windows /\ m = n)

\* Mutant of StampLeft: the stamp goes with every service.
StampGoes(c, n) == FALSE

StampLeft(c, n) == stamp /\ ~LastConfig(c, n)

NextName ==
  LET rest == job.todo \ {job.name} IN
  IF rest = {} /\ ~job.all THEN Result("ok")
  ELSE [job EXCEPT !.todo = rest, !.name = None, !.role = None,
                   !.step = IF rest = {} THEN "shared" ELSE "find"]

\* remove_service_files: what cannot be removed stays, with an error on Linux.
RemoveFiles ==
  /\ job.step = "files"
  /\ \E c \in {None, config[job.name]} :
       /\ c = None => job.purge \/ config[job.name] = None
       /\ ~Windows /\ job.purge => c = None
       /\ config' = [config EXCEPT ![job.name] = c]
       /\ \/ stamp' = StampLeft(config', job.name) /\ job' = NextName
          \/ stamp' = stamp /\ job' = IF Windows THEN NextName ELSE Result("error")
  /\ UNCHANGED <<os, binary, unit, up, edited>>

\* The end of `--all`.
RemoveShared ==
  /\ job.step = "shared"
  /\ binary' \in {"none", binary}
  /\ Goto("ok")
  /\ UNCHANGED <<os, config, stamp, unit, up, edited>>

-----------------------------------------------------------------------------
(* service start, stop and restart; upgrade.                               *)

\* One service after the other; the first failure ends the command, for a
\* restart possibly between the stop and the start.  The SCM does not start a
\* service that runs.
Control(n) ==
  /\ job.step = "control" /\ n \in job.todo
  /\ LET s == Target(n) IN
     /\ unit[s] # "none"
     /\ \/ /\ Windows /\ job.op = "start" => ~up[s]
           /\ up' = [up EXCEPT ![s] = job.op # "stop"]
           /\ job' = [job EXCEPT !.todo = @ \ {n}]
        \/ /\ job.op = "restart"
           /\ up' = [up EXCEPT ![s] = FALSE]
           /\ Goto("error")
  /\ UNCHANGED <<os, config, stamp, binary, unit, edited>>

ControlDone ==
  /\ job.step = "control" /\ job.todo = {}
  /\ Goto("ok")
  /\ UNCHANGED <<os, config, stamp, binary, unit, up, edited>>

\* The first part of an upgrade stops what is listed, best effort.
Halt(n) ==
  /\ job.step = "halt" /\ n \in job.todo
  /\ up' \in {up} \cup {[up EXCEPT ![s] = FALSE] : s \in {Target(n)} \cap Known}
  /\ job' = [job EXCEPT !.todo = @ \ {n}]
  /\ UNCHANGED <<os, config, stamp, binary, unit, edited>>

\* On Windows the path of the running executable is resolved here, outside the
\* part of the upgrade that is undone: a failure returns at once.
Halted ==
  /\ job.step = "halt" /\ job.todo = {}
  /\ \/ Goto(IF Windows THEN "grant" ELSE "binary")
     \/ Windows /\ Goto("error")
  /\ UNCHANGED <<os, config, stamp, binary, unit, up, edited>>

\* grant_service_access: one account per listed service, as in Lockdown.
Grant ==
  /\ job.step = "grant" /\ \A n \in Names : job.list[n] # None => Target(n) \in Known
  /\ Goto("binary")
  /\ UNCHANGED <<os, config, stamp, binary, unit, up, edited>>

\* The units are written again, or the binary is locked down; then everything
\* that was listed is started.
Rewrite ==
  /\ job.step = "rewrite"
  /\ job' = [job EXCEPT !.step = "resume", !.todo = {n \in Names : job.list[n] # None}]
  /\ UNCHANGED <<os, config, stamp, binary, unit, up, edited>>

\* A start that fails is only logged.
Resume(n) ==
  /\ job.step = "resume" /\ n \in job.todo
  /\ LET s == Target(n) IN
     \/ /\ unit[s] = "present" /\ (Windows => ~up[s])
        /\ up' = [up EXCEPT ![s] = TRUE]
        /\ job' = [job EXCEPT !.todo = @ \ {n}]
     \/ /\ UNCHANGED up
        /\ job' = [job EXCEPT !.todo = @ \ {n}, !.failed = @ \cup {s}]
  /\ UNCHANGED <<os, config, stamp, binary, unit, edited>>

Resumed ==
  /\ job.step = "resume" /\ job.todo = {}
  /\ Goto(IF job.back THEN "error" ELSE "ok")
  /\ UNCHANGED <<os, config, stamp, binary, unit, up, edited>>

-----------------------------------------------------------------------------
(* Everybody else.                                                         *)

\* A process ends, and with it a registration that was marked for deletion.
ProcessEnds(s) ==
  /\ up[s]
  /\ up' = [up EXCEPT ![s] = FALSE]
  /\ unit' = [unit EXCEPT ![s] = IF @ = "marked" THEN "none" ELSE @]
  /\ job' = [job EXCEPT !.was = IF job.step = "resume" /\ s[1] \notin job.todo THEN @ \ {s} ELSE @]
  /\ UNCHANGED <<os, config, stamp, binary, edited>>

\* The administrator changes the section of a file, or removes it.
HandEdit(n) ==
  /\ config[n] # None /\ Cardinality(edited \cup {n}) <= MaxEdits
  /\ \E c \in (Roles \cup {None}) \ {config[n]} : config' = [config EXCEPT ![n] = c]
  /\ edited' = edited \cup {n}
  /\ UNCHANGED <<os, stamp, binary, unit, up, job>>

Command ==
  \/ \E n \in Names, r \in Roles : BeginInstall(n, r)
  \/ \E n \in Names \cup {None}, purge \in BOOLEAN : BeginUninstall(n, purge)
  \/ \E op \in {"start", "stop", "restart"}, n \in Names \cup {None} : BeginControl(op, n)
  \/ BeginUpgrade

Install   == EnsureConfig \/ WriteStamp \/ CopyBinary \/ Register \/ Harden \/ Lockdown \/ StartNew
Uninstall == (\E n \in Names : Find(n)) \/ StopOld \/ DeleteOld \/ DaemonReload \/ RemoveFiles \/ RemoveShared
Drive     == (\E n \in Names : Control(n) \/ Halt(n) \/ Resume(n))
               \/ ControlDone \/ Halted \/ Grant \/ Rewrite \/ Resumed
Others    == (\E s \in Services : ProcessEnds(s)) \/ (\E n \in Names : HandEdit(n))

Next == Command \/ Fail \/ Kill \/ Install \/ Uninstall \/ Drive \/ Others

Spec == Init /\ [][Next]_vars

-----------------------------------------------------------------------------
(* Properties.                                                             *)

\* What a registered service needs to start is never taken from it: unless its
\* file was edited by hand, the configuration of its role, the version stamp and
\* the shared binary are there, whatever was installed, removed or interrupted
\* before.  On Windows the binary is whole too.  On Linux it need not be:
\* deploy_binary copies over the shared binary in place, and a copy that breaks
\* off leaves every installed service with half of one.
InstalledComplete ==
  \A n \in Names \ edited, r \in Roles : unit[<<n, r>>] = "present" =>
    /\ config[n] = r /\ stamp /\ binary # "none"
    /\ Windows => binary = "whole"

Finishes(op, result) == job.op = op /\ job.step \notin Ended /\ job'.step = result

\* What is reported is true: an installed service is registered and started, and
\* an uninstalled name has no registration (but for one that waits for its
\* process to end), unless its file was edited by hand.
ReportTrue ==
  [][/\ Finishes("install", "ok") => unit'[New] = "present" /\ up'[New]
     /\ Finishes("uninstall", "ok") =>
          \A n \in (IF job.all THEN Names ELSE {job.name}) \ edited, r \in Roles :
            unit'[<<n, r>>] # "present"]_vars

\* On Windows a failed install can be retried: it leaves a registration behind
\* only when the rollback failed.
RetryPossible ==
  [][Windows /\ Finishes("install", "error") /\ job.step \in {"harden", "lockdown", "start"} =>
       unit'[New] = "none" \/ New \in job'.failed]_vars

\* "A failed upgrade never leaves every service down" on Windows, nor a
\* successful one anywhere: what ran before the upgrade runs after it, unless it
\* was edited by hand, could not be started or ended by itself.  The sentence
\* holds once the update has begun; an upgrade that fails between the stop and
\* that, because it cannot name its own executable, restarts nothing.
UpgradeResumes ==
  [][Finishes("upgrade", "ok") \/ (Windows /\ Finishes("upgrade", "error") /\ job.step # "halt") =>
       \A s \in job.was : s[1] \notin edited /\ unit[s] = "present" =>
         up[s] \/ s \in job.failed]_vars

-----------------------------------------------------------------------------
(* What the repository says and the code does not do.                      *)

\* The accounts of "all installed services plus the one being installed" get
\* access: every one of them is known to the service manager.
LockdownResolves == job.step = "lockdown" => Managed \subseteq Known
=============================================================================
