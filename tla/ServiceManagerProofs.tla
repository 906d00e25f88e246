------------------------ MODULE ServiceManagerProofs ------------------------
(***************************************************************************)
(* Proofs about ServiceManager, for any set of names and any number of     *)
(* edits by hand.                                                          *)
(***************************************************************************)
EXTENDS ServiceManager, TLAPS

Steps == Ended \cup {"config", "stamp", "binary", "register", "harden", "lockdown", "start", "find",
                     "stop", "delete", "reload", "files", "shared", "control", "halt", "grant",
                     "rewrite", "resume"}

\* Which command a step belongs to.
StepsOfCommands ==
  /\ job.step \in {"config", "stamp", "register", "harden", "lockdown", "start"} => job.op = "install"
  /\ job.step = "binary" => job.op \in {"install", "upgrade"}
  /\ job.step \in {"find", "stop", "delete", "reload", "files", "shared"} => job.op = "uninstall"
  /\ job.step = "control" => job.op \in {"start", "stop", "restart"}
  /\ job.step \in {"halt", "grant", "rewrite", "resume"} => job.op = "upgrade"
  /\ job.op = "install" => job.name \in Names /\ job.role \in Roles
  /\ job.step \in {"stop", "delete", "reload"} => job.name \in Names /\ job.role \in Roles
  /\ job.step = "files" => job.name \in Names

\* Only the SCM marks a service for deletion, and only a copy in place is torn.
PlatformInv ==
  IF Windows THEN binary # "torn" ELSE \A s \in Services : unit[s] # "marked"

\* What an install has put in place when it comes to a step.
InstallInv ==
  job.op = "install" =>
    /\ job.step \in {"stamp", "binary", "register", "harden", "lockdown", "start"} =>
         config[job.name] = job.role \/ job.name \in edited
    /\ job.step \in {"binary", "register", "harden", "lockdown", "start"} => stamp
    /\ job.step \in {"register", "harden", "lockdown", "start"} => binary # "none"
    /\ job.step \in {"harden", "lockdown", "start"} => unit[New] = "present"

Gone(n) == \A r \in Roles : unit[<<n, r>>] # "present"

\* What an uninstall has removed.
UninstallInv ==
  job.op = "uninstall" =>
    /\ job.step \in {"stop", "delete"} /\ job.name \notin edited =>
         \A r \in Roles : unit[<<job.name, r>>] = "present" => r = job.role
    /\ job.step \in {"reload", "files"} /\ job.name \notin edited => Gone(job.name)
    /\ job.all => \A n \in Names \ (job.todo \cup edited) : Gone(n)
    /\ job.step = "shared" => job.todo = {} /\ job.all

\* What an upgrade has started again.
UpgradeInv ==
  job.op = "upgrade" =>
    /\ \A n \in Names \ edited : job.list[n] = config[n]
    /\ job.step = "resume" =>
         \A n \in Names \ (job.todo \cup edited), r \in Roles :
           <<n, r>> \in job.was /\ unit[<<n, r>>] = "present" => up[<<n, r>>] \/ <<n, r>> \in job.failed

Inv ==
  /\ TypeOK /\ StepsOfCommands /\ PlatformInv /\ InstallInv /\ UninstallInv /\ UpgradeInv
  /\ InstalledComplete

-----------------------------------------------------------------------------
(* The record of the command.                                              *)

\* A command that has ended is typed and belongs to none.
LEMMA ResultIs ==
  ASSUME NEW r \in Ended
  PROVE  Result(r) \in Jobs /\ Result(r).op = "none" /\ Result(r).step = r
  BY DEF Result, Idle, Jobs, Ended

\* Moving to another step.
LEMMA GotoIs ==
  ASSUME job \in Jobs, NEW s \in Steps, Goto(s)
  PROVE  /\ job' \in Jobs /\ job'.step = s
         /\ s \in Ended => job'.op = "none"
         /\ s \notin Ended => /\ job'.op = job.op /\ job'.name = job.name /\ job'.role = job.role
                              /\ job'.all = job.all /\ job'.todo = job.todo /\ job'.list = job.list
                              /\ job'.was = job.was /\ job'.failed = job.failed
                              /\ job'.purge = job.purge /\ job'.back = job.back
<1>1. CASE s \in Ended
  BY <1>1, ResultIs DEF Goto
<1>2. CASE s \notin Ended
  BY <1>2 DEF Goto, Jobs, Steps
<1> QED  BY <1>1, <1>2

\* It holds at the start.
LEMMA InvInit == Init => Inv
<1> SUFFICES ASSUME Init PROVE Inv
  OBVIOUS
<1>1. job \in Jobs /\ job.op = "none" /\ job.step = "ok"
  BY DEF Init, Idle, Jobs, Ended
<1>2. TypeOK
  BY <1>1 DEF Init, TypeOK
<1>3. StepsOfCommands /\ InstallInv /\ UninstallInv /\ UpgradeInv
  BY <1>1 DEF StepsOfCommands, InstallInv, UninstallInv, UpgradeInv
<1>4. PlatformInv /\ InstalledComplete
  BY DEF Init, PlatformInv, InstalledComplete, Services
<1> QED  BY <1>2, <1>3, <1>4 DEF Inv

\* A command that ends leaves only the services to be looked at.
LEMMA Ending ==
  ASSUME Inv, job' \in Jobs, job'.op = "none", job'.step \in Ended, TypeOK', PlatformInv',
         InstalledComplete'
  PROVE  Inv'
<1>1. StepsOfCommands' /\ InstallInv' /\ UninstallInv' /\ UpgradeInv'
  BY DEF StepsOfCommands, InstallInv, UninstallInv, UpgradeInv, Ended
<1> QED  BY <1>1 DEF Inv

\* Steps that leave the files and registrations alone.
LEMMA ServicesKept ==
  ASSUME Inv, UNCHANGED <<os, config, stamp, binary, unit, edited>>
  PROVE  PlatformInv' /\ InstalledComplete'
  BY DEF Inv, PlatformInv, InstalledComplete, Windows

-----------------------------------------------------------------------------
(* The steps, one lemma per action.                                        *)

LEMMA BeginInv ==
  ASSUME Inv, NEW op \in {"install", "uninstall", "start", "stop", "restart", "upgrade"},
         NEW name \in Names \cup {None}, NEW role \in Roles \cup {None}, NEW purge \in BOOLEAN,
         NEW step \in {"ok", "error", "config", "find", "shared", "control", "halt"},
         Begin(op, name, role, purge, step),
         step = "config" => op = "install" /\ name \in Names /\ role \in Roles,
         step \in {"find", "shared"} => op = "uninstall",
         step = "shared" => name = None /\ Listed = {},
         step = "control" => op \in {"start", "stop", "restart"},
         step = "halt" => op = "upgrade", op = "install" => step = "config",
         op = "upgrade" => step \in {"halt", "ok"}
  PROVE  Inv'
<1>1. UNCHANGED <<os, config, stamp, binary, unit, up, edited>>
  BY DEF Begin
<1>2. PlatformInv' /\ InstalledComplete'
  BY <1>1, ServicesKept
<1>3. CASE step \in Ended
  <2>1. job' \in Jobs /\ job'.op = "none" /\ job'.step \in Ended
    BY <1>3, ResultIs DEF Begin
  <2>2. TypeOK'
    BY <1>1, <2>1 DEF Inv, TypeOK
  <2> QED  BY <1>2, <2>1, <2>2, Ending
<1>4. CASE step \notin Ended
  <2> DEFINE td == IF name = None THEN Listed ELSE {name}
             ls == IF step \in {"control", "halt"} THEN config ELSE Idle.list
             ws == IF step = "halt" THEN Running ELSE {}
             al == name = None
  <2>1. job' = [op |-> op, name |-> name, role |-> role, purge |-> purge, all |-> al, todo |-> td,
                list |-> ls, was |-> ws, failed |-> {}, back |-> FALSE, step |-> step]
    BY <1>4 DEF Begin
  <2>2. td \in SUBSET Names /\ ls \in [Names -> Roles \cup {None}] /\ ws \in SUBSET Services /\ al \in BOOLEAN
    BY DEF Inv, TypeOK, Listed, Running, Idle
  <2>3. step \in {"config", "find", "shared", "control", "halt"}
    BY <1>4 DEF Ended
  <2>4. \A n \in Names \ (Listed \cup edited) : Gone(n)
    BY ManagerAssumption DEF Inv, TypeOK, InstalledComplete, Gone, Listed, Roles
  <2>5. /\ step = "shared" => td = {} /\ al
        /\ al => td = Listed
        /\ step = "halt" => ls = config
    OBVIOUS
  <2> HIDE DEF td, ls, ws, al
  <2>6. job' \in Jobs
    BY <2>1, <2>2, <2>3 DEF Jobs
  <2>7. TypeOK'
    BY <1>1, <2>6 DEF Inv, TypeOK
  <2>8. StepsOfCommands' /\ InstallInv'
    BY <2>1, <2>3 DEF StepsOfCommands, InstallInv
  <2>9. UninstallInv'
    BY <1>1, <2>1, <2>3, <2>4, <2>5 DEF UninstallInv, Gone
  <2>10. UpgradeInv'
    BY <1>1, <2>1, <2>3, <2>5 DEF UpgradeInv, Ended
  <2> QED  BY <1>2, <2>7, <2>8, <2>9, <2>10 DEF Inv
<1> QED  BY <1>3, <1>4

LEMMA CommandInv == ASSUME Inv, Command PROVE Inv'
<1>1. ASSUME NEW n \in Names, NEW r \in Roles, BeginInstall(n, r) PROVE Inv'
  BY <1>1, BeginInv DEF BeginInstall
<1>2. ASSUME NEW n \in Names \cup {None}, NEW purge \in BOOLEAN, BeginUninstall(n, purge) PROVE Inv'
  BY <1>2, BeginInv DEF BeginUninstall
<1>3. ASSUME NEW op \in {"start", "stop", "restart"}, NEW n \in Names \cup {None}, BeginControl(op, n)
      PROVE  Inv'
  BY <1>3, BeginInv DEF BeginControl
<1>4. CASE BeginUpgrade
  BY <1>4, BeginInv DEF BeginUpgrade
<1> QED  BY <1>1, <1>2, <1>3, <1>4 DEF Command

LEMMA KillInv == ASSUME Inv, Kill PROVE Inv'
<1>1. job' \in Jobs /\ job'.op = "none" /\ job'.step = "killed"
  BY GotoIs DEF Inv, TypeOK, Kill, Ended, Steps
<1>2. TypeOK'
  BY <1>1 DEF Inv, TypeOK, Kill
<1> QED  BY <1>1, <1>2, ServicesKept, Ending DEF Kill, Ended

\* What a step that only moves on within its command keeps.
LEMMA MoveKeeps ==
  ASSUME Inv, NEW s \in Steps \ Ended, Goto(s)
  PROVE  /\ job' \in Jobs /\ job'.step = s /\ New' = New
         /\ job'.op = job.op /\ job'.name = job.name /\ job'.role = job.role /\ job'.all = job.all
         /\ job'.todo = job.todo /\ job'.list = job.list /\ job'.was = job.was /\ job'.failed = job.failed
  BY GotoIs DEF Inv, TypeOK, New

LEMMA FailInv == ASSUME Inv, Fail PROVE Inv'
<1>1. UNCHANGED <<os, config, stamp, binary, unit, up, edited>>
  BY DEF Fail
<1>2. PlatformInv' /\ InstalledComplete'
  BY <1>1, ServicesKept
<1>3. CASE ~(Windows /\ job.op = "upgrade")
  <2>1. job' \in Jobs /\ job'.op = "none" /\ job'.step \in Ended
    BY <1>3, GotoIs DEF Inv, TypeOK, Fail, Ended, Steps
  <2>2. TypeOK'
    BY <1>1, <2>1 DEF Inv, TypeOK
  <2> QED  BY <1>2, <2>1, <2>2, Ending
<1>4. CASE Windows /\ job.op = "upgrade"
  <2> DEFINE td == {n \in Names : job.list[n] # None}
  <2>1. job' = [job EXCEPT !.step = "resume", !.back = TRUE, !.todo = td]
    BY <1>4 DEF Fail
  <2>2. td \in SUBSET Names
    OBVIOUS
  <2>3. \A n \in Names \ (td \cup edited) : Gone(n)
    BY <1>4, ManagerAssumption DEF Inv, InstalledComplete, UpgradeInv, Gone, Roles
  <2> HIDE DEF td
  <2>4. job' \in Jobs /\ job'.op = "upgrade" /\ job'.step = "resume" /\ job'.todo = td /\ job'.list = job.list
    BY <1>4, <2>1, <2>2 DEF Inv, TypeOK, Jobs
  <2>5. TypeOK'
    BY <1>1, <2>4 DEF Inv, TypeOK
  <2>6. StepsOfCommands' /\ InstallInv' /\ UninstallInv'
    BY <2>4 DEF StepsOfCommands, InstallInv, UninstallInv
  <2>7. UpgradeInv'
    BY <1>1, <1>4, <2>3, <2>4 DEF Inv, UpgradeInv, Gone
  <2> QED  BY <1>2, <2>5, <2>6, <2>7 DEF Inv
<1> QED  BY <1>3, <1>4

LEMMA EnsureConfigInv == ASSUME Inv, EnsureConfig PROVE Inv'
<1>1. job.op = "install" /\ job.name \in Names /\ job.role \in Roles
  BY DEF Inv, EnsureConfig, StepsOfCommands
<1>2. /\ job' \in Jobs /\ job'.step = "stamp" /\ job'.op = job.op /\ job'.name = job.name
      /\ job'.role = job.role
  BY MoveKeeps DEF EnsureConfig, Steps, Ended
<1>3. /\ config' \in [Names -> Roles \cup {None}] /\ config'[job.name] = job.role
      /\ \A n \in Names : config[n] # None => config'[n] = config[n]
  BY <1>1 DEF Inv, TypeOK, EnsureConfig
<1>4. UNCHANGED <<os, stamp, binary, unit, up, edited>>
  BY DEF EnsureConfig
<1>5. TypeOK'
  BY <1>2, <1>3, <1>4 DEF Inv, TypeOK
<1>6. InstalledComplete'
  BY <1>3, <1>4, ManagerAssumption DEF Inv, InstalledComplete, Roles, Windows
<1>7. PlatformInv' /\ StepsOfCommands' /\ UninstallInv' /\ UpgradeInv'
  BY <1>1, <1>2, <1>4 DEF Inv, PlatformInv, Windows, StepsOfCommands, UninstallInv, UpgradeInv
<1>8. InstallInv'
  BY <1>2, <1>3 DEF InstallInv
<1> QED  BY <1>5, <1>6, <1>7, <1>8 DEF Inv

LEMMA WriteStampInv == ASSUME Inv, WriteStamp PROVE Inv'
<1>1. job.op = "install" /\ job.name \in Names /\ job.role \in Roles
  BY DEF Inv, WriteStamp, StepsOfCommands
<1>2. /\ job' \in Jobs /\ job'.step = "binary" /\ job'.op = job.op /\ job'.name = job.name
      /\ job'.role = job.role
  BY MoveKeeps DEF WriteStamp, Steps, Ended
<1>3. stamp' = TRUE /\ UNCHANGED <<os, config, binary, unit, up, edited>>
  BY DEF WriteStamp
<1>4. TypeOK'
  BY <1>2, <1>3 DEF Inv, TypeOK
<1>5. PlatformInv' /\ InstalledComplete' /\ StepsOfCommands' /\ UninstallInv' /\ UpgradeInv'
  BY <1>1, <1>2, <1>3 DEF Inv, PlatformInv, Windows, InstalledComplete, StepsOfCommands, UninstallInv,
                          UpgradeInv
<1>6. InstallInv'
  BY <1>1, <1>2, <1>3 DEF Inv, InstallInv, WriteStamp
<1> QED  BY <1>4, <1>5, <1>6 DEF Inv

LEMMA CopyBinaryInv == ASSUME Inv, CopyBinary PROVE Inv'
<1>1. UNCHANGED <<os, config, stamp, unit, up, edited>> /\ binary' \in {"whole", "torn"}
  BY DEF CopyBinary
<1>2. PlatformInv' /\ InstalledComplete'
  BY <1>1 DEF Inv, PlatformInv, Windows, InstalledComplete, CopyBinary
<1>3. CASE Goto("error")
  <2>1. job' \in Jobs /\ job'.op = "none" /\ job'.step \in Ended
    BY <1>3, GotoIs DEF Inv, TypeOK, Ended, Steps
  <2>2. TypeOK'
    BY <1>1, <2>1 DEF Inv, TypeOK
  <2> QED  BY <1>2, <2>1, <2>2, Ending
<1>4. CASE job.op = "install" /\ Goto("register")
  <2>1. /\ job' \in Jobs /\ job'.step = "register" /\ job'.op = job.op /\ job'.name = job.name
        /\ job'.role = job.role
    BY <1>4, MoveKeeps DEF Steps, Ended
  <2>2. TypeOK'
    BY <1>1, <2>1 DEF Inv, TypeOK
  <2>3. StepsOfCommands' /\ UninstallInv' /\ UpgradeInv'
    BY <1>4, <2>1 DEF Inv, StepsOfCommands, UninstallInv, UpgradeInv
  <2>4. InstallInv'
    BY <1>1, <1>4, <2>1 DEF Inv, InstallInv, CopyBinary
  <2> QED  BY <1>2, <2>2, <2>3, <2>4 DEF Inv
<1>5. CASE job.op # "install" /\ Goto("rewrite")
  <2>1. job' \in Jobs /\ job'.step = "rewrite" /\ job'.op = job.op /\ job'.list = job.list
    BY <1>5, MoveKeeps DEF Steps, Ended
  <2>2. job.op = "upgrade"
    BY <1>5 DEF Inv, StepsOfCommands, CopyBinary
  <2>3. TypeOK'
    BY <1>1, <2>1 DEF Inv, TypeOK
  <2>4. StepsOfCommands' /\ InstallInv' /\ UninstallInv' /\ UpgradeInv'
    BY <1>1, <2>1, <2>2 DEF Inv, StepsOfCommands, InstallInv, UninstallInv, UpgradeInv
  <2> QED  BY <1>2, <2>3, <2>4 DEF Inv
<1> QED  BY <1>3, <1>4, <1>5 DEF CopyBinary

LEMMA RegisterInv == ASSUME Inv, Register PROVE Inv'
<1>1. job.op = "install" /\ job.name \in Names /\ job.role \in Roles
  BY DEF Inv, Register, StepsOfCommands
<1>2. PICK s \in {"harden", "start"} : Goto(s)
  BY DEF Register
<1>3. /\ job' \in Jobs /\ job'.step = s /\ job'.op = job.op /\ job'.name = job.name
      /\ job'.role = job.role /\ New' = New
  BY <1>2, MoveKeeps DEF Steps, Ended
<1>4. UNCHANGED <<os, config, stamp, binary, up, edited>>
  BY DEF Register
<1>5. /\ unit' \in [Services -> {"none", "present", "marked"}] /\ unit'[New] = "present"
      /\ \A x \in Services : x # New => unit'[x] = unit[x]
  BY <1>1 DEF Inv, TypeOK, Register, New, Services
<1>6. TypeOK'
  BY <1>3, <1>4, <1>5 DEF Inv, TypeOK
<1>7. PlatformInv' /\ StepsOfCommands' /\ UninstallInv' /\ UpgradeInv'
  BY <1>1, <1>3, <1>4, <1>5 DEF Inv, PlatformInv, Windows, StepsOfCommands, UninstallInv, UpgradeInv
<1>8. /\ config[job.name] = job.role \/ job.name \in edited
      /\ stamp /\ binary # "none" /\ (Windows => binary = "whole")
  BY <1>1 DEF Inv, TypeOK, InstallInv, PlatformInv, Register
<1>9. InstallInv'
  BY <1>3, <1>4, <1>5, <1>8 DEF InstallInv
<1>10. InstalledComplete'
  <2> SUFFICES ASSUME NEW n \in Names \ edited, NEW r \in Roles, unit'[<<n, r>>] = "present"
               PROVE  /\ config[n] = r /\ stamp /\ binary # "none"
                      /\ Windows => binary = "whole"
    BY <1>4 DEF InstalledComplete, Windows
  <2>1. CASE <<n, r>> = New
    BY <1>8, <2>1 DEF New
  <2>2. CASE <<n, r>> # New
    BY <1>5, <2>2 DEF Inv, InstalledComplete, Services
  <2> QED  BY <2>1, <2>2
<1> QED  BY <1>6, <1>7, <1>9, <1>10 DEF Inv

\* Fewer registrations are as complete as before.
LEMMA FewerUnits ==
  ASSUME Inv, UNCHANGED <<os, config, stamp, binary, edited>>,
         unit' \in [Services -> {"none", "present", "marked"}],
         \A x \in Services : unit'[x] # unit[x] => unit'[x] = "none" \/ (Windows /\ unit'[x] = "marked")
  PROVE  PlatformInv' /\ InstalledComplete'
<1>1. PlatformInv'
  BY DEF Inv, PlatformInv, Windows
<1>2. InstalledComplete'
  BY DEF Inv, InstalledComplete, Services, Windows
<1> QED  BY <1>1, <1>2

LEMMA RollbackInv ==
  ASSUME Inv, job.op = "install", Rollback, UNCHANGED <<os, config, stamp, binary, up, edited>>
  PROVE  Inv'
<1>1. New \in Services
  BY DEF Inv, StepsOfCommands, New, Services
<1>2. /\ unit' \in [Services -> {"none", "present", "marked"}]
      /\ \A x \in Services : unit'[x] # unit[x] => unit'[x] = "none"
  BY <1>1 DEF Inv, TypeOK, Rollback
<1>3. job' \in Jobs /\ job'.op = "none" /\ job'.step \in Ended
  <2>1. Result("error") \in Jobs /\ Result("error").op = "none" /\ Result("error").step = "error"
    BY ResultIs DEF Ended
  <2>2. CASE Goto("error")
    BY <2>1, <2>2 DEF Goto, Ended
  <2>3. CASE job' = [Result("error") EXCEPT !.failed = {New}]
    BY <1>1, <2>1, <2>3 DEF Jobs, Ended
  <2> QED  BY <2>2, <2>3 DEF Rollback
<1>4. TypeOK'
  BY <1>2, <1>3 DEF Inv, TypeOK
<1> QED  BY <1>2, <1>3, <1>4, FewerUnits, Ending

\* Steps of an install that go on with the same registrations.
LEMMA InstallMoves ==
  ASSUME Inv, job.op = "install", job.step \in {"harden", "lockdown"}, NEW s \in {"lockdown", "start"},
         Goto(s), UNCHANGED <<os, config, stamp, binary, unit, up, edited>>
  PROVE  Inv'
<1>1. /\ job' \in Jobs /\ job'.step = s /\ job'.op = job.op /\ job'.name = job.name
      /\ job'.role = job.role /\ New' = New
  BY MoveKeeps DEF Steps, Ended
<1>2. TypeOK'
  BY <1>1 DEF Inv, TypeOK
<1>3. StepsOfCommands' /\ UninstallInv' /\ UpgradeInv' /\ InstallInv'
  BY <1>1 DEF Inv, StepsOfCommands, UninstallInv, UpgradeInv, InstallInv
<1> QED  BY <1>2, <1>3, ServicesKept DEF Inv

LEMMA HardenInv == ASSUME Inv, Harden PROVE Inv'
<1>1. job.op = "install"
  BY DEF Inv, Harden, StepsOfCommands
<1> QED  BY <1>1, RollbackInv, InstallMoves DEF Harden

LEMMA LockdownInv == ASSUME Inv, Lockdown PROVE Inv'
<1>1. job.op = "install"
  BY DEF Inv, Lockdown, StepsOfCommands
<1> QED  BY <1>1, RollbackInv, InstallMoves DEF Lockdown

LEMMA StartNewInv == ASSUME Inv, StartNew PROVE Inv'
<1>1. job.op = "install" /\ New \in Services
  BY DEF Inv, StartNew, StepsOfCommands, New, Services
<1>2. CASE Rollback /\ UNCHANGED up
  BY <1>1, <1>2, RollbackInv DEF StartNew
<1>3. CASE up' = [up EXCEPT ![New] = TRUE] /\ Goto("ok") /\ UNCHANGED unit
  <2>1. job' \in Jobs /\ job'.op = "none" /\ job'.step \in Ended
    BY <1>3, GotoIs DEF Inv, TypeOK, Ended, Steps
  <2>2. TypeOK'
    BY <1>3, <2>1 DEF Inv, TypeOK, StartNew
  <2> QED  BY <1>3, <2>1, <2>2, ServicesKept, Ending DEF StartNew
<1> QED  BY <1>2, <1>3 DEF StartNew

\* The registered service of a name whose file was not edited is of the role
\* its file says, and the one an uninstall chooses.
LEMMA LookedIs ==
  ASSUME Inv, NEW n \in Names, n \notin edited, NEW r \in Roles, unit[<<n, r>>] = "present"
  PROVE  r \in Looked(n) /\ Chosen(n) = r
<1>1. config[n] = r /\ \A x \in Roles : unit[<<n, x>>] = "present" => x = r
  BY DEF Inv, InstalledComplete
<1>2. r \in Found(n)
  BY DEF Found
<1>3. CASE Windows
  BY <1>1, <1>2, <1>3 DEF Looked, Chosen
<1>4. CASE ~Windows
  <2>1. \A x \in Roles : unit[<<n, x>>] \in {"none", "present"}
    BY <1>4 DEF Inv, TypeOK, PlatformInv, Services
  <2>2. Found(n) = {r}
    BY <1>1, <1>2, <2>1 DEF Found
  <2> QED  BY <1>4, <2>2 DEF Looked, Chosen, ClientFirst, Roles
<1> QED  BY <1>3, <1>4

LEMMA FindInv == ASSUME Inv, NEW n \in Names, Find(n) PROVE Inv'
<1>1. job.op = "uninstall" /\ job \in Jobs
  BY DEF Inv, TypeOK, Find, StepsOfCommands
<1>2. UNCHANGED <<os, config, stamp, binary, unit, up, edited>>
  BY DEF Find
<1>3. CASE Looked(n) = {}
  <2>1. job' = [job EXCEPT !.name = n, !.step = "files"]
    BY <1>3 DEF Find
  <2>2. job' \in Jobs /\ job'.op = "uninstall" /\ job'.step = "files" /\ job'.name = n
        /\ job'.all = job.all /\ job'.todo = job.todo
    BY <1>1, <2>1 DEF Jobs
  <2>3. n \notin edited => Gone(n)
    BY <1>3, LookedIs DEF Gone
  <2>4. TypeOK'
    BY <1>2, <2>2 DEF Inv, TypeOK
  <2>5. StepsOfCommands' /\ InstallInv' /\ UpgradeInv'
    BY <2>2 DEF StepsOfCommands, InstallInv, UpgradeInv
  <2>6. UninstallInv'
    BY <1>1, <1>2, <2>2, <2>3 DEF Inv, UninstallInv, Gone
  <2> QED  BY <1>2, <2>4, <2>5, <2>6, ServicesKept DEF Inv
<1>4. CASE Looked(n) # {}
  <2>1. job' = [job EXCEPT !.name = n, !.role = Chosen(n), !.step = "stop"]
    BY <1>4 DEF Find
  <2>2. Chosen(n) \in Roles
    BY DEF Chosen, ClientFirst, Looked, Found, Roles
  <2>3. job' \in Jobs /\ job'.op = "uninstall" /\ job'.step = "stop" /\ job'.name = n
        /\ job'.role = Chosen(n) /\ job'.all = job.all /\ job'.todo = job.todo
    BY <1>1, <2>1, <2>2 DEF Jobs
  <2>4. n \notin edited => \A r \in Roles : unit[<<n, r>>] = "present" => r = Chosen(n)
    BY LookedIs
  <2>5. TypeOK'
    BY <1>2, <2>3 DEF Inv, TypeOK
  <2>6. StepsOfCommands' /\ InstallInv' /\ UpgradeInv'
    BY <2>2, <2>3 DEF StepsOfCommands, InstallInv, UpgradeInv
  <2>7. UninstallInv'
    BY <1>1, <1>2, <2>3, <2>4 DEF Inv, UninstallInv, Gone
  <2> QED  BY <1>2, <2>5, <2>6, <2>7, ServicesKept DEF Inv
<1> QED  BY <1>3, <1>4

LEMMA StopOldInv == ASSUME Inv, StopOld PROVE Inv'
<1>1. job.op = "uninstall" /\ New \in Services
  BY DEF Inv, StopOld, StepsOfCommands, New, Services
<1>2. /\ job' \in Jobs /\ job'.step = "delete" /\ job'.op = job.op /\ job'.name = job.name
      /\ job'.role = job.role /\ job'.all = job.all /\ job'.todo = job.todo
  BY MoveKeeps DEF StopOld, Steps, Ended
<1>3. UNCHANGED <<os, config, stamp, binary, unit, edited>> /\ up' \in [Services -> BOOLEAN]
  BY <1>1 DEF Inv, TypeOK, StopOld
<1>4. TypeOK'
  BY <1>2, <1>3 DEF Inv, TypeOK
<1>5. StepsOfCommands' /\ InstallInv' /\ UpgradeInv'
  BY <1>1, <1>2 DEF Inv, StepsOfCommands, InstallInv, UpgradeInv, StopOld
<1>6. UninstallInv'
  BY <1>1, <1>2, <1>3 DEF Inv, UninstallInv, StopOld, Gone
<1> QED  BY <1>3, <1>4, <1>5, <1>6, ServicesKept DEF Inv

LEMMA DeleteOldInv == ASSUME Inv, DeleteOld PROVE Inv'
<1>1. job.op = "uninstall" /\ New \in Services /\ job.name \in Names /\ job.role \in Roles
  BY DEF Inv, DeleteOld, StepsOfCommands, New, Services
<1>2. PICK s \in {"files", "reload"} : Goto(s)
  BY DEF DeleteOld
<1>3. /\ job' \in Jobs /\ job'.step = s /\ job'.op = job.op /\ job'.name = job.name
      /\ job'.role = job.role /\ job'.all = job.all /\ job'.todo = job.todo
  BY <1>2, MoveKeeps DEF Steps, Ended
<1>4. UNCHANGED <<os, config, stamp, binary, up, edited>>
  BY DEF DeleteOld
<1>5. /\ unit' \in [Services -> {"none", "present", "marked"}]
      /\ unit'[New] = "none" \/ (Windows /\ unit'[New] = "marked")
      /\ \A x \in Services : x # New => unit'[x] = unit[x]
  BY <1>1 DEF Inv, TypeOK, DeleteOld
<1>6. TypeOK'
  BY <1>3, <1>4, <1>5 DEF Inv, TypeOK
<1>7. StepsOfCommands' /\ InstallInv' /\ UpgradeInv'
  BY <1>1, <1>3 DEF StepsOfCommands, InstallInv, UpgradeInv
<1>8. PlatformInv' /\ InstalledComplete'
  BY <1>4, <1>5, FewerUnits
<1>9. job.name \notin edited => Gone(job.name)'
  <2> SUFFICES ASSUME job.name \notin edited, NEW r \in Roles PROVE unit'[<<job.name, r>>] # "present"
    BY <1>3 DEF Gone
  <2>1. CASE r = job.role
    BY <1>5, <2>1 DEF New
  <2>2. CASE r # job.role
    <3>1. <<job.name, r>> # New /\ <<job.name, r>> \in Services
      BY <1>1, <2>2 DEF New, Services
    <3>2. unit[<<job.name, r>>] # "present"
      BY <1>1, <2>2 DEF Inv, UninstallInv, DeleteOld
    <3> QED  BY <1>5, <3>1, <3>2
  <2> QED  BY <2>1, <2>2
<1>10. ASSUME NEW n \in Names, Gone(n) PROVE Gone(n)'
  BY <1>5, <1>10 DEF Gone, Services
<1>11. UninstallInv'
  BY <1>1, <1>3, <1>4, <1>9, <1>10 DEF Inv, UninstallInv, Gone
<1> QED  BY <1>6, <1>7, <1>8, <1>11 DEF Inv

LEMMA DaemonReloadInv == ASSUME Inv, DaemonReload PROVE Inv'
<1>1. job.op = "uninstall" /\ job.name \in Names
  BY DEF Inv, DaemonReload, StepsOfCommands
<1>2. /\ job' \in Jobs /\ job'.step = "files" /\ job'.op = job.op /\ job'.name = job.name
      /\ job'.all = job.all /\ job'.todo = job.todo
  BY MoveKeeps DEF DaemonReload, Steps, Ended
<1>3. UNCHANGED <<os, config, stamp, binary, unit, up, edited>>
  BY DEF DaemonReload
<1>4. TypeOK'
  BY <1>2, <1>3 DEF Inv, TypeOK
<1>5. StepsOfCommands' /\ InstallInv' /\ UpgradeInv'
  BY <1>1, <1>2 DEF StepsOfCommands, InstallInv, UpgradeInv
<1>6. UninstallInv'
  BY <1>1, <1>2, <1>3 DEF Inv, UninstallInv, DaemonReload, Gone
<1> QED  BY <1>3, <1>4, <1>5, <1>6, ServicesKept DEF Inv

\* The files of a name go when none of its registrations is left.
LEMMA FilesComplete ==
  ASSUME Inv, RemoveFiles
  PROVE  /\ config' \in [Names -> Roles \cup {None}] /\ stamp' \in BOOLEAN
         /\ PlatformInv' /\ InstalledComplete'
         /\ job.name \in Names /\ (job.name \notin edited => Gone(job.name))
<1>1. job.op = "uninstall" /\ job.name \in Names
  BY DEF Inv, RemoveFiles, StepsOfCommands
<1>2. job.name \notin edited => Gone(job.name)
  BY <1>1 DEF Inv, UninstallInv, RemoveFiles
<1>3. PICK c \in {None, config[job.name]} :
        /\ config' = [config EXCEPT ![job.name] = c]
        /\ stamp' \in {stamp, StampLeft(config', job.name)}
  BY DEF RemoveFiles
<1>4. /\ config' \in [Names -> Roles \cup {None}]
      /\ \A n \in Names : n # job.name => config'[n] = config[n]
  BY <1>1, <1>3 DEF Inv, TypeOK
<1>5. stamp' \in BOOLEAN
  BY <1>3 DEF Inv, TypeOK, StampLeft
<1>6. UNCHANGED <<os, binary, unit, up, edited>>
  BY DEF RemoveFiles
<1>7. InstalledComplete'
  <2> SUFFICES ASSUME NEW n \in Names \ edited, NEW r \in Roles, unit[<<n, r>>] = "present"
               PROVE  /\ config'[n] = r /\ stamp' /\ binary # "none"
                      /\ Windows => binary = "whole"
    BY <1>6 DEF InstalledComplete, Windows
  <2>1. n # job.name
    BY <1>2 DEF Gone
  <2>2. config[n] = r /\ stamp /\ binary # "none" /\ (Windows => binary = "whole")
    BY DEF Inv, InstalledComplete
  <2>3. config'[n] = r /\ r # None
    BY <1>4, <2>1, <2>2, ManagerAssumption DEF Roles
  <2>4. StampLeft(config', job.name)
    BY <2>1, <2>2, <2>3 DEF StampLeft, LastConfig
  <2> QED  BY <1>3, <2>2, <2>3, <2>4
<1>8. PlatformInv'
  BY <1>6 DEF Inv, PlatformInv, Windows
<1> QED  BY <1>1, <1>2, <1>4, <1>5, <1>7, <1>8

LEMMA RemoveFilesInv == ASSUME Inv, RemoveFiles PROVE Inv'
<1>1. job.op = "uninstall" /\ job \in Jobs
  BY DEF Inv, TypeOK, RemoveFiles, StepsOfCommands
<1>2. UNCHANGED <<os, binary, unit, up, edited>>
  BY DEF RemoveFiles
<1>3. job' = NextName \/ job' = Result("error")
  BY DEF RemoveFiles
<1> DEFINE rest == job.todo \ {job.name}
<1>4. CASE job' \in {Result("ok"), Result("error")}
  <2>1. job' \in Jobs /\ job'.op = "none" /\ job'.step \in Ended
    BY <1>4, ResultIs DEF Ended
  <2>2. TypeOK'
    BY <1>2, <2>1, FilesComplete DEF Inv, TypeOK
  <2> QED  BY <2>1, <2>2, FilesComplete, Ending
<1>5. CASE job' \notin {Result("ok"), Result("error")}
  <2> DEFINE st == IF rest = {} THEN "shared" ELSE "find"
  <2>1. /\ job' = [job EXCEPT !.todo = rest, !.name = None, !.role = None, !.step = st]
        /\ ~(rest = {} /\ ~job.all)
    BY <1>3, <1>5 DEF NextName
  <2>2. rest \in SUBSET Names /\ st \in {"shared", "find"} /\ (st = "shared" <=> rest = {})
    BY <1>1 DEF Jobs
  <2> HIDE DEF st
  <2>3. job' \in Jobs /\ job'.op = "uninstall" /\ job'.step = st /\ job'.all = job.all /\ job'.todo = rest
    BY <1>1, <2>1, <2>2 DEF Jobs
  <2>4. TypeOK'
    BY <1>2, <2>3, FilesComplete DEF Inv, TypeOK
  <2>5. StepsOfCommands' /\ InstallInv' /\ UpgradeInv'
    BY <2>2, <2>3 DEF StepsOfCommands, InstallInv, UpgradeInv
  <2>6. job.all => \A n \in Names \ (rest \cup edited) : Gone(n)
    BY <1>1, FilesComplete DEF Inv, UninstallInv
  <2>7. job.all \in BOOLEAN
    BY <1>1 DEF Jobs
  <2>8. UninstallInv'
    BY <1>2, <2>1, <2>2, <2>3, <2>6, <2>7 DEF UninstallInv, Gone
  <2> QED  BY <2>4, <2>5, <2>8, FilesComplete DEF Inv
<1> QED  BY <1>4, <1>5

LEMMA RemoveSharedInv == ASSUME Inv, RemoveShared PROVE Inv'
<1>1. \A n \in Names \ edited : Gone(n)
  BY DEF Inv, StepsOfCommands, UninstallInv, RemoveShared
<1>2. job' \in Jobs /\ job'.op = "none" /\ job'.step \in Ended
  BY GotoIs DEF Inv, TypeOK, RemoveShared, Ended, Steps
<1>3. TypeOK'
  BY <1>2 DEF Inv, TypeOK, RemoveShared
<1>4. PlatformInv' /\ InstalledComplete'
  BY <1>1 DEF Inv, RemoveShared, PlatformInv, Windows, InstalledComplete, Gone
<1> QED  BY <1>2, <1>3, <1>4, Ending

\* A step that ends the command and leaves files and registrations alone.
LEMMA EndsOnly ==
  ASSUME Inv, NEW s \in Ended, Goto(s), UNCHANGED <<os, config, stamp, binary, unit, edited>>,
         up' \in [Services -> BOOLEAN]
  PROVE  Inv'
<1>1. job' \in Jobs /\ job'.op = "none" /\ job'.step \in Ended
  BY GotoIs DEF Inv, TypeOK, Steps
<1>2. TypeOK'
  BY <1>1 DEF Inv, TypeOK
<1> QED  BY <1>1, <1>2, ServicesKept, Ending

\* The service a name stands for is one of its two.
LEMMA TargetType ==
  ASSUME Inv, NEW n \in Names
  PROVE  Target(n) \in Services
<1>1. job.list[n] \in Roles \cup {None}
  BY DEF Inv, TypeOK, Jobs
<1> QED  BY <1>1 DEF Target, ClientFirst, Services, Roles

LEMMA ControlInv == ASSUME Inv, NEW n \in Names, Control(n) PROVE Inv'
<1>1. job.op \in {"start", "stop", "restart"} /\ job \in Jobs
  BY DEF Inv, TypeOK, Control, StepsOfCommands
<1>2. UNCHANGED <<os, config, stamp, binary, unit, edited>>
  BY DEF Control
<1>3. up' \in [Services -> BOOLEAN]
  BY <1>1, TargetType DEF Inv, TypeOK, Control
<1>4. CASE Goto("error")
  BY <1>2, <1>3, <1>4, EndsOnly DEF Ended
<1>5. CASE job' = [job EXCEPT !.todo = @ \ {n}]
  <2>1. job' \in Jobs /\ job'.op = job.op /\ job'.step = "control"
    BY <1>1, <1>5 DEF Jobs, Control
  <2>2. TypeOK'
    BY <1>2, <1>3, <2>1 DEF Inv, TypeOK
  <2>3. StepsOfCommands' /\ InstallInv' /\ UninstallInv' /\ UpgradeInv'
    BY <1>1, <2>1 DEF StepsOfCommands, InstallInv, UninstallInv, UpgradeInv
  <2> QED  BY <1>2, <2>2, <2>3, ServicesKept DEF Inv
<1> QED  BY <1>4, <1>5 DEF Control

LEMMA ControlDoneInv == ASSUME Inv, ControlDone PROVE Inv'
  BY EndsOnly DEF ControlDone, Ended, Inv, TypeOK

LEMMA HaltInv == ASSUME Inv, NEW n \in Names, Halt(n) PROVE Inv'
<1>1. job.op = "upgrade" /\ job \in Jobs
  BY DEF Inv, TypeOK, Halt, StepsOfCommands
<1>2. UNCHANGED <<os, config, stamp, binary, unit, edited>>
  BY DEF Halt
<1>3. up' \in [Services -> BOOLEAN]
  BY TargetType DEF Inv, TypeOK, Halt
<1>4. job' \in Jobs /\ job'.op = job.op /\ job'.step = "halt" /\ job'.list = job.list
  BY <1>1 DEF Jobs, Halt
<1>5. TypeOK'
  BY <1>2, <1>3, <1>4 DEF Inv, TypeOK
<1>6. StepsOfCommands' /\ InstallInv' /\ UninstallInv' /\ UpgradeInv'
  BY <1>1, <1>2, <1>4 DEF Inv, StepsOfCommands, InstallInv, UninstallInv, UpgradeInv
<1> QED  BY <1>2, <1>5, <1>6, ServicesKept DEF Inv

\* Steps of an upgrade that go on.
LEMMA UpgradeMoves ==
  ASSUME Inv, job.op = "upgrade", NEW s \in {"grant", "binary"}, Goto(s),
         UNCHANGED <<os, config, stamp, binary, unit, up, edited>>
  PROVE  Inv'
<1>1. job' \in Jobs /\ job'.step = s /\ job'.op = job.op /\ job'.list = job.list
  BY MoveKeeps DEF Steps, Ended
<1>2. TypeOK'
  BY <1>1 DEF Inv, TypeOK
<1>3. StepsOfCommands' /\ InstallInv' /\ UninstallInv' /\ UpgradeInv'
  BY <1>1 DEF Inv, StepsOfCommands, InstallInv, UninstallInv, UpgradeInv
<1> QED  BY <1>2, <1>3, ServicesKept DEF Inv

LEMMA HaltedInv == ASSUME Inv, Halted PROVE Inv'
<1>1. job.op = "upgrade"
  BY DEF Inv, StepsOfCommands, Halted
<1>2. CASE Goto("error")
  BY <1>2, EndsOnly DEF Halted, Ended, Inv, TypeOK
<1> QED  BY <1>1, <1>2, UpgradeMoves DEF Halted

LEMMA GrantInv == ASSUME Inv, Grant PROVE Inv'
<1>1. job.op = "upgrade"
  BY DEF Inv, StepsOfCommands, Grant
<1> QED  BY <1>1, UpgradeMoves DEF Grant

LEMMA RewriteInv == ASSUME Inv, Rewrite PROVE Inv'
<1>1. job.op = "upgrade" /\ job \in Jobs
  BY DEF Inv, TypeOK, Rewrite, StepsOfCommands
<1>2. UNCHANGED <<os, config, stamp, binary, unit, up, edited>>
  BY DEF Rewrite
<1> DEFINE td == {n \in Names : job.list[n] # None}
<1>3. td \in SUBSET Names /\ job' = [job EXCEPT !.step = "resume", !.todo = td]
  BY DEF Rewrite
<1>4. \A n \in Names \ (td \cup edited) : Gone(n)
  BY <1>1, ManagerAssumption DEF Inv, InstalledComplete, UpgradeInv, Gone, Roles
<1> HIDE DEF td
<1>5. job' \in Jobs /\ job'.op = "upgrade" /\ job'.step = "resume" /\ job'.todo = td /\ job'.list = job.list
  BY <1>1, <1>3 DEF Jobs
<1>6. TypeOK'
  BY <1>2, <1>5 DEF Inv, TypeOK
<1>7. StepsOfCommands' /\ InstallInv' /\ UninstallInv'
  BY <1>5 DEF StepsOfCommands, InstallInv, UninstallInv
<1>8. UpgradeInv'
  BY <1>1, <1>2, <1>4, <1>5 DEF Inv, UpgradeInv, Gone
<1> QED  BY <1>2, <1>6, <1>7, <1>8, ServicesKept DEF Inv

\* The service an upgrade starts for a name is the one that is registered.
LEMMA TargetIs ==
  ASSUME Inv, job.op = "upgrade", NEW n \in Names, n \notin edited, NEW r \in Roles,
         unit[<<n, r>>] = "present"
  PROVE  Target(n) = <<n, r>>
<1>1. config[n] = r /\ job.list[n] = r /\ r # None
  BY ManagerAssumption DEF Inv, InstalledComplete, UpgradeInv, Roles
<1>2. CASE Windows
  BY <1>1, <1>2 DEF Target
<1>3. CASE ~Windows
  <2>1. r \in Found(n)
    BY DEF Found
  <2>2. Looked(n) = Found(n) /\ Chosen(n) = ClientFirst(Looked(n))
    BY <1>3 DEF Looked, Chosen
  <2>3. ClientFirst(Found(n)) = r
    BY <2>2, LookedIs
  <2>4. Target(n) = <<n, ClientFirst(Found(n))>>
    BY <1>3, <2>1 DEF Target
  <2> QED  BY <2>3, <2>4
<1> QED  BY <1>2, <1>3

LEMMA ResumeInv == ASSUME Inv, NEW n \in Names, Resume(n) PROVE Inv'
<1>1. job.op = "upgrade" /\ job \in Jobs
  BY DEF Inv, TypeOK, Resume, StepsOfCommands
<1>2. UNCHANGED <<os, config, stamp, binary, unit, edited>>
  BY DEF Resume
<1>3. PICK fl \in {job.failed, job.failed \cup {Target(n)}} :
        /\ job' = [job EXCEPT !.todo = @ \ {n}, !.failed = fl]
        /\ up' = up \/ up' = [up EXCEPT ![Target(n)] = TRUE]
        /\ up' = [up EXCEPT ![Target(n)] = TRUE] \/ Target(n) \in fl
  BY <1>1 DEF Resume, Jobs
<1>4. /\ job' \in Jobs /\ job'.op = "upgrade" /\ job'.step = "resume" /\ job'.todo = job.todo \ {n}
      /\ job'.list = job.list /\ job'.was = job.was /\ job'.failed = fl
  <2> DEFINE td == job.todo \ {n}
  <2>1. fl \in SUBSET Services /\ td \in SUBSET Names
    BY <1>1, TargetType DEF Jobs
  <2>2. job' = [job EXCEPT !.todo = td, !.failed = fl] /\ job.step = "resume"
    BY <1>3 DEF Resume
  <2> HIDE DEF td
  <2>3. /\ job' \in Jobs /\ job'.op = job.op /\ job'.step = "resume" /\ job'.todo = td
        /\ job'.list = job.list /\ job'.was = job.was /\ job'.failed = fl
    BY <1>1, <2>1, <2>2 DEF Jobs
  <2> QED  BY <1>1, <2>3 DEF td
<1>5. /\ up' \in [Services -> BOOLEAN] /\ (up'[Target(n)] \/ Target(n) \in fl)
      /\ \A s \in Services : up[s] => up'[s]
  BY <1>3, TargetType DEF Inv, TypeOK
<1>6. TypeOK'
  BY <1>2, <1>4, <1>5 DEF Inv, TypeOK
<1>7. StepsOfCommands' /\ InstallInv' /\ UninstallInv'
  BY <1>4 DEF StepsOfCommands, InstallInv, UninstallInv
<1>8. UpgradeInv'
  <2>1. \A m \in Names \ edited : job.list[m] = config[m]
    BY <1>1 DEF Inv, UpgradeInv
  <2>2. ASSUME NEW m \in Names \ ((job.todo \ {n}) \cup edited), NEW r \in Roles,
               <<m, r>> \in job.was, unit[<<m, r>>] = "present"
        PROVE  up'[<<m, r>>] \/ <<m, r>> \in fl
    <3>1. CASE m = n
      BY <1>1, <1>5, <2>2, <3>1, TargetIs
    <3>2. CASE m # n
      <4>1. up[<<m, r>>] \/ <<m, r>> \in job.failed
        BY <1>1, <2>2, <3>2 DEF Inv, UpgradeInv, Resume
      <4> QED  BY <1>3, <1>5, <4>1 DEF Services
    <3> QED  BY <3>1, <3>2
  <2> QED  BY <1>2, <1>4, <2>1, <2>2 DEF UpgradeInv
<1> QED  BY <1>2, <1>6, <1>7, <1>8, ServicesKept DEF Inv

LEMMA ResumedInv == ASSUME Inv, Resumed PROVE Inv'
  BY EndsOnly DEF Resumed, Ended, Inv, TypeOK

LEMMA ProcessEndsInv == ASSUME Inv, NEW s \in Services, ProcessEnds(s) PROVE Inv'
<1>1. job \in Jobs
  BY DEF Inv, TypeOK
<1>2. UNCHANGED <<os, config, stamp, binary, edited>>
  BY DEF ProcessEnds
<1> DEFINE ws == IF job.step = "resume" /\ s[1] \notin job.todo THEN job.was \ {s} ELSE job.was
<1>3. job' = [job EXCEPT !.was = ws]
  BY DEF ProcessEnds
<1>4. ws \in SUBSET Services /\ ws \subseteq job.was
  BY <1>1 DEF Jobs
<1>5. job.step = "resume" => s[1] \in job.todo \/ s \notin ws
  OBVIOUS
<1> HIDE DEF ws
<1>6. /\ job' \in Jobs /\ job'.op = job.op /\ job'.step = job.step /\ job'.name = job.name
      /\ job'.role = job.role /\ job'.all = job.all /\ job'.todo = job.todo /\ job'.list = job.list
      /\ job'.failed = job.failed /\ job'.was = ws
  BY <1>1, <1>3, <1>4 DEF Jobs
<1>7. /\ unit' \in [Services -> {"none", "present", "marked"}]
      /\ \A x \in Services : unit'[x] # unit[x] => unit[x] = "marked" /\ unit'[x] = "none"
  BY DEF Inv, TypeOK, ProcessEnds
<1>8. up' \in [Services -> BOOLEAN] /\ \A x \in Services : x # s => up'[x] = up[x]
  BY DEF Inv, TypeOK, ProcessEnds
<1>9. TypeOK'
  BY <1>2, <1>6, <1>7, <1>8 DEF Inv, TypeOK
<1>10. PlatformInv' /\ InstalledComplete'
  BY <1>2, <1>7, FewerUnits
<1>11. StepsOfCommands'
  BY <1>6 DEF Inv, StepsOfCommands
<1>12. InstallInv'
  <2>1. job.op = "install" => New \in Services
    BY DEF Inv, StepsOfCommands, New, Services
  <2>2. job.op = "install" /\ unit[New] = "present" => unit'[New] = "present"
    BY <1>7, <2>1
  <2>3. New' = New
    BY <1>6 DEF New
  <2> QED  BY <1>2, <1>6, <2>2, <2>3 DEF Inv, InstallInv
<1>13. ASSUME NEW n \in Names, NEW r \in Roles PROVE unit'[<<n, r>>] = "present" <=> unit[<<n, r>>] = "present"
  BY <1>7 DEF Services
<1>14. UninstallInv'
  BY <1>2, <1>6, <1>13 DEF Inv, StepsOfCommands, UninstallInv, Gone
<1>15. UpgradeInv'
  <2> SUFFICES ASSUME job.op = "upgrade" PROVE UpgradeInv'
    BY <1>6 DEF UpgradeInv
  <2>1. \A n \in Names \ edited : job.list[n] = config[n]
    BY DEF Inv, UpgradeInv
  <2>2. ASSUME job.step = "resume", NEW n \in Names \ (job.todo \cup edited), NEW r \in Roles,
               <<n, r>> \in ws, unit[<<n, r>>] = "present"
        PROVE  up'[<<n, r>>] \/ <<n, r>> \in job.failed
    <3>1. up[<<n, r>>] \/ <<n, r>> \in job.failed
      BY <1>4, <2>2 DEF Inv, UpgradeInv
    <3>2. <<n, r>> # s
      BY <1>5, <2>2
    <3> QED  BY <1>8, <3>1, <3>2 DEF Services
  <2> QED  BY <1>2, <1>6, <1>13, <2>1, <2>2 DEF UpgradeInv
<1> QED  BY <1>9, <1>10, <1>11, <1>12, <1>14, <1>15 DEF Inv

LEMMA HandEditInv == ASSUME Inv, NEW n \in Names, HandEdit(n) PROVE Inv'
<1>1. UNCHANGED <<os, stamp, binary, unit, up, job, New>> /\ edited' = edited \cup {n}
  BY DEF HandEdit, New
<1>2. /\ config' \in [Names -> Roles \cup {None}]
      /\ \A m \in Names : m # n => config'[m] = config[m]
  BY DEF Inv, TypeOK, HandEdit
<1>3. TypeOK'
  BY <1>1, <1>2 DEF Inv, TypeOK
<1>4. PlatformInv' /\ StepsOfCommands' /\ InstalledComplete'
  BY <1>1, <1>2 DEF Inv, PlatformInv, Windows, StepsOfCommands, InstalledComplete
<1>5. InstallInv'
  BY <1>1, <1>2 DEF Inv, StepsOfCommands, InstallInv
<1>6. UninstallInv' /\ UpgradeInv'
  BY <1>1, <1>2 DEF Inv, UninstallInv, UpgradeInv, Gone
<1> QED  BY <1>3, <1>4, <1>5, <1>6 DEF Inv

\* Every step keeps the invariant.
LEMMA InvStep == ASSUME Inv, [Next]_vars PROVE Inv'
<1>1. CASE Install
  BY <1>1, EnsureConfigInv, WriteStampInv, CopyBinaryInv, RegisterInv, HardenInv, LockdownInv, StartNewInv
     DEF Install
<1>2. CASE Uninstall
  BY <1>2, FindInv, StopOldInv, DeleteOldInv, DaemonReloadInv, RemoveFilesInv, RemoveSharedInv DEF Uninstall
<1>3. CASE Drive
  BY <1>3, ControlInv, HaltInv, ResumeInv, ControlDoneInv, HaltedInv, GrantInv, RewriteInv, ResumedInv DEF Drive
<1>4. CASE Others
  BY <1>4, ProcessEndsInv, HandEditInv DEF Others
<1>5. CASE UNCHANGED vars
  BY <1>5 DEF vars, Inv, TypeOK, StepsOfCommands, PlatformInv, Windows, InstallInv, UninstallInv,
              UpgradeInv, InstalledComplete, New, Gone
<1> QED  BY <1>1, <1>2, <1>3, <1>4, <1>5, CommandInv, FailInv, KillInv DEF Next

LEMMA Invariant == Spec => []Inv
<1> QED  BY InvInit, InvStep, PTL DEF Spec

-----------------------------------------------------------------------------
(* The theorems.                                                           *)

\* Files, registrations and the running command have their types.
THEOREM TypeCorrect == Spec => []TypeOK
<1>1. Inv => TypeOK
  BY DEF Inv
<1> QED  BY <1>1, Invariant, PTL

\* Whatever was installed, removed, upgraded or interrupted before: a registered
\* service whose file nobody edited has its configuration, the version stamp and
\* the binary, on Windows a whole one (remove_service_files, uninstall_all,
\* ensure_binary_copy).
THEOREM InstalledAlwaysComplete == Spec => []InstalledComplete
<1>1. Inv => InstalledComplete
  BY DEF Inv
<1> QED  BY <1>1, Invariant, PTL

\* The result a step leaves, by the step.
LEMMA Outcomes ==
  ASSUME Inv, [Next]_vars, job.step \notin Ended, job'.step \in {"ok", "error"}
  PROVE  \/ Fail \/ CopyBinary \/ Harden \/ Lockdown \/ StartNew \/ RemoveFiles \/ RemoveShared
         \/ (\E n \in Names : Control(n)) \/ ControlDone \/ Halted \/ Resumed
<1> USE DEF Ended, Steps
<1>1. ~UNCHANGED vars /\ ~Kill /\ ~Command
  <2>1. ~Command
    BY DEF Command, BeginInstall, BeginUninstall, BeginControl, BeginUpgrade, Begin
  <2>2. ~Kill
    BY GotoIs DEF Kill, Inv, TypeOK
  <2>3. ~UNCHANGED vars
    BY DEF vars
  <2> QED  BY <2>1, <2>2, <2>3
<1>2. ~EnsureConfig /\ ~WriteStamp /\ ~Register
  BY GotoIs DEF EnsureConfig, WriteStamp, Register, Inv, TypeOK
<1>3. ~StopOld /\ ~DeleteOld /\ ~DaemonReload /\ ~Grant
  BY GotoIs DEF StopOld, DeleteOld, DaemonReload, Grant, Inv, TypeOK
<1>4. ASSUME NEW n \in Names PROVE ~Find(n) /\ ~Halt(n) /\ ~Resume(n) /\ ~HandEdit(n)
  BY DEF Find, Halt, Resume, HandEdit, Inv, TypeOK, Jobs
<1>5. ~Rewrite /\ \A s \in Services : ~ProcessEnds(s)
  BY DEF Rewrite, ProcessEnds, Inv, TypeOK, Jobs
<1> QED  BY <1>1, <1>2, <1>3, <1>4, <1>5 DEF Next, Install, Uninstall, Drive, Others

\* On Windows an install that fails after the registration leaves none behind,
\* or says that it could not remove it (rollback_service_registration).
THEOREM InstallRollsBack == Spec => RetryPossible
<1>1. ASSUME Inv, [Next]_vars, Windows, Finishes("install", "error"),
             job.step \in {"harden", "lockdown", "start"}
      PROVE  unit'[New] = "none" \/ New \in job'.failed
  <2>1. New \in Services
    BY <1>1 DEF Finishes, Inv, StepsOfCommands, New, Services
  <2>2. Harden \/ Lockdown \/ StartNew
    BY <1>1, Outcomes DEF Finishes, Ended, Fail, Fallible, CopyBinary, RemoveFiles, RemoveShared, Control,
                          ControlDone, Halted, Resumed
  <2>3. ~Goto("lockdown") /\ ~Goto("start") /\ ~Goto("ok")
    BY <1>1, GotoIs DEF Finishes, Inv, TypeOK, Ended, Steps
  <2>4. Rollback
    BY <2>2, <2>3 DEF Harden, Lockdown, StartNew
  <2>5. CASE unit' = [unit EXCEPT ![New] = "none"]
    BY <1>1, <2>1, <2>5 DEF Inv, TypeOK
  <2>6. CASE job' = [Result("error") EXCEPT !.failed = {New}]
    <3>1. Result("error") \in Jobs
      BY ResultIs DEF Ended
    <3> QED  BY <2>6, <3>1 DEF Jobs
  <2> QED  BY <2>4, <2>5, <2>6 DEF Rollback
<1> DEFINE A == Windows /\ Finishes("install", "error") /\ job.step \in {"harden", "lockdown", "start"} =>
                  unit'[New] = "none" \/ New \in job'.failed
<1>2. Inv /\ [Next]_vars => [A]_vars
  BY <1>1
<1>3. RetryPossible <=> [][A]_vars
  BY DEF RetryPossible
<1> HIDE DEF A
<1> QED  BY <1>2, <1>3, Invariant, PTL DEF Spec

\* What `service install` and `service uninstall` report is so
\* (the platform back ends' install_service, uninstall_service and uninstall_all).
THEOREM ReportsAreTrue == Spec => ReportTrue
<1>1. ASSUME Inv, [Next]_vars, Finishes("install", "ok") PROVE unit'[New] = "present" /\ up'[New]
  <2>1. New \in Services
    BY <1>1 DEF Finishes, Inv, StepsOfCommands, New, Services
  <2>2. Harden \/ Lockdown \/ StartNew \/ CopyBinary \/ Fail
    BY <1>1, Outcomes DEF Finishes, Inv, StepsOfCommands, RemoveFiles, RemoveShared, Control, ControlDone,
                          Halted, Resumed, Ended
  <2>3. job \in Jobs /\ job'.step = "ok" /\ job.op = "install"
    BY <1>1 DEF Finishes, Inv, TypeOK
  <2>4. ~Goto("error") /\ ~Goto("lockdown") /\ ~Goto("start") /\ ~Goto("register") /\ ~Goto("rewrite")
    BY <2>3, GotoIs DEF Ended, Steps
  <2>5. ~Rollback
    <3>1. [Result("error") EXCEPT !.failed = {New}].step = "error"
      BY DEF Result, Idle
    <3> QED  BY <2>3, <2>4, <3>1 DEF Rollback
  <2>6. StartNew
    BY <2>2, <2>3, <2>4, <2>5 DEF Harden, Lockdown, CopyBinary, Fail
  <2>7. up' = [up EXCEPT ![New] = TRUE] /\ UNCHANGED unit
    BY <2>5, <2>6 DEF StartNew
  <2>8. unit[New] = "present"
    BY <1>1, <2>3, <2>6 DEF Inv, InstallInv, StartNew
  <2> QED  BY <2>1, <2>7, <2>8, <1>1 DEF Inv, TypeOK
<1>2. ASSUME Inv, [Next]_vars, Finishes("uninstall", "ok"),
             NEW n \in (IF job.all THEN Names ELSE {job.name}) \ edited, NEW r \in Roles
      PROVE  unit'[<<n, r>>] # "present"
  <2>1. job \in Jobs /\ job'.step = "ok" /\ job.op = "uninstall"
    BY <1>2 DEF Finishes, Inv, TypeOK
  <2>2. RemoveFiles \/ RemoveShared \/ Fail \/ CopyBinary
    BY <1>2, Outcomes DEF Finishes, Inv, StepsOfCommands, Harden, Lockdown, StartNew, Control, ControlDone,
                          Halted, Resumed, Ended
  <2>3. ~Fail /\ ~CopyBinary
    <3>1. ~Goto("error")
      BY <2>1, GotoIs DEF Ended, Steps
    <3> QED  BY <1>2, <2>1, <3>1 DEF Fail, CopyBinary, Inv, StepsOfCommands
  <2>4. CASE RemoveShared
    <3>1. job.all /\ job.todo = {} /\ UNCHANGED unit
      BY <1>2, <2>1, <2>4 DEF Inv, UninstallInv, RemoveShared
    <3>2. Gone(n)
      BY <1>2, <2>1, <3>1 DEF Inv, UninstallInv
    <3> QED  BY <3>1, <3>2 DEF Gone
  <2>5. CASE RemoveFiles
    <3>1. UNCHANGED unit /\ job' \in {NextName, Result("error")}
      BY <2>5 DEF RemoveFiles
    <3>2. job' = NextName
      BY <2>1, <3>1, ResultIs DEF Ended
    <3>3. ~job.all
      <4> SUFFICES ASSUME job.all PROVE FALSE
        OBVIOUS
      <4>1. job'.step \in {"shared", "find"}
        BY <2>1, <3>2 DEF NextName, Jobs
      <4> QED  BY <2>1, <4>1
    <3>4. n = job.name /\ n \notin edited
      BY <1>2, <3>3
    <3>5. Gone(n)
      BY <1>2, <2>5, <3>4, FilesComplete
    <3> QED  BY <3>1, <3>5 DEF Gone
  <2> QED  BY <2>2, <2>3, <2>4, <2>5
<1> DEFINE A == /\ Finishes("install", "ok") => unit'[New] = "present" /\ up'[New]
                /\ Finishes("uninstall", "ok") =>
                     \A n \in (IF job.all THEN Names ELSE {job.name}) \ edited, r \in Roles :
                       unit'[<<n, r>>] # "present"
<1>3. Inv /\ [Next]_vars => [A]_vars
  BY <1>1, <1>2
<1>4. ReportTrue <=> [][A]_vars
  BY DEF ReportTrue
<1> HIDE DEF A
<1> QED  BY <1>3, <1>4, Invariant, PTL DEF Spec

\* What ran before an upgrade runs after it, a failed one on Windows included if it came
\* to the update (upgrade_binary of the back ends): each service is started again, and
\* Resume visits every name that was listed.
THEOREM UpgradeBringsBack == Spec => UpgradeResumes
<1>1. ASSUME Inv, [Next]_vars,
             Finishes("upgrade", "ok") \/ (Windows /\ Finishes("upgrade", "error") /\ job.step # "halt"),
             NEW s \in job.was, s[1] \notin edited, unit[s] = "present"
      PROVE  up[s] \/ s \in job.failed
  <2>1. job \in Jobs /\ job.op = "upgrade" /\ job.step \notin Ended /\ job'.step \in {"ok", "error"}
    BY <1>1 DEF Finishes, Inv, TypeOK
  <2>2. job'.step = "error" => Windows
    BY <1>1 DEF Finishes
  <2>0. ~Halted
    <3>1. job.step = "halt" => job'.step = "ok"
      BY <1>1, <2>1 DEF Finishes
    <3> QED  BY <2>1, <3>1, GotoIs DEF Halted, Ended, Steps
  <2>3. Resumed \/ Fail \/ CopyBinary
    BY <1>1, <2>0, <2>1, Outcomes DEF Inv, StepsOfCommands, Harden, Lockdown, StartNew, RemoveFiles, RemoveShared,
                                Control, ControlDone
  <2>4. ~Fail
    <3>1. ~Goto("error") \/ Windows
      BY <2>1, <2>2, GotoIs DEF Ended, Steps
    <3>2. Windows => [job EXCEPT !.step = "resume", !.back = TRUE,
                                 !.todo = {n \in Names : job.list[n] # None}].step = "resume"
      BY <2>1 DEF Jobs
    <3> QED  BY <2>1, <3>1, <3>2 DEF Fail
  <2>5. ~CopyBinary
    <3>1. ~Goto("rewrite") /\ ~Goto("register")
      BY <2>1, GotoIs DEF Ended, Steps
    <3>2. ~Windows => ~Goto("error")
      BY <2>1, <2>2, GotoIs DEF Ended, Steps
    <3> QED  BY <2>1, <3>1, <3>2 DEF CopyBinary
  <2>6. job.step = "resume" /\ job.todo = {}
    BY <2>3, <2>4, <2>5 DEF Resumed
  <2>7. PICK n \in Names, r \in Roles : s = <<n, r>>
    BY <2>1 DEF Jobs, Services
  <2> QED  BY <1>1, <2>1, <2>6, <2>7 DEF Inv, UpgradeInv
<1> DEFINE A == Finishes("upgrade", "ok")
                    \/ (Windows /\ Finishes("upgrade", "error") /\ job.step # "halt") =>
                  \A s \in job.was : s[1] \notin edited /\ unit[s] = "present" => up[s] \/ s \in job.failed
<1>2. Inv /\ [Next]_vars => [A]_vars
  BY <1>1
<1>3. UpgradeResumes <=> [][A]_vars
  BY DEF UpgradeResumes
<1> HIDE DEF A
<1> QED  BY <1>2, <1>3, Invariant, PTL DEF Spec
=============================================================================
