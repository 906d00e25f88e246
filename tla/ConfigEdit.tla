----------------------------- MODULE ConfigEdit -----------------------------
(***************************************************************************)
(* Several invocations of the editing commands of src/src/config_edit.rs   *)
(* on one configuration file, with the watcher of a running service        *)
(* reading it.  An invocation reads the file, in most commands twice,      *)
(* edits its copy, validates it and replaces the file through a temporary  *)
(* one; nothing locks the file between these steps, each of which may fail *)
(* or be the last before the process dies.                                 *)
(***************************************************************************)
EXTENDS ConfigCommands

CONSTANTS Procs,     \* command invocations, each with a process of its own
          Absent,    \* there is no file
          Partial,   \* a temporary file that was not written to the end
          Commands,  \* the commands that are given
          Files      \* what the file may hold when the first one starts

ASSUME EditAssumption ==
  /\ Commands \subseteq Command
  /\ Absent \notin Document /\ Partial \notin Document \cup {None}
  /\ \A f \in Files : f = Absent \/ (f \in Document /\ Validate(f))

VARIABLES
  file,     \* the configuration file
  stamp,    \* the version stamp next to it is of this or of another major version
  cmd,      \* the command of an invocation
  pc,       \* how far the invocation has come
  side,     \* the side it resolved
  base,     \* the document it read for its edit (for the properties only)
  doc,      \* its edited copy
  tmp,      \* its temporary file
  running   \* the configuration the watcher has loaded

vars == <<file, stamp, cmd, pc, side, base, doc, tmp, running>>

TypeOK ==
  /\ file \in Document \cup {Absent}
  /\ stamp \in {"ours", "foreign"}
  /\ cmd \in [Procs -> Commands \cup {None}]
  /\ pc \in [Procs -> {"idle", "begun", "checked", "edited", "written", "secured", "done",
                       "failed", "crashed"}]
  /\ side \in [Procs -> Roles \cup {None}]
  /\ base \in [Procs -> Document] /\ doc \in [Procs -> Document]
  /\ tmp \in [Procs -> Document \cup {None, Partial}]
  /\ running \in Document

Init ==
  /\ file \in Files
  /\ stamp \in {"ours", "foreign"}
  /\ cmd = [p \in Procs |-> None]
  /\ pc = [p \in Procs |-> "idle"]
  /\ side = [p \in Procs |-> None]
  /\ base = [p \in Procs |-> EmptyDocument] /\ doc = [p \in Procs |-> EmptyDocument]
  /\ tmp = [p \in Procs |-> None]
  /\ running = EmptyDocument

\* load_document: a missing file reads as an empty document.
Load == IF file = Absent THEN EmptyDocument ELSE file

Goto(p, s) == pc' = [pc EXCEPT ![p] = s]

-----------------------------------------------------------------------------
(* Before the edit.                                                        *)

Begin(p, c) ==
  /\ pc[p] = "idle"
  /\ cmd' = [cmd EXCEPT ![p] = c]
  /\ Goto(p, "begun")
  /\ UNCHANGED <<file, stamp, side, base, doc, tmp, running>>

\* The side a command works on: flags, else the sections of the file, else (in
\* `add`) the user's answer.
ResolveSide(c, d) ==
  CASE c.op = "set" -> Given(c.side, DetectRole(d))
    [] c.op = "add" -> Given(c.side, IF Sections(d) = {} THEN c.answer ELSE DetectRole(d))
    [] OTHER -> None

ClientReady(d) == EnsureRoleAllows(d, "client") /\ EnsureClientRemoteSet(d)

\* What a command requires of its arguments and of its first reading of the file.
Passes(c, s, d) ==
  CASE c.op = "set" -> s # None /\ SetArgsFit(c, s)
    [] c.op = "add" -> s # None /\ (s = "client" => ClientReady(d))
    [] c.op = "batch" ->
         /\ \A q, r \in c.pending : q.side = r.side /\ q.name = r.name => q = r
         /\ \A q \in c.pending : EnsureRoleAllows(d, q.side) /\ (q.side = "client" => ClientReady(d))
    [] c.op = "interactive" -> \A q, r \in c.pending : q.side = r.side /\ q.name = r.name => q = r
    [] OTHER -> TRUE

\* check_version_compat and the first reading.
Check(p) ==
  /\ pc[p] = "begun" /\ cmd[p].op # "install"
  /\ LET s == ResolveSide(cmd[p], Load) IN
     /\ side' = [side EXCEPT ![p] = s]
     /\ Goto(p, IF stamp = "ours" /\ Passes(cmd[p], s, Load) THEN "checked" ELSE "failed")
  /\ UNCHANGED <<file, stamp, cmd, base, doc, tmp, running>>

\* ensure_role_config of `service install`: an existing file must be valid and
\* of the role, a missing one is written.
CheckInstall(p) ==
  /\ pc[p] = "begun" /\ cmd[p].op = "install"
  /\ IF file = Absent
     THEN /\ doc' = [doc EXCEPT ![p] = Skeleton(cmd[p].role)]
          /\ Goto(p, "edited")
     ELSE /\ Goto(p, IF Validate(file) /\ DetectRole(file) \in {None, cmd[p].role}
                     THEN "done" ELSE "failed")
          /\ UNCHANGED doc
  /\ UNCHANGED <<file, stamp, cmd, side, base, tmp, running>>

-----------------------------------------------------------------------------
(* The edit and the save.                                                  *)

\* Removing a service is the one edit that is saved without validation.
MaySave(c, d) == c.op = "remove" \/ Validate(d)

\* The second reading, on which the edit is based.
LoadAndEdit(p) ==
  /\ pc[p] = "checked"
  /\ LET new == Edit(cmd[p], side[p], Load) IN
     IF new # Refused /\ MaySave(cmd[p], new)
     THEN /\ doc' = [doc EXCEPT ![p] = new]
          /\ base' = [base EXCEPT ![p] = Load]
          /\ Goto(p, "edited")
     ELSE Goto(p, "failed") /\ UNCHANGED <<doc, base>>
  /\ UNCHANGED <<file, stamp, cmd, side, tmp, running>>

\* Mutant of WriteTemp: the file itself is written.
WriteInPlace(p) ==
  /\ pc[p] = "edited"
  /\ file' = doc[p] /\ tmp' = [tmp EXCEPT ![p] = doc[p]]
  /\ Goto(p, "written")
  /\ UNCHANGED <<stamp, cmd, side, base, doc, running>>

WriteTemp(p) ==
  /\ pc[p] = "edited"
  /\ tmp' = [tmp EXCEPT ![p] = doc[p]]
  /\ Goto(p, "written")
  /\ UNCHANGED <<file, stamp, cmd, side, base, doc, running>>

\* No temporary file, or a truncated one that stays behind.
WriteFails(p) ==
  /\ pc[p] = "edited"
  /\ \E t \in {None, Partial} : tmp' = [tmp EXCEPT ![p] = t]
  /\ Goto(p, "failed")
  /\ UNCHANGED <<file, stamp, cmd, side, base, doc, running>>

\* set_permissions on the temporary file; a failure leaves it behind.
Secure(p) ==
  /\ pc[p] = "written"
  /\ \E s \in {"secured", "failed"} : Goto(p, s)
  /\ UNCHANGED <<file, stamp, cmd, side, base, doc, tmp, running>>

Replace(p) ==
  /\ pc[p] = "secured"
  /\ file' = tmp[p]
  /\ tmp' = [tmp EXCEPT ![p] = None]
  /\ Goto(p, "done")
  /\ UNCHANGED <<stamp, cmd, side, base, doc, running>>

ReplaceFails(p) ==
  /\ pc[p] = "secured"
  /\ tmp' = [tmp EXCEPT ![p] = None]
  /\ Goto(p, "failed")
  /\ UNCHANGED <<file, stamp, cmd, side, base, doc, running>>

Crash(p) ==
  /\ pc[p] \in {"begun", "checked", "edited", "written", "secured"}
  /\ Goto(p, "crashed")
  /\ \E t \in {tmp[p]} \cup (IF pc[p] = "edited" THEN {Partial} ELSE {}) :
       tmp' = [tmp EXCEPT ![p] = t]
  /\ UNCHANGED <<file, stamp, cmd, side, base, doc, running>>

-----------------------------------------------------------------------------
\* The watcher of a running service takes over what it can load.
Reload ==
  /\ file # Absent /\ Validate(file)
  /\ running' = Effective(file)
  /\ UNCHANGED <<file, stamp, cmd, pc, side, base, doc, tmp>>

Invocation(p) ==
  \/ \E c \in Commands : Begin(p, c)
  \/ Check(p) \/ CheckInstall(p) \/ LoadAndEdit(p)
  \/ WriteTemp(p) \/ WriteFails(p) \/ Secure(p) \/ Replace(p) \/ ReplaceFails(p) \/ Crash(p)

Next == Reload \/ \E p \in Procs : Invocation(p)

Spec == Init /\ [][Next]_vars

-----------------------------------------------------------------------------
(* Properties.                                                             *)

\* The watcher never meets a file it would reject: whatever commands run and
\* fail next to each other, the file is missing or a valid configuration.
FileValid == file = Absent \/ Validate(file)

Outcome(p) ==
  CASE pc[p] = "done" -> "ok"
    [] pc[p] \in {"failed", "crashed"} -> "error"
    [] OTHER -> "running"

Store == INSTANCE ConfigStore WITH outcome <- [p \in Procs |-> Outcome(p)]

\* All or nothing: a command changes the file once, to a valid configuration
\* and as it succeeds; one that fails or dies has changed nothing.
ImplementsStore == Store!Spec

\* The services an invocation reports as added.
Reported(c) ==
  CASE c.op \in {"batch", "interactive"} -> {q.name : q \in c.pending}
    [] c.op = "add" -> {c.name}
    [] OTHER -> {}

\* A command whose reading is still current keeps every service of the file as
\* it is but the one it was told to remove, and what it reports as added is in
\* the file it leaves.
EditExact ==
  [][\A p \in Procs : pc[p] = "secured" /\ pc'[p] = "done" =>
       /\ base[p] = Load =>
            \A r \in Roles, n \in Names : ServiceAt(Load, r, n) # None =>
              \/ ServiceAt(file', r, n) = ServiceAt(Load, r, n)
              \/ cmd[p].op = "remove" /\ cmd[p].name = n
       /\ \A n \in Reported(cmd[p]) : \E r \in Roles : ServiceAt(file', r, n) # None]_vars

\* "All Option ... must be Some value in runtime": every service that is loaded
\* has a token and, on a client, a retry interval that is not zero.
RuntimeComplete ==
  \A r \in Roles, n \in Names : ServiceAt(running, r, n) # None =>
    /\ running[r].services[n].token \in Tokens
    /\ r = "client" => running[r].services[n].retry = 1

\* "Each process and config is single-role": only a batch of additions, whose
\* roles were checked on an earlier reading of the file, adds a second section.
RoleKept ==
  [][\A p \in Procs : pc[p] = "secured" /\ pc'[p] = "done" /\ Sections(file') = Roles =>
       Sections(base[p]) = Roles \/ cmd[p].op = "batch"]_vars
=============================================================================
