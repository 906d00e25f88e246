----------------------------- MODULE Supervisor -----------------------------
(***************************************************************************)
(* The process around a client or a server: run_with_config and            *)
(* run_instance of src/src/lib.rs and the watcher of                       *)
(* src/src/config_watcher.rs.  The watcher turns changes of the            *)
(* configuration file into events; the supervisor restarts the instance or *)
(* forwards a service change to it; a shutdown signal ends all three.      *)
(* The instance itself is what ServerControl and ClientControl describe.   *)
(***************************************************************************)
EXTENDS ConfigDiff, Sequences, SequencesExt

CONSTANTS Configs,    \* the valid configurations a user may write
          Bad,        \* a missing or invalid file
          Flag,       \* `--client`, `--server` or None
          MaxEvents,  \* bound on the watcher's event queue (unbounded)
          UpdateCap   \* capacity of the service update channel (1024)

ASSUME ConfigsAssumption == Configs \subseteq Config /\ Bad \notin Configs
ASSUME NamesAssumption == IsFiniteSet(Names) /\ None \notin Section
ASSUME FlagAssumption == Flag \in Roles \cup {None}

VARIABLES
  file,      \* what the configuration file holds
  changed,   \* a file event is queued for the watcher
  watcher,   \* [pc, old]: the watcher task and the configuration it knows
  events,    \* configuration changes queued for the supervisor
  sup,       \* [pc, cfg]: the supervisor, and the configuration it restarts with
  inst,      \* [pc, cfg]: the instance and the configuration it runs
  updates,   \* service changes queued for the instance
  stop,      \* whether the external shutdown signal has been sent
  sig,       \* receivers that hold a shutdown signal
  status     \* [of, told]: whose status endpoint is open, and was its task told to stop

vars == <<file, changed, watcher, events, sup, inst, updates, stop, sig, status>>

Event == {General(c) : c \in Configs}
           \cup {Delete(r, n) : r \in Roles, n \in Names}
           \cup {Add(r, n, s) : r \in Roles, n \in Names, s \in Settings}

TypeOK ==
  /\ file \in Configs \cup {Bad} /\ changed \in BOOLEAN
  /\ watcher \in [pc : {"none", "starting", "watching", "failed", "exited"},
                  old : Configs \cup {None}]
  /\ events \in Seq(Event)
  /\ sup \in [pc : {"opening", "degraded", "subscribing", "loop", "forwarding", "restarting",
                    "joining", "exited"},
              cfg : Configs \cup {None}]
  /\ inst \in [pc : {"none", "spawned", "running", "dead"}, cfg : Config \cup {None}]
  /\ updates \in Seq(Event)
  /\ stop \in BOOLEAN
  /\ sig \in SUBSET {"retry", "watcher", "process", "instance"}
  /\ status \in [of : {"none", "this", "earlier"}, told : BOOLEAN]

\* The endpoint has one name: at most one listener is open.
NoStatus == [of |-> "none", told |-> FALSE]

Init ==
  /\ file \in Configs \cup {Bad} /\ changed = FALSE
  /\ watcher = [pc |-> "none", old |-> None]
  /\ events = <<>>
  /\ sup = [pc |-> "opening", cfg |-> None]
  /\ inst = [pc |-> "none", cfg |-> None]
  /\ updates = <<>>
  /\ stop = FALSE /\ sig = {}
  /\ status = NoStatus

-----------------------------------------------------------------------------
(* The outside world.                                                      *)

\* The file is replaced; a notification reaches a watcher that is registered.
WriteFile(c) ==
  /\ file # c
  /\ file' = c
  /\ changed' = (changed \/ watcher.pc = "watching")
  /\ UNCHANGED <<watcher, events, sup, inst, updates, stop, sig, status>>

\* A broadcast reaches the receivers subscribed at the time: that of the retry
\* loop, that of the watcher (subscribed when the supervisor opens the file)
\* and that of the supervisor's main loop.
Subscribed ==
  {"retry"}
    \cup (IF sup.pc = "opening" \/ watcher.pc \in {"starting", "watching"} THEN {"watcher"}
          ELSE {})
    \cup (IF sup.pc \in {"loop", "forwarding", "restarting", "joining"} THEN {"process"} ELSE {})

SignalShutdown ==
  /\ ~stop
  /\ stop' = TRUE
  /\ sig' = sig \cup Subscribed
  /\ UNCHANGED <<file, changed, watcher, events, sup, inst, updates, status>>

-----------------------------------------------------------------------------
(* run_with_config: opening the configuration.                             *)

\* ConfigWatcherHandle::new reads the file, queues the initial start and spawns
\* the watcher; without a usable file the supervisor hibernates.
OpenConfig ==
  /\ sup.pc = "opening"
  /\ IF file = Bad
     THEN /\ sup' = [sup EXCEPT !.pc = "degraded"]
          /\ sig' = sig \ {"watcher"}
          /\ UNCHANGED <<watcher, events>>
     ELSE /\ sup' = [sup EXCEPT !.pc = "subscribing"]
          /\ watcher' = [pc |-> "starting", old |-> file]
          /\ events' = <<General(file)>>
          /\ UNCHANGED sig
  /\ UNCHANGED <<file, changed, inst, updates, stop, status>>

\* The select of the retry loop takes either branch that is ready.
RetryOpen ==
  /\ sup.pc = "degraded"
  /\ sup' = [sup EXCEPT !.pc = "opening"]
  /\ UNCHANGED <<file, changed, watcher, events, inst, updates, stop, sig, status>>

StopDegraded ==
  /\ sup.pc = "degraded" /\ "retry" \in sig
  /\ sup' = [sup EXCEPT !.pc = "exited"]
  /\ UNCHANGED <<file, changed, watcher, events, inst, updates, stop, sig, status>>

SubscribeProcess ==
  /\ sup.pc = "subscribing"
  /\ sup' = [sup EXCEPT !.pc = "loop"]
  /\ UNCHANGED <<file, changed, watcher, events, inst, updates, stop, sig, status>>

-----------------------------------------------------------------------------
(* config_watcher.                                                         *)

StartWatching ==
  /\ watcher.pc = "starting"
  /\ watcher' = [watcher EXCEPT !.pc = "watching"]
  /\ UNCHANGED <<file, changed, events, sup, inst, updates, stop, sig, status>>

\* The watch cannot be registered; the event channel closes.
WatchFails ==
  /\ watcher.pc = "starting"
  /\ watcher' = [watcher EXCEPT !.pc = "failed"]
  /\ UNCHANGED <<file, changed, events, sup, inst, updates, stop, sig, status>>

\* A section's changes, in each order its hash maps may be walked.
SectionSeqs(r, old, new) ==
  LET e == SectionEvents(r, old, new)
  IN  {d \o a : d \in SetToSeqs(e.deletions), a \in SetToSeqs(e.additions)}

\* calculate_events.
EventSeqs(old, new) ==
  IF NeedsRestart(old, new) THEN {<<General(new)>>}
  ELSE {s \o c : s \in SectionSeqs("server", old, new), c \in SectionSeqs("client", old, new)}

Rescan ==
  /\ watcher.pc = "watching" /\ changed /\ Len(events) < MaxEvents
  /\ changed' = FALSE
  /\ IF file = Bad
     THEN UNCHANGED <<watcher, events>>
     ELSE /\ \E s \in EventSeqs(watcher.old, file) : events' = events \o s
          /\ watcher' = [watcher EXCEPT !.old = file]
  /\ UNCHANGED <<file, sup, inst, updates, stop, sig, status>>

StopWatcher ==
  /\ watcher.pc = "watching" /\ "watcher" \in sig
  /\ watcher' = [watcher EXCEPT !.pc = "exited"]
  /\ UNCHANGED <<file, changed, events, sup, inst, updates, stop, sig, status>>

-----------------------------------------------------------------------------
(* run_with_config: the main loop.                                         *)

\* Mutant of TellInstance: one broadcast for the instances and the process.
TellEverybody ==
  /\ sig' = sig \cup {"instance", "process"}
  /\ status' = [status EXCEPT !.told = @ \/ status.of = "this"]

\* Mutant of TellInstance: an instance that has ended is not told any more.
TellRunning ==
  IF inst.pc = "running"
  THEN sig' = sig \cup {"instance"} /\ status' = [status EXCEPT !.told = @ \/ status.of = "this"]
  ELSE UNCHANGED <<sig, status>>

\* The instance's broadcast reaches it only if its task has been polled once:
\* the subscription is made inside the spawned future.  The task of its status
\* endpoint, which outlives an instance that fails, hears it too.
TellInstance ==
  /\ sig' = IF inst.pc = "running" THEN sig \cup {"instance"} ELSE sig
  /\ status' = [status EXCEPT !.told = @ \/ status.of = "this"]

\* A new generation; its channels are its own.
Spawn(cfg) ==
  /\ inst' = [pc |-> "spawned", cfg |-> cfg]
  /\ updates' = <<>>
  /\ status' = IF status.of = "this" THEN [status EXCEPT !.of = "earlier"] ELSE status

FirstStart ==
  /\ sup.pc = "loop" /\ events # <<>> /\ Head(events).kind = "general"
  /\ inst.pc = "none"
  /\ events' = Tail(events)
  /\ Spawn(Head(events).cfg)
  /\ UNCHANGED <<file, changed, watcher, sup, stop, sig>>

BeginRestart ==
  /\ sup.pc = "loop" /\ events # <<>> /\ Head(events).kind = "general"
  /\ inst.pc # "none"
  /\ events' = Tail(events)
  /\ sup' = [pc |-> "restarting", cfg |-> Head(events).cfg]
  /\ TellInstance
  /\ UNCHANGED <<file, changed, watcher, inst, updates, stop>>

FinishRestart ==
  /\ sup.pc = "restarting" /\ inst.pc = "dead"
  /\ Spawn(sup.cfg)
  /\ sup' = [pc |-> "loop", cfg |-> None]
  /\ sig' = sig \ {"instance"}
  /\ UNCHANGED <<file, changed, watcher, events, stop>>

\* Mutant of ForwardChange: a change is only forwarded to a polled instance.
ForwardChangeIfRunning ==
  /\ sup.pc \in {"loop", "forwarding"} /\ events # <<>> /\ Head(events).kind # "general"
  /\ events' = Tail(events)
  /\ IF inst.pc = "running"
     THEN Len(updates) < UpdateCap /\ updates' = Append(updates, Head(events))
     ELSE UNCHANGED updates
  /\ sup' = [sup EXCEPT !.pc = "loop"]
  /\ UNCHANGED <<file, changed, watcher, inst, stop, sig, status>>

\* The send waits for room, and does not look at the shutdown signal meanwhile ...
AwaitRoom ==
  /\ sup.pc = "loop" /\ events # <<>> /\ Head(events).kind # "general"
  /\ inst.pc \in {"spawned", "running"} /\ Len(updates) >= UpdateCap
  /\ sup' = [sup EXCEPT !.pc = "forwarding"]
  /\ UNCHANGED <<file, changed, watcher, events, inst, updates, stop, sig, status>>

\* ... or there is room; an instance that has ended swallows the change.
ForwardChange ==
  /\ sup.pc \in {"loop", "forwarding"} /\ events # <<>> /\ Head(events).kind # "general"
  /\ events' = Tail(events)
  /\ IF inst.pc \in {"spawned", "running"}
     THEN Len(updates) < UpdateCap /\ updates' = Append(updates, Head(events))
     ELSE UNCHANGED updates
  /\ sup' = [sup EXCEPT !.pc = "loop"]
  /\ UNCHANGED <<file, changed, watcher, inst, stop, sig, status>>

\* Mutant of BeginTeardown: the end of the watcher is not noticed.
TeardownOnSignal ==
  /\ sup.pc = "loop" /\ "process" \in sig
  /\ sup' = [sup EXCEPT !.pc = "joining"]
  /\ TellInstance
  /\ UNCHANGED <<file, changed, watcher, events, inst, updates, stop>>

\* The loop ends on a signal or when the watcher is gone and its events used up.
BeginTeardown ==
  /\ sup.pc = "loop"
  /\ "process" \in sig \/ (events = <<>> /\ watcher.pc \in {"failed", "exited"})
  /\ sup' = [sup EXCEPT !.pc = "joining"]
  /\ TellInstance
  /\ UNCHANGED <<file, changed, watcher, events, inst, updates, stop>>

FinishTeardown ==
  /\ sup.pc = "joining" /\ inst.pc \in {"none", "dead"}
  /\ sup' = [sup EXCEPT !.pc = "exited"]
  /\ UNCHANGED <<file, changed, watcher, events, inst, updates, stop, sig, status>>

-----------------------------------------------------------------------------
(* run_instance, up to what the instance does with its two channels.       *)

Mode == RunMode(inst.cfg, Flag)

\* A sender of its shutdown channel goes with it; when the supervisor has given
\* up the other one, that ends the status task as well.
Dies ==
  /\ inst' = [inst EXCEPT !.pc = "dead"]
  /\ updates' = <<>>
  /\ status' = [status EXCEPT !.told =
                  @ \/ (status.of = "this" /\ sup.pc \in {"restarting", "joining"})]

\* The status endpoint is opened, unless another listener still has the name: then
\* the instance goes on without one.
BindStatus ==
  status' = IF status.of = "none" THEN [of |-> "this", told |-> FALSE] ELSE status

\* The first poll subscribes and opens the status endpoint; an ambiguous or missing
\* role ends the instance.
PollInstance ==
  /\ inst.pc = "spawned"
  /\ IF Mode # None /\ inst.cfg[Mode] # None
     THEN /\ inst' = [inst EXCEPT !.pc = "running"]
          /\ BindStatus
          /\ UNCHANGED updates
     ELSE Dies
  /\ UNCHANGED <<file, changed, watcher, events, sup, stop, sig>>

\* Service changes of the other role are ignored.
TakeUpdate ==
  /\ inst.pc = "running" /\ updates # <<>>
  /\ updates' = Tail(updates)
  /\ inst' = IF Head(updates).role = Mode
             THEN [inst EXCEPT !.cfg = Apply(@, Head(updates))] ELSE inst
  /\ UNCHANGED <<file, changed, watcher, events, sup, stop, sig, status>>

StopInstance ==
  /\ inst.pc = "running" /\ "instance" \in sig
  /\ Dies
  /\ UNCHANGED <<file, changed, watcher, events, sup, stop, sig>>

\* The listener cannot be bound or the transport cannot be set up.
InstanceFails ==
  /\ inst.pc = "running"
  /\ Dies
  /\ UNCHANGED <<file, changed, watcher, events, sup, stop, sig>>

\* The status task ends when it is told to, or when its socket fails.
StatusEnds ==
  /\ status.of # "none"
  /\ status' = NoStatus
  /\ UNCHANGED <<file, changed, watcher, events, sup, inst, updates, stop, sig>>

-----------------------------------------------------------------------------
Opening == OpenConfig \/ RetryOpen \/ StopDegraded \/ SubscribeProcess

Watcher == StartWatching \/ WatchFails \/ Rescan \/ StopWatcher

MainLoop ==
  \/ FirstStart \/ BeginRestart \/ FinishRestart \/ AwaitRoom \/ ForwardChange
  \/ BeginTeardown \/ FinishTeardown

Instance == PollInstance \/ TakeUpdate \/ StopInstance \/ InstanceFails \/ StatusEnds

Next ==
  \/ SignalShutdown \/ \E c \in Configs \cup {Bad} : WriteFile(c)
  \/ Opening \/ Watcher \/ MainLoop \/ Instance

Spec == Init /\ [][Next]_vars

\* The runtime polls every task that can go on, timers fire and notifications
\* arrive.  A select takes one of its ready branches at random, so the shutdown
\* branch is taken if it is ready again and again.
Fairness ==
  /\ WF_vars(Opening) /\ WF_vars(StartWatching \/ WatchFails)
  /\ WF_vars(Rescan \/ StopWatcher) /\ WF_vars(MainLoop)
  /\ SF_vars(StopDegraded) /\ SF_vars(StopWatcher) /\ SF_vars(BeginTeardown)
  /\ WF_vars(PollInstance) /\ WF_vars(TakeUpdate) /\ WF_vars(StopInstance)

FairSpec == Spec /\ Fairness

-----------------------------------------------------------------------------
(* Properties.                                                             *)

\* cfg after the events of s, one after the other.
Replay(cfg, s) ==
  LET after[i \in 0..Len(s)] == IF i = 0 THEN cfg ELSE Apply(after[i - 1], s[i])
  IN  after[Len(s)]

\* What the instance will run once everything that is queued has been applied.
Target ==
  IF sup.pc = "restarting" THEN Replay(sup.cfg, events)
  ELSE Replay(Replay(inst.cfg, updates), events)

\* Nothing is lost or applied in the wrong order between the file and a live
\* instance: its configuration plus what is queued for it, in two queues and in
\* the supervisor's hands, is the configuration the watcher read last.
InSync ==
  (sup.pc \in {"loop", "forwarding", "restarting"} /\ (inst.pc \in {"spawned", "running"} \/ sup.pc = "restarting")) =>
    LET m == RunMode(watcher.old, Flag) IN
    m # None /\ watcher.old[m] # None => Target[m] = watcher.old[m]

\* A reload never stops the process: the supervisor leaves its loop only for
\* the shutdown signal or because the file cannot be watched.
OnlyShutdownStops ==
  sup.pc \in {"joining", "exited"} => stop \/ watcher.pc = "failed"

\* A configuration that the watcher has read is taken over by the instance,
\* unless the instance ends or is being replaced or the process ends.
ReloadApplied ==
  \A c \in Configs :
    (watcher.old = c) ~>
      \/ watcher.old # c \/ inst.pc = "dead" \/ sup.pc \in {"restarting", "joining", "exited"}
      \/ RunMode(c, Flag) = None
      \/ inst.cfg # None /\ c[RunMode(c, Flag)] = inst.cfg[RunMode(c, Flag)]

\* A shutdown signal that comes before the main loop has subscribed to it is not
\* lost: the watcher has it, and the loop ends when the watcher does.  (The wait
\* for an instance that is being replaced is JoinCompletes.)
SignalHeard ==
  ("watcher" \in sig) ~> (sup.pc \in {"degraded", "restarting", "joining", "exited"})

\* The endpoint does not go on answering for an instance that has been replaced:
\* a listener of an earlier generation has been told to stop, even when its
\* instance failed and never was.
StatusCurrent == status.of = "earlier" => status.told

-----------------------------------------------------------------------------
(* What the repository says and the code does not do.                      *)

\* "stop the current generation and actually wait for it": the wait for an
\* instance that was told to stop comes to an end.
JoinCompletes == (sup.pc \in {"restarting", "joining"}) ~> (sup.pc \in {"loop", "exited"})
=============================================================================
