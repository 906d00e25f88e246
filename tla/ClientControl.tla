--------------------------- MODULE ClientControl ---------------------------
(***************************************************************************)
(* The client (src/src/client.rs) and the status it reports                *)
(* (src/src/runtime_status.rs): one task per service that keeps a control  *)
(* channel to the server, the data channels that the server asks it to     *)
(* open, hot reload and shutdown.                                          *)
(*                                                                         *)
(* A task runs ControlChannel::run again and again.  Each run that gets    *)
(* through its handshake has a RunDataChannelArgs of its own, shared with  *)
(* the data channels it spawns; those outlive the run.  The channel on     *)
(* which they ask for a rebuild belongs to the task and outlives runs too. *)
(***************************************************************************)
EXTENDS Naturals

CONSTANTS Names,      \* services
          Tasks,      \* control channel tasks; an id is reused after its end
          Gens,       \* RunDataChannelArgs of a task; reused once unused
          MaxOpen,    \* bound on the data channels of a run being set up
          Threshold,  \* MAX_CONSECUTIVE_DATA_CHANNEL_FAILURES
          None

Status == {"stopped", "connecting", "connected", "retrying"}

ASSUME NoneAssumption == None \notin Tasks \cup Gens \cup Names \cup Status
ASSUME MaxOpenAssumption == MaxOpen \in Nat
ASSUME ThresholdAssumption == Threshold \in Nat \ {0}

VARIABLES
  main,      \* Client::run
  handles,   \* its service_handles
  status,    \* the status of each service, None if it has no entry
  pc,        \* where each task is
  svc,       \* the service of each task
  told,      \* whether the task's shutdown sender was used or dropped
  gen,       \* the RunDataChannelArgs of the task's current run
  rebuild,   \* force_rebuild channel of the task (capacity 1) is full
  opening,   \* data channels of each run whose setup is in progress
  failures   \* consecutive_failures of each run

vars == <<main, handles, status, pc, svc, told, gen, rebuild, opening, failures>>
taskVars == <<pc, svc, told, gen>>
dataVars == <<rebuild, opening, failures>>

TypeOK ==
  /\ main \in {"running", "stopped"}
  /\ handles \in [Names -> Tasks \cup {None}]
  /\ status \in [Names -> Status \cup {None}]
  /\ pc \in [Tasks -> {"unused", "start", "dialing", "up", "failed", "backoff", "ended"}]
  /\ svc \in [Tasks -> Names \cup {None}]
  /\ told \in [Tasks -> BOOLEAN]
  /\ gen \in [Tasks -> Gens \cup {None}]
  /\ rebuild \in [Tasks -> BOOLEAN]
  /\ opening \in [Tasks -> [Gens -> 0..MaxOpen]]
  /\ failures \in [Tasks -> [Gens -> 0..Threshold]]

\* Nothing is configured yet: starting up is a sequence of additions.
Init ==
  /\ main = "running"
  /\ handles = [n \in Names |-> None]
  /\ status = [n \in Names |-> None]
  /\ pc = [t \in Tasks |-> "unused"]
  /\ svc = [t \in Tasks |-> None]
  /\ told = [t \in Tasks |-> FALSE]
  /\ gen = [t \in Tasks |-> None]
  /\ rebuild = [t \in Tasks |-> FALSE]
  /\ opening = [t \in Tasks |-> [g \in Gens |-> 0]]
  /\ failures = [t \in Tasks |-> [g \in Gens |-> 0]]

\* The client_* functions change the status of an existing entry only.
Report(n, s) == status' = IF status[n] = None THEN status ELSE [status EXCEPT ![n] = s]

Free(t) == pc[t] = "unused" /\ \A g \in Gens : opening[t][g] = 0

-----------------------------------------------------------------------------
(* Client::run and handle_hot_reload.                                      *)

\* Mutant of AddService: the handle of the previous task is kept alive.
AddServiceLeaksTask(n, t) ==
  /\ main = "running" /\ Free(t)
  /\ status' = [status EXCEPT ![n] = "stopped"]
  /\ handles' = [handles EXCEPT ![n] = t]
  /\ told' = [told EXCEPT ![t] = FALSE]
  /\ pc' = [pc EXCEPT ![t] = "start"] /\ svc' = [svc EXCEPT ![t] = n]
  /\ rebuild' = [rebuild EXCEPT ![t] = FALSE]
  /\ UNCHANGED <<main, gen, opening, failures>>

\* client_add() and ControlChannelHandle::new(); inserting the handle drops
\* the one of the task that served the name before.
AddService(n, t) ==
  /\ main = "running" /\ Free(t)
  /\ status' = [status EXCEPT ![n] = "stopped"]
  /\ handles' = [handles EXCEPT ![n] = t]
  /\ told' = [u \in Tasks |-> u # t /\ (told[u] \/ u = handles[n])]
  /\ pc' = [pc EXCEPT ![t] = "start"] /\ svc' = [svc EXCEPT ![t] = n]
  /\ rebuild' = [rebuild EXCEPT ![t] = FALSE]
  /\ UNCHANGED <<main, gen, opening, failures>>

DeleteService(n) ==
  /\ main = "running" /\ handles[n] # None
  /\ status' = [status EXCEPT ![n] = None]
  /\ handles' = [handles EXCEPT ![n] = None]
  /\ told' = [told EXCEPT ![handles[n]] = TRUE]
  /\ UNCHANGED <<main, pc, svc, gen, dataVars>>

\* Every service is marked stopped and its task is told to stop.
Shutdown ==
  /\ main = "running"
  /\ main' = "stopped"
  /\ status' = [n \in Names |-> IF handles[n] # None /\ status[n] # None THEN "stopped"
                               ELSE status[n]]
  /\ handles' = [n \in Names |-> None]
  /\ told' = [t \in Tasks |-> told[t] \/ \E n \in Names : handles[n] = t]
  /\ UNCHANGED <<pc, svc, gen, dataVars>>

-----------------------------------------------------------------------------
(* The task of a service: ControlChannel::run in the retry loop of          *)
(* ControlChannelHandle::new.                                              *)

Goto(t, l) == pc' = [pc EXCEPT ![t] = l]

Start(t) ==
  /\ pc[t] = "start"
  /\ Report(svc[t], "connecting") /\ Goto(t, "dialing")
  /\ UNCHANGED <<main, handles, svc, told, gen, dataVars>>

\* Resolve, connect, hello, auth and ack, none of which watches for shutdown.
DialOk(t) ==
  /\ pc[t] = "dialing"
  /\ \E g \in Gens : opening[t][g] = 0
  /\ gen' = [gen EXCEPT ![t] = CHOOSE g \in Gens : opening[t][g] = 0]
  /\ Report(svc[t], "connected") /\ Goto(t, "up")
  /\ UNCHANGED <<main, handles, svc, told, dataVars>>

DialFails(t) ==
  /\ pc[t] = "dialing"
  /\ Goto(t, "failed")
  /\ UNCHANGED <<main, handles, status, svc, told, gen, dataVars>>

\* The counter of a run goes with the last of its data channels.
EndRun(t) ==
  /\ gen' = [gen EXCEPT ![t] = None]
  /\ failures' = [failures EXCEPT ![t][gen[t]] = IF opening[t][gen[t]] = 0 THEN 0 ELSE @]

\* A read fails or no command came within heartbeat_timeout.
ConnectionLost(t) ==
  /\ pc[t] = "up"
  /\ Goto(t, "failed") /\ EndRun(t)
  /\ UNCHANGED <<main, handles, status, svc, told, rebuild, opening>>

Rebuild(t) ==
  /\ pc[t] = "up" /\ rebuild[t]
  /\ rebuild' = [rebuild EXCEPT ![t] = FALSE]
  /\ Goto(t, "failed") /\ EndRun(t)
  /\ UNCHANGED <<main, handles, status, svc, told, opening>>

NoticeShutdown(t) ==
  /\ pc[t] = "up" /\ told[t]
  /\ Goto(t, "ended") /\ EndRun(t)
  /\ UNCHANGED <<main, handles, status, svc, told, rebuild, opening>>

\* Mutant of Failed: the backoff policy can give up.
FailedGivesUp(t) ==
  /\ pc[t] = "failed"
  /\ \/ Goto(t, "ended") /\ UNCHANGED status
     \/ ~told[t] /\ Goto(t, "backoff") /\ Report(svc[t], "retrying")
  /\ UNCHANGED <<main, handles, svc, told, gen, dataVars>>

\* Mutant of Failed: shutdown is not looked at after a failed run.
FailedIgnoresShutdown(t) ==
  /\ pc[t] = "failed"
  /\ Goto(t, "backoff") /\ Report(svc[t], "retrying")
  /\ UNCHANGED <<main, handles, svc, told, gen, dataVars>>

\* run() returned an error.  The backoff has no max_elapsed_time, so it always
\* yields a delay.
Failed(t) ==
  /\ pc[t] = "failed"
  /\ IF told[t] THEN Goto(t, "ended") /\ UNCHANGED status
               ELSE Goto(t, "backoff") /\ Report(svc[t], "retrying")
  /\ UNCHANGED <<main, handles, svc, told, gen, dataVars>>

\* The sleep is not interrupted by shutdown, and nothing is checked after it.
BackoffOver(t) ==
  /\ pc[t] = "backoff"
  /\ Goto(t, "start")
  /\ UNCHANGED <<main, handles, status, svc, told, gen, dataVars>>

Retire(t) ==
  /\ Goto(t, "unused")
  /\ svc' = [svc EXCEPT ![t] = None] /\ told' = [told EXCEPT ![t] = FALSE]
  /\ rebuild' = [rebuild EXCEPT ![t] = FALSE]
  /\ UNCHANGED <<main, handles, gen, opening, failures>>

\* Mutant of Ended: the task ends without a last report.
EndedSilently(t) ==
  /\ pc[t] = "ended"
  /\ UNCHANGED status
  /\ Retire(t)

\* client_stopped(), and the task is gone with everything it owns.
Ended(t) ==
  /\ pc[t] = "ended"
  /\ Report(svc[t], "stopped")
  /\ Retire(t)

-----------------------------------------------------------------------------
(* Data channels: run_data_channel up to the command that starts forwarding *)

\* The server asks for a data channel.
OpenData(t) ==
  /\ pc[t] = "up" /\ opening[t][gen[t]] < MaxOpen
  /\ opening' = [opening EXCEPT ![t][gen[t]] = @ + 1]
  /\ UNCHANGED <<main, handles, status, taskVars, rebuild, failures>>

\* A data channel of run g leaves the setup phase; the counter becomes n.
Leave(t, g, n) ==
  /\ opening[t][g] > 0
  /\ opening' = [opening EXCEPT ![t][g] = @ - 1]
  /\ failures' = [failures EXCEPT ![t][g] = IF gen[t] # g /\ opening[t][g] = 1 THEN 0 ELSE n]
  /\ UNCHANGED <<main, handles, status, taskVars>>

DataStarts(t, g) == Leave(t, g, 0) /\ UNCHANGED rebuild

\* Mutant of DataFails: failures are counted and nobody is told.
DataFailsSilently(t, g) ==
  /\ Leave(t, g, IF failures[t][g] < Threshold THEN failures[t][g] + 1 ELSE Threshold)
  /\ UNCHANGED rebuild

\* note_data_channel_failure(): counts beyond the threshold are alike, a full
\* channel swallows the request and a task that has ended does not get it.
DataFails(t, g) ==
  LET n == IF failures[t][g] < Threshold THEN failures[t][g] + 1 ELSE Threshold IN
  /\ Leave(t, g, n)
  /\ rebuild' = [rebuild EXCEPT ![t] = @ \/ (n = Threshold /\ pc[t] # "unused")]

-----------------------------------------------------------------------------
Operator ==
  \/ Shutdown
  \/ \E n \in Names : DeleteService(n) \/ \E t \in Tasks : AddService(n, t)

Task(t) ==
  \/ Start(t) \/ DialOk(t) \/ DialFails(t) \/ ConnectionLost(t) \/ Rebuild(t)
  \/ NoticeShutdown(t) \/ Failed(t) \/ BackoffOver(t) \/ Ended(t)

Data(t) == OpenData(t) \/ \E g \in Gens : DataStarts(t, g) \/ DataFails(t, g)

Next == Operator \/ \E t \in Tasks : Task(t) \/ Data(t)

Spec == Init /\ [][Next]_vars

\* A task runs when it can.  A dial ends: the server closes a connection whose
\* handshake takes more than HELLO_AUTH_TIMEOUT.  A data channel is answered or
\* closed in the end, which frees its run.
TaskFairness(t) ==
  /\ WF_vars(Start(t)) /\ WF_vars(DialOk(t) \/ DialFails(t))
  /\ WF_vars(NoticeShutdown(t)) /\ WF_vars(Rebuild(t))
  /\ WF_vars(Failed(t)) /\ WF_vars(BackoffOver(t)) /\ WF_vars(Ended(t))

DataFairness(t) == \A g \in Gens : WF_vars(DataStarts(t, g) \/ DataFails(t, g))

Fairness == \A t \in Tasks : TaskFairness(t) /\ DataFairness(t)

FairSpec == Spec /\ Fairness

-----------------------------------------------------------------------------
(* Properties.                                                             *)

\* A service shown as connected has a task that is connected, or has just lost
\* its connection and will say so.
ConnectedHasTask ==
  \A n \in Names : status[n] = "connected" =>
    \E t \in Tasks : svc[t] = n /\ pc[t] \in {"up", "failed", "ended"}

\* The task behind a service's handle never stops trying, whatever happens to
\* its connections: only the handle's owner can end it.
HandledNeverGivesUp ==
  \A n \in Names : handles[n] # None =>
    /\ svc[handles[n]] = n /\ ~told[handles[n]]
    /\ pc[handles[n]] \in {"start", "dialing", "up", "failed", "backoff"}

\* No orphans: a task that runs and was not told to stop is the one behind its
\* service's handle, so replacing and deleting services never leaks one.
NoOrphanTask ==
  \A t \in Tasks : ~told[t] /\ pc[t] # "unused" => handles[svc[t]] = t

\* A task that is told to stop ends, even from the middle of a dial or a sleep.
ToldTaskEnds == \A t \in Tasks : told[t] ~> (pc[t] = "unused")

\* After a shutdown the status of every service settles at stopped.
ShutdownSettles == (main = "stopped") ~> [](\A n \in Names : status[n] \in {"stopped", None})

\* A run whose data channels keep failing is not kept: once the threshold is
\* reached the run ends, unless it has ended already.
FailuresForceRebuild ==
  \A t \in Tasks, g \in Gens :
    (pc[t] = "up" /\ gen[t] = g /\ failures[t][g] = Threshold) ~> (gen[t] # g \/ failures[t][g] = 0)

\* The inductive invariant: what the safety properties above rest on.
Inv ==
  /\ TypeOK /\ HandledNeverGivesUp /\ NoOrphanTask /\ ConnectedHasTask
  /\ \A t \in Tasks :
       /\ pc[t] = "unused" => ~told[t]
       /\ svc[t] = None <=> pc[t] = "unused"
       /\ gen[t] = None <=> pc[t] # "up"

=============================================================================
