------------------------ MODULE ClientControlProofs ------------------------
(***************************************************************************)
(* The client keeps exactly the tasks its configuration asks for, for every *)
(* set of services and every number of tasks, runs and data channels.      *)
(*                                                                         *)
(* HandledNeverGivesUp and NoOrphanTask support each other: a handle names *)
(* a task that is alive and was not told to stop, and such a task is named *)
(* by the handle of its service.  Inv adds which fields a task that is     *)
(* unused or between two runs holds.  The failure counters need CountInv   *)
(* on top of it.  Two of the liveness properties are proved as well: they  *)
(* need no ranking, only that each task moves through its phases in order. *)
(***************************************************************************)
EXTENDS ClientControl, TLAPS

\* A client with no service yet has no task, no handle and no status.
LEMMA InvInit == Init => Inv
  BY NoneAssumption, MaxOpenAssumption, ThresholdAssumption
  DEF Init, Inv, TypeOK, Status, HandledNeverGivesUp, NoOrphanTask, ConnectedHasTask

\* What a task shows once it has been connected and until it says otherwise.
Witness(t, n) == svc[t] = n /\ pc[t] \in {"up", "failed", "ended"}

\* Only task t moves: a service is still connected for its own task, or for t.
LEMMA ConnectedStep ==
  ASSUME Inv, NEW t \in Tasks,
         \A u \in Tasks \ {t} : pc'[u] = pc[u] /\ svc'[u] = svc[u],
         \A m \in Names : status'[m] = "connected" =>
           Witness(t, m)' \/ (status[m] = "connected" /\ ~Witness(t, m))
  PROVE  ConnectedHasTask'
<1> SUFFICES ASSUME NEW m \in Names, status'[m] = "connected"
             PROVE  \E u \in Tasks : Witness(u, m)'
  BY DEF ConnectedHasTask, Witness
<1>1. CASE Witness(t, m)'
  BY <1>1
<1>2. CASE status[m] = "connected" /\ ~Witness(t, m)
  <2>1. PICK u \in Tasks : Witness(u, m)
    BY <1>2 DEF Inv, ConnectedHasTask, Witness
  <2>2. Witness(u, m)'
    BY <1>2, <2>1 DEF Witness
  <2> QED  BY <2>2
<1> QED  BY <1>1, <1>2

\* A task moves on or, told to stop, to its end.
LEMMA HandlesStep ==
  ASSUME Inv, NEW t \in Tasks, UNCHANGED <<handles, svc, told>>,
         pc[t] # "unused", \A u \in Tasks \ {t} : pc'[u] = pc[u],
         \/ pc'[t] \in {"start", "dialing", "up", "failed", "backoff"}
         \/ pc'[t] = "ended" /\ told[t]
  PROVE  HandledNeverGivesUp' /\ NoOrphanTask'
<1>1. HandledNeverGivesUp'
  <2> SUFFICES ASSUME NEW n \in Names, handles[n] # None
               PROVE  /\ svc[handles[n]] = n /\ ~told[handles[n]]
                      /\ pc'[handles[n]] \in {"start", "dialing", "up", "failed", "backoff"}
    BY DEF HandledNeverGivesUp
  <2>1. /\ handles[n] \in Tasks /\ svc[handles[n]] = n /\ ~told[handles[n]]
        /\ pc[handles[n]] \in {"start", "dialing", "up", "failed", "backoff"}
    BY DEF Inv, TypeOK, HandledNeverGivesUp
  <2> QED  BY <2>1
<1>2. NoOrphanTask'
  <2> SUFFICES ASSUME NEW u \in Tasks, ~told[u], pc'[u] # "unused" PROVE handles[svc[u]] = u
    BY DEF NoOrphanTask
  <2>1. pc[u] # "unused"
    OBVIOUS
  <2> QED  BY <2>1 DEF Inv, NoOrphanTask
<1> QED  BY <1>1, <1>2

\* The owner of the handles: a replaced, deleted or stopped task is told so.
LEMMA OperatorInv == Inv /\ Operator => Inv'
<1> SUFFICES ASSUME Inv, Operator PROVE Inv'
  OBVIOUS
<1> USE NoneAssumption DEF Inv, Status, dataVars
<1>0. \A u \in Tasks : pc[u] # "unused" => svc[u] \in Names
  BY DEF TypeOK
<1>1. CASE Shutdown
  <2>1. TypeOK'
    BY <1>1 DEF Shutdown, TypeOK
  <2>2. HandledNeverGivesUp'
    BY <1>1 DEF Shutdown, HandledNeverGivesUp
  <2>3. ASSUME NEW u \in Tasks PROVE told'[u] <=> told[u] \/ \E n \in Names : handles[n] = u
    BY <1>1 DEF Shutdown
  <2>4. NoOrphanTask'
    <3> SUFFICES ASSUME NEW u \in Tasks, ~told'[u], pc[u] # "unused" PROVE FALSE
      BY <1>1 DEF Shutdown, NoOrphanTask
    <3> QED  BY <1>0, <2>3 DEF NoOrphanTask
  <2>5. ConnectedHasTask'
    BY <1>1 DEF Shutdown, TypeOK, ConnectedHasTask
  <2>6. ASSUME NEW u \in Tasks, pc[u] = "unused" PROVE ~told'[u]
    <3>1. ASSUME NEW n \in Names PROVE handles[n] # u
      <4>1. handles[n] # None => pc[handles[n]] # "unused"
        BY DEF HandledNeverGivesUp
      <4> QED  BY <2>6, <4>1
    <3> QED  BY <2>3, <2>6, <3>1
  <2> QED  BY <1>1, <2>1, <2>2, <2>4, <2>5, <2>6 DEF Shutdown
<1>2. ASSUME NEW n \in Names, DeleteService(n) PROVE Inv'
  <2>1. TypeOK'
    BY <1>2 DEF DeleteService, TypeOK
  <2>2. HandledNeverGivesUp' /\ NoOrphanTask'
    BY <1>2 DEF DeleteService, TypeOK, HandledNeverGivesUp, NoOrphanTask
  <2>3. ConnectedHasTask'
    BY <1>2 DEF DeleteService, TypeOK, ConnectedHasTask
  <2> QED  BY <1>2, <2>1, <2>2, <2>3 DEF DeleteService, TypeOK, HandledNeverGivesUp
<1>3. ASSUME NEW n \in Names, NEW t \in Tasks, AddService(n, t) PROVE Inv'
  <2> USE DEF Free
  <2>1. TypeOK'
    BY <1>3 DEF AddService, TypeOK
  <2>2. HandledNeverGivesUp'
    BY <1>3 DEF AddService, TypeOK, HandledNeverGivesUp
  <2>3. ASSUME NEW u \in Tasks PROVE told'[u] <=> u # t /\ (told[u] \/ u = handles[n])
    BY <1>3 DEF AddService
  <2>4. NoOrphanTask'
    <3> SUFFICES ASSUME NEW u \in Tasks, ~told'[u], pc'[u] # "unused"
                 PROVE  handles'[svc'[u]] = u
      BY DEF NoOrphanTask
    <3>1. CASE u = t
      BY <1>3, <3>1 DEF AddService, TypeOK
    <3>2. CASE u # t
      <4>1. ~told[u] /\ u # handles[n]
        BY <2>3, <3>2
      <4>2. pc[u] # "unused" /\ svc'[u] = svc[u]
        BY <1>3, <3>2 DEF AddService, TypeOK
      <4>3. handles[svc[u]] = u /\ svc[u] \in Names /\ svc[u] # n
        BY <1>0, <4>1, <4>2 DEF NoOrphanTask
      <4> QED  BY <1>3, <4>2, <4>3 DEF AddService, TypeOK
    <3> QED  BY <3>1, <3>2
  <2>5. ConnectedHasTask'
    <3>1. ~Witness(t, n) /\ \A m \in Names : ~Witness(t, m)
      BY <1>3 DEF AddService, Witness
    <3>2. \A m \in Names : status'[m] = "connected" => status[m] = "connected"
      BY <1>3 DEF AddService, TypeOK
    <3>3. \A u \in Tasks \ {t} : pc'[u] = pc[u] /\ svc'[u] = svc[u]
      BY <1>3 DEF AddService, TypeOK
    <3> QED  BY <3>1, <3>2, <3>3, ConnectedStep
  <2>6. ASSUME NEW u \in Tasks, pc'[u] = "unused" PROVE ~told'[u]
    <3>1. u # t /\ pc[u] = "unused"
      BY <1>3, <2>6 DEF AddService, TypeOK
    <3>2. ~told[u]
      BY <1>0, <3>1
    <3>3. handles[n] # u
      <4>1. handles[n] # None => pc[handles[n]] # "unused"
        BY DEF HandledNeverGivesUp
      <4>2. u # None
        BY NoneAssumption
      <4> QED  BY <3>1, <4>1, <4>2
    <3> QED  BY <2>3, <3>2, <3>3
  <2> QED  BY <1>3, <2>1, <2>2, <2>4, <2>5, <2>6 DEF AddService, TypeOK
<1> QED  BY <1>1, <1>2, <1>3 DEF Operator

\* A report never invents a status and only a connected task reports it.
LEMMA ReportType ==
  ASSUME TypeOK, NEW n \in Names, NEW s \in Status, Report(n, s)
  PROVE  /\ status' \in [Names -> Status \cup {None}]
         /\ \A m \in Names : status'[m] = "connected" =>
              (status[m] = "connected" /\ m # n) \/ (m = n /\ s = "connected")
<1> USE NoneAssumption DEF TypeOK, Status
<1>1. CASE status[n] = None
  BY <1>1 DEF Report
<1>2. CASE status[n] # None
  BY <1>2 DEF Report
<1> QED  BY <1>1, <1>2

\* One step of a task, from its first dial to its end.
LEMMA TaskInv == ASSUME Inv, NEW t \in Tasks, Task(t) PROVE Inv'
<1> USE NoneAssumption DEF Inv, Status, dataVars, taskVars, Goto
<1>0. pc[t] # "unused" => svc[t] \in Names
  BY DEF TypeOK
<1>1. CASE Start(t)
  <2>1. HandledNeverGivesUp' /\ NoOrphanTask'
    BY <1>1, HandlesStep DEF Start, TypeOK
  <2>2. ConnectedHasTask'
    BY <1>0, <1>1, ReportType, ConnectedStep DEF Start, TypeOK, Witness
  <2> QED  BY <1>0, <1>1, <2>1, <2>2, ReportType DEF Start, TypeOK
<1>2. CASE DialOk(t)
  <2>1. /\ svc[t] \in Names
        /\ gen' \in [Tasks -> Gens \cup {None}]
        /\ \A u \in Tasks : gen'[u] = IF u = t THEN gen'[t] ELSE gen[u]
        /\ gen'[t] \in Gens
    BY <1>0, <1>2 DEF DialOk, TypeOK
  <2>2. TypeOK'
    BY <1>2, <2>1, ReportType DEF DialOk, TypeOK
  <2>3. HandledNeverGivesUp' /\ NoOrphanTask'
    BY <1>2, HandlesStep DEF DialOk, TypeOK
  <2>4. ConnectedHasTask'
    BY <1>2, <2>1, ReportType, ConnectedStep DEF DialOk, TypeOK, Witness
  <2> QED  BY <1>2, <2>1, <2>2, <2>3, <2>4 DEF DialOk, TypeOK
<1>3. CASE DialFails(t)
  <2>1. HandledNeverGivesUp' /\ NoOrphanTask'
    BY <1>3, HandlesStep DEF DialFails, TypeOK
  <2>2. ConnectedHasTask'
    BY <1>3, ConnectedStep DEF DialFails, TypeOK, Witness
  <2> QED  BY <1>3, <2>1, <2>2 DEF DialFails, TypeOK
<1>4. ASSUME pc[t] = "up", EndRun(t),
             Goto(t, "failed") \/ (Goto(t, "ended") /\ told[t]),
             rebuild' \in [Tasks -> BOOLEAN],
             UNCHANGED <<main, handles, status, svc, told, opening>>
      PROVE  Inv'
  <2>1. TypeOK'
    <3>1. gen[t] \in Gens
      BY <1>4 DEF TypeOK
    <3>2. failures' \in [Tasks -> [Gens -> 0..Threshold]]
      BY <1>4, <3>1, ThresholdAssumption DEF EndRun, TypeOK
    <3> QED  BY <1>4, <3>2 DEF EndRun, TypeOK
  <2>2. /\ \A u \in Tasks \ {t} : pc'[u] = pc[u]
        /\ pc'[t] = "failed" \/ (pc'[t] = "ended" /\ told[t])
    BY <1>4 DEF TypeOK
  <2>3. HandledNeverGivesUp' /\ NoOrphanTask'
    BY <1>4, <2>2, HandlesStep
  <2>4. ConnectedHasTask'
    BY <1>4, <2>2, ConnectedStep DEF Witness
  <2>5. \A u \in Tasks : gen'[u] = IF u = t THEN None ELSE gen[u]
    BY <1>4 DEF EndRun, TypeOK
  <2> QED  BY <1>4, <2>1, <2>2, <2>3, <2>4, <2>5
<1>5. CASE ConnectionLost(t)
  BY <1>4, <1>5 DEF ConnectionLost, TypeOK
<1>6. CASE Rebuild(t)
  BY <1>4, <1>6 DEF Rebuild, TypeOK
<1>7. CASE NoticeShutdown(t)
  BY <1>4, <1>7 DEF NoticeShutdown, TypeOK
<1>8. CASE Failed(t)
  <2>1. CASE told[t]
    <3>1. HandledNeverGivesUp' /\ NoOrphanTask'
      BY <1>8, <2>1, HandlesStep DEF Failed, TypeOK
    <3>2. ConnectedHasTask'
      BY <1>8, <2>1, ConnectedStep DEF Failed, TypeOK, Witness
    <3>3. TypeOK'
      <4>1. pc' = [pc EXCEPT ![t] = "ended"]
        BY <1>8, <2>1 DEF Failed
      <4> QED  BY <1>8, <2>1, <4>1 DEF Failed, TypeOK
    <3> QED  BY <1>8, <2>1, <3>1, <3>2, <3>3 DEF Failed, TypeOK
  <2>2. CASE ~told[t]
    <3>1. HandledNeverGivesUp' /\ NoOrphanTask'
      BY <1>8, <2>2, HandlesStep DEF Failed, TypeOK
    <3>2. Report(svc[t], "retrying") /\ Goto(t, "backoff") /\ svc' = svc
      BY <1>8, <2>2 DEF Failed
    <3>3. ConnectedHasTask'
      BY <1>0, <1>8, <3>2, ReportType, ConnectedStep DEF Failed, TypeOK, Witness
    <3> QED  BY <1>0, <1>8, <3>1, <3>2, <3>3, ReportType DEF Failed, TypeOK
  <2> QED  BY <2>1, <2>2
<1>9. CASE BackoffOver(t)
  <2>1. HandledNeverGivesUp' /\ NoOrphanTask'
    BY <1>9, HandlesStep DEF BackoffOver, TypeOK
  <2>2. ConnectedHasTask'
    BY <1>9, ConnectedStep DEF BackoffOver, TypeOK, Witness
  <2> QED  BY <1>9, <2>1, <2>2 DEF BackoffOver, TypeOK
<1>10. CASE Ended(t)
  <2>1. TypeOK'
    BY <1>0, <1>10, ReportType DEF Ended, Retire, TypeOK
  <2>2. HandledNeverGivesUp' /\ NoOrphanTask'
    BY <1>10 DEF Ended, Retire, TypeOK, HandledNeverGivesUp, NoOrphanTask
  <2>3. ConnectedHasTask'
    BY <1>0, <1>10, ReportType, ConnectedStep DEF Ended, Retire, TypeOK, Witness
  <2> QED  BY <1>10, <2>1, <2>2, <2>3 DEF Ended, Retire, TypeOK
<1> QED  BY <1>1, <1>2, <1>3, <1>5, <1>6, <1>7, <1>8, <1>9, <1>10 DEF Task

\* Data channels count failures; they touch neither tasks nor handles.
LEMMA DataInv == ASSUME Inv, NEW t \in Tasks, Data(t) PROVE Inv'
<1> USE NoneAssumption DEF Inv, taskVars
<1>1. UNCHANGED <<main, handles, status, taskVars>>
  BY DEF Data, OpenData, DataStarts, DataFails, Leave
<1>2. TypeOK'
  <2>1. CASE OpenData(t)
    <3>1. gen[t] \in Gens
      BY <2>1 DEF OpenData, TypeOK
    <3>2. opening' \in [Tasks -> [Gens -> 0..MaxOpen]]
      BY <2>1, <3>1, MaxOpenAssumption DEF OpenData, TypeOK
    <3> QED  BY <1>1, <2>1, <3>2 DEF OpenData, TypeOK
  <2>2. ASSUME NEW g \in Gens, NEW n \in 0..Threshold, Leave(t, g, n),
               rebuild' \in [Tasks -> BOOLEAN]
        PROVE  TypeOK'
    <3>1. opening' \in [Tasks -> [Gens -> 0..MaxOpen]]
      BY <2>2, MaxOpenAssumption DEF Leave, TypeOK
    <3>2. failures' \in [Tasks -> [Gens -> 0..Threshold]]
      BY <2>2, ThresholdAssumption DEF Leave, TypeOK
    <3> QED  BY <1>1, <2>2, <3>1, <3>2 DEF TypeOK
  <2>3. ASSUME NEW g \in Gens, DataStarts(t, g) PROVE TypeOK'
    BY <2>2, <2>3, ThresholdAssumption DEF DataStarts, TypeOK
  <2>4. ASSUME NEW g \in Gens, DataFails(t, g) PROVE TypeOK'
    <3> DEFINE n == IF failures[t][g] < Threshold THEN failures[t][g] + 1 ELSE Threshold
    <3>1. n \in 0..Threshold
      BY ThresholdAssumption DEF TypeOK
    <3>2. Leave(t, g, n) /\ rebuild' \in [Tasks -> BOOLEAN]
      BY <2>4 DEF DataFails, TypeOK
    <3> QED  BY <2>2, <3>1, <3>2
  <2> QED  BY <2>1, <2>3, <2>4 DEF Data
<1> QED  BY <1>1, <1>2 DEF HandledNeverGivesUp, NoOrphanTask, ConnectedHasTask

\* Every step of the client keeps the invariant.
LEMMA InvStep == Inv /\ [Next]_vars => Inv'
<1>1. ASSUME Inv, UNCHANGED vars PROVE Inv'
  BY <1>1 DEF vars, Inv, TypeOK, HandledNeverGivesUp, NoOrphanTask, ConnectedHasTask
<1> QED  BY <1>1, OperatorInv, TaskInv, DataInv DEF Next

\* The state of a client is always of the shape client.rs gives it, and its
\* inductive invariant holds.
THEOREM ClientInvariant == Spec => []Inv
  BY InvInit, InvStep, PTL DEF Spec

\* However services are added, replaced and deleted while connections come and
\* go, no task of the client leaks (ClientConfigChange in Client::run).
THEOREM ClientTasks == Spec => []NoOrphanTask
<1>1. Inv => NoOrphanTask
  BY DEF Inv
<1> QED  BY <1>1, ClientInvariant, PTL

\* The task of a configured service never gives up (ControlChannelHandle::new).
THEOREM ServicesKeepTrying == Spec => []HandledNeverGivesUp
<1>1. Inv => HandledNeverGivesUp
  BY DEF Inv
<1> QED  BY <1>1, ClientInvariant, PTL

\* A service is not shown as connected without a task that holds the connection.
THEOREM ClientConnectedIsBacked == Spec => []ConnectedHasTask
<1>1. Inv => ConnectedHasTask
  BY DEF Inv
<1> QED  BY <1>1, ClientInvariant, PTL

-----------------------------------------------------------------------------
(* Failing data channels.                                                  *)

\* A run whose counter has reached the threshold has asked for its rebuild.
RebuildPending ==
  \A t \in Tasks, g \in Gens :
    pc[t] = "up" /\ gen[t] = g /\ failures[t][g] = Threshold => rebuild[t]

\* A run that is over and has no data channel left has no count.
NoOldCount ==
  \A t \in Tasks, g \in Gens : gen[t] # g /\ opening[t][g] = 0 => failures[t][g] = 0

\* The part of the inductive invariant that the counters need: a count of an old run
\* without data channels would be found by the run that reuses its place.
CountInv == RebuildPending /\ NoOldCount

\* No task has counted a failure yet.
LEMMA CountInit == Init => CountInv
  BY ThresholdAssumption DEF Init, CountInv, RebuildPending, NoOldCount

\* What a step leaves of the counters of the tasks it is not about.
LEMMA CountKeeps ==
  ASSUME Inv, CountInv, NEW t \in Tasks,
         \A u \in Tasks \ {t} : /\ pc'[u] = pc[u] /\ gen'[u] = gen[u] /\ rebuild'[u] = rebuild[u]
                                /\ opening'[u] = opening[u] /\ failures'[u] = failures[u],
         \A g \in Gens : pc'[t] = "up" /\ gen'[t] = g /\ failures'[t][g] = Threshold => rebuild'[t],
         \A g \in Gens : gen'[t] # g /\ opening'[t][g] = 0 => failures'[t][g] = 0
  PROVE  CountInv'
  BY DEF CountInv, RebuildPending, NoOldCount

\* Adding, deleting and shutting down touch no counter; a new task has no run.
LEMMA CountOperator == ASSUME Inv, CountInv, Operator PROVE CountInv'
<1>1. CASE Shutdown \/ \E n \in Names : DeleteService(n)
  <2>1. UNCHANGED <<pc, gen, rebuild, opening, failures>>
    BY <1>1 DEF Shutdown, DeleteService, dataVars
  <2> QED  BY <2>1 DEF CountInv, RebuildPending, NoOldCount
<1>2. ASSUME NEW n \in Names, NEW t \in Tasks, AddService(n, t) PROVE CountInv'
  <2>1. /\ pc' = [pc EXCEPT ![t] = "start"] /\ rebuild' = [rebuild EXCEPT ![t] = FALSE]
        /\ UNCHANGED <<gen, opening, failures>>
    BY <1>2 DEF AddService
  <2>2. /\ pc'[t] = "start"
        /\ \A u \in Tasks \ {t} : pc'[u] = pc[u] /\ rebuild'[u] = rebuild[u]
    BY <2>1 DEF Inv, TypeOK
  <2> QED  BY <2>1, <2>2, CountKeeps DEF CountInv, NoOldCount
<1> QED  BY <1>1, <1>2 DEF Operator

\* A new run takes a place whose count is 0, and a run that ends leaves its count
\* only to data channels that are still opening.
LEMMA CountTask == ASSUME Inv, CountInv, NEW t \in Tasks, Task(t) PROVE CountInv'
<1> USE DEF Goto, dataVars
<1>1. CASE Start(t) \/ DialFails(t) \/ Failed(t) \/ BackoffOver(t) \/ Ended(t)
  <2>1. /\ UNCHANGED <<gen, opening, failures>> /\ pc'[t] # "up"
        /\ \A u \in Tasks \ {t} : pc'[u] = pc[u] /\ rebuild'[u] = rebuild[u]
    BY <1>1 DEF Start, DialFails, Failed, BackoffOver, Ended, Retire, Inv, TypeOK
  <2> QED  BY <2>1, CountKeeps DEF CountInv, NoOldCount
<1>2. CASE DialOk(t)
  <2>1. PICK g \in Gens : opening[t][g] = 0 /\ gen' = [gen EXCEPT ![t] = g]
    BY <1>2 DEF DialOk
  <2>2. /\ UNCHANGED <<rebuild, opening, failures>> /\ gen[t] = None
        /\ \A u \in Tasks \ {t} : pc'[u] = pc[u] /\ gen'[u] = gen[u]
        /\ gen'[t] = g
    BY <1>2, <2>1 DEF DialOk, Inv, TypeOK
  <2>3. failures[t][g] = 0 /\ \A h \in Gens : opening[t][h] = 0 => failures[t][h] = 0
    BY <2>1, <2>2, NoneAssumption DEF CountInv, NoOldCount
  <2> QED  BY <2>1, <2>2, <2>3, CountKeeps, ThresholdAssumption
<1>3. ASSUME pc[t] = "up", EndRun(t), UNCHANGED opening,
             Goto(t, "failed") \/ Goto(t, "ended"),
             \A u \in Tasks \ {t} : rebuild'[u] = rebuild[u]
      PROVE  CountInv'
  <2>1. gen[t] \in Gens
    BY <1>3 DEF Inv, TypeOK
  <2>2. /\ pc'[t] # "up" /\ gen'[t] = None
        /\ \A u \in Tasks \ {t} : pc'[u] = pc[u] /\ gen'[u] = gen[u] /\ failures'[u] = failures[u]
    BY <1>3 DEF EndRun, Inv, TypeOK
  <2>3. ASSUME NEW g \in Gens, opening[t][g] = 0 PROVE failures'[t][g] = 0
    BY <1>3, <2>1, <2>3 DEF EndRun, Inv, TypeOK, CountInv, NoOldCount
  <2> QED  BY <1>3, <2>2, <2>3, CountKeeps
<1>4. CASE ConnectionLost(t)
  BY <1>3, <1>4 DEF ConnectionLost
<1>5. CASE Rebuild(t)
  BY <1>3, <1>5 DEF Rebuild, Inv, TypeOK
<1>6. CASE NoticeShutdown(t)
  BY <1>3, <1>6 DEF NoticeShutdown
<1> QED  BY <1>1, <1>2, <1>4, <1>5, <1>6 DEF Task

\* What a data channel that leaves its setup does to the counters.
LEMMA LeaveCounts ==
  ASSUME Inv, NEW t \in Tasks, NEW g \in Gens, NEW n \in 0..Threshold, Leave(t, g, n)
  PROVE  /\ UNCHANGED <<pc, gen>>
         /\ \A u \in Tasks \ {t} : opening'[u] = opening[u] /\ failures'[u] = failures[u]
         /\ \A h \in Gens \ {g} : opening'[t][h] = opening[t][h] /\ failures'[t][h] = failures[t][h]
         /\ opening'[t][g] = opening[t][g] - 1
         /\ failures'[t][g] = IF gen[t] # g /\ opening[t][g] = 1 THEN 0 ELSE n
  BY DEF Leave, taskVars, Inv, TypeOK

\* The failure that reaches the threshold asks for the rebuild in the same step.
LEMMA CountData == ASSUME Inv, CountInv, NEW t \in Tasks, Data(t) PROVE CountInv'
<1> USE ThresholdAssumption, MaxOpenAssumption
<1>1. CASE OpenData(t)
  <2>1. gen[t] \in Gens
    BY <1>1 DEF OpenData, Inv, TypeOK
  <2>2. /\ UNCHANGED <<pc, gen, rebuild, failures>>
        /\ \A u \in Tasks \ {t} : opening'[u] = opening[u]
        /\ \A h \in Gens : gen[t] # h => opening'[t][h] = opening[t][h]
    BY <1>1, <2>1 DEF OpenData, taskVars, Inv, TypeOK
  <2> QED  BY <2>2, CountKeeps DEF CountInv, RebuildPending, NoOldCount
<1>2. ASSUME NEW g \in Gens, NEW n \in 0..Threshold, Leave(t, g, n),
             \A u \in Tasks \ {t} : rebuild'[u] = rebuild[u],
             rebuild[t] => rebuild'[t],
             pc[t] = "up" /\ n = Threshold => rebuild'[t]
      PROVE  CountInv'
  <2>1. ASSUME NEW h \in Gens, pc'[t] = "up", gen'[t] = h, failures'[t][h] = Threshold
        PROVE  rebuild'[t]
    <3>1. CASE h = g
      BY <1>2, <2>1, <3>1, LeaveCounts
    <3>2. CASE h # g
      BY <1>2, <2>1, <3>2, LeaveCounts DEF CountInv, RebuildPending
    <3> QED  BY <3>1, <3>2
  <2>2. ASSUME NEW h \in Gens, gen'[t] # h, opening'[t][h] = 0 PROVE failures'[t][h] = 0
    <3>1. CASE h = g
      <4>1. opening[t][g] \in Nat
        BY DEF Inv, TypeOK
      <4> QED  BY <1>2, <2>2, <3>1, <4>1, LeaveCounts
    <3>2. CASE h # g
      BY <1>2, <2>2, <3>2, LeaveCounts DEF CountInv, NoOldCount
    <3> QED  BY <3>1, <3>2
  <2> QED  BY <1>2, <2>1, <2>2, LeaveCounts, CountKeeps
<1>3. ASSUME NEW g \in Gens, DataStarts(t, g) PROVE CountInv'
  BY <1>2, <1>3 DEF DataStarts
<1>4. ASSUME NEW g \in Gens, DataFails(t, g) PROVE CountInv'
  <2> DEFINE n == IF failures[t][g] < Threshold THEN failures[t][g] + 1 ELSE Threshold
  <2>1. n \in 0..Threshold /\ Leave(t, g, n)
    BY <1>4 DEF DataFails, Inv, TypeOK
  <2>2. rebuild' = [rebuild EXCEPT ![t] = rebuild[t] \/ (n = Threshold /\ pc[t] # "unused")]
    BY <1>4 DEF DataFails
  <2> HIDE DEF n
  <2>3. /\ \A u \in Tasks \ {t} : rebuild'[u] = rebuild[u]
        /\ rebuild'[t] = (rebuild[t] \/ (n = Threshold /\ pc[t] # "unused"))
    BY <2>2 DEF Inv, TypeOK
  <2> QED  BY <1>2, <2>1, <2>3
<1> QED  BY <1>1, <1>3, <1>4 DEF Data

\* No step of the client breaks the counters.
LEMMA CountStep == Inv /\ CountInv /\ [Next]_vars => CountInv'
<1>1. ASSUME CountInv, UNCHANGED vars PROVE CountInv'
  BY <1>1 DEF vars, CountInv, RebuildPending, NoOldCount
<1> QED  BY <1>1, CountOperator, CountTask, CountData DEF Next

\* The request to rebuild a run is never missing when its failures have reached the
\* threshold (note_data_channel_failure), though the count and the request are kept in
\* different places and data channels of an earlier run still fail.
THEOREM RebuildRequested == Spec => []RebuildPending
<1>1. Spec => []CountInv
  BY CountInit, CountStep, ClientInvariant, PTL DEF Spec
<1>2. CountInv => RebuildPending
  BY DEF CountInv
<1> QED  BY <1>1, <1>2, PTL

-----------------------------------------------------------------------------
(* Progress.  Weak fairness speaks of an action being ENABLED, which the   *)
(* prover cannot expand.  GuardsEnable says what the guards of the task's  *)
(* actions are; it follows from their definitions, TLC finds it to be an   *)
(* invariant, and the theorems name it as their hypothesis.                *)

\* A task whose guard holds can take the step: the rest of each action only assigns.
GuardsEnable ==
  \A t \in Tasks :
    /\ pc[t] = "start" => ENABLED <<Start(t)>>_vars
    /\ pc[t] = "dialing" => ENABLED <<DialOk(t) \/ DialFails(t)>>_vars
    /\ pc[t] = "up" /\ told[t] => ENABLED <<NoticeShutdown(t)>>_vars
    /\ pc[t] = "up" /\ rebuild[t] => ENABLED <<Rebuild(t)>>_vars
    /\ pc[t] = "failed" => ENABLED <<Failed(t)>>_vars
    /\ pc[t] = "backoff" => ENABLED <<BackoffOver(t)>>_vars
    /\ pc[t] = "ended" => ENABLED <<Ended(t)>>_vars

\* A run whose count is full keeps it until the run ends or a data channel starts.
LEMMA FullCountLeaves ==
  ASSUME Inv, NEW t \in Tasks, NEW g \in Gens, [Next]_vars,
         pc[t] = "up", gen[t] = g, failures[t][g] = Threshold
  PROVE  \/ pc'[t] = "up" /\ gen'[t] = g /\ failures'[t][g] = Threshold
         \/ gen'[t] # g \/ failures'[t][g] = 0
<1> USE NoneAssumption, ThresholdAssumption
<1>1. CASE UNCHANGED vars
  BY <1>1 DEF vars
<1>2. CASE Operator
  <2>1. UNCHANGED <<gen, failures>> /\ pc'[t] = pc[t]
    BY <1>2 DEF Operator, Shutdown, DeleteService, AddService, Free, dataVars, Inv, TypeOK
  <2> QED  BY <2>1
<1>3. ASSUME NEW u \in Tasks, Task(u)
      PROVE  gen'[t] # g \/ (pc'[t] = pc[t] /\ gen'[t] = g /\ failures'[t][g] = failures[t][g])
  <2>1. CASE u = t
    BY <1>3, <2>1 DEF Task, Start, DialOk, DialFails, ConnectionLost, Rebuild,
                      NoticeShutdown, Failed, BackoffOver, Ended, EndRun, Inv, TypeOK
  <2>2. CASE u # t
    <3>1. pc'[t] = pc[t] /\ gen'[t] = gen[t]
      BY <1>3, <2>2 DEF Task, Start, DialOk, DialFails, ConnectionLost, Rebuild,
                        NoticeShutdown, Failed, BackoffOver, Ended, EndRun, Retire, Goto, Inv, TypeOK
    <3>2. failures'[t] = failures[t]
      BY <1>3, <2>2 DEF Task, Start, DialOk, DialFails, ConnectionLost, Rebuild,
                        NoticeShutdown, Failed, BackoffOver, Ended, EndRun, Retire, dataVars, Inv, TypeOK
    <3> QED  BY <3>1, <3>2
  <2> QED  BY <2>1, <2>2
<1>4. ASSUME NEW u \in Tasks, Data(u)
      PROVE  UNCHANGED <<pc, gen>> /\ failures'[t][g] \in {0, Threshold}
  <2>1. CASE OpenData(u)
    BY <2>1 DEF OpenData, taskVars
  <2>2. ASSUME NEW h \in Gens, DataStarts(u, h)
        PROVE  UNCHANGED <<pc, gen>> /\ failures'[t][g] \in {0, Threshold}
    BY <2>2, LeaveCounts DEF DataStarts
  <2>3. ASSUME NEW h \in Gens, DataFails(u, h)
        PROVE  UNCHANGED <<pc, gen>> /\ failures'[t][g] \in {0, Threshold}
    <3> DEFINE n == IF failures[u][h] < Threshold THEN failures[u][h] + 1 ELSE Threshold
    <3>1. n \in 0..Threshold /\ Leave(u, h, n)
      BY <2>3 DEF DataFails, Inv, TypeOK
    <3>2. u = t /\ h = g => n = Threshold
      OBVIOUS
    <3> HIDE DEF n
    <3> QED  BY <3>1, <3>2, LeaveCounts
  <2> QED  BY <1>4, <2>1, <2>2, <2>3 DEF Data
<1> QED  BY <1>1, <1>2, <1>3, <1>4 DEF Next

\* Data channels that keep failing force a new run of the control channel
\* (note_data_channel_failure and ControlChannel::run).
THEOREM FailuresRebuild == FairSpec /\ []GuardsEnable => FailuresForceRebuild
<1>1. ASSUME NEW t \in Tasks, NEW g \in Gens
      PROVE  FairSpec /\ []GuardsEnable =>
               ((pc[t] = "up" /\ gen[t] = g /\ failures[t][g] = Threshold)
                  ~> (gen[t] # g \/ failures[t][g] = 0))
  <2> DEFINE P == pc[t] = "up" /\ gen[t] = g /\ failures[t][g] = Threshold
             Q == gen[t] # g \/ failures[t][g] = 0
  <2>1. Inv /\ P /\ [Next]_vars => P' \/ Q'
    BY FullCountLeaves
  <2>2. Inv /\ P /\ <<Rebuild(t)>>_vars => Q'
    BY NoneAssumption DEF Rebuild, EndRun, Inv, TypeOK
  <2>3. RebuildPending /\ GuardsEnable /\ P => ENABLED <<Rebuild(t)>>_vars
    BY DEF RebuildPending, GuardsEnable
  <2>4. Fairness => TaskFairness(t)
    BY DEF Fairness
  <2> QED  BY <2>1, <2>2, <2>3, <2>4, ClientInvariant, RebuildRequested, PTL
           DEF FairSpec, Spec, TaskFairness
<1> QED  BY <1>1 DEF FailuresForceRebuild

\* Where a task that was told to stop may go.
ToldMoves ==
  {<<"backoff", "start">>, <<"start", "dialing">>, <<"dialing", "up">>, <<"dialing", "failed">>,
   <<"up", "failed">>, <<"up", "ended">>, <<"failed", "ended">>}

\* A task that was told to stop only moves forward, to its end: it cannot be untold,
\* and a failed run does not go back to sleep.
LEMMA ToldTaskMoves ==
  ASSUME Inv, NEW t \in Tasks, told[t], [Next]_vars
  PROVE  \/ told'[t] /\ pc'[t] = pc[t]
         \/ told'[t] /\ <<pc[t], pc'[t]>> \in ToldMoves
         \/ pc[t] = "ended" /\ pc'[t] = "unused"
<1>0. pc[t] # "unused"
  BY DEF Inv
<1>1. CASE UNCHANGED vars
  BY <1>1 DEF vars
<1>2. CASE Operator
  <2>1. told'[t] /\ pc'[t] = pc[t]
    BY <1>0, <1>2 DEF Operator, Shutdown, DeleteService, AddService, Free, Inv, TypeOK
  <2> QED  BY <2>1
<1>3. ASSUME NEW u \in Tasks \ {t}, Task(u) PROVE told'[t] /\ pc'[t] = pc[t]
  BY <1>3 DEF Task, Start, DialOk, DialFails, ConnectionLost, Rebuild, NoticeShutdown, Failed,
              BackoffOver, Ended, Retire, Goto, Inv, TypeOK
<1>4. ASSUME Task(t)
      PROVE  \/ told'[t] /\ <<pc[t], pc'[t]>> \in ToldMoves
             \/ pc[t] = "ended" /\ pc'[t] = "unused"
  BY <1>4 DEF Task, Start, DialOk, DialFails, ConnectionLost, Rebuild, NoticeShutdown, Failed,
              BackoffOver, Ended, Retire, Goto, Inv, TypeOK, ToldMoves
<1>5. ASSUME NEW u \in Tasks, Data(u) PROVE told'[t] /\ pc'[t] = pc[t]
  BY <1>5 DEF Data, OpenData, DataStarts, DataFails, Leave, taskVars
<1> QED  BY <1>1, <1>2, <1>3, <1>4, <1>5 DEF Next

\* A task that is told to stop ends, wherever it was: in a dial, in a run or in the
\* sleep between two (ControlChannelHandle::shutdown and the retry loop).
THEOREM ToldTasksEnd == FairSpec /\ []GuardsEnable => ToldTaskEnds
<1>1. ASSUME NEW t \in Tasks
      PROVE  FairSpec /\ []GuardsEnable => (told[t] ~> (pc[t] = "unused"))
  <2> DEFINE B == told[t] /\ pc[t] = "backoff"
             S == told[t] /\ pc[t] = "start"
             D == told[t] /\ pc[t] = "dialing"
             U == told[t] /\ pc[t] = "up"
             F == told[t] /\ pc[t] = "failed"
             E == told[t] /\ pc[t] = "ended"
             Q == pc[t] = "unused"
  <2>1. Inv /\ told[t] => B \/ S \/ D \/ U \/ F \/ E
    BY DEF Inv, TypeOK
  <2>2. ASSUME Inv, [Next]_vars
        PROVE  /\ B => B' \/ S'
               /\ S => S' \/ D'
               /\ D => D' \/ U' \/ F'
               /\ U => U' \/ F' \/ E'
               /\ F => F' \/ E'
               /\ E => E' \/ Q'
    BY <2>2, ToldTaskMoves DEF ToldMoves
  <2>3. ASSUME Inv
        PROVE  /\ B /\ <<BackoffOver(t)>>_vars => ~B'
               /\ S /\ <<Start(t)>>_vars => ~S'
               /\ D /\ <<DialOk(t) \/ DialFails(t)>>_vars => ~D'
               /\ U /\ <<NoticeShutdown(t)>>_vars => ~U'
               /\ F /\ <<Failed(t)>>_vars => ~F'
               /\ E /\ <<Ended(t)>>_vars => ~E'
    BY <2>3 DEF Start, DialOk, DialFails, NoticeShutdown, Failed, BackoffOver, Ended, Retire, Goto,
                Inv, TypeOK
  <2>4. ASSUME GuardsEnable
        PROVE  /\ B => ENABLED <<BackoffOver(t)>>_vars
               /\ S => ENABLED <<Start(t)>>_vars
               /\ D => ENABLED <<DialOk(t) \/ DialFails(t)>>_vars
               /\ U => ENABLED <<NoticeShutdown(t)>>_vars
               /\ F => ENABLED <<Failed(t)>>_vars
               /\ E => ENABLED <<Ended(t)>>_vars
    BY <2>4 DEF GuardsEnable
  <2>5. Fairness => TaskFairness(t)
    BY DEF Fairness
  <2>6. FairSpec /\ []GuardsEnable => (B ~> S)
    BY <2>2, <2>3, <2>4, <2>5, ClientInvariant, PTL DEF FairSpec, Spec, TaskFairness
  <2>7. FairSpec /\ []GuardsEnable => (S ~> D)
    BY <2>2, <2>3, <2>4, <2>5, ClientInvariant, PTL DEF FairSpec, Spec, TaskFairness
  <2>8. FairSpec /\ []GuardsEnable => (D ~> (U \/ F))
    BY <2>2, <2>3, <2>4, <2>5, ClientInvariant, PTL DEF FairSpec, Spec, TaskFairness
  <2>9. FairSpec /\ []GuardsEnable => (U ~> (F \/ E))
    BY <2>2, <2>3, <2>4, <2>5, ClientInvariant, PTL DEF FairSpec, Spec, TaskFairness
  <2>10. FairSpec /\ []GuardsEnable => (F ~> E)
    BY <2>2, <2>3, <2>4, <2>5, ClientInvariant, PTL DEF FairSpec, Spec, TaskFairness
  <2>11. FairSpec /\ []GuardsEnable => (E ~> Q)
    BY <2>2, <2>3, <2>4, <2>5, ClientInvariant, PTL DEF FairSpec, Spec, TaskFairness
  <2> QED  BY <2>1, <2>6, <2>7, <2>8, <2>9, <2>10, <2>11, ClientInvariant, PTL DEF FairSpec
<1> QED  BY <1>1 DEF ToldTaskEnds
=============================================================================
