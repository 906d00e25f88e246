-------------------------- MODULE SupervisorProofs --------------------------
(***************************************************************************)
(* Three facts about the process, for every set of configurations and      *)
(* every queue bound: a reload never stops it, the status endpoint follows *)
(* the instance, and a live instance is in step with the file.             *)
(***************************************************************************)
EXTENDS Supervisor, WellFoundedInduction, FiniteSetTheorems, TLAPS

-----------------------------------------------------------------------------
(* A reload never stops the process.  OnlyShutdownStops alone is not       *)
(* inductive: that the receivers hold a signal only after the external     *)
(* one, and that the watcher exits only on a signal, has to be carried     *)
(* along.                                                                  *)

\* Where a signal comes from, and what it takes for the watcher to exit.
SignalledFromOutside ==
  /\ {"retry", "watcher", "process"} \cap sig # {} => stop
  /\ watcher.pc = "exited" => stop

\* The two tasks are records.
Records == DOMAIN sup = {"pc", "cfg"} /\ DOMAIN watcher = {"pc", "old"}

Inv == OnlyShutdownStops /\ SignalledFromOutside /\ Records

\* At the start nobody was told anything.
LEMMA InvInit == Init => Inv
  BY DEF Init, Inv, Records, OnlyShutdownStops, SignalledFromOutside

\* Telling the instance tells nobody else.
LEMMA TellsInstanceOnly ==
  TellInstance => sig' \in {sig, sig \cup {"instance"}}
  BY DEF TellInstance

\* The world and the instance leave the supervisor alone.
LEMMA WorldInv ==
  ASSUME Inv, SignalShutdown \/ (\E c \in Configs \cup {Bad} : WriteFile(c)) \/ Instance
  PROVE  Inv'
  BY DEF Inv, Records, OnlyShutdownStops, SignalledFromOutside, SignalShutdown, WriteFile, Instance,
         PollInstance, TakeUpdate, StopInstance, InstanceFails, StatusEnds, Subscribed

\* Opening the configuration: only a signal ends the retry loop.
LEMMA OpeningInv == ASSUME Inv, Opening PROVE Inv'
<1> USE DEF Inv, Records, OnlyShutdownStops, SignalledFromOutside
<1>1. CASE OpenConfig
  <2>1. CASE file = Bad
    <3>1. sup' = [sup EXCEPT !.pc = "degraded"] /\ sig' = sig \ {"watcher"}
          /\ UNCHANGED <<watcher, stop>>
      BY <1>1, <2>1 DEF OpenConfig
    <3> QED  BY <3>1
  <2>2. CASE file # Bad
    <3>1. sup' = [sup EXCEPT !.pc = "subscribing"] /\ watcher' = [pc |-> "starting", old |-> file]
          /\ UNCHANGED <<sig, stop>>
      BY <1>1, <2>2 DEF OpenConfig
    <3>2. sup'.pc = "subscribing" /\ DOMAIN sup' = {"pc", "cfg"}
      BY <3>1
    <3>3. watcher'.pc = "starting" /\ DOMAIN watcher' = {"pc", "old"}
      BY <3>1
    <3> QED  BY <3>1, <3>2, <3>3
  <2> QED  BY <2>1, <2>2
<1>2. CASE RetryOpen
  BY <1>2 DEF RetryOpen
<1>3. CASE StopDegraded
  BY <1>3 DEF StopDegraded
<1>4. CASE SubscribeProcess
  BY <1>4 DEF SubscribeProcess
<1> QED  BY <1>1, <1>2, <1>3, <1>4 DEF Opening

\* The watcher exits on a signal only; a failed registration is final.
LEMMA WatcherInv == ASSUME Inv, Watcher PROVE Inv'
<1> USE DEF Inv, Records, OnlyShutdownStops, SignalledFromOutside
<1>1. CASE StartWatching
  BY <1>1 DEF StartWatching
<1>2. CASE WatchFails
  BY <1>2 DEF WatchFails
<1>3. CASE Rescan
  BY <1>3 DEF Rescan
<1>4. CASE StopWatcher
  BY <1>4 DEF StopWatcher
<1> QED  BY <1>1, <1>2, <1>3, <1>4 DEF Watcher

\* The main loop ends on a signal, or when the watcher is gone.
LEMMA MainLoopInv == ASSUME Inv, MainLoop PROVE Inv'
<1> USE DEF Inv, Records, OnlyShutdownStops, SignalledFromOutside
<1>1. CASE FirstStart
  BY <1>1 DEF FirstStart
<1>2. CASE BeginRestart
  <2>1. sup' = [pc |-> "restarting", cfg |-> Head(events).cfg]
        /\ sig' \in {sig, sig \cup {"instance"}} /\ UNCHANGED <<watcher, stop>>
    BY <1>2, TellsInstanceOnly DEF BeginRestart
  <2>2. sup'.pc = "restarting" /\ DOMAIN sup' = {"pc", "cfg"}
    BY <2>1
  <2> QED  BY <2>1, <2>2
<1>3. CASE FinishRestart
  <2>1. sup' = [pc |-> "loop", cfg |-> None]
        /\ sig' = sig \ {"instance"} /\ UNCHANGED <<watcher, stop>>
    BY <1>3 DEF FinishRestart
  <2>2. sup'.pc = "loop" /\ DOMAIN sup' = {"pc", "cfg"}
    BY <2>1
  <2> QED  BY <2>1, <2>2
<1>4. CASE AwaitRoom \/ ForwardChange
  BY <1>4 DEF AwaitRoom, ForwardChange
<1>5. CASE BeginTeardown
  <2>1. stop \/ watcher.pc = "failed"
    BY <1>5 DEF BeginTeardown
  <2>2. sup' = [sup EXCEPT !.pc = "joining"]
        /\ sig' \in {sig, sig \cup {"instance"}} /\ UNCHANGED <<watcher, stop>>
    BY <1>5, TellsInstanceOnly DEF BeginTeardown
  <2> QED  BY <2>1, <2>2
<1>6. CASE FinishTeardown
  BY <1>6 DEF FinishTeardown
<1> QED  BY <1>1, <1>2, <1>3, <1>4, <1>5, <1>6 DEF MainLoop

\* Every step keeps the invariant.
LEMMA InvStep == Inv /\ [Next]_vars => Inv'
<1>1. ASSUME Inv, UNCHANGED vars PROVE Inv'
  BY <1>1 DEF vars, Inv, Records, OnlyShutdownStops, SignalledFromOutside
<1> QED  BY <1>1, WorldInv, OpeningInv, WatcherInv, MainLoopInv DEF Next

\* Whatever is written to the configuration file and however often instances
\* are restarted or fail, the process ends only for the external shutdown
\* signal or because the file could not be watched.
THEOREM ReloadNeverStops == Spec => []OnlyShutdownStops
<1>1. Inv => OnlyShutdownStops
  BY DEF Inv
<1> QED  BY <1>1, InvInit, InvStep, PTL DEF Spec

-----------------------------------------------------------------------------
(* The status endpoint.  That a listener of an earlier generation was told *)
(* to stop is inductive together with the moment before: a dead instance   *)
(* that is about to be replaced leaves no listener that was not told.      *)

StatusInv ==
  /\ StatusCurrent
  /\ status \in [of : {"none", "this", "earlier"}, told : BOOLEAN]
  /\ inst.pc = "none" => status.of = "none"
  /\ sup.pc = "restarting" /\ inst.pc = "dead" /\ status.of = "this" => status.told

InstRecord == DOMAIN inst = {"pc", "cfg"} /\ inst.pc \in {"none", "spawned", "running", "dead"}

SInv == StatusInv /\ InstRecord /\ Records

\* Nothing is open at the start.
LEMMA StatusInit == Init => SInv
  BY DEF Init, NoStatus, SInv, StatusInv, StatusCurrent, InstRecord, Records

\* What telling an instance does to its endpoint.
LEMMA TellsStatus ==
  ASSUME SInv, TellInstance
  PROVE  /\ status' \in [of : {"none", "this", "earlier"}, told : BOOLEAN]
         /\ status'.of = status.of
         /\ status.told \/ status.of = "this" => status'.told
  BY DEF TellInstance, SInv, StatusInv

\* What the end of an instance does to its endpoint.
LEMMA DiesStatus ==
  ASSUME SInv, Dies, UNCHANGED <<sup, watcher>>
  PROVE  SInv' /\ inst'.pc = "dead"
<1>1. inst' = [inst EXCEPT !.pc = "dead"]
  BY DEF Dies
<1>2. inst'.pc = "dead" /\ DOMAIN inst' = {"pc", "cfg"}
  BY <1>1 DEF SInv, InstRecord
<1> DEFINE t == status.told \/ (status.of = "this" /\ sup.pc \in {"restarting", "joining"})
<1>3. status' = [status EXCEPT !.told = t]
  BY DEF Dies
<1>4. t \in BOOLEAN
  OBVIOUS
<1>5. status \in [of : {"none", "this", "earlier"}, told : BOOLEAN]
  BY DEF SInv, StatusInv
<1> HIDE DEF t
<1>6. /\ status' \in [of : {"none", "this", "earlier"}, told : BOOLEAN]
      /\ status'.of = status.of /\ status'.told = t
  BY <1>3, <1>4, <1>5
<1>7. status.told \/ (status.of = "this" /\ sup.pc = "restarting") => status'.told
  BY <1>6 DEF t
<1> QED  BY <1>2, <1>6, <1>7 DEF SInv, StatusInv, StatusCurrent, InstRecord, Records

\* A new generation finds a listener of the old one that was told, if any.
LEMMA SpawnStatus ==
  ASSUME SInv, NEW c, Spawn(c), Records',
         inst.pc = "none" \/ (inst.pc = "dead" /\ sup.pc = "restarting")
  PROVE  SInv'
<1>1. inst' = [pc |-> "spawned", cfg |-> c]
  BY DEF Spawn
<1>2. inst'.pc = "spawned" /\ DOMAIN inst' = {"pc", "cfg"}
  BY <1>1
<1>3. /\ status' \in [of : {"none", "this", "earlier"}, told : BOOLEAN]
      /\ status'.of # "none" => status.of # "none"
      /\ status'.of = "earlier" => status.of \in {"this", "earlier"}
      /\ status'.told = status.told
  BY DEF Spawn, SInv, StatusInv
<1> QED  BY <1>2, <1>3 DEF SInv, StatusInv, StatusCurrent, InstRecord

\* Every step of the instance keeps the endpoint's invariant.
LEMMA InstanceStatus == ASSUME SInv, Instance PROVE SInv'
<1>1. CASE PollInstance
  <2>1. CASE Mode # None /\ inst.cfg[Mode] # None
    <3>1. /\ inst' = [inst EXCEPT !.pc = "running"] /\ UNCHANGED <<sup, watcher>>
          /\ status' = IF status.of = "none" THEN [of |-> "this", told |-> FALSE] ELSE status
      BY <1>1, <2>1 DEF PollInstance, BindStatus
    <3>2. inst'.pc = "running" /\ DOMAIN inst' = {"pc", "cfg"}
      BY <3>1 DEF SInv, InstRecord
    <3> QED  BY <3>1, <3>2 DEF SInv, StatusInv, StatusCurrent, InstRecord, Records
  <2>2. CASE ~(Mode # None /\ inst.cfg[Mode] # None)
    BY <1>1, <2>2, DiesStatus DEF PollInstance
  <2> QED  BY <2>1, <2>2
<1>2. CASE TakeUpdate
  <2>1. inst' \in {inst, [inst EXCEPT !.cfg = Apply(@, Head(updates))]}
    BY <1>2 DEF TakeUpdate
  <2>2. inst'.pc = inst.pc /\ DOMAIN inst' = {"pc", "cfg"}
    BY <2>1 DEF SInv, InstRecord
  <2> QED  BY <1>2, <2>2 DEF TakeUpdate, SInv, StatusInv, StatusCurrent, InstRecord, Records
<1>3. CASE StopInstance
  BY <1>3, DiesStatus DEF StopInstance
<1>4. CASE InstanceFails
  BY <1>4, DiesStatus DEF InstanceFails
<1>5. CASE StatusEnds
  BY <1>5 DEF StatusEnds, NoStatus, SInv, StatusInv, StatusCurrent, InstRecord, Records
<1> QED  BY <1>1, <1>2, <1>3, <1>4, <1>5 DEF Instance

\* Every step of the main loop does.
LEMMA MainLoopStatus == ASSUME SInv, MainLoop, Records' PROVE SInv'
<1>1. CASE FirstStart
  BY <1>1, SpawnStatus DEF FirstStart
<1>2. CASE BeginRestart
  BY <1>2, TellsStatus DEF BeginRestart, SInv, StatusInv, StatusCurrent, InstRecord
<1>3. CASE FinishRestart
  BY <1>3, SpawnStatus DEF FinishRestart
<1>4. CASE AwaitRoom \/ ForwardChange
  <2>1. sup'.pc \in {"loop", "forwarding"} /\ UNCHANGED <<inst, status>>
    BY <1>4 DEF AwaitRoom, ForwardChange, SInv, Records
  <2> QED  BY <2>1 DEF SInv, StatusInv, StatusCurrent, InstRecord
<1>5. CASE BeginTeardown
  <2>1. sup'.pc = "joining" /\ UNCHANGED inst
    BY <1>5 DEF BeginTeardown, SInv, Records
  <2> QED  BY <1>5, <2>1, TellsStatus DEF BeginTeardown, SInv, StatusInv, StatusCurrent, InstRecord
<1>6. CASE FinishTeardown
  <2>1. sup'.pc = "exited" /\ UNCHANGED <<inst, status>>
    BY <1>6 DEF FinishTeardown, SInv, Records
  <2> QED  BY <2>1 DEF SInv, StatusInv, StatusCurrent, InstRecord
<1> QED  BY <1>1, <1>2, <1>3, <1>4, <1>5, <1>6 DEF MainLoop

\* The others leave instance and endpoint alone, and start no restart.
LEMMA OthersStatus ==
  ASSUME SInv, Records',
         SignalShutdown \/ (\E c \in Configs \cup {Bad} : WriteFile(c)) \/ Opening \/ Watcher
  PROVE  SInv'
<1>1. UNCHANGED <<inst, status>> /\ (sup'.pc = "restarting" => sup.pc = "restarting")
  BY DEF SignalShutdown, WriteFile, Opening, OpenConfig, RetryOpen, StopDegraded, SubscribeProcess,
         Watcher, StartWatching, WatchFails, Rescan, StopWatcher, SInv, Records
<1> QED  BY <1>1 DEF SInv, StatusInv, StatusCurrent, InstRecord

\* Whatever instances do, fail, are told and are replaced by: a status endpoint
\* that is still open for a replaced instance has been told to close.
THEOREM StatusFollowsInstance == Spec => []StatusCurrent
<1>1. Init => Inv /\ SInv
  BY InvInit, StatusInit
<1>2. ASSUME Inv /\ SInv, [Next]_vars PROVE (Inv /\ SInv)'
  <2>1. Inv'
    BY <1>2, InvStep
  <2>2. Records'
    BY <2>1 DEF Inv
  <2>3. ASSUME UNCHANGED vars PROVE SInv'
    BY <1>2, <2>3 DEF vars, SInv, StatusInv, StatusCurrent, InstRecord, Records
  <2> QED  BY <1>2, <2>1, <2>2, <2>3, InstanceStatus, MainLoopStatus, OthersStatus DEF Next
<1>3. SInv => StatusCurrent
  BY DEF SInv, StatusInv
<1> QED  BY <1>1, <1>2, <1>3, PTL DEF Spec

-----------------------------------------------------------------------------
(* Replaying events.  Replay is a recursive function; what it computes for *)
(* every queue is shown on a smallest counterexample.                      *)

\* The order of the natural numbers as a relation.
NatLess == {p \in Nat \X Nat : p[1] < p[2]}

\* It is well-founded.
LEMMA NatLessWellFounded == IsWellFoundedOn(NatLess, Nat)
<1>1. OpToRel(<, Nat) = NatLess
  BY Zenon DEF OpToRel, NatLess
<1> QED  BY <1>1, NatLessThanWellFounded, Zenon

\* So a set of natural numbers that is not empty has a least element: the provers'
\* substitute for induction, used on a smallest counterexample.
LEMMA Least ==
  ASSUME NEW T, T \subseteq Nat, T # {}
  PROVE  \E m \in T : \A k \in T : m <= k
<1>1. PICK m \in T : \A k \in T : ~(<<k, m>> \in NatLess)
  BY NatLessWellFounded, WFMin
<1>2. ASSUME NEW k \in T PROVE m <= k
  <2>1. m \in Nat /\ k \in Nat
    OBVIOUS
  <2>2. <<k, m>> \in Nat \X Nat /\ <<k, m>>[1] = k /\ <<k, m>>[2] = m
    BY <2>1
  <2>3. ~(k < m)
    BY <1>1, <2>2 DEF NatLess
  <2> QED  BY <2>1, <2>3
<1> QED  BY <1>2

\* A set of numbers up to k that contains 0 and goes on to the next one is all of them.
LEMMA UpTo ==
  ASSUME NEW k \in Nat, NEW G, 0 \in G, \A i \in 1..k : i - 1 \in G => i \in G
  PROVE  \A i \in 0..k : i \in G
<1> DEFINE T == {i \in 0..k : i \notin G}
<1>1. SUFFICES ASSUME T # {} PROVE FALSE
  OBVIOUS
<1>2. PICK m \in T : \A j \in T : m <= j
  <2>1. T \subseteq Nat
    OBVIOUS
  <2> HIDE DEF T
  <2> QED  BY <1>1, <2>1, Least
<1>3. m \in 1..k /\ m - 1 \in 0..k /\ m - 1 \notin T
  BY <1>2
<1> QED  BY <1>2, <1>3

\* f holds cfg after each of the first k events of s.
Run(cfg, s, k, f) == f = [i \in 0..k |-> IF i = 0 THEN cfg ELSE Apply(f[i - 1], s[i])]

\* There is such a function: the recursive definition of Replay defines something.
LEMMA RunExists ==
  ASSUME NEW c, NEW s, NEW k \in Nat
  PROVE  \E f : Run(c, s, k, f)
<1> DEFINE G == {n \in Nat : \E f : Run(c, s, n, f)}
<1>1. 0 \in G
  <2>1. Run(c, s, 0, [i \in 0..0 |-> c])
    BY DEF Run
  <2> QED  BY <2>1
<1>2. ASSUME NEW m \in 1..k, m - 1 \in G PROVE m \in G
  <2>1. PICK f : Run(c, s, m - 1, f)
    BY <1>2
  <2> DEFINE g == [i \in 0..m |-> IF i = m THEN Apply(f[m - 1], s[m]) ELSE f[i]]
  <2>2. Run(c, s, m, g)
    BY <2>1, <1>2 DEF Run
  <2> QED  BY <2>2
<1>3. \A i \in 0..k : i \in G
  <2> HIDE DEF G
  <2> QED  BY <1>1, <1>2, UpTo
<1> QED  BY <1>3

\* Replay is the last value of such a function.
LEMMA ReplayRun ==
  ASSUME NEW c, NEW s, Len(s) \in Nat
  PROVE  \E f : Run(c, s, Len(s), f) /\ Replay(c, s) = f[Len(s)]
<1>1. \E f : Run(c, s, Len(s), f)
  BY RunExists
<1> DEFINE f == CHOOSE g : Run(c, s, Len(s), g)
<1>2. Run(c, s, Len(s), f)
  BY <1>1, Zenon
<1>3. Replay(c, s) = f[Len(s)]
  BY Zenon DEF Run, Replay
<1> QED  BY <1>2, <1>3

\* What such a function holds at the start and after each event.
LEMMA RunSteps ==
  ASSUME NEW c, NEW s, NEW k \in Nat, NEW f, Run(c, s, k, f)
  PROVE  f[0] = c /\ \A i \in 1..k : f[i] = Apply(f[i - 1], s[i])
  BY DEF Run

\* It is determined by where it starts and by the events, for any prefix of them.
LEMMA RunUnique ==
  ASSUME NEW c, NEW s, NEW k \in Nat, NEW l \in Nat, NEW f, NEW g,
         Run(c, s, k, f), Run(c, s, l, g), k <= l
  PROVE  \A i \in 0..k : f[i] = g[i]
<1> DEFINE G == {i \in 0..k : f[i] = g[i]}
<1>1. 0 \in G
  BY DEF Run
<1>2. \A i \in 1..k : i - 1 \in G => i \in G
  BY DEF Run
<1>3. \A i \in 0..k : i \in G
  <2> HIDE DEF G
  <2> QED  BY <1>1, <1>2, UpTo
<1> QED  BY <1>3

\* Two queues in a row are replayed one after the other.
LEMMA ReplayConcat ==
  ASSUME NEW c, NEW E, NEW s \in Seq(E), NEW t \in Seq(E)
  PROVE  Replay(c, s \o t) = Replay(Replay(c, s), t)
<1>1. PICK f : Run(c, s, Len(s), f) /\ Replay(c, s) = f[Len(s)]
  BY ReplayRun
<1>2. PICK g : Run(f[Len(s)], t, Len(t), g) /\ Replay(f[Len(s)], t) = g[Len(t)]
  BY ReplayRun
<1> DEFINE st == s \o t
<1>3. Len(st) = Len(s) + Len(t) /\ Len(s) \in Nat /\ Len(t) \in Nat /\ Len(st) \in Nat
  OBVIOUS
<1>a. \A i \in 1..Len(s) : st[i] = s[i]
  OBVIOUS
<1>b. \A i \in 1..Len(t) : st[Len(s) + i] = t[i]
  OBVIOUS
<1> HIDE DEF st
<1>4. PICK h : Run(c, st, Len(st), h) /\ Replay(c, st) = h[Len(st)]
  BY <1>3, ReplayRun
<1>5. Run(c, st, Len(s), f)
  BY <1>1, <1>3, <1>a DEF Run
<1>6. h[Len(s)] = f[Len(s)]
  BY <1>3, <1>4, <1>5, RunUnique
<1> DEFINE G == {i \in 0..Len(t) : h[Len(s) + i] = g[i]}
<1>7. 0 \in G
  BY <1>2, <1>3, <1>6, RunSteps
<1>8. ASSUME NEW i \in 1..Len(t), i - 1 \in G PROVE i \in G
  <2>1. Len(s) + i \in 1..Len(st) /\ (Len(s) + i) - 1 = Len(s) + (i - 1)
    BY <1>3
  <2>2. h[Len(s) + i] = Apply(h[Len(s) + (i - 1)], st[Len(s) + i])
    BY <1>3, <1>4, <2>1, RunSteps
  <2>3. g[i] = Apply(g[i - 1], t[i])
    BY <1>2, <1>3, RunSteps
  <2> QED  BY <1>8, <1>b, <2>2, <2>3
<1>9. \A i \in 0..Len(t) : i \in G
  <2> HIDE DEF G
  <2> QED  BY <1>3, <1>7, <1>8, UpTo
<1>10. Replay(c, st) = Replay(Replay(c, s), t)
  BY <1>1, <1>2, <1>3, <1>4, <1>9
<1> QED  BY <1>10 DEF st

\* Without events nothing changes.
LEMMA ReplayNone == ASSUME NEW c PROVE Replay(c, <<>>) = c
  BY ReplayRun DEF Run

\* One event is applied.
LEMMA ReplayOne == ASSUME NEW c, NEW e PROVE Replay(c, <<e>>) = Apply(c, e)
<1>1. Len(<<e>>) = 1 /\ <<e>>[1] = e
  OBVIOUS
<1>2. PICK f : Run(c, <<e>>, 1, f) /\ Replay(c, <<e>>) = f[1]
  BY <1>1, ReplayRun
<1> QED  BY <1>1, <1>2 DEF Run

\* What leaves the front of a queue may be applied at once.
LEMMA ReplayHead ==
  ASSUME NEW c, NEW E, NEW s \in Seq(E), s # <<>>
  PROVE  Replay(c, s) = Replay(Apply(c, Head(s)), Tail(s))
<1> DEFINE h == <<Head(s)>>
           t == Tail(s)
<1>1. s = h \o t /\ h \in Seq(E) /\ t \in Seq(E)
  OBVIOUS
<1>2. Replay(c, h) = Apply(c, Head(s))
  BY ReplayOne
<1> HIDE DEF h, t
<1>3. Replay(c, h \o t) = Replay(Replay(c, h), t)
  BY <1>1, ReplayConcat
<1> QED  BY <1>1, <1>2, <1>3 DEF t

\* What joins a queue is applied last.
LEMMA ReplayAppend ==
  ASSUME NEW c, NEW E, NEW s \in Seq(E), NEW e \in E
  PROVE  Replay(c, Append(s, e)) = Apply(Replay(c, s), e)
<1> DEFINE t == <<e>>
<1>1. Append(s, e) = s \o t /\ t \in Seq(E)
  OBVIOUS
<1>2. Replay(Replay(c, s), t) = Apply(Replay(c, s), e)
  BY ReplayOne
<1> HIDE DEF t
<1>3. Replay(c, s \o t) = Replay(Replay(c, s), t)
  BY <1>1, ReplayConcat
<1> QED  BY <1>1, <1>2, <1>3

-----------------------------------------------------------------------------
(* What events do to a configuration, section by section.                  *)

\* The changes of one service.
ServiceEvent ==
  {Delete(r, n) : r \in Roles, n \in Names}
    \cup {Add(r, n, v) : r \in Roles, n \in Names, v \in Settings}

\* The events that replace the configuration, and whether one is queued.
IsGeneral(e) == e.kind = "general"
HasGeneral(s) == \E i \in 1..Len(s) : IsGeneral(s[i])

\* The setting a service change leaves behind.
SetBy(e) == IF e.kind = "delete" THEN None ELSE e.set

\* An event replaces the configuration by a valid one or changes one service.
LEMMA EventKinds ==
  /\ \A e \in Event : IF IsGeneral(e) THEN e.cfg \in Configs /\ DOMAIN e.cfg = Roles
                      ELSE e \in ServiceEvent
  /\ \A e \in ServiceEvent :
       /\ e \in Event /\ e.kind \in {"delete", "add"}
       /\ e.role \in Roles /\ e.name \in Names /\ SetBy(e) \in Settings \cup {None}
  BY ConfigsAssumption DEF Event, ServiceEvent, General, Delete, Add, IsGeneral, SetBy, Config

\* A new configuration replaces whatever was there.
LEMMA ApplyGeneral ==
  ASSUME NEW c, NEW e, IsGeneral(e)
  PROVE  Apply(c, e) = e.cfg
  BY DEF Apply, IsGeneral

\* A service change changes one section, in one place.
LEMMA ApplyService ==
  ASSUME NEW c, DOMAIN c = Roles, NEW e \in ServiceEvent
  PROVE  /\ DOMAIN Apply(c, e) = Roles
         /\ \A r \in Roles \ {e.role} : Apply(c, e)[r] = c[r]
         /\ Apply(c, e)[e.role] = [c[e.role] EXCEPT !.services[e.name] = SetBy(e)]
<1>1. e.kind \in {"delete", "add"} /\ e.role \in Roles
  BY EventKinds
<1>2. CASE e.kind = "delete"
  BY <1>1, <1>2 DEF Apply, SetBy
<1>3. CASE e.kind = "add"
  BY <1>1, <1>3 DEF Apply, SetBy
<1> QED  BY <1>1, <1>2, <1>3

\* It leaves the other sections alone, present or not.
LEMMA ApplyElsewhere ==
  ASSUME NEW c, DOMAIN c = Roles, NEW e \in ServiceEvent
  PROVE  DOMAIN Apply(c, e) = Roles /\ \A r \in Roles : r # e.role => Apply(c, e)[r] = c[r]
<1>1. e.kind \in {"delete", "add"} /\ e.role \in Roles
  BY EventKinds
<1>2. CASE e.kind = "delete"
  BY <1>1, <1>2 DEF Apply
<1>3. CASE e.kind = "add"
  BY <1>1, <1>3 DEF Apply
<1> QED  BY <1>1, <1>2, <1>3

\* What an event does to a section depends on that section only.
LEMMA ApplyLocal ==
  ASSUME NEW x, DOMAIN x = Roles, NEW y, DOMAIN y = Roles, NEW e \in Event
  PROVE  /\ DOMAIN Apply(x, e) = Roles
         /\ \A r \in Roles : x[r] = y[r] => Apply(x, e)[r] = Apply(y, e)[r]
<1>1. CASE IsGeneral(e)
  BY <1>1, ApplyGeneral, EventKinds
<1>2. CASE ~IsGeneral(e)
  <2>1. e \in ServiceEvent /\ e.role \in Roles
    BY <1>2, EventKinds
  <2>2. /\ DOMAIN Apply(x, e) = Roles
        /\ \A r \in Roles \ {e.role} : Apply(x, e)[r] = x[r]
        /\ Apply(x, e)[e.role] = [x[e.role] EXCEPT !.services[e.name] = SetBy(e)]
    BY <2>1, ApplyService
  <2>3. /\ \A r \in Roles \ {e.role} : Apply(y, e)[r] = y[r]
        /\ Apply(y, e)[e.role] = [y[e.role] EXCEPT !.services[e.name] = SetBy(e)]
    BY <2>1, ApplyService
  <2> QED  BY <2>1, <2>2, <2>3
<1> QED  BY <1>1, <1>2

\* So a section after a queue of events depends on that section before it only.
LEMMA ReplayLocal ==
  ASSUME NEW x, DOMAIN x = Roles, NEW y, DOMAIN y = Roles, NEW s \in Seq(Event)
  PROVE  /\ DOMAIN Replay(x, s) = Roles
         /\ \A r \in Roles : x[r] = y[r] => Replay(x, s)[r] = Replay(y, s)[r]
<1>1. PICK f : Run(x, s, Len(s), f) /\ Replay(x, s) = f[Len(s)]
  BY ReplayRun
<1>2. PICK g : Run(y, s, Len(s), g) /\ Replay(y, s) = g[Len(s)]
  BY ReplayRun
<1>3. Len(s) \in Nat /\ \A i \in 1..Len(s) : s[i] \in Event
  OBVIOUS
<1>4. /\ f[0] = x /\ \A i \in 1..Len(s) : f[i] = Apply(f[i - 1], s[i])
      /\ g[0] = y /\ \A i \in 1..Len(s) : g[i] = Apply(g[i - 1], s[i])
  BY <1>1, <1>2, <1>3, RunSteps
<1> DEFINE G == {i \in 0..Len(s) : /\ DOMAIN f[i] = Roles /\ DOMAIN g[i] = Roles
                                   /\ \A r \in Roles : x[r] = y[r] => f[i][r] = g[i][r]}
<1>5. 0 \in G
  BY <1>3, <1>4
<1>6. ASSUME NEW i \in 1..Len(s), i - 1 \in G PROVE i \in G
  <2>1. i - 1 \in 0..Len(s) /\ s[i] \in Event
    BY <1>3
  <2>2. /\ DOMAIN f[i - 1] = Roles /\ DOMAIN g[i - 1] = Roles
        /\ \A r \in Roles : x[r] = y[r] => f[i - 1][r] = g[i - 1][r]
    BY <1>6
  <2>3. f[i] = Apply(f[i - 1], s[i]) /\ g[i] = Apply(g[i - 1], s[i])
    BY <1>4
  <2>4. /\ DOMAIN f[i] = Roles /\ DOMAIN g[i] = Roles
        /\ \A r \in Roles : f[i - 1][r] = g[i - 1][r] => f[i][r] = g[i][r]
    BY <2>1, <2>2, <2>3, ApplyLocal
  <2> QED  BY <2>2, <2>4
<1>7. \A i \in 0..Len(s) : i \in G
  <2> HIDE DEF G
  <2> QED  BY <1>3, <1>5, <1>6, UpTo
<1> QED  BY <1>1, <1>2, <1>3, <1>7

\* After a new configuration nothing of what was before is left.
LEMMA ReplayForgets ==
  ASSUME NEW x, DOMAIN x = Roles, NEW y, DOMAIN y = Roles, NEW s \in Seq(Event), HasGeneral(s)
  PROVE  Replay(x, s) = Replay(y, s)
<1>1. PICK f : Run(x, s, Len(s), f) /\ Replay(x, s) = f[Len(s)]
  BY ReplayRun
<1>2. PICK g : Run(y, s, Len(s), g) /\ Replay(y, s) = g[Len(s)]
  BY ReplayRun
<1>3. Len(s) \in Nat
  OBVIOUS
<1>4. /\ \A i \in 1..Len(s) : f[i] = Apply(f[i - 1], s[i])
      /\ \A i \in 1..Len(s) : g[i] = Apply(g[i - 1], s[i])
  BY <1>1, <1>2, <1>3, RunSteps
<1>5. PICK j \in 1..Len(s) : IsGeneral(s[j])
  BY DEF HasGeneral
<1> DEFINE G == {i \in 0..Len(s) : i >= j => f[i] = g[i]}
<1>6. 0 \in G
  BY <1>3, <1>5
<1>7. ASSUME NEW i \in 1..Len(s), i - 1 \in G PROVE i \in G
  <2>1. CASE i < j
    BY <2>1, <1>5
  <2>2. CASE i = j
    BY <2>2, <1>4, <1>5, ApplyGeneral
  <2>3. CASE i > j
    BY <2>3, <1>3, <1>4, <1>5, <1>7
  <2> QED  BY <2>1, <2>2, <2>3, <1>5
<1>8. \A i \in 0..Len(s) : i \in G
  <2> HIDE DEF G
  <2> QED  BY <1>3, <1>6, <1>7, UpTo
<1> QED  BY <1>1, <1>2, <1>3, <1>5, <1>8

-----------------------------------------------------------------------------
(* calculate_events: the events lead from the old configuration to the new *)
(* one.                                                                    *)

\* An order of a finite set holds each of its elements and nothing else: it is an
\* injection between sets of the same size.
LEMMA SeqsOfSet ==
  ASSUME NEW S, IsFiniteSet(S), NEW s \in SetToSeqs(S)
  PROVE  s \in Seq(S) /\ ToSet(s) = S
<1> DEFINE n == Cardinality(S)
<1>1. n \in Nat
  BY FS_CardinalityType
<1>2. s \in [1..n -> S] /\ \A i, j \in 1..n : i # j => s[i] # s[j]
  BY DEF SetToSeqs
<1> HIDE DEF n
<1>3. s \in Seq(S) /\ Len(s) = n /\ DOMAIN s = 1..n
  BY <1>1, <1>2
<1>4. s \in Injection(1..n, S)
  BY <1>2 DEF Injection, IsInjective
<1>5. Cardinality(1..n) = n
  BY <1>1, FS_Interval
<1>6. s \in Surjection(1..n, S)
  BY <1>4, <1>5, FS_Injection DEF n
<1> QED  BY <1>2, <1>3, <1>6 DEF Surjection, ToSet

\* The elements of two sequences in a row.
LEMMA ConcatSet ==
  ASSUME NEW E, NEW s \in Seq(E), NEW t \in Seq(E)
  PROVE  s \o t \in Seq(E) /\ ToSet(s \o t) = ToSet(s) \cup ToSet(t)
<1> DEFINE st == s \o t
<1>1. st \in Seq(E) /\ Len(st) = Len(s) + Len(t) /\ Len(s) \in Nat /\ Len(t) \in Nat
  OBVIOUS
<1>2. DOMAIN st = 1..Len(st) /\ DOMAIN s = 1..Len(s) /\ DOMAIN t = 1..Len(t)
  OBVIOUS
<1>3. \A i \in 1..Len(s) : st[i] = s[i]
  OBVIOUS
<1>4. \A i \in 1..Len(t) : st[Len(s) + i] = t[i]
  OBVIOUS
<1> HIDE DEF st
<1>5. ASSUME NEW i \in DOMAIN st PROVE st[i] \in ToSet(s) \cup ToSet(t)
  <2>1. CASE i <= Len(s)
    BY <1>1, <1>2, <1>3, <2>1 DEF ToSet
  <2>2. CASE i > Len(s)
    <3>1. i - Len(s) \in 1..Len(t) /\ i = Len(s) + (i - Len(s))
      BY <1>1, <1>2, <2>2
    <3> QED  BY <1>2, <1>4, <3>1 DEF ToSet
  <2> QED  BY <1>1, <1>2, <2>1, <2>2
<1>6. ASSUME NEW i \in DOMAIN s PROVE s[i] \in ToSet(st)
  BY <1>1, <1>2, <1>3 DEF ToSet
<1>7. ASSUME NEW i \in DOMAIN t PROVE t[i] \in ToSet(st)
  <2>1. Len(s) + i \in DOMAIN st
    BY <1>1, <1>2
  <2> QED  BY <1>2, <1>4, <2>1 DEF ToSet
<1>8. ToSet(st) = ToSet(s) \cup ToSet(t)
  BY <1>5, <1>6, <1>7 DEF ToSet
<1> QED  BY <1>1, <1>8 DEF st

\* There are finitely many changes.
LEMMA ChangesFinite ==
  ASSUME NEW r, NEW old, NEW new
  PROVE  IsFiniteSet(Deletions(r, old, new)) /\ IsFiniteSet(Additions(r, old, new))
<1>1. ASSUME NEW M \in SUBSET Names, NEW f, f = [n \in M |-> f[n]]
      PROVE  IsFiniteSet({f[n] : n \in M})
  <2>1. IsFiniteSet(M)
    BY NamesAssumption, FS_Subset
  <2>2. f \in Surjection(M, {f[n] : n \in M})
    BY <1>1 DEF Surjection
  <2> QED  BY <2>1, <2>2, FS_Surjection
<1>2. IsFiniteSet(Deletions(r, old, new))
  <2> DEFINE M == {m \in Names : old[m] # None /\ new[m] = None}
             f == [n \in M |-> Delete(r, n)]
  <2>1. IsFiniteSet({f[n] : n \in M})
    BY <1>1
  <2>2. Deletions(r, old, new) = {f[n] : n \in M}
    BY DEF Deletions
  <2> QED  BY <2>1, <2>2
<1>3. IsFiniteSet(Additions(r, old, new))
  <2> DEFINE M == {m \in Names : new[m] # None /\ old[m] # new[m]}
             f == [n \in M |-> Add(r, n, new[n])]
  <2>1. IsFiniteSet({f[n] : n \in M})
    BY <1>1
  <2>2. Additions(r, old, new) = {f[n] : n \in M}
    BY DEF Additions
  <2> QED  BY <2>1, <2>2
<1> QED  BY <1>2, <1>3

\* The changes of a section.
Changes(r, old, new) ==
  SectionEvents(r, old, new).deletions \cup SectionEvents(r, old, new).additions

\* Whatever the order, the events of a section are its changes.
LEMMA SectionSeqSet ==
  ASSUME NEW old, NEW new, NEW r, NEW s \in SectionSeqs(r, old, new),
         NEW E, Changes(r, old, new) \subseteq E
  PROVE  s \in Seq(E) /\ ToSet(s) = Changes(r, old, new)
<1> DEFINE D == SectionEvents(r, old, new).deletions
           A == SectionEvents(r, old, new).additions
<1>1. IsFiniteSet(D) /\ IsFiniteSet(A)
  BY ChangesFinite, FS_EmptySet DEF SectionEvents
<1>2. PICK d \in SetToSeqs(D), a \in SetToSeqs(A) : s = d \o a
  BY DEF SectionSeqs
<1>3. Changes(r, old, new) = D \cup A
  BY DEF Changes
<1> HIDE DEF D, A
<1>4. d \in Seq(D) /\ ToSet(d) = D /\ a \in Seq(A) /\ ToSet(a) = A
  BY <1>1, SeqsOfSet
<1>5. d \in Seq(E) /\ a \in Seq(E)
  BY <1>3, <1>4
<1> QED  BY <1>2, <1>3, <1>4, <1>5, ConcatSet

\* Whatever the order, the events of a rescan without restart are the changes of
\* both sections.
LEMMA EventSeqSet ==
  ASSUME NEW old, NEW new, ~NeedsRestart(old, new), NEW q \in EventSeqs(old, new),
         NEW E, \A r \in Roles : Changes(r, old, new) \subseteq E
  PROVE  q \in Seq(E) /\ ToSet(q) = UNION {Changes(r, old, new) : r \in Roles}
<1>1. PICK s \in SectionSeqs("server", old, new), c \in SectionSeqs("client", old, new) : q = s \o c
  BY DEF EventSeqs
<1>2. /\ s \in Seq(E) /\ ToSet(s) = Changes("server", old, new)
      /\ c \in Seq(E) /\ ToSet(c) = Changes("client", old, new)
  BY SectionSeqSet DEF Roles
<1>3. q \in Seq(E) /\ ToSet(q) = ToSet(s) \cup ToSet(c)
  BY <1>1, <1>2, ConcatSet
<1> QED  BY <1>2, <1>3 DEF Roles

\* A change is for a section that is there and sets what the new configuration has;
\* a service that differs has one.
LEMMA ChangesAre ==
  ASSUME NEW old \in Config, NEW new \in Config, ~NeedsRestart(old, new), NEW r \in Roles
  PROVE  /\ Changes(r, old, new) \subseteq ServiceEvent
         /\ \A e \in Changes(r, old, new) :
              e.role = r /\ old[r] # None /\ SetBy(e) = new[r].services[e.name]
         /\ old[r] # None =>
              \A n \in Names : old[r].services[n] # new[r].services[n] =>
                \E e \in Changes(r, old, new) : e.name = n
<1>1. CASE old[r] = None
  BY <1>1 DEF Changes, SectionEvents
<1>2. CASE old[r] # None
  <2>1. old[r] \in Section /\ new[r] \in Section
    BY <1>2 DEF NeedsRestart, Config
  <2> DEFINE o == old[r].services
             w == new[r].services
  <2>2. o \in Services /\ w \in Services
    BY <2>1 DEF Section
  <2>3. Changes(r, old, new) = Deletions(r, o, w) \cup Additions(r, o, w)
    BY <1>2 DEF Changes, SectionEvents
  <2> HIDE DEF o, w
  <2>4. ASSUME NEW e \in Deletions(r, o, w)
        PROVE  e \in ServiceEvent /\ e.role = r /\ SetBy(e) = w[e.name]
    BY <2>2 DEF Deletions, ServiceEvent, Delete, SetBy
  <2>5. ASSUME NEW e \in Additions(r, o, w)
        PROVE  e \in ServiceEvent /\ e.role = r /\ SetBy(e) = w[e.name]
    BY <2>2 DEF Additions, ServiceEvent, Add, SetBy, Services
  <2>6. ASSUME NEW n \in Names, o[n] # w[n]
        PROVE  \E e \in Deletions(r, o, w) \cup Additions(r, o, w) : e.name = n
    <3>1. CASE w[n] = None
      <4>1. Delete(r, n) \in Deletions(r, o, w) /\ Delete(r, n).name = n
        BY <2>6, <3>1 DEF Deletions, Delete
      <4> QED  BY <4>1
    <3>2. CASE w[n] # None
      <4>1. Add(r, n, w[n]) \in Additions(r, o, w) /\ Add(r, n, w[n]).name = n
        BY <2>6, <3>2 DEF Additions, Add
      <4> QED  BY <4>1
    <3> QED  BY <3>1, <3>2
  <2> QED  BY <1>2, <2>3, <2>4, <2>5, <2>6 DEF o, w
<1> QED  BY <1>1, <1>2

\* What a service change does to the section it is for.
LEMMA ApplySection ==
  ASSUME NEW c, DOMAIN c = Roles, NEW e \in ServiceEvent, c[e.role] \in Section
  PROVE  LET a == Apply(c, e)[e.role] IN
         /\ a \in Section /\ a.base = c[e.role].base
         /\ \A n \in Names : a.services[n] = IF n = e.name THEN SetBy(e) ELSE c[e.role].services[n]
<1>1. e.name \in Names /\ SetBy(e) \in Settings \cup {None}
  BY EventKinds
<1> DEFINE d == c[e.role]
<1>2. d \in Section
  OBVIOUS
<1>3. Apply(c, e)[e.role] = [d EXCEPT !.services[e.name] = SetBy(e)]
  BY ApplyService
<1> HIDE DEF d
<1> DEFINE v == [d.services EXCEPT ![e.name] = SetBy(e)]
<1>4. Apply(c, e)[e.role] = [d EXCEPT !.services = v]
  BY <1>3
<1>5. d.services \in Services /\ d.base \in Bases
  BY <1>2 DEF Section
<1>6. v \in Services /\ \A n \in Names : v[n] = IF n = e.name THEN SetBy(e) ELSE d.services[n]
  BY <1>1, <1>5 DEF Services
<1> HIDE DEF v
<1>7. [d EXCEPT !.services = v] = [base |-> d.base, services |-> v]
  BY <1>2 DEF Section
<1> QED  BY <1>4, <1>5, <1>6, <1>7 DEF d, Section

\* Both sections of a change that needs no restart are there before and after.
LEMMA SectionsKept ==
  ASSUME NEW old \in Config, NEW new \in Config, ~NeedsRestart(old, new), NEW r \in Roles
  PROVE  /\ old[r] = None => new[r] = None
         /\ old[r] # None => old[r] \in Section /\ new[r] \in Section /\ old[r].base = new[r].base
  BY DEF NeedsRestart, Config

\* calculate_events, one section: in whatever order the maps are walked, the events
\* lead from the section as it was to the section as it is.
LEMMA EventsLeadSection ==
  ASSUME NEW old \in Config, NEW new \in Config, NEW s \in EventSeqs(old, new),
         NEW x, DOMAIN x = Roles, NEW r \in Roles, x[r] = old[r]
  PROVE  Replay(x, s)[r] = new[r]
<1>1. CASE NeedsRestart(old, new)
  <2>1. s = <<General(new)>>
    BY <1>1 DEF EventSeqs
  <2>2. Apply(x, General(new)) = new
    BY DEF Apply, General
  <2> QED  BY <2>1, <2>2, ReplayOne
<1>2. CASE ~NeedsRestart(old, new)
  <2>1. s \in Seq(ServiceEvent) /\ ToSet(s) = UNION {Changes(q, old, new) : q \in Roles}
    <3>1. \A q \in Roles : Changes(q, old, new) \subseteq ServiceEvent
      BY <1>2, ChangesAre
    <3> QED  BY <1>2, <3>1, EventSeqSet
  <2>2. Len(s) \in Nat /\ DOMAIN s = 1..Len(s)
    BY <2>1
  <2>3. ASSUME NEW i \in 1..Len(s)
        PROVE  /\ s[i] \in ServiceEvent
               /\ s[i].role = r => old[r] # None /\ SetBy(s[i]) = new[r].services[s[i].name]
    <3>1. s[i] \in ToSet(s)
      BY <2>2 DEF ToSet
    <3>2. PICK q \in Roles : s[i] \in Changes(q, old, new)
      BY <2>1, <3>1
    <3> QED  BY <1>2, <3>2, ChangesAre
  <2>4. ASSUME old[r] # None, NEW n \in Names, old[r].services[n] # new[r].services[n]
        PROVE  \E i \in 1..Len(s) : s[i].role = r /\ s[i].name = n
    <3>1. PICK e \in Changes(r, old, new) : e.name = n /\ e.role = r
      BY <1>2, <2>4, ChangesAre
    <3>2. e \in ToSet(s)
      BY <2>1
    <3> QED  BY <2>2, <3>1, <3>2 DEF ToSet
  <2>5. PICK f : Run(x, s, Len(s), f) /\ Replay(x, s) = f[Len(s)]
    BY <2>2, ReplayRun
  <2>6. f[0] = x /\ \A i \in 1..Len(s) : f[i] = Apply(f[i - 1], s[i])
    BY <2>2, <2>5, RunSteps
  <2>7. CASE old[r] = None
    <3> DEFINE G == {i \in 0..Len(s) : DOMAIN f[i] = Roles /\ f[i][r] = None}
    <3>1. 0 \in G
      BY <2>2, <2>6, <2>7
    <3>2. ASSUME NEW i \in 1..Len(s), i - 1 \in G PROVE i \in G
      <4>1. s[i] \in ServiceEvent /\ s[i].role # r
        BY <2>3, <2>7
      <4>2. DOMAIN f[i - 1] = Roles /\ f[i - 1][r] = None
        BY <3>2
      <4> QED  BY <2>6, <4>1, <4>2, ApplyElsewhere
    <3>3. \A i \in 0..Len(s) : i \in G
      <4> HIDE DEF G
      <4> QED  BY <2>2, <3>1, <3>2, UpTo
    <3> QED  BY <1>2, <2>2, <2>5, <2>7, <3>3, SectionsKept
  <2>8. CASE old[r] # None
    <3>1. old[r] \in Section /\ new[r] \in Section /\ old[r].base = new[r].base
      BY <1>2, <2>8, SectionsKept
    <3> DEFINE Touched(i, n) == \E j \in 1..i : s[j].role = r /\ s[j].name = n
               Upto(i, n) == IF Touched(i, n) THEN new[r].services[n] ELSE old[r].services[n]
               G == {i \in 0..Len(s) : /\ DOMAIN f[i] = Roles /\ f[i][r] \in Section
                                       /\ f[i][r].base = old[r].base
                                       /\ \A n \in Names : f[i][r].services[n] = Upto(i, n)}
    <3>2. 0 \in G
      <4>1. \A n : ~Touched(0, n)
        OBVIOUS
      <4> HIDE DEF Touched
      <4> QED  BY <2>2, <2>6, <3>1, <4>1
    <3>3. ASSUME NEW i \in 1..Len(s), i - 1 \in G PROVE i \in G
      <4>1. /\ DOMAIN f[i - 1] = Roles /\ f[i - 1][r] \in Section
            /\ f[i - 1][r].base = old[r].base
            /\ \A n \in Names : f[i - 1][r].services[n] = Upto(i - 1, n)
        BY <3>3
      <4>2. f[i] = Apply(f[i - 1], s[i]) /\ s[i] \in ServiceEvent
        BY <2>3, <2>6
      <4>3. \A n : Touched(i, n) <=> Touched(i - 1, n) \/ (s[i].role = r /\ s[i].name = n)
        <5>1. \A j \in 1..i : j \in 1..(i - 1) \/ j = i
          BY <2>2
        <5>2. 1..(i - 1) \subseteq 1..i /\ i \in 1..i
          BY <2>2
        <5> QED  BY <5>1, <5>2
      <4>4. DOMAIN f[i] = Roles
        BY <4>1, <4>2, ApplyElsewhere
      <4> HIDE DEF Touched
      <4>5. CASE s[i].role # r
        <5>1. f[i][r] = f[i - 1][r]
          BY <4>1, <4>2, <4>5, ApplyElsewhere
        <5>2. \A n : Touched(i, n) <=> Touched(i - 1, n)
          BY <4>3, <4>5
        <5> QED  BY <2>2, <4>1, <4>4, <5>1, <5>2
      <4>6. CASE s[i].role = r
        <5>1. /\ f[i][r] \in Section /\ f[i][r].base = f[i - 1][r].base
              /\ \A n \in Names : f[i][r].services[n] = IF n = s[i].name THEN SetBy(s[i])
                                                        ELSE f[i - 1][r].services[n]
          BY <4>1, <4>2, <4>6, ApplySection
        <5>2. SetBy(s[i]) = new[r].services[s[i].name]
          BY <2>3, <4>6
        <5>3. ASSUME NEW n \in Names PROVE f[i][r].services[n] = Upto(i, n)
          <6>1. CASE n = s[i].name
            BY <4>3, <4>6, <5>1, <5>2, <6>1
          <6>2. CASE n # s[i].name
            BY <4>1, <4>3, <5>1, <6>2
          <6> QED  BY <6>1, <6>2
        <5> QED  BY <2>2, <4>1, <4>4, <5>1, <5>3
      <4> QED  BY <4>5, <4>6
    <3>4. \A i \in 0..Len(s) : i \in G
      <4> HIDE DEF G
      <4> QED  BY <2>2, <3>2, <3>3, UpTo
    <3> DEFINE a == Replay(x, s)[r]
    <3>5. /\ a \in Section /\ a.base = new[r].base
          /\ \A n \in Names : a.services[n] = Upto(Len(s), n)
      BY <2>2, <2>5, <3>1, <3>4
    <3> HIDE DEF a
    <3>6. \A n \in Names : a.services[n] = new[r].services[n]
      BY <2>4, <2>8, <3>5
    <3>7. a.services \in Services /\ new[r].services \in Services
      BY <3>1, <3>5 DEF Section
    <3>8. a.services = new[r].services
      BY <3>6, <3>7 DEF Services
    <3>9. /\ a = [base |-> a.base, services |-> a.services]
          /\ new[r] = [base |-> new[r].base, services |-> new[r].services]
      BY <3>1, <3>5 DEF Section
    <3> QED  BY <3>5, <3>8, <3>9 DEF a
  <2> QED  BY <2>7, <2>8
<1> QED  BY <1>1, <1>2

\* calculate_events loses nothing: for every two configurations and every order in
\* which the hash maps are walked, applying the events one by one to the old
\* configuration gives the new one.
THEOREM EventsLeadToNew ==
  ASSUME NEW old \in Config, NEW new \in Config, NEW s \in EventSeqs(old, new)
  PROVE  \A r \in Roles : Replay(old, s)[r] = new[r]
<1>1. DOMAIN old = Roles
  BY DEF Config
<1> QED  BY <1>1, EventsLeadSection

-----------------------------------------------------------------------------
(* Types, and where the three tasks are together.                          *)

\* An instance that takes changes.
Live == inst.pc \in {"spawned", "running"}
\* The same sections are present.
SamePresent(c, d) == \A r \in Roles : c[r] = None <=> d[r] = None

\* Where the tasks are together, and what they hold there: the watcher is spawned
\* when the file has been read, the first thing an instance is started with is a
\* configuration, and an instance that runs has the section of its role.
Phases ==
  /\ sup.pc \in {"opening", "degraded"} => watcher.pc = "none"
  /\ watcher.pc = "none" => /\ sup.pc \in {"opening", "degraded", "exited"}
                            /\ events = <<>> /\ inst.pc = "none"
  /\ sup.pc = "subscribing" => inst.pc = "none"
  /\ watcher.pc # "none" => watcher.old \in Configs
  /\ sup.pc = "restarting" => sup.cfg \in Configs
  /\ inst.pc # "none" => inst.cfg \in Config
  /\ inst.pc = "none" /\ watcher.pc # "none" => events # <<>> /\ IsGeneral(Head(events))
  /\ inst.pc = "running" => Mode # None /\ inst.cfg[Mode] # None
  /\ updates \in Seq(ServiceEvent)

TInv == TypeOK /\ Phases

\* determine_run_mode answers a role or none.
LEMMA RunModeType == \A c : RunMode(c, Flag) \in Roles \cup {None}
  BY FlagAssumption DEF RunMode, Roles

\* It looks at the sections that are present only.
LEMMA RunModeSame ==
  ASSUME NEW c, NEW d, SamePresent(c, d)
  PROVE  RunMode(c, Flag) = RunMode(d, Flag)
<1>1. /\ c["server"] = None <=> d["server"] = None
      /\ c["client"] = None <=> d["client"] = None
  BY DEF SamePresent, Roles
<1> QED  BY <1>1 DEF RunMode

\* A change to a section that is present gives a configuration with the same sections.
LEMMA ApplyConfig ==
  ASSUME NEW c \in Config, NEW e \in ServiceEvent, c[e.role] # None
  PROVE  Apply(c, e) \in Config /\ SamePresent(Apply(c, e), c)
<1>1. DOMAIN c = Roles /\ e.role \in Roles /\ c[e.role] \in Section
  BY EventKinds DEF Config
<1>2. Apply(c, e)[e.role] \in Section
  BY <1>1, ApplySection
<1>3. DOMAIN Apply(c, e) = Roles /\ \A r \in Roles : r # e.role => Apply(c, e)[r] = c[r]
  BY <1>1, ApplyElsewhere
<1>4. \E f : Apply(c, e) = [c EXCEPT ![e.role] = f]
  <2>1. CASE e.kind = "delete"
    BY <2>1 DEF Apply
  <2>2. CASE e.kind = "add"
    BY <2>2 DEF Apply
  <2> QED  BY <2>1, <2>2, EventKinds
<1>5. Apply(c, e) \in Config
  BY <1>1, <1>2, <1>3, <1>4 DEF Config
<1>6. SamePresent(Apply(c, e), c)
  BY <1>1, <1>2, <1>3, NamesAssumption DEF SamePresent
<1> QED  BY <1>5, <1>6

\* What a rescan queues are events, and without a restart service changes.
LEMMA EventSeqsTyped ==
  ASSUME NEW old \in Config, NEW new \in Configs, NEW s \in EventSeqs(old, new)
  PROVE  /\ s \in Seq(Event)
         /\ ~NeedsRestart(old, new) => s \in Seq(ServiceEvent)
<1>1. new \in Config
  BY ConfigsAssumption
<1>2. CASE NeedsRestart(old, new)
  <2>1. s = <<General(new)>>
    BY <1>2 DEF EventSeqs
  <2>2. General(new) \in Event
    BY DEF Event
  <2> QED  BY <1>2, <2>1, <2>2
<1>3. CASE ~NeedsRestart(old, new)
  <2>1. \A q \in Roles : Changes(q, old, new) \subseteq ServiceEvent
    BY <1>1, <1>3, ChangesAre
  <2>2. s \in Seq(ServiceEvent)
    BY <1>3, <2>1, EventSeqSet
  <2>3. ServiceEvent \subseteq Event
    BY EventKinds
  <2> QED  BY <2>2, <2>3
<1> QED  BY <1>2, <1>3

\* The initial states.
LEMMA TInit == Init => TInv
<1> SUFFICES ASSUME Init PROVE TInv
  OBVIOUS
<1>1. <<>> \in Seq(Event) /\ <<>> \in Seq(ServiceEvent)
  OBVIOUS
<1>2. /\ watcher.pc = "none" /\ sup.pc = "opening" /\ inst.pc = "none"
      /\ watcher \in [pc : {"none", "starting", "watching", "failed", "exited"},
                      old : Configs \cup {None}]
      /\ inst \in [pc : {"none", "spawned", "running", "dead"}, cfg : Config \cup {None}]
  BY DEF Init
<1> QED  BY <1>1, <1>2 DEF Init, TInv, TypeOK, Phases, NoStatus

\* What the broadcast to an instance leaves behind.
LEMMA TellTyped ==
  ASSUME TInv, TellInstance
  PROVE  /\ sig' \in SUBSET {"retry", "watcher", "process", "instance"}
         /\ status' \in [of : {"none", "this", "earlier"}, told : BOOLEAN]
<1> DEFINE t == status.told \/ status.of = "this"
<1>1. sig' \in {sig, sig \cup {"instance"}} /\ status' = [status EXCEPT !.told = t] /\ t \in BOOLEAN
  BY DEF TellInstance
<1> HIDE DEF t
<1> QED  BY <1>1 DEF TInv, TypeOK

\* What the end of an instance leaves behind.
LEMMA DiesTyped ==
  ASSUME TInv, Dies, inst.pc # "none"
  PROVE  /\ status' \in [of : {"none", "this", "earlier"}, told : BOOLEAN]
         /\ inst' \in [pc : {"none", "spawned", "running", "dead"}, cfg : Config \cup {None}]
         /\ inst'.pc = "dead" /\ inst'.cfg = inst.cfg
         /\ updates' = <<>> /\ updates' \in Seq(ServiceEvent) /\ updates' \in Seq(Event)
<1> DEFINE t == status.told \/ (status.of = "this" /\ sup.pc \in {"restarting", "joining"})
<1>1. status' = [status EXCEPT !.told = t] /\ t \in BOOLEAN
  BY DEF Dies
<1>2. inst' = [inst EXCEPT !.pc = "dead"] /\ updates' = <<>>
  BY DEF Dies
<1> HIDE DEF t
<1> QED  BY <1>1, <1>2 DEF TInv, TypeOK

\* What a new generation starts with.
LEMMA SpawnTyped ==
  ASSUME TInv, NEW c \in Configs, Spawn(c)
  PROVE  /\ status' \in [of : {"none", "this", "earlier"}, told : BOOLEAN]
         /\ inst' \in [pc : {"none", "spawned", "running", "dead"}, cfg : Config \cup {None}]
         /\ inst'.pc = "spawned" /\ inst'.cfg = c /\ c \in Config
         /\ updates' = <<>> /\ updates' \in Seq(ServiceEvent) /\ updates' \in Seq(Event)
<1>1. inst' = [pc |-> "spawned", cfg |-> c] /\ updates' = <<>> /\ c \in Config
  BY ConfigsAssumption DEF Spawn
<1>2. status' \in [of : {"none", "this", "earlier"}, told : BOOLEAN]
  BY DEF Spawn, TInv, TypeOK
<1> QED  BY <1>1, <1>2

\* A broadcast reaches receivers that there are.
LEMMA SubscribedType == Subscribed \in SUBSET {"retry", "watcher", "process", "instance"}
<1> DEFINE w == IF sup.pc = "opening" \/ watcher.pc \in {"starting", "watching"} THEN {"watcher"}
                ELSE {}
           q == IF sup.pc \in {"loop", "forwarding", "restarting", "joining"} THEN {"process"} ELSE {}
<1>1. w \subseteq {"watcher"} /\ q \subseteq {"process"}
  OBVIOUS
<1>2. Subscribed = {"retry"} \cup w \cup q
  BY DEF Subscribed
<1> QED  BY <1>1, <1>2

\* The file is written, the signal sent.
LEMMA TWorld ==
  ASSUME TInv, SignalShutdown \/ \E c \in Configs \cup {Bad} : WriteFile(c)
  PROVE  TInv'
<1> USE DEF TInv, TypeOK, Phases, Mode
<1>1. CASE SignalShutdown
  <2>1. sig' = sig \cup Subscribed
        /\ UNCHANGED <<file, changed, watcher, events, sup, inst, updates, status>>
    BY <1>1 DEF SignalShutdown
  <2>2. stop' \in BOOLEAN
    BY <1>1 DEF SignalShutdown
  <2>3. sig' \in SUBSET {"retry", "watcher", "process", "instance"}
    BY <2>1, SubscribedType
  <2> QED  BY <2>1, <2>2, <2>3
<1>2. CASE \E c \in Configs \cup {Bad} : WriteFile(c)
  BY <1>2 DEF WriteFile
<1> QED  BY <1>1, <1>2

\* The configuration is opened: the first event is a configuration.
LEMMA TOpening == ASSUME TInv, Opening PROVE TInv'
<1> USE DEF TInv, TypeOK, Phases, Mode
<1>1. CASE OpenConfig
  <2>1. CASE file = Bad
    BY <1>1, <2>1 DEF OpenConfig
  <2>2. CASE file # Bad
    <3>1. /\ file \in Configs /\ events' = <<General(file)>>
          /\ watcher' = [pc |-> "starting", old |-> file]
          /\ sup' = [sup EXCEPT !.pc = "subscribing"]
          /\ UNCHANGED <<file, changed, inst, updates, stop, sig, status>>
      BY <1>1, <2>2 DEF OpenConfig
    <3>2. /\ events' \in Seq(Event) /\ events' # <<>> /\ IsGeneral(Head(events'))
      BY <3>1 DEF Event, General, IsGeneral
    <3>3. watcher'.pc = "starting" /\ watcher'.old \in Configs /\ sup'.pc = "subscribing"
      BY <3>1
    <3>4. inst.pc = "none"
      BY <1>1 DEF OpenConfig
    <3> QED  BY <3>1, <3>2, <3>3, <3>4
  <2> QED  BY <2>1, <2>2
<1>2. CASE RetryOpen
  BY <1>2 DEF RetryOpen
<1>3. CASE StopDegraded
  BY <1>3 DEF StopDegraded
<1>4. CASE SubscribeProcess
  BY <1>4 DEF SubscribeProcess
<1> QED  BY <1>1, <1>2, <1>3, <1>4 DEF Opening

\* The watcher appends, so the front of the queue stays what it was.
LEMMA TWatcher == ASSUME TInv, Watcher PROVE TInv'
<1> USE DEF TInv, TypeOK, Phases, Mode
<1>1. CASE StartWatching
  BY <1>1 DEF StartWatching
<1>2. CASE WatchFails
  BY <1>2 DEF WatchFails
<1>3. CASE Rescan
  <2>1. CASE file = Bad
    BY <1>3, <2>1 DEF Rescan
  <2>2. CASE file # Bad
    <3>1. file \in Configs /\ watcher.old \in Configs /\ watcher.old \in Config
      BY <1>3, <2>2, ConfigsAssumption DEF Rescan
    <3>2. PICK s \in EventSeqs(watcher.old, file) : events' = events \o s
      BY <1>3, <2>2 DEF Rescan
    <3>3. s \in Seq(Event)
      BY <3>1, EventSeqsTyped
    <3>4. /\ events' \in Seq(Event)
          /\ events # <<>> => events' # <<>> /\ Head(events') = Head(events)
      BY <3>2, <3>3
    <3>5. /\ watcher' = [watcher EXCEPT !.old = file] /\ changed' = FALSE
          /\ UNCHANGED <<file, sup, inst, updates, stop, sig, status>>
      BY <1>3, <2>2 DEF Rescan
    <3>6. watcher'.pc = "watching" /\ watcher.pc = "watching" /\ watcher'.old = file
      BY <1>3, <3>5 DEF Rescan
    <3> QED  BY <3>1, <3>4, <3>5, <3>6
  <2> QED  BY <2>1, <2>2
<1>4. CASE StopWatcher
  BY <1>4 DEF StopWatcher
<1> QED  BY <1>1, <1>2, <1>3, <1>4 DEF Watcher

\* The main loop: a service change reaches an instance only after it was started.
LEMMA TMainLoop == ASSUME TInv, MainLoop PROVE TInv'
<1> USE DEF TInv, TypeOK, Phases, Mode
<1>0. ASSUME events # <<>>
      PROVE  /\ Head(events) \in Event /\ Tail(events) \in Seq(Event)
             /\ Head(events).kind = "general" => Head(events).cfg \in Configs
             /\ Head(events).kind # "general" => Head(events) \in ServiceEvent
  <2>1. Head(events) \in Event /\ Tail(events) \in Seq(Event)
    BY <1>0
  <2> QED  BY <2>1, EventKinds DEF IsGeneral
<1>1. CASE FirstStart
  <2>1. Head(events).cfg \in Configs /\ events' \in Seq(Event)
    BY <1>0, <1>1 DEF FirstStart
  <2>2. watcher.pc # "none"
    BY <1>1 DEF FirstStart
  <2>3. /\ status' \in [of : {"none", "this", "earlier"}, told : BOOLEAN]
        /\ inst' \in [pc : {"none", "spawned", "running", "dead"}, cfg : Config \cup {None}]
        /\ inst'.pc = "spawned" /\ inst'.cfg \in Config
        /\ updates' \in Seq(ServiceEvent) /\ updates' \in Seq(Event)
    BY <1>1, <2>1, SpawnTyped DEF FirstStart
  <2>4. UNCHANGED <<file, changed, watcher, sup, stop, sig>> /\ sup.pc = "loop"
    BY <1>1 DEF FirstStart
  <2> QED  BY <2>1, <2>2, <2>3, <2>4
<1>2. CASE BeginRestart
  <2>1. Head(events).cfg \in Configs /\ events' \in Seq(Event)
    BY <1>0, <1>2 DEF BeginRestart
  <2>2. watcher.pc # "none" /\ inst.pc # "none"
    BY <1>2 DEF BeginRestart
  <2>3. sup' = [pc |-> "restarting", cfg |-> Head(events).cfg]
        /\ UNCHANGED <<file, changed, watcher, inst, updates, stop>>
    BY <1>2 DEF BeginRestart
  <2>4. sup'.pc = "restarting" /\ sup'.cfg \in Configs
    BY <2>1, <2>3
  <2>5. /\ sig' \in SUBSET {"retry", "watcher", "process", "instance"}
        /\ status' \in [of : {"none", "this", "earlier"}, told : BOOLEAN]
    BY <1>2, TellTyped DEF BeginRestart
  <2> QED  BY <2>1, <2>2, <2>3, <2>4, <2>5
<1>3. CASE FinishRestart
  <2>1. sup.cfg \in Configs /\ watcher.pc # "none"
    BY <1>3 DEF FinishRestart
  <2>2. sup' = [pc |-> "loop", cfg |-> None] /\ sig' = sig \ {"instance"}
        /\ UNCHANGED <<file, changed, watcher, events, stop>>
    BY <1>3 DEF FinishRestart
  <2>3. sup'.pc = "loop"
    BY <2>2
  <2>4. /\ status' \in [of : {"none", "this", "earlier"}, told : BOOLEAN]
        /\ inst' \in [pc : {"none", "spawned", "running", "dead"}, cfg : Config \cup {None}]
        /\ inst'.pc = "spawned" /\ inst'.cfg \in Config
        /\ updates' \in Seq(ServiceEvent) /\ updates' \in Seq(Event)
    BY <1>3, <2>1, SpawnTyped DEF FinishRestart
  <2>5. sup' \in [pc : {"opening", "degraded", "subscribing", "loop", "forwarding", "restarting",
                        "joining", "exited"},
                  cfg : Configs \cup {None}]
    BY <2>2
  <2> QED  BY <2>1, <2>2, <2>3, <2>4, <2>5
<1>4. CASE ForwardChange
  <2>1. Head(events) \in ServiceEvent /\ events' \in Seq(Event)
    BY <1>0, <1>4 DEF ForwardChange
  <2>2. inst.pc # "none" /\ watcher.pc # "none"
    BY <1>4 DEF ForwardChange, IsGeneral
  <2>3. updates' \in Seq(ServiceEvent) /\ updates' \in Seq(Event)
    <3>1. updates' \in {updates, Append(updates, Head(events))}
      BY <1>4 DEF ForwardChange
    <3>2. ServiceEvent \subseteq Event
      BY EventKinds
    <3>3. Append(updates, Head(events)) \in Seq(ServiceEvent)
      BY <2>1
    <3>4. Seq(ServiceEvent) \subseteq Seq(Event)
      BY <3>2
    <3> QED  BY <3>1, <3>3, <3>4
  <2>4. sup' = [sup EXCEPT !.pc = "loop"]
        /\ UNCHANGED <<file, changed, watcher, inst, stop, sig, status>>
    BY <1>4 DEF ForwardChange
  <2> QED  BY <1>4, <2>1, <2>2, <2>3, <2>4
<1>5. CASE BeginTeardown
  BY <1>5, TellTyped DEF BeginTeardown
<1>6. CASE FinishTeardown
  BY <1>6 DEF FinishTeardown
<1>7. CASE AwaitRoom
  BY <1>7 DEF AwaitRoom
<1> QED  BY <1>1, <1>2, <1>3, <1>4, <1>5, <1>6, <1>7 DEF MainLoop

\* The instance: changes of its own role keep its sections, so its role stays.
LEMMA TInstance == ASSUME TInv, Instance PROVE TInv'
<1> USE DEF TInv, TypeOK, Phases
<1>1. ASSUME Dies, inst.pc # "none", UNCHANGED <<file, changed, watcher, events, sup, stop, sig>>
      PROVE  TInv'
  <2>1. inst.cfg \in Config
    BY <1>1
  <2>2. watcher.pc # "none"
    BY <1>1
  <2> QED  BY <1>1, <2>1, <2>2, DiesTyped
<1>2. CASE PollInstance
  <2>1. CASE Mode # None /\ inst.cfg[Mode] # None
    <3>1. /\ inst' = [inst EXCEPT !.pc = "running"] /\ inst.pc = "spawned"
          /\ UNCHANGED <<file, changed, watcher, events, sup, stop, sig, updates>>
          /\ status' \in {[of |-> "this", told |-> FALSE], status}
      BY <1>2, <2>1 DEF PollInstance, BindStatus
    <3>2. inst'.pc = "running" /\ inst'.cfg = inst.cfg
      BY <3>1
    <3>3. Mode' = Mode
      BY <3>2 DEF Mode
    <3>4. inst' \in [pc : {"none", "spawned", "running", "dead"}, cfg : Config \cup {None}]
      BY <3>1
    <3>5. status' \in [of : {"none", "this", "earlier"}, told : BOOLEAN]
      <4>1. [of |-> "this", told |-> FALSE] \in [of : {"none", "this", "earlier"}, told : BOOLEAN]
        OBVIOUS
      <4>2. status \in [of : {"none", "this", "earlier"}, told : BOOLEAN]
        OBVIOUS
      <4> QED  BY <3>1, <4>1, <4>2, Zenon
    <3> QED  BY <2>1, <3>1, <3>2, <3>3, <3>4, <3>5
  <2>2. CASE ~(Mode # None /\ inst.cfg[Mode] # None)
    BY <1>1, <1>2, <2>2 DEF PollInstance
  <2> QED  BY <2>1, <2>2
<1>3. CASE TakeUpdate
  <2>1. /\ inst.pc = "running" /\ inst.cfg \in Config /\ Head(updates) \in ServiceEvent
        /\ updates' = Tail(updates) /\ updates' \in Seq(ServiceEvent) /\ updates' \in Seq(Event)
        /\ UNCHANGED <<file, changed, watcher, events, sup, stop, sig, status>>
    BY <1>3 DEF TakeUpdate
  <2>2. CASE Head(updates).role = Mode
    <3>1. /\ Apply(inst.cfg, Head(updates)) \in Config
          /\ SamePresent(Apply(inst.cfg, Head(updates)), inst.cfg)
      BY <2>1, <2>2, ApplyConfig
    <3>2. inst' = [inst EXCEPT !.cfg = Apply(inst.cfg, Head(updates))]
      BY <1>3, <2>2 DEF TakeUpdate
    <3>3. inst'.pc = inst.pc /\ inst'.cfg = Apply(inst.cfg, Head(updates))
      BY <3>2
    <3>4. Mode' = Mode /\ (inst'.cfg[Mode] # None <=> inst.cfg[Mode] # None)
      BY <3>1, <3>3, <2>1, RunModeSame, RunModeType DEF Mode, SamePresent
    <3>5. inst' \in [pc : {"none", "spawned", "running", "dead"}, cfg : Config \cup {None}]
      BY <3>1, <3>2
    <3>6. Mode' # None /\ inst'.cfg[Mode'] # None
      BY <2>1, <3>4
    <3> QED  BY <2>1, <3>1, <3>3, <3>5, <3>6
  <2>3. CASE Head(updates).role # Mode
    <3>1. inst' = inst
      BY <1>3, <2>3 DEF TakeUpdate
    <3> QED  BY <2>1, <3>1 DEF Mode
  <2> QED  BY <2>2, <2>3
<1>4. CASE StopInstance
  BY <1>1, <1>4 DEF StopInstance
<1>5. CASE InstanceFails
  BY <1>1, <1>5 DEF InstanceFails
<1>6. CASE StatusEnds
  BY <1>6 DEF StatusEnds, NoStatus, Mode
<1> QED  BY <1>2, <1>3, <1>4, <1>5, <1>6 DEF Instance

\* Every step keeps types and phases.
LEMMA TStep == TInv /\ [Next]_vars => TInv'
<1>1. ASSUME TInv, UNCHANGED vars PROVE TInv'
  BY <1>1 DEF vars, TInv, TypeOK, Phases, Mode
<1> QED  BY <1>1, TWorld, TOpening, TWatcher, TMainLoop, TInstance DEF Next

\* Every variable of the supervisor, the watcher and the instance keeps its type; for
\* the configuration of a running instance that takes the role it runs in.
THEOREM TypeCorrect == Spec => []TypeOK
<1>1. TInv => TypeOK
  BY DEF TInv
<1> QED  BY <1>1, TInit, TStep, PTL DEF Spec

-----------------------------------------------------------------------------
(* The two queues.  InSync is not inductive: while a restart is pending    *)
(* nothing is known of the instance, so what is pending has to lead to the *)
(* file by itself; when the last restart leaves the queue the sections it  *)
(* brings must be those of the file, or the role would be another; and     *)
(* every hand-over has a promise of its own.  Each is about values only,   *)
(* so that a step of a task is one lemma about queues.                     *)

\* The same configuration, section by section.
Agree(c, d) == \A r \in Roles : c[r] = d[r]

\* The last configuration that is queued has the sections of c.
LastPresent(ev, c) ==
  \A i \in 1..Len(ev) :
    IsGeneral(ev[i]) /\ (\A j \in 1..Len(ev) : j > i => ~IsGeneral(ev[j]))
      => SamePresent(ev[i].cfg, c)

\* c has the section that the configuration old selects.
RoleInSync(c, old) ==
  LET m == RunMode(old, Flag) IN m # None /\ old[m] # None => c[m] = old[m]

\* A queue with a configuration in it ends in old, wherever it is replayed from.
QueueOK(ev, old) == (HasGeneral(ev) => Agree(Replay(old, ev), old)) /\ LastPresent(ev, old)

\* A generation that is started with cfg and gets the queue ends in old.
RestartOK(cfg, ev, old) ==
  Agree(Replay(cfg, ev), old) /\ (HasGeneral(ev) \/ SamePresent(cfg, old))

\* An instance that runs cfg and gets both queues ends with the section it serves as
\* old has it, unless it is replaced before.
LoopOK(cfg, upd, ev, old) ==
  HasGeneral(ev) \/ (SamePresent(cfg, old) /\ RoleInSync(Replay(Replay(cfg, upd), ev), old))

\* Service changes are events and no restart.
LEMMA ServiceSeq ==
  ASSUME NEW s \in Seq(ServiceEvent)
  PROVE  s \in Seq(Event) /\ ~HasGeneral(s)
<1>1. ServiceEvent \subseteq Event
  BY EventKinds
<1>2. ASSUME NEW i \in 1..Len(s) PROVE ~IsGeneral(s[i])
  <2>1. s[i] \in ServiceEvent
    OBVIOUS
  <2> QED  BY <2>1, EventKinds DEF IsGeneral
<1> QED  BY <1>1, <1>2 DEF HasGeneral

\* Where a restart is queued: at the front or behind it.
LEMMA GeneralTail ==
  ASSUME NEW E, NEW s \in Seq(E), s # <<>>
  PROVE  HasGeneral(s) <=> IsGeneral(Head(s)) \/ HasGeneral(Tail(s))
<1>1. Len(s) \in Nat /\ Len(s) # 0 /\ Len(Tail(s)) = Len(s) - 1 /\ Head(s) = s[1]
  OBVIOUS
<1>2. \A i \in 1..Len(Tail(s)) : Tail(s)[i] = s[i + 1]
  OBVIOUS
<1> DEFINE t == Tail(s)
<1> HIDE DEF t
<1>3. ASSUME NEW i \in 1..Len(s), IsGeneral(s[i]) PROVE IsGeneral(s[1]) \/ HasGeneral(t)
  <2>1. CASE i = 1
    BY <1>3, <2>1
  <2>2. CASE i # 1
    <3>1. i - 1 \in 1..Len(t) /\ t[i - 1] = s[i]
      BY <1>1, <1>2, <2>2 DEF t
    <3> QED  BY <1>3, <3>1 DEF HasGeneral
  <2> QED  BY <2>1, <2>2
<1>4. ASSUME NEW i \in 1..Len(t), IsGeneral(t[i]) PROVE HasGeneral(s)
  <2>1. i + 1 \in 1..Len(s) /\ t[i] = s[i + 1]
    BY <1>1, <1>2 DEF t
  <2> QED  BY <1>4, <2>1 DEF HasGeneral
<1>5. IsGeneral(s[1]) => HasGeneral(s)
  BY <1>1 DEF HasGeneral
<1>6. HasGeneral(s) <=> IsGeneral(s[1]) \/ HasGeneral(t)
  BY <1>3, <1>4, <1>5 DEF HasGeneral
<1> QED  BY <1>1, <1>6 DEF t

\* Where a restart is queued: before or after an append.
LEMMA GeneralConcat ==
  ASSUME NEW E, NEW s \in Seq(E), NEW t \in Seq(E)
  PROVE  HasGeneral(s \o t) <=> HasGeneral(s) \/ HasGeneral(t)
<1>1. \A q \in Seq(E) : HasGeneral(q) <=> \E e \in ToSet(q) : IsGeneral(e)
  BY DEF HasGeneral, ToSet
<1>2. s \o t \in Seq(E) /\ ToSet(s \o t) = ToSet(s) \cup ToSet(t)
  BY ConcatSet
<1> QED  BY <1>1, <1>2

\* The last configuration of a queue whose front is taken.
LEMMA LastTail ==
  ASSUME NEW E, NEW s \in Seq(E), s # <<>>, NEW c, LastPresent(s, c)
  PROVE  /\ LastPresent(Tail(s), c)
         /\ IsGeneral(Head(s)) /\ ~HasGeneral(Tail(s)) => SamePresent(Head(s).cfg, c)
<1> DEFINE t == Tail(s)
<1>1. Len(s) \in Nat /\ Len(s) # 0 /\ Len(t) = Len(s) - 1 /\ Head(s) = s[1]
  OBVIOUS
<1>2. \A i \in 1..Len(t) : t[i] = s[i + 1]
  OBVIOUS
<1> HIDE DEF t
<1>3. \A j \in 1..Len(s) : j > 1 => j - 1 \in 1..Len(t) /\ s[j] = t[j - 1]
  BY <1>1, <1>2
<1>4. LastPresent(t, c)
  <2>1. SUFFICES ASSUME NEW i \in 1..Len(t), IsGeneral(t[i]),
                        \A j \in 1..Len(t) : j > i => ~IsGeneral(t[j])
                 PROVE  SamePresent(t[i].cfg, c)
    BY DEF LastPresent
  <2>2. i + 1 \in 1..Len(s) /\ s[i + 1] = t[i]
    BY <1>1, <1>2
  <2>3. ASSUME NEW j \in 1..Len(s), j > i + 1 PROVE ~IsGeneral(s[j])
    <3>1. j - 1 \in 1..Len(t) /\ s[j] = t[j - 1] /\ j - 1 > i
      BY <1>1, <1>3, <2>3
    <3> QED  BY <2>1, <3>1
  <2> QED  BY <2>1, <2>2, <2>3 DEF LastPresent
<1>5. ASSUME IsGeneral(s[1]), ~HasGeneral(t) PROVE SamePresent(s[1].cfg, c)
  <2>1. ASSUME NEW j \in 1..Len(s), j > 1 PROVE ~IsGeneral(s[j])
    BY <1>3, <1>5, <2>1 DEF HasGeneral
  <2>2. 1 \in 1..Len(s)
    BY <1>1
  <2> QED  BY <1>5, <2>1, <2>2 DEF LastPresent
<1> QED  BY <1>1, <1>4, <1>5 DEF t

\* The last configuration of a queue to which service changes are appended.
LEMMA LastConcat ==
  ASSUME NEW s \in Seq(Event), NEW t \in Seq(ServiceEvent), NEW c, NEW d,
         LastPresent(s, c), SamePresent(c, d)
  PROVE  LastPresent(s \o t, d)
<1> DEFINE st == s \o t
<1>0. t \in Seq(Event) /\ ~HasGeneral(t)
  BY ServiceSeq
<1>1. Len(st) = Len(s) + Len(t) /\ Len(s) \in Nat /\ Len(t) \in Nat
  BY <1>0
<1>2. \A i \in 1..Len(s) : st[i] = s[i]
  BY <1>0
<1>3. \A i \in 1..Len(t) : st[Len(s) + i] = t[i]
  BY <1>0
<1> HIDE DEF st
<1>4. SUFFICES ASSUME NEW i \in 1..Len(st), IsGeneral(st[i]),
                      \A j \in 1..Len(st) : j > i => ~IsGeneral(st[j])
               PROVE  SamePresent(st[i].cfg, d)
  BY DEF LastPresent, st
<1>5. i \in 1..Len(s)
  <2>1. SUFFICES ASSUME i > Len(s) PROVE FALSE
    BY <1>1
  <2>2. i - Len(s) \in 1..Len(t) /\ i = Len(s) + (i - Len(s))
    BY <1>1, <2>1
  <2>3. IsGeneral(t[i - Len(s)])
    BY <1>3, <1>4, <2>2
  <2> QED  BY <1>0, <2>2, <2>3 DEF HasGeneral
<1>6. \A j \in 1..Len(s) : j > i => ~IsGeneral(s[j])
  BY <1>1, <1>2, <1>4
<1>7. SamePresent(s[i].cfg, c)
  BY <1>2, <1>4, <1>5, <1>6 DEF LastPresent
<1> QED  BY <1>2, <1>5, <1>7 DEF SamePresent

\* The last configuration of a queue to which one is appended.
LEMMA LastAppend ==
  ASSUME NEW s \in Seq(Event), NEW c \in Configs
  PROVE  HasGeneral(s \o <<General(c)>>) /\ LastPresent(s \o <<General(c)>>, c)
<1> DEFINE st == s \o <<General(c)>>
<1>0. General(c) \in Event /\ IsGeneral(General(c)) /\ General(c).cfg = c
  BY DEF Event, General, IsGeneral
<1>1. Len(st) = Len(s) + 1 /\ Len(s) \in Nat /\ st[Len(s) + 1] = General(c)
  OBVIOUS
<1> HIDE DEF st
<1>2. SUFFICES ASSUME NEW i \in 1..Len(st), IsGeneral(st[i]),
                      \A j \in 1..Len(st) : j > i => ~IsGeneral(st[j])
               PROVE  SamePresent(st[i].cfg, c)
  BY <1>0, <1>1 DEF LastPresent, HasGeneral, st
<1>3. i = Len(s) + 1
  BY <1>0, <1>1, <1>2
<1> QED  BY <1>0, <1>1, <1>3 DEF SamePresent

\* Without a restart the same sections are present.
LEMMA KeptPresent ==
  ASSUME NEW old \in Config, NEW new \in Config, ~NeedsRestart(old, new)
  PROVE  SamePresent(old, new)
  BY DEF NeedsRestart, SamePresent

\* A rescan keeps the queue's promise, for the configuration it has read.
LEMMA QueueRescan ==
  ASSUME NEW ev \in Seq(Event), NEW old \in Configs, NEW new \in Configs,
         NEW s \in EventSeqs(old, new), QueueOK(ev, old)
  PROVE  QueueOK(ev \o s, new)
<1>1. old \in Config /\ new \in Config /\ DOMAIN old = Roles /\ DOMAIN new = Roles
  BY ConfigsAssumption DEF Config
<1>2. s \in Seq(Event)
  BY <1>1, EventSeqsTyped
<1>3. DOMAIN Replay(new, ev) = Roles /\ Replay(new, ev \o s) = Replay(Replay(new, ev), s)
  BY <1>1, <1>2, ReplayLocal, ReplayConcat
<1>4. CASE NeedsRestart(old, new)
  <2>1. s = <<General(new)>>
    BY <1>4 DEF EventSeqs
  <2>2. LastPresent(ev \o s, new)
    BY <2>1, LastAppend
  <2>3. Replay(Replay(new, ev), s) = new
    <3>1. \A c : Apply(c, General(new)) = new
      BY DEF Apply, General
    <3> QED  BY <2>1, <3>1, ReplayOne
  <2> QED  BY <1>3, <2>2, <2>3 DEF QueueOK, Agree
<1>5. CASE ~NeedsRestart(old, new)
  <2>1. s \in Seq(ServiceEvent) /\ ~HasGeneral(s)
    BY <1>1, <1>5, EventSeqsTyped, ServiceSeq
  <2>2. LastPresent(ev \o s, new)
    BY <1>1, <1>5, <2>1, LastConcat, KeptPresent DEF QueueOK
  <2>3. ASSUME HasGeneral(ev \o s) PROVE Agree(Replay(new, ev \o s), new)
    <3>1. HasGeneral(ev)
      BY <1>2, <2>1, <2>3, GeneralConcat
    <3>2. Replay(new, ev) = Replay(old, ev)
      BY <1>1, <3>1, ReplayForgets
    <3>3. \A r \in Roles : Replay(new, ev)[r] = old[r]
      BY <3>1, <3>2 DEF QueueOK, Agree
    <3> QED  BY <1>1, <1>3, <3>3, EventsLeadSection DEF Agree
  <2> QED  BY <2>2, <2>3 DEF QueueOK
<1> QED  BY <1>4, <1>5

\* It keeps the promise to a generation that is about to start.
LEMMA RestartRescan ==
  ASSUME NEW ev \in Seq(Event), NEW old \in Configs, NEW new \in Configs,
         NEW s \in EventSeqs(old, new), NEW cfg \in Configs, RestartOK(cfg, ev, old)
  PROVE  RestartOK(cfg, ev \o s, new)
<1>1. old \in Config /\ new \in Config /\ DOMAIN cfg = Roles
  BY ConfigsAssumption DEF Config
<1>2. s \in Seq(Event)
  BY <1>1, EventSeqsTyped
<1>3. DOMAIN Replay(cfg, ev) = Roles /\ Replay(cfg, ev \o s) = Replay(Replay(cfg, ev), s)
  BY <1>1, <1>2, ReplayLocal, ReplayConcat
<1>4. Agree(Replay(cfg, ev \o s), new)
  BY <1>1, <1>3, EventsLeadSection DEF RestartOK, Agree
<1>5. HasGeneral(ev \o s) \/ SamePresent(cfg, new)
  <2>1. CASE HasGeneral(ev)
    BY <1>2, <2>1, GeneralConcat
  <2>2. CASE NeedsRestart(old, new)
    <3>1. s = <<General(new)>>
      BY <2>2 DEF EventSeqs
    <3> QED  BY <3>1, LastAppend
  <2>3. CASE ~HasGeneral(ev) /\ ~NeedsRestart(old, new)
    BY <1>1, <2>3, KeptPresent DEF RestartOK, SamePresent
  <2> QED  BY <2>1, <2>2, <2>3
<1> QED  BY <1>4, <1>5 DEF RestartOK

\* It keeps the promise to a live instance: if its changes need no restart the role
\* is the same, and they lead from the old section to the new one.
LEMMA LoopRescan ==
  ASSUME NEW ev \in Seq(Event), NEW old \in Configs, NEW new \in Configs,
         NEW s \in EventSeqs(old, new), NEW cfg \in Config, NEW upd \in Seq(Event),
         LoopOK(cfg, upd, ev, old)
  PROVE  LoopOK(cfg, upd, ev \o s, new)
<1>1. old \in Config /\ new \in Config /\ DOMAIN cfg = Roles
  BY ConfigsAssumption DEF Config
<1>2. s \in Seq(Event)
  BY <1>1, EventSeqsTyped
<1>3. CASE HasGeneral(ev)
  BY <1>2, <1>3, GeneralConcat DEF LoopOK
<1>4. CASE NeedsRestart(old, new)
  <2>1. s = <<General(new)>>
    BY <1>4 DEF EventSeqs
  <2> QED  BY <2>1, LastAppend DEF LoopOK
<1>5. CASE ~HasGeneral(ev) /\ ~NeedsRestart(old, new)
  <2>1. SamePresent(cfg, old) /\ SamePresent(old, new)
    BY <1>1, <1>5, KeptPresent DEF LoopOK
  <2>2. RunMode(new, Flag) = RunMode(old, Flag)
    BY <2>1, RunModeSame
  <2> DEFINE u == Replay(cfg, upd)
             v == Replay(u, ev)
             m == RunMode(old, Flag)
  <2>3. DOMAIN u = Roles
    BY <1>1, ReplayLocal
  <2> HIDE DEF u
  <2>4. DOMAIN v = Roles /\ Replay(u, ev \o s) = Replay(v, s)
    BY <1>2, <2>3, ReplayLocal, ReplayConcat
  <2>5. m # None /\ old[m] # None => v[m] = old[m]
    BY <1>5 DEF LoopOK, RoleInSync, u
  <2> HIDE DEF v
  <2>6. m # None => m \in Roles
    BY RunModeType
  <2>7. m # None => (old[m] # None <=> new[m] # None)
    BY <2>1, <2>6 DEF SamePresent
  <2> HIDE DEF m
  <2>8. m # None /\ new[m] # None => Replay(u, ev \o s)[m] = new[m]
    BY <1>1, <2>4, <2>5, <2>6, <2>7, EventsLeadSection
  <2>9. RoleInSync(Replay(Replay(cfg, upd), ev \o s), new)
    BY <2>2, <2>8 DEF RoleInSync, u, m
  <2> QED  BY <2>1, <2>9 DEF LoopOK, SamePresent
<1> QED  BY <1>3, <1>4, <1>5

\* The supervisor takes a change from the queue.
LEMMA QueueTake ==
  ASSUME NEW ev \in Seq(Event), ev # <<>>, NEW old \in Configs, QueueOK(ev, old)
  PROVE  /\ QueueOK(Tail(ev), old)
         /\ IsGeneral(Head(ev)) => RestartOK(Head(ev).cfg, Tail(ev), old)
<1>1. DOMAIN old = Roles
  BY ConfigsAssumption DEF Config
<1> DEFINE h == Head(ev)
           t == Tail(ev)
<1>2. h \in Event /\ t \in Seq(Event)
  OBVIOUS
<1>3. HasGeneral(ev) <=> IsGeneral(h) \/ HasGeneral(t)
  BY GeneralTail
<1>4. \A c : Replay(c, ev) = Replay(Apply(c, h), t)
  BY ReplayHead
<1>5. LastPresent(t, old) /\ (IsGeneral(h) /\ ~HasGeneral(t) => SamePresent(h.cfg, old))
  BY LastTail DEF QueueOK
<1> HIDE DEF h, t
<1>6. DOMAIN Apply(old, h) = Roles
  BY <1>1, <1>2, ApplyLocal
<1>7. ASSUME HasGeneral(t) PROVE Agree(Replay(old, t), old)
  <2>1. Replay(old, t) = Replay(Apply(old, h), t)
    BY <1>1, <1>2, <1>6, <1>7, ReplayForgets
  <2> QED  BY <1>3, <1>4, <1>7, <2>1 DEF QueueOK
<1>8. ASSUME IsGeneral(h) PROVE RestartOK(h.cfg, t, old)
  <2>1. Apply(old, h) = h.cfg
    BY <1>8, ApplyGeneral
  <2>2. Agree(Replay(h.cfg, t), old)
    BY <1>3, <1>4, <1>8, <2>1 DEF QueueOK
  <2> QED  BY <1>5, <1>8, <2>2 DEF RestartOK
<1> QED  BY <1>5, <1>7, <1>8 DEF QueueOK, h, t

\* A new generation starts.
LEMMA LoopStart ==
  ASSUME NEW cfg, NEW ev, NEW old, RestartOK(cfg, ev, old)
  PROVE  LoopOK(cfg, <<>>, ev, old)
<1>1. Replay(cfg, <<>>) = cfg
  BY ReplayNone
<1>2. RoleInSync(Replay(cfg, ev), old)
  BY RunModeType DEF RestartOK, Agree, RoleInSync
<1> QED  BY <1>1, <1>2 DEF RestartOK, LoopOK

\* A service change is passed on.
LEMMA LoopForward ==
  ASSUME NEW ev \in Seq(Event), ev # <<>>, ~IsGeneral(Head(ev)), NEW old, NEW cfg,
         NEW upd \in Seq(Event), LoopOK(cfg, upd, ev, old)
  PROVE  LoopOK(cfg, Append(upd, Head(ev)), Tail(ev), old)
<1>1. HasGeneral(ev) <=> HasGeneral(Tail(ev))
  BY GeneralTail
<1>2. Head(ev) \in Event
  OBVIOUS
<1>3. Replay(cfg, Append(upd, Head(ev))) = Apply(Replay(cfg, upd), Head(ev))
  BY <1>2, ReplayAppend
<1>4. Replay(Replay(cfg, upd), ev) = Replay(Apply(Replay(cfg, upd), Head(ev)), Tail(ev))
  BY ReplayHead
<1> QED  BY <1>1, <1>3, <1>4 DEF LoopOK

\* The instance takes a service change.
LEMMA LoopTake ==
  ASSUME NEW ev \in Seq(Event), NEW old, NEW cfg \in Config, NEW upd \in Seq(ServiceEvent),
         upd # <<>>, LoopOK(cfg, upd, ev, old)
  PROVE  LET h == Head(upd)
             m == RunMode(cfg, Flag)
         IN  /\ h.role = m /\ cfg[m] # None => LoopOK(Apply(cfg, h), Tail(upd), ev, old)
             /\ h.role # m => LoopOK(cfg, Tail(upd), ev, old)
<1> DEFINE h == Head(upd)
           t == Tail(upd)
           m == RunMode(cfg, Flag)
<1>1. h \in ServiceEvent /\ t \in Seq(ServiceEvent) /\ DOMAIN cfg = Roles
  BY DEF Config
<1>2. t \in Seq(Event)
  BY <1>1, ServiceSeq
<1>3. Replay(cfg, upd) = Replay(Apply(cfg, h), t)
  BY ReplayHead
<1> HIDE DEF h, t
<1>4. ASSUME h.role = m, cfg[m] # None PROVE LoopOK(Apply(cfg, h), t, ev, old)
  <2>1. SamePresent(Apply(cfg, h), cfg)
    BY <1>1, <1>4, ApplyConfig
  <2> QED  BY <1>3, <2>1 DEF LoopOK, SamePresent
<1>5. ASSUME h.role # m PROVE LoopOK(cfg, t, ev, old)
  <2>1. SUFFICES ASSUME ~HasGeneral(ev), SamePresent(cfg, old),
                        RoleInSync(Replay(Replay(cfg, upd), ev), old)
                 PROVE  RoleInSync(Replay(Replay(cfg, t), ev), old)
    BY DEF LoopOK
  <2>2. m = RunMode(old, Flag)
    BY <2>1, RunModeSame
  <2> HIDE DEF m
  <2>3. ASSUME m # None
        PROVE  Replay(Replay(cfg, t), ev)[m] = Replay(Replay(cfg, upd), ev)[m]
    <3>1. m \in Roles
      BY <2>3, RunModeType DEF m
    <3> DEFINE a == Apply(cfg, h)
    <3>2. a[m] = cfg[m] /\ DOMAIN a = Roles
      BY <1>1, <1>5, <3>1, ApplyElsewhere
    <3> HIDE DEF a
    <3> DEFINE x == Replay(a, t)
               y == Replay(cfg, t)
    <3>3. x[m] = y[m] /\ DOMAIN x = Roles /\ DOMAIN y = Roles
      BY <1>1, <1>2, <3>1, <3>2, ReplayLocal
    <3>4. Replay(cfg, upd) = x
      BY <1>3 DEF a
    <3> HIDE DEF x, y
    <3>5. Replay(x, ev)[m] = Replay(y, ev)[m]
      BY <3>1, <3>3, ReplayLocal
    <3> QED  BY <3>4, <3>5 DEF y
  <2> QED  BY <2>1, <2>2, <2>3 DEF RoleInSync
<1> QED  BY <1>4, <1>5 DEF h, t

-----------------------------------------------------------------------------
(* The steps of the tasks.                                                 *)

\* What is queued, what the supervisor holds and what the instance runs.
SyncInv ==
  watcher.pc # "none" =>
    /\ QueueOK(events, watcher.old)
    /\ sup.pc = "restarting" => RestartOK(sup.cfg, events, watcher.old)
    /\ sup.pc \in {"loop", "forwarding"} /\ Live => LoopOK(inst.cfg, updates, events, watcher.old)

\* Steps that move no configuration.
LEMMA SyncIdle ==
  ASSUME SyncInv, TInv, UNCHANGED events, watcher'.old = watcher.old,
         watcher'.pc # "none" => watcher.pc # "none",
         sup'.pc = "restarting" => UNCHANGED sup,
         sup'.pc \in {"loop", "forwarding"} =>
           sup.pc \in {"loop", "forwarding"} \/ inst.pc = "none",
         Live' => Live /\ inst'.cfg = inst.cfg /\ UNCHANGED updates
  PROVE  SyncInv'
  BY DEF SyncInv, TInv, Live

\* Opening the file queues the configuration that was read.
LEMMA SyncOpening == ASSUME SyncInv, TInv, Opening PROVE SyncInv'
<1>1. CASE OpenConfig
  <2>1. CASE file = Bad
    <3>1. UNCHANGED <<events, watcher, inst, updates>> /\ sup'.pc = "degraded"
      BY <1>1, <2>1 DEF OpenConfig, TInv, TypeOK
    <3> QED  BY <3>1, SyncIdle DEF Live
  <2>2. CASE file # Bad
    <3>1. /\ file \in Configs /\ events' = <<General(file)>> /\ UNCHANGED inst
          /\ watcher' = [pc |-> "starting", old |-> file]
          /\ sup' = [sup EXCEPT !.pc = "subscribing"]
      BY <1>1, <2>2 DEF OpenConfig, TInv, TypeOK
    <3>2. sup'.pc = "subscribing" /\ watcher'.old = file
      BY <3>1 DEF TInv, TypeOK
    <3>3. LastPresent(<<>> \o <<General(file)>>, file)
      <4>1. <<>> \in Seq(Event)
        OBVIOUS
      <4> QED  BY <3>1, <4>1, LastAppend
    <3>4. <<>> \o <<General(file)>> = <<General(file)>>
      OBVIOUS
    <3>5. Replay(file, <<General(file)>>) = file
      <4>1. Apply(file, General(file)) = file
        BY DEF Apply, General
      <4> QED  BY <4>1, ReplayOne
    <3>6. QueueOK(<<General(file)>>, file)
      BY <3>3, <3>4, <3>5 DEF QueueOK, Agree
    <3> QED  BY <3>1, <3>2, <3>6 DEF SyncInv
  <2> QED  BY <2>1, <2>2
<1>2. CASE RetryOpen \/ StopDegraded
  <2>1. UNCHANGED <<events, watcher, inst, updates>> /\ sup'.pc \in {"opening", "exited"}
    BY <1>2 DEF RetryOpen, StopDegraded, TInv, TypeOK
  <2> QED  BY <2>1, SyncIdle DEF Live
<1>3. CASE SubscribeProcess
  <2>1. UNCHANGED <<events, watcher, inst, updates>> /\ sup'.pc = "loop" /\ sup.pc = "subscribing"
    BY <1>3 DEF SubscribeProcess, TInv, TypeOK
  <2>2. inst.pc = "none"
    BY <2>1 DEF TInv, Phases
  <2> QED  BY <2>1, <2>2, SyncIdle DEF Live
<1> QED  BY <1>1, <1>2, <1>3 DEF Opening

\* The watcher: only a rescan moves something.
LEMMA SyncWatcher == ASSUME SyncInv, TInv, Watcher PROVE SyncInv'
<1>1. CASE StartWatching \/ WatchFails \/ StopWatcher
  <2>1. /\ UNCHANGED <<events, sup, inst, updates>> /\ watcher'.old = watcher.old
        /\ watcher.pc # "none"
    BY <1>1 DEF StartWatching, WatchFails, StopWatcher, TInv, TypeOK
  <2> QED  BY <2>1, SyncIdle DEF Live
<1>2. CASE Rescan
  <2>1. CASE file = Bad
    <3>1. UNCHANGED <<events, watcher, sup, inst, updates>>
      BY <1>2, <2>1 DEF Rescan
    <3> QED  BY <3>1, SyncIdle DEF Live
  <2>2. CASE file # Bad
    <3>1. /\ watcher.pc # "none" /\ watcher'.old = file
          /\ UNCHANGED <<sup, inst, updates>>
      BY <1>2, <2>2 DEF Rescan, TInv, TypeOK
    <3>2. file \in Configs /\ watcher.old \in Configs /\ events \in Seq(Event)
      BY <2>2, <3>1 DEF TInv, TypeOK, Phases
    <3>3. PICK s \in EventSeqs(watcher.old, file) : events' = events \o s
      BY <1>2, <2>2 DEF Rescan
    <3>4. QueueOK(events', file)
      BY <3>1, <3>2, <3>3, QueueRescan DEF SyncInv
    <3>5. ASSUME sup.pc = "restarting" PROVE RestartOK(sup.cfg, events', file)
      <4>1. sup.cfg \in Configs
        BY <3>5 DEF TInv, Phases
      <4> QED  BY <3>1, <3>2, <3>3, <3>5, <4>1, RestartRescan DEF SyncInv
    <3>6. ASSUME sup.pc \in {"loop", "forwarding"}, Live PROVE LoopOK(inst.cfg, updates, events', file)
      <4>1. inst.cfg \in Config /\ updates \in Seq(Event)
        BY <3>6 DEF TInv, TypeOK, Phases, Live
      <4> QED  BY <3>1, <3>2, <3>3, <3>6, <4>1, LoopRescan DEF SyncInv
    <3> QED  BY <3>1, <3>4, <3>5, <3>6 DEF SyncInv, Live
  <2> QED  BY <2>1, <2>2
<1> QED  BY <1>1, <1>2 DEF Watcher

\* The main loop: a configuration leaves the queue for the supervisor or a new
\* instance, a change moves from one queue to the other.
LEMMA SyncMainLoop == ASSUME SyncInv, TInv, MainLoop PROVE SyncInv'
<1>0. ASSUME sup.pc \in {"loop", "forwarding"}, events # <<>>, events' = Tail(events),
             UNCHANGED watcher
      PROVE  /\ watcher.pc # "none" /\ watcher.old \in Configs /\ events \in Seq(Event)
             /\ QueueOK(events', watcher'.old)
             /\ Head(events).kind = "general" => RestartOK(Head(events).cfg, events', watcher'.old)
  <2>1. watcher.pc # "none" /\ watcher.old \in Configs /\ events \in Seq(Event)
    BY <1>0 DEF TInv, TypeOK, Phases
  <2> QED  BY <1>0, <2>1, QueueTake DEF SyncInv, IsGeneral
<1>1. CASE FirstStart
  <2>1. /\ inst' = [pc |-> "spawned", cfg |-> Head(events).cfg] /\ updates' = <<>>
        /\ events' = Tail(events) /\ events # <<>> /\ UNCHANGED <<watcher, sup>> /\ sup.pc = "loop"
        /\ Head(events).kind = "general"
    BY <1>1 DEF FirstStart, Spawn
  <2>2. inst'.cfg = Head(events).cfg
    BY <2>1
  <2>3. LoopOK(inst'.cfg, updates', events', watcher'.old)
    BY <1>0, <2>1, <2>2, LoopStart
  <2> QED  BY <1>0, <2>1, <2>3 DEF SyncInv
<1>2. CASE BeginRestart
  <2>1. /\ sup' = [pc |-> "restarting", cfg |-> Head(events).cfg]
        /\ events' = Tail(events) /\ events # <<>> /\ UNCHANGED watcher /\ sup.pc = "loop"
        /\ Head(events).kind = "general"
    BY <1>2 DEF BeginRestart
  <2>2. sup'.pc = "restarting" /\ sup'.cfg = Head(events).cfg
    BY <2>1
  <2> QED  BY <1>0, <2>1, <2>2 DEF SyncInv
<1>3. CASE FinishRestart
  <2>1. /\ inst' = [pc |-> "spawned", cfg |-> sup.cfg] /\ updates' = <<>>
        /\ sup' = [pc |-> "loop", cfg |-> None] /\ UNCHANGED <<watcher, events>>
        /\ sup.pc = "restarting"
    BY <1>3 DEF FinishRestart, Spawn
  <2>2. inst'.cfg = sup.cfg /\ sup'.pc = "loop"
    BY <2>1
  <2>3. watcher.pc # "none" => LoopOK(inst'.cfg, updates', events', watcher'.old)
    BY <2>1, <2>2, LoopStart DEF SyncInv
  <2> QED  BY <2>1, <2>2, <2>3 DEF SyncInv
<1>4. CASE ForwardChange
  <2>1. /\ sup.pc \in {"loop", "forwarding"} /\ events # <<>> /\ ~IsGeneral(Head(events))
        /\ events' = Tail(events) /\ sup' = [sup EXCEPT !.pc = "loop"]
        /\ UNCHANGED <<watcher, inst>>
        /\ Live => updates' = Append(updates, Head(events))
    BY <1>4 DEF ForwardChange, IsGeneral, Live
  <2>2. updates \in Seq(Event)
    BY DEF TInv, TypeOK
  <2>3. Live => LoopOK(inst.cfg, updates', events', watcher'.old)
    BY <1>0, <2>1, <2>2, LoopForward DEF SyncInv
  <2>4. sup'.pc = "loop"
    BY <2>1 DEF TInv, TypeOK
  <2> QED  BY <1>0, <2>1, <2>3, <2>4 DEF SyncInv, Live
<1>5. CASE BeginTeardown \/ FinishTeardown
  <2>1. UNCHANGED <<watcher, events, inst, updates>> /\ sup'.pc \in {"joining", "exited"}
    BY <1>5 DEF BeginTeardown, FinishTeardown, TInv, TypeOK
  <2> QED  BY <2>1, SyncIdle DEF Live
<1>6. CASE AwaitRoom
  <2>1. UNCHANGED <<watcher, events, inst, updates>> /\ sup.pc = "loop" /\ sup'.pc = "forwarding"
    BY <1>6 DEF AwaitRoom, TInv, TypeOK
  <2> QED  BY <2>1, SyncIdle DEF Live
<1> QED  BY <1>1, <1>2, <1>3, <1>4, <1>5, <1>6 DEF MainLoop

\* The instance: a change of its role is applied, one of the other role is dropped.
LEMMA SyncInstance == ASSUME SyncInv, TInv, Instance PROVE SyncInv'
<1>1. CASE TakeUpdate
  <2>1. /\ inst.pc = "running" /\ updates # <<>> /\ updates' = Tail(updates)
        /\ UNCHANGED <<watcher, events, sup>>
    BY <1>1 DEF TakeUpdate
  <2>2. /\ inst.cfg \in Config /\ updates \in Seq(ServiceEvent) /\ events \in Seq(Event)
        /\ inst.cfg[Mode] # None
    BY <2>1 DEF TInv, TypeOK, Phases
  <2>3. ASSUME watcher.pc # "none", sup.pc \in {"loop", "forwarding"}
        PROVE  LoopOK(inst'.cfg, updates', events', watcher'.old)
    <3>1. LoopOK(inst.cfg, updates, events, watcher.old)
      BY <2>1, <2>3 DEF SyncInv, Live
    <3>2. CASE Head(updates).role = Mode
      <4>1. inst' = [inst EXCEPT !.cfg = Apply(inst.cfg, Head(updates))]
        BY <1>1, <3>2 DEF TakeUpdate
      <4>2. inst'.cfg = Apply(inst.cfg, Head(updates))
        BY <4>1 DEF TInv, TypeOK
      <4> QED  BY <2>1, <2>2, <3>1, <3>2, <4>2, LoopTake DEF Mode
    <3>3. CASE Head(updates).role # Mode
      <4>1. inst' = inst
        BY <1>1, <3>3 DEF TakeUpdate
      <4> QED  BY <2>1, <2>2, <3>1, <3>3, <4>1, LoopTake DEF Mode
    <3> QED  BY <3>2, <3>3
  <2> QED  BY <2>1, <2>3 DEF SyncInv
<1>2. CASE PollInstance \/ StopInstance \/ InstanceFails \/ StatusEnds
  <2>1. /\ UNCHANGED <<watcher, events, sup>>
        /\ Live' => Live /\ inst'.cfg = inst.cfg /\ UNCHANGED updates
    BY <1>2 DEF PollInstance, StopInstance, InstanceFails, StatusEnds, Dies, Live, TInv, TypeOK
  <2> QED  BY <2>1, SyncIdle
<1> QED  BY <1>1, <1>2 DEF Instance

\* Every step keeps what is queued in step with the file.
LEMMA SyncStep == ASSUME SyncInv, TInv, [Next]_vars PROVE SyncInv'
<1>1. CASE UNCHANGED vars \/ SignalShutdown \/ \E c \in Configs \cup {Bad} : WriteFile(c)
  <2>1. UNCHANGED <<watcher, events, sup, inst, updates>>
    BY <1>1 DEF vars, SignalShutdown, WriteFile
  <2> QED  BY <2>1, SyncIdle DEF Live
<1> QED  BY <1>1, SyncOpening, SyncWatcher, SyncMainLoop, SyncInstance DEF Next

\* With a restart pending it does not matter what the instance runs.
LEMMA SyncGives == SyncInv /\ TInv => InSync
<1> SUFFICES ASSUME SyncInv, TInv, sup.pc \in {"loop", "forwarding", "restarting"},
                    Live \/ sup.pc = "restarting"
             PROVE  RoleInSync(Target, watcher.old)
  BY DEF InSync, RoleInSync, Live
<1>1. /\ watcher.pc # "none" /\ watcher.old \in Configs /\ DOMAIN watcher.old = Roles
      /\ events \in Seq(Event)
  BY ConfigsAssumption DEF TInv, TypeOK, Phases, Config
<1>2. CASE sup.pc = "restarting"
  <2>1. Agree(Target, watcher.old)
    BY <1>1, <1>2 DEF SyncInv, RestartOK, Target
  <2> QED  BY <2>1, RunModeType DEF Agree, RoleInSync
<1>3. CASE sup.pc # "restarting" /\ ~HasGeneral(events)
  BY <1>1, <1>3 DEF SyncInv, LoopOK, Target
<1>4. CASE sup.pc # "restarting" /\ HasGeneral(events)
  <2>1. inst.cfg \in Config /\ DOMAIN inst.cfg = Roles /\ updates \in Seq(Event)
    BY <1>4 DEF TInv, TypeOK, Phases, Live, Config
  <2>2. DOMAIN Replay(inst.cfg, updates) = Roles
    BY <2>1, ReplayLocal
  <2>3. Target = Replay(watcher.old, events)
    BY <1>1, <1>4, <2>2, ReplayForgets DEF Target
  <2>4. Agree(Target, watcher.old)
    BY <1>1, <1>4, <2>3 DEF SyncInv, QueueOK
  <2> QED  BY <2>4, RunModeType DEF Agree, RoleInSync
<1> QED  BY <1>2, <1>3, <1>4

\* For every configuration written in any order, every order in which the hash maps
\* are walked and every length of the queues: what a live instance runs plus what is
\* queued for it is, in the role the file selects, what the watcher read last.
THEOREM InstanceInSync == Spec => []InSync
<1>1. Init => TInv /\ SyncInv
  <2>1. Init => watcher.pc = "none"
    BY DEF Init
  <2> QED  BY <2>1, TInit DEF SyncInv
<1>2. TInv /\ SyncInv /\ [Next]_vars => TInv' /\ SyncInv'
  BY TStep, SyncStep
<1> QED  BY <1>1, <1>2, SyncGives, PTL DEF Spec

\* With both queues empty the section of the instance is that of the file.
Settled ==
  sup.pc = "loop" /\ inst.pc = "running" /\ events = <<>> /\ updates = <<>>
    => RoleInSync(inst.cfg, watcher.old)

\* Once both queues are used up, a running instance has, in the role the file
\* selects, exactly the configuration the watcher read last.
THEOREM SettledInstance == Spec => []Settled
<1>1. InSync => Settled
  BY ReplayNone DEF InSync, Target, RoleInSync, Settled
<1> QED  BY <1>1, InstanceInSync, PTL
=============================================================================
