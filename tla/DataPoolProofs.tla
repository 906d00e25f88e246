--------------------------- MODULE DataPoolProofs ---------------------------
(***************************************************************************)
(* The bookkeeping of a TCP service is right for every pool size and every *)
(* capacity with QueueCap >= PoolSize + VisitorCap + 2.                    *)
(*                                                                         *)
(* Ledger is an equation while the service is up; it cannot be kept beyond *)
(* the end of the control channel, where requests are dropped.  Inv adds   *)
(* the inequality that survives it, which is what bounds the queue.        *)
(*                                                                         *)
(* The last theorem is about progress: the listener of a dropped channel   *)
(* closes, which needs no ranking because the queue it waits for has to    *)
(* lose one visitor only.                                                  *)
(***************************************************************************)
EXTENDS DataPool, TLAPS

\* The reserve is requested before anything else happens.
LEMMA InvInit == Init => Inv
<1> SUFFICES ASSUME Init PROVE Inv
  OBVIOUS
<1>1. TypeOK /\ visitors <= VisitorCap
  BY PoolSizeAssumption, VisitorCapAssumption DEF Init, TypeOK
<1>2. Supply + lost = PoolSize + Waiting
  BY PoolSizeAssumption DEF Init, Supply, Waiting, Count
<1>3. PendingExact
  BY DEF Init, PendingExact
<1>4. Supply + lost <= PoolSize + Waiting
  BY <1>1, <1>2, PoolSizeAssumption DEF TypeOK, Supply, Waiting, Count
<1> QED  BY <1>1, <1>2, <1>3, <1>4 DEF Init, Inv, Ledger

\* Dropping the handle touches none of the counters.
LEMMA DropHandleInv == Inv /\ DropHandle => Inv'
  BY DEF Inv, DropHandle, TypeOK, Ledger, PendingExact, Supply, Waiting, Count, chanVars,
         netVars, poolVars

\* ControlChannel::run: a request becomes a command, a token settles one, and
\* the end of the loop drops requests, which only shrinks the supply.
LEMMA ControlChannelInv == Inv /\ ControlChannel => Inv'
<1> SUFFICES ASSUME Inv, ControlChannel PROVE Inv'
  OBVIOUS
<1> USE DEF Inv, TypeOK, Ledger, PendingExact, Supply, Waiting, Count, netVars, poolVars
<1>1. CASE WriteRequest
  BY <1>1 DEF WriteRequest
<1>2. CASE Arrived
  <2>1. pending > 0
    BY <1>2 DEF Arrived
  <2>2. pending' = pending - 1 /\ (deadline' = "armed" <=> pending' > 0)
        /\ deadline' \in {"none", "armed"}
    BY <1>2, <2>1 DEF Arrived
  <2>3. TypeOK' /\ PendingExact'
    BY <1>2, <2>1, <2>2 DEF Arrived
  <2>4. UNCHANGED <<Supply, Waiting, lost, chan, pool, visitors, hand, queue>>
    BY <1>2 DEF Arrived
  <2> QED  BY <1>2, <2>3, <2>4 DEF Arrived
<1>3. CASE ChannelExits
  <2>1. TypeOK' /\ PendingExact'
    BY <1>3 DEF ChannelExits
  <2>2. Supply' <= Supply /\ Supply \in Nat /\ Supply' \in Nat
    BY <1>3 DEF ChannelExits
  <2>3. Waiting \in Nat /\ Waiting' = Waiting /\ lost' = lost
    BY <1>3 DEF ChannelExits
  <2>4. pool' = "open" => Supply' + lost' <= PoolSize + Waiting'
    <3>1. SUFFICES ASSUME pool = "open" PROVE Supply' + lost <= PoolSize + Waiting
      BY <1>3, <2>3 DEF ChannelExits
    <3>2. Supply + lost <= PoolSize + Waiting
      BY <3>1
    <3>3. lost \in Nat
      OBVIOUS
    <3>4. \A a, b, l, p, w \in Nat : a <= b /\ b + l <= p + w => a + l <= p + w
      OBVIOUS
    <3> HIDE DEF Supply, Waiting, Inv
    <3> QED  BY <2>2, <2>3, <3>2, <3>3, <3>4, PoolSizeAssumption
  <2> QED  BY <1>3, <2>1, <2>4 DEF ChannelExits
<1> QED
  BY <1>1, <1>2, <1>3 DEF ControlChannel, WriteFails, DeadlineFires, ChannelShutdown

\* The data connections: each command ends up delivered or lost, and each
\* delivery as a token.
LEMMA DataConnectionsInv == Inv /\ DataConnections => Inv'
<1> SUFFICES ASSUME Inv, DataConnections PROVE Inv'
  OBVIOUS
<1> USE DEF Inv, TypeOK, Ledger, PendingExact, Supply, Waiting, Count, chanVars, poolVars
<1>1. CASE ClientReads
  BY <1>1 DEF ClientReads
<1>2. CASE DataChannelFails
  BY <1>2 DEF DataChannelFails
<1>3. CASE Deliver
  BY <1>3 DEF Deliver
<1>4. CASE NotifyArrived
  BY <1>4 DEF NotifyArrived
<1> QED  BY <1>1, <1>2, <1>3, <1>4 DEF DataConnections

\* tcp_listen_and_send: a visitor and its request appear together.
LEMMA ListenerInv == Inv /\ Listener => Inv'
<1> SUFFICES ASSUME Inv, Listener PROVE Inv'
  OBVIOUS
<1> USE DEF Inv, TypeOK, Ledger, PendingExact, Supply, Waiting, Count, chanVars, netVars,
            poolVars
<1>1. CASE BindListener
  BY <1>1 DEF BindListener
<1>2. CASE AcceptVisitor
  <2>1. CASE chan = "running"
    <3>1. Supply' = Supply + 1 /\ Waiting' = Waiting + 1 /\ lost' = lost
      BY <1>2, <2>1 DEF AcceptVisitor
    <3>2. Supply \in Nat /\ Waiting \in Nat
      OBVIOUS
    <3>3. TypeOK' /\ PendingExact' /\ UNCHANGED <<chan, pool, visitors, queue, hand>>
      BY <1>2, <2>1 DEF AcceptVisitor
    <3>4. Ledger' /\ (pool' = "open" => Supply' + lost' <= PoolSize + Waiting')
      <4> HIDE DEF Supply, Waiting
      <4> QED  BY <3>1, <3>2, <3>3, PoolSizeAssumption
    <3> QED  BY <2>1, <3>3, <3>4
  <2>2. CASE chan = "exited"
    BY <1>2, <2>2 DEF AcceptVisitor
  <2> QED  BY <2>1, <2>2
<1>3. CASE QueueVisitor
  BY <1>3, VisitorCapAssumption DEF QueueVisitor
<1>4. CASE ListenerShutdown
  BY <1>4 DEF ListenerShutdown
<1> QED  BY <1>1, <1>2, <1>3, <1>4 DEF Listener

\* run_tcp_connection_pool: a visitor leaves together with a data channel, and
\* a broken channel is replaced by a request.
LEMMA PoolInv == Inv /\ Pool => Inv'
<1> SUFFICES ASSUME Inv, Pool PROVE Inv'
  OBVIOUS
<1> USE VisitorCapAssumption
    DEF Inv, TypeOK, Ledger, PendingExact, Supply, Waiting, Count, chanVars, netVars
<1>1. CASE TakeVisitor
  BY <1>1 DEF TakeVisitor
<1>2. CASE NoMoreVisitors
  BY <1>2 DEF NoMoreVisitors, ClosePool
<1>3. CASE TakeChannel
  BY <1>3 DEF TakeChannel
<1>4. CASE NoMoreChannels
  BY <1>4 DEF NoMoreChannels, ClosePool
<1>5. CASE StartForward
  <2>1. Supply' = Supply - 1 /\ Waiting' = Waiting - 1 /\ lost' = lost
    BY <1>5 DEF StartForward
  <2>2. Supply \in Nat /\ Waiting \in Nat
    OBVIOUS
  <2>3. TypeOK' /\ PendingExact' /\ UNCHANGED <<chan, pool, visitors, queue, req, arrived>>
    BY <1>5 DEF StartForward
  <2>4. Ledger' /\ (pool' = "open" => Supply' + lost' <= PoolSize + Waiting')
    <3> HIDE DEF Supply, Waiting
    <3> QED  BY <2>1, <2>2, <2>3, PoolSizeAssumption
  <2> QED  BY <1>5, <2>3, <2>4 DEF StartForward
<1>6. CASE ChannelBroken
  BY <1>6 DEF ChannelBroken, ClosePool
<1> QED  BY <1>1, <1>2, <1>3, <1>4, <1>5, <1>6 DEF Pool

\* Every step of the five tasks keeps the books.
LEMMA NextInv == Inv /\ [Next]_vars => Inv'
<1> SUFFICES ASSUME Inv, [Next]_vars PROVE Inv'
  OBVIOUS
<1>1. CASE UNCHANGED vars
  BY <1>1 DEF Inv, TypeOK, Ledger, PendingExact, Supply, Waiting, vars, chanVars, netVars,
              poolVars
<1> QED
  BY <1>1, DropHandleInv, ControlChannelInv, DataConnectionsInv, ListenerInv, PoolInv
  DEF Next

\* A waiting pool with an empty queue has a request or an armed deadline: the
\* supply is positive, so something is requested, on its way or lost.
LEMMA InvCovered == Inv => VisitorCovered
<1> SUFFICES ASSUME Inv, chan = "running", pool = "open", hand = "waiting", queue = 0, req = 0
             PROVE  deadline = "armed"
  BY DEF VisitorCovered, Inv, TypeOK
<1>1. wire + opening + lost > 0
  BY PoolSizeAssumption DEF Inv, TypeOK, Ledger, Supply, Waiting, Count
<1> QED  BY <1>1 DEF Inv, TypeOK, PendingExact

\* At most VisitorCap + 2 visitors wait, so at most that many and the reserve
\* can be queued or under way.
LEMMA InvRoom == Inv => QueueHasRoom
<1> SUFFICES ASSUME Inv, pool = "open" PROVE queue + opening <= QueueCap
  BY DEF QueueHasRoom
<1>1. Waiting \in Nat /\ Waiting <= VisitorCap + 2
  BY VisitorCapAssumption DEF Inv, TypeOK, Waiting, Count
<1>2. Supply \in Nat /\ queue + opening <= Supply + lost
  BY DEF Inv, TypeOK, Supply, Count
<1> QED
  BY <1>1, <1>2, PoolSizeAssumption, VisitorCapAssumption, QueueCapAssumption DEF Inv, TypeOK

LEMMA PoolInvariant == Spec => []Inv
<1> QED  BY InvInit, NextInv, PTL DEF Spec

\* Requests, channels and visitors balance (run_tcp_connection_pool).
THEOREM PoolBookkeeping == Spec => []Ledger
<1>1. Inv => Ledger
  BY DEF Inv
<1> QED  BY <1>1, PoolInvariant, PTL

\* The count of unanswered requests and its deadline are exact
\* (ControlChannel::run).
THEOREM PendingIsExact == Spec => []PendingExact
<1>1. Inv => PendingExact
  BY DEF Inv
<1> QED  BY <1>1, PoolInvariant, PTL

\* The send under the read lock of the map never waits: the queue has room for
\* every data channel that was asked for.
THEOREM QueueNeverFull == Spec => []QueueHasRoom
<1> QED  BY InvRoom, PoolInvariant, PTL

\* No visitor waits without a channel that was asked for on its behalf.
THEOREM VisitorsAreCovered == Spec => []VisitorCovered
<1> QED  BY InvCovered, PoolInvariant, PTL

-----------------------------------------------------------------------------
(* Progress after the handle is dropped.  Weak fairness speaks of an       *)
(* action being ENABLED, which the prover cannot expand.  GuardsEnable     *)
(* says what the guards of the tasks' actions are; it follows from their   *)
(* definitions, TLC finds it to be an invariant, and the theorem names it  *)
(* as its hypothesis.                                                      *)

\* A task whose guard holds can take the step: the rest of each action only assigns.
GuardsEnable ==
  /\ handle = "dropped" /\ chan = "running" => ENABLED <<ChannelShutdown>>_vars
  /\ handle = "dropped" /\ listener \in {"binding", "listening"} =>
       ENABLED <<ListenerShutdown>>_vars
  /\ listener = "holding" /\ (pool = "closed" \/ visitors < VisitorCap) =>
       ENABLED <<QueueVisitor>>_vars
  /\ pool = "open" /\ hand = "idle" /\ visitors > 0 => ENABLED <<TakeVisitor>>_vars
  /\ hand = "waiting" /\ queue > 0 => ENABLED <<TakeChannel>>_vars
  /\ hand = "waiting" /\ queue = 0 /\ handle = "dropped" => ENABLED <<NoMoreChannels>>_vars
  /\ hand = "writing" => ENABLED <<StartForward \/ ChannelBroken>>_vars

\* The listener's situation once the handle and the control channel are gone: it can
\* notice, or it holds a visitor for a queue that has room or is full.
Gone == handle = "dropped" /\ chan = "exited"
Accepting == Gone /\ listener \in {"binding", "listening"}
Holding == Gone /\ listener = "holding"
HasRoom == Holding /\ (pool = "closed" \/ visitors < VisitorCap)
Full == Holding /\ pool = "open" /\ visitors >= VisitorCap

\* Neither the handle nor the control channel comes back.
LEMMA DroppedStays ==
  ASSUME Inv, handle = "dropped", [Next]_vars
  PROVE  handle' = "dropped" /\ (chan = "exited" => chan' = "exited")
  BY DEF Next, DropHandle, ControlChannel, WriteRequest, Arrived, WriteFails, DeadlineFires,
         ChannelShutdown, ChannelExits, DataConnections, ClientReads, DataChannelFails, Deliver,
         NotifyArrived, Listener, BindListener, AcceptVisitor, QueueVisitor, ListenerShutdown,
         Pool, TakeVisitor, NoMoreVisitors, TakeChannel, NoMoreChannels, StartForward,
         ChannelBroken, chanVars, vars

\* The phases that a listener without a handle goes through.  Only it fills the visitor
\* queue, so a queue that has room keeps it, and without the handle nothing refills the
\* queue of data channels.
LEMMA GoneStep ==
  ASSUME Inv, Gone, [Next]_vars
  PROVE  /\ Gone'
         /\ listener = "closed" => listener' = "closed"
         /\ Accepting => Accepting' \/ listener' = "closed"
         /\ HasRoom => HasRoom' \/ Accepting'
         /\ Full /\ hand = "idle" => (Full /\ hand = "idle")' \/ HasRoom'
         /\ Full /\ hand = "waiting" /\ queue > 0 =>
              (Full /\ hand = "waiting" /\ queue > 0)' \/ (Full /\ hand = "writing")'
         /\ Full /\ hand = "waiting" /\ queue = 0 =>
              (Full /\ hand = "waiting" /\ queue = 0)' \/ HasRoom'
         /\ Full /\ hand = "writing" =>
              (Full /\ hand = "writing")' \/ (Full /\ hand = "idle")' \/ HasRoom'
<1>0. Gone'
  BY DroppedStays DEF Gone
<1> USE <1>0, VisitorCapAssumption DEF Accepting, Holding, HasRoom, Full
<1> USE DEF Inv, TypeOK
<1>1. CASE UNCHANGED vars
  BY <1>1 DEF vars, poolVars
<1>2. CASE DropHandle \/ ControlChannel \/ DataConnections
  <2>1. UNCHANGED <<listener, poolVars>>
    BY <1>2 DEF Gone, DropHandle, ControlChannel, WriteRequest, Arrived, WriteFails,
         DeadlineFires, ChannelShutdown, ChannelExits, DataConnections, ClientReads,
         DataChannelFails, Deliver, NotifyArrived
  <2> QED  BY <2>1 DEF poolVars
<1>3. CASE Listener
  BY <1>3 DEF Gone, Listener, BindListener, AcceptVisitor, QueueVisitor, ListenerShutdown, poolVars
<1>4. CASE Pool
  BY <1>4 DEF Gone, Pool, TakeVisitor, NoMoreVisitors, TakeChannel, NoMoreChannels, StartForward,
         ChannelBroken, ClosePool
<1> QED  BY <1>1, <1>2, <1>3, <1>4 DEF Next

\* The port of a dropped control channel is released for every capacity of the queues:
\* tcp_listen_and_send ends even if it is waiting for room in the visitor queue, because
\* the pool (run_tcp_connection_pool) then takes a visitor or ends itself.
THEOREM DropClosesListener ==
  FairSpec /\ []GuardsEnable => ((handle = "dropped") ~> (listener = "closed"))
<1> DEFINE D == handle = "dropped"
           C == listener = "closed"
           Idle == Full /\ hand = "idle"
           Served == Full /\ hand = "waiting" /\ queue > 0
           Starved == Full /\ hand = "waiting" /\ queue = 0
           Writing == Full /\ hand = "writing"
<1>1. Inv /\ D /\ [Next]_vars => D'
  BY DroppedStays
<1>2. Inv /\ D /\ <<ChannelShutdown>>_vars => Gone'
  BY DEF ChannelShutdown, ChannelExits, Gone
<1>3. ASSUME Inv, GuardsEnable
      PROVE  /\ D => Gone \/ ENABLED <<ChannelShutdown>>_vars
             /\ Accepting => ENABLED <<ListenerShutdown>>_vars
             /\ HasRoom => ENABLED <<QueueVisitor>>_vars
             /\ Idle => ENABLED <<TakeVisitor>>_vars
             /\ Served => ENABLED <<TakeChannel>>_vars
             /\ Starved => ENABLED <<NoMoreChannels>>_vars
             /\ Writing => ENABLED <<StartForward \/ ChannelBroken>>_vars
  BY <1>3, VisitorCapAssumption
     DEF GuardsEnable, Inv, TypeOK, Gone, Accepting, Holding, HasRoom, Full
<1>4. ASSUME Inv
      PROVE  /\ Accepting /\ <<ListenerShutdown>>_vars => ~Accepting'
             /\ HasRoom /\ <<QueueVisitor>>_vars => ~HasRoom'
             /\ Idle /\ <<TakeVisitor>>_vars => ~Idle'
             /\ Served /\ <<TakeChannel>>_vars => ~Served'
             /\ Starved /\ <<NoMoreChannels>>_vars => ~Starved'
             /\ Writing /\ <<StartForward \/ ChannelBroken>>_vars => ~Writing'
  BY <1>4 DEF ListenerShutdown, QueueVisitor, TakeVisitor, TakeChannel, NoMoreChannels, ClosePool,
              StartForward, ChannelBroken, Accepting, Holding, HasRoom, Full, Inv, TypeOK
<1>5. ASSUME Inv, [Next]_vars
      PROVE  /\ Gone => Gone'
             /\ Accepting => Accepting' \/ C'
             /\ HasRoom => HasRoom' \/ Accepting'
             /\ Idle => Idle' \/ HasRoom'
             /\ Served => Served' \/ Writing'
             /\ Starved => Starved' \/ HasRoom'
             /\ Writing => Writing' \/ Idle' \/ HasRoom'
  BY <1>5, GoneStep DEF Accepting, Holding, HasRoom, Full
<1>6. Inv /\ Gone => C \/ Accepting \/ HasRoom \/ Idle \/ Served \/ Starved \/ Writing
  BY VisitorCapAssumption DEF Inv, TypeOK, Accepting, Holding, HasRoom, Full
<1> HIDE DEF D, C, Idle, Served, Starved, Writing
<1>7. FairSpec /\ []GuardsEnable => (D ~> Gone)
  BY <1>1, <1>2, <1>3, PoolInvariant, PTL DEF FairSpec, Spec, TaskFairness
<1>8. FairSpec /\ []GuardsEnable => (Accepting ~> C)
  BY <1>3, <1>4, <1>5, PoolInvariant, PTL DEF FairSpec, Spec, TaskFairness
<1>9. FairSpec /\ []GuardsEnable => (HasRoom ~> Accepting)
  BY <1>3, <1>4, <1>5, PoolInvariant, PTL DEF FairSpec, Spec, TaskFairness
<1>10. FairSpec /\ []GuardsEnable => (Idle ~> HasRoom)
  BY <1>3, <1>4, <1>5, PoolInvariant, PTL DEF FairSpec, Spec, TaskFairness
<1>11. FairSpec /\ []GuardsEnable => (Served ~> Writing)
  BY <1>3, <1>4, <1>5, PoolInvariant, PTL DEF FairSpec, Spec, TaskFairness
<1>12. FairSpec /\ []GuardsEnable => (Starved ~> HasRoom)
  BY <1>3, <1>4, <1>5, PoolInvariant, PTL DEF FairSpec, Spec, TaskFairness
<1>13. FairSpec /\ []GuardsEnable => (Writing ~> (Idle \/ HasRoom))
  BY <1>3, <1>4, <1>5, PoolInvariant, PTL DEF FairSpec, Spec, TaskFairness
<1>14. FairSpec /\ []GuardsEnable => (D ~> C)
  BY <1>6, <1>7, <1>8, <1>9, <1>10, <1>11, <1>12, <1>13, PoolInvariant, PTL DEF FairSpec
<1> QED  BY <1>14, PTL DEF D, C
=============================================================================
