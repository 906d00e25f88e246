------------------------------ MODULE DataPool ------------------------------
(***************************************************************************)
(* One TCP service of the server: the listener for its visitors            *)
(* (tcp_listen_and_send), its connection pool (run_tcp_connection_pool),   *)
(* the control channel that asks the client for data channels              *)
(* (ControlChannel::run) and the data connections that answer              *)
(* (do_data_channel_handshake and, on the client, run_data_channel).       *)
(* These are five tasks joined by channels; connections of a kind are      *)
(* alike, so queues and tasks are counted.                                 *)
(***************************************************************************)
EXTENDS Naturals

CONSTANTS PoolSize,    \* TCP_POOL_SIZE: data channels requested in advance
          VisitorCap,  \* capacity of the visitor queue (CHAN_SIZE)
          QueueCap,    \* capacity of data_ch_tx (CHAN_SIZE * 2)
          MaxCount     \* bound on pending_data_ch (a u32) and on queued requests

ASSUME PoolSizeAssumption == PoolSize \in Nat
\* A tokio channel has at least one place.
ASSUME VisitorCapAssumption == VisitorCap \in Nat \ {0}
ASSUME MaxCountAssumption == MaxCount \in Nat
\* 2 * 2048 >= 8 + 2048 + 2 in the code.
ASSUME QueueCapAssumption == QueueCap \in Nat /\ QueueCap >= PoolSize + VisitorCap + 2

VARIABLES
  handle,     \* the ControlChannelHandle: in the map, or dropped
  chan,       \* ControlChannel::run
  pending,    \* its pending_data_ch
  deadline,   \* its data_ch_deadline
  req,        \* data channel requests queued for it
  arrived,    \* data_ch_arrived tokens queued for it
  wire,       \* CreateDataChannel commands the client has not read
  opening,    \* client tasks that are opening a data channel
  handing,    \* data connections sent to the pool, token not yet sent
  lost,       \* commands that will never be answered
  queue,      \* data channels queued for the pool
  visitors,   \* visitors queued for the pool
  listener,   \* the accept loop; "holding" a visitor it has to queue
  pool,       \* the pool task
  hand        \* what the pool does for the visitor it took

chanVars == <<chan, pending, deadline, req, arrived>>
netVars  == <<wire, opening, handing, lost>>
poolVars == <<queue, visitors, pool, hand>>
vars == <<handle, chanVars, netVars, poolVars, listener>>

TypeOK ==
  /\ handle \in {"held", "dropped"}
  /\ chan \in {"running", "exited"}
  /\ pending \in Nat /\ deadline \in {"none", "armed"}
  /\ req \in Nat /\ arrived \in Nat
  /\ wire \in Nat /\ opening \in Nat /\ handing \in Nat /\ lost \in Nat
  /\ queue \in Nat /\ visitors \in Nat
  /\ listener \in {"binding", "listening", "holding", "closed"}
  /\ pool \in {"open", "closed"}
  /\ hand \in {"idle", "waiting", "writing"}

\* ControlChannelHandle::new() queues a request per cached data channel.
Init ==
  /\ handle = "held" /\ chan = "running"
  /\ pending = 0 /\ deadline = "none"
  /\ req = PoolSize /\ arrived = 0
  /\ wire = 0 /\ opening = 0 /\ handing = 0 /\ lost = 0
  /\ queue = 0 /\ visitors = 0
  /\ listener = "binding" /\ pool = "open" /\ hand = "idle"

\* Superseded, reloaded or shut down.  The map's write lock keeps this apart
\* from a data connection that is being handed over.
DropHandle ==
  /\ handle = "held" /\ handing = 0
  /\ handle' = "dropped"
  /\ UNCHANGED <<chanVars, netVars, poolVars, listener>>

-----------------------------------------------------------------------------
(* ControlChannel::run.                                                    *)

\* The loop's locals and its receivers are dropped with it.
ChannelExits ==
  /\ chan = "running"
  /\ chan' = "exited"
  /\ pending' = 0 /\ deadline' = "none"
  /\ req' = 0 /\ arrived' = 0
  /\ UNCHANGED <<handle, netVars, poolVars, listener>>

\* Mutant of WriteRequest: the deadline is only armed by an arrival.
WriteRequestUnarmed ==
  /\ chan = "running" /\ req > 0 /\ pending < MaxCount
  /\ req' = req - 1 /\ wire' = wire + 1
  /\ pending' = pending + 1
  /\ UNCHANGED <<handle, chan, deadline, arrived, opening, handing, lost, poolVars, listener>>

WriteRequest ==
  /\ chan = "running" /\ req > 0 /\ pending < MaxCount
  /\ req' = req - 1 /\ wire' = wire + 1
  /\ pending' = pending + 1
  /\ deadline' = "armed"
  /\ UNCHANGED <<handle, chan, arrived, opening, handing, lost, poolVars, listener>>

Arrived ==
  /\ chan = "running" /\ arrived > 0
  /\ arrived' = arrived - 1
  /\ pending' = IF pending > 0 THEN pending - 1 ELSE 0
  /\ deadline' = IF pending' > 0 THEN "armed" ELSE "none"
  /\ UNCHANGED <<handle, chan, req, netVars, poolVars, listener>>

\* A command or a heartbeat could not be written.
WriteFails == ChannelExits

DeadlineFires == deadline = "armed" /\ ChannelExits

ChannelShutdown == handle = "dropped" /\ ChannelExits

-----------------------------------------------------------------------------
(* The client and the data connections it opens.                           *)

ClientReads ==
  /\ wire > 0
  /\ wire' = wire - 1 /\ opening' = opening + 1
  /\ UNCHANGED <<handle, chanVars, handing, lost, poolVars, listener>>

\* The client gives up after 10 seconds, the connection breaks or times out in
\* the handshake, or its session key or its pool is gone.
DataChannelFails ==
  /\ opening > 0
  /\ opening' = opening - 1 /\ lost' = lost + 1
  /\ UNCHANGED <<handle, chanVars, wire, handing, poolVars, listener>>

\* do_data_channel_handshake sends the connection to the pool ...
Deliver ==
  /\ opening > 0 /\ handle = "held" /\ pool = "open" /\ queue < QueueCap
  /\ opening' = opening - 1 /\ handing' = handing + 1
  /\ queue' = queue + 1
  /\ UNCHANGED <<handle, chanVars, wire, lost, visitors, pool, hand, listener>>

\* ... and then, as another step, a token to the control channel.
NotifyArrived ==
  /\ handing > 0
  /\ handing' = handing - 1
  /\ arrived' = IF chan = "running" THEN arrived + 1 ELSE arrived
  /\ UNCHANGED <<handle, chan, pending, deadline, req, wire, opening, lost, poolVars, listener>>

-----------------------------------------------------------------------------
(* tcp_listen_and_send.                                                    *)

\* bind is retried until it succeeds or the handle is dropped.
BindListener ==
  /\ listener = "binding"
  /\ listener' = "listening"
  /\ UNCHANGED <<handle, chanVars, netVars, poolVars>>

\* Mutant of AcceptVisitor: the cached channels are taken to be enough.
AcceptVisitorNoRequest ==
  /\ listener = "listening"
  /\ listener' = IF chan = "running" THEN "holding" ELSE "closed"
  /\ UNCHANGED <<handle, chanVars, netVars, poolVars>>

\* Every visitor costs a request; if the control channel is gone, so is the
\* listener, and the visitor is dropped.
AcceptVisitor ==
  /\ listener = "listening" /\ req < MaxCount
  /\ IF chan = "running"
     THEN listener' = "holding" /\ req' = req + 1
     ELSE listener' = "closed" /\ UNCHANGED req
  /\ UNCHANGED <<handle, chan, pending, deadline, arrived, netVars, poolVars>>

\* Mutant of QueueVisitor: the visitor queue has no capacity.
QueueVisitorUnbounded ==
  /\ listener = "holding"
  /\ visitors' = IF pool = "open" THEN visitors + 1 ELSE visitors
  /\ listener' = "listening"
  /\ UNCHANGED <<handle, chanVars, netVars, queue, pool, hand>>

\* The send waits for room, and drops the visitor if the pool is gone.
QueueVisitor ==
  /\ listener = "holding"
  /\ \/ pool = "open" /\ visitors < VisitorCap /\ visitors' = visitors + 1
     \/ pool = "closed" /\ UNCHANGED visitors
  /\ listener' = "listening"
  /\ UNCHANGED <<handle, chanVars, netVars, queue, pool, hand>>

ListenerShutdown ==
  /\ handle = "dropped" /\ listener \in {"binding", "listening"}
  /\ listener' = "closed"
  /\ UNCHANGED <<handle, chanVars, netVars, poolVars>>

-----------------------------------------------------------------------------
(* run_tcp_connection_pool.                                                *)

ClosePool ==
  /\ pool' = "closed" /\ hand' = "idle"
  /\ queue' = 0 /\ visitors' = 0

TakeVisitor ==
  /\ pool = "open" /\ hand = "idle" /\ visitors > 0
  /\ visitors' = visitors - 1 /\ hand' = "waiting"
  /\ UNCHANGED <<handle, chanVars, netVars, queue, pool, listener>>

\* The visitor queue is closed and drained.
NoMoreVisitors ==
  /\ pool = "open" /\ hand = "idle" /\ visitors = 0 /\ listener = "closed"
  /\ ClosePool
  /\ UNCHANGED <<handle, chanVars, netVars, listener>>

TakeChannel ==
  /\ hand = "waiting" /\ queue > 0
  /\ queue' = queue - 1 /\ hand' = "writing"
  /\ UNCHANGED <<handle, chanVars, netVars, visitors, pool, listener>>

\* Mutant of NoMoreChannels: the pool does not notice that its handle is gone.
NoMoreChannelsMissed ==
  /\ hand = "waiting" /\ queue = 0 /\ handle = "dropped"
  /\ UNCHANGED vars

\* data_ch_tx lives in the handle: without it the drained queue is closed.
NoMoreChannels ==
  /\ hand = "waiting" /\ queue = 0 /\ handle = "dropped"
  /\ ClosePool
  /\ UNCHANGED <<handle, chanVars, netVars, listener>>

\* StartForwardTcp is written and a task of its own forwards the visitor.
StartForward ==
  /\ hand = "writing"
  /\ hand' = "idle"
  /\ UNCHANGED <<handle, chanVars, netVars, queue, visitors, pool, listener>>

\* The cached channel died in the queue: the pool asks for another one.
ChannelBroken ==
  /\ hand = "writing"
  /\ IF chan = "running"
     THEN hand' = "waiting" /\ req' = req + 1 /\ UNCHANGED <<queue, visitors, pool>>
     ELSE ClosePool /\ UNCHANGED req
  /\ UNCHANGED <<handle, chan, pending, deadline, arrived, netVars, listener>>

-----------------------------------------------------------------------------
ControlChannel == WriteRequest \/ Arrived \/ WriteFails \/ DeadlineFires \/ ChannelShutdown

DataConnections == ClientReads \/ DataChannelFails \/ Deliver \/ NotifyArrived

Listener == BindListener \/ AcceptVisitor \/ QueueVisitor \/ ListenerShutdown

Pool == TakeVisitor \/ NoMoreVisitors \/ TakeChannel \/ NoMoreChannels \/ StartForward
          \/ ChannelBroken

Next == DropHandle \/ ControlChannel \/ DataConnections \/ Listener \/ Pool

Spec == Init /\ [][Next]_vars

\* Every server task that can run does run.  A command of a few bytes is
\* written or fails: each connection has room for one, or TCP gives up on it.
\* The deadline is a timer that each arrival starts afresh: it fires unless
\* arrivals keep coming.  A data channel is not broken every single time.
\* Nothing is assumed of the client, not even that it comes back when it loses
\* its control channel, so the handle of an ended one may stay for ever.
TaskFairness ==
  /\ WF_vars(WriteRequest \/ (req > 0 /\ WriteFails))
  /\ WF_vars(Arrived) /\ WF_vars(ChannelShutdown) /\ WF_vars(NotifyArrived)
  /\ WF_vars(BindListener) /\ WF_vars(QueueVisitor) /\ WF_vars(ListenerShutdown)
  /\ WF_vars(TakeVisitor) /\ WF_vars(NoMoreVisitors) /\ WF_vars(TakeChannel)
  /\ WF_vars(NoMoreChannels) /\ WF_vars(StartForward \/ ChannelBroken)
  /\ SF_vars(StartForward)
  /\ <>[](deadline = "armed" /\ chan = "running") => []<><<Arrived>>_vars

FairSpec == Spec /\ TaskFairness

-----------------------------------------------------------------------------
(* Properties.                                                             *)

Count(b) == IF b THEN 1 ELSE 0

\* Visitors that have been accepted and not been forwarded or dropped.
Waiting == visitors + Count(hand # "idle") + Count(listener = "holding")

\* Requests and data channels, in whatever place they are.
Supply == req + wire + opening + queue + Count(hand = "writing")

\* The books balance: while the service is up, what is requested, on its way
\* or cached, together with what was lost, is the pool's reserve plus one per
\* waiting visitor.  A request forgotten or made twice, in any task and in any
\* order of their steps, would drain or inflate the pool for good.
Ledger ==
  chan = "running" /\ pool = "open" => Supply + lost = PoolSize + Waiting

\* The control channel's count of unanswered commands is exact, so
\* saturating_sub never saturates, and its deadline is armed exactly while it
\* waits for something.
PendingExact ==
  chan = "running" =>
    /\ pending = wire + opening + handing + arrived + lost
    /\ deadline = "armed" <=> pending > 0

\* The queue of the pool has room for every data channel still being opened:
\* the send in do_data_channel_handshake, which holds the read lock of the map
\* of control channels, never waits.
QueueHasRoom ==
  pool = "open" => queue + opening <= QueueCap

\* A visitor is never left with nothing under way for it: if the pool waits
\* with an empty queue, a request is about to be written or the deadline that
\* tears the control channel down is armed.
VisitorCovered ==
  (chan = "running" /\ pool = "open" /\ hand = "waiting" /\ queue = 0) =>
    req > 0 \/ deadline = "armed"

\* A visitor the pool has taken is not left to a control channel that cannot
\* supply it: the pool forwards or drops the visitor, or the control channel is
\* torn down, which is what makes a client reconnect.
VisitorResolved == (hand = "waiting") ~> (hand = "idle" \/ chan = "exited")

\* Once the handle is dropped both tasks end, which frees the service's port
\* for the next control channel, even if the listener was waiting for room.
DropReleasesPort == (handle = "dropped") ~> (listener = "closed" /\ pool = "closed")

-----------------------------------------------------------------------------
(* What the repository says and the code does not do.                      *)

\* "Visitors would otherwise hang forever waiting in the connection pool": with
\* the deadline, the pool is done with every visitor it takes.  It is not: the
\* end of the control channel does not drop the handle, which the map keeps
\* until another control channel of the service is installed.
VisitorsDoNotHang == (hand = "waiting") ~> (hand = "idle")

-----------------------------------------------------------------------------
(* The inductive invariant of DataPoolProofs.                              *)

Inv ==
  /\ TypeOK
  /\ Ledger /\ PendingExact
  /\ chan = "exited" => req = 0 /\ arrived = 0
  /\ pool = "open" => Supply + lost <= PoolSize + Waiting
  /\ visitors <= VisitorCap
  /\ pool = "closed" => hand = "idle" /\ queue = 0 /\ visitors = 0
=============================================================================
