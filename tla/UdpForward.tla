----------------------------- MODULE UdpForward -----------------------------
(***************************************************************************)
(* One UDP service: the pool of the server (run_udp_connection_pool in     *)
(* src/src/server.rs), the data channel it forwards over, and the client's *)
(* side of that channel (run_data_channel_for_udp and run_udp_forwarder in *)
(* src/src/client.rs): a task that reads packets and keeps a forwarder per *)
(* visitor address in a port map, the forwarders, and a task that writes   *)
(* what they receive from the local service.                               *)
(*                                                                         *)
(* A packet is its visitor.  How a request for a data channel is answered  *)
(* is what DataPool describes; here it is under way, answered or lost.     *)
(***************************************************************************)
EXTENDS Naturals, Sequences

CONSTANTS Visitors,    \* addresses of visitors
          Forwarders,  \* forwarder tasks; an id is reused after its end
          PoolSize,    \* UDP_POOL_SIZE: data channels requested at the start
          SendQ,       \* UDP_SENDQ_SIZE: capacity of inbound and outbound
          NetBuf,      \* packets the connection buffers in each direction
          None

ASSUME NoneAssumption == None \notin Visitors \cup Forwarders
ASSUME SizeAssumption == PoolSize \in Nat /\ SendQ \in Nat /\ NetBuf \in Nat

VARIABLES
  handle,    \* the ControlChannelHandle: in the map, or dropped
  chan,      \* ControlChannel::run
  asked,     \* data channels requested and under way
  ready,     \* data channels queued for the pool
  lost,      \* requests that will never be answered
  pool,      \* [pc, pkt]: the pool task and the packet it writes
  conn,      \* the data channel in use
  down, up,  \* packets it buffers, to the client and to the server
  reader,    \* [pc, pkt, to]: run_data_channel_for_udp
  map,       \* port_map
  fwd,       \* per forwarder: where it is
  from,      \* per forwarder: its visitor
  inbound,   \* per forwarder: packets queued for it
  outq,      \* packets queued for the writer
  writer     \* the task that writes to the server

supplyVars == <<handle, chan, asked, ready, lost>>
netVars    == <<conn, down, up>>
mapVars    == <<map, fwd, from, inbound>>
clientVars == <<reader, mapVars, outq, writer>>
vars == <<supplyVars, pool, netVars, clientVars>>

NoReader == [pc |-> "none", pkt |-> None, to |-> None]

TypeOK ==
  /\ handle \in {"held", "dropped"} /\ chan \in {"running", "exited"}
  /\ asked \in Nat /\ ready \in Nat /\ lost \in Nat
  /\ pool \in [pc : {"binding", "waiting", "starting", "session", "writing", "closed"},
               pkt : Visitors \cup {None}]
  /\ conn \in {"none", "up", "broken"}
  /\ down \in Seq(Visitors) /\ up \in Nat
  /\ reader \in [pc : {"none", "reading", "connecting", "lookup", "sending", "ended"},
                 pkt : Visitors \cup {None}, to : Forwarders \cup {None}]
  /\ map \in [Visitors -> Forwarders \cup {None}]
  /\ fwd \in [Forwarders -> {"free", "running", "replying", "cleaning"}]
  /\ from \in [Forwarders -> Visitors \cup {None}]
  /\ inbound \in [Forwarders -> Nat]
  /\ outq \in Nat
  /\ writer \in {"none", "running", "ended"}

Init ==
  /\ handle = "held" /\ chan = "running"
  /\ asked = PoolSize /\ ready = 0 /\ lost = 0
  /\ pool = [pc |-> "binding", pkt |-> None]
  /\ conn = "none" /\ down = <<>> /\ up = 0
  /\ reader = NoReader
  /\ map = [v \in Visitors |-> None]
  /\ fwd = [f \in Forwarders |-> "free"]
  /\ from = [f \in Forwarders |-> None]
  /\ inbound = [f \in Forwarders |-> 0]
  /\ outq = 0 /\ writer = "none"

-----------------------------------------------------------------------------
(* The control channel and the requests it passes on.                      *)

DropHandle ==
  /\ handle = "held"
  /\ handle' = "dropped"
  /\ UNCHANGED <<chan, asked, ready, lost, pool, netVars, clientVars>>

\* Requests it has not written yet are dropped with its queue.
ChannelExits ==
  /\ chan = "running"
  /\ chan' = "exited"
  /\ asked' \in 0..asked
  /\ UNCHANGED <<handle, ready, lost, pool, netVars, clientVars>>

Arrives ==
  /\ asked > 0 /\ handle = "held" /\ pool.pc # "closed"
  /\ asked' = asked - 1 /\ ready' = ready + 1
  /\ UNCHANGED <<handle, chan, lost, pool, netVars, clientVars>>

RequestLost ==
  /\ asked > 0
  /\ asked' = asked - 1 /\ lost' = lost + 1
  /\ UNCHANGED <<handle, chan, ready, pool, netVars, clientVars>>

-----------------------------------------------------------------------------
(* run_udp_connection_pool.                                                *)

At(l) == [pc |-> l, pkt |-> None]

\* bind is retried until it succeeds or the handle is dropped.
BindSocket ==
  /\ pool.pc = "binding"
  /\ pool' = At("waiting")
  /\ UNCHANGED <<supplyVars, netVars, clientVars>>

StopBinding ==
  /\ pool.pc = "binding" /\ handle = "dropped"
  /\ pool' = At("closed") /\ ready' = 0
  /\ UNCHANGED <<handle, chan, asked, lost, netVars, clientVars>>

TakeChannel ==
  /\ pool.pc = "waiting" /\ ready > 0
  /\ pool' = At("starting") /\ ready' = ready - 1
  /\ UNCHANGED <<handle, chan, asked, lost, netVars, clientVars>>

\* data_ch_tx lives in the handle: without it the drained queue is closed.
NoMoreChannels ==
  /\ pool.pc = "waiting" /\ ready = 0 /\ handle = "dropped"
  /\ pool' = At("closed")
  /\ UNCHANGED <<supplyVars, netVars, clientVars>>

\* Mutant of Replace: a replacement is requested twice.
ReplaceTwice ==
  IF chan = "running"
  THEN pool' = At("waiting") /\ asked' = asked + 2 /\ UNCHANGED ready
  ELSE pool' = At("closed") /\ ready' = 0 /\ UNCHANGED asked

\* A data channel is of no more use: ask for another one, unless the control
\* channel that would pass the request on is gone.
Replace ==
  IF chan = "running"
  THEN pool' = At("waiting") /\ asked' = asked + 1 /\ UNCHANGED ready
  ELSE pool' = At("closed") /\ ready' = 0 /\ UNCHANGED asked

StartFails ==
  /\ pool.pc = "starting"
  /\ Replace
  /\ UNCHANGED <<handle, chan, lost, netVars, clientVars>>

\* The tasks of an earlier session share nothing with those of this one, so
\* one session is followed at a time.
ClientQuiet ==
  /\ reader.pc \in {"none", "ended"} /\ writer \in {"none", "ended"}
  /\ \A f \in Forwarders : fwd[f] = "free"

StartForwardUdp ==
  /\ pool.pc = "starting" /\ ClientQuiet
  /\ pool' = At("session")
  /\ conn' = "up" /\ down' = <<>> /\ up' = 0
  /\ reader' = [NoReader EXCEPT !.pc = "reading"]
  /\ outq' = 0 /\ writer' = "running"
  /\ UNCHANGED <<supplyVars, mapVars>>

RecvVisitor(v) ==
  /\ pool.pc = "session"
  /\ pool' = [pc |-> "writing", pkt |-> v]
  /\ UNCHANGED <<supplyVars, netVars, clientVars>>

\* The write waits for room and for nothing else: neither replies nor the
\* shutdown signal are looked at meanwhile.
WriteDown ==
  /\ pool.pc = "writing" /\ conn = "up" /\ Len(down) < NetBuf
  /\ down' = Append(down, pool.pkt)
  /\ pool' = At("session")
  /\ UNCHANGED <<supplyVars, conn, up, clientVars>>

\* send_to the visitor; an error is ignored.
ReadUp ==
  /\ pool.pc = "session" /\ conn = "up" /\ up > 0
  /\ up' = up - 1
  /\ UNCHANGED <<supplyVars, pool, conn, down, clientVars>>

\* A read or a write fails.
EndSession ==
  /\ pool.pc \in {"session", "writing"} /\ conn = "broken"
  /\ Replace
  /\ UNCHANGED <<handle, chan, lost, netVars, clientVars>>

PoolShutdown ==
  /\ pool.pc = "session" /\ handle = "dropped"
  /\ pool' = At("closed") /\ ready' = 0
  /\ conn' = "broken"
  /\ UNCHANGED <<handle, chan, asked, lost, down, up, clientVars>>

BreakConn ==
  /\ conn = "up"
  /\ conn' = "broken"
  /\ UNCHANGED <<supplyVars, pool, down, up, clientVars>>

-----------------------------------------------------------------------------
(* run_data_channel_for_udp.                                               *)

\* Mutant of ReadPacket: a forwarder is set up for every packet.
ReadPacketForgets ==
  /\ reader.pc = "reading" /\ conn = "up" /\ down # <<>>
  /\ down' = Tail(down)
  /\ reader' = [reader EXCEPT !.pc = "connecting", !.pkt = Head(down)]
  /\ UNCHANGED <<supplyVars, pool, conn, up, mapVars, outq, writer>>

ReadPacket ==
  /\ reader.pc = "reading" /\ conn = "up" /\ down # <<>>
  /\ down' = Tail(down)
  /\ reader' = [reader EXCEPT !.pc = IF map[Head(down)] = None THEN "connecting" ELSE "lookup",
                              !.pkt = Head(down)]
  /\ UNCHANGED <<supplyVars, pool, conn, up, mapVars, outq, writer>>

\* The port map is not locked while the socket is connected.
SetUpForwarder(f) ==
  /\ reader.pc = "connecting" /\ fwd[f] = "free"
  /\ map' = [map EXCEPT ![reader.pkt] = f]
  /\ fwd' = [fwd EXCEPT ![f] = "running"]
  /\ from' = [from EXCEPT ![f] = reader.pkt]
  /\ reader' = [reader EXCEPT !.pc = "lookup"]
  /\ UNCHANGED <<supplyVars, pool, netVars, inbound, outq, writer>>

ConnectFails ==
  /\ reader.pc = "connecting"
  /\ reader' = [reader EXCEPT !.pc = "lookup"]
  /\ UNCHANGED <<supplyVars, pool, netVars, mapVars, outq, writer>>

\* Mutant of LookUp: the packet goes to any live forwarder.
LookUpAny ==
  /\ reader.pc = "lookup"
  /\ \/ \E f \in Forwarders :
          fwd[f] # "free" /\ reader' = [reader EXCEPT !.pc = "sending", !.to = f]
     \/ map[reader.pkt] = None /\ reader' = [NoReader EXCEPT !.pc = "reading"]
  /\ UNCHANGED <<supplyVars, pool, netVars, mapVars, outq, writer>>

\* The sender is cloned out of the map and used after the lock is released.
LookUp ==
  /\ reader.pc = "lookup"
  /\ reader' = IF map[reader.pkt] = None THEN [NoReader EXCEPT !.pc = "reading"]
               ELSE [reader EXCEPT !.pc = "sending", !.to = map[reader.pkt]]
  /\ UNCHANGED <<supplyVars, pool, netVars, mapVars, outq, writer>>

\* The send waits for room and fails once the forwarder is gone.
SendInbound ==
  LET f == reader.to IN
  /\ reader.pc = "sending"
  /\ \/ /\ fwd[f] # "free" /\ inbound[f] < SendQ
        /\ inbound' = [inbound EXCEPT ![f] = @ + 1]
     \/ fwd[f] = "free" /\ UNCHANGED inbound
  /\ reader' = [NoReader EXCEPT !.pc = "reading"]
  /\ UNCHANGED <<supplyVars, pool, netVars, map, fwd, from, outq, writer>>

ReaderFails ==
  /\ reader.pc = "reading" /\ conn = "broken"
  /\ reader' = [NoReader EXCEPT !.pc = "ended"]
  /\ UNCHANGED <<supplyVars, pool, netVars, mapVars, outq, writer>>

\* The writer takes packets and writes them; the one it is writing counts as
\* queued until there is room for it.
WriteUp ==
  /\ writer = "running" /\ outq > 0 /\ conn = "up" /\ up < NetBuf
  /\ outq' = outq - 1 /\ up' = up + 1
  /\ UNCHANGED <<supplyVars, pool, conn, down, reader, mapVars, writer>>

\* Its receiver, and what is queued in it, is dropped with it.
WriterFails ==
  /\ writer = "running" /\ outq > 0 /\ conn = "broken"
  /\ writer' = "ended" /\ outq' = 0
  /\ UNCHANGED <<supplyVars, pool, netVars, reader, mapVars>>

\* Nobody holds a sender any more: the reader has ended, and every forwarder.
WriterDone ==
  /\ writer = "running" /\ outq = 0 /\ reader.pc = "ended"
  /\ \A f \in Forwarders : fwd[f] = "free"
  /\ writer' = "ended"
  /\ UNCHANGED <<supplyVars, pool, netVars, reader, mapVars, outq>>

-----------------------------------------------------------------------------
(* run_udp_forwarder.                                                      *)

Step(f, l) == fwd' = [fwd EXCEPT ![f] = l]

\* The packet is sent to the local service, or sending fails.
TakeInbound(f) ==
  /\ fwd[f] = "running" /\ inbound[f] > 0
  /\ inbound' = [inbound EXCEPT ![f] = @ - 1]
  /\ \E l \in {"running", "cleaning"} : Step(f, l)
  /\ UNCHANGED <<supplyVars, pool, netVars, reader, map, from, outq, writer>>

\* The local service has sent something.
RecvLocal(f) ==
  /\ fwd[f] = "running"
  /\ Step(f, "replying")
  /\ UNCHANGED <<supplyVars, pool, netVars, reader, map, from, inbound, outq, writer>>

\* Mutant of SendOutbound: a send error is ignored.
SendOutboundIgnoresError(f) ==
  /\ fwd[f] = "replying"
  /\ \/ writer = "running" /\ outq < SendQ /\ outq' = outq + 1
     \/ writer = "ended" /\ UNCHANGED outq
  /\ Step(f, "running")
  /\ UNCHANGED <<supplyVars, pool, netVars, reader, map, from, inbound, writer>>

\* The send waits for room and fails once the writer is gone.
SendOutbound(f) ==
  /\ fwd[f] = "replying"
  /\ \/ /\ writer = "running" /\ outq < SendQ
        /\ outq' = outq + 1 /\ Step(f, "running")
     \/ writer = "ended" /\ Step(f, "cleaning") /\ UNCHANGED outq
  /\ UNCHANGED <<supplyVars, pool, netVars, reader, map, from, inbound, writer>>

\* Receiving fails, or nothing has happened for UDP_TIMEOUT.
LeaveLoop(f) ==
  /\ fwd[f] = "running"
  /\ Step(f, "cleaning")
  /\ UNCHANGED <<supplyVars, pool, netVars, reader, map, from, inbound, outq, writer>>

\* Whatever entry its visitor has is removed.
CleanUp(f) ==
  /\ fwd[f] = "cleaning"
  /\ map' = [map EXCEPT ![from[f]] = None]
  /\ Step(f, "free")
  /\ from' = [from EXCEPT ![f] = None] /\ inbound' = [inbound EXCEPT ![f] = 0]
  /\ UNCHANGED <<supplyVars, pool, netVars, reader, outq, writer>>

-----------------------------------------------------------------------------
Supply == DropHandle \/ ChannelExits \/ Arrives \/ RequestLost

Pool ==
  \/ BindSocket \/ StopBinding \/ TakeChannel \/ NoMoreChannels \/ StartFails
  \/ StartForwardUdp \/ \E v \in Visitors : RecvVisitor(v)
  \/ WriteDown \/ ReadUp \/ EndSession \/ PoolShutdown

Reader ==
  \/ ReadPacket \/ ConnectFails \/ LookUp \/ SendInbound \/ ReaderFails
  \/ \E f \in Forwarders : SetUpForwarder(f)

Writer == WriteUp \/ WriterFails \/ WriterDone

Forwarder(f) ==
  TakeInbound(f) \/ RecvLocal(f) \/ SendOutbound(f) \/ LeaveLoop(f) \/ CleanUp(f)

Next ==
  \/ Supply \/ BreakConn \/ Pool \/ Reader \/ Writer
  \/ \E f \in Forwarders : Forwarder(f)

Spec == Init /\ [][Next]_vars

\* Every task of the client that can run does run; a forwarder with nothing to
\* do leaves its loop after UDP_TIMEOUT.  Nothing is assumed of the network.
ClientFairness ==
  /\ WF_vars(Reader) /\ WF_vars(Writer)
  /\ \A f \in Forwarders : WF_vars(Forwarder(f))

\* So does the pool, whose select takes the shutdown branch at some time if it
\* is ready again and again.
PoolFairness == WF_vars(Pool) /\ SF_vars(PoolShutdown)

ClientSpec == Spec /\ ClientFairness
FairSpec == ClientSpec /\ PoolFairness

-----------------------------------------------------------------------------
(* Properties.                                                             *)

Count(b) == IF b THEN 1 ELSE 0

\* While the control channel runs the pool has exactly the data channels it
\* was given at the start, in use, queued or under way, less the lost ones: a
\* session that ends is replaced once, whichever of its ends notices first.
OneChannel ==
  chan = "running" /\ pool.pc # "closed" =>
    asked + ready + lost + Count(pool.pc \in {"starting", "session", "writing"}) = PoolSize

\* The port map has an entry for exactly the forwarders that have not ended,
\* each under its own visitor.  So a forwarder that cleans up, which removes
\* its visitor's entry whoever put it there, never removes a successor's, and
\* none is left that no packet can reach.
PortMapExact ==
  /\ \A f \in Forwarders : fwd[f] # "free" => from[f] # None /\ map[from[f]] = f
  /\ \A v \in Visitors : map[v] # None => fwd[map[v]] # "free" /\ from[map[v]] = v

\* The packet in the reader's hands goes to the forwarder of its own visitor,
\* or to none, though the sender was cloned out of the map earlier.
SentToOwnForwarder ==
  reader.pc = "sending" => fwd[reader.to] = "free" \/ from[reader.to] = reader.pkt

\* A broken data channel takes its whole session down: the reader, the writer
\* and every forwarder end, whatever they were waiting for.
BreakReleasesSession == (conn = "broken") ~> (conn # "broken" \/ ClientQuiet)

-----------------------------------------------------------------------------
(* What the repository says and the code does not do.                      *)

\* "Only the shutdown signal or the control channel going away ends the pool":
\* once the handle is dropped the pool ends.
DropEndsPool == (handle = "dropped") ~> (pool.pc = "closed")

-----------------------------------------------------------------------------
(* The inductive invariant of UdpForwardProofs.                            *)

ReaderInv ==
  /\ reader.pc \in {"connecting", "lookup", "sending"} => reader.pkt \in Visitors
  /\ reader.pc = "connecting" => map[reader.pkt] = None
  /\ reader.pc = "sending" => reader.to \in Forwarders

PoolInv == pool.pc = "writing" => pool.pkt \in Visitors

Inv == TypeOK /\ OneChannel /\ PortMapExact /\ SentToOwnForwarder /\ ReaderInv /\ PoolInv
=============================================================================
