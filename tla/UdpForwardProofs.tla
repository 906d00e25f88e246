------------------------- MODULE UdpForwardProofs -------------------------
(***************************************************************************)
(* The safety properties of UdpForward for every number of visitors and of *)
(* forwarders and for every capacity.                                      *)
(*                                                                         *)
(* OneChannel and PortMapExact are close to inductive.  What they need is  *)
(* the fact that makes the port map safe: between the lookup that finds no *)
(* entry for a visitor and the insertion nobody else inserts one           *)
(* (ReaderInv), because the reader is the only task that inserts.          *)
(***************************************************************************)
EXTENDS UdpForward, TLAPS

\* Nothing is mapped before the first session, and all channels are under way.
LEMMA InvInit == Init => Inv
  BY NoneAssumption, SizeAssumption
  DEF Init, Inv, TypeOK, OneChannel, PortMapExact, SentToOwnForwarder, ReaderInv, PoolInv, NoReader, Count

\* Steps of the control channel and of the network leave the client alone.
LEMMA SupplyInv == Inv /\ (Supply \/ BreakConn) => Inv'
<1> SUFFICES ASSUME Inv, Supply \/ BreakConn PROVE Inv'
  OBVIOUS
<1> USE DEF Inv, TypeOK, OneChannel, PortMapExact, SentToOwnForwarder, ReaderInv, PoolInv, Count,
            clientVars, mapVars, netVars
<1>1. CASE DropHandle    BY <1>1 DEF DropHandle
<1>2. CASE ChannelExits  BY <1>2 DEF ChannelExits
<1>3. CASE Arrives       BY <1>3 DEF Arrives
<1>4. CASE RequestLost   BY <1>4 DEF RequestLost
<1>5. CASE BreakConn     BY <1>5 DEF BreakConn, supplyVars
<1> QED  BY <1>1, <1>2, <1>3, <1>4, <1>5 DEF Supply

\* The pool keeps its account: a channel is taken, used and replaced once.
LEMMA PoolStepInv == Inv /\ Pool => Inv'
<1> SUFFICES ASSUME Inv, Pool PROVE Inv'
  OBVIOUS
<1> USE DEF Inv, TypeOK, OneChannel, PortMapExact, SentToOwnForwarder, ReaderInv, PoolInv, Count,
            clientVars, mapVars, netVars, supplyVars, At
<1>1. CASE BindSocket       BY <1>1 DEF BindSocket
<1>2. CASE StopBinding      BY <1>2 DEF StopBinding
<1>3. CASE TakeChannel      BY <1>3 DEF TakeChannel
<1>4. CASE NoMoreChannels   BY <1>4 DEF NoMoreChannels
<1>5. CASE StartFails
  <2>1. CASE chan = "running"
    <3>1. TypeOK' /\ PoolInv' /\ pool'.pc = "waiting" /\ asked' = asked + 1
      BY <1>5, <2>1 DEF StartFails, Replace
    <3>2. asked + ready + lost + 1 = PoolSize
      BY <1>5, <2>1 DEF StartFails
    <3>3. OneChannel'
      BY <1>5, <2>1, <3>1, <3>2 DEF StartFails, Replace
    <3>4. PortMapExact' /\ SentToOwnForwarder' /\ ReaderInv'
      BY <1>5 DEF StartFails
    <3> QED  BY <3>1, <3>3, <3>4
  <2>2. CASE chan # "running"  BY <1>5, <2>2 DEF StartFails, Replace
  <2> QED  BY <2>1, <2>2
<1>6. CASE StartForwardUdp  BY <1>6 DEF StartForwardUdp, ClientQuiet, NoReader
<1>7. ASSUME NEW v \in Visitors, RecvVisitor(v) PROVE Inv'
  BY <1>7 DEF RecvVisitor
<1>8. CASE WriteDown
  <2>1. Append(down, pool.pkt) \in Seq(Visitors)
    BY <1>8 DEF WriteDown
  <2> QED  BY <1>8, <2>1 DEF WriteDown
<1>9. CASE ReadUp           BY <1>9 DEF ReadUp
<1>10. CASE EndSession
  <2>1. CASE chan = "running"
    <3>1. TypeOK' /\ PoolInv' /\ pool'.pc = "waiting" /\ asked' = asked + 1
      BY <1>10, <2>1 DEF EndSession, Replace
    <3>2. asked + ready + lost + 1 = PoolSize
      BY <1>10, <2>1 DEF EndSession
    <3>3. OneChannel'
      BY <1>10, <2>1, <3>1, <3>2 DEF EndSession, Replace
    <3>4. PortMapExact' /\ SentToOwnForwarder' /\ ReaderInv'
      BY <1>10 DEF EndSession
    <3> QED  BY <3>1, <3>3, <3>4
  <2>2. CASE chan # "running"  BY <1>10, <2>2 DEF EndSession, Replace
  <2> QED  BY <2>1, <2>2
<1>11. CASE PoolShutdown    BY <1>11 DEF PoolShutdown
<1> QED  BY <1>1, <1>2, <1>3, <1>4, <1>5, <1>6, <1>7, <1>8, <1>9, <1>10, <1>11 DEF Pool

\* What a step of the reader that leaves the forwarders alone has to show.
LEMMA ReaderMoves ==
  ASSUME Inv, reader' \in [pc : {"none", "reading", "connecting", "lookup", "sending", "ended"},
                           pkt : Visitors \cup {None}, to : Forwarders \cup {None}],
         UNCHANGED <<supplyVars, pool, conn, up, map, fwd, from, outq, writer>>,
         down' \in Seq(Visitors), inbound' \in [Forwarders -> Nat],
         ReaderInv', SentToOwnForwarder'
  PROVE  Inv'
<1>1. TypeOK'
  BY DEF Inv, TypeOK, supplyVars
<1>2. OneChannel' /\ PoolInv'
  BY DEF Inv, OneChannel, PoolInv, supplyVars, Count
<1>3. PortMapExact'
  BY DEF Inv, PortMapExact
<1> QED  BY <1>1, <1>2, <1>3 DEF Inv

\* The reader inserts a forwarder only where there is none.
LEMMA ReaderStepInv == Inv /\ Reader => Inv'
<1> SUFFICES ASSUME Inv, Reader PROVE Inv'
  OBVIOUS
<1> USE NoneAssumption
<1>1. CASE ReadPacket
  <2>1. Head(down) \in Visitors /\ Tail(down) \in Seq(Visitors)
    BY <1>1 DEF ReadPacket, Inv, TypeOK
  <2>2. reader'.pc \in {"connecting", "lookup"} /\ reader'.pkt = Head(down)
        /\ (reader'.pc = "connecting" => map[Head(down)] = None)
    BY <1>1 DEF ReadPacket, Inv, TypeOK
  <2>3. ReaderInv' /\ SentToOwnForwarder'
    BY <1>1, <2>1, <2>2 DEF ReadPacket, ReaderInv, SentToOwnForwarder, mapVars
  <2> QED  BY <1>1, <2>1, <2>3, ReaderMoves DEF ReadPacket, Inv, TypeOK, mapVars
<1>2. CASE ConnectFails
  <2>1. ReaderInv' /\ SentToOwnForwarder'
    BY <1>2 DEF ConnectFails, Inv, TypeOK, ReaderInv, SentToOwnForwarder
  <2> QED  BY <1>2, <2>1, ReaderMoves DEF ConnectFails, Inv, TypeOK, mapVars, netVars
<1>3. CASE LookUp
  <2>1. CASE map[reader.pkt] = None
    <3>1. ReaderInv' /\ SentToOwnForwarder'
      BY <1>3, <2>1 DEF LookUp, NoReader, ReaderInv, SentToOwnForwarder
    <3> QED  BY <1>3, <2>1, <3>1, ReaderMoves DEF LookUp, NoReader, Inv, TypeOK, mapVars, netVars
  <2>2. CASE map[reader.pkt] # None
    <3>1. reader.pkt \in Visitors /\ map[reader.pkt] \in Forwarders
      BY <1>3, <2>2 DEF LookUp, Inv, TypeOK, ReaderInv
    <3>2. reader' = [reader EXCEPT !.pc = "sending", !.to = map[reader.pkt]]
      BY <1>3, <2>2 DEF LookUp
    <3>3. reader'.pc = "sending" /\ reader'.pkt = reader.pkt /\ reader'.to = map[reader.pkt]
      BY <3>2 DEF Inv, TypeOK
    <3>4. ReaderInv' /\ SentToOwnForwarder'
      BY <1>3, <2>2, <3>1, <3>3 DEF LookUp, Inv, PortMapExact, ReaderInv, SentToOwnForwarder, mapVars
    <3> QED  BY <1>3, <3>1, <3>2, <3>4, ReaderMoves DEF LookUp, Inv, TypeOK, mapVars, netVars
  <2> QED  BY <2>1, <2>2
<1>4. CASE SendInbound
  <2>1. reader' = [NoReader EXCEPT !.pc = "reading"] /\ inbound' \in [Forwarders -> Nat]
    BY <1>4 DEF SendInbound, Inv, TypeOK, ReaderInv
  <2>2. ReaderInv' /\ SentToOwnForwarder'
    BY <2>1 DEF NoReader, ReaderInv, SentToOwnForwarder
  <2> QED  BY <1>4, <2>1, <2>2, ReaderMoves DEF SendInbound, NoReader, Inv, TypeOK, netVars
<1>5. CASE ReaderFails
  <2>1. ReaderInv' /\ SentToOwnForwarder'
    BY <1>5 DEF ReaderFails, NoReader, ReaderInv, SentToOwnForwarder
  <2> QED  BY <1>5, <2>1, ReaderMoves DEF ReaderFails, NoReader, Inv, TypeOK, mapVars, netVars
<1>6. ASSUME NEW f \in Forwarders, SetUpForwarder(f) PROVE Inv'
  <2>1. /\ reader.pkt \in Visitors /\ map[reader.pkt] = None
        /\ map' = [map EXCEPT ![reader.pkt] = f] /\ fwd' = [fwd EXCEPT ![f] = "running"]
        /\ from' = [from EXCEPT ![f] = reader.pkt]
        /\ reader'.pc = "lookup" /\ reader'.pkt = reader.pkt
    BY <1>6 DEF SetUpForwarder, Inv, TypeOK, ReaderInv
  <2>2. TypeOK'
    <3>1. /\ map' \in [Visitors -> Forwarders \cup {None}]
          /\ fwd' \in [Forwarders -> {"free", "running", "replying", "cleaning"}]
          /\ from' \in [Forwarders -> Visitors \cup {None}]
      BY <2>1 DEF Inv, TypeOK
    <3>2. reader' \in [pc : {"none", "reading", "connecting", "lookup", "sending", "ended"},
                       pkt : Visitors \cup {None}, to : Forwarders \cup {None}]
      BY <1>6 DEF SetUpForwarder, Inv, TypeOK
    <3> QED  BY <1>6, <3>1, <3>2 DEF SetUpForwarder, Inv, TypeOK, supplyVars, netVars
  <2>3. OneChannel' /\ PoolInv'
    BY <1>6 DEF SetUpForwarder, Inv, OneChannel, PoolInv, supplyVars, Count
  <2>4. ReaderInv' /\ SentToOwnForwarder'
    BY <2>1 DEF ReaderInv, SentToOwnForwarder
  <2>5. PortMapExact'
    <3>1. \A v \in Visitors : map[v] # f
      BY <1>6 DEF SetUpForwarder, Inv, PortMapExact, TypeOK
    <3>2. ASSUME NEW g \in Forwarders, fwd'[g] # "free"
          PROVE  from'[g] # None /\ map'[from'[g]] = g
      BY <2>1, <3>2 DEF Inv, TypeOK, PortMapExact
    <3>3. ASSUME NEW v \in Visitors, map'[v] # None
          PROVE  fwd'[map'[v]] # "free" /\ from'[map'[v]] = v
      BY <2>1, <3>1, <3>3 DEF Inv, TypeOK, PortMapExact
    <3> QED  BY <3>2, <3>3 DEF PortMapExact
  <2> QED  BY <2>2, <2>3, <2>4, <2>5 DEF Inv
<1> QED  BY <1>1, <1>2, <1>3, <1>4, <1>5, <1>6 DEF Reader

\* A step of a forwarder inside its loop leaves the port map as it is.
LEMMA Forwarding ==
  ASSUME Inv, NEW f \in Forwarders,
         UNCHANGED <<map, from, reader>>, fwd[f] # "free", fwd'[f] # "free",
         \A g \in Forwarders \ {f} : fwd'[g] = fwd[g]
  PROVE  PortMapExact' /\ SentToOwnForwarder'
<1>1. \A g \in Forwarders : fwd'[g] = "free" <=> fwd[g] = "free"
  OBVIOUS
<1>2. PortMapExact'
  BY <1>1 DEF Inv, TypeOK, PortMapExact
<1>3. SentToOwnForwarder'
  BY <1>1 DEF Inv, SentToOwnForwarder, ReaderInv
<1> QED  BY <1>2, <1>3

\* A forwarder removes the entry of its visitor, which is its own.
LEMMA ForwarderInv == ASSUME Inv, NEW f \in Forwarders, Forwarder(f) PROVE Inv'
<1> USE NoneAssumption
    DEF Inv, TypeOK, OneChannel, PortMapExact, SentToOwnForwarder, ReaderInv, PoolInv, Count,
        mapVars, netVars, supplyVars, Step
<1>1. CASE TakeInbound(f)
  <2>1. TypeOK' /\ OneChannel' /\ ReaderInv' /\ PoolInv'
    BY <1>1 DEF TakeInbound
  <2>2. /\ UNCHANGED <<map, from, reader>>
        /\ fwd[f] # "free" /\ fwd'[f] # "free"
        /\ \A g \in Forwarders \ {f} : fwd'[g] = fwd[g]
    BY <1>1 DEF TakeInbound
  <2> QED  BY <2>1, <2>2, Forwarding
<1>2. CASE RecvLocal(f)
  <2>1. TypeOK' /\ OneChannel' /\ ReaderInv' /\ PoolInv'
    BY <1>2 DEF RecvLocal
  <2>2. /\ UNCHANGED <<map, from, reader>>
        /\ fwd[f] # "free" /\ fwd'[f] # "free"
        /\ \A g \in Forwarders \ {f} : fwd'[g] = fwd[g]
    BY <1>2 DEF RecvLocal
  <2> QED  BY <2>1, <2>2, Forwarding
<1>3. CASE SendOutbound(f)
  <2>0. PICK l \in {"running", "cleaning"} :
          /\ fwd' = [fwd EXCEPT ![f] = l] /\ outq' \in {outq, outq + 1}
          /\ UNCHANGED <<handle, chan, asked, ready, lost, pool, conn, down, up, reader, map,
                        from, inbound, writer>>
    BY ONLY <1>3 DEF SendOutbound, Step, supplyVars, netVars
  <2>1. TypeOK' /\ OneChannel' /\ ReaderInv' /\ PoolInv'
    BY <2>0
  <2>2. /\ UNCHANGED <<map, from, reader>>
        /\ fwd[f] # "free" /\ fwd'[f] # "free"
        /\ \A g \in Forwarders \ {f} : fwd'[g] = fwd[g]
    BY <1>3 DEF SendOutbound
  <2> QED  BY <2>1, <2>2, Forwarding
<1>4. CASE LeaveLoop(f)
  <2>1. TypeOK' /\ OneChannel' /\ ReaderInv' /\ PoolInv'
    BY <1>4 DEF LeaveLoop
  <2>2. /\ UNCHANGED <<map, from, reader>>
        /\ fwd[f] # "free" /\ fwd'[f] # "free"
        /\ \A g \in Forwarders \ {f} : fwd'[g] = fwd[g]
    BY <1>4 DEF LeaveLoop
  <2> QED  BY <2>1, <2>2, Forwarding
<1>5. CASE CleanUp(f)
  <2>1. from[f] \in Visitors /\ map[from[f]] = f
    BY <1>5 DEF CleanUp
  <2>2. TypeOK' /\ OneChannel' /\ ReaderInv' /\ SentToOwnForwarder'
    BY <1>5, <2>1 DEF CleanUp
  <2>3. PortMapExact'
    <3>1. map' = [map EXCEPT ![from[f]] = None] /\ fwd' = [fwd EXCEPT ![f] = "free"]
          /\ from' = [from EXCEPT ![f] = None]
      BY <1>5 DEF CleanUp
    <3>2. ASSUME NEW g \in Forwarders, fwd'[g] # "free"
          PROVE  from'[g] # None /\ map'[from'[g]] = g
      BY <2>1, <3>1, <3>2
    <3>3. ASSUME NEW v \in Visitors, map'[v] # None
          PROVE  fwd'[map'[v]] # "free" /\ from'[map'[v]] = v
      BY <2>1, <3>1, <3>3
    <3> QED  BY <3>2, <3>3
  <2>4. PoolInv'
    BY <1>5 DEF CleanUp
  <2> QED  BY <2>2, <2>3, <2>4
<1> QED  BY <1>1, <1>2, <1>3, <1>4, <1>5 DEF Forwarder

\* The writer touches its queue and the connection only.
LEMMA WriterInv == Inv /\ Writer => Inv'
<1> SUFFICES ASSUME Inv, Writer PROVE Inv'
  OBVIOUS
<1> USE DEF Inv, TypeOK, OneChannel, PortMapExact, SentToOwnForwarder, ReaderInv, PoolInv, Count,
            mapVars, netVars, supplyVars
<1>1. CASE WriteUp      BY <1>1 DEF WriteUp
<1>2. CASE WriterFails  BY <1>2 DEF WriterFails
<1>3. CASE WriterDone   BY <1>3 DEF WriterDone
<1> QED  BY <1>1, <1>2, <1>3 DEF Writer

\* Every step keeps the invariant.
LEMMA NextInv == Inv /\ [Next]_vars => Inv'
<1> SUFFICES ASSUME Inv, [Next]_vars PROVE Inv'
  OBVIOUS
<1>1. CASE UNCHANGED vars
  BY <1>1 DEF Inv, TypeOK, OneChannel, PortMapExact, SentToOwnForwarder, ReaderInv, PoolInv, Count,
              vars, clientVars, mapVars, netVars, supplyVars
<1> QED
  BY <1>1, SupplyInv, PoolStepInv, ReaderStepInv, WriterInv, ForwarderInv DEF Next

LEMMA UdpInvariant == Spec => []Inv
<1> QED  BY InvInit, NextInv, PTL DEF Spec

\* A session that ends is replaced once, whichever of its ends notices first: the
\* pool keeps the data channels it began with, less the lost ones
\* (run_udp_connection_pool).
THEOREM PoolOwnsOneChannel == Spec => []OneChannel
<1>1. Inv => OneChannel
  BY DEF Inv
<1> QED  BY <1>1, UdpInvariant, PTL

\* The client's port map names exactly the live forwarders, each under its own
\* visitor (run_data_channel_for_udp).
THEOREM UdpSafety == Spec => []PortMapExact
<1>1. Inv => PortMapExact
  BY DEF Inv
<1> QED  BY <1>1, UdpInvariant, PTL

\* A packet is sent to its own visitor's forwarder or to none.
THEOREM PacketsStayWithVisitor == Spec => []SentToOwnForwarder
<1>1. Inv => SentToOwnForwarder
  BY DEF Inv
<1> QED  BY <1>1, UdpInvariant, PTL
=============================================================================
