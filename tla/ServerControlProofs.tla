------------------------ MODULE ServerControlProofs ------------------------
(***************************************************************************)
(* Inv is an inductive invariant of ServerControl for any sets of services,*)
(* tokens, addresses and connections and any queue capacity; the safety    *)
(* properties that TLC checks on a small instance follow from it.          *)
(*                                                                         *)
(* Why the properties are not inductive by themselves: an entry is right   *)
(* because the handshake that files it carried the right values through    *)
(* every await (HandshakeInv, ChannelInv), a delivered data connection is  *)
(* right because the read lock kept the entry it was routed to (RoutingInv)*)
(* and a status is right because only its owner's task clears it.          *)
(*                                                                         *)
(* From the same invariant: the map never refuses an insert, and, under    *)
(* the fairness of the tasks, a channel that lost its handle ends and no   *)
(* status names an ended channel for ever.                                 *)
(***************************************************************************)
EXTENDS ServerControl, TLAPS

\* Every initial state satisfies the invariant.
LEMMA InvInit == Init => Inv
  BY NoneAssumption
  DEF Init, Inv, TypeOK, HandshakeInv, ChannelInv, EntriesInv, RoutingInv, StatusInv,
      ReloadInv, Task, Phase, Idle, Waiting, NoReload

\* Binding the listener or failing to (Server::run).
LEMMA BindInv ==
  ASSUME Inv, Bind
  PROVE  Inv'
<1> USE NoneAssumption DEF Inv
<1>1. TypeOK'
  BY DEF Bind, TypeOK
<1>2. HandshakeInv' /\ ChannelInv' /\ EntriesInv' /\ RoutingInv' /\ StatusInv' /\ ReloadInv'
  BY DEF Bind, HandshakeInv, ChannelInv, EntriesInv, RoutingInv, StatusInv, ReloadInv,
     SessionKey
<1> QED  BY <1>1, <1>2

\* A connection that says a control hello.
LEMMA AcceptControlInv ==
  ASSUME Inv, NEW c \in Conns, NEW n \in Names, NEW t \in PeerTokens, AcceptControl(c, n, t)
  PROVE  Inv'
<1> USE NoneAssumption DEF Inv
<1>1. TypeOK'
  BY DEF AcceptControl, Idle, TypeOK, Task, Phase
<1>2. HandshakeInv'
  BY DEF AcceptControl, Idle, TypeOK, HandshakeInv, Task
<1>3. ChannelInv'
  BY DEF AcceptControl, Idle, TypeOK, HandshakeInv, ChannelInv, Task
<1>4. EntriesInv'
  <2>1. \A e \in entries : e.v # c
    BY DEF AcceptControl, TypeOK, EntriesInv
  <2>2. \A e \in entries : hs'[e.v] = hs[e.v]
    BY <2>1 DEF AcceptControl, TypeOK
  <2> QED  BY <2>2 DEF AcceptControl, EntriesInv, SessionKey
<1>5. RoutingInv'
  <2>1. \A d \in Conns : hs'[d].pc = "sending" => d # c
    BY DEF AcceptControl, Idle, TypeOK
  <2>2. \A d \in Conns : d # c => hs'[d] = hs[d]
    BY DEF AcceptControl, TypeOK
  <2>3. \A b \in Conns : b = c => inbox[b] = {}
    BY DEF AcceptControl, RoutingInv, HandshakeInv, TypeOK
  <2>4. \A b \in Conns : \A d \in inbox[b] : b # c /\ d # c
    BY <2>3 DEF AcceptControl, RoutingInv, TypeOK
  <2> QED  BY <2>1, <2>2, <2>4 DEF AcceptControl, RoutingInv, SessionKey, TypeOK
<1>6. StatusInv'
  BY DEF AcceptControl, Idle, TypeOK, HandshakeInv, ChannelInv, StatusInv, Task
<1>7. ReloadInv'
  BY DEF AcceptControl, ReloadInv
<1> QED  BY <1>1, <1>2, <1>3, <1>4, <1>5, <1>6, <1>7

\* A connection that says a data hello.
LEMMA AcceptDataInv ==
  ASSUME Inv, NEW c \in Conns, NEW k \in Key, AcceptData(c, k)
  PROVE  Inv'
<1> USE NoneAssumption DEF Inv
<1>1. TypeOK'
  BY DEF AcceptData, Idle, TypeOK, Task, Phase
<1>2. HandshakeInv'
  BY DEF AcceptData, Idle, TypeOK, HandshakeInv, Task
<1>3. ChannelInv'
  BY DEF AcceptData, Idle, TypeOK, HandshakeInv, ChannelInv, Task
<1>4. EntriesInv'
  <2>1. \A e \in entries : e.v # c
    BY DEF AcceptData, TypeOK, EntriesInv
  <2>2. \A e \in entries : hs'[e.v] = hs[e.v]
    BY <2>1 DEF AcceptData, TypeOK
  <2> QED  BY <2>2 DEF AcceptData, EntriesInv, SessionKey
<1>5. RoutingInv'
  <2>1. \A d \in Conns : hs'[d].pc = "sending" => d # c
    BY DEF AcceptData, Idle, TypeOK
  <2>2. \A d \in Conns : d # c => hs'[d] = hs[d]
    BY DEF AcceptData, TypeOK
  <2>3. \A b \in Conns : b = c => inbox[b] = {}
    BY DEF AcceptData, RoutingInv, HandshakeInv, TypeOK
  <2>4. \A b \in Conns : \A d \in inbox[b] : b # c /\ d # c
    BY <2>3 DEF AcceptData, RoutingInv, TypeOK
  <2> QED  BY <2>1, <2>2, <2>4 DEF AcceptData, RoutingInv, SessionKey, TypeOK
<1>6. StatusInv'
  BY DEF AcceptData, Idle, TypeOK, HandshakeInv, ChannelInv, StatusInv, Task
<1>7. ReloadInv'
  BY DEF AcceptData, ReloadInv
<1> QED  BY <1>1, <1>2, <1>3, <1>4, <1>5, <1>6, <1>7

\* The accept loop stops (Server::run).
LEMMA ShutdownInv ==
  ASSUME Inv, Shutdown
  PROVE  Inv'
<1> USE NoneAssumption DEF Inv
<1>1. TypeOK'
  BY DEF Shutdown, TypeOK
<1>2. HandshakeInv' /\ ChannelInv' /\ EntriesInv' /\ RoutingInv' /\ StatusInv' /\ ReloadInv'
  BY DEF Shutdown, HandshakeInv, ChannelInv, EntriesInv, RoutingInv, StatusInv, ReloadInv,
     SessionKey
<1> QED  BY <1>1, <1>2

\* The map is dropped: no data connection is inside a send any more.
LEMMA DropControlChannelsInv ==
  ASSUME Inv, DropControlChannels
  PROVE  Inv'
<1> USE NoneAssumption DEF Inv
<1>1. TypeOK'
  BY DEF DropControlChannels, InFlight, TypeOK
<1>2. EntriesInv'
  BY DEF DropControlChannels, InFlight, TypeOK, HandshakeInv, EntriesInv, SessionKey
<1>3. RoutingInv'
  BY DEF DropControlChannels, InFlight, TypeOK, EntriesInv, RoutingInv, SessionKey
<1>4. HandshakeInv' /\ ChannelInv' /\ StatusInv' /\ ReloadInv'
  BY DEF DropControlChannels, HandshakeInv, ChannelInv, StatusInv, ReloadInv
<1> QED  BY <1>1, <1>2, <1>3, <1>4

\* The handshake looks its service up.
LEMMA LookupInv ==
  ASSUME Inv, NEW c \in Conns, Lookup(c)
  PROVE  Inv'
<1> USE NoneAssumption DEF Inv
<1>1. TypeOK'
  <2>1. services[hs[c].svc] \in Cfg \cup {None}
    BY DEF Lookup, TypeOK, HandshakeInv
  <2> DEFINE p == IF services[hs[c].svc] = None THEN "rejecting" ELSE "auth"
  <2>2. /\ hs'[c] = [[hs[c] EXCEPT !.pc = p] EXCEPT !.cfg = services[hs[c].svc]]
        /\ \A d \in Conns \ {c} : hs'[d] = hs[d]
    BY DEF Lookup, TypeOK, Task
  <2>3. hs'[c] \in Task
    <3>1. hs[c] \in Task /\ p \in Phase
      BY DEF TypeOK, Phase
    <3>2. [hs[c] EXCEPT !.pc = p] \in Task
      BY <3>1 DEF Task
    <3> QED  BY <2>1, <2>2, <3>2 DEF Task
  <2>4. hs' = [d \in Conns |-> hs'[d]]
    BY DEF Lookup, TypeOK
  <2>5. hs' \in [Conns -> Task]
    BY <2>2, <2>3, <2>4 DEF TypeOK
  <2> QED  BY <2>5 DEF Lookup, TypeOK
<1>2. HandshakeInv'
  BY DEF Lookup, TypeOK, HandshakeInv, Task
<1>3. ChannelInv'
  BY DEF Lookup, TypeOK, HandshakeInv, ChannelInv, Task
<1>4. EntriesInv'
  BY DEF Lookup, TypeOK, HandshakeInv, EntriesInv, SessionKey, Task
<1>5. RoutingInv'
  <2>1. /\ \A d \in Conns \ {c} : hs'[d] = hs[d]
        /\ hs'[c].pc \in {"rejecting", "auth"} /\ chan[c] = "none"
    BY DEF Lookup, TypeOK, Task, HandshakeInv
  <2>2. \A b \in Conns : \A d \in inbox[b] : b # c /\ d # c
    BY <2>1 DEF Lookup, RoutingInv
  <2> QED  BY <2>1, <2>2 DEF Lookup, RoutingInv, SessionKey, TypeOK
<1>6. StatusInv'
  BY DEF Lookup, TypeOK, HandshakeInv, ChannelInv, StatusInv, Task
<1>7. ReloadInv'
  BY DEF Lookup, ReloadInv
<1> QED  BY <1>1, <1>2, <1>3, <1>4, <1>5, <1>6, <1>7

\* ServiceNotExist has been answered.
LEMMA RejectedInv ==
  ASSUME Inv, NEW c \in Conns, Rejected(c)
  PROVE  Inv'
<1> USE NoneAssumption DEF Inv
<1>1. TypeOK'
  BY DEF Rejected, Done, TypeOK, Task, Phase
<1>2. HandshakeInv'
  BY DEF Rejected, Done, TypeOK, HandshakeInv, Task
<1>3. ChannelInv'
  BY DEF Rejected, Done, TypeOK, HandshakeInv, ChannelInv, Task
<1>4. EntriesInv'
  BY DEF Rejected, Done, TypeOK, HandshakeInv, EntriesInv, SessionKey, Task
<1>5. RoutingInv'
  BY DEF Rejected, Done, TypeOK, EntriesInv, RoutingInv, SessionKey, Task
<1>6. StatusInv'
  BY DEF Rejected, Done, TypeOK, HandshakeInv, ChannelInv, StatusInv, Task
<1>7. ReloadInv'
  BY DEF Rejected, ReloadInv
<1> QED  BY <1>1, <1>2, <1>3, <1>4, <1>5, <1>6, <1>7

\* The token is compared.
LEMMA ReadAuthInv ==
  ASSUME Inv, NEW c \in Conns, ReadAuth(c)
  PROVE  Inv'
<1> USE NoneAssumption DEF Inv
<1>1. TypeOK'
  <2>1. hs'[c] \in Task /\ \A d \in Conns \ {c} : hs'[d] = hs[d]
    BY DEF ReadAuth, TypeOK, Task, Phase
  <2>2. hs' = [d \in Conns |-> hs'[d]]
    BY DEF ReadAuth, TypeOK
  <2>3. hs' \in [Conns -> Task]
    BY <2>1, <2>2 DEF TypeOK
  <2> QED  BY <2>3 DEF ReadAuth, TypeOK
<1>2. HandshakeInv'
  BY DEF ReadAuth, TypeOK, HandshakeInv, Task
<1>3. ChannelInv'
  BY DEF ReadAuth, TypeOK, HandshakeInv, ChannelInv, Task
<1>4. EntriesInv'
  BY DEF ReadAuth, TypeOK, HandshakeInv, EntriesInv, SessionKey, Task
<1>5. RoutingInv'
  BY DEF ReadAuth, TypeOK, EntriesInv, RoutingInv, SessionKey, Task
<1>6. StatusInv'
  BY DEF ReadAuth, TypeOK, HandshakeInv, ChannelInv, StatusInv, Task
<1>7. ReloadInv'
  BY DEF ReadAuth, ReloadInv
<1> QED  BY <1>1, <1>2, <1>3, <1>4, <1>5, <1>6, <1>7

\* server_connected() and ControlChannelHandle::new(): the new owner of the
\* status has a running task, and no other part mentions the connection yet.
LEMMA RegisterInv ==
  ASSUME Inv, NEW c \in Conns, Register(c)
  PROVE  Inv'
<1> DEFINE n == hs[c].svc
<1>1. n \in Names /\ hs[c].tok \in Tokens /\ hs[c].cfg \in Cfg
      /\ hs[c].cfg.token = hs[c].tok /\ chan[c] = "none" /\ pool[c] = "none"
  BY DEF Inv, Register, HandshakeInv, ChannelInv, Cfg
<1>2. \A e \in entries : e.v # c
  BY DEF Inv, Register, EntriesInv
<1>3. \A b \in Conns : \A d \in inbox[b] : b # c /\ d # c
  BY <1>1 DEF Inv, Register, RoutingInv
<1>4. \A d \in Conns : hs[d].pc = "sending" => d # c
  BY DEF Register
<1>5. CASE runtime[n] = None
  <2>1. hs' = [hs EXCEPT ![c].pc = "done"]
        /\ UNCHANGED <<listener, services, runtime, entries, chan, inbox, pool, reload>>
    BY <1>5 DEF Register, Done
  <2>2. TypeOK'
    BY <2>1 DEF Inv, TypeOK, Task, Phase
  <2>3. \A d \in Conns : d # c => hs'[d] = hs[d]
    BY <2>1 DEF Inv, TypeOK
  <2>4. HandshakeInv' /\ ChannelInv'
    BY <1>1, <2>1 DEF Inv, TypeOK, Task, HandshakeInv, ChannelInv
  <2>5. EntriesInv'
    BY <1>2, <2>1, <2>3 DEF Inv, TypeOK, EntriesInv, SessionKey
  <2>6. RoutingInv'
    BY <1>3, <1>4, <2>1, <2>3 DEF Inv, TypeOK, RoutingInv, SessionKey
  <2>7. StatusInv' /\ ReloadInv'
    BY <2>1 DEF Inv, TypeOK, Task, StatusInv, ReloadInv
  <2> QED  BY <2>2, <2>4, <2>5, <2>6, <2>7 DEF Inv
<1>6. CASE runtime[n] # None
  <2> DEFINE now == [state |-> "connected", owner |-> c, err |-> FALSE]
  <2>1. /\ hs' = [hs EXCEPT ![c].pc = "registered"]
        /\ runtime' = [runtime EXCEPT ![n] = now]
        /\ chan' = [chan EXCEPT ![c] = "running"]
        /\ pool' = [pool EXCEPT ![c] = "open"]
        /\ UNCHANGED <<listener, services, entries, inbox, reload>>
    BY <1>6 DEF Register
  <2>2. hs' \in [Conns -> Task]
    <3>1. hs \in [Conns -> Task]
      BY DEF Inv, TypeOK
    <3> QED  BY <2>1, <3>1 DEF Task, Phase
  <2>3. TypeOK'
    BY <2>1, <2>2 DEF Inv, TypeOK
  <2>4. /\ \A d \in Conns : d # c => hs'[d] = hs[d] /\ chan'[d] = chan[d] /\ pool'[d] = pool[d]
        /\ hs'[c].pc = "registered" /\ hs'[c].svc = hs[c].svc /\ hs'[c].tok = hs[c].tok
        /\ hs'[c].cfg = hs[c].cfg /\ chan'[c] = "running" /\ pool'[c] = "open"
    BY <2>1 DEF Inv, TypeOK, Task
  <2>5. HandshakeInv'
    BY <1>1, <2>4 DEF Inv, HandshakeInv, PeerTokens
  <2>6. ChannelInv'
    BY <1>1, <2>4 DEF Inv, ChannelInv
  <2>7. EntriesInv'
    BY <1>2, <2>1, <2>4 DEF Inv, TypeOK, EntriesInv, SessionKey
  <2>8. RoutingInv'
    BY <1>3, <1>4, <2>1, <2>4 DEF Inv, TypeOK, RoutingInv, SessionKey
  <2>9. StatusInv'
    <3> SUFFICES ASSUME NEW m \in Names, runtime'[m] # None
                 PROVE  /\ runtime'[m].state = "connected" <=> runtime'[m].owner # None
                        /\ runtime'[m].owner # None =>
                             /\ hs'[runtime'[m].owner].svc = m
                             /\ chan'[runtime'[m].owner] \in {"running", "writing", "exited"}
      BY DEF StatusInv
    <3>1. CASE m = n
      BY <1>1, <2>1, <2>4, <3>1, NoneAssumption DEF Inv, TypeOK
    <3>2. CASE m # n
      <4>1. runtime'[m] = runtime[m]
        BY <2>1, <3>2 DEF Inv, TypeOK
      <4> DEFINE o == runtime[m].owner
      <4>2. CASE o = None
        BY <4>1, <4>2 DEF Inv, StatusInv
      <4>3. CASE o # None
        <5>1. o \in Conns /\ hs[o].svc = m /\ chan[o] \in {"running", "writing", "exited"}
              /\ runtime[m].state = "connected"
          BY <4>1, <4>3 DEF Inv, StatusInv, TypeOK
        <5>2. o # c
          BY <1>1, <5>1
        <5>3. hs'[o] = hs[o] /\ chan'[o] = chan[o]
          BY <2>4, <5>1, <5>2
        <5> QED  BY <4>1, <4>3, <5>1, <5>3
      <4> QED  BY <4>2, <4>3
    <3> QED  BY <3>1, <3>2
  <2>10. ReloadInv'
    BY <2>1 DEF Inv, ReloadInv
  <2> QED  BY <2>3, <2>5, <2>6, <2>7, <2>8, <2>9, <2>10 DEF Inv
<1> QED  BY <1>5, <1>6

\* Superseding: one entry per service, filed under its own session key.
LEMMA InstallInv ==
  ASSUME Inv, NEW c \in Conns, Install(c)
  PROVE  Inv'
<1> USE NoneAssumption DEF Inv
<1>1. TypeOK'
  <2>1. SessionKey(c) \in Key /\ hs[c].svc \in Names
    BY DEF Install, TypeOK, HandshakeInv, SessionKey, Cfg, Key
  <2>2. hs' \in [Conns -> Task]
    BY DEF Install, Done, TypeOK, Task, Phase
  <2> QED  BY <2>1, <2>2 DEF Install, TypeOK
<1>2. HandshakeInv'
  BY DEF Install, Done, WriteLockFree, HoldsReadLock, TypeOK, HandshakeInv, Task
<1>3. ChannelInv'
  BY DEF Install, Done, WriteLockFree, HoldsReadLock, TypeOK, HandshakeInv, ChannelInv, Task
<1>4. EntriesInv'
  BY DEF Install, Done, WriteLockFree, HoldsReadLock, TypeOK, HandshakeInv, EntriesInv,
     SessionKey, Task
<1>5. RoutingInv'
  BY DEF Install, Done, WriteLockFree, HoldsReadLock, TypeOK, EntriesInv, RoutingInv,
     SessionKey, Task
<1>6. StatusInv'
  BY DEF Install, Done, WriteLockFree, HoldsReadLock, TypeOK, HandshakeInv, ChannelInv,
     StatusInv, Task
<1>7. ReloadInv'
  BY DEF Install, ReloadInv
<1> QED  BY <1>1, <1>2, <1>3, <1>4, <1>5, <1>6, <1>7

\* A data connection finds its channel and takes the read lock.
LEMMA RouteDataInv ==
  ASSUME Inv, NEW c \in Conns, RouteData(c)
  PROVE  Inv'
<1> USE NoneAssumption DEF Inv
<1>1. TypeOK'
  <2>1. hs' \in [Conns -> Task]
    BY DEF RouteData, Done, TypeOK, Task, Phase
  <2> QED  BY <2>1 DEF RouteData, TypeOK
<1>2. HandshakeInv'
  BY DEF RouteData, Done, TypeOK, HandshakeInv, Task
<1>3. ChannelInv'
  BY DEF RouteData, Done, TypeOK, HandshakeInv, ChannelInv, Task
<1>4. EntriesInv'
  <2>1. /\ \A d \in Conns \ {c} : hs'[d] = hs[d]
        /\ hs[c].pc = "dataHello" /\ UNCHANGED <<entries, chan>>
    BY DEF RouteData, Done, TypeOK
  <2>2. \A e \in entries : e.v \in Conns /\ e.v # c
    BY <2>1 DEF TypeOK, EntriesInv, Task
  <2> QED  BY <2>1, <2>2 DEF EntriesInv, SessionKey
<1>5. RoutingInv'
  <2>1. /\ \A d \in Conns \ {c} : hs'[d] = hs[d]
        /\ hs'[c].cfg = hs[c].cfg /\ hs'[c].key = hs[c].key
        /\ hs'[c].pc \in {"sending", "done"}
    BY DEF RouteData, Done, TypeOK, Task
  <2>2. hs'[c].pc = "sending" => \E e \in entries : e.v = hs'[c].to /\ e.k2 = hs'[c].key
    BY DEF RouteData, Done, TypeOK, Task
  <2>3. \A b \in Conns : \A d \in inbox[b] : d # c
    BY DEF RouteData, RoutingInv
  <2>4. \A b \in Conns : hs'[b].cfg = hs[b].cfg
    BY <2>1
  <2> QED  BY <2>1, <2>2, <2>3, <2>4 DEF RouteData, RoutingInv, SessionKey, TypeOK
<1>6. StatusInv'
  BY DEF RouteData, Done, TypeOK, HandshakeInv, ChannelInv, StatusInv, Task
<1>7. ReloadInv'
  BY DEF RouteData, ReloadInv
<1> QED  BY <1>1, <1>2, <1>3, <1>4, <1>5, <1>6, <1>7

\* The entry found by RouteData is still there when the send completes.
LEMMA SendDataInv ==
  ASSUME Inv, NEW c \in Conns, SendData(c)
  PROVE  Inv'
<1> USE NoneAssumption DEF Inv
<1>1. TypeOK'
  <2>1. hs[c].to \in Conns
    BY DEF SendData, TypeOK, RoutingInv
  <2>2. hs' \in [Conns -> Task]
    BY DEF SendData, Done, TypeOK, Task, Phase
  <2>3. inbox' \in [Conns -> SUBSET Conns]
    BY <2>1 DEF SendData, TypeOK
  <2> QED  BY <2>2, <2>3 DEF SendData, TypeOK
<1>2. HandshakeInv'
  BY DEF SendData, Done, TypeOK, HandshakeInv, Task
<1>3. ChannelInv'
  BY DEF SendData, Done, TypeOK, HandshakeInv, ChannelInv, Task
<1>4. EntriesInv'
  BY DEF SendData, Done, TypeOK, HandshakeInv, EntriesInv, SessionKey, Task
<1>5. RoutingInv'
  BY DEF SendData, Done, TypeOK, EntriesInv, RoutingInv, SessionKey, Task
<1>6. StatusInv'
  BY DEF SendData, Done, TypeOK, HandshakeInv, ChannelInv, StatusInv, Task
<1>7. ReloadInv'
  BY DEF SendData, ReloadInv
<1> QED  BY <1>1, <1>2, <1>3, <1>4, <1>5, <1>6, <1>7

\* The timeout or an I/O error ends a handshake in any phase.
LEMMA AbortHandshakeInv ==
  ASSUME Inv, NEW c \in Conns, AbortHandshake(c)
  PROVE  Inv'
<1> USE NoneAssumption DEF Inv
<1>1. TypeOK'
  <2>1. hs' \in [Conns -> Task]
    BY DEF AbortHandshake, Done, InFlight, TypeOK, Task, Phase
  <2> QED  BY <2>1 DEF AbortHandshake, TypeOK
<1>2. HandshakeInv'
  BY DEF AbortHandshake, Done, InFlight, TypeOK, HandshakeInv, Task
<1>3. ChannelInv'
  BY DEF AbortHandshake, Done, InFlight, TypeOK, HandshakeInv, ChannelInv, Task
<1>4. EntriesInv'
  BY DEF AbortHandshake, Done, InFlight, TypeOK, HandshakeInv, EntriesInv, SessionKey, Task
<1>5. RoutingInv'
  BY DEF AbortHandshake, Done, InFlight, TypeOK, EntriesInv, RoutingInv, SessionKey, Task
<1>6. StatusInv'
  BY DEF AbortHandshake, Done, InFlight, TypeOK, HandshakeInv, ChannelInv, StatusInv, Task
<1>7. ReloadInv'
  BY DEF AbortHandshake, ReloadInv
<1> QED  BY <1>1, <1>2, <1>3, <1>4, <1>5, <1>6, <1>7

\* A control channel ends because its handle was dropped.
LEMMA ChannelShutdownInv ==
  ASSUME Inv, NEW c \in Conns, ChannelShutdown(c)
  PROVE  Inv'
<1> USE NoneAssumption DEF Inv
<1>1. TypeOK'
  BY DEF ChannelShutdown, TypeOK
<1>2. HandshakeInv'
  BY DEF ChannelShutdown, TypeOK, HandshakeInv
<1>3. ChannelInv'
  BY DEF ChannelShutdown, TypeOK, HandshakeInv, ChannelInv
<1>4. EntriesInv'
  BY DEF ChannelShutdown, TypeOK, HandshakeInv, EntriesInv, SessionKey
<1>5. RoutingInv'
  BY DEF ChannelShutdown, TypeOK, EntriesInv, RoutingInv, SessionKey
<1>6. StatusInv'
  BY DEF ChannelShutdown, TypeOK, HandshakeInv, ChannelInv, StatusInv
<1>7. ReloadInv'
  BY DEF ChannelShutdown, ReloadInv
<1> QED  BY <1>1, <1>2, <1>3, <1>4, <1>5, <1>6, <1>7

\* A write to the peer begins.
LEMMA ChannelWriteInv ==
  ASSUME Inv, NEW c \in Conns, ChannelWrite(c)
  PROVE  Inv'
<1> USE NoneAssumption DEF Inv
<1>1. TypeOK'
  BY DEF ChannelWrite, TypeOK
<1>2. HandshakeInv'
  BY DEF ChannelWrite, TypeOK, HandshakeInv
<1>3. ChannelInv'
  BY DEF ChannelWrite, TypeOK, HandshakeInv, ChannelInv
<1>4. EntriesInv'
  BY DEF ChannelWrite, TypeOK, HandshakeInv, EntriesInv, SessionKey
<1>5. RoutingInv'
  BY DEF ChannelWrite, TypeOK, EntriesInv, RoutingInv, SessionKey
<1>6. StatusInv'
  BY DEF ChannelWrite, TypeOK, HandshakeInv, ChannelInv, StatusInv
<1>7. ReloadInv'
  BY DEF ChannelWrite, ReloadInv
<1> QED  BY <1>1, <1>2, <1>3, <1>4, <1>5, <1>6, <1>7

\* A write to the peer is done.
LEMMA ChannelWrittenInv ==
  ASSUME Inv, NEW c \in Conns, ChannelWritten(c)
  PROVE  Inv'
<1> USE NoneAssumption DEF Inv
<1>1. TypeOK'
  BY DEF ChannelWritten, TypeOK
<1>2. HandshakeInv'
  BY DEF ChannelWritten, TypeOK, HandshakeInv
<1>3. ChannelInv'
  BY DEF ChannelWritten, TypeOK, HandshakeInv, ChannelInv
<1>4. EntriesInv'
  BY DEF ChannelWritten, TypeOK, HandshakeInv, EntriesInv, SessionKey
<1>5. RoutingInv'
  BY DEF ChannelWritten, TypeOK, EntriesInv, RoutingInv, SessionKey
<1>6. StatusInv'
  BY DEF ChannelWritten, TypeOK, HandshakeInv, ChannelInv, StatusInv
<1>7. ReloadInv'
  BY DEF ChannelWritten, ReloadInv
<1> QED  BY <1>1, <1>2, <1>3, <1>4, <1>5, <1>6, <1>7

\* A control channel ends by itself.
LEMMA ChannelFailInv ==
  ASSUME Inv, NEW c \in Conns, ChannelFail(c)
  PROVE  Inv'
<1> USE NoneAssumption DEF Inv
<1>1. TypeOK'
  BY DEF ChannelFail, TypeOK
<1>2. HandshakeInv'
  BY DEF ChannelFail, TypeOK, HandshakeInv
<1>3. ChannelInv'
  BY DEF ChannelFail, TypeOK, HandshakeInv, ChannelInv
<1>4. EntriesInv'
  BY DEF ChannelFail, TypeOK, HandshakeInv, EntriesInv, SessionKey
<1>5. RoutingInv'
  BY DEF ChannelFail, TypeOK, EntriesInv, RoutingInv, SessionKey
<1>6. StatusInv'
  BY DEF ChannelFail, TypeOK, HandshakeInv, ChannelInv, StatusInv
<1>7. ReloadInv'
  BY DEF ChannelFail, ReloadInv
<1> QED  BY <1>1, <1>2, <1>3, <1>4, <1>5, <1>6, <1>7

\* The report clears the status of the reporting channel only.
LEMMA ReportDisconnectInv ==
  ASSUME Inv, NEW c \in Conns, ReportDisconnect(c)
  PROVE  Inv'
<1> USE NoneAssumption DEF Inv
<1>1. TypeOK'
  BY DEF ReportDisconnect, Waiting, TypeOK
<1>2. HandshakeInv'
  BY DEF ReportDisconnect, Waiting, TypeOK, HandshakeInv
<1>3. ChannelInv'
  BY DEF ReportDisconnect, Waiting, TypeOK, HandshakeInv, ChannelInv
<1>4. EntriesInv'
  BY DEF ReportDisconnect, Waiting, TypeOK, HandshakeInv, EntriesInv, SessionKey
<1>5. RoutingInv'
  BY DEF ReportDisconnect, Waiting, TypeOK, EntriesInv, RoutingInv, SessionKey
<1>6. StatusInv'
  BY DEF ReportDisconnect, Waiting, TypeOK, HandshakeInv, ChannelInv, StatusInv
<1>7. ReloadInv'
  BY DEF ReportDisconnect, ReloadInv
<1> QED  BY <1>1, <1>2, <1>3, <1>4, <1>5, <1>6, <1>7

\* The pool begins an I/O, for which it may take a queued data connection.
LEMMA PoolUseInv ==
  ASSUME Inv, NEW c \in Conns, PoolUse(c)
  PROVE  Inv'
<1> USE NoneAssumption DEF Inv
<1>1. TypeOK'
  BY DEF PoolUse, TypeOK
<1>2. ChannelInv'
  BY DEF PoolUse, TypeOK, ChannelInv
<1>3. RoutingInv'
  BY DEF PoolUse, TypeOK, EntriesInv, RoutingInv, SessionKey
<1>4. HandshakeInv' /\ EntriesInv' /\ StatusInv' /\ ReloadInv'
  BY DEF PoolUse, HandshakeInv, EntriesInv, StatusInv, ReloadInv, SessionKey
<1> QED  BY <1>1, <1>2, <1>3, <1>4

\* The pool is done with its I/O.
LEMMA PoolUsedInv ==
  ASSUME Inv, NEW c \in Conns, PoolUsed(c)
  PROVE  Inv'
<1> USE NoneAssumption DEF Inv
<1>1. TypeOK'
  BY DEF PoolUsed, TypeOK
<1>2. ChannelInv'
  BY DEF PoolUsed, TypeOK, ChannelInv
<1>3. HandshakeInv' /\ EntriesInv' /\ RoutingInv' /\ StatusInv' /\ ReloadInv'
  BY DEF PoolUsed, HandshakeInv, EntriesInv, RoutingInv, StatusInv, ReloadInv, SessionKey
<1> QED  BY <1>1, <1>2, <1>3

\* The pool ends and drops its queue.
LEMMA PoolCloseInv ==
  ASSUME Inv, NEW c \in Conns, PoolClose(c)
  PROVE  Inv'
<1> USE NoneAssumption DEF Inv
<1>1. TypeOK'
  BY DEF PoolClose, TypeOK
<1>2. ChannelInv'
  BY DEF PoolClose, TypeOK, HandshakeInv, ChannelInv
<1>3. RoutingInv'
  BY DEF PoolClose, TypeOK, EntriesInv, RoutingInv, SessionKey
<1>4. HandshakeInv' /\ EntriesInv' /\ StatusInv' /\ ReloadInv'
  BY DEF PoolClose, HandshakeInv, EntriesInv, StatusInv, ReloadInv, SessionKey
<1> QED  BY <1>1, <1>2, <1>3, <1>4

\* Hot reload of a new or changed service begins.
LEMMA ReloadAddInv ==
  ASSUME Inv, NEW n \in Names, NEW cfg \in Cfg, ReloadAdd(n, cfg)
  PROVE  Inv'
<1> USE NoneAssumption DEF Inv
<1>1. TypeOK'
  BY DEF ReloadAdd, Waiting, TypeOK
<1>2. StatusInv'
  BY DEF ReloadAdd, Waiting, TypeOK, HandshakeInv, ChannelInv, StatusInv
<1>3. ReloadInv'
  BY DEF ReloadAdd, Waiting, ReloadInv
<1>4. HandshakeInv' /\ ChannelInv' /\ EntriesInv' /\ RoutingInv'
  BY DEF ReloadAdd, HandshakeInv, ChannelInv, EntriesInv, RoutingInv, SessionKey
<1> QED  BY <1>1, <1>2, <1>3, <1>4

\* Hot reload of a deleted service begins.
LEMMA ReloadDeleteInv ==
  ASSUME Inv, NEW n \in Names, ReloadDelete(n)
  PROVE  Inv'
<1> USE NoneAssumption DEF Inv
<1>1. TypeOK'
  BY DEF ReloadDelete, TypeOK
<1>2. StatusInv'
  BY DEF ReloadDelete, TypeOK, HandshakeInv, ChannelInv, StatusInv
<1>3. ReloadInv'
  BY DEF ReloadDelete, ReloadInv
<1>4. HandshakeInv' /\ ChannelInv' /\ EntriesInv' /\ RoutingInv'
  BY DEF ReloadDelete, HandshakeInv, ChannelInv, EntriesInv, RoutingInv, SessionKey
<1> QED  BY <1>1, <1>2, <1>3, <1>4

\* Hot reload updates the service map.
LEMMA ReloadServicesInv ==
  ASSUME Inv, ReloadServices
  PROVE  Inv'
<1> USE NoneAssumption DEF Inv
<1>1. TypeOK'
  BY DEF ReloadServices, TypeOK
<1>2. ReloadInv'
  BY DEF ReloadServices, ReloadInv
<1>3. HandshakeInv' /\ ChannelInv' /\ EntriesInv' /\ RoutingInv' /\ StatusInv'
  BY DEF ReloadServices, HandshakeInv, ChannelInv, EntriesInv, RoutingInv, StatusInv, SessionKey
<1> QED  BY <1>1, <1>2, <1>3

\* Hot reload drops the channel: no data connection holds the read lock.
LEMMA ReloadChannelsInv ==
  ASSUME Inv, ReloadChannels
  PROVE  Inv'
<1> USE NoneAssumption DEF Inv
<1>1. TypeOK'
  BY DEF ReloadChannels, NoReload, WriteLockFree, HoldsReadLock, TypeOK
<1>2. EntriesInv'
  BY DEF ReloadChannels, NoReload, WriteLockFree, HoldsReadLock, TypeOK, HandshakeInv,
     EntriesInv, SessionKey
<1>3. RoutingInv'
  BY DEF ReloadChannels, NoReload, WriteLockFree, HoldsReadLock, TypeOK, EntriesInv,
     RoutingInv, SessionKey
<1>4. ReloadInv'
  BY DEF ReloadChannels, NoReload, WriteLockFree, HoldsReadLock, ReloadInv
<1>5. HandshakeInv' /\ ChannelInv' /\ StatusInv'
  BY DEF ReloadChannels, HandshakeInv, ChannelInv, StatusInv
<1> QED  BY <1>1, <1>2, <1>3, <1>4, <1>5

\* Every step of the server preserves the invariant.
LEMMA NextInv == Inv /\ [Next]_vars => Inv'
<1> SUFFICES ASSUME Inv, [Next]_vars PROVE Inv'
  OBVIOUS
<1>1. CASE Bind \/ Accept \/ Shutdown \/ DropControlChannels
  BY <1>1, BindInv, AcceptControlInv, AcceptDataInv, ShutdownInv, DropControlChannelsInv
  DEF Accept
<1>2. ASSUME NEW c \in Conns, Handshake(c) PROVE Inv'
  BY <1>2, LookupInv, RejectedInv, ReadAuthInv, RegisterInv, InstallInv, RouteDataInv,
     SendDataInv, AbortHandshakeInv
  DEF Handshake
<1>3. ASSUME NEW c \in Conns, Channel(c) PROVE Inv'
  BY <1>3, ChannelWriteInv, ChannelWrittenInv, ChannelShutdownInv, ChannelFailInv,
     ReportDisconnectInv, PoolUseInv, PoolUsedInv, PoolCloseInv
  DEF Channel
<1>4. CASE Reload
  BY <1>4, ReloadAddInv, ReloadDeleteInv, ReloadServicesInv, ReloadChannelsInv DEF Reload
<1>5. CASE UNCHANGED vars
  BY <1>5 DEF vars, Inv, TypeOK, HandshakeInv, ChannelInv, EntriesInv, RoutingInv, StatusInv,
              ReloadInv, SessionKey
<1> QED  BY <1>1, <1>2, <1>3, <1>4, <1>5 DEF Next

\* The inductive invariant holds in every reachable state of the server.
THEOREM ServerInvariant == Spec => []Inv
  BY InvInit, NextInv, PTL DEF Spec

\* The session key of a channel names its connection, so entries with equal
\* keys or equal channels have equal services.
LEMMA InvUnique == Inv => UniqueChannel
<1> SUFFICES ASSUME Inv, NEW e \in entries, NEW f \in entries,
                    e.k1 = f.k1 \/ e.k2 = f.k2 \/ e.v = f.v
             PROVE  e = f
  BY DEF UniqueChannel
<1>1. e.k2 = SessionKey(e.v) /\ f.k2 = SessionKey(f.v)
  BY DEF Inv, EntriesInv
<1>2. e.k2 = f.k2 => e.v = f.v
  BY <1>1 DEF SessionKey
<1>3. e.v = f.v => e.k1 = f.k1
  BY DEF Inv, EntriesInv
<1> QED  BY <1>2, <1>3 DEF Inv, EntriesInv

\* At most one control channel per service and per session key
\* (do_control_channel_handshake).
THEOREM ControlPlaneSafety == Spec => []UniqueChannel
<1> QED  BY ServerInvariant, InvUnique, PTL

\* Every installed channel finished its own handshake: it is filed under the
\* service it asked for and the key of its own nonce and a token its peer had
\* (do_control_channel_handshake).
THEOREM InstalledAreAuthenticated == Spec => []AuthenticatedEntries
<1>1. Inv => AuthenticatedEntries
  BY DEF Inv, EntriesInv, ChannelInv, AuthenticatedEntries, SessionKey, TypeOK
<1> QED  BY ServerInvariant, <1>1, PTL

\* A service is shown as connected only while a task is there to clear it.
THEOREM ConnectedIsBacked == Spec => []ConnectedHasTask
<1>1. Inv => ConnectedHasTask
  BY DEF Inv, StatusInv, ConnectedHasTask, TypeOK
<1> QED  BY ServerInvariant, <1>1, PTL

\* Data connections wait only in the queue of the channel whose session key they
\* presented (do_data_channel_handshake).
THEOREM RoutedBySessionKey == Spec => []DataRoutedByKey
<1>1. Inv => DataRoutedByKey
  BY DEF Inv, RoutingInv, DataRoutedByKey
<1> QED  BY ServerInvariant, <1>1, PTL

\* No step delivers a data connection to a channel that is not in the map.
THEOREM DeliverySafety == Spec => DeliveryOnlyToInstalled
<1> DEFINE Safe == \A c \in Conns : inbox'[c] \subseteq inbox[c] \/ Installed(c)
<1>1. ASSUME Inv, NEW d \in Conns, SendData(d) PROVE Safe
  <2>1. Installed(hs[d].to)
    BY <1>1 DEF Inv, RoutingInv, SendData, Installed
  <2> QED  BY <1>1, <2>1 DEF SendData, Inv, TypeOK
<1>2. ASSUME Inv, NEW c \in Conns, PoolUse(c) \/ PoolClose(c) PROVE Safe
  BY <1>2 DEF PoolUse, PoolClose, Inv, TypeOK
<1>3. ASSUME Inv, Next PROVE Safe
  <2>1. CASE Bind \/ Accept \/ Shutdown \/ DropControlChannels \/ Reload
    BY <2>1 DEF Bind, Accept, AcceptControl, AcceptData, Shutdown, DropControlChannels,
                Reload, ReloadAdd, ReloadDelete, ReloadServices, ReloadChannels
  <2>2. ASSUME NEW c \in Conns, Handshake(c) \/ Channel(c) PROVE Safe
    BY <1>1, <1>2, <1>3, <2>2
    DEF Handshake, Channel, Lookup, Rejected, ReadAuth, Register, Install, RouteData,
        AbortHandshake, ChannelWrite, ChannelWritten, ChannelShutdown, ChannelFail,
        ReportDisconnect, PoolUsed
  <2> QED  BY <1>3, <2>1, <2>2 DEF Next
<1>4. Inv /\ [Next]_vars => [Safe]_vars
  BY <1>3
<1> QED  BY ServerInvariant, <1>4, PTL DEF Spec, DeliveryOnlyToInstalled

-----------------------------------------------------------------------------
(* The map of control channels as a client of MultiMap.                    *)

\* control_channels as TwoKeyDict has it, which MultiMapProofs shows MultiMap to implement.
Dict == INSTANCE TwoKeyDict WITH K1 <- Names, K2 <- Key, V <- Conns

\* remove1() and then insert() under one write guard, where the insert finds neither
\* of its keys in use.
Supersede(e) ==
  LET rest == {f \in entries : f.k1 # e.k1} IN
  /\ Dict!Matching(rest, e.k1, e.k2) = {}
  /\ entries' = rest \cup {e}

\* What the server does with the map.
DictUse ==
  \/ \E e \in Dict!Entry : Supersede(e)
  \/ \E n \in Names : Dict!Remove1(n)
  \/ Dict!Clear

\* The connection that installs its channel has not installed it before, and a session key
\* names its connection: no other entry has the key.
LEMMA InstallUse == ASSUME Inv, NEW c \in Conns, Install(c) PROVE DictUse
<1> DEFINE e == [k1 |-> hs[c].svc, k2 |-> SessionKey(c), v |-> c]
           rest == {f \in entries : f.k1 # hs[c].svc}
<1>1. hs[c].svc \in Names /\ SessionKey(c) \in Key
  BY DEF Install, Inv, HandshakeInv, SessionKey, Key, Cfg
<1>2. ASSUME NEW f \in entries PROVE f.k2 # SessionKey(c)
  <2>1. f.v \in Conns /\ hs[f.v].pc = "done" /\ f.k2 = SessionKey(f.v)
    BY DEF Inv, EntriesInv, TypeOK
  <2>2. f.v # c
    BY <2>1 DEF Install
  <2> QED  BY <2>1, <2>2 DEF SessionKey
<1>3. Dict!Matching(rest, e.k1, e.k2) = {}
  BY <1>2 DEF Dict!Matching
<1>4. e \in Dict!Entry
  BY <1>1 DEF Dict!Entry
<1>5. Supersede(e)
  BY <1>3 DEF Supersede, Install
<1> QED  BY <1>4, <1>5 DEF DictUse

\* Every step of the server uses the map as MultiMap allows: the result of insert(), which
\* do_control_channel_handshake ignores, is never the refusal that would drop the handle of
\* the channel it has just started.
THEOREM InsertNeverRefused == Spec => [][DictUse]_entries
<1>1. ASSUME Inv, Next PROVE DictUse \/ UNCHANGED entries
  <2>1. CASE Bind \/ Accept \/ Shutdown
    BY <2>1 DEF Bind, Accept, AcceptControl, AcceptData, Shutdown
  <2>2. CASE DropControlChannels
    BY <2>2 DEF DropControlChannels, DictUse, Dict!Clear
  <2>3. CASE Reload
    <3>1. CASE ReloadChannels
      <4>1. reload.svc \in Names
        BY <1>1, <3>1 DEF ReloadChannels, Inv, ReloadInv
      <4>2. CASE \E e \in entries : e.k1 = reload.svc
        BY <3>1, <4>1, <4>2 DEF ReloadChannels, DictUse, Dict!Remove1
      <4>3. CASE ~\E e \in entries : e.k1 = reload.svc
        BY <3>1, <4>3 DEF ReloadChannels
      <4> QED  BY <4>2, <4>3
    <3> QED  BY <2>3, <3>1 DEF Reload, ReloadAdd, ReloadDelete, ReloadServices
  <2>4. ASSUME NEW c \in Conns, Handshake(c) \/ Channel(c) PROVE DictUse \/ UNCHANGED entries
    <3>1. CASE Install(c)
      BY <1>1, <3>1, InstallUse
    <3> QED  BY <2>4, <3>1
             DEF Handshake, Channel, Lookup, Rejected, ReadAuth, Register, RouteData, SendData,
                 AbortHandshake, ChannelWrite, ChannelWritten, ChannelShutdown, ChannelFail,
                 ReportDisconnect, PoolUse, PoolUsed, PoolClose
  <2> QED  BY <1>1, <2>1, <2>2, <2>3, <2>4 DEF Next
<1>2. Inv /\ [Next]_vars => [DictUse]_entries
  BY <1>1 DEF vars
<1> QED  BY <1>2, ServerInvariant, PTL DEF Spec

-----------------------------------------------------------------------------
(* Progress.  Fairness speaks of an action being ENABLED, which the        *)
(* prover cannot expand.  GuardsEnable says what the guards of the tasks   *)
(* behind a handle are; it follows from their definitions, TLC finds it to *)
(* be an invariant, and the theorems name it as their hypothesis.          *)

\* A task behind a handle whose guard holds can take the step: the rest of each action
\* only assigns.
GuardsEnable ==
  \A c \in Conns :
    /\ chan[c] = "running" /\ ~HandleAlive(c) => ENABLED <<ChannelShutdown(c)>>_vars
    /\ chan[c] = "exited" => ENABLED <<ReportDisconnect(c)>>_vars
    /\ pool[c] = "open" /\ ~HandleAlive(c) => ENABLED <<~HandleAlive(c) /\ PoolClose(c)>>_vars

\* A control channel that was started and has lost its handle.
Dropped(c) == chan[c] # "none" /\ ~HandleAlive(c)

\* A lost handle is not regained: Register gives one to a connection that has no channel
\* yet, and Install only files the channel of the handshake that still owns it.
LEMMA DroppedStays ==
  ASSUME Inv, NEW c \in Conns, Dropped(c), [Next]_vars
  PROVE  Dropped(c)'
<1> USE DEF Dropped, HandleAlive, Installed
<1>0. hs[c].pc = "done"
  BY DEF Inv, HandshakeInv, TypeOK
<1>1. CASE UNCHANGED vars
  BY <1>1 DEF vars
<1>2. CASE Bind \/ Accept \/ Shutdown \/ DropControlChannels \/ Reload
  BY <1>0, <1>2 DEF Bind, Accept, AcceptControl, AcceptData, Shutdown, DropControlChannels,
              Reload, ReloadAdd, ReloadDelete, ReloadServices, ReloadChannels, Inv, TypeOK
<1>3. ASSUME NEW d \in Conns, Handshake(d) PROVE Dropped(c)'
  <2>1. d # c
    BY <1>0, <1>3 DEF Handshake, Lookup, Rejected, ReadAuth, Register, Install, RouteData,
        SendData, AbortHandshake, InFlight
  <2>2. hs'[c] = hs[c] /\ chan'[c] = chan[c]
    BY <1>3, <2>1 DEF Handshake, Lookup, Rejected, ReadAuth, Register, Install, RouteData,
        SendData, AbortHandshake, Done, Inv, TypeOK
  <2>3. \A e \in entries' : e \in entries \/ e.v = d
    BY <1>3 DEF Handshake, Lookup, Rejected, ReadAuth, Register, Install, RouteData,
        SendData, AbortHandshake
  <2> QED  BY <2>1, <2>2, <2>3
<1>4. ASSUME NEW d \in Conns, Channel(d) PROVE Dropped(c)'
  BY <1>4 DEF Channel, ChannelWrite, ChannelWritten, ChannelShutdown, ChannelFail,
              ReportDisconnect, PoolUse, PoolUsed, PoolClose, Inv, TypeOK
<1> QED  BY <1>1, <1>2, <1>3, <1>4 DEF Next

\* What a step may do to a control channel that was started, and to its pool.
ChannelMoves == {<<"running", "writing">>, <<"writing", "running">>, <<"running", "exited">>,
                 <<"writing", "exited">>, <<"exited", "reported">>}
PoolMoves == {<<"open", "busy">>, <<"busy", "open">>, <<"open", "closed">>}

\* A control channel runs and writes, exits and reports; its pool closes once.
LEMMA ChannelStages ==
  ASSUME Inv, NEW c \in Conns, chan[c] # "none", [Next]_vars
  PROVE  /\ chan'[c] = chan[c] \/ <<chan[c], chan'[c]>> \in ChannelMoves
         /\ pool'[c] = pool[c] \/ <<pool[c], pool'[c]>> \in PoolMoves
<1>0. hs[c].pc \in {"registered", "done"}
  BY DEF Inv, HandshakeInv
<1>1. CASE UNCHANGED vars
  BY <1>1 DEF vars
<1>2. CASE Bind \/ Accept \/ Shutdown \/ DropControlChannels \/ Reload
  BY <1>2 DEF Bind, Accept, AcceptControl, AcceptData, Shutdown, DropControlChannels,
              Reload, ReloadAdd, ReloadDelete, ReloadServices, ReloadChannels
<1>3. ASSUME NEW d \in Conns, Handshake(d) PROVE chan'[c] = chan[c] /\ pool'[c] = pool[c]
  BY <1>0, <1>3 DEF Handshake, Lookup, Rejected, ReadAuth, Register, Install, RouteData,
      SendData, AbortHandshake, Inv, TypeOK
<1>4. ASSUME NEW d \in Conns, Channel(d)
      PROVE  /\ chan'[c] = chan[c] \/ <<chan[c], chan'[c]>> \in ChannelMoves
             /\ pool'[c] = pool[c] \/ <<pool[c], pool'[c]>> \in PoolMoves
  BY <1>4 DEF Channel, ChannelWrite, ChannelWritten, ChannelShutdown, ChannelFail,
              ReportDisconnect, PoolUse, PoolUsed, PoolClose, ChannelMoves, PoolMoves,
              Inv, TypeOK
<1> QED  BY <1>1, <1>2, <1>3, <1>4 DEF Next

\* A control channel that is superseded, reloaded away, aborted or dropped by a shutdown
\* reports its end and stops listening for visitors, unless one I/O with its peer never
\* ends (ControlChannel::run and the pool): a task that comes back to its select! for ever
\* takes the shutdown branch, and one that does not is in the same I/O for ever.
THEOREM DroppedChannelsEnd == FairSpec /\ []GuardsEnable => DroppedChannelEnds
<1>1. ASSUME NEW c \in Conns
      PROVE  FairSpec /\ []GuardsEnable =>
               ((chan[c] # "none" /\ ~HandleAlive(c))
                  ~> [](ChannelAtRest(c) /\ PoolAtRest(c)))
  <2> DEFINE D == Dropped(c)
             R == chan[c] = "running"
             W == chan[c] = "writing"
             X == chan[c] = "exited"
             Z == chan[c] = "reported"
             O == pool[c] = "open"
             B == pool[c] = "busy"
             C == pool[c] = "closed"
             CR == ChannelAtRest(c)
             PR == PoolAtRest(c)
  <2>1. Inv /\ D => (R \/ W \/ X \/ Z) /\ (O \/ B \/ C)
    BY DEF Dropped, Inv, TypeOK, ChannelInv
  <2>2. ((chan[c] # "none" /\ ~HandleAlive(c)) <=> D) /\ (W \/ Z => CR) /\ (B \/ C => PR)
    BY DEF Dropped, ChannelAtRest, PoolAtRest
  <2>3. Inv /\ D /\ [Next]_vars => D'
    BY DroppedStays
  <2>4. ASSUME Inv, D, [Next]_vars
        PROVE  /\ X => X' \/ Z'
               /\ Z => Z'
               /\ C => C'
    BY <2>4, ChannelStages DEF Dropped, ChannelMoves, PoolMoves
  <2>5. Inv => /\ <<ChannelShutdown(c)>>_vars => X'
               /\ X /\ <<ReportDisconnect(c)>>_vars => Z'
               /\ <<~HandleAlive(c) /\ PoolClose(c)>>_vars => C'
    BY DEF ChannelShutdown, ReportDisconnect, PoolClose, Inv, TypeOK
  <2>6. GuardsEnable => /\ D /\ R => ENABLED <<ChannelShutdown(c)>>_vars
                        /\ X => ENABLED <<ReportDisconnect(c)>>_vars
                        /\ D /\ O => ENABLED <<~HandleAlive(c) /\ PoolClose(c)>>_vars
    BY DEF GuardsEnable, Dropped
  <2>7. Fairness => ConnFairness(c)
    BY DEF Fairness
  <2> HIDE DEF D, R, W, X, Z, O, B, C, CR, PR
  \* From each dropped state on: never running and exited again, or at last reported.
  <2>8. FairSpec /\ []GuardsEnable => ((D /\ X) ~> [](D /\ Z))
    BY <2>3, <2>4, <2>5, <2>6, <2>7, ServerInvariant, PTL DEF FairSpec, Spec, ConnFairness
  <2>9. FairSpec /\ []GuardsEnable => [](([]D /\ []<>R) => <>(D /\ X))
    BY <2>5, <2>6, <2>7, ServerInvariant, PTL DEF FairSpec, Spec, ConnFairness
  <2>10. FairSpec /\ []GuardsEnable => (D ~> []CR)
    BY <2>1, <2>2, <2>3, <2>8, <2>9, ServerInvariant, PTL DEF FairSpec, Spec
  <2>11. FairSpec /\ []GuardsEnable => [](([]D /\ []<>O) => <>(D /\ C))
    BY <2>5, <2>6, <2>7, ServerInvariant, PTL DEF FairSpec, Spec, ConnFairness
  <2>12. FairSpec /\ []GuardsEnable => (D ~> []PR)
    BY <2>1, <2>2, <2>3, <2>4, <2>11, ServerInvariant, PTL DEF FairSpec, Spec
  <2>13. FairSpec /\ []GuardsEnable => (D ~> [](CR /\ PR))
    BY <2>10, <2>12, PTL
  <2> QED  BY <2>2, <2>13, PTL DEF CR, PR
<1> QED  BY <1>1 DEF DroppedChannelEnds

\* A status does not name a channel for ever after that channel ended
\* (server_disconnected): its report is due, and a status with an owner names a channel
\* that has not reported.
THEOREM StatusesSettle == FairSpec /\ []GuardsEnable => StatusSettles
<1>1. ASSUME NEW c \in Conns, NEW n \in Names
      PROVE  FairSpec /\ []GuardsEnable =>
               ((chan[c] \in {"exited", "reported"})
                  ~> (runtime[n] = None \/ runtime[n].owner # c))
  <2> DEFINE X == chan[c] = "exited"
             Z == chan[c] = "reported"
             Q == runtime[n] = None \/ runtime[n].owner # c
  <2>1. Inv /\ Z => Q
    BY NoneAssumption DEF Inv, StatusInv, TypeOK
  <2>2. Inv /\ X /\ [Next]_vars => X' \/ Z'
    BY ChannelStages DEF ChannelMoves
  <2>3. Inv /\ X /\ <<ReportDisconnect(c)>>_vars => Z'
    BY DEF ReportDisconnect, Inv, TypeOK
  <2>4. GuardsEnable => (X => ENABLED <<ReportDisconnect(c)>>_vars)
    BY DEF GuardsEnable
  <2>5. Fairness => ConnFairness(c)
    BY DEF Fairness
  <2>6. FairSpec /\ []GuardsEnable => (X ~> Z)
    BY <2>2, <2>3, <2>4, <2>5, ServerInvariant, PTL DEF FairSpec, Spec, ConnFairness
  <2>7. chan[c] \in {"exited", "reported"} <=> X \/ Z
    OBVIOUS
  <2> QED  BY <2>1, <2>6, <2>7, ServerInvariant, PTL DEF FairSpec
<1> QED  BY <1>1 DEF StatusSettles
=============================================================================
