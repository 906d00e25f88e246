--------------------------- MODULE ServerControl ---------------------------
(***************************************************************************)
(* The control plane of the server (src/src/server.rs) with the runtime    *)
(* registry it reports to (src/src/runtime_status.rs): connections that    *)
(* authenticate as a service's control channel, data connections that are  *)
(* routed to a control channel by session key, hot reload of services and  *)
(* shutdown.  An action is what a task does between two awaits.            *)
(*                                                                         *)
(* `control_channels` is the two-key dictionary that MultiMap implements.  *)
(* A service is identified by its name (the code hashes it), and the       *)
(* session key digest(token ++ nonce) by the pair of the token and the     *)
(* connection whose handshake drew the nonce.                              *)
(***************************************************************************)
EXTENDS FiniteSets, Naturals

CONSTANTS Names,      \* service names a peer may ask for
          Tokens,     \* service tokens
          WrongToken, \* what a peer that knows no token authenticates with
          Binds,      \* service bind addresses
          Conns,      \* connections to server.bind_addr, each used once
          QueueCap,   \* capacity of data_ch_tx (CHAN_SIZE * 2 in the code)
          None

ASSUME NoneAssumption ==
  None \notin Conns \cup Names \cup [token : Tokens, bind : Binds]
ASSUME WrongTokenAssumption == WrongToken \notin Tokens
ASSUME QueueCapAssumption == QueueCap \in Nat \ {0}

VARIABLES
  listener,   \* ServerListenerState of the instance
  services,   \* [server.services], None where a name is not configured
  runtime,    \* the status snapshot of each service
  entries,    \* control_channels
  hs,         \* per connection: progress of its handle_connection task
  chan,       \* per connection: the ControlChannel::run task it became
  inbox,      \* per control channel: data connections queued for its pool
  pool,       \* per control channel: the connection pool task
  reload      \* handle_hot_reload, run by the accept loop itself

vars == <<listener, services, runtime, entries, hs, chan, inbox, pool, reload>>

PeerTokens == Tokens \cup {WrongToken}
Cfg == [token : Tokens, bind : Binds]
Key == [token : Tokens, nonce : Conns]

Idle == [pc |-> "idle", svc |-> None, tok |-> None, cfg |-> None, key |-> None,
         to |-> None]

\* The snapshot of a service: `owner` stands for the pair of source address
\* and connected_since that identifies a control channel.
Waiting == [state |-> "waiting", owner |-> None, err |-> FALSE]

\* The session key that both ends derive for a control channel.
SessionKey(c) == [token |-> hs[c].cfg.token, nonce |-> c]

\* Mutant of HoldsReadLock: the guard is released before the send.
ReadLockReleased(c) == FALSE

\* do_data_channel_handshake keeps the read guard of control_channels while
\* it waits for room in the queue of the channel it found.
HoldsReadLock(c) == hs[c].pc = "sending"
WriteLockFree == \A c \in Conns : ~HoldsReadLock(c)

\* The read guard of `services` lives as long as the match on the lookup, the
\* write of ServiceNotExist included; Add keeps its write guard of `services`
\* while it waits for control_channels, Delete does not.
ServicesReadable == ~(reload.pc = "channels" /\ reload.cfg # None)
ServicesWritable == \A c \in Conns : hs[c].pc # "rejecting"

\* The ControlChannelHandle is owned by the handshake task until it is moved
\* into the map.  Dropping it is the shutdown signal of the channel's tasks.
Installed(c) == \E e \in entries : e.v = c
HandleAlive(c) == hs[c].pc = "registered" \/ Installed(c)

InFlight(c) ==
  hs[c].pc \in {"hello", "rejecting", "auth", "acking", "registered", "dataHello", "sending"}

Phase == {"idle", "hello", "rejecting", "auth", "acking", "registered", "done",
          "dataHello", "sending"}
Task == [pc : Phase, svc : Names \cup {None}, tok : PeerTokens \cup {None},
         cfg : Cfg \cup {None}, key : Key \cup {None}, to : Conns \cup {None}]

TypeOK ==
  /\ listener \in {"pending", "listening", "error", "stopped"}
  /\ services \in [Names -> Cfg \cup {None}]
  /\ runtime \in [Names -> [state : {"waiting", "connected"},
                            owner : Conns \cup {None}, err : BOOLEAN] \cup {None}]
  /\ entries \subseteq [k1 : Names, k2 : Key, v : Conns]
  /\ hs \in [Conns -> Task]
  /\ chan \in [Conns -> {"none", "running", "writing", "exited", "reported"}]
  /\ inbox \in [Conns -> SUBSET Conns]
  /\ pool \in [Conns -> {"none", "open", "busy", "closed"}]
  /\ reload \in [pc : {"idle", "services", "channels"}, svc : Names \cup {None},
                 cfg : Cfg \cup {None}]

NoReload == [pc |-> "idle", svc |-> None, cfg |-> None]

\* server_registry() starts every configured service as waiting.
Init ==
  /\ listener = "pending"
  /\ services \in [Names -> Cfg \cup {None}]
  /\ runtime = [n \in Names |-> IF services[n] = None THEN None ELSE Waiting]
  /\ entries = {}
  /\ hs = [c \in Conns |-> Idle]
  /\ chan = [c \in Conns |-> "none"]
  /\ inbox = [c \in Conns |-> {}]
  /\ pool = [c \in Conns |-> "none"]
  /\ reload = NoReload

-----------------------------------------------------------------------------
(* Server::run: bind, accept, shut down.                                   *)

Bind ==
  /\ listener = "pending"
  /\ listener' \in {"listening", "error"}
  /\ UNCHANGED <<services, runtime, entries, hs, chan, inbox, pool, reload>>

\* The accept loop only accepts while it is not applying a reload; a new task
\* then reads a hello and answers a control hello with a fresh nonce.  `t` is
\* the token the peer will authenticate with.
AcceptControl(c, n, t) ==
  /\ listener = "listening" /\ reload.pc = "idle"
  /\ hs[c].pc = "idle"
  /\ hs' = [hs EXCEPT ![c] = [Idle EXCEPT !.pc = "hello", !.svc = n, !.tok = t]]
  /\ UNCHANGED <<listener, services, runtime, entries, chan, inbox, pool, reload>>

AcceptData(c, k) ==
  /\ listener = "listening" /\ reload.pc = "idle"
  /\ hs[c].pc = "idle"
  /\ hs' = [hs EXCEPT ![c] = [Idle EXCEPT !.pc = "dataHello", !.key = k]]
  /\ UNCHANGED <<listener, services, runtime, entries, chan, inbox, pool, reload>>

Shutdown ==
  /\ listener = "listening" /\ reload.pc = "idle"
  /\ listener' = "stopped"
  /\ UNCHANGED <<services, runtime, entries, hs, chan, inbox, pool, reload>>

\* Mutant of DropControlChannels: dropping the map leaks the handles in it.
DropLeaksHandles ==
  /\ listener = "stopped"
  /\ \A c \in Conns : ~InFlight(c)
  /\ UNCHANGED vars

\* The map is shared with the handshake tasks: it is dropped, with every
\* handle in it, when the server and the last of those tasks let go of it.
DropControlChannels ==
  /\ listener = "stopped"
  /\ \A c \in Conns : ~InFlight(c)
  /\ entries # {}
  /\ entries' = {}
  /\ UNCHANGED <<listener, services, runtime, hs, chan, inbox, pool, reload>>

-----------------------------------------------------------------------------
(* handle_connection, control side: do_control_channel_handshake.          *)

Done(c) == hs' = [hs EXCEPT ![c].pc = "done"]

Lookup(c) ==
  /\ hs[c].pc = "hello" /\ ServicesReadable
  /\ LET found == services[hs[c].svc] IN
       hs' = [hs EXCEPT ![c].pc = IF found = None THEN "rejecting" ELSE "auth",
                        ![c].cfg = found]
  /\ UNCHANGED <<listener, services, runtime, entries, chan, inbox, pool, reload>>

\* Ack::ServiceNotExist has been written.
Rejected(c) ==
  /\ hs[c].pc = "rejecting"
  /\ Done(c)
  /\ UNCHANGED <<listener, services, runtime, entries, chan, inbox, pool, reload>>

\* Mutant of ReadAuth: the digests are not compared.
ReadAuthUnchecked(c) ==
  /\ hs[c].pc = "auth"
  /\ hs' = [hs EXCEPT ![c].pc = "acking"]
  /\ UNCHANGED <<listener, services, runtime, entries, chan, inbox, pool, reload>>

\* The digest the peer sends matches iff it was made with the same token.
ReadAuth(c) ==
  /\ hs[c].pc = "auth"
  /\ hs' = [hs EXCEPT ![c].pc = IF hs[c].tok = hs[c].cfg.token THEN "acking" ELSE "done"]
  /\ UNCHANGED <<listener, services, runtime, entries, chan, inbox, pool, reload>>

\* After the ack is flushed: server_connected(), which fails for a service
\* that was removed meanwhile, and ControlChannelHandle::new(), which spawns
\* the control channel and its connection pool.
Register(c) ==
  LET n == hs[c].svc IN
  /\ hs[c].pc = "acking"
  /\ IF runtime[n] = None
     THEN Done(c) /\ UNCHANGED <<runtime, chan, pool>>
     ELSE /\ runtime' = [runtime EXCEPT
                ![n] = [state |-> "connected", owner |-> c, err |-> FALSE]]
          /\ hs' = [hs EXCEPT ![c].pc = "registered"]
          /\ chan' = [chan EXCEPT ![c] = "running"]
          /\ pool' = [pool EXCEPT ![c] = "open"]
  /\ UNCHANGED <<listener, services, entries, inbox, reload>>

\* Mutant of Install: the previous channel of the service is not removed.
InstallKeepsPrevious(c) ==
  /\ hs[c].pc = "registered" /\ WriteLockFree
  /\ entries' = entries \cup {[k1 |-> hs[c].svc, k2 |-> SessionKey(c), v |-> c]}
  /\ Done(c)
  /\ UNCHANGED <<listener, services, runtime, chan, inbox, pool, reload>>

\* The new channel supersedes the one of the same service, whose handle is
\* dropped with its entry.
Install(c) ==
  /\ hs[c].pc = "registered" /\ WriteLockFree
  /\ entries' = {e \in entries : e.k1 # hs[c].svc}
                   \cup {[k1 |-> hs[c].svc, k2 |-> SessionKey(c), v |-> c]}
  /\ Done(c)
  /\ UNCHANGED <<listener, services, runtime, chan, inbox, pool, reload>>

\* HELLO_AUTH_TIMEOUT cancels the task at whichever await it is in, an I/O
\* error ends it: what it owns (the connection, a handle not yet in the map,
\* a read guard) is dropped.
AbortHandshake(c) ==
  /\ InFlight(c)
  /\ Done(c)
  /\ UNCHANGED <<listener, services, runtime, entries, chan, inbox, pool, reload>>

-----------------------------------------------------------------------------
(* handle_connection, data side: do_data_channel_handshake.                *)

\* Mutant of RouteData: the connection goes to any channel of the map.
RouteDataAnywhere(c) ==
  /\ hs[c].pc = "dataHello"
  /\ \/ \E e \in entries : hs' = [hs EXCEPT ![c].pc = "sending", ![c].to = e.v]
     \/ entries = {} /\ Done(c)
  /\ UNCHANGED <<listener, services, runtime, entries, chan, inbox, pool, reload>>

RouteData(c) ==
  LET hit == {e \in entries : e.k2 = hs[c].key} IN
  /\ hs[c].pc = "dataHello"
  /\ \/ \E e \in hit : hs' = [hs EXCEPT ![c].pc = "sending", ![c].to = e.v]
     \/ hit = {} /\ Done(c)
  /\ UNCHANGED <<listener, services, runtime, entries, chan, inbox, pool, reload>>

\* The send waits while the queue is full and fails once the pool is gone.
SendData(c) ==
  LET to == hs[c].to IN
  /\ hs[c].pc = "sending"
  /\ \/ /\ pool[to] \in {"open", "busy"} /\ Cardinality(inbox[to]) < QueueCap
        /\ inbox' = [inbox EXCEPT ![to] = @ \cup {c}]
     \/ pool[to] = "closed" /\ UNCHANGED inbox
  /\ Done(c)
  /\ UNCHANGED <<listener, services, runtime, entries, chan, pool, reload>>

-----------------------------------------------------------------------------
(* The tasks behind a ControlChannelHandle.  They watch the shutdown       *)
(* signal in a select!, and not while they are in the I/O of one of its    *)
(* branches: a peer that does not read, or stops in the middle of a        *)
(* packet, can keep them there.                                            *)

\* A request for a data channel or a heartbeat is being written ...
ChannelWrite(c) ==
  /\ chan[c] = "running"
  /\ chan' = [chan EXCEPT ![c] = "writing"]
  /\ UNCHANGED <<listener, services, runtime, entries, hs, inbox, pool, reload>>

\* ... and has been written.
ChannelWritten(c) ==
  /\ chan[c] = "writing"
  /\ chan' = [chan EXCEPT ![c] = "running"]
  /\ UNCHANGED <<listener, services, runtime, entries, hs, inbox, pool, reload>>

\* The run loop ends because its handle was dropped ...
ChannelShutdown(c) ==
  /\ chan[c] = "running" /\ ~HandleAlive(c)
  /\ chan' = [chan EXCEPT ![c] = "exited"]
  /\ UNCHANGED <<listener, services, runtime, entries, hs, inbox, pool, reload>>

\* ... or because a write failed or the data channel deadline fired.  The
\* handle stays in the map.
ChannelFail(c) ==
  /\ chan[c] \in {"running", "writing"}
  /\ chan' = [chan EXCEPT ![c] = "exited"]
  /\ UNCHANGED <<listener, services, runtime, entries, hs, inbox, pool, reload>>

\* Mutant of ReportDisconnect: a task that is shut down does not report.
ReportDisconnectSkipped(c) ==
  /\ chan[c] = "exited"
  /\ chan' = [chan EXCEPT ![c] = "reported"]
  /\ UNCHANGED <<listener, services, runtime, entries, hs, inbox, pool, reload>>

\* server_disconnected() leaves a snapshot that another channel owns alone.
ReportDisconnect(c) ==
  LET n == hs[c].svc IN
  /\ chan[c] = "exited"
  /\ chan' = [chan EXCEPT ![c] = "reported"]
  /\ runtime' = IF runtime[n] # None /\ runtime[n].owner = c
                THEN [runtime EXCEPT ![n] = [Waiting EXCEPT !.err = TRUE]]
                ELSE runtime
  /\ UNCHANGED <<listener, services, entries, hs, inbox, pool, reload>>

\* The pool does I/O on a data channel, which it may take from its queue for
\* that: the start command, a packet of a visitor, the rest of a packet of
\* the client.
PoolUse(c) ==
  /\ pool[c] = "open"
  /\ pool' = [pool EXCEPT ![c] = "busy"]
  /\ \/ \E d \in inbox[c] : inbox' = [inbox EXCEPT ![c] = @ \ {d}]
     \/ UNCHANGED inbox
  /\ UNCHANGED <<listener, services, runtime, entries, hs, chan, reload>>

\* The I/O is done or has failed.
PoolUsed(c) ==
  /\ pool[c] = "busy"
  /\ pool' = [pool EXCEPT ![c] = "open"]
  /\ UNCHANGED <<listener, services, runtime, entries, hs, chan, inbox, reload>>

ChannelEnded(c) == chan[c] \in {"exited", "reported"}

\* Mutant of PoolClose: the pool wants its queue drained first.
PoolCloseDrained(c) ==
  /\ pool[c] = "open" /\ inbox[c] = {}
  /\ ~HandleAlive(c) \/ ChannelEnded(c)
  /\ pool' = [pool EXCEPT ![c] = "closed"]
  /\ UNCHANGED <<listener, services, runtime, entries, hs, chan, inbox, reload>>

\* The pool task ends: it is told to by the dropped handle, or it finds the
\* request queue of an ended control channel closed.
PoolClose(c) ==
  /\ pool[c] = "open"
  /\ ~HandleAlive(c) \/ ChannelEnded(c)
  /\ pool' = [pool EXCEPT ![c] = "closed"]
  /\ inbox' = [inbox EXCEPT ![c] = {}]
  /\ UNCHANGED <<listener, services, runtime, entries, hs, chan, reload>>

-----------------------------------------------------------------------------
(* Server::handle_hot_reload.                                              *)

\* Any difference in a service makes it an added one, its type or nodelay too:
\* the token and the address may be the ones it had.
ReloadAdd(n, cfg) ==
  /\ listener = "listening" /\ reload.pc = "idle"
  /\ runtime' = [runtime EXCEPT ![n] = Waiting]
  /\ reload' = [pc |-> "services", svc |-> n, cfg |-> cfg]
  /\ UNCHANGED <<listener, services, entries, hs, chan, inbox, pool>>

ReloadDelete(n) ==
  /\ listener = "listening" /\ reload.pc = "idle"
  /\ services[n] # None
  /\ runtime' = [runtime EXCEPT ![n] = None]
  /\ reload' = [pc |-> "services", svc |-> n, cfg |-> None]
  /\ UNCHANGED <<listener, services, entries, hs, chan, inbox, pool>>

ReloadServices ==
  /\ reload.pc = "services" /\ ServicesWritable
  /\ services' = [services EXCEPT ![reload.svc] = reload.cfg]
  /\ reload' = [reload EXCEPT !.pc = "channels"]
  /\ UNCHANGED <<listener, runtime, entries, hs, chan, inbox, pool>>

\* Mutant of ReloadChannels: the channel of the old configuration stays.
ReloadKeepsChannel ==
  /\ reload.pc = "channels" /\ WriteLockFree
  /\ reload' = NoReload
  /\ UNCHANGED <<listener, services, runtime, entries, hs, chan, inbox, pool>>

ReloadChannels ==
  /\ reload.pc = "channels" /\ WriteLockFree
  /\ entries' = {e \in entries : e.k1 # reload.svc}
  /\ reload' = NoReload
  /\ UNCHANGED <<listener, services, runtime, hs, chan, inbox, pool>>

-----------------------------------------------------------------------------
Accept ==
  \E c \in Conns :
    \/ \E n \in Names, t \in PeerTokens : AcceptControl(c, n, t)
    \/ \E k \in Key : AcceptData(c, k)

Handshake(c) ==
  \/ Lookup(c) \/ Rejected(c) \/ ReadAuth(c) \/ Register(c) \/ Install(c)
  \/ RouteData(c) \/ SendData(c) \/ AbortHandshake(c)

Channel(c) ==
  \/ ChannelWrite(c) \/ ChannelWritten(c)
  \/ ChannelShutdown(c) \/ ChannelFail(c) \/ ReportDisconnect(c)
  \/ PoolUse(c) \/ PoolUsed(c) \/ PoolClose(c)

Reload ==
  \/ \E n \in Names : ReloadDelete(n) \/ \E cfg \in Cfg : ReloadAdd(n, cfg)
  \/ ReloadServices \/ ReloadChannels

Next ==
  \/ Bind \/ Accept \/ Shutdown \/ DropControlChannels
  \/ \E c \in Conns : Handshake(c) \/ Channel(c)
  \/ Reload

Spec == Init /\ [][Next]_vars

\* Tokio runs every ready task and the handshake deadline is a timer, so a
\* task in a handshake leaves it and the accept loop finishes the reload it is
\* in.  A task whose handle is gone finds the shutdown branch of its select!
\* ready every time it comes back to it, and select! favours no branch: if it
\* comes back for ever, it takes that branch once.  Nothing is assumed of
\* peers (an I/O that has begun may last for ever), of the operator or of a
\* channel that still has its handle.
ConnFairness(c) ==
  /\ WF_vars(AbortHandshake(c))
  /\ SF_vars(ChannelShutdown(c)) /\ WF_vars(ReportDisconnect(c))
  /\ SF_vars(~HandleAlive(c) /\ PoolClose(c))

ServerFairness ==
  WF_vars(ReloadServices) /\ WF_vars(ReloadChannels) /\ WF_vars(DropControlChannels)

Fairness == ServerFairness /\ \A c \in Conns : ConnFairness(c)

FairSpec == Spec /\ Fairness

-----------------------------------------------------------------------------
(* Properties.                                                             *)

\* A service has at most one control channel, a session key leads to at most
\* one, and a channel is filed once: however handshakes, reloads and drops
\* interleave, the insert after remove1 is never refused by the map.
UniqueChannel ==
  \A e, f \in entries : e.k1 = f.k1 \/ e.k2 = f.k2 \/ e.v = f.v => e = f

\* Every installed channel belongs to a connection that finished its own
\* handshake: it is filed under the service it asked for and under the key of
\* its own nonce and of a token the peer really had.
AuthenticatedEntries ==
  \A e \in entries :
    /\ hs[e.v].pc = "done" /\ hs[e.v].svc = e.k1
    /\ e.k2 = [token |-> hs[e.v].tok, nonce |-> e.v]
    /\ chan[e.v] # "none" /\ pool[e.v] # "none"

\* A service shown as connected has a control channel task that has yet to
\* report its end, so the status cannot stay `connected` without a task that
\* will clear it.
ConnectedHasTask ==
  \A n \in Names :
    runtime[n] # None /\ runtime[n].state = "connected" =>
      \E c \in Conns :
        /\ runtime[n].owner = c /\ hs[c].svc = n
        /\ chan[c] \in {"running", "writing", "exited"}

\* A data connection only ever waits in the queue of the control channel
\* whose session key it presented.
DataRoutedByKey ==
  \A c \in Conns : \A d \in inbox[c] : hs[d].key = SessionKey(c)

\* A data connection is handed to a channel only while that channel is the one
\* installed: it can be superseded or removed before the lookup or after the
\* send, but not in between, however long the send waits for room.
DeliveryOnlyToInstalled ==
  [][\A c \in Conns : inbox'[c] \subseteq inbox[c] \/ Installed(c)]_vars

\* The task of a control channel is past its end or in a write to the peer.  No
\* step leads from one to the other: to be here for ever is to have ended, or
\* to be in one write that never ends.
ChannelAtRest(c) == chan[c] \in {"reported", "writing"}

\* The same of the pool: closed, or in one I/O on a data channel, as the UDP
\* pool is for ever in the run of UdpForwardStuck.
PoolAtRest(c) == pool[c] \in {"closed", "busy"}

\* A control channel that lost its handle (superseded, reloaded, aborted or
\* shut down) reports its end and stops listening for visitors.  The one thing
\* that prevents it is a single write or read that never ends: no traffic,
\* however long it goes on, keeps the task from hearing of the shutdown.
DroppedChannelEnds ==
  \A c \in Conns :
    (chan[c] # "none" /\ ~HandleAlive(c)) ~> [](ChannelAtRest(c) /\ PoolAtRest(c))

\* The status never names a channel for ever after that channel ended.
StatusSettles ==
  \A c \in Conns, n \in Names :
    (chan[c] \in {"exited", "reported"}) ~> (runtime[n] = None \/ runtime[n].owner # c)

\* The channel that serves a service when its configuration is replaced or
\* deleted ends, even if data connections hold the map's lock at the time,
\* unless it is stuck in a write to its peer.
ReloadEvicts ==
  \A c \in Conns, n \in Names :
    (reload.svc = n /\ \E e \in entries : e.k1 = n /\ e.v = c) ~> []ChannelAtRest(c)

\* After the shutdown signal every channel and every pool ends, those of
\* handshakes that were in flight included, unless they are stuck in one I/O.
ShutdownDrains ==
  (listener = "stopped") ~>
    [](\A c \in Conns : chan[c] # "none" => ChannelAtRest(c) /\ PoolAtRest(c))

-----------------------------------------------------------------------------
(* What the repository says and the code does not do.                      *)

\* "An older superseded task must never turn a replacement control channel
\* into `waiting`": a task's report never changes the status of a service
\* whose installed channel is another one and is running.
SupersededNeverClears ==
  [][\A c \in Conns, n \in Names :
       (chan[c] = "exited" /\ chan'[c] = "reported" /\ runtime'[n] # runtime[n]) =>
         ~\E e \in entries : e.k1 = n /\ e.v # c /\ ~ChannelEnded(e.v)]_vars

\* "Services can be added or removed dynamically by hot-reloading": outside a
\* reload no control channel serves a service that is not configured.
RemovedServiceHasNoChannel ==
  reload.pc = "idle" => \A e \in entries : services[e.k1] # None

-----------------------------------------------------------------------------
(* The inductive invariant of ServerControlProofs.                         *)

\* What a task in each phase of the handshake has established.
HandshakeInv ==
  \A c \in Conns :
    /\ hs[c].pc \in {"hello", "rejecting", "auth", "acking", "registered"} =>
         hs[c].svc \in Names /\ hs[c].tok \in PeerTokens
    /\ hs[c].pc \in {"auth", "acking", "registered"} => hs[c].cfg \in Cfg
    /\ hs[c].pc \in {"acking", "registered"} => hs[c].cfg.token = hs[c].tok
    /\ hs[c].pc \in {"dataHello", "sending"} => hs[c].key \in Key
    /\ hs[c].pc = "registered" => chan[c] # "none"
    /\ hs[c].pc \notin {"registered", "done"} => chan[c] = "none"

\* What is known of a connection that became a control channel.
ChannelInv ==
  \A c \in Conns :
    /\ chan[c] = "none" <=> pool[c] = "none"
    /\ chan[c] # "none" =>
         /\ hs[c].svc \in Names /\ hs[c].tok \in Tokens /\ hs[c].cfg \in Cfg
         /\ hs[c].cfg.token = hs[c].tok

EntriesInv ==
  /\ \A e \in entries :
       /\ hs[e.v].pc = "done" /\ chan[e.v] # "none"
       /\ e.k1 = hs[e.v].svc /\ e.k2 = SessionKey(e.v)
  /\ \A e, f \in entries : e.k1 = f.k1 => e = f

\* The read lock keeps the entry a data connection was routed to.
RoutingInv ==
  /\ \A d \in Conns : hs[d].pc = "sending" =>
       \E e \in entries : e.v = hs[d].to /\ e.k2 = hs[d].key
  /\ \A c \in Conns : \A d \in inbox[c] :
       /\ chan[c] # "none" /\ hs[d].pc = "done" /\ hs[d].key = SessionKey(c)

StatusInv ==
  \A n \in Names : runtime[n] # None =>
    /\ runtime[n].state = "connected" <=> runtime[n].owner # None
    /\ runtime[n].owner # None =>
         /\ hs[runtime[n].owner].svc = n
         /\ chan[runtime[n].owner] \in {"running", "writing", "exited"}

ReloadInv == reload.pc # "idle" => reload.svc \in Names

Inv ==
  TypeOK /\ HandshakeInv /\ ChannelInv /\ EntriesInv /\ RoutingInv /\ StatusInv /\ ReloadInv
=============================================================================
