--------------------------- MODULE ConfigCommands ---------------------------
(***************************************************************************)
(* The commands of src/src/config_edit.rs as functions of the document     *)
(* they have read.  A command is a record; its edit is the new document,   *)
(* or Refused.  Reading, validating and saving are in ConfigEdit.          *)
(***************************************************************************)
EXTENDS ConfigRules

CONSTANTS DefaultBind,  \* DEFAULT_SERVER_BIND_ADDR
          DefaultRemote,  \* the placeholder in DEFAULT_CLIENT_CONFIG
          Refused

ASSUME CommandsAssumption ==
  /\ DefaultBind \in Addrs /\ DefaultRemote \in Addrs
  /\ Refused \notin Document /\ Refused # None

\* The entry of a service on the command line or in a prompt: its address has
\* been checked, and a token that was not given has been generated.
Entry == [type : {"tcp", "udp"}, addr : Addrs \cup {PortZero}, token : Tokens \cup {Empty},
          retry : {None}]

\* `flags` is the side whose own flags were given (an address or a noise flag is
\* of one side), `type` an explicit --transport, `sub` the subtable the other
\* transport flags belong to.
SetArgs == [op : {"set"}, side : Roles \cup {None}, flags : Roles \cup {None},
            addr : Addrs \cup {PortZero, None}, token : AnyToken, retry : Retries,
            type : Types \cup {None},
            sub : {None, "noise", "root", "pkcs12", "websocket", "proxy", "badproxy"}]

ImportArgs == [op : {"import"}, source : Document]

\* `side` is what the address flags say, `answer` what the user would answer
\* to the prompt, None when nobody can be prompted.
AddArgs == [op : {"add"}, side : Roles \cup {None}, answer : Roles \cup {None},
            name : Names, entry : Entry, noise : BOOLEAN]

\* Batch and interactive mode add several services at once.
Pending    == [side : Roles, name : Names, entry : Entry]
BatchArgs  == [op : {"batch", "interactive"}, pending : (SUBSET Pending) \ {{}}]
RemoveArgs == [op : {"remove"}, name : Names]
InstallArgs == [op : {"install"}, role : Roles]

Command == SetArgs \cup ImportArgs \cup AddArgs \cup BatchArgs \cup RemoveArgs \cup InstallArgs

-----------------------------------------------------------------------------
(* Roles.                                                                  *)

Sections(doc) == {r \in Roles : doc[r] # None}

\* detect_role: the role of a document with exactly one section.
DetectRole(doc) ==
  IF \E r \in Roles : Sections(doc) = {r}
  THEN CHOOSE r \in Roles : Sections(doc) = {r} ELSE None

EnsureRoleAllows(doc, side) == Sections(doc) \subseteq {side}

EnsureClientRemoteSet(doc) == doc["client"] # None /\ doc["client"].addr # None

ServiceAt(doc, r, n) == IF doc[r] = None THEN None ELSE doc[r].services[n]

NewSection(addr) ==
  [addr |-> addr, default_token |-> None, retry |-> None, transport |-> None,
   services |-> NoServices]

\* What `service install` writes for a role.
Skeleton(role) ==
  [EmptyDocument EXCEPT ![role] =
     NewSection(IF role = "server" THEN DefaultBind ELSE DefaultRemote)]

-----------------------------------------------------------------------------
(* config set.                                                             *)

Given(new, old) == IF new # None THEN new ELSE old

NoTransport == [type |-> None, tls |-> None, noise |-> FALSE, proxy |-> None]
Table(t)    == IF t = None THEN NoTransport ELSE t

ImpliedType(sub) ==
  CASE sub = "noise" -> "noise"
    [] sub \in {"root", "pkcs12"} -> "tls"
    [] sub = "websocket" -> "websocket"
    [] OTHER -> None

\* --pkcs12 stands for both of the keys a server needs, "root" for the flags
\* of a client.  An existing type is kept, and a new table defaults to tcp.
SetTransport(t, a) ==
  IF a.type = None /\ a.sub = None THEN t
  ELSE [Table(t) EXCEPT
          !.type  = Given(a.type, Given(ImpliedType(a.sub), Given(@, "tcp"))),
          !.noise = @ \/ a.sub = "noise",
          !.tls   = CASE a.sub = "pkcs12" -> {"pkcs12", "password"}
                      [] a.sub = "root" /\ @ = None -> {}
                      [] OTHER -> @,
          !.proxy = CASE a.sub = "proxy" -> "good" [] a.sub = "badproxy" -> "bad" [] OTHER -> @]

SetFields(sec, a) ==
  [sec EXCEPT !.addr = Given(a.addr, @), !.default_token = Given(a.token, @),
              !.retry = Given(a.retry, @), !.transport = SetTransport(@, a)]

\* The flags fit the side and there is at least one.
SetArgsFit(a, side) ==
  /\ a.flags \in {None, side}
  /\ a.sub = "pkcs12" => side = "server"
  /\ a.sub = "root" \/ a.retry # None => side = "client"
  /\ a.addr # None \/ a.token # None \/ a.retry # None \/ a.type # None \/ a.sub # None

\* A section that does not exist yet is created, which takes its address.
RunSet(a, side, doc) ==
  IF EnsureRoleAllows(doc, side) /\ (doc[side] # None \/ a.addr # None)
  THEN [doc EXCEPT ![side] = SetFields(IF @ = None THEN NewSection(a.addr) ELSE @, a)]
  ELSE Refused

-----------------------------------------------------------------------------
(* config import.                                                          *)

\* Whitelisted fields overwrite, values that make no sense are ignored.
ImportGlobals(sec, src) ==
  [sec EXCEPT !.addr = Given(src.addr, @),
              !.default_token = IF src.default_token \in Tokens THEN src.default_token ELSE @,
              !.retry = IF src.retry \in {None, 0} THEN @ ELSE src.retry]

\* The transport is merged key by key; it is given no type of its own.
MergeTransport(t, new) ==
  [t EXCEPT !.type  = Given(new.type, @),
            !.tls   = IF new.tls = None THEN @ ELSE (IF @ = None THEN {} ELSE @) \cup new.tls,
            !.noise = @ \/ new.noise,
            !.proxy = Given(new.proxy, @)]

ImportTransport(sec, src) ==
  IF src.transport = None THEN sec
  ELSE [sec EXCEPT !.transport = MergeTransport(Table(@), src.transport)]

\* An entry that is fit to be copied; `sec` already has the imported fields.
Importable(sec, n, s) ==
  /\ n \notin OddNames
  /\ s # None /\ s.type # "other" /\ s.addr # None
  /\ s.token \in Tokens \/ (s.token = None /\ sec.default_token \in Tokens)

\* Mutant of ImportServices: an imported entry replaces the one of its name.
ImportServicesOverwrites(sec, src) ==
  [sec EXCEPT !.services =
     [n \in Names |-> IF Importable(sec, n, src.services[n]) THEN src.services[n] ELSE @[n]]]

ImportServices(sec, src) ==
  [sec EXCEPT !.services =
     [n \in Names |->
        IF @[n] = None /\ Importable(sec, n, src.services[n]) THEN src.services[n] ELSE @[n]]]

ImportSection(sec, src) == ImportServices(ImportTransport(ImportGlobals(sec, src), src), src)

\* Mutant of RunImport: the role of the file is not looked at.
ImportAnyRole(a, doc) ==
  LET role == DetectRole(a.source) IN
  IF role # None /\ (doc[role] # None \/ a.source[role].addr # None)
  THEN [doc EXCEPT ![role] = ImportSection(IF @ = None THEN NewSection(None) ELSE @, a.source[role])]
  ELSE Refused

RunImport(a, doc) ==
  LET role == DetectRole(a.source) IN
  IF /\ role # None
     /\ EnsureRoleAllows(doc, role)
     /\ doc[role] # None \/ a.source[role].addr # None
  THEN [doc EXCEPT ![role] = ImportSection(IF @ = None THEN NewSection(None) ELSE @, a.source[role])]
  ELSE Refused

-----------------------------------------------------------------------------
(* config add.                                                             *)

\* apply_noise_transport: another transport is left alone.
NoiseAllowed(t) == Given(Table(t).type, "tcp") \in {"tcp", "noise"}
ApplyNoise(t)   == [Table(t) EXCEPT !.type = "noise", !.noise = TRUE]

\* A server section is created with the default address, a client section is not.
WithServer(doc, wanted) ==
  IF wanted /\ doc["server"] = None
  THEN [doc EXCEPT !["server"] = NewSection(DefaultBind)] ELSE doc

RunAddSingle(a, side, doc) ==
  LET d == WithServer(doc, side = "server") IN
  IF /\ EnsureRoleAllows(doc, side)
     /\ ServiceAt(doc, side, a.name) = None
     /\ d[side] # None
     /\ a.noise => NoiseAllowed(d[side].transport)
  THEN [d EXCEPT ![side].transport = IF a.noise THEN ApplyNoise(@) ELSE @,
                 ![side].services[a.name] = a.entry]
  ELSE Refused

\* insert_pending for every service of the session.
InsertAll(doc, pending) ==
  [r \in Roles |->
     IF \E q \in pending : q.side = r
     THEN [doc[r] EXCEPT !.services =
             [n \in Names |->
                IF \E q \in pending : q.side = r /\ q.name = n
                THEN (CHOOSE q \in pending : q.side = r /\ q.name = n).entry ELSE @[n]]]
     ELSE doc[r]]

\* A batch: the roles were checked against an earlier reading of the file.
RunAddBatch(a, doc) ==
  LET d == WithServer(doc, \E q \in a.pending : q.side = "server") IN
  IF \A q \in a.pending : ServiceAt(d, q.side, q.name) = None /\ d[q.side] # None
  THEN InsertAll(d, a.pending) ELSE Refused

\* Interactive mode reads the file once: a document with a section pins the
\* side, one with both is refused, and a client service needs an address.  A name
\* that exists is asked for again.
RunAddInteractive(a, doc) ==
  IF /\ \A q \in a.pending :
          /\ EnsureRoleAllows(doc, q.side)
          /\ q.side = "client" => EnsureClientRemoteSet(doc)
  THEN RunAddBatch(a, doc) ELSE Refused

-----------------------------------------------------------------------------
(* config remove.                                                          *)

\* The client side is searched first.
RunRemove(a, doc) ==
  LET holds == {r \in Roles : ServiceAt(doc, r, a.name) # None}
      from == IF "client" \in holds THEN "client" ELSE "server" IN
  IF holds = {} THEN Refused ELSE [doc EXCEPT ![from].services[a.name] = None]

-----------------------------------------------------------------------------
\* The edit of a command whose side was resolved before.
Edit(c, side, doc) ==
  CASE c.op = "set" -> RunSet(c, side, doc)
    [] c.op = "import" -> RunImport(c, doc)
    [] c.op = "add" -> RunAddSingle(c, side, doc)
    [] c.op = "batch" -> RunAddBatch(c, doc)
    [] c.op = "interactive" -> RunAddInteractive(c, doc)
    [] c.op = "remove" -> RunRemove(c, doc)
=============================================================================
