----------------------------- MODULE ConfigRules -----------------------------
(***************************************************************************)
(* What a configuration document may say: the schema and the checks of     *)
(* src/src/config.rs, over documents in which a value is only as detailed  *)
(* as the checks that read it.  None is an absent key or table.            *)
(***************************************************************************)
EXTENDS Naturals

CONSTANTS Names,     \* service names
          OddNames,  \* those with a character other than letters, digits, '-', '_'
          Addrs,     \* host:port with a port other than 0
          PortZero,  \* host:0
          Tokens,    \* non-empty tokens
          Empty,     \* the empty string as a token
          None

ASSUME RulesAssumption ==
  /\ OddNames \subseteq Names
  /\ None \notin Addrs \cup Tokens \cup {PortZero, Empty, 0, 1}
  /\ Empty \notin Tokens /\ PortZero \notin Addrs

Roles == {"server", "client"}
Types == {"tcp", "tls", "noise", "websocket"}

AnyToken == Tokens \cup {Empty, None}
Retries  == {None, 0, 1}

\* "other" is a type that is not known.
Service == [type : {"tcp", "udp", "other", None}, addr : Addrs \cup {PortZero, None},
            token : AnyToken, retry : Retries]

\* `tls` holds the keys of the tls table that are set, `noise` says whether the
\* noise table is there, `proxy` whether its URL has a scheme, host and port.
Transport == [type : Types \cup {None}, tls : {None} \cup SUBSET {"pkcs12", "password"},
              noise : BOOLEAN, proxy : {None, "good", "bad"}]

Section == [addr : Addrs \cup {PortZero, None}, default_token : AnyToken, retry : Retries,
            transport : Transport \cup {None}, services : [Names -> Service \cup {None}]]

Document == [Roles -> Section \cup {None}]

\* What is absent is not a table.
ASSUME TablesAssumption == None \notin Section /\ None \notin Service /\ None \notin Transport

EmptyDocument == [r \in Roles |-> None]
NoServices    == [n \in Names |-> None]

-----------------------------------------------------------------------------
\* serde: the address of a section and of a service, and the type of a
\* transport table, have no default; the type of a service has.
Parses(sec) ==
  /\ sec.addr # None
  /\ sec.transport # None => sec.transport.type # None
  /\ \A n \in Names : sec.services[n] # None =>
       sec.services[n].addr # None /\ sec.services[n].type # "other"

ServiceType(s) == IF s.type = None THEN "tcp" ELSE s.type

EffectiveToken(sec, n) ==
  IF sec.services[n].token = None THEN sec.default_token ELSE sec.services[n].token

\* Mutant of EffectiveRetry: an absent interval is not filled in.
RetryNotInherited(sec, n) == sec.services[n].retry

EffectiveRetry(sec, n) ==
  CASE sec.services[n].retry # None -> sec.services[n].retry
    [] sec.services[n].retry = None /\ sec.retry # None -> sec.retry
    [] OTHER -> 1

ValidateTokens(sec) ==
  /\ sec.default_token # Empty
  /\ \A n \in Names : sec.services[n] # None => EffectiveToken(sec, n) \in Tokens

\* One (address, type) pair is published by at most one service.
BindAddrsDistinct(sec) ==
  \A m, n \in Names :
    m # n /\ sec.services[m] # None /\ sec.services[n] # None =>
      \/ sec.services[m].addr # sec.services[n].addr
      \/ ServiceType(sec.services[m]) # ServiceType(sec.services[n])

ValidateTransport(t, isServer) ==
  /\ t.proxy # "bad"
  /\ t.type = "tls" => t.tls # None /\ (isServer => t.tls = {"pkcs12", "password"})
  /\ t.type = "noise" => t.noise

ValidateServer(sec) ==
  /\ sec.addr # PortZero
  /\ ValidateTokens(sec)
  /\ BindAddrsDistinct(sec)
  /\ sec.transport # None => ValidateTransport(sec.transport, TRUE)

ValidateClient(sec) ==
  /\ sec.retry # 0
  /\ ValidateTokens(sec)
  /\ \A n \in Names : sec.services[n] # None => sec.services[n].retry # 0
  /\ sec.transport # None => ValidateTransport(sec.transport, FALSE)

\* Config::validate: a document with both sections is accepted.
Validate(doc) ==
  /\ doc # EmptyDocument
  /\ \A r \in Roles : doc[r] # None => Parses(doc[r])
  /\ doc["server"] # None => ValidateServer(doc["server"])
  /\ doc["client"] # None => ValidateClient(doc["client"])

\* The configuration from_str returns: what a service does not say itself it
\* takes from its section, or has a default.
Effective(doc) ==
  [r \in Roles |->
     IF doc[r] = None THEN None
     ELSE [doc[r] EXCEPT !.services =
             [n \in Names |->
                IF doc[r].services[n] = None THEN None
                ELSE [doc[r].services[n] EXCEPT
                        !.type = ServiceType(doc[r].services[n]), !.token = EffectiveToken(doc[r], n),
                        !.retry = IF r = "client" THEN EffectiveRetry(doc[r], n) ELSE @]]]]
=============================================================================
