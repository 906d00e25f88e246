---------------------------- MODULE MCConfigEdit ----------------------------
(* ConfigEdit for TLC: files and commands that reach every check of the     *)
(* loader and of the editor with few values.                                *)
EXTENDS ConfigEdit, TLC

CONSTANTS p1, p2, p3, s1, s2, s3, a1, a2, t1

E(type, addr, token) == [type |-> type, addr |-> addr, token |-> token, retry |-> None]
With(role, sec) == [EmptyDocument EXCEPT ![role] = sec]
Holding(addr, svcs) == [NewSection(addr) EXCEPT !.services = svcs @@ NoServices]

\* A server with a service of its own token, and one with the default token.
OneService == With("server", Holding(a1, s1 :> E("tcp", a1, t1)))
Inherits   == With("client",
                [Holding(a1, s1 :> E(None, a1, None)) EXCEPT !.default_token = t1])

MCFiles == {Absent, OneService, Inherits}

\* Old configurations: entries with and without a token and a type, of an odd name
\* and an unknown type, one that collides on (address, type), and a transport.
OldServer  == With("server", [Holding(a2, s1 :> E("udp", a2, t1) @@ s2 :> E(None, a1, t1)
                                            @@ s3 :> E("udp", a1, t1))
                               EXCEPT !.transport = [NoTransport EXCEPT !.type = "noise", !.noise = TRUE]])
OldClient  == With("client", [Holding(a2, s1 :> E("other", a2, t1) @@ s2 :> E("tcp", a2, None)) EXCEPT !.default_token = t1])

Set(sd, flags, addr, token, retry, type, sub) ==
  [op |-> "set", side |-> sd, flags |-> flags, addr |-> addr, token |-> token,
   retry |-> retry, type |-> type, sub |-> sub]
Import(src) == [op |-> "import", source |-> src]
Single(sd, answer, name, e, noise) ==
  [op |-> "add", side |-> sd, answer |-> answer, name |-> name, entry |-> e, noise |-> noise]
Several(op, q) == [op |-> op, pending |-> q]
P(sd, name, e) == [side |-> sd, name |-> name, entry |-> e]

MCCommands ==
  {Set("client", "client", a2, None, None, None, None), Set(None, None, None, t1, None, "tls", "pkcs12"),
   Set(None, "client", None, None, 0, None, "badproxy"),
   Import(OldServer), Import(OldClient),
   Single(None, "server", s2, E("tcp", a1, t1), FALSE), Single("client", None, s2, E("udp", a1, Empty), TRUE),
   Several("batch", {P("server", s2, E("udp", a1, t1))}),
   Several("batch", {P("client", s2, E("udp", a1, t1))}),
   Several("interactive", {P("server", s1, E("tcp", a2, t1)), P("server", s2, E("tcp", a1, t1))}),
   [op |-> "remove", name |-> s1],
   [op |-> "install", role |-> "server"]}

ProcSymmetry == Permutations(Procs)
=============================================================================
