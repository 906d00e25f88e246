---------------------------- MODULE MCSupervisor ----------------------------
(* Supervisor for TLC: a handful of configurations that differ in services, *)
(* in the rest of a section and in the sections that are present.           *)
EXTENDS Supervisor

S(base, svcs) == [base |-> base, services |-> svcs]
Only(role, s) == [r \in Roles |-> IF r = role THEN s ELSE None]

CONSTANTS b1, b2, v1, v2, n1, n2

One  == Only("server", S(b1, [n \in Names |-> IF n = n1 THEN v1 ELSE None]))
\* n1 changed and n2 added.
Two  == Only("server", S(b1, [n \in Names |-> IF n = n1 THEN v2 ELSE v1]))
\* Another bind address.
Base == Only("server", S(b2, [n \in Names |-> IF n = n1 THEN v1 ELSE None]))
\* A client with no service, next to the server.
Both == [r \in Roles |-> IF r = "server" THEN One[r] ELSE S(b1, [n \in Names |-> None])]

MCConfigs == {One, Two, Base, Both}
RestartConfigs == {One, Base}
=============================================================================
