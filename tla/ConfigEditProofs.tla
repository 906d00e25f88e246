-------------------------- MODULE ConfigEditProofs --------------------------
(***************************************************************************)
(* Proofs about ConfigEdit, for any names, addresses, tokens, commands,    *)
(* files and number of invocations.  First what each command makes of a    *)
(* document, then the invariant and the theorems.                          *)
(***************************************************************************)
EXTENDS ConfigEdit, TLAPS

-----------------------------------------------------------------------------
(* Documents stay documents.                                               *)

\* A new section is a section.
LEMMA NewSectionType == ASSUME NEW addr \in Addrs \cup {PortZero, None} PROVE NewSection(addr) \in Section
  BY DEF NewSection, Section, NoServices, AnyToken, Retries

\* A table that is created holds nothing.
LEMMA TableType == ASSUME NEW t \in Transport \cup {None} PROVE Table(t) \in Transport
  BY DEF Table, NoTransport, Transport, Types

\* Replacing a section of a document gives a document.
LEMMA WithSection ==
  ASSUME NEW d \in Document, NEW r \in Roles, NEW sec \in Section
  PROVE  [d EXCEPT ![r] = sec] \in Document
  BY DEF Document

\* `set` leaves a transport table or none.
LEMMA SetTransportType ==
  ASSUME NEW t \in Transport \cup {None}, NEW a \in SetArgs
  PROVE  SetTransport(t, a) \in Transport \cup {None}
<1>1. CASE a.type = None /\ a.sub = None
  BY <1>1 DEF SetTransport
<1>2. CASE ~(a.type = None /\ a.sub = None)
  <2> DEFINE u  == Table(t)
             ty == Given(a.type, Given(ImpliedType(a.sub), Given(u.type, "tcp")))
             ns == u.noise \/ a.sub = "noise"
             tl == CASE a.sub = "pkcs12" -> {"pkcs12", "password"}
                     [] a.sub = "root" /\ u.tls = None -> {} [] OTHER -> u.tls
             px == CASE a.sub = "proxy" -> "good" [] a.sub = "badproxy" -> "bad" [] OTHER -> u.proxy
  <2>1. u \in Transport
    BY TableType
  <2>2. SetTransport(t, a) = [u EXCEPT !.type = ty, !.noise = ns, !.tls = tl, !.proxy = px]
    BY <1>2 DEF SetTransport
  <2>3. ty \in Types \cup {None}
    BY <2>1 DEF Given, ImpliedType, Transport, Types, SetArgs
  <2>4. ns \in BOOLEAN
    OBVIOUS
  <2>5. tl \in {None} \cup SUBSET {"pkcs12", "password"}
    BY <2>1 DEF Transport
  <2>6. px \in {None, "good", "bad"}
    BY <2>1 DEF Transport
  <2> HIDE DEF u, ty, ns, tl, px
  <2> QED  BY <2>1, <2>2, <2>3, <2>4, <2>5, <2>6 DEF Transport
<1> QED  BY <1>1, <1>2

LEMMA SetFieldsType ==
  ASSUME NEW sec \in Section, NEW a \in SetArgs
  PROVE  SetFields(sec, a) \in Section /\ SetFields(sec, a).services = sec.services
<1>1. /\ Given(a.addr, sec.addr) \in Addrs \cup {PortZero, None}
      /\ Given(a.token, sec.default_token) \in AnyToken
      /\ Given(a.retry, sec.retry) \in Retries
  BY DEF Given, Section, SetArgs
<1>2. SetTransport(sec.transport, a) \in Transport \cup {None}
  BY SetTransportType DEF Section
<1> QED  BY <1>1, <1>2 DEF SetFields, Section

\* `set` replaces one section, or is refused.
LEMMA RunSetIs ==
  ASSUME NEW d \in Document, NEW r \in Roles, NEW a \in SetArgs, RunSet(a, r, d) # Refused
  PROVE  /\ EnsureRoleAllows(d, r)
         /\ \E new \in Section :
              /\ RunSet(a, r, d) = [d EXCEPT ![r] = new]
              /\ d[r] # None => new.services = d[r].services
<1> DEFINE sec == IF d[r] = None THEN NewSection(a.addr) ELSE d[r]
<1>1. sec \in Section
  BY NewSectionType DEF Document, SetArgs
<1>2. RunSet(a, r, d) = [d EXCEPT ![r] = SetFields(sec, a)] /\ EnsureRoleAllows(d, r)
  BY DEF RunSet, Document
<1>3. SetFields(sec, a) \in Section /\ SetFields(sec, a).services = sec.services
  BY <1>1, SetFieldsType
<1> QED  BY <1>2, <1>3

\* The role of a document is a role, and its section is there.
LEMMA DetectRoleType ==
  ASSUME NEW d, DetectRole(d) # None
  PROVE  DetectRole(d) \in Roles /\ d[DetectRole(d)] # None
<1> DEFINE ok(r) == Sections(d) = {r}
<1>1. PICK r \in Roles : ok(r)
  BY DEF DetectRole
<1>2. DetectRole(d) = CHOOSE x \in Roles : ok(x)
  BY <1>1 DEF DetectRole
<1>3. DetectRole(d) \in Roles /\ ok(DetectRole(d))
  BY <1>1, <1>2
<1> QED  BY <1>3 DEF Sections

\* The parts of an import leave a section.
LEMMA ImportGlobalsType ==
  ASSUME NEW sec \in Section, NEW src \in Section
  PROVE  ImportGlobals(sec, src) \in Section /\ ImportGlobals(sec, src).services = sec.services
<1> DEFINE tk == IF src.default_token \in Tokens THEN src.default_token ELSE sec.default_token
           rt == IF src.retry \in {None, 0} THEN sec.retry ELSE src.retry
<1>1. Given(src.addr, sec.addr) \in Addrs \cup {PortZero, None} /\ tk \in AnyToken /\ rt \in Retries
  BY DEF Given, Section, AnyToken
<1>2. ImportGlobals(sec, src) =
        [sec EXCEPT !.addr = Given(src.addr, sec.addr), !.default_token = tk, !.retry = rt]
  BY DEF ImportGlobals
<1> HIDE DEF tk, rt
<1> QED  BY <1>1, <1>2 DEF Section

LEMMA ImportTransportType ==
  ASSUME NEW sec \in Section, NEW src \in Section
  PROVE  ImportTransport(sec, src) \in Section /\ ImportTransport(sec, src).services = sec.services
<1>1. CASE src.transport = None
  BY <1>1 DEF ImportTransport
<1>2. CASE src.transport # None
  <2> DEFINE v  == src.transport
             u  == Table(sec.transport)
             ty == Given(v.type, u.type)
             tl == IF v.tls = None THEN u.tls ELSE (IF u.tls = None THEN {} ELSE u.tls) \cup v.tls
             ns == u.noise \/ v.noise
             px == Given(v.proxy, u.proxy)
  <2>1. u \in Transport /\ v \in Transport
    BY <1>2, TableType DEF Section
  <2>2. ImportTransport(sec, src) = [sec EXCEPT !.transport = MergeTransport(u, v)]
    BY <1>2 DEF ImportTransport
  <2>3. ty \in Types \cup {None} /\ px \in {None, "good", "bad"}
    BY <2>1 DEF Given, Transport
  <2>4. tl \in {None} \cup SUBSET {"pkcs12", "password"}
    BY <2>1 DEF Transport
  <2>5. ns \in BOOLEAN
    OBVIOUS
  <2>6. MergeTransport(u, v) = [u EXCEPT !.type = ty, !.tls = tl, !.noise = ns, !.proxy = px]
    BY DEF MergeTransport
  <2> HIDE DEF u, v, ty, tl, ns, px
  <2>7. MergeTransport(u, v) \in Transport
    BY <2>1, <2>3, <2>4, <2>5, <2>6 DEF Transport
  <2> QED  BY <2>2, <2>7 DEF Section
<1> QED  BY <1>1, <1>2

LEMMA ImportServicesType ==
  ASSUME NEW sec \in Section, NEW src \in Section
  PROVE  /\ ImportServices(sec, src) \in Section
         /\ \A n \in Names : sec.services[n] # None =>
              ImportServices(sec, src).services[n] = sec.services[n]
<1> DEFINE f == [n \in Names |-> IF sec.services[n] = None /\ Importable(sec, n, src.services[n])
                                 THEN src.services[n] ELSE sec.services[n]]
<1>1. /\ f \in [Names -> Service \cup {None}]
      /\ \A n \in Names : sec.services[n] # None => f[n] = sec.services[n]
  BY DEF Section
<1>2. ImportServices(sec, src) = [sec EXCEPT !.services = f]
  BY DEF ImportServices
<1> HIDE DEF f
<1> QED  BY <1>1, <1>2 DEF Section

LEMMA ImportSectionType ==
  ASSUME NEW sec \in Section, NEW src \in Section
  PROVE  /\ ImportSection(sec, src) \in Section
         /\ \A n \in Names : sec.services[n] # None =>
              ImportSection(sec, src).services[n] = sec.services[n]
<1>1. /\ ImportGlobals(sec, src) \in Section
      /\ ImportGlobals(sec, src).services = sec.services
  BY ImportGlobalsType
<1> DEFINE u == ImportTransport(ImportGlobals(sec, src), src)
<1>2. u \in Section /\ u.services = sec.services
  BY <1>1, ImportTransportType
<1> HIDE DEF u
<1>3. /\ ImportServices(u, src) \in Section
      /\ \A n \in Names : u.services[n] # None => ImportServices(u, src).services[n] = u.services[n]
  BY <1>2, ImportServicesType
<1> QED  BY <1>2, <1>3 DEF ImportSection, u

\* `import` replaces one section, or is refused.
LEMMA RunImportIs ==
  ASSUME NEW d \in Document, NEW a \in ImportArgs, RunImport(a, d) # Refused
  PROVE  \E r \in Roles, new \in Section :
           /\ EnsureRoleAllows(d, r)
           /\ RunImport(a, d) = [d EXCEPT ![r] = new]
           /\ d[r] # None => \A n \in Names : d[r].services[n] # None => new.services[n] = d[r].services[n]
<1> DEFINE r == DetectRole(a.source)
           sec == IF d[r] = None THEN NewSection(None) ELSE d[r]
<1>1. r # None /\ a.source \in Document /\ EnsureRoleAllows(d, r)
  BY DEF RunImport, ImportArgs
<1>2. r \in Roles /\ a.source[r] \in Section
  BY <1>1, DetectRoleType DEF Document
<1>3. sec \in Section
  BY <1>2, NewSectionType DEF Document
<1>4. RunImport(a, d) = [d EXCEPT ![r] = ImportSection(sec, a.source[r])]
  BY <1>2 DEF RunImport, Document
<1> HIDE DEF r
<1>5. /\ ImportSection(sec, a.source[r]) \in Section
      /\ \A n \in Names : sec.services[n] # None =>
           ImportSection(sec, a.source[r]).services[n] = sec.services[n]
  BY <1>2, <1>3, ImportSectionType
<1> QED  BY <1>1, <1>2, <1>4, <1>5

\* Entries are services.
LEMMA EntryType == Entry \subseteq Service
  BY DEF Entry, Service, AnyToken, Retries

\* The server section may be created.
LEMMA WithServerType ==
  ASSUME NEW d \in Document, NEW wanted \in BOOLEAN
  PROVE  /\ WithServer(d, wanted) \in Document
         /\ \A r \in Roles : d[r] # None => WithServer(d, wanted)[r] = d[r]
         /\ WithServer(d, wanted)["client"] = d["client"]
         /\ ~wanted => WithServer(d, wanted) = d
<1>1. NewSection(DefaultBind) \in Section
  BY NewSectionType, CommandsAssumption
<1> QED  BY <1>1 DEF WithServer, Document, Roles

\* `add` of one service replaces one section, or is refused.
LEMMA RunAddSingleIs ==
  ASSUME NEW d \in Document, NEW r \in Roles, NEW a \in AddArgs, RunAddSingle(a, r, d) # Refused
  PROVE  /\ EnsureRoleAllows(d, r)
         /\ \E new \in Section :
              /\ RunAddSingle(a, r, d) = [d EXCEPT ![r] = new]
              /\ d[r] # None => \A n \in Names : d[r].services[n] # None => new.services[n] = d[r].services[n]
              /\ new.services[a.name] # None
<1> DEFINE e == WithServer(d, r = "server")
           t == IF a.noise THEN ApplyNoise(e[r].transport) ELSE e[r].transport
           f == [e[r].services EXCEPT ![a.name] = a.entry]
           sec == [e[r] EXCEPT !.transport = t, !.services = f]
<1>1. /\ e \in Document
      /\ d[r] # None => e[r] = d[r]
      /\ \A x \in Roles : x # r => e[x] = d[x]
  BY WithServerType DEF Roles
<1>2. e[r] \in Section /\ EnsureRoleAllows(d, r) /\ ServiceAt(d, r, a.name) = None
  BY <1>1 DEF RunAddSingle, Document
<1>3. RunAddSingle(a, r, d) = [e EXCEPT ![r] = sec]
  BY <1>1, <1>2 DEF RunAddSingle, Document, Section
<1>4. t \in Transport \cup {None}
  <2>1. e[r].transport \in Transport \cup {None}
    BY <1>2 DEF Section
  <2>2. Table(e[r].transport) \in Transport
    BY <2>1, TableType
  <2>3. ApplyNoise(e[r].transport) \in Transport
    BY <2>2 DEF ApplyNoise, Transport, Types
  <2> QED  BY <2>1, <2>3
<1>5. /\ f \in [Names -> Service \cup {None}] /\ f[a.name] = a.entry /\ a.entry # None
      /\ \A n \in Names : n # a.name => f[n] = e[r].services[n]
  BY <1>2, EntryType, TablesAssumption DEF Section, AddArgs
<1> HIDE DEF e, t, f
<1>6. sec \in Section /\ sec.services = f
  BY <1>2, <1>4, <1>5 DEF Section
<1> HIDE DEF sec
<1>7. [e EXCEPT ![r] = sec] = [d EXCEPT ![r] = sec]
  BY <1>1 DEF Document
<1>8. d[r] # None => \A n \in Names : d[r].services[n] # None => sec.services[n] = d[r].services[n]
  BY <1>1, <1>2, <1>5, <1>6 DEF ServiceAt
<1> QED  BY <1>2, <1>3, <1>5, <1>6, <1>7, <1>8

-----------------------------------------------------------------------------
(* What an edit does to the services and to the role.                      *)

\* Every service of the old document is in the new one, as it was.
Keeps(old, new) ==
  \A r \in Roles, n \in Names : ServiceAt(old, r, n) # None => ServiceAt(new, r, n) = ServiceAt(old, r, n)

\* Replacing one section, which was not there or whose services are kept.
LEMMA WithSectionKeeps ==
  ASSUME NEW d \in Document, NEW r \in Roles, NEW sec \in Section,
         d[r] # None =>
           \A n \in Names : d[r].services[n] # None => sec.services[n] = d[r].services[n]
  PROVE  Keeps(d, [d EXCEPT ![r] = sec])
<1> DEFINE e == [d EXCEPT ![r] = sec]
<1>1. e[r] = sec /\ \A x \in Roles : x # r => e[x] = d[x]
  BY DEF Document
<1> HIDE DEF e
<1>2. ASSUME NEW x \in Roles, NEW n \in Names, ServiceAt(d, x, n) # None
      PROVE  ServiceAt(e, x, n) = ServiceAt(d, x, n)
  <2>1. CASE x # r
    BY <1>1, <2>1 DEF ServiceAt
  <2>2. CASE x = r
    BY <1>1, <1>2, <2>2, TablesAssumption DEF ServiceAt
  <2> QED  BY <2>1, <2>2
<1> QED  BY <1>2 DEF Keeps, e

\* ... of a document that has no other section.
LEMMA WithSectionRole ==
  ASSUME NEW d \in Document, NEW r \in Roles, NEW sec \in Section, EnsureRoleAllows(d, r)
  PROVE  Sections([d EXCEPT ![r] = sec]) # Roles
  BY DEF EnsureRoleAllows, Sections, Document, Roles

\* `set` keeps every service and adds no second section.
LEMMA RunSetKeeps ==
  ASSUME NEW d \in Document, NEW r \in Roles, NEW a \in SetArgs, RunSet(a, r, d) # Refused
  PROVE  /\ RunSet(a, r, d) \in Document
         /\ Keeps(d, RunSet(a, r, d)) /\ Sections(RunSet(a, r, d)) # Roles
<1>1. PICK new \in Section : /\ RunSet(a, r, d) = [d EXCEPT ![r] = new]
                             /\ d[r] # None => new.services = d[r].services
  BY RunSetIs
<1>2. EnsureRoleAllows(d, r)
  BY RunSetIs
<1>3. Keeps(d, [d EXCEPT ![r] = new])
  BY <1>1, WithSectionKeeps
<1> QED  BY <1>1, <1>2, <1>3, WithSection, WithSectionRole

\* So does `import`.
LEMMA RunImportKeeps ==
  ASSUME NEW d \in Document, NEW a \in ImportArgs, RunImport(a, d) # Refused
  PROVE  /\ RunImport(a, d) \in Document
         /\ Keeps(d, RunImport(a, d)) /\ Sections(RunImport(a, d)) # Roles
<1>1. PICK r \in Roles, new \in Section :
        /\ EnsureRoleAllows(d, r)
        /\ RunImport(a, d) = [d EXCEPT ![r] = new]
        /\ d[r] # None => \A n \in Names : d[r].services[n] # None => new.services[n] = d[r].services[n]
  BY RunImportIs
<1>2. Keeps(d, [d EXCEPT ![r] = new])
  BY <1>1, WithSectionKeeps
<1> QED  BY <1>1, <1>2, WithSection, WithSectionRole

\* And `add` of one service, which is there afterwards.
LEMMA RunAddSingleKeeps ==
  ASSUME NEW d \in Document, NEW r \in Roles, NEW a \in AddArgs, RunAddSingle(a, r, d) # Refused
  PROVE  /\ RunAddSingle(a, r, d) \in Document
         /\ Keeps(d, RunAddSingle(a, r, d)) /\ Sections(RunAddSingle(a, r, d)) # Roles
         /\ ServiceAt(RunAddSingle(a, r, d), r, a.name) # None
<1>1. PICK new \in Section :
        /\ RunAddSingle(a, r, d) = [d EXCEPT ![r] = new]
        /\ d[r] # None => \A n \in Names : d[r].services[n] # None => new.services[n] = d[r].services[n]
        /\ new.services[a.name] # None
  BY RunAddSingleIs
<1>2. EnsureRoleAllows(d, r)
  BY RunAddSingleIs
<1>3. Keeps(d, [d EXCEPT ![r] = new])
  BY <1>1, WithSectionKeeps
<1>4. ServiceAt([d EXCEPT ![r] = new], r, a.name) # None
  BY <1>1, TablesAssumption DEF ServiceAt, Document
<1> QED  BY <1>1, <1>2, <1>3, <1>4, WithSection, WithSectionRole

\* Inserting services into sections that are there and do not have them.
LEMMA InsertAllKeeps ==
  ASSUME NEW d \in Document, NEW pending \in SUBSET Pending,
         \A q \in pending : ServiceAt(d, q.side, q.name) = None /\ d[q.side] # None
  PROVE  /\ InsertAll(d, pending) \in Document
         /\ Keeps(d, InsertAll(d, pending))
         /\ Sections(InsertAll(d, pending)) = Sections(d)
         /\ \A q \in pending : ServiceAt(InsertAll(d, pending), q.side, q.name) # None
<1> DEFINE at(q, r, n) == q.side = r /\ q.name = n
           f(r) == [n \in Names |-> IF \E q \in pending : at(q, r, n)
                                    THEN (CHOOSE q \in pending : at(q, r, n)).entry
                                    ELSE d[r].services[n]]
           new(r) == IF \E q \in pending : q.side = r THEN [d[r] EXCEPT !.services = f(r)] ELSE d[r]
<1>1. InsertAll(d, pending) = [r \in Roles |-> new(r)]
  BY DEF InsertAll
<1>2. ASSUME NEW r \in Roles, NEW n \in Names, \E q \in pending : at(q, r, n)
      PROVE  f(r)[n] \in Service
  <2>1. (CHOOSE q \in pending : at(q, r, n)) \in pending
    BY <1>2
  <2> QED  BY <1>2, <2>1, EntryType DEF Pending
<1>3. ASSUME NEW r \in Roles, NEW n \in Names, ~\E q \in pending : at(q, r, n)
      PROVE  f(r)[n] = d[r].services[n]
  BY <1>3
<1>4. ASSUME NEW r \in Roles, d[r] # None
      PROVE  f(r) \in [Names -> Service \cup {None}]
  <2>1. d[r] \in Section
    BY <1>4 DEF Document
  <2>2. \A n \in Names : f(r)[n] \in Service \cup {None}
    BY <1>2, <1>3, <2>1 DEF Section
  <2>3. f(r) = [n \in Names |-> f(r)[n]]
    OBVIOUS
  <2> HIDE DEF f
  <2> QED  BY <2>2, <2>3
<1>5. ASSUME NEW r \in Roles, \E q \in pending : q.side = r PROVE d[r] # None
  BY <1>5
<1>6. ASSUME NEW r \in Roles
      PROVE  /\ new(r) \in Section \cup {None}
             /\ new(r) # None <=> d[r] # None
             /\ new(r) # None /\ (\E q \in pending : q.side = r) => new(r).services = f(r)
             /\ ~(\E q \in pending : q.side = r) => new(r) = d[r]
  <2>1. CASE \E q \in pending : q.side = r
    <3>1. d[r] # None /\ d[r] \in Section
      BY <1>5, <2>1 DEF Document
    <3>2. f(r) \in [Names -> Service \cup {None}]
      BY <1>4, <3>1
    <3> HIDE DEF f
    <3>3. new(r) \in Section /\ new(r).services = f(r)
      BY <2>1, <3>1, <3>2 DEF Section
    <3> QED  BY <2>1, <3>1, <3>3, TablesAssumption
  <2>2. CASE ~\E q \in pending : q.side = r
    BY <2>2 DEF Document
  <2> QED  BY <2>1, <2>2
<1> DEFINE e == InsertAll(d, pending)
<1>7. \A r \in Roles : e[r] = new(r)
  BY <1>1
<1>8. e \in Document
  <2> HIDE DEF new, f
  <2> QED  BY <1>1, <1>6 DEF Document
<1>9. Sections(e) = Sections(d)
  <2>1. \A r \in Roles : e[r] # None <=> d[r] # None
    <3> HIDE DEF new, f, e
    <3> QED  BY <1>6, <1>7
  <2> HIDE DEF new, f, e
  <2> QED  BY <2>1 DEF Sections
<1>10. ASSUME NEW r \in Roles, NEW n \in Names, ServiceAt(d, r, n) # None
       PROVE  ServiceAt(e, r, n) = ServiceAt(d, r, n)
  <2>1. d[r] # None /\ d[r].services[n] # None
    BY <1>10, TablesAssumption DEF ServiceAt
  <2>2. ~\E q \in pending : at(q, r, n)
    BY <1>10
  <2>3. f(r)[n] = d[r].services[n]
    BY <1>3, <2>2
  <2> HIDE DEF f, at
  <2> QED  BY <1>6, <1>7, <2>1, <2>3 DEF ServiceAt
<1>11. ASSUME NEW q \in pending PROVE ServiceAt(e, q.side, q.name) # None
  <2>1. q.side \in Roles /\ q.name \in Names /\ d[q.side] # None
    BY DEF Pending
  <2>2. f(q.side)[q.name] \in Service
    BY <1>2, <2>1
  <2> HIDE DEF f
  <2>3. e[q.side] # None /\ e[q.side].services = f(q.side)
    BY <1>6, <1>7, <2>1
  <2> QED  BY <2>2, <2>3, TablesAssumption DEF ServiceAt
<1> HIDE DEF e
<1> QED  BY <1>8, <1>9, <1>10, <1>11 DEF Keeps, e

\* A batch keeps every service and holds the new ones; the only section it can
\* add is the server's.
LEMMA RunAddBatchKeeps ==
  ASSUME NEW d \in Document, NEW a \in BatchArgs, RunAddBatch(a, d) # Refused
  PROVE  /\ RunAddBatch(a, d) \in Document
         /\ Keeps(d, RunAddBatch(a, d))
         /\ \A q \in a.pending : ServiceAt(RunAddBatch(a, d), q.side, q.name) # None
         /\ Sections(RunAddBatch(a, d)) \subseteq Sections(d) \cup {q.side : q \in a.pending}
<1> DEFINE w == \E q \in a.pending : q.side = "server"
           e == WithServer(d, w)
<1>1. /\ e \in Document
      /\ \A r \in Roles : d[r] # None => e[r] = d[r]
      /\ e["client"] = d["client"]
      /\ ~w => e = d
  BY WithServerType
<1>2. /\ \A q \in a.pending : ServiceAt(e, q.side, q.name) = None /\ e[q.side] # None
      /\ RunAddBatch(a, d) = InsertAll(e, a.pending)
      /\ a.pending \in SUBSET Pending
  BY DEF RunAddBatch, BatchArgs
<1> HIDE DEF e
<1>3. /\ InsertAll(e, a.pending) \in Document
      /\ Keeps(e, InsertAll(e, a.pending))
      /\ Sections(InsertAll(e, a.pending)) = Sections(e)
      /\ \A q \in a.pending : ServiceAt(InsertAll(e, a.pending), q.side, q.name) # None
  BY <1>1, <1>2, InsertAllKeeps
<1>4. Keeps(d, RunAddBatch(a, d))
  BY <1>1, <1>2, <1>3 DEF Keeps, ServiceAt
<1>5. Sections(e) \subseteq Sections(d) \cup {q.side : q \in a.pending}
  BY <1>1 DEF Sections, Roles
<1> QED  BY <1>2, <1>3, <1>4, <1>5

\* An interactive session also adds no second section.
LEMMA RunAddInteractiveKeeps ==
  ASSUME NEW d \in Document, NEW a \in BatchArgs, RunAddInteractive(a, d) # Refused
  PROVE  RunAddInteractive(a, d) = RunAddBatch(a, d) /\ Sections(RunAddBatch(a, d)) # Roles
<1>1. /\ \A q \in a.pending : EnsureRoleAllows(d, q.side) /\ (q.side = "client" => d["client"] # None)
      /\ RunAddInteractive(a, d) = RunAddBatch(a, d)
  BY DEF RunAddInteractive, EnsureClientRemoteSet
<1>2. Sections(RunAddBatch(a, d)) \subseteq Sections(d) \cup {q.side : q \in a.pending}
  BY <1>1, RunAddBatchKeeps
<1>3. PICK q \in a.pending : q.side \in Roles
  BY DEF BatchArgs, Pending
<1>4. \A x \in a.pending : x.side = q.side
  <2>1. ASSUME NEW x \in a.pending, NEW y \in a.pending, x.side = "client" PROVE y.side = "client"
    BY <1>1, <2>1 DEF EnsureRoleAllows, Sections, Roles
  <2>2. \A x \in a.pending : x.side \in {"client", "server"}
    BY DEF BatchArgs, Pending, Roles
  <2> QED  BY <2>1, <2>2
<1>5. Sections(RunAddBatch(a, d)) \subseteq {q.side}
  BY <1>1, <1>2, <1>4 DEF EnsureRoleAllows
<1> QED  BY <1>1, <1>5 DEF Roles

\* `remove` takes one service from one section, if there is one.
LEMMA RunRemoveIs ==
  ASSUME NEW d \in Document, NEW a \in RemoveArgs, RunRemove(a, d) # Refused
  PROVE  \E r \in Roles, f \in [Names -> Service \cup {None}] :
           /\ d[r] # None /\ RunRemove(a, d) = [d EXCEPT ![r] = [d[r] EXCEPT !.services = f]]
           /\ f[a.name] = None
           /\ \A n \in Names : n # a.name => f[n] = d[r].services[n]
<1> DEFINE holds == {r \in Roles : ServiceAt(d, r, a.name) # None}
           from  == IF "client" \in holds THEN "client" ELSE "server"
           f == [d[from].services EXCEPT ![a.name] = None]
<1>1. holds # {} /\ RunRemove(a, d) = [d EXCEPT ![from].services[a.name] = None]
  BY DEF RunRemove
<1>2. from \in holds
  BY <1>1 DEF Roles
<1>3. from \in Roles /\ d[from] # None /\ d[from] \in Section
  BY <1>2 DEF ServiceAt, Document
<1>4. RunRemove(a, d) = [d EXCEPT ![from] = [d[from] EXCEPT !.services = f]]
  BY <1>1
<1> HIDE DEF from
<1>5. /\ f \in [Names -> Service \cup {None}] /\ f[a.name] = None
      /\ \A n \in Names : n # a.name => f[n] = d[from].services[n]
  BY <1>3 DEF Section, RemoveArgs
<1> HIDE DEF f, holds
<1> QED  BY <1>3, <1>4, <1>5

\* A section with fewer services passes the checks it passed before.
LEMMA FewerServices ==
  ASSUME NEW sec \in Section, NEW f \in [Names -> Service \cup {None}],
         \A n \in Names : f[n] = None \/ f[n] = sec.services[n]
  PROVE  LET new == [sec EXCEPT !.services = f] IN
         /\ new \in Section
         /\ Parses(sec) => Parses(new)
         /\ ValidateServer(sec) => ValidateServer(new)
         /\ ValidateClient(sec) => ValidateClient(new)
<1> DEFINE new == [sec EXCEPT !.services = f]
<1>1. /\ new \in Section /\ new.services = f /\ new.addr = sec.addr /\ new.retry = sec.retry
      /\ new.default_token = sec.default_token /\ new.transport = sec.transport
  BY DEF Section
<1> HIDE DEF new
<1>2. Parses(sec) => Parses(new)
  BY <1>1 DEF Parses
<1>3. ValidateTokens(sec) => ValidateTokens(new)
  BY <1>1 DEF ValidateTokens, EffectiveToken
<1>4. BindAddrsDistinct(sec) => BindAddrsDistinct(new)
  BY <1>1 DEF BindAddrsDistinct
<1>5. ValidateServer(sec) => ValidateServer(new)
  BY <1>1, <1>3, <1>4 DEF ValidateServer
<1>6. ValidateClient(sec) => ValidateClient(new)
  BY <1>1, <1>3 DEF ValidateClient
<1> QED  BY <1>1, <1>2, <1>5, <1>6 DEF new

\* A document with a service removed is as valid as before: the one edit that is
\* saved without validation needs none.
LEMMA RunRemoveKeeps ==
  ASSUME NEW d \in Document, NEW a \in RemoveArgs, RunRemove(a, d) # Refused
  PROVE  LET e == RunRemove(a, d) IN
         /\ e \in Document
         /\ Validate(d) => Validate(e)
         /\ Sections(e) = Sections(d)
         /\ \A r \in Roles, n \in Names : ServiceAt(d, r, n) # None =>
              ServiceAt(e, r, n) = ServiceAt(d, r, n) \/ n = a.name
<1>1. PICK r \in Roles, f \in [Names -> Service \cup {None}] :
        /\ d[r] # None /\ RunRemove(a, d) = [d EXCEPT ![r] = [d[r] EXCEPT !.services = f]]
        /\ f[a.name] = None
        /\ \A n \in Names : n # a.name => f[n] = d[r].services[n]
  BY RunRemoveIs
<1> DEFINE new == [d[r] EXCEPT !.services = f]
           e == [d EXCEPT ![r] = new]
<1>2. d[r] \in Section
  BY <1>1 DEF Document
<1>3. /\ new \in Section
      /\ Parses(d[r]) => Parses(new)
      /\ ValidateServer(d[r]) => ValidateServer(new)
      /\ ValidateClient(d[r]) => ValidateClient(new)
  BY <1>1, <1>2, FewerServices
<1>4. new.services = f
  BY <1>2 DEF Section
<1> HIDE DEF new
<1>5. e \in Document /\ e[r] = new /\ \A x \in Roles : x # r => e[x] = d[x]
  BY <1>3 DEF Document
<1>6. e[r] # None
  BY <1>3, <1>5, TablesAssumption
<1> HIDE DEF e
<1>7. Sections(e) = Sections(d)
  BY <1>1, <1>5, <1>6 DEF Sections
<1>8. Validate(d) => Validate(e)
  <2> SUFFICES ASSUME Validate(d) PROVE Validate(e)
    OBVIOUS
  <2>1. e # EmptyDocument
    BY <1>6 DEF EmptyDocument
  <2>2. \A x \in Roles : e[x] # None => Parses(e[x])
    BY <1>1, <1>3, <1>5 DEF Validate
  <2>3. e["server"] # None => ValidateServer(e["server"])
    BY <1>1, <1>3, <1>5 DEF Validate, Roles
  <2>4. e["client"] # None => ValidateClient(e["client"])
    BY <1>1, <1>3, <1>5 DEF Validate, Roles
  <2> QED  BY <2>1, <2>2, <2>3, <2>4 DEF Validate
<1>9. ASSUME NEW x \in Roles, NEW n \in Names, n # a.name
      PROVE  ServiceAt(e, x, n) = ServiceAt(d, x, n)
  BY <1>1, <1>4, <1>5, <1>6, <1>9 DEF ServiceAt
<1>10. RunRemove(a, d) = e
  BY <1>1 DEF e, new
<1>11. \A x \in Roles, n \in Names : ServiceAt(d, x, n) # None =>
         ServiceAt(e, x, n) = ServiceAt(d, x, n) \/ n = a.name
  BY <1>9
<1> QED  BY <1>5, <1>7, <1>8, <1>10, <1>11

\* What an edit gives, by command.
EditOf(c, s, d, new) ==
  /\ new \in Document
  /\ c.op # "remove" => Keeps(d, new)
  /\ c.op = "remove" =>
       \A r \in Roles, n \in Names : ServiceAt(d, r, n) # None =>
         ServiceAt(new, r, n) = ServiceAt(d, r, n) \/ n = c.name
  /\ c.op = "remove" /\ Validate(d) => Validate(new)
  /\ \A n \in Reported(c) : \E r \in Roles : ServiceAt(new, r, n) # None
  /\ c.op # "batch" /\ Sections(new) = Roles => Sections(d) = Roles

\* The edit of any command, on any document.
LEMMA EditIs ==
  ASSUME NEW c \in Command, NEW s \in Roles \cup {None}, NEW d \in Document,
         c.op # "install", c.op \in {"set", "add"} => s # None, Edit(c, s, d) # Refused
  PROVE  EditOf(c, s, d, Edit(c, s, d))
<1>1. CASE c \in SetArgs
  <2>1. c.op = "set" /\ s \in Roles /\ Edit(c, s, d) = RunSet(c, s, d)
    BY <1>1 DEF SetArgs, Edit
  <2> QED  BY <1>1, <2>1, RunSetKeeps DEF EditOf, Reported
<1>2. CASE c \in ImportArgs
  <2>1. c.op = "import" /\ Edit(c, s, d) = RunImport(c, d)
    BY <1>2 DEF ImportArgs, Edit
  <2> QED  BY <1>2, <2>1, RunImportKeeps DEF EditOf, Reported
<1>3. CASE c \in AddArgs
  <2>1. c.op = "add" /\ s \in Roles /\ Edit(c, s, d) = RunAddSingle(c, s, d)
    BY <1>3 DEF AddArgs, Edit
  <2> QED  BY <1>3, <2>1, RunAddSingleKeeps DEF EditOf, Reported
<1>4. CASE c \in BatchArgs
  <2>1. c.op \in {"batch", "interactive"} /\ \A q \in c.pending : q.side \in Roles
    BY <1>4 DEF BatchArgs, Pending
  <2>2. Edit(c, s, d) = RunAddBatch(c, d)
    BY <1>4, <2>1, RunAddInteractiveKeeps DEF Edit
  <2>3. c.op = "interactive" => Sections(RunAddBatch(c, d)) # Roles
    BY <1>4, <2>1, RunAddInteractiveKeeps DEF Edit
  <2>4. Reported(c) = {q.name : q \in c.pending}
    BY <2>1 DEF Reported
  <2> QED  BY <1>4, <2>1, <2>2, <2>3, <2>4, RunAddBatchKeeps DEF EditOf
<1>5. CASE c \in RemoveArgs
  <2>1. c.op = "remove" /\ Edit(c, s, d) = RunRemove(c, d)
    BY <1>5 DEF RemoveArgs, Edit
  <2> QED  BY <1>5, <2>1, RunRemoveKeeps DEF EditOf, Reported
<1>6. CASE c \in InstallArgs
  BY <1>6 DEF InstallArgs
<1> QED  BY <1>1, <1>2, <1>3, <1>4, <1>5, <1>6 DEF Command

-----------------------------------------------------------------------------
(* Reading the file.                                                       *)

\* What is read is a document, and a valid one unless there is no file.
LEMMA LoadType ==
  ASSUME TypeOK, FileValid
  PROVE  Load \in Document /\ (file # Absent => Validate(Load))
  BY DEF Load, TypeOK, FileValid, EmptyDocument, Document

\* An empty document has no section.
LEMMA EmptyIs == EmptyDocument \in Document /\ Sections(EmptyDocument) = {}
  BY DEF EmptyDocument, Document, Sections

\* What an install writes is valid and of one role.
LEMMA SkeletonIs ==
  ASSUME NEW r \in Roles
  PROVE  Skeleton(r) \in Document /\ Validate(Skeleton(r)) /\ Sections(Skeleton(r)) # Roles
<1> DEFINE addr == IF r = "server" THEN DefaultBind ELSE DefaultRemote
           sec == NewSection(addr)
<1>1. addr \in Addrs /\ addr # None /\ addr # PortZero
  BY CommandsAssumption, RulesAssumption
<1>2. sec \in Section /\ sec # None
  BY <1>1, NewSectionType, TablesAssumption
<1>3. /\ Parses(sec) /\ ValidateServer(sec) /\ ValidateClient(sec)
  BY <1>1, RulesAssumption DEF NewSection, NoServices, Parses, ValidateServer, ValidateClient,
                              ValidateTokens, BindAddrsDistinct
<1>4. Skeleton(r) = [EmptyDocument EXCEPT ![r] = sec]
  BY DEF Skeleton
<1> HIDE DEF sec
<1>5. Skeleton(r)[r] = sec /\ \A x \in Roles : x # r => Skeleton(r)[x] = None
  BY <1>4 DEF EmptyDocument
<1>6. Skeleton(r) \in Document
  BY <1>2, <1>4, EmptyIs, WithSection
<1>7. Skeleton(r) # EmptyDocument
  BY <1>2, <1>5 DEF EmptyDocument
<1>8. Validate(Skeleton(r))
  BY <1>2, <1>3, <1>5, <1>7 DEF Validate, Roles
<1>9. Sections(Skeleton(r)) # Roles
  BY <1>5 DEF Sections, Roles
<1> QED  BY <1>6, <1>8, <1>9

\* The side a command resolves is a role or none.
LEMMA ResolveSideType ==
  ASSUME NEW c \in Command, NEW d
  PROVE  ResolveSide(c, d) \in Roles \cup {None}
<1>1. DetectRole(d) \in Roles \cup {None}
  BY DetectRoleType
<1>2. c.op = "set" => c.side \in Roles \cup {None}
  BY DEF Command, SetArgs, ImportArgs, AddArgs, BatchArgs, RemoveArgs, InstallArgs
<1>3. c.op = "add" => c.side \in Roles \cup {None} /\ c.answer \in Roles \cup {None}
  BY DEF Command, SetArgs, ImportArgs, AddArgs, BatchArgs, RemoveArgs, InstallArgs
<1> QED  BY <1>1, <1>2, <1>3 DEF ResolveSide, Given

\* The role an install is given.
LEMMA InstallRole == ASSUME NEW c \in Command, c.op = "install" PROVE c.role \in Roles
  BY DEF Command, SetArgs, ImportArgs, AddArgs, BatchArgs, RemoveArgs, InstallArgs

\* What the loader fills in, in every valid document.
LEMMA EffectiveIs ==
  ASSUME NEW d \in Document, Validate(d)
  PROVE  /\ Effective(d) \in Document
         /\ \A r \in Roles, n \in Names : ServiceAt(Effective(d), r, n) # None =>
              /\ Effective(d)[r].services[n].token \in Tokens
              /\ r = "client" => Effective(d)[r].services[n].retry = 1
<1> DEFINE g(r, n) == [d[r].services[n] EXCEPT
                         !.type = ServiceType(d[r].services[n]), !.token = EffectiveToken(d[r], n),
                         !.retry = IF r = "client" THEN EffectiveRetry(d[r], n) ELSE @]
           f(r) == [n \in Names |-> IF d[r].services[n] = None THEN None ELSE g(r, n)]
           new(r) == IF d[r] = None THEN None ELSE [d[r] EXCEPT !.services = f(r)]
<1>1. Effective(d) = [r \in Roles |-> new(r)]
  BY DEF Effective
<1>2. ASSUME NEW r \in Roles, d[r] # None
      PROVE  d[r] \in Section /\ ValidateTokens(d[r]) /\ (r = "client" => ValidateClient(d[r]))
  BY <1>2 DEF Document, Validate, ValidateServer, ValidateClient, Roles
<1>3. ASSUME NEW r \in Roles, d[r] # None, NEW n \in Names, d[r].services[n] # None
      PROVE  /\ g(r, n) \in Service /\ g(r, n).token \in Tokens
             /\ r = "client" => g(r, n).retry = 1
  <2>1. d[r].services[n] \in Service /\ d[r].retry \in Retries
    BY <1>2, <1>3 DEF Section
  <2>2. EffectiveToken(d[r], n) \in Tokens
    BY <1>2, <1>3 DEF ValidateTokens
  <2>3. r = "client" => EffectiveRetry(d[r], n) = 1
    <3> SUFFICES ASSUME r = "client" PROVE EffectiveRetry(d[r], n) = 1
      OBVIOUS
    <3>1. d[r].retry # 0 /\ d[r].services[n].retry # 0
      BY <1>2, <1>3 DEF ValidateClient
    <3>2. d[r].services[n].retry \in Retries
      BY <2>1 DEF Service
    <3> QED  BY <2>1, <3>1, <3>2 DEF EffectiveRetry, Retries
  <2> DEFINE ty == ServiceType(d[r].services[n])
             tk == EffectiveToken(d[r], n)
             rt == IF r = "client" THEN EffectiveRetry(d[r], n) ELSE d[r].services[n].retry
  <2>4. tk \in Tokens /\ rt \in Retries /\ (r = "client" => rt = 1)
    BY <2>1, <2>2, <2>3 DEF Retries, Service
  <2>5. ty \in {"tcp", "udp", "other"}
    BY <2>1 DEF Service, ServiceType
  <2>6. g(r, n) = [d[r].services[n] EXCEPT !.type = ty, !.token = tk, !.retry = rt]
    OBVIOUS
  <2> HIDE DEF g, ty, tk, rt
  <2> QED  BY <2>1, <2>4, <2>5, <2>6 DEF Service, AnyToken
<1> HIDE DEF g
<1>4. ASSUME NEW r \in Roles, d[r] # None
      PROVE  f(r) \in [Names -> Service \cup {None}]
  BY <1>3, <1>4
<1>5. ASSUME NEW r \in Roles
      PROVE  /\ new(r) \in Section \cup {None}
             /\ new(r) = None <=> d[r] = None
             /\ d[r] # None => new(r).services = f(r)
  <2>1. CASE d[r] = None
    BY <2>1
  <2>2. CASE d[r] # None
    <3>1. d[r] \in Section /\ f(r) \in [Names -> Service \cup {None}]
      BY <1>2, <1>4, <2>2
    <3> HIDE DEF f
    <3>2. new(r) \in Section /\ new(r).services = f(r)
      BY <2>2, <3>1 DEF Section
    <3> QED  BY <2>2, <3>2, TablesAssumption
  <2> QED  BY <2>1, <2>2
<1>6. Effective(d) \in Document
  <2> HIDE DEF new
  <2> QED  BY <1>1, <1>5 DEF Document
<1>7. ASSUME NEW r \in Roles, NEW n \in Names, ServiceAt(Effective(d), r, n) # None
      PROVE  /\ Effective(d)[r].services[n].token \in Tokens
             /\ r = "client" => Effective(d)[r].services[n].retry = 1
  <2>1. Effective(d)[r] = new(r)
    BY <1>1
  <2>2. d[r] # None /\ new(r) # None /\ new(r).services[n] # None
    BY <1>5, <1>7, <2>1 DEF ServiceAt
  <2>3. new(r).services = f(r)
    BY <1>5, <2>2
  <2>4. d[r].services[n] # None /\ new(r).services[n] = g(r, n)
    BY <2>2, <2>3
  <2> HIDE DEF new, f
  <2> QED  BY <1>3, <2>1, <2>2, <2>4
<1> QED  BY <1>6, <1>7

-----------------------------------------------------------------------------
(* The invariant.                                                          *)

Saving == {"edited", "written", "secured"}

\* How the copy of an invocation that is about to save it came about.
Made(p) ==
  \/ cmd[p].op = "install" /\ base[p] = EmptyDocument /\ Sections(doc[p]) # Roles
  \/ cmd[p].op # "install" /\ EditOf(cmd[p], side[p], base[p], doc[p])

\* What holds of one invocation at each point.
Progress(p) ==
  /\ pc[p] # "idle" => cmd[p] \in Commands
  /\ pc[p] \in {"idle", "begun", "checked"} => base[p] = EmptyDocument
  /\ pc[p] = "checked" => cmd[p].op # "install" /\ (cmd[p].op \in {"set", "add"} => side[p] # None)
  /\ pc[p] \in Saving => Validate(doc[p]) /\ Made(p)
  /\ pc[p] \in {"written", "secured"} => tmp[p] = doc[p]

Inv == TypeOK /\ FileValid /\ RuntimeComplete /\ \A p \in Procs : Progress(p)

\* It holds at the start.
LEMMA InvInit == Init => Inv
<1> SUFFICES ASSUME Init PROVE Inv
  OBVIOUS
<1>1. TypeOK
  BY EmptyIs, EditAssumption DEF Init, TypeOK
<1>2. FileValid
  BY EditAssumption DEF Init, FileValid
<1>3. RuntimeComplete
  BY DEF Init, RuntimeComplete, ServiceAt, EmptyDocument
<1>4. \A p \in Procs : Progress(p)
  BY DEF Init, Progress, Saving
<1> QED  BY <1>1, <1>2, <1>3, <1>4 DEF Inv

\* A step of one invocation leaves the others where they were.
LEMMA OthersProgress ==
  ASSUME NEW q \in Procs, Progress(q),
         pc'[q] = pc[q], cmd'[q] = cmd[q], side'[q] = side[q], base'[q] = base[q],
         doc'[q] = doc[q], tmp'[q] = tmp[q]
  PROVE  Progress(q)'
  BY DEF Progress, Made, Saving

\* Steps that change neither file nor running configuration keep what is said of them.
LEMMA FileKept == ASSUME FileValid, RuntimeComplete, UNCHANGED <<file, running>>
                  PROVE  FileValid' /\ RuntimeComplete'
  BY DEF FileValid, RuntimeComplete, ServiceAt

LEMMA BeginInv == ASSUME Inv, NEW p \in Procs, NEW c \in Commands, Begin(p, c) PROVE Inv'
<1>1. TypeOK'
  BY DEF Inv, TypeOK, Begin, Goto
<1>2. Progress(p)'
  BY DEF Inv, TypeOK, Begin, Goto, Progress, Saving
<1>3. \A q \in Procs : q # p => Progress(q)'
  BY OthersProgress DEF Inv, TypeOK, Begin, Goto
<1> QED  BY <1>1, <1>2, <1>3, FileKept DEF Inv, Begin

LEMMA CheckInv == ASSUME Inv, NEW p \in Procs, Check(p) PROVE Inv'
<1>1. cmd[p] \in Commands /\ cmd[p] \in Command /\ cmd[p].op # "install" /\ base[p] = EmptyDocument
  BY EditAssumption DEF Inv, Check, Progress
<1> DEFINE s == ResolveSide(cmd[p], Load)
<1>2. s \in Roles \cup {None}
  BY <1>1, ResolveSideType
<1>3. /\ side' = [side EXCEPT ![p] = s]
      /\ \E x \in {"checked", "failed"} :
           /\ pc' = [pc EXCEPT ![p] = x]
           /\ x = "checked" => Passes(cmd[p], s, Load)
  BY DEF Check, Goto
<1>4. Passes(cmd[p], s, Load) /\ cmd[p].op \in {"set", "add"} => s # None
  BY DEF Passes
<1> HIDE DEF s
<1>5. TypeOK'
  BY <1>2, <1>3 DEF Inv, TypeOK, Check
<1>6. Progress(p)'
  BY <1>1, <1>3, <1>4 DEF Inv, TypeOK, Check, Progress, Saving
<1>7. \A q \in Procs : q # p => Progress(q)'
  BY <1>3, OthersProgress DEF Inv, TypeOK, Check
<1> QED  BY <1>5, <1>6, <1>7, FileKept DEF Inv, Check

LEMMA CheckInstallInv == ASSUME Inv, NEW p \in Procs, CheckInstall(p) PROVE Inv'
<1>1. cmd[p] \in Commands /\ cmd[p] \in Command /\ cmd[p].op = "install" /\ base[p] = EmptyDocument
  BY EditAssumption DEF Inv, CheckInstall, Progress
<1> DEFINE sk == Skeleton(cmd[p].role)
<1>2. sk \in Document /\ Validate(sk) /\ Sections(sk) # Roles
  BY <1>1, InstallRole, SkeletonIs
<1>3. \/ doc' = [doc EXCEPT ![p] = sk] /\ pc' = [pc EXCEPT ![p] = "edited"]
      \/ UNCHANGED doc /\ \E x \in {"done", "failed"} : pc' = [pc EXCEPT ![p] = x]
  BY DEF CheckInstall, Goto
<1> HIDE DEF sk
<1>4. TypeOK'
  BY <1>2, <1>3 DEF Inv, TypeOK, CheckInstall
<1>5. Progress(p)'
  BY <1>1, <1>2, <1>3 DEF Inv, TypeOK, CheckInstall, Progress, Made, Saving
<1>6. \A q \in Procs : q # p => Progress(q)'
  BY <1>3, OthersProgress DEF Inv, TypeOK, CheckInstall
<1> QED  BY <1>4, <1>5, <1>6, FileKept DEF Inv, CheckInstall

LEMMA LoadAndEditInv == ASSUME Inv, NEW p \in Procs, LoadAndEdit(p) PROVE Inv'
<1>1. /\ cmd[p] \in Commands /\ cmd[p] \in Command /\ cmd[p].op # "install"
      /\ cmd[p].op \in {"set", "add"} => side[p] # None
      /\ side[p] \in Roles \cup {None}
  BY EditAssumption DEF Inv, TypeOK, LoadAndEdit, Progress
<1>2. Load \in Document /\ (file # Absent => Validate(Load))
  BY LoadType DEF Inv
<1> DEFINE new == Edit(cmd[p], side[p], Load)
<1>3. CASE new # Refused /\ MaySave(cmd[p], new)
  <2>1. EditOf(cmd[p], side[p], Load, new)
    BY <1>1, <1>2, <1>3, EditIs
  <2>2. new \in Document
    BY <2>1 DEF EditOf
  <2>3. Validate(new)
    <3>1. CASE cmd[p].op # "remove"
      BY <1>3, <3>1 DEF MaySave
    <3>2. CASE cmd[p].op = "remove"
      <4>1. file # Absent
        <5> SUFFICES ASSUME file = Absent PROVE FALSE
          OBVIOUS
        <5>1. Load = EmptyDocument
          BY DEF Load
        <5>2. \A r \in Roles : ServiceAt(Load, r, cmd[p].name) = None
          BY <5>1 DEF ServiceAt, EmptyDocument
        <5> QED  BY <1>3, <3>2, <5>2 DEF Edit, RunRemove
      <4> QED  BY <1>2, <2>1, <3>2, <4>1 DEF EditOf
    <3> QED  BY <3>1, <3>2
  <2>4. /\ doc' = [doc EXCEPT ![p] = new] /\ base' = [base EXCEPT ![p] = Load]
        /\ pc' = [pc EXCEPT ![p] = "edited"]
    BY <1>3 DEF LoadAndEdit, Goto
  <2> HIDE DEF new
  <2>5. TypeOK'
    BY <1>2, <2>2, <2>4 DEF Inv, TypeOK, LoadAndEdit
  <2>6. /\ pc'[p] = "edited" /\ doc'[p] = new /\ base'[p] = Load
        /\ UNCHANGED <<cmd, side, tmp>>
    BY <2>4 DEF Inv, TypeOK, LoadAndEdit
  <2>7. Progress(p)'
    BY <1>1, <2>1, <2>3, <2>6 DEF Progress, Made, Saving
  <2>8. \A q \in Procs : q # p => Progress(q)'
    BY <2>4, OthersProgress DEF Inv, TypeOK, LoadAndEdit
  <2> QED  BY <2>5, <2>7, <2>8, FileKept DEF Inv, LoadAndEdit
<1>4. CASE ~(new # Refused /\ MaySave(cmd[p], new))
  <2>1. UNCHANGED <<doc, base>> /\ pc' = [pc EXCEPT ![p] = "failed"]
    BY <1>4 DEF LoadAndEdit, Goto
  <2>2. TypeOK'
    BY <2>1 DEF Inv, TypeOK, LoadAndEdit
  <2>3. Progress(p)'
    BY <1>1, <2>1 DEF Inv, TypeOK, LoadAndEdit, Progress, Saving
  <2>4. \A q \in Procs : q # p => Progress(q)'
    BY <2>1, OthersProgress DEF Inv, TypeOK, LoadAndEdit
  <2> QED  BY <2>2, <2>3, <2>4, FileKept DEF Inv, LoadAndEdit
<1> QED  BY <1>3, <1>4

\* A step of an invocation that only moves on, with its temporary file.
LEMMA MoveInv ==
  ASSUME Inv, NEW p \in Procs, NEW s \in {"written", "secured", "failed", "crashed", "done"},
         NEW t \in {doc[p], tmp[p], None, Partial},
         pc[p] # "idle", pc' = [pc EXCEPT ![p] = s], tmp' = [tmp EXCEPT ![p] = t],
         s \in {"written", "secured"} => pc[p] \in Saving /\ t = doc[p],
         UNCHANGED <<stamp, cmd, side, base, doc>>
  PROVE  /\ TypeOK /\ file' \in Document \cup {Absent} /\ running' \in Document => TypeOK'
         /\ \A q \in Procs : Progress(q)'
<1>1. TypeOK
  BY DEF Inv
<1>2. t \in Document \cup {None, Partial}
  BY <1>1 DEF TypeOK
<1>3. file' \in Document \cup {Absent} /\ running' \in Document => TypeOK'
  BY <1>1, <1>2 DEF TypeOK
<1>4. pc'[p] = s /\ tmp'[p] = t
  BY <1>1 DEF TypeOK
<1>5. Progress(p)'
  <2>1. Progress(p)
    BY DEF Inv
  <2>2. s \in Saving => s \in {"written", "secured"}
    BY DEF Saving
  <2>3. Made(p) => Made(p)'
    BY DEF Made
  <2> QED  BY <1>4, <2>1, <2>2, <2>3 DEF Progress, Saving
<1>6. \A q \in Procs : q # p => Progress(q)'
  BY <1>1, OthersProgress DEF Inv, TypeOK
<1> QED  BY <1>3, <1>5, <1>6

LEMMA WriteTempInv == ASSUME Inv, NEW p \in Procs, WriteTemp(p) PROVE Inv'
<1>1. TypeOK' /\ \A q \in Procs : Progress(q)'
  BY MoveInv DEF WriteTemp, Goto, Saving, Inv, TypeOK
<1> QED  BY <1>1, FileKept DEF Inv, WriteTemp

LEMMA WriteFailsInv == ASSUME Inv, NEW p \in Procs, WriteFails(p) PROVE Inv'
<1>1. TypeOK' /\ \A q \in Procs : Progress(q)'
  BY MoveInv DEF WriteFails, Goto, Inv, TypeOK
<1> QED  BY <1>1, FileKept DEF Inv, WriteFails

LEMMA SecureInv == ASSUME Inv, NEW p \in Procs, Secure(p) PROVE Inv'
<1>1. tmp' = [tmp EXCEPT ![p] = tmp[p]] /\ tmp[p] = doc[p]
  BY DEF Inv, TypeOK, Secure, Progress
<1>2. TypeOK' /\ \A q \in Procs : Progress(q)'
  BY <1>1, MoveInv DEF Secure, Goto, Saving, Inv, TypeOK
<1> QED  BY <1>2, FileKept DEF Inv, Secure

\* The file becomes the copy that was validated.
LEMMA ReplaceIs ==
  ASSUME Inv, NEW p \in Procs, Replace(p)
  PROVE  file' = doc[p] /\ doc[p] \in Document /\ Validate(doc[p]) /\ Made(p)
  BY DEF Inv, TypeOK, Replace, Progress, Saving

LEMMA ReplaceInv == ASSUME Inv, NEW p \in Procs, Replace(p) PROVE Inv'
<1>1. file' = doc[p] /\ doc[p] \in Document /\ Validate(doc[p])
  BY ReplaceIs
<1>2. TypeOK' /\ \A q \in Procs : Progress(q)'
  BY <1>1, MoveInv DEF Replace, Goto, Inv, TypeOK
<1>3. FileValid'
  BY <1>1 DEF FileValid
<1>4. RuntimeComplete'
  BY DEF Inv, Replace, RuntimeComplete, ServiceAt
<1> QED  BY <1>2, <1>3, <1>4 DEF Inv

LEMMA ReplaceFailsInv == ASSUME Inv, NEW p \in Procs, ReplaceFails(p) PROVE Inv'
<1>1. TypeOK' /\ \A q \in Procs : Progress(q)'
  BY MoveInv DEF ReplaceFails, Goto, Inv, TypeOK
<1> QED  BY <1>1, FileKept DEF Inv, ReplaceFails

LEMMA CrashInv == ASSUME Inv, NEW p \in Procs, Crash(p) PROVE Inv'
<1>1. PICK t \in {tmp[p], Partial} : tmp' = [tmp EXCEPT ![p] = t]
  BY DEF Crash
<1>2. TypeOK' /\ \A q \in Procs : Progress(q)'
  BY <1>1, MoveInv DEF Crash, Goto, Inv, TypeOK
<1> QED  BY <1>2, FileKept DEF Inv, Crash

\* The watcher loads a valid file, completed.
LEMMA ReloadInv == ASSUME Inv, Reload PROVE Inv'
<1>1. file \in Document /\ Validate(file)
  BY DEF Inv, TypeOK, Reload
<1>2. running' = Effective(file)
  BY DEF Reload
<1>3. TypeOK'
  BY <1>1, <1>2, EffectiveIs DEF Inv, TypeOK, Reload
<1>4. RuntimeComplete'
  <2>1. \A r \in Roles, n \in Names : ServiceAt(running', r, n) # None =>
          /\ running'[r].services[n].token \in Tokens
          /\ r = "client" => running'[r].services[n].retry = 1
    BY <1>1, <1>2, EffectiveIs
  <2> QED  BY <2>1 DEF RuntimeComplete, ServiceAt
<1>5. FileValid'
  BY DEF Inv, FileValid, Reload
<1>6. \A q \in Procs : Progress(q)'
  BY OthersProgress DEF Inv, Reload
<1> QED  BY <1>3, <1>4, <1>5, <1>6 DEF Inv

\* Every step keeps the invariant.
LEMMA InvStep == ASSUME Inv, [Next]_vars PROVE Inv'
<1>1. CASE Reload
  BY <1>1, ReloadInv
<1>2. ASSUME NEW p \in Procs, Invocation(p) PROVE Inv'
  BY <1>2, BeginInv, CheckInv, CheckInstallInv, LoadAndEditInv, WriteTempInv, WriteFailsInv, SecureInv,
     ReplaceInv, ReplaceFailsInv, CrashInv DEF Invocation
<1>3. CASE UNCHANGED vars
  <2>1. TypeOK' /\ FileValid' /\ RuntimeComplete'
    BY <1>3, FileKept DEF Inv, TypeOK, vars
  <2>2. \A q \in Procs : Progress(q)'
    BY <1>3, OthersProgress DEF Inv, vars
  <2> QED  BY <2>1, <2>2 DEF Inv
<1> QED  BY <1>1, <1>2, <1>3 DEF Next

LEMMA Invariant == Spec => []Inv
<1> QED  BY InvInit, InvStep, PTL DEF Spec

-----------------------------------------------------------------------------
(* The theorems.                                                           *)

\* The state of every invocation and of the file has its type.
THEOREM TypeCorrect == Spec => []TypeOK
<1>1. Inv => TypeOK
  BY DEF Inv
<1> QED  BY <1>1, Invariant, PTL

\* The configuration file is missing or valid at all times, whatever commands
\* run, fail and die next to each other (write_config_atomic).
THEOREM FileAlwaysValid == Spec => []FileValid
<1>1. Inv => FileValid
  BY DEF Inv
<1> QED  BY <1>1, Invariant, PTL

\* What the watcher hands to the runtime has every option filled in.
THEOREM RuntimeAlwaysComplete == Spec => []RuntimeComplete
<1>1. Inv => RuntimeComplete
  BY DEF Inv
<1> QED  BY <1>1, Invariant, PTL

\* Only the replacing of the file ends a save in success.
LEMMA DoneIsReplace ==
  ASSUME Inv, [Next]_vars, NEW p \in Procs, pc[p] = "secured", pc'[p] = "done"
  PROVE  Replace(p)
<1>1. pc \in [Procs -> {"idle", "begun", "checked", "edited", "written", "secured", "done",
                        "failed", "crashed"}]
  BY DEF Inv, TypeOK
<1>2. ~UNCHANGED pc
  OBVIOUS
<1>3. PICK q \in Procs : Invocation(q)
  BY <1>2 DEF Next, Reload, vars
<1>4. q = p
  <2> SUFFICES ASSUME q # p PROVE pc'[p] = pc[p]
    OBVIOUS
  <2>1. \E s : pc' = [pc EXCEPT ![q] = s]
    BY <1>3 DEF Invocation, Begin, Check, CheckInstall, LoadAndEdit, WriteTemp, WriteFails, Secure,
                Replace, ReplaceFails, Crash, Goto
  <2> QED  BY <1>1, <2>1
<1> QED  BY <1>1, <1>3, <1>4 DEF Invocation, Begin, Check, CheckInstall, LoadAndEdit, WriteTemp,
            WriteFails, Secure, Replace, ReplaceFails, Crash, Goto

\* Every successful edit keeps what it was not told to change and leaves what
\* it reports as added (run_set, run_add, run_remove, run_import).
THEOREM EditsAreExact == Spec => EditExact
<1>1. ASSUME Inv, [Next]_vars, NEW p \in Procs, pc[p] = "secured", pc'[p] = "done"
      PROVE  /\ base[p] = Load =>
                  \A r \in Roles, n \in Names : ServiceAt(Load, r, n) # None =>
                    \/ ServiceAt(file', r, n) = ServiceAt(Load, r, n)
                    \/ cmd[p].op = "remove" /\ cmd[p].name = n
             /\ \A n \in Reported(cmd[p]) : \E r \in Roles : ServiceAt(file', r, n) # None
  <2>1. file' = doc[p] /\ Made(p)
    BY <1>1, DoneIsReplace, ReplaceIs
  <2>2. CASE cmd[p].op = "install" /\ base[p] = EmptyDocument
    <3>1. base[p] = Load => \A r \in Roles, n \in Names : ServiceAt(Load, r, n) = None
      BY <2>2 DEF ServiceAt, EmptyDocument
    <3>2. Reported(cmd[p]) = {}
      BY <2>2 DEF Reported
    <3> QED  BY <3>1, <3>2
  <2>3. CASE EditOf(cmd[p], side[p], base[p], doc[p])
    BY <2>1, <2>3 DEF EditOf, Keeps
  <2> QED  BY <2>1, <2>2, <2>3 DEF Made
<1> DEFINE A == \A p \in Procs : pc[p] = "secured" /\ pc'[p] = "done" =>
                  /\ base[p] = Load =>
                       \A r \in Roles, n \in Names : ServiceAt(Load, r, n) # None =>
                         \/ ServiceAt(file', r, n) = ServiceAt(Load, r, n)
                         \/ cmd[p].op = "remove" /\ cmd[p].name = n
                  /\ \A n \in Reported(cmd[p]) : \E r \in Roles : ServiceAt(file', r, n) # None
<1>2. Inv /\ [Next]_vars => [A]_vars
  BY <1>1
<1>3. EditExact <=> [][A]_vars
  BY DEF EditExact
<1> HIDE DEF A
<1> QED  BY <1>2, <1>3, Invariant, PTL DEF Spec

\* No command but a batch of additions makes a configuration of one role one of
\* two (ensure_role_allows).
THEOREM RolesAreKept == Spec => RoleKept
<1>1. ASSUME Inv, [Next]_vars, NEW p \in Procs, pc[p] = "secured", pc'[p] = "done",
             Sections(file') = Roles
      PROVE  Sections(base[p]) = Roles \/ cmd[p].op = "batch"
  <2>1. file' = doc[p] /\ Made(p)
    BY <1>1, DoneIsReplace, ReplaceIs
  <2> QED  BY <1>1, <2>1 DEF Made, EditOf
<1> DEFINE A == \A p \in Procs : pc[p] = "secured" /\ pc'[p] = "done" /\ Sections(file') = Roles =>
                  Sections(base[p]) = Roles \/ cmd[p].op = "batch"
<1>2. Inv /\ [Next]_vars => [A]_vars
  BY <1>1
<1>3. RoleKept <=> [][A]_vars
  BY DEF RoleKept
<1> HIDE DEF A
<1> QED  BY <1>2, <1>3, Invariant, PTL DEF Spec

-----------------------------------------------------------------------------
(* The editor implements the store.                                        *)

Outcomes == [p \in Procs |-> Outcome(p)]

\* The store's checks are the editor's.
LEMMA StoreValidate == ASSUME NEW d PROVE Store!Validate(d) <=> Validate(d)
  BY DEF Store!Validate, Store!Parses, Store!ValidateServer, Store!ValidateClient, Store!ValidateTokens,
         Store!EffectiveToken, Store!ServiceType, Store!BindAddrsDistinct, Store!ValidateTransport,
         Store!EmptyDocument, Store!Roles, Validate, Parses, ValidateServer, ValidateClient,
         ValidateTokens, EffectiveToken, ServiceType, BindAddrsDistinct, ValidateTransport,
         EmptyDocument, Roles

\* A step of one invocation changes no other's outcome.
LEMMA OutcomeStep ==
  ASSUME TypeOK, NEW p \in Procs, NEW s, pc' = [pc EXCEPT ![p] = s]
  PROVE  Outcomes' = [Outcomes EXCEPT ![p] = Outcome(p)']
<1>1. \A q \in Procs : q # p => pc'[q] = pc[q]
  BY DEF TypeOK
<1>2. \A q \in Procs : q # p => Outcome(q)' = Outcome(q)
  BY <1>1 DEF Outcome
<1> QED  BY <1>2 DEF Outcomes

\* A step within a command is none of the store's.
LEMMA RunningOn ==
  ASSUME TypeOK, NEW p \in Procs, NEW s, pc' = [pc EXCEPT ![p] = s], UNCHANGED file,
         pc[p] \notin {"done", "failed", "crashed"}, s \notin {"done", "failed", "crashed"}
  PROVE  UNCHANGED Store!svars
<1>1. Outcome(p) = "running" /\ Outcome(p)' = "running"
  BY DEF TypeOK, Outcome
<1>2. Outcomes' = Outcomes
  BY <1>1, OutcomeStep DEF Outcomes
<1> QED  BY <1>2 DEF Store!svars, Outcomes

\* An error changes nothing.
LEMMA Failing ==
  ASSUME TypeOK, NEW p \in Procs, NEW s \in {"failed", "crashed"}, pc' = [pc EXCEPT ![p] = s],
         UNCHANGED file, pc[p] \notin {"done", "failed", "crashed"}
  PROVE  Store!Fail(p)
<1>1. Outcome(p) = "running" /\ Outcome(p)' = "error"
  BY DEF TypeOK, Outcome
<1> QED  BY <1>1, OutcomeStep DEF Store!Fail, Outcomes

\* A success leaves the file or makes it another valid one.
LEMMA Succeeding ==
  ASSUME TypeOK, NEW p \in Procs, pc' = [pc EXCEPT ![p] = "done"],
         file' # file => Validate(file'), pc[p] \notin {"done", "failed", "crashed"}
  PROVE  Store!Succeed(p)
<1>1. Outcome(p) = "running" /\ Outcome(p)' = "ok"
  BY DEF TypeOK, Outcome
<1>2. Store!Validate(file') <=> Validate(file')
  BY StoreValidate
<1> QED  BY <1>1, <1>2, OutcomeStep DEF Store!Succeed, Outcomes

\* Each step of an invocation is a step of the store, or none.
LEMMA InvocationStep ==
  ASSUME Inv, NEW p \in Procs, Invocation(p)
  PROVE  Store!Succeed(p) \/ Store!Fail(p) \/ UNCHANGED Store!svars
<1> USE DEF Goto
<1>1. TypeOK
  BY DEF Inv
<1>2. ASSUME NEW c \in Commands, Begin(p, c) PROVE UNCHANGED Store!svars
  BY <1>1, <1>2, RunningOn DEF Begin
<1>3. CASE Check(p)
  BY <1>1, <1>3, RunningOn, Failing DEF Check
<1>4. CASE CheckInstall(p)
  BY <1>1, <1>4, RunningOn, Failing, Succeeding DEF CheckInstall
<1>5. CASE LoadAndEdit(p)
  BY <1>1, <1>5, RunningOn, Failing DEF LoadAndEdit
<1>6. CASE WriteTemp(p)
  BY <1>1, <1>6, RunningOn DEF WriteTemp
<1>7. CASE WriteFails(p) \/ ReplaceFails(p) \/ Crash(p)
  BY <1>1, <1>7, Failing DEF WriteFails, ReplaceFails, Crash
<1>8. CASE Secure(p)
  BY <1>1, <1>8, RunningOn, Failing DEF Secure
<1>9. CASE Replace(p)
  BY <1>1, <1>9, ReplaceIs, Succeeding DEF Replace
<1> QED  BY <1>2, <1>3, <1>4, <1>5, <1>6, <1>7, <1>8, <1>9, Invocation(p) DEF Invocation

\* All or nothing: the commands of the editor implement atomic changes of the
\* file (the load, edit and save of every run_ function of config_edit.rs).
THEOREM EditorImplementsStore == Spec => ImplementsStore
<1>1. Init => Store!Init
  <2> SUFFICES ASSUME Init PROVE Store!Init
    OBVIOUS
  <2>1. file = Absent \/ Validate(file)
    BY EditAssumption DEF Init
  <2>2. \A p \in Procs : Outcome(p) = "running"
    BY DEF Init, Outcome
  <2> QED  BY <2>1, <2>2, StoreValidate DEF Store!Init, Store!Acceptable
<1>2. ASSUME Inv, [Next]_vars PROVE [Store!Next]_(Store!svars)
  <2>1. CASE Reload
    BY <2>1 DEF Reload, Store!svars, Outcome
  <2>2. ASSUME NEW p \in Procs, Invocation(p) PROVE Store!Next \/ UNCHANGED Store!svars
    BY <1>2, <2>2, InvocationStep DEF Store!Next
  <2>3. CASE UNCHANGED vars
    BY <2>3 DEF vars, Store!svars, Outcome
  <2> QED  BY <1>2, <2>1, <2>2, <2>3 DEF Next
<1> QED  BY <1>1, <1>2, Invariant, PTL DEF Spec, ImplementsStore, Store!Spec
=============================================================================
