--------------------------- MODULE SubscriberPortal ---------------------------
(* The subscriber portal's own listener (web/server.go bindSubscriberListener)   *)
(* and what decides about it: the subscription record, saved from the panel      *)
(* (web/auth.go) or rewritten by an issued certificate (web/tls.go), and the     *)
(* key pairs on disk.                                                            *)
(*                                                                               *)
(* Handlers are requests of the panel; the Issuer is the one issuance that may   *)
(* run, started by a request or by the daily renewal.  Each section under a lock, *)
(* each file renamed, the listen, the shutdown and the start of the goroutine    *)
(* that serves a new socket is a step.  The ACME exchange is one step that       *)
(* succeeds or fails.  The panel is on HTTPS; titles, themes and the daemon's    *)
(* end are left out, and a pair may come due for renewal but does not run out.   *)
EXTENDS Integers, FiniteSets

CONSTANTS
    Handlers, Issuer,
    Ports, PanelPort,  \* portal ports, and the panel's (or none)
    Names, Panel,      \* portal domains, and the panel's (or none)
    Starts,            \* records the daemon may have come up with
    Ageing,            \* names whose pairs come due
    NoSrv, NoRec, Nobody, NoName, NoPort,
    StoreFails,        \* whether the database may refuse a record
    MaxRequests, MaxIssues, MaxForeign   \* bounds

Procs    == Handlers \cup {Issuer}
AllNames == Names \cup {Panel}

\* The subscription record: Enabled, Port, Domain.
Rec == [ on : BOOLEAN, port : Ports \cup {PanelPort}, name : AllNames ]

ASSUME PortalAssumption ==
    /\ PanelPort \notin Ports /\ Panel \notin Names /\ Issuer \notin Handlers
    /\ Nobody \notin Procs /\ NoSrv \notin [ port : Ports, name : AllNames, serial : Nat, shut : BOOLEAN ]
    /\ Starts \subseteq Rec /\ Ageing \subseteq AllNames /\ StoreFails \in BOOLEAN

VARIABLES
    rec,     \* WebServer.subSettings and its stored copy, written under one lock
    crt, key,  \* which certificate, and which key, is on disk for a name (0: none)
    due,     \* names inside the renewal window
    srv,     \* WebServer.subServer: its port, the certificate it loaded, if it was shut down
    sock,    \* who has a port
    mu,      \* subListenMu
    proc,    \* program counter and locals of every process
    down,    \* the daemon has crashed
    requests, issues, foreigners,
    told,    \* history: record and listener differ, and the operator was told
    rebound, \* history: the last bind to end succeeded
    overlap, \* history: a request or issuance began while another was going on
    overtaken  \* history: a rebind came before a socket's goroutine

vars == << rec, crt, key, due, srv, sock, mu, proc, down, requests, issues, foreigners,
           told, rebound, overlap, overtaken >>
disk    == << crt, key, due >>
counts  == << requests, issues, foreigners >>
history == << told, rebound, overlap, overtaken >>

Idle == [ pc |-> "idle", kind |-> "", rec |-> NoRec, prev |-> NoRec, name |-> NoName,
          port |-> NoPort, serial |-> 0, again |-> FALSE ]

Become(p, f) == proc' = [proc EXCEPT ![p] = f]
Move(p, pc)  == Become(p, [proc[p] EXCEPT !.pc = pc])
Finished(p)  == Become(p, Idle)

\* A server of a record's port with the pair that is on disk for its name.
Server(r) == [ port |-> r.port, name |-> r.name, serial |-> crt[r.name], shut |-> FALSE ]
Wanted(r) == r.on /\ r.port # PanelPort

\* The daemon is up: Start has bound the listener the record asks for.
Init ==
    /\ rec \in Starts
    /\ crt = [n \in AllNames |-> IF n \in {rec.name, Panel} THEN 1 ELSE 0] /\ key = crt
    /\ due = {}
    /\ srv = IF Wanted(rec) THEN Server(rec) ELSE NoSrv
    /\ sock = [q \in Ports |-> IF Wanted(rec) /\ q = rec.port THEN "spawned" ELSE "free"]
    /\ mu = Nobody
    /\ proc = [p \in Procs |-> Idle]
    /\ down = FALSE
    /\ requests = 0 /\ issues = 0 /\ foreigners = 0
    /\ told = FALSE /\ rebound = TRUE /\ overlap = FALSE /\ overtaken = FALSE

\* ValidatePanelCertificate and tls.LoadX509KeyPair: there is a pair, and it is one.
Valid(n) == crt[n] > 0 /\ crt[n] = key[n]

Busy(p)   == proc[p].pc \notin {"idle", "issue", "crt", "key"}
Begins(p) == overlap' = (overlap \/ \E q \in Procs \ {p} : Busy(q))

Request == requests < MaxRequests /\ requests' = requests + 1

------------------------------------------------------------------------------
(* handleSubscriptionSettings *)

\* sanitizeSubscriptionSnapshot and validateSubscriptionCertificate.
Sanitized(r) == r.name = Panel \/ (r.port # PanelPort /\ Valid(r.name))

SaveBegin(h, r) ==
    /\ proc[h].pc = "idle" /\ ~down /\ Request
    /\ Sanitized(r)
    /\ Become(h, [Idle EXCEPT !.pc = "save", !.kind = "save", !.rec = r])
    /\ Begins(h)
    /\ UNCHANGED << rec, disk, srv, sock, mu, down, issues, foreigners, told, rebound, overtaken >>

\* Apply; a record that cannot be stored is put back.
Save(p) ==
    /\ proc[p].pc = "save"
    /\ \/ rec' = proc[p].rec /\ Move(p, "lock")
       \/ StoreFails /\ Finished(p) /\ UNCHANGED rec
    /\ UNCHANGED << disk, srv, sock, mu, down, counts, history >>

------------------------------------------------------------------------------
(* handleTLSSettings and applyIssuedPurpose, for the subscription *)

\* The domain is cleared, or its pair is on disk already.
ApplyBegin(h, n) ==
    /\ proc[h].pc = "idle" /\ ~down /\ Request
    /\ n = Panel \/ Valid(n)
    /\ Become(h, [Idle EXCEPT !.pc = "snapshot", !.name = n])
    /\ Begins(h)
    /\ UNCHANGED << rec, disk, srv, sock, mu, down, issues, foreigners, told, rebound, overtaken >>

Snapshot(p) ==
    /\ proc[p].pc = "snapshot"
    /\ Become(p, [proc[p] EXCEPT !.pc = "save", !.kind = "apply", !.prev = rec,
                                 !.rec = [rec EXCEPT !.name = proc[p].name]])
    /\ UNCHANGED << rec, disk, srv, sock, mu, down, counts, history >>

\* The listener could not be rebound.  If the record cannot be put back either, the
\* log has to tell.
Rollback(p) ==
    /\ proc[p].pc = "rollback"
    /\ \/ /\ rec' = proc[p].prev
          /\ Become(p, [proc[p] EXCEPT !.pc = "lock", !.again = TRUE])
          /\ UNCHANGED told
       \/ /\ StoreFails /\ Finished(p) /\ told' = TRUE
          /\ UNCHANGED rec
    /\ UNCHANGED << disk, srv, sock, mu, down, counts, rebound, overlap, overtaken >>

------------------------------------------------------------------------------
(* startACMEIssuance, renewPurposeIfDue, runEmbeddedACME *)

Age(n) ==
    /\ n \in Ageing \ due /\ Valid(n)
    /\ due' = due \cup {n}
    /\ UNCHANGED << rec, crt, key, srv, sock, mu, proc, down, counts, history >>

IssueBegin(n) ==
    /\ proc[Issuer].pc = "idle" /\ ~down   \* acmeRunning
    /\ issues < MaxIssues /\ issues' = issues + 1
    /\ Become(Issuer, [Idle EXCEPT !.pc = "issue", !.name = n])
    /\ UNCHANGED << rec, disk, srv, sock, mu, down, foreigners, history >>

\* A request for a name without a pair.
RequestIssue(n) == Request /\ n \in Names /\ ~Valid(n) /\ IssueBegin(n)

\* RenewIfDue, RenewSubscriptionIfDue.
Renew(n) ==
    /\ n \in due \/ ~Valid(n)
    /\ n = Panel \/ (rec.on /\ rec.name = n)
    /\ IssueBegin(n) /\ UNCHANGED requests

Issue ==
    /\ proc[Issuer].pc = "issue"
    /\ Move(Issuer, "crt") \/ Finished(Issuer)
    /\ UNCHANGED << rec, disk, srv, sock, mu, down, counts, history >>

\* Persist: the certificate is renamed into place, then the key.
PersistCrt ==
    LET n == proc[Issuer].name IN
    /\ proc[Issuer].pc = "crt"
    /\ crt' = [crt EXCEPT ![n] = @ + 1] /\ due' = due \ {n}
    /\ Move(Issuer, "key")
    /\ UNCHANGED << rec, key, srv, sock, mu, down, counts, history >>

\* The panel's own pair is for the panel's listener, a portal name's for the portal's.
PersistKey ==
    LET n == proc[Issuer].name IN
    /\ proc[Issuer].pc = "key"
    /\ key' = [key EXCEPT ![n] = crt[n]]
    /\ IF n = Panel THEN Finished(Issuer) /\ UNCHANGED overlap
       ELSE Move(Issuer, "snapshot") /\ Begins(Issuer)
    /\ UNCHANGED << rec, crt, due, srv, sock, mu, down, counts, told, rebound, overtaken >>

------------------------------------------------------------------------------
(* bindSubscriberListener *)

\* What its caller does with the outcome.  Only a save leaves the record as it is.
Bound(p) == Finished(p) /\ told' = FALSE /\ rebound' = TRUE
Unbound(p) ==
    /\ rebound' = FALSE
    /\ IF proc[p].kind = "apply" /\ ~proc[p].again
       THEN Move(p, "rollback") /\ UNCHANGED told
       ELSE Finished(p) /\ told' = (told \/ proc[p].kind = "save")

\* Shutdown closes the sockets being served, not one whose goroutine has yet to start.
Closed     == [q \in Ports |-> IF sock[q] = "serving" THEN "free" ELSE sock[q]]
Overtakes  == overtaken' = (overtaken \/ \E q \in Ports : sock[q] = "spawned")

\* Fault: it does not wait.
BindBeginUnlocked(p) ==
    /\ proc[p].pc = "lock"
    /\ mu' = p
    /\ Move(p, IF rec.on THEN "listen" ELSE "retire")
    /\ UNCHANGED << rec, disk, srv, sock, down, counts, history >>

BindBegin(p) ==
    /\ proc[p].pc = "lock" /\ mu = Nobody
    /\ mu' = p
    /\ Move(p, IF rec.on THEN "listen" ELSE "retire")
    /\ UNCHANGED << rec, disk, srv, sock, down, counts, history >>

\* The portal is off: Shutdown, then the field is cleared.
Retire(p) ==
    /\ proc[p].pc = "retire"
    /\ srv' = IF srv = NoSrv THEN NoSrv ELSE [srv EXCEPT !.shut = TRUE]
    /\ sock' = Closed /\ Overtakes
    /\ Move(p, "clear")
    /\ UNCHANGED << rec, disk, mu, down, counts, told, rebound, overlap >>

Clear(p) ==
    /\ proc[p].pc = "clear"
    /\ srv' = NoSrv /\ Overtakes
    /\ mu' = Nobody
    /\ Bound(p)
    /\ UNCHANGED << rec, disk, sock, down, counts, overlap >>

\* The panel's own port needs no listener.
NoListen(p) ==
    /\ proc[p].pc = "listen" /\ rec.port = PanelPort
    /\ mu' = Nobody
    /\ Bound(p)
    /\ UNCHANGED << rec, disk, srv, sock, down, counts, overlap, overtaken >>

ListenFails(p) ==
    /\ proc[p].pc = "listen" /\ rec.port # PanelPort /\ sock[rec.port] # "free"
    /\ mu' = Nobody
    /\ Unbound(p)
    /\ UNCHANGED << rec, disk, srv, sock, down, counts, overlap, overtaken >>

\* Fault: the port the request was about.
ListenRequested(p) ==
    LET q == proc[p].rec.port IN
    /\ proc[p].pc = "listen" /\ q # PanelPort /\ sock[q] = "free"
    /\ sock' = [sock EXCEPT ![q] = "bound"]
    /\ Become(p, [proc[p] EXCEPT !.pc = "tls", !.port = q])
    /\ UNCHANGED << rec, disk, srv, mu, down, counts, history >>

\* Fault: the listener there is is shut down first.
ListenLast(p) ==
    LET q == rec.port IN
    /\ proc[p].pc = "listen" /\ q # PanelPort /\ Closed[q] = "free"
    /\ sock' = [Closed EXCEPT ![q] = "bound"]
    /\ srv' = NoSrv
    /\ Become(p, [proc[p] EXCEPT !.pc = "tls", !.port = q])
    /\ UNCHANGED << rec, disk, mu, down, counts, history >>

Listen(p) ==
    LET q == rec.port IN
    /\ proc[p].pc = "listen" /\ q # PanelPort /\ sock[q] = "free"
    /\ sock' = [sock EXCEPT ![q] = "bound"]
    /\ Become(p, [proc[p] EXCEPT !.pc = "tls", !.port = q])
    /\ UNCHANGED << rec, disk, srv, mu, down, counts, history >>

\* subscriberTLSConfig looks at the record again, and at the disk.
LoadPair(p) ==
    /\ proc[p].pc = "tls" /\ Valid(rec.name)
    /\ Become(p, [proc[p] EXCEPT !.pc = "shutdown", !.name = rec.name, !.serial = crt[rec.name]])
    /\ UNCHANGED << rec, disk, srv, sock, mu, down, counts, history >>

\* Fault: the new socket stays open.
LoadFailsOpen(p) ==
    /\ proc[p].pc = "tls" /\ ~Valid(rec.name)
    /\ mu' = Nobody
    /\ Unbound(p)
    /\ UNCHANGED << rec, disk, srv, sock, down, counts, overlap, overtaken >>

LoadFails(p) ==
    /\ proc[p].pc = "tls" /\ ~Valid(rec.name)
    /\ sock' = [sock EXCEPT ![proc[p].port] = "free"]
    /\ mu' = Nobody
    /\ Unbound(p)
    /\ UNCHANGED << rec, disk, srv, down, counts, overlap, overtaken >>

ShutOld(p) ==
    /\ proc[p].pc = "shutdown"
    /\ srv' = IF srv = NoSrv THEN NoSrv ELSE [srv EXCEPT !.shut = TRUE]
    /\ sock' = Closed /\ Overtakes
    /\ Move(p, "install")
    /\ UNCHANGED << rec, disk, mu, down, counts, told, rebound, overlap >>

Install(p) ==
    LET f == proc[p] IN
    /\ f.pc = "install"
    /\ srv' = [ port |-> f.port, name |-> f.name, serial |-> f.serial, shut |-> FALSE ]
    /\ sock' = [sock EXCEPT ![f.port] = "spawned"] /\ Overtakes
    /\ mu' = Nobody
    /\ Bound(p)
    /\ UNCHANGED << rec, disk, down, counts, overlap >>

\* The goroutine serves its socket with whatever server it finds in the field; one that
\* was shut down closes the socket.
Serve(q) ==
    /\ sock[q] = "spawned" /\ srv # NoSrv
    /\ sock' = [sock EXCEPT ![q] = IF srv.shut THEN "free" ELSE "serving"]
    /\ UNCHANGED << rec, disk, srv, mu, proc, down, counts, history >>

\* It finds none: a nil dereference, and the daemon is gone.
ServeNone(q) ==
    /\ sock[q] = "spawned" /\ srv = NoSrv
    /\ down' = TRUE
    /\ sock' = [r \in Ports |-> IF sock[r] = "foreign" THEN "foreign" ELSE "free"]
    /\ proc' = [p \in Procs |-> Idle] /\ mu' = Nobody
    /\ UNCHANGED << rec, disk, srv, counts, history >>

\* Start, in a new process: a listener that cannot be bound is fatal.  What a panel without
\* a usable pair does first (StartACMEIfNeeded) is left out.
Restart ==
    /\ down /\ down' = FALSE
    /\ Wanted(rec) => sock[rec.port] = "free" /\ Valid(rec.name)
    /\ srv' = IF Wanted(rec) THEN Server(rec) ELSE NoSrv
    /\ sock' = IF Wanted(rec) THEN [sock EXCEPT ![rec.port] = "spawned"] ELSE sock
    /\ told' = FALSE /\ rebound' = TRUE /\ overlap' = FALSE /\ overtaken' = FALSE
    /\ UNCHANGED << rec, disk, mu, proc, counts >>

------------------------------------------------------------------------------
\* Another program takes a port, and gives it back.
ForeignTakes(q) ==
    /\ sock[q] = "free" /\ foreigners < MaxForeign
    /\ sock' = [sock EXCEPT ![q] = "foreign"] /\ foreigners' = foreigners + 1
    /\ UNCHANGED << rec, disk, srv, mu, proc, down, requests, issues, history >>

ForeignLeaves(q) ==
    /\ sock[q] = "foreign"
    /\ sock' = [sock EXCEPT ![q] = "free"]
    /\ UNCHANGED << rec, disk, srv, mu, proc, down, counts, history >>

Bind(p) ==
    \/ BindBegin(p) \/ Retire(p) \/ Clear(p) \/ NoListen(p) \/ Listen(p) \/ ListenFails(p)
    \/ LoadPair(p) \/ LoadFails(p) \/ ShutOld(p) \/ Install(p)

Next ==
    \/ \E h \in Handlers, r \in Rec : SaveBegin(h, r)
    \/ \E h \in Handlers, n \in AllNames : ApplyBegin(h, n)
    \/ \E p \in Procs : Save(p) \/ Snapshot(p) \/ Rollback(p) \/ Bind(p)
    \/ \E n \in AllNames : Age(n) \/ RequestIssue(n) \/ Renew(n)
    \/ Issue \/ PersistCrt \/ PersistKey
    \/ \E q \in Ports : Serve(q) \/ ServeNone(q) \/ ForeignTakes(q) \/ ForeignLeaves(q)
    \/ Restart

Spec == Init /\ [][Next]_vars

------------------------------------------------------------------------------
(* Properties *)

LockedPCs == { "listen", "tls", "shutdown", "install", "retire", "clear" }
PCs == LockedPCs \cup { "idle", "save", "snapshot", "lock", "rollback", "issue", "crt", "key" }

Frame == [ pc : PCs, kind : {"", "save", "apply"}, rec : Rec \cup {NoRec},
           prev : Rec \cup {NoRec}, name : AllNames \cup {NoName},
           port : Ports \cup {NoPort}, serial : Nat, again : BOOLEAN ]

Srv == [ port : Ports, name : AllNames, serial : Nat \ {0}, shut : BOOLEAN ]
Sock == { "free", "foreign", "bound", "spawned", "serving" }
BoundPCs == { "tls", "shutdown", "install" }

\* What a process at a point of its program has to have: the lock, a record to store or
\* to restore, a name, a port, a certificate that loaded.
FrameOK(p) ==
    LET f == proc[p] IN
    /\ f.pc \in LockedPCs <=> mu = p
    /\ f.pc = "save" => f.rec \in Rec
    /\ f.pc = "rollback" => f.kind = "apply"
    /\ f.kind = "apply" => f.prev \in Rec
    /\ f.pc \in {"snapshot", "issue", "crt", "key", "shutdown", "install"} => f.name \in AllNames
    /\ f.pc \in BoundPCs => f.port \in Ports
    /\ f.pc \in {"shutdown", "install"} => f.serial > 0

\* Types, and that every process has what its next step needs: who binds holds
\* subListenMu, and what is about to be stored or served is a record or a certificate.
TypeOK ==
    /\ rec \in Rec
    /\ crt \in [AllNames -> Nat] /\ key \in [AllNames -> Nat] /\ due \subseteq AllNames
    /\ srv \in Srv \cup {NoSrv}
    /\ sock \in [Ports -> Sock]
    /\ mu \in Procs \cup {Nobody}
    /\ proc \in [Procs -> Frame] /\ \A p \in Procs : FrameOK(p)
    /\ down \in BOOLEAN /\ told \in BOOLEAN /\ rebound \in BOOLEAN
    /\ overlap \in BOOLEAN /\ overtaken \in BOOLEAN
    /\ requests \in Nat /\ issues \in Nat /\ foreigners \in Nat

\* Someone serves subscribers, or is about to: a bound socket queues connections.
Up == \/ \E q \in Ports : sock[q] \in {"spawned", "serving"}
      \/ \E p \in Procs : proc[p].pc = "install"

\* Binding first "means a failed replacement leaves the working listener exactly where
\* it was" (bindSubscriberListener): whatever saves, issuances and other programs do to
\* each other, subscribers lose their listener only if a bind found the portal disabled.
KeepsListening ==
    [][(Up /\ ~Up') => down' \/ \E p \in Procs : proc[p].pc \in {"retire", "clear"}]_vars

\* No socket is lost: one that is bound belongs to a bind that will serve or close it,
\* and one that is served to the current server's port, unless one bind came so close
\* behind another that the goroutine found the wrong server.
SocketsAccounted ==
    \A q \in Ports :
        /\ sock[q] = "bound" => \E p \in Procs : proc[p].pc \in LockedPCs /\ proc[p].port = q
        /\ (sock[q] = "serving" /\ ~overtaken) => srv # NoSrv /\ srv.port = q

Quiet == ~down /\ \A p \in Procs : ~Busy(p)

\* A server with a socket at its port that is served, or about to be.
Running == srv # NoSrv /\ ~srv.shut /\ sock[srv.port] \in {"spawned", "serving"}

\* The listener that the record asks for: none, or one that runs on its port for its name.
Agree ==
    /\ ~rec.on => srv = NoSrv
    /\ Wanted(rec) => Running /\ srv.port = rec.port /\ srv.name = rec.name

\* Between requests the listener is the one the record asks for ("so it matches the
\* current subscription record").  Without overlaps this includes an apply that failed
\* and was rolled back, and excludes a save whose failure the operator was told
\* (listener_error); with overlaps it holds whenever the last bind succeeded.
RecordServed == (Quiet /\ ((~overlap /\ ~told) \/ rebound)) => Agree

\* The comment in applyIssuedPurpose: "Rebind so the OLD domain's cert stops being
\* served this moment: the bind path shuts the previous listener down before binding
\* the new one, and the new listener serves the new pair."
IssuedServed ==
    (Quiet /\ ~overlap /\ ~told /\ srv # NoSrv /\ proc[Issuer].pc = "idle")
        => srv.serial = crt[srv.name]
=============================================================================
