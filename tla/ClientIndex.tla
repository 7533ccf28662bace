------------------------------ MODULE ClientIndex ------------------------------
(* Who an address belongs to: the accounts in the database (database/           *)
(* client_repo.go) and the index of them every DNS query is answered from       *)
(* (service/client_service.go).                                                 *)
(*                                                                              *)
(* Operators edit accounts from the panel: read, change, save the whole record, *)
(* then rebuild the index from a fresh list of all.  Portals are subscribers'   *)
(* registrations of their current address: one record, one account's entries of *)
(* the index.  The sweeper disables what has expired.  Each transaction and each *)
(* section under the index's lock is a step.  Refusals that change nothing are  *)
(* left out, as are usage counters (TrafficMetering) and the fields the         *)
(* resolver does not look at.  Listing fails only once the database is closed.  *)
EXTENDS Integers, Sequences, SequencesExt, FiniteSets, FiniteSetsExt

CONSTANTS
    Accounts,     \* how many accounts there may be
    Ips,          \* canonical addresses
    Operators, Portals, Sweeper,
    Edits,        \* the kinds of requests the operators make
    Starts,       \* what may be in the database at first
    NoRec, NoId, NoIp,
    Term,         \* how long a new or renewed account is valid
    MaxTime, MaxRequests, MaxVisits   \* bounds

Procs == Operators \cup Portals \cup {Sweeper}
Ids   == 1 .. Accounts   \* in the order of their keys
Kinds == { "toggle", "renew", "ip", "remove", "update", "domain", "secret" }

\* A record: enabled, when it expires (0: never), its addresses, oldest first, and
\* how many of them it may have.
IpLists == { l \in UNION { [1 .. n -> Ips] : n \in 0 .. Cardinality(Ips) } :
               \A i, j \in DOMAIN l : l[i] = l[j] => i = j }
Rec     == [ on : BOOLEAN, exp : Nat, ips : IpLists, max : Nat \ {0} ]

ASSUME IndexAssumption ==
    /\ Accounts \in Nat /\ IsFiniteSet(Ips) /\ Term \in Nat \ {0}
    /\ Starts \subseteq [Ids -> Rec \cup {NoRec}] /\ Edits \subseteq Kinds \cup {"provision", "delete"}
    /\ Operators \cap Portals = {} /\ Sweeper \notin Operators \cup Portals
    /\ NoId \notin Ids /\ NoRec \notin Rec

VARIABLES
    now,       \* the clock
    db,        \* the clients bucket
    idMap,     \* ClientService.idMap (tokenMap and uuidMap hold the same records)
    ipClients, \* ClientService.ipClients, ids for pointers
    ipMap,     \* ClientService.ipMap
    born,      \* ids that were given out
    proc,      \* program counter and locals of every process
    requests, visits,  \* how many requests and registrations there were
    clash      \* history: someone wrote while another held what it had read

index == << idMap, ipClients, ipMap >>
vars  == << now, db, index, born, proc, requests, visits, clash >>

------------------------------------------------------------------------------
(* The index *)

Expired(r, t) == r.exp # 0 /\ t > r.exp
Active(r, t)  == r.on /\ ~Expired(r, t)
Served(r, t)  == r.on /\ (r.exp = 0 \/ t < r.exp)

\* An index is a record here, so that its rebuilding is a fold over the accounts.
Index == [ recs |-> idMap, lists |-> ipClients, tops |-> ipMap ]
EmptyIndex == [ recs |-> [i \in Ids |-> NoRec], lists |-> [p \in Ips |-> << >>],
                tops |-> [p \in Ips |-> NoId] ]

Installed(ix) == idMap' = ix.recs /\ ipClients' = ix.lists /\ ipMap' = ix.tops

\* indexLocked: every account by its id, the active ones by their addresses.
Filed(ix, i, r) ==
    LET mine == IF Active(r, now) THEN Range(r.ips) ELSE {}
    IN  [ recs  |-> [ix.recs EXCEPT ![i] = r],
          lists |-> [p \in Ips |-> IF p \in mine THEN Append(ix.lists[p], i) ELSE ix.lists[p]],
          tops  |-> [p \in Ips |-> IF p \in mine THEN i ELSE ix.tops[p]] ]

\* A list without one of its elements: a loop that copies the others.
Without(s, e) ==
    LET f[n \in 0 .. Len(s)] ==
            IF n = 0 THEN << >> ELSE IF s[n] = e THEN f[n - 1] ELSE Append(f[n - 1], s[n])
    IN  f[Len(s)]

Others(ix, i, p) == Without(ix.lists[p], i)

\* Fault: an address the account shared is no longer anybody's.
DeindexedWhole(ix, i) ==
    LET mine == Range(ix.recs[i].ips)
    IN  IF ix.recs[i] = NoRec THEN ix
        ELSE [ recs  |-> [ix.recs EXCEPT ![i] = NoRec],
               lists |-> [p \in Ips |-> IF p \in mine THEN Others(ix, i, p) ELSE ix.lists[p]],
               tops  |-> [p \in Ips |-> IF p \in mine /\ ix.tops[p] = i THEN NoId ELSE ix.tops[p]] ]

\* deindexLocked: an address the account shared goes to the last of the others.
Deindexed(ix, i) ==
    LET mine == Range(ix.recs[i].ips)
        next(p) == IF Others(ix, i, p) = << >> THEN NoId ELSE Last(Others(ix, i, p))
    IN  IF ix.recs[i] = NoRec THEN ix
        ELSE [ recs  |-> [ix.recs EXCEPT ![i] = NoRec],
               lists |-> [p \in Ips |-> IF p \in mine THEN Others(ix, i, p) ELSE ix.lists[p]],
               tops  |-> [p \in Ips |-> IF p \in mine /\ ix.tops[p] = i THEN next(p) ELSE ix.tops[p]] ]

\* The loop of reloadCache, over a list in the order of the keys.
Rebuilt(list) ==
    LET f[n \in 0 .. Accounts] ==
            IF n = 0 THEN EmptyIndex
            ELSE IF list[n] = NoRec THEN f[n - 1] ELSE Filed(f[n - 1], n, list[n])
    IN  f[Accounts]

\* Fault: whoever was filed last.
FiledLast(p) == ipMap[p]

\* IsIPAllowed: whose the address is, the first active account's if the last is not.
IsIPAllowed(p) ==
    LET served == { n \in DOMAIN ipClients[p] : Served(idMap[ipClients[p][n]], now) }
    IN  IF ipMap[p] = NoId \/ Served(idMap[ipMap[p]], now) \/ served = {}
        THEN ipMap[p] ELSE ipClients[p][Min(served)]

------------------------------------------------------------------------------
(* State *)

Idle == [ pc |-> "idle", id |-> NoId, ip |-> NoIp, kind |-> "", rec |-> NoRec,
          list |-> [i \in Ids |-> NoRec], todo |-> {}, at |-> 0, changed |-> FALSE ]

Init ==
    /\ now = 0
    /\ db \in Starts
    /\ idMap = Rebuilt(db).recs /\ ipClients = Rebuilt(db).lists /\ ipMap = Rebuilt(db).tops
    /\ born = { i \in Ids : db[i] # NoRec }
    /\ proc = [p \in Procs |-> Idle]
    /\ requests = 0 /\ visits = 0
    /\ clash = FALSE

Become(p, f) == proc' = [proc EXCEPT ![p] = f]
Move(p, pc)  == Become(p, [proc[p] EXCEPT !.pc = pc])
Finished(p)  == Become(p, Idle)

\* Who holds what it has read of the database.  Two portals may, of one account one
\* at a time.
Holds(p)  == proc[p].pc \in {"save", "saveOff", "saveBind", "saveExpired", "refresh", "install"}
Writes(p) == clash' = (clash \/ \E q \in Procs \ {p} : Holds(q) /\ ~({p, q} \subseteq Portals))

Request == requests < MaxRequests /\ requests' = requests + 1

Tick ==
    /\ now < MaxTime
    /\ now' = now + 1
    /\ UNCHANGED << db, index, born, proc, requests, visits, clash >>

------------------------------------------------------------------------------
(* reloadCache and refreshClientIndex *)

\* The list is read before the lock is taken.
ReloadList(p) ==
    /\ proc[p].pc = "list"
    /\ Become(p, [proc[p] EXCEPT !.pc = "install", !.list = db])
    /\ UNCHANGED << now, db, index, born, requests, visits, clash >>

ReloadInstall(p) ==
    /\ proc[p].pc = "install"
    /\ Installed(Rebuilt(proc[p].list))
    /\ Finished(p)
    /\ UNCHANGED << now, db, born, requests, visits, clash >>

RefreshClientIndex(p) ==
    /\ proc[p].pc = "refresh"
    /\ Installed(Filed(Deindexed(Index, proc[p].id), proc[p].id, proc[p].rec))
    /\ Finished(p)
    /\ UNCHANGED << now, db, born, requests, visits, clash >>

------------------------------------------------------------------------------
(* Operators *)

Extended(r)  == [r EXCEPT !.exp = (IF @ = 0 \/ now > @ THEN now ELSE @) + Term]
Toggled(r)   == [r EXCEPT !.on = ~@]
Renewed(r)   == [Extended(r) EXCEPT !.on = TRUE]
Readdressed(r) == { [r EXCEPT !.ips = l] : l \in { << >> } \cup { << p >> : p \in Ips } }
Removed(r)   == { [r EXCEPT !.ips = Without(@, p)] : p \in Ips }
Updated(r)   == { r, Extended(r) } \cup { [r EXCEPT !.max = n] : n \in 1 .. 2 }

\* What a request makes of a record.  Custom domains and a new secret
\* are not told apart from what was there.
Edited(kind, r) ==
    CASE kind = "toggle" -> { Toggled(r) }
      [] kind = "renew"  -> { Renewed(r) }
      [] kind = "ip"     -> Readdressed(r)
      [] kind = "remove" -> Removed(r)
      [] kind = "update" -> Updated(r)
      [] kind \in {"domain", "secret"} -> { r }

EditRead(e, i, kind) ==
    /\ proc[e].pc = "idle" /\ Request
    /\ db[i] # NoRec
    /\ \E r \in Edited(kind, db[i]) :
          Become(e, [Idle EXCEPT !.pc = "save", !.id = i, !.kind = kind, !.rec = r])
    /\ UNCHANGED << now, db, index, born, visits, clash >>

\* Most rebuild the index after the save.  The custom domains' requests read the
\* account again and re-file it; a new secret is put into the indexed record.
EditSave(e) ==
    LET f == proc[e] IN
    /\ f.pc = "save"
    /\ \/ /\ db' = [db EXCEPT ![f.id] = f.rec]
          /\ Writes(e)
          /\ CASE f.kind = "domain" -> Move(e, "reread")
               [] f.kind = "secret" -> Finished(e)
               [] OTHER             -> Move(e, "list")
       \/ /\ Finished(e)   \* the save fails
          /\ UNCHANGED << db, clash >>
    /\ UNCHANGED << now, index, born, requests, visits >>

EditReread(e) ==
    LET f == proc[e] IN
    /\ f.pc = "reread"
    /\ IF db[f.id] = NoRec THEN Finished(e)
       ELSE Become(e, [f EXCEPT !.pc = "refresh", !.rec = db[f.id]])
    /\ UNCHANGED << now, db, index, born, requests, visits, clash >>

ProvisionClient(e, i, ips) ==
    /\ proc[e].pc = "idle" /\ Request
    /\ "provision" \in Edits /\ i \notin born
    /\ db' = [db EXCEPT ![i] = [ on |-> TRUE, exp |-> now + Term, ips |-> ips, max |-> 1 ]]
    /\ born' = born \cup {i}
    /\ Writes(e)
    /\ Become(e, [Idle EXCEPT !.pc = "list"])
    /\ UNCHANGED << now, index, visits >>

DeleteClient(e, i) ==
    /\ proc[e].pc = "idle" /\ Request
    /\ "delete" \in Edits /\ db[i] # NoRec
    /\ db' = [db EXCEPT ![i] = NoRec]
    /\ Writes(e)
    /\ Become(e, [Idle EXCEPT !.pc = "list"])
    /\ UNCHANGED << now, index, born, visits >>

------------------------------------------------------------------------------
(* RegisterIP *)

\* The token is looked up in the index.
RegisterLookup(p, i, ip) ==
    /\ proc[p].pc = "idle"
    /\ visits < MaxVisits /\ visits' = visits + 1
    /\ idMap[i] # NoRec
    /\ Become(p, [Idle EXCEPT !.pc = "lock", !.id = i, !.ip = ip])
    /\ UNCHANGED << now, db, index, born, requests, clash >>

\* What holding tokenBindLock means.
Binding(p) == p \in Portals /\ proc[p].pc \in {"bind", "saveBind", "saveExpired", "refresh"}
Unlocked(i) == \A p \in Portals : Binding(p) => proc[p].id # i

\* Fault: no lock.
RegisterUnlocked(p) ==
    /\ proc[p].pc = "lock"
    /\ Move(p, "bind")
    /\ UNCHANGED << now, db, index, born, requests, visits, clash >>

RegisterLock(p) ==
    /\ proc[p].pc = "lock" /\ Unlocked(proc[p].id)
    /\ Move(p, "bind")
    /\ UNCHANGED << now, db, index, born, requests, visits, clash >>

\* registerIP: the address becomes the last; the oldest give way to a new one.
Bound(r, ip) ==
    LET known == Without(r.ips, ip)
        kept  == IF Len(known) < Len(r.ips) \/ Len(r.ips) < r.max THEN known
                 ELSE SubSeq(r.ips, Len(r.ips) - r.max + 2, Len(r.ips))
    IN  [r EXCEPT !.ips = Append(kept, ip)]

\* An expired account is disabled.  A suspended one is refused, and one without
\* traffic left.  A visit from a known address is written only if the last one was
\* a while ago.
RegisterRead(p) ==
    LET f == proc[p]
        r == db[f.id]
    IN
    /\ f.pc = "bind"
    /\ \/ /\ r # NoRec /\ Expired(r, now)
          /\ Become(p, [f EXCEPT !.pc = "saveExpired", !.rec = [r EXCEPT !.on = FALSE]])
       \/ /\ ~(r # NoRec /\ Expired(r, now))
          /\ Finished(p)
       \/ /\ r # NoRec /\ Active(r, now)
          /\ Become(p, [f EXCEPT !.pc = "saveBind", !.rec = Bound(r, f.ip)])
       \/ /\ r # NoRec /\ Active(r, now) /\ Contains(r.ips, f.ip)
          /\ Become(p, [f EXCEPT !.pc = "refresh", !.rec = r])
    /\ UNCHANGED << now, db, index, born, requests, visits, clash >>

\* A failed save ends the registration, unless the account had expired.
RegisterSave(p) ==
    LET f == proc[p] IN
    /\ f.pc \in {"saveBind", "saveExpired"}
    /\ \/ /\ db' = [db EXCEPT ![f.id] = f.rec]
          /\ Writes(p)
          /\ Move(p, "refresh")
       \/ /\ IF f.pc = "saveExpired" THEN Move(p, "refresh") ELSE Finished(p)
          /\ UNCHANGED << db, clash >>
    /\ UNCHANGED << now, index, born, requests, visits >>

------------------------------------------------------------------------------
(* sweepClients: deactivateExpired; applyTrafficCycles is in TrafficMetering *)

Outdated(r, t) == r # NoRec /\ r.on /\ Expired(r, t)

SweepList ==
    /\ proc[Sweeper].pc = "idle"
    /\ \E i \in Ids : Outdated(db[i], now)   \* otherwise the pass changes nothing
    /\ Become(Sweeper, [Idle EXCEPT !.pc = "each", !.at = now, !.list = db,
                                    !.todo = { i \in Ids : Outdated(db[i], now) }])
    /\ UNCHANGED << now, db, index, born, requests, visits, clash >>

\* Each record is read again, and skipped if it has been renewed or disabled.
SweepRead ==
    LET f == proc[Sweeper]
        i == Min(f.todo)
    IN
    /\ f.pc = "each" /\ f.todo # {}
    /\ IF Outdated(db[i], f.at)
       THEN Become(Sweeper, [f EXCEPT !.pc = "saveOff", !.id = i,
                                      !.rec = [db[i] EXCEPT !.on = FALSE]])
       ELSE Become(Sweeper, [f EXCEPT !.todo = @ \ {i}])
    /\ UNCHANGED << now, db, index, born, requests, visits, clash >>

SweepSaved(ok) ==
    LET f == proc[Sweeper] IN
    /\ f.pc = "saveOff"
    /\ Become(Sweeper, [f EXCEPT !.pc = "each", !.todo = @ \ {f.id}, !.rec = NoRec,
                                 !.changed = @ \/ ok])
    /\ UNCHANGED << now, index, born, requests, visits >>

SweepSave == SweepSaved(TRUE) /\ db' = [db EXCEPT ![proc[Sweeper].id] = proc[Sweeper].rec]
                              /\ Writes(Sweeper)
SweepFail == SweepSaved(FALSE) /\ UNCHANGED << db, clash >>

\* Fault: the index is not rebuilt.
SweepDoneQuietly ==
    /\ proc[Sweeper].pc = "each" /\ proc[Sweeper].todo = {}
    /\ Finished(Sweeper)
    /\ UNCHANGED << now, db, index, born, requests, visits, clash >>

SweepDone ==
    /\ proc[Sweeper].pc = "each" /\ proc[Sweeper].todo = {}
    /\ IF proc[Sweeper].changed
       THEN Become(Sweeper, [Idle EXCEPT !.pc = "list", !.at = proc[Sweeper].at])
       ELSE Finished(Sweeper)
    /\ UNCHANGED << now, db, index, born, requests, visits, clash >>

------------------------------------------------------------------------------

Reload(p) == ReloadList(p) \/ ReloadInstall(p)

OperatorStep(e) == EditSave(e) \/ EditReread(e) \/ RefreshClientIndex(e) \/ Reload(e)
PortalStep(p)   == RegisterLock(p) \/ RegisterRead(p) \/ RegisterSave(p) \/ RefreshClientIndex(p)
SweepStep       == SweepList \/ SweepRead \/ SweepDone \/ Reload(Sweeper)

Next ==
    \/ Tick
    \/ \E e \in Operators, i \in Ids :
          \/ \E kind \in Edits \ {"provision", "delete"} : EditRead(e, i, kind)
          \/ \E ips \in { << >> } \cup { << p >> : p \in Ips } : ProvisionClient(e, i, ips)
          \/ DeleteClient(e, i)
    \/ \E e \in Operators : OperatorStep(e)
    \/ \E p \in Portals, i \in Ids, ip \in Ips : RegisterLookup(p, i, ip)
    \/ \E p \in Portals : PortalStep(p)
    \/ SweepStep \/ SweepSave \/ SweepFail

Spec == Init /\ [][Next]_vars

------------------------------------------------------------------------------
(* Properties *)

PCs == { "idle", "save", "reread", "refresh", "list", "install", "lock", "bind",
         "saveBind", "saveExpired", "each", "saveOff" }

Frame == [ pc : PCs, id : Ids \cup {NoId}, ip : Ips \cup {NoIp}, kind : Kinds \cup {""},
           rec : Rec \cup {NoRec}, list : [Ids -> Rec \cup {NoRec}], todo : SUBSET Ids,
           at : Nat, changed : BOOLEAN ]

\* Whoever is about to save or to file has a record to do it with.
Ready(f) ==
    /\ f.pc \notin {"idle", "list", "install", "each"} => f.id \in Ids
    /\ f.pc \in {"save", "saveBind", "saveExpired", "saveOff", "refresh"} => f.rec \in Rec
    /\ f.pc \in {"lock", "bind"} => f.ip \in Ips

\* Every variable keeps its type (a record stays well formed, whatever is made of it).
TypeOK ==
    /\ now \in Nat /\ requests \in Nat /\ visits \in Nat /\ clash \in BOOLEAN
    /\ db \in [Ids -> Rec \cup {NoRec}] /\ idMap \in [Ids -> Rec \cup {NoRec}]
    /\ ipClients \in [Ips -> Seq(Ids)] /\ ipMap \in [Ips -> Ids \cup {NoId}]
    /\ born \subseteq Ids
    /\ proc \in [Procs -> Frame] /\ \A p \in Procs : Ready(proc[p])

\* The index's tables agree, through any order of rebuilds and single refreshes
\* (deindexLocked, indexLocked): an address leads to accounts that have it, each
\* once, its entry in ipMap is one of them, and an account that is active is under
\* all its addresses.
IndexAgrees ==
    /\ \A p \in Ips :
         /\ \A i \in Range(ipClients[p]) : idMap[i] # NoRec /\ Contains(idMap[i].ips, p)
         /\ Cardinality(Range(ipClients[p])) = Len(ipClients[p])
         /\ IF ipClients[p] = << >> THEN ipMap[p] = NoId ELSE ipMap[p] \in Range(ipClients[p])
    /\ \A i \in Ids : (idMap[i] # NoRec /\ Active(idMap[i], now))
                         => \A p \in Range(idMap[i].ips) : Contains(ipClients[p], i)

\* Of two accounts at one address the one that ran out never costs the other its
\* service (IsIPAllowed), whichever was filed last.
ActiveServed ==
    \A p \in Ips, i \in Ids :
        (idMap[i] # NoRec /\ Served(idMap[i], now) /\ Contains(idMap[i].ips, p))
            => IsIPAllowed(p) # NoId /\ Served(idMap[IsIPAllowed(p)], now)

\* When nothing is going on the index holds what the database does, unless someone
\* wrote while another held an older record or list: every handler files what it
\* wrote, and registrations, of one account or several, may overlap at will
\* (RegisterIP on B-23).  Of an expired account the index may know more.
QuietAgrees ==
    (~clash /\ \A p \in Procs : proc[p].pc \in {"idle", "lock"})
        => \A i \in Ids : (db[i] = NoRec \/ ~Expired(db[i], now)) => idMap[i] = db[i]

\* The sweep undoes no renewal and no other edit made since it listed the accounts
\* (deactivateExpired), unless made between its second look at the record and its
\* write: it turns off an account that has expired, and changes nothing else of it.
\* And when it is done and no request is under way, an account that had run out when
\* it began has lost the address it was filed under while it was valid, or its save
\* failed and it is there for the next sweep to find.
Turns == proc[Sweeper].pc = "saveOff" /\ proc'[Sweeper] # proc[Sweeper]
Ends  == proc[Sweeper].pc # "idle" /\ \A p \in Procs : proc'[p].pc \in {"idle", "lock"}
SweepExact ==
    [][/\ \A i \in Ids : (Turns /\ ~clash /\ db'[i] # db[i])
             => Outdated(db[i], now) /\ db'[i] = [db[i] EXCEPT !.on = FALSE]
       /\ \A p \in Ips, i \in Ids :
             (Ends /\ ~clash' /\ ipMap'[p] = i /\ Expired(idMap'[i], proc[Sweeper].at))
                => Outdated(db'[i], proc[Sweeper].at)]_vars
=============================================================================
