---------------------------- MODULE TrafficMetering ----------------------------
(* How relayed bytes reach an account's stored usage: service/traffic.go, the    *)
(* rollover in service/traffic_cycle.go, and the edits of client_service.go      *)
(* that rewrite the same records.                                                *)
(*                                                                               *)
(* Relays add to an in-memory ledger.  The flusher moves the ledger into the     *)
(* database every 30 seconds; the sweeper starts new quota periods every minute; *)
(* editors are requests that change, reset or delete an account.  The flusher,   *)
(* the sweeper and the reset hold flushMu; the other edits read a record and     *)
(* save it whole without it.  A step ends where another goroutine can act; the   *)
(* taking of flushMu is joined with the step that follows it, its release with   *)
(* the step before.                                                              *)
EXTENDS Integers, FiniteSets

CONSTANTS
    Ids,           \* accounts
    Editors,       \* concurrent requests of the panel or the API
    Cycles,        \* the cycle names NormalizeTrafficCycle accepts, NoCycle aside
    Period,        \* the length of each cycle
    MaxCatchUp,    \* maxCatchUpCycles
    Limits,        \* the limits an edit may set; 0 is unlimited
    Edits,         \* the kinds of request: "limit", "cycle", "reset", "delete"
    StartRec,      \* what every account holds at first
    NoCycle, NoAnchor, NoRec, NoId, Nobody,
    MaxBytes, MaxTime,              \* bounds: bytes an account's relays add, the clock,
    MaxCrashes, MaxRequests         \* restarts, requests

Flusher == "flusher"
Sweeper == "sweeper"
Procs   == Editors \cup {Flusher, Sweeper}

ASSUME ConstantsAssumption ==
    /\ Period \in [Cycles -> Nat \ {0}] /\ NoCycle \notin Cycles
    /\ MaxCatchUp \in Nat \ {0}
    /\ Limits \subseteq Nat /\ NoAnchor \notin Nat
    /\ Flusher \notin Editors /\ Sweeper \notin Editors /\ Nobody \notin Procs
    /\ NoId \notin Ids

\* The fields of a stored account that take part.
Rec == [ used : Nat, prev : Nat, limit : Nat, cycle : Cycles \cup {NoCycle},
         anchor : Nat \cup {NoAnchor}, count : Nat ]

ASSUME StartAssumption == StartRec \in Rec /\ NoRec \notin Rec

VARIABLES
    now,
    db,        \* the clients bucket
    cached,    \* what the resolver's index holds of them
    pending,   \* the ledger
    flushMu,   \* who holds it
    proc,      \* program counter and locals of every process
    crashes, requests   \* how many there were

vars == << now, db, cached, pending, flushMu, proc, crashes, requests >>

------------------------------------------------------------------------------
(* Cycles.  An account that was reset n times is due at the end of the n-th     *)
(* period after its anchor.  Calendar arithmetic is left out.                   *)

\* trafficCycleEnd's second result.
HasEnd(r, n)   == r.cycle \in Cycles /\ r.anchor # NoAnchor /\ n <= MaxCatchUp
CycleEnd(r, n) == r.anchor + Period[r.cycle] * (n + 1)

\* Fault: whether a boundary passed, not how many.
DueResetsOnce(r, at) ==
    IF HasEnd(r, r.count) /\ at >= CycleEnd(r, r.count) THEN 1 ELSE 0

\* dueTrafficResets: the walk stops at the first boundary ahead, or at its bound.
DueResets(r, at) ==
    CHOOSE n \in 0 .. MaxCatchUp :
        /\ \A i \in 0 .. n - 1 : HasEnd(r, r.count + i) /\ at >= CycleEnd(r, r.count + i)
        /\ \/ n = MaxCatchUp
           \/ ~HasEnd(r, r.count + n)
           \/ at < CycleEnd(r, r.count + n)

\* What applyTrafficCycles does about a listed record.
Work(r, at) ==
    LET next == r.count + DueResets(r, at) IN
    IF r.cycle = NoCycle                                THEN "none"
    ELSE IF r.anchor = NoAnchor                         THEN "anchor"
    ELSE IF next = r.count                              THEN "none"
    ELSE IF ~HasEnd(r, next) \/ at >= CycleEnd(r, next) THEN "anchor"
    ELSE "roll"

------------------------------------------------------------------------------
(* State *)

Zeros == [i \in Ids |-> 0]
Empty == [i \in Ids |-> NoRec]

\* seen is the stored record rec was made from; after is where a step that several
\* paths share goes on.
Idle == [ pc |-> "idle", after |-> "idle", id |-> NoId, rec |-> NoRec, seen |-> NoRec,
          held |-> Zeros, list |-> Empty, todo |-> {}, at |-> 0, changed |-> FALSE ]

\* What the quota check reads of an indexed record.
Indexed(r) == IF r = NoRec THEN NoRec ELSE [used |-> r.used, limit |-> r.limit]
Index      == [i \in Ids |-> Indexed(db[i])]

Become(p, f) == proc' = [proc EXCEPT ![p] = f]
Move(p, pc)  == Become(p, [proc[p] EXCEPT !.pc = pc])

\* The end of a call: whoever holds flushMu lets it go.
Return(p) ==
    /\ Become(p, Idle)
    /\ flushMu' = IF flushMu = p THEN Nobody ELSE flushMu

\* A record read in order to be changed to r and saved.
Prepared(f, pc, i, r) == [f EXCEPT !.pc = pc, !.id = i, !.rec = r, !.seen = db[i]]

Init ==
    /\ now = 0
    /\ db = [i \in Ids |-> StartRec]
    /\ cached = Index
    /\ pending = Zeros
    /\ flushMu = Nobody
    /\ proc = [p \in Procs |-> Idle]
    /\ crashes = 0 /\ requests = 0

Tick ==
    /\ now < MaxTime
    /\ now' = now + 1
    /\ UNCHANGED << db, cached, pending, flushMu, proc, crashes, requests >>

\* An idle editor gets a request.
Arrives(e) ==
    /\ proc[e].pc = "idle"
    /\ requests < MaxRequests /\ requests' = requests + 1

\* Bytes of an account that are in a process's hands.
HeldBy(p, i) == proc[p].held[i]
Stored(i)    == IF db[i] = NoRec THEN 0 ELSE db[i].used
Total(i)     == Stored(i) + pending[i] + HeldBy(Flusher, i) + HeldBy(Sweeper, i)

\* AddTraffic.  A relay keeps adding for an account deleted under it.
AddTraffic(i) ==
    /\ Total(i) < MaxBytes
    /\ pending' = [pending EXCEPT ![i] = @ + 1]
    /\ UNCHANGED << now, db, cached, flushMu, proc, crashes, requests >>

------------------------------------------------------------------------------
(* Faults: operations below as a plausible slip would leave them, for mutation  *)
(* runs.  No action uses them.                                                  *)

\* The unapplied bytes are not handed back.
HandBackNot ==
    /\ proc[Flusher].pc = "handback"
    /\ IF proc[Flusher].after = "list"
       THEN Become(Flusher, [Idle EXCEPT !.pc = "list"]) /\ UNCHANGED flushMu
       ELSE Return(Flusher)
    /\ UNCHANGED << now, db, cached, pending, crashes, requests >>

\* The reset does not take flushMu.
ResetUnlocked(e, i) ==
    /\ "reset" \in Edits
    /\ Arrives(e)
    /\ pending' = [pending EXCEPT ![i] = 0]
    /\ Become(e, [Idle EXCEPT !.pc = "reset", !.id = i])
    /\ UNCHANGED << now, db, cached, flushMu, crashes >>

\* The usage is cleared but the cycle index not advanced.
SweepReadKeepsCount ==
    LET f == proc[Sweeper]
        i == f.id
    IN
    /\ f.pc \in {"roll", "anchor"} /\ db[i] # NoRec
    /\ Become(Sweeper,
         IF f.pc = "roll"
         THEN Prepared(f, "saveRoll", i,
                [db[i] EXCEPT !.prev = db[i].used + f.held[i], !.used = 0])
         ELSE Prepared(f, "saveAnchor", i, [db[i] EXCEPT !.anchor = f.at, !.count = 0]))
    /\ UNCHANGED << now, db, cached, pending, flushMu, crashes, requests >>

------------------------------------------------------------------------------
(* FlushTraffic *)

Drain ==
    /\ proc[Flusher].pc = "idle" /\ flushMu = Nobody
    /\ pending # Zeros   \* else it returns at once
    /\ flushMu' = Flusher
    /\ pending' = Zeros
    /\ Become(Flusher, [Idle EXCEPT !.pc = "commit", !.held = pending])
    /\ UNCHANGED << now, db, cached, crashes, requests >>

\* AddClientTraffic: one transaction.  A deleted account's bytes are dropped; the
\* bytes of a record that cannot be read come back.
Commit(unreadable) ==
    LET held == proc[Flusher].held IN
    /\ proc[Flusher].pc = "commit"
    /\ db' = [i \in Ids |-> IF db[i] = NoRec \/ i \in unreadable THEN db[i]
                            ELSE [db[i] EXCEPT !.used = @ + held[i]]]
    /\ Become(Flusher,
         [proc[Flusher] EXCEPT
            !.pc = "handback",
            !.held = [i \in Ids |-> IF i \in unreadable /\ db[i] # NoRec THEN held[i] ELSE 0],
            !.after = IF \E i \in Ids : held[i] > 0 /\ (i \notin unreadable \/ db[i] = NoRec)
                      THEN "list" ELSE "idle"])
    /\ UNCHANGED << now, cached, pending, flushMu, crashes, requests >>

\* The transaction failed: every delta comes back.
CommitFail ==
    /\ proc[Flusher].pc = "commit"
    /\ Move(Flusher, "handback")
    /\ UNCHANGED << now, db, cached, pending, flushMu, crashes, requests >>

HandBack ==
    /\ proc[Flusher].pc = "handback"
    /\ pending' = [i \in Ids |-> pending[i] + proc[Flusher].held[i]]
    /\ IF proc[Flusher].after = "list"
       THEN Become(Flusher, [Idle EXCEPT !.pc = "list"]) /\ UNCHANGED flushMu
       ELSE Return(Flusher)
    /\ UNCHANGED << now, db, cached, crashes, requests >>

------------------------------------------------------------------------------
(* reloadCache: the list is read before s.mu is taken *)

ReloadList(p) ==
    /\ proc[p].pc = "list"
    /\ Become(p, [proc[p] EXCEPT !.pc = "install", !.list = Index])
    /\ UNCHANGED << now, db, cached, pending, flushMu, crashes, requests >>

ReloadInstall(p) ==
    /\ proc[p].pc = "install"
    /\ cached' = proc[p].list
    /\ Return(p)
    /\ UNCHANGED << now, db, pending, crashes, requests >>

ReloadFail(p) ==
    /\ proc[p].pc = "list"
    /\ Return(p)
    /\ UNCHANGED << now, db, cached, pending, crashes, requests >>

------------------------------------------------------------------------------
(* sweepClients: applyTrafficCycles over a list taken before flushMu *)

SweepList ==
    /\ proc[Sweeper].pc = "idle"
    /\ Become(Sweeper, [Idle EXCEPT !.pc = "lock", !.list = db, !.at = now,
                                    !.todo = { i \in Ids : db[i] # NoRec }])
    /\ UNCHANGED << now, db, cached, pending, flushMu, crashes, requests >>

SweepLock ==
    /\ proc[Sweeper].pc = "lock" /\ flushMu = Nobody
    /\ flushMu' = Sweeper
    /\ Move(Sweeper, "each")
    /\ UNCHANGED << now, db, cached, pending, crashes, requests >>

\* The accounts of the list that are left to be worked on.
Left == { i \in proc[Sweeper].todo : Work(proc[Sweeper].list[i], proc[Sweeper].at) # "none" }

\* A period that ended: resetTrafficCycle takes the ledger first.
RollTake(i) ==
    /\ proc[Sweeper].pc = "each" /\ i \in Left
    /\ Work(proc[Sweeper].list[i], proc[Sweeper].at) = "roll"
    /\ pending' = [pending EXCEPT ![i] = 0]
    /\ Become(Sweeper, [proc[Sweeper] EXCEPT !.pc = "roll", !.id = i, !.todo = @ \ {i},
                                             !.held[i] = pending[i]])
    /\ UNCHANGED << now, db, cached, flushMu, crashes, requests >>

AnchorBegin(i) ==
    /\ proc[Sweeper].pc = "each" /\ i \in Left
    /\ Work(proc[Sweeper].list[i], proc[Sweeper].at) = "anchor"
    /\ Become(Sweeper, [proc[Sweeper] EXCEPT !.pc = "anchor", !.id = i, !.todo = @ \ {i}])
    /\ UNCHANGED << now, db, cached, pending, flushMu, crashes, requests >>

\* Both re-read the account; the new count still comes from the list.
SweepRead ==
    LET f == proc[Sweeper]
        i == f.id
        r == f.list[i]
    IN
    /\ f.pc \in {"roll", "anchor"} /\ db[i] # NoRec
    /\ Become(Sweeper,
         IF f.pc = "roll"
         THEN Prepared(f, "saveRoll", i,
                [db[i] EXCEPT !.prev = db[i].used + f.held[i], !.used = 0,
                              !.count = r.count + DueResets(r, f.at)])
         ELSE Prepared(f, "saveAnchor", i, [db[i] EXCEPT !.anchor = f.at, !.count = 0]))
    /\ UNCHANGED << now, db, cached, pending, flushMu, crashes, requests >>

\* On to the next account, with nothing in hand.
NextAccount(changed) ==
    Become(Sweeper, [proc[Sweeper] EXCEPT !.pc = "each", !.id = NoId, !.rec = NoRec,
                       !.seen = NoRec, !.held = Zeros, !.changed = @ \/ changed])

SweepSave ==
    /\ proc[Sweeper].pc \in {"saveRoll", "saveAnchor"}
    /\ db' = [db EXCEPT ![proc[Sweeper].id] = proc[Sweeper].rec]
    /\ NextAccount(TRUE)
    /\ UNCHANGED << now, cached, pending, flushMu, crashes, requests >>

\* A failed read or save: what was taken from the ledger goes back.
SweepFail ==
    /\ proc[Sweeper].pc \in {"roll", "anchor", "saveRoll", "saveAnchor"}
    /\ pending' = [i \in Ids |-> pending[i] + proc[Sweeper].held[i]]
    /\ NextAccount(FALSE)
    /\ UNCHANGED << now, db, cached, flushMu, crashes, requests >>

SweepDone ==
    /\ proc[Sweeper].pc = "each" /\ Left = {}
    /\ flushMu' = Nobody
    /\ Become(Sweeper, IF proc[Sweeper].changed THEN [Idle EXCEPT !.pc = "list"] ELSE Idle)
    /\ UNCHANGED << now, db, cached, pending, crashes, requests >>

------------------------------------------------------------------------------
(* Edits *)

\* UpdateClient reads the record and changes its copy: the limit, or the cycle,
\* which is anchored anew only when it really changes.
Edited(r) ==
    { [r EXCEPT !.limit = l] : l \in IF "limit" \in Edits THEN Limits ELSE {} } \cup
    { IF c \in {NoCycle, r.cycle} THEN [r EXCEPT !.cycle = c]
      ELSE [r EXCEPT !.cycle = c, !.anchor = now, !.count = 0]
        : c \in IF "cycle" \in Edits THEN Cycles \cup {NoCycle} ELSE {} }

EditRead(e, i) ==
    /\ Arrives(e) /\ db[i] # NoRec
    /\ \E r \in Edited(db[i]) : Become(e, Prepared(Idle, "saveEdit", i, r))
    /\ UNCHANGED << now, db, cached, pending, flushMu, crashes >>

\* ResetClientTraffic: flushMu, the ledger, the record.
ResetBegin(e, i) ==
    /\ "reset" \in Edits
    /\ Arrives(e) /\ flushMu = Nobody
    /\ flushMu' = e
    /\ pending' = [pending EXCEPT ![i] = 0]
    /\ Become(e, [Idle EXCEPT !.pc = "reset", !.id = i])
    /\ UNCHANGED << now, db, cached, crashes >>

ResetRead(e) ==
    LET i == proc[e].id IN
    /\ proc[e].pc = "reset" /\ db[i] # NoRec
    /\ Become(e, Prepared(proc[e], "saveReset", i, [db[i] EXCEPT !.used = 0]))
    /\ UNCHANGED << now, db, cached, pending, flushMu, crashes, requests >>

EditSave(e) ==
    /\ proc[e].pc \in {"saveEdit", "saveReset"}
    /\ db' = [db EXCEPT ![proc[e].id] = proc[e].rec]
    /\ Become(e, [Idle EXCEPT !.pc = "list"])
    /\ UNCHANGED << now, cached, pending, flushMu, crashes, requests >>

\* A failed read or save is returned to the caller.
EditFail(e) ==
    /\ proc[e].pc \in {"saveEdit", "saveReset", "reset"}
    /\ Return(e)
    /\ UNCHANGED << now, db, cached, pending, crashes, requests >>

DeleteClient(e, i) ==
    /\ "delete" \in Edits
    /\ Arrives(e) /\ db[i] # NoRec
    /\ db' = [db EXCEPT ![i] = NoRec]
    /\ Become(e, [Idle EXCEPT !.pc = "list"])
    /\ UNCHANGED << now, cached, pending, flushMu, crashes >>

\* The process dies and comes back: what was not committed is gone.
Crash ==
    /\ crashes < MaxCrashes
    /\ crashes' = crashes + 1
    /\ pending' = Zeros
    /\ flushMu' = Nobody
    /\ proc' = [p \in Procs |-> Idle]
    /\ cached' = Index
    /\ UNCHANGED << now, db, requests >>

------------------------------------------------------------------------------

Flush == Drain \/ (\E unreadable \in SUBSET Ids : Commit(unreadable)) \/ CommitFail \/ HandBack

Sweep ==
    \/ SweepList \/ SweepLock \/ (\E i \in Ids : RollTake(i) \/ AnchorBegin(i))
    \/ SweepRead \/ SweepSave \/ SweepFail \/ SweepDone

Edit(e) ==
    \/ \E i \in Ids : EditRead(e, i) \/ ResetBegin(e, i) \/ DeleteClient(e, i)
    \/ ResetRead(e) \/ EditSave(e) \/ EditFail(e)

Reload(p) == ReloadList(p) \/ ReloadInstall(p) \/ ReloadFail(p)

Next ==
    \/ Tick
    \/ \E i \in Ids : AddTraffic(i)
    \/ Flush
    \/ Sweep
    \/ \E e \in Editors : Edit(e)
    \/ \E p \in Procs : Reload(p)
    \/ Crash

Spec == Init /\ [][Next]_vars

\* The tickers fire and the goroutines inside a call are scheduled; a mutex that is
\* let go again and again is got (sync.Mutex does not starve a waiter); a disk and
\* a record that fail do not fail for ever.  Requests and relays come as they like.
Fairness ==
    /\ WF_vars(Flush) /\ SF_vars(Drain) /\ SF_vars(Commit({}))
    /\ WF_vars(Sweep) /\ SF_vars(SweepLock) /\ SF_vars(SweepRead) /\ SF_vars(SweepSave)
    /\ \A p \in Procs : WF_vars(Reload(p))
    /\ \A e \in Editors : WF_vars(ResetRead(e) \/ EditSave(e) \/ EditFail(e))

FairSpec == Spec /\ Fairness

------------------------------------------------------------------------------
(* Properties *)

PCs == { "idle", "commit", "handback", "list", "install", "lock", "each", "roll",
         "anchor", "saveRoll", "saveAnchor", "saveEdit", "reset", "saveReset" }
SavePCs   == { "saveRoll", "saveAnchor", "saveEdit", "saveReset" }

IndexRec == [ used : Nat, limit : Nat ]

Frame == [ pc : PCs, after : {"idle", "list"}, id : Ids \cup {NoId},
           rec : Rec \cup {NoRec}, seen : Rec \cup {NoRec}, held : [Ids -> Nat],
           list : [Ids -> Rec \cup IndexRec \cup {NoRec}], todo : SUBSET Ids, at : Nat,
           changed : BOOLEAN ]

\* Types, and that a process about to save has an account and a record of it.
TypeOK ==
    /\ now \in Nat /\ crashes \in Nat /\ requests \in Nat
    /\ db \in [Ids -> Rec \cup {NoRec}]
    /\ cached \in [Ids -> IndexRec \cup {NoRec}]
    /\ pending \in [Ids -> Nat]
    /\ flushMu \in Procs \cup {Nobody}
    /\ DOMAIN proc = Procs
    /\ \A p \in Procs :
         /\ proc[p] \in Frame
         /\ proc[p].pc \in SavePCs => proc[p].id \in Ids /\ proc[p].rec \in Rec

Saves(p, i) ==
    /\ proc[p].pc \in SavePCs /\ proc[p].id = i
    /\ proc'[p].pc # proc[p].pc /\ db'[i] = proc[p].rec /\ pending' = pending

\* The record changed in the database after p read it.
Stale(p) == db[proc[p].id] # proc[p].seen

\* A relayed byte is counted once and stays counted (FlushTraffic, resetTrafficCycle):
\* through the ledger, a process's hands and the database an account's total changes
\* only when a relay adds, a restart loses what was not committed, a period starts
\* afresh, or an edit saves a record that was stale.
BytesConserved ==
    [][\A i \in Ids :
          Total(i)' # Total(i) =>
             \/ proc' = proc /\ db' = db /\ Total(i)' > Total(i)
             \/ crashes' > crashes
             \/ db[i] = NoRec \/ db'[i] = NoRec
             \/ \E p \in Procs : Saves(p, i) /\ (Stale(p) \/ proc[p].pc \in {"saveRoll", "saveReset"})
             \/ \E e \in Editors : proc[e].pc = "idle" /\ proc'[e].pc = "reset"]_vars

\* When a reset or a rollover is saved, nothing metered before it can come back: no
\* flush holds bytes of the old period, and what the rollover took is in the record
\* of the period that ended.
PeriodStartsClean ==
    [][\A p \in Procs, i \in Ids :
          (Saves(p, i) /\ proc[p].pc \in {"saveRoll", "saveReset"}) =>
             /\ Total(i)' = pending[i]
             /\ (proc[p].pc = "saveRoll" /\ ~Stale(p))
                   => db'[i].prev = Total(i) - pending[i]]_vars

\* A rollover lands on the current period, however many boundaries were missed: the
\* one it credits has passed and the next is ahead of the sweep.  The anchor, from
\* which all boundaries are measured, moves only if there is none or if it is older
\* than the catch-up bound.
RolloverLands ==
    [][LET f == proc[Sweeper]
           r == f.rec
       IN  (Saves(Sweeper, f.id) /\ f.seen = f.list[f.id]) =>
              IF f.pc = "saveRoll"
              THEN CycleEnd(r, r.count - 1) <= f.at /\ f.at < CycleEnd(r, r.count)
              ELSE f.seen.anchor = NoAnchor \/ f.at >= CycleEnd(f.seen, MaxCatchUp)]_vars

\* Through failing commits, unreadable records, failing reads and saves, and resets,
\* what was counted reaches the database or a new period, and a period that ended is
\* rolled over: no early return keeps flushMu, or the metering would stop for good.
Unpersisted(i) == pending[i] + HeldBy(Flusher, i) + HeldBy(Sweeper, i) > 0
Due(i) == db[i] # NoRec /\ HasEnd(db[i], db[i].count) /\ now >= CycleEnd(db[i], db[i].count)
MeteringGoesOn ==
    \A i \in Ids : /\ Unpersisted(i) ~> (~Unpersisted(i) \/ db[i] = NoRec)
                   /\ Due(i) ~> ~Due(i)

\* UpdateClientRequest's comment and API.md: a changed cycle is anchored at the
\* request, so its first rollover is a whole period away.  No rollover is saved
\* before the end of the period the stored record is in.
NoEarlyRollover ==
    [][LET f == proc[Sweeper] IN
       (/\ f.pc = "saveRoll" /\ Saves(Sweeper, f.id) /\ ~Stale(Sweeper)
        /\ HasEnd(db[f.id], db[f.id].count))
             => f.at >= CycleEnd(db[f.id], db[f.id].count)]_vars
=============================================================================
