------------------------------- MODULE DnsCache -------------------------------
(* The resolver's answer cache: core/cache/cache.go and core/cache/prefetch.go. *)
(*                                                                              *)
(* Clients are the query goroutines.  Each runs Lookup (or the strict Get) and, *)
(* after a miss, may Put the answer it fetched itself.  Workers are the         *)
(* goroutines runRefresh runs in.  Admins call Flush and PurgeDomain.  The      *)
(* sweeper is cleanupLoop.  A step is what happens between two points where     *)
(* another goroutine can act: one critical section, one atomic load, one read   *)
(* of the clock.  Time is counted in whole seconds.                             *)
EXTENDS Integers, FiniteSets

CONSTANTS
    Keys,           \* (name, type, class) triples, as cacheKey folds them
    NumShards,      \* numShards
    ShardOf,        \* getShard, as a function from Keys to shard numbers
    ShardCap,       \* shardCap()
    MinTTL, MaxTTL, \* the configured TTL window
    StaleFor,       \* staleFor
    StaleTTL,       \* staleAnswerTTL
    LeadFraction, LeadMin, LeadMax,   \* the constants of prefetchLead
    MaxWorkers,     \* maxRefreshWorkers
    HasRefresher,   \* whether SetRefresher installed a function at startup
    Answers,        \* the upstream answers that can arrive
    PurgeSets,      \* the keys a PurgeDomain call can match
    Clients, Workers, Admins,
    NoKey, NoEntry, NoAnswer, NoReply,
    MaxTime, MaxGen \* bounds of the clock and of the flush generation

Shards == 0 .. NumShards - 1
Procs  == Clients \cup Workers

\* NewCache replaces a zero size or TTL by a default, and shardCap has a floor of 1.
ASSUME ConstantsAssumption ==
    /\ NumShards \in Nat \ {0} /\ ShardOf \in [Keys -> Shards] /\ IsFiniteSet(Keys)
    /\ ShardCap \in Nat \ {0}
    /\ MinTTL \in Nat \ {0} /\ MaxTTL \in Nat \ {0} /\ StaleFor \in Nat
    /\ MaxWorkers \in Nat \ {0}
    /\ HasRefresher \in BOOLEAN
    /\ Answers \subseteq [ rcode : STRING, answered : BOOLEAN,
                           ttls : SUBSET Nat, soa : SUBSET Nat ]
    /\ PurgeSets \subseteq SUBSET Keys
    /\ Clients \cap Workers = {} /\ IsFiniteSet(Workers)
    /\ NoEntry \notin [ cachedAt : Nat, expireAt : Nat, origTTL : Nat, ttls : SUBSET Nat, gen : Nat ]

VARIABLES
    now,         \* the clock
    entries,     \* the union of the shards' maps: Keys -> entry or NoEntry
    generation,  \* Cache.generation
    inflight,    \* Cache.inflight, the single-flight set
    slots,       \* how many refreshSem slots are taken
    proc,        \* program counter and locals of every client and worker
    reply,       \* what a client's last finished read handed back
    admin,       \* the Flush or PurgeDomain call an admin is in
    sweeper,     \* cleanupLoop's locals
    stopped      \* the stop channel is closed

vars == << now, entries, generation, inflight, slots, proc, reply, admin,
           sweeper, stopped >>

------------------------------------------------------------------------------
(* Lifetimes *)

Smaller(a, b) == IF a < b THEN a ELSE b
Larger(a, b)  == IF a > b THEN a ELSE b
Clamp(t)      == Smaller(Larger(t, MinTTL), MaxTTL)

\* An answer is its rcode, whether its answer section is non-empty, the header
\* TTLs of its records (OPT excluded) and, per SOA of its authority section,
\* min(header TTL, MINIMUM).
GetMinTTL(a) ==
    LET negative   == a.rcode = "NXDOMAIN" \/ ~a.answered
        considered == a.ttls \cup (IF negative THEN a.soa ELSE {})
    IN  IF considered = {} THEN MinTTL
        ELSE CHOOSE t \in considered : \A u \in considered : t <= u

\* Put stores nothing else: errors other than NXDOMAIN, and TTL 0, are dropped.
Cacheable(a) == a.rcode \in {"NOERROR", "NXDOMAIN"} /\ GetMinTTL(a) # 0

\* ClampTTLs: a record published with TTL 0 keeps it.
ClampTTLs(ttls) == { IF t = 0 THEN 0 ELSE Clamp(t) : t \in ttls }

EntryFor(a, at) ==
    [ cachedAt |-> at, expireAt |-> at + Clamp(GetMinTTL(a)),
      origTTL  |-> Clamp(GetMinTTL(a)), ttls |-> ClampTTLs(a.ttls),
      gen      |-> generation ]   \* gen: when it was stored, for the properties

PrefetchLead(life) ==
    Smaller(Smaller(Larger(life \div LeadFraction, LeadMin), LeadMax), life \div 2)

\* elapsed is converted to uint32.  The clock is read before the shard is
\* locked, so the entry found can be younger than the reading: the conversion of
\* a negative float is up to the platform, and either saturates at 0 or wraps to
\* a number above every TTL.
Elapsed(e, at) == IF at >= e.cachedAt THEN {at - e.cachedAt} ELSE {0, MaxTTL}

\* Fault: the answer goes out with the TTLs it was stored with.
AdjustRRsNot(ttls, elapsed) == ttls

AdjustRRs(ttls, elapsed) == { IF t > elapsed THEN t - elapsed ELSE 1 : t \in ttls }

------------------------------------------------------------------------------
(* State *)

Idle == [ pc |-> "idle", key |-> NoKey, at |-> 0, ans |-> NoAnswer, gen |-> 0 ]

Present(k)   == entries[k] # NoEntry
InShard(s)   == { k \in Keys : ShardOf[k] = s /\ Present(k) }

\* A process's next frame: at another location of its call, or out of it.
Become(p, f) == proc' = [proc EXCEPT ![p] = f]
Move(p, pc)  == Become(p, [proc[p] EXCEPT !.pc = pc])
Finished(p)  == Become(p, Idle)

\* Where a client and a worker can be; where a worker's refresh occupies a slot.
SlotPCs   == {"start", "asking", "put", "store", "release"}
WorkerPCs == SlotPCs \cup {"idle", "unclaim"}
ClientPCs == {"idle", "lookup", "get", "reclaim", "miss", "claim", "slot",
              "giveback", "put", "store"}

Init ==
    /\ now = 0
    /\ entries = [k \in Keys |-> NoEntry]
    /\ generation = 0
    /\ inflight = {}
    /\ slots = 0
    /\ proc = [p \in Procs |-> Idle]
    /\ reply = [c \in Clients |-> NoReply]
    /\ admin = [a \in Admins |-> [next |-> NumShards, targets |-> {}, gen |-> 0]]
    /\ sweeper = [next |-> NumShards, cutoff |-> 0, exited |-> FALSE]
    /\ stopped = FALSE

Tick ==
    /\ now < MaxTime
    /\ now' = now + 1
    /\ UNCHANGED << entries, generation, inflight, slots, proc, reply, admin,
                    sweeper, stopped >>

------------------------------------------------------------------------------
(* Faults: operations below as a plausible slip would leave them, for mutation  *)
(* runs.  No action uses them.                                                  *)

\* reclaimExpired deletes without re-checking what is there now.
ReclaimUnchecked(c) ==
    /\ proc[c].pc = "reclaim"
    /\ entries' = [entries EXCEPT ![proc[c].key] = NoEntry]
    /\ Move(c, "miss")
    /\ UNCHANGED << now, generation, inflight, slots, reply, admin, sweeper, stopped >>

\* startRefresh does not look whether the key is claimed.
ClaimAlways(c) ==
    /\ proc[c].pc = "claim"
    /\ inflight' = inflight \cup {proc[c].key}
    /\ Move(c, "slot")
    /\ UNCHANGED << now, entries, generation, slots, reply, admin, sweeper, stopped >>

\* The default branch of the select forgets to give the key back.
NoSlotKeepsKey(c) ==
    /\ proc[c].pc = "slot"
    /\ slots >= MaxWorkers
    /\ Finished(c)
    /\ UNCHANGED << now, entries, generation, inflight, slots, reply, admin, sweeper, stopped >>

\* The claim is dropped when the goroutine starts, not when it ends.
RefreshStartUnclaims(w) ==
    /\ proc[w].pc = "start"
    /\ Become(w, [proc[w] EXCEPT !.pc = "asking", !.gen = generation])
    /\ inflight' = inflight \ {proc[w].key}
    /\ UNCHANGED << now, entries, generation, slots, reply, admin, sweeper, stopped >>

\* The release is not deferred: a panic skips it.
RefreshFailLeaks(w) ==
    /\ proc[w].pc = "asking"
    /\ Finished(w)
    /\ UNCHANGED << now, entries, generation, inflight, slots, reply, admin, sweeper, stopped >>

\* The slot is not given back.
ReleaseSlotNot(w) ==
    /\ proc[w].pc = "release"
    /\ Move(w, "unclaim")
    /\ UNCHANGED << now, entries, generation, inflight, slots, reply, admin, sweeper, stopped >>

\* evictLocked as it once was: the expired go, the new entry comes regardless.
SurvivorsUnbounded(k, at) ==
    LET held == InShard(ShardOf[k])
    IN  IF k \in held \/ Cardinality(held) < ShardCap THEN {held}
        ELSE { { j \in held : at <= entries[j].expireAt } }

Cleared(ks) == [k \in Keys |-> IF k \in ks THEN NoEntry ELSE entries[k]]

\* The loop over the shards starts one too far.
PurgeShardNext(a) ==
    LET s == admin[a].next IN
    /\ s < NumShards
    /\ entries' = Cleared(InShard(s + 1) \cap admin[a].targets)
    /\ admin' = [admin EXCEPT ![a].next = s + 1]
    /\ UNCHANGED << now, generation, inflight, slots, proc, reply, sweeper, stopped >>

------------------------------------------------------------------------------
(* Reading *)

\* Lookup reads the clock before it takes the shard's lock; Get reads it inside.
LookupBegin(c, k) ==
    /\ proc[c].pc = "idle"
    /\ Become(c, [Idle EXCEPT !.pc = "lookup", !.key = k, !.at = now])
    /\ reply' = [reply EXCEPT ![c] = NoReply]
    /\ UNCHANGED << now, entries, generation, inflight, slots, admin, sweeper, stopped >>

GetBegin(c, k) ==
    /\ proc[c].pc = "idle"
    /\ Become(c, [Idle EXCEPT !.pc = "get", !.key = k])
    /\ reply' = [reply EXCEPT ![c] = NoReply]
    /\ UNCHANGED << now, entries, generation, inflight, slots, admin, sweeper, stopped >>

Expired(e, at)  == at > e.expireAt
Servable(e, at) == ~Expired(e, at) \/ at < e.expireAt + StaleFor

\* Whether the lookup consults the refresher and finds one.
Renewing(e, at) ==
    /\ Expired(e, at) \/ e.expireAt - at <= PrefetchLead(e.origTTL)
    /\ HasRefresher

Unserved(e, at) == ~Servable(e, at) \/ (Expired(e, at) /\ ~Renewing(e, at))

LookupMiss(c) ==
    /\ proc[c].pc = "lookup"
    /\ ~Present(proc[c].key)
    /\ Move(c, "miss")
    /\ UNCHANGED << now, entries, generation, inflight, slots, reply, admin, sweeper, stopped >>

LookupLapsed(c) ==
    LET e == entries[proc[c].key] IN
    /\ proc[c].pc = "lookup"
    /\ Present(proc[c].key)
    /\ Unserved(e, proc[c].at)
    /\ Move(c, "reclaim")
    /\ UNCHANGED << now, entries, generation, inflight, slots, reply, admin, sweeper, stopped >>

LookupStale(c) ==
    LET e == entries[proc[c].key] IN
    /\ proc[c].pc = "lookup"
    /\ Present(proc[c].key)
    /\ ~Unserved(e, proc[c].at) /\ Expired(e, proc[c].at)
    /\ reply' = [reply EXCEPT ![c] = [kind |-> "stale",
                                      ttls |-> { StaleTTL : t \in e.ttls }]]
    /\ Move(c, "claim")
    /\ UNCHANGED << now, entries, generation, inflight, slots, admin, sweeper, stopped >>

LookupFresh(c) ==
    LET e == entries[proc[c].key] IN
    /\ proc[c].pc = "lookup"
    /\ Present(proc[c].key)
    /\ ~Expired(e, proc[c].at)
    /\ \E elapsed \in Elapsed(e, proc[c].at) :
          reply' = [reply EXCEPT ![c] = [kind |-> "fresh",
                                         ttls |-> AdjustRRs(e.ttls, elapsed)]]
    /\ IF Renewing(e, proc[c].at) THEN Move(c, "claim") ELSE Finished(c)
    /\ UNCHANGED << now, entries, generation, inflight, slots, admin, sweeper, stopped >>

\* The strict lookup: an expired entry is a miss, reclaimed on the spot.
Get(c) ==
    LET k == proc[c].key
        e == entries[k]
    IN
    /\ proc[c].pc = "get"
    /\ \/ /\ ~Present(k)
          /\ Move(c, "miss")
          /\ UNCHANGED reply
       \/ /\ Present(k) /\ Expired(e, now)
          /\ Become(c, [proc[c] EXCEPT !.pc = "reclaim", !.at = now])
          /\ UNCHANGED reply
       \/ /\ Present(k) /\ ~Expired(e, now)
          /\ \E elapsed \in Elapsed(e, now) :
                reply' = [reply EXCEPT ![c] = [kind |-> "fresh",
                                               ttls |-> AdjustRRs(e.ttls, elapsed)]]
          /\ Finished(c)
    /\ UNCHANGED << now, entries, generation, inflight, slots, admin, sweeper, stopped >>

\* reclaimExpired re-checks under the write lock, against the reader's clock.
Reclaim(c) ==
    LET k == proc[c].key IN
    /\ proc[c].pc = "reclaim"
    /\ entries' = IF Present(k) /\ Expired(entries[k], proc[c].at)
                  THEN [entries EXCEPT ![k] = NoEntry] ELSE entries
    /\ Move(c, "miss")
    /\ UNCHANGED << now, generation, inflight, slots, reply, admin, sweeper, stopped >>

------------------------------------------------------------------------------
(* startRefresh: claim the key, then try for a slot without waiting *)

Claim(c) ==
    LET k == proc[c].key IN
    /\ proc[c].pc = "claim"
    /\ \/ /\ k \in inflight
          /\ Finished(c)
          /\ UNCHANGED inflight
       \/ /\ k \notin inflight
          /\ inflight' = inflight \cup {k}
          /\ Move(c, "slot")
    /\ UNCHANGED << now, entries, generation, slots, reply, admin, sweeper, stopped >>

TakeSlot(c, w) ==
    /\ proc[c].pc = "slot"
    /\ slots < MaxWorkers
    /\ proc[w].pc = "idle"   \* an unused name for the goroutine that "go" starts
    /\ slots' = slots + 1
    /\ proc' = [proc EXCEPT ![c] = Idle,
                            ![w] = [Idle EXCEPT !.pc = "start", !.key = proc[c].key]]
    /\ UNCHANGED << now, entries, generation, inflight, reply, admin, sweeper, stopped >>

NoSlot(c) ==
    /\ proc[c].pc = "slot"
    /\ slots >= MaxWorkers
    /\ Move(c, "giveback")
    /\ UNCHANGED << now, entries, generation, inflight, slots, reply, admin, sweeper, stopped >>

\* releaseFlight, by a client that found no slot or by a worker that is done.
ReleaseFlight(p) ==
    /\ proc[p].pc \in {"giveback", "unclaim"}
    /\ inflight' = inflight \ {proc[p].key}
    /\ Finished(p)
    /\ UNCHANGED << now, entries, generation, slots, reply, admin, sweeper, stopped >>

------------------------------------------------------------------------------
(* runRefresh *)

RefreshStart(w) ==
    /\ proc[w].pc = "start"
    /\ Become(w, [proc[w] EXCEPT !.pc = "asking", !.gen = generation])
    /\ UNCHANGED << now, entries, generation, inflight, slots, reply, admin, sweeper, stopped >>

\* An error, a nil answer or a panic.
RefreshFail(w) ==
    /\ proc[w].pc = "asking"
    /\ Move(w, "release")
    /\ UNCHANGED << now, entries, generation, inflight, slots, reply, admin, sweeper, stopped >>

\* The generation is compared, and Put's early returns taken, before Put locks.
RefreshAnswer(w, a) ==
    /\ proc[w].pc = "asking"
    /\ IF generation = proc[w].gen /\ Cacheable(a)
       THEN Become(w, [proc[w] EXCEPT !.pc = "put", !.ans = a])
       ELSE Move(w, "release")
    /\ UNCHANGED << now, entries, generation, inflight, slots, reply, admin, sweeper, stopped >>

ReleaseSlot(w) ==
    /\ proc[w].pc = "release"
    /\ slots' = slots - 1
    /\ Move(w, "unclaim")
    /\ UNCHANGED << now, entries, generation, inflight, reply, admin, sweeper, stopped >>

------------------------------------------------------------------------------
(* Put *)

\* After a miss the caller resolves the question itself and stores what it got,
\* or goes away with nothing to store.
ClientAnswer(c, a) ==
    /\ proc[c].pc = "miss"
    /\ IF Cacheable(a)
       THEN Become(c, [proc[c] EXCEPT !.pc = "put", !.ans = a])
       ELSE Finished(c)
    /\ UNCHANGED << now, entries, generation, inflight, slots, reply, admin, sweeper, stopped >>

PutStamp(p) ==
    /\ proc[p].pc = "put"
    /\ Become(p, [proc[p] EXCEPT !.pc = "store", !.at = now])
    /\ UNCHANGED << now, entries, generation, inflight, slots, reply, admin, sweeper, stopped >>

\* evictLocked: the sets of keys that can be left in the shard of k when there is
\* room for k.  At capacity the expired go first, then the soonest to expire;
\* among equals the map's iteration order decides.
Survivors(k, at) ==
    LET held  == InShard(ShardOf[k])
        fresh == { j \in held : ~Expired(entries[j], at) }
    IN  IF k \in held \/ Cardinality(held) < ShardCap THEN {held}
        ELSE { kept \in SUBSET fresh :
                 /\ Cardinality(kept) = Smaller(Cardinality(fresh), ShardCap - 1)
                 /\ \A j \in kept, v \in fresh \ kept :
                       entries[v].expireAt <= entries[j].expireAt }

PutStore(p) ==
    LET k == proc[p].key IN
    /\ proc[p].pc = "store"
    /\ \E kept \in Survivors(k, proc[p].at) :
          entries' = [j \in Keys |->
                        IF j = k THEN EntryFor(proc[p].ans, proc[p].at)
                        ELSE IF ShardOf[j] = ShardOf[k] /\ j \notin kept THEN NoEntry
                        ELSE entries[j]]
    /\ IF p \in Workers
       THEN Become(p, [proc[p] EXCEPT !.pc = "release", !.ans = NoAnswer, !.at = 0])
       ELSE Finished(p)
    /\ UNCHANGED << now, generation, inflight, slots, reply, admin, sweeper, stopped >>

------------------------------------------------------------------------------
(* Flush, PurgeDomain, cleanupLoop, Close *)

\* Flush is the purge of every key: both raise the generation, then take the
\* shards one at a time.
PurgeBegin(a, targets) ==
    /\ admin[a].next = NumShards
    /\ generation < MaxGen
    /\ generation' = generation + 1
    /\ admin' = [admin EXCEPT ![a] = [next |-> 0, targets |-> targets,
                                      gen |-> generation + 1]]
    /\ UNCHANGED << now, entries, inflight, slots, proc, reply, sweeper, stopped >>

PurgeShard(a) ==
    LET s == admin[a].next IN
    /\ s < NumShards
    /\ entries' = Cleared(InShard(s) \cap admin[a].targets)
    /\ admin' = [admin EXCEPT ![a].next = s + 1]
    /\ UNCHANGED << now, generation, inflight, slots, proc, reply, sweeper, stopped >>

\* The cutoff is computed once per tick and used for every shard.
SweepBegin ==
    /\ ~sweeper.exited
    /\ sweeper.next = NumShards
    /\ sweeper' = [sweeper EXCEPT !.next = 0, !.cutoff = now - StaleFor]
    /\ UNCHANGED << now, entries, generation, inflight, slots, proc, reply, admin, stopped >>

SweepShard ==
    LET s == sweeper.next IN
    /\ s < NumShards
    /\ entries' = Cleared({ k \in InShard(s) : sweeper.cutoff > entries[k].expireAt })
    /\ sweeper' = [sweeper EXCEPT !.next = s + 1]
    /\ UNCHANGED << now, generation, inflight, slots, proc, reply, admin, stopped >>

Close ==
    /\ ~stopped
    /\ stopped' = TRUE
    /\ UNCHANGED << now, entries, generation, inflight, slots, proc, reply, admin, sweeper >>

\* The select at the top of the loop: with the channel closed it may still take
\* a tick that is due.
SweepExit ==
    /\ stopped /\ ~sweeper.exited
    /\ sweeper.next = NumShards
    /\ sweeper' = [sweeper EXCEPT !.exited = TRUE]
    /\ UNCHANGED << now, entries, generation, inflight, slots, proc, reply, admin, stopped >>

------------------------------------------------------------------------------

\* A client's step inside a call, and a worker's.
ClientStep(c) ==
    \/ LookupMiss(c) \/ LookupLapsed(c) \/ LookupStale(c) \/ LookupFresh(c)
    \/ Get(c) \/ Reclaim(c)
    \/ Claim(c) \/ (\E w \in Workers : TakeSlot(c, w)) \/ NoSlot(c)
    \/ ReleaseFlight(c) \/ PutStamp(c) \/ PutStore(c)

WorkerStep(w) ==
    \/ RefreshStart(w) \/ RefreshFail(w) \/ (\E a \in Answers : RefreshAnswer(w, a))
    \/ PutStamp(w) \/ PutStore(w) \/ ReleaseSlot(w) \/ ReleaseFlight(w)

Sweep == SweepBegin \/ SweepShard \/ SweepExit

Next ==
    \/ Tick
    \/ \E c \in Clients, k \in Keys : LookupBegin(c, k) \/ GetBegin(c, k)
    \/ \E c \in Clients : ClientStep(c)
    \/ \E c \in Clients, a \in Answers : ClientAnswer(c, a)
    \/ \E w \in Workers : WorkerStep(w)
    \/ \E a \in Admins, targets \in PurgeSets : PurgeBegin(a, targets)
    \/ \E a \in Admins : PurgeShard(a)
    \/ Sweep
    \/ Close

Spec == Init /\ [][Next]_vars

\* Goroutines inside a call are scheduled, the refresh function returns (the
\* upstream exchange it runs has a deadline), and the ticker keeps firing.
\* Nothing says that queries arrive, that admins call, or that Close is called.
Fairness ==
    /\ \A c \in Clients : WF_vars(ClientStep(c))
    /\ \A w \in Workers : WF_vars(WorkerStep(w))
    /\ WF_vars(Sweep)

FairSpec == Spec /\ Fairness

------------------------------------------------------------------------------
(* Properties *)

TTLSets == { ClampTTLs(a.ttls) : a \in Answers }

Entry == [ cachedAt : Nat, expireAt : Nat, origTTL : Nat, ttls : TTLSets, gen : Nat ]

Frame == [ pc : ClientPCs \cup WorkerPCs, key : Keys \cup {NoKey}, at : Nat,
           ans : Answers \cup {NoAnswer}, gen : Nat ]

\* A process inside a call has a key, and one that stores has an answer.
FrameOK(f) ==
    /\ f.pc # "idle" => f.key \in Keys
    /\ f.pc \in {"put", "store"} => f.ans \in Answers

ProcOK ==
    /\ proc \in [Procs -> Frame]
    /\ \A c \in Clients : proc[c].pc \in ClientPCs
    /\ \A w \in Workers : proc[w].pc \in WorkerPCs
    /\ \A p \in Procs : FrameOK(proc[p])

StoreOK ==
    /\ now \in Nat
    /\ entries \in [Keys -> Entry \cup {NoEntry}]
    /\ generation \in Nat
    /\ inflight \subseteq Keys
    /\ slots \in Int
    /\ DOMAIN reply = Clients
    /\ \A c \in Clients : reply[c] = NoReply \/ reply[c].kind \in {"fresh", "stale"}
    /\ admin \in [Admins -> [ next : 0 .. NumShards, targets : SUBSET Keys, gen : Nat ]]
    /\ sweeper \in [ next : 0 .. NumShards, cutoff : Int, exited : BOOLEAN ]
    /\ stopped \in BOOLEAN

TypeOK == StoreOK /\ ProcOK

\* The workers whose refresh occupies a slot; the processes that claim their key.
Refreshing  == { w \in Workers : proc[w].pc \in SlotPCs }
ClaimPCs(p) == IF p \in Workers THEN WorkerPCs \ {"idle"} ELSE {"slot", "giveback"}
Claiming    == { p \in Procs : proc[p].pc \in ClaimPCs(p) }

\* At most one upstream query per name is ever outstanding (startRefresh), however
\* many lookups reach the prefetch or grace window together.
SingleFlight ==
    \A v, w \in Refreshing : v # w => proc[v].key # proc[w].key

\* The single-flight set is exact: a key is in it while exactly one process is on
\* the way to take it out again, so no name is locked out of being refreshed for
\* good, nobody holds a claim the set does not show, and nobody releases another's.
FlightExact ==
    /\ inflight = { proc[p].key : p \in Claiming }
    /\ \A p, q \in Claiming : p # q => proc[p].key # proc[q].key

\* Refreshes never exceed the worker limit, and every path out of one returns the
\* slot it took exactly once.
SlotsExact == slots = Cardinality(Refreshing) /\ slots <= MaxWorkers

\* A stream of unique names cannot grow a shard past its slice of the budget
\* (evictLocked), whichever of Put's two callers stores.
ShardBounded == \A s \in Shards : Cardinality(InShard(s)) <= ShardCap

\* Once a Flush or a PurgeDomain has passed a shard, an entry for one of its names
\* there was stored after the call began: nothing older is missed while lookups,
\* stores and other purges go on in between.
PurgeReaches ==
    \A a \in Admins, k \in Keys :
        (k \in admin[a].targets /\ ShardOf[k] < admin[a].next /\ Present(k))
            => entries[k].gen >= admin[a].gen

Gone(k) == Present(k) /\ entries'[k] = NoEntry

\* Whether this step is an admin clearing k, or a store into k's full shard.
PurgedBy(a, k)  == admin'[a].next = admin[a].next + 1 /\ k \in admin[a].targets
CrowdedOut(p, k) ==
    /\ proc[p].pc = "store" /\ proc'[p].pc # "store"
    /\ ShardOf[proc[p].key] = ShardOf[k]
    /\ ~Present(proc[p].key)
    /\ Cardinality(InShard(ShardOf[k])) >= ShardCap

\* An entry leaves before its expiry only because an admin purged it or because a
\* new name needed its place in a full shard.  A reader that saw it expire never
\* takes the fresh answer that replaced it in the meantime.
RemovalJustified ==
    [][\A k \in Keys :
          (Gone(k) /\ ~Expired(entries[k], now))
              => \/ \E a \in Admins : PurgedBy(a, k)
                 \/ \E p \in Procs : CrowdedOut(p, k)]_vars

\* What a reader is told to keep does not outlive what the cache keeps.  A fresh
\* answer whose lifetime is that of one of its records promises that record for no
\* longer than the entry has left (one second at the least), even if the entry was
\* stored after the reader read its clock; a stale one is short, and is handed out
\* inside the grace window only, and only if something can replace it.
ServedLifetime ==
    [][\A c \in Clients :
          LET e     == entries[proc[c].key]
              asked == IF proc[c].pc = "get" THEN now ELSE proc[c].at
          IN  (reply[c] = NoReply /\ reply'[c] # NoReply)
                => IF reply'[c].kind = "stale"
                   THEN /\ HasRefresher
                        /\ Expired(e, asked) /\ Servable(e, asked)
                        /\ \A t \in reply'[c].ttls : t = StaleTTL
                   ELSE /\ ~Expired(e, asked)
                        /\ e.origTTL \in e.ttls =>
                             \E t \in reply'[c].ttls : t <= Larger(1, e.expireAt - asked)]_vars

\* A name being refreshed becomes refreshable again: no path through startRefresh
\* or runRefresh, the failing and panicking ones included, keeps its claim.  And
\* while the sweeper runs, an entry past its grace window is removed or replaced,
\* though nobody asks for the name again and purges go on meanwhile.
Lapsed(k) == Present(k) /\ now > entries[k].expireAt + StaleFor
NothingStuck ==
    \A k \in Keys : /\ (k \in inflight) ~> (k \notin inflight)
                    /\ Lapsed(k) ~> (~Lapsed(k) \/ stopped)

\* The background refreshes are an implementation of RefreshPool.
Pool == INSTANCE RefreshPool WITH
            Runners <- Workers, Names <- Keys, Limit <- MaxWorkers,
            running <- { << w, proc[w].key >> : w \in Refreshing }
PoolSpec == Pool!Spec

\* The comment of Flush: "any refresh already past its generation check still
\* loses, because its Put re-checks and drops".  A worker that stores does so in
\* the generation its query was sent in.
FlushBeatsRefresh ==
    [][\A w \in Workers :
          (proc[w].pc = "store" /\ proc'[w].pc = "release")
              => proc[w].gen = generation]_vars
=============================================================================
