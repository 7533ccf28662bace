---------------------------- MODULE DnsCacheProofs ----------------------------
(* What DnsCache's runs show on small instances, for every value of its          *)
(* constants: types, exactness of the single-flight set and of the semaphore,   *)
(* single flight, that the refreshes implement RefreshPool, what a purge leaves  *)
(* behind, what may leave the cache, and what lifetime is handed out.            *)
EXTENDS DnsCache, FiniteSetTheorems, WellFoundedInduction, TLAPS

\* The lifetime getMinTTL finds is one of the TTLs it looked at, or the floor.
LEMMA MinTTLType ==
    ASSUME NEW a \in Answers
    PROVE  GetMinTTL(a) \in Nat
<1> DEFINE negative   == a.rcode = "NXDOMAIN" \/ ~a.answered
           considered == a.ttls \cup (IF negative THEN a.soa ELSE {})
<1>1. considered \subseteq Nat /\ MinTTL \in Nat
  BY ConstantsAssumption
<1>2. CASE considered = {}
  BY <1>1, <1>2 DEF GetMinTTL
<1> HIDE DEF considered
<1>3. CASE considered # {}
  <2>1. \E t \in considered : \A u \in considered : t <= u
    <3> DEFINE less == OpToRel(<, Nat)
    <3>1. IsWellFoundedOn(less, Nat)
      BY NatLessThanWellFounded
    <3>2. \A t, u \in Nat : t < u => <<t, u>> \in less
      BY DEF OpToRel
    <3> HIDE DEF less
    <3>3. \E t \in considered : \A u \in considered : <<u, t>> \notin less
      BY <1>1, <1>3, <3>1, WFMin, Zenon
    <3>4. PICK t \in considered : \A u \in considered : <<u, t>> \notin less
      BY <3>3
    <3>5. \A u \in considered : t <= u
      <4>1. \A u \in considered : ~(u < t) /\ u \in Nat /\ t \in Nat
        BY <1>1, <3>2, <3>4, Zenon
      <4> QED BY <4>1
    <3> QED BY <3>5
  <2>2. (CHOOSE t \in considered : \A u \in considered : t <= u) \in considered
    BY <2>1
  <2> QED BY <1>1, <1>3, <2>2 DEF GetMinTTL, considered
<1> QED BY <1>2, <1>3

\* What Put stores for an answer is a well-formed entry.
LEMMA EntryType ==
    ASSUME NEW a \in Answers, NEW at \in Nat, generation \in Nat
    PROVE  EntryFor(a, at) \in Entry
<1>1. Clamp(GetMinTTL(a)) \in Nat
  BY MinTTLType, ConstantsAssumption DEF Clamp, Smaller, Larger
<1>2. ClampTTLs(a.ttls) \in TTLSets
  BY DEF TTLSets
<1>3. at + Clamp(GetMinTTL(a)) \in Nat
  BY <1>1
<1> HIDE DEF Clamp, ClampTTLs, TTLSets
<1> QED BY <1>1, <1>2, <1>3 DEF EntryFor, Entry

USE DEF Procs

LEMMA TypeInit == Init => TypeOK
<1> SUFFICES ASSUME Init PROVE TypeOK
  OBVIOUS
<1>1. StoreOK
  <2>1. NumShards \in 0 .. NumShards
    BY ConstantsAssumption
  <2>2. admin \in [Admins -> [ next : 0 .. NumShards, targets : SUBSET Keys, gen : Nat ]]
    BY <2>1 DEF Init
  <2>3. sweeper \in [ next : 0 .. NumShards, cutoff : Int, exited : BOOLEAN ]
    BY <2>1 DEF Init
  <2>4. DOMAIN reply = Clients /\ \A c \in Clients : reply[c] = NoReply
    BY DEF Init
  <2> QED BY <2>2, <2>3, <2>4 DEF Init, StoreOK
<1>2. ProcOK
  BY DEF Init, ProcOK, Frame, FrameOK, Idle, ClientPCs, WorkerPCs, SlotPCs
<1> QED BY <1>1, <1>2 DEF TypeOK

\* A process that moves to a well-formed frame of its kind leaves all well formed.
LEMMA FrameUpdate ==
    ASSUME ProcOK, NEW p \in Procs, NEW f \in Frame, FrameOK(f), Become(p, f),
           p \in Clients => f.pc \in ClientPCs, p \in Workers => f.pc \in WorkerPCs
    PROVE  ProcOK'
<1> HIDE DEF Frame, FrameOK, ClientPCs, WorkerPCs
<1>1. proc' \in [Procs -> Frame]
  BY DEF ProcOK, Become
<1>2. \A q \in Procs : proc'[q] = IF q = p THEN f ELSE proc[q]
  BY DEF ProcOK, Become
<1> QED BY <1>1, <1>2 DEF ProcOK, FrameOK

LEMMA IdleFrame ==
    /\ Idle \in Frame /\ FrameOK(Idle)
    /\ Idle.pc = "idle" /\ "idle" \in ClientPCs /\ "idle" \in WorkerPCs
BY DEF Idle, Frame, FrameOK, ClientPCs, WorkerPCs, SlotPCs

\* Leaving a call.
LEMMA FinishedUpdate ==
    ASSUME ProcOK, NEW p \in Procs, Finished(p) PROVE ProcOK'
BY IdleFrame, FrameUpdate, Zenon DEF Finished

\* Moving on inside a call, to a location where no answer is needed.
LEMMA MoveUpdate ==
    ASSUME ProcOK, NEW p \in Procs, NEW pc, Move(p, pc), proc[p].pc # "idle",
           pc \notin {"put", "store"},
           pc \in ClientPCs \cup WorkerPCs,
           p \in Clients => pc \in ClientPCs, p \in Workers => pc \in WorkerPCs
    PROVE  ProcOK'
<1> DEFINE f == [proc[p] EXCEPT !.pc = pc]
<1>1. f \in Frame /\ f.pc = pc
  BY DEF ProcOK, Frame
<1>2. FrameOK(f)
  BY DEF ProcOK, Frame, FrameOK
<1> QED BY <1>1, <1>2, FrameUpdate, Zenon DEF Move

\* Every step keeps every variable in its type.
LEMMA TypeStep == TypeOK /\ [Next]_vars => TypeOK'
<1> SUFFICES ASSUME TypeOK, [Next]_vars PROVE StoreOK' /\ ProcOK'
  BY DEF TypeOK
<1>0. StoreOK /\ ProcOK
  BY DEF TypeOK
<1>1. CASE UNCHANGED vars
  BY <1>0, <1>1 DEF StoreOK, ProcOK, vars
<1>2. CASE Tick
  BY <1>0, <1>2 DEF Tick, StoreOK, ProcOK
<1>3. ASSUME NEW c \in Clients, NEW k \in Keys, LookupBegin(c, k) \/ GetBegin(c, k)
      PROVE  StoreOK' /\ ProcOK'
  <2>1. StoreOK'
    BY <1>0, <1>3 DEF LookupBegin, GetBegin, StoreOK
  <2>2. CASE LookupBegin(c, k)
    <3> DEFINE f == [Idle EXCEPT !.pc = "lookup", !.key = k, !.at = now]
    <3>1. f \in Frame /\ FrameOK(f) /\ f.pc \in ClientPCs
      BY <1>0 DEF Idle, Frame, FrameOK, StoreOK, ClientPCs
    <3> QED BY <1>0, <2>1, <2>2, <3>1, FrameUpdate, ConstantsAssumption DEF LookupBegin
  <2>3. CASE GetBegin(c, k)
    <3> DEFINE f == [Idle EXCEPT !.pc = "get", !.key = k]
    <3>1. f \in Frame /\ FrameOK(f) /\ f.pc \in ClientPCs
      BY DEF Idle, Frame, FrameOK, ClientPCs
    <3> QED BY <1>0, <2>1, <2>3, <3>1, FrameUpdate, ConstantsAssumption DEF GetBegin
  <2> QED BY <1>3, <2>2, <2>3
<1>4. ASSUME NEW p \in Procs,
             \/ p \in Clients /\ (LookupMiss(p) \/ LookupLapsed(p) \/ LookupStale(p) \/ NoSlot(p))
             \/ p \in Workers /\ (RefreshFail(p) \/ ReleaseSlot(p))
      PROVE  StoreOK' /\ ProcOK'
  <2>1. StoreOK'
    BY <1>0, <1>4 DEF LookupMiss, LookupLapsed, LookupStale, NoSlot, RefreshFail,
                      ReleaseSlot, StoreOK
  <2>2. ProcOK'
    <3>1. PICK pc \in {"miss", "reclaim", "claim", "giveback", "release", "unclaim"} :
             /\ Move(p, pc) /\ proc[p].pc # "idle"
             /\ p \in Clients => pc \in {"miss", "reclaim", "claim", "giveback"}
             /\ p \in Workers => pc \in {"release", "unclaim"}
      BY <1>4, ConstantsAssumption DEF LookupMiss, LookupLapsed, LookupStale, NoSlot,
                                       RefreshFail, ReleaseSlot
    <3> QED BY <1>0, <3>1, MoveUpdate DEF ClientPCs, WorkerPCs, SlotPCs
  <2> QED BY <2>1, <2>2
<1>5. ASSUME NEW c \in Clients, LookupFresh(c) \/ Get(c) \/ Reclaim(c) \/ Claim(c)
      PROVE  StoreOK' /\ ProcOK'
  <2>1. StoreOK'
    BY <1>0, <1>5 DEF LookupFresh, Get, Reclaim, Claim, StoreOK, ProcOK, FrameOK
  <2>2. ProcOK'
    <3>1. CASE Finished(c)
      BY <1>0, <3>1, FinishedUpdate
    <3>2. CASE \E pc \in {"miss", "claim", "slot"} : Move(c, pc) /\ proc[c].pc # "idle"
      BY <1>0, <3>2, MoveUpdate, ConstantsAssumption DEF ClientPCs
    <3>3. CASE Become(c, [proc[c] EXCEPT !.pc = "reclaim", !.at = now]) /\ Get(c)
      <4> DEFINE f == [proc[c] EXCEPT !.pc = "reclaim", !.at = now]
      <4>1. proc[c] \in Frame /\ FrameOK(proc[c]) /\ proc[c].pc = "get" /\ now \in Nat
        BY <1>0, <3>3, ConstantsAssumption DEF Get, ProcOK, StoreOK, Procs
      <4>2. f \in Frame /\ f.pc = "reclaim"
        BY <4>1 DEF Frame, ClientPCs
      <4>3. FrameOK(f) /\ f.pc \in ClientPCs
        BY <4>1, <4>2 DEF Frame, FrameOK, ClientPCs
      <4> QED BY <1>0, <3>3, <4>2, <4>3, FrameUpdate, ConstantsAssumption
    <3> QED BY <1>5, <3>1, <3>2, <3>3 DEF LookupFresh, Get, Reclaim, Claim
  <2> QED BY <2>1, <2>2
<1>6. ASSUME NEW c \in Clients, NEW w \in Workers, TakeSlot(c, w)
      PROVE  StoreOK' /\ ProcOK'
  <2> DEFINE f == [Idle EXCEPT !.pc = "start", !.key = proc[c].key]
  <2>1. StoreOK'
    BY <1>0, <1>6 DEF TakeSlot, StoreOK
  <2>2. f \in Frame /\ FrameOK(f) /\ f.pc \in WorkerPCs /\ c # w
    BY <1>0, <1>6, ConstantsAssumption
    DEF TakeSlot, Idle, Frame, FrameOK, ProcOK, WorkerPCs, SlotPCs
  <2>3. /\ proc' \in [Procs -> Frame]
        /\ \A q \in Procs : proc'[q] = IF q = w THEN f ELSE IF q = c THEN Idle ELSE proc[q]
    <3> HIDE DEF f, Frame
    <3>1. proc' = [proc EXCEPT ![c] = Idle, ![w] = f]
      BY <1>6 DEF TakeSlot, f
    <3> QED BY <1>0, <2>2, <3>1, IdleFrame DEF ProcOK
  <2>4. ProcOK'
    <3> HIDE DEF f, Frame, FrameOK
    <3> QED BY <1>0, <2>2, <2>3, IdleFrame, ConstantsAssumption DEF ProcOK, FrameOK
  <2> QED BY <2>1, <2>4
<1>7. ASSUME NEW p \in Procs, ReleaseFlight(p)
      PROVE  StoreOK' /\ ProcOK'
  BY <1>0, <1>7, FinishedUpdate DEF ReleaseFlight, StoreOK
<1>8. ASSUME NEW w \in Workers, RefreshStart(w)
      PROVE  StoreOK' /\ ProcOK'
  <2> DEFINE f == [proc[w] EXCEPT !.pc = "asking", !.gen = generation]
  <2>1. f \in Frame /\ FrameOK(f) /\ f.pc \in WorkerPCs
    BY <1>0, <1>8 DEF RefreshStart, Frame, FrameOK, StoreOK, ProcOK, WorkerPCs, SlotPCs
  <2> QED BY <1>0, <1>8, <2>1, FrameUpdate, ConstantsAssumption DEF RefreshStart, StoreOK
<1>9. ASSUME NEW p \in Procs, NEW a \in Answers,
             \/ p \in Clients /\ ClientAnswer(p, a)
             \/ p \in Workers /\ RefreshAnswer(p, a)
      PROVE  StoreOK' /\ ProcOK'
  <2> DEFINE f == [proc[p] EXCEPT !.pc = "put", !.ans = a]
  <2>1. StoreOK'
    BY <1>0, <1>9 DEF ClientAnswer, RefreshAnswer, StoreOK
  <2>2. f \in Frame /\ FrameOK(f) /\ f.pc \in ClientPCs /\ f.pc \in WorkerPCs
    BY <1>0, <1>9 DEF ClientAnswer, RefreshAnswer, Frame, FrameOK, ProcOK, ClientPCs,
                      WorkerPCs, SlotPCs
  <2>3. CASE Become(p, f)
    BY <1>0, <2>1, <2>2, <2>3, FrameUpdate
  <2>4. CASE Finished(p)
    BY <1>0, <2>1, <2>4, FinishedUpdate
  <2>5. CASE p \in Workers /\ proc[p].pc # "idle" /\ Move(p, "release")
    BY <1>0, <2>1, <2>5, MoveUpdate, ConstantsAssumption DEF WorkerPCs, SlotPCs
  <2> QED BY <1>9, <2>3, <2>4, <2>5 DEF ClientAnswer, RefreshAnswer
<1>10. ASSUME NEW p \in Procs, PutStamp(p)
       PROVE  StoreOK' /\ ProcOK'
  <2> DEFINE f == [proc[p] EXCEPT !.pc = "store", !.at = now]
  <2>1. f \in Frame /\ FrameOK(f) /\ f.pc \in ClientPCs /\ f.pc \in WorkerPCs
    BY <1>0, <1>10 DEF PutStamp, Frame, FrameOK, StoreOK, ProcOK, ClientPCs, WorkerPCs, SlotPCs
  <2> QED BY <1>0, <1>10, <2>1, FrameUpdate DEF PutStamp, StoreOK
<1>11. ASSUME NEW p \in Procs, PutStore(p)
       PROVE  StoreOK' /\ ProcOK'
  <2> DEFINE f == [proc[p] EXCEPT !.pc = "release", !.ans = NoAnswer, !.at = 0]
  <2>1. EntryFor(proc[p].ans, proc[p].at) \in Entry
    BY <1>0, <1>11, EntryType DEF PutStore, ProcOK, StoreOK, Frame, FrameOK
  <2>2. StoreOK'
    BY <1>0, <1>11, <2>1 DEF PutStore, StoreOK
  <2>3. CASE p \in Workers
    <3>1. f \in Frame /\ FrameOK(f) /\ f.pc \in WorkerPCs
      BY <1>0, <1>11 DEF PutStore, Frame, FrameOK, ProcOK, WorkerPCs, SlotPCs
    <3> QED BY <1>0, <1>11, <2>2, <2>3, <3>1, FrameUpdate, ConstantsAssumption DEF PutStore
  <2>4. CASE p \notin Workers
    BY <1>0, <1>11, <2>2, <2>4, FinishedUpdate DEF PutStore
  <2> QED BY <2>3, <2>4
<1>12. ASSUME NEW a \in Admins, NEW targets \in PurgeSets, PurgeBegin(a, targets)
       PROVE  StoreOK' /\ ProcOK'
  BY <1>0, <1>12, ConstantsAssumption DEF PurgeBegin, StoreOK, ProcOK
<1>13. ASSUME NEW a \in Admins, PurgeShard(a)
       PROVE  StoreOK' /\ ProcOK'
  BY <1>0, <1>13, ConstantsAssumption DEF PurgeShard, Cleared, StoreOK, ProcOK
<1>14. CASE Sweep
  <2>1. CASE SweepBegin \/ SweepExit
    <3>1. 0 \in 0 .. NumShards /\ now - StaleFor \in Int
      BY <1>0, ConstantsAssumption DEF StoreOK
    <3>2. sweeper' \in [ next : 0 .. NumShards, cutoff : Int, exited : BOOLEAN ]
      BY <1>0, <2>1, <3>1 DEF SweepBegin, SweepExit, StoreOK
    <3> QED BY <1>0, <2>1, <3>2 DEF SweepBegin, SweepExit, StoreOK, ProcOK
  <2>2. CASE SweepShard
    BY <1>0, <2>2, ConstantsAssumption DEF SweepShard, Cleared, StoreOK, ProcOK
  <2> QED BY <1>14, <2>1, <2>2 DEF Sweep
<1>15. CASE Close
  BY <1>0, <1>15 DEF Close, StoreOK, ProcOK
<1>16. ASSUME NEW c \in Clients, ClientStep(c)
       PROVE  StoreOK' /\ ProcOK'
  BY <1>4, <1>5, <1>6, <1>7, <1>10, <1>11, <1>16 DEF ClientStep
<1>17. ASSUME NEW w \in Workers, WorkerStep(w)
       PROVE  StoreOK' /\ ProcOK'
  BY <1>4, <1>7, <1>8, <1>9, <1>10, <1>11, <1>17 DEF WorkerStep
<1>18. ASSUME NEW c \in Clients, NEW a \in Answers, ClientAnswer(c, a)
       PROVE  StoreOK' /\ ProcOK'
  BY <1>9, <1>18 DEF Procs
<1> QED
  BY <1>1, <1>2, <1>3, <1>18, <1>12, <1>13, <1>14, <1>15, <1>16, <1>17 DEF Next

------------------------------------------------------------------------------
(* The single-flight set and the semaphore *)

\* A process that neither takes nor releases a claim leaves the set exact.
LEMMA FlightKept ==
    ASSUME FlightExact, NEW p \in Procs,
           \A q \in Procs : q # p => proc'[q] = proc[q],
           proc'[p].pc \in ClaimPCs(p) <=> proc[p].pc \in ClaimPCs(p),
           proc'[p].pc \in ClaimPCs(p) => proc'[p].key = proc[p].key,
           inflight' = inflight
    PROVE  FlightExact'
<1> HIDE DEF Procs
<1>1. Claiming' = Claiming
  BY DEF Claiming, ClaimPCs
<1>2. \A q \in Claiming : q \in Procs /\ proc'[q].key = proc[q].key
  BY DEF Claiming
<1> QED BY <1>1, <1>2 DEF FlightExact

LEMMA FlightFramed ==
    ASSUME FlightExact, UNCHANGED << proc, inflight >> PROVE FlightExact'
BY DEF FlightExact, Claiming

\* Where a move leads, and that it keeps the key.
LEMMA MoveFields ==
    ASSUME ProcOK, NEW p \in Procs, NEW pc, Move(p, pc)
    PROVE  proc'[p].pc = pc /\ proc'[p].key = proc[p].key
BY DEF ProcOK, Frame, Move, Become

LEMMA FinishedFields ==
    ASSUME ProcOK, NEW p \in Procs, Finished(p) PROVE proc'[p].pc = "idle"
BY DEF ProcOK, Finished, Become, Idle

\* A worker's locations follow the order of runRefresh, and it keeps its key.
LEMMA WorkerMoves ==
    ASSUME ProcOK, NEW w \in Workers,
           \/ RefreshStart(w) \/ RefreshFail(w) \/ \E a \in Answers : RefreshAnswer(w, a)
           \/ PutStamp(w) \/ PutStore(w)
    PROVE  /\ proc[w].pc \in SlotPCs /\ proc'[w].pc \in SlotPCs
           /\ proc'[w].key = proc[w].key
<1>0. proc[w] \in Frame /\ proc[w].pc \in WorkerPCs
  BY DEF ProcOK
<1> USE MoveFields, FinishedFields DEF SlotPCs
<1>1. CASE RefreshStart(w)
  BY <1>0, <1>1 DEF RefreshStart, Become, ProcOK, Frame
<1>2. CASE RefreshFail(w)
  BY <1>2 DEF RefreshFail
<1>3. CASE \E a \in Answers : RefreshAnswer(w, a)
  <2>1. PICK a \in Answers : RefreshAnswer(w, a)
    BY <1>3
  <2>2. CASE Become(w, [proc[w] EXCEPT !.pc = "put", !.ans = a])
    BY <1>0, <2>1, <2>2 DEF RefreshAnswer, Become, ProcOK, Frame
  <2> QED BY <2>1, <2>2 DEF RefreshAnswer
<1>4. CASE PutStamp(w)
  BY <1>0, <1>4 DEF PutStamp, Become, ProcOK, Frame
<1>5. CASE PutStore(w)
  <2>1. /\ proc[w].pc = "store"
        /\ Become(w, [proc[w] EXCEPT !.pc = "release", !.ans = NoAnswer, !.at = 0])
    BY <1>5 DEF PutStore
  <2> QED BY <1>0, <2>1 DEF Become, ProcOK, Frame
<1> QED BY <1>1, <1>2, <1>3, <1>4, <1>5

LEMMA FlightStep == TypeOK /\ FlightExact /\ [Next]_vars => FlightExact'
<1> SUFFICES ASSUME StoreOK, ProcOK, FlightExact, [Next]_vars PROVE FlightExact'
  BY DEF TypeOK
<1> USE DEF ClaimPCs, WorkerPCs, SlotPCs
<1>1. CASE UNCHANGED vars \/ Tick \/ Sweep \/ Close
  BY <1>1, FlightFramed DEF vars, Tick, Sweep, SweepBegin, SweepShard, SweepExit, Close
<1>2. ASSUME NEW a \in Admins, (\E targets \in PurgeSets : PurgeBegin(a, targets)) \/ PurgeShard(a)
      PROVE  FlightExact'
  BY <1>2, FlightFramed DEF PurgeBegin, PurgeShard
<1>3. ASSUME NEW c \in Clients,
             \/ \E k \in Keys : LookupBegin(c, k) \/ GetBegin(c, k)
             \/ \E a \in Answers : ClientAnswer(c, a)
             \/ LookupMiss(c) \/ LookupLapsed(c) \/ LookupStale(c) \/ LookupFresh(c)
             \/ Get(c) \/ Reclaim(c) \/ NoSlot(c) \/ PutStamp(c) \/ PutStore(c)
      PROVE  FlightExact'
  <2>1. c \notin Workers /\ inflight' = inflight
    BY <1>3, ConstantsAssumption
    DEF LookupBegin, GetBegin, ClientAnswer, LookupMiss, LookupLapsed, LookupStale,
        LookupFresh, Get, Reclaim, NoSlot, PutStamp, PutStore
  <2>2. proc[c] \in Frame /\ \A q \in Procs : q # c => proc'[q] = proc[q]
    BY <1>3, <2>1 DEF LookupBegin, GetBegin, ClientAnswer, LookupMiss, LookupLapsed,
        LookupStale, LookupFresh, Get, Reclaim, NoSlot, PutStamp, PutStore, Move,
        Finished, Become, ProcOK
  <2>3. /\ proc[c].pc \in {"slot", "giveback"} <=> proc'[c].pc \in {"slot", "giveback"}
        /\ proc'[c].pc \in {"slot", "giveback"} => proc'[c].key = proc[c].key
    <3> USE MoveFields, FinishedFields
    <3>1. CASE NoSlot(c)
      BY <3>1 DEF NoSlot
    <3>2. CASE LookupMiss(c) \/ LookupLapsed(c) \/ LookupStale(c) \/ LookupFresh(c)
      BY <3>2 DEF LookupMiss, LookupLapsed, LookupStale, LookupFresh
    <3>3. CASE Get(c)
      <4>1. CASE Become(c, [proc[c] EXCEPT !.pc = "reclaim", !.at = now])
        BY <2>2, <3>3, <4>1 DEF Get, Become, ProcOK, Frame
      <4> QED BY <3>3, <4>1 DEF Get
    <3>4. CASE Reclaim(c)
      BY <3>4 DEF Reclaim
    <3>5. CASE PutStamp(c)
      BY <2>2, <3>5 DEF PutStamp, Become, ProcOK, Frame
    <3>6. CASE PutStore(c)
      BY <2>1, <3>6 DEF PutStore
    <3>7. CASE \E k \in Keys : LookupBegin(c, k)
      BY <3>7 DEF LookupBegin, Become, Idle, ProcOK
    <3>8. CASE \E k \in Keys : GetBegin(c, k)
      BY <3>8 DEF GetBegin, Become, Idle, ProcOK
    <3>9. CASE \E a \in Answers : ClientAnswer(c, a)
      <4>1. PICK a \in Answers : ClientAnswer(c, a)
        BY <3>9
      <4>2. CASE Become(c, [proc[c] EXCEPT !.pc = "put", !.ans = a])
        BY <2>2, <4>1, <4>2 DEF ClientAnswer, Become, ProcOK, Frame
      <4> QED BY <4>1, <4>2 DEF ClientAnswer
    <3> QED BY <1>3, <3>1, <3>2, <3>3, <3>4, <3>5, <3>6, <3>7, <3>8, <3>9
  <2> QED BY <2>1, <2>2, <2>3, FlightKept
<1>4. ASSUME NEW w \in Workers,
             \/ RefreshStart(w) \/ RefreshFail(w) \/ \E a \in Answers : RefreshAnswer(w, a)
             \/ PutStamp(w) \/ PutStore(w)
      PROVE  FlightExact'
  <2>1. inflight' = inflight /\ \A q \in Procs : q # w => proc'[q] = proc[q]
    BY <1>4 DEF RefreshStart, RefreshFail, RefreshAnswer, PutStamp, PutStore, Move,
                Become, ProcOK
  <2>2. /\ proc[w].pc \in SlotPCs /\ proc'[w].pc \in SlotPCs
        /\ proc'[w].key = proc[w].key
    BY <1>4, WorkerMoves
  <2> QED BY <2>1, <2>2, FlightKept
<1>10. ASSUME NEW w \in Workers, ReleaseSlot(w)
       PROVE  FlightExact'
  <2>1. inflight' = inflight /\ \A q \in Procs : q # w => proc'[q] = proc[q]
    BY <1>10 DEF ReleaseSlot, Move, Become, ProcOK
  <2>2. /\ proc[w].pc = "release" /\ proc'[w].pc = "unclaim"
        /\ proc'[w].key = proc[w].key
    BY <1>10, MoveFields DEF ReleaseSlot
  <2> QED BY <2>1, <2>2, FlightKept
<1>5. ASSUME NEW c \in Clients, Claim(c)
      PROVE  FlightExact'
  <2>0. c \notin Workers
    BY ConstantsAssumption
  <2>1. CASE inflight' = inflight /\ Finished(c)
    <3>1. /\ \A q \in Procs : q # c => proc'[q] = proc[q]
          /\ proc'[c].pc = "idle" /\ proc[c].pc = "claim"
      BY <1>5, <2>1 DEF Claim, Finished, Become, Idle, ProcOK
    <3> QED BY <2>0, <2>1, <3>1, FlightKept
  <2>2. CASE /\ proc[c].key \notin inflight
             /\ inflight' = inflight \cup {proc[c].key}
             /\ Move(c, "slot")
    <3>1. \A q \in Procs : q # c => proc'[q] = proc[q]
      BY <2>2 DEF Move, Become, ProcOK
    <3>2. proc'[c].pc = "slot" /\ proc'[c].key = proc[c].key
      BY <2>2 DEF Move, Become, ProcOK, Frame
    <3>3. Claiming' = Claiming \cup {c} /\ c \notin Claiming
      BY <1>5, <2>0, <3>1, <3>2 DEF Claiming, Claim
    <3>4. \A q \in Claiming : q # c /\ proc'[q].key = proc[q].key
      BY <3>1, <3>3 DEF Claiming
    <3> QED BY <2>2, <3>2, <3>3, <3>4 DEF FlightExact
  <2> QED BY <1>5, <2>1, <2>2 DEF Claim
<1>6. ASSUME NEW c \in Clients, NEW w \in Workers, TakeSlot(c, w)
      PROVE  FlightExact'
  <2>0. c \notin Workers /\ c # w
    BY ConstantsAssumption
  <2>1. /\ \A q \in Procs : q # c /\ q # w => proc'[q] = proc[q]
        /\ proc'[c] = Idle
        /\ proc'[w].pc = "start" /\ proc'[w].key = proc[c].key
    BY <1>6, <2>0 DEF TakeSlot, ProcOK, Idle
  <2>2. Claiming' = (Claiming \ {c}) \cup {w} /\ c \in Claiming /\ w \notin Claiming
    <3>1. proc[c].pc = "slot" /\ proc[w].pc = "idle" /\ proc'[c].pc = "idle"
      BY <1>6, <2>1 DEF TakeSlot, Idle
    <3>2. c \in Claiming /\ c \notin Claiming' /\ w \notin Claiming /\ w \in Claiming'
      BY <2>0, <2>1, <3>1 DEF Claiming
    <3>3. \A q \in Procs : q # c /\ q # w => (q \in Claiming' <=> q \in Claiming)
      BY <2>1 DEF Claiming
    <3>4. Claiming \subseteq Procs /\ Claiming' \subseteq Procs
      BY DEF Claiming
    <3> HIDE DEF Procs
    <3> QED BY <2>0, <3>2, <3>3, <3>4
  <2>3. \A q \in Claiming : q # c => q # w /\ proc'[q].key = proc[q].key
    BY <2>1, <2>2 DEF Claiming
  <2>4. inflight' = inflight
    BY <1>6 DEF TakeSlot
  <2> QED BY <2>1, <2>2, <2>3, <2>4 DEF FlightExact
<1>7. ASSUME NEW p \in Procs, ReleaseFlight(p)
      PROVE  FlightExact'
  <2>1. /\ \A q \in Procs : q # p => proc'[q] = proc[q]
        /\ proc'[p].pc = "idle"
    BY <1>7 DEF ReleaseFlight, Finished, Become, ProcOK, Idle
  <2>2. p \in Claiming
    BY <1>7, ConstantsAssumption DEF ReleaseFlight, Claiming, ProcOK, ClientPCs
  <2>3. Claiming' = Claiming \ {p}
    BY <2>1 DEF Claiming
  <2>4. \A q \in Claiming : q # p => proc'[q].key = proc[q].key
    BY <2>1 DEF Claiming
  <2>5. inflight' = inflight \ {proc[p].key}
    BY <1>7 DEF ReleaseFlight
  <2> QED BY <2>2, <2>3, <2>4, <2>5 DEF FlightExact
<1>8. ASSUME NEW c \in Clients, ClientStep(c)
      PROVE  FlightExact'
  BY <1>3, <1>5, <1>6, <1>7, <1>8 DEF ClientStep
<1>9. ASSUME NEW w \in Workers, WorkerStep(w)
      PROVE  FlightExact'
  BY <1>4, <1>7, <1>9, <1>10 DEF WorkerStep
<1> QED BY <1>1, <1>2, <1>3, <1>8, <1>9 DEF Next

\* The workers are finitely many, and so are those with a slot.
LEMMA RefreshingFinite == IsFiniteSet(Refreshing) /\ Cardinality(Refreshing) \in Nat
<1>1. Refreshing \subseteq Workers
  BY DEF Refreshing
<1> QED BY <1>1, FS_Subset, FS_CardinalityType, ConstantsAssumption

LEMMA SlotsKept ==
    ASSUME SlotsExact, slots' = slots,
           \A w \in Workers : proc'[w].pc \in SlotPCs <=> proc[w].pc \in SlotPCs
    PROVE  SlotsExact'
<1>1. Refreshing' = Refreshing
  BY DEF Refreshing, SlotPCs
<1> QED BY <1>1 DEF SlotsExact

LEMMA SlotsStep == TypeOK /\ SlotsExact /\ [Next]_vars => SlotsExact'
<1> SUFFICES ASSUME StoreOK, ProcOK, SlotsExact, [Next]_vars PROVE SlotsExact'
  BY DEF TypeOK
<1>1. CASE UNCHANGED vars \/ Tick \/ Sweep \/ Close
  BY <1>1, SlotsKept DEF vars, Tick, Sweep, SweepBegin, SweepShard, SweepExit, Close
<1>2. ASSUME NEW a \in Admins, (\E targets \in PurgeSets : PurgeBegin(a, targets)) \/ PurgeShard(a)
      PROVE  SlotsExact'
  BY <1>2, SlotsKept DEF PurgeBegin, PurgeShard
<1>3. ASSUME NEW c \in Clients,
             \/ \E k \in Keys : LookupBegin(c, k) \/ GetBegin(c, k)
             \/ \E a \in Answers : ClientAnswer(c, a)
             \/ LookupMiss(c) \/ LookupLapsed(c) \/ LookupStale(c) \/ LookupFresh(c)
             \/ Get(c) \/ Reclaim(c) \/ Claim(c) \/ NoSlot(c) \/ ReleaseFlight(c)
             \/ PutStamp(c) \/ PutStore(c)
      PROVE  SlotsExact'
  <2>1. slots' = slots /\ \A q \in Procs : q # c => proc'[q] = proc[q]
    BY <1>3, ConstantsAssumption
    DEF LookupBegin, GetBegin, ClientAnswer, LookupMiss, LookupLapsed, LookupStale,
        LookupFresh, Get, Reclaim, Claim, NoSlot, ReleaseFlight, PutStamp, PutStore,
        Move, Finished, Become, ProcOK
  <2>2. c \notin Workers
    BY ConstantsAssumption
  <2> QED BY <2>1, <2>2, SlotsKept
<1>4. ASSUME NEW w \in Workers,
             \/ RefreshStart(w) \/ RefreshFail(w) \/ \E a \in Answers : RefreshAnswer(w, a)
             \/ PutStamp(w) \/ PutStore(w) \/ ReleaseFlight(w)
      PROVE  SlotsExact'
  <2>1. slots' = slots /\ \A q \in Procs : q # w => proc'[q] = proc[q]
    BY <1>4 DEF RefreshStart, RefreshFail, RefreshAnswer, PutStamp, PutStore, ReleaseFlight,
                Move, Finished, Become, ProcOK
  <2>2. proc'[w].pc \in SlotPCs <=> proc[w].pc \in SlotPCs
    <3>1. CASE ReleaseFlight(w)
      BY <3>1, FinishedFields DEF ReleaseFlight, SlotPCs
    <3> QED BY <1>4, <3>1, WorkerMoves
  <2> QED BY <2>1, <2>2, SlotsKept
<1>5. ASSUME NEW c \in Clients, NEW w \in Workers, TakeSlot(c, w)
      PROVE  SlotsExact'
  <2>1. /\ \A q \in Workers : q # w => proc'[q] = proc[q]
        /\ proc'[w].pc = "start" /\ proc[w].pc = "idle"
    BY <1>5, ConstantsAssumption DEF TakeSlot, ProcOK, Idle
  <2>2. Refreshing' = Refreshing \cup {w} /\ w \notin Refreshing
    BY <2>1 DEF Refreshing, SlotPCs
  <2>3. Cardinality(Refreshing') = Cardinality(Refreshing) + 1
    BY <2>2, RefreshingFinite, FS_AddElement
  <2> QED BY <1>5, <2>3, RefreshingFinite, ConstantsAssumption DEF TakeSlot, SlotsExact
<1>6. ASSUME NEW w \in Workers, ReleaseSlot(w)
      PROVE  SlotsExact'
  <2>1. /\ \A q \in Workers : q # w => proc'[q] = proc[q]
        /\ proc'[w].pc = "unclaim" /\ proc[w].pc = "release"
    BY <1>6, MoveFields DEF ReleaseSlot, Move, Become, ProcOK
  <2>2. Refreshing' = Refreshing \ {w} /\ w \in Refreshing
    BY <2>1 DEF Refreshing, SlotPCs
  <2>3. Cardinality(Refreshing') = Cardinality(Refreshing) - 1
    BY <2>2, RefreshingFinite, FS_RemoveElement
  <2> QED BY <1>6, <2>3, RefreshingFinite, ConstantsAssumption DEF ReleaseSlot, SlotsExact
<1>7. ASSUME NEW c \in Clients, ClientStep(c)
      PROVE  SlotsExact'
  BY <1>3, <1>5, <1>7 DEF ClientStep
<1>8. ASSUME NEW w \in Workers, WorkerStep(w)
      PROVE  SlotsExact'
  BY <1>4, <1>6, <1>8 DEF WorkerStep
<1> QED BY <1>1, <1>2, <1>3, <1>7, <1>8 DEF Next

------------------------------------------------------------------------------
(* The shards' capacity *)

LEMMA ShardFinite == \A s : IsFiniteSet(InShard(s)) /\ Cardinality(InShard(s)) \in Nat
<1>1. \A s : InShard(s) \subseteq Keys
  BY DEF InShard
<1> QED BY <1>1, FS_Subset, FS_CardinalityType, ConstantsAssumption

\* A shard that gains nothing stays within its capacity.
LEMMA ShardKept ==
    ASSUME ShardBounded, \A k \in Keys : entries'[k] # NoEntry => entries[k] # NoEntry
    PROVE  ShardBounded'
<1>1. \A s \in Shards : InShard(s)' \subseteq InShard(s)
  BY DEF InShard, Present
<1>2. \A s \in Shards : Cardinality(InShard(s)') <= Cardinality(InShard(s))
                        /\ Cardinality(InShard(s)') \in Nat
  BY <1>1, ShardFinite, FS_Subset, FS_CardinalityType
<1>3. \A s \in Shards : Cardinality(InShard(s)') <= ShardCap
  BY <1>2, ShardFinite, ConstantsAssumption DEF ShardBounded
<1> QED BY <1>3 DEF ShardBounded

\* evictLocked leaves room for the new key, or the key already has its place.
LEMMA EvictionMakesRoom ==
    ASSUME ShardBounded, NEW k \in Keys, NEW at, NEW kept \in Survivors(k, at)
    PROVE  /\ kept \subseteq InShard(ShardOf[k])
           /\ Cardinality(kept \cup {k}) <= ShardCap
<1> DEFINE held  == InShard(ShardOf[k])
           fresh == { j \in held : ~Expired(entries[j], at) }
<1>1. /\ IsFiniteSet(held) /\ Cardinality(held) \in Nat /\ Cardinality(held) <= ShardCap
      /\ ShardCap \in Nat \ {0}
  BY ShardFinite, ConstantsAssumption DEF ShardBounded
<1> HIDE DEF held
<1>2. IsFiniteSet(fresh) /\ Cardinality(fresh) \in Nat /\ fresh \subseteq held
  BY <1>1, FS_Subset, FS_CardinalityType
<1> HIDE DEF fresh
<1>3. \/ kept = held /\ (k \in held \/ Cardinality(held) < ShardCap)
      \/ kept \subseteq fresh /\ Cardinality(kept) = Smaller(Cardinality(fresh), ShardCap - 1)
  BY DEF Survivors, held, fresh
<1>4. CASE kept = held /\ k \in held
  <2>1. kept \cup {k} = held
    BY <1>4
  <2> QED BY <1>1, <1>4, <2>1 DEF held
<1>5. CASE kept = held /\ k \notin held /\ Cardinality(held) < ShardCap
  <2>1. Cardinality(kept \cup {k}) = Cardinality(held) + 1
    BY <1>1, <1>5, FS_AddElement
  <2> QED BY <1>1, <1>5, <2>1 DEF held
<1>6. CASE kept \subseteq fresh /\ Cardinality(kept) = Smaller(Cardinality(fresh), ShardCap - 1)
  <2>1. IsFiniteSet(kept) /\ Cardinality(kept) \in Nat /\ Cardinality(kept) <= ShardCap - 1
    BY <1>1, <1>2, <1>6, FS_Subset, FS_CardinalityType DEF Smaller
  <2>2. Cardinality(kept \cup {k}) <= Cardinality(kept) + 1
    <3>1. Cardinality(kept \cup {k}) \in {Cardinality(kept), Cardinality(kept) + 1}
      BY <2>1, FS_AddElement
    <3> QED BY <2>1, <3>1
  <2>3. Cardinality(kept \cup {k}) \in Nat
    BY <2>1, FS_AddElement, FS_CardinalityType
  <2> QED BY <1>1, <1>2, <1>6, <2>1, <2>2, <2>3 DEF held
<1> QED BY <1>3, <1>4, <1>5, <1>6

LEMMA ShardStep == TypeOK /\ ShardBounded /\ [Next]_vars => ShardBounded'
<1> SUFFICES ASSUME StoreOK, ProcOK, ShardBounded, [Next]_vars PROVE ShardBounded'
  BY DEF TypeOK
<1>1. CASE entries' = entries
  BY <1>1, ShardKept
<1>2. CASE \E ks \in SUBSET Keys : entries' = Cleared(ks)
  BY <1>2, ShardKept DEF Cleared
<1>3. ASSUME NEW c \in Clients, Reclaim(c)
      PROVE  ShardBounded'
  BY <1>3, ShardKept DEF Reclaim, StoreOK
<1>4. ASSUME NEW p \in Procs, PutStore(p)
      PROVE  ShardBounded'
  <2>1. PICK k \in Keys : k = proc[p].key
    BY <1>4 DEF PutStore, ProcOK, FrameOK
  <2> DEFINE s == ShardOf[k]
  <2>2. PICK kept \in Survivors(k, proc[p].at) :
           entries' = [j \in Keys |->
                        IF j = k THEN EntryFor(proc[p].ans, proc[p].at)
                        ELSE IF ShardOf[j] = s /\ j \notin kept THEN NoEntry
                        ELSE entries[j]]
    BY <1>4, <2>1 DEF PutStore
  <2>3. kept \subseteq InShard(s) /\ Cardinality(kept \cup {k}) <= ShardCap
    BY <2>1, EvictionMakesRoom
  <2>4. InShard(s)' \subseteq kept \cup {k}
    BY <2>2 DEF InShard, Present
  <2>5. Cardinality(InShard(s)') <= ShardCap
    <3>1. IsFiniteSet(kept \cup {k})
      BY <2>3, ShardFinite, FS_Subset, FS_AddElement
    <3>2. /\ Cardinality(InShard(s)') <= Cardinality(kept \cup {k})
          /\ Cardinality(InShard(s)') \in Nat /\ Cardinality(kept \cup {k}) \in Nat
      BY <2>4, <3>1, FS_Subset, FS_CardinalityType
    <3> QED BY <2>3, <3>2, ConstantsAssumption
  <2>6. ASSUME NEW t \in Shards, t # s
        PROVE  Cardinality(InShard(t)') <= ShardCap
    <3>1. InShard(t)' = InShard(t)
      BY <2>2, <2>6 DEF InShard, Present
    <3> QED BY <3>1 DEF ShardBounded
  <2> QED BY <2>5, <2>6 DEF ShardBounded
<1>5. ASSUME NEW c \in Clients, ClientStep(c)
      PROVE  ShardBounded'
  BY <1>1, <1>3, <1>4, <1>5
  DEF ClientStep, LookupMiss, LookupLapsed, LookupStale, LookupFresh, Get, Claim, TakeSlot,
      NoSlot, ReleaseFlight, PutStamp
<1>6. ASSUME NEW w \in Workers, WorkerStep(w)
      PROVE  ShardBounded'
  BY <1>1, <1>4, <1>6
  DEF WorkerStep, RefreshStart, RefreshFail, RefreshAnswer, PutStamp, ReleaseSlot, ReleaseFlight
<1>7. CASE UNCHANGED vars \/ Tick \/ Close \/ SweepBegin \/ SweepExit
  BY <1>1, <1>7 DEF vars, Tick, Close, SweepBegin, SweepExit
<1>8. CASE SweepShard
  <2>1. { k \in InShard(sweeper.next) : sweeper.cutoff > entries[k].expireAt } \subseteq Keys
    BY DEF InShard
  <2> QED BY <1>2, <1>8, <2>1 DEF SweepShard
<1>9. ASSUME NEW a \in Admins, PurgeShard(a)
      PROVE  ShardBounded'
  <2>1. InShard(admin[a].next) \cap admin[a].targets \subseteq Keys
    BY DEF InShard
  <2> QED BY <1>2, <1>9, <2>1 DEF PurgeShard
<1>10. ASSUME NEW c \in Clients,
              \/ \E k \in Keys : LookupBegin(c, k) \/ GetBegin(c, k)
              \/ \E a \in Answers : ClientAnswer(c, a)
       PROVE  ShardBounded'
  BY <1>1, <1>10 DEF LookupBegin, GetBegin, ClientAnswer
<1>11. ASSUME NEW a \in Admins, NEW targets \in PurgeSets, PurgeBegin(a, targets)
       PROVE  ShardBounded'
  BY <1>1, <1>11 DEF PurgeBegin
<1> QED BY <1>5, <1>6, <1>7, <1>8, <1>9, <1>10, <1>11 DEF Next, Sweep

------------------------------------------------------------------------------
(* The theorems *)

\* The invariant that is inductive: the exact set and the exact count are what
\* single flight and the worker limit follow from.
IInv == TypeOK /\ FlightExact /\ SlotsExact /\ ShardBounded

LEMMA IInvInit == Init => IInv
<1> SUFFICES ASSUME Init PROVE FlightExact /\ SlotsExact /\ ShardBounded
  BY TypeInit DEF IInv
<1>1. Claiming = {} /\ Refreshing = {} /\ \A s \in Shards : InShard(s) = {}
  BY DEF Init, Claiming, ClaimPCs, Refreshing, SlotPCs, Idle, InShard, Present
<1>2. Cardinality({}) = 0
  BY FS_EmptySet
<1>3. FlightExact
  BY <1>1 DEF Init, FlightExact
<1>4. SlotsExact
  BY <1>1, <1>2, ConstantsAssumption DEF Init, SlotsExact
<1>5. ShardBounded
  <2>1. \A s \in Shards : Cardinality(InShard(s)) = 0
    BY <1>1, <1>2, Zenon
  <2> QED BY <2>1, ConstantsAssumption DEF ShardBounded
<1> QED BY <1>3, <1>4, <1>5

LEMMA IInvStep == IInv /\ [Next]_vars => IInv'
  BY TypeStep, FlightStep, SlotsStep, ShardStep DEF IInv

THEOREM Invariance == Spec => []IInv
  BY IInvInit, IInvStep, PTL DEF Spec

\* Type correctness of the cache.
THEOREM TypeCorrect == Spec => []TypeOK
  BY Invariance, PTL DEF IInv

\* The single-flight set never leaks a claim, nor misses one (startRefresh and
\* releaseFlight on every path, drops and panics included).
THEOREM FlightCorrect == Spec => []FlightExact
  BY Invariance, PTL DEF IInv

\* Never two upstream queries for one name from the cache (startRefresh).
THEOREM SingleFlightHolds == Spec => []SingleFlight
<1>1. IInv => SingleFlight
  BY DEF IInv, FlightExact, SingleFlight, Claiming, ClaimPCs, WorkerPCs, Refreshing, SlotPCs
<1> QED BY Invariance, <1>1, PTL

\* Refreshes stay within maxRefreshWorkers and return every slot once.
THEOREM SlotsCorrect == Spec => []SlotsExact
  BY Invariance, PTL DEF IInv

\* No stream of names grows a shard past its slice (Put and evictLocked).
THEOREM CapacityHolds == Spec => []ShardBounded
  BY Invariance, PTL DEF IInv

------------------------------------------------------------------------------
(* The refreshes implement RefreshPool *)

Running == { << w, proc[w].key >> : w \in Refreshing }

LEMMA RunningSize == Cardinality(Running) <= Cardinality(Refreshing) /\ Cardinality(Running) \in Nat
<1> DEFINE f == [w \in Refreshing |-> << w, proc[w].key >>]
<1>1. f \in Surjection(Refreshing, Running)
  BY DEF Running, Surjection
<1> HIDE DEF f
<1> QED BY <1>1, FS_Surjection, RefreshingFinite, FS_CardinalityType

\* A step that leaves the refreshing workers and their keys alone stutters.
LEMMA PoolStutters ==
    ASSUME \A w \in Workers : /\ proc'[w].pc \in SlotPCs <=> proc[w].pc \in SlotPCs
                              /\ proc[w].pc \in SlotPCs => proc'[w].key = proc[w].key
    PROVE  Running' = Running
<1> HIDE DEF Procs
<1>1. Refreshing' = Refreshing
  BY DEF Refreshing, SlotPCs
<1>2. \A w \in Refreshing : proc'[w].key = proc[w].key
  BY DEF Refreshing
<1> QED BY <1>1, <1>2 DEF Running

LEMMA PoolStep == IInv /\ [Next]_vars => [Pool!Next]_Running
<1> SUFFICES ASSUME StoreOK, ProcOK, FlightExact, SlotsExact, [Next]_vars
             PROVE  Running' = Running \/ \E w \in Workers, k \in Keys : Pool!Start(w, k) \/ Pool!Finish(w, k)
  BY DEF IInv, TypeOK, Pool!Next
<1>1. CASE proc' = proc
  BY <1>1, PoolStutters
<1>2. ASSUME NEW c \in Clients, \A q \in Procs : q # c => proc'[q] = proc[q]
      PROVE  Running' = Running
  BY <1>2, PoolStutters, ConstantsAssumption
<1>3. ASSUME NEW w \in Workers,
             \/ RefreshStart(w) \/ RefreshFail(w) \/ \E a \in Answers : RefreshAnswer(w, a)
             \/ PutStamp(w) \/ PutStore(w)
      PROVE  Running' = Running
  <2>1. \A q \in Procs : q # w => proc'[q] = proc[q]
    BY <1>3 DEF RefreshStart, RefreshFail, RefreshAnswer, PutStamp, PutStore, Move,
                Become, ProcOK
  <2> QED BY <1>3, <2>1, WorkerMoves, PoolStutters
<1>4. ASSUME NEW w \in Workers, ReleaseFlight(w)
      PROVE  Running' = Running
  <2>1. \A q \in Procs : q # w => proc'[q] = proc[q]
    BY <1>4 DEF ReleaseFlight, Finished, Become, ProcOK
  <2>2. proc[w].pc \notin SlotPCs /\ proc'[w].pc \notin SlotPCs
    BY <1>4, FinishedFields DEF ReleaseFlight, SlotPCs
  <2> QED BY <2>1, <2>2, PoolStutters
<1>5. ASSUME NEW c \in Clients, NEW w \in Workers, TakeSlot(c, w)
      PROVE  \E k \in Keys : Pool!Start(w, k)
  <2>1. PICK k \in Keys : k = proc[c].key
    BY <1>5 DEF TakeSlot, ProcOK, FrameOK
  <2>2. \A job \in Running : job[1] # w /\ job[2] # k
    <3>1. c \in Claiming /\ c \notin Refreshing
      BY <1>5, ConstantsAssumption DEF TakeSlot, Claiming, ClaimPCs, Refreshing
    <3>2. Refreshing \subseteq Claiming
      BY DEF Refreshing, Claiming, ClaimPCs, WorkerPCs, SlotPCs
    <3>3. w \notin Refreshing
      BY <1>5 DEF TakeSlot, Refreshing, SlotPCs
    <3>4. \A q \in Refreshing : proc[q].key # k
      BY <2>1, <3>1, <3>2 DEF FlightExact
    <3> QED BY <3>3, <3>4 DEF Running
  <2>3. Cardinality(Running) < MaxWorkers
    BY <1>5, RunningSize, RefreshingFinite, ConstantsAssumption DEF SlotsExact, TakeSlot
  <2>4. Running' = Running \cup {<< w, k >>}
    <3>1. /\ \A q \in Workers : q # w => proc'[q] = proc[q]
          /\ proc'[w].pc = "start" /\ proc'[w].key = k /\ proc[w].pc = "idle"
      BY <1>5, <2>1, ConstantsAssumption DEF TakeSlot, ProcOK, Idle
    <3>2. Refreshing' = Refreshing \cup {w} /\ w \notin Refreshing
      BY <3>1 DEF Refreshing, SlotPCs
    <3>3. \A q \in Refreshing : proc'[q].key = proc[q].key
      BY <3>1, <3>2 DEF Refreshing
    <3> QED BY <3>1, <3>2, <3>3 DEF Running
  <2>5. Pool!Start(w, k)
    BY <2>2, <2>3, <2>4 DEF Pool!Start, Running, Pool!Cardinality, Cardinality
  <2> QED BY <2>5
<1>6. ASSUME NEW w \in Workers, ReleaseSlot(w)
      PROVE  \E k \in Keys : Pool!Finish(w, k)
  <2>1. PICK k \in Keys : k = proc[w].key
    BY <1>6 DEF ReleaseSlot, ProcOK, FrameOK
  <2>2. /\ \A q \in Workers : q # w => proc'[q] = proc[q]
        /\ proc'[w].pc = "unclaim" /\ proc[w].pc = "release"
    BY <1>6, MoveFields DEF ReleaseSlot, Move, Become, ProcOK
  <2>3. Refreshing' = Refreshing \ {w} /\ w \in Refreshing
    BY <2>2 DEF Refreshing, SlotPCs
  <2>4. \A q \in Refreshing : proc'[q].key = proc[q].key
    BY <1>6, <2>2, <2>3, MoveFields DEF ReleaseSlot, Refreshing
  <2>5. Running' = Running \ {<< w, k >>} /\ << w, k >> \in Running
    BY <2>1, <2>3, <2>4 DEF Running
  <2> QED BY <2>5 DEF Pool!Finish, Running
<1>7. ASSUME NEW c \in Clients, ClientStep(c)
      PROVE  Running' = Running \/ \E w \in Workers, k \in Keys : Pool!Start(w, k)
  <2>1. CASE \E w \in Workers : TakeSlot(c, w)
    BY <1>5, <2>1
  <2>2. CASE \A w \in Workers : ~TakeSlot(c, w)
    <3>1. \A q \in Procs : q # c => proc'[q] = proc[q]
      BY <1>7, <2>2 DEF ClientStep, LookupMiss, LookupLapsed, LookupStale, LookupFresh, Get,
           Reclaim, Claim, NoSlot, ReleaseFlight, PutStamp, PutStore, Move, Finished,
           Become, ProcOK
    <3> QED BY <1>2, <3>1
  <2> QED BY <2>1, <2>2
<1>8. ASSUME NEW w \in Workers, WorkerStep(w)
      PROVE  Running' = Running \/ \E k \in Keys : Pool!Finish(w, k)
  BY <1>3, <1>4, <1>6, <1>8 DEF WorkerStep
<1>9. ASSUME NEW c \in Clients,
             \/ \E k \in Keys : LookupBegin(c, k) \/ GetBegin(c, k)
             \/ \E a \in Answers : ClientAnswer(c, a)
      PROVE  Running' = Running
  <2>1. \A q \in Procs : q # c => proc'[q] = proc[q]
    BY <1>9 DEF LookupBegin, GetBegin, ClientAnswer, Finished, Become, ProcOK
  <2> QED BY <1>2, <2>1
<1>10. CASE UNCHANGED vars \/ Tick \/ Sweep \/ Close
  BY <1>1, <1>10 DEF vars, Tick, Sweep, SweepBegin, SweepShard, SweepExit, Close
<1>11. ASSUME NEW a \in Admins, (\E targets \in PurgeSets : PurgeBegin(a, targets)) \/ PurgeShard(a)
       PROVE  Running' = Running
  <2>1. proc' = proc
    BY <1>11 DEF PurgeBegin, PurgeShard
  <2> QED BY <2>1, PoolStutters
<1> QED BY <1>7, <1>8, <1>9, <1>10, <1>11 DEF Next

\* The cache's refreshes are a RefreshPool: started only for a name that has none
\* and only below the limit, whichever lookups, workers and purges interleave.
THEOREM Refinement == Spec => PoolSpec
<1>1. Init => Pool!Init
  BY DEF Init, Pool!Init, Refreshing, SlotPCs, Idle
<1>2. IInv /\ [Next]_vars => [Pool!Next]_Running
  BY PoolStep
<1> QED BY <1>1, <1>2, Invariance, PTL DEF Spec, PoolSpec, Pool!Spec, Running

------------------------------------------------------------------------------
(* What leaves the cache, and what is served from it *)

\* No clock reading is ahead of the clock, and a sweep uses a cutoff of its past.
ClockInv ==
    /\ \A p \in Procs : proc[p].at <= now
    /\ sweeper.next < NumShards => sweeper.cutoff <= now - StaleFor

\* An entry lives for as long as its TTL said when it was stored.
LifeInv == \A k \in Keys : Present(k) => entries[k].expireAt = entries[k].cachedAt + entries[k].origTTL

\* No admin's call is of a generation to come.
PurgeInv == PurgeReaches /\ \A a \in Admins : admin[a].gen <= generation

\* The steps that touch the stored answers.
LEMMA EntriesMove ==
    ASSUME [Next]_vars
    PROVE  \/ entries' = entries
           \/ \E c \in Clients : Reclaim(c)
           \/ \E p \in Procs : PutStore(p)
           \/ \E a \in Admins : PurgeShard(a)
           \/ SweepShard
<1>1. ASSUME NEW c \in Clients, ClientStep(c)
      PROVE  entries' = entries \/ Reclaim(c) \/ PutStore(c)
  BY <1>1 DEF ClientStep, LookupMiss, LookupLapsed, LookupStale, LookupFresh, Get, Claim, TakeSlot,
              NoSlot, ReleaseFlight, PutStamp
<1>2. ASSUME NEW w \in Workers, WorkerStep(w)
      PROVE  entries' = entries \/ PutStore(w)
  BY <1>2 DEF WorkerStep, RefreshStart, RefreshFail, RefreshAnswer, PutStamp, ReleaseSlot, ReleaseFlight
<1>3. ASSUME \/ UNCHANGED vars \/ Tick \/ Close \/ SweepBegin \/ SweepExit
             \/ \E c \in Clients, k \in Keys : LookupBegin(c, k) \/ GetBegin(c, k)
             \/ \E c \in Clients, a \in Answers : ClientAnswer(c, a)
             \/ \E a \in Admins, targets \in PurgeSets : PurgeBegin(a, targets)
      PROVE  entries' = entries
  BY <1>3 DEF vars, Tick, Close, SweepBegin, SweepExit, LookupBegin, GetBegin, ClientAnswer, PurgeBegin
<1> QED BY <1>1, <1>2, <1>3 DEF Next, Sweep

\* What PutStore leaves of the keys: its own entry, and no new one besides.
LEMMA StoreLeaves ==
    ASSUME TypeOK, NEW p \in Procs, PutStore(p)
    PROVE  /\ proc[p].key \in Keys /\ proc[p].ans \in Answers /\ proc[p].at \in Nat
           /\ entries'[proc[p].key] = EntryFor(proc[p].ans, proc[p].at)
           /\ entries'[proc[p].key] \in Entry
           /\ \A j \in Keys : j # proc[p].key => entries'[j] \in {NoEntry, entries[j]}
           /\ UNCHANGED << now, generation, admin >>
<1>1. proc[p].pc = "store" /\ proc[p] \in Frame /\ FrameOK(proc[p]) /\ generation \in Nat
  BY DEF PutStore, TypeOK, ProcOK, StoreOK
<1>2. proc[p].key \in Keys /\ proc[p].ans \in Answers /\ proc[p].at \in Nat
  BY <1>1 DEF FrameOK, Frame
<1>3. EntryFor(proc[p].ans, proc[p].at) \in Entry
  BY <1>1, <1>2, EntryType
<1>4. PICK kept : entries' = [j \in Keys |->
                        IF j = proc[p].key THEN EntryFor(proc[p].ans, proc[p].at)
                        ELSE IF ShardOf[j] = ShardOf[proc[p].key] /\ j \notin kept THEN NoEntry
                        ELSE entries[j]]
  BY DEF PutStore
<1> HIDE DEF EntryFor, Entry
<1> QED BY <1>2, <1>3, <1>4 DEF PutStore

LEMMA LifeStep == TypeOK /\ LifeInv /\ [Next]_vars => LifeInv'
<1> SUFFICES ASSUME TypeOK, LifeInv, [Next]_vars PROVE LifeInv'
  OBVIOUS
<1>1. ASSUME \A k \in Keys : entries'[k] \in {NoEntry, entries[k]} PROVE LifeInv'
  BY <1>1 DEF LifeInv, Present
<1>2. ASSUME NEW p \in Procs, PutStore(p) PROVE LifeInv'
  <2> DEFINE k == proc[p].key
  <2>1. entries'[k] = EntryFor(proc[p].ans, proc[p].at)
        /\ \A j \in Keys : j # k => entries'[j] \in {NoEntry, entries[j]}
    BY <1>2, StoreLeaves
  <2>2. entries'[k].expireAt = entries'[k].cachedAt + entries'[k].origTTL
    BY <2>1 DEF EntryFor
  <2> QED BY <2>1, <2>2 DEF LifeInv, Present
<1>3. \A c \in Clients : Reclaim(c) => \A k \in Keys : entries'[k] \in {NoEntry, entries[k]}
  BY DEF Reclaim, TypeOK, StoreOK
<1>4. \A a \in Admins : PurgeShard(a) => \A k \in Keys : entries'[k] \in {NoEntry, entries[k]}
  BY DEF PurgeShard, Cleared
<1>5. SweepShard => \A k \in Keys : entries'[k] \in {NoEntry, entries[k]}
  BY DEF SweepShard, Cleared
<1> QED BY <1>1, <1>2, <1>3, <1>4, <1>5, EntriesMove

LEMMA PurgeStep == TypeOK /\ PurgeInv /\ [Next]_vars => PurgeInv'
<1> SUFFICES ASSUME TypeOK, PurgeInv, [Next]_vars PROVE PurgeInv'
  OBVIOUS
<1>0. /\ admin \in [Admins -> [ next : 0 .. NumShards, targets : SUBSET Keys, gen : Nat ]]
      /\ generation \in Nat /\ NumShards \in Nat /\ \A k \in Keys : ShardOf[k] \in 0 .. NumShards - 1
  BY ConstantsAssumption DEF TypeOK, StoreOK, Shards
<1>1. ASSUME UNCHANGED << admin, generation >>, \A k \in Keys : entries'[k] \in {NoEntry, entries[k]}
      PROVE  PurgeInv'
  BY <1>1 DEF PurgeInv, PurgeReaches, Present
<1>2. ASSUME NEW p \in Procs, PutStore(p) PROVE PurgeInv'
  <2> DEFINE k == proc[p].key
  <2>1. /\ entries'[k] = EntryFor(proc[p].ans, proc[p].at) /\ UNCHANGED << admin, generation >>
        /\ \A j \in Keys : j # k => entries'[j] \in {NoEntry, entries[j]}
    BY <1>2, StoreLeaves
  <2>2. entries'[k].gen = generation
    BY <2>1 DEF EntryFor
  <2> HIDE DEF k
  <2> QED BY <2>1, <2>2 DEF PurgeInv, PurgeReaches, Present
<1>3. ASSUME NEW a \in Admins, NEW targets \in PurgeSets, PurgeBegin(a, targets) PROVE PurgeInv'
  <2>1. /\ entries' = entries /\ generation' = generation + 1
        /\ admin' = [admin EXCEPT ![a] = [next |-> 0, targets |-> targets, gen |-> generation + 1]]
    BY <1>3 DEF PurgeBegin
  <2>2. admin'[a].next = 0 /\ admin'[a].gen = generation' /\ \A b \in Admins : b # a => admin'[b] = admin[b]
    BY <1>0, <2>1
  <2>3. \A b \in Admins : admin'[b].gen <= generation'
    <3>1. \A b \in Admins : admin[b].gen \in Nat /\ admin[b].gen <= generation
      BY <1>0 DEF PurgeInv
    <3> QED BY <1>0, <2>1, <2>2, <3>1
  <2>4. PurgeReaches'
    <3> SUFFICES ASSUME NEW b \in Admins, NEW k \in Keys,
                        k \in admin'[b].targets, ShardOf[k] < admin'[b].next, entries'[k] # NoEntry
                 PROVE  entries'[k].gen >= admin'[b].gen
      BY DEF PurgeReaches, Present
    <3>1. b # a
      BY <1>0, <2>2
    <3> QED BY <2>1, <2>2, <3>1 DEF PurgeInv, PurgeReaches, Present
  <2> QED BY <2>3, <2>4 DEF PurgeInv
<1>4. ASSUME NEW a \in Admins, PurgeShard(a) PROVE PurgeInv'
  <2> DEFINE s == admin[a].next
  <2>1. /\ s < NumShards /\ generation' = generation /\ admin' = [admin EXCEPT ![a].next = s + 1]
        /\ \A k \in Keys : entries'[k] = IF Present(k) /\ ShardOf[k] = s /\ k \in admin[a].targets
                                         THEN NoEntry ELSE entries[k]
    BY <1>4 DEF PurgeShard, Cleared, InShard
  <2>2. s \in Nat
    BY <1>0
  <2>3. /\ admin'[a].next = s + 1 /\ admin'[a].targets = admin[a].targets /\ admin'[a].gen = admin[a].gen
        /\ \A b \in Admins : b # a => admin'[b] = admin[b]
    BY <1>0, <2>1
  <2>4. \A b \in Admins : admin'[b].gen <= generation'
    BY <2>1, <2>3 DEF PurgeInv
  <2>5. PurgeReaches'
    <3> SUFFICES ASSUME NEW b \in Admins, NEW k \in Keys,
                        k \in admin'[b].targets, ShardOf[k] < admin'[b].next, entries'[k] # NoEntry
                 PROVE  entries'[k].gen >= admin'[b].gen
      BY DEF PurgeReaches, Present
    <3>1. entries'[k] = entries[k] /\ Present(k)
      BY <2>1 DEF Present
    <3>2. CASE b # a
      BY <2>3, <3>1, <3>2 DEF PurgeInv, PurgeReaches
    <3>3. CASE b = a
      <4>1. ShardOf[k] # s
        BY <2>1, <2>3, <3>1, <3>3 DEF Present
      <4>2. ShardOf[k] < s
        BY <1>0, <2>2, <2>3, <3>3, <4>1
      <4> QED BY <2>3, <3>1, <3>3, <4>2 DEF PurgeInv, PurgeReaches
    <3> QED BY <3>2, <3>3
  <2> QED BY <2>4, <2>5 DEF PurgeInv
<1>5. ASSUME NEW c \in Clients, ClientStep(c) PROVE PurgeInv'
  <2>1. CASE Reclaim(c)
    BY <1>1, <2>1 DEF Reclaim, TypeOK, StoreOK
  <2>2. CASE ~Reclaim(c) /\ ~PutStore(c)
    BY <1>1, <1>5, <2>2
    DEF ClientStep, LookupMiss, LookupLapsed, LookupStale, LookupFresh, Get, Claim, TakeSlot,
        NoSlot, ReleaseFlight, PutStamp
  <2> QED BY <1>2, <2>1, <2>2
<1>6. ASSUME NEW w \in Workers, WorkerStep(w) PROVE PurgeInv'
  <2>1. CASE ~PutStore(w)
    BY <1>1, <1>6, <2>1
    DEF WorkerStep, RefreshStart, RefreshFail, RefreshAnswer, PutStamp, ReleaseSlot, ReleaseFlight
  <2> QED BY <1>2, <2>1
<1>7. ASSUME \/ UNCHANGED vars \/ Tick \/ Close \/ SweepBegin \/ SweepExit
             \/ \E c \in Clients, k \in Keys : LookupBegin(c, k) \/ GetBegin(c, k)
             \/ \E c \in Clients, a \in Answers : ClientAnswer(c, a)
      PROVE  PurgeInv'
  <2>1. UNCHANGED << entries, admin, generation >>
    BY <1>7 DEF vars, Tick, Close, SweepBegin, SweepExit, LookupBegin, GetBegin, ClientAnswer
  <2> QED BY <1>1, <2>1
<1>8. CASE SweepShard
  BY <1>1, <1>8 DEF SweepShard, Cleared
<1> QED BY <1>3, <1>4, <1>5, <1>6, <1>7, <1>8 DEF Next, Sweep

\* A process that keeps its reading of the clock, takes a new one or drops it.
LEMMA ReadingKept ==
    ASSUME TypeOK, ClockInv, NEW p \in Procs, NEW f, Become(p, f), f.at \in {proc[p].at, now, 0},
           UNCHANGED << now, sweeper >>
    PROVE  ClockInv'
<1>1. proc' = [proc EXCEPT ![p] = f] /\ DOMAIN proc = Procs /\ now \in Nat
  BY DEF Become, TypeOK, ProcOK, StoreOK
<1>2. \A q \in Procs : proc'[q] = IF q = p THEN f ELSE proc[q]
  BY <1>1
<1> QED BY <1>1, <1>2 DEF ClockInv

LEMMA MovedReading ==
    ASSUME TypeOK, ClockInv, NEW p \in Procs, UNCHANGED << now, sweeper >>,
           (\E pc : Move(p, pc)) \/ Finished(p)
    PROVE  ClockInv'
<1>1. proc[p] \in Frame
  BY DEF TypeOK, ProcOK
<1>2. CASE Finished(p)
  BY <1>2, ReadingKept DEF Finished, Idle
<1>3. ASSUME NEW pc, Move(p, pc) PROVE ClockInv'
  <2>1. [proc[p] EXCEPT !.pc = pc].at = proc[p].at
    BY <1>1 DEF Frame
  <2> QED BY <1>3, <2>1, ReadingKept DEF Move
<1> QED BY <1>2, <1>3

LEMMA ClockStep == TypeOK /\ ClockInv /\ [Next]_vars => ClockInv'
<1> SUFFICES ASSUME TypeOK, ClockInv, [Next]_vars PROVE ClockInv'
  OBVIOUS
<1>0. /\ now \in Nat /\ StaleFor \in Nat /\ NumShards \in Nat
      /\ sweeper \in [ next : 0 .. NumShards, cutoff : Int, exited : BOOLEAN ]
      /\ proc \in [Procs -> Frame]
  BY ConstantsAssumption DEF TypeOK, StoreOK, ProcOK
<1>1. ASSUME UNCHANGED << proc, now, sweeper >> PROVE ClockInv'
  BY <1>1 DEF ClockInv
<1>2. CASE Tick
  <2>1. now' = now + 1 /\ UNCHANGED << proc, sweeper >>
    BY <1>2 DEF Tick
  <2>2. \A p \in Procs : proc[p].at \in Nat
    BY <1>0 DEF Frame
  <2> QED BY <1>0, <2>1, <2>2 DEF ClockInv
<1>3. CASE Sweep
  <2>1. CASE SweepBegin
    <3>1. sweeper' = [sweeper EXCEPT !.next = 0, !.cutoff = now - StaleFor] /\ UNCHANGED << now, proc >>
      BY <2>1 DEF SweepBegin
    <3>2. sweeper'.cutoff = now - StaleFor
      BY <1>0, <3>1
    <3> QED BY <1>0, <3>1, <3>2 DEF ClockInv
  <2>2. CASE SweepShard
    <3>1. sweeper.next < NumShards /\ sweeper'.cutoff = sweeper.cutoff /\ UNCHANGED << now, proc >>
      BY <1>0, <2>2 DEF SweepShard
    <3> QED BY <3>1 DEF ClockInv
  <2>3. CASE SweepExit
    <3>1. sweeper'.cutoff = sweeper.cutoff /\ sweeper'.next = sweeper.next /\ UNCHANGED << now, proc >>
      BY <1>0, <2>3 DEF SweepExit
    <3> QED BY <3>1 DEF ClockInv
  <2> QED BY <1>3, <2>1, <2>2, <2>3 DEF Sweep
<1>4. ASSUME NEW p \in Procs, PutStamp(p) PROVE ClockInv'
  <2>1. [proc[p] EXCEPT !.pc = "store", !.at = now].at = now
    BY <1>0 DEF Frame
  <2> QED BY <1>4, <2>1, ReadingKept DEF PutStamp
<1>5. ASSUME NEW p \in Procs, PutStore(p) PROVE ClockInv'
  <2>1. [proc[p] EXCEPT !.pc = "release", !.ans = NoAnswer, !.at = 0].at = 0
    BY <1>0 DEF Frame
  <2>2. CASE Finished(p)
    BY <1>5, <2>2, MovedReading DEF PutStore
  <2> QED BY <1>5, <2>1, <2>2, ReadingKept DEF PutStore
<1>6. ASSUME NEW c \in Clients, NEW k \in Keys, LookupBegin(c, k) \/ GetBegin(c, k) PROVE ClockInv'
  <2>1. /\ [Idle EXCEPT !.pc = "lookup", !.key = k, !.at = now].at = now
        /\ [Idle EXCEPT !.pc = "get", !.key = k].at = 0
    BY DEF Idle
  <2> QED BY <1>6, <2>1, ReadingKept DEF LookupBegin, GetBegin
<1>7. ASSUME NEW c \in Clients, NEW a \in Answers, ClientAnswer(c, a) PROVE ClockInv'
  <2>1. [proc[c] EXCEPT !.pc = "put", !.ans = a].at = proc[c].at
    BY <1>0 DEF Frame
  <2> QED BY <1>7, <2>1, ReadingKept, MovedReading DEF ClientAnswer
<1>8. ASSUME NEW c \in Clients, Get(c) PROVE ClockInv'
  <2>1. [proc[c] EXCEPT !.pc = "reclaim", !.at = now].at = now
    BY <1>0 DEF Frame
  <2>2. UNCHANGED << now, sweeper >>
        /\ \/ Move(c, "miss") \/ Finished(c)
           \/ Become(c, [proc[c] EXCEPT !.pc = "reclaim", !.at = now])
    BY <1>8 DEF Get
  <2> QED BY <2>1, <2>2, ReadingKept, MovedReading
<1>9. ASSUME NEW c \in Clients, NEW w \in Workers, TakeSlot(c, w) PROVE ClockInv'
  <2>1. UNCHANGED << now, sweeper >>
        /\ proc' = [proc EXCEPT ![c] = Idle, ![w] = [Idle EXCEPT !.pc = "start", !.key = proc[c].key]]
    BY <1>9 DEF TakeSlot
  <2>2. Idle.at = 0 /\ [Idle EXCEPT !.pc = "start", !.key = proc[c].key].at = 0
    BY DEF Idle
  <2>3. \A p \in Procs : proc'[p].at \in {0, proc[p].at}
    <3> HIDE DEF Idle
    <3> QED BY <1>0, <2>1, <2>2
  <2> QED BY <1>0, <2>1, <2>3 DEF ClockInv
<1>10. ASSUME NEW c \in Clients, ClientStep(c) PROVE ClockInv'
  <2>1. CASE LookupMiss(c) \/ LookupLapsed(c) \/ LookupStale(c) \/ Reclaim(c) \/ NoSlot(c)
    BY <2>1, MovedReading DEF LookupMiss, LookupLapsed, LookupStale, Reclaim, NoSlot
  <2>2. CASE LookupFresh(c) \/ Claim(c) \/ ReleaseFlight(c)
    BY <2>2, MovedReading DEF LookupFresh, Claim, ReleaseFlight
  <2> QED BY <1>4, <1>5, <1>8, <1>9, <1>10, <2>1, <2>2 DEF ClientStep
<1>11. ASSUME NEW w \in Workers, WorkerStep(w) PROVE ClockInv'
  <2>1. CASE RefreshStart(w)
    <3>1. [proc[w] EXCEPT !.pc = "asking", !.gen = generation].at = proc[w].at
      BY <1>0 DEF Frame
    <3> QED BY <2>1, <3>1, ReadingKept DEF RefreshStart
  <2>2. ASSUME NEW a \in Answers, RefreshAnswer(w, a) PROVE ClockInv'
    <3>1. [proc[w] EXCEPT !.pc = "put", !.ans = a].at = proc[w].at
      BY <1>0 DEF Frame
    <3> QED BY <2>2, <3>1, ReadingKept, MovedReading DEF RefreshAnswer
  <2>3. CASE RefreshFail(w) \/ ReleaseSlot(w) \/ ReleaseFlight(w)
    BY <2>3, MovedReading DEF RefreshFail, ReleaseSlot, ReleaseFlight
  <2> QED BY <1>4, <1>5, <1>11, <2>1, <2>2, <2>3 DEF WorkerStep
<1>12. ASSUME \/ UNCHANGED vars \/ Close \/ \E a \in Admins : PurgeShard(a)
              \/ \E a \in Admins, targets \in PurgeSets : PurgeBegin(a, targets)
       PROVE  ClockInv'
  BY <1>1, <1>12 DEF vars, Close, PurgeShard, PurgeBegin
<1> QED BY <1>2, <1>3, <1>6, <1>7, <1>10, <1>11, <1>12 DEF Next

\* The invariant behind what leaves the cache and what is served from it.
ContentInv == TypeOK /\ ClockInv /\ LifeInv /\ PurgeInv

LEMMA ContentInit == Init => ContentInv
<1> SUFFICES ASSUME Init PROVE ClockInv /\ LifeInv /\ PurgeInv
  BY TypeInit DEF ContentInv
<1>1. ClockInv
  BY ConstantsAssumption DEF Init, ClockInv, Idle
<1>2. LifeInv /\ PurgeInv
  BY DEF Init, LifeInv, PurgeInv, PurgeReaches, Present
<1> QED BY <1>1, <1>2

LEMMA ContentStep == ContentInv /\ [Next]_vars => ContentInv'
BY TypeStep, ClockStep, LifeStep, PurgeStep DEF ContentInv

\* A purge misses nothing stored before it began, whatever lookups, stores and other
\* purges go on while it walks the shards (Flush and PurgeDomain): PurgeReaches.
THEOREM PurgesReach == Spec => []PurgeReaches
<1>1. ContentInv => PurgeReaches
  BY DEF ContentInv, PurgeInv
<1> QED BY <1>1, ContentInit, ContentStep, PTL DEF Spec

\* What a store displaces: a neighbour, in a full shard, for a name that was not there.
LEMMA StoreDisplaces ==
    ASSUME TypeOK, NEW p \in Procs, PutStore(p), NEW k \in Keys, Gone(k)
    PROVE  CrowdedOut(p, k)
<1> DEFINE j == proc[p].key
<1>1. j \in Keys /\ entries'[j] \in Entry /\ \A i \in Keys : i # j => entries'[i] \in {NoEntry, entries[i]}
  BY StoreLeaves
<1>2. NoEntry \notin Entry
  <2>1. TTLSets \subseteq SUBSET Nat
    <3> SUFFICES ASSUME NEW a \in Answers PROVE ClampTTLs(a.ttls) \in SUBSET Nat
      BY DEF TTLSets
    <3>1. \A t \in a.ttls : t \in Nat
      BY ConstantsAssumption
    <3> QED BY <3>1, ConstantsAssumption DEF ClampTTLs, Clamp, Smaller, Larger
  <2> QED BY <2>1, ConstantsAssumption DEF Entry
<1>3. k # j
  BY <1>1, <1>2 DEF Gone
<1>4. PICK kept \in Survivors(j, proc[p].at) :
         entries' = [i \in Keys |-> IF i = j THEN EntryFor(proc[p].ans, proc[p].at)
                                    ELSE IF ShardOf[i] = ShardOf[j] /\ i \notin kept THEN NoEntry
                                    ELSE entries[i]]
  BY DEF PutStore
<1>5. ShardOf[k] = ShardOf[j] /\ k \notin kept /\ Present(k)
  BY <1>3, <1>4 DEF Gone, Present
<1>6. k \in InShard(ShardOf[j])
  BY <1>5 DEF InShard
<1>7. ~Present(j) /\ ~(Cardinality(InShard(ShardOf[j])) < ShardCap)
  <2>1. j \notin InShard(ShardOf[j]) /\ ~(Cardinality(InShard(ShardOf[j])) < ShardCap)
    <3> HIDE DEF j, InShard
    <3> QED BY <1>4, <1>5, <1>6 DEF Survivors
  <2> QED BY <1>1, <2>1 DEF InShard
<1>8. Cardinality(InShard(ShardOf[k])) >= ShardCap
  <2>1. Cardinality(InShard(ShardOf[j])) \in Nat /\ ShardCap \in Nat
    BY ShardFinite, ConstantsAssumption
  <2> HIDE DEF InShard, j
  <2> QED BY <1>5, <1>7, <2>1
<1>9. proc[p].pc = "store" /\ proc'[p].pc # "store"
  <2>1. proc[p] \in Frame /\ DOMAIN proc = Procs
    BY DEF TypeOK, ProcOK
  <2>2. \/ Become(p, [proc[p] EXCEPT !.pc = "release", !.ans = NoAnswer, !.at = 0])
        \/ Become(p, Idle)
    BY DEF PutStore, Finished
  <2>3. [proc[p] EXCEPT !.pc = "release", !.ans = NoAnswer, !.at = 0].pc = "release" /\ Idle.pc = "idle"
    BY <2>1 DEF Frame, Idle
  <2> HIDE DEF Idle
  <2> QED BY <2>1, <2>2, <2>3 DEF Become, PutStore
<1> QED BY <1>5, <1>7, <1>8, <1>9 DEF CrowdedOut

\* An entry that has not expired leaves only for an admin's purge or for a new name
\* that needs its place: no reader takes the fresh answer that replaced the expired
\* one it saw, and no sweep's old cutoff does (reclaimExpired, cleanupLoop):
\* RemovalJustified.
THEOREM RemovalsAreJustified == Spec => RemovalJustified
<1> DEFINE Justified ==
             \A k \in Keys : (Gone(k) /\ ~Expired(entries[k], now))
                 => \/ \E a \in Admins : PurgedBy(a, k)
                    \/ \E p \in Procs : CrowdedOut(p, k)
<1>1. ASSUME ContentInv, [Next]_vars PROVE Justified
  <2> SUFFICES ASSUME NEW k \in Keys, Gone(k), ~Expired(entries[k], now)
               PROVE  (\E a \in Admins : PurgedBy(a, k)) \/ \E p \in Procs : CrowdedOut(p, k)
    OBVIOUS
  <2>1. /\ TypeOK /\ ClockInv /\ now \in Nat /\ entries[k].expireAt \in Nat
        /\ entries'[k] # entries[k] /\ Present(k)
    <3>1. entries[k] \in Entry /\ now \in Nat
      BY <1>1 DEF ContentInv, TypeOK, StoreOK, Gone, Present
    <3> QED BY <1>1, <3>1 DEF ContentInv, Gone, Present, Entry
  <2>2. ASSUME NEW c \in Clients, Reclaim(c) PROVE FALSE
    <3>1. Expired(entries[k], proc[c].at)
      BY <2>1, <2>2 DEF Reclaim, TypeOK, StoreOK
    <3>2. proc[c].at \in Nat /\ proc[c].at <= now
      BY <2>1 DEF TypeOK, ProcOK, Frame, ClockInv
    <3> QED BY <2>1, <3>1, <3>2 DEF Expired
  <2>3. ASSUME SweepShard PROVE FALSE
    <3>1. sweeper.cutoff > entries[k].expireAt /\ sweeper.next < NumShards
      BY <2>1, <2>3 DEF SweepShard, Cleared
    <3>2. sweeper.cutoff \in Int /\ sweeper.cutoff <= now - StaleFor /\ StaleFor \in Nat
      BY <2>1, <3>1, ConstantsAssumption DEF TypeOK, StoreOK, ClockInv
    <3> QED BY <2>1, <3>1, <3>2 DEF Expired
  <2>4. ASSUME NEW a \in Admins, PurgeShard(a) PROVE PurgedBy(a, k)
    <3>1. k \in admin[a].targets
      BY <2>1, <2>4 DEF PurgeShard, Cleared
    <3>2. admin'[a].next = admin[a].next + 1
      BY <2>1, <2>4 DEF PurgeShard, TypeOK, StoreOK
    <3> QED BY <3>1, <3>2 DEF PurgedBy
  <2>5. ASSUME NEW p \in Procs, PutStore(p) PROVE CrowdedOut(p, k)
    BY <2>1, <2>5, StoreDisplaces
  <2> QED BY <1>1, <2>1, <2>2, <2>3, <2>4, <2>5, EntriesMove
<1>2. Spec => [][Justified]_vars
  <2>1. ContentInv /\ [Next]_vars => [Justified]_vars
    BY <1>1
  <2> QED BY <2>1, ContentInit, ContentStep, PTL DEF Spec
<1>3. RemovalJustified <=> [][Justified]_vars
  BY DEF RemovalJustified
<1> QED BY <1>2, <1>3, PTL

\* Only the three reads hand something to a client, each to the one that asked.
LEMMA OnlyReadsReply ==
    ASSUME TypeOK, [Next]_vars, NEW c \in Clients, reply[c] = NoReply, reply'[c] # NoReply
    PROVE  LookupStale(c) \/ LookupFresh(c) \/ Get(c)
<1>0. DOMAIN reply = Clients
  BY DEF TypeOK, StoreOK
<1>1. ASSUME NEW d \in Clients, ClientStep(d) PROVE LookupStale(c) \/ LookupFresh(c) \/ Get(c)
  <2>1. CASE ~(LookupStale(d) \/ LookupFresh(d) \/ Get(d))
    BY <1>1, <2>1 DEF ClientStep, LookupMiss, LookupLapsed, Reclaim, Claim, TakeSlot, NoSlot,
                      ReleaseFlight, PutStamp, PutStore
  <2>2. CASE LookupStale(d) \/ LookupFresh(d) \/ Get(d)
    <3>1. reply' = reply \/ \E r : reply' = [reply EXCEPT ![d] = r]
      BY <2>2 DEF LookupStale, LookupFresh, Get
    <3>2. d = c
      BY <1>0, <3>1
    <3> QED BY <2>2, <3>2
  <2> QED BY <2>1, <2>2
<1>2. ASSUME NEW d \in Clients, NEW k \in Keys, LookupBegin(d, k) \/ GetBegin(d, k) PROVE FALSE
  BY <1>0, <1>2 DEF LookupBegin, GetBegin
<1>3. ASSUME NEW w \in Workers, WorkerStep(w) PROVE FALSE
  BY <1>3 DEF WorkerStep, RefreshStart, RefreshFail, RefreshAnswer, PutStamp, PutStore,
              ReleaseSlot, ReleaseFlight
<1>4. ASSUME \/ UNCHANGED vars \/ Tick \/ Close \/ Sweep \/ \E a \in Admins : PurgeShard(a)
             \/ \E d \in Clients, a \in Answers : ClientAnswer(d, a)
             \/ \E a \in Admins, targets \in PurgeSets : PurgeBegin(a, targets)
      PROVE  FALSE
  BY <1>4 DEF vars, Tick, Close, Sweep, SweepBegin, SweepShard, SweepExit, PurgeShard, ClientAnswer,
              PurgeBegin
<1> QED BY <1>1, <1>2, <1>3, <1>4 DEF Next

\* A record as long-lived as its entry is promised for no longer than the entry has
\* left, even of an entry stored after the reader read its clock.
LEMMA FreshWithinLife ==
    ASSUME NEW e \in Entry, e.expireAt = e.cachedAt + e.origTTL, NEW at \in Nat,
           NEW elapsed \in Elapsed(e, at), e.origTTL \in e.ttls
    PROVE  \E t \in AdjustRRs(e.ttls, elapsed) : t <= Larger(1, e.expireAt - at)
<1> DEFINE o == e.origTTL
           t == IF o > elapsed THEN o - elapsed ELSE 1
           left == e.expireAt - at
<1>1. t \in AdjustRRs(e.ttls, elapsed)
  BY DEF AdjustRRs
<1>2. o \in Nat /\ e.cachedAt \in Nat /\ left \in Int /\ left = e.cachedAt + o - at /\ MaxTTL \in Nat
  BY ConstantsAssumption DEF Entry
<1>3. \/ at >= e.cachedAt /\ elapsed = at - e.cachedAt
      \/ at < e.cachedAt /\ elapsed \in {0, MaxTTL}
  BY <1>2 DEF Elapsed
<1>4. t <= 1 \/ t <= left
  BY <1>2, <1>3
<1>5. t \in Int
  BY <1>2, <1>3
<1> HIDE DEF t, left
<1>6. t <= Larger(1, left)
  BY <1>2, <1>4, <1>5 DEF Larger
<1> QED BY <1>1, <1>6 DEF left

\* What a reader is told to keep does not outlive what the cache keeps; a stale answer
\* is short, and given only inside the grace window and with something to replace it
\* (Get, Lookup, adjustRRs): ServedLifetime.
THEOREM ServedLifetimeHolds == Spec => ServedLifetime
<1> DEFINE Served ==
             \A c \in Clients :
                LET e     == entries[proc[c].key]
                    asked == IF proc[c].pc = "get" THEN now ELSE proc[c].at
                IN  (reply[c] = NoReply /\ reply'[c] # NoReply)
                      => IF reply'[c].kind = "stale"
                         THEN /\ HasRefresher
                              /\ Expired(e, asked) /\ Servable(e, asked)
                              /\ \A t \in reply'[c].ttls : t = StaleTTL
                         ELSE /\ ~Expired(e, asked)
                              /\ e.origTTL \in e.ttls =>
                                   \E t \in reply'[c].ttls : t <= Larger(1, e.expireAt - asked)
<1>1. ASSUME ContentInv, [Next]_vars PROVE Served
  <2> SUFFICES ASSUME NEW c \in Clients, reply[c] = NoReply, reply'[c] # NoReply
               PROVE  LET e     == entries[proc[c].key]
                          asked == IF proc[c].pc = "get" THEN now ELSE proc[c].at
                      IN  IF reply'[c].kind = "stale"
                          THEN /\ HasRefresher
                               /\ Expired(e, asked) /\ Servable(e, asked)
                               /\ \A t \in reply'[c].ttls : t = StaleTTL
                          ELSE /\ ~Expired(e, asked)
                               /\ e.origTTL \in e.ttls =>
                                    \E t \in reply'[c].ttls : t <= Larger(1, e.expireAt - asked)
    OBVIOUS
  <2> DEFINE e == entries[proc[c].key]
             asked == IF proc[c].pc = "get" THEN now ELSE proc[c].at
  <2>1. /\ TypeOK /\ DOMAIN reply = Clients /\ proc[c].at \in Nat /\ now \in Nat
        /\ proc[c].pc # "idle" => proc[c].key \in Keys
        /\ entries \in [Keys -> Entry \cup {NoEntry}]
    BY <1>1 DEF ContentInv, TypeOK, StoreOK, ProcOK, Frame, FrameOK
  <2>2. asked \in Nat
    BY <2>1
  <2>3. CASE LookupStale(c)
    <3>1. /\ proc[c].pc = "lookup" /\ asked = proc[c].at
          /\ ~Unserved(e, asked) /\ Expired(e, asked)
          /\ reply' = [reply EXCEPT ![c] = [kind |-> "stale", ttls |-> { StaleTTL : t \in e.ttls }]]
      BY <2>3 DEF LookupStale
    <3>2. reply'[c].kind = "stale" /\ \A t \in reply'[c].ttls : t = StaleTTL
      BY <2>1, <3>1
    <3>3. HasRefresher /\ Servable(e, asked)
      BY <3>1 DEF Unserved, Renewing
    <3> QED BY <3>1, <3>2, <3>3
  <2>4. ASSUME ~Expired(e, asked), Present(proc[c].key), proc[c].key \in Keys,
               NEW elapsed \in Elapsed(e, asked),
               reply' = [reply EXCEPT ![c] = [kind |-> "fresh", ttls |-> AdjustRRs(e.ttls, elapsed)]]
        PROVE  /\ reply'[c].kind # "stale" /\ ~Expired(e, asked)
               /\ e.origTTL \in e.ttls =>
                    \E t \in reply'[c].ttls : t <= Larger(1, e.expireAt - asked)
    <3>1. reply'[c].kind = "fresh" /\ reply'[c].ttls = AdjustRRs(e.ttls, elapsed)
      BY <2>1, <2>4
    <3>2. e \in Entry /\ e.expireAt = e.cachedAt + e.origTTL
      BY <1>1, <2>1, <2>4 DEF ContentInv, LifeInv, Present
    <3> HIDE DEF e, asked
    <3> QED BY <2>2, <2>4, <3>1, <3>2, FreshWithinLife
  <2>5. CASE LookupFresh(c)
    <3>1. proc[c].pc = "lookup" /\ asked = proc[c].at /\ Present(proc[c].key) /\ ~Expired(e, asked)
      BY <2>5 DEF LookupFresh
    <3>2. PICK elapsed \in Elapsed(e, asked) :
             reply' = [reply EXCEPT ![c] = [kind |-> "fresh", ttls |-> AdjustRRs(e.ttls, elapsed)]]
      BY <2>5, <3>1 DEF LookupFresh
    <3> HIDE DEF e, asked
    <3>3. /\ reply'[c].kind # "stale" /\ ~Expired(e, asked)
          /\ e.origTTL \in e.ttls => \E t \in reply'[c].ttls : t <= Larger(1, e.expireAt - asked)
      BY <2>1, <2>4, <3>1, <3>2
    <3> QED BY <3>3 DEF e, asked
  <2>6. CASE Get(c)
    <3>1. proc[c].pc = "get" /\ asked = now
      BY <2>6 DEF Get
    <3>2. Present(proc[c].key) /\ ~Expired(e, asked)
      BY <2>6, <3>1 DEF Get
    <3>3. PICK elapsed \in Elapsed(e, asked) :
             reply' = [reply EXCEPT ![c] = [kind |-> "fresh", ttls |-> AdjustRRs(e.ttls, elapsed)]]
      BY <2>6, <3>1 DEF Get
    <3> HIDE DEF e, asked
    <3>4. /\ reply'[c].kind # "stale" /\ ~Expired(e, asked)
          /\ e.origTTL \in e.ttls => \E t \in reply'[c].ttls : t <= Larger(1, e.expireAt - asked)
      BY <2>1, <2>4, <3>1, <3>2, <3>3
    <3> QED BY <3>4 DEF e, asked
  <2> QED BY <1>1, <2>1, <2>3, <2>5, <2>6, OnlyReadsReply
<1>2. Spec => [][Served]_vars
  <2>1. ContentInv /\ [Next]_vars => [Served]_vars
    BY <1>1
  <2> QED BY <2>1, ContentInit, ContentStep, PTL DEF Spec
<1>3. ServedLifetime <=> [][Served]_vars
  BY DEF ServedLifetime
<1> QED BY <1>2, <1>3, PTL
=============================================================================
