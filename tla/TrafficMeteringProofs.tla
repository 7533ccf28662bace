------------------------- MODULE TrafficMeteringProofs -------------------------
(* What TrafficMetering's runs show on small instances, for every value of its   *)
(* constants: types, that relayed bytes are conserved, that a period starts      *)
(* clean and that a rollover lands on the current period.  All rest on one       *)
(* invariant: who holds flushMu, and what every process has in its hands at      *)
(* each of its locations.                                                        *)
EXTENDS TrafficMetering, WellFoundedInduction, TLAPS

------------------------------------------------------------------------------
(* Boundaries *)

\* Every set of naturals that is not empty has a least member.
LEMMA LeastNatural ==
    ASSUME NEW S \in SUBSET Nat, S # {}
    PROVE  \E n \in S : \A m \in S : n <= m
<1> DEFINE less == OpToRel(<, Nat)
<1>1. IsWellFoundedOn(less, Nat)
  BY NatLessThanWellFounded
<1>2. \A m, n \in Nat : m < n => <<m, n>> \in less
  BY DEF OpToRel
<1> HIDE DEF less
<1>3. \E n \in S : \A m \in S : <<m, n>> \notin less
  BY <1>1, WFMin, Zenon
<1>4. PICK n \in S : \A m \in S : <<m, n>> \notin less
  BY <1>3
<1>5. \A m \in S : ~(m < n) /\ m \in Nat /\ n \in Nat
  BY <1>2, <1>4, Zenon
<1> QED BY <1>4, <1>5

\* The boundary at the end of the n-th period passed at that time.
Passed(r, n, at) == HasEnd(r, n) /\ at >= CycleEnd(r, n)

\* dueTrafficResets counts the boundaries passed since the last reset: every one it
\* counts has passed, and the next has not, unless the walk ran to its bound.
LEMMA DueResetsCounts ==
    ASSUME NEW r \in Rec, NEW at \in Nat
    PROVE  LET n == DueResets(r, at) IN
           /\ n \in 0 .. MaxCatchUp
           /\ \A i \in 0 .. n - 1 : Passed(r, r.count + i, at)
           /\ n = MaxCatchUp \/ ~HasEnd(r, r.count + n) \/ at < CycleEnd(r, r.count + n)
<1> DEFINE Stop(n) == n = MaxCatchUp \/ ~HasEnd(r, r.count + n) \/ at < CycleEnd(r, r.count + n)
           stops   == { n \in 0 .. MaxCatchUp : Stop(n) }
<1>1. MaxCatchUp \in Nat
  BY ConstantsAssumption
<1>2. \A n \in Nat : HasEnd(r, r.count + n) => CycleEnd(r, r.count + n) \in Nat
  <2> SUFFICES ASSUME NEW n \in Nat, HasEnd(r, r.count + n)
               PROVE  CycleEnd(r, r.count + n) \in Nat
    OBVIOUS
  <2>1. r.anchor \in Nat /\ r.count \in Nat /\ r.cycle \in Cycles
    BY DEF HasEnd, Rec
  <2>2. Period[r.cycle] \in Nat
    BY <2>1, ConstantsAssumption
  <2> QED BY <2>1, <2>2 DEF CycleEnd
<1> HIDE DEF Stop
<1>3. stops \in SUBSET Nat /\ MaxCatchUp \in stops
  BY <1>1 DEF Stop
<1>4. PICK n \in stops : \A m \in stops : n <= m
  BY <1>3, LeastNatural
<1>5. n \in 0 .. MaxCatchUp /\ Stop(n)
  BY <1>4
<1>6. \A i \in 0 .. n - 1 : ~Stop(i)
  BY <1>1, <1>4, <1>5
<1>7. \A i \in 0 .. n - 1 : HasEnd(r, r.count + i) /\ at >= CycleEnd(r, r.count + i)
  <2> SUFFICES ASSUME NEW i \in 0 .. n - 1
               PROVE  HasEnd(r, r.count + i) /\ at >= CycleEnd(r, r.count + i)
    OBVIOUS
  <2>1. i \in Nat
    BY <1>1, <1>5
  <2>2. HasEnd(r, r.count + i) /\ ~(at < CycleEnd(r, r.count + i))
    BY <1>6 DEF Stop
  <2>3. CycleEnd(r, r.count + i) \in Nat
    BY <1>2, <2>1, <2>2
  <2> HIDE DEF HasEnd, CycleEnd
  <2> QED BY <2>2, <2>3
<1> DEFINE Right(m) == /\ \A i \in 0 .. m - 1 : HasEnd(r, r.count + i) /\ at >= CycleEnd(r, r.count + i)
                       /\ \/ m = MaxCatchUp
                          \/ ~HasEnd(r, r.count + m)
                          \/ at < CycleEnd(r, r.count + m)
<1>8. Right(n)
  BY <1>5, <1>7 DEF Stop
<1>9. DueResets(r, at) = CHOOSE m \in 0 .. MaxCatchUp : Right(m)
  BY DEF DueResets
<1> HIDE DEF Right
<1>10. DueResets(r, at) \in 0 .. MaxCatchUp /\ Right(DueResets(r, at))
  BY <1>5, <1>8, <1>9, Zenon
<1> QED BY <1>10 DEF Right, Passed

\* A rolled-over account's new boundary is the first one ahead of the sweep.
LEMMA RollAhead ==
    ASSUME NEW r \in Rec, NEW at \in Nat, Work(r, at) = "roll"
    PROVE  LET next == r.count + DueResets(r, at) IN
           CycleEnd(r, next - 1) <= at /\ at < CycleEnd(r, next)
<1> DEFINE n == DueResets(r, at)
<1>1. /\ n \in 0 .. MaxCatchUp
      /\ \A i \in 0 .. n - 1 : Passed(r, r.count + i, at)
  BY DueResetsCounts
<1>2. r.count + n # r.count /\ HasEnd(r, r.count + n) /\ ~(at >= CycleEnd(r, r.count + n))
  BY DEF Work
<1>3. MaxCatchUp \in Nat /\ r.count \in Nat
  BY ConstantsAssumption DEF Rec
<1> HIDE DEF n
<1>4. n - 1 \in 0 .. n - 1 /\ r.count + (n - 1) = (r.count + n) - 1 /\ n \in Nat
  BY <1>1, <1>2, <1>3
<1>5. Passed(r, (r.count + n) - 1, at)
  BY <1>1, <1>4
<1>6. CycleEnd(r, r.count + n) \in Nat
  <2>1. r.anchor \in Nat /\ r.cycle \in Cycles
    BY <1>2 DEF HasEnd, Rec
  <2>2. Period[r.cycle] \in Nat
    BY <2>1, ConstantsAssumption
  <2> QED BY <1>3, <1>4, <2>1, <2>2 DEF CycleEnd
<1>7. at < CycleEnd(r, r.count + n)
  BY <1>2, <1>6
<1>8. CycleEnd(r, (r.count + n) - 1) <= at
  <2>1. CycleEnd(r, (r.count + n) - 1) \in Int
    <3>1. r.anchor \in Nat /\ r.cycle \in Cycles
      BY <1>2 DEF HasEnd, Rec
    <3>2. Period[r.cycle] \in Nat
      BY <3>1, ConstantsAssumption
    <3> QED BY <1>3, <1>4, <3>1, <3>2 DEF CycleEnd
  <2> QED BY <1>5, <2>1 DEF Passed
<1> QED BY <1>7, <1>8 DEF n

\* An account that has a cycle is anchored anew only when it has no anchor, or when
\* the boundary at the catch-up bound has passed.
LEMMA AnchorLate ==
    ASSUME NEW r \in Rec, NEW at \in Nat, Work(r, at) = "anchor"
    PROVE  r.anchor = NoAnchor \/ at >= CycleEnd(r, MaxCatchUp)
<1> SUFFICES ASSUME r.anchor # NoAnchor PROVE at >= CycleEnd(r, MaxCatchUp)
  OBVIOUS
<1> DEFINE n == DueResets(r, at)
<1>1. /\ n \in 0 .. MaxCatchUp
      /\ \A i \in 0 .. n - 1 : Passed(r, r.count + i, at)
      /\ n = MaxCatchUp \/ ~HasEnd(r, r.count + n) \/ at < CycleEnd(r, r.count + n)
  BY DueResetsCounts
<1>2. r.count + n # r.count /\ (~HasEnd(r, r.count + n) \/ at >= CycleEnd(r, r.count + n))
  BY DEF Work
<1>3. MaxCatchUp \in Nat /\ r.count \in Nat /\ r.cycle \in Cycles /\ r.anchor \in Nat
  BY ConstantsAssumption DEF Rec, Work
<1>4. Period[r.cycle] \in Nat
  BY <1>3, ConstantsAssumption
<1> HIDE DEF n
<1>5. n - 1 \in 0 .. n - 1 /\ r.count + (n - 1) = (r.count + n) - 1 /\ n \in Nat
  BY <1>1, <1>2, <1>3
<1>6. Passed(r, (r.count + n) - 1, at)
  BY <1>1, <1>5
<1>7. (r.count + n) - 1 <= MaxCatchUp /\ at >= CycleEnd(r, (r.count + n) - 1)
  BY <1>6 DEF Passed, HasEnd
<1>8. CASE ~HasEnd(r, r.count + n)
  <2>1. ~(r.count + n <= MaxCatchUp)
    BY <1>3, <1>8, ConstantsAssumption DEF HasEnd
  <2>2. (r.count + n) - 1 = MaxCatchUp
    BY <1>3, <1>5, <1>7, <2>1
  <2> QED BY <1>7, <2>2
<1>9. CASE HasEnd(r, r.count + n) /\ at >= CycleEnd(r, r.count + n)
  <2>1. CycleEnd(r, r.count + n) \in Nat
    BY <1>3, <1>4, <1>5 DEF CycleEnd
  <2>2. n = MaxCatchUp
    BY <1>1, <1>9, <2>1
  <2>3. r.count + n <= MaxCatchUp
    BY <1>9 DEF HasEnd
  <2>4. r.count + n = MaxCatchUp
    BY <1>3, <2>2, <2>3
  <2> QED BY <1>9, <2>4
<1> QED BY <1>2, <1>8, <1>9

------------------------------------------------------------------------------
(* The invariant *)

\* The shared variables have their types.
Shared ==
    /\ now \in Nat /\ crashes \in Nat /\ requests \in Nat
    /\ db \in [Ids -> Rec \cup {NoRec}]
    /\ cached \in [Ids -> IndexRec \cup {NoRec}]
    /\ pending \in [Ids -> Nat]
    /\ flushMu \in Procs \cup {Nobody}

\* FlushTraffic has bytes in hand from the drain to the hand-back only.
FlusherFrame(f) ==
    /\ f.pc \in {"idle", "commit", "handback", "list", "install"}
    /\ f.pc \notin {"commit", "handback"} => f.held = Zeros

\* The account the sweep is working on: it was listed, and that is its work.
WorksOn(f, work) ==
    /\ f.id \in Ids /\ f.list[f.id] \in Rec /\ Work(f.list[f.id], f.at) = work

\* The record resetTrafficCycle saves, from the one it read and the one listed.
Rolled(f) ==
    [f.seen EXCEPT !.prev = f.seen.used + f.held[f.id], !.used = 0,
                   !.count = f.list[f.id].count + DueResets(f.list[f.id], f.at)]

\* The sweep has bytes in hand of the account it is rolling over only.
SweeperFrame(f) ==
    /\ f.pc \in {"idle", "lock", "each", "roll", "anchor", "saveRoll", "saveAnchor",
                 "list", "install"}
    /\ f.pc \notin {"roll", "saveRoll"} => f.held = Zeros
    /\ f.pc \in {"lock", "each", "roll", "anchor", "saveRoll", "saveAnchor"}
          => \A i \in f.todo : f.list[i] \in Rec
    /\ f.pc \in {"roll", "saveRoll"}
          => WorksOn(f, "roll") /\ \A i \in Ids : i # f.id => f.held[i] = 0
    /\ f.pc \in {"anchor", "saveAnchor"} => WorksOn(f, "anchor")
    /\ f.pc = "saveRoll" => f.seen \in Rec /\ f.rec = Rolled(f)
    /\ f.pc = "saveAnchor" => f.seen \in Rec /\ f.rec = [f.seen EXCEPT !.anchor = f.at, !.count = 0]

\* No edit changes the usage it read, but for the reset, which clears it.
EditorFrame(f) ==
    /\ f.pc \in {"idle", "saveEdit", "reset", "saveReset", "list", "install"}
    /\ f.pc \in {"saveEdit", "reset", "saveReset"} => f.id \in Ids
    /\ f.pc \in {"saveEdit", "saveReset"} => f.seen \in Rec /\ f.rec \in Rec
    /\ f.pc = "saveEdit" => f.rec.used = f.seen.used
    /\ f.pc = "saveReset" => f.rec.used = 0

FrameOK(p, f) ==
    /\ f \in Frame
    /\ f.pc = "install" => f.list \in [Ids -> IndexRec \cup {NoRec}]
    /\ p = Flusher => FlusherFrame(f)
    /\ p = Sweeper => SweeperFrame(f)
    /\ p \in Editors => EditorFrame(f)

FramesOK ==
    /\ proc \in [Procs -> Frame]
    /\ \A p \in Procs : FrameOK(p, proc[p])

\* The locations at which a process holds flushMu.
Guarded(p) ==
    IF p = Flusher THEN {"commit", "handback", "list", "install"}
    ELSE IF p = Sweeper THEN {"each", "roll", "anchor", "saveRoll", "saveAnchor"}
    ELSE {"reset", "saveReset"}

LockOK == \A p \in Procs : proc[p].pc \in Guarded(p) => flushMu = p

IInv == Shared /\ FramesOK /\ LockOK

LEMMA AnchoredRecord ==
    ASSUME NEW r \in Rec, NEW at \in Nat
    PROVE  [r EXCEPT !.anchor = at, !.count = 0] \in Rec
BY DEF Rec

LEMMA TypesFromInvariant == IInv => TypeOK
<1> SUFFICES ASSUME IInv PROVE TypeOK
  OBVIOUS
<1>1. Shared /\ FramesOK /\ DOMAIN proc = Procs
  BY DEF IInv, FramesOK
<1>2. ASSUME NEW p \in Procs PROVE proc[p].pc \in SavePCs => proc[p].id \in Ids /\ proc[p].rec \in Rec
  <2>1. FrameOK(p, proc[p])
    BY <1>1 DEF FramesOK
  <2>2. CASE p = Flusher
    BY <2>1, <2>2 DEF FrameOK, FlusherFrame, SavePCs
  <2>3. CASE p \in Editors
    BY <2>1, <2>3 DEF FrameOK, EditorFrame, SavePCs
  <2>4. CASE p = Sweeper
    <3> DEFINE f == proc[Sweeper]
    <3>1. SweeperFrame(f) /\ f \in Frame
      BY <2>1, <2>4 DEF FrameOK
    <3>2. CASE f.pc = "saveRoll"
      <4> DEFINE n == DueResets(f.list[f.id], f.at)
      <4>1. f.id \in Ids /\ f.list[f.id] \in Rec /\ f.seen \in Rec /\ f.rec = Rolled(f)
        BY <3>1, <3>2 DEF SweeperFrame, WorksOn
      <4>2. f.held[f.id] \in Nat /\ f.at \in Nat
        BY <3>1, <4>1 DEF Frame
      <4>3. n \in Nat
        BY <4>1, <4>2, DueResetsCounts
      <4> HIDE DEF n
      <4>4. f.seen.used + f.held[f.id] \in Nat /\ f.list[f.id].count + n \in Nat
        BY <4>1, <4>2, <4>3 DEF Rec
      <4>5. Rolled(f) \in Rec
        BY <4>1, <4>4 DEF Rolled, Rec, n
      <4> QED BY <2>4, <4>1, <4>5
    <3>3. CASE f.pc = "saveAnchor"
      <4>1. f.id \in Ids /\ f.seen \in Rec /\ f.rec = [f.seen EXCEPT !.anchor = f.at, !.count = 0]
        BY <3>1, <3>3 DEF SweeperFrame, WorksOn
      <4>2. f.at \in Nat
        BY <3>1 DEF Frame
      <4>3. f.rec \in Rec
        BY <4>1, <4>2, AnchoredRecord
      <4> QED BY <2>4, <4>1, <4>3
    <3> QED BY <2>4, <3>1, <3>2, <3>3 DEF SweeperFrame, SavePCs
  <2> QED BY <2>2, <2>3, <2>4 DEF Procs
<1> QED BY <1>1, <1>2 DEF Shared, FramesOK, TypeOK

------------------------------------------------------------------------------
(* How a step of one process keeps the invariant *)

\* One process moves to another frame.
LEMMA FrameStep ==
    ASSUME FramesOK, NEW p \in Procs, NEW f, FrameOK(p, f), Become(p, f)
    PROVE  /\ FramesOK'
           /\ proc'[p] = f
           /\ \A q \in Procs : q # p => proc'[q] = proc[q]
<1>1. f \in Frame
  BY DEF FrameOK
<1>2. proc' \in [Procs -> Frame] /\ \A q \in Procs : proc'[q] = IF q = p THEN f ELSE proc[q]
  BY <1>1 DEF FramesOK, Become
<1>3. \A q \in Procs : FrameOK(q, proc'[q])
  BY <1>2 DEF FramesOK
<1> QED BY <1>2, <1>3 DEF FramesOK

\* It was inside what flushMu guards before, or is not now.
LEMMA LockKept ==
    ASSUME FramesOK, LockOK, NEW p \in Procs, NEW f, FrameOK(p, f), Become(p, f),
           f.pc \in Guarded(p) => proc[p].pc \in Guarded(p),
           flushMu' = flushMu
    PROVE  LockOK'
<1>1. proc'[p] = f /\ \A q \in Procs : q # p => proc'[q] = proc[q]
  BY FrameStep
<1> QED BY <1>1 DEF LockOK, Guarded

\* It takes flushMu.
LEMMA LockTaken ==
    ASSUME FramesOK, LockOK, NEW p \in Procs, NEW f, FrameOK(p, f), Become(p, f),
           flushMu = Nobody, flushMu' = p
    PROVE  LockOK'
<1>1. proc'[p] = f /\ \A q \in Procs : q # p => proc'[q] = proc[q]
  BY FrameStep
<1>2. \A q \in Procs : q # Nobody
  BY ConstantsAssumption
<1> QED BY <1>1, <1>2 DEF LockOK, Guarded

\* It lets flushMu go.
LEMMA LockDropped ==
    ASSUME FramesOK, LockOK, NEW p \in Procs, NEW f, FrameOK(p, f), Become(p, f),
           f.pc \notin Guarded(p), flushMu = p, flushMu' = Nobody
    PROVE  LockOK'
<1>1. proc'[p] = f /\ \A q \in Procs : q # p => proc'[q] = proc[q]
  BY FrameStep
<1> QED BY <1>1 DEF LockOK, Guarded

LEMMA ZerosType == Zeros \in [Ids -> Nat] /\ \A i \in Ids : Zeros[i] = 0
BY DEF Zeros

LEMMA IdleFrame ==
    /\ Idle \in Frame /\ Idle.pc = "idle" /\ Idle.held = Zeros
    /\ \A p \in Procs : FrameOK(p, Idle) /\ "idle" \notin Guarded(p)
<1>1. Idle \in Frame
  BY ZerosType DEF Idle, Frame, PCs, Empty
<1>2. Idle.pc = "idle" /\ Idle.held = Zeros
  BY DEF Idle
<1>3. FlusherFrame(Idle) /\ SweeperFrame(Idle) /\ EditorFrame(Idle)
  BY <1>2 DEF FlusherFrame, SweeperFrame, EditorFrame
<1> QED BY <1>1, <1>2, <1>3 DEF FrameOK, Guarded

\* A process about to reload.
LEMMA ListFrame ==
    LET f == [Idle EXCEPT !.pc = "list"] IN
    /\ f.pc = "list" /\ f.held = Zeros
    /\ \A p \in Procs : FrameOK(p, f)
<1> DEFINE f == [Idle EXCEPT !.pc = "list"]
<1>1. f \in Frame /\ f.pc = "list" /\ f.held = Zeros
  BY IdleFrame DEF Idle, Frame, PCs
<1>2. FlusherFrame(f) /\ SweeperFrame(f) /\ EditorFrame(f)
  BY <1>1 DEF FlusherFrame, SweeperFrame, EditorFrame
<1> QED BY <1>1, <1>2 DEF FrameOK

\* The end of a call.
LEMMA ReturnStep ==
    ASSUME FramesOK, LockOK, flushMu \in Procs \cup {Nobody}, NEW p \in Procs, Return(p)
    PROVE  /\ FramesOK' /\ LockOK' /\ flushMu' \in Procs \cup {Nobody}
           /\ proc'[p] = Idle
           /\ \A q \in Procs : q # p => proc'[q] = proc[q]
<1>1. Become(p, Idle) /\ FrameOK(p, Idle) /\ Idle.pc \notin Guarded(p)
  BY IdleFrame DEF Return
<1>2. /\ FramesOK' /\ proc'[p] = Idle
      /\ \A q \in Procs : q # p => proc'[q] = proc[q]
  BY <1>1, FrameStep
<1>3. ASSUME flushMu = p PROVE LockOK'
  <2>1. flushMu' = Nobody
    BY <1>3 DEF Return
  <2> HIDE DEF FramesOK, LockOK, Become, FrameOK
  <2> QED BY <1>1, <1>3, <2>1, LockDropped
<1>4. ASSUME flushMu # p PROVE LockOK'
  <2>1. flushMu' = flushMu
    BY <1>4 DEF Return
  <2> HIDE DEF FramesOK, LockOK, Become, FrameOK
  <2> QED BY <1>1, <1>4, <2>1, LockKept
<1>5. flushMu' \in Procs \cup {Nobody}
  BY DEF Return
<1> QED BY <1>2, <1>3, <1>4, <1>5

LEMMA IndexType == Shared => Index \in [Ids -> IndexRec \cup {NoRec}]
<1> SUFFICES ASSUME Shared, NEW i \in Ids PROVE Indexed(db[i]) \in IndexRec \cup {NoRec}
  BY DEF Index
<1>1. db[i] \in Rec \cup {NoRec}
  BY DEF Shared
<1> QED BY <1>1 DEF Indexed, Rec, IndexRec

LEMMA InvInit == Init => IInv
<1> SUFFICES ASSUME Init PROVE IInv
  OBVIOUS
<1>1. Shared
  <2>1. db \in [Ids -> Rec \cup {NoRec}]
    BY StartAssumption DEF Init
  <2>2. cached \in [Ids -> IndexRec \cup {NoRec}]
    <3> SUFFICES ASSUME NEW i \in Ids PROVE Indexed(db[i]) \in IndexRec \cup {NoRec}
      BY DEF Init, Index
    <3> QED BY <2>1 DEF Indexed, Rec, IndexRec
  <2> QED BY <2>1, <2>2, ZerosType DEF Init, Shared
<1>2. proc \in [Procs -> Frame] /\ \A p \in Procs : proc[p] = Idle
  BY IdleFrame DEF Init
<1>3. FramesOK
  BY <1>2, IdleFrame DEF FramesOK
<1>4. LockOK
  BY <1>2, IdleFrame DEF LockOK
<1> QED BY <1>1, <1>3, <1>4 DEF IInv

\* FlushTraffic.
LEMMA FlushStep == IInv /\ Flush => IInv'
<1> SUFFICES ASSUME IInv, Flush PROVE IInv'
  OBVIOUS
<1> DEFINE f == proc[Flusher]
<1>1. Shared /\ FramesOK /\ LockOK /\ Flusher \in Procs /\ Flusher # Sweeper /\ Flusher \notin Editors
  BY ConstantsAssumption DEF IInv, Procs, Flusher, Sweeper
<1>2. f \in Frame /\ FlusherFrame(f)
  BY <1>1 DEF FramesOK, FrameOK
<1>3. ASSUME Drain PROVE IInv'
  <2> DEFINE g == [Idle EXCEPT !.pc = "commit", !.held = pending]
  <2>1. g \in Frame /\ g.pc = "commit"
    BY <1>1, IdleFrame DEF Idle, Frame, PCs, Shared
  <2>2. FrameOK(Flusher, g)
    BY <1>1, <2>1 DEF FrameOK, FlusherFrame
  <2>3. Shared'
    BY <1>1, <1>3, ZerosType DEF Drain, Shared
  <2> HIDE DEF g
  <2>4. Become(Flusher, g) /\ flushMu = Nobody /\ flushMu' = Flusher
    BY <1>3 DEF Drain, g
  <2> QED BY <1>1, <2>2, <2>3, <2>4, FrameStep, LockTaken DEF IInv
<1>4. ASSUME NEW unreadable \in SUBSET Ids, Commit(unreadable) PROVE IInv'
  <2> DEFINE held  == [i \in Ids |-> IF i \in unreadable /\ db[i] # NoRec THEN f.held[i] ELSE 0]
             after == IF \E i \in Ids : f.held[i] > 0 /\ (i \notin unreadable \/ db[i] = NoRec)
                      THEN "list" ELSE "idle"
             g     == [f EXCEPT !.pc = "handback", !.held = held, !.after = after]
  <2>1. held \in [Ids -> Nat] /\ after \in {"list", "idle"}
    BY <1>2 DEF Frame
  <2>2. Become(Flusher, g)
    BY <1>4 DEF Commit
  <2> HIDE DEF held, after
  <2>3. g \in Frame /\ g.pc = "handback"
    BY <1>2, <2>1 DEF Frame, PCs
  <2>4. FrameOK(Flusher, g)
    BY <1>1, <2>3 DEF FrameOK, FlusherFrame
  <2>5. Shared'
    <3>1. ASSUME NEW i \in Ids
          PROVE  (IF db[i] = NoRec \/ i \in unreadable THEN db[i]
                  ELSE [db[i] EXCEPT !.used = @ + f.held[i]]) \in Rec \cup {NoRec}
      <4>1. db[i] \in Rec \cup {NoRec} /\ f.held[i] \in Nat
        BY <1>1, <1>2 DEF Shared, Frame
      <4> HIDE DEF f
      <4> QED BY <4>1 DEF Rec
    <3>2. db' = [i \in Ids |-> IF db[i] = NoRec \/ i \in unreadable THEN db[i]
                               ELSE [db[i] EXCEPT !.used = @ + f.held[i]]]
      BY <1>4 DEF Commit
    <3> HIDE DEF f
    <3>3. db' \in [Ids -> Rec \cup {NoRec}]
      BY <3>1, <3>2
    <3> QED BY <1>1, <1>4, <3>3 DEF Commit, Shared
  <2> HIDE DEF g
  <2>6. f.pc \in Guarded(Flusher) /\ flushMu' = flushMu
    BY <1>4 DEF Commit, Guarded
  <2> QED BY <1>1, <2>2, <2>4, <2>5, <2>6, FrameStep, LockKept DEF IInv
<1>5. ASSUME CommitFail PROVE IInv'
  <2> DEFINE g == [f EXCEPT !.pc = "handback"]
  <2>1. g \in Frame /\ g.pc = "handback"
    BY <1>2 DEF Frame, PCs
  <2>2. FrameOK(Flusher, g)
    BY <1>1, <2>1 DEF FrameOK, FlusherFrame
  <2>3. Shared'
    BY <1>1, <1>5 DEF CommitFail, Shared
  <2>4. Become(Flusher, g) /\ f.pc \in Guarded(Flusher) /\ flushMu' = flushMu
    BY <1>5 DEF CommitFail, Move, Guarded
  <2> HIDE DEF g
  <2> QED BY <1>1, <2>2, <2>3, <2>4, FrameStep, LockKept DEF IInv
<1>6. ASSUME HandBack PROVE IInv'
  <2>1. pending' \in [Ids -> Nat]
    <3>1. \A i \in Ids : pending[i] \in Nat /\ f.held[i] \in Nat
      BY <1>1, <1>2 DEF Shared, Frame
    <3> QED BY <1>6, <3>1 DEF HandBack
  <2>2. CASE f.after = "list"
    <3> DEFINE g == [Idle EXCEPT !.pc = "list"]
    <3>1. FrameOK(Flusher, g) /\ Become(Flusher, g) /\ flushMu' = flushMu /\ f.pc \in Guarded(Flusher)
      BY <1>1, <1>6, <2>2, ListFrame DEF HandBack, Guarded
    <3>2. Shared'
      BY <1>1, <1>6, <2>1, <2>2 DEF HandBack, Shared
    <3> HIDE DEF g
    <3> QED BY <1>1, <3>1, <3>2, FrameStep, LockKept DEF IInv
  <2>3. CASE f.after # "list"
    <3>1. Return(Flusher)
      BY <1>6, <2>3 DEF HandBack
    <3>2. FramesOK' /\ LockOK' /\ flushMu' \in Procs \cup {Nobody}
      BY <1>1, <3>1, ReturnStep DEF Shared
    <3>3. Shared'
      BY <1>1, <1>6, <2>1, <3>2 DEF HandBack, Shared
    <3> QED BY <3>2, <3>3 DEF IInv
  <2> QED BY <2>2, <2>3
<1> QED BY <1>3, <1>4, <1>5, <1>6 DEF Flush

\* reloadCache.
LEMMA ReloadStep == ASSUME IInv, NEW p \in Procs, Reload(p) PROVE IInv'
<1> DEFINE f == proc[p]
<1>1. Shared /\ FramesOK /\ LockOK /\ f \in Frame /\ FrameOK(p, f)
  BY DEF IInv, FramesOK
<1>2. ASSUME ReloadList(p) PROVE IInv'
  <2> DEFINE g == [f EXCEPT !.pc = "install", !.list = Index]
  <2>1. Index \in [Ids -> IndexRec \cup {NoRec}]
    BY <1>1, IndexType
  <2>2. Become(p, g) /\ f.pc = "list"
    BY <1>2 DEF ReloadList
  <2> HIDE DEF Index
  <2>3. g \in Frame /\ g.pc = "install" /\ g.list = Index /\ g.held = f.held
    BY <1>1, <2>1 DEF Frame, PCs
  <2> HIDE DEF g
  <2>4. FrameOK(p, g)
    BY <1>1, <2>1, <2>2, <2>3 DEF FrameOK, FlusherFrame, SweeperFrame, EditorFrame
  <2>5. Shared' /\ flushMu' = flushMu
    BY <1>1, <1>2 DEF ReloadList, Shared
  <2>6. g.pc \in Guarded(p) => f.pc \in Guarded(p)
    BY <2>2, <2>3 DEF Guarded
  <2> QED BY <1>1, <2>2, <2>4, <2>5, <2>6, FrameStep, LockKept DEF IInv
<1>3. ASSUME ReloadInstall(p) \/ ReloadFail(p) PROVE IInv'
  <2>1. Return(p)
    BY <1>3 DEF ReloadInstall, ReloadFail
  <2>2. FramesOK' /\ LockOK' /\ flushMu' \in Procs \cup {Nobody}
    BY <1>1, <2>1, ReturnStep DEF Shared
  <2>3. Shared'
    BY <1>1, <1>3, <2>2 DEF ReloadInstall, ReloadFail, Shared, FrameOK
  <2> QED BY <2>2, <2>3 DEF IInv
<1> QED BY <1>2, <1>3 DEF Reload

\* sweepClients.  A sweep that moves to another frame, on its way or by leaving what
\* flushMu guards.
LEMMA SweeperKeeps ==
    ASSUME IInv, NEW g, g \in Frame, SweeperFrame(g), g.pc # "install", Become(Sweeper, g),
           Shared',
           \/ flushMu' = flushMu /\ (g.pc \in Guarded(Sweeper) => proc[Sweeper].pc \in Guarded(Sweeper))
           \/ flushMu = Nobody /\ flushMu' = Sweeper
           \/ flushMu = Sweeper /\ flushMu' = Nobody /\ g.pc \notin Guarded(Sweeper)
    PROVE  IInv'
<1>1. Sweeper \in Procs /\ Flusher # Sweeper /\ Sweeper \notin Editors
  BY ConstantsAssumption DEF Procs, Flusher, Sweeper
<1>2. FrameOK(Sweeper, g) /\ FramesOK /\ LockOK
  BY <1>1 DEF IInv, FrameOK
<1> HIDE DEF FramesOK, LockOK, Become, FrameOK, Guarded, SweeperFrame, Shared
<1>3. LockOK'
  <2>1. CASE flushMu' = flushMu /\ (g.pc \in Guarded(Sweeper) => proc[Sweeper].pc \in Guarded(Sweeper))
    BY <1>1, <1>2, <2>1, LockKept
  <2>2. CASE flushMu = Nobody /\ flushMu' = Sweeper
    BY <1>1, <1>2, <2>2, LockTaken
  <2>3. CASE flushMu = Sweeper /\ flushMu' = Nobody /\ g.pc \notin Guarded(Sweeper)
    BY <1>1, <1>2, <2>3, LockDropped
  <2> QED BY <2>1, <2>2, <2>3
<1>4. FramesOK'
  BY <1>1, <1>2, FrameStep
<1> QED BY <1>3, <1>4 DEF IInv

LEMMA SweeperNow ==
    IInv => /\ Shared /\ proc[Sweeper] \in Frame /\ SweeperFrame(proc[Sweeper])
            /\ proc[Sweeper].pc \in Guarded(Sweeper) => flushMu = Sweeper
<1> SUFFICES ASSUME IInv PROVE Shared /\ proc[Sweeper] \in Frame /\ SweeperFrame(proc[Sweeper])
                               /\ (proc[Sweeper].pc \in Guarded(Sweeper) => flushMu = Sweeper)
  OBVIOUS
<1>1. Sweeper \in Procs
  BY DEF Procs
<1> QED BY <1>1 DEF IInv, FramesOK, FrameOK, LockOK

\* The sweep goes on to the next account.
LEMMA NextAccountStep ==
    ASSUME IInv, NEW changed \in BOOLEAN, NextAccount(changed), Shared', flushMu' = flushMu,
           proc[Sweeper].pc \in {"roll", "anchor", "saveRoll", "saveAnchor"}
    PROVE  IInv'
<1> DEFINE f == proc[Sweeper]
           flag == f.changed \/ changed
           g == [f EXCEPT !.pc = "each", !.id = NoId, !.rec = NoRec,
                          !.seen = NoRec, !.held = Zeros, !.changed = flag]
<1>1. f \in Frame /\ SweeperFrame(f)
  BY SweeperNow
<1>2. Become(Sweeper, g)
  BY DEF NextAccount
<1>3. flag \in BOOLEAN
  OBVIOUS
<1> HIDE DEF flag
<1>4. g \in Frame /\ g.pc = "each" /\ g.held = Zeros /\ g.todo = f.todo /\ g.list = f.list
  BY <1>1, <1>3, ZerosType DEF Frame, PCs
<1>5. f.pc \in Guarded(Sweeper)
  BY DEF Guarded, Flusher, Sweeper
<1> HIDE DEF g
<1>6. SweeperFrame(g) /\ g.pc # "install"
  BY <1>1, <1>4 DEF SweeperFrame
<1> QED BY <1>2, <1>4, <1>5, <1>6, SweeperKeeps

LEMMA SweepStep == IInv /\ Sweep => IInv'
<1> SUFFICES ASSUME IInv, Sweep PROVE IInv'
  OBVIOUS
<1> DEFINE f == proc[Sweeper]
<1>1. Shared /\ f \in Frame /\ SweeperFrame(f) /\ (f.pc \in Guarded(Sweeper) => flushMu = Sweeper)
  BY SweeperNow
<1>2. ASSUME SweepList PROVE IInv'
  <2> DEFINE todo == { i \in Ids : db[i] # NoRec }
             g == [Idle EXCEPT !.pc = "lock", !.list = db, !.at = now, !.todo = todo]
  <2>1. \A i \in todo : db[i] \in Rec
    BY <1>1 DEF Shared
  <2>2. todo \in SUBSET Ids /\ db \in [Ids -> Rec \cup IndexRec \cup {NoRec}] /\ now \in Nat
    BY <1>1 DEF Shared
  <2>3. Become(Sweeper, g)
    BY <1>2 DEF SweepList
  <2> HIDE DEF todo
  <2>4. g \in Frame /\ g.pc = "lock" /\ g.held = Zeros /\ g.list = db /\ g.todo = todo
    BY <2>2, IdleFrame, ZerosType DEF Idle, Frame, PCs
  <2> HIDE DEF g
  <2>5. SweeperFrame(g) /\ g.pc # "install"
    BY <2>1, <2>4 DEF SweeperFrame
  <2>6. Shared' /\ flushMu' = flushMu /\ g.pc \notin Guarded(Sweeper)
    BY <1>1, <1>2, <2>4 DEF SweepList, Shared, Guarded, Flusher, Sweeper
  <2> QED BY <2>3, <2>4, <2>5, <2>6, SweeperKeeps
<1>3. ASSUME SweepLock PROVE IInv'
  <2> DEFINE g == [f EXCEPT !.pc = "each"]
  <2>1. g \in Frame /\ g.pc = "each" /\ g.held = f.held /\ g.list = f.list /\ g.todo = f.todo
    BY <1>1 DEF Frame, PCs
  <2>2. Become(Sweeper, g) /\ flushMu = Nobody /\ flushMu' = Sweeper /\ f.pc = "lock"
    BY <1>3 DEF SweepLock, Move
  <2> HIDE DEF g
  <2>3. SweeperFrame(g) /\ g.pc # "install"
    BY <1>1, <2>1, <2>2 DEF SweeperFrame
  <2>4. Shared'
    BY <1>1, <1>3 DEF SweepLock, Shared, Procs
  <2> QED BY <2>1, <2>2, <2>3, <2>4, SweeperKeeps
<1>4. ASSUME NEW i \in Ids, RollTake(i) PROVE IInv'
  <2> DEFINE held == [f.held EXCEPT ![i] = pending[i]]
             g    == [f EXCEPT !.pc = "roll", !.id = i, !.todo = f.todo \ {i}, !.held = held]
  <2>1. f.pc = "each" /\ i \in f.todo /\ Work(f.list[i], f.at) = "roll" /\ flushMu' = flushMu
    BY <1>4 DEF RollTake, Left
  <2>2. f.held = Zeros /\ f.list[i] \in Rec /\ \A j \in f.todo : f.list[j] \in Rec
    BY <1>1, <2>1 DEF SweeperFrame
  <2>3. held \in [Ids -> Nat] /\ \A j \in Ids : j # i => held[j] = 0
    BY <1>1, <2>2, ZerosType DEF Shared
  <2>4. Become(Sweeper, g)
    BY <1>4 DEF RollTake, Become
  <2>5. f.todo \ {i} \in SUBSET Ids
    BY <1>1 DEF Frame
  <2> HIDE DEF held
  <2>6. /\ g \in Frame /\ g.pc = "roll" /\ g.held = held /\ g.list = f.list
        /\ g.todo = f.todo \ {i} /\ g.id = i /\ g.at = f.at
    BY <1>1, <2>3, <2>5 DEF Frame, PCs
  <2> HIDE DEF g
  <2>7. SweeperFrame(g) /\ g.pc # "install"
    BY <2>1, <2>2, <2>3, <2>6 DEF SweeperFrame, WorksOn
  <2>8. Shared' /\ f.pc \in Guarded(Sweeper)
    BY <1>1, <1>4, <2>1 DEF RollTake, Shared, Guarded, Flusher, Sweeper
  <2> QED BY <2>1, <2>4, <2>6, <2>7, <2>8, SweeperKeeps
<1>5. ASSUME NEW i \in Ids, AnchorBegin(i) PROVE IInv'
  <2> DEFINE g == [f EXCEPT !.pc = "anchor", !.id = i, !.todo = f.todo \ {i}]
  <2>1. f.pc = "each" /\ i \in f.todo /\ Work(f.list[i], f.at) = "anchor" /\ flushMu' = flushMu
    BY <1>5 DEF AnchorBegin, Left
  <2>2. f.held = Zeros /\ f.list[i] \in Rec /\ \A j \in f.todo : f.list[j] \in Rec
    BY <1>1, <2>1 DEF SweeperFrame
  <2>3. Become(Sweeper, g)
    BY <1>5 DEF AnchorBegin
  <2>4. f.todo \ {i} \in SUBSET Ids
    BY <1>1 DEF Frame
  <2>5. /\ g \in Frame /\ g.pc = "anchor" /\ g.held = f.held /\ g.list = f.list
        /\ g.todo = f.todo \ {i} /\ g.id = i /\ g.at = f.at
    BY <1>1, <2>4 DEF Frame, PCs
  <2> HIDE DEF g
  <2>6. SweeperFrame(g) /\ g.pc # "install"
    BY <2>1, <2>2, <2>5 DEF SweeperFrame, WorksOn
  <2>7. Shared' /\ f.pc \in Guarded(Sweeper)
    BY <1>1, <1>5, <2>1 DEF AnchorBegin, Shared, Guarded, Flusher, Sweeper
  <2> QED BY <2>1, <2>3, <2>5, <2>6, <2>7, SweeperKeeps
<1>6. ASSUME SweepRead PROVE IInv'
  <2> DEFINE i == f.id
             q == f.list[i]
             n == DueResets(q, f.at)
             r == IF f.pc = "roll"
                  THEN [db[i] EXCEPT !.prev = db[i].used + f.held[i], !.used = 0,
                                     !.count = q.count + n]
                  ELSE [db[i] EXCEPT !.anchor = f.at, !.count = 0]
             pc == IF f.pc = "roll" THEN "saveRoll" ELSE "saveAnchor"
             g == [f EXCEPT !.pc = pc, !.id = i, !.rec = r, !.seen = db[i]]
  <2>1. f.pc \in {"roll", "anchor"} /\ db[i] # NoRec /\ flushMu' = flushMu
    BY <1>6 DEF SweepRead
  <2>2. WorksOn(f, f.pc) /\ i \in Ids /\ q \in Rec /\ f.at \in Nat
    BY <1>1, <2>1 DEF SweeperFrame, WorksOn, Frame
  <2>3. db[i] \in Rec /\ f.held[i] \in Nat /\ n \in Nat
    <3>1. db[i] \in Rec
      BY <1>1, <2>1, <2>2 DEF Shared
    <3>2. f.held \in [Ids -> Nat]
      BY <1>1 DEF Frame
    <3>3. n \in 0 .. MaxCatchUp
      BY <2>2, DueResetsCounts
    <3> QED BY <2>2, <3>1, <3>2, <3>3
  <2>4. Become(Sweeper, g)
    BY <1>6, <2>1 DEF SweepRead, Prepared
  <2>5. r \in Rec
    <3>1. CASE f.pc # "roll"
      BY <2>2, <2>3, <3>1, AnchoredRecord
    <3>2. CASE f.pc = "roll"
      <4> HIDE DEF n
      <4>1. db[i].used + f.held[i] \in Nat /\ q.count + n \in Nat
        BY <2>2, <2>3 DEF Rec
      <4> QED BY <2>3, <3>2, <4>1 DEF Rec
    <3> QED BY <3>1, <3>2
  <2> HIDE DEF r
  <2>6. /\ g \in Frame /\ g.pc = pc /\ g.rec = r /\ g.seen = db[i] /\ g.held = f.held
        /\ g.list = f.list /\ g.todo = f.todo /\ g.id = f.id /\ g.at = f.at
    BY <1>1, <2>2, <2>3, <2>5 DEF Frame, PCs
  <2>7. WorksOn(g, f.pc) /\ \A j \in g.todo : g.list[j] \in Rec
    BY <1>1, <2>1, <2>2, <2>6 DEF WorksOn, SweeperFrame
  <2>8. SweeperFrame(g) /\ g.pc # "install"
    <3>1. CASE f.pc = "roll"
      <4>1. g.rec = Rolled(g)
        BY <2>6, <3>1 DEF Rolled, r
      <4>2. \A j \in Ids : j # g.id => g.held[j] = 0
        BY <1>1, <2>6, <3>1 DEF SweeperFrame
      <4> HIDE DEF g
      <4> QED BY <2>3, <2>6, <2>7, <3>1, <4>1, <4>2 DEF SweeperFrame
    <3>2. CASE f.pc = "anchor"
      <4>1. g.rec = [g.seen EXCEPT !.anchor = g.at, !.count = 0]
        BY <2>6, <3>2 DEF r
      <4>2. g.held = Zeros
        BY <1>1, <2>6, <3>2 DEF SweeperFrame
      <4> HIDE DEF g
      <4> QED BY <2>3, <2>6, <2>7, <3>2, <4>1, <4>2 DEF SweeperFrame
    <3> QED BY <2>1, <3>1, <3>2
  <2> HIDE DEF g
  <2>9. Shared' /\ f.pc \in Guarded(Sweeper)
    BY <1>1, <1>6, <2>1 DEF SweepRead, Shared, Guarded, Flusher, Sweeper
  <2> QED BY <2>1, <2>4, <2>6, <2>8, <2>9, SweeperKeeps
<1>7. ASSUME SweepSave PROVE IInv'
  <2>1. f.id \in Ids /\ f.rec \in Rec
    <3>1. TypeOK /\ Sweeper \in Procs
      BY TypesFromInvariant DEF Procs
    <3> QED BY <1>7, <3>1 DEF TypeOK, SweepSave, SavePCs
  <2>2. Shared'
    BY <1>1, <1>7, <2>1 DEF SweepSave, Shared
  <2> QED BY <1>7, <2>2, NextAccountStep DEF SweepSave
<1>8. ASSUME SweepFail PROVE IInv'
  <2>1. \A i \in Ids : pending[i] + f.held[i] \in Nat
    BY <1>1 DEF Shared, Frame
  <2>2. Shared'
    BY <1>1, <1>8, <2>1 DEF SweepFail, Shared
  <2> QED BY <1>8, <2>2, NextAccountStep DEF SweepFail
<1>9. ASSUME SweepDone PROVE IInv'
  <2> DEFINE g == IF f.changed THEN [Idle EXCEPT !.pc = "list"] ELSE Idle
  <2>1. Become(Sweeper, g) /\ flushMu' = Nobody /\ f.pc = "each"
    BY <1>9 DEF SweepDone
  <2>2. flushMu = Sweeper
    BY <1>1, <2>1 DEF Guarded, Flusher, Sweeper
  <2>3. Sweeper \in Procs
    BY DEF Procs
  <2>4. /\ g \in Frame /\ SweeperFrame(g) /\ g.pc # "install" /\ g.pc \notin Guarded(Sweeper)
    BY <2>3, ListFrame, IdleFrame DEF FrameOK, Guarded, Flusher, Sweeper
  <2>5. Shared'
    BY <1>1, <1>9 DEF SweepDone, Shared
  <2> HIDE DEF g
  <2> QED BY <2>1, <2>2, <2>4, <2>5, SweeperKeeps
<1> QED BY <1>2, <1>3, <1>4, <1>5, <1>6, <1>7, <1>8, <1>9 DEF Sweep

\* An edit that moves to another frame without taking or leaving flushMu.
LEMMA EditorKeeps ==
    ASSUME IInv, NEW e \in Editors, NEW g, g \in Frame, EditorFrame(g), g.pc # "install",
           Become(e, g), Shared', flushMu' = flushMu,
           g.pc \in {"reset", "saveReset"} => proc[e].pc \in {"reset", "saveReset"}
    PROVE  IInv'
<1>1. e \in Procs /\ e # Flusher /\ e # Sweeper
  BY ConstantsAssumption DEF Procs
<1>2. FrameOK(e, g) /\ FramesOK /\ LockOK
  BY <1>1 DEF IInv, FrameOK
<1>3. g.pc \in Guarded(e) => proc[e].pc \in Guarded(e)
  BY <1>1 DEF Guarded
<1> HIDE DEF FramesOK, LockOK, Become, FrameOK, Guarded, EditorFrame, Shared
<1> QED BY <1>1, <1>2, <1>3, FrameStep, LockKept DEF IInv

\* Every request reads a record, changes its copy and keeps what the edit may not touch.
LEMMA EditedRecord ==
    ASSUME NEW r \in Rec, now \in Nat, NEW q \in Edited(r)
    PROVE  q \in Rec /\ q.used = r.used
<1>1. CASE \E l \in Limits : q = [r EXCEPT !.limit = l]
  BY <1>1, ConstantsAssumption DEF Rec
<1>2. CASE \E c \in Cycles \cup {NoCycle} : q = [r EXCEPT !.cycle = c]
  BY <1>2 DEF Rec
<1>3. CASE \E c \in Cycles \cup {NoCycle} : q = [r EXCEPT !.cycle = c, !.anchor = now, !.count = 0]
  <2>1. PICK c \in Cycles \cup {NoCycle} :
               q = [r EXCEPT !.cycle = c, !.anchor = now, !.count = 0]
    BY <1>3
  <2> DEFINE moved == [r EXCEPT !.cycle = c]
  <2>2. moved \in Rec /\ moved.used = r.used
    BY DEF Rec
  <2>3. q = [moved EXCEPT !.anchor = now, !.count = 0]
    BY <2>1
  <2> HIDE DEF moved
  <2>4. q \in Rec
    BY <2>2, <2>3, AnchoredRecord
  <2> QED BY <2>2, <2>3, <2>4 DEF Rec
<1> QED BY <1>1, <1>2, <1>3 DEF Edited

LEMMA EditStep == ASSUME IInv, NEW e \in Editors, Edit(e) PROVE IInv'
<1> DEFINE f == proc[e]
<1>1. /\ Shared /\ FramesOK /\ LockOK
      /\ e \in Procs /\ e # Flusher /\ e # Sweeper /\ f \in Frame /\ EditorFrame(f)
  BY ConstantsAssumption DEF IInv, FramesOK, FrameOK, Procs
<1>2. ASSUME NEW i \in Ids, EditRead(e, i) PROVE IInv'
  <2>1. PICK r \in Edited(db[i]) : Become(e, Prepared(Idle, "saveEdit", i, r))
    BY <1>2 DEF EditRead
  <2>2. db[i] \in Rec /\ now \in Nat
    BY <1>1, <1>2 DEF EditRead, Shared
  <2>3. r \in Rec /\ r.used = db[i].used
    BY <2>2, EditedRecord
  <2> DEFINE g == Prepared(Idle, "saveEdit", i, r)
  <2>4. g \in Frame /\ g.pc = "saveEdit" /\ g.id = i /\ g.rec = r /\ g.seen = db[i]
    BY <2>2, <2>3, IdleFrame DEF Prepared, Idle, Frame, PCs
  <2> HIDE DEF g
  <2>5. EditorFrame(g) /\ g.pc # "install"
    BY <2>2, <2>3, <2>4 DEF EditorFrame
  <2>6. Shared' /\ flushMu' = flushMu
    BY <1>1, <1>2 DEF EditRead, Arrives, Shared
  <2>7. Become(e, g)
    BY <2>1 DEF g
  <2> QED BY <2>4, <2>5, <2>6, <2>7, EditorKeeps
<1>3. ASSUME NEW i \in Ids, ResetBegin(e, i) PROVE IInv'
  <2> DEFINE g == [Idle EXCEPT !.pc = "reset", !.id = i]
  <2>1. g \in Frame /\ g.pc = "reset" /\ g.id = i
    BY IdleFrame DEF Idle, Frame, PCs
  <2>2. Become(e, g) /\ flushMu = Nobody /\ flushMu' = e
    BY <1>3 DEF ResetBegin
  <2> HIDE DEF g
  <2>3. FrameOK(e, g)
    BY <1>1, <2>1 DEF FrameOK, EditorFrame
  <2>4. Shared'
    BY <1>1, <1>3 DEF ResetBegin, Arrives, Shared
  <2> QED BY <1>1, <2>2, <2>3, <2>4, FrameStep, LockTaken DEF IInv
<1>4. ASSUME NEW i \in Ids, DeleteClient(e, i) PROVE IInv'
  <2> DEFINE g == [Idle EXCEPT !.pc = "list"]
  <2>1. FrameOK(e, g) /\ g.pc = "list" /\ Become(e, g) /\ flushMu' = flushMu
    BY <1>1, <1>4, ListFrame DEF DeleteClient
  <2>2. Shared'
    BY <1>1, <1>4 DEF DeleteClient, Arrives, Shared
  <2> HIDE DEF g
  <2> QED BY <1>1, <2>1, <2>2, EditorKeeps DEF FrameOK
<1>5. ASSUME ResetRead(e) PROVE IInv'
  <2> DEFINE i == f.id
             r == [db[i] EXCEPT !.used = 0]
             g == Prepared(f, "saveReset", i, r)
  <2>1. Become(e, g) /\ f.pc = "reset" /\ flushMu' = flushMu /\ db[i] # NoRec
    BY <1>5 DEF ResetRead
  <2>2. i \in Ids
    BY <1>1, <2>1 DEF EditorFrame
  <2>3. db[i] \in Rec
    BY <1>1, <2>1, <2>2 DEF Shared
  <2>4. r \in Rec /\ r.used = 0
    BY <2>3 DEF Rec
  <2> HIDE DEF r
  <2>5. g \in Frame /\ g.pc = "saveReset" /\ g.id = i /\ g.rec = r /\ g.seen = db[i]
    BY <1>1, <2>2, <2>3, <2>4 DEF Prepared, Frame, PCs
  <2> HIDE DEF g
  <2>6. EditorFrame(g) /\ g.pc # "install"
    BY <2>2, <2>3, <2>4, <2>5 DEF EditorFrame
  <2>7. Shared'
    BY <1>1, <1>5 DEF ResetRead, Shared
  <2> QED BY <2>1, <2>5, <2>6, <2>7, EditorKeeps
<1>6. ASSUME EditSave(e) PROVE IInv'
  <2> DEFINE g == [Idle EXCEPT !.pc = "list"]
  <2>1. FrameOK(e, g) /\ g.pc = "list" /\ Become(e, g) /\ flushMu' = flushMu
    BY <1>1, <1>6, ListFrame DEF EditSave
  <2>2. f.id \in Ids /\ f.rec \in Rec
    BY <1>1, <1>6 DEF EditSave, EditorFrame
  <2>3. Shared'
    BY <1>1, <1>6, <2>2 DEF EditSave, Shared
  <2> HIDE DEF g
  <2> QED BY <1>1, <2>1, <2>3, EditorKeeps DEF FrameOK
<1>7. ASSUME EditFail(e) PROVE IInv'
  <2>1. FramesOK' /\ LockOK' /\ flushMu' \in Procs \cup {Nobody}
    BY <1>1, <1>7, ReturnStep DEF EditFail, Shared
  <2>2. Shared'
    BY <1>1, <1>7, <2>1 DEF EditFail, Shared
  <2> QED BY <2>1, <2>2 DEF IInv
<1> QED BY <1>2, <1>3, <1>4, <1>5, <1>6, <1>7 DEF Edit

\* Every step keeps the invariant.
LEMMA InvStep == IInv /\ [Next]_vars => IInv'
<1> SUFFICES ASSUME IInv, [Next]_vars PROVE IInv'
  OBVIOUS
<1>1. Shared /\ FramesOK /\ LockOK
  BY DEF IInv
<1>2. CASE UNCHANGED vars
  BY <1>1, <1>2 DEF vars, IInv, Shared, FramesOK, LockOK
<1>3. CASE Tick
  BY <1>1, <1>3 DEF Tick, IInv, Shared, FramesOK, LockOK
<1>4. ASSUME NEW i \in Ids, AddTraffic(i) PROVE IInv'
  <2>1. pending' \in [Ids -> Nat]
    BY <1>1, <1>4 DEF AddTraffic, Shared
  <2> QED BY <1>1, <1>4, <2>1 DEF AddTraffic, IInv, Shared, FramesOK, LockOK
<1>5. CASE Crash
  <2>1. Shared'
    BY <1>1, <1>5, IndexType, ZerosType DEF Crash, Shared
  <2>2. proc' \in [Procs -> Frame] /\ \A p \in Procs : proc'[p] = Idle
    BY <1>5, IdleFrame DEF Crash
  <2>3. FramesOK' /\ LockOK'
    BY <2>2, IdleFrame DEF FramesOK, LockOK
  <2> QED BY <2>1, <2>3 DEF IInv
<1> QED
  BY <1>2, <1>3, <1>4, <1>5, FlushStep, SweepStep, EditStep, ReloadStep DEF Next

\* Every variable keeps its type, and flushMu excludes: a process is inside what it
\* guards only while it holds it.
THEOREM TypeCorrect == Spec => []TypeOK
<1>1. Spec => []IInv
  BY InvInit, InvStep, PTL DEF Spec
<1> QED BY <1>1, TypesFromInvariant, PTL

------------------------------------------------------------------------------
(* Relayed bytes *)

\* What a step leaves alone of the bytes of an account.
LEMMA TotalKept ==
    ASSUME NEW i \in Ids, db'[i] = db[i], pending'[i] = pending[i],
           proc'[Flusher].held[i] = proc[Flusher].held[i],
           proc'[Sweeper].held[i] = proc[Sweeper].held[i]
    PROVE  Total(i)' = Total(i)
BY DEF Total, Stored, HeldBy

\* Every count of bytes is a natural number.
LEMMA BytesType ==
    ASSUME IInv, NEW i \in Ids
    PROVE  /\ Stored(i) \in Nat /\ pending[i] \in Nat
           /\ HeldBy(Flusher, i) \in Nat /\ HeldBy(Sweeper, i) \in Nat
<1>1. db[i] \in Rec \cup {NoRec} /\ pending[i] \in Nat
  BY DEF IInv, Shared
<1>2. proc[Flusher] \in Frame /\ proc[Sweeper] \in Frame
  BY DEF IInv, FramesOK, Procs
<1>3. proc[Flusher].held \in [Ids -> Nat] /\ proc[Sweeper].held \in [Ids -> Nat]
  BY <1>2 DEF Frame
<1>4. Stored(i) \in Nat
  BY <1>1 DEF Stored, Rec
<1> QED BY <1>1, <1>3, <1>4 DEF HeldBy

\* Only one process moves in a step that is Become.
LEMMA Others ==
    ASSUME FramesOK, NEW p \in Procs, NEW f, Become(p, f)
    PROVE  /\ proc'[p] = f /\ \A q \in Procs : q # p => proc'[q] = proc[q]
BY DEF FramesOK, Become

LEMMA Names ==
    /\ Flusher \in Procs /\ Sweeper \in Procs /\ Flusher # Sweeper
    /\ \A e \in Editors : e \in Procs /\ e # Flusher /\ e # Sweeper
BY ConstantsAssumption DEF Procs, Flusher, Sweeper

\* What the flusher and the sweeper hold outside the locations that hold.
LEMMA EmptyHanded ==
    ASSUME IInv, NEW i \in Ids
    PROVE  /\ proc[Flusher].pc \notin {"commit", "handback"} => HeldBy(Flusher, i) = 0
           /\ proc[Sweeper].pc \notin {"roll", "saveRoll"} => HeldBy(Sweeper, i) = 0
           /\ proc[Sweeper].id # i => HeldBy(Sweeper, i) = 0
<1>1. FlusherFrame(proc[Flusher]) /\ SweeperFrame(proc[Sweeper])
  BY Names DEF IInv, FramesOK, FrameOK
<1>2. proc[Flusher].pc \notin {"commit", "handback"} => HeldBy(Flusher, i) = 0
  BY <1>1, ZerosType DEF FlusherFrame, HeldBy
<1>3. proc[Sweeper].pc \notin {"roll", "saveRoll"} => HeldBy(Sweeper, i) = 0
  BY <1>1, ZerosType DEF SweeperFrame, HeldBy
<1>4. (proc[Sweeper].id # i /\ proc[Sweeper].pc \in {"roll", "saveRoll"}) => HeldBy(Sweeper, i) = 0
  BY <1>1 DEF SweeperFrame, HeldBy
<1> QED BY <1>2, <1>3, <1>4

\* A flush moves bytes between the ledger, its hands and the database.
LEMMA FlushConserves ==
    ASSUME IInv, Flush, NEW i \in Ids, db[i] # NoRec
    PROVE  Total(i)' = Total(i)
<1> DEFINE f == proc[Flusher]
<1>1. FramesOK /\ Shared
  BY DEF IInv
<1>2. CASE Drain
  <2> DEFINE g == [Idle EXCEPT !.pc = "commit", !.held = pending]
  <2>1. Become(Flusher, g) /\ f.pc = "idle" /\ g.held = pending
    BY <1>2 DEF Drain, Idle
  <2>2. proc'[Flusher].held = pending /\ proc'[Sweeper] = proc[Sweeper]
    BY <1>1, <2>1, Names, Others
  <2>3. f.held[i] = 0 /\ pending'[i] = 0 /\ db' = db
    BY <1>2, <2>1, EmptyHanded, ZerosType DEF HeldBy, Drain
  <2> QED BY <2>2, <2>3, BytesType DEF Total, Stored, HeldBy
<1>3. CASE \E unreadable \in SUBSET Ids : Commit(unreadable)
  <2>1. PICK unreadable \in SUBSET Ids : Commit(unreadable)
    BY <1>3
  <2> DEFINE held  == [j \in Ids |-> IF j \in unreadable /\ db[j] # NoRec THEN f.held[j] ELSE 0]
             after == IF \E j \in Ids : f.held[j] > 0 /\ (j \notin unreadable \/ db[j] = NoRec)
                      THEN "list" ELSE "idle"
             g     == [f EXCEPT !.pc = "handback", !.held = held, !.after = after]
  <2>2. Become(Flusher, g)
    BY <2>1 DEF Commit
  <2>3. g.held = held
    BY <1>1, Names DEF FramesOK, Frame
  <2> HIDE DEF g
  <2>4. proc'[Flusher].held[i] = (IF i \in unreadable THEN f.held[i] ELSE 0)
        /\ proc'[Sweeper] = proc[Sweeper]
    BY <1>1, <2>2, <2>3, Names, Others
  <2>5. db'[i] = IF i \in unreadable THEN db[i] ELSE [db[i] EXCEPT !.used = db[i].used + f.held[i]]
    BY <2>1 DEF Commit
  <2>6. db[i] \in Rec /\ db'[i] \in Rec \cup {NoRec}
    <3>1. Shared'
      BY FlushStep DEF IInv
    <3> QED BY <1>1, <3>1 DEF Shared
  <2>7. Stored(i)' = IF i \in unreadable THEN Stored(i) ELSE Stored(i) + f.held[i]
    <3>1. [db[i] EXCEPT !.used = db[i].used + f.held[i]] # NoRec
      BY <2>6, BytesType, StartAssumption DEF Rec, HeldBy
    <3> QED BY <2>5, <2>6, <3>1 DEF Stored, Rec
  <2>8. pending' = pending
    BY <2>1 DEF Commit
  <2> QED BY <2>4, <2>7, <2>8, BytesType DEF Total, HeldBy
<1>4. CASE CommitFail
  <2> DEFINE g == [f EXCEPT !.pc = "handback"]
  <2>1. Become(Flusher, g) /\ pending' = pending /\ db' = db
    BY <1>4 DEF CommitFail, Move
  <2>2. g.held = f.held
    BY <1>1, Names DEF FramesOK, Frame
  <2> HIDE DEF g
  <2> QED BY <1>1, <2>1, <2>2, Names, Others, TotalKept
<1>5. CASE HandBack
  <2>1. PICK g : Become(Flusher, g) /\ g.held = Zeros
    BY <1>5, IdleFrame, ListFrame DEF HandBack, Return
  <2>2. proc'[Flusher].held[i] = 0 /\ proc'[Sweeper] = proc[Sweeper]
    BY <1>1, <2>1, Names, Others, ZerosType
  <2>3. pending'[i] = pending[i] + f.held[i] /\ db' = db
    BY <1>5 DEF HandBack
  <2> QED BY <2>2, <2>3, BytesType DEF Total, Stored, HeldBy
<1> QED BY <1>2, <1>3, <1>4, <1>5 DEF Flush

LEMMA ReloadConserves ==
    ASSUME IInv, NEW p \in Procs, Reload(p), NEW i \in Ids
    PROVE  Total(i)' = Total(i)
<1>1. FramesOK /\ proc[p] \in Frame /\ proc[p].pc \in {"list", "install"}
  BY DEF IInv, FramesOK, Reload, ReloadList, ReloadInstall, ReloadFail
<1>2. db' = db /\ pending' = pending
  BY DEF Reload, ReloadList, ReloadInstall, ReloadFail
<1>3. PICK g : Become(p, g) /\ g.held \in {proc[p].held, Zeros}
  <2>1. CASE ReloadList(p)
    <3> DEFINE g == [proc[p] EXCEPT !.pc = "install", !.list = Index]
    <3>1. Become(p, g) /\ g.held = proc[p].held
      BY <1>1, <2>1 DEF ReloadList, Frame
    <3> QED BY <3>1
  <2>2. CASE ReloadInstall(p) \/ ReloadFail(p)
    BY <2>2, IdleFrame DEF ReloadInstall, ReloadFail, Return
  <2> QED BY <2>1, <2>2 DEF Reload
<1>4. proc'[p].held \in {proc[p].held, Zeros} /\ \A q \in Procs : q # p => proc'[q] = proc[q]
  BY <1>1, <1>3, Others
<1>5. p \in {Flusher, Sweeper} => proc[p].held[i] = 0
  BY <1>1, Names, EmptyHanded DEF HeldBy
<1> QED BY <1>2, <1>4, <1>5, Names, ZerosType, TotalKept

\* The record a process saves has the usage it read, unless it is there to clear it.
LEMMA SavedUsage ==
    ASSUME IInv, NEW p \in Procs, proc[p].pc \in SavePCs
    PROVE  /\ proc[p].pc \in {"saveRoll", "saveReset"} => proc[p].rec.used = 0
           /\ proc[p].pc \notin {"saveRoll", "saveReset"} => proc[p].rec.used = proc[p].seen.used
           /\ proc[p].pc = "saveRoll" =>
                 proc[p].rec.prev = proc[p].seen.used + proc[p].held[proc[p].id]
           /\ proc[p].seen \in Rec /\ proc[p].rec \in Rec /\ proc[p].id \in Ids
<1> DEFINE f == proc[p]
<1>1. FrameOK(p, f) /\ f.rec \in Rec /\ f.id \in Ids
  BY TypesFromInvariant DEF IInv, FramesOK, TypeOK
<1>2. CASE p = Flusher
  BY <1>1, <1>2 DEF FrameOK, FlusherFrame, SavePCs
<1>3. CASE p \in Editors
  BY <1>1, <1>3 DEF FrameOK, EditorFrame, SavePCs
<1>4. CASE p = Sweeper
  <2>1. SweeperFrame(f) /\ f.pc \in {"saveRoll", "saveAnchor"}
    BY <1>1, <1>4 DEF FrameOK, SweeperFrame, SavePCs
  <2>2. CASE f.pc = "saveRoll"
    <3>1. f.seen \in Rec /\ f.rec = Rolled(f)
      BY <2>1, <2>2 DEF SweeperFrame
    <3>2. f.rec.used = 0 /\ f.rec.prev = f.seen.used + f.held[f.id]
      BY <3>1 DEF Rolled, Rec
    <3> QED BY <1>1, <2>2, <3>1, <3>2
  <2>3. CASE f.pc = "saveAnchor"
    <3>1. f.seen \in Rec /\ f.rec = [f.seen EXCEPT !.anchor = f.at, !.count = 0]
      BY <2>1, <2>3 DEF SweeperFrame
    <3>2. f.rec.used = f.seen.used
      BY <3>1 DEF Rec
    <3> QED BY <1>1, <2>3, <3>1, <3>2
  <2> QED BY <2>1, <2>2, <2>3
<1> QED BY <1>2, <1>3, <1>4 DEF Procs

\* A sweep moves bytes too; it takes them out of the count only where it saves a
\* new period, or over a record that changed.
LEMMA SweepConserves ==
    ASSUME IInv, Sweep, NEW i \in Ids, db[i] # NoRec
    PROVE  \/ Total(i)' = Total(i)
           \/ Saves(Sweeper, i) /\ (Stale(Sweeper) \/ proc[Sweeper].pc = "saveRoll")
<1> DEFINE f == proc[Sweeper]
<1>1. FramesOK /\ f \in Frame /\ SweeperFrame(f)
  BY SweeperNow DEF IInv
<1>2. ASSUME SweepList \/ SweepLock \/ SweepRead \/ SweepDone \/ \E j \in Ids : AnchorBegin(j)
      PROVE  Total(i)' = Total(i)
  <2>1. db' = db /\ pending' = pending
    BY <1>2 DEF SweepList, SweepLock, SweepRead, SweepDone, AnchorBegin
  <2>2. \E g : Become(Sweeper, g) /\ g.held = f.held
    <3>1. CASE SweepList
      <4>1. f.held = Zeros
        BY <1>1, <3>1 DEF SweepList, SweeperFrame
      <4> DEFINE g == [Idle EXCEPT !.pc = "lock", !.list = db, !.at = now,
                                   !.todo = { j \in Ids : db[j] # NoRec }]
      <4>2. Become(Sweeper, g) /\ g.held = Zeros
        BY <3>1 DEF SweepList, Idle
      <4> QED BY <4>1, <4>2
    <3>2. CASE SweepLock
      <4> DEFINE g == [f EXCEPT !.pc = "each"]
      <4>1. Become(Sweeper, g) /\ g.held = f.held
        BY <1>1, <3>2 DEF SweepLock, Move, Frame
      <4> QED BY <4>1
    <3>3. CASE \E j \in Ids : AnchorBegin(j)
      <4>1. PICK j \in Ids : AnchorBegin(j)
        BY <3>3
      <4> DEFINE g == [f EXCEPT !.pc = "anchor", !.id = j, !.todo = f.todo \ {j}]
      <4>2. Become(Sweeper, g) /\ g.held = f.held
        BY <1>1, <4>1 DEF AnchorBegin, Frame
      <4> QED BY <4>2
    <3>4. CASE SweepRead
      <4>1. PICK pc, id, r, seen :
                 Become(Sweeper, [f EXCEPT !.pc = pc, !.id = id, !.rec = r, !.seen = seen])
        BY <3>4 DEF SweepRead, Prepared
      <4> DEFINE g == [f EXCEPT !.pc = pc, !.id = id, !.rec = r, !.seen = seen]
      <4>2. g.held = f.held
        BY <1>1 DEF Frame
      <4> QED BY <4>1, <4>2
    <3>5. CASE SweepDone
      <4>1. f.held = Zeros
        BY <1>1, <3>5 DEF SweepDone, SweeperFrame
      <4>2. Become(Sweeper, IF f.changed THEN [Idle EXCEPT !.pc = "list"] ELSE Idle)
        BY <3>5 DEF SweepDone
      <4> QED BY <4>1, <4>2, IdleFrame, ListFrame
    <3> QED BY <1>2, <3>1, <3>2, <3>3, <3>4, <3>5
  <2>3. proc'[Sweeper].held = f.held /\ proc'[Flusher] = proc[Flusher]
    BY <1>1, <2>2, Names, Others
  <2> QED BY <2>1, <2>3, TotalKept
<1>3. ASSUME NEW j \in Ids, RollTake(j) PROVE Total(i)' = Total(i)
  <2> DEFINE held == [f.held EXCEPT ![j] = pending[j]]
             g    == [f EXCEPT !.pc = "roll", !.id = j, !.todo = f.todo \ {j}, !.held = held]
  <2>1. Become(Sweeper, g)
    BY <1>3 DEF RollTake, Become
  <2>2. g.held = held
    BY <1>1 DEF Frame
  <2>3. f.held = Zeros
    BY <1>1, <1>3 DEF RollTake, SweeperFrame
  <2>4. held[i] = IF i = j THEN pending[i] ELSE 0
    BY <2>3, ZerosType
  <2>5. db' = db /\ pending'[i] = IF i = j THEN 0 ELSE pending[i]
    BY <1>3 DEF RollTake, IInv, Shared
  <2> HIDE DEF g, held
  <2>6. proc'[Sweeper].held = held /\ proc'[Flusher] = proc[Flusher]
    BY <1>1, <2>1, <2>2, Names, Others
  <2> QED BY <2>3, <2>4, <2>5, <2>6, BytesType, ZerosType DEF Total, Stored, HeldBy
<1>4. ASSUME NEW changed \in BOOLEAN, NextAccount(changed)
      PROVE  /\ proc'[Sweeper].held = Zeros /\ proc'[Sweeper].pc = "each"
             /\ proc'[Flusher] = proc[Flusher]
  <2> DEFINE g == [f EXCEPT !.pc = "each", !.id = NoId, !.rec = NoRec,
                            !.seen = NoRec, !.held = Zeros, !.changed = @ \/ changed]
  <2>1. Become(Sweeper, g)
    BY <1>4 DEF NextAccount
  <2>2. g.held = Zeros /\ g.pc = "each"
    BY <1>1 DEF Frame
  <2> HIDE DEF g
  <2> QED BY <1>1, <2>1, <2>2, Names, Others
<1>5. ASSUME SweepSave
      PROVE  \/ Total(i)' = Total(i)
             \/ Saves(Sweeper, i) /\ (Stale(Sweeper) \/ f.pc = "saveRoll")
  <2>1. f.pc \in {"saveRoll", "saveAnchor"} /\ pending' = pending
        /\ db' = [db EXCEPT ![f.id] = f.rec] /\ NextAccount(TRUE)
    BY <1>5 DEF SweepSave
  <2>2. proc'[Sweeper].held = Zeros /\ proc'[Sweeper].pc = "each" /\ proc'[Flusher] = proc[Flusher]
    BY <1>4, <2>1
  <2>3. f.id \in Ids /\ f.seen \in Rec /\ f.rec \in Rec
        /\ (f.pc = "saveAnchor" => f.rec.used = f.seen.used)
    BY <2>1, Names, SavedUsage DEF SavePCs
  <2>4. CASE i # f.id
    <3>1. HeldBy(Sweeper, i) = 0 /\ db'[i] = db[i]
      BY <2>1, <2>4, EmptyHanded DEF IInv, Shared
    <3> QED BY <2>1, <2>2, <3>1, ZerosType, TotalKept DEF HeldBy
  <2>5. CASE i = f.id
    <3>1. db'[i] = f.rec
      BY <2>1, <2>3, <2>5 DEF IInv, Shared
    <3>2. Saves(Sweeper, i)
      BY <2>1, <2>2, <2>5, <3>1 DEF Saves, SavePCs
    <3>3. CASE ~Stale(Sweeper) /\ f.pc = "saveAnchor"
      <4>1. HeldBy(Sweeper, i) = 0 /\ db[i] = f.seen
        BY <2>5, <3>3, EmptyHanded DEF Stale
      <4>2. Stored(i)' = Stored(i)
        BY <2>3, <3>1, <3>3, <4>1, StartAssumption DEF Stored
      <4> QED BY <2>1, <2>2, <4>1, <4>2, ZerosType DEF Total, HeldBy
    <3> QED BY <2>1, <3>2, <3>3
  <2> QED BY <2>4, <2>5
<1>6. ASSUME SweepFail PROVE Total(i)' = Total(i)
  <2>1. pending'[i] = pending[i] + f.held[i] /\ db' = db /\ NextAccount(FALSE)
    BY <1>6 DEF SweepFail
  <2>2. proc'[Sweeper].held[i] = 0 /\ proc'[Flusher] = proc[Flusher]
    BY <1>4, <2>1, ZerosType
  <2> QED BY <2>1, <2>2, BytesType DEF Total, Stored, HeldBy
<1> QED BY <1>2, <1>3, <1>5, <1>6 DEF Sweep

\* An edit takes bytes out of the count where it resets, or over a record that changed.
LEMMA EditConserves ==
    ASSUME IInv, NEW e \in Editors, Edit(e), NEW i \in Ids, db[i] # NoRec
    PROVE  \/ Total(i)' = Total(i)
           \/ db'[i] = NoRec
           \/ Saves(e, i) /\ (Stale(e) \/ proc[e].pc = "saveReset")
           \/ proc[e].pc = "idle" /\ proc'[e].pc = "reset"
<1> DEFINE f == proc[e]
<1>1. FramesOK /\ e \in Procs /\ db \in [Ids -> Rec \cup {NoRec}]
  BY Names DEF IInv, Shared
<1>2. \E g : Become(e, g)
  BY DEF Edit, EditRead, ResetBegin, DeleteClient, ResetRead, EditSave, EditFail, Return
<1>3. proc'[Flusher] = proc[Flusher] /\ proc'[Sweeper] = proc[Sweeper]
  BY <1>1, <1>2, Names, Others
<1>4. ASSUME \/ \E j \in Ids : EditRead(e, j) \/ (DeleteClient(e, j) /\ i # j)
             \/ ResetRead(e) \/ EditFail(e)
      PROVE  Total(i)' = Total(i)
  <2>1. db'[i] = db[i] /\ pending' = pending
    BY <1>1, <1>4 DEF EditRead, DeleteClient, ResetRead, EditFail
  <2> QED BY <1>3, <2>1, TotalKept
<1>5. ASSUME NEW j \in Ids, ResetBegin(e, j) PROVE f.pc = "idle" /\ proc'[e].pc = "reset"
  <2> DEFINE g == [Idle EXCEPT !.pc = "reset", !.id = j]
  <2>1. Become(e, g) /\ g.pc = "reset" /\ f.pc = "idle"
    BY <1>5 DEF ResetBegin, Arrives, Idle
  <2> QED BY <1>1, <2>1, Others
<1>6. ASSUME DeleteClient(e, i) PROVE db'[i] = NoRec
  BY <1>1, <1>6 DEF DeleteClient
<1>7. ASSUME EditSave(e)
      PROVE  Total(i)' = Total(i) \/ (Saves(e, i) /\ (Stale(e) \/ f.pc = "saveReset"))
  <2>1. f.pc \in {"saveEdit", "saveReset"} /\ pending' = pending /\ db' = [db EXCEPT ![f.id] = f.rec]
        /\ Become(e, [Idle EXCEPT !.pc = "list"])
    BY <1>7 DEF EditSave
  <2>2. proc'[e].pc = "list"
    BY <1>1, <2>1, Others, ListFrame
  <2>3. f.seen \in Rec /\ f.rec \in Rec /\ f.id \in Ids
        /\ (f.pc = "saveEdit" => f.rec.used = f.seen.used)
    BY <1>1, <2>1, SavedUsage DEF SavePCs
  <2>4. CASE i # f.id
    <3>1. db'[i] = db[i]
      BY <1>1, <2>1, <2>4
    <3> QED BY <1>3, <2>1, <3>1, TotalKept
  <2>5. CASE i = f.id
    <3>1. db'[i] = f.rec
      BY <1>1, <2>1, <2>5
    <3>2. Saves(e, i)
      BY <2>1, <2>2, <2>5, <3>1 DEF Saves, SavePCs
    <3>3. CASE ~Stale(e) /\ f.pc = "saveEdit"
      <4>1. Stored(i)' = Stored(i)
        BY <2>3, <2>5, <3>1, <3>3, StartAssumption DEF Stored, Stale
      <4> QED BY <1>3, <2>1, <4>1 DEF Total, HeldBy
    <3> QED BY <2>1, <3>2, <3>3
  <2> QED BY <2>4, <2>5
<1> QED BY <1>4, <1>5, <1>6, <1>7 DEF Edit

\* A relayed byte is counted once and stays counted, in the ledger, a process's hands
\* and the database: BytesConserved, whatever interleaving of flushes, sweeps, edits,
\* reloads and restarts.
THEOREM BytesAreConserved == Spec => BytesConserved
<1> DEFINE Lost(i) ==
             \/ proc' = proc /\ db' = db /\ Total(i)' > Total(i)
             \/ crashes' > crashes
             \/ db[i] = NoRec \/ db'[i] = NoRec
             \/ \E p \in Procs : Saves(p, i) /\ (Stale(p) \/ proc[p].pc \in {"saveRoll", "saveReset"})
             \/ \E e \in Editors : proc[e].pc = "idle" /\ proc'[e].pc = "reset"
           Conserved == \A i \in Ids : Total(i)' # Total(i) => Lost(i)
<1>1. ASSUME IInv, [Next]_vars PROVE Conserved
  <2> SUFFICES ASSUME NEW i \in Ids, Total(i)' # Total(i), db[i] # NoRec PROVE Lost(i)
    OBVIOUS
  <2>1. CASE UNCHANGED vars \/ Tick
    <3>1. db' = db /\ pending' = pending /\ proc' = proc
      BY <2>1 DEF vars, Tick
    <3> QED BY <3>1, TotalKept
  <2>2. CASE \E j \in Ids : AddTraffic(j)
    <3>1. PICK j \in Ids : AddTraffic(j)
      BY <2>2
    <3>2. db' = db /\ proc' = proc /\ pending' = [pending EXCEPT ![j] = pending[j] + 1]
      BY <3>1 DEF AddTraffic
    <3>3. pending'[i] = IF i = j THEN pending[i] + 1 ELSE pending[i]
      BY <1>1, <3>2 DEF IInv, Shared
    <3>4. Total(i)' = IF i = j THEN Total(i) + 1 ELSE Total(i)
      BY <1>1, <3>2, <3>3, BytesType DEF Total, Stored, HeldBy
    <3>5. Total(i) \in Nat
      BY <1>1, BytesType DEF Total
    <3>6. Total(i)' > Total(i)
      BY <3>4, <3>5
    <3> QED BY <3>2, <3>6
  <2>3. CASE Crash
    <3>1. crashes' > crashes
      BY <1>1, <2>3 DEF Crash, IInv, Shared
    <3> QED BY <3>1
  <2>4. CASE Flush
    BY <1>1, <2>4, FlushConserves
  <2>5. CASE \E p \in Procs : Reload(p)
    BY <1>1, <2>5, ReloadConserves
  <2>6. CASE Sweep
    BY <1>1, <2>6, SweepConserves, Names
  <2>7. CASE \E e \in Editors : Edit(e)
    <3>1. PICK e \in Editors : Edit(e)
      BY <2>7
    <3>2. \/ db'[i] = NoRec
          \/ Saves(e, i) /\ (Stale(e) \/ proc[e].pc = "saveReset")
          \/ proc[e].pc = "idle" /\ proc'[e].pc = "reset"
      BY <1>1, <3>1, EditConserves
    <3> QED BY <3>2, Names
  <2> QED BY <1>1, <2>1, <2>2, <2>3, <2>4, <2>5, <2>6, <2>7 DEF Next
<1>2. Spec => [][Conserved]_vars
  <2>1. IInv /\ [Next]_vars => [Conserved]_vars
    BY <1>1
  <2> QED BY <2>1, InvInit, InvStep, PTL DEF Spec
<1>3. BytesConserved <=> [][Conserved]_vars
  BY DEF BytesConserved
<1> QED BY <1>2, <1>3, PTL

\* Whoever saves a reset or a new period holds flushMu, and so is alone with bytes.
LEMMA AloneWithBytes ==
    ASSUME IInv, NEW p \in Procs, proc[p].pc \in {"saveRoll", "saveReset"}, NEW i \in Ids
    PROVE  /\ HeldBy(Flusher, i) = 0
           /\ IF proc[p].pc = "saveRoll" THEN p = Sweeper
              ELSE p \in Editors /\ HeldBy(Sweeper, i) = 0
<1>1. FrameOK(p, proc[p])
  BY DEF IInv, FramesOK
<1>2. p # Flusher /\ (IF proc[p].pc = "saveRoll" THEN p = Sweeper ELSE p \in Editors)
  <2>1. p # Flusher
    BY <1>1 DEF FrameOK, FlusherFrame
  <2>2. CASE p = Sweeper
    BY <1>1, <2>1, <2>2 DEF FrameOK, SweeperFrame
  <2>3. CASE p \in Editors
    BY <1>1, <2>1, <2>3 DEF FrameOK, EditorFrame
  <2> QED BY <2>1, <2>2, <2>3 DEF Procs
<1>3. proc[p].pc \in Guarded(p)
  BY <1>2, Names DEF Guarded
<1>4. flushMu = p
  BY <1>3 DEF IInv, LockOK
<1>5. proc[Flusher].pc \notin {"commit", "handback"}
  BY <1>2, <1>4, Names DEF IInv, LockOK, Guarded
<1>6. p \in Editors => proc[Sweeper].pc \notin {"roll", "saveRoll"}
  BY <1>4, Names DEF IInv, LockOK, Guarded
<1> QED BY <1>2, <1>5, <1>6, EmptyHanded, Names

\* And when it goes on, nobody has bytes in hand.
LEMMA HandsEmptyAfter ==
    ASSUME IInv, [Next]_vars, NEW p \in Procs, proc[p].pc \in {"saveRoll", "saveReset"},
           proc'[p].pc # proc[p].pc, NEW i \in Ids
    PROVE  HeldBy(Flusher, i)' = 0 /\ HeldBy(Sweeper, i)' = 0
<1>1. FramesOK /\ Shared
  BY DEF IInv
<1>2. CASE UNCHANGED vars \/ Tick \/ \E j \in Ids : AddTraffic(j)
  BY <1>2 DEF vars, Tick, AddTraffic
<1>3. CASE Crash
  BY <1>3, Names, IdleFrame, ZerosType DEF Crash, HeldBy
<1>4. ASSUME NEW q \in Procs, \E g : Become(q, g)
      PROVE  q = p /\ \A r \in Procs : r # q => proc'[r] = proc[r]
  BY <1>1, <1>4, Others
<1>5. CASE Flush
  <2>1. \E g : Become(Flusher, g)
    BY <1>5 DEF Flush, Drain, Commit, CommitFail, HandBack, Move, Return
  <2> QED BY <1>4, <2>1, Names, AloneWithBytes
<1>6. CASE \E q \in Procs : Reload(q)
  <2>1. PICK q \in Procs : Reload(q)
    BY <1>6
  <2>2. (\E g : Become(q, g)) /\ proc[q].pc \in {"list", "install"}
    BY <2>1 DEF Reload, ReloadList, ReloadInstall, ReloadFail, Return
  <2> QED BY <1>4, <2>2
<1>7. CASE \E e \in Editors : Edit(e)
  <2>1. PICK e \in Editors : Edit(e)
    BY <1>7
  <2>2. \E g : Become(e, g)
    BY <2>1 DEF Edit, EditRead, ResetBegin, DeleteClient, ResetRead, EditSave, EditFail, Return
  <2>3. p = e /\ proc'[Flusher] = proc[Flusher] /\ proc'[Sweeper] = proc[Sweeper]
    BY <1>4, <2>2, Names
  <2> QED BY <2>3, Names, AloneWithBytes DEF HeldBy
<1>8. CASE Sweep
  <2>1. \E g : Become(Sweeper, g)
    BY <1>8 DEF Sweep, SweepList, SweepLock, RollTake, AnchorBegin, SweepRead, SweepSave,
                SweepFail, SweepDone, Move, NextAccount
  <2>2. p = Sweeper /\ proc'[Flusher] = proc[Flusher] /\ proc[Sweeper].pc = "saveRoll"
    BY <1>4, <2>1, Names, AloneWithBytes
  <2>3. \E changed \in BOOLEAN : NextAccount(changed)
    BY <1>8, <2>2 DEF Sweep, SweepList, SweepLock, RollTake, AnchorBegin, SweepRead, SweepSave,
                      SweepFail, SweepDone
  <2>4. PICK changed \in BOOLEAN : NextAccount(changed)
    BY <2>3
  <2> DEFINE f == proc[Sweeper]
             g == [f EXCEPT !.pc = "each", !.id = NoId, !.rec = NoRec,
                            !.seen = NoRec, !.held = Zeros, !.changed = @ \/ changed]
  <2>5. Become(Sweeper, g) /\ f \in Frame
    BY <2>4, SweeperNow DEF NextAccount
  <2>6. g.held = Zeros
    BY <2>5 DEF Frame
  <2> HIDE DEF g
  <2>7. proc'[Sweeper].held = Zeros
    BY <1>1, <2>5, <2>6, Names, Others
  <2> QED BY <2>2, <2>7, ZerosType, Names, AloneWithBytes DEF HeldBy
<1> QED BY <1>2, <1>3, <1>5, <1>6, <1>7, <1>8 DEF Next

\* When a reset or a rollover is saved nothing metered before can come back, and what
\* a rollover took is in the record of the period that ended: PeriodStartsClean.
THEOREM PeriodsStartClean == Spec => PeriodStartsClean
<1> DEFINE Clean ==
             \A p \in Procs, i \in Ids :
               (Saves(p, i) /\ proc[p].pc \in {"saveRoll", "saveReset"}) =>
                  /\ Total(i)' = pending[i]
                  /\ (proc[p].pc = "saveRoll" /\ ~Stale(p))
                        => db'[i].prev = Total(i) - pending[i]
<1>1. ASSUME IInv, [Next]_vars PROVE Clean
  <2> SUFFICES ASSUME NEW p \in Procs, NEW i \in Ids,
                      Saves(p, i), proc[p].pc \in {"saveRoll", "saveReset"}
               PROVE  /\ Total(i)' = pending[i]
                      /\ (proc[p].pc = "saveRoll" /\ ~Stale(p))
                            => db'[i].prev = Total(i) - pending[i]
    OBVIOUS
  <2>1. /\ proc[p].pc \in SavePCs /\ proc[p].id = i /\ db'[i] = proc[p].rec
        /\ pending' = pending /\ proc'[p].pc # proc[p].pc
    BY DEF Saves
  <2>2. /\ proc[p].rec.used = 0 /\ proc[p].rec \in Rec
        /\ proc[p].pc = "saveRoll" => proc[p].rec.prev = proc[p].seen.used + proc[p].held[i]
    BY <1>1, <2>1, SavedUsage
  <2>3. HeldBy(Flusher, i)' = 0 /\ HeldBy(Sweeper, i)' = 0
    BY <1>1, <2>1, HandsEmptyAfter
  <2>4. Stored(i)' = 0
    BY <2>1, <2>2, StartAssumption DEF Stored
  <2>5. Total(i)' = pending[i]
    BY <1>1, <2>1, <2>3, <2>4, BytesType DEF Total
  <2>6. ASSUME proc[p].pc = "saveRoll", ~Stale(p) PROVE db'[i].prev = Total(i) - pending[i]
    <3>1. p = Sweeper /\ HeldBy(Flusher, i) = 0
      BY <1>1, <2>6, AloneWithBytes
    <3>2. db[i] = proc[p].seen /\ db[i] # NoRec
      BY <1>1, <2>1, <2>6, SavedUsage, StartAssumption DEF Stale
    <3>3. Stored(i) + HeldBy(Sweeper, i) = db'[i].prev
      BY <2>1, <2>2, <2>6, <3>1, <3>2 DEF Stored, HeldBy
    <3> QED BY <1>1, <3>1, <3>3, BytesType DEF Total
  <2> QED BY <2>5, <2>6
<1>2. Spec => [][Clean]_vars
  <2>1. IInv /\ [Next]_vars => [Clean]_vars
    BY <1>1
  <2> QED BY <2>1, InvInit, InvStep, PTL DEF Spec
<1>3. PeriodStartsClean <=> [][Clean]_vars
  BY DEF PeriodStartsClean
<1> QED BY <1>2, <1>3, PTL

\* A rollover lands on the current period however many boundaries were missed, and
\* the anchor moves only where it is missing or older than the catch-up bound:
\* RolloverLands.
THEOREM RolloversLand == Spec => RolloverLands
<1> DEFINE f == proc[Sweeper]
           r == f.rec
           Lands == (Saves(Sweeper, f.id) /\ f.seen = f.list[f.id]) =>
                       IF f.pc = "saveRoll"
                       THEN CycleEnd(r, r.count - 1) <= f.at /\ f.at < CycleEnd(r, r.count)
                       ELSE f.seen.anchor = NoAnchor \/ f.at >= CycleEnd(f.seen, MaxCatchUp)
<1>1. ASSUME IInv PROVE Lands
  <2> SUFFICES ASSUME f.pc \in SavePCs, f.seen = f.list[f.id]
               PROVE  IF f.pc = "saveRoll"
                      THEN CycleEnd(r, r.count - 1) <= f.at /\ f.at < CycleEnd(r, r.count)
                      ELSE f.seen.anchor = NoAnchor \/ f.at >= CycleEnd(f.seen, MaxCatchUp)
    BY DEF Saves
  <2>1. SweeperFrame(f) /\ f.at \in Nat
    BY <1>1, SweeperNow DEF Frame
  <2>2. CASE f.pc = "saveRoll"
    <3> DEFINE q == f.seen
               next == q.count + DueResets(q, f.at)
    <3>1. q \in Rec /\ Work(q, f.at) = "roll" /\ r = Rolled(f)
      BY <2>1, <2>2 DEF SweeperFrame, WorksOn
    <3>2. CycleEnd(q, next - 1) <= f.at /\ f.at < CycleEnd(q, next)
      BY <2>1, <3>1, RollAhead
    <3>3. r.anchor = q.anchor /\ r.cycle = q.cycle /\ r.count = next
      BY <3>1 DEF Rolled, Rec
    <3> HIDE DEF q, r, next
    <3>4. CycleEnd(r, next) = CycleEnd(q, next) /\ CycleEnd(r, next - 1) = CycleEnd(q, next - 1)
      BY <3>3 DEF CycleEnd
    <3> QED BY <2>2, <3>2, <3>3, <3>4
  <2>3. CASE f.pc # "saveRoll"
    <3>1. f.pc = "saveAnchor"
      BY <2>1, <2>3 DEF SweeperFrame, SavePCs
    <3>2. f.seen \in Rec /\ Work(f.seen, f.at) = "anchor"
      BY <2>1, <3>1 DEF SweeperFrame, WorksOn
    <3> QED BY <2>1, <2>3, <3>2, AnchorLate
  <2> QED BY <2>2, <2>3
<1>2. Spec => [][Lands]_vars
  <2>1. IInv /\ [Next]_vars => [Lands]_vars
    BY <1>1
  <2> QED BY <2>1, InvInit, InvStep, PTL DEF Spec
<1>3. RolloverLands <=> [][Lands]_vars
  BY DEF RolloverLands
<1> QED BY <1>2, <1>3, PTL
=============================================================================
