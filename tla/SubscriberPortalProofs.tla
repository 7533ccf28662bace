----------------------- MODULE SubscriberPortalProofs -----------------------
(* That the portal's sockets are accounted for, that a failing bind keeps the  *)
(* listener, and that the listener follows the record: for any number of       *)
(* requests, ports and names.                                                  *)
EXTENDS SubscriberPortal, TLAPS

\* Who is between the listen and the end of its bind has a bound socket, and a bound
\* socket is somebody's.
Owned ==
    /\ \A p \in Procs : proc[p].pc \in BoundPCs => sock[proc[p].port] = "bound"
    /\ \A q \in Ports : sock[q] = "bound" =>
          \E p \in Procs : proc[p].pc \in BoundPCs /\ proc[p].port = q

\* Unless a goroutine was overtaken, a socket that is or will be served is the current
\* server's, and none is left once the current server has been shut down.
Attached ==
    ~overtaken =>
       /\ \A q \in Ports : sock[q] \in {"spawned", "serving"} => srv # NoSrv /\ srv.port = q
       /\ \A p \in Procs : proc[p].pc \in {"install", "clear"} =>
             \A q \in Ports : sock[q] \notin {"spawned", "serving"}

\* A server that was shut down is about to be replaced or dropped.
ShutInHand ==
    (srv # NoSrv /\ srv.shut) => \E p \in Procs : proc[p].pc \in {"install", "clear"}

\* Nothing of the daemon outlives it.
DownIdle ==
    down => /\ \A p \in Procs : proc[p] = Idle
            /\ \A q \in Ports : sock[q] \in {"free", "foreign"}

IInv == TypeOK /\ Owned /\ Attached /\ ShutInHand /\ DownIdle

------------------------------------------------------------------------------
(* What a step of one process leaves of the others *)

LEMMA IdleFrame == Idle \in Frame /\ Idle.pc = "idle" /\ Idle.kind = ""
  BY DEF Idle, Frame, PCs

\* The process table after one process has moved.
LEMMA Update ==
  ASSUME TypeOK, NEW p \in Procs, NEW f \in Frame, Become(p, f)
  PROVE  /\ proc' \in [Procs -> Frame]
         /\ proc'[p] = f
         /\ \A r \in Procs : r # p => proc'[r] = proc[r]
  BY DEF TypeOK, Become

\* The lock changes hands only between a process and nobody.
LockStep(p) == mu' = mu \/ (mu = Nobody /\ mu' = p) \/ (mu = p /\ mu' = Nobody)

LEMMA OthersKept ==
  ASSUME TypeOK, NEW p \in Procs, NEW f \in Frame, Become(p, f), LockStep(p),
         FrameOK(p)'
  PROVE  /\ mu' \in Procs \cup {Nobody}
         /\ proc' \in [Procs -> Frame]
         /\ \A r \in Procs : FrameOK(r)'
<1>1. mu' \in Procs \cup {Nobody}
  BY DEF TypeOK, LockStep
<1>2. ASSUME NEW r \in Procs, r # p PROVE FrameOK(r)'
  <2>1. proc'[r] = proc[r] /\ FrameOK(r)
    BY <1>2, Update DEF TypeOK
  <2>2. Nobody # r
    BY PortalAssumption
  <2>3. mu' = r <=> mu = r
    BY <1>2, <2>2 DEF LockStep
  <2> QED BY <2>1, <2>3 DEF FrameOK
<1>3. proc' \in [Procs -> Frame]
  BY Update
<1> QED BY <1>1, <1>2, <1>3

\* Two processes are never both past the lock.
LEMMA Mutex ==
  ASSUME TypeOK, NEW p \in Procs, NEW r \in Procs,
         proc[p].pc \in LockedPCs, proc[r].pc \in LockedPCs
  PROVE  p = r
  BY DEF TypeOK, FrameOK

LEMMA Awake ==
  ASSUME DownIdle, TypeOK, NEW p \in Procs, proc[p].pc # "idle"
  PROVE  down = FALSE
  BY IdleFrame DEF DownIdle, TypeOK

Elsewhere == { "tls", "shutdown", "install", "clear" }

\* A step outside the critical part of a bind disturbs neither sockets nor server.
LEMMA Outside ==
  ASSUME IInv, NEW p \in Procs, NEW f \in Frame, Become(p, f), down = FALSE,
         UNCHANGED << srv, sock, overtaken, down >>,
         proc[p].pc \notin Elsewhere, f.pc \notin Elsewhere
  PROVE  Owned' /\ Attached' /\ ShutInHand' /\ DownIdle'
<1> USE DEF IInv
<1>1. /\ proc'[p] = f
      /\ \A r \in Procs : r # p => proc'[r] = proc[r]
  BY Update
<1>2. \A r \in Procs : proc'[r].pc \in Elsewhere <=> proc[r].pc \in Elsewhere
  BY <1>1
<1>3. \A r \in Procs : proc[r].pc \in Elsewhere => proc'[r] = proc[r]
  BY <1>1
<1>4. Owned'
  BY <1>2, <1>3 DEF Owned, BoundPCs, Elsewhere
<1>5. Attached'
  BY <1>2, <1>3 DEF Attached, Elsewhere
<1>6. ShutInHand'
  BY <1>2, <1>3 DEF ShutInHand, Elsewhere
<1>7. DownIdle'
  BY DEF DownIdle
<1> QED BY <1>4, <1>5, <1>6, <1>7

------------------------------------------------------------------------------
(* Saves, clears and issuances *)

LEMMA SaveBeginKeeps ==
  ASSUME IInv, NEW h \in Handlers, NEW r \in Rec, SaveBegin(h, r) PROVE IInv'
<1> DEFINE f == [Idle EXCEPT !.pc = "save", !.kind = "save", !.rec = r]
<1>1. h \in Procs /\ f \in Frame /\ f.pc = "save" /\ f.rec = r /\ f.kind = "save"
  BY IdleFrame DEF Procs, Frame, PCs, Idle
<1>2. Become(h, f) /\ mu' = mu /\ proc[h].pc = "idle" /\ down = FALSE
  BY DEF SaveBegin, IInv, TypeOK
<1>3. FrameOK(h)'
  <2>1. proc'[h] = f
    BY <1>1, <1>2, Update DEF IInv
  <2>2. mu' # h
    BY <1>1, <1>2 DEF IInv, TypeOK, FrameOK, LockedPCs
  <2> QED BY <1>1, <2>1, <2>2 DEF FrameOK, LockedPCs, BoundPCs
<1>4. TypeOK'
  <2>1. /\ mu' \in Procs \cup {Nobody} /\ proc' \in [Procs -> Frame]
        /\ \A q \in Procs : FrameOK(q)'
    BY <1>1, <1>2, <1>3, OthersKept DEF IInv, LockStep
  <2>2. requests' \in Nat /\ issues' \in Nat /\ foreigners' \in Nat
    BY DEF IInv, TypeOK, SaveBegin, Request
  <2>3. overlap' \in BOOLEAN
    BY DEF SaveBegin, Begins
  <2>4. /\ rec' = rec /\ crt' = crt /\ key' = key /\ due' = due /\ srv' = srv /\ sock' = sock
        /\ down' = down /\ told' = told /\ rebound' = rebound /\ overtaken' = overtaken
    BY DEF SaveBegin, disk
  <2> QED BY <2>1, <2>2, <2>3, <2>4 DEF IInv, TypeOK
<1>5. Owned' /\ Attached' /\ ShutInHand' /\ DownIdle'
  BY <1>1, <1>2, Outside DEF SaveBegin, Elsewhere
<1> QED BY <1>4, <1>5 DEF IInv

LEMMA ApplyBeginKeeps ==
  ASSUME IInv, NEW h \in Handlers, NEW n \in AllNames, ApplyBegin(h, n) PROVE IInv'
<1> DEFINE f == [Idle EXCEPT !.pc = "snapshot", !.name = n]
<1>1. h \in Procs /\ f \in Frame /\ f.pc = "snapshot" /\ f.name = n /\ f.kind = ""
  BY IdleFrame DEF Procs, Frame, PCs, Idle
<1>2. Become(h, f) /\ mu' = mu /\ proc[h].pc = "idle" /\ down = FALSE
  BY DEF ApplyBegin, IInv, TypeOK
<1>3. FrameOK(h)'
  <2>1. proc'[h] = f
    BY <1>1, <1>2, Update DEF IInv
  <2>2. mu' # h
    BY <1>1, <1>2 DEF IInv, TypeOK, FrameOK, LockedPCs
  <2> QED BY <1>1, <2>1, <2>2 DEF FrameOK, LockedPCs, BoundPCs
<1>4. TypeOK'
  <2>1. /\ mu' \in Procs \cup {Nobody} /\ proc' \in [Procs -> Frame]
        /\ \A q \in Procs : FrameOK(q)'
    BY <1>1, <1>2, <1>3, OthersKept DEF IInv, LockStep
  <2>2. requests' \in Nat /\ issues' \in Nat /\ foreigners' \in Nat
    BY DEF IInv, TypeOK, ApplyBegin, Request
  <2>3. overlap' \in BOOLEAN
    BY DEF ApplyBegin, Begins
  <2>4. /\ rec' = rec /\ crt' = crt /\ key' = key /\ due' = due /\ srv' = srv /\ sock' = sock
        /\ down' = down /\ told' = told /\ rebound' = rebound /\ overtaken' = overtaken
    BY DEF ApplyBegin, disk
  <2> QED BY <2>1, <2>2, <2>3, <2>4 DEF IInv, TypeOK
<1>5. Owned' /\ Attached' /\ ShutInHand' /\ DownIdle'
  BY <1>1, <1>2, Outside DEF ApplyBegin, Elsewhere
<1> QED BY <1>4, <1>5 DEF IInv

LEMMA IssueBeginKeeps ==
  ASSUME IInv, NEW n \in AllNames, IssueBegin(n), requests' \in Nat PROVE IInv'
<1> DEFINE f == [Idle EXCEPT !.pc = "issue", !.name = n]
<1>1. Issuer \in Procs /\ f \in Frame /\ f.pc = "issue" /\ f.name = n /\ f.kind = ""
  BY IdleFrame DEF Procs, Frame, PCs, Idle
<1>2. Become(Issuer, f) /\ mu' = mu /\ proc[Issuer].pc = "idle" /\ down = FALSE
  BY DEF IssueBegin, IInv, TypeOK
<1>3. FrameOK(Issuer)'
  <2>1. proc'[Issuer] = f
    BY <1>1, <1>2, Update DEF IInv
  <2>2. mu' # Issuer
    BY <1>1, <1>2 DEF IInv, TypeOK, FrameOK, LockedPCs
  <2> QED BY <1>1, <2>1, <2>2 DEF FrameOK, LockedPCs, BoundPCs
<1>4. TypeOK'
  <2>1. /\ mu' \in Procs \cup {Nobody} /\ proc' \in [Procs -> Frame]
        /\ \A q \in Procs : FrameOK(q)'
    BY <1>1, <1>2, <1>3, OthersKept DEF IInv, LockStep
  <2> QED BY <2>1 DEF IInv, TypeOK, IssueBegin, disk, history
<1>5. Owned' /\ Attached' /\ ShutInHand' /\ DownIdle'
  BY <1>1, <1>2, Outside DEF IssueBegin, Elsewhere, history
<1> QED BY <1>4, <1>5 DEF IInv

\* A step that moves a process's program counter only.
LEMMA Moved ==
  ASSUME IInv, NEW p \in Procs, NEW x \in PCs, Move(p, x)
  PROVE  /\ [proc[p] EXCEPT !.pc = x] \in Frame
         /\ Become(p, [proc[p] EXCEPT !.pc = x])
         /\ proc'[p] = [proc[p] EXCEPT !.pc = x]
<1>1. proc[p] \in Frame
  BY DEF IInv, TypeOK
<1>2. [proc[p] EXCEPT !.pc = x] \in Frame
  BY <1>1 DEF Frame
<1>3. Become(p, [proc[p] EXCEPT !.pc = x])
  BY DEF Move
<1> QED BY <1>2, <1>3, Update DEF IInv

LEMMA Ended ==
  ASSUME IInv, NEW p \in Procs, Finished(p)
  PROVE  Become(p, Idle) /\ Idle \in Frame /\ proc'[p] = Idle
  BY IdleFrame, Update DEF IInv, Finished

\* A step after which its process waits for nothing but the lock, a rename or a request.
LEMMA MovedOutside ==
  ASSUME IInv, NEW p \in Procs, proc[p].pc # "idle", proc[p].pc \notin Elsewhere,
         UNCHANGED << srv, sock, overtaken, down >>, LockStep(p),
         \/ Finished(p) /\ mu' # p
         \/ \E x \in PCs : /\ Move(p, x) /\ x \notin Elsewhere
                           /\ x \in LockedPCs <=> mu' = p
                           /\ x \notin { "save", "shutdown" }
                           /\ x = "rollback" => proc[p].kind = "apply"
                           /\ x \in { "snapshot", "issue", "crt", "key" } => proc[p].name \in AllNames
  PROVE  /\ mu' \in Procs \cup {Nobody}
         /\ proc' \in [Procs -> Frame]
         /\ \A r \in Procs : FrameOK(r)'
         /\ Owned' /\ Attached' /\ ShutInHand' /\ DownIdle'
<1>1. down = FALSE
  BY Awake DEF IInv
<1>2. CASE Finished(p) /\ mu' # p
  <2>1. FrameOK(p)'
    BY <1>2, Ended, IdleFrame DEF FrameOK, LockedPCs, BoundPCs
  <2> QED BY <1>1, <1>2, <2>1, Ended, IdleFrame, OthersKept, Outside DEF Elsewhere, IInv
<1>3. ASSUME NEW x \in PCs, Move(p, x), x \notin Elsewhere, x \in LockedPCs <=> mu' = p,
             x \notin { "save", "shutdown" }, x = "rollback" => proc[p].kind = "apply",
             x \in { "snapshot", "issue", "crt", "key" } => proc[p].name \in AllNames
      PROVE  /\ mu' \in Procs \cup {Nobody}
             /\ proc' \in [Procs -> Frame]
             /\ \A r \in Procs : FrameOK(r)'
             /\ Owned' /\ Attached' /\ ShutInHand' /\ DownIdle'
  <2> DEFINE f == [proc[p] EXCEPT !.pc = x]
  <2>1. f \in Frame /\ Become(p, f) /\ proc'[p] = f
    BY <1>3, Moved
  <2>2. f.pc = x /\ f.kind = proc[p].kind /\ f.prev = proc[p].prev /\ f.name = proc[p].name
    BY DEF IInv, TypeOK, Frame
  <2>3. FrameOK(p)
    BY DEF IInv, TypeOK
  <2>4. FrameOK(p)'
    BY <1>3, <2>1, <2>2, <2>3 DEF FrameOK, LockedPCs, BoundPCs, Elsewhere
  <2> HIDE DEF f
  <2> QED BY <1>1, <1>3, <2>1, <2>2, <2>4, OthersKept, Outside DEF IInv
<1> QED BY <1>2, <1>3

LEMMA SaveKeeps ==
  ASSUME IInv, NEW p \in Procs, Save(p) PROVE IInv'
<1>1. /\ mu' \in Procs \cup {Nobody} /\ proc' \in [Procs -> Frame]
      /\ \A r \in Procs : FrameOK(r)'
      /\ Owned' /\ Attached' /\ ShutInHand' /\ DownIdle'
  <2>1. FrameOK(p) /\ Nobody # p
    BY PortalAssumption DEF IInv, TypeOK
  <2>2. mu # p /\ mu' = mu
    BY <2>1 DEF Save, FrameOK, LockedPCs
  <2>3. Finished(p) \/ (Move(p, "lock") /\ "lock" \in PCs \ (Elsewhere \cup LockedPCs))
    BY DEF Save, PCs, LockedPCs, Elsewhere
  <2> QED BY <2>2, <2>3, MovedOutside DEF Save, Elsewhere, LockStep, history
<1>2. rec' \in Rec
  BY DEF Save, IInv, TypeOK, FrameOK
<1> QED BY <1>1, <1>2 DEF IInv, TypeOK, Save, disk, counts, history

LEMMA SnapshotKeeps ==
  ASSUME IInv, NEW p \in Procs, Snapshot(p) PROVE IInv'
<1> DEFINE f == [proc[p] EXCEPT !.pc = "save", !.kind = "apply", !.prev = rec,
                                !.rec = [rec EXCEPT !.name = proc[p].name]]
<1>1. rec \in Rec /\ proc[p] \in Frame /\ FrameOK(p)
  BY DEF IInv, TypeOK
<1>2. [rec EXCEPT !.name = proc[p].name] \in Rec
  BY <1>1 DEF Snapshot, FrameOK, Rec
<1>3. f \in Frame
  BY <1>1, <1>2 DEF Frame, PCs
<1>4. f.pc = "save" /\ f.prev = rec /\ f.rec \in Rec
  BY <1>1, <1>2 DEF Frame
<1>5. Become(p, f) /\ mu' = mu /\ proc[p].pc = "snapshot"
  BY DEF Snapshot
<1>6. down = FALSE
  BY <1>5, Awake DEF IInv
<1> HIDE DEF f
<1>7. FrameOK(p)'
  BY <1>1, <1>3, <1>4, <1>5, Update DEF IInv, FrameOK, LockedPCs, BoundPCs
<1>8. /\ mu' \in Procs \cup {Nobody} /\ proc' \in [Procs -> Frame]
      /\ \A r \in Procs : FrameOK(r)'
  BY <1>3, <1>5, <1>7, OthersKept DEF IInv, LockStep
<1>9. Owned' /\ Attached' /\ ShutInHand' /\ DownIdle'
  BY <1>3, <1>4, <1>5, <1>6, Outside DEF Snapshot, Elsewhere, history
<1> QED BY <1>8, <1>9 DEF IInv, TypeOK, Snapshot, disk, counts, history

LEMMA RollbackKeeps ==
  ASSUME IInv, NEW p \in Procs, Rollback(p) PROVE IInv'
<1>1. FrameOK(p) /\ proc[p] \in Frame /\ mu' = mu /\ proc[p].pc = "rollback" /\ proc[p].prev \in Rec
  BY DEF IInv, TypeOK, Rollback, FrameOK
<1>2. down = FALSE /\ mu # p
  BY <1>1, Awake DEF IInv, FrameOK, LockedPCs
<1>3. PICK f \in Frame : Become(p, f) /\ (f = Idle \/ f = [proc[p] EXCEPT !.pc = "lock", !.again = TRUE])
  <2>1. [proc[p] EXCEPT !.pc = "lock", !.again = TRUE] \in Frame
    BY <1>1 DEF Frame, PCs
  <2> QED BY <2>1, IdleFrame DEF Rollback, Finished
<1>4. /\ f.pc \in {"idle", "lock"}
      /\ f.kind = "" \/ (f.kind = proc[p].kind /\ f.prev = proc[p].prev)
  <2> DEFINE g == [proc[p] EXCEPT !.pc = "lock", !.again = TRUE]
  <2>1. g.pc = "lock" /\ g.kind = proc[p].kind /\ g.prev = proc[p].prev
    BY <1>1 DEF Frame
  <2> HIDE DEF g
  <2>2. f = Idle \/ f = g
    BY <1>3 DEF g
  <2>3. CASE f = Idle
    BY <2>3, IdleFrame
  <2>4. CASE f = g
    BY <2>1, <2>4
  <2> QED BY <2>2, <2>3, <2>4
<1>5. FrameOK(p)'
  BY <1>1, <1>2, <1>3, <1>4, Update DEF IInv, FrameOK, LockedPCs, BoundPCs
<1>6. /\ mu' \in Procs \cup {Nobody} /\ proc' \in [Procs -> Frame]
      /\ \A r \in Procs : FrameOK(r)'
  BY <1>1, <1>3, <1>5, OthersKept DEF IInv, LockStep
<1>7. Owned' /\ Attached' /\ ShutInHand' /\ DownIdle'
  BY <1>1, <1>2, <1>3, <1>4, Outside DEF Rollback, Elsewhere
<1> QED BY <1>1, <1>6, <1>7 DEF IInv, TypeOK, Rollback, disk, counts

LEMMA AgeKeeps ==
  ASSUME IInv, NEW n \in AllNames, Age(n) PROVE IInv'
<1>1. TypeOK'
  BY DEF IInv, TypeOK, Age, FrameOK, counts, history
<1>2. Owned' /\ Attached' /\ ShutInHand' /\ DownIdle'
  BY DEF IInv, Age, Owned, Attached, ShutInHand, DownIdle, history
<1> QED BY <1>1, <1>2 DEF IInv

LEMMA IssueKeeps ==
  ASSUME IInv, Issue \/ PersistCrt \/ PersistKey PROVE IInv'
<1> DEFINE p == Issuer
<1>1. p \in Procs /\ FrameOK(p) /\ Nobody # p /\ proc[p].pc \in {"issue", "crt", "key"}
  BY PortalAssumption DEF IInv, TypeOK, Issue, PersistCrt, PersistKey, Procs
<1>2. mu # p /\ mu' = mu /\ proc[p].name \in AllNames
  BY <1>1 DEF FrameOK, LockedPCs, Issue, PersistCrt, PersistKey
<1>3. \/ Finished(p)
      \/ \E x \in {"crt", "key", "snapshot"} : Move(p, x)
  BY DEF Issue, PersistCrt, PersistKey
<1>4. \A x \in {"crt", "key", "snapshot"} : x \in PCs /\ x \notin Elsewhere \cup LockedPCs
  BY DEF PCs, LockedPCs, Elsewhere
<1>5. /\ mu' \in Procs \cup {Nobody} /\ proc' \in [Procs -> Frame]
      /\ \A r \in Procs : FrameOK(r)'
      /\ Owned' /\ Attached' /\ ShutInHand' /\ DownIdle'
  BY <1>1, <1>2, <1>3, <1>4, MovedOutside
  DEF LockStep, Elsewhere, Issue, PersistCrt, PersistKey, history
<1>6. crt' \in [AllNames -> Nat] /\ key' \in [AllNames -> Nat] /\ due' \subseteq AllNames
  BY <1>2 DEF IInv, TypeOK, Issue, PersistCrt, PersistKey, disk
<1>7. /\ rec' = rec /\ srv' = srv /\ sock' = sock /\ down' = down /\ UNCHANGED counts
      /\ UNCHANGED << told, rebound, overtaken >> /\ overlap' \in BOOLEAN
  BY DEF IInv, TypeOK, Issue, PersistCrt, PersistKey, history, Begins
<1> QED BY <1>5, <1>6, <1>7 DEF IInv, TypeOK, counts

------------------------------------------------------------------------------
(* Binding the listener *)

LEMMA BindBeginKeeps ==
  ASSUME IInv, NEW p \in Procs, BindBegin(p) PROVE IInv'
<1>1. \A x \in {"listen", "retire"} : x \in PCs /\ x \notin Elsewhere /\ x \in LockedPCs
  BY DEF PCs, LockedPCs, Elsewhere
<1>2. \E x \in {"listen", "retire"} : Move(p, x)
  BY DEF BindBegin
<1>3. /\ mu' \in Procs \cup {Nobody} /\ proc' \in [Procs -> Frame]
      /\ \A r \in Procs : FrameOK(r)'
      /\ Owned' /\ Attached' /\ ShutInHand' /\ DownIdle'
  BY <1>1, <1>2, MovedOutside DEF BindBegin, LockStep, Elsewhere, history
<1> QED BY <1>3 DEF IInv, TypeOK, BindBegin, disk, counts, history

\* A bind that ends before it has taken a port.
LEMMA EarlyEndKeeps ==
  ASSUME IInv, NEW p \in Procs, NoListen(p) \/ ListenFails(p) PROVE IInv'
<1>1. FrameOK(p) /\ proc[p].pc = "listen" /\ Nobody # p /\ mu = p /\ mu' = Nobody
  BY PortalAssumption DEF IInv, TypeOK, FrameOK, LockedPCs, NoListen, ListenFails
<1>2. \/ Finished(p)
      \/ Move(p, "rollback") /\ proc[p].kind = "apply"
  BY DEF NoListen, ListenFails, Bound, Unbound
<1>3. "rollback" \in PCs /\ "rollback" \notin Elsewhere \cup LockedPCs
  BY DEF PCs, LockedPCs, Elsewhere
<1>4. /\ mu' \in Procs \cup {Nobody} /\ proc' \in [Procs -> Frame]
      /\ \A r \in Procs : FrameOK(r)'
      /\ Owned' /\ Attached' /\ ShutInHand' /\ DownIdle'
  BY <1>1, <1>2, <1>3, MovedOutside DEF LockStep, Elsewhere, NoListen, ListenFails
<1>5. told' \in BOOLEAN /\ rebound' \in BOOLEAN
  BY DEF IInv, TypeOK, NoListen, ListenFails, Bound, Unbound
<1> QED BY <1>4, <1>5 DEF IInv, TypeOK, NoListen, ListenFails, disk, counts

\* The types of the process table after the step of a bind from one locked point to another.
LEMMA BindMoves ==
  ASSUME IInv, NEW p \in Procs, NEW f \in Frame, Become(p, f), mu' = mu,
         proc[p].pc \in LockedPCs, f.pc \in LockedPCs,
         f.kind = proc[p].kind, f.prev = proc[p].prev,
         f.pc \in {"shutdown", "install"} => f.name \in AllNames /\ f.serial > 0,
         f.pc \in BoundPCs => f.port \in Ports
  PROVE  /\ mu' \in Procs \cup {Nobody} /\ proc' \in [Procs -> Frame]
         /\ \A r \in Procs : FrameOK(r)'
         /\ proc'[p] = f /\ \A r \in Procs : r # p => proc'[r] = proc[r]
         /\ \A r \in Procs : r # p => proc[r].pc \notin LockedPCs
         /\ down = FALSE
<1>1. proc'[p] = f /\ \A r \in Procs : r # p => proc'[r] = proc[r]
  BY Update DEF IInv
<1>2. FrameOK(p) /\ mu = p
  BY DEF IInv, TypeOK, FrameOK
<1>3. FrameOK(p)'
  BY <1>1, <1>2 DEF FrameOK, LockedPCs
<1>4. \A r \in Procs : r # p => proc[r].pc \notin LockedPCs
  BY Mutex DEF IInv
<1>5. down = FALSE
  BY Awake DEF IInv, LockedPCs
<1> QED BY <1>1, <1>3, <1>4, <1>5, OthersKept DEF IInv, LockStep

\* The same for the step that ends a bind.
LEMMA BindEnds ==
  ASSUME IInv, NEW p \in Procs, NEW f \in Frame, Become(p, f), mu' = Nobody,
         proc[p].pc \in LockedPCs,
         f = Idle \/ (f = [proc[p] EXCEPT !.pc = "rollback"] /\ proc[p].kind = "apply")
  PROVE  /\ mu' \in Procs \cup {Nobody} /\ proc' \in [Procs -> Frame]
         /\ \A r \in Procs : FrameOK(r)'
         /\ \A r \in Procs : r # p => proc'[r] = proc[r]
         /\ \A r \in Procs : proc'[r].pc \notin LockedPCs
         /\ down = FALSE
<1>1. proc'[p] = f /\ \A r \in Procs : r # p => proc'[r] = proc[r]
  BY Update DEF IInv
<1>2. FrameOK(p) /\ mu = p /\ Nobody # p
  BY PortalAssumption DEF IInv, TypeOK, FrameOK
<1>3. /\ f.pc \in {"idle", "rollback"}
      /\ f.pc = "rollback" => f.kind = "apply"
      /\ f.kind = "apply" => f.prev \in Rec
  <2>1. CASE f = Idle
    BY <2>1, IdleFrame
  <2>2. CASE f = [proc[p] EXCEPT !.pc = "rollback"] /\ proc[p].kind = "apply"
    <3>1. proc[p] \in Frame
      BY DEF IInv, TypeOK
    <3>2. f.pc = "rollback" /\ f.kind = proc[p].kind /\ f.prev = proc[p].prev
      BY <2>2, <3>1 DEF Frame
    <3> QED BY <1>2, <2>2, <3>2 DEF FrameOK
  <2> QED BY <2>1, <2>2
<1>4. FrameOK(p)'
  BY <1>1, <1>2, <1>3 DEF FrameOK, LockedPCs, BoundPCs
<1>5. \A r \in Procs : proc'[r].pc \notin LockedPCs
  BY <1>1, <1>3, Mutex DEF IInv, LockedPCs
<1>6. down = FALSE
  BY Awake DEF IInv, LockedPCs
<1> QED BY <1>1, <1>2, <1>4, <1>5, <1>6, OthersKept DEF IInv, LockStep

\* Shutting the current server down: nothing is served, and nothing else is touched.
LEMMA ShutDown ==
  ASSUME TypeOK, sock' = Closed, srv' = IF srv = NoSrv THEN NoSrv ELSE [srv EXCEPT !.shut = TRUE]
  PROVE  /\ srv' \in Srv \cup {NoSrv} /\ sock' \in [Ports -> Sock]
         /\ \A q \in Ports : /\ sock'[q] = "bound" <=> sock[q] = "bound"
                             /\ sock'[q] = "spawned" <=> sock[q] = "spawned"
                             /\ sock'[q] # "serving"
<1>1. srv' \in Srv \cup {NoSrv}
  BY DEF TypeOK, Srv
<1>2. \A q \in Ports : sock[q] \in Sock /\ sock'[q] = IF sock[q] = "serving" THEN "free" ELSE sock[q]
  BY DEF TypeOK, Closed
<1>3. sock' \in [Ports -> Sock]
  BY <1>2 DEF Closed, Sock
<1> QED BY <1>1, <1>2, <1>3

LEMMA RetireKeeps ==
  ASSUME IInv, NEW p \in Procs, Retire(p) \/ ShutOld(p) PROVE IInv'
<1> DEFINE x == IF proc[p].pc = "retire" THEN "clear" ELSE "install"
<1> DEFINE f == [proc[p] EXCEPT !.pc = x]
<1>1. proc[p] \in Frame /\ FrameOK(p) /\ proc[p].pc \in {"retire", "shutdown"}
  BY DEF IInv, TypeOK, Retire, ShutOld
<1>2. Move(p, x) /\ x \in PCs
  BY DEF Retire, ShutOld, PCs, LockedPCs
<1>3. f \in Frame /\ Become(p, f)
  BY <1>2, Moved
<1>4. /\ f.pc = x /\ f.kind = proc[p].kind /\ f.prev = proc[p].prev
      /\ f.name = proc[p].name /\ f.port = proc[p].port /\ f.serial = proc[p].serial
  BY <1>1 DEF Frame
<1>5. /\ x \in {"clear", "install"}
      /\ x = "install" <=> proc[p].pc = "shutdown"
  BY <1>1
<1> HIDE DEF f, x
<1>6. mu' = mu /\ f.pc \in LockedPCs /\ proc[p].pc \in LockedPCs
  BY <1>1, <1>4, <1>5 DEF LockedPCs, Retire, ShutOld
<1>7. /\ f.pc \in {"shutdown", "install"} => f.name \in AllNames /\ f.serial > 0
      /\ f.pc \in BoundPCs => f.port \in Ports
  BY <1>1, <1>4, <1>5 DEF FrameOK, BoundPCs
<1>8. /\ mu' \in Procs \cup {Nobody} /\ proc' \in [Procs -> Frame]
      /\ \A r \in Procs : FrameOK(r)'
      /\ proc'[p] = f /\ \A r \in Procs : r # p => proc'[r] = proc[r]
      /\ \A r \in Procs : r # p => proc[r].pc \notin LockedPCs
      /\ down = FALSE
  BY <1>3, <1>4, <1>6, <1>7, BindMoves
<1>9. /\ srv' \in Srv \cup {NoSrv} /\ sock' \in [Ports -> Sock]
      /\ \A q \in Ports : /\ sock'[q] = "bound" <=> sock[q] = "bound"
                          /\ sock'[q] = "spawned" <=> sock[q] = "spawned"
                          /\ sock'[q] # "serving"
  BY ShutDown DEF IInv, Retire, ShutOld
<1>10. Owned'
  BY <1>1, <1>4, <1>5, <1>8, <1>9 DEF IInv, Owned, BoundPCs, LockedPCs, FrameOK
<1>11. Attached'
  BY <1>9 DEF IInv, Attached, Retire, ShutOld, Overtakes
<1>12. ShutInHand'
  BY <1>4, <1>5, <1>8 DEF ShutInHand
<1>13. DownIdle'
  BY <1>8 DEF DownIdle, Retire, ShutOld
<1>14. TypeOK'
  BY <1>8, <1>9 DEF IInv, TypeOK, Retire, ShutOld, Overtakes, disk, counts
<1> QED BY <1>10, <1>11, <1>12, <1>13, <1>14 DEF IInv

LEMMA ClearKeeps ==
  ASSUME IInv, NEW p \in Procs, Clear(p) PROVE IInv'
<1>1. Become(p, Idle) /\ Idle \in Frame /\ proc[p].pc \in LockedPCs /\ mu' = Nobody
  BY IdleFrame DEF Clear, Bound, Finished, LockedPCs
<1>2. /\ mu' \in Procs \cup {Nobody} /\ proc' \in [Procs -> Frame]
      /\ \A r \in Procs : FrameOK(r)'
      /\ \A r \in Procs : r # p => proc'[r] = proc[r]
      /\ \A r \in Procs : proc'[r].pc \notin LockedPCs
      /\ down = FALSE
  BY <1>1, BindEnds
<1>3. proc[p].pc \notin BoundPCs
  BY DEF Clear, BoundPCs
<1>4. Owned'
  <2>1. \A q \in Ports : sock[q] # "bound"
    BY <1>1, <1>3, Mutex DEF IInv, Owned, BoundPCs, LockedPCs
  <2> QED BY <1>2, <2>1 DEF Clear, Owned, BoundPCs, LockedPCs
<1>5. Attached'
  BY <1>2 DEF IInv, Attached, Clear, Overtakes, LockedPCs
<1>6. ShutInHand' /\ DownIdle'
  BY <1>2 DEF ShutInHand, DownIdle, Clear
<1>7. TypeOK'
  BY <1>2 DEF IInv, TypeOK, Clear, Overtakes, Bound, disk, counts
<1> QED BY <1>4, <1>5, <1>6, <1>7 DEF IInv

LEMMA ListenKeeps ==
  ASSUME IInv, NEW p \in Procs, Listen(p) PROVE IInv'
<1> DEFINE f == [proc[p] EXCEPT !.pc = "tls", !.port = rec.port]
<1>1. proc[p] \in Frame /\ proc[p].pc = "listen" /\ rec.port \in Ports /\ sock[rec.port] = "free"
  BY DEF IInv, TypeOK, Listen, Rec
<1>2. f \in Frame
  BY <1>1 DEF Frame, PCs, LockedPCs
<1>3. /\ f.pc = "tls" /\ f.port = rec.port /\ f.kind = proc[p].kind /\ f.prev = proc[p].prev
  BY <1>1 DEF Frame
<1>4. Become(p, f) /\ mu' = mu
  BY DEF Listen
<1> HIDE DEF f
<1>5. proc[p].pc \in LockedPCs /\ f.pc \in LockedPCs
  BY <1>1, <1>3 DEF LockedPCs
<1>6. /\ mu' \in Procs \cup {Nobody} /\ proc' \in [Procs -> Frame]
      /\ \A r \in Procs : FrameOK(r)'
      /\ proc'[p] = f /\ \A r \in Procs : r # p => proc'[r] = proc[r]
      /\ \A r \in Procs : r # p => proc[r].pc \notin LockedPCs
      /\ down = FALSE
  BY <1>1, <1>2, <1>3, <1>4, <1>5, BindMoves
<1>7. /\ sock' \in [Ports -> Sock]
      /\ sock'[rec.port] = "bound"
      /\ \A q \in Ports : q # rec.port => sock'[q] = sock[q]
  BY <1>1 DEF IInv, TypeOK, Listen, Sock
<1>8. Owned'
  BY <1>1, <1>3, <1>6, <1>7 DEF IInv, Owned, BoundPCs, LockedPCs
<1>9. Attached'
  BY <1>1, <1>3, <1>6, <1>7 DEF IInv, Attached, Listen, history
<1>10. ShutInHand'
  BY <1>1, <1>6 DEF IInv, ShutInHand, Listen
<1>11. DownIdle'
  BY <1>6 DEF DownIdle, Listen
<1>12. TypeOK'
  BY <1>6, <1>7 DEF IInv, TypeOK, Listen, disk, counts, history
<1> QED BY <1>8, <1>9, <1>10, <1>11, <1>12 DEF IInv

LEMMA LoadPairKeeps ==
  ASSUME IInv, NEW p \in Procs, LoadPair(p) PROVE IInv'
<1> DEFINE f == [proc[p] EXCEPT !.pc = "shutdown", !.name = rec.name, !.serial = crt[rec.name]]
<1>1. /\ proc[p] \in Frame /\ FrameOK(p) /\ proc[p].pc = "tls"
      /\ rec.name \in AllNames /\ crt[rec.name] \in Nat /\ crt[rec.name] > 0
  BY DEF IInv, TypeOK, LoadPair, Rec, Valid
<1>2. f \in Frame
  BY <1>1 DEF Frame, PCs, LockedPCs
<1>3. /\ f.pc = "shutdown" /\ f.port = proc[p].port /\ f.kind = proc[p].kind
      /\ f.prev = proc[p].prev /\ f.name = rec.name /\ f.serial = crt[rec.name]
  BY <1>1 DEF Frame
<1>4. Become(p, f) /\ mu' = mu
  BY DEF LoadPair
<1> HIDE DEF f
<1>5. proc[p].pc \in LockedPCs /\ f.pc \in LockedPCs /\ f.port \in Ports
  BY <1>1, <1>3 DEF LockedPCs, FrameOK, BoundPCs
<1>6. /\ mu' \in Procs \cup {Nobody} /\ proc' \in [Procs -> Frame]
      /\ \A r \in Procs : FrameOK(r)'
      /\ proc'[p] = f /\ \A r \in Procs : r # p => proc'[r] = proc[r]
      /\ \A r \in Procs : r # p => proc[r].pc \notin LockedPCs
      /\ down = FALSE
  BY <1>1, <1>2, <1>3, <1>4, <1>5, BindMoves
<1>7. Owned'
  BY <1>1, <1>3, <1>6 DEF IInv, Owned, LoadPair, BoundPCs
<1>8. Attached' /\ ShutInHand'
  BY <1>1, <1>3, <1>6 DEF IInv, Attached, ShutInHand, LoadPair, history
<1>9. DownIdle'
  BY <1>6 DEF DownIdle, LoadPair
<1>10. TypeOK'
  BY <1>6 DEF IInv, TypeOK, LoadPair, disk, counts, history
<1> QED BY <1>7, <1>8, <1>9, <1>10 DEF IInv

LEMMA LoadFailsKeeps ==
  ASSUME IInv, NEW p \in Procs, LoadFails(p) PROVE IInv'
<1>1. /\ proc[p] \in Frame /\ FrameOK(p) /\ proc[p].pc = "tls" /\ proc[p].port \in Ports
  BY DEF IInv, TypeOK, LoadFails, FrameOK, BoundPCs
<1>2. PICK f \in Frame : /\ Become(p, f)
                         /\ \/ f = Idle
                            \/ f = [proc[p] EXCEPT !.pc = "rollback"] /\ proc[p].kind = "apply"
  <2>1. "rollback" \in PCs
    BY DEF PCs
  <2>2. CASE Finished(p)
    BY <2>2, Ended
  <2>3. CASE Move(p, "rollback") /\ proc[p].kind = "apply"
    BY <2>1, <2>3, Moved
  <2> QED BY <2>2, <2>3 DEF LoadFails, Unbound
<1>3. proc[p].pc \in LockedPCs /\ mu' = Nobody
  BY <1>1 DEF LockedPCs, LoadFails
<1>4. /\ mu' \in Procs \cup {Nobody} /\ proc' \in [Procs -> Frame]
      /\ \A r \in Procs : FrameOK(r)'
      /\ \A r \in Procs : r # p => proc'[r] = proc[r]
      /\ \A r \in Procs : proc'[r].pc \notin LockedPCs
      /\ down = FALSE
  BY <1>2, <1>3, BindEnds
<1>5. /\ sock' \in [Ports -> Sock]
      /\ sock'[proc[p].port] = "free"
      /\ \A q \in Ports : q # proc[p].port => sock'[q] = sock[q]
  BY <1>1 DEF IInv, TypeOK, LoadFails, Sock
<1>6. Owned'
  <2>1. \A q \in Ports : sock[q] = "bound" => q = proc[p].port
    BY <1>3, Mutex DEF IInv, Owned, BoundPCs, LockedPCs
  <2> QED BY <1>4, <1>5, <2>1 DEF Owned, BoundPCs, LockedPCs
<1>7. Attached'
  BY <1>4, <1>5 DEF IInv, Attached, LoadFails, LockedPCs
<1>8. ShutInHand'
  BY <1>1, <1>4 DEF IInv, ShutInHand, LoadFails
<1>9. DownIdle'
  BY <1>4 DEF DownIdle, LoadFails
<1>10. TypeOK'
  BY <1>4, <1>5 DEF IInv, TypeOK, LoadFails, Unbound, disk, counts
<1> QED BY <1>6, <1>7, <1>8, <1>9, <1>10 DEF IInv

LEMMA InstallKeeps ==
  ASSUME IInv, NEW p \in Procs, Install(p) PROVE IInv'
<1>1. /\ proc[p] \in Frame /\ proc[p].pc = "install" /\ proc[p].port \in Ports
      /\ proc[p].name \in AllNames /\ proc[p].serial \in Nat \ {0}
  <2>1. proc[p] \in Frame /\ FrameOK(p) /\ proc[p].pc = "install"
    BY DEF IInv, TypeOK, Install
  <2>2. proc[p].serial \in Nat /\ proc[p].serial > 0
    BY <2>1 DEF FrameOK, Frame
  <2> QED BY <2>1, <2>2 DEF FrameOK, BoundPCs
<1>2. Become(p, Idle) /\ Idle \in Frame /\ proc[p].pc \in LockedPCs /\ mu' = Nobody
  BY <1>1, IdleFrame DEF Install, Bound, Finished, LockedPCs
<1>3. /\ mu' \in Procs \cup {Nobody} /\ proc' \in [Procs -> Frame]
      /\ \A r \in Procs : FrameOK(r)'
      /\ \A r \in Procs : r # p => proc'[r] = proc[r]
      /\ \A r \in Procs : proc'[r].pc \notin LockedPCs
      /\ down = FALSE
  BY <1>2, BindEnds
<1>4. srv' \in Srv /\ srv'.port = proc[p].port /\ srv'.shut = FALSE /\ srv' # NoSrv
  <2>1. srv' \in Srv /\ srv'.port = proc[p].port /\ srv'.shut = FALSE
    BY <1>1 DEF Install, Srv
  <2> QED BY <2>1, PortalAssumption DEF Srv
<1>5. /\ sock' \in [Ports -> Sock]
      /\ sock'[proc[p].port] = "spawned"
      /\ \A q \in Ports : q # proc[p].port => sock'[q] = sock[q]
  BY <1>1 DEF IInv, TypeOK, Install, Sock
<1>6. Owned'
  <2>1. \A q \in Ports : sock[q] = "bound" => q = proc[p].port
    BY <1>2, Mutex DEF IInv, Owned, BoundPCs, LockedPCs
  <2> QED BY <1>3, <1>5, <2>1 DEF Owned, BoundPCs, LockedPCs
<1>7. Attached'
  BY <1>1, <1>3, <1>4, <1>5 DEF IInv, Attached, Install, Overtakes, LockedPCs
<1>8. ShutInHand' /\ DownIdle'
  BY <1>3, <1>4 DEF ShutInHand, DownIdle, Install
<1>9. TypeOK'
  BY <1>3, <1>4, <1>5 DEF IInv, TypeOK, Install, Bound, Overtakes, disk, counts
<1> QED BY <1>6, <1>7, <1>8, <1>9 DEF IInv

------------------------------------------------------------------------------
(* Goroutines, the daemon's end and its restart, other programs *)

LEMMA ServeKeeps ==
  ASSUME IInv, NEW q \in Ports, Serve(q) PROVE IInv'
<1>1. /\ sock' \in [Ports -> Sock] /\ sock'[q] \in {"free", "serving"} /\ sock[q] = "spawned"
      /\ \A r \in Ports : r # q => sock'[r] = sock[r]
  BY DEF IInv, TypeOK, Serve, Sock
<1>2. UNCHANGED << srv, mu, proc, down, overtaken >>
  BY DEF Serve, history
<1>3. Owned' /\ Attached' /\ ShutInHand' /\ DownIdle'
  <2>1. Owned'
    BY <1>1, <1>2 DEF IInv, Owned, TypeOK, FrameOK
  <2>2. Attached'
    BY <1>1, <1>2 DEF IInv, Attached
  <2>3. ShutInHand'
    BY <1>2 DEF IInv, ShutInHand
  <2>4. DownIdle'
    BY <1>1, <1>2 DEF IInv, DownIdle
  <2> QED BY <2>1, <2>2, <2>3, <2>4
<1>4. TypeOK'
  BY <1>1, <1>2 DEF IInv, TypeOK, FrameOK, Serve, disk, counts, history
<1> QED BY <1>3, <1>4 DEF IInv

LEMMA ServeNoneKeeps ==
  ASSUME IInv, NEW q \in Ports, ServeNone(q) PROVE IInv'
<1>1. \A r \in Procs : proc'[r] = Idle
  BY DEF ServeNone
<1>2. \A r \in Ports : sock'[r] \in {"free", "foreign"}
  BY DEF ServeNone
<1>3. sock' \in [Ports -> Sock] /\ proc' \in [Procs -> Frame]
  BY IdleFrame DEF ServeNone, Sock
<1>4. \A r \in Procs : FrameOK(r)'
  BY <1>1, IdleFrame, PortalAssumption DEF ServeNone, FrameOK, LockedPCs, BoundPCs
<1>5. srv' = NoSrv
  BY DEF ServeNone
<1>6. Owned'
  BY <1>1, <1>2, IdleFrame DEF Owned, BoundPCs
<1>7. Attached'
  BY <1>1, <1>2, IdleFrame DEF Attached
<1>8. ShutInHand' /\ DownIdle'
  BY <1>1, <1>2, <1>5 DEF ShutInHand, DownIdle
<1>9. TypeOK'
  BY <1>3, <1>4 DEF IInv, TypeOK, ServeNone, disk, counts, history
<1> QED BY <1>6, <1>7, <1>8, <1>9 DEF IInv

\* A server of a wanted record.
LEMMA ServerOf ==
  ASSUME rec \in Rec, crt \in [AllNames -> Nat], Wanted(rec), crt[rec.name] > 0
  PROVE  /\ Server(rec) \in Srv /\ Server(rec) # NoSrv /\ rec.port \in Ports
         /\ Server(rec).port = rec.port /\ Server(rec).shut = FALSE
<1>1. rec.port \in Ports /\ rec.name \in AllNames
  BY DEF Rec, Wanted
<1>2. crt[rec.name] \in Nat \ {0}
  BY <1>1
<1>3. Server(rec) \in Srv /\ Server(rec).port = rec.port /\ Server(rec).shut = FALSE
  BY <1>1, <1>2 DEF Server, Srv
<1> QED BY <1>1, <1>3, PortalAssumption DEF Srv

LEMMA RestartKeeps ==
  ASSUME IInv, Restart PROVE IInv'
<1>1. /\ \A p \in Procs : proc[p] = Idle
      /\ \A q \in Ports : sock[q] \in {"free", "foreign"}
      /\ proc' = proc /\ mu' = mu /\ down' = FALSE
  BY DEF IInv, DownIdle, Restart
<1>2. CASE Wanted(rec)
  <2>1. /\ srv' \in Srv /\ srv' # NoSrv /\ srv'.port = rec.port /\ srv'.shut = FALSE
        /\ rec.port \in Ports
    BY <1>2, ServerOf DEF IInv, TypeOK, Restart, Valid
  <2>2. /\ sock' \in [Ports -> Sock] /\ sock'[rec.port] = "spawned"
        /\ \A q \in Ports : q # rec.port => sock'[q] = sock[q]
    BY <1>2, <2>1 DEF IInv, TypeOK, Restart, Sock
  <2>3. Owned' /\ Attached' /\ ShutInHand' /\ DownIdle'
    BY <1>1, <2>1, <2>2, IdleFrame DEF Owned, Attached, ShutInHand, DownIdle, BoundPCs
  <2>4. TypeOK'
    <3>1. \A p \in Procs : FrameOK(p)'
      BY <1>1 DEF IInv, TypeOK, FrameOK
    <3>2. /\ rec' = rec /\ crt' = crt /\ key' = key /\ due' = due
          /\ requests' = requests /\ issues' = issues /\ foreigners' = foreigners
      BY DEF Restart, disk, counts
    <3>3. /\ down' \in BOOLEAN /\ told' \in BOOLEAN /\ rebound' \in BOOLEAN
          /\ overlap' \in BOOLEAN /\ overtaken' \in BOOLEAN
      BY DEF Restart
    <3> QED BY <1>1, <2>1, <2>2, <3>1, <3>2, <3>3 DEF IInv, TypeOK
  <2> QED BY <2>3, <2>4 DEF IInv
<1>3. CASE ~Wanted(rec)
  <2>1. srv' = NoSrv /\ sock' = sock
    BY <1>3 DEF Restart
  <2>2. Owned' /\ Attached' /\ ShutInHand' /\ DownIdle'
    BY <1>1, <2>1, IdleFrame DEF Owned, Attached, ShutInHand, DownIdle, BoundPCs
  <2>3. TypeOK'
    <3>1. \A p \in Procs : FrameOK(p)'
      BY <1>1 DEF IInv, TypeOK, FrameOK
    <3>2. /\ rec' = rec /\ crt' = crt /\ key' = key /\ due' = due
          /\ requests' = requests /\ issues' = issues /\ foreigners' = foreigners
      BY DEF Restart, disk, counts
    <3>3. /\ down' \in BOOLEAN /\ told' \in BOOLEAN /\ rebound' \in BOOLEAN
          /\ overlap' \in BOOLEAN /\ overtaken' \in BOOLEAN
      BY DEF Restart
    <3> QED BY <1>1, <2>1, <3>1, <3>2, <3>3 DEF IInv, TypeOK
  <2> QED BY <2>2, <2>3 DEF IInv
<1> QED BY <1>2, <1>3

LEMMA ForeignKeeps ==
  ASSUME IInv, NEW q \in Ports, ForeignTakes(q) \/ ForeignLeaves(q) PROVE IInv'
<1>1. /\ sock' \in [Ports -> Sock]
      /\ sock[q] \in {"free", "foreign"} /\ sock'[q] \in {"free", "foreign"}
      /\ \A r \in Ports : r # q => sock'[r] = sock[r]
  BY DEF IInv, TypeOK, ForeignTakes, ForeignLeaves, Sock
<1>2. UNCHANGED << srv, mu, proc, down, overtaken >>
  BY DEF ForeignTakes, ForeignLeaves, history
<1>3. Owned' /\ Attached' /\ ShutInHand' /\ DownIdle'
  <2>1. Owned'
    BY <1>1, <1>2 DEF IInv, Owned, TypeOK, FrameOK
  <2>2. Attached'
    BY <1>1, <1>2 DEF IInv, Attached
  <2>3. ShutInHand'
    BY <1>2 DEF IInv, ShutInHand
  <2>4. DownIdle'
    BY <1>1, <1>2 DEF IInv, DownIdle
  <2> QED BY <2>1, <2>2, <2>3, <2>4
<1>4. TypeOK'
  BY <1>1, <1>2
  DEF IInv, TypeOK, FrameOK, ForeignTakes, ForeignLeaves, disk, counts, history
<1> QED BY <1>3, <1>4 DEF IInv

LEMMA StutterKeeps == ASSUME IInv, UNCHANGED vars PROVE IInv'
<1>1. TypeOK'
  BY DEF IInv, TypeOK, FrameOK, vars
<1>2. Owned' /\ Attached' /\ ShutInHand' /\ DownIdle'
  BY DEF IInv, Owned, Attached, ShutInHand, DownIdle, vars
<1> QED BY <1>1, <1>2 DEF IInv

------------------------------------------------------------------------------
(* The theorems *)

LEMMA InitIInv == Init => IInv
<1> SUFFICES ASSUME Init PROVE IInv
  OBVIOUS
<1>1. rec \in Rec /\ rec.name \in AllNames
  BY PortalAssumption DEF Init, Rec
<1>2. crt \in [AllNames -> Nat] /\ crt[rec.name] = 1
  BY <1>1 DEF Init
<1>3. \A p \in Procs : proc[p] = Idle
  BY DEF Init
<1>4. \A p \in Procs : FrameOK(p)
  BY <1>3, IdleFrame, PortalAssumption DEF Init, FrameOK, LockedPCs, BoundPCs
<1>5. srv \in Srv \cup {NoSrv} /\ (srv # NoSrv => srv.port = rec.port /\ srv.shut = FALSE)
      /\ (Wanted(rec) => srv # NoSrv)
  <2>1. CASE Wanted(rec)
    <3>1. Server(rec) \in Srv /\ Server(rec) # NoSrv
          /\ Server(rec).port = rec.port /\ Server(rec).shut = FALSE
      <4>1. crt[rec.name] > 0
        BY <1>2
      <4> QED BY <1>1, <1>2, <2>1, <4>1, ServerOf
    <3> QED BY <2>1, <3>1 DEF Init
  <2>2. CASE ~Wanted(rec)
    BY <2>2 DEF Init
  <2> QED BY <2>1, <2>2
<1>6. /\ sock \in [Ports -> Sock] /\ \A q \in Ports : sock[q] \in {"free", "spawned"}
      /\ \A q \in Ports : sock[q] = "spawned" => Wanted(rec) /\ q = rec.port
  BY DEF Init, Sock
<1>7. TypeOK
  <2>1. proc \in [Procs -> Frame]
    BY IdleFrame DEF Init
  <2> QED BY <1>1, <1>2, <1>4, <1>5, <1>6, <2>1 DEF Init, TypeOK
<1>8. Owned /\ DownIdle
  BY <1>3, <1>6, IdleFrame DEF Init, Owned, DownIdle, BoundPCs
<1>9. Attached
  BY <1>3, <1>5, <1>6, IdleFrame DEF Attached
<1>10. ShutInHand
  BY <1>5 DEF ShutInHand
<1> QED BY <1>7, <1>8, <1>9, <1>10 DEF IInv

LEMMA NextIInv == IInv /\ [Next]_vars => IInv'
<1> SUFFICES ASSUME IInv, [Next]_vars PROVE IInv'
  OBVIOUS
<1>1. ASSUME NEW h \in Handlers, NEW r \in Rec, SaveBegin(h, r) PROVE IInv'
  BY <1>1, SaveBeginKeeps
<1>2. ASSUME NEW h \in Handlers, NEW n \in AllNames, ApplyBegin(h, n) PROVE IInv'
  BY <1>2, ApplyBeginKeeps
<1>3. ASSUME NEW p \in Procs, Save(p) \/ Snapshot(p) \/ Rollback(p) PROVE IInv'
  BY <1>3, SaveKeeps, SnapshotKeeps, RollbackKeeps
<1>4. ASSUME NEW p \in Procs, Bind(p) PROVE IInv'
  BY <1>4, BindBeginKeeps, RetireKeeps, ClearKeeps, EarlyEndKeeps, ListenKeeps, LoadPairKeeps,
     LoadFailsKeeps, InstallKeeps DEF Bind
<1>5. ASSUME NEW n \in AllNames, Age(n) PROVE IInv'
  BY <1>5, AgeKeeps
<1>6. ASSUME NEW n \in AllNames, RequestIssue(n) \/ Renew(n) PROVE IInv'
  <2>1. IssueBegin(n) /\ requests' \in Nat
    BY <1>6 DEF IInv, TypeOK, RequestIssue, Renew, Request
  <2> QED BY <2>1, IssueBeginKeeps
<1>7. CASE Issue \/ PersistCrt \/ PersistKey
  BY <1>7, IssueKeeps
<1>8. ASSUME NEW q \in Ports, Serve(q) \/ ServeNone(q) PROVE IInv'
  BY <1>8, ServeKeeps, ServeNoneKeeps
<1>9. ASSUME NEW q \in Ports, ForeignTakes(q) \/ ForeignLeaves(q) PROVE IInv'
  BY <1>9, ForeignKeeps
<1>10. CASE Restart
  BY <1>10, RestartKeeps
<1>11. CASE UNCHANGED vars
  BY <1>11, StutterKeeps
<1> QED BY <1>1, <1>2, <1>3, <1>4, <1>5, <1>6, <1>7, <1>8, <1>9, <1>10, <1>11 DEF Next

LEMMA Invariance == Spec => []IInv
  BY InitIInv, NextIInv, PTL DEF Spec

\* subListenMu and the locals of a bind: whoever is past the lock is alone there, and
\* what it is about to store or serve is a record or a certificate that loaded.
THEOREM TypeCorrect == Spec => []TypeOK
<1>1. IInv => TypeOK
  BY DEF IInv
<1> QED BY <1>1, Invariance, PTL

\* bindSubscriberListener leaks no socket: for any number of requests, ports and names,
\* one that is bound is in the hands of the bind in progress, and one that is served is
\* the current server's unless a goroutine was overtaken.
THEOREM SocketsCorrect == Spec => []SocketsAccounted
<1>1. IInv => SocketsAccounted
  BY DEF IInv, SocketsAccounted, Owned, Attached, BoundPCs, LockedPCs
<1> QED BY <1>1, Invariance, PTL

\* A step that frees no socket and finishes no bind leaves the listener as it was.
LEMMA UpStays ==
  ASSUME \A q \in Ports : sock[q] \in {"spawned", "serving"} => sock'[q] \in {"spawned", "serving"},
         \A p \in Procs : proc[p].pc = "install" => proc'[p].pc = "install",
         Up
  PROVE  Up'
  BY DEF Up

\* A step of one process does not finish another's bind.
LEMMA InstallStays ==
  ASSUME IInv, NEW p \in Procs, NEW f, Become(p, f), proc[p].pc # "install"
  PROVE  \A r \in Procs : proc[r].pc = "install" => proc'[r].pc = "install"
  BY DEF IInv, TypeOK, Become

LEMMA BindUp ==
  ASSUME IInv, NEW p \in Procs, Bind(p), Up, ~Up'
  PROVE  proc[p].pc \in {"retire", "clear"}
<1> DEFINE RHS == proc[p].pc \in {"retire", "clear"}
<1>1. proc \in [Procs -> Frame] /\ sock \in [Ports -> Sock] /\ FrameOK(p)
  BY DEF IInv, TypeOK
<1>2. CASE BindBegin(p) \/ NoListen(p) \/ ListenFails(p) \/ LoadPair(p)
  <2>1. sock' = sock /\ proc[p].pc # "install" /\ \E f : Become(p, f)
    BY <1>2 DEF BindBegin, NoListen, ListenFails, LoadPair, Bound, Unbound, Move, Finished
  <2>2. Up'
    BY <2>1, InstallStays, UpStays
  <2> QED BY <2>2
<1>3. CASE Listen(p)
  <2>1. proc[p].pc # "install" /\ \E f : Become(p, f)
    BY <1>3 DEF Listen
  <2>2. \A q \in Ports : sock[q] \in {"spawned", "serving"} => sock'[q] \in {"spawned", "serving"}
    BY <1>1, <1>3 DEF Listen
  <2>3. Up'
    BY <2>1, <2>2, InstallStays, UpStays
  <2> QED BY <2>3
<1>4. CASE LoadFails(p)
  <2>1. proc[p].pc # "install" /\ \E f : Become(p, f)
    BY <1>4 DEF LoadFails, Unbound, Move, Finished
  <2>2. sock[proc[p].port] = "bound"
    BY <1>4 DEF LoadFails, IInv, Owned, BoundPCs
  <2>3. \A q \in Ports : sock[q] \in {"spawned", "serving"} => sock'[q] \in {"spawned", "serving"}
    BY <1>1, <1>4, <2>2 DEF LoadFails
  <2>4. Up'
    BY <2>1, <2>3, InstallStays, UpStays
  <2> QED BY <2>4
<1>5. CASE ShutOld(p)
  <2>1. proc'[p].pc = "install"
    BY <1>1, <1>5 DEF ShutOld, Move, Become, Frame
  <2> QED BY <2>1 DEF Up
<1>6. CASE Install(p)
  <2>1. proc[p].port \in Ports /\ sock'[proc[p].port] = "spawned"
    BY <1>1, <1>6 DEF Install, FrameOK, BoundPCs
  <2> QED BY <2>1 DEF Up
<1>7. CASE Retire(p) \/ Clear(p)
  BY <1>7 DEF Retire, Clear
<1> QED BY <1>2, <1>3, <1>4, <1>5, <1>6, <1>7 DEF Bind

\* "A failed replacement leaves the working listener exactly where it was"
\* (bindSubscriberListener), for any number of requests, issuances, ports and names.
THEOREM ListeningKept == Spec => KeepsListening
<1> DEFINE Kept == (Up /\ ~Up') => down' \/ \E p \in Procs : proc[p].pc \in {"retire", "clear"}
<1>1. IInv /\ [Next]_vars => [Kept]_vars
  <2> SUFFICES ASSUME IInv, Next, Up, ~Up', ~down'
               PROVE  \E p \in Procs : proc[p].pc \in {"retire", "clear"}
    OBVIOUS
  <2>1. ASSUME NEW p \in Procs, NEW f, Become(p, f), proc[p].pc # "install", sock' = sock
        PROVE  FALSE
    BY <2>1, InstallStays, UpStays
  <2>2. \A h \in Handlers, r \in Rec : ~SaveBegin(h, r)
    BY <2>1 DEF SaveBegin, Procs
  <2>3. \A h \in Handlers, n \in AllNames : ~ApplyBegin(h, n)
    BY <2>1 DEF ApplyBegin, Procs
  <2>4. \A p \in Procs : ~Save(p) /\ ~Snapshot(p) /\ ~Rollback(p)
    BY <2>1 DEF Save, Snapshot, Rollback, Move, Finished
  <2>5. \A n \in AllNames : ~Age(n)
    BY UpStays DEF Age
  <2>6. \A n \in AllNames : ~RequestIssue(n) /\ ~Renew(n)
    BY <2>1 DEF RequestIssue, Renew, IssueBegin, Procs
  <2>7. ~Issue /\ ~PersistCrt /\ ~PersistKey
    BY <2>1 DEF Issue, PersistCrt, PersistKey, Move, Finished, Procs
  <2>8. ASSUME NEW q \in Ports, Serve(q) PROVE \E p \in Procs : proc[p].pc \in {"retire", "clear"}
    <3>1. proc' = proc /\ srv # NoSrv
      BY <2>8 DEF Serve
    <3>2. CASE srv.shut
      <4>1. PICK p \in Procs : proc[p].pc \in {"install", "clear"}
        BY <3>1, <3>2 DEF IInv, ShutInHand
      <4>2. proc[p].pc # "install"
        BY <3>1 DEF Up
      <4> QED BY <4>1, <4>2
    <3>3. CASE ~srv.shut
      <4>1. sock'[q] = "serving"
        BY <2>8, <3>3 DEF Serve, IInv, TypeOK
      <4> QED BY <4>1 DEF Up
    <3> QED BY <3>2, <3>3
  <2>9. \A q \in Ports : ~ServeNone(q)
    BY DEF ServeNone
  <2>10. \A q \in Ports : ~ForeignTakes(q) /\ ~ForeignLeaves(q)
    <3>1. ASSUME NEW q \in Ports, ForeignTakes(q) \/ ForeignLeaves(q) PROVE FALSE
      <4>1. proc' = proc /\ \A r \in Ports : r # q => sock'[r] = sock[r]
        BY <3>1 DEF ForeignTakes, ForeignLeaves, IInv, TypeOK
      <4>2. sock[q] \notin {"spawned", "serving"}
        BY <3>1 DEF ForeignTakes, ForeignLeaves
      <4> QED BY <4>1, <4>2, UpStays
    <3> QED BY <3>1
  <2>11. ~Restart
    BY IdleFrame DEF Restart, IInv, DownIdle, Up
  <2> QED BY <2>2, <2>3, <2>4, <2>5, <2>6, <2>7, <2>8, <2>9, <2>10, <2>11, BindUp DEF Next
<1>2. KeepsListening <=> [][Kept]_vars
  BY DEF KeepsListening
<1> QED BY <1>1, <1>2, Invariance, PTL DEF Spec
------------------------------------------------------------------------------
(* The listener follows the record *)

\* A server v over sockets k is what a record r asks for.
Meets(v, k, r) ==
    /\ ~r.on => v = NoSrv
    /\ Wanted(r) => /\ v # NoSrv /\ ~v.shut /\ k[v.port] \in {"spawned", "serving"}
                    /\ v.port = r.port /\ v.name = r.name

Binding == {"lock"} \cup LockedPCs

\* Who is on the way to a bind saves or applies, and only a second bind restores.
KindOf(f) ==
    /\ f.pc \in {"save", "rollback"} \cup Binding => f.kind \in {"save", "apply"}
    /\ f.again => f.pc \in Binding /\ f.kind = "apply"

\* What a bind has looked at still is what the record says.
FitsOf(f, r) ==
    /\ f.pc \in {"retire", "clear"} => ~r.on
    /\ f.pc \in {"listen"} \cup BoundPCs => r.on
    /\ f.pc \in BoundPCs => f.port = r.port
    /\ f.pc \in {"shutdown", "install"} => f.name = r.name

\* Alone, a process finds the listener its record asks for, and can still restore the
\* record it replaced until the old listener is shut down.
OrderlyOf(f, v, k, r) ==
    /\ f.pc \in {"snapshot", "save"} => Meets(v, k, r)
    /\ f.pc = "save" /\ f.kind = "apply" => f.prev = r
    /\ f.pc \in {"lock", "listen", "tls", "rollback"} /\ f.kind = "apply" => Meets(v, k, f.prev)
    /\ f.pc \in {"lock", "listen", "tls"} /\ f.again => f.prev = r

Working(x) == x \notin {"idle", "issue", "crt", "key"}

KindOK == \A p \in Procs : KindOf(proc[p])
\* The record changes under a bind only by a step that leaves a bind to come.
Fits == (\A p \in Procs : proc[p].pc # "lock") => \A p \in Procs : FitsOf(proc[p], rec)
LastBound ==
    (rebound /\ ~down /\ \A p \in Procs : proc[p].pc \notin Binding) => Meets(srv, sock, rec)
Alone == ~overlap => \A p, q \in Procs : Working(proc[p].pc) /\ Working(proc[q].pc) => p = q
Orderly ==
    (~overlap /\ ~told /\ ~down) =>
        /\ (\A p \in Procs : ~Working(proc[p].pc)) => Meets(srv, sock, rec)
        /\ \A p \in Procs : OrderlyOf(proc[p], srv, sock, rec)

RInv == KindOK /\ Fits /\ LastBound /\ Alone /\ Orderly

\* Nothing is asked of a process that is not on its way to a bind.
LEMMA NotWorking ==
  ASSUME NEW f, ~Working(f.pc), NEW v, NEW k, NEW r
  PROVE  f.pc \notin Binding /\ FitsOf(f, r)
         /\ (KindOf(f) => ~f.again /\ OrderlyOf(f, v, k, r))
  BY DEF Working, Binding, LockedPCs, BoundPCs, FitsOf, KindOf, OrderlyOf

\* A step of a process on its way through a bind: what has to be looked at is the
\* process that moves.
LEMMA WorkingStep ==
  ASSUME IInv, IInv', RInv, NEW p \in Procs, NEW f \in Frame, Become(p, f),
         Working(proc[p].pc), overlap' = overlap, KindOf(f),
         f.pc = "lock" \/ (rec' = rec /\ (proc[p].pc = "lock" => f.pc \in LockedPCs)),
         (f.pc # "lock" /\ (proc[p].pc # "lock" => FitsOf(proc[p], rec))) => FitsOf(f, rec'),
         \/ f.pc \in Binding
         \/ ~rebound'
         \/ proc[p].pc # "lock" /\ (FitsOf(proc[p], rec) => Meets(srv', sock', rec'))
         \/ proc[p].pc \notin Binding /\ UNCHANGED << srv, sock, rec, rebound >>,
         (/\ ~told'
          /\ proc[p].pc # "lock" => FitsOf(proc[p], rec)
          /\ ~told => OrderlyOf(proc[p], srv, sock, rec))
           => /\ OrderlyOf(f, srv', sock', rec')
              /\ ~Working(f.pc) => Meets(srv', sock', rec')
  PROVE  RInv'
<1>1. proc'[p] = f /\ \A r \in Procs : r # p => proc'[r] = proc[r]
  BY Update DEF IInv
<1>2. KindOK'
  BY <1>1 DEF RInv, KindOK
<1>3. down = FALSE
  BY Awake DEF IInv, Working
<1>4. Fits'
  <2> SUFFICES ASSUME \A r \in Procs : proc'[r].pc # "lock" PROVE \A r \in Procs : FitsOf(proc'[r], rec')
    BY DEF Fits
  <2>1. f.pc # "lock" /\ rec' = rec
    BY <1>1
  <2>2. CASE proc[p].pc = "lock"
    <3>1. FitsOf(f, rec') /\ f.pc \in LockedPCs
      BY <2>1, <2>2
    <3>2. \A r \in Procs : r # p => proc'[r].pc \notin LockedPCs
      BY <1>1, <3>1 DEF IInv, TypeOK, FrameOK
    <3>3. \A r \in Procs : r # p => FitsOf(proc'[r], rec')
      BY <3>2 DEF FitsOf, LockedPCs, BoundPCs
    <3> QED BY <1>1, <3>1, <3>3
  <2>3. CASE proc[p].pc # "lock"
    <3>1. \A r \in Procs : FitsOf(proc[r], rec)
      BY <1>1, <2>3 DEF RInv, Fits
    <3>2. FitsOf(f, rec')
      BY <2>1, <2>3, <3>1
    <3> QED BY <1>1, <2>1, <3>1, <3>2
  <2> QED BY <2>2, <2>3
<1>5. LastBound'
  <2> SUFFICES ASSUME rebound', \A r \in Procs : proc'[r].pc \notin Binding
               PROVE  Meets(srv', sock', rec')
    BY DEF LastBound
  <2>1. f.pc \notin Binding /\ \A r \in Procs : r # p => proc[r].pc \notin Binding
    BY <1>1
  <2>2. CASE proc[p].pc # "lock" /\ (FitsOf(proc[p], rec) => Meets(srv', sock', rec'))
    <3>1. \A r \in Procs : proc[r].pc # "lock"
      BY <2>1, <2>2 DEF Binding
    <3> QED BY <2>2, <3>1 DEF RInv, Fits
  <2>3. CASE proc[p].pc \notin Binding /\ UNCHANGED << srv, sock, rec, rebound >>
    <3>1. \A r \in Procs : proc[r].pc \notin Binding
      BY <2>1, <2>3
    <3>2. Meets(srv, sock, rec)
      BY <1>3, <2>3, <3>1 DEF RInv, LastBound
    <3> QED BY <2>3, <3>2
  <2> QED BY <2>1, <2>2, <2>3
<1>6. Alone'
  BY <1>1 DEF RInv, Alone
<1>7. Orderly'
  <2> SUFFICES ASSUME ~overlap', ~told'
               PROVE  /\ (\A r \in Procs : ~Working(proc'[r].pc)) => Meets(srv', sock', rec')
                      /\ \A r \in Procs : OrderlyOf(proc'[r], srv', sock', rec')
    BY DEF Orderly
  <2>1. \A r \in Procs : r # p => ~Working(proc[r].pc)
    BY DEF RInv, Alone
  <2>2. proc[p].pc # "lock" => FitsOf(proc[p], rec)
    BY <2>1 DEF RInv, Fits, Working
  <2>3. ~told => OrderlyOf(proc[p], srv, sock, rec)
    BY <1>3 DEF RInv, Orderly
  <2>4. OrderlyOf(f, srv', sock', rec') /\ (~Working(f.pc) => Meets(srv', sock', rec'))
    BY <2>2, <2>3
  <2>5. ASSUME NEW r \in Procs, r # p PROVE OrderlyOf(proc'[r], srv', sock', rec')
    <3>1. proc'[r] = proc[r] /\ ~Working(proc[r].pc) /\ KindOf(proc[r])
      BY <1>1, <2>1, <2>5 DEF RInv, KindOK
    <3> QED BY <3>1, NotWorking
  <2> QED BY <1>1, <2>4, <2>5
<1> QED BY <1>2, <1>4, <1>5, <1>6, <1>7 DEF RInv

\* The step with which a save or an apply begins.
LEMMA BeginStep ==
  ASSUME IInv, RInv, NEW p \in Procs, NEW f \in Frame, Become(p, f), Begins(p),
         ~Working(proc[p].pc), f.pc \in {"save", "snapshot"}, KindOf(f),
         f.pc = "save" => f.kind = "save",
         UNCHANGED << rec, srv, sock, told, rebound, down >>
  PROVE  RInv'
<1>1. proc'[p] = f /\ \A r \in Procs : r # p => proc'[r] = proc[r]
  BY Update DEF IInv
<1>2. KindOK'
  BY <1>1 DEF RInv, KindOK
<1>3. f.pc \notin Binding /\ proc[p].pc \notin Binding /\ FitsOf(f, rec)
  BY NotWorking DEF Binding, LockedPCs, BoundPCs, FitsOf
<1>4. Fits'
  <2>1. proc[p].pc # "lock" /\ f.pc # "lock"
    BY <1>3 DEF Binding
  <2> QED BY <1>1, <1>3, <2>1 DEF RInv, Fits
<1>5. LastBound'
  BY <1>1, <1>3 DEF RInv, LastBound
<1>6. ~overlap' => ~overlap /\ \A r \in Procs : r # p => ~Working(proc[r].pc)
  BY DEF Begins, Busy, Working
<1>7. Alone'
  BY <1>1, <1>6 DEF Alone
<1>8. Orderly'
  <2> SUFFICES ASSUME ~overlap', ~told, ~down
               PROVE  Meets(srv, sock, rec) /\ \A r \in Procs : OrderlyOf(proc'[r], srv, sock, rec)
    BY DEF Orderly
  <2>1. ~overlap /\ \A r \in Procs : ~Working(proc[r].pc)
    BY <1>6
  <2>2. Meets(srv, sock, rec)
    BY <2>1 DEF RInv, Orderly
  <2>3. OrderlyOf(f, srv, sock, rec)
    BY <2>2 DEF OrderlyOf
  <2>4. \A r \in Procs : OrderlyOf(proc[r], srv, sock, rec)
    BY <2>1 DEF RInv, Orderly
  <2> QED BY <1>1, <2>2, <2>3, <2>4
<1> QED BY <1>2, <1>4, <1>5, <1>7, <1>8 DEF RInv

\* A step of a process that stays out of it, as an issuance before its pair is on disk.
LEMMA IdlingStep ==
  ASSUME IInv, RInv, NEW p \in Procs, NEW f \in Frame, Become(p, f),
         ~Working(proc[p].pc), ~Working(f.pc), KindOf(f),
         UNCHANGED << rec, srv, sock, told, rebound, overlap, down >>
  PROVE  RInv'
<1>1. proc'[p] = f /\ \A r \in Procs : r # p => proc'[r] = proc[r]
  BY Update DEF IInv
<1>2. f.pc \notin Binding /\ proc[p].pc \notin Binding /\ FitsOf(f, rec) /\ OrderlyOf(f, srv, sock, rec)
  BY NotWorking
<1>3. KindOK' /\ Alone'
  BY <1>1 DEF RInv, KindOK, Alone
<1>4. Fits'
  <2>1. proc[p].pc # "lock" /\ f.pc # "lock"
    BY <1>2 DEF Binding
  <2> QED BY <1>1, <1>2, <2>1 DEF RInv, Fits
<1>5. LastBound'
  BY <1>1, <1>2 DEF RInv, LastBound
<1>6. Orderly'
  BY <1>1, <1>2 DEF RInv, Orderly
<1> QED BY <1>3, <1>4, <1>5, <1>6 DEF RInv

\* A step of the sockets only.
LEMMA SocketStep ==
  ASSUME IInv, RInv, \A r \in Rec : Meets(srv, sock, r) => Meets(srv, sock', r),
         UNCHANGED << rec, srv, proc, told, rebound, overlap, down >>
  PROVE  RInv'
<1>1. KindOK' /\ Fits' /\ Alone'
  BY DEF RInv, KindOK, Fits, Alone
<1>2. rec \in Rec
  BY DEF IInv, TypeOK
<1>3. LastBound'
  BY <1>2 DEF RInv, LastBound
<1>4. ASSUME NEW p \in Procs, OrderlyOf(proc[p], srv, sock, rec)
      PROVE  OrderlyOf(proc[p], srv, sock', rec)
  <2>1. proc[p].kind = "apply" => proc[p].prev \in Rec
    BY DEF IInv, TypeOK, FrameOK
  <2> QED BY <1>2, <1>4, <2>1 DEF OrderlyOf
<1>5. Orderly'
  BY <1>2, <1>4 DEF RInv, Orderly
<1> QED BY <1>1, <1>3, <1>5 DEF RInv
LEMMA Rests == Idle \in Frame /\ KindOf(Idle) /\ ~Working(Idle.pc)
  BY IdleFrame DEF KindOf, Idle, Binding, LockedPCs, Working

\* As long as no served socket is closed, what was as a record asks still is.
LEMMA StillMet ==
  ASSUME IInv, \A q \in Ports : sock[q] \in {"spawned", "serving"} => sock'[q] \in {"spawned", "serving"}
  PROVE  \A r \in Rec : Meets(srv, sock, r) => Meets(srv, sock', r)
<1>1. srv # NoSrv => srv.port \in Ports
  BY DEF IInv, TypeOK, Srv
<1> QED BY <1>1 DEF Meets

LEMMA SaveBeginFollows ==
  ASSUME IInv, RInv, NEW h \in Handlers, NEW r \in Rec, SaveBegin(h, r) PROVE RInv'
<1> DEFINE f == [Idle EXCEPT !.pc = "save", !.kind = "save", !.rec = r]
<1>1. h \in Procs /\ f \in Frame /\ f.pc = "save" /\ f.kind = "save" /\ f.again = FALSE
  BY IdleFrame DEF Procs, Frame, PCs, Idle
<1>2. Become(h, f) /\ ~Working(proc[h].pc)
  BY DEF SaveBegin, Working
<1> HIDE DEF f
<1>3. KindOf(f)
  BY <1>1 DEF KindOf
<1> QED BY <1>1, <1>2, <1>3, BeginStep DEF SaveBegin

LEMMA ApplyBeginFollows ==
  ASSUME IInv, RInv, NEW h \in Handlers, NEW n \in AllNames, ApplyBegin(h, n) PROVE RInv'
<1> DEFINE f == [Idle EXCEPT !.pc = "snapshot", !.name = n]
<1>1. h \in Procs /\ f \in Frame /\ f.pc = "snapshot" /\ f.again = FALSE
  BY IdleFrame DEF Procs, Frame, PCs, Idle
<1>2. Become(h, f) /\ ~Working(proc[h].pc)
  BY DEF ApplyBegin, Working
<1> HIDE DEF f
<1>3. KindOf(f)
  BY <1>1 DEF KindOf, Binding, LockedPCs
<1> QED BY <1>1, <1>2, <1>3, BeginStep DEF ApplyBegin

LEMMA IssueBeginFollows ==
  ASSUME IInv, RInv, NEW n \in AllNames, IssueBegin(n) PROVE RInv'
<1> DEFINE f == [Idle EXCEPT !.pc = "issue", !.name = n]
<1>1. Issuer \in Procs /\ f \in Frame /\ f.pc = "issue" /\ f.again = FALSE
  BY IdleFrame DEF Procs, Frame, PCs, Idle
<1>2. Become(Issuer, f) /\ ~Working(proc[Issuer].pc)
  BY DEF IssueBegin, Working
<1> HIDE DEF f
<1>3. KindOf(f) /\ ~Working(f.pc)
  BY <1>1 DEF KindOf, Binding, LockedPCs, Working
<1> QED BY <1>1, <1>2, <1>3, IdlingStep DEF IssueBegin, history

LEMMA IssueFollows ==
  ASSUME IInv, RInv, Issue \/ PersistCrt \/ PersistKey PROVE RInv'
<1> DEFINE p == Issuer
<1>1. p \in Procs /\ proc[p] \in Frame /\ KindOf(proc[p]) /\ proc[p].pc \in {"issue", "crt", "key"}
  BY DEF IInv, TypeOK, RInv, KindOK, Issue, PersistCrt, PersistKey, Procs
<1>2. ~Working(proc[p].pc) /\ ~proc[p].again
  BY <1>1, NotWorking DEF Working
<1>3. UNCHANGED << rec, srv, sock, told, rebound, down >>
  BY DEF Issue, PersistCrt, PersistKey, history
<1>4. CASE Finished(p) /\ overlap' = overlap
  BY <1>1, <1>2, <1>3, <1>4, Rests, IdlingStep DEF Finished
<1>5. ASSUME NEW x \in {"crt", "key"}, Move(p, x), overlap' = overlap PROVE RInv'
  <2> DEFINE f == [proc[p] EXCEPT !.pc = x]
  <2>1. f \in Frame /\ Become(p, f) /\ f.pc = x /\ f.again = proc[p].again
    BY <1>1, <1>5, Moved DEF PCs, Frame
  <2> HIDE DEF f
  <2>2. KindOf(f) /\ ~Working(f.pc)
    BY <1>2, <2>1 DEF KindOf, Binding, LockedPCs, Working
  <2> QED BY <1>1, <1>2, <1>3, <1>5, <2>1, <2>2, IdlingStep
<1>6. CASE Move(p, "snapshot") /\ Begins(p)
  <2> DEFINE f == [proc[p] EXCEPT !.pc = "snapshot"]
  <2>1. f \in Frame /\ Become(p, f) /\ f.pc = "snapshot" /\ f.again = proc[p].again
    BY <1>1, <1>6, Moved DEF PCs, Frame
  <2> HIDE DEF f
  <2>2. KindOf(f)
    BY <1>2, <2>1 DEF KindOf, Binding, LockedPCs
  <2> QED BY <1>1, <1>2, <1>3, <1>6, <2>1, <2>2, BeginStep
<1> QED BY <1>4, <1>5, <1>6 DEF Issue, PersistCrt, PersistKey, history

LEMMA SaveFollows ==
  ASSUME IInv, IInv', RInv, NEW p \in Procs, Save(p) PROVE RInv'
<1>1. /\ proc[p] \in Frame /\ KindOf(proc[p]) /\ proc[p].pc = "save" /\ Working(proc[p].pc)
      /\ UNCHANGED << srv, sock, told, rebound, overlap >>
  BY DEF IInv, TypeOK, RInv, KindOK, Save, Working, history
<1>2. proc[p].kind \in {"save", "apply"} /\ ~proc[p].again /\ proc[p].pc \notin Binding
  BY <1>1 DEF KindOf, Binding, LockedPCs
<1>3. CASE Finished(p) /\ rec' = rec
  <2>1. KindOf(Idle) /\ FitsOf(Idle, rec') /\ OrderlyOf(Idle, srv', sock', rec')
    BY Rests, NotWorking
  <2>2. OrderlyOf(proc[p], srv, sock, rec) => Meets(srv', sock', rec')
    BY <1>1, <1>3 DEF OrderlyOf
  <2> QED BY <1>1, <1>2, <1>3, <2>1, <2>2, Rests, WorkingStep DEF Finished, Binding
<1>4. CASE rec' = proc[p].rec /\ Move(p, "lock")
  <2> DEFINE f == [proc[p] EXCEPT !.pc = "lock"]
  <2>1. /\ f \in Frame /\ Become(p, f) /\ f.pc = "lock" /\ f.kind = proc[p].kind
        /\ f.again = proc[p].again /\ f.prev = proc[p].prev
    BY <1>1, <1>4, Moved DEF PCs, Frame
  <2> HIDE DEF f
  <2>2. KindOf(f) /\ FitsOf(f, rec') /\ f.pc \in Binding /\ Working(f.pc)
    BY <1>2, <2>1 DEF KindOf, FitsOf, BoundPCs, Binding, Working
  <2>3. OrderlyOf(proc[p], srv, sock, rec) => OrderlyOf(f, srv', sock', rec')
    BY <1>1, <1>2, <2>1 DEF OrderlyOf
  <2> QED BY <1>1, <2>1, <2>2, <2>3, WorkingStep
<1> QED BY <1>3, <1>4 DEF Save

LEMMA SnapshotFollows ==
  ASSUME IInv, IInv', RInv, NEW p \in Procs, Snapshot(p) PROVE RInv'
<1> DEFINE f == [proc[p] EXCEPT !.pc = "save", !.kind = "apply", !.prev = rec,
                                !.rec = [rec EXCEPT !.name = proc[p].name]]
<1>1. /\ proc[p] \in Frame /\ KindOf(proc[p]) /\ proc[p].pc = "snapshot" /\ FrameOK(p) /\ rec \in Rec
      /\ UNCHANGED << rec, srv, sock, told, rebound, overlap >>
  BY DEF IInv, TypeOK, RInv, KindOK, Snapshot, history
<1>2. [rec EXCEPT !.name = proc[p].name] \in Rec
  BY <1>1 DEF FrameOK, Rec
<1>3. /\ f \in Frame /\ f.pc = "save" /\ f.kind = "apply" /\ f.prev = rec
      /\ f.again = proc[p].again
  BY <1>1, <1>2 DEF Frame, PCs
<1>4. Become(p, f)
  BY DEF Snapshot
<1> HIDE DEF f
<1>5. ~proc[p].again /\ proc[p].pc \notin Binding /\ Working(proc[p].pc) /\ Working(f.pc)
  BY <1>1, <1>3 DEF KindOf, Binding, LockedPCs, Working
<1>6. KindOf(f) /\ FitsOf(f, rec')
  BY <1>3, <1>5 DEF KindOf, FitsOf, BoundPCs, Binding
<1>7. OrderlyOf(proc[p], srv, sock, rec) => OrderlyOf(f, srv', sock', rec')
  BY <1>1, <1>3 DEF OrderlyOf
<1> QED BY <1>1, <1>3, <1>4, <1>5, <1>6, <1>7, WorkingStep DEF Binding

LEMMA RollbackFollows ==
  ASSUME IInv, IInv', RInv, NEW p \in Procs, Rollback(p) PROVE RInv'
<1>1. /\ proc[p] \in Frame /\ KindOf(proc[p]) /\ proc[p].pc = "rollback" /\ proc[p].kind = "apply"
      /\ UNCHANGED << srv, sock, rebound, overlap >>
  BY DEF IInv, TypeOK, FrameOK, RInv, KindOK, Rollback
<1>2. proc[p].pc \notin Binding /\ Working(proc[p].pc)
  BY <1>1 DEF Binding, LockedPCs, Working
<1>3. CASE Finished(p) /\ told' = TRUE /\ rec' = rec
  <2>1. KindOf(Idle) /\ FitsOf(Idle, rec')
    BY Rests, NotWorking
  <2> QED BY <1>1, <1>2, <1>3, <2>1, Rests, WorkingStep DEF Finished, Binding
<1>4. CASE rec' = proc[p].prev /\ Become(p, [proc[p] EXCEPT !.pc = "lock", !.again = TRUE]) /\ told' = told
  <2> DEFINE f == [proc[p] EXCEPT !.pc = "lock", !.again = TRUE]
  <2>1. /\ f \in Frame /\ Become(p, f) /\ f.pc = "lock" /\ f.kind = proc[p].kind
        /\ f.prev = proc[p].prev
    BY <1>1, <1>4 DEF PCs, Frame
  <2> HIDE DEF f
  <2>2. KindOf(f) /\ FitsOf(f, rec') /\ f.pc \in Binding /\ Working(f.pc)
    BY <1>1, <2>1 DEF KindOf, FitsOf, BoundPCs, Binding, Working
  <2>3. OrderlyOf(proc[p], srv, sock, rec) => OrderlyOf(f, srv', sock', rec')
    BY <1>1, <1>4, <2>1 DEF OrderlyOf
  <2> QED BY <1>1, <1>2, <1>4, <2>1, <2>2, <2>3, WorkingStep
<1> QED BY <1>3, <1>4 DEF Rollback
LEMMA BindBeginFollows ==
  ASSUME IInv, IInv', RInv, NEW p \in Procs, BindBegin(p) PROVE RInv'
<1> DEFINE x == IF rec.on THEN "listen" ELSE "retire"
<1> DEFINE f == [proc[p] EXCEPT !.pc = x]
<1>1. /\ proc[p] \in Frame /\ KindOf(proc[p]) /\ proc[p].pc = "lock" /\ rec \in Rec
      /\ UNCHANGED << rec, srv, sock, told, rebound, overlap >>
  BY DEF IInv, TypeOK, RInv, KindOK, BindBegin, history
<1>2. /\ f \in Frame /\ Become(p, f) /\ f.pc = x /\ f.kind = proc[p].kind
      /\ f.again = proc[p].again /\ f.prev = proc[p].prev
  <2>1. x \in PCs /\ Move(p, x)
    BY DEF BindBegin, PCs, LockedPCs
  <2> HIDE DEF x
  <2>2. f \in Frame /\ Become(p, f)
    BY <2>1, Moved
  <2> QED BY <1>1, <2>2 DEF Frame
<1>3. (rec.on => f.pc = "listen") /\ (~rec.on => f.pc = "retire")
  BY <1>2
<1> HIDE DEF f, x
<1>4. f.pc \in LockedPCs /\ f.pc \in Binding /\ Working(f.pc) /\ Working(proc[p].pc)
  BY <1>1, <1>3 DEF LockedPCs, Binding, Working
<1>5. KindOf(f) /\ FitsOf(f, rec')
  BY <1>1, <1>2, <1>3, <1>4 DEF KindOf, FitsOf, BoundPCs, Binding
<1>6. OrderlyOf(proc[p], srv, sock, rec) => OrderlyOf(f, srv', sock', rec')
  BY <1>1, <1>2, <1>3 DEF OrderlyOf
<1> QED BY <1>1, <1>2, <1>4, <1>5, <1>6, WorkingStep

\* A step that shuts the old server down is past the point of return.
LEMMA ShutFollows ==
  ASSUME IInv, IInv', RInv, NEW p \in Procs, Retire(p) \/ ShutOld(p) PROVE RInv'
<1> DEFINE x == IF proc[p].pc = "retire" THEN "clear" ELSE "install"
<1> DEFINE f == [proc[p] EXCEPT !.pc = x]
<1>1. /\ proc[p] \in Frame /\ KindOf(proc[p]) /\ proc[p].pc \in {"retire", "shutdown"}
      /\ UNCHANGED << rec, told, rebound, overlap >>
  BY DEF IInv, TypeOK, RInv, KindOK, Retire, ShutOld
<1>2. /\ f \in Frame /\ Become(p, f) /\ f.pc = x /\ f.kind = proc[p].kind
      /\ f.again = proc[p].again /\ f.port = proc[p].port /\ f.name = proc[p].name
  <2>1. x \in PCs /\ Move(p, x)
    BY DEF Retire, ShutOld, PCs, LockedPCs
  <2> HIDE DEF x
  <2>2. f \in Frame /\ Become(p, f)
    BY <2>1, Moved
  <2> QED BY <1>1, <2>2 DEF Frame
<1>3. (proc[p].pc = "retire" => f.pc = "clear") /\ (proc[p].pc = "shutdown" => f.pc = "install")
  BY <1>2
<1> HIDE DEF f, x
<1>4. f.pc \in Binding /\ proc[p].pc # "lock" /\ Working(f.pc) /\ Working(proc[p].pc)
  BY <1>1, <1>3 DEF LockedPCs, Binding, Working
<1>5. KindOf(f) /\ OrderlyOf(f, srv', sock', rec')
  BY <1>1, <1>2, <1>3, <1>4 DEF KindOf, OrderlyOf, Binding, LockedPCs
<1>6. FitsOf(proc[p], rec) => FitsOf(f, rec')
  BY <1>1, <1>2, <1>3 DEF FitsOf, BoundPCs
<1> QED BY <1>1, <1>2, <1>4, <1>5, <1>6, WorkingStep

\* A bind that ends well ends with the listener of the record it has looked at.
LEMMA BoundFollows ==
  ASSUME IInv, IInv', RInv, NEW p \in Procs, Clear(p) \/ NoListen(p) \/ Install(p) PROVE RInv'
<1>1. /\ proc[p].pc \in {"clear", "listen", "install"} /\ FrameOK(p) /\ rec \in Rec
      /\ Become(p, Idle) /\ UNCHANGED << rec, overlap >>
  BY DEF IInv, TypeOK, Clear, NoListen, Install, Bound, Finished
<1>2. Working(proc[p].pc) /\ proc[p].pc # "lock"
  BY <1>1 DEF Working
<1>3. ASSUME FitsOf(proc[p], rec) PROVE Meets(srv', sock', rec')
  <2>1. CASE Clear(p)
    BY <1>1, <1>3, <2>1 DEF Clear, FitsOf, Meets, Wanted
  <2>2. CASE NoListen(p)
    BY <1>1, <1>3, <2>2 DEF NoListen, FitsOf, Meets, Wanted
  <2>3. CASE Install(p)
    <3>1. rec.on /\ proc[p].port = rec.port /\ proc[p].name = rec.name /\ proc[p].port \in Ports
      BY <1>1, <1>3, <2>3 DEF Install, FitsOf, BoundPCs, FrameOK
    <3>2. /\ srv' # NoSrv
          /\ srv'.port = proc[p].port /\ srv'.name = proc[p].name /\ srv'.shut = FALSE
      <4>1. proc[p].serial \in Nat /\ proc[p].name \in AllNames
        BY <1>1, <2>3 DEF Install, IInv, TypeOK, FrameOK, Frame
      <4>2. srv' = [ port |-> proc[p].port, name |-> proc[p].name,
                     serial |-> proc[p].serial, shut |-> FALSE ]
        BY <2>3 DEF Install
      <4>3. srv' \in [ port : Ports, name : AllNames, serial : Nat, shut : BOOLEAN ]
        BY <3>1, <4>1, <4>2
      <4> QED BY <4>2, <4>3, PortalAssumption
    <3>3. sock'[proc[p].port] = "spawned"
      BY <2>3, <3>1 DEF Install, IInv, TypeOK
    <3> QED BY <1>1, <3>1, <3>2, <3>3 DEF Meets
  <2> QED BY <2>1, <2>2, <2>3
<1>4. FitsOf(Idle, rec') /\ OrderlyOf(Idle, srv', sock', rec')
  BY Rests, NotWorking
<1> QED BY <1>1, <1>2, <1>3, <1>4, Rests, WorkingStep

\* A bind that fails leaves the old listener: an apply restores its record, a second
\* failure finds it restored, and a save tells the operator.
LEMMA UnboundFollows ==
  ASSUME IInv, IInv', RInv, NEW p \in Procs, proc[p].pc \in {"listen", "tls"}, Unbound(p),
         UNCHANGED << rec, srv, overlap >>,
         \A r \in Rec : Meets(srv, sock, r) => Meets(srv, sock', r)
  PROVE  RInv'
<1>1. /\ proc[p] \in Frame /\ KindOf(proc[p]) /\ rec \in Rec
      /\ proc[p].kind = "apply" => proc[p].prev \in Rec
  BY DEF IInv, TypeOK, FrameOK, RInv, KindOK
<1>2. Working(proc[p].pc) /\ proc[p].kind \in {"save", "apply"} /\ rebound' = FALSE
  BY <1>1 DEF Working, KindOf, Binding, LockedPCs, Unbound
<1>3. CASE proc[p].kind = "apply" /\ ~proc[p].again
  <2> DEFINE f == [proc[p] EXCEPT !.pc = "rollback"]
  <2>1. /\ f \in Frame /\ Become(p, f) /\ f.pc = "rollback" /\ f.kind = proc[p].kind
        /\ f.again = proc[p].again /\ f.prev = proc[p].prev
    BY <1>1, <1>3, Moved DEF Unbound, PCs, Frame
  <2> HIDE DEF f
  <2>2. KindOf(f) /\ FitsOf(f, rec') /\ Working(f.pc)
    BY <1>3, <2>1 DEF KindOf, FitsOf, BoundPCs, Working
  <2>3. told' = told
    BY <1>3 DEF Unbound
  <2>4. OrderlyOf(proc[p], srv, sock, rec) => OrderlyOf(f, srv', sock', rec')
    BY <1>1, <1>3, <2>1 DEF OrderlyOf
  <2> QED BY <1>2, <2>1, <2>2, <2>3, <2>4, WorkingStep
<1>4. CASE ~(proc[p].kind = "apply" /\ ~proc[p].again)
  <2>1. Become(p, Idle) /\ told' = (told \/ proc[p].kind = "save")
    BY <1>4 DEF Unbound, Finished
  <2>2. ~told' => ~told /\ proc[p].kind # "save"
    BY <2>1
  <2>3. KindOf(Idle) /\ FitsOf(Idle, rec') /\ OrderlyOf(Idle, srv', sock', rec')
    BY Rests, NotWorking
  <2>4. ASSUME proc[p].kind # "save", OrderlyOf(proc[p], srv, sock, rec)
        PROVE  Meets(srv', sock', rec')
    <3>1. proc[p].kind = "apply" /\ proc[p].again
      BY <1>2, <1>4, <2>4
    <3>2. Meets(srv, sock, rec)
      BY <2>4, <3>1 DEF OrderlyOf
    <3> QED BY <1>1, <3>2
  <2> QED BY <1>2, <2>1, <2>2, <2>3, <2>4, Rests, WorkingStep
<1> QED BY <1>3, <1>4

LEMMA FailFollows ==
  ASSUME IInv, IInv', RInv, NEW p \in Procs, ListenFails(p) \/ LoadFails(p) PROVE RInv'
<1>1. /\ proc[p].pc \in {"listen", "tls"} /\ Unbound(p) /\ UNCHANGED << rec, srv, overlap >>
      /\ sock \in [Ports -> Sock]
  BY DEF ListenFails, LoadFails, IInv, TypeOK
<1>2. \A q \in Ports : sock[q] \in {"spawned", "serving"} => sock'[q] \in {"spawned", "serving"}
  <2>1. CASE ListenFails(p)
    BY <2>1 DEF ListenFails
  <2>2. CASE LoadFails(p)
    <3>1. sock[proc[p].port] = "bound"
      BY <2>2 DEF LoadFails, IInv, Owned, BoundPCs
    <3> QED BY <1>1, <2>2, <3>1 DEF LoadFails
  <2> QED BY <2>1, <2>2
<1> QED BY <1>1, <1>2, StillMet, UnboundFollows

LEMMA ListenFollows ==
  ASSUME IInv, IInv', RInv, NEW p \in Procs, Listen(p) PROVE RInv'
<1> DEFINE f == [proc[p] EXCEPT !.pc = "tls", !.port = rec.port]
<1>1. /\ proc[p] \in Frame /\ KindOf(proc[p]) /\ proc[p].pc = "listen" /\ rec \in Rec
      /\ rec.port \in Ports /\ sock[rec.port] = "free" /\ sock \in [Ports -> Sock]
      /\ proc[p].kind = "apply" => proc[p].prev \in Rec
      /\ UNCHANGED << rec, srv, told, rebound, overlap >>
  BY DEF IInv, TypeOK, FrameOK, RInv, KindOK, Listen, Rec, history
<1>2. /\ f \in Frame /\ f.pc = "tls" /\ f.kind = proc[p].kind
      /\ f.again = proc[p].again /\ f.prev = proc[p].prev /\ f.port = rec.port
  BY <1>1 DEF PCs, LockedPCs, Frame
<1>3. Become(p, f)
  BY DEF Listen
<1> HIDE DEF f
<1>4. f.pc \in Binding /\ proc[p].pc # "lock" /\ Working(f.pc) /\ Working(proc[p].pc)
  BY <1>1, <1>2 DEF LockedPCs, Binding, Working
<1>5. KindOf(f)
  BY <1>1, <1>2, <1>4 DEF KindOf, Binding, LockedPCs
<1>6. FitsOf(proc[p], rec) => FitsOf(f, rec')
  BY <1>1, <1>2 DEF FitsOf, BoundPCs
<1>7. \A r \in Rec : Meets(srv, sock, r) => Meets(srv, sock', r)
  <2>1. \A q \in Ports : sock[q] \in {"spawned", "serving"} => sock'[q] \in {"spawned", "serving"}
    BY <1>1 DEF Listen
  <2> QED BY <2>1, StillMet
<1>8. OrderlyOf(proc[p], srv, sock, rec) => OrderlyOf(f, srv', sock', rec')
  BY <1>1, <1>2, <1>7 DEF OrderlyOf
<1> QED BY <1>1, <1>2, <1>3, <1>4, <1>5, <1>6, <1>8, WorkingStep

LEMMA LoadPairFollows ==
  ASSUME IInv, IInv', RInv, NEW p \in Procs, LoadPair(p) PROVE RInv'
<1> DEFINE f == [proc[p] EXCEPT !.pc = "shutdown", !.name = rec.name, !.serial = crt[rec.name]]
<1>1. /\ proc[p] \in Frame /\ KindOf(proc[p]) /\ proc[p].pc = "tls"
      /\ rec.name \in AllNames /\ crt[rec.name] \in Nat
      /\ UNCHANGED << rec, srv, sock, told, rebound, overlap >>
  BY DEF IInv, TypeOK, RInv, KindOK, LoadPair, Rec, history
<1>2. /\ f \in Frame /\ f.pc = "shutdown" /\ f.kind = proc[p].kind
      /\ f.again = proc[p].again /\ f.port = proc[p].port /\ f.name = rec.name
  BY <1>1 DEF PCs, LockedPCs, Frame
<1>3. Become(p, f)
  BY DEF LoadPair
<1> HIDE DEF f
<1>4. f.pc \in Binding /\ proc[p].pc # "lock" /\ Working(f.pc) /\ Working(proc[p].pc)
  BY <1>1, <1>2 DEF LockedPCs, Binding, Working
<1>5. KindOf(f) /\ OrderlyOf(f, srv', sock', rec')
  BY <1>1, <1>2, <1>4 DEF KindOf, OrderlyOf, Binding, LockedPCs
<1>6. FitsOf(proc[p], rec) => FitsOf(f, rec')
  BY <1>1, <1>2 DEF FitsOf, BoundPCs
<1> QED BY <1>1, <1>2, <1>3, <1>4, <1>5, <1>6, WorkingStep
\* Goroutines and other programs close no socket that is served by a server in use.
LEMMA SocketsFollow ==
  ASSUME IInv, RInv, NEW q \in Ports, Serve(q) \/ ForeignTakes(q) \/ ForeignLeaves(q)
  PROVE  RInv'
<1>1. sock \in [Ports -> Sock] /\ UNCHANGED << rec, srv, proc, told, rebound, overlap, down >>
  BY DEF IInv, TypeOK, Serve, ForeignTakes, ForeignLeaves, history
<1>2. \A r \in Rec : Meets(srv, sock, r) => Meets(srv, sock', r)
  <2>1. CASE Serve(q) /\ srv.shut
    BY <2>1 DEF Meets, Serve
  <2>2. CASE ~(Serve(q) /\ srv.shut)
    <3>1. \A x \in Ports : sock[x] \in {"spawned", "serving"} => sock'[x] \in {"spawned", "serving"}
      BY <1>1, <2>2 DEF Serve, ForeignTakes, ForeignLeaves
    <3> QED BY <3>1, StillMet
  <2> QED BY <2>1, <2>2
<1> QED BY <1>1, <1>2, SocketStep

\* With every process idle there is only the listener to compare.
LEMMA AllRest ==
  ASSUME \A p \in Procs : proc[p] = Idle,
         ~down => Meets(srv, sock, rec)
  PROVE  RInv
<1>1. \A p \in Procs : KindOf(proc[p]) /\ ~Working(proc[p].pc)
  BY Rests
<1>2. \A p \in Procs : FitsOf(proc[p], rec) /\ OrderlyOf(proc[p], srv, sock, rec)
  BY <1>1, NotWorking
<1> QED BY <1>1, <1>2 DEF RInv, KindOK, Fits, LastBound, Alone, Orderly

LEMMA CrashFollows ==
  ASSUME IInv, RInv, NEW q \in Ports, ServeNone(q) PROVE RInv'
<1>1. down' /\ \A p \in Procs : proc'[p] = Idle
  BY DEF ServeNone
<1>2. \A p \in Procs : KindOf(proc'[p]) /\ ~Working(proc'[p].pc)
  BY <1>1, Rests
<1>3. \A p \in Procs : FitsOf(proc'[p], rec')
  BY <1>2, NotWorking
<1> QED BY <1>1, <1>2, <1>3 DEF RInv, KindOK, Fits, LastBound, Alone, Orderly

\* The listener that Start binds is the record's.
LEMMA StartMeets ==
  ASSUME rec \in Rec, crt \in [AllNames -> Nat], crt[rec.name] > 0,
         NEW v, NEW k, k \in [Ports -> Sock],
         v = IF Wanted(rec) THEN Server(rec) ELSE NoSrv,
         Wanted(rec) => k[rec.port] = "spawned"
  PROVE  Meets(v, k, rec)
<1>1. CASE Wanted(rec)
  <2>1. /\ Server(rec) # NoSrv /\ Server(rec).port = rec.port /\ Server(rec).shut = FALSE
        /\ Server(rec).name = rec.name
    BY <1>1, ServerOf DEF Server
  <2> QED BY <1>1, <2>1 DEF Meets, Wanted
<1>2. CASE ~Wanted(rec)
  BY <1>2 DEF Meets
<1> QED BY <1>1, <1>2

LEMMA RestartFollows ==
  ASSUME IInv, RInv, Restart PROVE RInv'
<1>1. /\ rec \in Rec /\ crt \in [AllNames -> Nat] /\ sock \in [Ports -> Sock]
      /\ rec' = rec /\ proc' = proc /\ \A p \in Procs : proc[p] = Idle
  BY DEF IInv, TypeOK, DownIdle, Restart
<1>2. Meets(srv', sock', rec)
  <2>1. CASE Wanted(rec)
    <3>1. crt[rec.name] > 0 /\ rec.port \in Ports
      BY <1>1, <2>1 DEF Restart, Valid, Wanted, Rec
    <3>2. sock' \in [Ports -> Sock] /\ sock'[rec.port] = "spawned" /\ srv' = Server(rec)
      BY <1>1, <2>1, <3>1 DEF Restart, Sock
    <3> QED BY <1>1, <2>1, <3>1, <3>2, StartMeets
  <2>2. CASE ~Wanted(rec)
    BY <2>2 DEF Meets, Restart
  <2> QED BY <2>1, <2>2
<1>3. \A p \in Procs : KindOf(proc'[p]) /\ ~Working(proc'[p].pc)
  BY <1>1, Rests
<1>4. \A p \in Procs : FitsOf(proc'[p], rec') /\ OrderlyOf(proc'[p], srv', sock', rec')
  BY <1>3, NotWorking
<1> QED BY <1>1, <1>2, <1>3, <1>4 DEF RInv, KindOK, Fits, LastBound, Alone, Orderly

LEMMA InitRInv == Init => RInv
<1> SUFFICES ASSUME Init PROVE RInv
  OBVIOUS
<1>1. IInv /\ \A p \in Procs : proc[p] = Idle
  BY InitIInv DEF Init
<1>2. rec \in Rec /\ crt \in [AllNames -> Nat] /\ sock \in [Ports -> Sock] /\ rec.name \in AllNames
  BY <1>1 DEF IInv, TypeOK, Rec
<1>3. crt[rec.name] = 1
  BY <1>2 DEF Init
<1>4. Wanted(rec) => sock[rec.port] = "spawned"
  <2>1. Wanted(rec) => rec.port \in Ports
    BY <1>2 DEF Wanted, Rec
  <2> QED BY <2>1 DEF Init
<1>5. Meets(srv, sock, rec)
  <2>1. srv = IF Wanted(rec) THEN Server(rec) ELSE NoSrv
    BY DEF Init
  <2>2. crt[rec.name] > 0
    BY <1>3
  <2> QED BY <1>2, <1>4, <2>1, <2>2, StartMeets
<1> QED BY <1>1, <1>5, AllRest

LEMMA NextRInv == IInv /\ RInv /\ [Next]_vars => RInv'
<1> SUFFICES ASSUME IInv, RInv, [Next]_vars PROVE RInv'
  OBVIOUS
<1>0. IInv'
  BY NextIInv
<1>1. ASSUME NEW h \in Handlers, NEW r \in Rec, SaveBegin(h, r) PROVE RInv'
  BY <1>1, SaveBeginFollows
<1>2. ASSUME NEW h \in Handlers, NEW n \in AllNames, ApplyBegin(h, n) PROVE RInv'
  BY <1>2, ApplyBeginFollows
<1>3. ASSUME NEW p \in Procs, Save(p) \/ Snapshot(p) \/ Rollback(p) PROVE RInv'
  BY <1>0, <1>3, SaveFollows, SnapshotFollows, RollbackFollows
<1>4. ASSUME NEW p \in Procs, Bind(p) PROVE RInv'
  BY <1>0, <1>4, BindBeginFollows, ShutFollows, BoundFollows, FailFollows, ListenFollows,
     LoadPairFollows DEF Bind
<1>5. ASSUME NEW n \in AllNames, Age(n) PROVE RInv'
  BY <1>5, SocketStep DEF Age, history
<1>6. ASSUME NEW n \in AllNames, RequestIssue(n) \/ Renew(n) PROVE RInv'
  BY <1>6, IssueBeginFollows DEF RequestIssue, Renew
<1>7. CASE Issue \/ PersistCrt \/ PersistKey
  BY <1>7, IssueFollows
<1>8. ASSUME NEW q \in Ports, Serve(q) \/ ForeignTakes(q) \/ ForeignLeaves(q) PROVE RInv'
  BY <1>8, SocketsFollow
<1>9. ASSUME NEW q \in Ports, ServeNone(q) PROVE RInv'
  BY <1>9, CrashFollows
<1>10. CASE Restart
  BY <1>10, RestartFollows
<1>11. CASE UNCHANGED vars
  BY <1>11, SocketStep DEF vars
<1> QED BY <1>1, <1>2, <1>3, <1>4, <1>5, <1>6, <1>7, <1>8, <1>9, <1>10, <1>11 DEF Next

\* "So it matches the current subscription record": between requests the dedicated
\* listener runs on the port and for the name the record asks for, or there is none
\* because the record asks for none, through failed binds and their rollbacks as long as
\* requests came one at a time, and with any overlap of saves, clears and issuances
\* whenever the last bind succeeded; for any number of them, of ports and of names.
THEOREM RecordFollowed == Spec => []RecordServed
<1>1. IInv /\ RInv => RecordServed
  <2> SUFFICES ASSUME IInv, RInv, Quiet, (~overlap /\ ~told) \/ rebound PROVE Agree
    BY DEF RecordServed
  <2>1. ~down /\ \A p \in Procs : ~Working(proc[p].pc)
    BY DEF Quiet, Busy, Working
  <2>2. \A p \in Procs : proc[p].pc \notin Binding
    BY <2>1, NotWorking
  <2>3. Meets(srv, sock, rec)
    BY <2>1, <2>2 DEF RInv, LastBound, Orderly
  <2> QED BY <2>3 DEF Agree, Running, Meets
<1>2. Spec => []RInv
  BY InitRInv, NextRInv, Invariance, PTL DEF Spec
<1> QED BY <1>1, <1>2, Invariance, PTL
=============================================================================
