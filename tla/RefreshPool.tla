----------------------------- MODULE RefreshPool -----------------------------
(* What the cache promises about background refreshes, with nothing of how it *)
(* keeps the promise: a runner refreshes one name at a time, no name is being *)
(* refreshed twice at once, and never more than Limit refreshes run together. *)
(* DnsCache implements it with a single-flight set, a counting semaphore and  *)
(* a goroutine per refresh.                                                   *)
EXTENDS Integers, FiniteSets

CONSTANTS
    Runners,  \* whatever can run a refresh
    Names,    \* the questions that may be refreshed
    Limit     \* maxRefreshWorkers

VARIABLE running   \* the refreshes in progress: pairs of a runner and a name

Init == running = {}

Start(r, k) ==
    /\ \A job \in running : job[1] # r /\ job[2] # k
    /\ Cardinality(running) < Limit
    /\ running' = running \cup {<<r, k>>}

Finish(r, k) ==
    /\ <<r, k>> \in running
    /\ running' = running \ {<<r, k>>}

Next == \E r \in Runners, k \in Names : Start(r, k) \/ Finish(r, k)

Spec == Init /\ [][Next]_running
=============================================================================
