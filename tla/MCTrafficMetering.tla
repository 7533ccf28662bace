------------------------- MODULE MCTrafficMetering -------------------------
(* Small instances of TrafficMetering for TLC. *)
EXTENDS TrafficMetering, TLC

\* Days and weeks, at a ratio that makes both boundaries reachable.
Periods == [c \in Cycles |-> IF c = "daily" THEN 1 ELSE 3]

Account(limit, cycle, anchor) ==
    [used |-> 0, prev |-> 0, limit |-> limit, cycle |-> cycle, anchor |-> anchor, count |-> 0]
Daily    == Account(2, "daily", 0)
Imported == Account(0, "daily", NoAnchor)

Symmetric == Permutations(Editors)
=============================================================================
