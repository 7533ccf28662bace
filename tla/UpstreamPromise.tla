--------------------------- MODULE UpstreamPromise ---------------------------
(* What an exchange with the upstream resolvers promises its caller, whichever *)
(* way the resolvers are asked: an answer if one that counts is in time,       *)
(* otherwise, when all have spoken or the deadline has passed, the verdict of  *)
(* one that declined, otherwise a failure.  UpstreamRace implements it, racing *)
(* and in sequence.                                                            *)
CONSTANTS
    Calls,      \* the exchanges
    Addrs       \* the upstream resolvers

VARIABLES
    asked,      \* per exchange, the resolvers it may ask; {} before it begins
    said,       \* per exchange and resolver: "nothing" yet, "answer", "verdict", "error"
    late,       \* the exchanges whose deadline passed before they ended
    outcome     \* per exchange: "none" yet, or what the caller got

vars == << asked, said, late, outcome >>

Kinds == {"answer", "verdict", "error"}

Init ==
    /\ asked = [x \in Calls |-> {}]
    /\ said = [x \in Calls |-> [u \in Addrs |-> "nothing"]]
    /\ late = {}
    /\ outcome = [x \in Calls |-> "none"]

Begin(x, us) ==
    /\ asked[x] = {} /\ outcome[x] = "none"
    /\ asked' = [asked EXCEPT ![x] = us]
    /\ UNCHANGED << said, late, outcome >>

\* No resolver is configured.
Refuse(x) ==
    /\ asked[x] = {} /\ outcome[x] = "none"
    /\ outcome' = [outcome EXCEPT ![x] = "error"]
    /\ UNCHANGED << asked, said, late >>

Hear(x, u, kind) ==
    /\ u \in asked[x] /\ said[x][u] = "nothing"
    /\ said' = [said EXCEPT ![x][u] = kind]
    /\ UNCHANGED << asked, late, outcome >>

Expire(x) ==
    /\ asked[x] # {} /\ outcome[x] = "none"
    /\ late' = late \cup {x}
    /\ UNCHANGED << asked, said, outcome >>

Heard(x, kind) == \E u \in asked[x] : said[x][u] = kind
AllSpoke(x)    == \A u \in asked[x] : said[x][u] # "nothing"

Conclude(x, kind) ==
    /\ asked[x] # {} /\ outcome[x] = "none"
    /\ kind # "error" => Heard(x, kind)
    /\ \/ kind = "answer"
       \/ x \in late
       \/ /\ AllSpoke(x) /\ ~Heard(x, "answer")
          /\ kind = "error" => ~Heard(x, "verdict")
    /\ outcome' = [outcome EXCEPT ![x] = kind]
    /\ UNCHANGED << asked, said, late >>

Next ==
    \E x \in Calls :
        \/ \E us \in SUBSET Addrs : Begin(x, us)
        \/ Refuse(x)
        \/ \E u \in Addrs, kind \in Kinds : Hear(x, u, kind)
        \/ Expire(x)
        \/ \E kind \in Kinds : Conclude(x, kind)

Spec == Init /\ [][Next]_vars
=============================================================================
