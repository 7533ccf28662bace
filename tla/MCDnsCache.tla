----------------------------- MODULE MCDnsCache -----------------------------
(* Small instances of DnsCache for TLC. *)
EXTENDS DnsCache, TLC

CONSTANTS k1, k2, k3

OneKey    == k1 :> 0
OneShard  == [k \in Keys |-> 0]
AllOrOne  == { Keys, {k1} }

\* Lifetimes of one and two seconds, an NXDOMAIN whose SOA minimum is below its
\* header TTL, an answer marked "do not reuse", and an error.
Positive(t) == [ rcode |-> "NOERROR", answered |-> TRUE, ttls |-> {t}, soa |-> {} ]
Negative    == [ rcode |-> "NXDOMAIN", answered |-> FALSE, ttls |-> {3}, soa |-> {1} ]
ServFail    == [ rcode |-> "SERVFAIL", answered |-> FALSE, ttls |-> {}, soa |-> {} ]
OneLife     == { Positive(1), ServFail }
MixedLives  == { Positive(0), Positive(3), Negative, ServFail }

Alike == Permutations(Keys) \cup Permutations(Workers)
=============================================================================
