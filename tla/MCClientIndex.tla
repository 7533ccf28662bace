---------------------------- MODULE MCClientIndex ----------------------------
(* Small instances of ClientIndex for TLC. *)
EXTENDS ClientIndex, TLC

CONSTANTS ip1, ip2, p1, p2

PortalsAlike == Permutations(Portals)

\* An account that expires, with one at the same address that does not, and alone.
Expiring == [ on |-> TRUE, exp |-> 1, ips |-> << ip1 >>, max |-> 2 ]
Lasting  == [ on |-> TRUE, exp |-> 0, ips |-> << ip1 >>, max |-> 1 ]
SharedOrAlone == { 1 :> Expiring @@ 2 :> Lasting, 1 :> Expiring @@ 2 :> NoRec }
=============================================================================
