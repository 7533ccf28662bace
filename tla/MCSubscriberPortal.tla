------------------------- MODULE MCSubscriberPortal -------------------------
(* Small instances of SubscriberPortal for TLC. *)
EXTENDS SubscriberPortal, TLC

CONSTANTS p1, p2, n1

HandlersAlike == Permutations(Handlers)

\* The portal has a listener with the panel's name or one with its own.
Shared == [ on |-> TRUE, port |-> p1, name |-> Panel ]
Own    == [ on |-> TRUE, port |-> p1, name |-> n1 ]
AnyStart == { Shared, Own }
OwnStart == { Own }
=============================================================================
