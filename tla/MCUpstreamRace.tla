---------------------------- MODULE MCUpstreamRace ----------------------------
(* Small instances of UpstreamRace for TLC. *)
EXTENDS UpstreamRace, TLC

CONSTANTS u1, u2

Msg(rcode, tc, own) == [ rcode |-> rcode, tc |-> tc, own |-> own ]

\* An answer, one to another question, a refusal and a clipped answer.
SomeReplies == { Msg("NOERROR", FALSE, TRUE), Msg("NOERROR", FALSE, FALSE),
                 Msg("REFUSED", FALSE, TRUE), Msg("NOERROR", TRUE, TRUE) }

TwoOneNone == { <<u1, u2>>, <<u2>>, << >> }
=============================================================================
