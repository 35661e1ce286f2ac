----------------------------- MODULE MCNodeMatch -----------------------------
(* Small instances of NodeMatch for TLC.                                    *)
EXTENDS NodeMatch, TLC

CONSTANTS n1, n2, p1, p2

TwoHomes == (p1 :> n1) @@ (p2 :> n1)
OneHome == (p1 :> n1)
=============================================================================
