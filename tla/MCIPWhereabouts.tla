-------------------------- MODULE MCIPWhereabouts --------------------------
(* Small instances of IPWhereabouts for TLC.                                *)
EXTENDS IPWhereabouts, TLC

CONSTANTS ip1, ip2, n1, n2

OneIP == {<<ip1>>}
TwoIPs == {<<ip1, ip2>>}
Lists == {<<ip1>>, <<ip1, ip2>>}
Symmetric == Permutations(Nodes)
=============================================================================
