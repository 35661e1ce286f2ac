--------------------------- MODULE MCIPController ---------------------------
(* Small instances of IPController for TLC.                                 *)
EXTENDS IPController, TLC

CONSTANTS ip1, ip2, n1, n2

NoneListed == {<<>>}
OneIP == {<<ip1>>}
TwoIPs == {<<ip1, ip2>>}
Lists == {<<ip1>>, <<ip1, ip2>>}
Symmetric == Permutations(Nodes)
=============================================================================
