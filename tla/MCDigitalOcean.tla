---------------------------- MODULE MCDigitalOcean ----------------------------
(* Small instances of DigitalOcean for TLC.                                 *)
EXTENDS DigitalOcean, TLC

CONSTANTS c1, c2, ip1, ip2

OnePoolEach == (c1 :> {ip1}) @@ (c2 :> {ip2})
Troubles == {{}, {"fail", "pending"}, {"errored", "lost"}, {"gone", "first"}, {"expire"}, {"restart"}}
=============================================================================
