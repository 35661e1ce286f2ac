--------------------------- MODULE MCLeaderElection ---------------------------
(* Small instances of LeaderElection for TLC.                               *)
EXTENDS LeaderElection, TLC

CONSTANTS r1, r2, r3

WithCredentials == (r1 :> {"digitalocean"}) @@ (r2 :> {"digitalocean", "cloudflare"}) @@ (r3 :> {})
Troubles == {{"signal", "crash"}, {"renew", "signal"}, {"renew", "crash", "boot"}}
=============================================================================
