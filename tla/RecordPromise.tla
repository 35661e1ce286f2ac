---------------------------- MODULE RecordPromise ----------------------------
(***************************************************************************)
(* What a DNSProvider promises (provider.go): EnsureDNSARecordSet makes the *)
(* record set of one name hold exactly the given addresses with the given  *)
(* TTL, or reports an error.  While it works, and wherever it gives up, an *)
(* address that is wanted and served stays served, and nothing is served   *)
(* that was neither served before nor wanted.                              *)
(***************************************************************************)
CONSTANTS IPs, TTLs

VARIABLES
    served,  \* the TTLs of the records of every address; none: not served
    wanted,  \* the arguments of the last call
    state    \* what became of it

pvars == <<served, wanted, state>>

Calls == [ips : SUBSET IPs, ttl : TTLs]

Holds(w) == served = [ip \in IPs |-> IF ip \in w.ips THEN {w.ttl} ELSE {}]

Init ==
    /\ served \in [IPs -> SUBSET TTLs]
    /\ wanted \in Calls
    /\ state = "failed"

Call(w) ==
    /\ state # "busy"
    /\ wanted' = w /\ state' = "busy"
    /\ UNCHANGED served

\* One step towards what is wanted.
Progress ==
    /\ served' \in [IPs -> SUBSET TTLs]
    /\ \A ip \in IPs :
         /\ served'[ip] \subseteq served[ip] \cup (IF ip \in wanted.ips THEN {wanted.ttl} ELSE {})
         /\ ip \in wanted.ips /\ served[ip] # {} => served'[ip] # {}

Update == state = "busy" /\ Progress /\ UNCHANGED <<wanted, state>>

\* The error may hide that the last write took effect.
Fail == state = "busy" /\ Progress /\ state' = "failed" /\ UNCHANGED wanted

Return == state = "busy" /\ Holds(wanted) /\ state' = "ok" /\ UNCHANGED <<served, wanted>>

Next == (\E w \in Calls : Call(w)) \/ Update \/ Fail \/ Return

Spec == Init /\ [][Next]_pvars
=============================================================================
