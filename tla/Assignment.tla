----------------------------- MODULE Assignment -----------------------------
(***************************************************************************)
(* What a FloatingIPPool promises its users, after the "Assignment Logic"  *)
(* of the README: an IP is given only to a node that matches and has none, *)
(* and taken only from a node that no longer matches.  How the controller  *)
(* learns about nodes and drives the provider is not visible here.  Once   *)
(* it is astray, wrong about where one of its IPs is, it promises nothing  *)
(* until it starts anew.                                                   *)
(***************************************************************************)
CONSTANTS IPs, Nodes, NoNode

VARIABLES
    holder,  \* the node every IP points at, or will once its action has ended
    live,    \* the nodes that match
    astray   \* the service has been wrong about the holder of an IP

avars == <<holder, live, astray>>

Exclusive(f) == \A i, j \in IPs : f[i] = f[j] /\ f[i] # NoNode => i = j

Init ==
    /\ holder \in {f \in [IPs -> Nodes \cup {NoNode}] : Exclusive(f)}
    /\ live = {}
    /\ astray = FALSE

Enable(n) ==
    /\ n \notin live
    /\ live' = live \cup {n}
    /\ UNCHANGED <<holder, astray>>

Disable(n) ==
    /\ n \in live
    /\ live' = live \ {n}
    /\ UNCHANGED <<holder, astray>>

\* The service restarts and finds the matching nodes anew.
Restart ==
    /\ live' = {} /\ astray' = FALSE
    /\ UNCHANGED holder

Assign(ip, n) ==
    /\ n \in live /\ \A j \in IPs : holder[j] # n
    /\ holder[ip] \notin live
    /\ holder' = [holder EXCEPT ![ip] = n]
    /\ UNCHANGED live
    /\ astray' \in {astray, TRUE}

\* Nothing moves in the step in which the service is first wrong, unless that
\* is an assignment whose answer is lost; after it, anything may.
GoAstray ==
    /\ astray' = TRUE
    /\ ~astray => UNCHANGED <<holder, live>>

Next ==
    \/ \E n \in Nodes : Enable(n) \/ Disable(n)
    \/ Restart \/ GoAstray
    \/ \E ip \in IPs, n \in Nodes : Assign(ip, n)

Spec == Init /\ [][Next]_avars
=============================================================================
