---------------------------- MODULE IPWhereabouts ----------------------------
(***************************************************************************)
(* What the ipController promises, and as long as what.  It decides on     *)
(* account of the node its records (ipToStatus) have for an IP, and the    *)
(* provider moves IPs asynchronously, fails, and is used by others.  The   *)
(* history variable strayed remembers that some record was wrong about     *)
(* where an IP is or is going, since the controller's maps were last       *)
(* empty; Strays lists every way in which that comes about.  Until then    *)
(* the controller keeps the promises below, with an asynchronous provider  *)
(* and through every failure that leaves the records right.                *)
(*                                                                         *)
(* strayed changes with the steps of IPController and restricts none.      *)
(***************************************************************************)
EXTENDS IPController

VARIABLE strayed

hvars == <<vars, strayed>>

\* Every record has the node its IP is on, or on its way to.
Truthful ==
    \A ip \in IPs : Tracked(ip) /\ Dest(ip) # NoNode => ipToStatus[ip].node = Dest(ip)

HInit == Init /\ strayed = FALSE

HNext ==
    /\ Next
    /\ strayed' = IF Restart \/ UpdateProviders THEN FALSE ELSE strayed \/ ~Truthful'

HSpec == HInit /\ [][HNext]_hvars
-----------------------------------------------------------------------------
(* The invariant behind the properties below: while the records are right,  *)
(* they, the claims and the queues agree about every IP and every node.     *)

\* What this pass of reconcileAssignment put off returns to the queues.
OfferedIPs == Elements(assignableIPs) \cup Elements(retryIPs)
QueuedNodes == Elements(assignableNodes) \cup Elements(retryProviders)

IPPlaced(ip) ==
    /\ ipToStatus[ip].state = "absent" => ipToStatus[ip].node = NoNode
    /\ ipToStatus[ip].node # NoNode =>
          /\ Claim(ipToStatus[ip].node) = ip
          /\ ip \in OfferedIPs <=> ~Active(ipToStatus[ip].node)
    /\ ipToStatus[ip].state = "unassigned" => ipToStatus[ip].node = NoNode /\ ip \in OfferedIPs
    /\ ipToStatus[ip].state = "no-match" =>
          ipToStatus[ip].node # NoNode /\ ~Active(ipToStatus[ip].node)

NodePlaced(n) == Active(n) => (n \in QueuedNodes <=> Claim(n) = NoIP)

Placed == (\A ip \in IPs : IPPlaced(ip)) /\ (\A n \in Nodes : NodePlaced(n))

WhereInv == ~strayed => Truthful /\ Placed
-----------------------------------------------------------------------------
\* A lookup that creates the record of an IP without knowing where it is, or
\* that takes a node away from the record of an IP that still points there.
BlindLookup ==
    \E err \in {"inProgress", "notFound", "other"} :
        LookupFails(err) /\ (err = "notFound" \/ ~Tracked(ips[cursor]))

\* "In progress", answered for an older action, taken for an assignment to n.
ForeignAction(ip, n) == AssignIP(ip, n) /\ inflight[ip] \notin {NoNode, n}

\* The record of an IP that is somewhere is emptied after a failed assignment.
Rollback(ip, n) == AssignIPFails(ip, n) /\ Dest(ip)' # NoNode

\* An address somebody else attached before it was adopted.
AdoptTaken == AdoptIP /\ Dest(Head(pendingIPs)) # NoNode

\* Every way in which a record comes to be wrong.
LosesTrack ==
    \/ BlindLookup \/ AdoptTaken
    \/ \E ip \in IPs, n \in Nodes : ForeignAction(ip, n) \/ Rollback(ip, n)
    \/ \E ip \in IPs : ExternalMove(ip) \/ (ActionEnds(ip) /\ attached'[ip] # inflight[ip])

(* The records of the controller become wrong about where an IP is only by  *)
(* a lookup that says nothing of it, an "in progress" that is another       *)
(* action's, a failed assignment of an IP that is attached, an action of    *)
(* the provider that fails, or somebody else who moves the IP: no handler,  *)
(* no displacement, eviction or removal ever mixes two IPs or nodes up.     *)
Strays == [][~strayed /\ strayed' => LosesTrack]_hvars

(* While the records are right, the IP of an active node is never up for    *)
(* assignment to another one.                                               *)
NoSteal ==
    strayed \/ \A n \in providerIDToNodeName :
                  Claim(n) # NoIP => ~IsSet(assignableIPs, Claim(n))

(* While the records are right, an active node waits in assignableNodes     *)
(* between passes exactly when it has no IP: none is forgotten and none     *)
(* gets a second IP.                                                        *)
NodesAccounted ==
    strayed \/ (Settled => \A n \in providerIDToNodeName :
                              IsSet(assignableNodes, n) <=> Claim(n) = NoIP)

(* While the records are right, no address is stranded: between passes, one *)
(* that the provider last said serves no active node is up for assignment.  *)
IPsAccounted == strayed \/ IPsOffered

(* While the records are right, a status that is not marked for update has, *)
(* between passes, the state of every IP, and the node of every IP whose    *)
(* state comes from a lookup.                                               *)
StatusFresh ==
    ~strayed /\ Settled /\ ~updateStatus =>
        \A ip \in Elements(ips) :
            LET st == ipToStatus[ip] IN
            /\ published[ip][1] = st.state
            /\ st.state \in {"active", "no-match"} => published[ip][2] = st.node

(* While the records are right, the annotation of an active node that has   *)
(* an IP names, between passes, that IP, also when the node carried another *)
(* one before a crash.                                                      *)
ServedAnnotated ==
    strayed \/ (Settled => \A n \in providerIDToNodeName :
                              Claim(n) # NoIP => annotation[n] = Claim(n))

Promise == INSTANCE Assignment WITH
    holder <- [ip \in IPs |-> Dest(ip)], live <- matched, astray <- strayed

(* While the records are right, the controller with its provider implements *)
(* the promise of Assignment.                                               *)
KeepsPromise == Promise!Spec
=============================================================================
