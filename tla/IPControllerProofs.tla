------------------------- MODULE IPControllerProofs -------------------------
(***************************************************************************)
(* Proofs about IPController and IPWhereabouts for any number of           *)
(* addresses, nodes and exceptional events.                                *)
(***************************************************************************)
EXTENDS IPWhereabouts, OrderedSetTheorems

USE DEF specVars, mapVars, queueVars, timerVars, flagVars, runVars, poolVars, noteVars, cloudVars
-----------------------------------------------------------------------------
(* Type correctness.                                                        *)

(* Whether or not an exceptional event is used up, the budget stays a       *)
(* natural number.                                                          *)
LEMMA BudgetType ==
    ASSUME TypeOK, NEW e, Event(e) \/ NoEvent
    PROVE  budget' \in Nat
BY DEF TypeOK, Event, NoEvent

(* annotationUpdater writes addresses or the empty string.                  *)
LEMMA AnnotateType ==
    ASSUME TypeOK, NEW n \in Nodes, NEW ip \in IPs \cup {NoIP}, Annotate(n, ip)
    PROVE  /\ annotation' \in [Nodes -> IPs \cup {NoIP}]
           /\ nodeCache' \in [Nodes -> IPs \cup {NoIP}]
           /\ budget' \in Nat
<1>1. [annotation EXCEPT ![n] = ip] \in [Nodes -> IPs \cup {NoIP}]
  BY DEF TypeOK
<1>2. annotation' \in {annotation, [annotation EXCEPT ![n] = ip]}
  BY DEF Annotate
<1>3. nodeCache' \in {nodeCache, [nodeCache EXCEPT ![n] = ip]}
  BY DEF Annotate
<1>4. budget' \in Nat
  BY BudgetType DEF Annotate
<1>5. QED
  BY <1>1, <1>2, <1>3, <1>4 DEF TypeOK

(* Deleting an entry of providerIDToIP keeps its type.                      *)
LEMMA ClaimsType ==
    ASSUME TypeOK, NEW n
    PROVE  ClaimsWithout(n) \in [Nodes -> IPs \cup {NoIP}]
BY DEF TypeOK, ClaimsWithout

(* The states of the controller's life cycle keep their types.              *)
LEMMA TypeLifecycle ==
    ASSUME TypeOK, Lifecycle
    PROVE  TypeOK'
<1>1. CASE Start
  BY <1>1 DEF TypeOK, Start, Goto
<1>2. CASE Wake
  BY <1>2 DEF TypeOK, Wake, Goto
<1>3. CASE Stop
  BY <1>3 DEF TypeOK, Stop, Event
<1>4. CASE Exit
  BY <1>4 DEF TypeOK, Exit
<1>5. CASE Restart
  <2>1. ipToStatus' \in [IPs -> [state : States, node : NodeIDs, wait : BOOLEAN]]
    BY <1>5 DEF Restart, ResetMaps, Status, Absent, NodeIDs, States
  <2>2. budget' \in Nat
    BY <1>5, BudgetType DEF Restart
  <2>3. /\ ips' \in Seq(IPs) /\ pendingIPs' \in Seq(IPs) /\ retryIPs' \in Seq(IPs)
        /\ retryProviders' \in Seq(Nodes)
        /\ assignableIPs' \in Seq(IPs) /\ assignableNodes' \in Seq(Nodes)
    BY <1>5 DEF Restart, ResetMaps
  <2>4. /\ providerIDToIP' \in [Nodes -> IPs \cup {NoIP}]
        /\ providerIDToNodeName' \subseteq Nodes /\ providerIDToRetry' \subseteq Nodes
        /\ matched' \subseteq Nodes /\ disabledIPs' \subseteq IPs /\ removing' \subseteq IPs
    BY <1>5 DEF Restart, ResetMaps
  <2>5. desiredIPs' \in Nat /\ cursor' \in Nat \ {0} /\ pc' = "reset" /\ dns' = "none"
    BY <1>5 DEF Restart
  <2>6. /\ createWait' \in BOOLEAN /\ coolWait' \in BOOLEAN /\ dnsDirty' \in BOOLEAN
        /\ updateStatus' \in BOOLEAN /\ cancelled' \in BOOLEAN
    BY <1>5 DEF Restart
  <2>7. QED
    BY <1>5, <2>1, <2>2, <2>3, <2>4, <2>5, <2>6 DEF TypeOK, Restart
<1>6. CASE Panic
  BY <1>6 DEF TypeOK, Panic, Goto
<1>7. QED
  BY <1>1, <1>2, <1>3, <1>4, <1>5, <1>6 DEF Lifecycle

(* reconcileDesiredIPs and reconcilePendingIPs.                             *)
LEMMA TypeAllocate ==
    ASSUME TypeOK,
           DesiredDone \/ CreateIP \/ CreateIPFails \/ PendingDone \/ OnNewIPs \/ OnNewIPsFails
             \/ AdoptIP
    PROVE  TypeOK'
<1>1. CASE DesiredDone
  BY <1>1 DEF TypeOK, DesiredDone, Goto
<1>2. CASE CreateIP
  BY <1>2 DEF TypeOK, CreateIP
<1>3. CASE CreateIPFails
  BY <1>3 DEF TypeOK, CreateIPFails, Goto, Event, NoEvent
<1>4. CASE PendingDone
  BY <1>4 DEF TypeOK, PendingDone, StartStatus
<1>5. AllIPs \in Seq(IPs)
  BY DEF TypeOK, AllIPs
<1>6. CASE OnNewIPs
  BY <1>5, <1>6 DEF TypeOK, OnNewIPs, WriteSpec, Goto
<1>7. CASE OnNewIPsFails
  <2>1. budget' \in Nat
    BY <1>7, BudgetType DEF OnNewIPsFails
  <2>2. /\ spec' \in [ips : Seq(IPs), desired : Nat, dns : DNSSpecs]
        /\ cache' \in [ips : Seq(IPs), desired : Nat, dns : DNSSpecs]
    BY <1>5, <1>7 DEF TypeOK, OnNewIPsFails, WriteSpec
  <2>3. QED
    BY <1>7, <2>1, <2>2 DEF TypeOK, OnNewIPsFails, StartStatus
<1>8. CASE AdoptIP
  <2>1. Head(pendingIPs) \in IPs /\ Tail(pendingIPs) \in Seq(IPs)
    BY <1>8 DEF AdoptIP, TypeOK
  <2>2. AddFront(assignableIPs, Head(pendingIPs)) \in Seq(IPs)
    BY <2>1, AddFrontUnique DEF TypeOK
  <2>3. Append(ips, Head(pendingIPs)) \in Seq(IPs)
    BY <2>1 DEF TypeOK
  <2>4. ipToStatus' \in [IPs -> [state : States, node : NodeIDs, wait : BOOLEAN]]
    BY <1>8, <2>1 DEF TypeOK, AdoptIP, Status, States, NodeIDs
  <2>5. pc' \in {"adopt", "status"} /\ cursor' \in Nat \ {0}
    <3>1. CASE pendingIPs' = <<>>
      BY <1>8, <3>1 DEF AdoptIP, StartStatus
    <3>2. CASE pendingIPs' # <<>>
      BY <1>8, <3>2 DEF AdoptIP, TypeOK
    <3>3. QED
      BY <3>1, <3>2
  <2>6. QED
    BY <1>8, <2>1, <2>2, <2>3, <2>4, <2>5 DEF TypeOK, AdoptIP
<1>9. QED
  BY <1>1, <1>2, <1>3, <1>4, <1>6, <1>7, <1>8

(* reconcileIPStatus.                                                       *)
LEMMA TypeLookup ==
    ASSUME TypeOK,
           StatusDone \/ LookupSkip \/ Lookup
             \/ \E err \in {"inProgress", "notFound", "other"} : LookupFails(err)
    PROVE  TypeOK'
<1>1. CASE StatusDone
  BY <1>1 DEF TypeOK, StatusDone, Goto
<1>2. CASE LookupSkip
  BY <1>2 DEF TypeOK, LookupSkip, NextIP
<1>3. ASSUME NEW err \in {"inProgress", "notFound", "other"}, LookupFails(err)
      PROVE  TypeOK'
  <2> DEFINE ip == ips[cursor]
             old == ipToStatus[ip]
             st == Status(IF err = "inProgress" THEN "in-progress" ELSE "error",
                          IF err = "notFound" THEN NoNode ELSE old.node, TRUE)
  <2>1. ip \in IPs /\ old.node \in NodeIDs /\ old.state \in States
    BY <1>3 DEF LookupFails, Looking, TypeOK
  <2>2. st \in [state : States, node : NodeIDs, wait : BOOLEAN]
    BY <2>1 DEF Status, States, NodeIDs
  <2>3. ipToStatus' \in [IPs -> [state : States, node : NodeIDs, wait : BOOLEAN]]
    BY <1>3, <2>1, <2>2 DEF LookupFails, TypeOK
  <2>4. providerIDToIP' \in [Nodes -> IPs \cup {NoIP}]
    BY <1>3, ClaimsType DEF LookupFails, TypeOK
  <2>5. assignableIPs' \in Seq(IPs)
    BY <1>3, <2>1, DeleteType DEF LookupFails, TypeOK
  <2>6. assignableNodes' \in Seq(Nodes)
    <3>1. ASSUME Active(old.node) PROVE AddFront(assignableNodes, old.node) \in Seq(Nodes)
      BY <3>1, AddFrontUnique DEF Active, TypeOK
    <3>2. QED
      BY <1>3, <3>1 DEF LookupFails, TypeOK
  <2>7. updateStatus' \in BOOLEAN /\ dnsDirty' \in BOOLEAN
    BY <1>3 DEF LookupFails
  <2>8. budget' \in Nat
    BY <1>3 DEF LookupFails, LookupError, Event, NoEvent, TypeOK
  <2>9. cursor' \in Nat \ {0}
    BY <1>3 DEF LookupFails, NextIP, TypeOK
  <2>10. QED
    BY <1>3, <2>3, <2>4, <2>5, <2>6, <2>7, <2>8, <2>9 DEF LookupFails, NextIP, TypeOK
<1>4. CASE Lookup
  <2> DEFINE ip == ips[cursor]
             p == attached[ip]
             old == ipToStatus[ip]
             moved == old.node # p
             displaced == IF moved THEN DisplacedIP(ip, p) ELSE NoIP
  <2>1. ip \in IPs /\ p \in NodeIDs /\ old.node \in NodeIDs /\ displaced \in IPs \cup {NoIP}
    BY <1>4 DEF Lookup, Looking, TypeOK, DisplacedIP
  <2>2. StateOf(p) \in States
    BY DEF StateOf, States
  <2>3. ipToStatus' \in [IPs -> [state : States, node : NodeIDs, wait : BOOLEAN]]
    BY <1>4, <2>1, <2>2 DEF Lookup, TypeOK, Status, NodeIDs, States
  <2>4. providerIDToIP' \in [Nodes -> IPs \cup {NoIP}]
    BY <1>4, <2>1 DEF Lookup, TypeOK
  <2>5. assignableIPs' \in Seq(IPs)
    <3>1. \A o \in Seq(IPs), j \in IPs : AddFront(o, j) \in Seq(IPs) /\ AddBack(o, j) \in Seq(IPs)
      BY AddFrontUnique, AddBackUnique
    <3>2. IPsAfterLookup(ip, p, Tracked(ip), displaced) \in Seq(IPs)
      BY <2>1, <3>1 DEF IPsAfterLookup, TypeOK
    <3>3. QED
      BY <1>4, <3>2 DEF Lookup
  <2>6. assignableNodes' \in Seq(Nodes)
    <3>1. \A o \in Seq(Nodes), n \in Nodes : AddFront(o, n) \in Seq(Nodes) /\ Delete(o, n) \in Seq(Nodes)
      BY AddFrontUnique, DeleteType
    <3>2. NodesAfterLookup(p, Tracked(ip), old.node) \in Seq(Nodes)
      BY <2>1, <3>1 DEF NodesAfterLookup, Active, TypeOK
    <3>3. QED
      BY <1>4, <3>2 DEF Lookup, TypeOK
  <2>7. updateStatus' \in BOOLEAN /\ dnsDirty' \in BOOLEAN
    BY <1>4 DEF Lookup
  <2>8. /\ annotation' \in [Nodes -> IPs \cup {NoIP}]
        /\ nodeCache' \in [Nodes -> IPs \cup {NoIP}]
        /\ budget' \in Nat
    <3>1. Active(p) => p \in Nodes
      BY DEF Active, TypeOK
    <3>2. \/ p \in Nodes /\ Annotate(p, ip)
          \/ NoEvent /\ UNCHANGED noteVars
      BY <1>4, <3>1 DEF Lookup
    <3>3. QED
      BY <2>1, <3>2, AnnotateType DEF NoEvent, TypeOK
  <2>9. cursor' \in Nat \ {0}
    BY <1>4 DEF Lookup, NextIP, TypeOK
  <2>10. QED
    BY <1>4, <2>3, <2>4, <2>5, <2>6, <2>7, <2>8, <2>9 DEF Lookup, NextIP, TypeOK
<1>5. QED
  BY <1>1, <1>2, <1>3, <1>4

(* reconcileAssignment.                                                     *)
LEMMA TypeAssign ==
    ASSUME TypeOK,
           AssignDone \/ AssignSkipIP \/ AssignSkipNode
             \/ \E ip \in IPs, n \in Nodes : AssignIP(ip, n) \/ AssignIPFails(ip, n)
    PROVE  TypeOK'
<1>1. CASE AssignDone
  <2>1. /\ Requeue(assignableIPs, retryIPs) \in Seq(IPs)
        /\ Requeue(assignableNodes, retryProviders) \in Seq(Nodes)
    BY DEF Requeue, TypeOK
  <2>2. QED
    BY <1>1, <2>1 DEF TypeOK, AssignDone
<1>2. ASSUME CanAssign
      PROVE  /\ Head(assignableIPs) \in IPs /\ Tail(assignableIPs) \in Seq(IPs)
             /\ Head(assignableNodes) \in Nodes /\ Tail(assignableNodes) \in Seq(Nodes)
  BY <1>2 DEF TypeOK, CanAssign
<1>3. \A ip \in IPs : Append(retryIPs, ip) \in Seq(IPs)
  BY DEF TypeOK
<1>4. \A n \in Nodes : Append(retryProviders, n) \in Seq(Nodes)
  BY DEF TypeOK
<1>5. CASE AssignSkipIP
  BY <1>2, <1>3, <1>5 DEF TypeOK, AssignSkipIP
<1>6. CASE AssignSkipNode
  BY <1>2, <1>3, <1>4, <1>6 DEF TypeOK, AssignSkipNode
<1>7. ASSUME NEW ip \in IPs, NEW n \in Nodes, NEW c \in IPs \cup {NoIP}
      PROVE  ClaimsAfter(ip, n, c) \in [Nodes -> IPs \cup {NoIP}]
  BY DEF TypeOK, ClaimsAfter
<1>8. ASSUME NEW ip \in IPs, NEW s \in {"in-progress", "error"}, NEW n \in NodeIDs
      PROVE  [ipToStatus EXCEPT ![ip] = Status(s, n, TRUE)]
               \in [IPs -> [state : States, node : NodeIDs, wait : BOOLEAN]]
  BY DEF TypeOK, Status, States
<1>9. ASSUME NEW ip \in IPs, NEW n \in Nodes, AssignIP(ip, n)
      PROVE  TypeOK'
  <2>1. assignableIPs' \in Seq(IPs) /\ assignableNodes' \in Seq(Nodes)
    BY <1>2, <1>9 DEF AssignIP, Assigning
  <2>2. attached' \in [IPs -> NodeIDs] /\ inflight' \in [IPs -> NodeIDs] /\ owned' \subseteq IPs
    BY <1>9 DEF AssignIP, ProviderAssigns, TypeOK, NodeIDs
  <2>3. ipToStatus' \in [IPs -> [state : States, node : NodeIDs, wait : BOOLEAN]]
    BY <1>8, <1>9 DEF AssignIP, NodeIDs
  <2>4. providerIDToIP' \in [Nodes -> IPs \cup {NoIP}]
    BY <1>7, <1>9 DEF AssignIP
  <2>5. /\ annotation' \in [Nodes -> IPs \cup {NoIP}] /\ nodeCache' \in [Nodes -> IPs \cup {NoIP}]
        /\ budget' \in Nat
    BY <1>9, AnnotateType DEF AssignIP
  <2>6. coolWait' \in BOOLEAN /\ dnsDirty' \in BOOLEAN /\ updateStatus' \in BOOLEAN
    BY <1>9, ConstantsAssumption DEF AssignIP
  <2>7. QED
    BY <1>9, <2>1, <2>2, <2>3, <2>4, <2>5, <2>6 DEF TypeOK, AssignIP
<1>10. ASSUME NEW ip \in IPs, NEW n \in Nodes, AssignIPFails(ip, n)
       PROVE  TypeOK'
  <2>1. assignableIPs' \in Seq(IPs) /\ assignableNodes' \in Seq(Nodes)
    BY <1>2, <1>10 DEF AssignIPFails, Assigning
  <2>2. attached' \in [IPs -> NodeIDs] /\ inflight' \in [IPs -> NodeIDs] /\ owned' \subseteq IPs
    BY <1>10 DEF AssignIPFails, TypeOK, NodeIDs
  <2>3. ipToStatus' \in [IPs -> [state : States, node : NodeIDs, wait : BOOLEAN]]
    BY <1>8, <1>10 DEF AssignIPFails, NodeIDs
  <2>4. providerIDToIP' \in [Nodes -> IPs \cup {NoIP}]
    BY <1>7, <1>10 DEF AssignIPFails
  <2>5. budget' \in Nat
    BY <1>10, BudgetType DEF AssignIPFails
  <2>6. dnsDirty' \in BOOLEAN /\ updateStatus' \in BOOLEAN
    BY <1>10 DEF AssignIPFails
  <2>7. retryIPs' \in Seq(IPs) /\ retryProviders' \in Seq(Nodes)
    BY <1>3, <1>4, <1>10 DEF AssignIPFails
  <2>8. QED
    BY <1>10, <2>1, <2>2, <2>3, <2>4, <2>5, <2>6, <2>7 DEF TypeOK, AssignIPFails
<1>11. QED
  BY <1>1, <1>5, <1>6, <1>9, <1>10

(* reconcileDNS and the publication of the status.                          *)
LEMMA TypePublish ==
    ASSUME TypeOK,
           DNSSkip \/ EnsureDNS \/ EnsureDNSFails \/ PublishSkip \/ Publish \/ PublishFails
    PROVE  TypeOK'
<1>1. CASE DNSSkip
  BY <1>1 DEF TypeOK, DNSSkip, Goto
<1>2. CASE EnsureDNS
  <2>1. ActiveIPs \subseteq IPs
    BY DEF ActiveIPs, Elements, TypeOK
  <2>2. QED
    BY <1>2, <2>1 DEF TypeOK, EnsureDNS, Goto
<1>3. CASE EnsureDNSFails
  <2>1. ActiveIPs \subseteq IPs
    BY DEF ActiveIPs, Elements, TypeOK
  <2>2. QED
    BY <1>3, <2>1, BudgetType DEF TypeOK, EnsureDNSFails, Goto
<1>4. CASE PublishSkip
  BY <1>4 DEF TypeOK, PublishSkip, Goto
<1>5. CASE Publish
  BY <1>5 DEF TypeOK, Publish, Goto
<1>6. CASE PublishFails
  BY <1>6, BudgetType DEF TypeOK, PublishFails, Goto
<1>7. QED
  BY <1>1, <1>2, <1>3, <1>4, <1>5, <1>6

(* The part of the spec's list that is used: all of it, or a prefix.        *)
LEMMA NewIPsType ==
    ASSUME TypeOK
    PROVE  NewIPs \in Seq(IPs) /\ Elements(NewIPs) \subseteq Elements(cache.ips)
<1>1. cache.ips \in Seq(IPs) /\ cache.desired \in Nat
  BY DEF TypeOK
<1>2. CASE Truncated
  BY <1>1, <1>2, PrefixElements DEF NewIPs, Truncated
<1>3. CASE ~Truncated
  BY <1>1, <1>3 DEF NewIPs
<1>4. QED
  BY <1>2, <1>3

(* The handlers.                                                            *)
LEMMA TypeHandlers ==
    ASSUME TypeOK, Handlers
    PROVE  TypeOK'
<1>1. CASE UpdateIPs
  <2>1. /\ ips' \in Seq(IPs) /\ updateStatus' \in BOOLEAN /\ dnsDirty' \in BOOLEAN
        /\ removing' \subseteq IPs
    BY <1>1, NewIPsType DEF UpdateIPs, TypeOK, DroppedIPs
  <2>2. desiredIPs' \in Nat /\ disabledIPs' \subseteq IPs
    BY <1>1 DEF UpdateIPs, TypeOK, Elements
  <2>3. QED
    BY <1>1, <2>1, <2>2 DEF TypeOK, UpdateIPs
<1>2. CASE UpdateDNSSpec
  BY <1>2 DEF TypeOK, UpdateDNSSpec
<1>3. CASE UpdateProviders
  <2>1. ipToStatus' \in [IPs -> [state : States, node : NodeIDs, wait : BOOLEAN]]
    BY <1>3 DEF UpdateProviders, ResetMaps, Status, Absent, NodeIDs, States
  <2>2. QED
    BY <1>3, <2>1 DEF TypeOK, UpdateProviders, ResetMaps, Goto
<1>4. ASSUME NEW ip \in IPs, RemoveIP(ip)
      PROVE  TypeOK'
  <2> DEFINE n == ipToStatus[ip].node
  <2>1. ipToStatus' \in [IPs -> [state : States, node : NodeIDs, wait : BOOLEAN]]
    BY <1>4 DEF RemoveIP, TypeOK, Status, Absent, NodeIDs, States
  <2>2. assignableIPs' \in Seq(IPs)
    BY <1>4, DeleteType DEF RemoveIP, TypeOK
  <2>3. providerIDToIP' \in [Nodes -> IPs \cup {NoIP}]
    BY <1>4, ClaimsType DEF RemoveIP
  <2>4. Active(n) => n \in Nodes /\ AddFront(assignableNodes, n) \in Seq(Nodes)
    BY AddFrontUnique DEF Active, TypeOK
  <2>5. assignableNodes' \in Seq(Nodes)
    BY <1>4, <2>4 DEF RemoveIP, TypeOK
  <2>6. /\ annotation' \in [Nodes -> IPs \cup {NoIP}] /\ nodeCache' \in [Nodes -> IPs \cup {NoIP}]
        /\ budget' \in Nat
    <3>1. \/ n \in Nodes /\ Annotate(n, NoIP)
          \/ UNCHANGED noteVars /\ NoEvent
      BY <1>4, <2>4 DEF RemoveIP
    <3>2. QED
      BY <3>1, AnnotateType DEF NoEvent, TypeOK
  <2>7. QED
    BY <1>4, <2>1, <2>2, <2>3, <2>5, <2>6 DEF TypeOK, RemoveIP
<1>5. ASSUME NEW n \in Nodes, EnableNode(n)
      PROVE  TypeOK'
  <2>1. Claim(n) \in IPs \cup {NoIP}
    BY DEF TypeOK, Claim
  <2>2. assignableIPs' \in Seq(IPs)
    <3>1. IPsAfterEnable(n) \in Seq(IPs)
      BY DeleteType DEF IPsAfterEnable, TypeOK
    <3>2. assignableIPs' \in {assignableIPs, IPsAfterEnable(n)}
      BY <1>5 DEF EnableNode
    <3>3. QED
      BY <3>1, <3>2 DEF TypeOK
  <2>3. assignableNodes' \in Seq(Nodes)
    <3>1. AddBack(assignableNodes, n) \in Seq(Nodes)
      BY AddBackUnique DEF TypeOK
    <3>2. assignableNodes' \in {assignableNodes, AddBack(assignableNodes, n)}
      BY <1>5 DEF EnableNode
    <3>3. QED
      BY <3>1, <3>2 DEF TypeOK
  <2>4. ipToStatus' \in [IPs -> [state : States, node : NodeIDs, wait : BOOLEAN]]
    <3>1. ASSUME Claim(n) # NoIP
          PROVE  [ipToStatus EXCEPT ![Claim(n)] = Status("in-progress", n, TRUE)]
                   \in [IPs -> [state : States, node : NodeIDs, wait : BOOLEAN]]
      BY <2>1, <3>1 DEF TypeOK, Status, NodeIDs, States
    <3>2. \/ ipToStatus' = ipToStatus
          \/ /\ Claim(n) # NoIP
             /\ ipToStatus' = [ipToStatus EXCEPT ![Claim(n)] = Status("in-progress", n, TRUE)]
      BY <1>5 DEF EnableNode
    <3>3. QED
      BY <3>1, <3>2 DEF TypeOK
  <2>5. /\ annotation' \in [Nodes -> IPs \cup {NoIP}] /\ nodeCache' \in [Nodes -> IPs \cup {NoIP}]
        /\ budget' \in Nat
    <3>1. Annotate(n, Claim(n)) \/ (UNCHANGED noteVars /\ NoEvent)
      BY <1>5 DEF EnableNode
    <3>2. QED
      BY <2>1, <3>1, AnnotateType DEF NoEvent, TypeOK
  <2>6. updateStatus' \in BOOLEAN /\ dnsDirty' \in BOOLEAN
    BY <1>5 DEF EnableNode, TypeOK
  <2>7. QED
    BY <1>5, <2>2, <2>3, <2>4, <2>5, <2>6 DEF TypeOK, EnableNode
<1>6. ASSUME NEW n \in Nodes, DisableNode(n)
      PROVE  TypeOK'
  <2>1. Claim(n) \in IPs \cup {NoIP}
    BY DEF TypeOK, Claim
  <2>2. assignableIPs' \in Seq(IPs)
    <3>1. Claim(n) # NoIP => AddBack(assignableIPs, Claim(n)) \in Seq(IPs)
      BY <2>1, AddBackUnique DEF TypeOK
    <3>2. \/ assignableIPs' = assignableIPs
          \/ Claim(n) # NoIP /\ assignableIPs' = AddBack(assignableIPs, Claim(n))
      BY <1>6 DEF DisableNode
    <3>3. QED
      BY <3>1, <3>2 DEF TypeOK
  <2>3. assignableNodes' \in Seq(Nodes)
    BY <1>6, DeleteType DEF DisableNode, TypeOK
  <2>4. ipToStatus' \in [IPs -> [state : States, node : NodeIDs, wait : BOOLEAN]]
    <3> DEFINE st == Status("no-match", ipToStatus[Claim(n)].node, TRUE)
    <3>1. Claim(n) # NoIP => [ipToStatus EXCEPT ![Claim(n)] = st]
                               \in [IPs -> [state : States, node : NodeIDs, wait : BOOLEAN]]
      BY <2>1 DEF TypeOK, Status, States
    <3>2. \/ ipToStatus' = ipToStatus
          \/ Claim(n) # NoIP /\ ipToStatus' = [ipToStatus EXCEPT ![Claim(n)] = st]
      BY <1>6 DEF DisableNode
    <3>3. QED
      BY <3>1, <3>2 DEF TypeOK
  <2>5. /\ annotation' \in [Nodes -> IPs \cup {NoIP}] /\ nodeCache' \in [Nodes -> IPs \cup {NoIP}]
        /\ budget' \in Nat
    <3>1. Annotate(n, NoIP) \/ (UNCHANGED noteVars /\ NoEvent)
      BY <1>6 DEF DisableNode
    <3>2. QED
      BY <3>1, AnnotateType DEF NoEvent, TypeOK
  <2>6. updateStatus' \in BOOLEAN /\ dnsDirty' \in BOOLEAN
    BY <1>6 DEF DisableNode, TypeOK
  <2>7. QED
    BY <1>6, <2>2, <2>3, <2>4, <2>5, <2>6 DEF TypeOK, DisableNode
<1>7. QED
  BY <1>1, <1>2, <1>3, <1>4, <1>5, <1>6 DEF Handlers

(* Time, users, informers and the provider.                                 *)
LEMMA TypeEnvironment ==
    ASSUME TypeOK, Environment
    PROVE  TypeOK'
<1> USE DEF ControllerUnchanged
<1>1. CASE ElapseCreate
  BY <1>1 DEF TypeOK, ElapseCreate
<1>2. CASE ElapseCoolOff
  BY <1>2 DEF TypeOK, ElapseCoolOff
<1>3. CASE EditSpec
  <2>1. PICK s \in {[spec EXCEPT !.ips = l] : l \in IPLists}
              \cup {[spec EXCEPT !.desired = d] : d \in DesiredIPs}
              \cup {[spec EXCEPT !.dns = d] : d \in DNSSpecs}
              \cup {[spec EXCEPT !.ips = Without(spec.ips, k)] : k \in DOMAIN spec.ips} :
                 WriteSpec(s)
    BY <1>3 DEF EditSpec
  <2>2. \A k \in DOMAIN spec.ips : Without(spec.ips, k) \in Seq(IPs)
    BY WithoutType DEF TypeOK
  <2>3. s \in [ips : Seq(IPs), desired : Nat, dns : DNSSpecs]
    <3>1. spec \in [ips : Seq(IPs), desired : Nat, dns : DNSSpecs]
      BY DEF TypeOK
    <3>2. CASE s \in {[spec EXCEPT !.ips = l] : l \in IPLists}
      BY <3>1, <3>2, ConstantsAssumption
    <3>3. CASE s \in {[spec EXCEPT !.desired = d] : d \in DesiredIPs}
      BY <3>1, <3>3, ConstantsAssumption
    <3>4. CASE s \in {[spec EXCEPT !.dns = d] : d \in DNSSpecs}
      BY <3>1, <3>4
    <3>5. CASE s \in {[spec EXCEPT !.ips = Without(spec.ips, k)] : k \in DOMAIN spec.ips}
      BY <2>2, <3>1, <3>5
    <3>6. QED
      BY <3>2, <3>3, <3>4, <3>5
  <2>4. /\ spec' \in [ips : Seq(IPs), desired : Nat, dns : DNSSpecs]
        /\ cache' \in [ips : Seq(IPs), desired : Nat, dns : DNSSpecs]
    BY <2>1, <2>3 DEF WriteSpec, TypeOK
  <2>5. budget' \in Nat
    BY <1>3, BudgetType DEF EditSpec
  <2>6. QED
    BY <1>3, <2>4, <2>5 DEF TypeOK, EditSpec
<1>4. CASE Watch
  BY <1>4 DEF TypeOK, Watch
<1>5. ASSUME NEW n \in Nodes, ElapseNode(n) PROVE TypeOK'
  BY <1>5 DEF TypeOK, ElapseNode
<1>6. ASSUME NEW n \in Nodes, WatchNode(n) PROVE TypeOK'
  BY <1>6 DEF TypeOK, WatchNode
<1>7. ASSUME NEW ip \in IPs, ElapseIP(ip) PROVE TypeOK'
  BY <1>7 DEF TypeOK, ElapseIP
<1>8. ASSUME NEW ip \in IPs, ActionEnds(ip) PROVE TypeOK'
  <2>1. attached' \in [IPs -> NodeIDs] /\ inflight' \in [IPs -> NodeIDs]
    BY <1>8 DEF TypeOK, ActionEnds, NodeIDs
  <2>2. budget' \in Nat
    BY <1>8, BudgetType DEF ActionEnds
  <2>3. QED
    BY <1>8, <2>1, <2>2 DEF TypeOK, ActionEnds
<1>9. ASSUME NEW ip \in IPs, ExternalMove(ip) PROVE TypeOK'
  BY <1>9 DEF TypeOK, ExternalMove, Event
<1>10. QED
  BY <1>1, <1>2, <1>3, <1>4, <1>5, <1>6, <1>7, <1>8, <1>9 DEF Environment

(* newIPController and a pool that already exists.                          *)
LEMMA TypeInit == Init => TypeOK
<1> SUFFICES ASSUME Init PROVE TypeOK
  OBVIOUS
<1>1. ipToStatus \in [IPs -> [state : States, node : NodeIDs, wait : BOOLEAN]]
  BY DEF Init, InitController, Status, Absent, NodeIDs, States
<1>2. owned \subseteq IPs
  BY ConstantsAssumption DEF Init, UserIPs, Elements
<1>3. spec \in [ips : Seq(IPs), desired : Nat, dns : DNSSpecs]
  BY ConstantsAssumption DEF Init
<1>4. attached \in [IPs -> NodeIDs] /\ inflight \in [IPs -> NodeIDs]
  BY DEF Init, NodeIDs
<1>5. /\ ips \in Seq(IPs) /\ pendingIPs \in Seq(IPs) /\ retryIPs \in Seq(IPs)
      /\ retryProviders \in Seq(Nodes)
      /\ assignableIPs \in Seq(IPs) /\ assignableNodes \in Seq(Nodes)
  BY DEF Init, InitController
<1>6. /\ providerIDToIP \in [Nodes -> IPs \cup {NoIP}]
      /\ annotation \in [Nodes -> IPs \cup {NoIP}] /\ nodeCache \in [Nodes -> IPs \cup {NoIP}]
  BY DEF Init, InitController
<1>7. /\ createWait \in BOOLEAN /\ coolWait \in BOOLEAN /\ dnsDirty \in BOOLEAN
      /\ updateStatus \in BOOLEAN /\ cancelled \in BOOLEAN
  BY DEF Init, InitController
<1>8. /\ disabledIPs \subseteq IPs /\ desiredIPs \in Nat /\ removing \subseteq IPs
      /\ providerIDToNodeName \subseteq Nodes /\ providerIDToRetry \subseteq Nodes
      /\ matched \subseteq Nodes /\ dnsRecord \subseteq IPs
      /\ dns = "none" /\ pc = "reset" /\ cursor \in Nat \ {0} /\ budget \in Nat
      /\ cache = spec
  BY ConstantsAssumption DEF Init, InitController
<1>9. QED
  BY <1>1, <1>2, <1>3, <1>4, <1>5, <1>6, <1>7, <1>8 DEF TypeOK

(* TypeOK is inductive by itself.                                           *)
LEMMA TypeNext == TypeOK /\ [Next]_vars => TypeOK'
<1> SUFFICES ASSUME TypeOK, [Next]_vars PROVE TypeOK'
  OBVIOUS
<1>1. CASE Reconcile
  BY <1>1, TypeAllocate, TypeLookup, TypeAssign, TypePublish DEF Reconcile
<1>2. CASE UNCHANGED vars
  BY <1>2 DEF TypeOK, vars
<1>3. QED
  BY <1>1, <1>2, TypeHandlers, TypeLifecycle, TypeEnvironment DEF Next

(* Every variable keeps its type: in particular the cursor of the loop over *)
(* the IPs is a position, the queues hold addresses and nodes only, and no  *)
(* claim or status is of anything but the empty strings, IPs and nodes.     *)
THEOREM TypeCorrect == Spec => []TypeOK
BY TypeInit, TypeNext, PTL DEF Spec
-----------------------------------------------------------------------------
(***************************************************************************)
(* The queues.  QueueSound is inductive together with what a pass of       *)
(* reconcileAssignment keeps in its retry lists, and with the mutual       *)
(* exclusion of updateIPs and the passes.  No event is excluded.           *)
(***************************************************************************)
QueueInv == QueueSound /\ RetrySound /\ LockSound

(* Nothing is queued for retry outside reconcileAssignment.                 *)
LEMMA NoRetries ==
    ASSUME retryIPs = <<>>, retryProviders = <<>>
    PROVE  RetrySound
<1>1. Elements(retryIPs) = {} /\ Elements(retryProviders) = {}
  BY DEF Elements
<1>2. Unique(retryIPs) /\ Unique(retryProviders)
  BY DEF Unique
<1>3. QED
  BY <1>1, <1>2 DEF RetrySound

(* The same for the state after a step.                                     *)
LEMMA NoRetriesNext ==
    ASSUME retryIPs' = <<>>, retryProviders' = <<>>
    PROVE  RetrySound'
<1>1. Elements(retryIPs') = {} /\ Elements(retryProviders') = {}
  BY DEF Elements
<1>2. Unique(retryIPs') /\ Unique(retryProviders')
  BY DEF Unique
<1>3. QED
  BY <1>1, <1>2 DEF RetrySound

(* A step that moves no queue keeps the queues sound.                       *)
LEMMA QueueFrame ==
    ASSUME TypeOK, QueueInv,
           UNCHANGED <<queueVars, retryIPs, retryProviders, providerIDToNodeName>>,
           \A ip \in IPs : Tracked(ip) => Tracked(ip)',
           pc = "assign" => pc' = "assign",
           removing' # {} => pc' \in {"idle", "reset", "stopped"}
    PROVE  QueueInv'
<1>1. LockSound'
  BY DEF LockSound
<1>2. Elements(assignableIPs) \subseteq IPs /\ Elements(retryIPs) \subseteq IPs
  BY DEF TypeOK, Elements
<1>3. QueueSound'
  BY <1>2 DEF QueueInv, QueueSound
<1>4. RetrySound'
  BY <1>2 DEF QueueInv, RetrySound, Active, IsSet
<1>5. QED
  BY <1>1, <1>3, <1>4 DEF QueueInv

(* Head and tail of the two queues, when a pass takes a pair off them.      *)
LEMMA QueueHeads ==
    ASSUME TypeOK, QueueInv, pc = "assign", CanAssign
    PROVE  /\ Head(assignableIPs) \in IPs /\ Tracked(Head(assignableIPs))
           /\ Head(assignableIPs) \notin Elements(retryIPs)
           /\ Head(assignableNodes) \in providerIDToNodeName
           /\ Head(assignableNodes) \notin Elements(retryProviders)
           /\ Unique(Tail(assignableIPs)) /\ Unique(Tail(assignableNodes))
           /\ Elements(Tail(assignableIPs)) = Elements(assignableIPs) \ {Head(assignableIPs)}
           /\ Elements(Tail(assignableNodes)) = Elements(assignableNodes) \ {Head(assignableNodes)}
<1>1. /\ assignableIPs \in Seq(IPs) /\ assignableIPs # <<>> /\ Unique(assignableIPs)
      /\ assignableNodes \in Seq(Nodes) /\ assignableNodes # <<>> /\ Unique(assignableNodes)
  BY DEF TypeOK, QueueInv, QueueSound, CanAssign
<1>2. /\ Head(assignableIPs) \in IPs /\ Head(assignableIPs) \in Elements(assignableIPs)
      /\ Unique(Tail(assignableIPs))
      /\ Elements(Tail(assignableIPs)) = Elements(assignableIPs) \ {Head(assignableIPs)}
  BY <1>1, FrontUnique
<1>3. /\ Head(assignableNodes) \in Elements(assignableNodes)
      /\ Unique(Tail(assignableNodes))
      /\ Elements(Tail(assignableNodes)) = Elements(assignableNodes) \ {Head(assignableNodes)}
  BY <1>1, FrontUnique
<1>4. QED
  BY <1>2, <1>3 DEF QueueInv, QueueSound, RetrySound, IsSet

(* The retry lists after the pair at the front went there.                  *)
LEMMA RetryAppend ==
    ASSUME TypeOK, QueueInv, pc = "assign", CanAssign
    PROVE  /\ Unique(Append(retryIPs, Head(assignableIPs)))
           /\ Elements(Append(retryIPs, Head(assignableIPs)))
                = Elements(retryIPs) \cup {Head(assignableIPs)}
           /\ Unique(Append(retryProviders, Head(assignableNodes)))
           /\ Elements(Append(retryProviders, Head(assignableNodes)))
                = Elements(retryProviders) \cup {Head(assignableNodes)}
<1>1. /\ retryIPs \in Seq(IPs) /\ Unique(retryIPs)
      /\ retryProviders \in Seq(Nodes) /\ Unique(retryProviders)
      /\ providerIDToNodeName \subseteq Nodes
  BY DEF TypeOK, QueueInv, RetrySound
<1>2. QED
  BY <1>1, QueueHeads, AppendUnique

(* The life cycle: a restart empties the queues, the rest leaves them.      *)
LEMMA QueueLifecycle ==
    ASSUME TypeOK, QueueInv, Lifecycle
    PROVE  QueueInv'
<1>1. CASE Start
  BY <1>1, QueueFrame DEF Start, Goto, Tracked
<1>2. CASE Wake
  BY <1>2, QueueFrame DEF Wake, Goto, Tracked
<1>3. CASE Stop
  BY <1>3, QueueFrame DEF Stop, Tracked, QueueInv, LockSound
<1>4. CASE Exit
  BY <1>4, QueueFrame DEF Exit, Tracked
<1>5. CASE Restart
  <2>1. RetrySound' /\ LockSound'
    BY <1>5, NoRetriesNext DEF Restart, LockSound
  <2>2. QueueSound'
    BY <1>5 DEF Restart, ResetMaps, QueueSound, Unique, Elements
  <2>3. QED
    BY <2>1, <2>2 DEF QueueInv
<1>6. CASE Panic
  <2>1. pc # "assign"
    BY <1>6, QueueHeads DEF Panic, NilStatus
  <2>2. removing = {}
    BY <1>6, <2>1 DEF Panic, NilStatus, Unlocked, QueueInv, LockSound
  <2>3. QED
    BY <1>6, <2>1, <2>2, QueueFrame DEF Panic, Goto, Tracked
<1>7. QED
  BY <1>1, <1>2, <1>3, <1>4, <1>5, <1>6 DEF Lifecycle

(* reconcileDesiredIPs and reconcilePendingIPs: a new IP is pushed to the   *)
(* front of assignableIPs once.                                             *)
LEMMA QueueAllocate ==
    ASSUME TypeOK, QueueInv,
           DesiredDone \/ CreateIP \/ CreateIPFails \/ PendingDone \/ OnNewIPs \/ OnNewIPsFails
             \/ AdoptIP
    PROVE  QueueInv'
<1> USE DEF Tracked, Goto, StartStatus
<1>1. CASE DesiredDone
  BY <1>1, QueueFrame DEF DesiredDone, QueueInv, LockSound
<1>2. CASE CreateIP
  BY <1>2, QueueFrame DEF CreateIP, QueueInv, LockSound
<1>3. CASE CreateIPFails
  BY <1>3, QueueFrame DEF CreateIPFails, QueueInv, LockSound
<1>4. CASE PendingDone
  BY <1>4, QueueFrame DEF PendingDone, QueueInv, LockSound
<1>5. CASE OnNewIPs
  BY <1>5, QueueFrame DEF OnNewIPs, QueueInv, LockSound
<1>6. CASE OnNewIPsFails
  BY <1>6, QueueFrame DEF OnNewIPsFails, QueueInv, LockSound
<1>7. CASE AdoptIP
  <2> DEFINE ip == Head(pendingIPs)
  <2>1. ip \in IPs
    BY <1>7 DEF AdoptIP, TypeOK
  <2>2. Unique(assignableIPs') /\ Elements(assignableIPs') = Elements(assignableIPs) \cup {ip}
    <3>1. assignableIPs \in Seq(IPs) /\ Unique(assignableIPs)
      BY DEF TypeOK, QueueInv, QueueSound
    <3>2. \A j \in IPs : /\ Unique(AddFront(assignableIPs, j))
                         /\ Elements(AddFront(assignableIPs, j)) = Elements(assignableIPs) \cup {j}
      BY <3>1, AddFrontUnique
    <3>3. assignableIPs' = AddFront(assignableIPs, ip)
      BY <1>7 DEF AdoptIP
    <3>4. QED
      BY <2>1, <3>2, <3>3
  <2>3. \A j \in Elements(assignableIPs) \cup {ip} : Tracked(j)'
    BY <1>7, <2>1 DEF AdoptIP, TypeOK, QueueInv, QueueSound, Status, Elements
  <2>4. QueueSound'
    BY <1>7, <2>2, <2>3 DEF AdoptIP, QueueInv, QueueSound
  <2>5. RetrySound'
    BY <1>7, NoRetriesNext DEF AdoptIP, QueueInv, RetrySound
  <2>6. LockSound'
    BY <1>7 DEF AdoptIP, QueueInv, LockSound
  <2>7. QED
    BY <2>4, <2>5, <2>6 DEF QueueInv
<1>8. QED
  BY <1>1, <1>2, <1>3, <1>4, <1>5, <1>6, <1>7

(* reconcileIPStatus: an IP is queued when it points at no node or at one   *)
(* that is not active, a node when it is active and lost its IP.            *)
LEMMA QueueLookup ==
    ASSUME TypeOK, QueueInv,
           StatusDone \/ LookupSkip \/ Lookup
             \/ \E err \in {"inProgress", "notFound", "other"} : LookupFails(err)
    PROVE  QueueInv'
<1>a. assignableIPs \in Seq(IPs) /\ Unique(assignableIPs)
  BY DEF TypeOK, QueueInv, QueueSound
<1>b. assignableNodes \in Seq(Nodes) /\ Unique(assignableNodes)
  BY DEF TypeOK, QueueInv, QueueSound
<1>c. \A ip \in Elements(assignableIPs) : ip \in IPs /\ Tracked(ip)
  BY DEF TypeOK, QueueInv, QueueSound, Elements
<1>d. Elements(assignableNodes) \subseteq providerIDToNodeName /\ providerIDToNodeName \subseteq Nodes
  BY DEF TypeOK, QueueInv, QueueSound
<1>e. \A o \in Seq(Nodes), n \in Nodes : Unique(o) =>
        /\ Unique(AddFront(o, n)) /\ Elements(AddFront(o, n)) = Elements(o) \cup {n}
        /\ Delete(o, n) \in Seq(Nodes) /\ Unique(Delete(o, n))
        /\ Elements(Delete(o, n)) = Elements(o) \ {n}
  BY AddFrontUnique, DeleteType, DeleteUnique
<1>f. \A o \in Seq(IPs), j \in IPs : Unique(o) =>
        /\ AddFront(o, j) \in Seq(IPs) /\ Unique(AddFront(o, j))
        /\ Elements(AddFront(o, j)) = Elements(o) \cup {j}
  BY AddFrontUnique
<1>g. \A o \in Seq(IPs), j \in IPs : Unique(o) =>
        /\ AddBack(o, j) \in Seq(IPs) /\ Unique(AddBack(o, j))
        /\ Elements(AddBack(o, j)) = Elements(o) \cup {j}
  BY AddBackUnique
<1>1. CASE StatusDone
  BY <1>1, QueueFrame DEF StatusDone, Goto, Tracked, QueueInv, LockSound
<1>2. CASE LookupSkip
  BY <1>2, QueueFrame DEF LookupSkip, NextIP, Tracked, QueueInv, LockSound
<1>3. ASSUME NEW err \in {"inProgress", "notFound", "other"}, LookupFails(err)
      PROVE  QueueInv'
  <2> DEFINE ip == ips[cursor]
             n == ipToStatus[ip].node
  <2>1. ip \in IPs
    BY <1>3 DEF LookupFails, Looking, TypeOK
  <2>2. \A j \in IPs : Tracked(j) => Tracked(j)'
    BY <1>3, <2>1 DEF LookupFails, TypeOK, Tracked, Status
  <2>3. Unique(assignableIPs') /\ Elements(assignableIPs') \subseteq Elements(assignableIPs)
    <3>1. assignableIPs' \in {assignableIPs, Delete(assignableIPs, ip)}
      BY <1>3 DEF LookupFails
    <3>2. QED
      BY <1>a, <3>1, DeleteUnique
  <2>4. Unique(assignableNodes') /\ Elements(assignableNodes') \subseteq providerIDToNodeName
    <3>1. \/ assignableNodes' = assignableNodes
          \/ n \in providerIDToNodeName /\ assignableNodes' = AddFront(assignableNodes, n)
      BY <1>3 DEF LookupFails, Active
    <3>2. n \in Nodes => /\ Unique(AddFront(assignableNodes, n))
                         /\ Elements(AddFront(assignableNodes, n)) = Elements(assignableNodes) \cup {n}
      BY <1>b, <1>e
    <3>3. QED
      BY <1>b, <1>d, <3>1, <3>2
  <2>5. QueueSound'
    BY <1>3, <1>c, <2>2, <2>3, <2>4 DEF LookupFails, QueueSound
  <2>6. RetrySound' /\ LockSound'
    BY <1>3, NoRetriesNext DEF LookupFails, Looking, NextIP, QueueInv, RetrySound, LockSound
  <2>7. QED
    BY <2>5, <2>6 DEF QueueInv
<1>4. CASE Lookup
  <2> DEFINE ip == ips[cursor]
             p == attached[ip]
             old == ipToStatus[ip]
             moved == old.node # p
             displaced == IF moved THEN DisplacedIP(ip, p) ELSE NoIP
             free == IF p = NoNode THEN AddFront(assignableIPs, ip) ELSE assignableIPs
             known == IF ~Tracked(ip) /\ p # NoNode /\ ~Active(p) THEN AddBack(free, ip) ELSE free
             kept == IF ~Tracked(ip) /\ Active(p) THEN Delete(assignableNodes, p) ELSE assignableNodes
  <2>1. ip \in IPs /\ displaced \in IPs \cup {NoIP}
    BY <1>4 DEF Lookup, Looking, TypeOK, DisplacedIP
  <2>2. \A j \in IPs : Tracked(j) \/ j = ip \/ j = displaced => Tracked(j)'
    <3>1. StateOf(p) # "absent"
      BY DEF StateOf
    <3>2. QED
      BY <1>4, <3>1 DEF Lookup, Tracked, Status
  <2>3. /\ free \in Seq(IPs) /\ Unique(free)
        /\ Elements(free) \subseteq Elements(assignableIPs) \cup {ip}
    BY <1>a, <1>f, <2>1
  <2>4. /\ known \in Seq(IPs) /\ Unique(known)
        /\ Elements(known) \subseteq Elements(assignableIPs) \cup {ip}
    <3> HIDE DEF free
    <3>1. AddBack(free, ip) \in Seq(IPs) /\ Unique(AddBack(free, ip))
          /\ Elements(AddBack(free, ip)) = Elements(free) \cup {ip}
      BY <1>g, <2>1, <2>3
    <3>2. QED
      BY <2>3, <3>1
  <2>5. /\ Unique(assignableIPs')
        /\ \A j \in Elements(assignableIPs') :
              j \in Elements(assignableIPs) \/ j = ip \/ (j = displaced /\ displaced # NoIP)
    <3>1. assignableIPs' = IF displaced = NoIP THEN known ELSE AddBack(known, displaced)
      BY <1>4 DEF Lookup, IPsAfterLookup
    <3> HIDE DEF known
    <3>2. displaced # NoIP => /\ Unique(AddBack(known, displaced))
                              /\ Elements(AddBack(known, displaced)) = Elements(known) \cup {displaced}
      BY <1>g, <2>1, <2>4
    <3>3. CASE displaced = NoIP
      <4> HIDE DEF displaced
      <4>1. assignableIPs' = known
        BY <3>1, <3>3
      <4>2. Unique(assignableIPs') /\ Elements(assignableIPs') = Elements(known)
        BY <2>4, <4>1
      <4>3. QED
        BY <2>4, <4>2
    <3>4. CASE displaced # NoIP
      <4> HIDE DEF displaced
      <4>1. assignableIPs' = AddBack(known, displaced)
        BY <3>1, <3>4
      <4>2. QED
        BY <2>4, <3>2, <3>4, <4>1
    <3>5. QED
      BY <3>3, <3>4
  <2>6. \A j \in Elements(assignableIPs') : Tracked(j)'
    BY <1>c, <2>1, <2>2, <2>5
  <2>7. /\ kept \in Seq(Nodes) /\ Unique(kept) /\ Elements(kept) \subseteq providerIDToNodeName
    BY <1>b, <1>d, <1>e DEF Active
  <2>8. Unique(assignableNodes') /\ Elements(assignableNodes') \subseteq providerIDToNodeName
    <3>1. \/ assignableNodes' = assignableNodes \/ assignableNodes' = kept
          \/ old.node \in providerIDToNodeName /\ assignableNodes' = AddFront(kept, old.node)
      BY <1>4 DEF Lookup, NodesAfterLookup, Active
    <3> HIDE DEF kept
    <3>2. old.node \in Nodes => /\ Unique(AddFront(kept, old.node))
                                /\ Elements(AddFront(kept, old.node)) = Elements(kept) \cup {old.node}
      BY <1>e, <2>7
    <3>3. QED
      BY <1>b, <1>d, <2>7, <3>1, <3>2
  <2>9. QueueSound'
    BY <1>4, <2>5, <2>6, <2>8 DEF Lookup, QueueSound
  <2>10. RetrySound' /\ LockSound'
    BY <1>4, NoRetriesNext DEF Lookup, Looking, NextIP, QueueInv, RetrySound, LockSound
  <2>11. QED
    BY <2>9, <2>10 DEF QueueInv
<1>5. QED
  BY <1>1, <1>2, <1>3, <1>4

(* reconcileAssignment: what is taken off a queue goes to the retry list or *)
(* is assigned, and the deferred Adds put back only what is not there.      *)
LEMMA QueueAssign ==
    ASSUME TypeOK, QueueInv,
           AssignDone \/ AssignSkipIP \/ AssignSkipNode
             \/ \E ip \in IPs, n \in Nodes : AssignIP(ip, n) \/ AssignIPFails(ip, n)
    PROVE  QueueInv'
<1>a. \A ip \in Elements(assignableIPs) \cup Elements(retryIPs) : ip \in IPs /\ Tracked(ip)
  BY DEF TypeOK, QueueInv, QueueSound, RetrySound, Elements
<1>b. Elements(assignableNodes) \cup Elements(retryProviders) \subseteq providerIDToNodeName
  BY DEF QueueInv, QueueSound, RetrySound, Active
<1>c. /\ Elements(assignableIPs) \cap Elements(retryIPs) = {}
      /\ Elements(assignableNodes) \cap Elements(retryProviders) = {}
  BY DEF QueueInv, RetrySound, IsSet
<1>1. CASE AssignDone
  <2>1. /\ assignableIPs \in Seq(IPs) /\ retryIPs \in Seq(IPs)
        /\ assignableNodes \in Seq(Nodes) /\ retryProviders \in Seq(Nodes)
        /\ Unique(assignableIPs) /\ Unique(retryIPs)
        /\ Unique(assignableNodes) /\ Unique(retryProviders)
    BY DEF TypeOK, QueueInv, QueueSound, RetrySound
  <2>2. /\ Unique(assignableIPs')
        /\ Elements(assignableIPs') = Elements(assignableIPs) \cup Elements(retryIPs)
    BY <1>1, <1>c, <2>1, ConcatUnique DEF AssignDone, Requeue
  <2>3. /\ Unique(assignableNodes')
        /\ Elements(assignableNodes') = Elements(assignableNodes) \cup Elements(retryProviders)
    BY <1>1, <1>c, <2>1, ConcatUnique DEF AssignDone, Requeue
  <2>4. QueueSound'
    BY <1>1, <1>a, <1>b, <2>2, <2>3 DEF AssignDone, QueueSound, Tracked
  <2>5. RetrySound' /\ LockSound'
    BY <1>1, NoRetriesNext DEF AssignDone, QueueInv, LockSound
  <2>6. QED
    BY <2>4, <2>5 DEF QueueInv
<1>2. CASE AssignSkipIP
  <2>1. pc = "assign" /\ CanAssign /\ pc' = "assign" /\ removing' = removing
    BY <1>2 DEF AssignSkipIP
  <2>2. QueueSound'
    BY <1>2, <1>a, <1>b, <2>1, QueueHeads DEF AssignSkipIP, QueueSound, Tracked, QueueInv
  <2>3. /\ Unique(retryIPs') /\ Elements(retryIPs') = Elements(retryIPs) \cup {Head(assignableIPs)}
        /\ Elements(assignableIPs') = Elements(assignableIPs) \ {Head(assignableIPs)}
    BY <1>2, <2>1, RetryAppend, QueueHeads DEF AssignSkipIP
  <2>4. RetrySound'
    BY <1>2, <1>a, <1>c, <2>1, <2>3, QueueHeads
       DEF AssignSkipIP, RetrySound, Tracked, Active, IsSet, QueueInv
  <2>5. QED
    BY <2>1, <2>2, <2>4 DEF QueueInv, LockSound
<1>3. CASE AssignSkipNode
  <2>1. pc = "assign" /\ CanAssign /\ pc' = "assign" /\ removing' = removing
    BY <1>3 DEF AssignSkipNode
  <2>2. QueueSound'
    BY <1>3, <1>a, <1>b, <2>1, QueueHeads DEF AssignSkipNode, QueueSound, Tracked, QueueInv
  <2>3. /\ Unique(retryIPs') /\ Elements(retryIPs') = Elements(retryIPs) \cup {Head(assignableIPs)}
        /\ Elements(assignableIPs') = Elements(assignableIPs) \ {Head(assignableIPs)}
    BY <1>3, <2>1, RetryAppend, QueueHeads DEF AssignSkipNode
  <2>4. /\ Unique(retryProviders')
        /\ Elements(retryProviders') = Elements(retryProviders) \cup {Head(assignableNodes)}
        /\ Elements(assignableNodes') = Elements(assignableNodes) \ {Head(assignableNodes)}
    BY <1>3, <2>1, RetryAppend, QueueHeads DEF AssignSkipNode
  <2>5. RetrySound'
    BY <1>3, <1>a, <1>b, <1>c, <2>1, <2>3, <2>4, QueueHeads
       DEF AssignSkipNode, RetrySound, Tracked, Active, IsSet, QueueInv
  <2>6. QED
    BY <2>1, <2>2, <2>5 DEF QueueInv, LockSound
<1>4. ASSUME NEW ip \in IPs, NEW n \in Nodes, AssignIP(ip, n)
      PROVE  QueueInv'
  <2>1. /\ pc = "assign" /\ CanAssign /\ pc' = "assign" /\ removing' = removing
        /\ ip = Head(assignableIPs) /\ n = Head(assignableNodes)
        /\ assignableIPs' = Tail(assignableIPs) /\ assignableNodes' = Tail(assignableNodes)
        /\ UNCHANGED <<providerIDToNodeName, retryIPs, retryProviders>>
    BY <1>4 DEF AssignIP, Assigning
  <2>2. \A j \in IPs : Tracked(j) => Tracked(j)'
    BY <1>4 DEF AssignIP, Tracked, Status, TypeOK
  <2>3. /\ Unique(assignableIPs') /\ Elements(assignableIPs') = Elements(assignableIPs) \ {ip}
        /\ Unique(assignableNodes') /\ Elements(assignableNodes') = Elements(assignableNodes) \ {n}
    BY <2>1, QueueHeads
  <2>4. QueueSound'
    BY <1>a, <1>b, <2>1, <2>2, <2>3 DEF QueueSound
  <2>5. RetrySound'
    BY <1>a, <1>b, <1>c, <2>1, <2>2, <2>3 DEF RetrySound, Active, IsSet, QueueInv
  <2>6. QED
    BY <2>1, <2>4, <2>5 DEF QueueInv, LockSound
<1>5. ASSUME NEW ip \in IPs, NEW n \in Nodes, AssignIPFails(ip, n)
      PROVE  QueueInv'
  <2>1. /\ pc = "assign" /\ CanAssign /\ pc' = "assign" /\ removing' = removing
        /\ ip = Head(assignableIPs) /\ n = Head(assignableNodes)
        /\ assignableIPs' = Tail(assignableIPs) /\ assignableNodes' = Tail(assignableNodes)
        /\ retryIPs' = Append(retryIPs, ip) /\ retryProviders' = Append(retryProviders, n)
        /\ UNCHANGED providerIDToNodeName
    BY <1>5 DEF AssignIPFails, Assigning
  <2>2. \A j \in IPs : Tracked(j) => Tracked(j)'
    BY <1>5 DEF AssignIPFails, Tracked, Status, TypeOK
  <2>3. /\ Unique(assignableIPs') /\ Elements(assignableIPs') = Elements(assignableIPs) \ {ip}
        /\ Unique(assignableNodes') /\ Elements(assignableNodes') = Elements(assignableNodes) \ {n}
    BY <2>1, QueueHeads
  <2>4. /\ Unique(retryIPs') /\ Elements(retryIPs') = Elements(retryIPs) \cup {ip}
        /\ Unique(retryProviders') /\ Elements(retryProviders') = Elements(retryProviders) \cup {n}
    BY <2>1, RetryAppend
  <2>5. Tracked(ip) /\ Active(n)
    BY <2>1, QueueHeads DEF Active
  <2>6. QueueSound'
    BY <1>a, <1>b, <2>1, <2>2, <2>3 DEF QueueSound
  <2>7. RetrySound'
    BY <1>a, <1>b, <1>c, <2>1, <2>2, <2>3, <2>4, <2>5 DEF RetrySound, Active, IsSet
  <2>8. QED
    BY <2>1, <2>6, <2>7 DEF QueueInv, LockSound
<1>6. QED
  BY <1>1, <1>2, <1>3, <1>4, <1>5

(* reconcileDNS and the publication of the status leave the queues alone.   *)
LEMMA QueuePublish ==
    ASSUME TypeOK, QueueInv,
           DNSSkip \/ EnsureDNS \/ EnsureDNSFails \/ PublishSkip \/ Publish \/ PublishFails
    PROVE  QueueInv'
<1> USE DEF Tracked, Goto
<1>1. CASE DNSSkip
  BY <1>1, QueueFrame DEF DNSSkip, QueueInv, LockSound
<1>2. CASE EnsureDNS
  BY <1>2, QueueFrame DEF EnsureDNS, QueueInv, LockSound
<1>3. CASE EnsureDNSFails
  BY <1>3, QueueFrame DEF EnsureDNSFails, QueueInv, LockSound
<1>4. CASE PublishSkip
  BY <1>4, QueueFrame DEF PublishSkip
<1>5. CASE Publish
  BY <1>5, QueueFrame DEF Publish
<1>6. CASE PublishFails
  BY <1>6, QueueFrame DEF PublishFails
<1>7. QED
  BY <1>1, <1>2, <1>3, <1>4, <1>5, <1>6

(* The handlers run between two passes, when the retry lists are empty.     *)
LEMMA QueueHandlers ==
    ASSUME TypeOK, QueueInv, Handlers
    PROVE  QueueInv'
<1>a. assignableIPs \in Seq(IPs) /\ Unique(assignableIPs)
  BY DEF TypeOK, QueueInv, QueueSound
<1>b. assignableNodes \in Seq(Nodes) /\ Unique(assignableNodes)
  BY DEF TypeOK, QueueInv, QueueSound
<1>c. \A ip \in Elements(assignableIPs) : ip \in IPs /\ Tracked(ip)
  BY DEF TypeOK, QueueInv, QueueSound, Elements
<1>d. Elements(assignableNodes) \subseteq providerIDToNodeName /\ providerIDToNodeName \subseteq Nodes
  BY DEF TypeOK, QueueInv, QueueSound
<1>e. \A v : /\ Unique(Delete(assignableIPs, v))
             /\ Elements(Delete(assignableIPs, v)) = Elements(assignableIPs) \ {v}
  BY <1>a, DeleteUnique
<1>f. \A v : /\ Unique(Delete(assignableNodes, v))
             /\ Elements(Delete(assignableNodes, v)) = Elements(assignableNodes) \ {v}
  BY <1>b, DeleteUnique
<1>g. \A ip \in IPs : /\ Unique(AddBack(assignableIPs, ip))
                      /\ Elements(AddBack(assignableIPs, ip)) = Elements(assignableIPs) \cup {ip}
  BY <1>a, AddBackUnique
<1>h. \A n \in Nodes : /\ Unique(AddBack(assignableNodes, n))
                       /\ Elements(AddBack(assignableNodes, n)) = Elements(assignableNodes) \cup {n}
  BY <1>b, AddBackUnique
<1>i. \A n \in Nodes : /\ Unique(AddFront(assignableNodes, n))
                       /\ Elements(AddFront(assignableNodes, n)) = Elements(assignableNodes) \cup {n}
  BY <1>b, AddFrontUnique
<1>1. CASE UpdateIPs
  BY <1>1, QueueFrame DEF UpdateIPs, Unlocked, Tracked
<1>2. CASE UpdateDNSSpec
  BY <1>2, QueueFrame DEF UpdateDNSSpec, Tracked, QueueInv, LockSound
<1>3. CASE UpdateProviders
  <2>1. QueueSound'
    BY <1>3 DEF UpdateProviders, ResetMaps, QueueSound, Unique, Elements
  <2>2. RetrySound' /\ LockSound'
    BY <1>3, NoRetriesNext DEF UpdateProviders, Goto, QueueInv, RetrySound, LockSound
  <2>3. QED
    BY <2>1, <2>2 DEF QueueInv
<1>4. ASSUME NEW ip \in IPs, RemoveIP(ip)
      PROVE  QueueInv'
  <2> DEFINE n == ipToStatus[ip].node
  <2>1. pc \in {"idle", "reset", "stopped"} /\ pc' = pc /\ removing' \subseteq removing
    BY <1>4 DEF RemoveIP, QueueInv, LockSound
  <2>2. RetrySound' /\ LockSound'
    BY <1>4, <2>1, NoRetriesNext DEF RemoveIP, QueueInv, RetrySound, LockSound
  <2>3. Unique(assignableIPs') /\ \A j \in Elements(assignableIPs') : Tracked(j)'
    BY <1>4, <1>c, <1>e DEF RemoveIP, Tracked, TypeOK
  <2>4. Unique(assignableNodes') /\ Elements(assignableNodes') \subseteq providerIDToNodeName'
    <3>1. providerIDToNodeName' = providerIDToNodeName
      BY <1>4 DEF RemoveIP
    <3>2. \/ assignableNodes' = assignableNodes
          \/ n \in providerIDToNodeName /\ assignableNodes' = AddFront(assignableNodes, n)
      BY <1>4 DEF RemoveIP, Active
    <3>3. QED
      BY <1>b, <1>d, <1>i, <3>1, <3>2
  <2>5. QED
    BY <2>2, <2>3, <2>4 DEF QueueInv, QueueSound
<1>5. ASSUME NEW n \in Nodes, EnableNode(n)
      PROVE  QueueInv'
  <2>1. RetrySound' /\ LockSound'
    BY <1>5, NoRetriesNext DEF EnableNode, Unlocked, QueueInv, RetrySound, LockSound
  <2>2. \A j \in IPs : Tracked(j) => Tracked(j)'
    <3>1. \A j \in IPs : ipToStatus'[j] = ipToStatus[j] \/ ipToStatus'[j] = Status("in-progress", n, TRUE)
      BY <1>5 DEF EnableNode, TypeOK
    <3>2. QED
      BY <3>1 DEF Tracked, Status
  <2>3. Unique(assignableIPs') /\ Elements(assignableIPs') \subseteq Elements(assignableIPs)
    <3>1. assignableIPs' \in {assignableIPs, Delete(assignableIPs, Claim(n))}
      BY <1>5 DEF EnableNode, IPsAfterEnable
    <3>2. QED
      BY <1>a, <1>e, <3>1
  <2>4. Unique(assignableNodes') /\ Elements(assignableNodes') \subseteq providerIDToNodeName'
    <3>1. providerIDToNodeName' = providerIDToNodeName \cup {n}
      BY <1>5 DEF EnableNode
    <3>2. assignableNodes' \in {assignableNodes, AddBack(assignableNodes, n)}
      BY <1>5 DEF EnableNode
    <3>3. QED
      BY <1>b, <1>d, <1>h, <3>1, <3>2
  <2>5. QED
    BY <1>c, <2>1, <2>2, <2>3, <2>4 DEF QueueInv, QueueSound
<1>6. ASSUME NEW n \in Nodes, DisableNode(n)
      PROVE  QueueInv'
  <2>1. RetrySound' /\ LockSound'
    BY <1>6, NoRetriesNext DEF DisableNode, Unlocked, QueueInv, RetrySound, LockSound
  <2>2. \A j \in IPs : Tracked(j) => Tracked(j)'
    <3> DEFINE st == Status("no-match", ipToStatus[Claim(n)].node, TRUE)
    <3>1. \A j \in IPs : ipToStatus'[j] = ipToStatus[j] \/ ipToStatus'[j] = st
      BY <1>6 DEF DisableNode, TypeOK
    <3>2. QED
      BY <3>1 DEF Tracked, Status
  <2>3. Unique(assignableIPs') /\ \A j \in Elements(assignableIPs') : Tracked(j)'
    <3>1. CASE Active(n) /\ Claim(n) # NoIP
      <4>1. Claim(n) \in IPs
        BY <3>1 DEF Claim, TypeOK
      <4>2. \A j \in IPs : j = Claim(n) => Tracked(j)'
        BY <1>6, <3>1, <4>1 DEF DisableNode, Tracked, Status, TypeOK, Claim
      <4>3. assignableIPs' = AddBack(assignableIPs, Claim(n))
        BY <1>6, <3>1 DEF DisableNode
      <4>4. /\ Unique(assignableIPs')
            /\ Elements(assignableIPs') = Elements(assignableIPs) \cup {Claim(n)}
        BY <1>g, <4>1, <4>3
      <4>5. QED
        BY <1>c, <2>2, <4>1, <4>2, <4>4
    <3>2. CASE ~(Active(n) /\ Claim(n) # NoIP)
      BY <1>6, <1>a, <1>c, <2>2, <3>2 DEF DisableNode
    <3>3. QED
      BY <3>1, <3>2
  <2>4. Unique(assignableNodes') /\ Elements(assignableNodes') \subseteq providerIDToNodeName'
    <3>1. providerIDToNodeName' = providerIDToNodeName \ {n}
      BY <1>6 DEF DisableNode
    <3>2. CASE Active(n)
      BY <1>6, <1>d, <1>f, <3>1, <3>2 DEF DisableNode
    <3>3. CASE ~Active(n)
      BY <1>6, <1>b, <1>d, <3>1, <3>3 DEF DisableNode, Active
    <3>4. QED
      BY <3>2, <3>3
  <2>5. QED
    BY <2>1, <2>3, <2>4 DEF QueueInv, QueueSound
<1>7. QED
  BY <1>1, <1>2, <1>3, <1>4, <1>5, <1>6 DEF Handlers

(* The environment touches no queue.                                        *)
LEMMA QueueEnvironment ==
    ASSUME TypeOK, QueueInv, Environment
    PROVE  QueueInv'
<1> USE DEF ControllerUnchanged, Tracked
<1>a. LockSound
  BY DEF QueueInv
<1>1. CASE ElapseCreate
  BY <1>1, <1>a, QueueFrame DEF ElapseCreate, LockSound
<1>2. CASE ElapseCoolOff
  BY <1>2, <1>a, QueueFrame DEF ElapseCoolOff, LockSound
<1>3. CASE EditSpec
  BY <1>3, <1>a, QueueFrame DEF EditSpec, LockSound
<1>4. CASE Watch
  BY <1>4, <1>a, QueueFrame DEF Watch, LockSound
<1>5. ASSUME NEW n \in Nodes, ElapseNode(n) PROVE QueueInv'
  BY <1>5, <1>a, QueueFrame DEF ElapseNode, LockSound
<1>6. ASSUME NEW n \in Nodes, WatchNode(n) PROVE QueueInv'
  BY <1>6, <1>a, QueueFrame DEF WatchNode, LockSound
<1>7. ASSUME NEW ip \in IPs, ElapseIP(ip) PROVE QueueInv'
  BY <1>7, <1>a, QueueFrame DEF ElapseIP, LockSound, TypeOK
<1>8. ASSUME NEW ip \in IPs, ActionEnds(ip) PROVE QueueInv'
  BY <1>8, <1>a, QueueFrame DEF ActionEnds, LockSound
<1>9. ASSUME NEW ip \in IPs, ExternalMove(ip) PROVE QueueInv'
  BY <1>9, <1>a, QueueFrame DEF ExternalMove, LockSound
<1>10. QED
  BY <1>1, <1>2, <1>3, <1>4, <1>5, <1>6, <1>7, <1>8, <1>9 DEF Environment

(* The queues of a new controller are empty.                                *)
LEMMA QueueInit == Init => QueueInv
<1> SUFFICES ASSUME Init PROVE QueueInv
  OBVIOUS
<1>1. RetrySound /\ LockSound
  BY NoRetries DEF Init, InitController, LockSound
<1>2. QueueSound
  BY DEF Init, InitController, QueueSound, Unique, Elements
<1>3. QED
  BY <1>1, <1>2 DEF QueueInv

(* QueueInv is inductive relative to TypeOK.                                *)
LEMMA QueueNext == TypeOK /\ QueueInv /\ [Next]_vars => QueueInv'
<1> SUFFICES ASSUME TypeOK, QueueInv, [Next]_vars PROVE QueueInv'
  OBVIOUS
<1>1. CASE Reconcile
  BY <1>1, QueueAllocate, QueueLookup, QueueAssign, QueuePublish DEF Reconcile
<1>2. CASE UNCHANGED vars
  BY <1>2, QueueFrame DEF vars, Tracked, QueueInv, LockSound
<1>3. QED
  BY <1>1, <1>2, QueueHandlers, QueueLifecycle, QueueEnvironment DEF Next

(* Whatever fails, is lost, is cancelled or crashes, reconcileAssignment    *)
(* never pops an IP without a status or a node that was disabled, and never *)
(* meets an IP or a node twice.                                             *)
THEOREM QueuesSound == Spec => []QueueSound
<1>1. Init => TypeOK /\ QueueInv
  BY TypeInit, QueueInit
<1>2. TypeOK /\ QueueInv /\ [Next]_vars => (TypeOK /\ QueueInv)'
  BY TypeNext, QueueNext
<1>3. TypeOK /\ QueueInv => QueueSound
  BY DEF QueueInv
<1>4. QED
  BY <1>1, <1>2, <1>3, PTL DEF Spec

-----------------------------------------------------------------------------
(***************************************************************************)
(* The claims.  A claim is backed by a status as long as no address is     *)
(* adopted twice: a pending address must be new, which a lost answer to    *)
(* onNewIPs ("lostNewIPs") would break.  PoolSound makes new addresses     *)
(* untracked ones; ScanComplete is what reconcileDNS relies on.            *)
(***************************************************************************)
ClaimInv == ClaimConsistent /\ PoolSound /\ PendingFresh /\ ScanComplete

(* A step that changes no claim, no address list and no status but for the  *)
(* elapsing of a retry time.                                                *)
LEMMA ClaimFrame ==
    ASSUME TypeOK, ClaimInv,
           UNCHANGED <<ips, pendingIPs, providerIDToIP, removing, poolVars, owned, cancelled, cursor>>,
           \A ip \in IPs : /\ ipToStatus'[ip].state = ipToStatus[ip].state
                           /\ ipToStatus'[ip].node = ipToStatus[ip].node
                           /\ ipToStatus'[ip].wait => ipToStatus[ip].wait,
           pc = "adopt" => pc' = "adopt",
           pc' = "status" => pc = "status",
           pc' \in {"assign", "dns"} => pc \in {"assign", "dns"}
    PROVE  ClaimInv'
<1>1. \A ip \in IPs : Tracked(ip)' <=> Tracked(ip)
  BY DEF Tracked
<1>2. ClaimConsistent'
  BY <1>1 DEF ClaimInv, ClaimConsistent, Claim, TypeOK
<1>3. PoolSound'
  BY <1>1 DEF ClaimInv, PoolSound
<1>4. PendingFresh'
  <2>1. Elements(pendingIPs) \subseteq IPs
    BY DEF TypeOK, Elements
  <2>2. QED
    BY <1>1, <2>1 DEF ClaimInv, PendingFresh
<1>5. ScanComplete'
  <2>1. \A i \in DOMAIN ips : ips[i] \in IPs
    BY DEF TypeOK
  <2>2. QED
    BY <1>1, <2>1 DEF ClaimInv, ScanComplete
<1>6. QED
  BY <1>2, <1>3, <1>4, <1>5 DEF ClaimInv

(* The same when no IP is tracked afterwards: a reset or a restart.         *)
LEMMA ClaimReset ==
    ASSUME ResetMaps
    PROVE  ClaimConsistent' /\ PoolSound' /\ \A ip \in IPs : ~Tracked(ip)' /\ ~ipToStatus'[ip].wait
<1>1. \A ip \in IPs : ~Tracked(ip)' /\ ~ipToStatus'[ip].wait
  BY DEF ResetMaps, Tracked, Absent, Status
<1>2. ClaimConsistent'
  BY DEF ResetMaps, ClaimConsistent, Claim
<1>3. QED
  BY <1>1, <1>2 DEF PoolSound

(* The life cycle.                                                          *)
LEMMA ClaimLifecycle ==
    ASSUME TypeOK, QueueInv, ClaimInv, Lifecycle
    PROVE  ClaimInv'
<1>1. CASE Start
  BY <1>1, ClaimFrame DEF Start, Goto
<1>2. CASE Wake
  BY <1>2, ClaimFrame DEF Wake, Goto
<1>3. CASE Stop
  <2>1. UNCHANGED <<ips, pendingIPs, providerIDToIP, removing, poolVars, owned, cursor, ipToStatus, pc>>
    BY <1>3 DEF Stop
  <2>2. \A ip : Tracked(ip)' <=> Tracked(ip)
    BY <2>1 DEF Tracked
  <2>3. ClaimConsistent' /\ PoolSound' /\ PendingFresh'
    BY <2>1, <2>2 DEF ClaimInv, ClaimConsistent, Claim, PoolSound, PendingFresh
  <2>4. cancelled' = TRUE /\ "cancel" \in Events
    BY <1>3 DEF Stop, Event
  <2>5. ScanComplete'
    BY <2>1, <2>2, <2>4 DEF ClaimInv, ScanComplete
  <2>6. QED
    BY <2>3, <2>5 DEF ClaimInv
<1>4. CASE Exit
  <2>1. /\ UNCHANGED <<ips, pendingIPs, providerIDToIP, removing, poolVars, owned, cursor, ipToStatus>>
        /\ pc = "idle" /\ pc' = "stopped" /\ cancelled' = FALSE
    BY <1>4 DEF Exit
  <2>2. \A ip : Tracked(ip)' <=> Tracked(ip)
    BY <2>1 DEF Tracked
  <2>3. ClaimConsistent' /\ PoolSound' /\ PendingFresh'
    BY <2>1, <2>2 DEF ClaimInv, ClaimConsistent, Claim, PoolSound, PendingFresh
  <2>4. ScanComplete'
    BY <2>1, <2>2 DEF ClaimInv, ScanComplete
  <2>5. QED
    BY <2>3, <2>4 DEF ClaimInv
<1>5. CASE Restart
  <2>1. /\ ips' = <<>> /\ pendingIPs' = <<>> /\ pc' = "reset" /\ cancelled' = FALSE
        /\ UNCHANGED <<poolVars, owned>> /\ ResetMaps
    BY <1>5 DEF Restart
  <2>2. Elements(<<>>) = {} /\ Unique(<<>>)
    BY DEF Elements, Unique
  <2>3. PendingFresh'
    BY <2>1, <2>2 DEF ClaimInv, PendingFresh
  <2>4. ScanComplete'
    BY <2>1, ClaimReset DEF ScanComplete
  <2>5. QED
    BY <2>1, <2>3, <2>4, ClaimReset DEF ClaimInv
<1>6. CASE Panic
  BY <1>6, ClaimFrame DEF Panic, Goto, NilStatus, Unlocked
<1>7. QED
  BY <1>1, <1>2, <1>3, <1>4, <1>5, <1>6 DEF Lifecycle

(* reconcileDesiredIPs and reconcilePendingIPs.  An address CreateIP        *)
(* returns was never seen before, so adopting it disturbs no claim.         *)
LEMMA ClaimAllocate ==
    ASSUME TypeOK, QueueInv, ClaimInv, "lostNewIPs" \notin Events,
           DesiredDone \/ CreateIP \/ CreateIPFails \/ PendingDone \/ OnNewIPs \/ OnNewIPsFails
             \/ AdoptIP
    PROVE  ClaimInv'
<1>a. Elements(pendingIPs) \subseteq IPs /\ Elements(ips) \subseteq IPs
  BY DEF TypeOK, Elements
<1>1. CASE DesiredDone
  BY <1>1, ClaimFrame DEF DesiredDone, Goto
<1>2. CASE CreateIP
  <2>1. PICK ip \in IPs \ owned : owned' = owned \cup {ip} /\ pendingIPs' = Append(pendingIPs, ip)
    BY <1>2 DEF CreateIP
  <2>2. /\ UNCHANGED <<ips, providerIDToIP, removing, poolVars, cursor, ipToStatus, pc, cancelled>>
        /\ pc = "desired" /\ removing = {}
    BY <1>2 DEF CreateIP, QueueInv, LockSound
  <2>3. \A j : Tracked(j)' <=> Tracked(j)
    BY <2>2 DEF Tracked
  <2>4. ClaimConsistent' /\ PoolSound' /\ ScanComplete'
    BY <2>2, <2>3 DEF ClaimInv, ClaimConsistent, Claim, PoolSound, ScanComplete
  <2>5. /\ ip \notin UserIPs /\ ip \notin Elements(ips) /\ ip \notin Elements(spec.ips)
        /\ ip \notin Elements(cache.ips) /\ ip \notin Elements(pendingIPs)
    BY <2>1 DEF ClaimInv, PendingFresh
  <2>6. ~Tracked(ip)
    BY <2>1, <2>2, <2>5 DEF ClaimInv, PoolSound
  <2>7. Unique(pendingIPs') /\ Elements(pendingIPs') = Elements(pendingIPs) \cup {ip}
    BY <2>1, <2>5, AppendUnique DEF ClaimInv, PendingFresh, TypeOK
  <2>8. PendingFresh'
    BY <2>1, <2>2, <2>3, <2>5, <2>6, <2>7 DEF ClaimInv, PendingFresh
  <2>9. QED
    BY <2>4, <2>8 DEF ClaimInv
<1>3. CASE CreateIPFails
  BY <1>3, ClaimFrame DEF CreateIPFails, Goto
<1>4. CASE PendingDone \/ OnNewIPsFails
  <2>1. /\ UNCHANGED <<ips, pendingIPs, providerIDToIP, removing, poolVars, owned, ipToStatus, cancelled>>
        /\ pc = "pending" /\ pc' = "status" /\ cursor' = 1
    BY <1>4 DEF PendingDone, OnNewIPsFails, StartStatus, Event
  <2>2. \A j : Tracked(j)' <=> Tracked(j)
    BY <2>1 DEF Tracked
  <2>3. ClaimConsistent' /\ PoolSound' /\ PendingFresh'
    BY <2>1, <2>2 DEF ClaimInv, ClaimConsistent, Claim, PoolSound, PendingFresh
  <2>4. \A i \in DOMAIN ips : ~(i < 1)
    BY DEF TypeOK
  <2>5. ScanComplete'
    BY <2>1, <2>2, <2>4 DEF ClaimInv, ScanComplete
  <2>6. QED
    BY <2>3, <2>5 DEF ClaimInv
<1>5. CASE OnNewIPs
  <2>1. /\ UNCHANGED <<ips, pendingIPs, providerIDToIP, removing, owned, ipToStatus, cancelled, cursor>>
        /\ pc = "pending" /\ pc' = "adopt" /\ spec'.ips = AllIPs
        /\ cache' = cache \/ cache' = spec'
    BY <1>5 DEF OnNewIPs, Goto, WriteSpec, TypeOK
  <2>2. \A j : Tracked(j)' <=> Tracked(j)
    BY <2>1 DEF Tracked
  <2>3. ClaimConsistent' /\ PoolSound' /\ ScanComplete'
    BY <2>1, <2>2 DEF ClaimInv, ClaimConsistent, Claim, PoolSound, ScanComplete
  <2>4. Elements(AllIPs) = Elements(ips) \cup Elements(pendingIPs)
    BY ConcatUnique DEF AllIPs, TypeOK
  <2>5. PendingFresh'
    BY <2>1, <2>2, <2>4 DEF ClaimInv, PendingFresh
  <2>6. QED
    BY <2>3, <2>5 DEF ClaimInv
<1>6. CASE AdoptIP
  <2> DEFINE ip == Head(pendingIPs)
  <2>1. /\ pendingIPs # <<>> /\ pc = "adopt" /\ ips' = Append(ips, ip) /\ pendingIPs' = Tail(pendingIPs)
        /\ ipToStatus' = [ipToStatus EXCEPT ![ip] = Status("unassigned", NoNode, FALSE)]
        /\ UNCHANGED <<providerIDToIP, removing, poolVars, owned, cancelled>>
    BY <1>6 DEF AdoptIP
  <2>2. \/ pc' = "status" /\ cursor' = 1 /\ pendingIPs' = <<>>
        \/ pc' = "adopt"
    BY <1>6 DEF AdoptIP, StartStatus
  <2>3. /\ ip \in IPs /\ ip \in Elements(pendingIPs)
        /\ Elements(Tail(pendingIPs)) = Elements(pendingIPs) \ {ip} /\ Unique(Tail(pendingIPs))
    BY <2>1, FrontUnique DEF TypeOK, ClaimInv, PendingFresh
  <2>4. Elements(ips') = Elements(ips) \cup {ip}
    BY <2>1, <2>3, AppendUnique DEF TypeOK
  <2>5. ~Tracked(ip) /\ ip \in owned
    BY <2>3 DEF ClaimInv, PendingFresh
  <2>6. \A j \in IPs : j # ip => ipToStatus'[j] = ipToStatus[j] /\ (Tracked(j)' <=> Tracked(j))
    BY <2>1, <2>3 DEF TypeOK, Tracked
  <2>7. \A n \in Nodes : Claim(n) # NoIP => Claim(n) # ip /\ Claim(n) \in IPs
    BY <2>5 DEF ClaimInv, ClaimConsistent, TypeOK, Claim
  <2>8. ClaimConsistent'
    BY <2>1, <2>6, <2>7 DEF ClaimInv, ClaimConsistent, Claim
  <2>9. PoolSound'
    BY <2>1, <2>4, <2>6 DEF ClaimInv, PoolSound
  <2>10. PendingFresh'
    <3>1. UserIPs \cup Elements(ips') \cup Elements(spec'.ips) \cup Elements(cache'.ips) \subseteq owned'
      BY <2>1, <2>4, <2>5 DEF ClaimInv, PendingFresh
    <3>2. Elements(pendingIPs') = Elements(pendingIPs) \ {ip} /\ Unique(pendingIPs')
      BY <2>1, <2>3
    <3>3. ASSUME NEW j \in Elements(pendingIPs')
          PROVE  /\ j \in owned' /\ j \notin UserIPs /\ j \notin Elements(ips') /\ ~Tracked(j)'
                 /\ pc' # "adopt" => j \notin Elements(spec'.ips) /\ j \notin Elements(cache'.ips)
      <4>1. j \in Elements(pendingIPs) /\ j # ip /\ j \in IPs
        BY <1>a, <3>2
      <4>2. j \in owned' /\ j \notin UserIPs /\ j \notin Elements(ips')
        BY <2>1, <2>4, <4>1 DEF ClaimInv, PendingFresh
      <4>3. ~Tracked(j)'
        BY <2>6, <4>1 DEF ClaimInv, PendingFresh
      <4>4. pc' = "adopt"
        BY <2>2 DEF Elements
      <4>5. QED
        BY <4>2, <4>3, <4>4
    <3>4. QED
      BY <3>1, <3>2, <3>3 DEF PendingFresh
  <2>11. ~ipToStatus'[ip].wait
    BY <2>1, <2>3 DEF TypeOK, Status
  <2>12. DOMAIN ips' \subseteq Nat \ {0}
    BY <2>1, <2>3 DEF TypeOK
  <2>13. ScanComplete'
    <3>1. \A j \in IPs : ~Tracked(j)' => ~ipToStatus'[j].wait
      BY <2>6, <2>11 DEF ClaimInv, ScanComplete
    <3>2. pc' = "status" => \A i \in DOMAIN ips' : ~(i < cursor')
      BY <2>2, <2>12
    <3>3. pc' \notin {"assign", "dns"}
      BY <2>2
    <3>4. QED
      BY <2>1, <3>1, <3>2, <3>3 DEF ClaimInv, ScanComplete
  <2>14. QED
    BY <2>8, <2>9, <2>10, <2>13 DEF ClaimInv
<1>7. QED
  BY <1>1, <1>2, <1>3, <1>4, <1>5, <1>6

(* A step that leaves the lists alone and tracks none but listed IPs.       *)
LEMMA PoolFrame ==
    ASSUME TypeOK, ClaimInv,
           UNCHANGED <<ips, pendingIPs, removing, poolVars, owned>>,
           pc # "adopt",
           \A j \in IPs : Tracked(j)' => Tracked(j) \/ j \in Elements(ips)
    PROVE  PoolSound' /\ PendingFresh'
<1>1. Elements(pendingIPs) \subseteq IPs
  BY DEF TypeOK, Elements
<1>2. PoolSound'
  BY DEF ClaimInv, PoolSound
<1>3. PendingFresh'
  BY <1>1 DEF ClaimInv, PendingFresh
<1>4. QED
  BY <1>2, <1>3

(* reconcileIPStatus.                                                       *)
LEMMA ClaimLookup ==
    ASSUME TypeOK, QueueInv, ClaimInv,
           StatusDone \/ LookupSkip \/ Lookup
             \/ \E err \in {"inProgress", "notFound", "other"} : LookupFails(err)
    PROVE  ClaimInv'
<1>a. \A i \in DOMAIN ips : i \in Nat /\ ips[i] \in IPs /\ ips[i] \in Elements(ips)
  BY DEF TypeOK, Elements
<1>b. Looking => cursor \in DOMAIN ips
  BY DEF Looking, TypeOK
<1>c. \A n \in Nodes : Claim(n) \in IPs \cup {NoIP} /\ Claim(n) = providerIDToIP[n]
  BY DEF Claim, TypeOK
<1>1. CASE StatusDone
  <2>1. /\ UNCHANGED <<ips, pendingIPs, providerIDToIP, removing, poolVars, owned, ipToStatus, cancelled,
                       cursor>>
        /\ pc = "status" /\ pc' = "assign" /\ (cancelled \/ cursor > Len(ips))
    BY <1>1 DEF StatusDone, Goto
  <2>2. \A j : Tracked(j)' <=> Tracked(j)
    BY <2>1 DEF Tracked
  <2>3. ClaimConsistent' /\ PoolSound' /\ PendingFresh'
    BY <2>1, <2>2 DEF ClaimInv, ClaimConsistent, Claim, PoolSound, PendingFresh
  <2>4. cancelled \/ \A i \in DOMAIN ips : i < cursor
    BY <2>1 DEF TypeOK
  <2>5. ScanComplete'
    BY <2>1, <2>2, <2>4 DEF ClaimInv, ScanComplete
  <2>6. QED
    BY <2>3, <2>5 DEF ClaimInv
<1>2. ASSUME Looking, NextIP, UNCHANGED ips,
             \A j \in IPs : Tracked(j) \/ j = ips[cursor] => Tracked(j)',
             \A j \in IPs : ~Tracked(j)' => ~ipToStatus'[j].wait
      PROVE  ScanComplete'
  <2>1. pc = "status" /\ pc' = "status" /\ cursor' = cursor + 1 /\ UNCHANGED cancelled
    BY <1>2 DEF Looking, NextIP
  <2>2. ASSUME NEW i \in DOMAIN ips, i < cursor' PROVE Tracked(ips[i])'
    <3>1. i = cursor \/ i < cursor
      BY <1>a, <2>1, <2>2 DEF TypeOK
    <3>2. QED
      BY <1>2, <1>a, <2>1, <3>1 DEF ClaimInv, ScanComplete, Tracked
  <2>3. QED
    BY <1>2, <2>1, <2>2 DEF ClaimInv, ScanComplete
<1>3. CASE LookupSkip
  <2>1. /\ UNCHANGED <<ips, pendingIPs, providerIDToIP, removing, poolVars, owned, ipToStatus, pc>>
        /\ Looking /\ NextIP /\ ipToStatus[ips[cursor]].wait /\ pc = "status"
    BY <1>3 DEF LookupSkip, NextIP, Looking
  <2>2. \A j : Tracked(j)' <=> Tracked(j)
    BY <2>1 DEF Tracked
  <2>3. ClaimConsistent' /\ PoolSound' /\ PendingFresh'
    BY <2>1, <2>2 DEF ClaimInv, ClaimConsistent, Claim, PoolSound, PendingFresh
  <2>4. Tracked(ips[cursor])
    BY <1>a, <1>b, <2>1 DEF ClaimInv, ScanComplete
  <2>5. ScanComplete'
    BY <1>2, <2>1, <2>2, <2>4 DEF ClaimInv, ScanComplete
  <2>6. QED
    BY <2>3, <2>5 DEF ClaimInv
<1>4. ASSUME NEW err \in {"inProgress", "notFound", "other"}, LookupFails(err)
      PROVE  ClaimInv'
  <2> DEFINE ip == ips[cursor]
             old == ipToStatus[ip]
             st == Status(IF err = "inProgress" THEN "in-progress" ELSE "error",
                          IF err = "notFound" THEN NoNode ELSE old.node, TRUE)
  <2>1. /\ UNCHANGED <<ips, pendingIPs, removing, poolVars, owned>>
        /\ Looking /\ NextIP /\ pc = "status"
        /\ ipToStatus' = [ipToStatus EXCEPT ![ip] = st]
        /\ IF err # "notFound" THEN providerIDToIP' = providerIDToIP
           ELSE providerIDToIP' = ClaimsWithout(old.node)
    BY <1>4 DEF LookupFails, NextIP, Looking
  <2>2. ip \in IPs /\ ip \in Elements(ips)
    BY <1>a, <1>b, <2>1
  <2>3. /\ ipToStatus'[ip].state # "absent"
        /\ ipToStatus'[ip].node = IF err = "notFound" THEN NoNode ELSE old.node
        /\ \A j \in IPs : j # ip => ipToStatus'[j] = ipToStatus[j]
    BY <2>1, <2>2 DEF TypeOK, Status
  <2>4. \A j \in IPs : Tracked(j)' <=> Tracked(j) \/ j = ip
    BY <2>3 DEF Tracked
  <2>5. ClaimConsistent'
    <3>1. ASSUME NEW n \in Nodes, providerIDToIP'[n] # NoIP
          PROVE  /\ providerIDToIP'[n] = providerIDToIP[n]
                 /\ err = "notFound" => n # old.node
      BY <2>1, <3>1 DEF ClaimsWithout
    <3>2. ASSUME NEW n \in Nodes, providerIDToIP'[n] # NoIP
          PROVE  /\ providerIDToIP[n] \in IPs /\ ipToStatus[providerIDToIP[n]].node = n
                 /\ Tracked(providerIDToIP[n])
      BY <1>c, <3>1, <3>2 DEF ClaimInv, ClaimConsistent
    <3>3. ASSUME NEW n \in Nodes, providerIDToIP'[n] # NoIP
          PROVE  /\ ipToStatus'[providerIDToIP[n]].state # "absent"
                 /\ ipToStatus'[providerIDToIP[n]].node = n
      <4>1. CASE providerIDToIP[n] = ip
        BY <2>3, <3>1, <3>2, <3>3, <4>1
      <4>2. CASE providerIDToIP[n] # ip
        BY <2>3, <3>2, <3>3, <4>2 DEF Tracked
      <4>3. QED
        BY <4>1, <4>2
    <3>4. QED
      BY <3>1, <3>3 DEF ClaimConsistent, Claim, Tracked
  <2>6. PoolSound' /\ PendingFresh'
    BY <2>1, <2>2, <2>4, PoolFrame
  <2>7. ScanComplete'
    BY <1>2, <2>1, <2>3, <2>4 DEF ClaimInv, ScanComplete
  <2>8. QED
    BY <2>5, <2>6, <2>7 DEF ClaimInv
<1>5. CASE Lookup
  <2> DEFINE ip == ips[cursor]
             p == attached[ip]
             old == ipToStatus[ip]
             moved == old.node # p
             displaced == IF moved THEN DisplacedIP(ip, p) ELSE NoIP
  <2>1. /\ UNCHANGED <<ips, pendingIPs, removing, poolVars, owned>>
        /\ Looking /\ NextIP /\ pc = "status"
        /\ ipToStatus' = [i \in IPs |->
              IF i = ip THEN Status(StateOf(p), p, TRUE)
              ELSE IF i = displaced THEN Status("error", NoNode, FALSE) ELSE ipToStatus[i]]
        /\ providerIDToIP' = [n \in Nodes |->
              IF ~moved THEN providerIDToIP[n]
              ELSE IF n = p THEN ip ELSE IF n = old.node THEN NoIP ELSE providerIDToIP[n]]
    BY <1>5 DEF Lookup, NextIP, Looking
  <2>2. ip \in IPs /\ ip \in Elements(ips)
    BY <1>a, <1>b, <2>1
  <2>3. /\ displaced # NoIP => /\ moved /\ p \in Nodes /\ displaced = providerIDToIP[p]
                              /\ displaced \in IPs /\ Tracked(displaced)
                              /\ ipToStatus[displaced].node = p /\ displaced # ip
        /\ displaced = NoIP => displaced \notin IPs
    BY <1>c, ConstantsAssumption DEF DisplacedIP, ClaimInv, ClaimConsistent
  <2>4. /\ ipToStatus'[ip].state # "absent" /\ ipToStatus'[ip].node = p
        /\ \A j \in IPs : j # ip /\ j # displaced => ipToStatus'[j] = ipToStatus[j]
        /\ \A j \in IPs : j # ip /\ j = displaced => ipToStatus'[j] = Status("error", NoNode, FALSE)
    <3> HIDE DEF moved, displaced
    <3>1. StateOf(p) # "absent"
      BY DEF StateOf
    <3>2. QED
      BY <2>1, <2>2, <3>1 DEF Status
  <2> HIDE DEF displaced
  <2>5. \A j \in IPs : Tracked(j)' <=> Tracked(j) \/ j = ip
    BY <2>3, <2>4 DEF Tracked, Status
  <2>6. ClaimConsistent'
    <3> SUFFICES ASSUME NEW n \in Nodes, providerIDToIP'[n] # NoIP
                 PROVE  /\ ipToStatus'[providerIDToIP'[n]].state # "absent"
                        /\ ipToStatus'[providerIDToIP'[n]].node = n
      BY DEF ClaimConsistent, Claim, Tracked
    <3>1. CASE providerIDToIP'[n] = ip /\ n = p
      BY <2>4, <3>1
    <3>2. CASE ~(providerIDToIP'[n] = ip /\ n = p)
      <4>1. /\ providerIDToIP'[n] = providerIDToIP[n]
            /\ moved => n # p /\ n # old.node
        BY <2>1, <3>2
      <4>2. /\ providerIDToIP[n] \in IPs /\ ipToStatus[providerIDToIP[n]].node = n
            /\ Tracked(providerIDToIP[n])
        BY <1>c, <4>1 DEF ClaimInv, ClaimConsistent
      <4>3. CASE providerIDToIP[n] = ip
        BY <2>4, <3>2, <4>1, <4>2, <4>3
      <4>4. CASE providerIDToIP[n] # ip
        <5>1. providerIDToIP[n] # displaced
          BY <2>3, <4>1, <4>2
        <5>2. QED
          BY <2>4, <4>1, <4>2, <4>4, <5>1 DEF Tracked
      <4>5. QED
        BY <4>3, <4>4
    <3>3. QED
      BY <3>1, <3>2
  <2>7. PoolSound' /\ PendingFresh'
    BY <2>1, <2>2, <2>5, PoolFrame
  <2>8. ScanComplete'
    BY <1>2, <2>1, <2>3, <2>4, <2>5 DEF ClaimInv, ScanComplete, Status
  <2>9. QED
    BY <2>6, <2>7, <2>8 DEF ClaimInv
<1>6. QED
  BY <1>1, <1>3, <1>4, <1>5

(* Giving ip to node n, or back to nobody after a failure.                  *)
LEMMA ClaimsAfterConsistent ==
    ASSUME TypeOK, ClaimConsistent, NEW ip \in IPs, NEW n \in Nodes, NEW c \in {ip, NoIP},
           NEW s \in {"in-progress", "error"}, NEW node \in NodeIDs, c = ip => node = n,
           ipToStatus' = [ipToStatus EXCEPT ![ip] = Status(s, node, TRUE)],
           providerIDToIP' = ClaimsAfter(ip, n, c)
    PROVE  /\ ClaimConsistent'
           /\ \A j \in IPs : j # ip => ipToStatus'[j] = ipToStatus[j]
           /\ ipToStatus'[ip].state # "absent"
<1>1. /\ \A j \in IPs : j # ip => ipToStatus'[j] = ipToStatus[j]
      /\ ipToStatus'[ip].state # "absent" /\ ipToStatus'[ip].node = node
  BY DEF TypeOK, Status
<1>2. ASSUME NEW m \in Nodes, providerIDToIP'[m] # NoIP
      PROVE  /\ ipToStatus'[providerIDToIP'[m]].state # "absent"
             /\ ipToStatus'[providerIDToIP'[m]].node = m
  <2>1. CASE m = n
    BY <1>1, <1>2, <2>1 DEF ClaimsAfter
  <2>2. CASE m # n
    <3>1. providerIDToIP'[m] = providerIDToIP[m] /\ m # ipToStatus[ip].node
      BY <1>2, <2>2 DEF ClaimsAfter
    <3>2. /\ providerIDToIP[m] \in IPs /\ Tracked(providerIDToIP[m])
          /\ ipToStatus[providerIDToIP[m]].node = m
      BY <1>2, <3>1 DEF TypeOK, ClaimConsistent, Claim
    <3>3. QED
      BY <1>1, <3>1, <3>2 DEF Tracked
  <2>3. QED
    BY <2>1, <2>2
<1>3. ClaimConsistent'
  BY <1>2 DEF ClaimConsistent, Claim, Tracked
<1>4. QED
  BY <1>1, <1>3

(* reconcileAssignment.                                                     *)
LEMMA ClaimAssign ==
    ASSUME TypeOK, QueueInv, ClaimInv,
           AssignDone \/ AssignSkipIP \/ AssignSkipNode
             \/ \E ip \in IPs, n \in Nodes : AssignIP(ip, n) \/ AssignIPFails(ip, n)
    PROVE  ClaimInv'
<1>1. CASE AssignDone
  BY <1>1, ClaimFrame DEF AssignDone
<1>2. CASE AssignSkipIP
  BY <1>2, ClaimFrame DEF AssignSkipIP
<1>3. CASE AssignSkipNode
  BY <1>3, ClaimFrame DEF AssignSkipNode
<1>4. ASSUME NEW ip \in IPs, NEW n \in Nodes, AssignIP(ip, n) \/ AssignIPFails(ip, n)
      PROVE  ClaimInv'
  <2>1. /\ UNCHANGED <<ips, pendingIPs, removing, poolVars, owned, cancelled, pc, cursor>>
        /\ pc = "assign" /\ Tracked(ip)
    BY <1>4 DEF AssignIP, AssignIPFails, Assigning, ProviderAssigns
  <2>2. \/ /\ ipToStatus' = [ipToStatus EXCEPT ![ip] = Status("in-progress", n, TRUE)]
           /\ providerIDToIP' = ClaimsAfter(ip, n, ip)
        \/ /\ ipToStatus' = [ipToStatus EXCEPT ![ip] = Status("error", NoNode, TRUE)]
           /\ providerIDToIP' = ClaimsAfter(ip, n, NoIP)
    BY <1>4 DEF AssignIP, AssignIPFails
  <2>3. /\ ClaimConsistent' /\ ipToStatus'[ip].state # "absent"
        /\ \A j \in IPs : j # ip => ipToStatus'[j] = ipToStatus[j]
    <3>1. ClaimConsistent /\ ip # NoIP /\ n \in NodeIDs /\ NoNode \in NodeIDs
      BY ConstantsAssumption DEF ClaimInv, NodeIDs
    <3>2. CASE /\ ipToStatus' = [ipToStatus EXCEPT ![ip] = Status("in-progress", n, TRUE)]
               /\ providerIDToIP' = ClaimsAfter(ip, n, ip)
      BY <3>1, <3>2, ClaimsAfterConsistent
    <3>3. CASE /\ ipToStatus' = [ipToStatus EXCEPT ![ip] = Status("error", NoNode, TRUE)]
               /\ providerIDToIP' = ClaimsAfter(ip, n, NoIP)
      BY <3>1, <3>3, ClaimsAfterConsistent
    <3>4. QED
      BY <2>2, <3>2, <3>3
  <2>4. \A j \in IPs : Tracked(j)' <=> Tracked(j)
    BY <2>1, <2>3 DEF Tracked
  <2>5. PoolSound' /\ PendingFresh'
    BY <2>1, <2>4, PoolFrame
  <2>6. ScanComplete'
    <3>1. \A i \in DOMAIN ips : ips[i] \in IPs
      BY DEF TypeOK
    <3>2. \A j \in IPs : ~Tracked(j)' => ~ipToStatus'[j].wait
      BY <2>1, <2>3, <2>4 DEF ClaimInv, ScanComplete
    <3>3. QED
      BY <2>1, <2>4, <3>1, <3>2 DEF ClaimInv, ScanComplete
  <2>7. QED
    BY <2>3, <2>5, <2>6 DEF ClaimInv
<1>5. QED
  BY <1>1, <1>2, <1>3, <1>4

(* reconcileDNS and the publication of the status.                          *)
LEMMA ClaimPublish ==
    ASSUME TypeOK, ClaimInv,
           DNSSkip \/ EnsureDNS \/ EnsureDNSFails \/ PublishSkip \/ Publish \/ PublishFails
    PROVE  ClaimInv'
<1> USE DEF Goto
<1>1. CASE DNSSkip
  BY <1>1, ClaimFrame DEF DNSSkip
<1>2. CASE EnsureDNS
  BY <1>2, ClaimFrame DEF EnsureDNS
<1>3. CASE EnsureDNSFails
  BY <1>3, ClaimFrame DEF EnsureDNSFails
<1>4. CASE PublishSkip
  BY <1>4, ClaimFrame DEF PublishSkip
<1>5. CASE Publish
  BY <1>5, ClaimFrame DEF Publish
<1>6. CASE PublishFails
  BY <1>6, ClaimFrame DEF PublishFails
<1>7. QED
  BY <1>1, <1>2, <1>3, <1>4, <1>5, <1>6

(* Outside a pass, ScanComplete asks little.                                *)
LEMMA ScanIdle ==
    ASSUME ClaimInv, pc' \in {"idle", "reset", "stopped"}, UNCHANGED cancelled,
           \A j \in IPs : ~Tracked(j)' => ~ipToStatus'[j].wait
    PROVE  ScanComplete'
BY DEF ClaimInv, ScanComplete

(* The handlers.                                                            *)
LEMMA ClaimHandlers ==
    ASSUME TypeOK, QueueInv, ClaimInv, Handlers
    PROVE  ClaimInv'
<1>c. \A n \in Nodes : Claim(n) \in IPs \cup {NoIP} /\ Claim(n) = providerIDToIP[n]
  BY DEF Claim, TypeOK
<1>1. CASE UpdateIPs
  <2>1. /\ UNCHANGED <<pendingIPs, providerIDToIP, poolVars, owned, ipToStatus, cancelled, cursor, pc>>
        /\ pc \in {"reset", "idle", "stopped"} /\ removing = {}
        /\ \/ UNCHANGED <<ips, removing>>
           \/ ips' = NewIPs /\ removing' = DroppedIPs
    BY <1>1 DEF UpdateIPs, Unlocked
  <2>2. \A j : Tracked(j)' <=> Tracked(j)
    BY <2>1 DEF Tracked
  <2>3. ClaimConsistent'
    BY <2>1, <2>2 DEF ClaimInv, ClaimConsistent, Claim
  <2>4. ScanComplete'
    BY <2>1, <2>2, ScanIdle DEF ClaimInv, ScanComplete
  <2>5. CASE UNCHANGED <<ips, removing>>
    BY <2>1, <2>2, <2>3, <2>4, <2>5 DEF ClaimInv, PoolSound, PendingFresh
  <2>6. CASE ips' = NewIPs /\ removing' = DroppedIPs
    <3>1. PoolSound'
      BY <2>2, <2>6 DEF PoolSound, DroppedIPs
    <3>2. Elements(ips') \subseteq Elements(cache.ips)
      BY <2>6, NewIPsType
    <3>3. PendingFresh'
      BY <2>1, <2>2, <3>2 DEF ClaimInv, PendingFresh
    <3>4. QED
      BY <2>3, <2>4, <3>1, <3>3 DEF ClaimInv
  <2>7. QED
    BY <2>1, <2>5, <2>6
<1>2. CASE UpdateDNSSpec
  BY <1>2, ClaimFrame DEF UpdateDNSSpec
<1>3. CASE UpdateProviders
  <2>1. /\ UNCHANGED <<ips, pendingIPs, removing, poolVars, owned, cancelled>>
        /\ pc = "stopped" /\ pc' = "reset" /\ ResetMaps
    BY <1>3 DEF UpdateProviders, Goto
  <2>2. PendingFresh'
    BY <2>1, ClaimReset, PoolFrame
  <2>3. ScanComplete'
    BY <2>1, ClaimReset, ScanIdle
  <2>4. QED
    BY <2>1, <2>2, <2>3, ClaimReset DEF ClaimInv
<1>4. ASSUME NEW ip \in IPs, RemoveIP(ip)
      PROVE  ClaimInv'
  <2>1. /\ UNCHANGED <<ips, pendingIPs, poolVars, owned, cancelled, pc>>
        /\ pc \in {"idle", "reset", "stopped"} /\ removing' = removing \ {ip}
        /\ ipToStatus' = [ipToStatus EXCEPT ![ip] = Absent]
        /\ providerIDToIP' = ClaimsWithout(ipToStatus[ip].node)
    BY <1>4 DEF RemoveIP, QueueInv, LockSound
  <2>2. /\ \A j \in IPs : j # ip => ipToStatus'[j] = ipToStatus[j]
        /\ ipToStatus'[ip] = Absent
    BY <2>1 DEF TypeOK
  <2>3. /\ \A j \in IPs : Tracked(j)' <=> Tracked(j) /\ j # ip
        /\ ~ipToStatus'[ip].wait
    BY <2>2 DEF Tracked, Absent, Status
  <2>4. ASSUME NEW n \in Nodes, providerIDToIP'[n] # NoIP
        PROVE  /\ ipToStatus'[providerIDToIP'[n]].state # "absent"
               /\ ipToStatus'[providerIDToIP'[n]].node = n
    <3>1. providerIDToIP'[n] = providerIDToIP[n] /\ n # ipToStatus[ip].node
      BY <2>1, <2>4 DEF ClaimsWithout
    <3>2. /\ providerIDToIP[n] \in IPs /\ ipToStatus[providerIDToIP[n]].node = n
          /\ Tracked(providerIDToIP[n])
      BY <1>c, <2>4, <3>1 DEF ClaimInv, ClaimConsistent
    <3>3. QED
      BY <2>2, <3>1, <3>2 DEF Tracked
  <2>5. ClaimConsistent'
    BY <2>4 DEF ClaimConsistent, Claim, Tracked
  <2>6. PoolSound'
    BY <2>1, <2>3 DEF ClaimInv, PoolSound
  <2>7. PendingFresh'
    <3>1. Elements(pendingIPs) \subseteq IPs
      BY DEF TypeOK, Elements
    <3>2. QED
      BY <2>1, <2>3, <3>1 DEF ClaimInv, PendingFresh
  <2>8. ScanComplete'
    BY <2>1, <2>2, <2>3, ScanIdle DEF ClaimInv, ScanComplete
  <2>9. QED
    BY <2>5, <2>6, <2>7, <2>8 DEF ClaimInv
<1>5. ASSUME NEW n \in Nodes, EnableNode(n) \/ DisableNode(n)
      PROVE  ClaimInv'
  <2>1. /\ UNCHANGED <<ips, pendingIPs, providerIDToIP, removing, poolVars, owned, cancelled, pc>>
        /\ pc \in {"idle", "reset", "stopped"}
    BY <1>5 DEF EnableNode, DisableNode, Unlocked
  <2>2. \/ ipToStatus' = ipToStatus
        \/ Claim(n) # NoIP /\ ipToStatus' = [ipToStatus EXCEPT ![Claim(n)] = Status("in-progress", n, TRUE)]
        \/ Claim(n) # NoIP /\ ipToStatus' = [ipToStatus EXCEPT
              ![Claim(n)] = Status("no-match", ipToStatus[Claim(n)].node, TRUE)]
    BY <1>5 DEF EnableNode, DisableNode
  <2>3. Claim(n) # NoIP => /\ Claim(n) \in IPs /\ Tracked(Claim(n))
                           /\ ipToStatus[Claim(n)].node = n
    BY <1>c DEF ClaimInv, ClaimConsistent
  <2>4. /\ \A j \in IPs : ipToStatus'[j].node = ipToStatus[j].node
        /\ \A j \in IPs : Tracked(j)' <=> Tracked(j)
        /\ \A j \in IPs : ~Tracked(j) => ipToStatus'[j] = ipToStatus[j]
    <3>1. ASSUME Claim(n) # NoIP, NEW j \in IPs, j = Claim(n)
          PROVE  /\ ipToStatus[j].node = n /\ ipToStatus[j].state # "absent"
                 /\ ipToStatus'[j].node = n /\ ipToStatus'[j].state # "absent"
      BY <2>2, <2>3, <3>1 DEF Tracked, TypeOK, Status
    <3>2. ASSUME NEW j \in IPs, j # Claim(n)
          PROVE  ipToStatus'[j] = ipToStatus[j]
      BY <2>2, <2>3, <3>2 DEF TypeOK
    <3>3. Claim(n) = NoIP => ipToStatus' = ipToStatus
      BY <2>2
    <3>4. QED
      BY <3>1, <3>2, <3>3 DEF Tracked
  <2>5. ClaimConsistent'
    BY <1>c, <2>1, <2>4 DEF ClaimInv, ClaimConsistent, Claim
  <2>6. PoolSound' /\ PendingFresh'
    BY <2>1, <2>4, PoolFrame
  <2>7. ScanComplete'
    BY <2>1, <2>4, ScanIdle DEF ClaimInv, ScanComplete
  <2>8. QED
    BY <2>5, <2>6, <2>7 DEF ClaimInv
<1>6. QED
  BY <1>1, <1>2, <1>3, <1>4, <1>5 DEF Handlers

(* The environment: users list only addresses that existed before.          *)
LEMMA ClaimEnvironment ==
    ASSUME TypeOK, QueueInv, ClaimInv, Environment
    PROVE  ClaimInv'
<1> USE DEF ControllerUnchanged
<1>1. CASE ElapseCreate
  BY <1>1, ClaimFrame DEF ElapseCreate
<1>2. CASE ElapseCoolOff
  BY <1>2, ClaimFrame DEF ElapseCoolOff
<1>3. CASE EditSpec \/ Watch
  <2>1. UNCHANGED <<ips, pendingIPs, providerIDToIP, removing, owned, ipToStatus, cancelled, cursor, pc>>
    BY <1>3 DEF EditSpec, Watch
  <2>2. \A j : Tracked(j)' <=> Tracked(j)
    BY <2>1 DEF Tracked
  <2>3. ClaimConsistent' /\ PoolSound' /\ ScanComplete'
    BY <2>1, <2>2 DEF ClaimInv, ClaimConsistent, Claim, PoolSound, ScanComplete
  <2>4. Elements(spec'.ips) \subseteq Elements(spec.ips) \cup UserIPs
    <3>1. CASE Watch
      BY <3>1 DEF Watch
    <3>2. CASE EditSpec
      <4>1. PICK s \in {[spec EXCEPT !.ips = l] : l \in IPLists}
                  \cup {[spec EXCEPT !.desired = d] : d \in DesiredIPs}
                  \cup {[spec EXCEPT !.dns = d] : d \in DNSSpecs}
                  \cup {[spec EXCEPT !.ips = Without(spec.ips, k)] : k \in DOMAIN spec.ips} :
                     spec' = s
        BY <3>2 DEF EditSpec, WriteSpec
      <4>2. spec \in [ips : Seq(IPs), desired : Nat, dns : DNSSpecs] /\ spec.ips \in Seq(IPs)
        BY DEF TypeOK
      <4>3. \A l \in IPLists : Elements(l) \subseteq UserIPs
        BY DEF UserIPs
      <4>4. \A k \in DOMAIN spec.ips : Elements(Without(spec.ips, k)) \subseteq Elements(spec.ips)
        BY <4>2, WithoutType
      <4>5. s.ips \in IPLists \/ s.ips = spec.ips \/ \E k \in DOMAIN spec.ips : s.ips = Without(spec.ips, k)
        BY <4>1, <4>2
      <4>6. QED
        BY <4>1, <4>3, <4>4, <4>5
    <3>3. QED
      BY <1>3, <3>1, <3>2
  <2>5. cache' \in {cache, spec, spec'}
    BY <1>3 DEF EditSpec, WriteSpec, Watch
  <2>6. PendingFresh'
    BY <2>1, <2>2, <2>4, <2>5 DEF ClaimInv, PendingFresh
  <2>7. QED
    BY <2>3, <2>6 DEF ClaimInv
<1>4. ASSUME NEW n \in Nodes, ElapseNode(n) PROVE ClaimInv'
  BY <1>4, ClaimFrame DEF ElapseNode
<1>5. ASSUME NEW n \in Nodes, WatchNode(n) PROVE ClaimInv'
  BY <1>5, ClaimFrame DEF WatchNode
<1>6. ASSUME NEW ip \in IPs, ElapseIP(ip) PROVE ClaimInv'
  BY <1>6, ClaimFrame DEF ElapseIP, TypeOK
<1>7. ASSUME NEW ip \in IPs, ActionEnds(ip) PROVE ClaimInv'
  BY <1>7, ClaimFrame DEF ActionEnds
<1>8. ASSUME NEW ip \in IPs, ExternalMove(ip) PROVE ClaimInv'
  BY <1>8, ClaimFrame DEF ExternalMove
<1>9. QED
  BY <1>1, <1>2, <1>3, <1>4, <1>5, <1>6, <1>7, <1>8 DEF Environment

(* A new controller tracks nothing and has allocated nothing.               *)
LEMMA ClaimInit == Init => ClaimInv
<1> SUFFICES ASSUME Init PROVE ClaimInv
  OBVIOUS
<1>1. /\ ips = <<>> /\ pendingIPs = <<>> /\ pc = "reset" /\ cancelled = FALSE
      /\ ipToStatus = [ip \in IPs |-> Absent] /\ providerIDToIP = [n \in Nodes |-> NoIP]
      /\ owned = UserIPs /\ spec.ips \in IPLists /\ cache = spec
  BY DEF Init, InitController
<1>2. \A ip \in IPs : ~Tracked(ip) /\ ~ipToStatus[ip].wait
  BY <1>1 DEF Tracked, Absent, Status
<1>3. ClaimConsistent /\ PoolSound
  BY <1>1, <1>2 DEF ClaimConsistent, Claim, PoolSound
<1>4. Elements(<<>>) = {} /\ Unique(<<>>)
  BY DEF Elements, Unique
<1>5. PendingFresh
  BY <1>1, <1>4 DEF PendingFresh, UserIPs
<1>6. ScanComplete
  BY <1>1, <1>2 DEF ScanComplete
<1>7. QED
  BY <1>3, <1>5, <1>6 DEF ClaimInv

(* ClaimInv is inductive relative to TypeOK and QueueInv.                   *)
LEMMA ClaimNext ==
    ASSUME "lostNewIPs" \notin Events
    PROVE  TypeOK /\ QueueInv /\ ClaimInv /\ [Next]_vars => ClaimInv'
<1> SUFFICES ASSUME TypeOK, QueueInv, ClaimInv, [Next]_vars PROVE ClaimInv'
  OBVIOUS
<1>1. CASE Reconcile
  BY <1>1, ClaimAllocate, ClaimLookup, ClaimAssign, ClaimPublish DEF Reconcile
<1>2. CASE UNCHANGED vars
  BY <1>2, ClaimFrame DEF vars
<1>3. QED
  BY <1>1, <1>2, ClaimHandlers, ClaimLifecycle, ClaimEnvironment DEF Next
-----------------------------------------------------------------------------
(* The invariant behind the three theorems that follow: types, queues,      *)
(* claims, and the freshness of the addresses reconcileDesiredIPs made.     *)
THEOREM Inductive ==
    ASSUME "lostNewIPs" \notin Events
    PROVE  Spec => []IInv
<1>1. Init => IInv
  BY TypeInit, QueueInit, ClaimInit DEF IInv, QueueInv, ClaimInv
<1>2. IInv /\ [Next]_vars => IInv'
  BY TypeNext, QueueNext, ClaimNext DEF IInv, QueueInv, ClaimInv
<1>3. QED
  BY <1>1, <1>2, PTL DEF Spec

(* Unless an answer of the API server to onNewIPs is lost, every claim of a *)
(* node on an IP is backed by that IP's status, through any lookups,        *)
(* assignments, failures, crashes, edits and stale caches.                  *)
THEOREM ClaimsConsistent ==
    ASSUME "lostNewIPs" \notin Events
    PROVE  Spec => []ClaimConsistent
<1>1. IInv => ClaimConsistent
  BY DEF IInv
<1>2. QED
  BY <1>1, Inductive, PTL

(* Under the same assumption updateIPs leaves no status of a dropped IP.    *)
THEOREM OnlyPoolTracked ==
    ASSUME "lostNewIPs" \notin Events
    PROVE  Spec => []TrackedInPool
<1>1. IInv => TrackedInPool
  BY DEF IInv, PoolSound, TrackedInPool
<1>2. QED
  BY <1>1, Inductive, PTL

(* No nil *ipStatus is met while the context is not cancelled.              *)
LEMMA NoNilStatus ==
    ASSUME IInv, ~cancelled
    PROVE  ~NilStatus
<1>1. TypeOK /\ QueueInv /\ ClaimConsistent /\ ScanComplete
  BY DEF IInv, QueueInv
<1>2. CASE pc = "dns"
  <2>1. DNSReadable
    BY <1>1, <1>2 DEF ScanComplete, DNSReadable, Elements
  <2>2. QED
    BY <1>2, <2>1 DEF NilStatus
<1>3. CASE pc = "assign"
  BY <1>1, <1>3, QueueHeads DEF NilStatus
<1>4. CASE pc \notin {"dns", "assign"}
  BY <1>1, <1>4 DEF NilStatus, Readable, ClaimConsistent
<1>5. QED
  BY <1>2, <1>3, <1>4

(* Under the same assumption a nil *ipStatus is dereferenced only in a pass *)
(* whose context was cancelled.                                             *)
THEOREM NeverPanics ==
    ASSUME "lostNewIPs" \notin Events
    PROVE  Spec => []NoPanic
<1>1. IInv /\ ~cancelled => ~NilStatus
  BY NoNilStatus
<1>2. Init => NoPanic
  BY DEF Init, InitController, NoPanic
<1>3. IInv /\ NoPanic /\ [Next]_vars => NoPanic'
  <2> SUFFICES ASSUME IInv, NoPanic, [Next]_vars PROVE NoPanic'
    OBVIOUS
  <2> USE DEF NoPanic, Goto
  <2>stutter. CASE UNCHANGED vars
    BY <2>stutter DEF vars
  <2>1. CASE Reconcile
    <3>1. CASE DesiredDone \/ CreateIP \/ CreateIPFails \/ PendingDone \/ OnNewIPs
                 \/ OnNewIPsFails \/ AdoptIP
      BY <3>1 DEF DesiredDone, CreateIP, CreateIPFails, PendingDone, OnNewIPs, OnNewIPsFails,
                  AdoptIP, StartStatus
    <3>2. CASE StatusDone \/ LookupSkip \/ Lookup
                 \/ \E err \in {"inProgress", "notFound", "other"} : LookupFails(err)
      BY <3>2 DEF StatusDone, LookupSkip, Lookup, LookupFails, NextIP
    <3>3. CASE AssignDone \/ AssignSkipIP \/ AssignSkipNode
                 \/ \E ip \in IPs, n \in Nodes : AssignIP(ip, n) \/ AssignIPFails(ip, n)
      BY <3>3 DEF AssignDone, AssignSkipIP, AssignSkipNode, AssignIP, AssignIPFails
    <3>4. CASE DNSSkip \/ EnsureDNS \/ EnsureDNSFails \/ PublishSkip \/ Publish \/ PublishFails
      BY <3>4 DEF DNSSkip, EnsureDNS, EnsureDNSFails, PublishSkip, Publish, PublishFails
    <3>5. QED
      BY <2>1, <3>1, <3>2, <3>3, <3>4 DEF Reconcile
  <2>2. CASE Handlers
    BY <2>2 DEF Handlers, UpdateIPs, UpdateDNSSpec, UpdateProviders, RemoveIP, EnableNode, DisableNode
  <2>3. CASE Lifecycle
    BY <1>1, <2>3 DEF Lifecycle, Start, Wake, Stop, Exit, Restart, Panic
  <2>4. CASE Environment
    BY <2>4 DEF Environment, ControllerUnchanged, ElapseCreate, ElapseCoolOff, EditSpec, Watch,
                ElapseNode, WatchNode, ElapseIP, ActionEnds, ExternalMove
  <2> QED
    BY <2>stutter, <2>1, <2>2, <2>3, <2>4 DEF Next
<1>4. QED
  BY <1>2, <1>3, Inductive, PTL DEF Spec
-----------------------------------------------------------------------------
\* Nobody edits the pool or stops its controller, and the informer has what
\* was written; the pool lists all addresses that point at nodes, and no more
\* than desiredIPs.  The provider may do anything.
Unedited ==
    /\ Events \cap {"edit", "stale", "lostNewIPs", "cancel"} = {}
    /\ \A l \in IPLists : Elements(l) = UserIPs /\ \A d \in DesiredIPs : d = 0 \/ Len(l) <= d

\* newIPController, before the first updateIPs.
Unloaded == pc = "reset" /\ ips = <<>> /\ pendingIPs = <<>> /\ desiredIPs = 0

\* The pool is the one in the spec, and grows no larger than desiredIPs.
PoolInSync ==
    /\ removing = {} /\ ~cancelled /\ pc \notin {"stopped", "panicked"}
    /\ cache = spec /\ ValidSpec(spec) /\ disabledIPs = {}
    /\ UserIPs \subseteq Elements(spec.ips)
    /\ spec.desired # 0 => Len(spec.ips) <= spec.desired
    /\ \/ Unloaded
       \/ /\ desiredIPs = spec.desired
          /\ spec.ips = IF pc = "adopt" THEN AllIPs ELSE ips
          /\ pendingIPs # <<>> => Len(ips) + Len(pendingIPs) <= desiredIPs

\* What is known to be active is where the provider has it, no two IPs are on
\* one node or on their way to it, and whatever changes the active IPs leaves
\* dnsDirty set.
RecordInSync ==
    /\ pc # "stopped" /\ (removing # {} => dnsDirty)
    /\ \A ip \in IPs : ipToStatus[ip].state = "active" =>
          /\ ipToStatus[ip].node = attached[ip] /\ attached[ip] # NoNode
          /\ inflight[ip] = NoNode
    /\ \A i, j \in IPs : i # j =>
          {attached[i], inflight[i]} \cap {attached[j], inflight[j]} \subseteq {NoNode}
    /\ dns # "none" /\ ~dnsDirty => dnsRecord = ActiveIPs

(***************************************************************************)
(* Unedited pools: PoolInSync is inductive relative to IInv, whatever the  *)
(* provider does.  CreateIP and onNewIPs fail, the process crashes and     *)
(* loads the pool again.                                                   *)
(***************************************************************************)

(* Moving the head of b to the end of a keeps the two of them in order.     *)
LEMMA ShiftHead ==
    ASSUME NEW S, NEW a \in Seq(S), NEW b \in Seq(S), b # <<>>
    PROVE  /\ Append(a, Head(b)) \o Tail(b) = a \o b
           /\ Tail(b) = <<>> => Append(a, Head(b)) = a \o b
           /\ Len(Append(a, Head(b))) = Len(a) + 1 /\ Len(Tail(b)) = Len(b) - 1
           /\ Len(a \o b) = Len(a) + Len(b) /\ Len(b) # 0
<1> DEFINE c == Append(a, Head(b))
           t == Tail(b)
<1>1. /\ Len(a) \in Nat /\ Len(b) \in Nat /\ Len(b) # 0 /\ Head(b) = b[1] /\ b[1] \in S
      /\ t \in Seq(S) /\ Len(t) = Len(b) - 1 /\ \A i \in 1 .. Len(b) - 1 : t[i] = b[i + 1]
  OBVIOUS
<1>2. /\ c \in Seq(S) /\ Len(c) = Len(a) + 1 /\ c[Len(a) + 1] = b[1]
      /\ \A i \in 1 .. Len(a) : c[i] = a[i]
  BY <1>1
<1>3. /\ a \o b \in Seq(S) /\ Len(a \o b) = Len(a) + Len(b)
      /\ \A i \in 1 .. Len(a) : (a \o b)[i] = a[i]
      /\ \A i \in 1 .. Len(b) : (a \o b)[Len(a) + i] = b[i]
  <2>1. a \o b \in Seq(S) /\ Len(a \o b) = Len(a) + Len(b)
    OBVIOUS
  <2>2. \A i \in 1 .. Len(a) : (a \o b)[i] = a[i]
    BY <1>1
  <2>3. ASSUME NEW i \in 1 .. Len(b) PROVE (a \o b)[Len(a) + i] = b[i]
    BY <1>1, <2>3
  <2>4. QED
    BY <2>1, <2>2, <2>3
<1> HIDE DEF c, t
<1>4. c \o t = a \o b
  <2>1. c \o t \in Seq(S) /\ Len(c \o t) = Len(a) + Len(b)
    <3>1. c \o t \in Seq(S) /\ Len(c \o t) = Len(c) + Len(t)
      <4>1. c \in Seq(S) /\ t \in Seq(S)
        BY <1>1, <1>2
      <4>2. QED
        BY <4>1
    <3>2. Len(c) + Len(t) = Len(a) + Len(b)
      BY <1>1, <1>2
    <3>3. QED
      BY <3>1, <3>2
  <2>2. ASSUME NEW i \in 1 .. Len(a) + Len(b) PROVE (c \o t)[i] = (a \o b)[i]
    <3>1. CASE i <= Len(a)
      BY <1>1, <1>2, <1>3, <3>1
    <3>2. CASE i = Len(a) + 1
      BY <1>1, <1>2, <1>3, <3>2
    <3>3. CASE i > Len(a) + 1
      <4>1. PICK k \in 1 .. Len(b) - 1 : i = Len(a) + 1 + k
        <5>1. i - Len(a) - 1 \in 1 .. Len(b) - 1 /\ i = Len(a) + 1 + (i - Len(a) - 1)
          BY <1>1, <3>3
        <5>2. QED
          BY <5>1
      <4>2. (c \o t)[i] = t[k]
        BY <1>1, <1>2, <4>1
      <4>3. (a \o b)[i] = b[k + 1]
        <5>1. k + 1 \in 1 .. Len(b) /\ i = Len(a) + (k + 1)
          BY <1>1, <4>1
        <5>2. QED
          BY <1>3, <5>1
      <4>4. QED
        BY <1>1, <4>2, <4>3
    <3>4. i <= Len(a) \/ i = Len(a) + 1 \/ i > Len(a) + 1
      BY <1>1
    <3>5. QED
      BY <3>1, <3>2, <3>3, <3>4
  <2>3. QED
    BY <1>1, <1>3, <2>1, <2>2
<1>5. t = <<>> => c \o t = c
  BY <1>2
<1>6. QED
  BY <1>1, <1>2, <1>3, <1>4, <1>5 DEF c, t

(* A step that does not touch the pool.                                     *)
LEMMA SpecFrame ==
    ASSUME PoolInSync, UNCHANGED <<specVars, removing, cancelled, poolVars>>,
           pc' \notin {"stopped", "panicked"}, pc' = "adopt" <=> pc = "adopt",
           Unloaded => pc' = "reset"
    PROVE  PoolInSync'
BY DEF PoolInSync, Unloaded, AllIPs, ValidSpec

(* Types of the pool's lists, for the arithmetic on their lengths.          *)
LEMMA PoolTypes ==
    ASSUME TypeOK
    PROVE  /\ ips \in Seq(IPs) /\ pendingIPs \in Seq(IPs) /\ desiredIPs \in Nat
           /\ spec \in [ips : Seq(IPs), desired : Nat, dns : DNSSpecs]
           /\ Len(ips) \in Nat /\ Len(pendingIPs) \in Nat
<1>1. /\ ips \in Seq(IPs) /\ pendingIPs \in Seq(IPs) /\ desiredIPs \in Nat
      /\ spec \in [ips : Seq(IPs), desired : Nat, dns : DNSSpecs]
  BY DEF TypeOK
<1>2. QED
  BY <1>1

(* reconcileDesiredIPs and reconcilePendingIPs.                             *)
LEMMA PoolAllocate ==
    ASSUME Unedited, IInv, PoolInSync,
           DesiredDone \/ CreateIP \/ CreateIPFails \/ PendingDone \/ OnNewIPs \/ OnNewIPsFails
             \/ AdoptIP
    PROVE  PoolInSync'
<1>1. /\ ips \in Seq(IPs) /\ pendingIPs \in Seq(IPs) /\ desiredIPs \in Nat
      /\ spec \in [ips : Seq(IPs), desired : Nat, dns : DNSSpecs]
      /\ Len(ips) \in Nat /\ Len(pendingIPs) \in Nat
  BY PoolTypes DEF IInv
<1>2. CASE DesiredDone \/ CreateIPFails \/ PendingDone
  BY <1>2, SpecFrame DEF DesiredDone, CreateIPFails, PendingDone, Goto, StartStatus, Unloaded
<1>3. CASE OnNewIPsFails
  <2>1. UNCHANGED poolVars
    BY <1>3 DEF OnNewIPsFails, Event, Unedited
  <2>2. QED
    BY <1>3, <2>1, SpecFrame DEF OnNewIPsFails, StartStatus, Unloaded
<1>4. CASE CreateIP
  <2>1. /\ pc = "desired" /\ NeedsIP
        /\ UNCHANGED <<ips, disabledIPs, desiredIPs, runVars, poolVars>>
    BY <1>4 DEF CreateIP
  <2>2. PICK ip \in IPs \ owned : pendingIPs' = Append(pendingIPs, ip)
    BY <1>4 DEF CreateIP
  <2>3. Len(pendingIPs') = Len(pendingIPs) + 1
    BY <1>1, <2>2
  <2>4. desiredIPs = spec.desired /\ spec.ips = ips
    BY <2>1 DEF PoolInSync, Unloaded
  <2>5. QED
    BY <1>1, <2>1, <2>3, <2>4 DEF PoolInSync, NeedsIP, ValidSpec
<1>5. CASE OnNewIPs
  <2>1. /\ pc = "pending" /\ pc' = "adopt" /\ pendingIPs # <<>>
        /\ spec' = [spec EXCEPT !.ips = AllIPs] /\ cache' = spec'
        /\ UNCHANGED <<specVars, cancelled, removing>>
    BY <1>5 DEF OnNewIPs, WriteSpec, Goto, Unedited
  <2>2. desiredIPs = spec.desired /\ spec.ips = ips
    BY <2>1 DEF PoolInSync, Unloaded
  <2>3. /\ Elements(AllIPs) = Elements(ips) \cup Elements(pendingIPs)
        /\ Len(AllIPs) = Len(ips) + Len(pendingIPs) /\ Len(pendingIPs) # 0
    BY <1>1, <2>1, ConcatUnique, ShiftHead DEF AllIPs
  <2>4. spec'.ips = AllIPs /\ spec'.desired = spec.desired /\ AllIPs' = AllIPs
    BY <1>1, <2>1 DEF AllIPs
  <2>5. AllIPs # <<>>
    BY <1>1, <2>3
  <2>6. Len(AllIPs) <= desiredIPs
    BY <1>1, <2>1, <2>3 DEF PoolInSync, Unloaded
  <2>7. ValidSpec(spec)'
    BY <2>4, <2>5 DEF ValidSpec
  <2>8. UserIPs \subseteq Elements(spec'.ips)
    BY <2>2, <2>3, <2>4 DEF PoolInSync
  <2>9. QED
    BY <1>1, <2>1, <2>2, <2>3, <2>4, <2>6, <2>7, <2>8 DEF PoolInSync
<1>6. CASE AdoptIP
  <2>1. /\ pc = "adopt" /\ pendingIPs # <<>>
        /\ ips' = Append(ips, Head(pendingIPs)) /\ pendingIPs' = Tail(pendingIPs)
        /\ pc' = IF pendingIPs' = <<>> THEN "status" ELSE "adopt"
        /\ UNCHANGED <<cancelled, removing, disabledIPs, desiredIPs, poolVars>>
    BY <1>6 DEF AdoptIP, StartStatus
  <2>2. /\ desiredIPs = spec.desired /\ spec.ips = AllIPs
        /\ Len(ips) + Len(pendingIPs) <= desiredIPs
    BY <2>1 DEF PoolInSync, Unloaded
  <2>3. /\ (ips \o pendingIPs)' = ips \o pendingIPs
        /\ pendingIPs' = <<>> => ips' = ips \o pendingIPs
        /\ Len(ips') = Len(ips) + 1 /\ Len(pendingIPs') = Len(pendingIPs) - 1
    BY <1>1, <2>1, ShiftHead
  <2>4. spec'.ips = IF pc' = "adopt" THEN AllIPs' ELSE ips'
    BY <2>1, <2>2, <2>3 DEF AllIPs
  <2>5. Len(ips') + Len(pendingIPs') <= desiredIPs'
    BY <1>1, <2>1, <2>2, <2>3
  <2>6. QED
    BY <2>1, <2>2, <2>4, <2>5 DEF PoolInSync, ValidSpec
<1>7. QED
  BY <1>2, <1>3, <1>4, <1>5, <1>6

(* The rest of a pass.                                                      *)
LEMMA PoolReconcile ==
    ASSUME Unedited, IInv, PoolInSync, Reconcile
    PROVE  PoolInSync'
<1> USE DEF Goto, Unloaded
<1>1. CASE StatusDone \/ LookupSkip \/ Lookup
  BY <1>1, SpecFrame DEF StatusDone, LookupSkip, Lookup, NextIP, Looking
<1>2. ASSUME NEW err \in {"inProgress", "notFound", "other"}, LookupFails(err) PROVE PoolInSync'
  BY <1>2, SpecFrame DEF PoolInSync, LookupFails, NextIP, Looking
<1>3. CASE AssignDone \/ AssignSkipIP \/ AssignSkipNode
  BY <1>3, SpecFrame DEF AssignDone, AssignSkipIP, AssignSkipNode
<1>4. ASSUME NEW ip \in IPs, NEW n \in Nodes, AssignIP(ip, n) \/ AssignIPFails(ip, n)
      PROVE  PoolInSync'
  BY <1>4, SpecFrame DEF AssignIP, AssignIPFails, Assigning
<1>5. CASE DNSSkip \/ EnsureDNS \/ EnsureDNSFails \/ PublishSkip \/ Publish \/ PublishFails
  BY <1>5, SpecFrame DEF DNSSkip, EnsureDNS, EnsureDNSFails, PublishSkip, Publish, PublishFails
<1>6. QED
  BY <1>1, <1>2, <1>3, <1>4, <1>5, PoolAllocate DEF Reconcile

(* updateIPs changes something once after a start, when it loads the pool.  *)
LEMMA PoolLoaded ==
    ASSUME IInv, PoolInSync, UpdateIPs
    PROVE  /\ pc \in {"reset", "idle"} /\ disabledIPs' = {} /\ removing' = {} /\ PoolInSync'
           /\ \/ UNCHANGED <<specVars, updateStatus>>
              \/ Unloaded /\ updateStatus'
<1>1. ~Truncated /\ NewIPs = spec.ips
  <2>1. cache = spec /\ (spec.desired # 0 => Len(spec.ips) <= spec.desired)
    BY DEF PoolInSync
  <2>2. spec.desired \in Nat /\ spec.ips \in Seq(IPs)
    BY DEF IInv, TypeOK
  <2>3. QED
    BY <2>1, <2>2 DEF Truncated, NewIPs
<1>2. /\ pc \in {"reset", "idle"} /\ cache = spec /\ removing = {} /\ disabledIPs = {}
      /\ desiredIPs' = spec.desired /\ disabledIPs' = {}
      /\ UNCHANGED <<pc, cancelled, pendingIPs, poolVars>>
  BY <1>1 DEF UpdateIPs, Unlocked, PoolInSync
<1>3. CASE SameIPs
  <2>1. ~Unloaded
    BY <1>1, <1>2, <1>3 DEF SameIPs, Unloaded, PoolInSync, ValidSpec
  <2>2. desiredIPs' = desiredIPs /\ UNCHANGED <<ips, updateStatus, removing>>
    BY <1>2, <1>3, <2>1 DEF PoolInSync, UpdateIPs
  <2>3. QED
    BY <1>2, <2>1, <2>2, SpecFrame
<1>4. CASE ~SameIPs
  <2>1. Unloaded
    BY <1>1, <1>2, <1>4 DEF SameIPs, PoolInSync
  <2>2. ips' = spec.ips /\ updateStatus' = TRUE /\ removing' = DroppedIPs
    BY <1>1, <1>4 DEF UpdateIPs
  <2>3. DroppedIPs = {}
    <3>1. Elements(ips) = {}
      BY <2>1 DEF Unloaded, Elements
    <3>2. QED
      BY <1>2, <3>1 DEF IInv, PoolSound, DroppedIPs
  <2>4. PoolInSync'
    BY <1>2, <2>1, <2>2, <2>3 DEF PoolInSync, Unloaded, ValidSpec
  <2>5. QED
    BY <1>2, <2>1, <2>2, <2>3, <2>4
<1>5. QED
  BY <1>3, <1>4

(* What an unedited pool rules out.                                         *)
LEMMA PoolQuiet ==
    ASSUME Unedited, IInv, PoolInSync
    PROVE  /\ ~Stop /\ ~Exit /\ ~Panic /\ ~UpdateProviders /\ ~EditSpec /\ ~Watch
           /\ \A ip \in IPs : ~RemoveIP(ip)
           /\ Restart => "crash" \in Events
<1>1. ~cancelled /\ pc \notin {"stopped", "panicked"} /\ cache = spec /\ removing = {}
  BY DEF PoolInSync
<1>2. QED
  BY <1>1, NoNilStatus DEF Stop, Exit, Panic, UpdateProviders, EditSpec, Watch, RemoveIP, Restart,
                           Event, Unedited

(* Every step keeps PoolInSync.                                             *)
LEMMA PoolNext ==
    ASSUME Unedited, IInv, PoolInSync, [Next]_vars
    PROVE  PoolInSync'
<1> USE DEF Unloaded
<1>1. /\ pc \notin {"stopped", "panicked"}
      /\ ~Stop /\ ~Exit /\ ~Panic /\ ~UpdateProviders /\ ~EditSpec /\ ~Watch
      /\ \A ip \in IPs : ~RemoveIP(ip)
  BY PoolQuiet DEF PoolInSync
<1>2. CASE Handlers
  <2>1. CASE UpdateIPs
    BY <2>1, PoolLoaded
  <2>2. CASE UpdateDNSSpec
    BY <1>1, <2>2, SpecFrame DEF UpdateDNSSpec
  <2>3. ASSUME NEW n \in Nodes, EnableNode(n) \/ DisableNode(n) PROVE PoolInSync'
    BY <1>1, <2>3, SpecFrame DEF EnableNode, DisableNode
  <2>4. QED
    BY <1>1, <1>2, <2>1, <2>2, <2>3 DEF Handlers
<1>3. CASE Lifecycle
  <2>1. CASE Start \/ Wake
    BY <2>1, SpecFrame DEF Start, Wake, Goto
  <2>2. CASE Restart
    BY <2>2 DEF Restart, PoolInSync, ValidSpec
  <2>3. QED
    BY <1>1, <1>3, <2>1, <2>2 DEF Lifecycle
<1>4. CASE Environment
  <2>1. UNCHANGED <<specVars, runVars, poolVars>>
    BY <1>1, <1>4 DEF Environment, ControllerUnchanged, ElapseCreate, ElapseCoolOff, ElapseNode,
                      WatchNode, ElapseIP, ActionEnds, ExternalMove
  <2>2. QED
    BY <1>1, <2>1, SpecFrame
<1>5. CASE UNCHANGED vars
  BY <1>1, <1>5, SpecFrame DEF vars
<1>6. QED
  BY <1>2, <1>3, <1>4, <1>5, PoolReconcile DEF Next

(* newIPController.                                                         *)
LEMMA PoolInit ==
    ASSUME Unedited, Init
    PROVE  PoolInSync
<1>1. /\ ips = <<>> /\ pendingIPs = <<>> /\ desiredIPs = 0 /\ pc = "reset" /\ disabledIPs = {}
      /\ removing = {} /\ ~cancelled /\ ValidSpec(spec) /\ cache = spec
      /\ spec.ips \in IPLists /\ spec.desired \in DesiredIPs
  BY DEF Init, InitController
<1>2. /\ Elements(spec.ips) = UserIPs
      /\ spec.desired = 0 \/ Len(spec.ips) <= spec.desired
  BY <1>1 DEF Unedited
<1>3. QED
  BY <1>1, <1>2 DEF PoolInSync, Unloaded

(* An allocated address is listed, or about to be, through every step but a *)
(* crash between CreateIP and onNewIPs.                                     *)
LEMMA AllocatedNext ==
    ASSUME Unedited, "crash" \notin Events, IInv, PoolInSync, AllocatedListed, [Next]_vars
    PROVE  AllocatedListed'
<1>1. /\ ips \in Seq(IPs) /\ pendingIPs \in Seq(IPs)
      /\ spec \in [ips : Seq(IPs), desired : Nat, dns : DNSSpecs]
  BY PoolTypes DEF IInv
<1>2. /\ ~Restart /\ ~Stop /\ ~Exit /\ ~Panic /\ ~UpdateProviders /\ ~EditSpec /\ ~Watch
      /\ \A ip \in IPs : ~RemoveIP(ip)
  BY PoolQuiet
<1>3. CASE CreateIP
  <2>1. PICK ip \in IPs \ owned : pendingIPs' = Append(pendingIPs, ip) /\ owned' = owned \cup {ip}
    BY <1>3 DEF CreateIP
  <2>2. Elements(pendingIPs') = Elements(pendingIPs) \cup {ip} /\ spec' = spec
    BY <1>1, <1>3, <2>1, AppendUnique DEF CreateIP
  <2>3. QED
    BY <2>1, <2>2 DEF AllocatedListed
<1>4. CASE OnNewIPs
  <2>1. /\ spec' = [spec EXCEPT !.ips = AllIPs] /\ UNCHANGED <<pendingIPs, owned>>
        /\ pc = "pending"
    BY <1>4 DEF OnNewIPs, WriteSpec
  <2>2. spec.ips = ips /\ spec'.ips = AllIPs
    BY <1>1, <2>1 DEF PoolInSync, Unloaded
  <2>3. Elements(AllIPs) = Elements(ips) \cup Elements(pendingIPs)
    BY <1>1, ConcatUnique DEF AllIPs
  <2>4. QED
    BY <2>1, <2>2, <2>3 DEF AllocatedListed
<1>5. CASE AdoptIP
  <2>1. UNCHANGED <<spec, owned>> /\ spec.ips = AllIPs
    BY <1>5 DEF AdoptIP, PoolInSync, Unloaded
  <2>2. Elements(AllIPs) = Elements(ips) \cup Elements(pendingIPs)
    BY <1>1, ConcatUnique DEF AllIPs
  <2>3. QED
    BY <2>1, <2>2 DEF AllocatedListed
<1>6. CASE Reconcile /\ ~CreateIP /\ ~OnNewIPs /\ ~AdoptIP
  <2>1. UNCHANGED <<spec, pendingIPs, owned>>
    <3>1. CASE OnNewIPsFails
      BY <3>1 DEF OnNewIPsFails, Event, Unedited
    <3>2. CASE \E ip \in IPs, n \in Nodes : AssignIP(ip, n) \/ AssignIPFails(ip, n)
      BY <3>2 DEF AssignIP, AssignIPFails, ProviderAssigns
    <3>3. CASE \E err \in {"inProgress", "notFound", "other"} : LookupFails(err)
      BY <3>3 DEF LookupFails
    <3>4. QED
      BY <1>6, <3>1, <3>2, <3>3
         DEF Reconcile, DesiredDone, CreateIPFails, PendingDone, StatusDone, LookupSkip, Lookup,
             AssignDone, AssignSkipIP, AssignSkipNode, DNSSkip, EnsureDNS, EnsureDNSFails,
             PublishSkip, Publish, PublishFails
  <2>2. QED
    BY <2>1 DEF AllocatedListed
<1>7. CASE Handlers \/ Lifecycle \/ Environment \/ UNCHANGED vars
  <2>1. UNCHANGED <<spec, pendingIPs, owned>>
    <3>1. CASE Handlers
      BY <1>2, <3>1 DEF Handlers, UpdateIPs, UpdateDNSSpec, EnableNode, DisableNode
    <3>2. CASE Lifecycle
      BY <1>2, <3>2 DEF Lifecycle, Start, Wake
    <3>3. CASE Environment
      BY <1>2, <3>3 DEF Environment, ControllerUnchanged, ElapseCreate, ElapseCoolOff, ElapseNode,
                        WatchNode, ElapseIP, ActionEnds, ExternalMove
    <3>4. CASE UNCHANGED vars
      BY <3>4 DEF vars
    <3>5. QED
      BY <1>7, <3>1, <3>2, <3>3, <3>4
  <2>2. QED
    BY <2>1 DEF AllocatedListed
<1>8. QED
  BY <1>3, <1>4, <1>5, <1>6, <1>7 DEF Next

(* Unless the process crashes, no address that CreateIP allocated is lost:  *)
(* it is in the spec or in pendingIPs, whatever other calls fail.           *)
THEOREM NoneLeaked ==
    ASSUME Unedited, "crash" \notin Events
    PROVE  Spec => []AllocatedListed
<1>1. "lostNewIPs" \notin Events
  BY DEF Unedited
<1>2. Spec => []IInv
  BY <1>1, Inductive
<1>3. Init => PoolInSync /\ AllocatedListed
  <2> SUFFICES ASSUME Init PROVE PoolInSync /\ AllocatedListed
    OBVIOUS
  <2>1. PoolInSync /\ owned = UserIPs
    BY PoolInit DEF Init
  <2>2. QED
    BY <2>1 DEF PoolInSync, AllocatedListed
<1>4. IInv /\ PoolInSync /\ AllocatedListed /\ [Next]_vars => (PoolInSync /\ AllocatedListed)'
  BY PoolNext, AllocatedNext
<1>5. QED
  BY <1>2, <1>3, <1>4, PTL DEF Spec
-----------------------------------------------------------------------------
(***************************************************************************)
(* The A record: RecordInSync is inductive relative to IInv, for           *)
(* synchronous and asynchronous providers.  Excluded are somebody else     *)
(* moving the IPs and a cancelled context.                                 *)
(***************************************************************************)

(* A step that leaves the provider alone: an IP that turns active is where  *)
(* the provider said, and a record that stays clean holds the active IPs.   *)
LEMMA RecordFrame ==
    ASSUME RecordInSync, UNCHANGED <<attached, inflight>>, pc' # "stopped",
           removing' # {} => dnsDirty',
           \A ip \in IPs : ipToStatus'[ip].state = "active" =>
              \/ ipToStatus[ip].state = "active" /\ ipToStatus'[ip].node = ipToStatus[ip].node
              \/ /\ ipToStatus'[ip].node = attached[ip] /\ attached[ip] # NoNode
                 /\ inflight[ip] = NoNode,
           dns' # "none" /\ ~dnsDirty' =>
              /\ dns # "none" /\ ~dnsDirty
              /\ dnsRecord' = dnsRecord /\ ActiveIPs' = ActiveIPs
    PROVE  RecordInSync'
<1>1. \A ip \in IPs : ipToStatus'[ip].state = "active" =>
          /\ ipToStatus'[ip].node = attached'[ip] /\ attached'[ip] # NoNode
          /\ inflight'[ip] = NoNode
  BY DEF RecordInSync
<1>2. \A i, j \in IPs : i # j =>
          {attached'[i], inflight'[i]} \cap {attached'[j], inflight'[j]} \subseteq {NoNode}
  BY DEF RecordInSync
<1>3. dns' # "none" /\ ~dnsDirty' => dnsRecord' = ActiveIPs'
  BY DEF RecordInSync
<1>4. QED
  BY <1>1, <1>2, <1>3 DEF RecordInSync

(* The set of active IPs depends on the list and the states.                *)
LEMMA ActiveFrame ==
    ASSUME TypeOK, UNCHANGED ips,
           \A ip \in IPs : ipToStatus'[ip].state = "active" <=> ipToStatus[ip].state = "active"
    PROVE  ActiveIPs' = ActiveIPs
<1>1. Elements(ips) \subseteq IPs
  BY DEF TypeOK, Elements
<1>2. QED
  BY <1>1 DEF ActiveIPs

(* A step that changes neither the states nor the record.                   *)
LEMMA RecordKept ==
    ASSUME TypeOK, RecordInSync, pc' # "stopped",
           UNCHANGED <<attached, inflight, dns, dnsRecord, ips, removing>>,
           dnsDirty => dnsDirty',
           \A ip \in IPs : /\ ipToStatus'[ip].state = ipToStatus[ip].state
                           /\ ipToStatus'[ip].node = ipToStatus[ip].node
    PROVE  RecordInSync'
<1>1. ActiveIPs' = ActiveIPs
  BY ActiveFrame
<1>2. removing' # {} => dnsDirty'
  BY DEF RecordInSync
<1>3. QED
  BY <1>1, <1>2, RecordFrame

(* reconcileDesiredIPs and reconcilePendingIPs.                             *)
LEMMA RecordAllocate ==
    ASSUME IInv, RecordInSync,
           DesiredDone \/ CreateIP \/ CreateIPFails \/ PendingDone \/ OnNewIPs \/ OnNewIPsFails
             \/ AdoptIP
    PROVE  RecordInSync'
<1>1. TypeOK /\ PendingFresh
  BY DEF IInv
<1>2. CASE DesiredDone \/ CreateIPFails \/ PendingDone \/ OnNewIPs \/ OnNewIPsFails
  BY <1>1, <1>2, RecordKept DEF DesiredDone, CreateIPFails, PendingDone, OnNewIPs, OnNewIPsFails,
                                Goto, StartStatus
<1>3. CASE CreateIP
  BY <1>1, <1>3, RecordKept DEF CreateIP, RecordInSync
<1>4. CASE AdoptIP
  <2>1. PICK ip : ip = Head(pendingIPs)
    OBVIOUS
  <2>2. /\ pendingIPs # <<>> /\ ips' = Append(ips, ip) /\ pc' # "stopped"
        /\ ipToStatus' = [ipToStatus EXCEPT ![ip] = Status("unassigned", NoNode, FALSE)]
        /\ UNCHANGED <<removing, flagVars, attached, inflight, dnsRecord>>
    BY <1>4, <2>1 DEF AdoptIP, StartStatus, RecordInSync
  <2>3. /\ ips \in Seq(IPs) /\ pendingIPs \in Seq(IPs)
        /\ ip \in IPs /\ ip \in Elements(pendingIPs)
    BY <1>1, <2>1, <2>2, PoolTypes, FrontUnique
  <2>4. ipToStatus[ip].state # "active"
    BY <1>1, <2>3 DEF PendingFresh, Tracked
  <2>5. /\ ipToStatus'[ip].state = "unassigned"
        /\ \A j \in IPs : j # ip => ipToStatus'[j] = ipToStatus[j]
    BY <1>1, <2>2, <2>3 DEF TypeOK, Status
  <2>6. ActiveIPs' = ActiveIPs
    <3>1. Elements(ips') = Elements(ips) \cup {ip} /\ Elements(ips) \subseteq IPs
      BY <2>2, <2>3, AppendUnique DEF Elements
    <3>2. QED
      BY <2>4, <2>5, <3>1 DEF ActiveIPs
  <2>7. removing' # {} => dnsDirty'
    BY <2>2 DEF RecordInSync
  <2>8. QED
    BY <2>2, <2>5, <2>6, <2>7, RecordFrame
<1>5. QED
  BY <1>2, <1>3, <1>4

(* reconcileIPStatus: an IP enters or leaves the active ones only with a    *)
(* change of state, which marks the record.                                 *)
LEMMA RecordLookup ==
    ASSUME IInv, RecordInSync,
           StatusDone \/ LookupSkip \/ Lookup
             \/ \E err \in {"inProgress", "notFound", "other"} : LookupFails(err)
    PROVE  RecordInSync'
<1>1. TypeOK /\ ClaimConsistent
  BY DEF IInv
<1>2. CASE StatusDone \/ LookupSkip
  BY <1>1, <1>2, RecordKept DEF StatusDone, LookupSkip, NextIP, Goto, RecordInSync
<1>3. Looking => ips[cursor] \in IPs
  <2> SUFFICES ASSUME Looking PROVE ips[cursor] \in IPs
    OBVIOUS
  <2>1. cursor \in DOMAIN ips /\ ips \in Seq(IPs)
    BY <1>1 DEF Looking, TypeOK
  <2>2. QED
    BY <2>1
<1>4. PICK ip : ip = ips[cursor]
  OBVIOUS
<1>5. ASSUME NEW err \in {"inProgress", "notFound", "other"}, LookupFails(err) PROVE RecordInSync'
  <2>0. PICK new :
            new = Status(IF err = "inProgress" THEN "in-progress" ELSE "error",
                         IF err = "notFound" THEN NoNode ELSE ipToStatus[ip].node, TRUE)
    OBVIOUS
  <2>1. /\ new.state \in {"in-progress", "error"}
        /\ ipToStatus' = [ipToStatus EXCEPT ![ip] = new]
        /\ \E changed \in Differs(ipToStatus[ip].state, new.state) :
              dnsDirty' = (dnsDirty \/ changed)
    <3>1. new.state \in {"in-progress", "error"}
      BY <2>0 DEF Status
    <3>2. /\ ipToStatus' = [ipToStatus EXCEPT ![ip] = new]
          /\ \E changed \in Differs(ipToStatus[ip].state, new.state) :
                dnsDirty' = (dnsDirty \/ changed)
      BY <1>4, <1>5, <2>0 DEF LookupFails
    <3>3. QED
      BY <3>1, <3>2
  <2>2. /\ ip \in IPs /\ pc' # "stopped"
        /\ UNCHANGED <<ips, attached, inflight, removing, dns, dnsRecord>>
    BY <1>3, <1>4, <1>5 DEF LookupFails, NextIP, RecordInSync
  <2>3. dnsDirty' \/ (~dnsDirty /\ ipToStatus[ip].state # "active")
    BY <2>1 DEF Differs
  <2>4. dnsDirty => dnsDirty'
    BY <2>1
  <2>5. /\ ipToStatus'[ip].state # "active"
        /\ \A j \in IPs : j # ip => ipToStatus'[j] = ipToStatus[j]
    BY <1>1, <2>1, <2>2 DEF TypeOK
  <2>6. ~dnsDirty' => ActiveIPs' = ActiveIPs
    BY <1>1, <2>2, <2>3, <2>5, ActiveFrame
  <2>7. removing' # {} => dnsDirty'
    BY <2>2, <2>4 DEF RecordInSync
  <2>8. QED
    BY <2>2, <2>4, <2>5, <2>6, <2>7, RecordFrame
<1>6. CASE Lookup
  <2>1. PICK p : p = attached[ip]
    OBVIOUS
  <2>2. PICK displaced :
            /\ displaced = IF ipToStatus[ip].node # p THEN DisplacedIP(ip, p) ELSE NoIP
            /\ ipToStatus' = [i \in IPs |->
                  IF i = ip THEN Status(StateOf(p), p, TRUE)
                  ELSE IF i = displaced THEN Status("error", NoNode, FALSE) ELSE ipToStatus[i]]
    BY <1>4, <1>6, <2>1 DEF Lookup
  <2>3. /\ ip \in IPs /\ pc' # "stopped" /\ inflight[ip] = NoNode
        /\ UNCHANGED <<ips, attached, inflight, removing, dns, dnsRecord>>
        /\ dnsDirty' = (dnsDirty \/ ipToStatus[ip].state # StateOf(p))
    BY <1>3, <1>4, <1>6, <2>1 DEF Lookup, LookupChanges, NextIP, RecordInSync
  <2>4. p \in NodeIDs /\ (StateOf(p) = "active" => p # NoNode)
    BY <1>1, <2>1, <2>3, ConstantsAssumption DEF TypeOK, StateOf, Active
  <2>5. displaced \in IPs => displaced # ip /\ ipToStatus[displaced].state # "active"
    <3> SUFFICES ASSUME displaced \in IPs PROVE displaced # ip /\ ipToStatus[displaced].state # "active"
      OBVIOUS
    <3>1. p \in Nodes /\ displaced = Claim(p) /\ displaced # ip
      BY <2>2, ConstantsAssumption DEF DisplacedIP, Claim
    <3>2. ipToStatus[displaced].node = p /\ p # NoNode
      BY <1>1, <3>1, ConstantsAssumption DEF ClaimConsistent
    <3>3. attached[displaced] # p
      BY <2>1, <2>3, <3>1, <3>2 DEF RecordInSync
    <3>4. QED
      BY <3>1, <3>2, <3>3 DEF RecordInSync
  <2>6. /\ ipToStatus'[ip].state = StateOf(p) /\ ipToStatus'[ip].node = p
        /\ \A j \in IPs : j # ip =>
              \/ ipToStatus'[j] = ipToStatus[j]
              \/ ipToStatus'[j].state # "active" /\ ipToStatus[j].state # "active"
    BY <2>2, <2>3, <2>5 DEF Status
  <2>7. ~dnsDirty' => ActiveIPs' = ActiveIPs
    BY <1>1, <2>3, <2>6, ActiveFrame
  <2>8. removing' # {} => dnsDirty'
    BY <2>3 DEF RecordInSync
  <2>9. QED
    BY <2>1, <2>3, <2>4, <2>6, <2>7, <2>8, RecordFrame
<1>7. QED
  BY <1>2, <1>5, <1>6

(* reconcileAssignment: AssignIP marks the record and, done, under way or   *)
(* with its answer lost, never gives a node a second IP.                    *)
LEMMA RecordAssign ==
    ASSUME IInv, RecordInSync,
           AssignDone \/ AssignSkipIP \/ AssignSkipNode
             \/ \E ip \in IPs, n \in Nodes : AssignIP(ip, n) \/ AssignIPFails(ip, n)
    PROVE  RecordInSync'
<1>1. TypeOK
  BY DEF IInv
<1>2. CASE AssignDone \/ AssignSkipIP \/ AssignSkipNode
  BY <1>1, <1>2, RecordKept DEF AssignDone, AssignSkipIP, AssignSkipNode, RecordInSync
<1>3. ASSUME NEW ip \in IPs, NEW n \in Nodes, AssignIP(ip, n) \/ AssignIPFails(ip, n)
      PROVE  RecordInSync'
  <2>1. dnsDirty' /\ pc' # "stopped" /\ n # NoNode
    BY <1>3, ConstantsAssumption DEF AssignIP, AssignIPFails, Assigning, RecordInSync
  <2>2. PICK s \in {"in-progress", "error"}, node \in NodeIDs :
            ipToStatus' = [ipToStatus EXCEPT ![ip] = Status(s, node, TRUE)]
    BY <1>3 DEF AssignIP, AssignIPFails, NodeIDs
  <2>3. /\ ipToStatus'[ip].state # "active"
        /\ \A j \in IPs : j # ip => ipToStatus'[j] = ipToStatus[j]
    BY <1>1, <2>2 DEF TypeOK, Status
  <2>4. \/ UNCHANGED <<attached, inflight>>
        \/ /\ attached[ip] = n \/ ~NodeInUse(ip, n)
           /\ \/ inflight' = [inflight EXCEPT ![ip] = n] /\ UNCHANGED attached
              \/ attached' = [attached EXCEPT ![ip] = n] /\ UNCHANGED inflight
    BY <1>3 DEF AssignIP, AssignIPFails, ProviderAssigns
  <2>5. CASE UNCHANGED <<attached, inflight>>
    BY <2>1, <2>3, <2>5, RecordFrame
  <2>6. CASE /\ attached[ip] = n \/ ~NodeInUse(ip, n)
             /\ \/ inflight' = [inflight EXCEPT ![ip] = n] /\ UNCHANGED attached
                \/ attached' = [attached EXCEPT ![ip] = n] /\ UNCHANGED inflight
    <3>1. \A j \in IPs : j # ip =>
              attached[j] # n /\ inflight[j] # n /\ attached'[j] = attached[j] /\ inflight'[j] = inflight[j]
      BY <1>1, <2>1, <2>6 DEF NodeInUse, RecordInSync, TypeOK
    <3>2. {attached'[ip], inflight'[ip]} \subseteq {attached[ip], inflight[ip], n}
      BY <1>1, <2>6 DEF TypeOK
    <3>3. \A i, j \in IPs : i # j =>
              {attached'[i], inflight'[i]} \cap {attached'[j], inflight'[j]} \subseteq {NoNode}
      BY <3>1, <3>2 DEF RecordInSync
    <3>4. \A j \in IPs : ipToStatus'[j].state = "active" =>
              /\ ipToStatus'[j].node = attached'[j] /\ attached'[j] # NoNode
              /\ inflight'[j] = NoNode
      BY <2>3, <3>1 DEF RecordInSync
    <3>5. QED
      BY <2>1, <3>3, <3>4 DEF RecordInSync
  <2>7. QED
    BY <2>4, <2>5, <2>6
<1>4. QED
  BY <1>2, <1>3

(* reconcileDNS and the status update.                                      *)
LEMMA RecordPublish ==
    ASSUME IInv, RecordInSync,
           DNSSkip \/ EnsureDNS \/ EnsureDNSFails \/ PublishSkip \/ Publish \/ PublishFails
    PROVE  RecordInSync'
<1>1. TypeOK /\ LockSound
  BY DEF IInv
<1>2. CASE DNSSkip \/ PublishSkip \/ Publish \/ PublishFails
  BY <1>1, <1>2, RecordKept DEF DNSSkip, PublishSkip, Publish, PublishFails, Goto
<1>3. CASE EnsureDNS
  <2>1. ActiveIPs' = ActiveIPs
    BY <1>3 DEF EnsureDNS, ActiveIPs
  <2>2. removing' = {}
    BY <1>1, <1>3 DEF EnsureDNS, LockSound, Goto
  <2>3. QED
    BY <1>3, <2>1, <2>2 DEF EnsureDNS, RecordInSync, Goto
<1>4. CASE EnsureDNSFails
  BY <1>4, RecordFrame DEF EnsureDNSFails, DNSWanted, Goto
<1>5. QED
  BY <1>2, <1>3, <1>4

(* The handlers.                                                            *)
LEMMA RecordHandlers ==
    ASSUME IInv, RecordInSync, Handlers
    PROVE  RecordInSync'
<1>1. TypeOK /\ ClaimConsistent
  BY DEF IInv
<1>2. CASE UpdateIPs
  <2>1. CASE SameIPs
    BY <1>1, <1>2, <2>1, RecordKept DEF UpdateIPs, RecordInSync
  <2>2. CASE ~SameIPs
    BY <1>2, <2>2, RecordFrame DEF UpdateIPs, RecordInSync
  <2>3. QED
    BY <2>1, <2>2
<1>3. CASE UpdateDNSSpec
  BY <1>3, RecordFrame DEF UpdateDNSSpec, Unlocked, RecordInSync
<1>4. ~UpdateProviders
  BY DEF UpdateProviders, RecordInSync
<1>5. ASSUME NEW ip \in IPs, RemoveIP(ip) PROVE RecordInSync'
  <2>1. \A j \in IPs : ipToStatus'[j].state = "active" => ipToStatus'[j] = ipToStatus[j]
    BY <1>1, <1>5 DEF RemoveIP, TypeOK, Absent, Status
  <2>2. /\ dnsDirty' /\ pc' # "stopped" /\ UNCHANGED <<attached, inflight>>
    BY <1>5 DEF RemoveIP, RecordInSync
  <2>3. QED
    BY <2>1, <2>2, RecordFrame
<1>6. ASSUME NEW n \in Nodes, EnableNode(n) \/ DisableNode(n) PROVE RecordInSync'
  <2>1. UNCHANGED <<ips, attached, inflight, runVars, dns, dnsRecord>>
    BY <1>6 DEF EnableNode, DisableNode
  <2>2. CASE UNCHANGED <<ipToStatus, dnsDirty>>
    BY <1>1, <2>1, <2>2, RecordKept DEF RecordInSync
  <2>3. CASE dnsDirty'
    <3>1. \A j \in IPs : ipToStatus'[j].state = "active" => ipToStatus'[j] = ipToStatus[j]
      BY <1>1, <1>6 DEF EnableNode, DisableNode, TypeOK, Status
    <3>2. QED
      BY <2>1, <2>3, <3>1, RecordFrame DEF RecordInSync
  <2>4. QED
    BY <1>6, <2>2, <2>3 DEF EnableNode, DisableNode
<1>7. QED
  BY <1>2, <1>3, <1>4, <1>5, <1>6 DEF Handlers

(* The life cycle.                                                          *)
LEMMA RecordLifecycle ==
    ASSUME "cancel" \notin Events, IInv, RecordInSync, Lifecycle
    PROVE  RecordInSync'
<1>1. TypeOK /\ ~cancelled
  BY DEF IInv, ScanComplete
<1>2. ~Stop /\ ~Exit
  BY <1>1 DEF Stop, Exit, Event
<1>3. CASE Start \/ Wake \/ Panic
  BY <1>1, <1>3, RecordKept DEF Start, Wake, Panic, Goto
<1>4. CASE Restart
  <2>1. \A ip \in IPs : ipToStatus'[ip].state # "active"
    BY <1>4 DEF Restart, ResetMaps, Absent, Status
  <2>2. dns' = "none" /\ pc' # "stopped" /\ removing' = {} /\ UNCHANGED <<attached, inflight>>
    BY <1>4 DEF Restart
  <2>3. QED
    BY <2>1, <2>2, RecordFrame
<1>5. QED
  BY <1>2, <1>3, <1>4 DEF Lifecycle

(* The environment: an action that ends is that of an IP not held active.   *)
LEMMA RecordEnvironment ==
    ASSUME "move" \notin Events, IInv, RecordInSync, Environment
    PROVE  RecordInSync'
<1> USE DEF ControllerUnchanged
<1>1. TypeOK /\ pc # "stopped"
  BY DEF IInv, RecordInSync
<1>2. CASE ElapseCreate \/ ElapseCoolOff \/ EditSpec \/ Watch
             \/ \E n \in Nodes : ElapseNode(n) \/ WatchNode(n)
  BY <1>1, <1>2, RecordKept DEF ElapseCreate, ElapseCoolOff, EditSpec, Watch, ElapseNode, WatchNode
<1>3. ASSUME NEW ip \in IPs, ElapseIP(ip) PROVE RecordInSync'
  <2>1. \A j \in IPs : /\ ipToStatus'[j].state = ipToStatus[j].state
                       /\ ipToStatus'[j].node = ipToStatus[j].node
    BY <1>1, <1>3 DEF ElapseIP, TypeOK
  <2>2. QED
    BY <1>1, <1>3, <2>1, RecordKept DEF ElapseIP
<1>4. ASSUME NEW ip \in IPs, ActionEnds(ip) PROVE RecordInSync'
  <2>1. /\ inflight[ip] # NoNode /\ inflight' = [inflight EXCEPT ![ip] = NoNode]
        /\ attached' = attached \/ attached' = [attached EXCEPT ![ip] = inflight[ip]]
        /\ UNCHANGED <<ips, ipToStatus, flagVars, runVars, dnsRecord>>
    BY <1>4 DEF ActionEnds
  <2>2. /\ \A j \in IPs : j # ip => attached'[j] = attached[j] /\ inflight'[j] = inflight[j]
        /\ {attached'[ip], inflight'[ip]} \subseteq {attached[ip], inflight[ip], NoNode}
    BY <1>1, <2>1 DEF TypeOK
  <2>3. \A i, j \in IPs : i # j =>
            {attached'[i], inflight'[i]} \cap {attached'[j], inflight'[j]} \subseteq {NoNode}
    BY <2>2 DEF RecordInSync
  <2>4. \A j \in IPs : ipToStatus'[j].state = "active" =>
            /\ ipToStatus'[j].node = attached'[j] /\ attached'[j] # NoNode
            /\ inflight'[j] = NoNode
    BY <2>1, <2>2 DEF RecordInSync
  <2>5. dns' # "none" /\ ~dnsDirty' => dnsRecord' = ActiveIPs'
    BY <2>1 DEF RecordInSync, ActiveIPs
  <2>6. QED
    BY <1>1, <2>1, <2>3, <2>4, <2>5 DEF RecordInSync
<1>5. \A ip \in IPs : ~ExternalMove(ip)
  BY DEF ExternalMove, Event
<1>6. QED
  BY <1>2, <1>3, <1>4, <1>5 DEF Environment

(* However calls fail, are lost or take their time, pools are edited and    *)
(* processes crash: a record that is not marked dirty holds the active IPs, *)
(* unless somebody else moves IPs, answers to onNewIPs are lost or a        *)
(* context is cancelled.                                                    *)
THEOREM RecordIsFresh ==
    ASSUME {"move", "cancel", "lostNewIPs"} \cap Events = {}
    PROVE  Spec => []DNSFresh
<1>1. "lostNewIPs" \notin Events /\ "move" \notin Events /\ "cancel" \notin Events
  OBVIOUS
<1>2. Spec => []IInv
  BY <1>1, Inductive
<1>3. Init => RecordInSync
  BY DEF Init, InitController, RecordInSync, Absent, Status
<1>4. IInv /\ RecordInSync /\ [Next]_vars => RecordInSync'
  <2> SUFFICES ASSUME IInv, RecordInSync, [Next]_vars PROVE RecordInSync'
    OBVIOUS
  <2>1. CASE Reconcile
    BY <2>1, RecordAllocate, RecordLookup, RecordAssign, RecordPublish DEF Reconcile
  <2>2. CASE UNCHANGED vars
    BY <2>2, RecordKept DEF vars, IInv, RecordInSync
  <2>3. QED
    BY <1>1, <2>1, <2>2, RecordHandlers, RecordLifecycle, RecordEnvironment DEF Next
<1>5. RecordInSync => DNSFresh
  BY DEF RecordInSync, DNSFresh, ActiveIPs
<1>6. QED
  BY <1>2, <1>3, <1>4, <1>5, PTL DEF Spec
-----------------------------------------------------------------------------
(***************************************************************************)
(* Whereabouts: WhereInv is inductive relative to IInv.  The provider may  *)
(* be asynchronous, and every failure but a lost answer to onNewIPs may    *)
(* happen, any number of times.  What a step does to the record of one IP  *)
(* (and to that of an IP displaced by it) is summed up in Moves and Queues *)
(* below; PlacedMoves shows once and for all that such a step keeps the    *)
(* records, the claims and the queues in agreement.                        *)
(***************************************************************************)

\* The record of ip goes to node m, that of d is emptied, the claims follow.
Moves(ip, d, m) ==
    /\ ipToStatus'[ip].node = m
    /\ d \in IPs => d # ip /\ ipToStatus'[d].state = "error" /\ ipToStatus'[d].node = NoNode
    /\ \A j \in IPs \ {ip, d} : /\ ipToStatus'[j].state = ipToStatus[j].state
                                /\ ipToStatus'[j].node = ipToStatus[j].node
    /\ m \in Nodes => Claim(m) \in {NoIP, ip, d}
    /\ \A n \in Nodes : providerIDToIP'[n] = IF n = m THEN ip
                           ELSE IF n = ipToStatus[ip].node THEN NoIP ELSE providerIDToIP[n]

\* The queues follow too.
Queues(ip, d, m) ==
    /\ \A j \in IPs \ {ip, d} : j \in OfferedIPs' <=> j \in OfferedIPs
    /\ m # NoNode => (ip \in OfferedIPs' <=> m \notin providerIDToNodeName')
    /\ ipToStatus'[ip].state = "absent" => m = NoNode
    /\ ipToStatus'[ip].state = "unassigned" => m = NoNode /\ ip \in OfferedIPs'
    /\ ipToStatus'[ip].state = "no-match" => m # NoNode /\ m \notin providerIDToNodeName'
    /\ \A n \in Nodes \ {m, ipToStatus[ip].node} :
          /\ n \in providerIDToNodeName' <=> Active(n)
          /\ n \in QueuedNodes' <=> n \in QueuedNodes
    /\ m \in providerIDToNodeName' => m \notin QueuedNodes'
    /\ ipToStatus[ip].node \in providerIDToNodeName' \ {m} => ipToStatus[ip].node \in QueuedNodes'

(* Such a step keeps records, claims and queues in agreement.               *)
LEMMA PlacedMoves ==
    ASSUME IInv, Placed, NEW ip \in IPs, NEW d, NEW m \in NodeIDs,
           Moves(ip, d, m), Queues(ip, d, m)
    PROVE  Placed'
<1>1. TypeOK /\ NoIP \notin IPs /\ NoNode \notin Nodes
  BY ConstantsAssumption DEF IInv
<1>2. \A j \in IPs : ipToStatus[j].node \in NodeIDs
  BY <1>1 DEF TypeOK
<1>3. ASSUME NEW j \in IPs PROVE IPPlaced(j)'
  <2>1. CASE j = ip
    <3>1. m # NoNode => m \in Nodes /\ providerIDToIP'[m] = ip
      BY DEF Moves, NodeIDs
    <3>2. QED
      BY <2>1, <3>1 DEF Moves, Queues, IPPlaced, Claim, Active
  <2>2. CASE j = d
    BY <2>2 DEF Moves, IPPlaced
  <2>3. CASE j \notin {ip, d}
    <3>1. IPPlaced(j)
      BY DEF Placed
    <3>2. /\ ipToStatus'[j].state = ipToStatus[j].state
          /\ ipToStatus'[j].node = ipToStatus[j].node
          /\ j \in OfferedIPs' <=> j \in OfferedIPs
      BY <2>3 DEF Moves, Queues
    <3>3. CASE ipToStatus[j].node = NoNode
      BY <3>1, <3>2, <3>3 DEF IPPlaced
    <3>4. CASE ipToStatus[j].node # NoNode
      <4>1. PICK k : k = ipToStatus[j].node
        OBVIOUS
      <4>2. k \in Nodes /\ providerIDToIP[k] = j
        BY <1>2, <3>1, <3>4, <4>1 DEF IPPlaced, NodeIDs, Claim
      <4>3. k # m
        BY <1>1, <2>3, <4>2 DEF Moves, Claim
      <4>4. k # ipToStatus[ip].node
        <5>1. IPPlaced(ip)
          BY DEF Placed
        <5>2. QED
          BY <1>1, <2>3, <4>2, <5>1 DEF IPPlaced, Claim
      <4>5. providerIDToIP'[k] = j /\ (k \in providerIDToNodeName' <=> Active(k))
        BY <4>2, <4>3, <4>4 DEF Moves, Queues
      <4>6. QED
        BY <3>1, <3>2, <4>1, <4>5 DEF IPPlaced, Claim, Active
    <3>5. QED
      BY <3>3, <3>4
  <2>4. QED
    BY <2>1, <2>2, <2>3
<1>4. ASSUME NEW n \in Nodes PROVE NodePlaced(n)'
  <2>1. NodePlaced(n)
    BY DEF Placed
  <2>2. CASE n = m
    BY <1>1, <2>2 DEF Moves, Queues, NodePlaced, Claim, Active
  <2>3. CASE n # m /\ n = ipToStatus[ip].node
    BY <2>3 DEF Moves, Queues, NodePlaced, Claim, Active
  <2>4. CASE n # m /\ n # ipToStatus[ip].node
    BY <2>1, <2>4 DEF Moves, Queues, NodePlaced, Claim, Active
  <2>5. QED
    BY <2>2, <2>3, <2>4
<1>5. QED
  BY <1>3, <1>4 DEF Placed

(* A step that changes neither records nor claims, and moves elements at    *)
(* most between a queue and its retry list.                                 *)
LEMMA PlacedFrame ==
    ASSUME Placed, UNCHANGED <<providerIDToIP, providerIDToNodeName>>,
           OfferedIPs' = OfferedIPs, QueuedNodes' = QueuedNodes,
           \A j \in IPs : /\ ipToStatus'[j].state = ipToStatus[j].state
                          /\ ipToStatus'[j].node = ipToStatus[j].node
    PROVE  Placed'
<1>1. ASSUME NEW j \in IPs PROVE IPPlaced(j)'
  <2>1. IPPlaced(j)
    BY DEF Placed
  <2>2. QED
    BY <2>1 DEF IPPlaced, Claim, Active
<1>2. ASSUME NEW n \in Nodes PROVE NodePlaced(n)'
  <2>1. NodePlaced(n)
    BY DEF Placed
  <2>2. QED
    BY <2>1 DEF NodePlaced, Claim, Active
<1>3. QED
  BY <1>1, <1>2 DEF Placed

(* The frequent case: nothing of this changes at all.                       *)
LEMMA PlacedKept ==
    ASSUME Placed, UNCHANGED <<mapVars, queueVars, retryIPs, retryProviders>>
    PROVE  Placed'
<1>1. OfferedIPs' = OfferedIPs /\ QueuedNodes' = QueuedNodes
  BY DEF OfferedIPs, QueuedNodes
<1>2. QED
  BY <1>1, PlacedFrame

(* Outside reconcileAssignment the queues are all there is.                 *)
LEMMA NoneSkipped ==
    ASSUME IInv, pc # "assign"
    PROVE  /\ OfferedIPs = Elements(assignableIPs) /\ QueuedNodes = Elements(assignableNodes)
           /\ UNCHANGED <<retryIPs, retryProviders>> =>
                /\ OfferedIPs' = Elements(assignableIPs')
                /\ QueuedNodes' = Elements(assignableNodes')
<1>1. retryIPs = <<>> /\ retryProviders = <<>>
  BY DEF IInv, RetrySound
<1>2. Elements(<<>>) = {}
  BY DEF Elements
<1>3. QED
  BY <1>1, <1>2 DEF OfferedIPs, QueuedNodes

(* What is known of the queues: their types, and that the nodes in them are *)
(* active and the IPs tracked.                                              *)
LEMMA QueueFacts ==
    ASSUME IInv
    PROVE  /\ TypeOK /\ ClaimConsistent /\ QueueInv
           /\ assignableIPs \in Seq(IPs) /\ Unique(assignableIPs)
           /\ assignableNodes \in Seq(Nodes) /\ Unique(assignableNodes)
           /\ OfferedIPs \subseteq IPs /\ \A j \in OfferedIPs : Tracked(j)
           /\ QueuedNodes \subseteq providerIDToNodeName
           /\ ~Active(NoNode) /\ NoIP \notin IPs /\ NoNode \notin Nodes
           /\ \A j \in IPs : ipToStatus[j].node \in NodeIDs
<1>1. TypeOK /\ ClaimConsistent /\ QueueSound /\ RetrySound /\ QueueInv
  BY DEF IInv, QueueInv
<1>2. /\ Elements(assignableIPs) \subseteq IPs /\ Elements(retryIPs) \subseteq IPs
      /\ ~Active(NoNode) /\ NoIP \notin IPs /\ NoNode \notin Nodes
      /\ \A j \in IPs : ipToStatus[j].node \in NodeIDs
  BY <1>1, ConstantsAssumption DEF TypeOK, Elements, Active
<1>3. QED
  BY <1>1, <1>2 DEF TypeOK, QueueSound, RetrySound, OfferedIPs, QueuedNodes, Active

(* The node of a record has a claim on the IP.                              *)
LEMMA AloneClaims ==
    ASSUME IInv, Placed, NEW ip \in IPs, NEW m \in Nodes, ipToStatus[ip].node = m
    PROVE  Claim(m) = ip
<1>1. IPPlaced(ip) /\ m # NoNode
  BY ConstantsAssumption DEF Placed
<1>2. QED
  BY <1>1 DEF IPPlaced

(* An error of IPToProviderID: the record keeps its node or, when the IP is *)
(* not found, is emptied; its active node waits for another IP.             *)
LEMMA LookupFailsMoves ==
    ASSUME IInv, Placed, NEW err, LookupFails(err), NEW ip, ip = ips[cursor],
           NEW m, m = IF err = "notFound" THEN NoNode ELSE ipToStatus[ip].node
    PROVE  /\ ip \in IPs /\ m \in NodeIDs /\ Moves(ip, NoIP, m) /\ Queues(ip, NoIP, m)
           /\ ipToStatus'[ip].state \in {"in-progress", "error"}
           /\ UNCHANGED <<attached, inflight>>
<1>1. TypeOK /\ NoIP \notin IPs /\ NoNode \notin Nodes /\ ~Active(NoNode)
  BY QueueFacts
<1>2. ip \in IPs
  <2>1. cursor \in DOMAIN ips /\ ips \in Seq(IPs)
    BY <1>1 DEF LookupFails, Looking, TypeOK
  <2>2. QED
    BY <2>1
<1>3. ipToStatus[ip].node \in NodeIDs /\ m \in NodeIDs
  BY <1>2, QueueFacts DEF NodeIDs
<1>4. PICK s \in {"in-progress", "error"} :
          ipToStatus' = [ipToStatus EXCEPT ![ip] = Status(s, m, TRUE)]
  BY DEF LookupFails
<1>5. /\ ipToStatus'[ip].state = s /\ ipToStatus'[ip].node = m
      /\ \A j \in IPs : j # ip => ipToStatus'[j] = ipToStatus[j]
  BY <1>1, <1>2, <1>4 DEF TypeOK, Status
<1>6. /\ pc = "status"
      /\ UNCHANGED <<retryIPs, retryProviders, providerIDToNodeName, attached, inflight>>
  BY DEF LookupFails, Looking, NextIP
<1>7. /\ OfferedIPs = Elements(assignableIPs) /\ QueuedNodes = Elements(assignableNodes)
      /\ OfferedIPs' = Elements(assignableIPs') /\ QueuedNodes' = Elements(assignableNodes')
  BY <1>6, NoneSkipped
<1>8. /\ IPPlaced(ip) /\ \A n \in Nodes : NodePlaced(n)
      /\ \A n \in Nodes : ipToStatus[ip].node = n => Claim(n) = ip
  BY <1>2, AloneClaims DEF Placed
<1>9. CASE err # "notFound"
  <2>1. m = ipToStatus[ip].node /\ UNCHANGED <<providerIDToIP, queueVars>>
    BY <1>9 DEF LookupFails
  <2>2. Moves(ip, NoIP, m)
    BY <1>1, <1>2, <1>5, <1>8, <2>1 DEF Moves, Claim
  <2>3. OfferedIPs' = OfferedIPs /\ QueuedNodes' = QueuedNodes
    BY <1>7, <2>1
  <2>4. m \in providerIDToNodeName => m \in Nodes /\ m \notin QueuedNodes
    BY <1>1, <1>2, <1>8, <2>1 DEF NodePlaced, Active, TypeOK
  <2>5. Queues(ip, NoIP, m)
    BY <1>5, <1>6, <1>8, <2>1, <2>3, <2>4 DEF Queues, IPPlaced, Active
  <2>6. QED
    BY <1>2, <1>3, <1>5, <1>6, <2>2, <2>5
<1>10. CASE err = "notFound"
  <2>1. m = NoNode /\ providerIDToIP' = ClaimsWithout(ipToStatus[ip].node)
    BY <1>10 DEF LookupFails
  <2>2. Moves(ip, NoIP, m)
    BY <1>1, <1>5, <2>1 DEF Moves, ClaimsWithout
  <2>3. CASE Active(ipToStatus[ip].node)
    <3>1. ipToStatus[ip].node \in Nodes
      BY <1>1, <2>3 DEF Active, TypeOK
    <3>2. /\ assignableNodes' = AddFront(assignableNodes, ipToStatus[ip].node)
          /\ UNCHANGED assignableIPs
      BY <1>10, <2>3 DEF LookupFails
    <3>3. QueuedNodes' = QueuedNodes \cup {ipToStatus[ip].node} /\ OfferedIPs' = OfferedIPs
      BY <1>7, <3>1, <3>2, QueueFacts, AddFrontUnique
    <3>4. Queues(ip, NoIP, m)
      BY <1>1, <1>5, <1>6, <2>1, <3>3 DEF Queues, Active
    <3>5. QED
      BY <1>2, <1>3, <1>5, <1>6, <2>2, <3>4
  <2>4. CASE ~Active(ipToStatus[ip].node)
    <3>1. assignableIPs' = Delete(assignableIPs, ip) /\ UNCHANGED assignableNodes
      BY <1>10, <2>4 DEF LookupFails
    <3>2. OfferedIPs' = OfferedIPs \ {ip} /\ QueuedNodes' = QueuedNodes
      BY <1>7, <3>1, QueueFacts, DeleteUnique
    <3>3. Queues(ip, NoIP, m)
      BY <1>1, <1>5, <1>6, <2>1, <2>4, <3>2 DEF Queues, Active
    <3>4. QED
      BY <1>2, <1>3, <1>5, <1>6, <2>2, <3>3
  <2>5. QED
    BY <2>3, <2>4
<1>11. QED
  BY <1>9, <1>10

(* An answer of IPToProviderID, when the records are right: a node only     *)
(* changes to none, and an IP is displaced only by one that had no record.  *)
LEMMA LookupMoves ==
    ASSUME IInv, Placed, Truthful, Lookup, NEW ip, ip = ips[cursor], NEW p, p = attached[ip],
           NEW d, d = IF ~Tracked(ip) /\ p \in Nodes THEN Claim(p) ELSE NoIP
    PROVE  /\ ip \in IPs /\ p \in NodeIDs /\ Moves(ip, d, p) /\ Queues(ip, d, p)
           /\ ipToStatus'[ip].state = StateOf(p) /\ StateOf(p) # "absent"
           /\ inflight[ip] = NoNode /\ UNCHANGED <<attached, inflight>>
           /\ updateStatus' = (updateStatus \/ ipToStatus[ip].state # StateOf(p))
           /\ Tracked(ip) /\ p # NoNode => ipToStatus[ip].node = p
           /\ ~Tracked(ip) => ipToStatus[ip].node = NoNode
           /\ IF ~Tracked(ip) /\ p # NoNode /\ Active(p) THEN Annotate(p, ip) ELSE UNCHANGED noteVars
<1>1. TypeOK /\ ClaimConsistent /\ NoIP \notin IPs /\ NoNode \notin Nodes /\ ~Active(NoNode)
  BY QueueFacts
<1>2. ip \in IPs /\ p \in NodeIDs
  <2>1. cursor \in DOMAIN ips /\ ips \in Seq(IPs)
    BY <1>1 DEF Lookup, Looking, TypeOK
  <2>2. QED
    BY <1>1, <2>1 DEF TypeOK
<1>3. /\ pc = "status" /\ inflight[ip] = NoNode
      /\ UNCHANGED <<retryIPs, retryProviders, providerIDToNodeName, attached, inflight>>
  BY DEF Lookup, Looking, NextIP
<1>4. /\ OfferedIPs = Elements(assignableIPs) /\ QueuedNodes = Elements(assignableNodes)
      /\ OfferedIPs' = Elements(assignableIPs') /\ QueuedNodes' = Elements(assignableNodes')
  BY <1>3, NoneSkipped
<1>5. /\ assignableIPs \in Seq(IPs) /\ Unique(assignableIPs)
      /\ assignableNodes \in Seq(Nodes) /\ Unique(assignableNodes)
  BY QueueFacts
<1>6. /\ IPPlaced(ip) /\ (\A n \in Nodes : NodePlaced(n)) /\ ipToStatus[ip].node \in NodeIDs
      /\ \A n \in Nodes : ipToStatus[ip].node = n => Claim(n) = ip
  BY <1>2, AloneClaims, QueueFacts DEF Placed
<1>7. Tracked(ip) /\ p # NoNode => ipToStatus[ip].node = p
  BY <1>2, <1>3 DEF Truthful, Dest
<1>8. ~Tracked(ip) => ipToStatus[ip].node = NoNode
  BY <1>6 DEF IPPlaced, Tracked
<1>9. PICK moved : moved = (ipToStatus[ip].node # p)
  OBVIOUS
<1>10. d = IF moved THEN DisplacedIP(ip, p) ELSE NoIP
  <2>1. CASE Tracked(ip)
    <3>1. moved => p \notin Nodes
      BY <1>1, <1>2, <1>7, <1>9, <2>1 DEF NodeIDs
    <3>2. QED
      BY <2>1, <3>1 DEF DisplacedIP
  <2>2. CASE ~Tracked(ip)
    <3>1. moved <=> p \in Nodes
      BY <1>1, <1>2, <1>8, <1>9, <2>2 DEF NodeIDs
    <3>2. p \in Nodes => Claim(p) # ip
      BY <1>1, <1>2, <2>2 DEF ClaimConsistent
    <3>3. QED
      BY <2>2, <3>1, <3>2 DEF DisplacedIP, Claim
  <2>3. QED
    BY <2>1, <2>2
<1>11. /\ ipToStatus' = [i \in IPs |->
              IF i = ip THEN Status(StateOf(p), p, TRUE)
              ELSE IF i = d THEN Status("error", NoNode, FALSE) ELSE ipToStatus[i]]
       /\ providerIDToIP' = [n \in Nodes |->
              IF ~moved THEN providerIDToIP[n]
              ELSE IF n = p THEN ip ELSE IF n = ipToStatus[ip].node THEN NoIP ELSE providerIDToIP[n]]
       /\ assignableIPs' = IPsAfterLookup(ip, p, Tracked(ip), d)
       /\ assignableNodes' =
              IF moved THEN NodesAfterLookup(p, Tracked(ip), ipToStatus[ip].node) ELSE assignableNodes
       /\ updateStatus' = (updateStatus \/ ipToStatus[ip].state # StateOf(p))
       /\ IF moved /\ ~Tracked(ip) /\ Active(p) THEN Annotate(p, ip) ELSE UNCHANGED noteVars
  BY <1>9, <1>10 DEF Lookup, LookupChanges
<1>12. d \in IPs => d # ip /\ d = Claim(p) /\ p \in Nodes /\ ~Tracked(ip)
  BY <1>1 DEF ClaimConsistent
<1>13. /\ ipToStatus'[ip].state = StateOf(p) /\ ipToStatus'[ip].node = p
       /\ d \in IPs => ipToStatus'[d].state = "error" /\ ipToStatus'[d].node = NoNode
       /\ \A j \in IPs \ {ip, d} : ipToStatus'[j] = ipToStatus[j]
  BY <1>2, <1>11, <1>12 DEF Status
<1>14. p \in Nodes => Claim(p) \in {NoIP, ip, d}
  BY <1>1, <1>6, <1>7
<1>15. Moves(ip, d, p)
  <2>1. \A n \in Nodes : providerIDToIP'[n] = IF n = p THEN ip
                           ELSE IF n = ipToStatus[ip].node THEN NoIP ELSE providerIDToIP[n]
    BY <1>6, <1>9, <1>11 DEF Claim
  <2>2. QED
    BY <1>12, <1>13, <1>14, <2>1 DEF Moves
<1>16. StateOf(p) \in {"unassigned", "active", "no-match"}
       /\ (StateOf(p) = "unassigned" <=> p = NoNode)
       /\ (StateOf(p) = "no-match" <=> p # NoNode /\ ~Active(p))
  BY DEF StateOf
<1>17. Queues(ip, d, p)
  <2>1. CASE p = NoNode
    <3>1. d = NoIP /\ assignableIPs' = AddFront(assignableIPs, ip)
      BY <1>1, <1>11, <2>1 DEF IPsAfterLookup
    <3>2. OfferedIPs' = OfferedIPs \cup {ip}
      BY <1>2, <1>4, <1>5, <3>1, AddFrontUnique
    <3>3. QueuedNodes' = QueuedNodes \cup ({ipToStatus[ip].node} \cap providerIDToNodeName)
      <4>1. CASE Active(ipToStatus[ip].node)
        <5>1. ipToStatus[ip].node \in Nodes
          BY <1>1, <4>1 DEF Active, TypeOK
        <5>2. assignableNodes' = AddFront(assignableNodes, ipToStatus[ip].node)
          BY <1>1, <1>9, <1>11, <2>1, <4>1, <5>1 DEF NodesAfterLookup
        <5>3. QED
          BY <1>4, <1>5, <4>1, <5>1, <5>2, AddFrontUnique DEF Active
      <4>2. CASE ~Active(ipToStatus[ip].node)
        <5>1. assignableNodes' = assignableNodes
          BY <1>1, <1>11, <2>1, <4>2 DEF NodesAfterLookup
        <5>2. QED
          BY <1>4, <4>2, <5>1 DEF Active
      <4>3. QED
        BY <4>1, <4>2
    <3>4. QED
      BY <1>1, <1>3, <1>13, <1>16, <2>1, <3>2, <3>3 DEF Queues, Active
  <2>2. CASE p # NoNode /\ Tracked(ip)
    <3>1. ~moved /\ d = NoIP /\ p = ipToStatus[ip].node /\ p \in Nodes
      BY <1>2, <1>7, <1>9, <2>2 DEF NodeIDs
    <3>2. OfferedIPs' = OfferedIPs /\ QueuedNodes' = QueuedNodes
      BY <1>4, <1>11, <2>2, <3>1 DEF IPsAfterLookup
    <3>3. Active(p) => p \notin QueuedNodes
      BY <1>1, <1>2, <1>6, <3>1 DEF NodePlaced
    <3>4. QED
      BY <1>3, <1>6, <1>13, <1>16, <2>2, <3>1, <3>2, <3>3 DEF Queues, IPPlaced, Active
  <2>3. CASE p # NoNode /\ ~Tracked(ip)
    <3>1. moved /\ p \in Nodes /\ ipToStatus[ip].node = NoNode /\ ip \notin OfferedIPs
      BY <1>2, <1>8, <1>9, <2>3, QueueFacts DEF NodeIDs
    <3>2. \A j \in IPs \ {ip, d} : j \in OfferedIPs' <=> j \in OfferedIPs
      <4>1. PICK known : known = IF ~Active(p) THEN AddBack(assignableIPs, ip) ELSE assignableIPs
        OBVIOUS
      <4>2. known \in Seq(IPs) /\ Elements(known) \ {ip} = Elements(assignableIPs) \ {ip}
        BY <1>2, <1>5, <4>1, AddBackUnique
      <4>3. assignableIPs' = IF d = NoIP THEN known ELSE AddBack(known, d)
        BY <1>11, <2>3, <4>1 DEF IPsAfterLookup
      <4>4. d # NoIP => d \in IPs
        BY <1>1, <2>3, <3>1 DEF TypeOK, Claim
      <4>5. Elements(assignableIPs') \ {ip, d} = Elements(assignableIPs) \ {ip, d}
        BY <4>2, <4>3, <4>4, AddBackUnique
      <4>6. QED
        BY <1>4, <4>5
    <3>3. ip \in OfferedIPs' <=> ~Active(p)
      <4>1. CASE Active(p)
        <5>1. assignableIPs' = IF d = NoIP THEN assignableIPs ELSE AddBack(assignableIPs, d)
          BY <1>11, <2>3, <4>1 DEF IPsAfterLookup
        <5>2. d # NoIP => d \in IPs /\ d # ip
          BY <1>1, <1>12, <2>3, <3>1 DEF TypeOK, Claim
        <5>3. Elements(assignableIPs') \subseteq Elements(assignableIPs) \cup {d} \/ d = NoIP
          BY <1>5, <5>1, <5>2, AddBackUnique
        <5>4. d = NoIP => assignableIPs' = assignableIPs
          BY <5>1
        <5>5. QED
          BY <1>4, <3>1, <4>1, <5>2, <5>3, <5>4
      <4>2. CASE ~Active(p)
        <5>1. PICK known : known = AddBack(assignableIPs, ip)
          OBVIOUS
        <5>2. known \in Seq(IPs) /\ ip \in Elements(known)
          BY <1>2, <1>5, <5>1, AddBackUnique
        <5>3. assignableIPs' = IF d = NoIP THEN known ELSE AddBack(known, d)
          BY <1>11, <2>3, <4>2, <5>1 DEF IPsAfterLookup
        <5>4. d # NoIP => d \in IPs
          BY <1>1, <2>3, <3>1 DEF TypeOK, Claim
        <5>5. ip \in Elements(assignableIPs')
          BY <5>2, <5>3, <5>4, AddBackUnique
        <5>6. QED
          BY <1>4, <4>2, <5>5
      <4>3. QED
        BY <4>1, <4>2
    <3>4. QueuedNodes' = QueuedNodes \ ({p} \cap providerIDToNodeName)
      <4>1. assignableNodes' = IF Active(p) THEN Delete(assignableNodes, p) ELSE assignableNodes
        BY <1>1, <1>11, <2>3, <3>1 DEF NodesAfterLookup
      <4>2. QED
        BY <1>4, <1>5, <4>1, DeleteUnique DEF Active
    <3>5. QED
      BY <1>1, <1>3, <1>13, <1>16, <2>3, <3>1, <3>2, <3>3, <3>4 DEF Queues, Active
  <2>4. QED
    BY <2>1, <2>2, <2>3
<1>18. IF ~Tracked(ip) /\ p # NoNode /\ Active(p) THEN Annotate(p, ip) ELSE UNCHANGED noteVars
  BY <1>1, <1>8, <1>9, <1>11
<1>19. QED
  BY <1>2, <1>3, <1>7, <1>8, <1>11, <1>13, <1>15, <1>16, <1>17, <1>18

(* The pair reconcileAssignment takes off the queues: the node has no IP,   *)
(* and the IP no active node.                                               *)
LEMMA PairIsFree ==
    ASSUME IInv, Placed, NEW ip, NEW n, Assigning(ip, n)
    PROVE  /\ ip \in IPs /\ n \in Nodes /\ Active(n) /\ Claim(n) = NoIP
           /\ Tracked(ip) /\ ip \in OfferedIPs /\ n \in QueuedNodes
           /\ ~Active(ipToStatus[ip].node) /\ ipToStatus[ip].node # n
           /\ ip \notin Elements(retryIPs) /\ n \notin Elements(retryProviders)
           /\ Elements(assignableIPs') = Elements(assignableIPs) \ {ip}
           /\ Elements(assignableNodes') = Elements(assignableNodes) \ {n}
<1>1. /\ TypeOK /\ QueueInv /\ ~Active(NoNode)
      /\ assignableIPs \in Seq(IPs) /\ assignableNodes \in Seq(Nodes)
  BY QueueFacts
<1>2. /\ pc = "assign" /\ CanAssign /\ Tracked(ip)
      /\ ip = Head(assignableIPs) /\ n = Head(assignableNodes)
      /\ assignableIPs' = Tail(assignableIPs) /\ assignableNodes' = Tail(assignableNodes)
  BY DEF Assigning
<1>3. /\ ip \in IPs /\ n \in providerIDToNodeName
      /\ ip \notin Elements(retryIPs) /\ n \notin Elements(retryProviders)
      /\ Elements(Tail(assignableIPs)) = Elements(assignableIPs) \ {ip}
      /\ Elements(Tail(assignableNodes)) = Elements(assignableNodes) \ {n}
  BY <1>1, <1>2, QueueHeads
<1>4. ip \in OfferedIPs /\ n \in QueuedNodes
  BY <1>1, <1>2, FrontUnique DEF CanAssign, OfferedIPs, QueuedNodes
<1>5. n \in Nodes /\ NodePlaced(n) /\ IPPlaced(ip)
  BY <1>1, <1>3 DEF TypeOK, Placed
<1>6. Claim(n) = NoIP
  BY <1>3, <1>4, <1>5 DEF NodePlaced, Active
<1>7. ~Active(ipToStatus[ip].node) /\ ipToStatus[ip].node # n
  BY <1>1, <1>3, <1>4, <1>5 DEF IPPlaced, Active
<1>8. QED
  BY <1>2, <1>3, <1>4, <1>5, <1>6, <1>7 DEF Active

(* A successful AssignIP.                                                   *)
LEMMA AssignMoves ==
    ASSUME IInv, Placed, NEW ip \in IPs, NEW n \in Nodes, AssignIP(ip, n)
    PROVE  Moves(ip, NoIP, n) /\ Queues(ip, NoIP, n) /\ ipToStatus'[ip].state = "in-progress"
<1>1. TypeOK /\ NoIP \notin IPs /\ NoNode \notin Nodes
  BY QueueFacts
<1>2. /\ Active(n) /\ Claim(n) = NoIP /\ ~Active(ipToStatus[ip].node) /\ ipToStatus[ip].node # n
      /\ ip \notin Elements(retryIPs) /\ n \notin Elements(retryProviders)
      /\ Elements(assignableIPs') = Elements(assignableIPs) \ {ip}
      /\ Elements(assignableNodes') = Elements(assignableNodes) \ {n}
  BY PairIsFree DEF AssignIP
<1>3. /\ ipToStatus' = [ipToStatus EXCEPT ![ip] = Status("in-progress", n, TRUE)]
      /\ providerIDToIP' = ClaimsAfter(ip, n, ip)
      /\ UNCHANGED <<retryIPs, retryProviders, providerIDToNodeName>>
  BY DEF AssignIP
<1>4. /\ ipToStatus'[ip].state = "in-progress" /\ ipToStatus'[ip].node = n
      /\ \A j \in IPs : j # ip => ipToStatus'[j] = ipToStatus[j]
  BY <1>1, <1>3 DEF TypeOK, Status
<1>5. Moves(ip, NoIP, n)
  BY <1>1, <1>2, <1>3, <1>4 DEF Moves, ClaimsAfter
<1>6. OfferedIPs' = OfferedIPs \ {ip} /\ QueuedNodes' = QueuedNodes \ {n}
  BY <1>2, <1>3 DEF OfferedIPs, QueuedNodes
<1>7. Queues(ip, NoIP, n)
  BY <1>1, <1>2, <1>3, <1>4, <1>6 DEF Queues, Active
<1>8. QED
  BY <1>4, <1>5, <1>7

(* An AssignIP that fails: the IP is without a node, and both are retried.  *)
LEMMA AssignFailsMoves ==
    ASSUME IInv, Placed, NEW ip \in IPs, NEW n \in Nodes, AssignIPFails(ip, n)
    PROVE  Moves(ip, NoIP, NoNode) /\ Queues(ip, NoIP, NoNode) /\ ipToStatus'[ip].state = "error"
<1>1. TypeOK /\ QueueInv /\ NoIP \notin IPs /\ NoNode \notin Nodes
  BY QueueFacts
<1>2. /\ Claim(n) = NoIP /\ ~Active(ipToStatus[ip].node)
      /\ ip \in OfferedIPs /\ n \in QueuedNodes
      /\ Elements(assignableIPs') = Elements(assignableIPs) \ {ip}
      /\ Elements(assignableNodes') = Elements(assignableNodes) \ {n}
  BY PairIsFree DEF AssignIPFails
<1>3. /\ ipToStatus' = [ipToStatus EXCEPT ![ip] = Status("error", NoNode, TRUE)]
      /\ providerIDToIP' = ClaimsAfter(ip, n, NoIP)
      /\ retryIPs' = Append(retryIPs, ip) /\ retryProviders' = Append(retryProviders, n)
      /\ UNCHANGED providerIDToNodeName
      /\ pc = "assign" /\ CanAssign /\ ip = Head(assignableIPs) /\ n = Head(assignableNodes)
  BY DEF AssignIPFails, Assigning
<1>4. /\ ipToStatus'[ip].state = "error" /\ ipToStatus'[ip].node = NoNode
      /\ \A j \in IPs : j # ip => ipToStatus'[j] = ipToStatus[j]
  BY <1>1, <1>3 DEF TypeOK, Status
<1>5. Moves(ip, NoIP, NoNode)
  BY <1>1, <1>2, <1>3, <1>4 DEF Moves, ClaimsAfter, Claim
<1>6. /\ Elements(retryIPs') = Elements(retryIPs) \cup {ip}
      /\ Elements(retryProviders') = Elements(retryProviders) \cup {n}
  BY <1>1, <1>3, RetryAppend
<1>7. OfferedIPs' = OfferedIPs /\ QueuedNodes' = QueuedNodes
  BY <1>2, <1>6 DEF OfferedIPs, QueuedNodes
<1>8. Queues(ip, NoIP, NoNode)
  BY <1>1, <1>2, <1>3, <1>4, <1>7 DEF Queues, Active, TypeOK
<1>9. QED
  BY <1>4, <1>5, <1>8

(* AdoptIP starts the record of an address that had none.                   *)
LEMMA AdoptMoves ==
    ASSUME IInv, Placed, AdoptIP, NEW ip, ip = Head(pendingIPs)
    PROVE  /\ ip \in IPs /\ Moves(ip, NoIP, NoNode) /\ Queues(ip, NoIP, NoNode)
           /\ UNCHANGED <<attached, inflight>>
<1>1. TypeOK /\ NoIP \notin IPs /\ NoNode \notin Nodes /\ PendingFresh
  BY QueueFacts DEF IInv
<1>2. ip \in IPs /\ ip \in Elements(pendingIPs)
  BY <1>1, FrontUnique DEF AdoptIP, TypeOK
<1>3. ipToStatus[ip].node = NoNode
  BY <1>1, <1>2 DEF PendingFresh, Placed, IPPlaced, Tracked
<1>4. /\ pc = "adopt"
      /\ ipToStatus' = [ipToStatus EXCEPT ![ip] = Status("unassigned", NoNode, FALSE)]
      /\ assignableIPs' = AddFront(assignableIPs, ip)
      /\ UNCHANGED <<providerIDToIP, providerIDToNodeName, assignableNodes, retryIPs,
                     retryProviders, attached, inflight>>
  BY DEF AdoptIP
<1>5. /\ ipToStatus'[ip].state = "unassigned" /\ ipToStatus'[ip].node = NoNode
      /\ \A j \in IPs : j # ip => ipToStatus'[j] = ipToStatus[j]
  BY <1>1, <1>2, <1>4 DEF TypeOK, Status
<1>6. OfferedIPs' = OfferedIPs \cup {ip} /\ QueuedNodes' = QueuedNodes
  BY <1>2, <1>4, NoneSkipped, QueueFacts, AddFrontUnique
<1>7. Moves(ip, NoIP, NoNode)
  BY <1>1, <1>3, <1>4, <1>5 DEF Moves
<1>8. Queues(ip, NoIP, NoNode)
  BY <1>1, <1>3, <1>4, <1>5, <1>6 DEF Queues, Active, TypeOK
<1>9. QED
  BY <1>2, <1>4, <1>7, <1>8

(* The loop of updateIPs ends the record of an IP.                          *)
LEMMA RemoveMoves ==
    ASSUME IInv, Placed, NEW ip \in IPs, RemoveIP(ip)
    PROVE  /\ Moves(ip, NoIP, NoNode) /\ Queues(ip, NoIP, NoNode)
           /\ ~Tracked(ip)' /\ UNCHANGED <<attached, inflight>>
<1>1. TypeOK /\ NoIP \notin IPs /\ NoNode \notin Nodes /\ ~Active(NoNode) /\ LockSound
  BY QueueFacts DEF IInv
<1>2. /\ pc # "assign"
      /\ ipToStatus' = [ipToStatus EXCEPT ![ip] = Absent]
      /\ assignableIPs' = Delete(assignableIPs, ip)
      /\ providerIDToIP' = ClaimsWithout(ipToStatus[ip].node)
      /\ UNCHANGED <<providerIDToNodeName, retryIPs, retryProviders, attached, inflight>>
  BY <1>1 DEF RemoveIP, LockSound
<1>3. /\ ipToStatus'[ip].state = "absent" /\ ipToStatus'[ip].node = NoNode
      /\ \A j \in IPs : j # ip => ipToStatus'[j] = ipToStatus[j]
  BY <1>1, <1>2 DEF TypeOK, Absent, Status
<1>4. OfferedIPs' = OfferedIPs \ {ip}
  BY <1>2, NoneSkipped, QueueFacts, DeleteUnique
<1>5. QueuedNodes' = QueuedNodes \cup ({ipToStatus[ip].node} \cap providerIDToNodeName)
  <2>1. CASE Active(ipToStatus[ip].node)
    <3>1. /\ assignableNodes' = AddFront(assignableNodes, ipToStatus[ip].node)
          /\ ipToStatus[ip].node \in Nodes
      BY <1>1, <2>1 DEF RemoveIP, Active, TypeOK
    <3>2. Elements(assignableNodes') = Elements(assignableNodes) \cup {ipToStatus[ip].node}
      BY <3>1, QueueFacts, AddFrontUnique
    <3>3. QED
      BY <1>2, <2>1, <3>2, NoneSkipped DEF Active
  <2>2. CASE ~Active(ipToStatus[ip].node)
    <3>1. assignableNodes' = assignableNodes
      BY <2>2 DEF RemoveIP
    <3>2. QED
      BY <1>2, <2>2, <3>1, NoneSkipped DEF Active
  <2>3. QED
    BY <2>1, <2>2
<1>6. Moves(ip, NoIP, NoNode)
  BY <1>1, <1>2, <1>3 DEF Moves, ClaimsWithout
<1>7. Queues(ip, NoIP, NoNode)
  BY <1>1, <1>2, <1>3, <1>4, <1>5 DEF Queues, Active, TypeOK
<1>8. QED
  BY <1>2, <1>3, <1>6, <1>7 DEF Tracked

(* EnableNodes and DisableNodes of a node with a claim: the record of its   *)
(* IP keeps the node.                                                       *)
LEMMA SwitchMoves ==
    ASSUME IInv, Placed, NEW n \in Nodes, NEW ip, ip = Claim(n), ip # NoIP,
           EnableNode(n) \/ (DisableNode(n) /\ Active(n))
    PROVE  /\ ip \in IPs /\ Moves(ip, NoIP, n) /\ Queues(ip, NoIP, n)
           /\ ipToStatus[ip].node = n /\ Tracked(ip) /\ Tracked(ip)'
           /\ updateStatus' /\ UNCHANGED <<attached, inflight>>
<1>1. /\ TypeOK /\ ClaimConsistent /\ NoIP \notin IPs /\ NoNode \notin Nodes
      /\ QueuedNodes \subseteq providerIDToNodeName
      /\ assignableIPs \in Seq(IPs) /\ Unique(assignableIPs)
      /\ assignableNodes \in Seq(Nodes) /\ Unique(assignableNodes)
  BY QueueFacts
<1>2. ip \in IPs /\ Tracked(ip) /\ ipToStatus[ip].node = n
  BY <1>1 DEF TypeOK, ClaimConsistent, Claim
<1>3. /\ pc # "assign"
      /\ UNCHANGED <<providerIDToIP, retryIPs, retryProviders, attached, inflight>>
  BY DEF EnableNode, DisableNode, Unlocked
<1>4. /\ OfferedIPs = Elements(assignableIPs) /\ QueuedNodes = Elements(assignableNodes)
      /\ OfferedIPs' = Elements(assignableIPs') /\ QueuedNodes' = Elements(assignableNodes')
  BY <1>3, NoneSkipped
<1>5. PICK s \in {"in-progress", "no-match"} :
          /\ ipToStatus' = [ipToStatus EXCEPT ![ip] = Status(s, n, TRUE)]
          /\ OfferedIPs' = IF s = "no-match" THEN OfferedIPs \cup {ip} ELSE OfferedIPs \ {ip}
          /\ n \in providerIDToNodeName' <=> s = "in-progress"
          /\ \A m \in Nodes : m # n => /\ m \in providerIDToNodeName' <=> Active(m)
                                       /\ m \in QueuedNodes' <=> m \in QueuedNodes
          /\ n \notin QueuedNodes' /\ updateStatus'
  <2>1. CASE EnableNode(n)
    <3>1. /\ ~Active(n) /\ providerIDToNodeName' = providerIDToNodeName \cup {n}
          /\ ipToStatus' = [ipToStatus EXCEPT ![ip] = Status("in-progress", n, TRUE)]
          /\ assignableIPs' = Delete(assignableIPs, ip) /\ UNCHANGED assignableNodes
          /\ updateStatus'
      BY <2>1 DEF EnableNode, IPsAfterEnable
    <3>2. OfferedIPs' = OfferedIPs \ {ip}
      BY <1>1, <1>4, <3>1, DeleteUnique
    <3>3. QueuedNodes' = QueuedNodes /\ n \notin QueuedNodes
      BY <1>1, <1>4, <3>1 DEF Active
    <3>4. QED
      BY <3>1, <3>2, <3>3 DEF Active
  <2>2. CASE DisableNode(n) /\ Active(n)
    <3>1. /\ providerIDToNodeName' = providerIDToNodeName \ {n}
          /\ ipToStatus' = [ipToStatus EXCEPT ![ip] = Status("no-match", n, TRUE)]
          /\ assignableIPs' = AddBack(assignableIPs, ip)
          /\ assignableNodes' = Delete(assignableNodes, n)
          /\ updateStatus'
      BY <1>2, <2>2 DEF DisableNode
    <3>2. OfferedIPs' = OfferedIPs \cup {ip}
      BY <1>1, <1>2, <1>4, <3>1, AddBackUnique
    <3>3. QueuedNodes' = QueuedNodes \ {n}
      BY <1>1, <1>4, <3>1, DeleteUnique
    <3>4. QED
      BY <3>1, <3>2, <3>3 DEF Active
  <2>3. QED
    BY <2>1, <2>2
<1>6. /\ ipToStatus'[ip].state = s /\ ipToStatus'[ip].node = n
      /\ \A j \in IPs : j # ip => ipToStatus'[j] = ipToStatus[j]
  BY <1>1, <1>2, <1>5 DEF TypeOK, Status
<1>7. Moves(ip, NoIP, n)
  BY <1>1, <1>2, <1>3, <1>6 DEF Moves, Claim
<1>8. Queues(ip, NoIP, n)
  BY <1>1, <1>2, <1>5, <1>6 DEF Queues
<1>9. Tracked(ip)'
  BY <1>6 DEF Tracked
<1>10. QED
  BY <1>2, <1>3, <1>5, <1>7, <1>8, <1>9

(* EnableNodes and DisableNodes of a node without a claim, and DisableNodes *)
(* of one that updateProviders forgot.                                      *)
LEMMA SwitchPlaced ==
    ASSUME IInv, Placed, NEW n \in Nodes,
           \/ EnableNode(n) /\ Claim(n) = NoIP
           \/ DisableNode(n) /\ (~Active(n) \/ Claim(n) = NoIP)
    PROVE  Placed' /\ UNCHANGED <<ipToStatus, attached, inflight, updateStatus>>
<1>1. /\ TypeOK /\ NoIP \notin IPs /\ NoNode \notin Nodes
      /\ QueuedNodes \subseteq providerIDToNodeName
      /\ assignableNodes \in Seq(Nodes) /\ Unique(assignableNodes)
      /\ \A j \in IPs : ipToStatus[j].node \in NodeIDs
  BY QueueFacts
<1>2. /\ pc # "assign"
      /\ UNCHANGED <<ipToStatus, providerIDToIP, assignableIPs, retryIPs, retryProviders,
                     attached, inflight, updateStatus>>
  BY DEF EnableNode, DisableNode, Unlocked
<1>3. /\ OfferedIPs = Elements(assignableIPs) /\ QueuedNodes = Elements(assignableNodes)
      /\ OfferedIPs' = Elements(assignableIPs') /\ QueuedNodes' = Elements(assignableNodes')
  BY <1>2, NoneSkipped
<1>4. CASE ~Active(n) /\ DisableNode(n)
  <2>1. UNCHANGED <<providerIDToNodeName, assignableNodes>>
    BY <1>4 DEF DisableNode, Active
  <2>2. QED
    BY <1>2, <1>3, <2>1, PlacedFrame
<1>5. CASE Claim(n) = NoIP /\ (EnableNode(n) \/ (DisableNode(n) /\ Active(n)))
  <2>1. /\ \A m \in Nodes : m # n => /\ m \in providerIDToNodeName' <=> Active(m)
                                     /\ m \in QueuedNodes' <=> m \in QueuedNodes
        /\ n \in providerIDToNodeName' => n \in QueuedNodes'
    <3>1. CASE EnableNode(n)
      <4>1. /\ providerIDToNodeName' = providerIDToNodeName \cup {n}
            /\ assignableNodes' = AddBack(assignableNodes, n)
        BY <1>5, <3>1 DEF EnableNode
      <4>2. QueuedNodes' = QueuedNodes \cup {n}
        BY <1>1, <1>3, <4>1, AddBackUnique
      <4>3. QED
        BY <4>1, <4>2 DEF Active
    <3>2. CASE DisableNode(n) /\ Active(n)
      <4>1. /\ providerIDToNodeName' = providerIDToNodeName \ {n}
            /\ assignableNodes' = Delete(assignableNodes, n)
        BY <3>2 DEF DisableNode
      <4>2. QueuedNodes' = QueuedNodes \ {n}
        BY <1>1, <1>3, <4>1, DeleteUnique
      <4>3. QED
        BY <4>1, <4>2 DEF Active
    <3>3. QED
      BY <1>5, <3>1, <3>2
  <2>2. ASSUME NEW j \in IPs PROVE IPPlaced(j)'
    <3>1. IPPlaced(j) /\ ipToStatus[j].node # n
      BY <1>1, <1>5 DEF Placed, IPPlaced, Claim
    <3>2. PICK k \in NodeIDs : k = ipToStatus[j].node
      BY <1>1
    <3>3. k # NoNode => (k \in providerIDToNodeName' <=> Active(k))
      BY <2>1, <3>1, <3>2 DEF NodeIDs
    <3>4. QED
      BY <1>2, <1>3, <3>1, <3>2, <3>3 DEF IPPlaced, Claim, Active
  <2>3. ASSUME NEW m \in Nodes PROVE NodePlaced(m)'
    <3>1. NodePlaced(m)
      BY DEF Placed
    <3>2. QED
      BY <1>2, <1>5, <2>1, <3>1 DEF NodePlaced, Claim, Active
  <2>4. QED
    BY <1>2, <2>2, <2>3 DEF Placed
<1>6. QED
  BY <1>4, <1>5

(* Reconcile passes keep records, claims and queues in agreement.           *)
LEMMA PlacedReconcile ==
    ASSUME IInv, Placed, Truthful, Reconcile
    PROVE  Placed'
<1> USE DEF Goto, StartStatus, NextIP
<1>1. TypeOK /\ QueueInv /\ NoNode \in NodeIDs /\ \A n \in Nodes : n \in NodeIDs
  BY QueueFacts DEF NodeIDs
<1>2. CASE \/ DesiredDone \/ CreateIP \/ CreateIPFails \/ PendingDone \/ OnNewIPs
           \/ OnNewIPsFails \/ StatusDone \/ LookupSkip
  BY <1>2, PlacedKept DEF DesiredDone, CreateIP, CreateIPFails, PendingDone, OnNewIPs,
                          OnNewIPsFails, StatusDone, LookupSkip
<1>3. CASE \/ DNSSkip \/ EnsureDNS \/ EnsureDNSFails \/ PublishSkip \/ Publish \/ PublishFails
  BY <1>3, PlacedKept DEF DNSSkip, EnsureDNS, EnsureDNSFails, PublishSkip, Publish, PublishFails
<1>4. CASE AdoptIP
  BY <1>1, <1>4, AdoptMoves, PlacedMoves
<1>5. CASE Lookup
  BY <1>5, LookupMoves, PlacedMoves
<1>6. CASE \E err \in {"inProgress", "notFound", "other"} : LookupFails(err)
  BY <1>6, LookupFailsMoves, PlacedMoves
<1>7. CASE AssignDone
  <2>1. /\ Elements(assignableIPs') = Elements(assignableIPs) \cup Elements(retryIPs)
        /\ Elements(assignableNodes') = Elements(assignableNodes) \cup Elements(retryProviders)
    BY <1>1, <1>7, ConcatUnique DEF AssignDone, Requeue, TypeOK
  <2>2. Elements(retryIPs') = {} /\ Elements(retryProviders') = {}
    BY <1>7 DEF AssignDone, Elements
  <2>3. OfferedIPs' = OfferedIPs /\ QueuedNodes' = QueuedNodes
    BY <2>1, <2>2 DEF OfferedIPs, QueuedNodes
  <2>4. QED
    BY <1>7, <2>3, PlacedFrame DEF AssignDone
<1>8. CASE AssignSkipIP \/ AssignSkipNode
  <2>1. pc = "assign" /\ CanAssign
    BY <1>8 DEF AssignSkipIP, AssignSkipNode
  <2>2. /\ Head(assignableIPs) \in Elements(assignableIPs)
        /\ Head(assignableNodes) \in Elements(assignableNodes)
    BY <1>1, <2>1, FrontUnique DEF CanAssign, TypeOK
  <2>3. /\ Elements(assignableIPs') \cup Elements(retryIPs') = OfferedIPs
        /\ Elements(assignableNodes') \cup Elements(retryProviders') = QueuedNodes
    BY <1>1, <1>8, <2>1, <2>2, QueueHeads, RetryAppend
       DEF AssignSkipIP, AssignSkipNode, OfferedIPs, QueuedNodes
  <2>4. OfferedIPs' = OfferedIPs /\ QueuedNodes' = QueuedNodes
    BY <2>3 DEF OfferedIPs, QueuedNodes
  <2>5. QED
    BY <1>8, <2>4, PlacedFrame DEF AssignSkipIP, AssignSkipNode
<1>9. ASSUME NEW ip \in IPs, NEW n \in Nodes, AssignIP(ip, n) \/ AssignIPFails(ip, n)
      PROVE  Placed'
  BY <1>1, <1>9, AssignMoves, AssignFailsMoves, PlacedMoves
<1>10. QED
  BY <1>2, <1>3, <1>4, <1>5, <1>6, <1>7, <1>8, <1>9 DEF Reconcile

(* Maps that were just emptied agree.                                       *)
LEMMA PlacedReset ==
    ASSUME ResetMaps, retryIPs' = <<>>, retryProviders' = <<>>
    PROVE  Placed' /\ Truthful'
<1>1. /\ \A j \in IPs : ipToStatus'[j].state = "absent" /\ ipToStatus'[j].node = NoNode
      /\ providerIDToNodeName' = {}
  BY DEF ResetMaps, Absent, Status
<1>2. QED
  BY <1>1 DEF Placed, IPPlaced, NodePlaced, Active, Truthful, Tracked

(* So do the handlers, the life cycle and the environment.                  *)
LEMMA PlacedNext ==
    ASSUME IInv, Placed, Truthful, [Next]_vars
    PROVE  Placed'
<1> USE DEF Goto, ControllerUnchanged
<1>1. TypeOK /\ RetrySound /\ NoNode \in NodeIDs /\ \A n \in Nodes : n \in NodeIDs
  BY QueueFacts DEF NodeIDs, QueueInv
<1>2. CASE UpdateIPs \/ UpdateDNSSpec
  BY <1>2, PlacedKept DEF UpdateIPs, UpdateDNSSpec
<1>3. CASE UpdateProviders
  BY <1>1, <1>3, PlacedReset DEF UpdateProviders, RetrySound
<1>4. ASSUME NEW ip \in IPs, RemoveIP(ip) PROVE Placed'
  BY <1>1, <1>4, RemoveMoves, PlacedMoves
<1>5. ASSUME NEW n \in Nodes, EnableNode(n) \/ DisableNode(n) PROVE Placed'
  <2>1. CASE Claim(n) # NoIP /\ (EnableNode(n) \/ (DisableNode(n) /\ Active(n)))
    BY <1>1, <2>1, SwitchMoves, PlacedMoves
  <2>2. QED
    BY <1>5, <2>1, SwitchPlaced
<1>6. CASE Start \/ Wake \/ Stop \/ Exit \/ Panic
  BY <1>6, PlacedKept DEF Start, Wake, Stop, Exit, Panic
<1>7. CASE Restart
  BY <1>7, PlacedReset DEF Restart
<1>8. CASE Environment
  <2>1. CASE \/ ElapseCreate \/ ElapseCoolOff \/ EditSpec \/ Watch
             \/ \E n \in Nodes : ElapseNode(n) \/ WatchNode(n)
             \/ \E ip \in IPs : ElapseIP(ip) \/ ActionEnds(ip) \/ ExternalMove(ip)
    <3>1. UNCHANGED <<providerIDToIP, providerIDToNodeName, queueVars, retryIPs, retryProviders>>
      BY <2>1 DEF ElapseCreate, ElapseCoolOff, EditSpec, Watch, ElapseNode, WatchNode,
                  ElapseIP, ActionEnds, ExternalMove
    <3>2. \A j \in IPs : /\ ipToStatus'[j].state = ipToStatus[j].state
                         /\ ipToStatus'[j].node = ipToStatus[j].node
      <4>1. ASSUME NEW ip \in IPs, ElapseIP(ip)
            PROVE  \A j \in IPs : /\ ipToStatus'[j].state = ipToStatus[j].state
                                  /\ ipToStatus'[j].node = ipToStatus[j].node
        BY <1>1, <4>1 DEF ElapseIP, TypeOK
      <4>2. QED
        BY <2>1, <4>1 DEF ElapseCreate, ElapseCoolOff, EditSpec, Watch, ElapseNode, WatchNode,
                          ActionEnds, ExternalMove
    <3>3. OfferedIPs' = OfferedIPs /\ QueuedNodes' = QueuedNodes
      BY <3>1 DEF OfferedIPs, QueuedNodes
    <3>4. QED
      BY <3>1, <3>2, <3>3, PlacedFrame
  <2>2. QED
    BY <1>8, <2>1 DEF Environment
<1>9. CASE UNCHANGED vars
  BY <1>9, PlacedKept DEF vars
<1>10. QED
  BY <1>2, <1>3, <1>4, <1>5, <1>6, <1>7, <1>8, <1>9, PlacedReconcile
     DEF Next, Handlers, Lifecycle

(* While no record is wrong, records, claims and queues agree: for any      *)
(* number of IPs, nodes and failures, and an asynchronous provider.         *)
THEOREM WhereaboutsKnown ==
    ASSUME "lostNewIPs" \notin Events
    PROVE  HSpec => [](IInv /\ WhereInv)
<1>1. HSpec => Spec
  <2>1. HInit => Init
    BY DEF HInit
  <2>2. [HNext]_hvars => [Next]_vars
    BY DEF HNext, hvars
  <2>3. QED
    BY <2>1, <2>2, PTL DEF HSpec, Spec
<1>2. Spec => []IInv
  BY Inductive
<1>3. HInit => WhereInv
  <2> SUFFICES ASSUME HInit PROVE Truthful /\ Placed
    BY DEF WhereInv
  <2>1. /\ \A j \in IPs : ipToStatus[j].state = "absent" /\ ipToStatus[j].node = NoNode
        /\ providerIDToNodeName = {}
    BY DEF HInit, Init, InitController, Absent, Status
  <2>2. QED
    BY <2>1 DEF Placed, IPPlaced, NodePlaced, Active, Truthful, Tracked
<1>4. IInv /\ WhereInv /\ [HNext]_hvars => WhereInv'
  <2> SUFFICES ASSUME IInv, WhereInv, [HNext]_hvars, ~strayed' PROVE Truthful' /\ Placed'
    BY DEF WhereInv
  <2>1. CASE UNCHANGED hvars
    <3>1. UNCHANGED vars /\ Truthful /\ Placed
      BY <2>1 DEF hvars, WhereInv
    <3>2. Placed'
      BY <3>1, PlacedNext
    <3>3. Truthful'
      BY <3>1 DEF vars, Truthful, Tracked, Dest
    <3>4. QED
      BY <3>2, <3>3
  <2>2. CASE HNext /\ (Restart \/ UpdateProviders)
    <3>1. RetrySound
      BY DEF IInv
    <3>2. QED
      BY <2>2, <3>1, PlacedReset DEF Restart, UpdateProviders, RetrySound, Goto
  <2>3. CASE HNext /\ ~(Restart \/ UpdateProviders)
    <3>1. Next /\ ~strayed /\ Truthful'
      BY <2>3 DEF HNext
    <3>2. QED
      BY <3>1, PlacedNext DEF WhereInv
  <2>4. QED
    BY <2>1, <2>2, <2>3
<1>5. QED
  BY <1>1, <1>2, <1>3, <1>4, PTL DEF HSpec

(* Until a record is wrong about where an IP is, the IP of an active node   *)
(* is never up for assignment to another one.                               *)
THEOREM NothingStolen ==
    ASSUME "lostNewIPs" \notin Events
    PROVE  HSpec => []NoSteal
<1>1. IInv /\ WhereInv => NoSteal
  <2> SUFFICES ASSUME IInv, WhereInv, ~strayed, NEW n \in providerIDToNodeName, Claim(n) # NoIP
               PROVE  ~IsSet(assignableIPs, Claim(n))
    BY DEF NoSteal
  <2>1. /\ Placed /\ n \in Nodes /\ NoNode \notin Nodes /\ ClaimConsistent
        /\ Claim(n) \in IPs
    BY ConstantsAssumption DEF WhereInv, IInv, TypeOK, Claim
  <2>2. IPPlaced(Claim(n)) /\ ipToStatus[Claim(n)].node = n
    BY <2>1 DEF Placed, ClaimConsistent
  <2>3. Claim(n) \notin OfferedIPs
    BY <2>1, <2>2 DEF IPPlaced, Active
  <2>4. QED
    BY <2>3 DEF OfferedIPs, IsSet
<1>2. QED
  BY <1>1, WhereaboutsKnown, PTL

(* Until then, an active node waits for an IP exactly when it has none.     *)
THEOREM NoNodeForgotten ==
    ASSUME "lostNewIPs" \notin Events
    PROVE  HSpec => []NodesAccounted
<1>1. IInv /\ WhereInv => NodesAccounted
  <2> SUFFICES ASSUME IInv, WhereInv, ~strayed, Settled, NEW n \in providerIDToNodeName
               PROVE  IsSet(assignableNodes, n) <=> Claim(n) = NoIP
    BY DEF NodesAccounted
  <2>1. NodePlaced(n)
    BY DEF WhereInv, Placed, IInv, TypeOK
  <2>2. QueuedNodes = Elements(assignableNodes)
    BY NoneSkipped DEF Settled
  <2>3. QED
    BY <2>1, <2>2 DEF NodePlaced, Active, IsSet
<1>2. QED
  BY <1>1, WhereaboutsKnown, PTL

(* Until then, no IP that serves no active node is stranded.                *)
THEOREM NoIPStranded ==
    ASSUME "lostNewIPs" \notin Events
    PROVE  HSpec => []IPsAccounted
<1>1. IInv /\ WhereInv => IPsAccounted
  <2> SUFFICES ASSUME IInv, WhereInv, ~strayed, Settled, NEW ip \in IPs,
                      ipToStatus[ip].state \in {"no-match", "unassigned"}
               PROVE  IsSet(assignableIPs, ip)
    BY DEF IPsAccounted, IPsOffered
  <2>1. IPPlaced(ip)
    BY DEF WhereInv, Placed
  <2>2. OfferedIPs = Elements(assignableIPs)
    BY NoneSkipped DEF Settled
  <2>3. QED
    BY <2>1, <2>2 DEF IPPlaced, IsSet
<1>2. QED
  BY <1>1, WhereaboutsKnown, PTL
-----------------------------------------------------------------------------
(***************************************************************************)
(* How records become wrong: every step of a controller whose records are  *)
(* right keeps them right, or is one that Strays lists.  A displaced IP    *)
(* loses its node rightly, because the provider never has two IPs on one.  *)
(***************************************************************************)
\* No two IPs are on, or on their way to, the same node.
CloudApart ==
    \A i, j \in IPs : i # j =>
        {attached[i], inflight[i]} \cap {attached[j], inflight[j]} \subseteq {NoNode}

(* The provider moves one IP at a time, to a node that is not in use.       *)
LEMMA ApartOne ==
    ASSUME CloudApart, NEW ip \in IPs,
           \A j \in IPs : j # ip => attached'[j] = attached[j] /\ inflight'[j] = inflight[j],
           \A n \in {attached'[ip], inflight'[ip]} :
              n \in {NoNode, attached[ip], inflight[ip]} \/ ~NodeInUse(ip, n)
    PROVE  CloudApart'
BY DEF CloudApart, NodeInUse

(* Steps other than the provider's leave the attachments alone.             *)
LEMMA CloudNext ==
    ASSUME TypeOK, CloudApart, [Next]_vars
    PROVE  CloudApart'
<1>1. attached \in [IPs -> NodeIDs] /\ inflight \in [IPs -> NodeIDs]
  BY DEF TypeOK
<1>2. CASE UNCHANGED <<attached, inflight>>
  BY <1>2 DEF CloudApart
<1>3. ASSUME NEW ip \in IPs, NEW n \in Nodes, AssignIP(ip, n) PROVE CloudApart'
  BY <1>1, <1>3, ApartOne DEF AssignIP, ProviderAssigns
<1>4. ASSUME NEW ip \in IPs, NEW n \in Nodes, AssignIPFails(ip, n) PROVE CloudApart'
  BY <1>1, <1>2, <1>4, ApartOne DEF AssignIPFails
<1>5. ASSUME NEW ip \in IPs, ActionEnds(ip) PROVE CloudApart'
  BY <1>1, <1>5, ApartOne DEF ActionEnds
<1>6. ASSUME NEW ip \in IPs, ExternalMove(ip) PROVE CloudApart'
  BY <1>1, <1>6, ApartOne DEF ExternalMove
<1>7. CASE Reconcile
  BY <1>2, <1>3, <1>4, <1>7
     DEF Reconcile, DesiredDone, CreateIP, CreateIPFails, PendingDone, OnNewIPs, OnNewIPsFails,
         AdoptIP, StatusDone, LookupSkip, Lookup, LookupFails, AssignDone, AssignSkipIP,
         AssignSkipNode, DNSSkip, EnsureDNS, EnsureDNSFails, PublishSkip, Publish, PublishFails
<1>8. CASE Handlers \/ Lifecycle
  BY <1>2, <1>8 DEF Handlers, UpdateIPs, UpdateDNSSpec, UpdateProviders, RemoveIP, EnableNode,
                    DisableNode, Lifecycle, Start, Wake, Stop, Exit, Restart, Panic
<1>9. CASE Environment
  BY <1>2, <1>5, <1>6, <1>9 DEF Environment, ElapseCreate, ElapseCoolOff, EditSpec, Watch,
                                ElapseNode, WatchNode, ElapseIP
<1>10. CASE UNCHANGED vars
  BY <1>2, <1>10 DEF vars
<1>11. QED
  BY <1>7, <1>8, <1>9, <1>10 DEF Next

(* A step that moves one record rightly keeps the others right.             *)
LEMMA TruthMoves ==
    ASSUME Truthful, NEW ip \in IPs, NEW d, NEW m, Moves(ip, d, m),
           \A j \in IPs : j # ip => attached'[j] = attached[j] /\ inflight'[j] = inflight[j],
           Tracked(ip)' /\ Dest(ip)' # NoNode => Dest(ip)' = m,
           d \in IPs => Dest(d) = NoNode
    PROVE  Truthful'
BY DEF Truthful, Moves, Tracked, Dest

(* A step that moves neither records nor IPs.                               *)
LEMMA TruthFrame ==
    ASSUME Truthful, \A j \in IPs : Dest(j)' = Dest(j),
           \A j \in IPs : /\ ipToStatus'[j].state = ipToStatus[j].state
                          /\ ipToStatus'[j].node = ipToStatus[j].node
    PROVE  Truthful'
BY DEF Truthful, Tracked

(* Reconcile passes, but for the calls LosesTrack lists.                    *)
LEMMA TruthReconcile ==
    ASSUME IInv, Placed, Truthful, CloudApart, Reconcile, ~LosesTrack
    PROVE  Truthful'
<1>1. TypeOK /\ NoIP \notin IPs /\ NoNode \notin Nodes
  BY QueueFacts
<1>2. CASE UNCHANGED <<ipToStatus, attached, inflight>>
  BY <1>2, TruthFrame DEF Dest
<1>3. CASE AdoptIP
  <2>1. PICK ip : ip = Head(pendingIPs)
    OBVIOUS
  <2>2. ip \in IPs /\ Moves(ip, NoIP, NoNode) /\ UNCHANGED <<attached, inflight>>
    BY <1>3, <2>1, AdoptMoves
  <2>3. Dest(ip) = NoNode
    BY <1>3, <2>1 DEF LosesTrack, AdoptTaken
  <2>4. QED
    BY <1>1, <2>2, <2>3, TruthMoves DEF Dest
<1>4. CASE Lookup
  <2>1. PICK ip : ip = ips[cursor]
    OBVIOUS
  <2>2. PICK p : p = attached[ip]
    OBVIOUS
  <2>3. PICK d : d = IF ~Tracked(ip) /\ p \in Nodes THEN Claim(p) ELSE NoIP
    OBVIOUS
  <2>4. /\ ip \in IPs /\ Moves(ip, d, p) /\ inflight[ip] = NoNode
        /\ UNCHANGED <<attached, inflight>>
    BY <1>4, <2>1, <2>2, <2>3, LookupMoves
  <2>5. ASSUME d \in IPs PROVE Dest(d) = NoNode
    <3>1. p \in Nodes /\ d = Claim(p) /\ ~Tracked(ip)
      BY <1>1, <2>3, <2>5
    <3>2. Tracked(d) /\ ipToStatus[d].node = p /\ d # ip
      BY <1>1, <2>5, <3>1, QueueFacts DEF ClaimConsistent
    <3>3. Dest(d) \in {NoNode, p}
      BY <2>5, <3>2 DEF Truthful
    <3>4. Dest(d) # p
      BY <1>1, <2>2, <2>4, <2>5, <3>1, <3>2 DEF CloudApart, Dest
    <3>5. QED
      BY <3>3, <3>4
  <2>6. QED
    BY <2>2, <2>4, <2>5, TruthMoves DEF Dest
<1>5. ASSUME NEW err \in {"inProgress", "notFound", "other"}, LookupFails(err) PROVE Truthful'
  <2>1. PICK ip : ip = ips[cursor]
    OBVIOUS
  <2>2. err # "notFound" /\ Tracked(ip)
    BY <1>5, <2>1 DEF LosesTrack, BlindLookup
  <2>3. PICK m : m = ipToStatus[ip].node
    OBVIOUS
  <2>4. ip \in IPs /\ Moves(ip, NoIP, m) /\ UNCHANGED <<attached, inflight>>
    BY <1>5, <2>1, <2>2, <2>3, LookupFailsMoves
  <2>5. QED
    BY <1>1, <2>2, <2>3, <2>4, TruthMoves DEF Dest, Truthful
<1>6. ASSUME NEW ip \in IPs, NEW n \in Nodes, AssignIP(ip, n) PROVE Truthful'
  <2>1. Moves(ip, NoIP, n)
    BY <1>6, AssignMoves
  <2>2. inflight[ip] \in {NoNode, n}
    BY <1>6 DEF LosesTrack, ForeignAction
  <2>3. /\ \A j \in IPs : j # ip => attached'[j] = attached[j] /\ inflight'[j] = inflight[j]
        /\ Dest(ip)' = n
    BY <1>1, <1>6, <2>2 DEF AssignIP, ProviderAssigns, TypeOK, Dest
  <2>4. QED
    BY <1>1, <2>1, <2>3, TruthMoves
<1>7. ASSUME NEW ip \in IPs, NEW n \in Nodes, AssignIPFails(ip, n) PROVE Truthful'
  <2>1. Moves(ip, NoIP, NoNode)
    BY <1>7, AssignFailsMoves
  <2>2. Dest(ip)' = NoNode
    BY <1>7 DEF LosesTrack, Rollback
  <2>3. \A j \in IPs : j # ip => attached'[j] = attached[j] /\ inflight'[j] = inflight[j]
    BY <1>1, <1>7 DEF AssignIPFails, TypeOK
  <2>4. QED
    BY <1>1, <2>1, <2>2, <2>3, TruthMoves
<1>8. QED
  BY <1>2, <1>3, <1>4, <1>5, <1>6, <1>7
     DEF Reconcile, DesiredDone, CreateIP, CreateIPFails, PendingDone, OnNewIPs, OnNewIPsFails,
         StatusDone, LookupSkip, AssignDone, AssignSkipIP, AssignSkipNode, DNSSkip, EnsureDNS,
         EnsureDNSFails, PublishSkip, Publish, PublishFails

(* The handlers never lose track of an IP.                                  *)
LEMMA TruthHandlers ==
    ASSUME IInv, Placed, Truthful, Handlers, ~UpdateProviders
    PROVE  Truthful'
<1>1. TypeOK /\ NoIP \notin IPs /\ NoNode \notin Nodes
  BY QueueFacts
<1>2. CASE UNCHANGED <<ipToStatus, attached, inflight>>
  BY <1>2, TruthFrame DEF Dest
<1>3. ASSUME NEW ip \in IPs, RemoveIP(ip) PROVE Truthful'
  BY <1>1, <1>3, RemoveMoves, TruthMoves
<1>4. ASSUME NEW n \in Nodes, EnableNode(n) \/ DisableNode(n) PROVE Truthful'
  <2>1. CASE Claim(n) # NoIP /\ (EnableNode(n) \/ (DisableNode(n) /\ Active(n)))
    <3>1. PICK ip : ip = Claim(n)
      OBVIOUS
    <3>2. /\ ip \in IPs /\ Moves(ip, NoIP, n) /\ ipToStatus[ip].node = n /\ Tracked(ip)
          /\ UNCHANGED <<attached, inflight>>
      BY <2>1, <3>1, SwitchMoves
    <3>3. QED
      BY <1>1, <3>2, TruthMoves DEF Dest, Truthful
  <2>2. QED
    BY <1>2, <1>4, <2>1, SwitchPlaced
<1>5. QED
  BY <1>2, <1>3, <1>4 DEF Handlers, UpdateIPs, UpdateDNSSpec

(* Any step.                                                                *)
LEMMA TruthNext ==
    ASSUME IInv, Placed, Truthful, CloudApart, Next, ~LosesTrack, ~Restart, ~UpdateProviders
    PROVE  Truthful'
<1>1. TypeOK
  BY QueueFacts
<1>2. CASE UNCHANGED <<ipToStatus, attached, inflight>>
  BY <1>2, TruthFrame DEF Dest
<1>3. ASSUME NEW ip \in IPs, ElapseIP(ip) PROVE Truthful'
  <2>1. /\ \A j \in IPs : /\ ipToStatus'[j].state = ipToStatus[j].state
                          /\ ipToStatus'[j].node = ipToStatus[j].node
        /\ UNCHANGED <<attached, inflight>>
    BY <1>1, <1>3 DEF ElapseIP, TypeOK
  <2>2. QED
    BY <2>1, TruthFrame DEF Dest
<1>4. ASSUME NEW ip \in IPs, ActionEnds(ip) PROVE Truthful'
  <2>1. /\ inflight[ip] # NoNode /\ inflight' = [inflight EXCEPT ![ip] = NoNode]
        /\ UNCHANGED ipToStatus
        /\ attached' = [attached EXCEPT ![ip] = inflight[ip]] \/ UNCHANGED attached
        /\ attached'[ip] = inflight[ip]
    BY <1>4 DEF ActionEnds, LosesTrack
  <2>2. \A j \in IPs : Dest(j)' = Dest(j)
    BY <1>1, <2>1 DEF Dest, TypeOK
  <2>3. QED
    BY <2>1, <2>2, TruthFrame
<1>5. \A ip \in IPs : ~ExternalMove(ip)
  BY DEF LosesTrack
<1>6. CASE Lifecycle
  BY <1>2, <1>6 DEF Lifecycle, Start, Wake, Stop, Exit, Panic
<1>7. CASE Environment
  BY <1>2, <1>3, <1>4, <1>5, <1>7 DEF Environment, ControllerUnchanged, ElapseCreate,
                                      ElapseCoolOff, EditSpec, Watch, ElapseNode, WatchNode
<1>8. QED
  BY <1>6, <1>7, TruthReconcile, TruthHandlers DEF Next

(* No two IPs are ever on one node, and what the invariants say of HSpec.   *)
LEMMA WhereAndApart ==
    ASSUME "lostNewIPs" \notin Events
    PROVE  HSpec => [](IInv /\ WhereInv /\ CloudApart)
<1>1. HInit => CloudApart
  BY DEF HInit, Init, CloudApart
<1>2. IInv /\ CloudApart /\ [HNext]_hvars => CloudApart'
  BY CloudNext DEF IInv, HNext, hvars
<1>3. QED
  BY <1>1, <1>2, WhereaboutsKnown, PTL DEF HSpec

(* Records become wrong only in the ways LosesTrack lists.                  *)
THEOREM StraysListed ==
    ASSUME "lostNewIPs" \notin Events
    PROVE  HSpec => Strays
<1>1. IInv /\ WhereInv /\ CloudApart /\ [HNext]_hvars
          => [~strayed /\ strayed' => LosesTrack]_hvars
  BY TruthNext DEF WhereInv, HNext
<1>2. QED
  BY <1>1, WhereAndApart, PTL DEF HSpec, Strays
-----------------------------------------------------------------------------
(***************************************************************************)
(* The promise of Assignment, with an asynchronous provider: until a       *)
(* record is wrong, an IP moves only when reconcileAssignment moves it,    *)
(* and PairIsFree says which pairs that takes.                             *)
(***************************************************************************)
\* The nodes the controller takes for active are those that match.
LiveInv ==
    /\ pc # "stopped" /\ matched = providerIDToNodeName
    /\ strayed \in BOOLEAN

(* It holds unless a context is cancelled and updateProviders follows.      *)
LEMMA LiveNext ==
    ASSUME "cancel" \notin Events, IInv, LiveInv, [HNext]_hvars
    PROVE  LiveInv'
<1> USE DEF Goto, StartStatus, NextIP, ControllerUnchanged
<1>1. ~cancelled /\ pc # "stopped" /\ matched = providerIDToNodeName
  BY DEF IInv, ScanComplete, LiveInv
<1>2. ~Exit /\ ~UpdateProviders
  BY <1>1 DEF Exit, UpdateProviders
<1>3. strayed' \in BOOLEAN
  BY DEF HNext, hvars, LiveInv
<1>4. ASSUME Next PROVE pc' # "stopped" /\ matched' = providerIDToNodeName'
  <2>1. CASE Reconcile
    <3>1. pc' # "stopped"
      BY <1>1, <2>1
         DEF Reconcile, DesiredDone, CreateIP, CreateIPFails, PendingDone, OnNewIPs, OnNewIPsFails,
             AdoptIP, StatusDone, LookupSkip, Lookup, LookupFails, AssignDone, AssignSkipIP,
             AssignSkipNode, AssignIP, AssignIPFails, DNSSkip, EnsureDNS, EnsureDNSFails,
             PublishSkip, Publish, PublishFails
    <3>2. UNCHANGED <<matched, providerIDToNodeName>>
      BY <2>1
         DEF Reconcile, DesiredDone, CreateIP, CreateIPFails, PendingDone, OnNewIPs, OnNewIPsFails,
             AdoptIP, StatusDone, LookupSkip, Lookup, LookupFails, AssignDone, AssignSkipIP,
             AssignSkipNode, AssignIP, AssignIPFails, DNSSkip, EnsureDNS, EnsureDNSFails,
             PublishSkip, Publish, PublishFails
    <3>3. QED
      BY <1>1, <3>1, <3>2
  <2>2. CASE Handlers
    BY <1>1, <1>2, <2>2 DEF Handlers, UpdateIPs, UpdateDNSSpec, RemoveIP, EnableNode, DisableNode
  <2>3. CASE Lifecycle
    BY <1>1, <1>2, <2>3 DEF Lifecycle, Start, Wake, Stop, Restart, Panic, ResetMaps
  <2>4. CASE Environment
    BY <1>1, <2>4 DEF Environment, ElapseCreate, ElapseCoolOff, EditSpec, Watch, ElapseNode,
                      WatchNode, ElapseIP, ActionEnds, ExternalMove
  <2>5. QED
    BY <1>4, <2>1, <2>2, <2>3, <2>4 DEF Next
<1>5. CASE UNCHANGED hvars
  BY <1>1, <1>5 DEF hvars, vars, LiveInv
<1>6. QED
  BY <1>3, <1>4, <1>5 DEF HNext, LiveInv

(* A call of AssignIP that moves the IP is Assign of the promise.           *)
LEMMA AssignIsAssign ==
    ASSUME IInv, Placed, Truthful, LiveInv, LiveInv', ~strayed, UNCHANGED matched,
           NEW ip \in IPs, NEW n \in Nodes, Assigning(ip, n),
           inflight[ip] = NoNode, attached[ip] # n, ~NodeInUse(ip, n),
           Dest(ip)' = n, \A j \in IPs : j # ip => Dest(j)' = Dest(j)
    PROVE  Promise!Assign(ip, n)
<1>1. NoNode \notin Nodes /\ Active(n) /\ Tracked(ip) /\ ~Active(ipToStatus[ip].node)
  BY QueueFacts, PairIsFree
<1>2. n \in matched /\ \A j \in IPs : Dest(j) # n
  BY <1>1 DEF LiveInv, Active, NodeInUse, Dest
<1>3. Dest(ip) \notin matched
  <2>1. NoNode \notin matched
    BY <1>1 DEF LiveInv, IInv, TypeOK
  <2>2. Dest(ip) # NoNode => Dest(ip) = ipToStatus[ip].node
    BY <1>1 DEF Truthful
  <2>3. QED
    BY <1>1, <2>1, <2>2 DEF LiveInv, Active
<1>4. [j \in IPs |-> Dest(j)]' = [[j \in IPs |-> Dest(j)] EXCEPT ![ip] = n]
  OBVIOUS
<1>5. strayed' \in {strayed, TRUE}
  BY DEF LiveInv
<1>6. QED
  BY <1>2, <1>3, <1>4, <1>5 DEF Promise!Assign

(* A restart is one of the promise.                                         *)
LEMMA RestartIsRestart ==
    ASSUME HNext, Restart
    PROVE  Promise!Next
<1>1. strayed' = FALSE /\ matched' = {} /\ UNCHANGED <<attached, inflight>>
  BY DEF HNext, Restart
<1>2. [j \in IPs |-> Dest(j)]' = [j \in IPs |-> Dest(j)]
  BY <1>1 DEF Dest
<1>3. Promise!Restart
  BY <1>1, <1>2 DEF Promise!Restart
<1>4. QED
  BY <1>3 DEF Promise!Next

(* A step with right records is one of the promise, or changes nothing.     *)
LEMMA PromiseStep ==
    ASSUME {"move", "asyncFail", "cancel"} \cap Events = {},
           IInv, WhereInv, LiveInv, LiveInv', ~strayed, HNext
    PROVE  [Promise!Next]_(Promise!avars)
<1>1. TypeOK /\ Placed /\ Truthful /\ NoNode \notin Nodes /\ Next
  BY QueueFacts DEF WhereInv, HNext
<1>2. /\ strayed \in BOOLEAN /\ strayed' \in BOOLEAN /\ ~UpdateProviders
      /\ "move" \notin Events /\ "asyncFail" \notin Events
  BY DEF LiveInv, UpdateProviders
<1>3. ASSUME \A j \in IPs : Dest(j)' = Dest(j), UNCHANGED matched
      PROVE  [Promise!Next]_(Promise!avars)
  <2>1. [j \in IPs |-> Dest(j)]' = [j \in IPs |-> Dest(j)]
    BY <1>3
  <2>2. CASE strayed' = strayed
    BY <1>3, <2>1, <2>2 DEF Promise!avars
  <2>3. CASE strayed' # strayed
    <3>1. strayed' = TRUE
      BY <1>2, <2>3
    <3>2. Promise!GoAstray
      BY <1>3, <2>1, <3>1 DEF Promise!GoAstray
    <3>3. QED
      BY <3>2 DEF Promise!Next
  <2>4. QED
    BY <2>2, <2>3
<1>4. CASE UNCHANGED <<attached, inflight, matched>>
  BY <1>3, <1>4 DEF Dest
<1>5. ASSUME NEW ip \in IPs, NEW n \in Nodes, AssignIP(ip, n) \/ AssignIPFails(ip, n)
      PROVE  [Promise!Next]_(Promise!avars)
  <2>1. Assigning(ip, n) /\ UNCHANGED matched
    BY <1>5 DEF AssignIP, AssignIPFails
  <2>2. CASE UNCHANGED <<attached, inflight>>
    BY <1>4, <2>1, <2>2
  <2>3. CASE ~UNCHANGED <<attached, inflight>>
    <3>1. inflight[ip] = NoNode /\ (attached[ip] = n \/ ~NodeInUse(ip, n))
      BY <1>5, <2>3 DEF AssignIP, ProviderAssigns, AssignIPFails
    <3>2. /\ Dest(ip)' = n
          /\ \A j \in IPs : j # ip => Dest(j)' = Dest(j)
      BY <1>1, <1>5, <2>3, <3>1 DEF AssignIP, ProviderAssigns, AssignIPFails, Dest, TypeOK
    <3>3. CASE attached[ip] = n
      <4>1. Dest(ip) = n
        BY <3>1, <3>3 DEF Dest
      <4>2. QED
        BY <1>3, <2>1, <3>2, <4>1
    <3>4. CASE attached[ip] # n
      <4>1. Promise!Assign(ip, n)
        BY <1>1, <2>1, <3>1, <3>2, <3>4, AssignIsAssign
      <4>2. QED
        BY <4>1 DEF Promise!Next
    <3>5. QED
      BY <3>3, <3>4
  <2>4. QED
    BY <2>2, <2>3
<1>6. CASE Reconcile
  BY <1>4, <1>5, <1>6
     DEF Reconcile, DesiredDone, CreateIP, CreateIPFails, PendingDone, OnNewIPs, OnNewIPsFails,
         AdoptIP, StatusDone, LookupSkip, Lookup, LookupFails, AssignDone, AssignSkipIP,
         AssignSkipNode, DNSSkip, EnsureDNS, EnsureDNSFails, PublishSkip, Publish, PublishFails
<1>7. ASSUME NEW n \in Nodes, EnableNode(n) \/ DisableNode(n)
      PROVE  [Promise!Next]_(Promise!avars)
  <2>1. CASE Restart
    BY <2>1, RestartIsRestart
  <2>2. CASE ~Restart
    <3>1. Truthful'
      BY <1>1, <1>2, <1>7, TruthHandlers DEF Handlers
    <3>2. strayed' = strayed
      BY <1>2, <2>2, <3>1 DEF HNext
    <3>3. UNCHANGED <<attached, inflight>>
      BY <1>7 DEF EnableNode, DisableNode
    <3>4. [j \in IPs |-> Dest(j)]' = [j \in IPs |-> Dest(j)]
      BY <3>3 DEF Dest
    <3>5. EnableNode(n) => Promise!Enable(n)
      BY <3>2, <3>4 DEF EnableNode, LiveInv, Active, Promise!Enable
    <3>6. DisableNode(n) => Promise!Disable(n)
      BY <3>2, <3>4 DEF DisableNode, Promise!Disable
    <3>7. QED
      BY <1>7, <3>5, <3>6 DEF Promise!Next
  <2>3. QED
    BY <2>1, <2>2
<1>8. CASE Handlers
  BY <1>2, <1>4, <1>7, <1>8 DEF Handlers, UpdateIPs, UpdateDNSSpec, RemoveIP
<1>9. CASE Restart
  BY <1>9, RestartIsRestart
<1>10. CASE Lifecycle
  BY <1>4, <1>9, <1>10 DEF Lifecycle, Start, Wake, Stop, Exit, Panic
<1>11. ASSUME NEW ip \in IPs, ActionEnds(ip) PROVE [Promise!Next]_(Promise!avars)
  <2>1. /\ inflight[ip] # NoNode /\ inflight' = [inflight EXCEPT ![ip] = NoNode]
        /\ attached' = [attached EXCEPT ![ip] = inflight[ip]] /\ UNCHANGED matched
    BY <1>2, <1>11 DEF ActionEnds, ControllerUnchanged, Event
  <2>2. \A j \in IPs : Dest(j)' = Dest(j)
    BY <1>1, <2>1 DEF Dest, TypeOK
  <2>3. QED
    BY <1>3, <2>1, <2>2
<1>12. CASE Environment
  BY <1>2, <1>4, <1>11, <1>12 DEF Environment, ControllerUnchanged, ElapseCreate, ElapseCoolOff,
                                  EditSpec, Watch, ElapseNode, WatchNode, ElapseIP, ExternalMove,
                                  Event
<1>13. QED
  BY <1>1, <1>6, <1>8, <1>10, <1>12 DEF Next

(* The controller with its asynchronous provider implements Assignment:     *)
(* until it is wrong about where an IP is, and after a restart anew, an IP  *)
(* goes only to a matching node without one and leaves only a node that no  *)
(* longer matches, through failures, lost answers and crashes at any step.  *)
THEOREM PromiseKept ==
    ASSUME {"move", "asyncFail", "cancel", "lostNewIPs"} \cap Events = {}
    PROVE  HSpec => KeepsPromise
<1>1. "cancel" \notin Events /\ "lostNewIPs" \notin Events
      /\ {"move", "asyncFail", "cancel"} \cap Events = {}
  OBVIOUS
<1>2. HInit => Promise!Init /\ LiveInv
  <2> SUFFICES ASSUME HInit PROVE Promise!Init /\ LiveInv
    OBVIOUS
  <2>1. LiveInv
    BY DEF HInit, Init, InitController, LiveInv
  <2>2. \A j \in IPs : Dest(j) = attached[j]
    BY DEF HInit, Init, Dest
  <2>3. /\ [j \in IPs |-> Dest(j)] \in [IPs -> Nodes \cup {NoNode}]
        /\ Promise!Exclusive([j \in IPs |-> Dest(j)])
    BY <2>2 DEF HInit, Init, NodeIDs, Promise!Exclusive
  <2>4. matched = {} /\ strayed = FALSE
    BY DEF HInit, Init
  <2>5. QED
    BY <2>1, <2>3, <2>4 DEF Promise!Init
<1>3. IInv /\ LiveInv /\ [HNext]_hvars => LiveInv'
  BY <1>1, LiveNext
<1>4. IInv /\ WhereInv /\ LiveInv /\ LiveInv' /\ [HNext]_hvars => [Promise!Next]_(Promise!avars)
  <2> SUFFICES ASSUME IInv, WhereInv, LiveInv, LiveInv', [HNext]_hvars
               PROVE  [Promise!Next]_(Promise!avars)
    OBVIOUS
  <2>1. CASE UNCHANGED hvars
    <3>1. [j \in IPs |-> Dest(j)]' = [j \in IPs |-> Dest(j)]
      BY <2>1 DEF hvars, vars, Dest
    <3>2. QED
      BY <2>1, <3>1 DEF hvars, vars, Promise!avars
  <2>2. CASE HNext /\ ~strayed
    BY <1>1, <2>2, PromiseStep
  <2>3. CASE HNext /\ strayed
    <3>1. CASE Restart
      BY <2>3, <3>1, RestartIsRestart
    <3>2. CASE ~Restart
      <4>1. strayed' = TRUE
        BY <2>3, <3>2 DEF HNext, LiveInv, UpdateProviders
      <4>2. Promise!GoAstray
        BY <2>3, <4>1 DEF Promise!GoAstray
      <4>3. QED
        BY <4>2 DEF Promise!Next
    <3>3. QED
      BY <3>1, <3>2
  <2>4. QED
    BY <2>1, <2>2, <2>3
<1>5. HSpec => [](IInv /\ WhereInv)
  BY <1>1, WhereaboutsKnown
<1>6. QED
  BY <1>2, <1>3, <1>4, <1>5, PTL DEF HSpec, KeepsPromise, Promise!Spec
-----------------------------------------------------------------------------
(***************************************************************************)
(* The published status, while the records are right.  StatusInv is        *)
(* inductive relative to IInv and WhereInv unless a context is cancelled:  *)
(* updateProviders forgets the states and publishes nothing.               *)
(***************************************************************************)
\* The status as published has the state, and the node a lookup found.
Shown(ip) ==
    /\ published[ip][1] = ipToStatus[ip].state
    /\ ipToStatus[ip].state \in {"active", "no-match"} => published[ip][2] = ipToStatus[ip].node

StatusInv ==
    /\ pc # "stopped"
    /\ disabledIPs \subseteq owned
    /\ disabledIPs \cap (Elements(ips) \cup Elements(pendingIPs)) = {}
    /\ removing # {} \/ pc = "adopt" => updateStatus
    /\ ~strayed /\ ~updateStatus => \A ip \in Elements(ips) : Shown(ip)

(* A step that changes neither the lists nor, unless it marks the status    *)
(* for update, the states.                                                  *)
LEMMA StatusFrame ==
    ASSUME StatusInv, UNCHANGED <<specVars, owned>>, removing' \subseteq removing,
           updateStatus => updateStatus', pc' # "stopped", pc' = "adopt" => pc = "adopt",
           ~strayed' /\ ~updateStatus' =>
              /\ ~strayed /\ UNCHANGED published
              /\ \A ip \in Elements(ips) :
                    /\ ipToStatus'[ip].state = ipToStatus[ip].state
                    /\ ipToStatus'[ip].state \in {"active", "no-match"}
                          => ipToStatus'[ip].node = ipToStatus[ip].node
    PROVE  StatusInv'
BY DEF StatusInv, Shown

(* reconcileDesiredIPs and reconcilePendingIPs mark every change.           *)
LEMMA StatusAllocate ==
    ASSUME IInv, StatusInv, ~strayed' => ~strayed,
           DesiredDone \/ CreateIP \/ CreateIPFails \/ PendingDone \/ OnNewIPs \/ OnNewIPsFails
             \/ AdoptIP
    PROVE  StatusInv'
<1> USE DEF Goto, StartStatus
<1>1. TypeOK /\ pc # "stopped"
  BY DEF IInv, StatusInv
<1>2. CASE DesiredDone \/ CreateIPFails \/ PendingDone \/ OnNewIPsFails
  BY <1>1, <1>2, StatusFrame DEF DesiredDone, CreateIPFails, PendingDone, OnNewIPsFails
<1>3. CASE OnNewIPs
  BY <1>3 DEF OnNewIPs, StatusInv
<1>4. CASE CreateIP
  <2>1. PICK ip \in IPs \ owned : /\ owned' = owned \cup {ip}
                                  /\ pendingIPs' = Append(pendingIPs, ip)
    BY <1>4 DEF CreateIP
  <2>2. Elements(pendingIPs') = Elements(pendingIPs) \cup {ip}
    BY <1>1, <2>1, AppendUnique DEF TypeOK
  <2>3. QED
    BY <1>1, <1>4, <2>1, <2>2 DEF CreateIP, StatusInv
<1>5. CASE AdoptIP
  <2>1. /\ Head(pendingIPs) \in IPs /\ Head(pendingIPs) \in Elements(pendingIPs)
        /\ Elements(Tail(pendingIPs)) \subseteq Elements(pendingIPs)
    BY <1>1, <1>5, FrontUnique DEF AdoptIP, TypeOK
  <2>2. Elements(ips') = Elements(ips) \cup {Head(pendingIPs)}
    BY <1>1, <1>5, <2>1, AppendUnique DEF AdoptIP, TypeOK
  <2>3. updateStatus'
    BY <1>5 DEF AdoptIP, StatusInv
  <2>4. pc' # "stopped" /\ UNCHANGED <<disabledIPs, owned>> /\ pendingIPs' = Tail(pendingIPs)
    BY <1>5 DEF AdoptIP
  <2>5. QED
    BY <2>1, <2>2, <2>3, <2>4 DEF StatusInv
<1>6. QED
  BY <1>2, <1>3, <1>4, <1>5

(* reconcileIPStatus and reconcileAssignment compare states.                *)
LEMMA StatusLookup ==
    ASSUME IInv, WhereInv, StatusInv, ~strayed' => ~strayed,
           \/ StatusDone \/ LookupSkip \/ Lookup
           \/ \E err \in {"inProgress", "notFound", "other"} : LookupFails(err)
           \/ AssignDone \/ AssignSkipIP \/ AssignSkipNode
           \/ \E ip \in IPs, n \in Nodes : AssignIP(ip, n) \/ AssignIPFails(ip, n)
    PROVE  StatusInv'
<1> USE DEF Goto, NextIP
<1>1. /\ TypeOK /\ pc # "stopped" /\ NoIP \notin IPs /\ NoNode \notin Nodes
      /\ Elements(ips) \subseteq IPs
  BY QueueFacts DEF StatusInv, TypeOK, Elements
<1>2. CASE StatusDone \/ LookupSkip \/ AssignDone \/ AssignSkipIP \/ AssignSkipNode
  BY <1>1, <1>2, StatusFrame DEF StatusDone, LookupSkip, AssignDone, AssignSkipIP, AssignSkipNode
<1>3. CASE Lookup
  <2>1. PICK ip : ip = ips[cursor]
    OBVIOUS
  <2>2. PICK p : p = attached[ip]
    OBVIOUS
  <2>3. PICK d : d = IF ~Tracked(ip) /\ p \in Nodes THEN Claim(p) ELSE NoIP
    OBVIOUS
  <2>4. /\ UNCHANGED <<specVars, owned, removing, published, pc>>
        /\ updateStatus => updateStatus'
    BY <1>3 DEF Lookup
  <2>5. ASSUME ~strayed', ~updateStatus', NEW j \in Elements(ips)
        PROVE  /\ ipToStatus'[j].state = ipToStatus[j].state
               /\ ipToStatus'[j].state \in {"active", "no-match"}
                     => ipToStatus'[j].node = ipToStatus[j].node
    <3>1. /\ ip \in IPs /\ Moves(ip, d, p)
          /\ ipToStatus'[ip].state = StateOf(p) /\ StateOf(p) # "absent"
          /\ updateStatus' = (updateStatus \/ ipToStatus[ip].state # StateOf(p))
          /\ Tracked(ip) /\ p # NoNode => ipToStatus[ip].node = p
      BY <1>3, <2>1, <2>2, <2>3, <2>5, LookupMoves DEF WhereInv
    <3>2. Tracked(ip) /\ ipToStatus[ip].state = StateOf(p)
      BY <2>5, <3>1 DEF Tracked
    <3>3. d = NoIP
      BY <2>3, <3>2
    <3>4. CASE j = ip
      <4>1. StateOf(p) \in {"active", "no-match"} => p # NoNode
        BY DEF StateOf
      <4>2. QED
        BY <3>1, <3>2, <3>4, <4>1 DEF Moves
    <3>5. CASE j # ip
      BY <1>1, <3>1, <3>3, <3>5 DEF Moves
    <3>6. QED
      BY <3>4, <3>5
  <2>6. QED
    BY <1>1, <2>4, <2>5, StatusFrame
<1>4. ASSUME NEW err \in {"inProgress", "notFound", "other"}, LookupFails(err) PROVE StatusInv'
  <2>1. PICK ip : ip = ips[cursor]
    OBVIOUS
  <2>2. ip \in IPs
    <3>1. cursor \in DOMAIN ips /\ ips \in Seq(IPs)
      BY <1>1, <1>4 DEF LookupFails, Looking, TypeOK
    <3>2. QED
      BY <2>1, <3>1
  <2>3. PICK s \in {"in-progress", "error"}, m \in NodeIDs :
            /\ ipToStatus' = [ipToStatus EXCEPT ![ip] = Status(s, m, TRUE)]
            /\ updateStatus => updateStatus'
            /\ ipToStatus[ip].state # s => updateStatus'
    <3>1. ipToStatus[ip].node \in NodeIDs /\ NoNode \in NodeIDs
      BY <1>1, <2>2 DEF TypeOK, NodeIDs
    <3>2. PICK s \in {"in-progress", "error"} :
              s = IF err = "inProgress" THEN "in-progress" ELSE "error"
      OBVIOUS
    <3>3. PICK m \in NodeIDs : m = IF err = "notFound" THEN NoNode ELSE ipToStatus[ip].node
      BY <3>1
    <3>4. /\ ipToStatus' = [ipToStatus EXCEPT ![ip] = Status(s, m, TRUE)]
          /\ \E changed \in Differs(ipToStatus[ip].state, s) :
                updateStatus' = (updateStatus \/ changed)
      BY <1>4, <2>1, <3>2, <3>3 DEF LookupFails, Status
    <3>5. QED
      BY <3>4 DEF Differs
  <2>4. UNCHANGED <<specVars, owned, removing, published, pc>>
    BY <1>4 DEF LookupFails
  <2>5. \A j \in IPs : ~updateStatus' =>
            /\ ipToStatus'[j].state = ipToStatus[j].state
            /\ ipToStatus'[j].state \in {"active", "no-match"}
                  => ipToStatus'[j].node = ipToStatus[j].node
    BY <1>1, <2>2, <2>3 DEF TypeOK, Status
  <2>6. QED
    BY <1>1, <2>3, <2>4, <2>5, StatusFrame
<1>5. ASSUME NEW ip \in IPs, NEW n \in Nodes, AssignIP(ip, n) \/ AssignIPFails(ip, n)
      PROVE  StatusInv'
  <2>1. PICK s \in {"in-progress", "error"}, m \in NodeIDs :
            /\ ipToStatus' = [ipToStatus EXCEPT ![ip] = Status(s, m, TRUE)]
            /\ updateStatus => updateStatus'
            /\ ipToStatus[ip].state # s => updateStatus'
    BY <1>5 DEF AssignIP, AssignIPFails, Differs, NodeIDs
  <2>2. UNCHANGED <<specVars, owned, removing, published, pc>>
    BY <1>5 DEF AssignIP, AssignIPFails, ProviderAssigns
  <2>3. \A j \in IPs : ~updateStatus' =>
            /\ ipToStatus'[j].state = ipToStatus[j].state
            /\ ipToStatus'[j].state \in {"active", "no-match"}
                  => ipToStatus'[j].node = ipToStatus[j].node
    BY <1>1, <2>1 DEF TypeOK, Status
  <2>4. QED
    BY <1>1, <2>1, <2>2, <2>3, StatusFrame
<1>6. QED
  BY <1>2, <1>3, <1>4, <1>5

(* reconcileDNS and the status update itself.                               *)
LEMMA StatusPublish ==
    ASSUME IInv, StatusInv, ~strayed' => ~strayed,
           DNSSkip \/ EnsureDNS \/ EnsureDNSFails \/ PublishSkip \/ Publish \/ PublishFails
    PROVE  StatusInv'
<1> USE DEF Goto
<1>1. TypeOK /\ pc # "stopped" /\ LockSound /\ Elements(ips) \subseteq IPs
  BY DEF IInv, StatusInv, TypeOK, Elements
<1>2. CASE DNSSkip \/ EnsureDNS \/ EnsureDNSFails \/ PublishSkip \/ PublishFails
  BY <1>1, <1>2, StatusFrame DEF DNSSkip, EnsureDNS, EnsureDNSFails, PublishSkip, PublishFails
<1>3. CASE Publish
  <2>1. removing = {}
    BY <1>1, <1>3 DEF Publish, LockSound
  <2>2. \A ip \in Elements(ips) : Shown(ip)'
    BY <1>1, <1>3 DEF Publish, StatusUpdate, StatusInv, Shown
  <2>3. QED
    BY <1>3, <2>1, <2>2 DEF Publish, StatusInv
<1>4. QED
  BY <1>2, <1>3

(* The handlers and the life cycle.                                         *)
LEMMA StatusHandlers ==
    ASSUME "cancel" \notin Events, IInv, Placed \/ strayed, StatusInv,
           ~Restart => (~strayed' => ~strayed), Handlers \/ Lifecycle
    PROVE  StatusInv'
<1> USE DEF Goto
<1>1. /\ TypeOK /\ pc # "stopped" /\ ~cancelled /\ PendingFresh /\ LockSound
      /\ NoIP \notin IPs /\ Elements(ips) \subseteq IPs
  BY QueueFacts DEF IInv, ScanComplete, StatusInv, TypeOK, Elements
<1>2. ~Exit /\ ~UpdateProviders
  BY <1>1 DEF Exit, UpdateProviders
<1>3. CASE Restart
  BY <1>3 DEF Restart, StatusInv, Elements
<1>4. CASE (Start \/ Wake \/ Stop \/ Panic \/ UpdateDNSSpec) /\ ~Restart
  BY <1>1, <1>4, StatusFrame DEF Start, Wake, Stop, Panic, UpdateDNSSpec
<1>5. CASE UpdateIPs
  <2>1. /\ disabledIPs' = Elements(cache.ips) \ Elements(NewIPs)
        /\ ips' = NewIPs /\ UNCHANGED <<pendingIPs, owned, pc>> /\ pc # "adopt"
    BY <1>5 DEF UpdateIPs, SameIPs, Unlocked
  <2>2. disabledIPs' \subseteq owned' /\ disabledIPs' \cap Elements(ips') = {}
    BY <1>1, <2>1 DEF PendingFresh
  <2>3. disabledIPs' \cap Elements(pendingIPs') = {}
    BY <1>1, <2>1 DEF PendingFresh
  <2>4. CASE SameIPs /\ ~Restart
    <3>1. UNCHANGED <<ips, updateStatus, removing, ipToStatus, published>>
      BY <1>5, <2>4 DEF UpdateIPs
    <3>2. ~strayed' => ~strayed
      BY <2>4
    <3>3. QED
      BY <1>1, <2>1, <2>2, <2>3, <3>1, <3>2 DEF StatusInv, Shown
  <2>5. CASE ~SameIPs
    <3>1. updateStatus'
      BY <1>5, <2>5 DEF UpdateIPs
    <3>2. QED
      BY <1>1, <2>1, <2>2, <2>3, <3>1 DEF StatusInv
  <2>6. QED
    BY <1>3, <2>4, <2>5
<1>6. ASSUME NEW ip \in IPs, RemoveIP(ip), ~Restart PROVE StatusInv'
  <2>1. updateStatus /\ updateStatus'
    BY <1>6 DEF RemoveIP, StatusInv
  <2>2. /\ UNCHANGED <<specVars, owned, pc>> /\ removing' \subseteq removing
    BY <1>6 DEF RemoveIP
  <2>3. QED
    BY <1>1, <2>1, <2>2, StatusFrame
<1>7. ASSUME NEW n \in Nodes, EnableNode(n) \/ DisableNode(n), ~Restart PROVE StatusInv'
  <2>1. /\ UNCHANGED <<specVars, owned, removing, pc, published>>
        /\ updateStatus => updateStatus'
        /\ updateStatus' \/ UNCHANGED ipToStatus
    BY <1>7 DEF EnableNode, DisableNode
  <2>2. QED
    BY <1>1, <1>7, <2>1, StatusFrame
<1>8. QED
  BY <1>2, <1>3, <1>4, <1>5, <1>6, <1>7 DEF Handlers, Lifecycle

(* The environment changes no state.                                        *)
LEMMA StatusEnvironment ==
    ASSUME IInv, StatusInv, ~strayed' => ~strayed, Environment
    PROVE  StatusInv'
<1> USE DEF ControllerUnchanged
<1>1. TypeOK /\ pc # "stopped" /\ Elements(ips) \subseteq IPs
  BY DEF IInv, StatusInv, TypeOK, Elements
<1>2. ASSUME NEW ip \in IPs, ElapseIP(ip) PROVE StatusInv'
  <2>1. \A j \in IPs : /\ ipToStatus'[j].state = ipToStatus[j].state
                       /\ ipToStatus'[j].node = ipToStatus[j].node
    BY <1>1, <1>2 DEF ElapseIP, TypeOK
  <2>2. QED
    BY <1>1, <1>2, <2>1, StatusFrame DEF ElapseIP
<1>3. ASSUME NEW ip \in IPs, ActionEnds(ip) \/ ExternalMove(ip) PROVE StatusInv'
  BY <1>1, <1>3, StatusFrame DEF ActionEnds, ExternalMove
<1>4. CASE \/ ElapseCreate \/ ElapseCoolOff \/ EditSpec \/ Watch
           \/ \E n \in Nodes : ElapseNode(n) \/ WatchNode(n)
  BY <1>1, <1>4, StatusFrame DEF ElapseCreate, ElapseCoolOff, EditSpec, Watch, ElapseNode, WatchNode
<1>5. QED
  BY <1>2, <1>3, <1>4 DEF Environment

(* Until a record is wrong, and after a restart anew, a status that is not  *)
(* marked for update is right, however often its update fails.              *)
THEOREM StatusIsFresh ==
    ASSUME {"cancel", "lostNewIPs"} \cap Events = {}
    PROVE  HSpec => []StatusFresh
<1>1. "cancel" \notin Events /\ "lostNewIPs" \notin Events
  OBVIOUS
<1>2. HInit => StatusInv
  BY DEF HInit, Init, InitController, StatusInv, Elements
<1>3. IInv /\ WhereInv /\ StatusInv /\ [HNext]_hvars => StatusInv'
  <2> SUFFICES ASSUME IInv, WhereInv, StatusInv, [HNext]_hvars PROVE StatusInv'
    OBVIOUS
  <2>1. CASE UNCHANGED hvars
    BY <2>1 DEF hvars, vars, StatusInv, Shown
  <2>2. CASE HNext
    <3>1. Next /\ (Placed \/ strayed) /\ ~UpdateProviders
      BY <2>2 DEF HNext, WhereInv, StatusInv, UpdateProviders
    <3>2. ~Restart => (~strayed' => ~strayed)
      BY <2>2, <3>1 DEF HNext
    <3>3. CASE Restart
      BY <1>1, <3>1, <3>2, <3>3, StatusHandlers DEF Lifecycle
    <3>4. CASE Reconcile /\ ~Restart
      BY <3>2, <3>4, StatusAllocate, StatusLookup, StatusPublish DEF Reconcile
    <3>5. QED
      BY <1>1, <3>1, <3>2, <3>3, <3>4, StatusHandlers, StatusEnvironment DEF Next
  <2>3. QED
    BY <2>1, <2>2
<1>4. StatusInv => StatusFresh
  BY DEF StatusInv, StatusFresh, Shown
<1>5. QED
  BY <1>1, <1>2, <1>3, <1>4, WhereaboutsKnown, PTL DEF HSpec
-----------------------------------------------------------------------------
(***************************************************************************)
(* The annotations of served nodes, while the records are right, patches   *)
(* succeed and the node informer does not lag.  Lookups, assignments and   *)
(* the provider may fail, and the process may crash at any step.           *)
(***************************************************************************)
AnnotationInv ==
    /\ nodeCache = annotation
    /\ ~strayed => \A n \in providerIDToNodeName : Claim(n) # NoIP => annotation[n] = Claim(n)

(* annotationUpdater leaves the wanted value.                               *)
LEMMA AnnotateWrites ==
    ASSUME {"lag", "annotate"} \cap Events = {}, TypeOK, nodeCache = annotation,
           NEW n \in Nodes, NEW ip \in IPs \cup {NoIP}, Annotate(n, ip)
    PROVE  annotation' = [annotation EXCEPT ![n] = ip] /\ nodeCache' = annotation'
<1>1. annotation \in [Nodes -> IPs \cup {NoIP}]
  BY DEF TypeOK
<1>2. CASE nodeCache[n] = ip /\ UNCHANGED noteVars
  BY <1>1, <1>2
<1>3. CASE /\ annotation' = [annotation EXCEPT ![n] = ip]
           /\ nodeCache' = [nodeCache EXCEPT ![n] = ip]
  BY <1>3
<1>4. ~Event("annotate") /\ ~Event("lag")
  BY DEF Event
<1>5. QED
  BY <1>2, <1>3, <1>4 DEF Annotate

(* A step that writes no annotation, gives no node an IP and enables none.  *)
LEMMA AnnotationFrame ==
    ASSUME TypeOK, AnnotationInv, UNCHANGED noteVars, ~strayed' => ~strayed,
           ~strayed' => \A n \in providerIDToNodeName' :
              n \in providerIDToNodeName /\ providerIDToIP'[n] \in {NoIP, providerIDToIP[n]}
    PROVE  AnnotationInv'
BY DEF AnnotationInv, Claim

(* Every other step writes the annotation of the node it is about.          *)
LEMMA AnnotationOne ==
    ASSUME {"lag", "annotate"} \cap Events = {}, TypeOK, AnnotationInv, ~strayed' => ~strayed,
           NEW n \in Nodes, NEW ip \in IPs \cup {NoIP}, Annotate(n, ip),
           ~strayed' => \A m \in providerIDToNodeName' :
              IF m = n THEN providerIDToIP'[m] \in {NoIP, ip}
              ELSE m \in providerIDToNodeName /\ providerIDToIP'[m] \in {NoIP, providerIDToIP[m]},
           TypeOK'
    PROVE  AnnotationInv'
<1>1. annotation' = [annotation EXCEPT ![n] = ip] /\ nodeCache' = annotation'
  BY AnnotateWrites DEF AnnotationInv
<1>2. annotation'[n] = ip /\ \A m \in Nodes : m # n => annotation'[m] = annotation[m]
  BY <1>1 DEF TypeOK
<1>3. providerIDToNodeName' \subseteq Nodes
  BY DEF TypeOK
<1>4. QED
  BY <1>1, <1>2, <1>3 DEF AnnotationInv, Claim

(* Any step.                                                                *)
LEMMA AnnotationNext ==
    ASSUME {"lag", "annotate"} \cap Events = {}, IInv, TypeOK', WhereInv, AnnotationInv, HNext
    PROVE  AnnotationInv'
<1> USE DEF Goto, StartStatus, NextIP, ControllerUnchanged
<1>1. TypeOK /\ NoIP \notin IPs /\ NoNode \notin Nodes /\ Next
  BY QueueFacts DEF HNext
<1>2. CASE Restart \/ UpdateProviders
  BY <1>2 DEF Restart, UpdateProviders, ResetMaps, AnnotationInv
<1>3. CASE ~(Restart \/ UpdateProviders)
  <2>1. ~strayed' => ~strayed
    BY <1>3 DEF HNext
  <2>2. CASE UNCHANGED <<noteVars, providerIDToIP, providerIDToNodeName>>
    BY <1>1, <2>1, <2>2, AnnotationFrame
  <2>3. CASE Lookup
    <3>1. PICK ip : ip = ips[cursor]
      OBVIOUS
    <3>2. PICK p : p = attached[ip]
      OBVIOUS
    <3>3. PICK d : d = IF ~Tracked(ip) /\ p \in Nodes THEN Claim(p) ELSE NoIP
      OBVIOUS
    <3>4. CASE ~strayed
      <4>1. /\ ip \in IPs /\ p \in NodeIDs /\ Moves(ip, d, p)
            /\ Tracked(ip) /\ p # NoNode => ipToStatus[ip].node = p
            /\ ~Tracked(ip) => ipToStatus[ip].node = NoNode
            /\ IF ~Tracked(ip) /\ p # NoNode /\ Active(p) THEN Annotate(p, ip)
               ELSE UNCHANGED noteVars
        BY <2>3, <3>1, <3>2, <3>3, <3>4, LookupMoves DEF WhereInv
      <4>2. UNCHANGED providerIDToNodeName
        BY <2>3 DEF Lookup
      <4>3. \A n \in Nodes : n # p => providerIDToIP'[n] \in {NoIP, providerIDToIP[n]}
        BY <4>1 DEF Moves
      <4>4. CASE ~Tracked(ip) /\ p # NoNode /\ Active(p)
        <5>1. p \in Nodes /\ Annotate(p, ip) /\ providerIDToIP'[p] = ip
          BY <4>1, <4>4 DEF NodeIDs, Moves
        <5>2. providerIDToNodeName \subseteq Nodes
          BY <1>1 DEF TypeOK
        <5>3. QED
          BY <1>1, <2>1, <4>1, <4>2, <4>3, <5>1, <5>2, AnnotationOne
      <4>5. CASE ~(~Tracked(ip) /\ p # NoNode /\ Active(p))
        <5>1. UNCHANGED noteVars /\ providerIDToNodeName \subseteq Nodes
          BY <1>1, <4>1, <4>5 DEF TypeOK
        <5>2. p \in providerIDToNodeName => providerIDToIP'[p] = providerIDToIP[p]
          <6>1. p \in providerIDToNodeName => p \in Nodes /\ Tracked(ip) /\ ipToStatus[ip].node = p
            BY <1>1, <4>1, <4>5, <5>1 DEF Active
          <6>2. ipToStatus[ip].node = p /\ p \in Nodes => Claim(p) = ip
            BY <3>4, <4>1, AloneClaims DEF WhereInv
          <6>3. QED
            BY <4>1, <6>1, <6>2 DEF Moves, Claim
        <5>3. QED
          BY <1>1, <2>1, <4>2, <4>3, <5>1, <5>2, AnnotationFrame
      <4>6. QED
        BY <4>4, <4>5
    <3>5. CASE strayed
      <4>1. strayed'
        BY <2>1, <3>5
      <4>2. nodeCache' = annotation'
        <5>1. CASE UNCHANGED noteVars
          BY <5>1 DEF AnnotationInv
        <5>2. CASE Annotate(p, ip) /\ Active(p)
          <6>1. p \in Nodes
            BY <1>1, <5>2 DEF TypeOK, Active
          <6>2. cursor \in DOMAIN ips /\ ips \in Seq(IPs)
            BY <1>1, <2>3 DEF Lookup, Looking, TypeOK
          <6>3. ip \in IPs
            BY <3>1, <6>2
          <6>4. QED
            BY <1>1, <5>2, <6>1, <6>3, AnnotateWrites DEF AnnotationInv
        <5>3. QED
          BY <2>3, <3>1, <3>2, <5>1, <5>2 DEF Lookup
      <4>3. QED
        BY <4>1, <4>2 DEF AnnotationInv
    <3>6. QED
      BY <3>4, <3>5
  <2>4. ASSUME NEW err \in {"inProgress", "notFound", "other"}, LookupFails(err)
        PROVE  AnnotationInv'
    <3>1. UNCHANGED <<noteVars, providerIDToNodeName>> /\ providerIDToNodeName \subseteq Nodes
      BY <1>1, <2>4 DEF LookupFails, TypeOK
    <3>2. \A n \in Nodes : providerIDToIP'[n] \in {NoIP, providerIDToIP[n]}
      BY <2>4 DEF LookupFails, ClaimsWithout
    <3>3. QED
      BY <1>1, <2>1, <3>1, <3>2, AnnotationFrame
  <2>5. ASSUME NEW ip \in IPs, NEW n \in Nodes, AssignIP(ip, n) PROVE AnnotationInv'
    <3>1. /\ Annotate(n, ip) /\ UNCHANGED providerIDToNodeName
          /\ providerIDToNodeName \subseteq Nodes
          /\ providerIDToIP' = ClaimsAfter(ip, n, ip)
      BY <1>1, <2>5 DEF AssignIP, TypeOK
    <3>2. /\ providerIDToIP'[n] = ip
          /\ \A m \in Nodes : m # n => providerIDToIP'[m] \in {NoIP, providerIDToIP[m]}
      BY <3>1 DEF ClaimsAfter
    <3>3. QED
      BY <1>1, <2>1, <3>1, <3>2, AnnotationOne
  <2>6. ASSUME NEW ip \in IPs, NEW n \in Nodes, AssignIPFails(ip, n) PROVE AnnotationInv'
    <3>1. /\ UNCHANGED <<noteVars, providerIDToNodeName>> /\ providerIDToNodeName \subseteq Nodes
          /\ providerIDToIP' = ClaimsAfter(ip, n, NoIP)
      BY <1>1, <2>6 DEF AssignIPFails, TypeOK
    <3>2. \A m \in Nodes : providerIDToIP'[m] \in {NoIP, providerIDToIP[m]}
      BY <3>1 DEF ClaimsAfter
    <3>3. QED
      BY <1>1, <2>1, <3>1, <3>2, AnnotationFrame
  <2>7. ASSUME NEW ip \in IPs, RemoveIP(ip) PROVE AnnotationInv'
    <3>1. PICK n : n = ipToStatus[ip].node
      OBVIOUS
    <3>2. /\ UNCHANGED providerIDToNodeName /\ providerIDToNodeName \subseteq Nodes
          /\ providerIDToIP' = ClaimsWithout(n)
          /\ IF Active(n) THEN Annotate(n, NoIP) ELSE UNCHANGED noteVars
      BY <1>1, <2>7, <3>1 DEF RemoveIP, TypeOK
    <3>3. \A m \in Nodes : /\ providerIDToIP'[m] \in {NoIP, providerIDToIP[m]}
                           /\ m = n => providerIDToIP'[m] = NoIP
      BY <3>2 DEF ClaimsWithout
    <3>4. CASE Active(n)
      <4>1. n \in Nodes
        BY <3>2, <3>4 DEF Active
      <4>2. QED
        BY <1>1, <2>1, <3>2, <3>3, <3>4, <4>1, AnnotationOne
    <3>5. CASE ~Active(n)
      BY <1>1, <2>1, <3>2, <3>3, <3>5, AnnotationFrame
    <3>6. QED
      BY <3>4, <3>5
  <2>8. ASSUME NEW n \in Nodes, EnableNode(n) \/ DisableNode(n) PROVE AnnotationInv'
    <3>1. UNCHANGED providerIDToIP
      BY <2>8 DEF EnableNode, DisableNode
    <3>2. CASE EnableNode(n)
      <4>1. providerIDToNodeName' = providerIDToNodeName \cup {n}
        BY <3>2 DEF EnableNode
      <4>2. CASE Claim(n) # NoIP
        <5>1. Annotate(n, Claim(n)) /\ Claim(n) \in IPs \cup {NoIP}
          BY <1>1, <3>2, <4>2 DEF EnableNode, TypeOK, Claim
        <5>2. PICK ip \in IPs \cup {NoIP} : ip = Claim(n)
          BY <5>1
        <5>3. Annotate(n, ip)
          BY <5>1, <5>2
        <5>4. QED
          BY <1>1, <2>1, <3>1, <4>1, <5>2, <5>3, AnnotationOne DEF Claim
      <4>3. CASE Claim(n) = NoIP
        <5>1. UNCHANGED noteVars
          BY <3>2, <4>3 DEF EnableNode
        <5>2. QED
          BY <2>1, <3>1, <4>1, <4>3, <5>1 DEF AnnotationInv, Claim
      <4>4. QED
        BY <4>2, <4>3
    <3>3. CASE DisableNode(n)
      <4>1. /\ providerIDToNodeName' = providerIDToNodeName \ {n}
            /\ UNCHANGED noteVars \/ Annotate(n, NoIP)
        BY <3>3 DEF DisableNode
      <4>2. CASE UNCHANGED noteVars
        BY <1>1, <2>1, <3>1, <4>1, <4>2, AnnotationFrame
      <4>3. CASE Annotate(n, NoIP)
        BY <1>1, <2>1, <3>1, <4>1, <4>3, AnnotationOne
      <4>4. QED
        BY <4>1, <4>2, <4>3
    <3>4. QED
      BY <2>8, <3>2, <3>3
  <2>9. CASE Reconcile
    BY <2>2, <2>3, <2>4, <2>5, <2>6, <2>9
       DEF Reconcile, DesiredDone, CreateIP, CreateIPFails, PendingDone, OnNewIPs, OnNewIPsFails,
           AdoptIP, StatusDone, LookupSkip, AssignDone, AssignSkipIP, AssignSkipNode, DNSSkip,
           EnsureDNS, EnsureDNSFails, PublishSkip, Publish, PublishFails
  <2>10. CASE Handlers
    BY <1>3, <2>2, <2>7, <2>8, <2>10 DEF Handlers, UpdateIPs, UpdateDNSSpec
  <2>11. CASE Lifecycle
    BY <1>3, <2>2, <2>11 DEF Lifecycle, Start, Wake, Stop, Exit, Panic
  <2>12. \A n \in Nodes : ~WatchNode(n)
    BY DEF WatchNode, AnnotationInv
  <2>13. CASE Environment
    BY <2>2, <2>12, <2>13 DEF Environment, ElapseCreate, ElapseCoolOff, EditSpec, Watch,
                              ElapseNode, ElapseIP, ActionEnds, ExternalMove
  <2>14. QED
    BY <1>1, <2>9, <2>10, <2>11, <2>13 DEF Next
<1>4. QED
  BY <1>2, <1>3

(* Until a record is wrong, and after a restart anew, every active node     *)
(* that has an IP carries the annotation that names it.                     *)
THEOREM AnnotationsServed ==
    ASSUME {"lag", "annotate", "lostNewIPs"} \cap Events = {}
    PROVE  HSpec => []ServedAnnotated
<1>1. "lostNewIPs" \notin Events /\ {"lag", "annotate"} \cap Events = {}
  OBVIOUS
<1>2. HInit => AnnotationInv
  BY DEF HInit, Init, InitController, AnnotationInv
<1>3. IInv /\ IInv' /\ WhereInv /\ AnnotationInv /\ [HNext]_hvars => AnnotationInv'
  <2> SUFFICES ASSUME IInv, IInv', WhereInv, AnnotationInv, [HNext]_hvars PROVE AnnotationInv'
    OBVIOUS
  <2>1. CASE HNext
    BY <1>1, <2>1, AnnotationNext DEF IInv
  <2>2. CASE UNCHANGED hvars
    BY <2>2 DEF hvars, vars, AnnotationInv, Claim
  <2>3. QED
    BY <2>1, <2>2
<1>4. AnnotationInv => ServedAnnotated
  BY DEF AnnotationInv, ServedAnnotated
<1>5. QED
  BY <1>1, <1>2, <1>3, <1>4, WhereaboutsKnown, PTL DEF HSpec
=============================================================================
