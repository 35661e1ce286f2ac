---------------------------- MODULE IPController ----------------------------
(***************************************************************************)
(* The ipController of a FloatingIPPool (ip_controller.go): one reconcile  *)
(* goroutine and the handlers that other goroutines call on it, all of     *)
(* them serialised by one mutex; the callbacks floatingippool_controller   *)
(* .go gives it (spec, status and annotation updates through the           *)
(* Kubernetes API); and the provider that owns the addresses.              *)
(*                                                                         *)
(* The reconcile pass is one action per call that leaves the process, so   *)
(* that the provider, the API server and the user act between any two of   *)
(* them.  Durations are abstracted to "still waiting" flags that elapse at *)
(* any moment.  Messages, log lines and counters are left out.             *)
(***************************************************************************)
EXTENDS Naturals, Sequences, FiniteSets, OrderedSet

CONSTANTS
    IPs, Nodes,      \* addresses and node provider IDs
    NoIP, NoNode,    \* the empty strings of the code
    IPLists,         \* the spec.ips lists users write
    DesiredIPs,      \* the spec.desiredIPs values users write
    DNSSpecs,        \* the spec.dnsRecordSet values users write
    CoolOff,         \* TRUE iff spec.assignmentCoolOffSeconds is not 0
    Async,           \* TRUE iff the provider assigns asynchronously
    Events,          \* the exceptional events that may happen ...
    MaxEvents        \* ... and how many of them do

AllEvents ==
    {"edit", "stale", "lag", "lookup", "notFound", "assign", "lostAssign", "asyncFail",
     "move", "create", "newIPs", "lostNewIPs", "annotate", "dns", "status",
     "cancel", "crash"}

ASSUME ConstantsAssumption ==
    /\ NoIP \notin IPs /\ NoNode \notin Nodes
    /\ IPLists \subseteq Seq(IPs) /\ \A l \in IPLists : Unique(l)
    /\ DesiredIPs \subseteq Nat
    /\ DNSSpecs \subseteq {"none", "invalid", "ttl0", "ttl60"}
    /\ CoolOff \in BOOLEAN /\ Async \in BOOLEAN
    /\ Events \subseteq AllEvents
    /\ MaxEvents \in Nat

VARIABLES
    ips, pendingIPs, disabledIPs, desiredIPs,
    ipToStatus,            \* state "absent": the IP has no entry
    providerIDToIP,        \* NoIP: no entry, or the entry ""
    providerIDToNodeName,  \* the set of active nodes
    providerIDToRetry,     \* the nodes whose retry time is not reached
    assignableIPs, assignableNodes,
    createWait,            \* createNextRetry is not reached
    coolWait,              \* nextAssignment is not reached
    dns, dnsDirty, updateStatus,
    pc,                    \* where the reconcile goroutine is
    cursor,                \* the next position of reconcileIPStatus' loop
    retryIPs, retryProviders,
    cancelled,             \* the context of the goroutine is done
    removing               \* IPs updateIPs, holding the lock, still has to drop

VARIABLES
    spec, cache,           \* the pool in the API server, and as the informer saw it
    matched,               \* the nodes the match controller has enabled
    annotation, nodeCache, \* the nodes' annotations, and as the informer saw them
    published,             \* the pool's status in the API server
    attached, inflight,    \* provider: where an IP points, where it is moving
    owned,                 \* provider: the addresses allocated so far
    dnsRecord,             \* DNS provider: the addresses of the A record
    budget                 \* exceptional events left

specVars == <<ips, pendingIPs, disabledIPs, desiredIPs>>
mapVars == <<ipToStatus, providerIDToIP, providerIDToNodeName, providerIDToRetry>>
queueVars == <<assignableIPs, assignableNodes>>
timerVars == <<createWait, coolWait>>
flagVars == <<dns, dnsDirty, updateStatus>>
runVars == <<pc, cursor, retryIPs, retryProviders, cancelled, removing>>
poolVars == <<spec, cache>>
noteVars == <<annotation, nodeCache>>
cloudVars == <<attached, inflight, owned>>
vars == <<specVars, mapVars, queueVars, timerVars, flagVars, runVars, poolVars,
          matched, noteVars, published, cloudVars, dnsRecord, budget>>

States == {"absent", "active", "in-progress", "error", "no-match", "unassigned"}
NodeIDs == Nodes \cup {NoNode}
Status(state, node, wait) == [state |-> state, node |-> node, wait |-> wait]
Absent == Status("absent", NoNode, FALSE)
Tracked(ip) == ipToStatus[ip].state # "absent"
Active(n) == n \in providerIDToNodeName

\* The mutex is free: no reconcile pass and no handler is half way through.
Unlocked == pc \in {"stopped", "reset", "idle"} /\ removing = {}

\* An exceptional event the run allows, and one less of them left.
Event(e) == e \in Events /\ budget > 0 /\ budget' = budget - 1
NoEvent == budget' = budget
-----------------------------------------------------------------------------
(* newIPController, followed by the provider that updateProviders sets.     *)
InitController ==
    /\ ips = <<>> /\ pendingIPs = <<>> /\ disabledIPs = {} /\ desiredIPs = 0
    /\ ipToStatus = [ip \in IPs |-> Absent]
    /\ providerIDToIP = [n \in Nodes |-> NoIP]
    /\ providerIDToNodeName = {} /\ providerIDToRetry = {}
    /\ assignableIPs = <<>> /\ assignableNodes = <<>>
    /\ createWait = FALSE /\ coolWait = FALSE
    /\ dns = "none" /\ dnsDirty = FALSE /\ updateStatus = FALSE
    /\ pc = "reset" /\ cursor = 1 /\ retryIPs = <<>> /\ retryProviders = <<>>
    /\ cancelled = FALSE /\ removing = {}

ValidSpec(s) == s.ips # <<>> \/ s.desired # 0

\* Addresses that exist before the controller does: users list only these.
UserIPs == UNION {Elements(l) : l \in IPLists}

(* A pool that already existed may find its IPs attached to any nodes.      *)
Init ==
    /\ InitController
    /\ spec \in {s \in [ips : IPLists, desired : DesiredIPs, dns : DNSSpecs] : ValidSpec(s)}
    /\ cache = spec
    /\ owned = UserIPs
    /\ attached \in {f \in [IPs -> NodeIDs] :
            /\ \A ip \in IPs : f[ip] # NoNode => ip \in owned
            /\ \A i, j \in IPs : f[i] = f[j] /\ f[i] # NoNode => i = j}
    /\ inflight = [ip \in IPs |-> NoNode]
    /\ matched = {}
    /\ annotation = [n \in Nodes |-> NoIP] /\ nodeCache = annotation
    /\ published = [ip \in IPs |-> <<"absent", NoNode>>]
    /\ dnsRecord = {}
    /\ budget = MaxEvents
-----------------------------------------------------------------------------
(* reset(): what updateProviders forgets when region or provider change.    *)
ResetMaps ==
    /\ ipToStatus' = [ip \in IPs |-> Absent]
    /\ providerIDToIP' = [n \in Nodes |-> NoIP]
    /\ providerIDToNodeName' = {} /\ providerIDToRetry' = {}
    /\ assignableIPs' = <<>> /\ assignableNodes' = <<>>

\* Mutant: a removal does not reach the copy that the next value is compared with.
AnnotateUnseen(n, ip) ==
    /\ NoEvent
    /\ annotation' = IF nodeCache[n] = ip THEN annotation ELSE [annotation EXCEPT ![n] = ip]
    /\ nodeCache' = IF ip = NoIP THEN nodeCache ELSE [nodeCache EXCEPT ![n] = ip]

(* annotationUpdater: the wanted value is compared with the informer's copy *)
(* of the node; a failed patch is logged by the caller and forgotten.       *)
Annotate(n, ip) ==
    \/ nodeCache[n] = ip /\ NoEvent /\ UNCHANGED noteVars
    \/ /\ nodeCache[n] # ip
       /\ annotation' = [annotation EXCEPT ![n] = ip]
       /\ \/ NoEvent /\ nodeCache' = [nodeCache EXCEPT ![n] = ip]
          \/ Event("lag") /\ UNCHANGED nodeCache
    \/ Event("annotate") /\ UNCHANGED noteVars

(* originalState != state || originalMessage != message: two errors may or  *)
(* may not carry the same message.                                          *)
Differs(old, new) == {old # new, old # new \/ new = "error"}

\* Mutant: the claim outlives the IP.
ClaimsKept(n) == providerIDToIP

\* delete(providerIDToIP, n), also for the n = "" of an IP without a node.
ClaimsWithout(n) == [m \in Nodes |-> IF m = n THEN NoIP ELSE providerIDToIP[m]]

(* Move on to another part of the reconcile pass.                           *)
Goto(label) ==
    /\ pc' = label
    /\ UNCHANGED <<cursor, retryIPs, retryProviders, cancelled, removing>>
-----------------------------------------------------------------------------
(* run(): the goroutine, woken by a poke or by its retry timer.             *)
Start ==
    /\ pc = "reset" /\ removing = {} /\ (ips # <<>> \/ desiredIPs # 0)
    /\ Goto("desired")
    /\ UNCHANGED <<specVars, mapVars, queueVars, timerVars, flagVars, poolVars,
                   matched, noteVars, published, cloudVars, dnsRecord, budget>>

Wake ==
    /\ pc = "idle" /\ removing = {}
    /\ Goto("desired")
    /\ UNCHANGED <<specVars, mapVars, queueVars, timerVars, flagVars, poolVars,
                   matched, noteVars, published, cloudVars, dnsRecord, budget>>

(* stop() cancels the context at any point of a pass and waits for Exit.    *)
Stop ==
    /\ pc \notin {"stopped", "reset", "panicked"} /\ ~cancelled
    /\ Event("cancel")
    /\ cancelled' = TRUE
    /\ UNCHANGED <<pc, cursor, retryIPs, retryProviders, removing>>
    /\ UNCHANGED <<specVars, mapVars, queueVars, timerVars, flagVars, poolVars,
                   matched, noteVars, published, cloudVars, dnsRecord>>

Exit ==
    /\ pc = "idle" /\ cancelled
    /\ pc' = "stopped" /\ cancelled' = FALSE
    /\ UNCHANGED <<cursor, retryIPs, retryProviders, removing>>
    /\ UNCHANGED <<specVars, mapVars, queueVars, timerVars, flagVars, poolVars,
                   matched, noteVars, published, cloudVars, dnsRecord, budget>>

(* updateProviders with another provider or region, after its stop().       *)
UpdateProviders ==
    /\ pc = "stopped" /\ removing = {}
    /\ ResetMaps
    /\ Goto("reset")
    /\ UNCHANGED <<specVars, timerVars, flagVars, poolVars,
                   matched, noteVars, published, cloudVars, dnsRecord, budget>>

(* A new controller: after a crash or a panic of the process, or when the   *)
(* pool's match criteria changed and updateOrAdd stopped the old one.  Its  *)
(* match controller starts from nothing too.                                *)
Restart ==
    /\ IF pc \in {"panicked", "stopped"} THEN NoEvent ELSE Event("crash")
    /\ ResetMaps
    /\ ips' = <<>> /\ pendingIPs' = <<>> /\ disabledIPs' = {} /\ desiredIPs' = 0
    /\ createWait' = FALSE /\ coolWait' = FALSE
    /\ dns' = "none" /\ dnsDirty' = FALSE /\ updateStatus' = FALSE
    /\ pc' = "reset" /\ cursor' = 1 /\ retryIPs' = <<>> /\ retryProviders' = <<>>
    /\ cancelled' = FALSE /\ removing' = {}
    /\ matched' = {}
    /\ UNCHANGED <<poolVars, noteVars, published, cloudVars, dnsRecord>>
-----------------------------------------------------------------------------
(* reconcileDesiredIPs: allocate addresses until there are desiredIPs.      *)
NeedsIP == Len(ips) + Len(pendingIPs) < desiredIPs

DesiredDone ==
    /\ pc = "desired"
    /\ cancelled \/ createWait \/ ~NeedsIP
    /\ Goto("pending")
    /\ UNCHANGED <<specVars, mapVars, queueVars, timerVars, flagVars, poolVars,
                   matched, noteVars, published, cloudVars, dnsRecord, budget>>

CreateIP ==
    /\ pc = "desired" /\ ~cancelled /\ ~createWait /\ NeedsIP
    /\ \E ip \in IPs \ owned :
          /\ owned' = owned \cup {ip}
          /\ pendingIPs' = Append(pendingIPs, ip)
    /\ updateStatus' = TRUE /\ dnsDirty' = TRUE
    /\ UNCHANGED <<ips, disabledIPs, desiredIPs, mapVars, queueVars, timerVars, dns, runVars,
                   poolVars, matched, noteVars, published, attached, inflight, dnsRecord, budget>>

(* CreateIP fails: an error, or the provider has no address left to give.   *)
CreateIPFails ==
    /\ pc = "desired" /\ ~createWait /\ NeedsIP
    /\ IF IPs \subseteq owned \/ cancelled THEN NoEvent ELSE Event("create")
    /\ createWait' = TRUE
    /\ updateStatus' = TRUE /\ dnsDirty' = TRUE
    /\ Goto("pending")
    /\ UNCHANGED <<specVars, mapVars, queueVars, coolWait, dns, poolVars,
                   matched, noteVars, published, cloudVars, dnsRecord>>
-----------------------------------------------------------------------------
(* reconcilePendingIPs: write the new list to the spec, then track them.    *)
\* Mutant: only the new addresses are written.
AllIPsButOld == pendingIPs

AllIPs == ips \o pendingIPs

\* Mutant: the loop over the IPs starts one too early.
StartStatusEarly == pc' = "status" /\ cursor' = 0

StartStatus == pc' = "status" /\ cursor' = 1

PendingDone ==
    /\ pc = "pending" /\ (cancelled \/ pendingIPs = <<>>)
    /\ StartStatus
    /\ UNCHANGED <<retryIPs, retryProviders, cancelled, removing>>
    /\ UNCHANGED <<specVars, mapVars, queueVars, timerVars, flagVars, poolVars,
                   matched, noteVars, published, cloudVars, dnsRecord, budget>>

\* The API server's copy of the pool changes; the informer may learn later.
WriteSpec(s) ==
    /\ spec' = s
    /\ cache' = IF "stale" \in Events THEN cache ELSE s

OnNewIPs ==
    /\ pc = "pending" /\ ~cancelled /\ pendingIPs # <<>>
    /\ WriteSpec([spec EXCEPT !.ips = AllIPs])
    /\ updateStatus' = TRUE /\ dnsDirty' = TRUE
    /\ Goto("adopt")
    /\ UNCHANGED <<specVars, mapVars, queueVars, timerVars, dns,
                   matched, noteVars, published, cloudVars, dnsRecord, budget>>

(* onNewIPs returns an error; the API server may have applied the update.   *)
OnNewIPsFails ==
    /\ pc = "pending" /\ pendingIPs # <<>>
    /\ \/ (IF cancelled THEN NoEvent ELSE Event("newIPs")) /\ UNCHANGED poolVars
       \/ Event("lostNewIPs") /\ WriteSpec([spec EXCEPT !.ips = AllIPs])
    /\ StartStatus
    /\ UNCHANGED <<retryIPs, retryProviders, cancelled, removing>>
    /\ UNCHANGED <<specVars, mapVars, queueVars, timerVars, flagVars,
                   matched, noteVars, published, cloudVars, dnsRecord>>

(* One round of the loop over pendingIPs; no call leaves the process.       *)
AdoptIP ==
    /\ pc = "adopt" /\ pendingIPs # <<>>
    /\ LET ip == Head(pendingIPs) IN
          /\ ipToStatus' = [ipToStatus EXCEPT ![ip] = Status("unassigned", NoNode, FALSE)]
          /\ assignableIPs' = AddFront(assignableIPs, ip)
          /\ ips' = Append(ips, ip)
    /\ pendingIPs' = Tail(pendingIPs)
    /\ IF pendingIPs' = <<>> THEN StartStatus ELSE UNCHANGED <<pc, cursor>>
    /\ UNCHANGED <<retryIPs, retryProviders, cancelled, removing>>
    /\ UNCHANGED <<disabledIPs, desiredIPs, providerIDToIP, providerIDToNodeName,
                   providerIDToRetry, assignableNodes, timerVars, flagVars, poolVars,
                   matched, noteVars, published, cloudVars, dnsRecord, budget>>
-----------------------------------------------------------------------------
(* reconcileIPStatus: ask the provider where every IP points.               *)
StatusDone ==
    /\ pc = "status" /\ (cancelled \/ cursor > Len(ips))
    /\ Goto("assign")
    /\ UNCHANGED <<specVars, mapVars, queueVars, timerVars, flagVars, poolVars,
                   matched, noteVars, published, cloudVars, dnsRecord, budget>>

NextIP ==
    /\ cursor' = cursor + 1
    /\ UNCHANGED <<pc, retryIPs, retryProviders, cancelled, removing>>

Looking == pc = "status" /\ cursor <= Len(ips)

LookupSkip ==
    /\ Looking /\ ~cancelled
    /\ ipToStatus[ips[cursor]].wait
    /\ NextIP
    /\ UNCHANGED <<specVars, mapVars, queueVars, timerVars, flagVars, poolVars,
                   matched, noteVars, published, cloudVars, dnsRecord, budget>>

\* The error of IPToProviderID: an action in flight, a missing IP, any other.
LookupError(ip, err) ==
    \/ err = "inProgress" /\ inflight[ip] # NoNode /\ NoEvent
    \/ err = "notFound" /\ inflight[ip] = NoNode /\ Event("notFound")
    \/ err = "other" /\ IF cancelled THEN NoEvent ELSE Event("lookup")

LookupFails(err) ==
    LET ip  == ips[cursor]
        old == ipToStatus[ip]
        new == Status(IF err = "inProgress" THEN "in-progress" ELSE "error",
                      IF err = "notFound" THEN NoNode ELSE old.node, TRUE)
    IN
    /\ Looking /\ ~old.wait
    /\ LookupError(ip, err)
    /\ ipToStatus' = [ipToStatus EXCEPT ![ip] = new]
    /\ IF err # "notFound" THEN UNCHANGED <<providerIDToIP, queueVars>>
       ELSE /\ providerIDToIP' = ClaimsWithout(old.node)
            /\ IF Active(old.node)
               THEN /\ assignableNodes' = AddFront(assignableNodes, old.node)
                    /\ UNCHANGED assignableIPs
               ELSE /\ assignableIPs' = Delete(assignableIPs, ip)
                    /\ UNCHANGED assignableNodes
    /\ \E changed \in Differs(old.state, new.state) :
          /\ updateStatus' = (updateStatus \/ changed)
          /\ dnsDirty' = (dnsDirty \/ changed)
    /\ NextIP
    /\ UNCHANGED <<specVars, providerIDToNodeName, providerIDToRetry, timerVars, dns, poolVars,
                   matched, noteVars, published, cloudVars, dnsRecord>>

\* The state an IP gets once the provider said it points at p.
StateOf(p) ==
    IF p = NoNode THEN "unassigned" ELSE IF Active(p) THEN "active" ELSE "no-match"

\* The IP the records had on p, when it is not the one found there.
DisplacedIP(ip, p) ==
    IF p \in Nodes /\ providerIDToIP[p] # ip THEN providerIDToIP[p] ELSE NoIP

\* Mutant: an IP found on a node that is not active is left alone.
IPsAfterLookupFreeOnly(ip, p, initialized, displaced) ==
    IF p = NoNode THEN AddFront(assignableIPs, ip) ELSE assignableIPs

\* The assignable IPs after the provider said that ip points at p.
IPsAfterLookup(ip, p, initialized, displaced) ==
    LET free  == IF p = NoNode THEN AddFront(assignableIPs, ip) ELSE assignableIPs
        known == IF ~initialized /\ p # NoNode /\ ~Active(p) THEN AddBack(free, ip) ELSE free
    IN  IF displaced = NoIP THEN known ELSE AddBack(known, displaced)

\* Mutant: a node found to hold an IP already stays queued for another one.
NodesAfterLookupNoReuse(p, initialized, old) ==
    IF Active(old) THEN AddFront(assignableNodes, old) ELSE assignableNodes

\* Mutant: the node that lost its IP is not queued for another one.
NodesAfterLookupNoEviction(p, initialized, old) ==
    IF ~initialized /\ Active(p) THEN Delete(assignableNodes, p) ELSE assignableNodes

\* The assignable nodes after ip turned out to be on p instead of on old.
NodesAfterLookup(p, initialized, old) ==
    LET kept == IF ~initialized /\ Active(p) THEN Delete(assignableNodes, p) ELSE assignableNodes
    IN  IF Active(old) THEN AddFront(kept, old) ELSE kept

\* Mutant: an IP that turns active is not published.
LookupChangesButActive(old, new) == old # new /\ new # "active"

LookupChanges(old, new) == old # new

Lookup ==
    LET ip          == ips[cursor]
        p           == attached[ip]
        old         == ipToStatus[ip]
        moved       == old.node # p
        initialized == Tracked(ip)
        displaced   == IF moved THEN DisplacedIP(ip, p) ELSE NoIP
    IN
    /\ Looking /\ ~cancelled /\ ~old.wait /\ inflight[ip] = NoNode
    /\ ipToStatus' = [i \in IPs |->
            IF i = ip THEN Status(StateOf(p), p, TRUE)
            ELSE IF i = displaced THEN Status("error", NoNode, FALSE) ELSE ipToStatus[i]]
    /\ providerIDToIP' = [n \in Nodes |->
            IF ~moved THEN providerIDToIP[n]
            ELSE IF n = p THEN ip ELSE IF n = old.node THEN NoIP ELSE providerIDToIP[n]]
    /\ assignableIPs' = IPsAfterLookup(ip, p, initialized, displaced)
    /\ assignableNodes' =
            IF moved THEN NodesAfterLookup(p, initialized, old.node) ELSE assignableNodes
    /\ IF moved /\ ~initialized /\ Active(p) THEN Annotate(p, ip)
       ELSE NoEvent /\ UNCHANGED noteVars
    /\ LET changed == LookupChanges(old.state, StateOf(p)) IN
          /\ updateStatus' = (updateStatus \/ changed)
          /\ dnsDirty' = (dnsDirty \/ changed)
    /\ NextIP
    /\ UNCHANGED <<specVars, providerIDToNodeName, providerIDToRetry, timerVars, dns, poolVars,
                   matched, published, cloudVars, dnsRecord>>
-----------------------------------------------------------------------------
(* reconcileAssignment: pair the front IP with the front node.              *)
CanAssign ==
    /\ assignableIPs # <<>> /\ assignableNodes # <<>>
    /\ ~cancelled /\ ~(CoolOff /\ coolWait)

\* Mutant: what the pass skipped or failed on is not queued again.
RequeueNothing(o, skipped) == o

(* The deferred Add(_, false) of the IPs and nodes this pass took off the   *)
(* queues and skipped or failed on: none of them is in its queue.           *)
Requeue(o, skipped) == o \o skipped

AssignDone ==
    /\ pc = "assign" /\ ~CanAssign
    /\ assignableIPs' = Requeue(assignableIPs, retryIPs)
    /\ assignableNodes' = Requeue(assignableNodes, retryProviders)
    /\ pc' = "dns" /\ retryIPs' = <<>> /\ retryProviders' = <<>>
    /\ UNCHANGED <<cursor, cancelled, removing>>
    /\ UNCHANGED <<specVars, mapVars, timerVars, flagVars, poolVars,
                   matched, noteVars, published, cloudVars, dnsRecord, budget>>

IPInBackoff(ip) == ipToStatus[ip].state = "error" /\ ipToStatus[ip].wait

AssignSkipIP ==
    /\ pc = "assign" /\ CanAssign
    /\ IPInBackoff(Head(assignableIPs))
    /\ assignableIPs' = Tail(assignableIPs)
    /\ retryIPs' = Append(retryIPs, Head(assignableIPs))
    /\ UNCHANGED <<pc, cursor, retryProviders, cancelled, removing>>
    /\ UNCHANGED <<specVars, mapVars, assignableNodes, timerVars, flagVars, poolVars,
                   matched, noteVars, published, cloudVars, dnsRecord, budget>>

AssignSkipNode ==
    /\ pc = "assign" /\ CanAssign
    /\ Tracked(Head(assignableIPs)) /\ ~IPInBackoff(Head(assignableIPs))
    /\ Head(assignableNodes) \in providerIDToRetry
    /\ assignableIPs' = Tail(assignableIPs)
    /\ assignableNodes' = Tail(assignableNodes)
    /\ retryIPs' = Append(retryIPs, Head(assignableIPs))
    /\ retryProviders' = Append(retryProviders, Head(assignableNodes))
    /\ UNCHANGED <<pc, cursor, cancelled, removing>>
    /\ UNCHANGED <<specVars, mapVars, timerVars, flagVars, poolVars,
                   matched, noteVars, published, cloudVars, dnsRecord, budget>>

\* AssignIP is called with the pair at the front of the queues.
Assigning(ip, n) ==
    /\ pc = "assign" /\ CanAssign
    /\ ip = Head(assignableIPs) /\ n = Head(assignableNodes)
    /\ Tracked(ip) /\ ~IPInBackoff(ip) /\ n \notin providerIDToRetry
    /\ assignableIPs' = Tail(assignableIPs)
    /\ assignableNodes' = Tail(assignableNodes)

\* Mutant: the claim of the node that had the IP before is kept.
ClaimsAfterKeepingOld(ip, n, claim) == [providerIDToIP EXCEPT ![n] = claim]

\* Claims after ip left its old node, and (claim = ip) went to n.
ClaimsAfter(ip, n, claim) ==
    [m \in Nodes |-> IF m = n THEN claim
                     ELSE IF m = ipToStatus[ip].node THEN NoIP ELSE providerIDToIP[m]]

\* Provider: n has, or is about to have, another address.
NodeInUse(ip, n) == \E j \in IPs \ {ip} : n \in {attached[j], inflight[j]}

\* Provider: a successful AssignIP.  With an action in flight for this IP,
\* whatever its target, nothing is asked for and ErrInProgress is returned.
ProviderAssigns(ip, n) ==
    \/ /\ inflight[ip] # NoNode
       /\ UNCHANGED cloudVars
    \/ /\ inflight[ip] = NoNode /\ (attached[ip] = n \/ ~NodeInUse(ip, n))
       /\ IF Async /\ attached[ip] # n
          THEN inflight' = [inflight EXCEPT ![ip] = n] /\ UNCHANGED <<attached, owned>>
          ELSE attached' = [attached EXCEPT ![ip] = n] /\ UNCHANGED <<inflight, owned>>

AssignIP(ip, n) ==
    /\ Assigning(ip, n) /\ ~cancelled
    /\ ProviderAssigns(ip, n)
    /\ ipToStatus' = [ipToStatus EXCEPT ![ip] = Status("in-progress", n, TRUE)]
    /\ providerIDToIP' = ClaimsAfter(ip, n, ip)
    /\ providerIDToRetry' = providerIDToRetry \ {n}
    /\ coolWait' = CoolOff
    /\ Annotate(n, ip)
    /\ dnsDirty' = TRUE
    /\ updateStatus' = (updateStatus \/ ipToStatus[ip].state # "in-progress")
    /\ UNCHANGED <<specVars, providerIDToNodeName, createWait, dns, runVars, poolVars,
                   matched, published, dnsRecord>>

(* AssignIP returns an error: refused by the provider, failed, or carried   *)
(* out although the answer was lost.                                        *)
AssignIPFails(ip, n) ==
    /\ Assigning(ip, n)
    /\ \/ /\ inflight[ip] = NoNode /\ attached[ip] # n /\ NodeInUse(ip, n)
          /\ NoEvent /\ UNCHANGED cloudVars
       \/ Event("assign") /\ UNCHANGED cloudVars
       \/ /\ Event("lostAssign") /\ inflight[ip] = NoNode /\ ~NodeInUse(ip, n)
          /\ attached' = [attached EXCEPT ![ip] = n] /\ UNCHANGED <<inflight, owned>>
    /\ ipToStatus' = [ipToStatus EXCEPT ![ip] = Status("error", NoNode, TRUE)]
    /\ providerIDToIP' = ClaimsAfter(ip, n, NoIP)
    /\ providerIDToRetry' = providerIDToRetry \cup {n}
    /\ retryIPs' = Append(retryIPs, ip)
    /\ retryProviders' = Append(retryProviders, n)
    /\ dnsDirty' = TRUE
    /\ \E changed \in Differs(ipToStatus[ip].state, "error") :
          updateStatus' = (updateStatus \/ changed)
    /\ UNCHANGED <<pc, cursor, cancelled, removing>>
    /\ UNCHANGED <<specVars, providerIDToNodeName, timerVars, dns, poolVars,
                   matched, noteVars, published, dnsRecord>>
-----------------------------------------------------------------------------
(* reconcileDNS and the status update that ends reconcile.                  *)
\* Mutant: assignments that are only under way are put in the record too.
ActiveOrMovingIPs == {ip \in Elements(ips) : ipToStatus[ip].state \in {"active", "in-progress"}}

ActiveIPs == {ip \in Elements(ips) : ipToStatus[ip].state = "active"}
DNSWanted == ips # <<>> /\ dns # "none" /\ dnsDirty
DNSReadable == \A ip \in Elements(ips) : Tracked(ip)

DNSSkip ==
    /\ pc = "dns"
    /\ ~DNSWanted \/ (DNSReadable /\ ActiveIPs = {})
    /\ Goto("publish")
    /\ UNCHANGED <<specVars, mapVars, queueVars, timerVars, flagVars, poolVars,
                   matched, noteVars, published, cloudVars, dnsRecord, budget>>

EnsureDNS ==
    /\ pc = "dns" /\ DNSWanted /\ DNSReadable /\ ActiveIPs # {} /\ ~cancelled
    /\ dnsRecord' = ActiveIPs
    /\ dnsDirty' = FALSE
    /\ Goto("publish")
    /\ UNCHANGED <<specVars, mapVars, queueVars, timerVars, dns, updateStatus, poolVars,
                   matched, noteVars, published, cloudVars, budget>>

(* The provider changes one record after the other: a failed call leaves    *)
(* some of the old and some of the new ones.                                *)
EnsureDNSFails ==
    /\ pc = "dns" /\ DNSWanted /\ DNSReadable /\ ActiveIPs # {}
    /\ IF cancelled THEN NoEvent ELSE Event("dns")
    /\ dnsRecord' \in SUBSET (dnsRecord \cup ActiveIPs)
    /\ Goto("publish")
    /\ UNCHANGED <<specVars, mapVars, queueVars, timerVars, flagVars, poolVars,
                   matched, noteVars, published, cloudVars>>

\* buildStatusUpdate: state and provider ID of every known IP.
StatusUpdate ==
    [ip \in IPs |-> IF ip \in disabledIPs THEN <<"disabled", NoNode>>
                    ELSE <<ipToStatus[ip].state, ipToStatus[ip].node>>]

PublishSkip ==
    /\ pc = "publish" /\ ~updateStatus
    /\ Goto("idle")
    /\ UNCHANGED <<specVars, mapVars, queueVars, timerVars, flagVars, poolVars,
                   matched, noteVars, published, cloudVars, dnsRecord, budget>>

Publish ==
    /\ pc = "publish" /\ updateStatus /\ ~cancelled
    /\ published' = StatusUpdate
    /\ updateStatus' = FALSE
    /\ Goto("idle")
    /\ UNCHANGED <<specVars, mapVars, queueVars, timerVars, dns, dnsDirty, poolVars,
                   matched, noteVars, cloudVars, dnsRecord, budget>>

PublishFails ==
    /\ pc = "publish" /\ updateStatus
    /\ IF cancelled THEN NoEvent ELSE Event("status")
    /\ Goto("idle")
    /\ UNCHANGED <<specVars, mapVars, queueVars, timerVars, flagVars, poolVars,
                   matched, noteVars, published, cloudVars, dnsRecord>>
-----------------------------------------------------------------------------
(* updateOrAdd, for a pool it knows: updateIPs and updateDNSSpec with the   *)
(* pool as the informer has it.                                             *)
Truncated == cache.desired # 0 /\ Len(cache.ips) > cache.desired
NewIPs == IF Truncated THEN SubSeq(cache.ips, 1, cache.desired) ELSE cache.ips
SameIPs ==
    /\ NewIPs = ips
    /\ \/ desiredIPs = cache.desired
       \/ cache.desired = 0
       \/ desiredIPs = 0 /\ cache.desired = Len(NewIPs)

\* Mutant: an IP beyond desiredIPs is still taken for one of the pool.
DroppedIPsButDisabled == {ip \in IPs : Tracked(ip)} \ Elements(cache.ips)

DroppedIPs == {ip \in IPs : Tracked(ip)} \ Elements(NewIPs)

UpdateIPs ==
    /\ Unlocked /\ pc # "stopped"
    /\ desiredIPs' = cache.desired
    /\ disabledIPs' = Elements(cache.ips) \ Elements(NewIPs)
    /\ IF SameIPs THEN UNCHANGED <<ips, updateStatus, dnsDirty, removing>>
       ELSE /\ ips' = NewIPs
            /\ updateStatus' = TRUE /\ dnsDirty' = TRUE
            /\ removing' = DroppedIPs
    /\ UNCHANGED <<pc, cursor, retryIPs, retryProviders, cancelled>>
    /\ UNCHANGED <<pendingIPs, mapVars, queueVars, timerVars, dns, poolVars,
                   matched, noteVars, published, cloudVars, dnsRecord, budget>>

(* The loop of updateIPs, still holding the lock, in the order of the map.  *)
RemoveIP(ip) ==
    LET n == ipToStatus[ip].node IN
    /\ ip \in removing
    /\ removing' = removing \ {ip}
    /\ ipToStatus' = [ipToStatus EXCEPT ![ip] = Absent]
    /\ assignableIPs' = Delete(assignableIPs, ip)
    /\ providerIDToIP' = ClaimsWithout(n)
    /\ providerIDToRetry' = providerIDToRetry \ {n}
    /\ IF Active(n)
       THEN assignableNodes' = AddFront(assignableNodes, n) /\ Annotate(n, NoIP)
       ELSE UNCHANGED <<assignableNodes, noteVars>> /\ NoEvent
    /\ UNCHANGED <<pc, cursor, retryIPs, retryProviders, cancelled>>
    /\ UNCHANGED <<specVars, providerIDToNodeName, timerVars, flagVars, poolVars,
                   matched, published, cloudVars, dnsRecord>>

\* A missing TTL becomes the default one in the controller's copy only.
UpdateDNSSpec ==
    /\ Unlocked /\ pc # "stopped"
    /\ cache.dns # dns
    /\ IF cache.dns \in {"none", "invalid"} THEN dns' = "none" /\ dnsDirty' = FALSE
       ELSE dns' = "ttl60" /\ dnsDirty' = TRUE
    /\ UNCHANGED <<specVars, mapVars, queueVars, timerVars, updateStatus, runVars, poolVars,
                   matched, noteVars, published, cloudVars, dnsRecord, budget>>
-----------------------------------------------------------------------------
(* EnableNodes and DisableNodes, called by the match controller; it enables *)
(* a node again when the annotation of the node has changed, which is a     *)
(* no-op unless updateProviders forgot the node.                            *)
Claim(n) == providerIDToIP[n]
Readable(n) == Claim(n) # NoIP => Tracked(Claim(n))

\* Mutant: the IP of a node that came back stays up for assignment.
IPsAfterEnableKept(n) == assignableIPs

IPsAfterEnable(n) == Delete(assignableIPs, Claim(n))

EnableNode(n) ==
    /\ Unlocked /\ ~Active(n) /\ Readable(n)
    /\ providerIDToNodeName' = providerIDToNodeName \cup {n}
    /\ matched' = matched \cup {n}
    /\ IF Claim(n) # NoIP
       THEN /\ ipToStatus' = [ipToStatus EXCEPT ![Claim(n)] = Status("in-progress", n, TRUE)]
            /\ assignableIPs' = IPsAfterEnable(n)
            /\ Annotate(n, Claim(n))
            /\ updateStatus' = TRUE /\ dnsDirty' = TRUE
            /\ UNCHANGED assignableNodes
       ELSE /\ assignableNodes' = AddBack(assignableNodes, n)
            /\ NoEvent
            /\ UNCHANGED <<ipToStatus, assignableIPs, noteVars, updateStatus, dnsDirty>>
    /\ UNCHANGED <<specVars, providerIDToIP, providerIDToRetry, timerVars, dns, runVars,
                   poolVars, published, cloudVars, dnsRecord>>

DisableNode(n) ==
    /\ Unlocked /\ n \in matched /\ Readable(n)
    /\ matched' = matched \ {n}
    /\ providerIDToNodeName' = providerIDToNodeName \ {n}
    /\ assignableNodes' = IF Active(n) THEN Delete(assignableNodes, n) ELSE assignableNodes
    /\ IF Active(n) /\ Claim(n) # NoIP
       THEN /\ assignableIPs' = AddBack(assignableIPs, Claim(n))
            /\ ipToStatus' = [ipToStatus EXCEPT
                    ![Claim(n)] = Status("no-match", ipToStatus[Claim(n)].node, TRUE)]
            /\ Annotate(n, NoIP)
            /\ updateStatus' = TRUE /\ dnsDirty' = TRUE
       ELSE /\ NoEvent
            /\ UNCHANGED <<ipToStatus, assignableIPs, noteVars, updateStatus, dnsDirty>>
    /\ UNCHANGED <<specVars, providerIDToIP, providerIDToRetry, timerVars, dns, runVars,
                   poolVars, published, cloudVars, dnsRecord>>

\* The next map lookup of the code yields a nil *ipStatus and reads a field.
NilStatus ==
    IF pc = "dns" THEN DNSWanted /\ ~DNSReadable
    ELSE IF pc = "assign" THEN CanAssign /\ ~Tracked(Head(assignableIPs))
    ELSE Unlocked /\ \E n \in Nodes : ~Readable(n)

Panic ==
    /\ NilStatus
    /\ Goto("panicked")
    /\ UNCHANGED <<specVars, mapVars, queueVars, timerVars, flagVars, poolVars,
                   matched, noteVars, published, cloudVars, dnsRecord, budget>>
-----------------------------------------------------------------------------
(* The environment: time, the user, the informers and the provider.         *)
ControllerUnchanged ==
    UNCHANGED <<specVars, queueVars, flagVars, runVars, providerIDToIP, providerIDToNodeName,
                matched, published, dnsRecord>>

(* A retry or cool-off time is reached.                                     *)
ElapseIP(ip) ==
    /\ ipToStatus[ip].wait
    /\ ipToStatus' = [ipToStatus EXCEPT ![ip].wait = FALSE]
    /\ ControllerUnchanged
    /\ UNCHANGED <<providerIDToRetry, timerVars, poolVars, noteVars, cloudVars, budget>>

ElapseNode(n) ==
    /\ n \in providerIDToRetry
    /\ providerIDToRetry' = providerIDToRetry \ {n}
    /\ ControllerUnchanged
    /\ UNCHANGED <<ipToStatus, timerVars, poolVars, noteVars, cloudVars, budget>>

ElapseCreate ==
    /\ createWait /\ createWait' = FALSE
    /\ ControllerUnchanged
    /\ UNCHANGED <<ipToStatus, providerIDToRetry, coolWait, poolVars, noteVars, cloudVars, budget>>

ElapseCoolOff ==
    /\ coolWait /\ coolWait' = FALSE
    /\ ControllerUnchanged
    /\ UNCHANGED <<ipToStatus, providerIDToRetry, createWait, poolVars, noteVars, cloudVars, budget>>

(* The user edits one field of the pool, or takes one IP off its list.      *)
EditSpec ==
    /\ Event("edit")
    /\ \E s \in {[spec EXCEPT !.ips = l] : l \in IPLists}
              \cup {[spec EXCEPT !.desired = d] : d \in DesiredIPs}
              \cup {[spec EXCEPT !.dns = d] : d \in DNSSpecs}
              \cup {[spec EXCEPT !.ips = Without(spec.ips, k)] : k \in DOMAIN spec.ips} :
          s # spec /\ ValidSpec(s) /\ WriteSpec(s)
    /\ ControllerUnchanged
    /\ UNCHANGED <<ipToStatus, providerIDToRetry, timerVars, noteVars, cloudVars>>

Watch ==
    /\ cache # spec /\ cache' = spec
    /\ ControllerUnchanged
    /\ UNCHANGED <<ipToStatus, providerIDToRetry, timerVars, spec, noteVars, cloudVars, budget>>

WatchNode(n) ==
    /\ nodeCache[n] # annotation[n]
    /\ nodeCache' = [nodeCache EXCEPT ![n] = annotation[n]]
    /\ ControllerUnchanged
    /\ UNCHANGED <<ipToStatus, providerIDToRetry, timerVars, poolVars, annotation, cloudVars, budget>>

(* An action in flight ends, with or without having moved the IP.           *)
ActionEnds(ip) ==
    /\ inflight[ip] # NoNode
    /\ inflight' = [inflight EXCEPT ![ip] = NoNode]
    /\ \/ NoEvent /\ attached' = [attached EXCEPT ![ip] = inflight[ip]]
       \/ Event("asyncFail") /\ UNCHANGED attached
    /\ ControllerUnchanged
    /\ UNCHANGED <<ipToStatus, providerIDToRetry, timerVars, poolVars, noteVars, owned>>

(* Somebody else points an IP elsewhere, or its node is destroyed.          *)
ExternalMove(ip) ==
    /\ Event("move") /\ ip \in owned /\ inflight[ip] = NoNode
    /\ \E n \in NodeIDs \ {attached[ip]} :
          /\ n # NoNode => ~NodeInUse(ip, n)
          /\ attached' = [attached EXCEPT ![ip] = n]
    /\ ControllerUnchanged
    /\ UNCHANGED <<ipToStatus, providerIDToRetry, timerVars, poolVars, noteVars, inflight, owned>>
-----------------------------------------------------------------------------
Reconcile ==
    \/ DesiredDone \/ CreateIP \/ CreateIPFails
    \/ PendingDone \/ OnNewIPs \/ OnNewIPsFails \/ AdoptIP
    \/ StatusDone \/ LookupSkip \/ Lookup
    \/ \E err \in {"inProgress", "notFound", "other"} : LookupFails(err)
    \/ AssignDone \/ AssignSkipIP \/ AssignSkipNode
    \/ \E ip \in IPs, n \in Nodes : AssignIP(ip, n) \/ AssignIPFails(ip, n)
    \/ DNSSkip \/ EnsureDNS \/ EnsureDNSFails
    \/ PublishSkip \/ Publish \/ PublishFails

Handlers ==
    \/ UpdateIPs \/ UpdateDNSSpec \/ UpdateProviders
    \/ \E ip \in IPs : RemoveIP(ip)
    \/ \E n \in Nodes : EnableNode(n) \/ DisableNode(n)

Lifecycle == Start \/ Wake \/ Stop \/ Exit \/ Restart \/ Panic

Environment ==
    \/ ElapseCreate \/ ElapseCoolOff \/ EditSpec \/ Watch
    \/ \E n \in Nodes : ElapseNode(n) \/ WatchNode(n)
    \/ \E ip \in IPs : ElapseIP(ip) \/ ActionEnds(ip) \/ ExternalMove(ip)

Next == Reconcile \/ Handlers \/ Lifecycle \/ Environment

Spec == Init /\ [][Next]_vars
-----------------------------------------------------------------------------
TypeOK ==
    /\ ips \in Seq(IPs) /\ pendingIPs \in Seq(IPs)
    /\ disabledIPs \subseteq IPs /\ desiredIPs \in Nat
    /\ ipToStatus \in [IPs -> [state : States, node : NodeIDs, wait : BOOLEAN]]
    /\ providerIDToIP \in [Nodes -> IPs \cup {NoIP}]
    /\ providerIDToNodeName \subseteq Nodes /\ providerIDToRetry \subseteq Nodes
    /\ assignableIPs \in Seq(IPs) /\ assignableNodes \in Seq(Nodes)
    /\ createWait \in BOOLEAN /\ coolWait \in BOOLEAN
    /\ dns \in {"none", "ttl60"} /\ dnsDirty \in BOOLEAN /\ updateStatus \in BOOLEAN
    /\ pc \in {"reset", "idle", "desired", "pending", "adopt", "status", "assign",
               "dns", "publish", "stopped", "panicked"}
    /\ cursor \in Nat \ {0}
    /\ retryIPs \in Seq(IPs) /\ retryProviders \in Seq(Nodes)
    /\ cancelled \in BOOLEAN /\ removing \subseteq IPs
    /\ spec \in [ips : Seq(IPs), desired : Nat, dns : DNSSpecs]
    /\ cache \in [ips : Seq(IPs), desired : Nat, dns : DNSSpecs]
    /\ matched \subseteq Nodes
    /\ annotation \in [Nodes -> IPs \cup {NoIP}] /\ nodeCache \in [Nodes -> IPs \cup {NoIP}]
    /\ attached \in [IPs -> NodeIDs] /\ inflight \in [IPs -> NodeIDs]
    /\ owned \subseteq IPs /\ dnsRecord \subseteq IPs
    /\ budget \in Nat

-----------------------------------------------------------------------------
(* A node's claim (providerIDToIP) is always backed by the status of the IP *)
(* it names: no path through lookup, assignment, eviction, removal or       *)
(* restart leaves a claim on an IP that is unknown or believed elsewhere,   *)
(* which EnableNodes and DisableNodes would dereference.                    *)
ClaimConsistent ==
    \A n \in Nodes : Claim(n) # NoIP => Tracked(Claim(n)) /\ ipToStatus[Claim(n)].node = n

(* The queues reconcileAssignment pops from never hold an IP without a      *)
(* status, a node that was disabled meanwhile, or an element twice.         *)
QueueSound ==
    /\ Unique(assignableIPs) /\ Unique(assignableNodes)
    /\ \A ip \in Elements(assignableIPs) : Tracked(ip)
    /\ Elements(assignableNodes) \subseteq providerIDToNodeName

(* Once updateIPs has released the lock, the controller tracks no IP that   *)
(* is not in the pool any more, so that it can never move one.              *)
TrackedInPool ==
    removing = {} => \A ip \in IPs : Tracked(ip) => ip \in Elements(ips)

(* No nil *ipStatus is dereferenced in reconcileAssignment, reconcileDNS,   *)
(* EnableNodes or DisableNodes, unless the context was cancelled: after a   *)
(* reconcileIPStatus cut short, reconcileDNS reads what was not looked up.  *)
NoPanic == pc = "panicked" => cancelled

-----------------------------------------------------------------------------
(* The rest of the inductive invariant behind the four properties above.    *)

\* Only reconcileAssignment has retry lists; what it put there is on no queue.
RetrySound ==
    /\ pc # "assign" => retryIPs = <<>> /\ retryProviders = <<>>
    /\ Unique(retryIPs) /\ Unique(retryProviders)
    /\ \A ip \in Elements(retryIPs) : Tracked(ip) /\ ~IsSet(assignableIPs, ip)
    /\ \A n \in Elements(retryProviders) : Active(n) /\ ~IsSet(assignableNodes, n)

\* updateIPs and a reconcile pass exclude each other.
LockSound == removing # {} => pc \in {"idle", "reset", "stopped"}

PoolSound == \A ip \in IPs : Tracked(ip) => ip \in Elements(ips) \cup removing

\* A pending address is new: nobody has listed or tracked it yet.
PendingFresh ==
    /\ UserIPs \cup Elements(ips) \cup Elements(spec.ips) \cup Elements(cache.ips) \subseteq owned
    /\ Unique(pendingIPs)
    /\ \A ip \in Elements(pendingIPs) :
          /\ ip \in owned /\ ip \notin UserIPs /\ ip \notin Elements(ips) /\ ~Tracked(ip)
          /\ pc # "adopt" => ip \notin Elements(spec.ips) /\ ip \notin Elements(cache.ips)

\* What the loop of reconcileIPStatus has passed is tracked; an IP without a
\* status has no retry time to wait for.
ScanComplete ==
    /\ \A ip \in IPs : ~Tracked(ip) => ~ipToStatus[ip].wait
    /\ pc = "status" => \A i \in DOMAIN ips : i < cursor => Tracked(ips[i])
    /\ pc \in {"assign", "dns"} /\ ~cancelled => \A i \in DOMAIN ips : Tracked(ips[i])
    /\ "cancel" \notin Events => ~cancelled

IInv ==
    /\ TypeOK /\ ClaimConsistent /\ QueueSound
    /\ RetrySound /\ LockSound /\ PoolSound /\ PendingFresh /\ ScanComplete
-----------------------------------------------------------------------------
\* Between two passes of reconcile, and with no handler at work.
Settled == pc = "idle" /\ removing = {}

\* Where an IP will be once the action in flight, if there is one, has ended.
Dest(ip) == IF inflight[ip] # NoNode THEN inflight[ip] ELSE attached[ip]

(* Between passes, an IP that the provider last said serves no active node  *)
(* is in assignableIPs.  "If it recovers, it should be added back"          *)
(* (ip_controller.go:399) says so of an IP that was not found for a while.  *)
IPsOffered ==
    Settled => \A ip \in IPs :
        ipToStatus[ip].state \in {"no-match", "unassigned"} => IsSet(assignableIPs, ip)

(* Between passes, a record that is not marked dirty holds exactly the IPs  *)
(* in state active: every change of that set sets dnsDirty.                 *)
DNSFresh ==
    Settled /\ dns # "none" /\ ~dnsDirty =>
        dnsRecord = {ip \in Elements(ips) : ipToStatus[ip].state = "active"}

(* Between passes, the reserved-ip annotation of a matching node is its IP, *)
(* and other nodes have none (README, "Behavior" and "Assignment Logic").   *)
AnnotationTruth ==
    Settled => \A n \in Nodes : annotation[n] = (IF Active(n) THEN Claim(n) ELSE NoIP)

(* Every address allocated at the provider is in the pool's spec or about   *)
(* to be written there: CreateIP never leaks one.                           *)
AllocatedListed == owned \subseteq Elements(spec.ips) \cup Elements(pendingIPs)

(* "Allocates a number of Floating IPs equal to desiredIPs" (README): for a *)
(* pool that nobody edits, never more of them.                              *)
AllocatesDesired == Cardinality(owned) <= spec.desired

(* An IP of the pool is never moved off a node that matches ("will only     *)
(* unassign a Floating IP address from a Droplet if that node no longer     *)
(* matches", README): neither an IP that is there nor one on its way.       *)
NoDisruption ==
    [][\A ip \in IPs, n \in Nodes : Dest(ip) = n /\ n \in matched => Dest(ip)' = n]_vars
-----------------------------------------------------------------------------
(* Fairness: the goroutine runs, its timer fires, the informer resyncs and  *)
(* the handler gets the lock some time (sync.Mutex does not starve), time   *)
(* passes, and a started action of the provider ends.                       *)
Fairness ==
    /\ WF_vars(Start) /\ WF_vars(Wake) /\ WF_vars(Reconcile)
    /\ WF_vars(ElapseCreate) /\ WF_vars(ElapseCoolOff)
    /\ \A n \in Nodes : WF_vars(ElapseNode(n))
    /\ \A ip \in IPs : WF_vars(ElapseIP(ip)) /\ WF_vars(ActionEnds(ip)) /\ WF_vars(RemoveIP(ip))
    /\ SF_vars(UpdateIPs) /\ SF_vars(UpdateDNSSpec)

FairSpec == Spec /\ Fairness

Served(n) == Claim(n) # NoIP /\ attached[Claim(n)] = n

(* With at least as many IPs as nodes, a node that stays matched gets an IP *)
(* for good, whatever happens to the other nodes.                           *)
NodesServed == \A n \in Nodes : <>[](n \in matched) => <>[]Served(n)

(* A node that ends up as the only one that matches gets an IP for good,    *)
(* even if all of them are attached to nodes that no longer match.          *)
LastNodeAlwaysServed == \A n \in Nodes : <>[](matched = {n}) => <>[]Served(n)

(* The same of a pool whose IPs end up offered: apart from the stranded IP  *)
(* of IPsOffered, nothing keeps the node from its IP, neither back-off nor  *)
(* cool-off nor a record that is wrong about where the IP is.               *)
LastNodeServed == <>[]IPsOffered => LastNodeAlwaysServed

(* Once all nodes stay matched, the A record and the published status end   *)
(* up naming every IP of the pool, failures to write them notwithstanding.  *)
RecordComplete ==
    <>[](matched = Nodes) => <>[](/\ dnsRecord = Elements(ips)
                                  /\ \A ip \in Elements(ips) : published[ip][1] = "active")
=============================================================================
