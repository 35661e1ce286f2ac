------------------------------ MODULE NodeMatch ------------------------------
(***************************************************************************)
(* The node match controller (match_controller.go): it follows nodes and   *)
(* pods through two informers and tells a NodeEnableDisabler which nodes   *)
(* match.  An informer updates its store first and delivers the event to   *)
(* the handler later; the two informers and the start-up goroutine run()   *)
(* are concurrent, and run() goes through the stored nodes without the     *)
(* controller's lock before it takes it for the bulk enable.               *)
(*                                                                         *)
(* Labels, taints and conditions of a node are abstracted to whether it    *)
(* matches, phase and conditions of a pod to whether it is ready.          *)
(***************************************************************************)
EXTENDS Naturals, Sequences, FiniteSets, SequencesExt

CONSTANTS
    Nodes, Pods,
    Home,         \* the node a pod is scheduled on, once it is
    PodCriteria,  \* TRUE iff the criteria name a pod namespace or label
    Scenarios,    \* the kinds of change that happen to nodes and pods together
    MaxChanges    \* how many changes happen

\* "early": nodes and pods come, go and change before run() is done, too.
\* "relist": the watch breaks and an object disappears meanwhile.
AllChanges == {"flip", "annotate", "node", "pod", "early", "relist"}

ASSUME ConstantsAssumption ==
    /\ IsFiniteSet(Nodes) /\ IsFiniteSet(Pods)
    /\ Home \in [Pods -> Nodes] /\ PodCriteria \in BOOLEAN
    /\ Scenarios \subseteq SUBSET AllChanges /\ MaxChanges \in Nat

\* "none": not there; "bare": no provider ID yet; "plain": does not match.
NodeStates == {"none", "bare", "plain", "match", "deleting"}
\* "pending": not scheduled; "unready": not running, or not ready.
PodStates == {"none", "pending", "unready", "ready", "deleting"}

VARIABLES
    nodeStore, nodeQueue,  \* the node informer: its store, events to deliver
    podStore, podQueue,    \* the pod informer
    nodeNameToNode,        \* the controller's record of every node it knows
    primed,
    pc, relist,            \* run(): where it is, stored nodes it has to visit
    active,                \* the nodes the NodeEnableDisabler has enabled
    changes, budget        \* the scenario, changes left

informerVars == <<nodeStore, nodeQueue, podStore, podQueue>>
controllerVars == <<nodeNameToNode, primed, active>>
runVars == <<pc, relist>>
worldVars == <<changes, budget>>
vars == <<informerVars, controllerVars, runVars, worldVars>>

K8sNode == [state : NodeStates, note : BOOLEAN]
NoObject == [state |-> "none", note |-> FALSE]
Tombstone == [state |-> "tombstone", note |-> FALSE]
Unknown == [known |-> FALSE, isNodeMatch |-> FALSE, note |-> FALSE,
            matchingPods |-> {}, enabled |-> FALSE]

Exists(n) == nodeStore[n].state # "none"
PodsOn(n) == {p \in Pods : Home[p] = n}

\* The events a list of the stored objects gives, in some order.
Listing(order, store) == [i \in DOMAIN order |-> <<order[i], store[order[i]]>>]
NodeListing == Listing(SetToSeq({n \in Nodes : Exists(n)}), nodeStore)
PodListing == Listing(SetToSeq({p \in Pods : podStore[p] # "none"}), podStore)
-----------------------------------------------------------------------------
(* What is there when the informers list; every object is an event.         *)
Init ==
    /\ nodeStore \in [Nodes -> {v \in K8sNode :
                        v.state \in {"none", "plain", "match"} /\ (v.note => v.state # "none")}]
    /\ nodeQueue = NodeListing
    /\ podStore \in [Pods -> IF PodCriteria THEN {"none", "unready", "ready"} ELSE {"none"}]
    /\ podQueue = PodListing
    /\ nodeNameToNode = [n \in Nodes |-> Unknown]
    /\ primed = FALSE /\ active = {}
    /\ pc = "sync" /\ relist = {}
    /\ changes \in Scenarios /\ budget = MaxChanges
-----------------------------------------------------------------------------
\* The controller's record of a node, and what it tells the enable-disabler.
Outcome(n, record, enabledNodes) ==
    /\ nodeNameToNode' = [nodeNameToNode EXCEPT ![n] = record]
    /\ active' = enabledNodes
    /\ UNCHANGED primed

Enabling(n) == IF primed THEN active \cup {n} ELSE active
Disabling(n) == active \ {n}

deleteNode(n) == Outcome(n, Unknown, Disabling(n))

\* Mutant: the pods a node had before it stopped matching still count.
PodsListedToo(n) == {p \in PodsOn(n) : podStore[p] = "ready"} \cup nodeNameToNode[n].matchingPods

\* getNodePods, as updatePod takes them: ready ones count.
PodsListed(n) == {p \in PodsOn(n) : podStore[p] = "ready"}

\* updateNode for a matching node with pod criteria: updatePod for every pod
\* of the informer's store.  A pod being deleted disables a node without pods.
MatchPods(n, record) ==
    LET ready == PodsListed(n) IN
    IF ready # {}
    THEN Outcome(n, [record EXCEPT !.matchingPods = ready, !.enabled = TRUE], Enabling(n))
    ELSE Outcome(n, [record EXCEPT !.matchingPods = {}],
                 IF \E p \in PodsOn(n) : podStore[p] = "deleting" THEN Disabling(n) ELSE active)

\* "node match and reserved IP annotation unchanged".
Unchanged(old, note, isMatch) == old.note = note /\ old.isNodeMatch = isMatch

updateNode(n, v) ==
    LET old    == nodeNameToNode[n]
        match  == v.state = "match"
        record == [old EXCEPT !.known = TRUE, !.note = v.note, !.isNodeMatch = match]
    IN
    IF v.state = "deleting" THEN deleteNode(n)
    ELSE IF v.state = "bare" /\ ~old.known THEN UNCHANGED controllerVars
    ELSE IF Unchanged(old, v.note, match) THEN Outcome(n, record, active)
    ELSE IF match /\ PodCriteria THEN MatchPods(n, record)
    ELSE IF match THEN Outcome(n, [record EXCEPT !.enabled = TRUE], Enabling(n))
    ELSE Outcome(n, [record EXCEPT !.enabled = FALSE], Disabling(n))

\* Mutant: deleting any pod of a node disables it.
deletePodAlways(p) ==
    LET n    == Home[p]
        pods == nodeNameToNode[n].matchingPods \ {p}
    IN
    IF ~nodeNameToNode[n].known THEN UNCHANGED controllerVars
    ELSE Outcome(n, [nodeNameToNode[n] EXCEPT !.matchingPods = pods], Disabling(n))

deletePod(p) ==
    LET n    == Home[p]
        pods == nodeNameToNode[n].matchingPods \ {p}
    IN
    IF ~nodeNameToNode[n].known THEN UNCHANGED controllerVars
    ELSE Outcome(n, [nodeNameToNode[n] EXCEPT !.matchingPods = pods],
                 IF pods = {} THEN Disabling(n) ELSE active)

updatePod(p, v) ==
    LET n   == Home[p]
        old == nodeNameToNode[n]
        add == old.matchingPods \cup {p}
        del == old.matchingPods \ {p}
    IN
    IF v = "deleting" THEN deletePod(p)
    ELSE IF v = "pending" \/ ~old.known \/ ~old.isNodeMatch \/ ((v = "ready") = (p \in old.matchingPods))
    THEN UNCHANGED controllerVars
    ELSE IF v = "ready"
    THEN IF add = {p} THEN Outcome(n, [old EXCEPT !.matchingPods = add, !.enabled = TRUE], Enabling(n))
         ELSE Outcome(n, [old EXCEPT !.matchingPods = add], active)
    ELSE Outcome(n, [old EXCEPT !.matchingPods = del], IF del = {} THEN Disabling(n) ELSE active)
-----------------------------------------------------------------------------
(* OnAdd, OnUpdate and OnDelete, one event at a time from each informer.    *)
(* The final state of an object whose deletion the watch missed is of none  *)
(* of the types that OnDelete handles.                                      *)
OnNode ==
    /\ nodeQueue # <<>>
    /\ nodeQueue' = Tail(nodeQueue)
    /\ LET n == Head(nodeQueue)[1]
           v == Head(nodeQueue)[2]
       IN  IF v = Tombstone THEN UNCHANGED controllerVars
           ELSE IF v.state = "none" THEN deleteNode(n) ELSE updateNode(n, v)
    /\ UNCHANGED <<nodeStore, podStore, podQueue, runVars, worldVars>>

OnPod ==
    /\ podQueue # <<>>
    /\ podQueue' = Tail(podQueue)
    /\ LET p == Head(podQueue)[1]
           v == Head(podQueue)[2]
       IN  IF v = "tombstone" THEN UNCHANGED controllerVars
           ELSE IF v = "none" THEN deletePod(p) ELSE updatePod(p, v)
    /\ UNCHANGED <<nodeStore, nodeQueue, podStore, runVars, worldVars>>

(* run(), once the caches are synced: the store's list of nodes ...         *)
RunList ==
    /\ pc = "sync"
    /\ pc' = "relist"
    /\ relist' = {<<n, nodeStore[n]>> : n \in {m \in Nodes : Exists(m)}}
    /\ UNCHANGED <<informerVars, controllerVars, worldVars>>

(* ... visited one by one while handlers run ...                            *)
RunUpdate ==
    /\ pc = "relist"
    /\ \E e \in relist :
          /\ relist' = relist \ {e}
          /\ updateNode(e[1], e[2])
    /\ UNCHANGED <<informerVars, pc, worldVars>>

\* Mutant: the bulk enable takes every node that is known.
BulkKnown == {n \in Nodes : nodeNameToNode[n].known}

\* The initial set of nodes, enabled in bulk.
Bulk == {n \in Nodes : nodeNameToNode[n].enabled}

(* ... and, with the lock, the bulk enable.                                 *)
RunPrime ==
    /\ pc = "relist" /\ relist = {}
    /\ pc' = "done" /\ primed' = TRUE
    /\ active' = active \cup Bulk
    /\ UNCHANGED <<informerVars, nodeNameToNode, relist, worldVars>>
-----------------------------------------------------------------------------
(* The cluster, as the informers see it.                                    *)
Change(kind) ==
    /\ kind \in changes /\ budget > 0 /\ budget' = budget - 1
    /\ UNCHANGED <<controllerVars, runVars, changes>>

Settable == primed \/ "early" \in changes

NodeBecomes(n, v, event) ==
    /\ nodeStore' = [nodeStore EXCEPT ![n] = v]
    /\ nodeQueue' = Append(nodeQueue, <<n, event>>)
    /\ UNCHANGED <<podStore, podQueue>>

PodBecomes(p, v, event) ==
    /\ podStore' = [podStore EXCEPT ![p] = v]
    /\ podQueue' = Append(podQueue, <<p, event>>)
    /\ UNCHANGED <<nodeStore, nodeQueue>>

NodeFlips(n) ==
    /\ Change("flip")
    /\ nodeStore[n].state \in {"plain", "match"}
    /\ LET v == [nodeStore[n] EXCEPT !.state = IF @ = "match" THEN "plain" ELSE "match"]
       IN  NodeBecomes(n, v, v)

NodeAnnotated(n) ==
    /\ Change("annotate")
    /\ nodeStore[n].state \in {"plain", "match"}
    /\ LET v == [nodeStore[n] EXCEPT !.note = ~@] IN NodeBecomes(n, v, v)

\* Nodes register, get their provider ID, and are removed; a node whose
\* labels no longer match is gone as well for the filtered informer.
NodeStep(old) ==
    CASE old = "none" -> {"bare", "plain", "match"}
      [] old = "bare" -> {"plain", "match"}
      [] old = "deleting" -> {"none"}
      [] OTHER -> {"deleting", "none"}

NodeComesOrGoes(n) ==
    /\ Change("node") /\ Settable
    /\ \E s \in NodeStep(nodeStore[n].state) :
          LET v == IF s = "none" THEN NoObject ELSE [nodeStore[n] EXCEPT !.state = s]
          IN  NodeBecomes(n, v, v)

PodStep(old) ==
    CASE old = "none" -> {"pending"}
      [] old = "pending" -> {"unready"}
      [] old = "unready" -> {"ready", "deleting", "none"}
      [] old = "ready" -> {"unready", "deleting", "none"}
      [] OTHER -> {"none"}

PodChanges(p) ==
    /\ Change("pod") /\ PodCriteria /\ Settable
    /\ \E v \in PodStep(podStore[p]) : PodBecomes(p, v, v)

ObjectMissed ==
    /\ Change("relist")
    /\ \/ \E n \in Nodes : Exists(n) /\ NodeBecomes(n, NoObject, Tombstone)
       \/ \E p \in Pods : podStore[p] # "none" /\ PodBecomes(p, "none", "tombstone")

(* The periodic resync delivers every stored object again.                  *)
Resync ==
    /\ primed /\ nodeQueue = <<>> /\ podQueue = <<>>
    /\ nodeQueue' = NodeListing
    /\ podQueue' = PodListing
    /\ UNCHANGED <<nodeStore, podStore, controllerVars, runVars, worldVars>>
-----------------------------------------------------------------------------
Controller == OnNode \/ OnPod \/ RunList \/ RunUpdate \/ RunPrime

Cluster ==
    \/ \E n \in Nodes : NodeFlips(n) \/ NodeAnnotated(n) \/ NodeComesOrGoes(n)
    \/ \E p \in Pods : PodChanges(p)
    \/ ObjectMissed

Next == Controller \/ Cluster \/ Resync

Spec == Init /\ [][Next]_vars

(* Informers deliver, run() goes on, and every informer resyncs (every five *)
(* minutes: podResyncPeriod, nodeResyncPeriod).                             *)
Fairness ==
    /\ WF_vars(OnNode) /\ WF_vars(OnPod) /\ WF_vars(Resync)
    /\ WF_vars(RunList) /\ WF_vars(RunUpdate) /\ WF_vars(RunPrime)

FairSpec == Spec /\ Fairness
-----------------------------------------------------------------------------
NodeRecord(n) ==
    [known : BOOLEAN, isNodeMatch : BOOLEAN, note : BOOLEAN,
     matchingPods : SUBSET PodsOn(n), enabled : BOOLEAN]

(* Types; a node's record only names pods that are scheduled on it.         *)
TypeOK ==
    /\ nodeStore \in [Nodes -> K8sNode]
    /\ nodeQueue \in Seq(Nodes \X (K8sNode \cup {Tombstone}))
    /\ podStore \in [Pods -> PodStates]
    /\ podQueue \in Seq(Pods \X (PodStates \cup {"tombstone"}))
    /\ DOMAIN nodeNameToNode = Nodes /\ \A n \in Nodes : nodeNameToNode[n] \in NodeRecord(n)
    /\ primed \in BOOLEAN /\ active \subseteq Nodes
    /\ pc \in {"sync", "relist", "done"} /\ relist \subseteq Nodes \X K8sNode
    /\ changes \in Scenarios /\ budget \in Nat

\* The nodes that match, and those that also have the pods they need, by
\* what has been delivered so far.
MatchingNodes == {n \in Nodes : nodeNameToNode[n].known /\ nodeNameToNode[n].isNodeMatch}
CandidateNodes == {n \in MatchingNodes : PodCriteria => nodeNameToNode[n].matchingPods # {}}

(* Whatever the order of events, and however run() races with them: only    *)
(* nodes known to match are enabled, and once the controller is primed no   *)
(* node is left out that matches and has a ready pod as far as is known.    *)
EnabledByRecord ==
    /\ active \subseteq MatchingNodes
    /\ primed => CandidateNodes \subseteq active

\* The rest of the inductive invariant: before it is primed the controller
\* notes in "enabled" what the bulk enable must not leave out.
EnabledByBulk ==
    /\ primed <=> pc = "done"
    /\ \A n \in Nodes : nodeNameToNode[n].isNodeMatch => nodeNameToNode[n].known
    /\ Bulk \subseteq MatchingNodes
    /\ ~primed => active = {} /\ CandidateNodes \subseteq Bulk

\* Without pod criteria there is no pod informer.
PodInformer ==
    ~PodCriteria => podQueue = <<>> /\ \A p \in Pods : podStore[p] = "none"

IInv == TypeOK /\ EnabledByRecord /\ EnabledByBulk /\ PodInformer
-----------------------------------------------------------------------------
\* The nodes that meet the criteria.
Wanted ==
    {n \in Nodes : /\ nodeStore[n].state = "match"
                   /\ PodCriteria => \E p \in PodsOn(n) : podStore[p] = "ready"}

\* Everything that happened has been delivered.
Delivered == primed /\ nodeQueue = <<>> /\ podQueue = <<>>

\* run() has left no record of a node older than the informer's store.
RecordsCurrent ==
    \A n \in Nodes : nodeNameToNode[n].isNodeMatch = (nodeStore[n].state = "match")

\* Kinds of change from which the enabled nodes may never recover.
Benign == changes \cap {"annotate", "early", "relist"} = {}

(* When all events are delivered and what run() read meanwhile is not out   *)
(* of date, then in all other scenarios exactly the nodes that meet the     *)
(* criteria are enabled: no order of events leaves one out or in.           *)
MatchesAll == Benign /\ Delivered /\ RecordsCurrent => active = Wanted

(* The enabled nodes settle on those that meet the criteria: what run() got *)
(* wrong by racing with the handlers is put right by a resync.              *)
MatchSettles == Benign => <>[](active = Wanted)

(* src/README.md: "If nodes no longer host matching pods or no longer match *)
(* node criteria, then the annotation is removed and any DNS records are    *)
(* updated", whatever happened before.                                      *)
AlwaysSettles == <>[](active = Wanted)
=============================================================================
