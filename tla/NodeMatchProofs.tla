--------------------------- MODULE NodeMatchProofs ---------------------------
(***************************************************************************)
(* Proofs about the node match controller, for any number of nodes and     *)
(* pods, any change at any time and any interleaving of handlers and run().*)
(***************************************************************************)
EXTENDS NodeMatch, FiniteSetTheorems, TLAPS

USE DEF worldVars

(* The enabled nodes follow from the controller's record of every node.     *)
RecordInv == EnabledByRecord /\ EnabledByBulk

\* What the outcome of a handler for node n must be to keep RecordInv.
Sound(n, record, nodes) ==
    /\ record \in NodeRecord(n)
    /\ nodes \in {active, active \cup {n}, active \ {n}}
    /\ record.enabled => record.known /\ record.isNodeMatch
    /\ record.isNodeMatch => record.known
    /\ n \in nodes => primed /\ record.known /\ record.isNodeMatch
    /\ (record.known /\ record.isNodeMatch /\ (PodCriteria => record.matchingPods # {})) =>
            IF primed THEN n \in nodes ELSE record.enabled

(* A handler with a sound outcome keeps the controller's invariant.         *)
LEMMA SoundOutcome ==
    ASSUME TypeOK, RecordInv, NEW n \in Nodes, NEW record, NEW nodes,
           Sound(n, record, nodes), Outcome(n, record, nodes), pc' = pc
    PROVE  /\ RecordInv'
           /\ DOMAIN nodeNameToNode' = Nodes
           /\ \A m \in Nodes : nodeNameToNode'[m] \in NodeRecord(m)
           /\ primed' \in BOOLEAN /\ active' \subseteq Nodes
<1>1. /\ DOMAIN nodeNameToNode' = Nodes
      /\ nodeNameToNode'[n] = record
      /\ \A m \in Nodes \ {n} : nodeNameToNode'[m] = nodeNameToNode[m]
  BY DEF Outcome, TypeOK
<1>2. /\ primed' = primed /\ active' = nodes
      /\ \A m \in Nodes \ {n} : m \in active' <=> m \in active
  BY DEF Outcome, Sound
<1>3. active' \subseteq Nodes
  BY <1>2 DEF Sound, TypeOK
<1>4. /\ \A m \in Nodes \ {n} : m \in MatchingNodes' <=> m \in MatchingNodes
      /\ \A m \in Nodes \ {n} : m \in CandidateNodes' <=> m \in CandidateNodes
      /\ \A m \in Nodes \ {n} : m \in Bulk' <=> m \in Bulk
  BY <1>1 DEF MatchingNodes, CandidateNodes, Bulk
<1>5. /\ n \in MatchingNodes' <=> record.known /\ record.isNodeMatch
      /\ n \in CandidateNodes' <=> /\ record.known /\ record.isNodeMatch
                                   /\ PodCriteria => record.matchingPods # {}
      /\ n \in Bulk' <=> record.enabled
  BY <1>1 DEF MatchingNodes, CandidateNodes, Bulk
<1>6. /\ MatchingNodes' \subseteq Nodes /\ CandidateNodes' \subseteq Nodes /\ Bulk' \subseteq Nodes
  BY DEF MatchingNodes, CandidateNodes, Bulk
<1>7. EnabledByRecord'
  BY <1>2, <1>3, <1>4, <1>5, <1>6 DEF RecordInv, EnabledByRecord, Sound
<1>8. EnabledByBulk'
  <2>1. primed' <=> pc' = "done"
    BY <1>2 DEF RecordInv, EnabledByBulk
  <2>2. Bulk' \subseteq MatchingNodes'
    BY <1>4, <1>5, <1>6 DEF RecordInv, EnabledByBulk, Sound
  <2>3. ~primed => active' = {}
    BY <1>2, <1>3 DEF RecordInv, EnabledByBulk, Sound
  <2>4. ~primed => CandidateNodes' \subseteq Bulk'
    BY <1>4, <1>5, <1>6 DEF RecordInv, EnabledByBulk, Sound
  <2>5. \A m \in Nodes : nodeNameToNode'[m].isNodeMatch => nodeNameToNode'[m].known
    BY <1>1 DEF RecordInv, EnabledByBulk, Sound
  <2>. QED  BY <1>2, <2>1, <2>2, <2>3, <2>4, <2>5 DEF EnabledByBulk
<1>9. \A m \in Nodes : nodeNameToNode'[m] \in NodeRecord(m)
  BY <1>1 DEF TypeOK, Sound
<1>. QED  BY <1>1, <1>2, <1>3, <1>7, <1>8, <1>9 DEF RecordInv, TypeOK

\* What a step does to the state the controller keeps.
Kept ==
    /\ RecordInv'
    /\ DOMAIN nodeNameToNode' = Nodes
    /\ \A m \in Nodes : nodeNameToNode'[m] \in NodeRecord(m)
    /\ primed' \in BOOLEAN /\ active' \subseteq Nodes

(* A step that leaves the controller alone.                                 *)
LEMMA NothingKept ==
    ASSUME TypeOK, RecordInv, UNCHANGED controllerVars, pc' = pc
    PROVE  Kept
  BY DEF TypeOK, RecordInv, EnabledByRecord, EnabledByBulk, MatchingNodes, CandidateNodes, Bulk,
         controllerVars, Kept

(* What RecordInv says of one node.                                         *)
LEMMA RecordOf ==
    ASSUME TypeOK, RecordInv, NEW n \in Nodes
    PROVE  LET r == nodeNameToNode[n] IN
           /\ r \in NodeRecord(n)
           /\ r.enabled => r.known /\ r.isNodeMatch
           /\ r.isNodeMatch => r.known
           /\ n \in active => primed /\ r.known /\ r.isNodeMatch
           /\ (r.known /\ r.isNodeMatch /\ (PodCriteria => r.matchingPods # {})) =>
                  IF primed THEN n \in active ELSE r.enabled
  BY DEF TypeOK, RecordInv, EnabledByRecord, EnabledByBulk, MatchingNodes, CandidateNodes, Bulk

(* deleteNode keeps the invariant.                                          *)
LEMMA DeleteNodeKept ==
    ASSUME TypeOK, RecordInv, NEW n \in Nodes, deleteNode(n), pc' = pc
    PROVE  Kept
<1>1. Sound(n, Unknown, Disabling(n))
  BY RecordOf DEF Sound, Unknown, Disabling, NodeRecord
<1>. QED  BY <1>1, SoundOutcome DEF deleteNode, Kept

(* MatchPods, on a node the handler has just found to match.                *)
LEMMA MatchPodsKept ==
    ASSUME TypeOK, RecordInv, NEW n \in Nodes, NEW record \in NodeRecord(n),
           record.known, record.isNodeMatch,
           MatchPods(n, record), PodCriteria, pc' = pc
    PROVE  Kept
<1> DEFINE ready == PodsListed(n)
           with  == [record EXCEPT !.matchingPods = ready, !.enabled = TRUE]
           without == [record EXCEPT !.matchingPods = {}]
           nodes == IF \E p \in PodsOn(n) : podStore[p] = "deleting" THEN Disabling(n) ELSE active
<1>1. CASE ready # {}
  <2>1. ready \subseteq PodsOn(n)
    BY DEF PodsListed
  <2>2. /\ with \in NodeRecord(n) /\ with.enabled = TRUE /\ with.matchingPods = ready
        /\ with.known = record.known /\ with.isNodeMatch = record.isNodeMatch
    BY <2>1 DEF NodeRecord
  <2>3. Sound(n, with, Enabling(n))
    BY <2>2, RecordOf DEF Sound, Enabling
  <2>. QED  BY <1>1, <2>3, SoundOutcome DEF MatchPods, Kept
<1>2. CASE ready = {}
  <2>1. /\ without \in NodeRecord(n) /\ without.enabled = record.enabled
        /\ without.matchingPods = {}
        /\ without.known = record.known /\ without.isNodeMatch = record.isNodeMatch
    BY DEF NodeRecord
  <2>2. Sound(n, without, nodes)
    BY <2>1, RecordOf DEF Sound, Disabling
  <2>. QED  BY <1>2, <2>2, SoundOutcome DEF MatchPods, Kept
<1>. QED  BY <1>1, <1>2

(* updateNode keeps the invariant, for any state of the node.               *)
LEMMA UpdateNodeKept ==
    ASSUME TypeOK, RecordInv, NEW n \in Nodes, NEW v \in K8sNode, updateNode(n, v), pc' = pc
    PROVE  Kept
<1> DEFINE old    == nodeNameToNode[n]
           match  == v.state = "match"
           record == [old EXCEPT !.known = TRUE, !.note = v.note, !.isNodeMatch = match]
<1>1. /\ record \in NodeRecord(n) /\ record.known = TRUE /\ record.isNodeMatch = match
      /\ record.matchingPods = old.matchingPods /\ record.enabled = old.enabled
  BY RecordOf DEF NodeRecord, K8sNode
<1>2. CASE v.state = "deleting"
  BY <1>2, DeleteNodeKept DEF updateNode
<1>3. CASE v.state # "deleting" /\ v.state = "bare" /\ ~old.known
  BY <1>3, NothingKept DEF updateNode
<1>4. CASE v.state # "deleting" /\ ~(v.state = "bare" /\ ~old.known)
  <2>1. CASE Unchanged(old, v.note, match)
    <3>1. old.isNodeMatch = match
      BY <2>1 DEF Unchanged
    <3>2. Sound(n, record, active)
      BY <1>1, <3>1, RecordOf DEF Sound
    <3>. QED  BY <1>4, <2>1, <3>2, SoundOutcome DEF updateNode, Kept
  <2>2. CASE ~Unchanged(old, v.note, match) /\ match /\ PodCriteria
    <3>1. MatchPods(n, record)
      BY <1>4, <2>2 DEF updateNode
    <3>. QED  BY <1>1, <2>2, <3>1, MatchPodsKept
  <2>3. CASE ~Unchanged(old, v.note, match) /\ match /\ ~PodCriteria
    <3> DEFINE on == [record EXCEPT !.enabled = TRUE]
    <3>1. /\ on \in NodeRecord(n) /\ on.known = TRUE /\ on.isNodeMatch = match /\ on.enabled = TRUE
      BY <1>1 DEF NodeRecord
    <3>2. Sound(n, on, Enabling(n))
      BY <2>3, <3>1, RecordOf DEF Sound, Enabling
    <3>3. Outcome(n, on, Enabling(n))
      BY <1>4, <2>3 DEF updateNode
    <3>. QED  BY <3>2, <3>3, SoundOutcome DEF Kept
  <2>4. CASE ~Unchanged(old, v.note, match) /\ ~match
    <3> DEFINE off == [record EXCEPT !.enabled = FALSE]
    <3>1. /\ off \in NodeRecord(n) /\ off.isNodeMatch = match /\ off.enabled = FALSE
      BY <1>1 DEF NodeRecord
    <3>2. Sound(n, off, Disabling(n))
      BY <2>4, <3>1, RecordOf DEF Sound, Disabling
    <3>3. Outcome(n, off, Disabling(n))
      BY <1>4, <2>4 DEF updateNode
    <3>. QED  BY <3>2, <3>3, SoundOutcome DEF Kept
  <2>. QED  BY <2>1, <2>2, <2>3, <2>4
<1>. QED  BY <1>2, <1>3, <1>4

(* deletePod keeps the invariant.                                           *)
LEMMA DeletePodKept ==
    ASSUME TypeOK, RecordInv, PodCriteria, NEW p \in Pods, deletePod(p), pc' = pc
    PROVE  Kept
<1> DEFINE n    == Home[p]
           old  == nodeNameToNode[n]
           pods == old.matchingPods \ {p}
           left == [old EXCEPT !.matchingPods = pods]
           nodes == IF pods = {} THEN Disabling(n) ELSE active
<1>1. n \in Nodes
  BY ConstantsAssumption
<1>2. CASE ~old.known
  BY <1>2, NothingKept DEF deletePod
<1>3. CASE old.known
  <2>1. /\ left \in NodeRecord(n) /\ left.known = old.known /\ left.isNodeMatch = old.isNodeMatch
        /\ left.matchingPods = pods /\ left.enabled = old.enabled
    BY <1>1, RecordOf DEF NodeRecord
  <2>2. Sound(n, left, nodes)
    BY <1>1, <2>1, RecordOf DEF Sound, Disabling
  <2>3. Outcome(n, left, nodes)
    BY <1>3 DEF deletePod
  <2>. QED  BY <1>1, <2>2, <2>3, SoundOutcome DEF Kept
<1>. QED  BY <1>2, <1>3

(* updatePod keeps the invariant.                                           *)
LEMMA UpdatePodKept ==
    ASSUME TypeOK, RecordInv, PodCriteria, NEW p \in Pods, NEW v, updatePod(p, v), pc' = pc
    PROVE  Kept
<1> DEFINE n    == Home[p]
           old  == nodeNameToNode[n]
           add  == old.matchingPods \cup {p}
           del  == old.matchingPods \ {p}
           none == v = "pending" \/ ~old.known \/ ~old.isNodeMatch
                   \/ ((v = "ready") = (p \in old.matchingPods))
<1>1. n \in Nodes /\ p \in PodsOn(n)
  BY ConstantsAssumption DEF PodsOn
<1>2. CASE v = "deleting"
  BY <1>2, DeletePodKept DEF updatePod
<1>3. CASE v # "deleting" /\ none
  BY <1>3, NothingKept DEF updatePod
<1>4. CASE v # "deleting" /\ ~none /\ v = "ready" /\ add = {p}
  <2> DEFINE r == [old EXCEPT !.matchingPods = add, !.enabled = TRUE]
  <2>1. /\ r \in NodeRecord(n) /\ r.known = old.known /\ r.isNodeMatch = old.isNodeMatch
        /\ r.matchingPods = add /\ r.enabled = TRUE
    BY <1>1, RecordOf DEF NodeRecord
  <2>2. Sound(n, r, Enabling(n))
    BY <1>1, <1>4, <2>1, RecordOf DEF Sound, Enabling
  <2>3. Outcome(n, r, Enabling(n))
    BY <1>4 DEF updatePod
  <2>. QED  BY <1>1, <2>2, <2>3, SoundOutcome DEF Kept
<1>5. CASE v # "deleting" /\ ~none /\ v = "ready" /\ add # {p}
  <2> DEFINE r == [old EXCEPT !.matchingPods = add]
  <2>1. /\ r \in NodeRecord(n) /\ r.known = old.known /\ r.isNodeMatch = old.isNodeMatch
        /\ r.matchingPods = add /\ r.enabled = old.enabled
    BY <1>1, RecordOf DEF NodeRecord
  <2>2. old.matchingPods # {}
    BY <1>5
  <2>3. Sound(n, r, active)
    BY <1>1, <1>5, <2>1, <2>2, RecordOf DEF Sound
  <2>4. Outcome(n, r, active)
    BY <1>5 DEF updatePod
  <2>. QED  BY <1>1, <2>3, <2>4, SoundOutcome DEF Kept
<1>6. CASE v # "deleting" /\ ~none /\ v # "ready"
  <2> DEFINE r == [old EXCEPT !.matchingPods = del]
             nodes == IF del = {} THEN Disabling(n) ELSE active
  <2>1. /\ r \in NodeRecord(n) /\ r.known = old.known /\ r.isNodeMatch = old.isNodeMatch
        /\ r.matchingPods = del /\ r.enabled = old.enabled
    BY <1>1, RecordOf DEF NodeRecord
  <2>2. Sound(n, r, nodes)
    BY <1>1, <1>6, <2>1, RecordOf DEF Sound, Disabling
  <2>3. Outcome(n, r, nodes)
    BY <1>6 DEF updatePod
  <2>. QED  BY <1>1, <2>2, <2>3, SoundOutcome DEF Kept
<1>. QED  BY <1>2, <1>3, <1>4, <1>5, <1>6
-----------------------------------------------------------------------------
(* The events of a list are events of objects in the store.                 *)
LEMMA ListingType ==
    ASSUME NEW S, IsFiniteSet(S), NEW T \in SUBSET S, NEW V, NEW store \in [S -> V]
    PROVE  /\ Listing(SetToSeq(T), store) \in Seq(S \X V)
           /\ T = {} => Listing(SetToSeq(T), store) = <<>>
<1>1. /\ Cardinality(T) \in Nat
      /\ ExistsBijection(1..Cardinality(T), T)
  BY FS_Subset, FS_CardinalityType
<1>2. PICK f \in [1..Cardinality(T) -> T] : IsInjective(f)
  BY <1>1 DEF ExistsBijection, Bijection, Injection, IsInjective
<1>3. SetToSeq(T) \in [1..Cardinality(T) -> T]
  BY <1>2 DEF SetToSeq
<1>4. Listing(SetToSeq(T), store) \in [1..Cardinality(T) -> S \X V]
  BY <1>3 DEF Listing
<1>5. Listing(SetToSeq(T), store) \in Seq(S \X V)
  BY <1>1, <1>4
<1>6. T = {} => Cardinality(T) = 0
  BY FS_EmptySet
<1>7. T = {} => Listing(SetToSeq(T), store) = <<>>
  BY <1>1, <1>4, <1>5, <1>6
<1>. QED  BY <1>5, <1>7

(* What the informers hold and deliver, and the rest outside the controller.*)
OutsideType ==
    /\ nodeStore \in [Nodes -> K8sNode]
    /\ nodeQueue \in Seq(Nodes \X (K8sNode \cup {Tombstone}))
    /\ podStore \in [Pods -> PodStates]
    /\ podQueue \in Seq(Pods \X (PodStates \cup {"tombstone"}))
    /\ pc \in {"sync", "relist", "done"} /\ relist \subseteq Nodes \X K8sNode
    /\ changes \in Scenarios /\ budget \in Nat
    /\ PodInformer

(* The initial states.                                                      *)
LEMMA InitIInv == Init => IInv
<1> SUFFICES ASSUME Init PROVE IInv
  OBVIOUS
<1>1. /\ nodeStore \in [Nodes -> K8sNode] /\ podStore \in [Pods -> PodStates]
      /\ ~PodCriteria => \A p \in Pods : podStore[p] = "none"
  <2>1. nodeStore \in [Nodes -> K8sNode]
    BY DEF Init
  <2>2. CASE PodCriteria
    BY <2>1, <2>2 DEF Init, PodStates
  <2>3. CASE ~PodCriteria
    BY <2>1, <2>3 DEF Init, PodStates
  <2>. QED  BY <2>2, <2>3
<1>2. nodeQueue \in Seq(Nodes \X (K8sNode \cup {Tombstone}))
  <2> DEFINE S == {n \in Nodes : Exists(n)}
  <2>1. nodeStore \in [Nodes -> K8sNode \cup {Tombstone}] /\ S \in SUBSET Nodes
    BY <1>1
  <2>. QED  BY <2>1, ListingType, ConstantsAssumption DEF Init, NodeListing
<1>3. /\ podQueue \in Seq(Pods \X (PodStates \cup {"tombstone"}))
      /\ ~PodCriteria => podQueue = <<>>
  <2> DEFINE S == {p \in Pods : podStore[p] # "none"}
  <2>1. /\ podStore \in [Pods -> PodStates \cup {"tombstone"}] /\ S \in SUBSET Pods
        /\ ~PodCriteria => S = {}
    BY <1>1
  <2>. QED  BY <2>1, ListingType, ConstantsAssumption DEF Init, PodListing
<1>4. /\ DOMAIN nodeNameToNode = Nodes
      /\ \A n \in Nodes : nodeNameToNode[n] = Unknown /\ nodeNameToNode[n] \in NodeRecord(n)
  BY DEF Init, Unknown, NodeRecord
<1>5. MatchingNodes = {} /\ CandidateNodes = {} /\ Bulk = {}
  BY <1>4 DEF MatchingNodes, CandidateNodes, Bulk, Unknown
<1>6. TypeOK
  BY <1>1, <1>2, <1>3, <1>4, ConstantsAssumption DEF Init, TypeOK
<1>7. EnabledByRecord /\ EnabledByBulk
  BY <1>4, <1>5 DEF Init, EnabledByRecord, EnabledByBulk, Unknown
<1>. QED  BY <1>1, <1>3, <1>6, <1>7 DEF IInv, PodInformer

(* A change of the cluster only touches what the informers hold.            *)
LEMMA ClusterOutside ==
    ASSUME IInv, Cluster
    PROVE  OutsideType' /\ UNCHANGED <<controllerVars, pc>>
<1> USE DEF Change, runVars
<1>1. ASSUME NEW n \in Nodes, NEW v \in K8sNode, NEW e \in K8sNode \cup {Tombstone},
             NodeBecomes(n, v, e), NEW kind, Change(kind)
      PROVE  OutsideType' /\ UNCHANGED <<controllerVars, pc>>
  <2>1. nodeStore' \in [Nodes -> K8sNode]
    BY <1>1 DEF IInv, TypeOK, NodeBecomes
  <2>2. nodeQueue' \in Seq(Nodes \X (K8sNode \cup {Tombstone}))
    BY <1>1 DEF IInv, TypeOK, NodeBecomes
  <2>. QED  BY <1>1, <2>1, <2>2 DEF IInv, TypeOK, OutsideType, NodeBecomes, PodInformer
<1>2. ASSUME NEW p \in Pods, NEW v \in PodStates, NEW e \in PodStates \cup {"tombstone"},
             PodBecomes(p, v, e), PodCriteria, NEW kind, Change(kind)
      PROVE  OutsideType' /\ UNCHANGED <<controllerVars, pc>>
  <2>1. podStore' \in [Pods -> PodStates]
    BY <1>2 DEF IInv, TypeOK, PodBecomes
  <2>2. podQueue' \in Seq(Pods \X (PodStates \cup {"tombstone"}))
    BY <1>2 DEF IInv, TypeOK, PodBecomes
  <2>. QED  BY <1>2, <2>1, <2>2 DEF IInv, TypeOK, OutsideType, PodBecomes, PodInformer
<1>3. ASSUME NEW n \in Nodes, NodeFlips(n) \/ NodeAnnotated(n) \/ NodeComesOrGoes(n)
      PROVE  OutsideType' /\ UNCHANGED <<controllerVars, pc>>
  <2>1. nodeStore[n] \in K8sNode /\ NoObject \in K8sNode
    BY DEF IInv, TypeOK, NoObject, K8sNode, NodeStates
  <2>2. CASE NodeFlips(n)
    <3> DEFINE v == [nodeStore[n] EXCEPT !.state = IF @ = "match" THEN "plain" ELSE "match"]
    <3>1. v \in K8sNode
      BY <2>1 DEF K8sNode, NodeStates
    <3>. QED  BY <1>1, <2>2, <3>1 DEF NodeFlips
  <2>3. CASE NodeAnnotated(n)
    <3> DEFINE v == [nodeStore[n] EXCEPT !.note = ~@]
    <3>1. v \in K8sNode
      BY <2>1 DEF K8sNode
    <3>. QED  BY <1>1, <2>3, <3>1 DEF NodeAnnotated
  <2>4. CASE NodeComesOrGoes(n)
    <3>1. PICK s \in NodeStep(nodeStore[n].state) :
             LET v == IF s = "none" THEN NoObject ELSE [nodeStore[n] EXCEPT !.state = s]
             IN  NodeBecomes(n, v, v)
      BY <2>4 DEF NodeComesOrGoes
    <3> DEFINE v == IF s = "none" THEN NoObject ELSE [nodeStore[n] EXCEPT !.state = s]
    <3>2. s \in NodeStates
      BY DEF NodeStep, NodeStates
    <3>3. v \in K8sNode
      BY <2>1, <3>2 DEF K8sNode
    <3>. QED  BY <1>1, <2>4, <3>1, <3>3 DEF NodeComesOrGoes
  <2>. QED  BY <1>3, <2>2, <2>3, <2>4
<1>4. ASSUME NEW p \in Pods, PodChanges(p)
      PROVE  OutsideType' /\ UNCHANGED <<controllerVars, pc>>
  <2>1. PICK v \in PodStep(podStore[p]) : PodBecomes(p, v, v)
    BY <1>4 DEF PodChanges
  <2>2. v \in PodStates
    BY DEF PodStep, PodStates
  <2>. QED  BY <1>2, <1>4, <2>1, <2>2 DEF PodChanges
<1>5. ASSUME ObjectMissed
      PROVE  OutsideType' /\ UNCHANGED <<controllerVars, pc>>
  <2>1. NoObject \in K8sNode /\ "none" \in PodStates
    BY DEF NoObject, K8sNode, NodeStates, PodStates
  <2>2. ASSUME NEW n \in Nodes, NodeBecomes(n, NoObject, Tombstone)
        PROVE  OutsideType' /\ UNCHANGED <<controllerVars, pc>>
    BY <1>1, <1>5, <2>1, <2>2 DEF ObjectMissed
  <2>3. ASSUME NEW p \in Pods, podStore[p] # "none", PodBecomes(p, "none", "tombstone")
        PROVE  OutsideType' /\ UNCHANGED <<controllerVars, pc>>
    <3>1. PodCriteria
      BY <2>3 DEF IInv, PodInformer
    <3>. QED  BY <1>2, <1>5, <2>1, <2>3, <3>1 DEF ObjectMissed
  <2>. QED  BY <1>5, <2>2, <2>3 DEF ObjectMissed
<1>. QED  BY <1>3, <1>4, <1>5 DEF Cluster

(* OutsideType and Kept are together the invariant.                         *)
LEMMA KeptInv == (OutsideType' /\ Kept) => IInv'
  BY DEF OutsideType, Kept, IInv, TypeOK, RecordInv

(* The three parts of a step: a handler, run(), or the rest.                *)
LEMMA HandlerStep ==
    ASSUME IInv, OnNode \/ OnPod
    PROVE  IInv'
<1> USE DEF runVars
<1>1. TypeOK /\ RecordInv
  BY DEF IInv, RecordInv
<1>2. CASE OnNode
  <2> DEFINE n == Head(nodeQueue)[1]
             v == Head(nodeQueue)[2]
  <2>1. /\ nodeQueue # <<>> /\ nodeQueue \in Seq(Nodes \X (K8sNode \cup {Tombstone}))
        /\ nodeQueue' = Tail(nodeQueue) /\ pc' = pc
    BY <1>1, <1>2 DEF OnNode, TypeOK
  <2>2. n \in Nodes /\ v \in K8sNode \cup {Tombstone}
    BY <2>1
  <2>3. Kept
    <3>1. CASE v = Tombstone
      BY <1>1, <1>2, <2>1, <3>1, NothingKept DEF OnNode
    <3>2. CASE v # Tombstone /\ v.state = "none"
      BY <1>1, <1>2, <2>1, <2>2, <3>2, DeleteNodeKept DEF OnNode
    <3>3. CASE v # Tombstone /\ v.state # "none"
      BY <1>1, <1>2, <2>1, <2>2, <3>3, UpdateNodeKept DEF OnNode
    <3>. QED  BY <3>1, <3>2, <3>3
  <2>4. nodeQueue' \in Seq(Nodes \X (K8sNode \cup {Tombstone}))
    BY <2>1
  <2>5. OutsideType'
    BY <1>2, <2>4 DEF OnNode, IInv, TypeOK, OutsideType, PodInformer
  <2>. QED  BY <2>3, <2>5, KeptInv
<1>3. CASE OnPod
  <2> DEFINE p == Head(podQueue)[1]
             v == Head(podQueue)[2]
  <2>1. /\ podQueue # <<>> /\ podQueue \in Seq(Pods \X (PodStates \cup {"tombstone"}))
        /\ podQueue' = Tail(podQueue) /\ pc' = pc /\ PodCriteria
    BY <1>1, <1>3 DEF OnPod, TypeOK, IInv, PodInformer
  <2>2. p \in Pods
    BY <2>1
  <2>3. Kept
    <3>1. CASE v = "tombstone"
      BY <1>1, <1>3, <2>1, <3>1, NothingKept DEF OnPod
    <3>2. CASE v # "tombstone" /\ v = "none"
      BY <1>1, <1>3, <2>1, <2>2, <3>2, DeletePodKept DEF OnPod
    <3>3. CASE v # "tombstone" /\ v # "none"
      BY <1>1, <1>3, <2>1, <2>2, <3>3, UpdatePodKept DEF OnPod
    <3>. QED  BY <3>1, <3>2, <3>3
  <2>4. podQueue' \in Seq(Pods \X (PodStates \cup {"tombstone"}))
    BY <2>1
  <2>5. OutsideType'
    BY <1>3, <2>1, <2>4 DEF OnPod, IInv, TypeOK, OutsideType, PodInformer
  <2>. QED  BY <2>3, <2>5, KeptInv
<1>. QED  BY <1>2, <1>3

(* run(): the list, the visits without the lock, and the bulk enable.       *)
LEMMA RunStep ==
    ASSUME IInv, RunList \/ RunUpdate \/ RunPrime
    PROVE  IInv'
<1> USE DEF informerVars
<1>1. TypeOK /\ RecordInv
  BY DEF IInv, RecordInv
<1>2. CASE RunList
  <2>1. relist' \subseteq Nodes \X K8sNode
    BY <1>1, <1>2 DEF RunList, TypeOK
  <2>2. OutsideType'
    BY <1>2, <2>1 DEF RunList, IInv, TypeOK, OutsideType, PodInformer
  <2>3. Kept
    BY <1>1, <1>2 DEF RunList, controllerVars, TypeOK, RecordInv, EnabledByRecord, EnabledByBulk,
                      MatchingNodes, CandidateNodes, Bulk, Kept
  <2>. QED  BY <2>2, <2>3, KeptInv
<1>3. CASE RunUpdate
  <2>1. PICK e \in relist : relist' = relist \ {e} /\ updateNode(e[1], e[2])
    BY <1>3 DEF RunUpdate
  <2>2. e[1] \in Nodes /\ e[2] \in K8sNode
    BY <1>1 DEF TypeOK
  <2>3. Kept
    BY <1>1, <1>3, <2>1, <2>2, UpdateNodeKept DEF RunUpdate
  <2>4. OutsideType'
    BY <1>3, <2>1 DEF RunUpdate, IInv, TypeOK, OutsideType, PodInformer
  <2>. QED  BY <2>3, <2>4, KeptInv
<1>4. CASE RunPrime
  <2>1. OutsideType'
    BY <1>4 DEF RunPrime, IInv, TypeOK, OutsideType, PodInformer
  <2>2. MatchingNodes' = MatchingNodes /\ CandidateNodes' = CandidateNodes /\ Bulk' = Bulk
    BY <1>4 DEF RunPrime, MatchingNodes, CandidateNodes, Bulk
  <2>3. ~primed /\ primed' /\ pc' = "done" /\ active' = Bulk
    BY <1>1, <1>4 DEF RunPrime, RecordInv, EnabledByBulk
  <2>4. RecordInv'
    BY <1>1, <1>4, <2>2, <2>3 DEF RunPrime, RecordInv, EnabledByRecord, EnabledByBulk
  <2>5. Kept
    BY <1>1, <1>4, <2>3, <2>4 DEF RunPrime, TypeOK, Bulk, Kept
  <2>. QED  BY <2>1, <2>5, KeptInv
<1>. QED  BY <1>2, <1>3, <1>4

(* A resync only fills the queues.                                          *)
LEMMA ResyncStep ==
    ASSUME IInv, Resync
    PROVE  IInv'
<1> USE DEF runVars
<1>1. TypeOK /\ RecordInv
  BY DEF IInv, RecordInv
<1>2. nodeQueue' \in Seq(Nodes \X (K8sNode \cup {Tombstone}))
  <2> DEFINE S == {n \in Nodes : Exists(n)}
  <2>1. nodeStore \in [Nodes -> K8sNode \cup {Tombstone}] /\ S \in SUBSET Nodes
    BY <1>1 DEF TypeOK
  <2>. QED  BY <2>1, ListingType, ConstantsAssumption DEF Resync, NodeListing
<1>3. /\ podQueue' \in Seq(Pods \X (PodStates \cup {"tombstone"}))
      /\ ~PodCriteria => podQueue' = <<>>
  <2> DEFINE S == {p \in Pods : podStore[p] # "none"}
  <2>1. /\ podStore \in [Pods -> PodStates \cup {"tombstone"}] /\ S \in SUBSET Pods
        /\ ~PodCriteria => S = {}
    BY <1>1 DEF TypeOK, IInv, PodInformer
  <2>. QED  BY <2>1, ListingType, ConstantsAssumption DEF Resync, PodListing
<1>4. OutsideType'
  BY <1>2, <1>3 DEF Resync, IInv, TypeOK, OutsideType, PodInformer
<1>5. Kept
  BY <1>1, NothingKept DEF Resync
<1>. QED  BY <1>4, <1>5, KeptInv

(* IInv is inductive.                                                       *)
THEOREM MatchInductive == Spec => []IInv
<1>1. Init => IInv
  BY InitIInv
<1>2. IInv /\ [Next]_vars => IInv'
  <2> SUFFICES ASSUME IInv, [Next]_vars PROVE IInv'
    OBVIOUS
  <2>1. CASE Controller
    BY <2>1, HandlerStep, RunStep DEF Controller
  <2>2. CASE Cluster
    BY <2>2, ClusterOutside, NothingKept, KeptInv DEF IInv, RecordInv
  <2>3. CASE Resync
    BY <2>3, ResyncStep
  <2>4. CASE UNCHANGED vars
    BY <2>4 DEF vars, informerVars, controllerVars, runVars, IInv, TypeOK, EnabledByRecord,
                EnabledByBulk, PodInformer, MatchingNodes, CandidateNodes, Bulk
  <2>. QED  BY <2>1, <2>2, <2>3, <2>4 DEF Next
<1>. QED  BY <1>1, <1>2, PTL DEF Spec

(* Every value has its type in every reachable state.                       *)
THEOREM MatchTypeCorrect == Spec => []TypeOK
<1>1. IInv => TypeOK
  BY DEF IInv
<1>. QED  BY <1>1, MatchInductive, PTL

(* However the handlers of the two informers and run() interleave, only     *)
(* nodes recorded as matching are enabled, and once the bulk enable is done *)
(* every node recorded as matching, with the pods it needs, is enabled.     *)
THEOREM EnabledFollowsRecord == Spec => []EnabledByRecord
<1>1. IInv => EnabledByRecord
  BY DEF IInv
<1>. QED  BY <1>1, MatchInductive, PTL
-----------------------------------------------------------------------------
(* The enabled nodes are those that meet the criteria.                      *)

\* The node is on its way out; such an event for n is queued after i, not
\* after j.
Goes(v) == v.state \in {"none", "deleting"}
Left(q, n, i, j) == \E k \in DOMAIN q : i < k /\ k <= j /\ q[k][1] = n /\ Goes(q[k][2])

\* The annotation of a node is the same in its record, in every event and in
\* the store, unless the node goes in between.
NotesAgree ==
    /\ \A i, j \in DOMAIN nodeQueue :
         i < j /\ nodeQueue[i][1] = nodeQueue[j][1] /\ nodeQueue[i][2].note # nodeQueue[j][2].note =>
            Left(nodeQueue, nodeQueue[i][1], i, j)
    /\ \A i \in DOMAIN nodeQueue :
         nodeQueue[i][2].note # nodeStore[nodeQueue[i][1]].note =>
            Left(nodeQueue, nodeQueue[i][1], i, Len(nodeQueue))
    /\ \A n \in Nodes : nodeNameToNode[n].isNodeMatch =>
         /\ \A j \in DOMAIN nodeQueue :
              nodeQueue[j][1] = n /\ nodeNameToNode[n].note # nodeQueue[j][2].note => Left(nodeQueue, n, 0, j)
         /\ nodeNameToNode[n].note # nodeStore[n].note => Left(nodeQueue, n, 0, Len(nodeQueue))

\* After i there is nothing in the queue that changes what is known of p.
Silent(q, p, i) == \A j \in DOMAIN q : i < j /\ q[j][1] = p => q[j][2] = "pending"

\* The last event of a pod tells its state, which a matching node's record
\* has once there is none left.
PodsAgree == PodCriteria =>
    /\ \A i \in DOMAIN podQueue : Silent(podQueue, podQueue[i][1], i) =>
         (podQueue[i][2] = "ready" <=> podStore[podQueue[i][1]] = "ready")
    /\ \A p \in Pods : nodeNameToNode[Home[p]].isNodeMatch /\ Silent(podQueue, p, 0) =>
         (p \in nodeNameToNode[Home[p]].matchingPods <=> podStore[p] = "ready")

\* Until the bulk enable only labels change, so all agree with the store.
BeforeBulk ==
    /\ \A i \in DOMAIN nodeQueue : nodeQueue[i][2].note = nodeStore[nodeQueue[i][1]].note
    /\ \A e \in relist : e[2].note = nodeStore[e[1]].note
    /\ \A n \in Nodes : nodeNameToNode[n].isNodeMatch => nodeNameToNode[n].note = nodeStore[n].note
    /\ \A i \in DOMAIN podQueue : podQueue[i][2] = podStore[podQueue[i][1]]
    /\ PodCriteria => \A n \in Nodes :
         /\ nodeNameToNode[n].isNodeMatch => nodeNameToNode[n].matchingPods = PodsListed(n)
         /\ nodeNameToNode[n].enabled => PodsListed(n) # {}

NothingMissed ==
    /\ \A i \in DOMAIN nodeQueue : nodeQueue[i][2] # Tombstone
    /\ \A i \in DOMAIN podQueue : podQueue[i][2] # "tombstone"

\* A node is not kept enabled without pods.
EnabledHavePods == PodCriteria => \A n \in active : nodeNameToNode[n].matchingPods # {}

InSync == NotesAgree /\ PodsAgree /\ (~primed => BeforeBulk) /\ NothingMissed /\ EnabledHavePods

(* What updateNode makes of a node.                                         *)
NodeEffect(n, v) ==
    LET old == nodeNameToNode[n]
        new == nodeNameToNode'[n]
    IN
    /\ \A m \in Nodes : m # n => nodeNameToNode'[m] = nodeNameToNode[m] /\ (m \in active' <=> m \in active)
    /\ primed' = primed
    /\ new.isNodeMatch => new.note = v.note /\ v.state = "match"
    /\ PodCriteria =>
         /\ new.isNodeMatch => new.matchingPods = PodsListed(n) \/ (old.isNodeMatch /\ new.matchingPods = old.matchingPods)
         /\ new.enabled => old.enabled \/ PodsListed(n) # {}
         /\ n \in active' => \/ new.matchingPods # {}
                             \/ n \in active /\ new.matchingPods = old.matchingPods
                             \/ n \in active /\ old.isNodeMatch /\ old.note # v.note

(* A handler's outcome for n leaves the other nodes alone.                  *)
LEMMA OutcomeEffect ==
    ASSUME TypeOK, NEW n \in Nodes, NEW record, NEW nodes, nodes \in {active, active \cup {n}, active \ {n}},
           Outcome(n, record, nodes)
    PROVE  /\ \A m \in Nodes : m # n => nodeNameToNode'[m] = nodeNameToNode[m] /\ (m \in active' <=> m \in active)
           /\ nodeNameToNode'[n] = record /\ active' = nodes /\ primed' = primed
  BY DEF TypeOK, Outcome

(* deleteNode forgets the node.                                             *)
LEMMA DeleteNodeEffect ==
    ASSUME IInv, NEW n \in Nodes, NEW v, deleteNode(n)
    PROVE  NodeEffect(n, v)
<1>1. Outcome(n, Unknown, Disabling(n))
  BY DEF deleteNode
<1>2. Unknown.isNodeMatch = FALSE /\ Unknown.enabled = FALSE
  BY DEF Unknown
<1>3. Disabling(n) \in {active, active \cup {n}, active \ {n}} /\ n \notin Disabling(n)
  BY DEF Disabling
<1>4. TypeOK
  BY DEF IInv
<1> QED
  BY <1>1, <1>2, <1>3, <1>4, OutcomeEffect DEF NodeEffect

(* updateNode.                                                              *)
LEMMA UpdateNodeEffect ==
    ASSUME IInv, NEW n \in Nodes, NEW v \in K8sNode, updateNode(n, v)
    PROVE  NodeEffect(n, v)
<1> DEFINE old    == nodeNameToNode[n]
           match  == v.state = "match"
           record == [old EXCEPT !.known = TRUE, !.note = v.note, !.isNodeMatch = match]
<1>1. TypeOK /\ RecordInv
  BY DEF IInv, RecordInv
<1>2. /\ record \in NodeRecord(n) /\ record.known = TRUE /\ record.isNodeMatch = match /\ record.note = v.note
      /\ record.matchingPods = old.matchingPods /\ record.enabled = old.enabled
  BY <1>1, RecordOf DEF NodeRecord, K8sNode
<1>3. n \in active => old.isNodeMatch
  BY <1>1, RecordOf
<1>4. old.isNodeMatch => old.known
  BY <1>1, RecordOf
<1>5. CASE v.state = "deleting"
  BY <1>5, DeleteNodeEffect DEF updateNode
<1>6. CASE v.state = "bare" /\ ~old.known
  <2>1. UNCHANGED controllerVars
    BY <1>6 DEF updateNode
  <2> QED
    BY <1>4, <1>6, <2>1 DEF NodeEffect, controllerVars
<1>7. CASE v.state # "deleting" /\ ~(v.state = "bare" /\ ~old.known)
  <2>1. CASE Unchanged(old, v.note, match)
    <3>1. Outcome(n, record, active)
      BY <1>7, <2>1 DEF updateNode
    <3>2. old.isNodeMatch = match
      BY <2>1 DEF Unchanged
    <3> QED
      BY <1>1, <1>2, <3>1, <3>2, OutcomeEffect DEF NodeEffect
  <2>2. CASE ~Unchanged(old, v.note, match) /\ match /\ PodCriteria
    <3>1. MatchPods(n, record)
      BY <1>7, <2>2 DEF updateNode
    <3>2. old.isNodeMatch => old.note # v.note
      <4>1. old.isNodeMatch \in BOOLEAN
        BY <1>1, RecordOf DEF NodeRecord
      <4> QED
        BY <2>2, <4>1 DEF Unchanged
    <3>3. CASE PodsListed(n) # {}
      <4> DEFINE with == [record EXCEPT !.matchingPods = PodsListed(n), !.enabled = TRUE]
      <4>1. Outcome(n, with, Enabling(n))
        BY <3>1, <3>3 DEF MatchPods
      <4>2. with.matchingPods = PodsListed(n) /\ with.note = v.note /\ with.isNodeMatch = match
        BY <1>2 DEF NodeRecord
      <4>3. Enabling(n) \in {active, active \cup {n}, active \ {n}}
        BY DEF Enabling
      <4>4. /\ \A m \in Nodes : m # n => nodeNameToNode'[m] = nodeNameToNode[m] /\ (m \in active' <=> m \in active)
            /\ nodeNameToNode'[n] = with /\ active' = Enabling(n) /\ primed' = primed
          BY <1>1, <4>1, <4>3, OutcomeEffect
      <4> QED
        BY <2>2, <3>3, <4>2, <4>4 DEF NodeEffect
    <3>4. CASE PodsListed(n) = {}
      <4> DEFINE without == [record EXCEPT !.matchingPods = {}]
                 nodes == IF \E p \in PodsOn(n) : podStore[p] = "deleting" THEN Disabling(n) ELSE active
      <4>1. Outcome(n, without, nodes)
        BY <3>1, <3>4 DEF MatchPods
      <4>2. without.matchingPods = {} /\ without.note = v.note /\ without.isNodeMatch = match /\ without.enabled = old.enabled
        BY <1>2 DEF NodeRecord
      <4>3. nodes \in {active, active \cup {n}, active \ {n}} /\ (n \in nodes => n \in active)
        BY DEF Disabling
      <4>4. /\ \A m \in Nodes : m # n => nodeNameToNode'[m] = nodeNameToNode[m] /\ (m \in active' <=> m \in active)
            /\ nodeNameToNode'[n] = without /\ active' = nodes /\ primed' = primed
          BY <1>1, <4>1, <4>3, OutcomeEffect
      <4> QED
        BY <1>3, <2>2, <3>2, <3>4, <4>2, <4>3, <4>4 DEF NodeEffect
    <3> QED
      BY <3>3, <3>4
  <2>3. CASE ~Unchanged(old, v.note, match) /\ match /\ ~PodCriteria
    <3> DEFINE on == [record EXCEPT !.enabled = TRUE]
    <3>1. Outcome(n, on, Enabling(n))
      BY <1>7, <2>3 DEF updateNode
    <3>2. on.note = v.note /\ on.isNodeMatch = match
      BY <1>2 DEF NodeRecord
    <3>3. Enabling(n) \in {active, active \cup {n}, active \ {n}}
      BY DEF Enabling
    <3>4. /\ \A m \in Nodes : m # n => nodeNameToNode'[m] = nodeNameToNode[m] /\ (m \in active' <=> m \in active)
          /\ nodeNameToNode'[n] = on /\ active' = Enabling(n) /\ primed' = primed
        BY <1>1, <3>1, <3>3, OutcomeEffect
    <3> QED
      BY <2>3, <3>2, <3>4 DEF NodeEffect
  <2>4. CASE ~Unchanged(old, v.note, match) /\ ~match
    <3> DEFINE off == [record EXCEPT !.enabled = FALSE]
    <3>1. Outcome(n, off, Disabling(n))
      BY <1>7, <2>4 DEF updateNode
    <3>2. off.isNodeMatch = FALSE /\ off.enabled = FALSE
      BY <1>2, <2>4 DEF NodeRecord
    <3>3. Disabling(n) \in {active, active \cup {n}, active \ {n}} /\ n \notin Disabling(n)
      BY DEF Disabling
    <3>4. /\ \A m \in Nodes : m # n => nodeNameToNode'[m] = nodeNameToNode[m] /\ (m \in active' <=> m \in active)
          /\ nodeNameToNode'[n] = off /\ active' = Disabling(n) /\ primed' = primed
        BY <1>1, <3>1, <3>3, OutcomeEffect
    <3> QED
      BY <3>2, <3>3, <3>4 DEF NodeEffect
  <2> QED
    BY <2>1, <2>2, <2>3, <2>4
<1> QED
  BY <1>5, <1>6, <1>7

(* What a pod's event makes of its node.                                    *)
PodEffect(p, v) ==
    LET n   == Home[p]
        old == nodeNameToNode[n]
        new == nodeNameToNode'[n]
    IN
    /\ \A m \in Nodes : m # n => nodeNameToNode'[m] = nodeNameToNode[m] /\ (m \in active' <=> m \in active)
    /\ primed' = primed /\ new.isNodeMatch = old.isNodeMatch /\ new.note = old.note
    /\ \A q \in Pods : q # p => (q \in new.matchingPods <=> q \in old.matchingPods)
    /\ old.isNodeMatch => (p \in new.matchingPods <=> v = "ready" \/ (v = "pending" /\ p \in old.matchingPods))
    /\ new.enabled => old.enabled \/ v = "ready"
    /\ n \in active' => \/ new.matchingPods # {}
                        \/ n \in active /\ new.matchingPods = old.matchingPods

(* deletePod.                                                               *)
LEMMA DeletePodEffect ==
    ASSUME IInv, NEW p \in Pods, NEW v, v \notin {"ready", "pending"}, deletePod(p)
    PROVE  PodEffect(p, v)
<1> DEFINE n    == Home[p]
           old  == nodeNameToNode[n]
           pods == old.matchingPods \ {p}
           left == [old EXCEPT !.matchingPods = pods]
           nodes == IF pods = {} THEN Disabling(n) ELSE active
<1>1. n \in Nodes /\ TypeOK /\ RecordInv
  BY ConstantsAssumption DEF IInv, RecordInv
<1>2. CASE ~old.known
  <2>1. UNCHANGED controllerVars
    BY <1>2 DEF deletePod
  <2>2. ~old.isNodeMatch
    BY <1>1, <1>2, RecordOf
  <2> QED
    BY <2>1, <2>2 DEF PodEffect, controllerVars
<1>3. CASE old.known
  <2>1. Outcome(n, left, nodes)
    BY <1>3 DEF deletePod
  <2>2. /\ left.isNodeMatch = old.isNodeMatch /\ left.note = old.note /\ left.enabled = old.enabled
        /\ left.matchingPods = pods
    BY <1>1, RecordOf DEF NodeRecord
  <2>3. nodes \in {active, active \cup {n}, active \ {n}} /\ (n \in nodes => pods # {})
    BY DEF Disabling
  <2>4. /\ \A m \in Nodes : m # n => nodeNameToNode'[m] = nodeNameToNode[m] /\ (m \in active' <=> m \in active)
        /\ nodeNameToNode'[n] = left /\ active' = nodes /\ primed' = primed
    BY <1>1, <2>1, <2>3, OutcomeEffect
  <2> QED
    BY <2>2, <2>3, <2>4 DEF PodEffect
<1> QED
  BY <1>2, <1>3

(* updatePod.                                                               *)
LEMMA UpdatePodEffect ==
    ASSUME IInv, NEW p \in Pods, NEW v, updatePod(p, v)
    PROVE  PodEffect(p, v)
<1> DEFINE n    == Home[p]
           old  == nodeNameToNode[n]
           add  == old.matchingPods \cup {p}
           del  == old.matchingPods \ {p}
           none == v = "pending" \/ ~old.known \/ ~old.isNodeMatch
                   \/ ((v = "ready") = (p \in old.matchingPods))
<1>1. n \in Nodes /\ TypeOK /\ RecordInv
  BY ConstantsAssumption DEF IInv, RecordInv
<1>2. old \in NodeRecord(n) /\ (old.isNodeMatch => old.known)
  BY <1>1, RecordOf
<1>3. CASE v = "deleting"
  BY <1>3, DeletePodEffect DEF updatePod
<1>4. CASE v # "deleting" /\ none
  <2>1. UNCHANGED controllerVars
    BY <1>4 DEF updatePod
  <2>2. old.isNodeMatch => v = "pending" \/ (v = "ready" <=> p \in old.matchingPods)
    BY <1>2, <1>4
  <2> QED
    BY <2>1, <2>2 DEF PodEffect, controllerVars
<1>5. CASE v # "deleting" /\ ~none /\ v = "ready"
  <2> DEFINE r == [old EXCEPT !.matchingPods = add, !.enabled = TRUE]
             s == [old EXCEPT !.matchingPods = add]
  <2>1. /\ r.isNodeMatch = old.isNodeMatch /\ r.note = old.note /\ r.matchingPods = add
        /\ s.isNodeMatch = old.isNodeMatch /\ s.note = old.note /\ s.matchingPods = add /\ s.enabled = old.enabled
    BY <1>2 DEF NodeRecord
  <2>2. Enabling(n) \in {active, active \cup {n}, active \ {n}}
    BY DEF Enabling
  <2>3. Outcome(n, r, Enabling(n)) \/ Outcome(n, s, active)
    BY <1>5 DEF updatePod
  <2>4. /\ \A m \in Nodes : m # n => nodeNameToNode'[m] = nodeNameToNode[m] /\ (m \in active' <=> m \in active)
        /\ nodeNameToNode'[n] \in {r, s} /\ primed' = primed
    <3> HIDE DEF r, s
    <3>1. CASE Outcome(n, r, Enabling(n))
      BY <1>1, <2>2, <3>1, OutcomeEffect
    <3>2. CASE Outcome(n, s, active)
      BY <1>1, <3>2, OutcomeEffect
    <3> QED
      BY <2>3, <3>1, <3>2
  <2> QED
    BY <1>5, <2>1, <2>4 DEF PodEffect
<1>6. CASE v # "deleting" /\ ~none /\ v # "ready"
  <2> DEFINE r == [old EXCEPT !.matchingPods = del]
             nodes == IF del = {} THEN Disabling(n) ELSE active
  <2>1. /\ r.isNodeMatch = old.isNodeMatch /\ r.note = old.note /\ r.matchingPods = del /\ r.enabled = old.enabled
    BY <1>2 DEF NodeRecord
  <2>2. nodes \in {active, active \cup {n}, active \ {n}} /\ (n \in nodes => del # {})
    BY DEF Disabling
  <2>3. Outcome(n, r, nodes)
    BY <1>6 DEF updatePod
  <2>4. /\ \A m \in Nodes : m # n => nodeNameToNode'[m] = nodeNameToNode[m] /\ (m \in active' <=> m \in active)
        /\ nodeNameToNode'[n] = r /\ active' = nodes /\ primed' = primed
    BY <1>1, <2>2, <2>3, OutcomeEffect
  <2>5. v # "pending"
    BY <1>6
  <2> QED
    BY <1>6, <2>1, <2>2, <2>4, <2>5 DEF PodEffect
<1> QED
  BY <1>3, <1>4, <1>5, <1>6

(* Taking the first event off a queue moves the others up.                  *)
LEMMA TailIndex ==
    ASSUME NEW S, NEW q \in Seq(S), q # <<>>
    PROVE  /\ 1 \in DOMAIN q /\ Head(q) = q[1] /\ Len(Tail(q)) + 1 = Len(q)
           /\ \A i \in DOMAIN Tail(q) : i \in Nat /\ i > 0 /\ i + 1 \in DOMAIN q /\ Tail(q)[i] = q[i + 1]
           /\ \A i \in DOMAIN q : i > 1 => i - 1 \in DOMAIN Tail(q) /\ Tail(q)[i - 1] = q[i]
<1>1. Len(q) \in Nat /\ Len(q) # 0 /\ DOMAIN q = 1 .. Len(q)
  OBVIOUS
<1>2. Tail(q) \in Seq(S) /\ Len(Tail(q)) = Len(q) - 1 /\ DOMAIN Tail(q) = 1 .. Len(q) - 1
  BY <1>1
<1>3. \A i \in 1 .. Len(q) - 1 : Tail(q)[i] = q[i + 1]
  BY <1>1
<1> QED
  BY <1>1, <1>2, <1>3

(* An event after i still is one when the queue has moved up.               *)
LEMMA LeftTail ==
    ASSUME NEW S, NEW q \in Seq(S), q # <<>>, NEW n, NEW i \in Nat, NEW j \in Nat, Left(q, n, i + 1, j + 1)
    PROVE  Left(Tail(q), n, i, j)
<1>1. PICK k \in DOMAIN q : i + 1 < k /\ k <= j + 1 /\ q[k][1] = n /\ Goes(q[k][2])
  BY DEF Left
<1>2. k \in Nat /\ k > 1
  <2>1. DOMAIN q = 1 .. Len(q) /\ Len(q) \in Nat
    OBVIOUS
  <2> QED
    BY <1>1, <2>1
<1>3. k - 1 \in DOMAIN Tail(q) /\ Tail(q)[k - 1] = q[k]
  BY <1>2, TailIndex
<1>4. i < k - 1 /\ k - 1 <= j
  BY <1>1, <1>2
<1> QED
  BY <1>1, <1>3, <1>4 DEF Left

(* An event stays queued when another is appended.                          *)
LEMMA AppendIndex ==
    ASSUME NEW S, NEW q \in Seq(S), NEW e \in S
    PROVE  /\ Len(q) \in Nat /\ Len(Append(q, e)) = Len(q) + 1 /\ DOMAIN q = 1 .. Len(q)
           /\ DOMAIN Append(q, e) = DOMAIN q \cup {Len(q) + 1}
           /\ \A i \in DOMAIN q : i \in Nat /\ i <= Len(q) /\ i > 0 /\ Append(q, e)[i] = q[i]
           /\ Append(q, e)[Len(q) + 1] = e
<1>1. Len(q) \in Nat /\ DOMAIN q = 1 .. Len(q)
  OBVIOUS
<1>2. Append(q, e) \in Seq(S) /\ Len(Append(q, e)) = Len(q) + 1
  OBVIOUS
<1>3. DOMAIN Append(q, e) = 1 .. Len(q) + 1
  BY <1>1, <1>2
<1>4. \A i \in 1 .. Len(q) : Append(q, e)[i] = q[i]
  BY <1>1
<1>5. Append(q, e)[Len(q) + 1] = e
  BY <1>1
<1> QED
  BY <1>1, <1>2, <1>3, <1>4, <1>5

(* As LeftTail, for a longer queue.                                         *)
LEMMA LeftAppend ==
    ASSUME NEW S, NEW q \in Seq(S), NEW e \in S, NEW n, NEW i, NEW j, NEW m \in Nat, j \in Nat, j <= m,
           Left(q, n, i, j)
    PROVE  Left(Append(q, e), n, i, m)
<1>1. PICK k \in DOMAIN q : i < k /\ k <= j /\ q[k][1] = n /\ Goes(q[k][2])
  BY DEF Left
<1>2. k \in DOMAIN Append(q, e) /\ Append(q, e)[k] = q[k] /\ k \in Nat
  BY AppendIndex
<1>3. k <= m
  BY <1>1, <1>2
<1> QED
  BY <1>1, <1>2, <1>3 DEF Left

(* What all steps that take a node's event off the queue keep.              *)
LEMMA NotesTail ==
    ASSUME TypeOK, NotesAgree, NothingMissed, nodeQueue # <<>>, nodeQueue' = Tail(nodeQueue), UNCHANGED nodeStore,
           \A m \in Nodes : m # nodeQueue[1][1] => nodeNameToNode'[m] = nodeNameToNode[m],
           nodeNameToNode'[nodeQueue[1][1]].isNodeMatch =>
              nodeNameToNode'[nodeQueue[1][1]].note = nodeQueue[1][2].note
    PROVE  NotesAgree'
<1> DEFINE q == nodeQueue
           n == q[1][1]
           V == Nodes \X (K8sNode \cup {Tombstone})
<1>1. q \in Seq(V) /\ q # <<>> /\ nodeQueue' = Tail(q)
  BY DEF TypeOK
<1>2. /\ 1 \in DOMAIN q /\ Len(Tail(q)) + 1 = Len(q) /\ Len(q) \in Nat /\ Len(Tail(q)) \in Nat
      /\ \A i \in DOMAIN Tail(q) : i \in Nat /\ i > 0 /\ i + 1 \in DOMAIN q /\ Tail(q)[i] = q[i + 1]
  BY <1>1, TailIndex
<1>3. \A m : \A i, j \in Nat : Left(q, m, i + 1, j + 1) => Left(Tail(q), m, i, j)
  BY <1>1, LeftTail
<1>4. ASSUME NEW m \in Nodes, m # n, NEW j \in Nat, Left(q, m, 0, j + 1) PROVE Left(Tail(q), m, 0, j)
  <2>1. PICK k \in DOMAIN q : 0 < k /\ k <= j + 1 /\ q[k][1] = m /\ Goes(q[k][2])
    BY <1>4 DEF Left
  <2>2. k \in Nat /\ k # 1
    <3>1. DOMAIN q = 1 .. Len(q) /\ Len(q) \in Nat
      BY <1>1
    <3> QED
      BY <1>4, <2>1, <3>1
  <2>3. Left(q, m, 0 + 1, j + 1)
    BY <2>1, <2>2 DEF Left
  <2> QED
    BY <1>3, <2>3
<1> HIDE DEF q, V
<1>5. ASSUME NEW i \in DOMAIN Tail(q), NEW j \in DOMAIN Tail(q), i < j, Tail(q)[i][1] = Tail(q)[j][1],
             Tail(q)[i][2].note # Tail(q)[j][2].note
      PROVE  Left(Tail(q), Tail(q)[i][1], i, j)
  <2>1. Left(q, q[i + 1][1], i + 1, j + 1)
    BY <1>2, <1>5 DEF NotesAgree, q
  <2> QED
    BY <1>2, <1>3, <1>5, <2>1
<1>6. ASSUME NEW i \in DOMAIN Tail(q), Tail(q)[i][2].note # nodeStore[Tail(q)[i][1]].note
      PROVE  Left(Tail(q), Tail(q)[i][1], i, Len(Tail(q)))
  <2>1. Left(q, q[i + 1][1], i + 1, Len(Tail(q)) + 1)
    BY <1>2, <1>6 DEF NotesAgree, q
  <2> QED
    BY <1>2, <1>3, <1>6, <2>1
<1>7. ASSUME NEW m \in Nodes, nodeNameToNode'[m].isNodeMatch, NEW j \in DOMAIN Tail(q), Tail(q)[j][1] = m,
             nodeNameToNode'[m].note # Tail(q)[j][2].note
      PROVE  Left(Tail(q), m, 0, j)
  <2>1. CASE m # n
    <3>1. Left(q, m, 0, j + 1)
      BY <1>2, <1>7, <2>1 DEF NotesAgree, q
    <3> QED
      BY <1>2, <1>4, <2>1, <3>1
  <2>2. CASE m = n
    <3>1. q[1][2].note # q[j + 1][2].note
      BY <1>2, <1>7, <2>2 DEF q
    <3>2. Left(q, m, 0 + 1, j + 1)
      BY <1>2, <1>7, <2>2, <3>1 DEF NotesAgree, q
    <3> QED
      BY <1>2, <1>3, <3>2
  <2> QED
    BY <2>1, <2>2
<1>8. ASSUME NEW m \in Nodes, nodeNameToNode'[m].isNodeMatch, nodeNameToNode'[m].note # nodeStore[m].note
      PROVE  Left(Tail(q), m, 0, Len(Tail(q)))
  <2>1. CASE m # n
    <3>1. Left(q, m, 0, Len(Tail(q)) + 1)
      BY <1>2, <1>8, <2>1 DEF NotesAgree, q
    <3> QED
      BY <1>2, <1>4, <2>1, <3>1
  <2>2. CASE m = n
    <3>1. q[1][2].note # nodeStore[q[1][1]].note
      BY <1>8, <2>2 DEF q
    <3>2. Left(q, m, 0 + 1, Len(Tail(q)) + 1)
      BY <1>2, <2>2, <3>1 DEF NotesAgree, q
    <3> QED
      BY <1>2, <1>3, <3>2
  <2> QED
    BY <2>1, <2>2
<1> QED
  BY <1>1, <1>5, <1>6, <1>7, <1>8 DEF NotesAgree

(* A change of a node, which keeps its annotation or removes it.            *)
LEMMA NotesAppend ==
    ASSUME TypeOK, NotesAgree, NEW n \in Nodes, NEW v \in K8sNode, v.note = nodeStore[n].note \/ Goes(v),
           NodeBecomes(n, v, v), UNCHANGED nodeNameToNode
    PROVE  NotesAgree'
<1> DEFINE q == nodeQueue
           e == <<n, v>>
           V == Nodes \X (K8sNode \cup {Tombstone})
           l == Len(q) + 1
<1>1. q \in Seq(V) /\ e \in V /\ nodeQueue' = Append(q, e) /\ nodeStore' = [nodeStore EXCEPT ![n] = v]
  BY DEF TypeOK, NodeBecomes
<1>2. /\ Len(q) \in Nat /\ Len(Append(q, e)) = l /\ DOMAIN Append(q, e) = DOMAIN q \cup {l}
      /\ \A i \in DOMAIN q : i \in Nat /\ i <= Len(q) /\ i > 0 /\ Append(q, e)[i] = q[i]
      /\ Append(q, e)[l] = e
  BY <1>1, AppendIndex
<1>3. \A m, i : \A j, k \in Nat : j <= k /\ Left(q, m, i, j) => Left(Append(q, e), m, i, k)
  BY <1>1, LeftAppend
<1>4. \A m \in Nodes : nodeStore'[m] = IF m = n THEN v ELSE nodeStore[m]
  BY <1>1 DEF TypeOK
<1>5. e[1] = n /\ e[2] = v /\ l \in Nat /\ Len(q) <= l /\ \A i \in DOMAIN q : i < l /\ q[i][1] \in Nodes
  BY <1>1, <1>2
<1>6. Goes(v) => \A i \in DOMAIN q \cup {0} : Left(Append(q, e), n, i, l)
  BY <1>2, <1>5 DEF Left
<1> HIDE DEF q, e, V, l
<1>7. ASSUME NEW i \in DOMAIN q, q[i][1] = n, q[i][2].note # v.note PROVE Left(Append(q, e), n, i, l)
  <2>1. CASE Goes(v)
    BY <1>6, <2>1
  <2>2. CASE ~Goes(v)
    <3>1. Left(q, n, i, Len(q))
      BY <1>7, <2>2 DEF NotesAgree, q
    <3> QED
      BY <1>2, <1>3, <1>5, <3>1
  <2> QED
    BY <2>1, <2>2
<1>8. ASSUME nodeNameToNode[n].isNodeMatch, nodeNameToNode[n].note # v.note PROVE Left(Append(q, e), n, 0, l)
  <2>1. CASE Goes(v)
    BY <1>6, <2>1
  <2>2. CASE ~Goes(v)
    <3>1. Left(q, n, 0, Len(q))
      BY <1>8, <2>2 DEF NotesAgree, q
    <3> QED
      BY <1>2, <1>3, <1>5, <3>1
  <2> QED
    BY <2>1, <2>2
<1>9. ASSUME NEW i \in DOMAIN Append(q, e), NEW j \in DOMAIN Append(q, e), i < j,
             Append(q, e)[i][1] = Append(q, e)[j][1], Append(q, e)[i][2].note # Append(q, e)[j][2].note
      PROVE  Left(Append(q, e), Append(q, e)[i][1], i, j)
  <2>1. i \in DOMAIN q
    BY <1>2, <1>5, <1>9
  <2>2. CASE j \in DOMAIN q
    <3>1. Left(q, q[i][1], i, j) /\ j \in Nat
      BY <1>2, <1>9, <2>1, <2>2 DEF NotesAgree, q
    <3> QED
      BY <1>2, <1>3, <2>1, <3>1
  <2>3. CASE j = l
    BY <1>2, <1>5, <1>7, <1>9, <2>1, <2>3
  <2> QED
    BY <1>2, <2>2, <2>3
<1>10. ASSUME NEW i \in DOMAIN Append(q, e), Append(q, e)[i][2].note # nodeStore'[Append(q, e)[i][1]].note
       PROVE  Left(Append(q, e), Append(q, e)[i][1], i, l)
  <2>1. i \in DOMAIN q
    BY <1>2, <1>4, <1>5, <1>10
  <2>2. CASE q[i][1] = n
    BY <1>2, <1>4, <1>7, <1>10, <2>1, <2>2
  <2>3. CASE q[i][1] # n
    <3>1. Left(q, q[i][1], i, Len(q))
      BY <1>2, <1>4, <1>5, <1>10, <2>1, <2>3 DEF NotesAgree, q
    <3> QED
      BY <1>2, <1>3, <1>5, <2>1, <3>1
  <2> QED
    BY <2>2, <2>3
<1>11. ASSUME NEW m \in Nodes, nodeNameToNode[m].isNodeMatch
       PROVE  /\ \A j \in DOMAIN Append(q, e) :
                   Append(q, e)[j][1] = m /\ nodeNameToNode[m].note # Append(q, e)[j][2].note =>
                      Left(Append(q, e), m, 0, j)
              /\ nodeNameToNode[m].note # nodeStore'[m].note => Left(Append(q, e), m, 0, l)
  <2>1. ASSUME NEW j \in DOMAIN Append(q, e), Append(q, e)[j][1] = m,
               nodeNameToNode[m].note # Append(q, e)[j][2].note
        PROVE  Left(Append(q, e), m, 0, j)
    <3>1. CASE j \in DOMAIN q
      <4>1. Left(q, m, 0, j) /\ j \in Nat
        BY <1>2, <1>11, <2>1, <3>1 DEF NotesAgree, q
      <4> QED
        BY <1>3, <4>1
    <3>2. CASE j = l
      BY <1>2, <1>5, <1>8, <1>11, <2>1, <3>2
    <3> QED
      BY <1>2, <3>1, <3>2
  <2>2. ASSUME nodeNameToNode[m].note # nodeStore'[m].note PROVE Left(Append(q, e), m, 0, l)
    <3>1. CASE m = n
      BY <1>4, <1>8, <1>11, <2>2, <3>1
    <3>2. CASE m # n
      <4>1. Left(q, m, 0, Len(q))
        BY <1>4, <1>11, <2>2, <3>2 DEF NotesAgree, q
      <4> QED
        BY <1>2, <1>3, <1>5, <4>1
    <3> QED
      BY <3>1, <3>2
  <2> QED
    BY <2>1, <2>2
<1> QED
  BY <1>1, <1>2, <1>9, <1>10, <1>11 DEF NotesAgree
(* Nothing is said of notes by a step that leaves the matching ones alone.  *)
LEMMA NotesKept ==
    ASSUME NotesAgree, UNCHANGED <<nodeQueue, nodeStore>>,
           \A n \in Nodes : nodeNameToNode'[n].isNodeMatch =>
              nodeNameToNode[n].isNodeMatch /\ nodeNameToNode'[n].note = nodeNameToNode[n].note
    PROVE  NotesAgree'
  BY DEF NotesAgree

(* Before the bulk enable every annotation is the store's.                  *)
LEMMA BulkNotes ==
    ASSUME TypeOK', BeforeBulk'
    PROVE  NotesAgree'
<1>1. \A i \in DOMAIN nodeQueue' : nodeQueue'[i] \in Nodes \X (K8sNode \cup {Tombstone})
  <2>1. nodeQueue' \in Seq(Nodes \X (K8sNode \cup {Tombstone}))
    BY DEF TypeOK
  <2> QED
    BY <2>1
<1> QED
  BY <1>1 DEF BeforeBulk, NotesAgree

(* A node's event leaves the pods' events alone.                            *)
LEMMA PodsByNode ==
    ASSUME TypeOK, PodsAgree, NEW n \in Nodes, NEW v, NodeEffect(n, v), UNCHANGED <<podStore, podQueue>>
    PROVE  PodsAgree'
<1> SUFFICES ASSUME PodCriteria PROVE PodsAgree'
  BY DEF PodsAgree
<1>1. ASSUME NEW p \in Pods, nodeNameToNode'[Home[p]].isNodeMatch, Silent(podQueue, p, 0)
      PROVE  p \in nodeNameToNode'[Home[p]].matchingPods <=> podStore[p] = "ready"
  <2>1. Home[p] \in Nodes
    BY ConstantsAssumption
  <2>2. CASE Home[p] # n
    BY <1>1, <2>1, <2>2 DEF NodeEffect, PodsAgree
  <2>3. CASE Home[p] = n
    <3>1. CASE nodeNameToNode'[n].matchingPods = PodsListed(n)
      BY <2>3, <3>1 DEF PodsListed, PodsOn
    <3>2. CASE nodeNameToNode[n].isNodeMatch /\ nodeNameToNode'[n].matchingPods = nodeNameToNode[n].matchingPods
      BY <1>1, <2>3, <3>2 DEF PodsAgree
    <3> QED
      BY <1>1, <2>3, <3>1, <3>2 DEF NodeEffect
  <2> QED
    BY <2>2, <2>3
<1> QED
  BY <1>1 DEF PodsAgree

(* A pod's event brings the node's record to the state the event tells.     *)
LEMMA PodsTail ==
    ASSUME TypeOK, PodsAgree, podQueue # <<>>, podQueue' = Tail(podQueue), UNCHANGED podStore,
           PodEffect(podQueue[1][1], podQueue[1][2])
    PROVE  PodsAgree'
<1> SUFFICES ASSUME PodCriteria PROVE PodsAgree'
  BY DEF PodsAgree
<1> DEFINE q == podQueue
           p == q[1][1]
           v == q[1][2]
           V == Pods \X (PodStates \cup {"tombstone"})
<1>1. q \in Seq(V) /\ q # <<>> /\ podQueue' = Tail(q)
  BY DEF TypeOK
<1>2. /\ 1 \in DOMAIN q
      /\ \A i \in DOMAIN Tail(q) : i \in Nat /\ i > 0 /\ i + 1 \in DOMAIN q /\ Tail(q)[i] = q[i + 1]
      /\ \A i \in DOMAIN q : i > 1 => i - 1 \in DOMAIN Tail(q) /\ Tail(q)[i - 1] = q[i]
  BY <1>1, TailIndex
<1>3. p \in Pods /\ \A i \in DOMAIN q : i \in Nat /\ i >= 1
  <2>1. DOMAIN q = 1 .. Len(q) /\ Len(q) \in Nat
    BY <1>1
  <2>2. q[1] \in V
    BY <1>1, <1>2
  <2> QED
    BY <2>1, <2>2
<1>4. ASSUME NEW i \in Nat, NEW r \in Pods, Silent(Tail(q), r, i) PROVE Silent(q, r, i + 1)
  <2> SUFFICES ASSUME NEW j \in DOMAIN q, i + 1 < j, q[j][1] = r PROVE q[j][2] = "pending"
    BY DEF Silent
  <2>1. j \in Nat /\ j > 1
    BY <1>3
  <2>2. j - 1 \in DOMAIN Tail(q) /\ Tail(q)[j - 1] = q[j] /\ i < j - 1
    BY <1>2, <2>1
  <2> QED
    BY <1>4, <2>2 DEF Silent
<1> HIDE DEF q, V
<1>5. ASSUME NEW i \in DOMAIN Tail(q), Silent(Tail(q), Tail(q)[i][1], i)
      PROVE  Tail(q)[i][2] = "ready" <=> podStore[Tail(q)[i][1]] = "ready"
  <2>1. Tail(q)[i] \in V /\ Tail(q)[i][1] \in Pods
    <3>1. q[i + 1] \in V
      BY <1>1, <1>2
    <3> QED
      BY <1>2, <3>1 DEF V
  <2>2. i \in Nat /\ i + 1 \in DOMAIN q /\ Tail(q)[i] = q[i + 1]
    BY <1>2
  <2>3. Silent(q, q[i + 1][1], i + 1)
    BY <1>4, <1>5, <2>1, <2>2
  <2>4. q[i + 1][2] = "ready" <=> podStore[q[i + 1][1]] = "ready"
    BY <2>2, <2>3 DEF PodsAgree, q
  <2> QED
    BY <2>2, <2>4
<1>6. ASSUME NEW r \in Pods, nodeNameToNode'[Home[r]].isNodeMatch, Silent(Tail(q), r, 0)
      PROVE  r \in nodeNameToNode'[Home[r]].matchingPods <=> podStore[r] = "ready"
  <2>1. Silent(q, r, 1)
    BY <1>4, <1>6
  <2>2. Home[r] \in Nodes /\ Home[p] \in Nodes
    BY <1>3, ConstantsAssumption
  <2>3. nodeNameToNode[Home[r]].isNodeMatch
    BY <1>6, <2>2 DEF PodEffect, q
  <2>4. ASSUME r # p \/ v = "pending" PROVE Silent(q, r, 0)
    BY <1>3, <2>1, <2>4 DEF Silent
  <2>5. CASE r # p
    <3>1. r \in nodeNameToNode'[Home[r]].matchingPods <=> r \in nodeNameToNode[Home[r]].matchingPods
      BY <2>2, <2>5 DEF PodEffect, q
    <3>2. r \in nodeNameToNode[Home[r]].matchingPods <=> podStore[r] = "ready"
      BY <2>3, <2>4, <2>5 DEF PodsAgree, q
    <3> QED
      BY <3>1, <3>2
  <2>6. CASE r = p
    <3>1. p \in nodeNameToNode'[Home[p]].matchingPods <=>
             v = "ready" \/ (v = "pending" /\ p \in nodeNameToNode[Home[p]].matchingPods)
      BY <2>3, <2>6 DEF PodEffect, q
    <3>2. CASE v = "pending"
      <4>1. p \in nodeNameToNode[Home[p]].matchingPods <=> podStore[p] = "ready"
        BY <1>3, <2>3, <2>4, <2>6, <3>2 DEF PodsAgree, q
      <4> QED
        BY <2>6, <3>1, <3>2, <4>1
    <3>3. CASE v # "pending"
      <4>1. v = "ready" <=> podStore[p] = "ready"
        BY <1>2, <2>1, <2>6 DEF PodsAgree, q
      <4> QED
        BY <2>6, <3>1, <3>3, <4>1
    <3> QED
      BY <3>2, <3>3
  <2> QED
    BY <2>5, <2>6
<1> QED
  BY <1>1, <1>5, <1>6 DEF PodsAgree

(* A pod's change is told by its event; one not yet scheduled is not ready. *)
LEMMA PodsAppend ==
    ASSUME TypeOK, PodsAgree, NEW p \in Pods, NEW v \in PodStates, v = "pending" => podStore[p] # "ready",
           PodBecomes(p, v, v), UNCHANGED nodeNameToNode
    PROVE  PodsAgree'
<1> SUFFICES ASSUME PodCriteria PROVE PodsAgree'
  BY DEF PodsAgree
<1> DEFINE q == podQueue
           e == <<p, v>>
           V == Pods \X (PodStates \cup {"tombstone"})
           l == Len(q) + 1
<1>1. q \in Seq(V) /\ e \in V /\ podQueue' = Append(q, e) /\ podStore' = [podStore EXCEPT ![p] = v]
  BY DEF TypeOK, PodBecomes
<1>2. /\ Len(q) \in Nat /\ DOMAIN Append(q, e) = DOMAIN q \cup {l}
      /\ \A i \in DOMAIN q : i \in Nat /\ i < l /\ i > 0 /\ Append(q, e)[i] = q[i] /\ q[i][1] \in Pods
      /\ Append(q, e)[l] = e
  BY <1>1, AppendIndex
<1>3. \A r \in Pods : podStore'[r] = IF r = p THEN v ELSE podStore[r]
  BY <1>1 DEF TypeOK
<1>4. \A r, i : Silent(Append(q, e), r, i) => Silent(q, r, i)
  BY <1>2 DEF Silent
<1>5. ASSUME NEW i, i < l, Silent(Append(q, e), p, i) PROVE v = "pending"
  BY <1>2, <1>5 DEF Silent
<1>6. e[1] = p /\ e[2] = v /\ 0 < l
  BY <1>2
<1> HIDE DEF q, e, V, l
<1>7. ASSUME NEW i \in DOMAIN Append(q, e), Silent(Append(q, e), Append(q, e)[i][1], i)
      PROVE  Append(q, e)[i][2] = "ready" <=> podStore'[Append(q, e)[i][1]] = "ready"
  <2>1. CASE i \in DOMAIN q
    <3>1. Append(q, e)[i] = q[i] /\ q[i][1] \in Pods /\ i < l
      BY <1>2, <2>1
    <3>2. q[i][2] = "ready" <=> podStore[q[i][1]] = "ready"
      <4>1. Silent(q, q[i][1], i)
        BY <1>4, <1>7, <3>1
      <4> QED
        BY <2>1, <4>1 DEF PodsAgree, q
    <3>3. CASE q[i][1] = p
      <4>1. v = "pending"
        BY <1>5, <1>7, <3>1, <3>3
      <4> QED
        BY <1>3, <3>1, <3>2, <3>3, <4>1
    <3>4. CASE q[i][1] # p
      BY <1>3, <3>1, <3>2, <3>4
    <3> QED
      BY <3>3, <3>4
  <2>2. CASE i = l
    BY <1>2, <1>3, <1>6, <2>2
  <2> QED
    BY <1>2, <2>1, <2>2
<1>8. ASSUME NEW r \in Pods, nodeNameToNode[Home[r]].isNodeMatch, Silent(Append(q, e), r, 0)
      PROVE  r \in nodeNameToNode[Home[r]].matchingPods <=> podStore'[r] = "ready"
  <2>1. r \in nodeNameToNode[Home[r]].matchingPods <=> podStore[r] = "ready"
    BY <1>4, <1>8 DEF PodsAgree, q
  <2>2. CASE r = p
    <3>1. v = "pending"
      BY <1>5, <1>6, <1>8, <2>2
    <3> QED
      BY <1>3, <2>1, <2>2, <3>1
  <2> QED
    BY <1>3, <2>1, <2>2
<1> QED
  BY <1>1, <1>7, <1>8 DEF PodsAgree
(* A list of the store's objects tells their states.                        *)
LEMMA ListingIs ==
    ASSUME NEW S, IsFiniteSet(S), NEW T \in SUBSET S, NEW store
    PROVE  \A i \in DOMAIN Listing(SetToSeq(T), store) :
              LET e == Listing(SetToSeq(T), store)[i] IN e[1] \in T /\ e[2] = store[e[1]]
<1>1. /\ Cardinality(T) \in Nat
      /\ ExistsBijection(1..Cardinality(T), T)
  BY FS_Subset, FS_CardinalityType
<1>2. PICK f \in [1..Cardinality(T) -> T] : IsInjective(f)
  BY <1>1 DEF ExistsBijection, Bijection, Injection, IsInjective
<1>3. SetToSeq(T) \in [1..Cardinality(T) -> T]
  BY <1>2 DEF SetToSeq
<1> QED
  BY <1>3 DEF Listing

(* Both informers' lists.                                                   *)
LEMMA ListingsAre ==
    /\ \A i \in DOMAIN NodeListing :
         NodeListing[i][1] \in Nodes /\ NodeListing[i][2] = nodeStore[NodeListing[i][1]]
    /\ \A i \in DOMAIN PodListing :
         PodListing[i][1] \in Pods /\ PodListing[i][2] = podStore[PodListing[i][1]]
<1>1. {n \in Nodes : Exists(n)} \in SUBSET Nodes /\ {p \in Pods : podStore[p] # "none"} \in SUBSET Pods
  OBVIOUS
<1> QED
  BY <1>1, ListingIs, ConstantsAssumption DEF NodeListing, PodListing

(* No state of the store is that of an object whose deletion was missed.    *)
LEMMA NoTombstone ==
    ASSUME NEW v \in K8sNode, NEW w \in PodStates
    PROVE  v # Tombstone /\ w # "tombstone"
  BY DEF K8sNode, NodeStates, PodStates, Tombstone

(* OnNode.                                                                  *)
LEMMA SyncOnNode ==
    ASSUME IInv, InSync, IInv', OnNode
    PROVE  InSync'
<1> DEFINE q == nodeQueue
           n == q[1][1]
           v == q[1][2]
           V == Nodes \X (K8sNode \cup {Tombstone})
<1>1. /\ q \in Seq(V) /\ q # <<>> /\ nodeQueue' = Tail(q) /\ TypeOK
      /\ UNCHANGED <<nodeStore, podStore, podQueue, relist>>
  BY DEF IInv, TypeOK, OnNode, runVars
<1>2. /\ 1 \in DOMAIN q /\ Head(q) = q[1] /\ \A i \in DOMAIN q : i \in Nat /\ i > 0
      /\ \A i \in DOMAIN Tail(q) : i + 1 \in DOMAIN q /\ Tail(q)[i] = q[i + 1]
  <2>1. DOMAIN q = 1 .. Len(q) /\ Len(q) \in Nat
    BY <1>1
  <2> QED
    BY <1>1, <2>1, TailIndex
<1>3. n \in Nodes /\ v \in K8sNode
  <2>1. q[1] \in V /\ v # Tombstone
    BY <1>1, <1>2 DEF InSync, NothingMissed
  <2> QED
    BY <2>1
<1>4. IF v.state = "none" THEN deleteNode(n) ELSE updateNode(n, v)
  BY <1>2, <1>3, NoTombstone DEF OnNode, InSync, NothingMissed
<1>5. NodeEffect(n, v)
  BY <1>3, <1>4, DeleteNodeEffect, UpdateNodeEffect
<1>6. Goes(v) => n \notin active'
  <2>1. Goes(v) => deleteNode(n)
    BY <1>4 DEF Goes, updateNode
  <2> QED
    BY <2>1 DEF deleteNode, Outcome, Disabling
<1>7. NotesAgree'
  BY <1>1, <1>5, NotesTail DEF InSync, NodeEffect
<1>8. PodsAgree'
  BY <1>1, <1>3, <1>5, PodsByNode DEF InSync
<1>9. ~primed' => BeforeBulk'
  <2> SUFFICES ASSUME ~primed' PROVE BeforeBulk'
    OBVIOUS
  <2>1. BeforeBulk
    BY <1>5 DEF InSync, NodeEffect
  <2>2. \A m : PodsListed(m)' = PodsListed(m)
    BY <1>1 DEF PodsListed, PodsOn
  <2>3. \A i \in DOMAIN nodeQueue' : nodeQueue'[i][2].note = nodeStore[nodeQueue'[i][1]].note
    BY <1>1, <1>2, <2>1 DEF BeforeBulk
  <2>4. \A m \in Nodes : nodeNameToNode'[m].isNodeMatch => nodeNameToNode'[m].note = nodeStore[m].note
    BY <1>2, <1>3, <1>5, <2>1 DEF BeforeBulk, NodeEffect
  <2>5. PodCriteria => \A m \in Nodes :
           /\ nodeNameToNode'[m].isNodeMatch => nodeNameToNode'[m].matchingPods = PodsListed(m)
           /\ nodeNameToNode'[m].enabled => PodsListed(m) # {}
    BY <1>3, <1>5, <2>1 DEF BeforeBulk, NodeEffect
  <2> QED
    BY <1>1, <2>1, <2>2, <2>3, <2>4, <2>5 DEF BeforeBulk
<1>10. NothingMissed'
  BY <1>1, <1>2 DEF InSync, NothingMissed
<1>11. EnabledHavePods'
  <2> SUFFICES ASSUME PodCriteria, NEW m \in active' PROVE nodeNameToNode'[m].matchingPods # {}
    BY DEF EnabledHavePods
  <2>1. m \in Nodes
    BY DEF IInv, TypeOK
  <2>2. CASE m # n
    BY <1>5, <2>1, <2>2 DEF NodeEffect, InSync, EnabledHavePods
  <2>3. CASE m = n
    <3>1. ~(nodeNameToNode[n].isNodeMatch /\ nodeNameToNode[n].note # v.note)
      <4> SUFFICES ASSUME nodeNameToNode[n].isNodeMatch, nodeNameToNode[n].note # v.note PROVE FALSE
        OBVIOUS
      <4>1. Left(q, n, 0, 1)
        BY <1>2, <1>3 DEF InSync, NotesAgree
      <4>2. PICK k \in DOMAIN q : 0 < k /\ k <= 1 /\ Goes(q[k][2])
        BY <4>1 DEF Left
      <4>3. k = 1
        BY <1>2, <4>2
      <4> QED
        BY <1>6, <2>3, <4>2, <4>3
    <3> QED
      BY <1>5, <2>3, <3>1 DEF NodeEffect, InSync, EnabledHavePods
  <2> QED
    BY <2>2, <2>3
<1> QED
  BY <1>7, <1>8, <1>9, <1>10, <1>11 DEF InSync

(* OnPod.                                                                   *)
LEMMA SyncOnPod ==
    ASSUME IInv, InSync, IInv', OnPod
    PROVE  InSync'
<1> DEFINE q == podQueue
           p == q[1][1]
           v == q[1][2]
           V == Pods \X (PodStates \cup {"tombstone"})
           n == Home[p]
<1>1. /\ q \in Seq(V) /\ q # <<>> /\ podQueue' = Tail(q) /\ TypeOK
      /\ UNCHANGED <<nodeStore, nodeQueue, podStore, relist>>
  BY DEF IInv, TypeOK, OnPod, runVars
<1>2. /\ 1 \in DOMAIN q /\ Head(q) = q[1]
      /\ \A i \in DOMAIN Tail(q) : i + 1 \in DOMAIN q /\ Tail(q)[i] = q[i + 1]
  BY <1>1, TailIndex
<1>3. p \in Pods /\ n \in Nodes /\ v # "tombstone"
  <2>1. q[1] \in V /\ v # "tombstone"
    BY <1>1, <1>2 DEF InSync, NothingMissed
  <2> QED
    BY <2>1, ConstantsAssumption
<1>4. IF v = "none" THEN deletePod(p) ELSE updatePod(p, v)
  BY <1>2, <1>3 DEF OnPod
<1>5. PodEffect(p, v)
  BY <1>3, <1>4, DeletePodEffect, UpdatePodEffect
<1>6. PodCriteria
  BY <1>1 DEF IInv, PodInformer
<1>7. NotesAgree'
  BY <1>1, <1>5, NotesKept DEF InSync, PodEffect
<1>8. PodsAgree'
  BY <1>1, <1>5, PodsTail DEF InSync
<1>9. ~primed' => BeforeBulk'
  <2> SUFFICES ASSUME ~primed' PROVE BeforeBulk'
    OBVIOUS
  <2>1. BeforeBulk /\ v = podStore[p]
    BY <1>2, <1>5 DEF InSync, PodEffect, BeforeBulk
  <2>2. \A m : PodsListed(m)' = PodsListed(m)
    BY <1>1 DEF PodsListed, PodsOn
  <2>3. \A i \in DOMAIN podQueue' : podQueue'[i][2] = podStore[podQueue'[i][1]]
    BY <1>1, <1>2, <2>1 DEF BeforeBulk
  <2>4. \A m \in Nodes : nodeNameToNode'[m].isNodeMatch => nodeNameToNode'[m].note = nodeStore[m].note
    BY <1>5, <2>1 DEF BeforeBulk, PodEffect
  <2>5. p \in PodsListed(n) <=> v = "ready"
    BY <1>3, <2>1 DEF PodsListed, PodsOn
  <2>6. nodeNameToNode'[n].isNodeMatch => nodeNameToNode'[n].matchingPods = PodsListed(n)
    <3> SUFFICES ASSUME nodeNameToNode'[n].isNodeMatch PROVE nodeNameToNode'[n].matchingPods = PodsListed(n)
      OBVIOUS
    <3>1. nodeNameToNode[n].isNodeMatch /\ nodeNameToNode[n].matchingPods = PodsListed(n)
      BY <1>3, <1>5, <1>6, <2>1 DEF BeforeBulk, PodEffect
    <3>2. nodeNameToNode'[n].matchingPods \subseteq Pods
      BY <1>3 DEF IInv, TypeOK, NodeRecord, PodsOn
    <3>3. p \in nodeNameToNode'[n].matchingPods <=> v = "ready"
      BY <1>5, <2>5, <3>1 DEF PodEffect
    <3>4. \A r \in Pods : r \in nodeNameToNode'[n].matchingPods <=> r \in PodsListed(n)
      BY <1>5, <2>5, <3>1, <3>3 DEF PodEffect
    <3>5. PodsListed(n) \subseteq Pods
      BY DEF PodsListed, PodsOn
    <3> QED
      BY <3>2, <3>4, <3>5
  <2>7. nodeNameToNode'[n].enabled => PodsListed(n) # {}
    BY <1>3, <1>5, <1>6, <2>1, <2>5 DEF BeforeBulk, PodEffect
  <2>8. \A m \in Nodes : m # n => nodeNameToNode'[m] = nodeNameToNode[m]
    BY <1>5 DEF PodEffect
  <2>9. \A m \in Nodes :
           /\ nodeNameToNode'[m].isNodeMatch => nodeNameToNode'[m].matchingPods = PodsListed(m)
           /\ nodeNameToNode'[m].enabled => PodsListed(m) # {}
    BY <1>6, <2>1, <2>6, <2>7, <2>8 DEF BeforeBulk
  <2> QED
    BY <1>1, <2>1, <2>2, <2>3, <2>4, <2>9 DEF BeforeBulk
<1>10. NothingMissed'
  BY <1>1, <1>2 DEF InSync, NothingMissed
<1>11. EnabledHavePods'
  <2> SUFFICES ASSUME NEW m \in active' PROVE nodeNameToNode'[m].matchingPods # {}
    BY DEF EnabledHavePods
  <2>1. m \in Nodes
    BY DEF IInv, TypeOK
  <2> QED
    BY <1>5, <1>6, <2>1 DEF PodEffect, InSync, EnabledHavePods
<1> QED
  BY <1>7, <1>8, <1>9, <1>10, <1>11 DEF InSync

(* run().                                                                   *)
LEMMA SyncRunUpdate ==
    ASSUME IInv, InSync, IInv', RunUpdate
    PROVE  InSync'
<1>1. PICK e \in relist : relist' = relist \ {e} /\ updateNode(e[1], e[2])
  BY DEF RunUpdate
<1>2. /\ UNCHANGED <<nodeStore, nodeQueue, podStore, podQueue, pc>> /\ TypeOK /\ TypeOK'
      /\ e[1] \in Nodes /\ e[2] \in K8sNode
  BY DEF RunUpdate, informerVars, IInv, TypeOK
<1> DEFINE n == e[1]
           v == e[2]
<1>3. NodeEffect(n, v)
  BY <1>1, <1>2, UpdateNodeEffect
<1>4. ~primed /\ ~primed' /\ active' = {} /\ BeforeBulk
  BY <1>2 DEF RunUpdate, IInv, EnabledByBulk, InSync
<1>5. PodsAgree'
  BY <1>2, <1>3, PodsByNode DEF InSync
<1>6. BeforeBulk'
  <2>1. \A m : PodsListed(m)' = PodsListed(m)
    BY <1>2 DEF PodsListed, PodsOn
  <2>2. \A m \in Nodes : nodeNameToNode'[m].isNodeMatch => nodeNameToNode'[m].note = nodeStore[m].note
    BY <1>2, <1>3, <1>4 DEF BeforeBulk, NodeEffect
  <2>3. PodCriteria => \A m \in Nodes :
           /\ nodeNameToNode'[m].isNodeMatch => nodeNameToNode'[m].matchingPods = PodsListed(m)
           /\ nodeNameToNode'[m].enabled => PodsListed(m) # {}
    BY <1>2, <1>3, <1>4 DEF BeforeBulk, NodeEffect
  <2> QED
    BY <1>1, <1>2, <1>4, <2>1, <2>2, <2>3 DEF BeforeBulk
<1>7. NotesAgree'
  BY <1>2, <1>6, BulkNotes
<1>8. NothingMissed' /\ EnabledHavePods'
  BY <1>2, <1>4 DEF InSync, NothingMissed, EnabledHavePods
<1> QED
  BY <1>5, <1>6, <1>7, <1>8 DEF InSync

(* A step that changes nothing InSync speaks of.                            *)
LEMMA SyncSame ==
    ASSUME InSync, UNCHANGED <<informerVars, nodeNameToNode, primed, active, relist>>
    PROVE  InSync'
  BY DEF InSync, NotesAgree, PodsAgree, BeforeBulk, NothingMissed, EnabledHavePods, PodsListed, PodsOn, informerVars

(* RunList and RunPrime.                                                    *)
LEMMA SyncRun ==
    ASSUME IInv, InSync, IInv', RunList \/ RunPrime
    PROVE  InSync'
<1>1. UNCHANGED <<nodeStore, nodeQueue, podStore, podQueue, nodeNameToNode>>
  BY DEF RunList, RunPrime, informerVars, controllerVars
<1>2. NotesAgree' /\ PodsAgree' /\ NothingMissed'
  BY <1>1 DEF InSync, NotesAgree, PodsAgree, NothingMissed
<1>3. CASE RunList
  <2>1. UNCHANGED <<primed, active>> /\ \A e \in relist' : e[2].note = nodeStore[e[1]].note
    BY <1>3 DEF RunList, controllerVars
  <2>2. EnabledHavePods'
    BY <1>1, <2>1 DEF InSync, EnabledHavePods
  <2>3. ~primed' => BeforeBulk'
    BY <1>1, <2>1 DEF InSync, BeforeBulk, PodsListed, PodsOn
  <2> QED
    BY <1>2, <2>2, <2>3 DEF InSync
<1>4. CASE RunPrime
  <2>1. primed' = TRUE /\ active' = active \cup Bulk
    BY <1>4 DEF RunPrime
  <2>2. BeforeBulk
    BY <1>4 DEF RunPrime, IInv, EnabledByBulk, InSync
  <2>3. PodCriteria => \A n \in Bulk : nodeNameToNode[n].matchingPods # {}
    BY <2>2 DEF IInv, EnabledByBulk, Bulk, MatchingNodes, BeforeBulk
  <2>4. EnabledHavePods'
    BY <1>1, <2>1, <2>3 DEF InSync, EnabledHavePods
  <2> QED
    BY <1>2, <2>1, <2>4 DEF InSync
<1> QED
  BY <1>3, <1>4
(* A change of a node; before the bulk enable only labels change.           *)
LEMMA SyncNodeBecomes ==
    ASSUME IInv, InSync, NEW n \in Nodes, NEW v \in K8sNode, v.note = nodeStore[n].note \/ (primed /\ Goes(v)),
           NodeBecomes(n, v, v), UNCHANGED <<controllerVars, runVars>>
    PROVE  InSync'
<1> DEFINE q == nodeQueue
           e == <<n, v>>
           V == Nodes \X (K8sNode \cup {Tombstone})
<1>1. /\ q \in Seq(V) /\ e \in V /\ nodeQueue' = Append(q, e) /\ TypeOK
      /\ nodeStore' = [nodeStore EXCEPT ![n] = v]
      /\ UNCHANGED <<podStore, podQueue, nodeNameToNode, primed, active, relist>>
  BY DEF IInv, TypeOK, NodeBecomes, controllerVars, runVars
<1>2. /\ DOMAIN Append(q, e) = DOMAIN q \cup {Len(q) + 1} /\ Append(q, e)[Len(q) + 1] = e
      /\ \A i \in DOMAIN q : Append(q, e)[i] = q[i]
  BY <1>1, AppendIndex
<1>3. NotesAgree'
  BY <1>1, NotesAppend DEF InSync
<1>4. PodsAgree' /\ EnabledHavePods'
  BY <1>1 DEF InSync, PodsAgree, EnabledHavePods
<1>5. NothingMissed'
  <2>1. v # Tombstone
    BY DEF K8sNode, NodeStates, Tombstone
  <2> QED
    BY <1>1, <1>2, <2>1 DEF InSync, NothingMissed
<1>6. ~primed' => BeforeBulk'
  <2> SUFFICES ASSUME ~primed PROVE BeforeBulk'
    BY <1>1
  <2>1. BeforeBulk /\ \A m \in Nodes : nodeStore'[m].note = nodeStore[m].note
    BY <1>1 DEF InSync, TypeOK
  <2>2. \A i \in DOMAIN q : q[i][1] \in Nodes
    BY <1>1
  <2>3. \A i \in DOMAIN nodeQueue' : nodeQueue'[i][2].note = nodeStore'[nodeQueue'[i][1]].note
    BY <1>1, <1>2, <2>1, <2>2 DEF BeforeBulk
  <2>4. \A d \in relist : d[2].note = nodeStore'[d[1]].note
    BY <1>1, <2>1 DEF BeforeBulk, TypeOK
  <2>5. \A m : PodsListed(m)' = PodsListed(m)
    BY <1>1 DEF PodsListed, PodsOn
  <2> QED
    BY <1>1, <2>1, <2>3, <2>4, <2>5 DEF BeforeBulk
<1> QED
  BY <1>3, <1>4, <1>5, <1>6 DEF InSync

(* A change of a pod, after the bulk enable.                                *)
LEMMA SyncPodBecomes ==
    ASSUME IInv, InSync, primed, NEW p \in Pods, NEW v \in PodStates, v = "pending" => podStore[p] # "ready",
           PodBecomes(p, v, v), UNCHANGED <<controllerVars, runVars>>
    PROVE  InSync'
<1> DEFINE q == podQueue
           e == <<p, v>>
           V == Pods \X (PodStates \cup {"tombstone"})
<1>1. /\ q \in Seq(V) /\ e \in V /\ podQueue' = Append(q, e) /\ TypeOK
      /\ UNCHANGED <<nodeStore, nodeQueue, nodeNameToNode, primed, active>>
  BY DEF IInv, TypeOK, PodBecomes, controllerVars, runVars
<1>2. /\ DOMAIN Append(q, e) = DOMAIN q \cup {Len(q) + 1} /\ Append(q, e)[Len(q) + 1] = e
      /\ \A i \in DOMAIN q : Append(q, e)[i] = q[i]
  BY <1>1, AppendIndex
<1>3. PodsAgree'
  BY <1>1, PodsAppend DEF InSync
<1>4. NotesAgree' /\ EnabledHavePods' /\ primed'
  BY <1>1 DEF InSync, NotesAgree, EnabledHavePods
<1>5. NothingMissed'
  <2>1. v # "tombstone"
    BY DEF PodStates
  <2> QED
    BY <1>1, <1>2, <2>1 DEF InSync, NothingMissed
<1> QED
  BY <1>3, <1>4, <1>5 DEF InSync

(* The cluster, in a benign scenario.                                       *)
LEMMA SyncCluster ==
    ASSUME IInv, InSync, Benign, Cluster
    PROVE  InSync'
<1>1. \A kind : Change(kind) => kind \in changes /\ UNCHANGED <<controllerVars, runVars>>
  BY DEF Change
<1>2. "annotate" \notin changes /\ "relist" \notin changes /\ (Settable => primed)
  BY DEF Benign, Settable
<1>3. ~ObjectMissed
  BY <1>1, <1>2 DEF ObjectMissed
<1>4. ASSUME NEW n \in Nodes, NodeFlips(n) \/ NodeAnnotated(n) \/ NodeComesOrGoes(n) PROVE InSync'
  <2>1. nodeStore[n] \in K8sNode /\ NoObject \in K8sNode
    BY DEF IInv, TypeOK, NoObject, K8sNode, NodeStates
  <2>2. CASE NodeFlips(n)
    <3> DEFINE v == [nodeStore[n] EXCEPT !.state = IF @ = "match" THEN "plain" ELSE "match"]
    <3>1. v \in K8sNode /\ v.note = nodeStore[n].note
      BY <2>1 DEF K8sNode, NodeStates
    <3>2. NodeBecomes(n, v, v) /\ UNCHANGED <<controllerVars, runVars>>
      BY <1>1, <2>2 DEF NodeFlips
    <3> QED
      BY <3>1, <3>2, SyncNodeBecomes
  <2>3. CASE NodeComesOrGoes(n)
    <3>1. PICK s \in NodeStep(nodeStore[n].state) :
             LET v == IF s = "none" THEN NoObject ELSE [nodeStore[n] EXCEPT !.state = s]
             IN  NodeBecomes(n, v, v)
      BY <2>3 DEF NodeComesOrGoes
    <3> DEFINE v == IF s = "none" THEN NoObject ELSE [nodeStore[n] EXCEPT !.state = s]
    <3>2. s \in NodeStates
      BY DEF NodeStep, NodeStates
    <3>3. v \in K8sNode /\ (v.note = nodeStore[n].note \/ Goes(v))
      BY <2>1, <3>2 DEF K8sNode, NoObject, Goes
    <3>4. primed /\ UNCHANGED <<controllerVars, runVars>>
      BY <1>1, <1>2, <2>3 DEF NodeComesOrGoes
    <3> QED
      BY <3>1, <3>3, <3>4, SyncNodeBecomes
  <2>4. ~NodeAnnotated(n)
    BY <1>1, <1>2 DEF NodeAnnotated
  <2> QED
    BY <1>4, <2>2, <2>3, <2>4
<1>5. ASSUME NEW p \in Pods, PodChanges(p) PROVE InSync'
  <2>1. PICK v \in PodStep(podStore[p]) : PodBecomes(p, v, v)
    BY <1>5 DEF PodChanges
  <2>2. v \in PodStates /\ (v = "pending" => podStore[p] # "ready")
    BY DEF PodStep, PodStates
  <2>3. primed /\ UNCHANGED <<controllerVars, runVars>>
    BY <1>1, <1>2, <1>5 DEF PodChanges
  <2> QED
    BY <2>1, <2>2, <2>3, SyncPodBecomes
<1> QED
  BY <1>3, <1>4, <1>5 DEF Cluster

(* A resync repeats the store, when the record agrees with it.              *)
LEMMA SyncResync ==
    ASSUME IInv, InSync, IInv', Resync
    PROVE  InSync'
<1>1. /\ primed /\ nodeQueue = <<>> /\ podQueue = <<>> /\ nodeQueue' = NodeListing /\ podQueue' = PodListing
      /\ UNCHANGED <<nodeStore, podStore, nodeNameToNode, primed, active>>
  BY DEF Resync, controllerVars
<1>2. \A i \in DOMAIN nodeQueue' : nodeQueue'[i][1] \in Nodes /\ nodeQueue'[i][2] = nodeStore[nodeQueue'[i][1]]
  BY <1>1, ListingsAre
<1>3. \A i \in DOMAIN podQueue' : podQueue'[i][1] \in Pods /\ podQueue'[i][2] = podStore[podQueue'[i][1]]
  BY <1>1, ListingsAre
<1>4. DOMAIN nodeQueue = {} /\ DOMAIN podQueue = {}
  BY <1>1
<1>5. NotesAgree'
  <2>1. \A n \in Nodes : nodeNameToNode[n].isNodeMatch => nodeNameToNode[n].note = nodeStore[n].note
    BY <1>4 DEF InSync, NotesAgree, Left
  <2> QED
    BY <1>1, <1>2, <2>1 DEF NotesAgree
<1>6. PodsAgree'
  <2>1. \A p : Silent(podQueue, p, 0)
    BY <1>4 DEF Silent
  <2> QED
    BY <1>1, <1>3, <2>1 DEF InSync, PodsAgree
<1>7. NothingMissed'
  <2>1. \A n \in Nodes : nodeStore[n] # Tombstone
    <3>1. \A n \in Nodes : nodeStore[n] \in K8sNode
      BY DEF IInv, TypeOK
    <3>2. \A v \in K8sNode : v # Tombstone
      BY DEF K8sNode, NodeStates, Tombstone
    <3> QED
      BY <3>1, <3>2
  <2>2. \A p \in Pods : podStore[p] # "tombstone"
    BY DEF IInv, TypeOK, PodStates
  <2> QED
    BY <1>2, <1>3, <2>1, <2>2 DEF NothingMissed
<1>8. EnabledHavePods' /\ primed'
  BY <1>1 DEF InSync, EnabledHavePods
<1> QED
  BY <1>5, <1>6, <1>7, <1>8 DEF InSync

(* When the informers have listed.                                          *)
LEMMA SyncInit ==
    ASSUME Init, IInv
    PROVE  InSync
<1>1. /\ nodeQueue = NodeListing /\ podQueue = PodListing /\ relist = {} /\ active = {} /\ ~primed
      /\ \A n \in Nodes : nodeNameToNode[n] = Unknown
  BY DEF Init
<1>2. \A n \in Nodes : nodeNameToNode[n].isNodeMatch = FALSE /\ nodeNameToNode[n].enabled = FALSE
  BY <1>1 DEF Unknown
<1>3. \A i \in DOMAIN nodeQueue : nodeQueue[i][1] \in Nodes /\ nodeQueue[i][2] = nodeStore[nodeQueue[i][1]]
  BY <1>1, ListingsAre
<1>4. \A i \in DOMAIN podQueue : podQueue[i][1] \in Pods /\ podQueue[i][2] = podStore[podQueue[i][1]]
  BY <1>1, ListingsAre
<1>5. NotesAgree
  BY <1>2, <1>3 DEF NotesAgree
<1>6. PodsAgree
  <2>1. \A p \in Pods : Home[p] \in Nodes
    BY ConstantsAssumption
  <2> QED
    BY <1>2, <1>4, <2>1 DEF PodsAgree
<1>7. BeforeBulk
  BY <1>1, <1>2, <1>3, <1>4 DEF BeforeBulk
<1>8. NothingMissed
  <2>1. \A n \in Nodes : nodeStore[n] # Tombstone
    <3>1. \A n \in Nodes : nodeStore[n] \in K8sNode
      BY DEF IInv, TypeOK
    <3>2. \A v \in K8sNode : v # Tombstone
      BY DEF K8sNode, NodeStates, Tombstone
    <3> QED
      BY <3>1, <3>2
  <2>2. \A p \in Pods : podStore[p] # "tombstone"
    BY DEF IInv, TypeOK, PodStates
  <2> QED
    BY <1>3, <1>4, <2>1, <2>2 DEF NothingMissed
<1>9. EnabledHavePods
  BY <1>1 DEF EnabledHavePods
<1> QED
  BY <1>5, <1>6, <1>7, <1>8, <1>9 DEF InSync

(* Every step.                                                              *)
LEMMA SyncNext ==
    ASSUME IInv, Benign => InSync, [Next]_vars, IInv'
    PROVE  (Benign => InSync)'
<1>1. changes' = changes
  BY DEF Next, Controller, Cluster, OnNode, OnPod, RunList, RunUpdate, RunPrime, Resync, NodeFlips, NodeAnnotated,
         NodeComesOrGoes, PodChanges, ObjectMissed, Change, vars
<1> SUFFICES ASSUME InSync, Benign PROVE InSync'
  BY <1>1 DEF Benign
<1>2. CASE Controller
  BY <1>2, SyncOnNode, SyncOnPod, SyncRun, SyncRunUpdate DEF Controller
<1>3. CASE Cluster
  BY <1>3, SyncCluster
<1>4. CASE Resync
  BY <1>4, SyncResync
<1>5. CASE UNCHANGED vars
  <2>1. UNCHANGED <<informerVars, nodeNameToNode, primed, active, relist>>
    BY <1>5 DEF vars, controllerVars, runVars
  <2> QED
    BY <2>1, SyncSame
<1> QED
  BY <1>2, <1>3, <1>4, <1>5 DEF Next

(* With everything delivered, record and store say the same of every node.  *)
LEMMA SyncMatches ==
    ASSUME IInv, Benign => InSync
    PROVE  MatchesAll
<1> SUFFICES ASSUME InSync, Delivered, RecordsCurrent PROVE active = Wanted
  BY DEF MatchesAll
<1>1. primed /\ DOMAIN podQueue = {}
  BY DEF Delivered
<1>2. ASSUME NEW n \in Nodes
      PROVE  n \in CandidateNodes <=> n \in Wanted
  <2>1. n \in MatchingNodes <=> nodeStore[n].state = "match"
    <3>1. nodeNameToNode[n].isNodeMatch => nodeNameToNode[n].known
      BY DEF IInv, EnabledByBulk
    <3> QED
      BY <3>1 DEF RecordsCurrent, MatchingNodes
  <2>2. ASSUME PodCriteria, n \in MatchingNodes PROVE nodeNameToNode[n].matchingPods = PodsListed(n)
    <3>1. nodeNameToNode[n].matchingPods \subseteq PodsOn(n) /\ nodeNameToNode[n].isNodeMatch
      BY <2>2 DEF IInv, TypeOK, NodeRecord, MatchingNodes
    <3>2. \A p \in PodsOn(n) : p \in nodeNameToNode[n].matchingPods <=> podStore[p] = "ready"
      BY <1>1, <2>2, <3>1 DEF InSync, PodsAgree, Silent, PodsOn
    <3> QED
      BY <3>1, <3>2 DEF PodsListed
  <2>3. PodsListed(n) # {} <=> \E p \in PodsOn(n) : podStore[p] = "ready"
    BY DEF PodsListed
  <2> QED
    BY <2>1, <2>2, <2>3 DEF CandidateNodes, Wanted
<1>3. CandidateNodes \subseteq active
  BY <1>1 DEF IInv, EnabledByRecord
<1>4. active \subseteq CandidateNodes
  BY DEF IInv, EnabledByRecord, InSync, EnabledHavePods, CandidateNodes
<1>5. CandidateNodes \subseteq Nodes /\ Wanted \subseteq Nodes
  BY DEF CandidateNodes, MatchingNodes, Wanted
<1> QED
  BY <1>2, <1>3, <1>4, <1>5

(* However labels, nodes and pods change, and in whatever order the two     *)
(* informers deliver while run() visits what it listed: once everything is  *)
(* delivered and no record is older than the store, the enabled nodes are   *)
(* exactly those that meet the criteria.                                    *)
THEOREM ExactlyMatchingEnabled == Spec => []MatchesAll
<1> DEFINE J == IInv /\ (Benign => InSync)
<1>1. Init => J
  BY InitIInv, SyncInit
<1>2. J /\ IInv' /\ [Next]_vars => J'
  BY SyncNext
<1>3. J => MatchesAll
  BY SyncMatches
<1> QED
  BY <1>1, <1>2, <1>3, MatchInductive, PTL DEF Spec
=============================================================================
