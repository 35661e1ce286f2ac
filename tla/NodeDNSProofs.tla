---------------------------- MODULE NodeDNSProofs ----------------------------
(***************************************************************************)
(* Proofs about the NodeDNSRecordSet controller, for any nodes, criteria,   *)
(* specs and number of children, and whatever goes wrong.                   *)
(***************************************************************************)
EXTENDS NodeDNS, FiniteSetTheorems, TLAPS

\* What a step must keep apart from the children.
Frame ==
    /\ spec' \in Specs \cup {NoSpec} /\ uid' \in Nat
    /\ matching' \subseteq Nodes
    /\ children' \subseteq Children /\ born' \in Nat
    /\ main' \in [at : MainSteps, on : Children \cup {0}, spec : Specs \cup {NoSpec}]
    /\ main'.at \notin {"idle", "returned"} => main'.on \in Children
    /\ main'.at \in {"update", "join"} => main'.spec \in Specs

(* A step that touches no child.                                            *)
LEMMA Elsewhere ==
    ASSUME IInv, Frame, UNCHANGED child
    PROVE  IInv'
  BY DEF IInv, TypeOK, Frame

(* A step of one child: only its new state has to be looked at.             *)
LEMMA OneChild ==
    ASSUME IInv, Frame, NEW c \in Children, NEW r \in Child, ChildSound(r), Set(c, r)
    PROVE  IInv'
<1>1. child' \in [Children -> Child] /\ child'[c] = r
  BY DEF IInv, TypeOK, Set
<1>2. \A e \in Children \ {c} : child'[e] = child[e]
  BY DEF IInv, TypeOK, Set
<1>3. \A e \in Children : ChildSound(child'[e])
  BY <1>1, <1>2 DEF IInv
<1> QED
  BY <1>1, <1>3 DEF IInv, TypeOK, Frame

(* The invariant says this of a child.                                      *)
LEMMA ChildFacts ==
    ASSUME IInv, NEW c \in Children
    PROVE  child[c] \in Child /\ ChildSound(child[c])
  BY DEF IInv, TypeOK

(* A child just created.                                                    *)
LEMMA FreshChild ==
    ASSUME NEW u \in Nat
    PROVE  Fresh(u) \in Child /\ ChildSound(Fresh(u))
<1>1. Fresh(u) \in Child
  BY ConstantsAssumption DEF Fresh, Child, NoCall
<1>2. ChildSound(Fresh(u))
  BY DEF Fresh, ChildSound, NoCall
<1> QED
  BY <1>1, <1>2

(* The criteria of a spec select some of the nodes.                         *)
LEMMA SelectsNodes ==
    ASSUME NEW s \in Specs
    PROVE  s.match \in Criteria /\ Selects[s.match] \subseteq Nodes /\ s # NoSpec
  BY ConstantsAssumption

(* The initial states.                                                      *)
LEMMA InitIInv == Init => IInv
<1> SUFFICES ASSUME Init PROVE IInv
  OBVIOUS
<1>1. \A c \in Children : child[c] \in Child /\ ChildSound(child[c])
  BY FreshChild DEF Init
<1>2. TypeOK
  BY <1>1, ConstantsAssumption DEF Init, TypeOK, Idle, MainSteps
<1> QED
  BY <1>1, <1>2 DEF IInv
-----------------------------------------------------------------------------
(* update(): the criteria of a child change only together with its nodes    *)
(* being forgotten.                                                         *)
LEMMA UpdatedSound ==
    ASSUME NEW r \in Child, ChildSound(r), main.spec \in Specs
    PROVE  Updated(r) \in Child /\ ChildSound(Updated(r))
<1>1. CASE r.run = "none"
  <2> DEFINE s == [r EXCEPT !.k8s = main.spec, !.run = "new", !.timer = FALSE]
  <2>1. s \in Child /\ s.k8s = main.spec /\ s.run = "new" /\ s.activeNodes = {}
    BY <1>1 DEF Child, ChildSound
  <2>2. ChildSound(s)
    BY <2>1, SelectsNodes DEF ChildSound
  <2> QED
    BY <1>1, <2>1, <2>2 DEF Updated
<1>2. CASE r.run # "none" /\ NeedsRestart(r)
  <2> DEFINE s == [r EXCEPT !.k8s = main.spec, !.run = "new", !.timer = FALSE, !.cancelled = FALSE,
                            !.told = {}, !.activeNodes = {}, !.lock = "free"]
  <2>1. s \in Child /\ s.k8s = main.spec /\ s.run = "new" /\ s.activeNodes = {}
    BY DEF Child
  <2>2. ChildSound(s)
    BY <2>1, SelectsNodes DEF ChildSound
  <2> QED
    BY <1>2, <2>1, <2>2 DEF Updated
<1>3. CASE r.run # "none" /\ ~NeedsRestart(r)
  <2> DEFINE s == [r EXCEPT !.k8s = main.spec]
  <2>1. /\ s \in Child /\ s.k8s = main.spec
        /\ s.run = r.run /\ s.activeNodes = r.activeNodes /\ s.call = r.call
    BY DEF Child
  <2>2. r.k8s.match = main.spec.match
    BY <1>3 DEF NeedsRestart
  <2>3. ChildSound(s)
    <3>1. r.k8s = NoSpec => r.activeNodes = {} /\ r.run = "gone"
      BY <1>3 DEF ChildSound
    <3>2. s.k8s # NoSpec
      BY <2>1, SelectsNodes
    <3> HIDE DEF s
    <3> QED
      BY <1>3, <2>1, <2>2, <3>1, <3>2 DEF ChildSound
  <2> QED
    BY <1>3, <2>1, <2>3 DEF Updated
<1> QED
  BY <1>1, <1>2, <1>3

(* The number of children is bounded.                                       *)
LEMMA NextChild ==
    ASSUME born \in Nat, born < Cardinality(Children)
    PROVE  born + 1 \in Children
<1>1. Cardinality(Children) \in Nat
  BY ConstantsAssumption, FS_CardinalityType
<1> QED
  BY <1>1, ConstantsAssumption

(* A handler takes up a resource.                                           *)
LEMMA UpdateBegins ==
    ASSUME IInv, Update
    PROVE  IInv'
<1>1. CASE Known = {}
  <2>1. born + 1 \in Children /\ uid \in Nat /\ spec \in Specs
    BY <1>1, NextChild DEF IInv, TypeOK, Update
  <2>2. Frame
    BY <1>1, <2>1 DEF IInv, TypeOK, Update, Frame, apiVars, worldVars, MainSteps
  <2> QED
    BY <1>1, <2>1, <2>2, FreshChild, OneChild DEF Update
<1>2. CASE Known # {}
  <2> DEFINE c == CHOOSE c \in Known : TRUE
  <2>1. c \in Children
    BY <1>2 DEF IInv, TypeOK, Known
  <2>2. main' = [at |-> "update", on |-> c, spec |-> spec] /\ UNCHANGED <<children, born, child>>
    BY <1>2 DEF Update
  <2> HIDE DEF c
  <2>3. Frame
    BY <2>1, <2>2 DEF IInv, TypeOK, Update, Frame, apiVars, worldVars, MainSteps
  <2> QED
    BY <2>2, <2>3, Elsewhere
<1> QED
  BY <1>1, <1>2

(* The rest of the main goroutine.                                          *)
LEMMA UpdateSteps ==
    ASSUME IInv, UpdateLock \/ UpdateJoined \/ Start
    PROVE  IInv'
<1> DEFINE c == main.on
<1>1. c \in Children /\ child[c] \in Child /\ ChildSound(child[c])
  BY DEF IInv, TypeOK, UpdateLock, UpdateJoined, Start
<1>2. Frame
  BY DEF IInv, TypeOK, UpdateLock, UpdateJoined, Start, Frame, apiVars, worldVars, MainSteps, Idle
<1>3. CASE UpdateLock /\ NeedsRestart(child[c])
  <2> DEFINE r == [child[c] EXCEPT !.lock = "main", !.cancelled = TRUE]
  <2>1. r \in Child /\ ChildSound(r) /\ Set(c, r)
    BY <1>1, <1>3 DEF UpdateLock, Child, ChildSound
  <2> QED
    BY <1>1, <1>2, <2>1, OneChild
<1>4. CASE (UpdateLock /\ ~NeedsRestart(child[c])) \/ UpdateJoined
  <2>1. main.spec \in Specs /\ Set(c, Updated(child[c]))
    BY <1>4 DEF IInv, TypeOK, UpdateLock, UpdateJoined
  <2> QED
    BY <1>1, <1>2, <2>1, UpdatedSound, OneChild
<1>5. CASE Start
  <2> DEFINE r == IF child[c].run = "new" THEN [child[c] EXCEPT !.run = "sync"] ELSE child[c]
  <2>1. r \in Child /\ ChildSound(r) /\ Set(c, r)
    BY <1>1, <1>5 DEF Start, Child, ChildSound
  <2> QED
    BY <1>1, <1>2, <2>1, OneChild
<1> QED
  BY <1>3, <1>4, <1>5

(* Stopping a child.                                                        *)
LEMMA StopSteps ==
    ASSUME IInv, StopLock \/ StopJoined
    PROVE  IInv'
<1> DEFINE c == main.on
<1>1. c \in Children /\ child[c] \in Child /\ ChildSound(child[c])
  BY DEF IInv, TypeOK, StopLock, StopJoined
<1>2. Frame
  BY DEF IInv, TypeOK, StopLock, StopJoined, Frame, apiVars, worldVars, MainSteps, Idle
<1>3. CASE StopLock
  <2> DEFINE r == [child[c] EXCEPT !.lock = "main", !.timer = FALSE, !.cancelled = TRUE]
  <2>1. r \in Child /\ ChildSound(r) /\ Set(c, r)
    BY <1>1, <1>3 DEF StopLock, Child, ChildSound
  <2> QED
    BY <1>1, <1>2, <2>1, OneChild
<1>4. CASE StopJoined
  <2> DEFINE r == [child[c] EXCEPT !.lock = "free", !.run = "gone"]
  <2>1. r \in Child /\ ChildSound(r) /\ Set(c, r)
    BY <1>1, <1>4 DEF StopJoined, Child, ChildSound
  <2> QED
    BY <1>1, <1>2, <2>1, OneChild
<1> QED
  BY <1>3, <1>4

(* Steps that only move the main goroutine, the users or the nodes.         *)
LEMMA OtherSteps ==
    ASSUME IInv, Invalid \/ Return \/ (\E c \in Children : Delete(c)) \/ Environment
    PROVE  IInv'
<1>1. CASE Invalid
  <2>1. Known # {} => (CHOOSE c \in Known : TRUE) \in Children
    BY DEF IInv, TypeOK, Known
  <2>2. Frame /\ UNCHANGED child
    BY <1>1, <2>1 DEF IInv, TypeOK, Invalid, Frame, worldVars, MainSteps, Idle
  <2> QED
    BY <2>2, Elsewhere
<1>2. CASE Return \/ \E c \in Children : Delete(c)
  <2>1. Frame /\ UNCHANGED child
    BY <1>2 DEF IInv, TypeOK, Return, Delete, Frame, apiVars, worldVars, MainSteps, Idle
  <2> QED
    BY <2>1, Elsewhere
<1>3. CASE Environment
  <2>1. Frame /\ UNCHANGED child
    BY <1>3 DEF IInv, TypeOK, Environment, Flip, Edit, Create, Remove, Shutdown, Frame, apiVars,
                worldVars
  <2> QED
    BY <2>1, Elsewhere
<1> QED
  BY <1>1, <1>2, <1>3
-----------------------------------------------------------------------------
\* The variables that only users, nodes and the main goroutine write.
Others == UNCHANGED <<spec, uid, matching, children, born, main>>

(* A step of a goroutine that works on child c.                             *)
LEMMA GoroutineStep ==
    ASSUME IInv, NEW c \in Children, NEW r \in Child, ChildSound(r), Set(c, r), Others
    PROVE  IInv'
<1>1. Frame
  BY DEF IInv, TypeOK, Others, Frame
<1> QED
  BY <1>1, OneChild

(* The match controller calls the child.                                    *)
LEMMA CallSound ==
    ASSUME IInv, NEW c \in Children, NEW kind \in {"enable", "disable", "early"},
           NEW nodes \in SUBSET Nodes, NEW told \in SUBSET Nodes,
           child[c].k8s # NoSpec, Calls(c, kind, nodes, told), Others,
           kind = "enable" => nodes \subseteq Selects[child[c].k8s.match]
    PROVE  IInv'
<1> DEFINE r == [child[c] EXCEPT !.run = "call", !.call = Call(kind, nodes), !.told = told]
<1>1. child[c] \in Child /\ ChildSound(child[c])
  BY ChildFacts
<1>2. Call(kind, nodes).kind = kind /\ Call(kind, nodes).nodes = nodes
  BY DEF Call
<1>3. Call(kind, nodes) \in [kind : {"none", "enable", "disable", "early"}, nodes : SUBSET Nodes]
  BY DEF Call
<1>4. /\ r \in Child /\ r.call = Call(kind, nodes) /\ r.run = "call"
      /\ r.k8s = child[c].k8s /\ r.activeNodes = child[c].activeNodes
  BY <1>1, <1>3 DEF Child
<1>5. ChildSound(r)
  BY <1>1, <1>2, <1>4 DEF ChildSound
<1>6. Set(c, r)
  BY DEF Calls
<1> QED
  BY <1>4, <1>5, <1>6, GoroutineStep

(* The goroutine of the match controller.                                   *)
LEMMA MatcherStep ==
    ASSUME IInv, NEW c \in Children, Matcher(c)
    PROVE  IInv'
<1>1. child[c] \in Child /\ ChildSound(child[c])
  BY ChildFacts
<1>2. Others
  BY DEF Matcher, Bulk, Ends, Deliver, EarlyDisable, Changed, Others, apiVars, worldVars
<1>3. child[c].run \in {"sync", "call", "live"} => child[c].k8s # NoSpec
  BY <1>1 DEF ChildSound
<1>4. ASSUME child[c].k8s # NoSpec
      PROVE  Matches(child[c].k8s) \subseteq Nodes /\ Matches(child[c].k8s) \subseteq Selects[child[c].k8s.match]
  BY DEF IInv, TypeOK, Matches
<1>5. CASE Bulk(c)
  <2> DEFINE nodes == Matches(child[c].k8s)
  <2>1. child[c].k8s # NoSpec /\ Calls(c, "enable", nodes, nodes)
    BY <1>3, <1>5 DEF Bulk
  <2>2. nodes \subseteq Nodes /\ nodes \subseteq Selects[child[c].k8s.match]
    BY <1>4, <2>1
  <2> QED
    BY <1>2, <2>1, <2>2, CallSound
<1>6. ASSUME NEW n \in Nodes, EarlyDisable(c, n) PROVE IInv'
  <2>1. child[c].k8s # NoSpec /\ Calls(c, "early", {n}, {})
    BY <1>3, <1>6 DEF EarlyDisable
  <2> QED
    BY <1>2, <2>1, CallSound
<1>7. ASSUME NEW n \in Nodes, Changed(c, n) PROVE IInv'
  <2> DEFINE told == child[c].told
  <2>1. child[c].k8s # NoSpec /\ told \subseteq Nodes
    BY <1>1, <1>3, <1>7 DEF Changed, Child
  <2>2. CASE n \in Matches(child[c].k8s) \ told /\ Calls(c, "enable", {n}, told \cup {n})
    <3>1. {n} \subseteq Selects[child[c].k8s.match]
      BY <1>4, <2>1, <2>2
    <3> QED
      BY <1>2, <2>1, <2>2, <3>1, CallSound
  <2>3. CASE n \in told \ Matches(child[c].k8s) /\ Calls(c, "disable", {n}, told \ {n})
    BY <1>2, <2>1, <2>3, CallSound
  <2> QED
    BY <1>7, <2>2, <2>3 DEF Changed
<1>8. CASE Ends(c)
  <2> DEFINE r == [child[c] EXCEPT !.run = "gone"]
  <2>1. r \in Child /\ ChildSound(r) /\ Set(c, r)
    BY <1>1, <1>8 DEF Ends, Child, ChildSound
  <2> QED
    BY <1>2, <2>1, GoroutineStep
<1>9. CASE Deliver(c)
  <2> DEFINE nodes == IF child[c].call.kind = "enable" THEN child[c].activeNodes \cup child[c].call.nodes
                      ELSE child[c].activeNodes \ child[c].call.nodes
             r == [child[c] EXCEPT !.lock = "match", !.step = "ensure", !.activeNodes = nodes]
  <2>1. Set(c, r) /\ child[c].run = "call" /\ child[c].k8s # NoSpec
    BY <1>3, <1>9 DEF Deliver
  <2>2. nodes \subseteq Nodes /\ nodes \subseteq Selects[child[c].k8s.match]
    BY <1>1, <2>1 DEF Child, ChildSound
  <2> HIDE DEF nodes
  <2>3. /\ r \in Child /\ r.activeNodes = nodes /\ r.k8s = child[c].k8s
        /\ r.run = child[c].run /\ r.call = child[c].call
    BY <1>1, <2>2 DEF Child
  <2>4. ChildSound(r)
    BY <1>1, <2>1, <2>2, <2>3 DEF ChildSound
  <2> QED
    BY <1>2, <2>1, <2>3, <2>4, GoroutineStep
<1> QED
  BY <1>5, <1>6, <1>7, <1>8, <1>9 DEF Matcher

\* The child r has the spec, nodes and match controller that it had as q.
SameNodes(r, q) ==
    r.k8s = q.k8s /\ r.activeNodes = q.activeNodes /\ r.run = q.run /\ r.call = q.call

(* Timers and applyDNS leave those alone.                                   *)
LEMMA SameSound ==
    ASSUME NEW r, NEW q, ChildSound(q), SameNodes(r, q), q.k8s # NoSpec
    PROVE  ChildSound(r)
  BY DEF ChildSound, SameNodes

(* The retry timers.                                                        *)
LEMMA TimerStep ==
    ASSUME IInv, NEW c \in Children, Timer(c)
    PROVE  IInv'
<1>1. child[c] \in Child /\ ChildSound(child[c])
  BY ChildFacts
<1>2. Others
  BY DEF Timer, TimerFires, Retry, Others, apiVars, worldVars
<1>3. SUFFICES \E r \in Child : ChildSound(r) /\ Set(c, r)
  BY <1>2, GoroutineStep
<1> DEFINE more == child[c].fired + 1
           fewer == child[c].fired - 1
           left == child[c].lost - 1
<1>7. /\ more \in Nat
      /\ child[c].fired > 0 => fewer \in Nat
      /\ child[c].lost > 0 => left \in Nat
  BY <1>1 DEF Child
<1>4. CASE child[c].timer /\ Set(c, [child[c] EXCEPT !.timer = FALSE, !.fired = @ + 1])
  <2> DEFINE r == [child[c] EXCEPT !.timer = FALSE, !.fired = more]
  <2>1. Set(c, r)
    BY <1>4
  <2>2. child[c].k8s # NoSpec
    BY <1>1, <1>4 DEF ChildSound
  <2> HIDE DEF more
  <2>3. r \in Child /\ SameNodes(r, child[c])
    BY <1>1, <1>7 DEF Child, SameNodes
  <2> QED
    BY <1>1, <2>1, <2>2, <2>3, SameSound
<1>5. CASE child[c].lost > 0 /\ Set(c, [child[c] EXCEPT !.lost = @ - 1, !.fired = @ + 1])
  <2> DEFINE r == [child[c] EXCEPT !.lost = left, !.fired = more]
  <2>1. Set(c, r)
    BY <1>5
  <2>2. child[c].k8s # NoSpec
    BY <1>1, <1>5 DEF ChildSound
  <2> HIDE DEF more, left
  <2>3. r \in Child /\ SameNodes(r, child[c])
    BY <1>1, <1>5, <1>7 DEF Child, SameNodes
  <2> QED
    BY <1>1, <2>1, <2>2, <2>3, SameSound
<1>6. CASE Retry(c)
  <2> DEFINE r == [child[c] EXCEPT !.fired = fewer, !.lock = "timer", !.step = "ensure"]
  <2>1. Set(c, r) /\ child[c].fired > 0
    BY <1>6 DEF Retry
  <2>2. child[c].k8s # NoSpec
    BY <1>1, <2>1 DEF ChildSound
  <2> HIDE DEF fewer
  <2>3. r \in Child /\ SameNodes(r, child[c])
    BY <1>1, <1>7, <2>1 DEF Child, SameNodes
  <2> QED
    BY <1>1, <2>1, <2>2, <2>3, SameSound
<1> QED
  BY <1>4, <1>5, <1>6 DEF Timer, TimerFires

(* applyDNS.                                                                *)
LEMMA ApplyStep ==
    ASSUME IInv, NEW c \in Children, Apply(c)
    PROVE  IInv'
<1>1. child[c] \in Child /\ ChildSound(child[c])
  BY ChildFacts
<1>2. Others
  BY DEF Apply, Ensured, EnsureFails, StatusWritten, StatusFails, Others, apiVars, worldVars
<1>3. child[c].k8s # NoSpec
  BY <1>1 DEF Apply, Ensured, EnsureFails, StatusWritten, StatusFails, ChildSound
<1>4. SUFFICES \E r \in Child : ChildSound(r) /\ Set(c, r)
  BY <1>2, GoroutineStep
<1>5. CASE Ensured(c)
  BY <1>1, <1>3, <1>5 DEF Ensured, Child, ChildSound
<1>6. CASE EnsureFails(c)
  <2> DEFINE more == IF child[c].timer THEN child[c].lost + 1 ELSE child[c].lost
             tries == IF child[c].retries < FastLen THEN child[c].retries + 1 ELSE child[c].retries
             q == [child[c] EXCEPT !.step = "status", !.ok = FALSE, !.timer = TRUE]
             r == [q EXCEPT !.lost = more, !.retries = tries]
  <2>2. more \in Nat /\ tries \in 0 .. FastLen
    BY <1>1, ConstantsAssumption DEF Child
  <2>3. WithTimer(child[c]) = r
    BY <1>1 DEF WithTimer, Child
  <2>4. q \in Child /\ SameNodes(q, child[c])
    BY <1>1 DEF Child, SameNodes
  <2> HIDE DEF more, tries, q
  <2>5. r \in Child
    BY <2>2, <2>4 DEF Child
  <2>6. SameNodes(r, q)
    BY <2>4 DEF Child, SameNodes
  <2>1. WithTimer(child[c]) \in Child /\ SameNodes(WithTimer(child[c]), child[c])
    BY <2>3, <2>4, <2>5, <2>6 DEF SameNodes
  <2> QED
    BY <1>1, <1>3, <1>6, <2>1, SameSound DEF EnsureFails
<1>7. CASE StatusWritten(c) \/ StatusFails(c)
  <2> DEFINE u == Unlocked(child[c])
  <2>1. /\ u \in Child /\ u.k8s = child[c].k8s /\ u.activeNodes = child[c].activeNodes
        /\ u.run = child[c].run \/ u.run \in {"sync", "live"}
        /\ u.run = child[c].run => u.call \in {child[c].call, NoCall}
    BY <1>1 DEF Unlocked, Child, NoCall
  <2>2. u.run # "none" \/ u.activeNodes = {}
    BY <1>1, <2>1 DEF ChildSound
  <2>3. ChildSound(u)
    BY <1>1, <1>3, <2>1, <2>2 DEF ChildSound, NoCall
  <2> HIDE DEF u
  <2>4. [u EXCEPT !.retries = 0] \in Child /\ ChildSound([u EXCEPT !.retries = 0])
    BY <2>1, <2>3, ConstantsAssumption DEF Child, ChildSound
  <2> QED
    BY <1>7, <2>1, <2>3, <2>4 DEF StatusWritten, StatusFails, u
<1> QED
  BY <1>5, <1>6, <1>7 DEF Apply
-----------------------------------------------------------------------------
(* The process dies over a tombstone and starts again.                      *)
LEMMA DiesSound ==
    ASSUME IInv, OnDeleteUnknown
    PROVE  IInv'
<1>1. \A c \in Children : child'[c] \in Child /\ ChildSound(child'[c])
  BY FreshChild DEF OnDeleteUnknown
<1>2. TypeOK'
  BY <1>1, ConstantsAssumption DEF IInv, TypeOK, OnDeleteUnknown, apiVars, MainSteps
<1> QED
  BY <1>1, <1>2 DEF IInv

(* Every step keeps the invariant.                                          *)
LEMMA NextIInv == IInv /\ [Next]_vars => IInv'
<1> SUFFICES ASSUME IInv, [Next]_vars PROVE IInv'
  OBVIOUS
<1>1. CASE Main
  BY <1>1, UpdateBegins, UpdateSteps, StopSteps, OtherSteps DEF Main
<1>2. CASE Environment
  BY <1>2, OtherSteps
<1>3. ASSUME NEW c \in Children, Matcher(c) \/ Timer(c) \/ Apply(c) PROVE IInv'
  BY <1>3, MatcherStep, TimerStep, ApplyStep
<1>4. CASE UNCHANGED vars
  BY <1>4, Elsewhere DEF vars, apiVars, worldVars, IInv, TypeOK, Frame
<1> QED
  BY <1>1, <1>2, <1>3, <1>4, DiesSound DEF Next

(* Types of the children of a NodeDNSRecordSet controller.                  *)
THEOREM ChildrenTypeCorrect == Spec => []TypeOK
<1>1. IInv => TypeOK
  BY DEF IInv
<1> QED
  BY <1>1, InitIInv, NextIInv, PTL DEF Spec

(* Whatever fails, is edited, deleted, missed or cancelled, and however the *)
(* goroutines interleave: a child of the NodeDNSRecordSet controller holds  *)
(* no node that its current criteria do not select.                         *)
THEOREM StaleNodesForgotten == Spec => []NoStaleNodes
<1>1. IInv => NoStaleNodes
  BY DEF IInv, ChildSound, NoStaleNodes
<1> QED
  BY <1>1, InitIInv, NextIInv, PTL DEF Spec
-----------------------------------------------------------------------------
(* What the goroutines do to a child, field by field.                       *)

\* A retry is due, or about to run.
Pending(r) == r.timer \/ r.lost > 0 \/ r.fired > 0

Only(c) == \A e \in Children : e # c => child'[e] = child[e]
SameSpec(r, q) == r.uid = q.uid /\ r.k8s = q.k8s
SameTimers(r, q) == r.timer = q.timer /\ r.lost = q.lost /\ r.fired = q.fired
SameLock(r, q) == r.lock = q.lock /\ r.step = q.step /\ r.ok = q.ok
SameMatcher(r, q) == r.run = q.run /\ r.call = q.call /\ r.told = q.told

(* A step that sets one child.                                              *)
LEMMA SetOnly ==
    ASSUME IInv, NEW c \in Children, NEW r, Set(c, r)
    PROVE  child'[c] = r /\ Only(c)
  BY DEF IInv, TypeOK, Set, Only

\* A call of the match controller, on its way to the child.
CallEffect(c) ==
    LET old == child[c]  new == child'[c]  nodes == Matches(child[c].k8s) IN
    /\ SameLock(new, old) /\ new.activeNodes = old.activeNodes /\ new.run = "call"
    /\ \/ old.run = "sync" /\ new.call.kind = "enable" /\ new.call.nodes = nodes /\ new.told = nodes
       \/ old.run = "sync" /\ new.call.kind = "early" /\ new.told = {} /\ "early" \in events
       \/ \E n \in nodes \ old.told : /\ old.run = "live" /\ new.call.kind = "enable"
                                      /\ new.call.nodes = {n} /\ new.told = old.told \cup {n}
       \/ \E n \in old.told \ nodes : /\ old.run = "live" /\ new.call.kind = "disable"
                                      /\ new.call.nodes = {n} /\ new.told = old.told \ {n}

DeliverEffect(c) ==
    LET old == child[c]  new == child'[c] IN
    /\ old.run = "call" /\ old.lock = "free" /\ new.lock = "match" /\ new.step = "ensure" /\ SameMatcher(new, old)
    /\ new.activeNodes = IF old.call.kind = "enable" THEN old.activeNodes \cup old.call.nodes
                         ELSE old.activeNodes \ old.call.nodes

EndEffect(c) ==
    LET old == child[c]  new == child'[c] IN
    new.run = "gone" /\ SameLock(new, old) /\ old.run \in {"sync", "live"} /\ new.activeNodes = old.activeNodes

MatcherEffect(c) ==
    /\ Only(c) /\ SameSpec(child'[c], child[c]) /\ SameTimers(child'[c], child[c])
    /\ UNCHANGED <<spec, uid, status, matching, record, children, main, down, events>>
    /\ CallEffect(c) \/ DeliverEffect(c) \/ EndEffect(c)

(* The calls.                                                               *)
LEMMA CallIs ==
    ASSUME IInv, NEW c \in Children, NEW kind \in {"enable", "disable", "early"}, NEW nodes \in SUBSET Nodes,
           NEW told \in SUBSET Nodes, Calls(c, kind, nodes, told)
    PROVE  LET old == child[c]  new == child'[c] IN
           /\ Only(c) /\ SameSpec(new, old) /\ SameTimers(new, old) /\ SameLock(new, old)
           /\ new.activeNodes = old.activeNodes /\ new.run = "call"
           /\ new.call.kind = kind /\ new.call.nodes = nodes /\ new.told = told
<1> DEFINE r == [child[c] EXCEPT !.run = "call", !.call = Call(kind, nodes), !.told = told]
<1>1. child[c] \in Child /\ Call(kind, nodes).kind = kind /\ Call(kind, nodes).nodes = nodes
  BY ChildFacts DEF Call
<1>2. child'[c] = r /\ Only(c)
  BY SetOnly DEF Calls
<1>3. r.call = Call(kind, nodes) /\ r.told = told /\ r.run = "call" /\ r.activeNodes = child[c].activeNodes
  BY <1>1 DEF Child
<1>4. SameSpec(r, child[c]) /\ SameTimers(r, child[c]) /\ SameLock(r, child[c])
  BY <1>1 DEF Child, SameSpec, SameTimers, SameLock
<1> QED
  BY <1>1, <1>2, <1>3, <1>4

(* The goroutine of the match controller.                                   *)
LEMMA MatcherDoes ==
    ASSUME IInv, NEW c \in Children, Matcher(c)
    PROVE  MatcherEffect(c)
<1>1. child[c] \in Child /\ ChildSound(child[c])
  BY ChildFacts
<1>2. UNCHANGED <<spec, uid, status, matching, record, children, main, down, events>>
  BY DEF Matcher, Bulk, Ends, Deliver, EarlyDisable, Changed, apiVars, worldVars, runVars
<1>3. child[c].run \in {"sync", "live"} => Matches(child[c].k8s) \subseteq Nodes
  BY DEF IInv, TypeOK, Matches
<1>4. CASE Bulk(c)
  <2> DEFINE nodes == Matches(child[c].k8s)
  <2>1. child[c].run = "sync" /\ Calls(c, "enable", nodes, nodes) /\ nodes \subseteq Nodes
    BY <1>3, <1>4 DEF Bulk
  <2> HIDE DEF nodes
  <2>2. /\ Only(c) /\ SameSpec(child'[c], child[c]) /\ SameTimers(child'[c], child[c])
        /\ SameLock(child'[c], child[c]) /\ child'[c].activeNodes = child[c].activeNodes /\ child'[c].run = "call"
        /\ child'[c].call.kind = "enable" /\ child'[c].call.nodes = nodes /\ child'[c].told = nodes
    BY <2>1, CallIs
  <2> QED
    BY <1>2, <2>1, <2>2 DEF MatcherEffect, CallEffect, nodes
<1>5. ASSUME NEW n \in Nodes, EarlyDisable(c, n) PROVE MatcherEffect(c)
  <2>1. child[c].run = "sync" /\ Calls(c, "early", {n}, {}) /\ "early" \in events
    BY <1>5 DEF EarlyDisable, Event
  <2>2. /\ Only(c) /\ SameSpec(child'[c], child[c]) /\ SameTimers(child'[c], child[c])
        /\ SameLock(child'[c], child[c]) /\ child'[c].activeNodes = child[c].activeNodes /\ child'[c].run = "call"
        /\ child'[c].call.kind = "early" /\ child'[c].told = {}
    BY <2>1, CallIs
  <2> QED
    BY <1>2, <2>1, <2>2 DEF MatcherEffect, CallEffect
<1>6. ASSUME NEW n \in Nodes, Changed(c, n) PROVE MatcherEffect(c)
  <2> DEFINE told == child[c].told
             nodes == Matches(child[c].k8s)
  <2>1. child[c].run = "live" /\ told \subseteq Nodes
    BY <1>1, <1>6 DEF Changed, Child
  <2> HIDE DEF told, nodes
  <2>2. CASE n \in nodes \ told /\ Calls(c, "enable", {n}, told \cup {n})
    <3>1. /\ Only(c) /\ SameSpec(child'[c], child[c]) /\ SameTimers(child'[c], child[c])
          /\ SameLock(child'[c], child[c]) /\ child'[c].activeNodes = child[c].activeNodes /\ child'[c].run = "call"
          /\ child'[c].call.kind = "enable" /\ child'[c].call.nodes = {n} /\ child'[c].told = told \cup {n}
      BY <2>1, <2>2, CallIs
    <3> QED
      BY <1>2, <2>1, <2>2, <3>1 DEF MatcherEffect, CallEffect, told, nodes
  <2>3. CASE n \in told \ nodes /\ Calls(c, "disable", {n}, told \ {n})
    <3>1. /\ Only(c) /\ SameSpec(child'[c], child[c]) /\ SameTimers(child'[c], child[c])
          /\ SameLock(child'[c], child[c]) /\ child'[c].activeNodes = child[c].activeNodes /\ child'[c].run = "call"
          /\ child'[c].call.kind = "disable" /\ child'[c].call.nodes = {n} /\ child'[c].told = told \ {n}
      BY <2>1, <2>3, CallIs
    <3> QED
      BY <1>2, <2>1, <2>3, <3>1 DEF MatcherEffect, CallEffect, told, nodes
  <2> QED
    BY <1>6, <2>2, <2>3 DEF Changed, told, nodes
<1>7. CASE Ends(c)
  <2> DEFINE r == [child[c] EXCEPT !.run = "gone"]
  <2>1. child'[c] = r /\ Only(c) /\ child[c].run \in {"sync", "live"}
    BY <1>7, SetOnly DEF Ends
  <2>2. /\ SameSpec(r, child[c]) /\ SameTimers(r, child[c]) /\ SameLock(r, child[c]) /\ r.run = "gone"
        /\ r.activeNodes = child[c].activeNodes
    BY <1>1 DEF Child, SameSpec, SameTimers, SameLock
  <2> QED
    BY <1>2, <2>1, <2>2 DEF MatcherEffect, EndEffect
<1>8. CASE Deliver(c)
  <2> DEFINE nodes == IF child[c].call.kind = "enable" THEN child[c].activeNodes \cup child[c].call.nodes
                      ELSE child[c].activeNodes \ child[c].call.nodes
             r == [child[c] EXCEPT !.lock = "match", !.step = "ensure", !.activeNodes = nodes]
  <2>1. child'[c] = r /\ Only(c) /\ child[c].run = "call" /\ child[c].lock = "free"
    BY <1>8, SetOnly DEF Deliver
  <2>2. /\ SameSpec(r, child[c]) /\ SameTimers(r, child[c]) /\ r.lock = "match" /\ r.step = "ensure"
        /\ SameMatcher(r, child[c]) /\ r.activeNodes = nodes
    BY <1>1 DEF Child, SameSpec, SameTimers, SameMatcher
  <2> QED
    BY <1>2, <2>1, <2>2 DEF MatcherEffect, DeliverEffect
<1> QED
  BY <1>4, <1>5, <1>6, <1>7, <1>8 DEF Matcher

\* The retry timers.
FireEffect(c) == SameLock(child'[c], child[c]) /\ Pending(child[c]) /\ Pending(child'[c])
RetryEffect(c) ==
    Pending(child[c]) /\ child[c].lock = "free" /\ child'[c].lock = "timer" /\ child'[c].step = "ensure"

TimerEffect(c) ==
    /\ Only(c) /\ SameSpec(child'[c], child[c]) /\ SameMatcher(child'[c], child[c])
    /\ child'[c].activeNodes = child[c].activeNodes
    /\ UNCHANGED <<spec, uid, status, matching, record, children, main, down, events>>
    /\ FireEffect(c) \/ RetryEffect(c)

(* The goroutines of the retry timers.                                      *)
LEMMA TimerDoes ==
    ASSUME IInv, NEW c \in Children, Timer(c)
    PROVE  TimerEffect(c)
<1>1. child[c] \in Child
  BY ChildFacts
<1>2. UNCHANGED <<spec, uid, status, matching, record, children, main, down, events>>
  BY DEF Timer, TimerFires, Retry, apiVars, worldVars, runVars
<1> DEFINE more == child[c].fired + 1
           fewer == child[c].fired - 1
           left == child[c].lost - 1
<1>3. child[c].fired \in Nat /\ more > 0
  BY <1>1 DEF Child
<1> HIDE DEF more, fewer, left
<1>4. CASE child[c].timer /\ Set(c, [child[c] EXCEPT !.timer = FALSE, !.fired = @ + 1])
  <2> DEFINE r == [child[c] EXCEPT !.timer = FALSE, !.fired = more]
  <2>1. child'[c] = r /\ Only(c)
    BY <1>4, SetOnly DEF more
  <2>2. SameSpec(r, child[c]) /\ SameMatcher(r, child[c]) /\ SameLock(r, child[c])
        /\ r.activeNodes = child[c].activeNodes /\ r.fired = more
    BY <1>1 DEF Child, SameSpec, SameMatcher, SameLock
  <2> QED
    BY <1>2, <1>3, <1>4, <2>1, <2>2 DEF TimerEffect, FireEffect, Pending
<1>5. CASE child[c].lost > 0 /\ Set(c, [child[c] EXCEPT !.lost = @ - 1, !.fired = @ + 1])
  <2> DEFINE r == [child[c] EXCEPT !.lost = left, !.fired = more]
  <2>1. child'[c] = r /\ Only(c)
    BY <1>5, SetOnly DEF more, left
  <2>2. SameSpec(r, child[c]) /\ SameMatcher(r, child[c]) /\ SameLock(r, child[c])
        /\ r.activeNodes = child[c].activeNodes /\ r.fired = more
    BY <1>1 DEF Child, SameSpec, SameMatcher, SameLock
  <2> QED
    BY <1>2, <1>3, <1>5, <2>1, <2>2 DEF TimerEffect, FireEffect, Pending
<1>6. CASE Retry(c)
  <2> DEFINE r == [child[c] EXCEPT !.fired = fewer, !.lock = "timer", !.step = "ensure"]
  <2>1. child'[c] = r /\ Only(c) /\ child[c].fired > 0 /\ child[c].lock = "free"
    BY <1>6, SetOnly DEF Retry, fewer
  <2>2. SameSpec(r, child[c]) /\ SameMatcher(r, child[c])
        /\ r.activeNodes = child[c].activeNodes /\ r.lock = "timer" /\ r.step = "ensure"
    BY <1>1 DEF Child, SameSpec, SameMatcher
  <2> QED
    BY <1>2, <2>1, <2>2 DEF TimerEffect, RetryEffect, Pending
<1> QED
  BY <1>4, <1>5, <1>6 DEF Timer, TimerFires
\* applyDNS.
EnsureEffect(c) ==
    LET old == child[c]  new == child'[c] IN
    /\ old.step = "ensure" /\ new.step = "status" /\ new.lock = old.lock /\ SameMatcher(new, old)
    /\ UNCHANGED status
    /\ \/ /\ ~down /\ new.ok = TRUE /\ SameTimers(new, old)
          /\ record' = [record EXCEPT ![old.k8s.dns] = ips(old)]
       \/ /\ new.ok = FALSE /\ Pending(new)
          /\ \/ down /\ UNCHANGED record
             \/ /\ ~down /\ "dns" \in events
                /\ \E left \in SUBSET (record[old.k8s.dns] \cup ips(old)) :
                     /\ record[old.k8s.dns] \cap ips(old) \subseteq left
                     /\ record' = [record EXCEPT ![old.k8s.dns] = left]

StatusEffect(c) ==
    LET old == child[c]  new == child'[c] IN
    /\ old.step = "status" /\ new.step = "none" /\ new.lock = "free" /\ SameTimers(new, old) /\ UNCHANGED record
    /\ new.told = old.told
    /\ old.lock = "timer" => new.run = old.run /\ new.call = old.call
    /\ old.lock # "timer" => new.run = IF old.call.kind = "early" THEN "sync" ELSE "live"
    /\ \/ spec # NoSpec /\ status' = IF old.ok THEN "active" ELSE "in-progress"
       \/ (down \/ spec = NoSpec \/ "status" \in events) /\ UNCHANGED status

ApplyEffect(c) ==
    /\ Only(c) /\ SameSpec(child'[c], child[c]) /\ child[c].k8s \in Specs
    /\ child'[c].activeNodes = child[c].activeNodes
    /\ UNCHANGED <<spec, uid, matching, children, main, down, events>>
    /\ EnsureEffect(c) \/ StatusEffect(c)

(* The update of the records, and of the status.                            *)
LEMMA ApplyDoes ==
    ASSUME IInv, NEW c \in Children, Apply(c)
    PROVE  ApplyEffect(c)
<1>1. child[c] \in Child /\ child[c].k8s \in Specs
  <2>1. child[c] \in Child /\ ChildSound(child[c])
    BY ChildFacts
  <2>2. child[c].k8s # NoSpec
    BY <2>1 DEF Apply, Ensured, EnsureFails, StatusWritten, StatusFails, ChildSound
  <2> QED
    BY <2>1, <2>2 DEF Child
<1>2. UNCHANGED <<spec, uid, matching, children, main, down, events>>
  BY DEF Apply, Ensured, EnsureFails, StatusWritten, StatusFails, apiVars, worldVars, runVars
<1> DEFINE q == child[c]
<1>3. CASE Ensured(c)
  <2> DEFINE r == [q EXCEPT !.step = "status", !.ok = TRUE]
  <2>1. /\ child'[c] = r /\ Only(c) /\ q.step = "ensure" /\ ~down /\ UNCHANGED status
        /\ record' = [record EXCEPT ![q.k8s.dns] = ips(q)]
    BY <1>3, SetOnly DEF Ensured, apiVars
  <2>2. /\ SameSpec(r, q) /\ SameTimers(r, q) /\ SameMatcher(r, q) /\ r.lock = q.lock
        /\ r.activeNodes = q.activeNodes /\ r.step = "status" /\ r.ok = TRUE
    BY <1>1 DEF Child, SameSpec, SameTimers, SameMatcher
  <2> QED
    BY <1>1, <1>2, <2>1, <2>2 DEF ApplyEffect, EnsureEffect
<1>4. CASE EnsureFails(c)
  <2> DEFINE r == WithTimer(q)
  <2>1. /\ child'[c] = r /\ Only(c) /\ q.step = "ensure" /\ UNCHANGED status
    BY <1>4, SetOnly DEF EnsureFails, apiVars
  <2>2. \/ down /\ UNCHANGED record
        \/ /\ ~down /\ "dns" \in events
           /\ \E left \in SUBSET (record[q.k8s.dns] \cup ips(q)) :
                /\ record[q.k8s.dns] \cap ips(q) \subseteq left
                /\ record' = [record EXCEPT ![q.k8s.dns] = left]
    BY <1>4 DEF EnsureFails, CutShort, Event
  <2>3. /\ SameSpec(r, q) /\ SameMatcher(r, q) /\ r.lock = q.lock
        /\ r.activeNodes = q.activeNodes /\ r.step = "status" /\ r.ok = FALSE /\ r.timer = TRUE
    <3> DEFINE more == IF q.timer THEN q.lost + 1 ELSE q.lost
               tries == IF q.retries < FastLen THEN q.retries + 1 ELSE q.retries
               s == [q EXCEPT !.step = "status", !.ok = FALSE, !.timer = TRUE]
               t == [s EXCEPT !.lost = more, !.retries = tries]
    <3>1. r = t
      BY <1>1 DEF WithTimer, Child
    <3>2. s \in Child /\ s.step = "status" /\ s.ok = FALSE /\ s.timer = TRUE /\ s.lock = q.lock
          /\ s.activeNodes = q.activeNodes /\ SameSpec(s, q) /\ SameMatcher(s, q)
      BY <1>1 DEF Child, SameSpec, SameMatcher
    <3> HIDE DEF more, tries, s
    <3>3. t.step = s.step /\ t.ok = s.ok /\ t.timer = s.timer /\ t.lock = s.lock /\ t.activeNodes = s.activeNodes
          /\ SameSpec(t, s) /\ SameMatcher(t, s)
      BY <3>2 DEF Child, SameSpec, SameMatcher
    <3> HIDE DEF t
    <3> QED
      BY <3>1, <3>2, <3>3 DEF SameSpec, SameMatcher
  <2> HIDE DEF r, q
  <2> QED
    BY <1>1, <1>2, <2>1, <2>2, <2>3 DEF ApplyEffect, EnsureEffect, Pending, q
<1>5. CASE StatusWritten(c) \/ StatusFails(c)
  <2> DEFINE u == Unlocked(q)
             v == [u EXCEPT !.retries = 0]
  <2>1. /\ u \in Child /\ SameSpec(u, q) /\ u.activeNodes = q.activeNodes /\ SameTimers(u, q)
        /\ u.step = "none" /\ u.lock = "free" /\ u.told = q.told
        /\ q.lock = "timer" => u.run = q.run /\ u.call = q.call
        /\ q.lock # "timer" => u.run = IF q.call.kind = "early" THEN "sync" ELSE "live"
    BY <1>1 DEF Unlocked, Child, NoCall, SameSpec, SameTimers
  <2> HIDE DEF u
  <2>2. /\ SameSpec(v, u) /\ v.activeNodes = u.activeNodes /\ SameTimers(v, u)
        /\ v.step = u.step /\ v.lock = u.lock /\ v.told = u.told /\ v.run = u.run /\ v.call = u.call
    BY <2>1 DEF Child, SameSpec, SameTimers
  <2>3. /\ child'[c] \in {u, v} /\ Only(c) /\ q.step = "status" /\ UNCHANGED record
        /\ \/ spec # NoSpec /\ status' = IF q.ok THEN "active" ELSE "in-progress"
           \/ (down \/ spec = NoSpec \/ "status" \in events) /\ UNCHANGED status
    BY <1>5, SetOnly DEF StatusWritten, StatusFails, Event, worldVars, apiVars, u
  <2> HIDE DEF v, q
  <2>4. LET r == child'[c] IN
        /\ SameSpec(r, q) /\ r.activeNodes = q.activeNodes /\ SameTimers(r, q)
        /\ r.step = "none" /\ r.lock = "free" /\ r.told = q.told
        /\ q.lock = "timer" => r.run = q.run /\ r.call = q.call
        /\ q.lock # "timer" => r.run = IF q.call.kind = "early" THEN "sync" ELSE "live"
    BY <2>1, <2>2, <2>3 DEF SameSpec, SameTimers
  <2> QED
    BY <1>1, <1>2, <2>3, <2>4 DEF ApplyEffect, StatusEffect, q
<1> QED
  BY <1>3, <1>4, <1>5 DEF Apply

(* The main goroutine's steps on a child.                                   *)
\* A child that was never updated, one whose match controller is replaced,
\* and one that only gets the new spec.
UpdatedEffect(c) ==
    LET old == child[c]  new == child'[c] IN
    /\ main'.at = "start" /\ main.spec \in Specs
    /\ new.k8s = main.spec /\ new.ok = old.ok /\ new.step = old.step /\ new.lost = old.lost /\ new.fired = old.fired
    /\ \/ old.run = "none" /\ new.run = "new" /\ new.activeNodes = old.activeNodes /\ new.told = old.told
            /\ new.lock = old.lock /\ new.timer = FALSE
       \/ NeedsRestart(old) /\ new.run = "new" /\ new.activeNodes = {} /\ new.told = {} /\ new.lock = "free"
            /\ new.timer = FALSE
       \/ ~NeedsRestart(old) /\ old.run # "none" /\ SameMatcher(new, old) /\ new.activeNodes = old.activeNodes
            /\ new.lock = old.lock /\ new.timer = old.timer

\* The lock, to wait for the match controller.
HoldEffect(c) ==
    LET old == child[c]  new == child'[c] IN
    /\ old.lock = "free" /\ new.lock = "main" /\ new.step = old.step /\ new.ok = old.ok /\ new.k8s = old.k8s
    /\ SameMatcher(new, old) /\ new.activeNodes = old.activeNodes
    /\ new.lost = old.lost /\ new.fired = old.fired
    /\ \/ main.at = "update" /\ main'.at = "join" /\ new.timer = old.timer /\ NeedsRestart(old)
       \/ main.at = "stop" /\ main'.at = "stopJoin" /\ new.timer = FALSE

StartEffect(c) ==
    LET old == child[c]  new == child'[c] IN
    /\ main.at = "start" /\ main' = Idle
    /\ SameLock(new, old) /\ SameTimers(new, old) /\ new.k8s = old.k8s
    /\ new.activeNodes = old.activeNodes /\ new.told = old.told /\ new.call = old.call
    /\ new.run = IF old.run = "new" THEN "sync" ELSE old.run

UpdateEffect(c) ==
    /\ c = main.on /\ c \in Children /\ Only(c) /\ child'[c].uid = child[c].uid
    /\ UNCHANGED <<spec, uid, status, matching, record, children, down, events>>
    /\ \/ UpdatedEffect(c) /\ main' = [main EXCEPT !.at = "start"]
            /\ ((main.at = "update" /\ child[c].lock = "free" /\ ~NeedsRestart(child[c]))
                \/ (main.at = "join" /\ Ended(child[c])))
       \/ HoldEffect(c) /\ main'.on = c /\ main'.spec = main.spec
       \/ StartEffect(c)

(* The main goroutine, between two locks or joins.                          *)
LEMMA UpdateDoes ==
    ASSUME IInv, UpdateLock \/ UpdateJoined \/ Start \/ StopLock
    PROVE  UpdateEffect(main.on)
<1> DEFINE c == main.on
           q == child[c]
<1>1. c \in Children /\ q \in Child
  BY DEF IInv, TypeOK, UpdateLock, UpdateJoined, Start, StopLock
<1>2. UNCHANGED <<spec, uid, status, matching, record, children, down, events>>
  BY DEF UpdateLock, UpdateJoined, Start, StopLock, apiVars, worldVars, runVars
<1>3. main \in [at : MainSteps, on : Children \cup {0}, spec : Specs \cup {NoSpec}]
  BY DEF IInv, TypeOK
<1>4. CASE (UpdateLock /\ NeedsRestart(q)) \/ StopLock
  <2> DEFINE r == [q EXCEPT !.lock = "main", !.cancelled = TRUE]
             s == [q EXCEPT !.lock = "main", !.timer = FALSE, !.cancelled = TRUE]
  <2>1. /\ q.lock = "free"
        /\ \/ Set(c, r) /\ main' = [main EXCEPT !.at = "join"] /\ main.at = "update" /\ NeedsRestart(q)
           \/ Set(c, s) /\ main' = [main EXCEPT !.at = "stopJoin"] /\ main.at = "stop"
    BY <1>4 DEF UpdateLock, StopLock
  <2>2. /\ r.lock = "main" /\ r.step = q.step /\ r.ok = q.ok /\ SameSpec(r, q) /\ SameMatcher(r, q)
        /\ r.activeNodes = q.activeNodes /\ r.lost = q.lost /\ r.fired = q.fired /\ r.timer = q.timer
    BY <1>1 DEF Child, SameSpec, SameMatcher
  <2>3. /\ s.lock = "main" /\ s.step = q.step /\ s.ok = q.ok /\ SameSpec(s, q) /\ SameMatcher(s, q)
        /\ s.activeNodes = q.activeNodes /\ s.lost = q.lost /\ s.fired = q.fired /\ s.timer = FALSE
    BY <1>1 DEF Child, SameSpec, SameMatcher
  <2>4. main'.on = c /\ main'.spec = main.spec /\ (main.at = "update" => main'.at = "join")
        /\ (main.at = "stop" => main'.at = "stopJoin")
    BY <1>3, <2>1
  <2> HIDE DEF r, s
  <2>5. Only(c) /\ ((child'[c] = r /\ main.at = "update" /\ NeedsRestart(q)) \/ (child'[c] = s /\ main.at = "stop"))
    BY <1>1, <2>1, SetOnly
  <2> QED
    BY <1>1, <1>2, <2>1, <2>2, <2>3, <2>4, <2>5 DEF UpdateEffect, HoldEffect, SameSpec
<1>5. CASE (UpdateLock /\ ~NeedsRestart(q)) \/ UpdateJoined
  <2>1. /\ main.spec \in Specs /\ Set(c, Updated(q)) /\ main' = [main EXCEPT !.at = "start"]
        /\ ((main.at = "update" /\ q.lock = "free" /\ ~NeedsRestart(q)) \/ (main.at = "join" /\ Ended(q)))
    BY <1>5 DEF IInv, TypeOK, UpdateLock, UpdateJoined
  <2>2. main'.at = "start"
    BY <1>3, <2>1
  <2>3. child'[c] = Updated(q) /\ Only(c)
    BY <1>1, <2>1, SetOnly
  <2>4. CASE q.run = "none"
    <3> DEFINE s == [q EXCEPT !.k8s = main.spec, !.run = "new", !.timer = FALSE]
    <3>1. child'[c] = s
      BY <2>3, <2>4 DEF Updated
    <3>2. /\ s.k8s = main.spec /\ s.uid = q.uid /\ s.ok = q.ok /\ s.step = q.step /\ s.lost = q.lost
          /\ s.fired = q.fired /\ s.run = "new" /\ s.activeNodes = q.activeNodes /\ s.told = q.told
          /\ s.lock = q.lock /\ s.timer = FALSE
      BY <1>1 DEF Child
    <3> HIDE DEF s
    <3> QED
      BY <1>1, <1>2, <2>1, <2>2, <2>3, <2>4, <3>1, <3>2 DEF UpdateEffect, UpdatedEffect
  <2>5. CASE NeedsRestart(q)
    <3> DEFINE s == [q EXCEPT !.k8s = main.spec, !.run = "new", !.timer = FALSE, !.cancelled = FALSE,
                              !.told = {}, !.activeNodes = {}, !.lock = "free"]
    <3>1. child'[c] = s
      BY <2>3, <2>5 DEF Updated, NeedsRestart
    <3>2. /\ s.k8s = main.spec /\ s.uid = q.uid /\ s.ok = q.ok /\ s.step = q.step /\ s.lost = q.lost
          /\ s.fired = q.fired /\ s.run = "new" /\ s.activeNodes = {} /\ s.told = {}
          /\ s.lock = "free" /\ s.timer = FALSE
      BY <1>1 DEF Child
    <3> HIDE DEF s
    <3> QED
      BY <1>1, <1>2, <2>1, <2>2, <2>3, <2>5, <3>1, <3>2 DEF UpdateEffect, UpdatedEffect
  <2>6. CASE q.run # "none" /\ ~NeedsRestart(q)
    <3> DEFINE s == [q EXCEPT !.k8s = main.spec]
    <3>1. child'[c] = s
      BY <2>3, <2>6 DEF Updated
    <3>2. /\ s.k8s = main.spec /\ s.uid = q.uid /\ s.ok = q.ok /\ s.step = q.step /\ s.lost = q.lost
          /\ s.fired = q.fired /\ SameMatcher(s, q) /\ s.activeNodes = q.activeNodes
          /\ s.lock = q.lock /\ s.timer = q.timer
      BY <1>1 DEF Child, SameMatcher
    <3> HIDE DEF s
    <3> QED
      BY <1>1, <1>2, <2>1, <2>2, <2>3, <2>6, <3>1, <3>2 DEF UpdateEffect, UpdatedEffect
  <2> QED
    BY <2>4, <2>5, <2>6
<1>6. CASE Start
  <2> DEFINE r == IF q.run = "new" THEN [q EXCEPT !.run = "sync"] ELSE q
  <2>1. child'[c] = r /\ Only(c) /\ main.at = "start" /\ main' = Idle
    BY <1>1, <1>6, SetOnly DEF Start
  <2>2. /\ SameLock(r, q) /\ SameTimers(r, q) /\ SameSpec(r, q) /\ r.activeNodes = q.activeNodes /\ r.told = q.told
        /\ r.call = q.call /\ r.run = IF q.run = "new" THEN "sync" ELSE q.run
    BY <1>1 DEF Child, SameLock, SameTimers, SameSpec
  <2> HIDE DEF r
  <2> QED
    BY <1>1, <1>2, <2>1, <2>2 DEF UpdateEffect, StartEffect, SameSpec
<1> QED
  BY <1>4, <1>5, <1>6

StopEffect(c) ==
    LET old == child[c]  new == child'[c] IN
    /\ c = main.on /\ c \in Children /\ Only(c) /\ main.at = "stopJoin" /\ main' = Idle /\ children' = children \ {c}
    /\ UNCHANGED <<spec, uid, status, matching, record, down, events>>
    /\ new.lock = "free" /\ new.run = "gone" /\ new.step = old.step /\ SameTimers(new, old)

(* stop() returns, and the child leaves c.children.                         *)
LEMMA StopDoes ==
    ASSUME IInv, StopJoined
    PROVE  StopEffect(main.on)
<1> DEFINE c == main.on
           q == child[c]
           r == [q EXCEPT !.lock = "free", !.run = "gone"]
<1>1. c \in Children /\ q \in Child
  BY DEF IInv, TypeOK, StopJoined
<1>2. /\ main.at = "stopJoin" /\ main' = Idle /\ children' = children \ {c} /\ Set(c, r)
      /\ UNCHANGED <<spec, uid, status, matching, record, down, events>>
  BY DEF StopJoined, apiVars, worldVars, runVars
<1>3. r.lock = "free" /\ r.run = "gone" /\ r.step = q.step /\ SameTimers(r, q)
  BY <1>1 DEF Child, SameTimers
<1>4. child'[c] = r /\ Only(c)
  BY <1>1, <1>2, SetOnly
<1> HIDE DEF r
<1> QED
  BY <1>1, <1>2, <1>3, <1>4 DEF StopEffect
-----------------------------------------------------------------------------
(* update() begins, with a child of its own or with one that is there.      *)
BeginEffect ==
    /\ main.at = "idle" /\ main'.at = "update" /\ main'.spec = spec /\ main'.on \in Children
    /\ spec # NoSpec /\ spec.valid
    /\ UNCHANGED <<spec, uid, status, matching, record, down, events>>
    /\ \/ main'.on \in Known /\ UNCHANGED <<children, child>>
       \/ /\ Known = {} /\ children' = children \cup {main'.on}
          /\ child'[main'.on] = Fresh(uid) /\ Only(main'.on)

(* OnAdd and OnUpdate, up to update().                                      *)
LEMMA UpdateBeginsWith ==
    ASSUME IInv, Update
    PROVE  BeginEffect
<1>1. /\ main.at = "idle" /\ spec # NoSpec /\ spec.valid
      /\ UNCHANGED <<spec, uid, status, matching, record, down, events>>
  BY DEF Update, apiVars, worldVars, runVars
<1>2. CASE Known = {}
  <2>1. /\ born < Cardinality(Children) /\ children' = children \cup {born + 1} /\ Set(born + 1, Fresh(uid))
        /\ main' = [at |-> "update", on |-> born + 1, spec |-> spec]
    BY <1>2 DEF Update
  <2>2. born + 1 \in Children
    BY <2>1, NextChild DEF IInv, TypeOK
  <2>3. child'[born + 1] = Fresh(uid) /\ Only(born + 1)
    BY <2>1, <2>2, SetOnly
  <2> QED
    BY <1>1, <1>2, <2>1, <2>2, <2>3 DEF BeginEffect
<1>3. CASE Known # {}
  <2> DEFINE c == CHOOSE c \in Known : TRUE
  <2>1. c \in Known /\ c \in Children
    BY <1>3 DEF IInv, TypeOK, Known
  <2>2. main' = [at |-> "update", on |-> c, spec |-> spec] /\ UNCHANGED <<children, child>>
    BY <1>3 DEF Update
  <2> HIDE DEF c
  <2> QED
    BY <1>1, <2>1, <2>2 DEF BeginEffect
<1> QED
  BY <1>2, <1>3

\* validate() found the spec invalid, or the resource is gone: a child is to
\* be stopped.
HaltEffect ==
    /\ main.at = "idle" /\ UNCHANGED <<spec, uid, matching, record, children, child, down, events>>
    /\ main'.spec = NoSpec
    /\ \/ main'.at = "stop" /\ main'.on \in children /\ UNCHANGED status /\ (down \/ spec = NoSpec)
       \/ /\ spec # NoSpec /\ ~spec.valid
          /\ \/ main'.at = "stop" /\ main'.on \in Known
             \/ main'.at = "idle" /\ Known = {}
       \/ main'.at = "returned" /\ down

(* An invalid spec, OnDelete, and the end of Run.                           *)
LEMMA HaltDoes ==
    ASSUME Invalid \/ Return \/ \E c \in Children : Delete(c)
    PROVE  HaltEffect
<1>1. CASE Invalid
  <2> DEFINE c == CHOOSE c \in Known : TRUE
  <2>1. Known # {} => c \in Known
    OBVIOUS
  <2>2. main' = IF Known = {} THEN Idle ELSE [at |-> "stop", on |-> c, spec |-> NoSpec]
    BY <1>1 DEF Invalid
  <2> HIDE DEF c
  <2>3. main'.spec = NoSpec /\ ((main'.at = "stop" /\ main'.on \in Known) \/ (main'.at = "idle" /\ Known = {}))
    BY <2>1, <2>2 DEF Idle
  <2> QED
    BY <1>1, <2>3 DEF Invalid, HaltEffect, apiVars, worldVars, runVars
<1>2. CASE Return
  BY <1>2 DEF Return, HaltEffect, apiVars, worldVars, runVars, Idle
<1>3. CASE \E c \in Children : Delete(c)
  BY <1>3 DEF Delete, HaltEffect, apiVars, worldVars, runVars
<1> QED
  BY <1>1, <1>2, <1>3

(* Every step is one of these.                                              *)
LEMMA StepIs ==
    ASSUME IInv, [Next]_vars
    PROVE  \/ \E c \in Children : MatcherEffect(c) \/ TimerEffect(c) \/ ApplyEffect(c)
           \/ UpdateEffect(main.on) \/ StopEffect(main.on) \/ BeginEffect \/ HaltEffect
           \/ OnDeleteUnknown \/ Environment \/ UNCHANGED vars
<1>1. CASE Main
  BY <1>1, UpdateDoes, StopDoes, UpdateBeginsWith, HaltDoes DEF Main
<1>2. ASSUME NEW c \in Children, Matcher(c) \/ Timer(c) \/ Apply(c)
      PROVE  MatcherEffect(c) \/ TimerEffect(c) \/ ApplyEffect(c)
  BY <1>2, MatcherDoes, TimerDoes, ApplyDoes
<1> QED
  BY <1>1, <1>2 DEF Next
(* The context and what may go wrong.                                       *)
LEMMA EventsStay ==
    ASSUME IInv, [Next]_vars
    PROVE  UNCHANGED events /\ (~down' => ~down)
<1>1. ASSUME NEW c \in Children, MatcherEffect(c) \/ TimerEffect(c) \/ ApplyEffect(c)
      PROVE  UNCHANGED <<events, down>>
  BY <1>1 DEF MatcherEffect, TimerEffect, ApplyEffect
<1>2. CASE UpdateEffect(main.on) \/ StopEffect(main.on) \/ BeginEffect \/ HaltEffect
  BY <1>2 DEF UpdateEffect, StopEffect, BeginEffect, HaltEffect
<1>3. CASE Environment
  BY <1>3 DEF Environment, Flip, Edit, Create, Remove, Shutdown, runVars
<1>4. CASE UNCHANGED vars
  BY <1>4 DEF vars, runVars
<1>5. CASE OnDeleteUnknown
  BY <1>5 DEF OnDeleteUnknown, runVars
<1> QED
  BY <1>1, <1>2, <1>3, <1>4, <1>5, StepIs
-----------------------------------------------------------------------------
(* What holds whatever goes wrong: applyDNS runs under the lock, of the     *)
(* match controller's call or of a timer; a child has the nodes that its    *)
(* match controller told it, but for a call on its way; and the main        *)
(* goroutine works on children that are there.                              *)
LockFits(r) ==
    /\ r.step = "none" <=> r.lock \in {"free", "main"}
    /\ r.lock = "match" => r.run = "call"

ToldAfter(r) ==
    IF r.lock = "match" THEN r.activeNodes
    ELSE IF r.call.kind = "enable" THEN r.activeNodes \cup r.call.nodes
    ELSE r.activeNodes \ r.call.nodes

ToldFits(r) ==
    /\ r.run \in {"none", "new", "sync"} => r.activeNodes = {} /\ r.told = {}
    /\ r.run = "live" => r.told = r.activeNodes
    /\ r.run = "call" => r.told = ToldAfter(r)
    /\ r.run = "call" /\ r.call.kind = "early" => r.activeNodes = {}

MainFits ==
    /\ \A e \in Children \ children : child[e].run \in {"none", "gone"}
    /\ main.at \notin {"idle", "returned"} => main.on \in children
    /\ main.at \in {"join", "stopJoin"} => child[main.on].lock = "main"

ChildrenFit ==
    /\ record \in [Zones -> SUBSET Addresses]
    /\ \A c \in Children : LockFits(child[c]) /\ ToldFits(child[c])
    /\ MainFits

(* A step of the match controller.                                          *)
LEMMA MatcherFits ==
    ASSUME IInv, ChildrenFit, NEW c \in Children, MatcherEffect(c)
    PROVE  ChildrenFit'
<1> DEFINE q == child[c]
           r == child'[c]
<1>1. /\ Only(c) /\ (CallEffect(c) \/ DeliverEffect(c) \/ EndEffect(c))
      /\ UNCHANGED <<record, children, main>>
  BY DEF MatcherEffect
<1>2. q \in Child /\ LockFits(q) /\ ToldFits(q)
  BY ChildFacts DEF ChildrenFit
<1>3. LockFits(r)
  BY <1>1, <1>2 DEF LockFits, CallEffect, DeliverEffect, EndEffect, SameLock, SameMatcher, Child
<1>4. ToldFits(r)
  <2>1. CASE CallEffect(c)
    <3>1. q.lock # "match" /\ r.lock # "match" /\ r.run = "call" /\ r.activeNodes = q.activeNodes
      BY <1>2, <2>1 DEF LockFits, CallEffect, SameLock
    <3>2. r.told = ToldAfter(r) /\ (r.call.kind = "early" => r.activeNodes = {})
      BY <1>2, <2>1, <3>1 DEF ToldFits, CallEffect, ToldAfter
    <3> QED
      BY <3>1, <3>2 DEF ToldFits
  <2>2. CASE DeliverEffect(c)
    <3>1. r.told = q.told /\ r.run = "call" /\ q.run = "call" /\ r.call = q.call /\ r.lock = "match" /\ q.lock = "free"
      BY <2>2 DEF DeliverEffect, SameMatcher
    <3>2. q.told = r.activeNodes
      BY <1>2, <2>2, <3>1 DEF ToldFits, DeliverEffect, ToldAfter
    <3>3. r.call.kind = "early" => r.activeNodes = {}
      BY <1>2, <2>2, <3>1 DEF ToldFits, DeliverEffect
    <3> QED
      BY <3>1, <3>2, <3>3 DEF ToldFits, ToldAfter
  <2>3. CASE EndEffect(c)
    BY <2>3 DEF EndEffect, ToldFits
  <2> QED
    BY <1>1, <2>1, <2>2, <2>3
<1>5. q.lock = "main" => r.lock = "main"
  BY <1>1 DEF CallEffect, DeliverEffect, EndEffect, SameLock
<1>6. q.run \in {"none", "gone"} => r.run \in {"none", "gone"}
  BY <1>1 DEF CallEffect, DeliverEffect, EndEffect, SameMatcher
<1> HIDE DEF q, r
<1>7. \A e \in Children : LockFits(child'[e]) /\ ToldFits(child'[e])
  BY <1>1, <1>3, <1>4 DEF ChildrenFit, Only, r
<1>8. MainFits'
  BY <1>1, <1>5, <1>6 DEF ChildrenFit, MainFits, Only, IInv, TypeOK, q, r
<1> QED
  BY <1>1, <1>7, <1>8 DEF ChildrenFit

(* A step of a timer.                                                       *)
LEMMA TimerFits ==
    ASSUME IInv, ChildrenFit, NEW c \in Children, TimerEffect(c)
    PROVE  ChildrenFit'
<1> DEFINE q == child[c]
           r == child'[c]
<1>1. /\ Only(c) /\ (FireEffect(c) \/ RetryEffect(c))
      /\ UNCHANGED <<record, children, main>> /\ SameMatcher(r, q) /\ r.activeNodes = q.activeNodes
  BY DEF TimerEffect
<1>2. q \in Child /\ LockFits(q) /\ ToldFits(q)
  BY ChildFacts DEF ChildrenFit
<1>3. LockFits(r)
  BY <1>1, <1>2 DEF LockFits, FireEffect, RetryEffect, SameLock, SameMatcher, Child
<1>4. r.lock = "match" <=> q.lock = "match"
  BY <1>1 DEF FireEffect, RetryEffect, SameLock
<1>5. ToldFits(r)
  BY <1>1, <1>2, <1>4 DEF ToldFits, ToldAfter, SameMatcher
<1>6. q.lock = "main" => r.lock = "main"
  BY <1>1 DEF FireEffect, RetryEffect, SameLock
<1>7. r.run = q.run
  BY <1>1 DEF SameMatcher
<1> HIDE DEF q, r
<1>8. \A e \in Children : LockFits(child'[e]) /\ ToldFits(child'[e])
  BY <1>1, <1>3, <1>5 DEF ChildrenFit, Only, r
<1>9. MainFits'
  BY <1>1, <1>6, <1>7 DEF ChildrenFit, MainFits, Only, IInv, TypeOK, q, r
<1> QED
  BY <1>1, <1>8, <1>9 DEF ChildrenFit

(* applyDNS writes addresses that exist, to the record set of the spec.     *)
LEMMA RecordWritten ==
    ASSUME record \in [Zones -> SUBSET Addresses], NEW c \in Children, ApplyEffect(c)
    PROVE  record' \in [Zones -> SUBSET Addresses]
<1>1. child[c].k8s.dns \in Zones /\ ips(child[c]) \subseteq Addresses
  BY ConstantsAssumption DEF ApplyEffect, ips
<1>2. CASE EnsureEffect(c)
  <2> DEFINE z == child[c].k8s.dns
  <2>1. UNCHANGED record \/ \E left \in SUBSET (record[z] \cup ips(child[c])) : record' = [record EXCEPT ![z] = left]
    BY <1>2 DEF EnsureEffect
  <2> QED
    BY <1>1, <2>1
<1>3. CASE StatusEffect(c)
  BY <1>3 DEF StatusEffect
<1> QED
  BY <1>2, <1>3 DEF ApplyEffect

(* A step of applyDNS.                                                      *)
LEMMA ApplyFits ==
    ASSUME IInv, ChildrenFit, NEW c \in Children, ApplyEffect(c)
    PROVE  ChildrenFit'
<1> DEFINE q == child[c]
           r == child'[c]
<1>1. /\ Only(c) /\ (EnsureEffect(c) \/ StatusEffect(c))
      /\ UNCHANGED <<children, main>> /\ r.activeNodes = q.activeNodes
  BY DEF ApplyEffect
<1>2. q \in Child /\ LockFits(q) /\ ToldFits(q)
  BY ChildFacts DEF ChildrenFit
<1>3. record' \in [Zones -> SUBSET Addresses]
  BY RecordWritten DEF ChildrenFit
<1>4. q.lock \in {"match", "timer"}
  BY <1>1, <1>2 DEF LockFits, EnsureEffect, StatusEffect, Child
<1>5. LockFits(r)
  BY <1>1, <1>2, <1>4 DEF LockFits, EnsureEffect, StatusEffect, SameMatcher
<1>6. ToldFits(r)
  <2>1. CASE EnsureEffect(c)
    BY <1>1, <1>2, <2>1 DEF ToldFits, ToldAfter, SameMatcher, EnsureEffect
  <2>2. CASE StatusEffect(c) /\ q.lock = "timer"
    <3>1. r.run = q.run /\ r.call = q.call /\ r.told = q.told /\ r.lock = "free"
      BY <2>2 DEF StatusEffect
    <3> QED
      BY <1>1, <1>2, <2>2, <3>1 DEF ToldFits, ToldAfter
  <2>3. CASE StatusEffect(c) /\ q.lock = "match"
    <3>1. r.run = (IF q.call.kind = "early" THEN "sync" ELSE "live") /\ r.told = q.told
      BY <2>3 DEF StatusEffect
    <3>2. q.run = "call" /\ q.told = q.activeNodes
      BY <1>2, <2>3 DEF LockFits, ToldFits, ToldAfter
    <3> QED
      BY <1>1, <1>2, <3>1, <3>2 DEF ToldFits
  <2> QED
    BY <1>1, <1>4, <2>1, <2>2, <2>3
<1>7. q.run \in {"none", "gone"} => r.run \in {"none", "gone"}
  BY <1>1, <1>2, <1>4 DEF EnsureEffect, StatusEffect, SameMatcher, LockFits
<1> HIDE DEF q, r
<1>8. \A e \in Children : LockFits(child'[e]) /\ ToldFits(child'[e])
  BY <1>1, <1>5, <1>6 DEF ChildrenFit, Only, r
<1>9. MainFits'
  BY <1>1, <1>4, <1>7 DEF ChildrenFit, MainFits, Only, IInv, TypeOK, q, r
<1> QED
  BY <1>3, <1>8, <1>9 DEF ChildrenFit

(* A step of the main goroutine on its child.                               *)
LEMMA UpdateFits ==
    ASSUME IInv, ChildrenFit, UpdateEffect(main.on)
    PROVE  ChildrenFit'
<1> DEFINE c == main.on
           q == child[c]
           r == child'[c]
<1>1. /\ Only(c) /\ c \in Children /\ UNCHANGED <<record, children>>
      /\ \/ /\ UpdatedEffect(c) /\ main' = [main EXCEPT !.at = "start"]
            /\ ((main.at = "update" /\ q.lock = "free" /\ ~NeedsRestart(q)) \/ main.at = "join")
         \/ HoldEffect(c) /\ main'.on = c
         \/ StartEffect(c)
  BY DEF UpdateEffect
<1>2. q \in Child /\ LockFits(q) /\ ToldFits(q)
  BY <1>1, ChildFacts DEF ChildrenFit
<1>3. c \in children
  BY <1>1 DEF ChildrenFit, MainFits, UpdatedEffect, HoldEffect, StartEffect
<1>4. main \in [at : MainSteps, on : Children \cup {0}, spec : Specs \cup {NoSpec}]
  BY DEF IInv, TypeOK
<1>5. CASE UpdatedEffect(c) /\ main' = [main EXCEPT !.at = "start"]
            /\ ((main.at = "update" /\ q.lock = "free" /\ ~NeedsRestart(q)) \/ main.at = "join")
  <2>1. main'.at = "start" /\ main'.on = c
    BY <1>4, <1>5
  <2>2. q.lock \in {"free", "main"} /\ q.step = "none" /\ r.step = "none" /\ r.lock \in {"free", "main"}
    BY <1>2, <1>5 DEF ChildrenFit, MainFits, LockFits, UpdatedEffect
  <2>3. ToldFits(r)
    BY <1>2, <1>5, <2>2 DEF UpdatedEffect, ToldFits, ToldAfter, SameMatcher
  <2> QED
    BY <1>1, <1>3, <2>1, <2>2, <2>3 DEF LockFits, ChildrenFit, MainFits, Only, IInv, TypeOK
<1>6. CASE HoldEffect(c) /\ main'.on = c
  <2>1. q.lock = "free" /\ r.lock = "main" /\ r.step = "none" /\ SameMatcher(r, q) /\ r.activeNodes = q.activeNodes
    BY <1>2, <1>6 DEF LockFits, HoldEffect
  <2>2. LockFits(r) /\ ToldFits(r)
    BY <1>2, <2>1 DEF LockFits, ToldFits, ToldAfter, SameMatcher
  <2> QED
    BY <1>1, <1>3, <1>6, <2>1, <2>2 DEF ChildrenFit, MainFits, Only, IInv, TypeOK
<1>7. CASE StartEffect(c)
  <2>1. SameLock(r, q) /\ r.activeNodes = q.activeNodes /\ r.told = q.told /\ r.call = q.call
        /\ r.run = (IF q.run = "new" THEN "sync" ELSE q.run) /\ main'.at = "idle"
    BY <1>7 DEF StartEffect, Idle
  <2>2. LockFits(r) /\ ToldFits(r)
    BY <1>2, <2>1 DEF LockFits, ToldFits, ToldAfter, SameLock
  <2> QED
    BY <1>1, <1>3, <2>1, <2>2 DEF ChildrenFit, MainFits, Only, IInv, TypeOK
<1> QED
  BY <1>1, <1>5, <1>6, <1>7

(* A child that is stopped.                                                 *)
LEMMA StopFits ==
    ASSUME IInv, ChildrenFit, StopEffect(main.on)
    PROVE  ChildrenFit'
<1> DEFINE c == main.on
           q == child[c]
           r == child'[c]
<1>1. /\ Only(c) /\ c \in Children /\ UNCHANGED record /\ children' = children \ {c} /\ main'.at = "idle"
      /\ main.at = "stopJoin" /\ r.lock = "free" /\ r.run = "gone" /\ r.step = q.step
  BY DEF StopEffect, Idle
<1>2. q.lock = "main" /\ LockFits(q)
  BY <1>1 DEF ChildrenFit, MainFits
<1>3. LockFits(r) /\ ToldFits(r)
  BY <1>1, <1>2 DEF LockFits, ToldFits
<1> QED
  BY <1>1, <1>3 DEF ChildrenFit, MainFits, Only

(* A child that is taken up.                                                *)
LEMMA BeginFits ==
    ASSUME IInv, ChildrenFit, BeginEffect
    PROVE  ChildrenFit'
<1>1. LockFits(Fresh(uid)) /\ ToldFits(Fresh(uid))
  BY DEF Fresh, LockFits, ToldFits, NoCall
<1>2. CASE main'.on \in Known /\ UNCHANGED <<children, child>>
  BY <1>2 DEF ChildrenFit, MainFits, BeginEffect, Known
<1>3. CASE children' = children \cup {main'.on} /\ child'[main'.on] = Fresh(uid) /\ Only(main'.on)
  BY <1>1, <1>3 DEF ChildrenFit, MainFits, BeginEffect, Only
<1> QED
  BY <1>2, <1>3 DEF BeginEffect

(* Nor does the death over a tombstone leave anything that does not fit.    *)
LEMMA DiesFits ==
    ASSUME IInv, ChildrenFit, OnDeleteUnknown
    PROVE  ChildrenFit'
<1>1. LockFits(Fresh(0)) /\ ToldFits(Fresh(0)) /\ Fresh(0).run = "none"
  BY DEF Fresh, LockFits, ToldFits, NoCall
<1>2. \A c \in Children : child'[c] = Fresh(0)
  BY DEF OnDeleteUnknown
<1>3. main'.at = "idle"
  BY DEF OnDeleteUnknown
<1>4. ASSUME NEW c \in Children, child[c].step = "ensure", CutShort(child[c])
      PROVE  record' \in [Zones -> SUBSET Addresses]
  <2> DEFINE z == child[c].k8s.dns
  <2>1. child[c] \in Child /\ child[c].k8s # NoSpec
    BY <1>4, ChildFacts DEF ChildSound
  <2>2. child[c].k8s \in Specs
    BY <2>1 DEF Child
  <2>3. z \in Zones /\ ips(child[c]) \subseteq Addresses
    BY <2>2, ConstantsAssumption DEF ips
  <2>4. \E left \in SUBSET (record[z] \cup ips(child[c])) : record' = [record EXCEPT ![z] = left]
    BY <1>4 DEF CutShort
  <2> QED
    BY <2>3, <2>4 DEF ChildrenFit
<1>5. record' \in [Zones -> SUBSET Addresses]
  BY <1>4 DEF OnDeleteUnknown, ChildrenFit
<1> QED
  BY <1>1, <1>2, <1>3, <1>5 DEF ChildrenFit, MainFits

(* Every step.                                                              *)
LEMMA NextFits ==
    ASSUME IInv, ChildrenFit, [Next]_vars
    PROVE  ChildrenFit'
<1>1. CASE HaltEffect
  BY <1>1 DEF HaltEffect, ChildrenFit, MainFits, Known
<1>2. CASE Environment
  <2>1. UNCHANGED <<record, children, child, main>>
    BY <1>2 DEF Environment, Flip, Edit, Create, Remove, Shutdown, worldVars
  <2> QED
    BY <2>1 DEF ChildrenFit, MainFits
<1>3. CASE UNCHANGED vars
  BY <1>3 DEF ChildrenFit, MainFits, vars, worldVars
<1> QED
  BY <1>1, <1>2, <1>3, StepIs, MatcherFits, TimerFits, ApplyFits, UpdateFits, StopFits, BeginFits,
     DiesFits

(* The initial states.                                                      *)
LEMMA InitFits == Init => ChildrenFit
<1> SUFFICES ASSUME Init PROVE ChildrenFit
  OBVIOUS
<1>1. LockFits(Fresh(0)) /\ ToldFits(Fresh(0)) /\ Fresh(0).run = "none"
  BY DEF Fresh, LockFits, ToldFits, NoCall
<1> QED
  BY <1>1 DEF Init, ChildrenFit, MainFits, Idle
-----------------------------------------------------------------------------
(* What keeps the record sets in one hand: there is one child at a time,    *)
(* and no retry of an earlier one is left while there is a resource.  A     *)
(* deletion that the informer misses and a retry that outlives its child's  *)
(* stop are what breaks it.                                                 *)
Tame ==
    /\ "missed" \notin events
    /\ "dns" \in events => "create" \notin events /\ ~({"edit", "invalid"} \subseteq events)

Still(r) == ~Pending(r) /\ r.step = "none"

Alone ==
    /\ children \subseteq Known
    /\ \A a, b \in children : a = b
    /\ \A c \in children : child[c].k8s = NoSpec <=> child[c].run = "none"

StoppedStill ==
    spec # NoSpec \/ children # {} \/ "dns" \notin events =>
       \A e \in Children \ children : Still(child[e])

NoTimers == "dns" \notin events => \A e \in Children : ~Pending(child[e])

StopsLast ==
    "dns" \in events =>
      /\ main.at \in {"stop", "stopJoin"} => spec = NoSpec
      /\ spec # NoSpec /\ ~spec.valid => children = {}

OneHand == Alone /\ StoppedStill /\ NoTimers /\ StopsLast
TameInv == Tame /\ ~down => OneHand

(* The goroutines of a child: none is left of a stopped one.                *)
LEMMA GoroutinesTame ==
    ASSUME IInv, ChildrenFit, OneHand, ~down,
           NEW c \in Children, MatcherEffect(c) \/ TimerEffect(c) \/ ApplyEffect(c)
    PROVE  OneHand'
<1> DEFINE q == child[c]
           r == child'[c]
<1>1. /\ Only(c) /\ r.uid = q.uid /\ r.k8s = q.k8s
      /\ UNCHANGED <<spec, uid, children, main, down, events>>
  BY DEF MatcherEffect, TimerEffect, ApplyEffect, SameSpec
<1>2. q \in Child /\ LockFits(q)
  BY ChildFacts DEF ChildrenFit
<1>3. Pending(r) => Pending(q) \/ "dns" \in events
  BY DEF MatcherEffect, TimerEffect, ApplyEffect, FireEffect, RetryEffect, EnsureEffect, StatusEffect, SameTimers, Pending
<1>4. q.run = "none" <=> r.run = "none"
  <2>1. CASE MatcherEffect(c)
    BY <2>1 DEF MatcherEffect, CallEffect, DeliverEffect, EndEffect, SameMatcher
  <2>2. CASE TimerEffect(c)
    BY <2>2 DEF TimerEffect, SameMatcher
  <2>3. CASE ApplyEffect(c) /\ EnsureEffect(c)
    BY <2>3 DEF EnsureEffect, SameMatcher
  <2>4. CASE ApplyEffect(c) /\ StatusEffect(c)
    BY <1>2, <2>4 DEF StatusEffect, LockFits, Child
  <2> QED
    BY <2>1, <2>2, <2>3, <2>4 DEF ApplyEffect
<1>5. ASSUME c \notin children, Still(q) PROVE FALSE
  <2>1. q.run \in {"none", "gone"}
    BY <1>5 DEF ChildrenFit, MainFits
  <2>2. ~MatcherEffect(c)
    BY <2>1 DEF MatcherEffect, CallEffect, DeliverEffect, EndEffect
  <2>3. ~TimerEffect(c) /\ ~ApplyEffect(c)
    BY <1>5 DEF Still, TimerEffect, FireEffect, RetryEffect, ApplyEffect, EnsureEffect, StatusEffect
  <2> QED
    BY <2>2, <2>3
<1> HIDE DEF q, r
<1>6. Alone'
  BY <1>1, <1>4 DEF OneHand, Alone, Known, Only, IInv, TypeOK, q, r
<1>7. StoppedStill'
  BY <1>1, <1>5 DEF OneHand, StoppedStill, Only, q, r
<1>8. NoTimers'
  BY <1>1, <1>3 DEF OneHand, NoTimers, Only, q, r
<1>9. StopsLast'
  BY <1>1 DEF OneHand, StopsLast
<1> QED
  BY <1>6, <1>7, <1>8, <1>9 DEF OneHand

(* The main goroutine on its child.                                         *)
LEMMA UpdateTame ==
    ASSUME IInv, ChildrenFit, OneHand, UpdateEffect(main.on)
    PROVE  OneHand'
<1> DEFINE c == main.on
           q == child[c]
           r == child'[c]
<1>1. /\ Only(c) /\ c \in Children /\ r.uid = q.uid /\ UNCHANGED <<spec, uid, children, events>>
      /\ (UpdatedEffect(c) \/ HoldEffect(c) \/ StartEffect(c))
  BY DEF UpdateEffect
<1>2. c \in children
  BY DEF UpdateEffect, ChildrenFit, MainFits, UpdatedEffect, HoldEffect, StartEffect
<1>3. Pending(r) => Pending(q)
  BY <1>1 DEF UpdatedEffect, HoldEffect, StartEffect, SameTimers, Pending
<1>4. r.k8s = NoSpec <=> r.run = "none"
  <2>1. q.k8s = NoSpec <=> q.run = "none"
    BY <1>2 DEF OneHand, Alone
  <2>2. CASE UpdatedEffect(c)
    BY <2>2, ConstantsAssumption DEF UpdatedEffect, SameMatcher
  <2>3. CASE HoldEffect(c) \/ StartEffect(c)
    BY <2>1, <2>3 DEF HoldEffect, StartEffect, SameMatcher
  <2> QED
    BY <1>1, <2>2, <2>3
<1>5. main'.at \in {"stop", "stopJoin"} => main.at \in {"stop", "stopJoin"}
  BY <1>1 DEF UpdatedEffect, HoldEffect, StartEffect, Idle
<1> HIDE DEF q, r
<1>6. Alone'
  BY <1>1, <1>4 DEF OneHand, Alone, Known, Only, IInv, TypeOK, q, r
<1>7. StoppedStill'
  BY <1>1, <1>2 DEF OneHand, StoppedStill, Only
<1>8. NoTimers'
  BY <1>1, <1>3 DEF OneHand, NoTimers, Only, q, r
<1>9. StopsLast'
  BY <1>1, <1>5 DEF OneHand, StopsLast
<1> QED
  BY <1>6, <1>7, <1>8, <1>9 DEF OneHand

(* A child has been stopped: it has no retry left, or there is no resource. *)
LEMMA StopTame ==
    ASSUME IInv, ChildrenFit, OneHand, StopEffect(main.on)
    PROVE  OneHand'
<1> DEFINE c == main.on
           q == child[c]
           r == child'[c]
<1>1. /\ Only(c) /\ c \in Children /\ SameTimers(r, q) /\ r.step = q.step /\ UNCHANGED <<spec, uid, events>>
      /\ children' = children \ {c} /\ main.at = "stopJoin" /\ main'.at = "idle"
  BY DEF StopEffect, Idle
<1>2. c \in children /\ q.step = "none"
  BY <1>1 DEF ChildrenFit, MainFits, LockFits
<1>3. children' = {}
  BY <1>1, <1>2 DEF OneHand, Alone
<1>4. Pending(r) <=> Pending(q)
  BY <1>1 DEF Pending, SameTimers
<1>5. "dns" \in events => spec = NoSpec
  BY <1>1 DEF OneHand, StopsLast
<1> HIDE DEF q, r
<1>6. Alone'
  BY <1>3 DEF Alone
<1>7. StoppedStill'
  BY <1>1, <1>2, <1>3, <1>4, <1>5 DEF OneHand, StoppedStill, NoTimers, Still, Only, q, r
<1>8. NoTimers'
  BY <1>1, <1>4 DEF OneHand, NoTimers, Only, q, r
<1>9. StopsLast'
  BY <1>1, <1>3 DEF StopsLast
<1> QED
  BY <1>6, <1>7, <1>8, <1>9 DEF OneHand

(* A handler takes up the resource.                                         *)
LEMMA BeginTame ==
    ASSUME IInv, ChildrenFit, OneHand, BeginEffect
    PROVE  OneHand'
<1>1. CASE UNCHANGED <<children, child>>
  BY <1>1 DEF OneHand, Alone, StoppedStill, NoTimers, StopsLast, BeginEffect, Known
<1>2. CASE Known = {} /\ children' = children \cup {main'.on} /\ child'[main'.on] = Fresh(uid) /\ Only(main'.on)
  <2> DEFINE c == main'.on
  <2>1. /\ c \in Children /\ spec # NoSpec /\ spec.valid /\ UNCHANGED <<spec, uid, events>> /\ main'.at = "update"
    BY DEF BeginEffect
  <2>2. children = {} /\ children' = {c}
    BY <1>2 DEF OneHand, Alone
  <2>3. Fresh(uid).uid = uid /\ Fresh(uid).k8s = NoSpec /\ Fresh(uid).run = "none" /\ ~Pending(Fresh(uid))
    BY DEF Fresh, Pending
  <2> HIDE DEF c
  <2>4. child'[c] = Fresh(uid) /\ Only(c)
    BY <1>2 DEF c
  <2>5. Alone'
    BY <2>1, <2>2, <2>3, <2>4 DEF Alone, Known
  <2>6. StoppedStill' /\ NoTimers'
    BY <2>1, <2>2, <2>3, <2>4 DEF OneHand, StoppedStill, NoTimers, Only
  <2>7. StopsLast'
    BY <2>1 DEF StopsLast, c
  <2> QED
    BY <2>5, <2>6, <2>7 DEF OneHand
<1> QED
  BY <1>1, <1>2 DEF BeginEffect

(* A child is about to be stopped.                                          *)
LEMMA HaltTame ==
    ASSUME IInv, OneHand, ~down, HaltEffect
    PROVE  OneHand'
<1>1. UNCHANGED <<spec, uid, children, child, events>>
  BY DEF HaltEffect
<1>2. Known = children
  BY DEF OneHand, Alone, Known
<1>3. StopsLast'
  BY <1>1, <1>2 DEF OneHand, StopsLast, HaltEffect
<1> QED
  BY <1>1, <1>3 DEF OneHand, Alone, StoppedStill, NoTimers, Known

(* An edit changes the spec only in the ways that are allowed.              *)
LEMMA EditIs ==
    ASSUME NEW s \in Specs, Edit(s)
    PROVE  /\ UNCHANGED <<uid, status, matching, record, children, child, main, down, events>>
           /\ spec # NoSpec /\ spec' = s /\ s # NoSpec
           /\ "edit" \notin events => s.match = spec.match /\ s.dns = spec.dns /\ s.valid = spec.valid
           /\ "address" \notin events => s.addr = spec.addr
           /\ "invalid" \notin events => s.valid
<1>1. EditKinds(s) \subseteq events
  BY DEF Edit
<1>2. "edit" \notin EditKinds(s) => s.match = spec.match /\ s.dns = spec.dns /\ s.valid = spec.valid
  BY DEF EditKinds
<1>3. "address" \notin EditKinds(s) => s.addr = spec.addr
  BY DEF EditKinds
<1>4. "invalid" \notin EditKinds(s) => s.valid
  BY DEF EditKinds
<1> QED
  BY <1>1, <1>2, <1>3, <1>4, ConstantsAssumption DEF Edit, worldVars, runVars

(* Users and nodes.                                                         *)
LEMMA EnvironmentTame ==
    ASSUME IInv, ChildrenFit, OneHand, Tame, Environment
    PROVE  OneHand'
<1>1. CASE Shutdown \/ \E n \in Nodes : Flip(n)
  <2>1. UNCHANGED <<spec, uid, children, child, main, events>>
    BY <1>1 DEF Shutdown, Flip, apiVars, runVars
  <2> QED
    BY <2>1 DEF OneHand, Alone, StoppedStill, NoTimers, StopsLast, Known
<1>2. ASSUME NEW s \in Specs, Edit(s) PROVE OneHand'
  <2>1. UNCHANGED <<uid, children, child, main, events>> /\ spec # NoSpec /\ spec' = s /\ s # NoSpec
    BY <1>2, EditIs
  <2>2. "dns" \in events /\ ~s.valid => ~spec.valid
    BY <1>2, EditIs DEF Tame
  <2>3. StopsLast'
    BY <2>1, <2>2 DEF OneHand, StopsLast
  <2> QED
    BY <2>1, <2>3 DEF OneHand, Alone, StoppedStill, NoTimers, Known
<1>3. CASE Remove
  <2>1. UNCHANGED <<uid, children, child, main, events>> /\ spec' = NoSpec
    BY <1>3 DEF Remove, runVars
  <2> QED
    BY <2>1 DEF OneHand, Alone, StoppedStill, NoTimers, StopsLast, Known
<1>4. ASSUME NEW s \in Specs, Create(s) PROVE OneHand'
  <2>1. UNCHANGED <<children, child, main, events>> /\ spec = NoSpec
    BY <1>4 DEF Create, runVars
  <2>2. Known = {} /\ "create" \in events
    BY <1>4 DEF Create, Event, Tame
  <2>3. children = {} /\ "dns" \notin events
    BY <2>2 DEF OneHand, Alone, Tame
  <2> QED
    BY <2>1, <2>3 DEF OneHand, Alone, StoppedStill, NoTimers, StopsLast, Known
<1> QED
  BY <1>1, <1>2, <1>3, <1>4 DEF Environment

(* Nothing is left of a process that dies.                                  *)
LEMMA DiesTame ==
    ASSUME OnDeleteUnknown
    PROVE  OneHand'
<1>1. Still(Fresh(0))
  BY DEF Fresh, Still, Pending
<1>2. \A c \in Children : child'[c] = Fresh(0)
  BY DEF OnDeleteUnknown
<1>3. children' = {} /\ spec' = NoSpec /\ main'.at = "idle"
  BY DEF OnDeleteUnknown, apiVars
<1> QED
  BY <1>1, <1>2, <1>3 DEF OneHand, Alone, StoppedStill, NoTimers, StopsLast, Still

(* Every step.                                                              *)
LEMMA NextTame ==
    ASSUME IInv, ChildrenFit, TameInv, [Next]_vars
    PROVE  TameInv'
<1>1. UNCHANGED events /\ (~down' => ~down)
  BY EventsStay
<1>2. SUFFICES ASSUME Tame, ~down, OneHand PROVE OneHand'
  BY <1>1 DEF TameInv, Tame
<1>3. CASE UNCHANGED vars
  <2>1. UNCHANGED <<spec, uid, children, child, main, events>>
    BY <1>3 DEF vars, apiVars, runVars
  <2> QED
    BY <1>2, <2>1 DEF OneHand, Alone, StoppedStill, NoTimers, StopsLast, Known
<1> QED
  BY <1>2, <1>3, StepIs, GoroutinesTame, UpdateTame, StopTame, BeginTame, HaltTame, EnvironmentTame,
     DiesTame

(* The initial states.                                                      *)
LEMMA InitTame == Init => TameInv
<1> SUFFICES ASSUME Init PROVE OneHand
  BY DEF TameInv
<1>1. Still(Fresh(0))
  BY DEF Fresh, Still, Pending
<1> QED
  BY <1>1 DEF Init, OneHand, Alone, StoppedStill, NoTimers, StopsLast, Idle, Still
-----------------------------------------------------------------------------
(* What makes the record right: the child has the address type of the       *)
(* resource, and once it is told all, its last update of the record was     *)
(* right or a retry is due.                                                 *)
SameType ==
    spec # NoSpec =>
      /\ \A c \in children : child[c].k8s # NoSpec => child[c].k8s.addr = spec.addr
      /\ main.at \in {"update", "join"} => main.spec.addr = spec.addr

Applied(r) == record[r.k8s.dns] = ips(r)

AfterEnsure(r) == r.step = "status" => IF r.ok THEN Applied(r) ELSE Pending(r)

AtRest(r) ==
    spec # NoSpec /\ main.at \notin {"stop", "stopJoin"} /\ r.run = "live" /\ r.step = "none" =>
       Pending(r) \/ (status = "active" /\ Applied(r))

AllApplied == \A c \in children : AfterEnsure(child[c]) /\ AtRest(child[c])

RightRecord == SameType /\ AllApplied
AccurateInv == Benign /\ ~down => RightRecord

(* With one child, a step of another one changes nothing.                   *)
LEMMA OnlyChild ==
    ASSUME IInv, ChildrenFit, OneHand, NEW c \in children, NEW e \in Children,
           MatcherEffect(e) \/ TimerEffect(e) \/ ApplyEffect(e)
    PROVE  e = c
<1>1. SUFFICES ASSUME e \notin children PROVE FALSE
  BY DEF OneHand, Alone
<1>2. Still(child[e]) /\ child[e].run \in {"none", "gone"}
  BY <1>1 DEF OneHand, StoppedStill, ChildrenFit, MainFits
<1>3. ~MatcherEffect(e)
  BY <1>2 DEF MatcherEffect, CallEffect, DeliverEffect, EndEffect
<1>4. ~TimerEffect(e) /\ ~ApplyEffect(e)
  BY <1>2 DEF Still, TimerEffect, FireEffect, RetryEffect, ApplyEffect, EnsureEffect, StatusEffect
<1> QED
  BY <1>3, <1>4

(* The goroutines of the child.                                             *)
LEMMA GoroutinesRight ==
    ASSUME IInv, ChildrenFit, OneHand, RightRecord, ~down, "status" \notin events,
           NEW e \in Children, MatcherEffect(e) \/ TimerEffect(e) \/ ApplyEffect(e)
    PROVE  RightRecord'
<1>1. UNCHANGED <<spec, children, main>> /\ Only(e) /\ child'[e].k8s = child[e].k8s
  BY DEF MatcherEffect, TimerEffect, ApplyEffect, SameSpec
<1>2. SameType'
  <2>1. \A c \in children : child'[c].k8s = child[c].k8s
    BY <1>1 DEF Only, IInv, TypeOK
  <2> QED
    BY <1>1, <2>1 DEF RightRecord, SameType
<1>3. SUFFICES ASSUME NEW c \in children PROVE AfterEnsure(child[c])' /\ AtRest(child[c])'
  BY <1>1, <1>2 DEF RightRecord, AllApplied
<1>4. e = c
  BY OnlyChild
<1> DEFINE q == child[c]
           r == child'[c]
<1>5. AfterEnsure(q) /\ AtRest(q) /\ q \in Child
  BY <1>4, ChildFacts DEF RightRecord, AllApplied
<1>6. CASE MatcherEffect(c)
  <2>1. r.k8s = q.k8s /\ SameTimers(r, q) /\ UNCHANGED record
    BY <1>6 DEF MatcherEffect, SameSpec
  <2>2. r.run # "live" \/ r.step # "none"
    BY <1>6 DEF MatcherEffect, CallEffect, DeliverEffect, EndEffect
  <2>3. r.step = "status" => q.step = "status" /\ r.ok = q.ok /\ r.activeNodes = q.activeNodes
    BY <1>6 DEF MatcherEffect, CallEffect, DeliverEffect, EndEffect, SameLock
  <2> QED
    BY <1>5, <2>1, <2>2, <2>3 DEF AfterEnsure, AtRest, Applied, Pending, SameTimers, ips
<1>7. CASE TimerEffect(c)
  <2>1. r.k8s = q.k8s /\ r.activeNodes = q.activeNodes /\ UNCHANGED record
    BY <1>7 DEF TimerEffect, SameSpec
  <2>2. r.step = "ensure" \/ (Pending(r) /\ r.step = q.step /\ r.ok = q.ok)
    BY <1>7 DEF TimerEffect, FireEffect, RetryEffect, SameLock
  <2> QED
    BY <1>5, <2>1, <2>2 DEF AfterEnsure, AtRest, Applied, ips
<1>8. CASE ApplyEffect(c) /\ EnsureEffect(c)
  <2>1. r.k8s = q.k8s /\ q.k8s.dns \in Zones /\ r.activeNodes = q.activeNodes /\ r.step = "status"
    BY <1>8, ConstantsAssumption DEF ApplyEffect, SameSpec, EnsureEffect
  <2>2. CASE r.ok = TRUE /\ record' = [record EXCEPT ![q.k8s.dns] = ips(q)]
    <3>1. record'[r.k8s.dns] = ips(r)
      BY <2>1, <2>2 DEF ips, ChildrenFit
    <3> QED
      BY <2>1, <2>2, <3>1 DEF AfterEnsure, AtRest, Applied, ips
  <2>3. CASE r.ok = FALSE /\ Pending(r)
    BY <2>1, <2>3 DEF AfterEnsure, AtRest
  <2> QED
    BY <1>8, <2>2, <2>3 DEF EnsureEffect
<1>9. CASE ApplyEffect(c) /\ StatusEffect(c)
  <2>1. r.k8s = q.k8s /\ r.activeNodes = q.activeNodes /\ SameTimers(r, q) /\ q.step = "status" /\ r.step = "none"
        /\ UNCHANGED record
    BY <1>9 DEF ApplyEffect, SameSpec, StatusEffect
  <2>2. spec # NoSpec => status' = IF q.ok THEN "active" ELSE "in-progress"
    BY <1>9 DEF StatusEffect
  <2>3. q.ok => record'[r.k8s.dns] = ips(r)
    BY <1>5, <2>1 DEF AfterEnsure, Applied, ips
  <2>4. ~q.ok => Pending(r)
    BY <1>5, <2>1 DEF AfterEnsure, Pending, SameTimers
  <2> QED
    BY <1>1, <2>1, <2>2, <2>3, <2>4 DEF AfterEnsure, AtRest, Applied, ips
<1> QED
  BY <1>4, <1>6, <1>7, <1>8, <1>9 DEF ApplyEffect

(* The main goroutine on its child: a spec taken over without a restart has *)
(* the record set and the address type of the one before.                   *)
LEMMA UpdateRight ==
    ASSUME IInv, ChildrenFit, OneHand, RightRecord, NEW c \in Children, c = main.on, UpdateEffect(c)
    PROVE  RightRecord'
<1> DEFINE q == child[c]
           r == child'[c]
<1>1. /\ Only(c) /\ c \in Children /\ UNCHANGED <<spec, status, record, children>>
      /\ \/ UpdatedEffect(c) /\ main.at \in {"update", "join"} /\ (main.at = "update" => q.lock = "free")
         \/ HoldEffect(c) /\ main'.spec = main.spec
         \/ StartEffect(c)
  BY DEF UpdateEffect
<1>2. c \in children /\ \A e \in children : e = c
  BY <1>1 DEF ChildrenFit, MainFits, UpdatedEffect, HoldEffect, StartEffect, OneHand, Alone
<1>3. q \in Child /\ ChildSound(q) /\ LockFits(q) /\ AfterEnsure(q) /\ AtRest(q)
  BY <1>1, <1>2, ChildFacts DEF ChildrenFit, RightRecord, AllApplied
<1>4. q.k8s = NoSpec <=> q.run = "none"
  BY <1>2 DEF OneHand, Alone
<1>5. SameType'
  <2>1. spec # NoSpec => r.k8s = NoSpec \/ r.k8s.addr = spec.addr
    BY <1>1, <1>2 DEF RightRecord, SameType, UpdatedEffect, HoldEffect, StartEffect
  <2>2. spec # NoSpec /\ main'.at \in {"update", "join"} => main'.spec.addr = spec.addr
    BY <1>1 DEF RightRecord, SameType, UpdatedEffect, HoldEffect, StartEffect, Idle
  <2> QED
    BY <1>1, <1>2, <2>1, <2>2 DEF SameType
<1>6. AfterEnsure(child[c])' /\ AtRest(child[c])'
  <2>1. CASE UpdatedEffect(c) /\ main.at \in {"update", "join"} /\ (main.at = "update" => q.lock = "free")
    <3>1. q.step = "none" /\ r.step = "none"
      BY <1>3, <2>1 DEF ChildrenFit, MainFits, LockFits, UpdatedEffect
    <3>2. CASE r.run = "new"
      BY <3>1, <3>2 DEF AfterEnsure, AtRest
    <3>3. CASE ~NeedsRestart(q) /\ q.run # "none" /\ SameMatcher(r, q) /\ r.activeNodes = q.activeNodes /\ r.timer = q.timer
      <4>1. r.k8s.dns = q.k8s.dns /\ (Pending(r) <=> Pending(q)) /\ r.run = q.run
        BY <2>1, <3>3 DEF NeedsRestart, UpdatedEffect, Pending, SameMatcher
      <4>2. spec # NoSpec => r.k8s.addr = q.k8s.addr
        BY <1>2, <1>4, <2>1, <3>3 DEF RightRecord, SameType, UpdatedEffect
      <4> QED
        BY <1>1, <1>3, <2>1, <3>1, <3>3, <4>1, <4>2 DEF AfterEnsure, AtRest, Applied, ips
    <3> QED
      BY <2>1, <3>2, <3>3 DEF UpdatedEffect
  <2>2. CASE HoldEffect(c)
    <3>1. r.step = "none" /\ q.step = "none" /\ r.k8s = q.k8s /\ SameMatcher(r, q) /\ r.activeNodes = q.activeNodes
      BY <1>3, <2>2 DEF HoldEffect, LockFits
    <3>2. main'.at = "stopJoin" \/ (main.at = "update" /\ (Pending(r) <=> Pending(q)))
      BY <2>2 DEF HoldEffect, Pending
    <3> QED
      BY <1>1, <1>3, <3>1, <3>2 DEF AfterEnsure, AtRest, Applied, ips, SameMatcher
  <2>3. CASE StartEffect(c)
    <3>1. SameLock(r, q) /\ SameTimers(r, q) /\ r.k8s = q.k8s /\ r.activeNodes = q.activeNodes
          /\ r.run = (IF q.run = "new" THEN "sync" ELSE q.run) /\ main.at = "start"
      BY <2>3 DEF StartEffect
    <3> QED
      BY <1>1, <1>3, <3>1 DEF AfterEnsure, AtRest, Applied, ips, SameLock, SameTimers, Pending
  <2> QED
    BY <1>1, <2>1, <2>2, <2>3
<1> QED
  BY <1>1, <1>2, <1>5, <1>6 DEF RightRecord, AllApplied

(* The rest of the main goroutine.                                          *)
LEMMA MainRight ==
    ASSUME IInv, ChildrenFit, OneHand, RightRecord, ~down, StopEffect(main.on) \/ BeginEffect \/ HaltEffect
    PROVE  RightRecord'
<1>1. CASE StopEffect(main.on)
  <2>1. children' = {} /\ main'.at = "idle"
    BY <1>1 DEF StopEffect, ChildrenFit, MainFits, OneHand, Alone, Idle
  <2> QED
    BY <2>1 DEF RightRecord, SameType, AllApplied
<1>2. CASE BeginEffect
  <2>1. UNCHANGED <<spec, status, record>> /\ main'.at = "update" /\ main'.spec = spec /\ main.at = "idle"
    BY <1>2 DEF BeginEffect
  <2>2. CASE UNCHANGED <<children, child>>
    BY <2>1, <2>2 DEF RightRecord, SameType, AllApplied, AfterEnsure, AtRest, Applied, ips
  <2>3. CASE Known = {} /\ children' = children \cup {main'.on} /\ child'[main'.on] = Fresh(uid)
    <3>1. children' = {main'.on}
      BY <2>3 DEF OneHand, Alone
    <3>2. Fresh(uid).k8s = NoSpec /\ Fresh(uid).run = "none" /\ Fresh(uid).step = "none"
      BY DEF Fresh
    <3> QED
      BY <2>1, <2>3, <3>1, <3>2 DEF RightRecord, SameType, AllApplied, AfterEnsure, AtRest
  <2> QED
    BY <1>2, <2>2, <2>3 DEF BeginEffect
<1>3. CASE HaltEffect
  <2>1. UNCHANGED <<spec, record, children, child>> /\ main'.at \in {"idle", "stop"}
    BY <1>3 DEF HaltEffect
  <2>2. children = {} \/ main'.at = "stop"
    BY <1>3 DEF HaltEffect, OneHand, Alone
  <2> QED
    BY <2>1, <2>2 DEF RightRecord, SameType, AllApplied, AfterEnsure, AtRest, Applied, ips
<1> QED
  BY <1>1, <1>2, <1>3

(* Users and nodes.                                                         *)
LEMMA EnvironmentRight ==
    ASSUME IInv, ChildrenFit, OneHand, RightRecord, events \cap {"address", "missed"} = {}, Environment
    PROVE  RightRecord'
<1>1. CASE Shutdown \/ \E n \in Nodes : Flip(n)
  <2>1. UNCHANGED <<spec, status, record, children, child, main>>
    BY <1>1 DEF Shutdown, Flip, apiVars, worldVars
  <2> QED
    BY <2>1 DEF RightRecord, SameType, AllApplied, AfterEnsure, AtRest, Applied, ips
<1>2. ASSUME NEW s \in Specs, Edit(s) PROVE RightRecord'
  <2>1. UNCHANGED <<status, record, children, child, main>> /\ spec # NoSpec /\ spec' = s /\ s.addr = spec.addr
    BY <1>2, EditIs
  <2> QED
    BY <2>1 DEF RightRecord, SameType, AllApplied, AfterEnsure, AtRest, Applied, ips
<1>3. CASE Remove
  <2>1. UNCHANGED <<record, children, child, main>> /\ spec' = NoSpec
    BY <1>3 DEF Remove, worldVars
  <2> QED
    BY <2>1 DEF RightRecord, SameType, AllApplied, AfterEnsure, AtRest, Applied, ips
<1>4. ASSUME NEW s \in Specs, Create(s) PROVE RightRecord'
  <2>1. UNCHANGED <<children, child, main>> /\ Known = {}
    BY <1>4 DEF Create, Event
  <2>2. children = {} /\ main.at \in {"idle", "returned"}
    BY <2>1 DEF OneHand, Alone, ChildrenFit, MainFits
  <2> QED
    BY <2>1, <2>2 DEF RightRecord, SameType, AllApplied
<1> QED
  BY <1>1, <1>2, <1>3, <1>4 DEF Environment

(* Every step.                                                              *)
LEMMA NextRight ==
    ASSUME IInv, ChildrenFit, TameInv, AccurateInv, [Next]_vars
    PROVE  AccurateInv'
<1>1. SUFFICES ASSUME Benign, ~down PROVE RightRecord'
  BY EventsStay DEF AccurateInv, Benign, LateRetries
<1>2. OneHand /\ RightRecord /\ events \cap {"address", "missed", "status"} = {}
  BY <1>1 DEF TameInv, Tame, AccurateInv, Benign, LateRetries
<1>3. CASE UNCHANGED vars
  <2>1. UNCHANGED <<spec, status, record, children, child, main>>
    BY <1>3 DEF vars, apiVars, worldVars
  <2> QED
    BY <1>2, <2>1 DEF RightRecord, SameType, AllApplied, AfterEnsure, AtRest, Applied, ips
<1>4. UpdateEffect(main.on) => main.on \in Children
  BY DEF UpdateEffect
<1>5. CASE OnDeleteUnknown
  BY <1>5 DEF OnDeleteUnknown, RightRecord, SameType, AllApplied, apiVars
<1> QED
  BY <1>1, <1>2, <1>3, <1>4, <1>5, StepIs, GoroutinesRight, UpdateRight, MainRight, EnvironmentRight

(* The initial states.                                                      *)
LEMMA InitRight == Init => AccurateInv
  BY DEF Init, AccurateInv, RightRecord, SameType, AllApplied, Idle
-----------------------------------------------------------------------------
(* Where nodes stay as they are and no retry outlives a change of criteria, *)
(* the child is told all the matching nodes at once: whenever it writes the *)
(* record it has them all.                                                  *)
Steady ==
    /\ events \cap {"early", "flip", "missed"} = {}
    /\ ~("dns" \in events /\ events \cap {"edit", "create"} # {})

Alike(s, t) == s # NoSpec /\ t # NoSpec => s.match = t.match /\ s.dns = t.dns

SameCriteria ==
    "dns" \in events =>
      /\ Alike(spec, main.spec) /\ main.at # "join"
      /\ \A c \in children : Alike(spec, child[c].k8s) /\ Alike(main.spec, child[c].k8s)

AllTold(r) ==
    /\ r.run = "call" => r.call.kind = "enable" /\ r.told = Matches(r.k8s)
    /\ r.run = "live" => r.told = Matches(r.k8s)
    /\ Pending(r) \/ r.lock = "timer" => r.activeNodes = Matches(r.k8s)

FullRecord == SameCriteria /\ \A c \in children : AllTold(child[c])
SteadyInv == Steady /\ ~down => FullRecord

(* The goroutines of the child.                                             *)
LEMMA GoroutinesFull ==
    ASSUME IInv, ChildrenFit, OneHand, FullRecord, "early" \notin events,
           NEW e \in Children, MatcherEffect(e) \/ TimerEffect(e) \/ ApplyEffect(e)
    PROVE  FullRecord'
<1>1. UNCHANGED <<spec, matching, children, main, events>> /\ Only(e) /\ child'[e].k8s = child[e].k8s
  BY DEF MatcherEffect, TimerEffect, ApplyEffect, SameSpec
<1>2. SameCriteria'
  <2>1. \A c \in children : child'[c].k8s = child[c].k8s
    BY <1>1 DEF Only, IInv, TypeOK
  <2> QED
    BY <1>1, <2>1 DEF FullRecord, SameCriteria, Alike
<1>3. SUFFICES ASSUME NEW c \in children PROVE AllTold(child[c])'
  BY <1>1, <1>2 DEF FullRecord
<1>4. e = c
  BY OnlyChild
<1> DEFINE q == child[c]
           r == child'[c]
           nodes == Matches(q.k8s)
<1>5. AllTold(q) /\ q \in Child /\ LockFits(q) /\ ToldFits(q)
  BY <1>4, ChildFacts DEF FullRecord, ChildrenFit
<1>6. Matches(child[c].k8s)' = nodes
  BY <1>1, <1>4 DEF Matches
<1> HIDE DEF nodes
<1>7. SUFFICES /\ r.run = "call" => r.call.kind = "enable" /\ r.told = nodes
               /\ r.run = "live" => r.told = nodes
               /\ Pending(r) \/ r.lock = "timer" => r.activeNodes = nodes
  BY <1>6 DEF AllTold, Pending, Matches
<1>8. /\ q.run = "call" => q.call.kind = "enable" /\ q.told = nodes
      /\ q.run = "live" => q.told = nodes
      /\ Pending(q) \/ q.lock = "timer" => q.activeNodes = nodes
  BY <1>5 DEF AllTold, nodes
<1>9. CASE MatcherEffect(c)
  <2>1. Pending(r) <=> Pending(q)
    BY <1>9 DEF MatcherEffect, SameTimers, Pending
  <2>2. CASE CallEffect(c)
    <3>1. r.run = "call" /\ r.call.kind = "enable" /\ r.told = nodes
      BY <1>8, <2>2 DEF CallEffect, nodes
    <3> QED
      BY <1>8, <2>1, <2>2, <3>1 DEF CallEffect, SameLock
  <2>3. CASE DeliverEffect(c)
    <3>1. q.run = "call" /\ q.lock = "free" /\ r.lock = "match" /\ SameMatcher(r, q)
          /\ r.activeNodes = ToldAfter(q)
      BY <2>3 DEF DeliverEffect, ToldAfter
    <3>2. r.activeNodes = nodes
      BY <1>5, <1>8, <3>1 DEF ToldFits
    <3> QED
      BY <1>8, <3>1, <3>2 DEF SameMatcher
  <2>4. CASE EndEffect(c)
    BY <1>8, <2>1, <2>4 DEF EndEffect, SameLock
  <2> QED
    BY <1>9, <2>2, <2>3, <2>4 DEF MatcherEffect
<1>10. CASE TimerEffect(c)
  <2>1. SameMatcher(r, q) /\ r.activeNodes = q.activeNodes
    BY <1>10 DEF TimerEffect
  <2>2. Pending(q) \/ r.lock = q.lock
    BY <1>10 DEF TimerEffect, FireEffect, RetryEffect
  <2>3. Pending(r) => Pending(q)
    BY <1>10 DEF TimerEffect, FireEffect, RetryEffect
  <2> QED
    BY <1>8, <2>1, <2>2, <2>3 DEF SameMatcher
<1>11. CASE ApplyEffect(c)
  <2>1. q.lock \in {"match", "timer"} /\ r.activeNodes = q.activeNodes
    BY <1>5, <1>11 DEF ApplyEffect, EnsureEffect, StatusEffect, LockFits, Child
  <2>2. q.lock = "match" => q.run = "call" /\ q.activeNodes = q.told
    BY <1>5 DEF LockFits, ToldFits, ToldAfter
  <2>3. q.activeNodes = nodes
    BY <1>8, <2>1, <2>2
  <2>4. CASE EnsureEffect(c)
    BY <1>8, <2>1, <2>3, <2>4 DEF EnsureEffect, SameMatcher
  <2>5. CASE StatusEffect(c)
    BY <1>8, <2>1, <2>2, <2>3, <2>5 DEF StatusEffect
  <2> QED
    BY <1>11, <2>4, <2>5 DEF ApplyEffect
<1> QED
  BY <1>4, <1>9, <1>10, <1>11

(* The main goroutine on its child: a restart comes without retries.        *)
LEMMA UpdateFull ==
    ASSUME IInv, ChildrenFit, OneHand, FullRecord, NEW c \in Children, c = main.on, UpdateEffect(c)
    PROVE  FullRecord'
<1> DEFINE q == child[c]
           r == child'[c]
<1>1. /\ Only(c) /\ UNCHANGED <<spec, matching, children, events>>
      /\ \/ /\ UpdatedEffect(c) /\ main' = [main EXCEPT !.at = "start"]
            /\ ((main.at = "update" /\ q.lock = "free" /\ ~NeedsRestart(q)) \/ main.at = "join")
         \/ HoldEffect(c) /\ main'.spec = main.spec
         \/ StartEffect(c)
  BY DEF UpdateEffect
<1>2. c \in children /\ \A e \in children : e = c
  BY <1>1 DEF ChildrenFit, MainFits, UpdatedEffect, HoldEffect, StartEffect, OneHand, Alone
<1>3. q \in Child /\ ChildSound(q) /\ LockFits(q) /\ AllTold(q)
  BY <1>2, ChildFacts DEF ChildrenFit, FullRecord
<1>4. q.k8s = NoSpec <=> q.run = "none"
  BY <1>2 DEF OneHand, Alone
<1>5. main \in [at : MainSteps, on : Children \cup {0}, spec : Specs \cup {NoSpec}]
  BY DEF IInv, TypeOK
<1>6. "dns" \in events => Alike(spec, main.spec) /\ main.at # "join" /\ Alike(spec, q.k8s) /\ Alike(main.spec, q.k8s)
  BY <1>2 DEF FullRecord, SameCriteria
<1>7. CASE /\ UpdatedEffect(c) /\ main' = [main EXCEPT !.at = "start"]
           /\ ((main.at = "update" /\ q.lock = "free" /\ ~NeedsRestart(q)) \/ main.at = "join")
  <2>1. main'.at = "start" /\ main'.spec = main.spec /\ r.k8s = main.spec
    BY <1>5, <1>7 DEF UpdatedEffect
  <2>2. SameCriteria'
    BY <1>1, <1>2, <1>6, <2>1 DEF SameCriteria, Alike
  <2>3. q.lock \in {"free", "main"}
    BY <1>7 DEF ChildrenFit, MainFits
  <2>4. CASE q.run = "none"
    <3>1. ~Pending(q) /\ r.run \in {"none", "new"} /\ ~Pending(r) /\ r.lock # "timer"
      BY <1>3, <1>4, <1>7, <2>3, <2>4 DEF ChildSound, UpdatedEffect, Pending, NeedsRestart
    <3> QED
      BY <1>1, <1>2, <2>2, <3>1 DEF FullRecord, AllTold, Pending
  <2>5. CASE q.run # "none" /\ NeedsRestart(q)
    <3>1. "dns" \notin events
      BY <1>6, <1>7, <2>5
    <3>2. ~Pending(q)
      BY <3>1 DEF OneHand, NoTimers
    <3>3. r.run = "new" /\ ~Pending(r) /\ r.lock # "timer"
      BY <1>7, <2>5, <3>2 DEF UpdatedEffect, Pending
    <3> QED
      BY <1>1, <1>2, <2>2, <3>3 DEF FullRecord, AllTold, Pending
  <2>6. CASE q.run # "none" /\ ~NeedsRestart(q)
    <3>1. r.k8s.match = q.k8s.match /\ SameMatcher(r, q) /\ r.activeNodes = q.activeNodes /\ r.lock = q.lock
          /\ (Pending(r) <=> Pending(q))
      BY <1>7, <2>6 DEF NeedsRestart, UpdatedEffect, Pending
    <3>2. AllTold(child[c])'
      BY <1>1, <1>3, <3>1 DEF AllTold, Matches, Pending, SameMatcher
    <3> QED
      BY <1>1, <1>2, <2>2, <3>2 DEF FullRecord
  <2> QED
    BY <2>4, <2>5, <2>6
<1>8. CASE HoldEffect(c) /\ main'.spec = main.spec
  <2>1. r.k8s = q.k8s /\ SameMatcher(r, q) /\ r.activeNodes = q.activeNodes /\ r.lock = "main"
        /\ (Pending(r) => Pending(q))
    BY <1>8 DEF HoldEffect, Pending
  <2>2. "dns" \in events => main'.at # "join"
    <3>1. main.at = "update" => main.spec # NoSpec
      BY ConstantsAssumption DEF IInv, TypeOK
    <3>2. "dns" \in events /\ main.at = "update" => ~NeedsRestart(q)
      BY <1>4, <1>6, <3>1 DEF Alike, NeedsRestart
    <3> QED
      BY <1>8, <3>2 DEF HoldEffect
  <2>3. SameCriteria'
    BY <1>1, <1>2, <1>6, <1>8, <2>1, <2>2 DEF SameCriteria, Alike
  <2>4. AllTold(child[c])'
    BY <1>1, <1>3, <2>1 DEF AllTold, Matches, Pending, SameMatcher
  <2> QED
    BY <1>1, <1>2, <2>3, <2>4 DEF FullRecord
<1>9. CASE StartEffect(c)
  <2>1. SameLock(r, q) /\ SameTimers(r, q) /\ r.k8s = q.k8s /\ r.activeNodes = q.activeNodes /\ r.told = q.told
        /\ r.call = q.call /\ r.run = (IF q.run = "new" THEN "sync" ELSE q.run)
        /\ main'.at = "idle" /\ main'.spec = NoSpec
    BY <1>9 DEF StartEffect, Idle
  <2>2. SameCriteria'
    BY <1>1, <1>2, <1>6, <2>1 DEF SameCriteria, Alike
  <2>3. AllTold(child[c])'
    BY <1>1, <1>3, <2>1 DEF AllTold, Matches, Pending, SameLock, SameTimers
  <2> QED
    BY <1>1, <1>2, <2>2, <2>3 DEF FullRecord
<1> QED
  BY <1>1, <1>7, <1>8, <1>9

(* The rest of the main goroutine.                                          *)
LEMMA MainFull ==
    ASSUME IInv, ChildrenFit, OneHand, FullRecord, ~down, StopEffect(main.on) \/ BeginEffect \/ HaltEffect
    PROVE  FullRecord'
<1>1. CASE StopEffect(main.on)
  <2>1. children' = {} /\ main'.at = "idle" /\ main'.spec = NoSpec
    BY <1>1 DEF StopEffect, ChildrenFit, MainFits, OneHand, Alone, Idle
  <2> QED
    BY <2>1 DEF FullRecord, SameCriteria, Alike
<1>2. CASE BeginEffect
  <2>1. UNCHANGED <<spec, matching, events>> /\ main'.at = "update" /\ main'.spec = spec
    BY <1>2 DEF BeginEffect
  <2>2. CASE UNCHANGED <<children, child>>
    BY <2>1, <2>2 DEF FullRecord, SameCriteria, Alike, AllTold, Matches, Pending
  <2>3. CASE Known = {} /\ children' = children \cup {main'.on} /\ child'[main'.on] = Fresh(uid)
    <3>1. children' = {main'.on}
      BY <2>3 DEF OneHand, Alone
    <3>2. Fresh(uid).k8s = NoSpec /\ Fresh(uid).run = "none" /\ Fresh(uid).lock = "free" /\ ~Pending(Fresh(uid))
      BY DEF Fresh, Pending
    <3> QED
      BY <2>1, <2>3, <3>1, <3>2 DEF FullRecord, SameCriteria, Alike, AllTold, Pending
  <2> QED
    BY <1>2, <2>2, <2>3 DEF BeginEffect
<1>3. CASE HaltEffect
  <2>1. UNCHANGED <<spec, matching, children, child, events>> /\ main'.at \in {"idle", "stop"} /\ main'.spec = NoSpec
    BY <1>3 DEF HaltEffect
  <2> QED
    BY <2>1 DEF FullRecord, SameCriteria, Alike, AllTold, Matches, Pending
<1> QED
  BY <1>1, <1>2, <1>3

(* Users; the nodes stay as they are.                                       *)
LEMMA EnvironmentFull ==
    ASSUME IInv, ChildrenFit, OneHand, FullRecord, Steady, Environment
    PROVE  FullRecord'
<1>1. CASE Shutdown \/ \E n \in Nodes : Flip(n)
  <2>1. UNCHANGED <<spec, matching, children, child, main, events>>
    BY <1>1 DEF Shutdown, Flip, Event, Steady, apiVars, worldVars
  <2> QED
    BY <2>1 DEF FullRecord, SameCriteria, Alike, AllTold, Matches, Pending
<1>2. ASSUME NEW s \in Specs, Edit(s) PROVE FullRecord'
  <2>1. UNCHANGED <<matching, children, child, main, events>> /\ spec # NoSpec /\ spec' = s
    BY <1>2, EditIs
  <2>2. "dns" \in events => s.match = spec.match /\ s.dns = spec.dns
    BY <1>2, EditIs DEF Steady
  <2> QED
    BY <2>1, <2>2 DEF FullRecord, SameCriteria, Alike, AllTold, Matches, Pending
<1>3. CASE Remove
  <2>1. UNCHANGED <<matching, children, child, main, events>> /\ spec' = NoSpec
    BY <1>3 DEF Remove, worldVars, runVars
  <2> QED
    BY <2>1 DEF FullRecord, SameCriteria, Alike, AllTold, Matches, Pending
<1>4. ASSUME NEW s \in Specs, Create(s) PROVE FullRecord'
  <2>1. UNCHANGED <<children, child, main, events>> /\ Known = {} /\ "dns" \notin events
    BY <1>4 DEF Create, Event, Steady, runVars
  <2>2. children = {}
    BY <2>1 DEF OneHand, Alone
  <2> QED
    BY <2>1, <2>2 DEF FullRecord, SameCriteria
<1> QED
  BY <1>1, <1>2, <1>3, <1>4 DEF Environment

(* Every step.                                                              *)
LEMMA NextFull ==
    ASSUME IInv, ChildrenFit, TameInv, SteadyInv, [Next]_vars
    PROVE  SteadyInv'
<1>1. SUFFICES ASSUME Steady, ~down PROVE FullRecord'
  BY EventsStay DEF SteadyInv, Steady
<1>2. OneHand /\ FullRecord /\ "early" \notin events
  BY <1>1 DEF TameInv, Tame, SteadyInv, Steady
<1>3. CASE UNCHANGED vars
  <2>1. UNCHANGED <<spec, matching, children, child, main, events>>
    BY <1>3 DEF vars, apiVars, worldVars, runVars
  <2> QED
    BY <1>2, <2>1 DEF FullRecord, SameCriteria, Alike, AllTold, Matches, Pending
<1>4. UpdateEffect(main.on) => main.on \in Children
  BY DEF UpdateEffect
<1>5. CASE OnDeleteUnknown
  BY <1>5 DEF OnDeleteUnknown, FullRecord, SameCriteria, Alike, apiVars
<1> QED
  BY <1>1, <1>2, <1>3, <1>4, <1>5, StepIs, GoroutinesFull, UpdateFull, MainFull, EnvironmentFull

(* The initial states.                                                      *)
LEMMA InitFull == Init => SteadyInv
  BY DEF Init, SteadyInv, FullRecord, SameCriteria, Alike, Idle
-----------------------------------------------------------------------------
RecordInv == IInv /\ ChildrenFit /\ TameInv /\ AccurateInv /\ SteadyInv

(* The invariant behind the two results about the record sets.              *)
THEOREM RecordInductive == Spec => []RecordInv
<1>1. Init => RecordInv
  BY InitIInv, InitFits, InitTame, InitRight, InitFull DEF RecordInv
<1>2. RecordInv /\ [Next]_vars => RecordInv'
  BY NextIInv, NextFits, NextTame, NextRight, NextFull DEF RecordInv
<1> QED
  BY <1>1, <1>2, PTL DEF Spec

(* When all is quiet the record holds the addresses of the matching nodes.  *)
LEMMA RightAtRest == RecordInv => Accurate
<1> SUFFICES ASSUME RecordInv, Benign, NEW c \in Children, Quiet(c)
             PROVE  record[spec.dns] = Wanted(spec) /\ status = "active"
  BY DEF Accurate, UpToDate
<1> DEFINE r == child[c]
<1>1. RightRecord /\ c \in children /\ spec # NoSpec /\ main.at = "idle" /\ r.k8s = spec
      /\ r.run = "live" /\ r.told = Matches(spec) /\ r.lock = "free"
  BY DEF RecordInv, AccurateInv, Quiet, Known
<1>2. ~Pending(r)
  BY ChildFacts DEF Quiet, Pending, RecordInv, Child
<1>3. r.step = "none" /\ r.activeNodes = Matches(spec)
  BY <1>1 DEF RecordInv, ChildrenFit, LockFits, ToldFits
<1>4. status = "active" /\ record[spec.dns] = ips(r)
  BY <1>1, <1>2, <1>3 DEF RightRecord, AllApplied, AtRest, Applied
<1>5. ips(r) = Wanted(spec)
  BY <1>1, <1>3 DEF ips, Wanted
<1> QED
  BY <1>4, <1>5

(* Through failed updates, retries, timers that are forgotten, restarts of  *)
(* the match controller, edits and deletions: when nothing is under way the *)
(* record set holds exactly the addresses of the matching nodes, and the    *)
(* status says so.                                                          *)
THEOREM RecordsAccurate == Spec => []Accurate
<1> QED
  BY RightAtRest, RecordInductive, PTL

(* applyDNS of a steady child keeps what is served and wanted.              *)
LEMMA ServedStays ==
    ASSUME RecordInv, Steady, [Next]_vars
    PROVE  KeepsServed \/ UNCHANGED record
<1> SUFFICES ASSUME record' # record PROVE KeepsServed
  OBVIOUS
<1>1. PICK e \in Children : child[e].step = "ensure" /\ ~down /\ CutShort(child[e])
  <2>1. ASSUME NEW e \in Children, MatcherEffect(e) \/ TimerEffect(e) PROVE FALSE
    BY <2>1 DEF MatcherEffect, TimerEffect
  <2>2. ~UpdateEffect(main.on) /\ ~StopEffect(main.on) /\ ~BeginEffect /\ ~HaltEffect
    BY DEF UpdateEffect, StopEffect, BeginEffect, HaltEffect
  <2>3. ~Environment
    BY DEF Environment, Flip, Edit, Create, Remove, Shutdown, worldVars
  <2>4. ~UNCHANGED vars
    BY DEF vars, worldVars
  <2>5. (\E e \in Children : ApplyEffect(e)) \/ OnDeleteUnknown
    BY <2>1, <2>2, <2>3, <2>4, StepIs DEF RecordInv
  <2>6. ASSUME NEW e \in Children, ApplyEffect(e)
        PROVE  child[e].step = "ensure" /\ ~down /\ CutShort(child[e])
    <3>1. EnsureEffect(e)
      BY <2>6 DEF ApplyEffect, StatusEffect
    <3> QED
      BY <3>1 DEF EnsureEffect, CutShort
  <2> QED
    BY <2>5, <2>6 DEF OnDeleteUnknown
<1>2. IInv /\ ChildrenFit /\ OneHand /\ FullRecord
  BY <1>1 DEF RecordInv, TameInv, Tame, SteadyInv, Steady
<1>3. SUFFICES ASSUME NEW c \in children, child[c].k8s # NoSpec
               PROVE  record[child[c].k8s.dns] \cap Wanted(child[c].k8s) \subseteq record'[child[c].k8s.dns]
  BY DEF KeepsServed
<1>4. e = c
  <2>1. SUFFICES ASSUME e \notin children PROVE FALSE
    BY <1>2 DEF OneHand, Alone
  <2>2. Still(child[e])
    BY <1>2, <2>1 DEF OneHand, StoppedStill
  <2> QED
    BY <1>1, <2>2 DEF Still
<1> DEFINE q == child[c]
           z == q.k8s.dns
<1>5. q \in Child /\ LockFits(q) /\ ToldFits(q) /\ AllTold(q) /\ z \in Zones
  <2>1. q \in Child /\ LockFits(q) /\ ToldFits(q) /\ AllTold(q)
    BY <1>2, <1>4, ChildFacts DEF ChildrenFit, FullRecord
  <2>2. q.k8s \in Specs
    BY <1>3, <2>1 DEF Child
  <2> QED
    BY <2>1, <2>2, ConstantsAssumption
<1>6. q.activeNodes = Matches(q.k8s)
  <2>1. q.lock \in {"match", "timer"}
    BY <1>1, <1>4, <1>5 DEF LockFits, Child
  <2>2. q.lock = "match" => q.run = "call" /\ q.told = q.activeNodes
    BY <1>5 DEF LockFits, ToldFits, ToldAfter
  <2> QED
    BY <1>5, <2>1, <2>2 DEF AllTold
<1>7. ips(q) = Wanted(q.k8s)
  BY <1>6 DEF ips, Wanted
<1>8. \E left : record[z] \cap ips(q) \subseteq left /\ record' = [record EXCEPT ![z] = left]
  BY <1>1, <1>4 DEF CutShort
<1>9. record[z] \cap ips(q) \subseteq record'[z]
  BY <1>2, <1>5, <1>8 DEF ChildrenFit
<1> QED
  BY <1>7, <1>9

(* A restart of a match controller, or of the process, takes away no        *)
(* address that is served and wanted.                                       *)
THEOREM RestartDisturbsNothing == Spec => NoOutage
<1>1. RecordInv /\ [Next]_vars =>
        [events \cap {"early", "flip", "missed"} = {}
         /\ ~("dns" \in events /\ events \cap {"edit", "create"} # {}) => KeepsServed]_record
  BY ServedStays DEF Steady
<1> QED
  BY <1>1, RecordInductive, PTL DEF Spec, NoOutage
=============================================================================
