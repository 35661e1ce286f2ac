------------------------ MODULE LeaderElectionProofs ------------------------
(***************************************************************************)
(* Proofs about the leader election, for any number of replicas, children, *)
(* signals and crashes, and wherever the goroutine of OnStartedLeading     *)
(* falls.                                                                  *)
(***************************************************************************)
EXTENDS LeaderElection, TLAPS

\* What LeaseHeld says of a replica in state s, if it has the lease or not.
Holds(s, held) ==
    /\ s.main = "renew" => held
    /\ s.running # {} => s.main = "renew" /\ s.childCtx # "nil"
    /\ s.start = "spawned" => s.main \notin {"boot", "acquire", "exited"}
    /\ s.main \in {"release", "stopped", "join", "returned"} => s.leaderDone
    /\ s.shut = "join" => s.signals > 0
    /\ s.leaderDone => s.signals > 0 /\ s.running = {}

(* A process that is not up has nothing running.                            *)
LEMMA FreshReplica ==
    ASSUME NEW m \in {"boot", "acquire", "exited"}, NEW held
    PROVE  Fresh(m) \in Replica /\ Holds(Fresh(m), held)
<1> DEFINE f == Fresh(m)
<1>1. f \in Replica
  BY DEF Fresh, Replica
<1>2. /\ f.main = m /\ f.running = {} /\ f.start = "none" /\ f.shut = "wait" /\ f.leaderDone = FALSE
  BY DEF Fresh
<1>3. Holds(f, held)
  <2> HIDE DEF f
  <2> QED
    BY <1>2 DEF Holds
<1> QED
  BY <1>1, <1>3

(* The initial states.                                                      *)
LEMMA InitIInv == Init => IInv
<1> SUFFICES ASSUME Init PROVE IInv
  OBVIOUS
<1>1. \A r \in Replicas : rep[r] = Fresh("boot") /\ rep[r] \in Replica /\ Holds(rep[r], lease = r)
  BY FreshReplica DEF Init
<1>2. TypeOK
  BY <1>1, ConstantsAssumption DEF Init, TypeOK
<1>3. \A r \in Replicas : LeaseHeld(r)
  BY <1>1 DEF Holds, LeaseHeld, ctxDone
<1> QED
  BY <1>2, <1>3 DEF IInv

(* A step of one replica keeps the invariant if that replica's new state is *)
(* sound and the lease is not taken from another that renews it.            *)
LEMMA ReplicaStep ==
    ASSUME IInv, NEW r \in Replicas, NEW s \in Replica, Set(r, s),
           UNCHANGED events, budget' \in 0 .. MaxEvents,
           lease' \in Replicas \cup {NoReplica},
           \A q \in Replicas \ {r} : lease = q /\ rep[q].main = "renew" => lease' = q,
           "renew" \notin events => Holds(s, lease' = r)
    PROVE  IInv'
<1>1. /\ rep \in [Replicas -> Replica]
      /\ rep' \in [Replicas -> Replica]
      /\ rep'[r] = s /\ \A q \in Replicas \ {r} : rep'[q] = rep[q]
  BY DEF IInv, TypeOK, Set
<1>2. TypeOK'
  BY <1>1 DEF IInv, TypeOK
<1>3. ASSUME "renew" \notin events', NEW q \in Replicas PROVE LeaseHeld(q)'
  <2>1. CASE q = r
    BY <1>1, <1>3, <2>1 DEF LeaseHeld, Holds, ctxDone
  <2>2. CASE q # r
    <3>1. LeaseHeld(q) /\ rep'[q] = rep[q]
      BY <1>1, <1>3, <2>2 DEF IInv
    <3>2. rep[q].main = "renew" => lease' = q
      BY <2>2, <3>1 DEF LeaseHeld
    <3> QED
      BY <3>1, <3>2 DEF LeaseHeld, ctxDone
  <2> QED
    BY <2>1, <2>2
<1> QED
  BY <1>2, <1>3 DEF IInv

(* What the invariant says of one replica.                                  *)
LEMMA ReplicaFacts ==
    ASSUME IInv, NEW r \in Replicas
    PROVE  /\ rep[r] \in Replica /\ lease \in Replicas \cup {NoReplica}
           /\ budget \in 0 .. MaxEvents
           /\ "renew" \notin events => Holds(rep[r], lease = r)
  BY DEF IInv, TypeOK, LeaseHeld, Holds, ctxDone

\* A step of replica r that leaves the lease alone.
Local(r, s) == Set(r, s) /\ UNCHANGED <<lease, events>>

(* Steps that leave the lease alone.                                        *)
LEMMA LocalStep ==
    ASSUME IInv, NEW r \in Replicas, NEW s \in Replica, Local(r, s),
           budget' \in 0 .. MaxEvents,
           "renew" \notin events => Holds(s, lease = r)
    PROVE  IInv'
  BY ReplicaStep DEF Local, IInv, TypeOK

(* The budget only falls.                                                   *)
LEMMA BudgetType ==
    ASSUME IInv, NEW e, Event(e) \/ NoEvent
    PROVE  budget' \in 0 .. MaxEvents
  BY ConstantsAssumption DEF IInv, TypeOK, Event, NoEvent

(* The process comes and goes.                                              *)
LEMMA Lifecycle ==
    ASSUME IInv, NEW r \in Replicas,
           Boot(r) \/ Restart(r) \/ Exit(r) \/ Signal(r) \/ Crash(r)
    PROVE  IInv'
<1>1. budget' \in 0 .. MaxEvents
  BY BudgetType DEF Boot, Restart, Exit, Signal, Crash
<1>2. ASSUME NEW m \in {"boot", "acquire", "exited"}, Local(r, Fresh(m)) PROVE IInv'
  BY <1>1, <1>2, FreshReplica, LocalStep
<1>3. CASE Boot(r) \/ Restart(r) \/ Exit(r) \/ Crash(r)
  BY <1>2, <1>3 DEF Boot, Restart, Exit, Crash, Local
<1>4. CASE Signal(r)
  <2>1. CASE rep[r].signals # 0
    BY <1>2, <1>4, <2>1 DEF Signal, Local
  <2>2. CASE rep[r].signals = 0
    <3> DEFINE s == [rep[r] EXCEPT !.signals = 1]
    <3>1. Local(r, s)
      BY <1>4, <2>2 DEF Signal, Local
    <3>2. s \in Replica /\ ("renew" \notin events => Holds(s, lease = r))
      BY <1>4, <2>2, ReplicaFacts DEF Replica, Holds
    <3> QED
      BY <1>1, <3>1, <3>2, LocalStep
  <2> QED
    BY <2>1, <2>2
<1> QED
  BY <1>3, <1>4

(* l.Run of client-go.                                                      *)
LEMMA ElectorSteps ==
    ASSUME IInv, NEW r \in Replicas,
           Acquire(r) \/ AcquireCancelled(r) \/ RenewCancelled(r) \/ RenewFails(r) \/ Release(r)
    PROVE  IInv'
<1>1. budget' \in 0 .. MaxEvents
  BY BudgetType DEF Acquire, AcquireCancelled, RenewCancelled, RenewFails, Release
<1>2. /\ rep[r] \in Replica /\ lease \in Replicas \cup {NoReplica}
      /\ "renew" \notin events => Holds(rep[r], lease = r)
  BY ReplicaFacts
<1>3. CASE Acquire(r)
  <2> DEFINE s == [rep[r] EXCEPT !.main = "renew", !.start = "spawned"]
  <2>1. s \in Replica /\ ("renew" \notin events => Holds(s, lease' = r))
    BY <1>2, <1>3 DEF Acquire, Replica, Holds
  <2> QED
    BY <1>1, <1>3, <2>1, ReplicaStep, ConstantsAssumption DEF Acquire
<1>4. CASE AcquireCancelled(r)
  <2> DEFINE s == [rep[r] EXCEPT !.main = "stopped"]
  <2>1. s \in Replica /\ ("renew" \notin events => Holds(s, lease = r))
    BY <1>2, <1>4 DEF AcquireCancelled, Replica, Holds
  <2> QED
    BY <1>1, <1>4, <2>1, LocalStep DEF AcquireCancelled, Local
<1>5. CASE RenewCancelled(r) \/ RenewFails(r)
  <2> DEFINE s == [rep[r] EXCEPT !.main = "release"]
  <2>1. s \in Replica /\ ("renew" \notin events => Holds(s, lease = r))
    BY <1>2, <1>5 DEF RenewCancelled, RenewFails, Event, Replica, Holds
  <2> QED
    BY <1>1, <1>5, <2>1, LocalStep DEF RenewCancelled, RenewFails, Local
<1>6. CASE Release(r)
  <2> DEFINE s == [rep[r] EXCEPT !.main = "stopped"]
  <2>1. s \in Replica /\ ("renew" \notin events => Holds(s, lease' = r))
    BY <1>2, <1>6 DEF Release, Replica, Holds
  <2> QED
    BY <1>1, <1>2, <1>6, <2>1, ReplicaStep DEF Release
<1> QED
  BY <1>3, <1>4, <1>5, <1>6

(* The callbacks, the shutdown goroutine and the children.                  *)
LEMMA CallbackSteps ==
    ASSUME IInv, NEW r \in Replicas, OnStoppedLeading(r) \/ Joined(r) \/ Callbacks(r)
    PROVE  IInv'
<1>1. budget' \in 0 .. MaxEvents
  BY BudgetType DEF OnStoppedLeading, Joined, Callbacks, OnStartedLeading, Shutdown,
                    ShutdownJoined, ChildReturns, ChildGetsNil
<1>2. rep[r] \in Replica /\ ("renew" \notin events => Holds(rep[r], lease = r))
  BY ReplicaFacts
<1>3. SUFFICES \E s \in Replica : Local(r, s) /\ ("renew" \notin events => Holds(s, lease = r))
  BY <1>1, LocalStep
<1>4. CASE OnStoppedLeading(r)
  <2> DEFINE s == IF rep[r].childCtx = "nil"
                  THEN [rep[r] EXCEPT !.main = "returned"]
                  ELSE [rep[r] EXCEPT !.main = "join", !.lock = "main", !.childCtx = "nil"]
  <2>1. s \in Replica /\ ("renew" \notin events => Holds(s, lease = r))
    BY <1>2, <1>4 DEF OnStoppedLeading, Replica, Holds
  <2> QED
    BY <1>4, <2>1 DEF OnStoppedLeading, Local
<1>5. CASE Joined(r)
  <2> DEFINE s == [rep[r] EXCEPT !.main = "returned", !.lock = "free"]
  <2>1. s \in Replica /\ ("renew" \notin events => Holds(s, lease = r))
    BY <1>2, <1>5 DEF Joined, Replica, Holds
  <2> QED
    BY <1>5, <2>1 DEF Joined, Local
<1>6. CASE OnStartedLeading(r)
  <2> DEFINE s == IF MayStart(r)
                  THEN [rep[r] EXCEPT !.start = "done", !.childCtx = "live", !.running = Runs]
                  ELSE [rep[r] EXCEPT !.start = "done"]
  <2>1. s \in Replica
    BY <1>2 DEF Replica
  <2>2. ASSUME "renew" \notin events PROVE Holds(s, lease = r)
    <3>1. MayStart(r) => rep[r].main = "renew"
      BY <1>2, <1>6, <2>2 DEF OnStartedLeading, MayStart, ctxDone, Replica, Holds
    <3> QED
      BY <1>2, <1>6, <2>2, <3>1 DEF MayStart, ctxDone, Replica, Holds
  <2> QED
    BY <1>6, <2>1, <2>2 DEF OnStartedLeading, Local
<1>7. CASE Shutdown(r)
  <2> DEFINE s == IF rep[r].childCtx = "nil"
                  THEN [rep[r] EXCEPT !.shut = "done", !.leaderDone = TRUE]
                  ELSE [rep[r] EXCEPT !.shut = "join", !.childCtx = "cancelled", !.lock = "shut"]
  <2>1. s \in Replica /\ ("renew" \notin events => Holds(s, lease = r))
    BY <1>2, <1>7 DEF Shutdown, ctxDone, Replica, Holds
  <2> QED
    BY <1>7, <2>1 DEF Shutdown, Local
<1>8. CASE ShutdownJoined(r)
  <2> DEFINE s == [rep[r] EXCEPT !.shut = "done", !.lock = "free", !.leaderDone = TRUE]
  <2>1. s \in Replica /\ ("renew" \notin events => Holds(s, lease = r))
    BY <1>2, <1>8 DEF ShutdownJoined, Replica, Holds
  <2> QED
    BY <1>8, <2>1 DEF ShutdownJoined, Local
<1>9. ASSUME NEW k \in Runs, ChildReturns(r, k)
      PROVE  \E s \in Replica : Local(r, s) /\ ("renew" \notin events => Holds(s, lease = r))
  <2> DEFINE s == [rep[r] EXCEPT !.running = @ \ {k}]
  <2>1. s \in Replica /\ ("renew" \notin events => Holds(s, lease = r))
    BY <1>2, <1>9 DEF ChildReturns, Replica, Holds
  <2> QED
    BY <1>9, <2>1 DEF ChildReturns, Local
<1>10. CASE ChildGetsNil(r)
  <2>1. Fresh("exited") \in Replica /\ Holds(Fresh("exited"), lease = r)
    BY DEF Fresh, Replica, Holds
  <2> QED
    BY <1>10, <2>1 DEF ChildGetsNil, Local
<1> QED
  BY <1>4, <1>5, <1>6, <1>7, <1>8, <1>9, <1>10 DEF Callbacks

(* The lease of a replica that does not renew it lapses.                    *)
LEMMA LapseStep == ASSUME IInv, Lapse PROVE IInv'
<1>1. TypeOK'
  BY DEF IInv, TypeOK, Lapse, NoEvent
<1>2. ASSUME "renew" \notin events', NEW q \in Replicas PROVE LeaseHeld(q)'
  <2>1. LeaseHeld(q) /\ rep' = rep /\ lease' = NoReplica /\ rep[lease].main # "renew"
    BY <1>2 DEF IInv, Lapse
  <2>2. rep[q].main # "renew"
    BY <2>1 DEF LeaseHeld
  <2> QED
    BY <2>1, <2>2 DEF LeaseHeld, ctxDone
<1> QED
  BY <1>1, <1>2 DEF IInv

(* Every step of every replica.                                             *)
LEMMA NextIInv == IInv /\ [Next]_vars => IInv'
<1> SUFFICES ASSUME IInv, [Next]_vars PROVE IInv'
  OBVIOUS
<1>1. CASE UNCHANGED vars
  BY <1>1 DEF vars, IInv, TypeOK, LeaseHeld, ctxDone
<1>2. CASE Lapse
  BY <1>2, LapseStep
<1>3. ASSUME NEW r \in Replicas,
             Process(r) \/ Callbacks(r) \/ Acquire(r) \/ RenewFails(r) \/ Signal(r) \/ Crash(r)
      PROVE  IInv'
  BY <1>3, Lifecycle, ElectorSteps, CallbackSteps DEF Process
<1> QED
  BY <1>1, <1>2, <1>3 DEF Next

(* Types of the lease and of every replica.                                 *)
THEOREM ElectionTypeCorrect == Spec => []TypeOK
<1>1. IInv => TypeOK
  BY DEF IInv
<1> QED
  BY <1>1, InitIInv, NextIInv, PTL DEF Spec

(* "By waiting for children to finish, we can safely use ReleaseOnCancel":  *)
(* as long as renewals succeed a replica holds the lease for as long as any *)
(* of its children runs, and LeaderElection returns after they all have.    *)
THEOREM LeaseCoversChildren == Spec => []ChildrenHoldLease
<1>1. IInv => ChildrenHoldLease
  BY DEF IInv, ChildrenHoldLease, LeaseHeld
<1> QED
  BY <1>1, InitIInv, NextIInv, PTL DEF Spec

(* From that: no two replicas reconcile at the same time, as long as        *)
(* renewals succeed.                                                        *)
THEOREM NoTwoLeaders ==
    ASSUME \A e \in Scenarios : "renew" \notin e
    PROVE  Spec => []OneLeader
<1>1. IInv => OneLeader
  BY DEF IInv, TypeOK, OneLeader, LeaseHeld
<1> QED
  BY <1>1, InitIInv, NextIInv, PTL DEF Spec
=============================================================================
