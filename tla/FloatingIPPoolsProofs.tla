------------------------ MODULE FloatingIPPoolsProofs ------------------------
(***************************************************************************)
(* No goroutine of a FloatingIPPool is left behind, an ipController keeps  *)
(* the nodes it was told, and every valid resource is served by exactly    *)
(* one instance, for any number of pools and any edits, deletions, crashes *)
(* and shutdowns.                                                          *)
(***************************************************************************)
EXTENDS FloatingIPPools, FiniteSetTheorems, TLAPS

(* The fields of an instance.                                               *)
LEMMA Fields ==
    DOMAIN Fresh = {"uid", "criteria", "provider", "region", "dns", "dnsProvider", "match", "ip",
                    "stopMatch", "stopIP", "knows", "lock"}
  BY DEF Fresh

(* The fields of the handler.                                               *)
LEMMA MainFields == DOMAIN Idle = {"at", "on", "pool", "uid", "spec", "change"}
  BY DEF Idle

(* Updating one instance leaves the others alone.                           *)
LEMMA OneInstanceStep ==
    ASSUME IInv, NEW x \in Instances, NEW r, DOMAIN r = DOMAIN Fresh, Set(x, r)
    PROVE  /\ DOMAIN inst' = Instances /\ \A y \in Instances : DOMAIN inst'[y] = DOMAIN Fresh
           /\ inst'[x] = r /\ \A y \in Instances \ {x} : inst'[y] = inst[y]
<1>1. DOMAIN inst' = Instances /\ inst'[x] = r /\ \A y \in Instances \ {x} : inst'[y] = inst[y]
  BY DEF IInv, Set
<1> QED
  BY <1>1 DEF IInv

(* A goroutine of an instance, or the handler without moving: nothing that  *)
(* has ended starts again.                                                  *)
LEMMA GoroutineKeeps ==
    ASSUME IInv, NEW x \in Instances, NEW r, DOMAIN r = DOMAIN Fresh, Set(x, r),
           MatchEnded(inst[x]) => MatchEnded(r), IPEnded(inst[x]) => IPEnded(r),
           UNCHANGED <<pools, main, down>>
    PROVE  IInv'
<1>1. /\ DOMAIN inst' = Instances /\ \A y \in Instances : DOMAIN inst'[y] = DOMAIN Fresh
      /\ inst'[x] = r /\ \A y \in Instances \ {x} : inst'[y] = inst[y]
  BY OneInstanceStep
<1>2. NoOrphans'
  BY <1>1 DEF IInv, NoOrphans, Running
<1>3. HandlerSound'
  BY <1>1 DEF IInv, HandlerSound
<1> QED
  BY <1>1, <1>2, <1>3 DEF IInv

(* A step that touches no instance and not the map.                         *)
LEMMA HandlerMoves ==
    ASSUME IInv, UNCHANGED <<inst, pools>>, DOMAIN main' = DOMAIN Idle, HandlerSound'
    PROVE  IInv'
<1>1. NoOrphans'
  BY DEF IInv, NoOrphans, Running, HandlerSound
<1> QED
  BY <1>1 DEF IInv

(* The initial states.                                                      *)
LEMMA InitIInv == Init => IInv
<1> SUFFICES ASSUME Init PROVE IInv
  OBVIOUS
<1>1. \A x \in Instances : inst[x] = Fresh
  BY DEF Init
<1>2. MatchEnded(Fresh) /\ IPEnded(Fresh)
  BY DEF Fresh, MatchEnded, IPEnded
<1>3. main.at = "idle" /\ main = Idle
  BY DEF Init, Idle
<1>4. NoOrphans
  BY <1>1, <1>2, <1>3 DEF NoOrphans, Running
<1>5. HandlerSound
  BY <1>3 DEF HandlerSound
<1> QED
  BY <1>1, <1>3, <1>4, <1>5 DEF Init, IInv

(* The goroutines.                                                          *)
LEMMA GoroutineSteps ==
    ASSUME IInv, NEW x \in Instances, Goroutines(x) \/ GetNodeFromPools(x)
    PROVE  IInv'
<1>1. DOMAIN inst[x] = DOMAIN Fresh
  BY DEF IInv
<1>2. UNCHANGED <<pools, main, down>>
  BY DEF Goroutines, ListerSet, EnableNodes, MatchEnds, Reconcile, IPEnds, GetNodeFromPools
<1>3. CASE ListerSet(x)
  <2> DEFINE r == [inst[x] EXCEPT !.match = "syncing"]
  <2>1. DOMAIN r = DOMAIN Fresh /\ Set(x, r) /\ ~MatchEnded(inst[x]) /\ r.ip = inst[x].ip
    BY <1>1, <1>3, Fields DEF ListerSet, MatchEnded
  <2> QED
    BY <1>2, <2>1, GoroutineKeeps DEF IPEnded
<1>4. CASE EnableNodes(x)
  <2> DEFINE r == [inst[x] EXCEPT !.match = "live", !.knows = TRUE, !.lock = "match"]
  <2>1. DOMAIN r = DOMAIN Fresh /\ Set(x, r) /\ ~MatchEnded(inst[x]) /\ r.ip = inst[x].ip
    BY <1>1, <1>4, Fields DEF EnableNodes, MatchEnded
  <2> QED
    BY <1>2, <2>1, GoroutineKeeps DEF IPEnded
<1>5. CASE MatchEnds(x)
  <2> DEFINE r == [inst[x] EXCEPT !.match = "gone"]
  <2>1. DOMAIN r = DOMAIN Fresh /\ Set(x, r) /\ r.match = "gone" /\ r.ip = inst[x].ip
    BY <1>1, <1>5, Fields DEF MatchEnds
  <2> QED
    BY <1>2, <2>1, GoroutineKeeps DEF IPEnded, MatchEnded
<1>6. CASE Reconcile(x)
  <2> DEFINE r == [inst[x] EXCEPT !.lock = "ip"]
  <2>1. DOMAIN r = DOMAIN Fresh /\ Set(x, r) /\ r.match = inst[x].match /\ r.ip = inst[x].ip
    BY <1>1, <1>6, Fields DEF Reconcile
  <2> QED
    BY <1>2, <2>1, GoroutineKeeps DEF IPEnded, MatchEnded
<1>7. CASE IPEnds(x)
  <2> DEFINE r == [inst[x] EXCEPT !.ip = "gone"]
  <2>1. DOMAIN r = DOMAIN Fresh /\ Set(x, r) /\ r.match = inst[x].match /\ r.ip = "gone"
    BY <1>1, <1>7, Fields DEF IPEnds
  <2> QED
    BY <1>2, <2>1, GoroutineKeeps DEF IPEnded, MatchEnded
<1>8. CASE GetNodeFromPools(x)
  <2>1. CASE Set(x, [inst[x] EXCEPT !.lock = "free"])
    <3> DEFINE r == [inst[x] EXCEPT !.lock = "free"]
    <3>1. DOMAIN r = DOMAIN Fresh /\ Set(x, r) /\ r.match = inst[x].match /\ r.ip = inst[x].ip
      BY <1>1, <2>1, Fields
    <3> QED
      BY <1>2, <3>1, GoroutineKeeps DEF IPEnded, MatchEnded
  <2>2. CASE UNCHANGED inst
    <3>1. HandlerSound' /\ DOMAIN main' = DOMAIN Idle
      BY <1>2, <2>2 DEF IInv, HandlerSound
    <3> QED
      BY <1>2, <2>2, <3>1, HandlerMoves
  <2> QED
    BY <1>8, <2>1, <2>2 DEF GetNodeFromPools
<1> QED
  BY <1>3, <1>4, <1>5, <1>6, <1>7, <1>8 DEF Goroutines
-----------------------------------------------------------------------------
(* The handler reconfigures the instance it works on, which stays in the    *)
(* map: whatever it starts is not an orphan.                                *)
LEMMA HandlerWorks ==
    ASSUME IInv, main.on \in pools, NEW r, DOMAIN r = DOMAIN Fresh, Set(main.on, r),
           UNCHANGED <<pools, down>>, DOMAIN main' = DOMAIN Idle,
           main'.on = main.on \/ main'.at = "idle", main'.at # "returned",
           main'.at = "joinIP" => MatchEnded(r)
    PROVE  IInv'
<1>1. main.on \in Instances
  BY DEF IInv
<1>2. /\ DOMAIN inst' = Instances /\ \A y \in Instances : DOMAIN inst'[y] = DOMAIN Fresh
      /\ inst'[main.on] = r /\ \A y \in Instances \ {main.on} : inst'[y] = inst[y]
  BY <1>1, OneInstanceStep
<1>3. NoOrphans'
  BY <1>2 DEF IInv, NoOrphans, Running
<1>4. HandlerSound'
  BY <1>2 DEF HandlerSound
<1> QED
  BY <1>2, <1>3, <1>4 DEF IInv

(* updateProviders, updateIPs and updateDNSSpec.                            *)
LEMMA UpdateSteps ==
    ASSUME IInv, StopForProviders \/ Reset \/ UpdateIPs \/ Configured
    PROVE  IInv'
<1> DEFINE q == inst[main.on]
<1>1. main.on \in pools /\ DOMAIN main = DOMAIN Idle /\ DOMAIN q = DOMAIN Fresh
  BY DEF IInv, HandlerSound, StopForProviders, Reset, UpdateIPs, Configured
<1>2. CASE StopForProviders
  <2> DEFINE r == [q EXCEPT !.stopIP = TRUE]
  <2>1. DOMAIN r = DOMAIN Fresh /\ Set(main.on, r) /\ UNCHANGED <<pools, down>>
    BY <1>1, <1>2 DEF StopForProviders
  <2>2. DOMAIN main' = DOMAIN Idle /\ main'.on = main.on /\ main'.at = "reset"
    BY <1>1, <1>2, MainFields DEF StopForProviders, Go
  <2> QED
    BY <1>1, <2>1, <2>2, HandlerWorks
<1>3. CASE Reset
  <2> DEFINE r == [q EXCEPT !.stopIP = FALSE, !.ip = "none", !.knows = FALSE,
                            !.provider = Get(main.spec.provider), !.region = main.spec.region,
                            !.dnsProvider = DNSProviderOf(main.spec)]
  <2>1. DOMAIN r = DOMAIN Fresh /\ Set(main.on, r) /\ UNCHANGED <<pools, down>>
    BY <1>1, <1>3 DEF Reset
  <2>2. DOMAIN main' = DOMAIN Idle /\ main'.on = main.on /\ main'.at = "ips"
    BY <1>1, <1>3, MainFields DEF Reset
  <2> QED
    BY <1>1, <2>1, <2>2, HandlerWorks
<1>4. CASE UpdateIPs
  <2>1. CASE Go("dns") /\ UNCHANGED inst
    <3>1. DOMAIN main' = DOMAIN Idle /\ main'.on = main.on /\ main'.at = "dns"
      BY <1>1, <2>1, MainFields DEF Go
    <3>2. UNCHANGED <<inst, pools>> /\ HandlerSound'
      BY <1>1, <1>4, <2>1, <3>1 DEF UpdateIPs, HandlerSound
    <3> QED
      BY <3>1, <3>2, HandlerMoves
  <2>2. CASE Go("annotate") /\ Set(main.on, [q EXCEPT !.lock = "main"])
    <3> DEFINE r == [q EXCEPT !.lock = "main"]
    <3>1. DOMAIN r = DOMAIN Fresh /\ Set(main.on, r) /\ UNCHANGED <<pools, down>>
      BY <1>1, <1>4, <2>2 DEF UpdateIPs
    <3>2. DOMAIN main' = DOMAIN Idle /\ main'.on = main.on /\ main'.at = "annotate"
      BY <1>1, <2>2, MainFields DEF Go
    <3> QED
      BY <1>1, <3>1, <3>2, HandlerWorks
  <2> QED
    BY <1>4, <2>1, <2>2 DEF UpdateIPs
<1>5. CASE Configured
  <2> DEFINE ip == IF main.change THEN "running" ELSE q.ip
             r == [q EXCEPT !.dns = main.spec.dns, !.ip = ip]
  <2>1. DOMAIN r = DOMAIN Fresh /\ Set(main.on, r) /\ UNCHANGED <<pools, down>>
    BY <1>1, <1>5 DEF Configured
  <2>2. DOMAIN main' = DOMAIN Idle /\ main'.at = "idle"
    BY <1>5 DEF Configured, Return, Idle
  <2> QED
    BY <1>1, <2>1, <2>2, HandlerWorks
<1> QED
  BY <1>2, <1>3, <1>4, <1>5

(* Stop() and stop().                                                       *)
LEMMA StopSteps ==
    ASSUME IInv, Stop \/ JoinMatch
    PROVE  IInv'
<1> DEFINE q == inst[main.on]
<1>1. main.on \in pools /\ DOMAIN main = DOMAIN Idle /\ DOMAIN q = DOMAIN Fresh
  BY DEF IInv, HandlerSound, Stop, JoinMatch
<1>2. CASE Stop
  <2> DEFINE r == [q EXCEPT !.stopMatch = TRUE]
  <2>1. DOMAIN r = DOMAIN Fresh /\ Set(main.on, r) /\ UNCHANGED <<pools, down>>
    BY <1>1, <1>2 DEF Stop
  <2>2. DOMAIN main' = DOMAIN Idle /\ main'.on = main.on /\ main'.at = "joinMatch"
    BY <1>1, <1>2, MainFields DEF Stop, Go
  <2> QED
    BY <1>1, <2>1, <2>2, HandlerWorks
<1>3. CASE JoinMatch
  <2> DEFINE r == [q EXCEPT !.stopIP = TRUE]
  <2>1. DOMAIN r = DOMAIN Fresh /\ Set(main.on, r) /\ UNCHANGED <<pools, down>>
    BY <1>1, <1>3 DEF JoinMatch
  <2>2. DOMAIN main' = DOMAIN Idle /\ main'.on = main.on /\ main'.at = "joinIP"
    BY <1>1, <1>3, MainFields DEF JoinMatch, Go
  <2>3. r.match = q.match /\ MatchEnded(q)
    BY <1>1, <1>3, Fields DEF JoinMatch
  <2> QED
    BY <1>1, <2>1, <2>2, <2>3, HandlerWorks DEF MatchEnded
<1> QED
  BY <1>2, <1>3

(* A pool is put into the map before its goroutines start.                  *)
LEMMA AddPoolStep ==
    ASSUME IInv, AddPool
    PROVE  IInv'
<1> DEFINE x == CHOOSE x \in Instances : inst[x] = Fresh
           r == [Fresh EXCEPT !.uid = main.uid, !.criteria = main.spec.criteria, !.match = "starting"]
<1>1. x \in Instances
  BY DEF AddPool
<1>2. Set(x, r) /\ pools' = pools \cup {x} /\ main' = [main EXCEPT !.at = "providers", !.on = x]
  BY DEF AddPool
<1>3. DOMAIN r = DOMAIN Fresh
  BY DEF Fresh
<1> HIDE DEF x, r
<1>4. /\ DOMAIN inst' = Instances /\ \A y \in Instances : DOMAIN inst'[y] = DOMAIN Fresh
      /\ \A y \in Instances \ {x} : inst'[y] = inst[y]
  BY <1>1, <1>2, <1>3, OneInstanceStep
<1>5. DOMAIN main' = DOMAIN Idle /\ main'.at = "providers" /\ main'.on = x
  BY <1>2, MainFields DEF IInv
<1>6. NoOrphans'
  BY <1>1, <1>2, <1>4, <1>5 DEF IInv, NoOrphans, Running
<1>7. HandlerSound'
  BY <1>2, <1>5 DEF HandlerSound
<1> QED
  BY <1>1, <1>2, <1>4, <1>5, <1>6, <1>7 DEF IInv

(* A pool is taken out of the map after its goroutines have ended.          *)
LEMMA JoinIPStep ==
    ASSUME IInv, JoinIP
    PROVE  IInv'
<1>1. /\ main.on \in pools /\ main.on \in Instances
      /\ MatchEnded(inst[main.on]) /\ IPEnded(inst[main.on])
  BY DEF IInv, HandlerSound, JoinIP
<1>2. Set(main.on, Fresh) /\ pools' = pools \ {main.on}
  BY <1>1 DEF JoinIP
<1>3. /\ DOMAIN inst' = Instances /\ \A y \in Instances : DOMAIN inst'[y] = DOMAIN Fresh
      /\ inst'[main.on] = Fresh /\ \A y \in Instances \ {main.on} : inst'[y] = inst[y]
  BY <1>1, <1>2, OneInstanceStep
<1>4. DOMAIN main' = DOMAIN Idle /\ main'.at \in {"add", "idle"}
  <2>1. CASE main' = Idle
    BY <2>1 DEF Idle
  <2>2. CASE main' = [main EXCEPT !.at = "add", !.on = NoInstance]
    BY <2>2, MainFields DEF IInv
  <2> QED
    BY <2>1, <2>2 DEF JoinIP, Return
<1>5. MatchEnded(Fresh) /\ IPEnded(Fresh)
  BY DEF Fresh, MatchEnded, IPEnded
<1>6. NoOrphans'
  BY <1>2, <1>3, <1>4, <1>5 DEF IInv, NoOrphans, Running
<1>7. HandlerSound'
  BY <1>4 DEF HandlerSound
<1> QED
  BY <1>2, <1>3, <1>4, <1>6, <1>7 DEF IInv

(* Steps of the handler that touch no instance.                             *)
LEMMA HandlerSteps ==
    ASSUME IInv,
           \/ \E p \in Pools : updateOrAdd(p) \/ OnDelete(p)
           \/ \E x \in Instances : RunStops(x)
           \/ SameProviders \/ Annotated \/ RunReturns
    PROVE  IInv'
<1>1. UNCHANGED <<inst, pools, down>>
  BY DEF updateOrAdd, OnDelete, RunStops, SameProviders, Annotated, RunReturns
<1>2. SUFFICES DOMAIN main' = DOMAIN Idle /\ HandlerSound'
  BY <1>1, HandlerMoves
<1>3. ASSUME NEW x \in pools, NEW p, NEW at \in {"stop", "providers"}, Begin(at, x, p)
      PROVE  DOMAIN main' = DOMAIN Idle /\ HandlerSound'
  BY <1>1, <1>3, MainFields DEF Begin, HandlerSound
<1>4. ASSUME NEW p \in Pools, updateOrAdd(p) PROVE DOMAIN main' = DOMAIN Idle /\ HandlerSound'
  <2>1. CASE Known(p) # {}
    <3>1. PICK x \in Known(p) : Begin(IF MustStop(inst[x], spec[p]) THEN "stop" ELSE "providers", x, p)
      BY <1>4, <2>1 DEF updateOrAdd
    <3> QED
      BY <1>3, <3>1 DEF Known
  <2>2. CASE Known(p) = {}
    <3>1. Begin("add", NoInstance, p) \/ main' = Idle
      BY <1>4, <2>2 DEF updateOrAdd
    <3>2. DOMAIN main' = DOMAIN Idle /\ main'.at \in {"add", "idle"}
      BY <3>1, MainFields DEF Begin, Idle
    <3> QED
      BY <3>2 DEF HandlerSound
  <2> QED
    BY <2>1, <2>2
<1>5. ASSUME NEW p \in Pools, OnDelete(p) PROVE DOMAIN main' = DOMAIN Idle /\ HandlerSound'
  BY <1>3, <1>5 DEF OnDelete, Known
<1>6. ASSUME NEW x \in Instances, RunStops(x) PROVE DOMAIN main' = DOMAIN Idle /\ HandlerSound'
  <2>1. x \in pools /\ main' = [Idle EXCEPT !.at = "stop", !.on = x]
    BY <1>6 DEF RunStops
  <2>2. DOMAIN main' = DOMAIN Idle /\ main'.at = "stop" /\ main'.on = x
    BY <2>1 DEF Idle
  <2> QED
    BY <1>1, <2>1, <2>2 DEF HandlerSound
<1>7. CASE SameProviders \/ Annotated
  <2>1. main.on \in pools
    BY <1>7 DEF IInv, HandlerSound, SameProviders, Annotated
  <2>2. DOMAIN main' = DOMAIN Idle /\ main'.at \in {"ips", "dns"} /\ main'.on = main.on
    BY <1>7, MainFields DEF IInv, SameProviders, Annotated, Go
  <2> QED
    BY <1>1, <2>1, <2>2 DEF HandlerSound
<1>8. CASE RunReturns
  <2>1. DOMAIN main' = DOMAIN Idle /\ main'.at = "returned"
    BY <1>8 DEF RunReturns, Idle
  <2>2. pools' = {} /\ down'
    BY <1>1, <1>8 DEF RunReturns
  <2> QED
    BY <2>1, <2>2 DEF HandlerSound
<1> QED
  BY <1>4, <1>5, <1>6, <1>7, <1>8

(* Users, and the process.                                                  *)
LEMMA UserSteps ==
    ASSUME IInv, Users
    PROVE  IInv'
<1>1. UNCHANGED <<inst, pools, main>> /\ (down => down')
  BY DEF Users, Remove, OnDeleteUnknown, Edit, Create, Shutdown
<1>2. DOMAIN main' = DOMAIN Idle /\ HandlerSound'
  BY <1>1 DEF IInv, HandlerSound
<1> QED
  BY <1>1, <1>2, HandlerMoves

(* A crashed process starts anew.                                           *)
LEMMA RestartStep ==
    ASSUME Restart
    PROVE  IInv'
<1>1. \A x \in Instances : inst'[x] = Fresh
  BY DEF Restart
<1>2. MatchEnded(Fresh) /\ IPEnded(Fresh)
  BY DEF Fresh, MatchEnded, IPEnded
<1>3. main' = Idle /\ main'.at = "idle"
  BY DEF Restart, Idle
<1>4. NoOrphans'
  BY <1>1, <1>2, <1>3 DEF NoOrphans, Running
<1>5. HandlerSound'
  BY <1>3 DEF HandlerSound
<1> QED
  BY <1>1, <1>3, <1>4, <1>5 DEF Restart, IInv
-----------------------------------------------------------------------------
(* Every step keeps the invariant.                                          *)
LEMMA NextIInv == IInv /\ [Next]_vars => IInv'
<1> SUFFICES ASSUME IInv, [Next]_vars PROVE IInv'
  OBVIOUS
<1>1. CASE Main
  BY <1>1, HandlerSteps, UpdateSteps, StopSteps, AddPoolStep, JoinIPStep DEF Main
<1>2. ASSUME NEW x \in Instances, Goroutines(x) \/ GetNodeFromPools(x) PROVE IInv'
  BY <1>2, GoroutineSteps
<1>3. CASE Users
  BY <1>3, UserSteps
<1>4. CASE Restart
  BY <1>4, RestartStep
<1>5. CASE UNCHANGED vars
  <2>1. UNCHANGED <<inst, pools, main, down>>
    BY <1>5 DEF vars
  <2>2. DOMAIN main' = DOMAIN Idle /\ HandlerSound'
    BY <2>1 DEF IInv, HandlerSound
  <2> QED
    BY <2>1, <2>2, HandlerMoves
<1> QED
  BY <1>1, <1>2, <1>3, <1>4, <1>5 DEF Next

(* updateOrAdd, OnDelete and the end of Run stop both goroutines of a pool  *)
(* and wait for them before they delete it from c.pools: whatever is        *)
(* edited, deleted, missed, crashed or shut down, for any number of pools,  *)
(* every goroutine that runs belongs to a pool in the map, and none runs    *)
(* after Run has returned.                                                  *)
THEOREM NothingLeftBehind == Spec => []NoOrphans
<1>1. IInv => NoOrphans
  BY DEF IInv
<1> QED
  BY <1>1, InitIInv, NextIInv, PTL DEF Spec
-----------------------------------------------------------------------------
(* Which instance serves which resource.                                    *)

\* Every resource has a UID of its own, of which an instance and the handler
\* only know one that has been given out.
UIDsApart ==
    /\ uid \in [Pools -> Nat \ {0}] /\ nextUID \in Nat
    /\ \A p \in Pools : uid[p] < nextUID
    /\ \A p, q \in Pools : uid[p] = uid[q] => p = q
    /\ \A x \in pools : inst[x].uid \in Nat \ {0} /\ inst[x].uid < nextUID
    /\ main.uid \in Nat /\ main.uid < nextUID
    /\ main.spec # NoSpec \/ main.at = "add" => main.uid # 0
    /\ DOMAIN spec = Pools /\ DOMAIN handled = Pools
    /\ \A p \in Pools : handled[p][2] \in Nat /\ handled[p][2] < nextUID

\* Where the handler is when it reconfigures, or stops, an instance.
Configuring == {"providers", "reset", "ips", "annotate", "dns"}
Stopping == {"stop", "joinMatch", "joinIP"}
Busy == main.at \notin {"idle", "returned"}

(* What a goroutine of an instance may change.                              *)
LEMMA GoroutineChanges ==
    ASSUME IInv, NEW x \in Instances, Goroutines(x) \/ GetNodeFromPools(x), NEW y \in Instances
    PROVE  /\ UNCHANGED <<apiVars, handled, pools, main, down, events>>
           /\ inst'[y].uid = inst[y].uid /\ inst'[y].criteria = inst[y].criteria
           /\ inst'[y].provider = inst[y].provider /\ inst'[y].region = inst[y].region
           /\ inst'[y].dns = inst[y].dns
           /\ inst'[y].stopMatch = inst[y].stopMatch /\ inst'[y].stopIP = inst[y].stopIP
           /\ \/ inst'[y].match = inst[y].match
              \/ inst'[y].match = "syncing"
              \/ inst'[y].match = "gone" /\ (inst[y].stopMatch \/ down)
              \/ /\ inst'[y].match = "live" /\ inst'[y].knows
                 /\ main.on = y /\ main.at \in {"providers", "reset", "ips"} => "early" \in events
           /\ inst[y].knows => inst'[y].knows
           /\ inst'[y].ip = inst[y].ip \/ inst[y].stopIP \/ down
<1>1. UNCHANGED <<apiVars, handled, pools, main, down, events>>
  BY DEF Goroutines, ListerSet, EnableNodes, MatchEnds, Reconcile, IPEnds, GetNodeFromPools
<1>2. DOMAIN inst = Instances /\ DOMAIN inst[x] = DOMAIN Fresh
  BY DEF IInv
<1>3. CASE ListerSet(x)
  <2>1. inst' = [inst EXCEPT ![x] = [inst[x] EXCEPT !.match = "syncing"]]
    BY <1>3 DEF ListerSet, Set
  <2> QED
    BY <1>1, <1>2, <2>1, Fields
<1>4. CASE EnableNodes(x)
  <2>1. /\ inst' = [inst EXCEPT ![x] = [inst[x] EXCEPT !.match = "live", !.knows = TRUE, !.lock = "match"]]
        /\ main.on = x /\ main.at \in {"providers", "reset", "ips"} => "early" \in events
    BY <1>4 DEF EnableNodes, Set
  <2> QED
    BY <1>1, <1>2, <2>1, Fields
<1>5. CASE MatchEnds(x)
  <2>1. inst' = [inst EXCEPT ![x] = [inst[x] EXCEPT !.match = "gone"]] /\ (inst[x].stopMatch \/ down)
    BY <1>5 DEF MatchEnds, Set
  <2> QED
    BY <1>1, <1>2, <2>1, Fields
<1>6. CASE Reconcile(x)
  <2>1. inst' = [inst EXCEPT ![x] = [inst[x] EXCEPT !.lock = "ip"]]
    BY <1>6 DEF Reconcile, Set
  <2> QED
    BY <1>1, <1>2, <2>1, Fields
<1>7. CASE IPEnds(x)
  <2>1. inst' = [inst EXCEPT ![x] = [inst[x] EXCEPT !.ip = "gone"]] /\ (inst[x].stopIP \/ down)
    BY <1>7 DEF IPEnds, Set
  <2> QED
    BY <1>1, <1>2, <2>1, Fields
<1>8. CASE GetNodeFromPools(x)
  <2>1. inst' = [inst EXCEPT ![x] = [inst[x] EXCEPT !.lock = "free"]] \/ UNCHANGED inst
    BY <1>8 DEF GetNodeFromPools, Set
  <2> QED
    BY <1>1, <1>2, <2>1, Fields
<1> QED
  BY <1>3, <1>4, <1>5, <1>6, <1>7, <1>8 DEF Goroutines

(* What the handler does to the instance it works on.                       *)
LEMMA HandlerChanges ==
    ASSUME IInv, StopForProviders \/ Reset \/ UpdateIPs \/ Configured \/ Stop \/ JoinMatch
    PROVE  /\ UNCHANGED <<apiVars, pools, down, events>>
           /\ main.on \in pools /\ main.on \in Instances
           /\ \A y \in Instances : y # main.on => inst'[y] = inst[y]
           /\ inst'[main.on].uid = inst[main.on].uid
           /\ inst'[main.on].criteria = inst[main.on].criteria
           /\ inst'[main.on].match = inst[main.on].match
<1>1. UNCHANGED <<apiVars, pools, down, events>>
  BY DEF StopForProviders, Reset, UpdateIPs, Configured, Stop, JoinMatch
<1>2. /\ main.on \in pools /\ main.on \in Instances /\ DOMAIN inst = Instances
      /\ DOMAIN inst[main.on] = DOMAIN Fresh
  BY DEF IInv, HandlerSound, StopForProviders, Reset, UpdateIPs, Configured, Stop, JoinMatch
<1>3. CASE StopForProviders \/ JoinMatch
  <2>1. inst' = [inst EXCEPT ![main.on] = [inst[main.on] EXCEPT !.stopIP = TRUE]]
    BY <1>3 DEF StopForProviders, JoinMatch, Set
  <2> QED
    BY <1>1, <1>2, <2>1, Fields
<1>4. CASE Reset
  <2>1. inst' = [inst EXCEPT ![main.on] =
                  [inst[main.on] EXCEPT !.stopIP = FALSE, !.ip = "none", !.knows = FALSE,
                        !.provider = Get(main.spec.provider), !.region = main.spec.region,
                        !.dnsProvider = DNSProviderOf(main.spec)]]
    BY <1>4 DEF Reset, Set
  <2> QED
    BY <1>1, <1>2, <2>1, Fields
<1>5. CASE UpdateIPs
  <2>1. inst' = [inst EXCEPT ![main.on] = [inst[main.on] EXCEPT !.lock = "main"]] \/ UNCHANGED inst
    BY <1>5 DEF UpdateIPs, Set
  <2> QED
    BY <1>1, <1>2, <2>1, Fields
<1>6. CASE Configured
  <2>1. inst' = [inst EXCEPT ![main.on] =
                  [inst[main.on] EXCEPT !.dns = main.spec.dns, !.ip = IF main.change THEN "running" ELSE @]]
    BY <1>6 DEF Configured, Set
  <2> QED
    BY <1>1, <1>2, <2>1, Fields
<1>7. CASE Stop
  <2>1. inst' = [inst EXCEPT ![main.on] = [inst[main.on] EXCEPT !.stopMatch = TRUE]]
    BY <1>7 DEF Stop, Set
  <2> QED
    BY <1>1, <1>2, <2>1, Fields
<1> QED
  BY <1>3, <1>4, <1>5, <1>6, <1>7

(* What the handler's steps do to the handler.                              *)
LEMMA MainChanges ==
    ASSUME IInv, SameProviders \/ StopForProviders \/ Reset \/ UpdateIPs \/ Annotated \/ Configured \/ Stop \/ JoinMatch
    PROVE  \/ main' = Idle /\ main'.uid = 0 /\ main'.spec = NoSpec /\ main'.at = "idle"
           \/ /\ main'.uid = main.uid /\ main'.spec = main.spec /\ main'.on = main.on /\ main'.pool = main.pool
              /\ main'.at # "add" /\ UNCHANGED handled
<1>1. DOMAIN main = DOMAIN Idle
  BY DEF IInv
<1>2. CASE Configured
  BY <1>2 DEF Configured, Return, Idle
<1>3. CASE SameProviders \/ StopForProviders \/ UpdateIPs \/ Annotated \/ Stop \/ JoinMatch
  BY <1>1, <1>3, MainFields DEF SameProviders, StopForProviders, UpdateIPs, Annotated, Stop, JoinMatch, Go
<1>4. CASE Reset
  BY <1>1, <1>4, MainFields DEF Reset
<1> QED
  BY <1>2, <1>3, <1>4

(* A pool that is added is new.                                             *)
LEMMA AddPoolChanges ==
    ASSUME IInv, UIDsApart, AddPool
    PROVE  \E x \in Instances :
             /\ inst[x] = Fresh /\ x \notin pools /\ pools' = pools \cup {x}
             /\ \A y \in Instances : y # x => inst'[y] = inst[y]
             /\ inst'[x].uid = main.uid /\ inst'[x].criteria = main.spec.criteria
             /\ inst'[x].match = "starting" /\ inst'[x].stopMatch = FALSE /\ inst'[x].stopIP = FALSE
             /\ inst'[x].provider = "nil"
             /\ main.at = "add" /\ main'.at = "providers" /\ main'.on = x /\ main'.uid = main.uid
             /\ main'.spec = main.spec /\ main'.pool = main.pool /\ main'.change = main.change
             /\ UNCHANGED <<apiVars, handled, down, events>>
<1> DEFINE x == CHOOSE x \in Instances : inst[x] = Fresh
           r == [Fresh EXCEPT !.uid = main.uid, !.criteria = main.spec.criteria, !.match = "starting"]
<1>1. x \in Instances /\ inst[x] = Fresh
  BY DEF AddPool
<1>2. /\ Set(x, r) /\ pools' = pools \cup {x} /\ main' = [main EXCEPT !.at = "providers", !.on = x]
      /\ main.at = "add" /\ UNCHANGED <<apiVars, handled, down, events>>
  BY DEF AddPool
<1>3. DOMAIN r = DOMAIN Fresh /\ r.uid = main.uid /\ r.criteria = main.spec.criteria /\ r.match = "starting"
  BY DEF Fresh
<1>4. r.stopMatch = FALSE /\ r.stopIP = FALSE /\ r.provider = "nil"
  BY DEF Fresh
<1>5. Fresh.uid = 0
  BY DEF Fresh
<1> HIDE DEF x, r
<1>6. inst'[x] = r /\ \A y \in Instances : y # x => inst'[y] = inst[y]
  BY <1>1, <1>2 DEF Set, IInv
<1>7. x \notin pools
  BY <1>1, <1>5 DEF UIDsApart
<1>8. /\ main'.at = "providers" /\ main'.on = x /\ main'.uid = main.uid
      /\ main'.spec = main.spec /\ main'.pool = main.pool /\ main'.change = main.change
  BY <1>2, MainFields DEF IInv
<1> QED
  BY <1>1, <1>2, <1>3, <1>4, <1>6, <1>7, <1>8

(* A pool that is stopped leaves nothing.                                   *)
LEMMA JoinIPChanges ==
    ASSUME IInv, JoinIP
    PROVE  /\ main.at = "joinIP" /\ main.on \in pools /\ pools' = pools \ {main.on}
           /\ inst'[main.on] = Fresh /\ \A y \in Instances : y # main.on => inst'[y] = inst[y]
           /\ UNCHANGED <<apiVars, down, events>>
           /\ \/ /\ main.spec # NoSpec /\ validate(main.spec)
                 /\ main'.at = "add" /\ main'.uid = main.uid /\ main'.spec = main.spec
                 /\ main'.pool = main.pool /\ main'.change = main.change /\ UNCHANGED handled
              \/ ~(main.spec # NoSpec /\ validate(main.spec)) /\ Return
<1>1. /\ main.at = "joinIP" /\ main.on \in pools /\ main.on \in Instances
      /\ MatchEnded(inst[main.on]) /\ IPEnded(inst[main.on])
  BY DEF IInv, HandlerSound, JoinIP
<1>2. Set(main.on, Fresh) /\ pools' = pools \ {main.on}
  BY <1>1 DEF JoinIP
<1>3. inst'[main.on] = Fresh /\ \A y \in Instances : y # main.on => inst'[y] = inst[y]
  BY <1>1, <1>2 DEF Set, IInv
<1>4. CASE main.spec # NoSpec /\ validate(main.spec)
  <2>1. main' = [main EXCEPT !.at = "add", !.on = NoInstance] /\ UNCHANGED handled
    BY <1>4 DEF JoinIP
  <2>2. main'.at = "add" /\ main'.uid = main.uid /\ main'.spec = main.spec
        /\ main'.pool = main.pool /\ main'.change = main.change
    BY <2>1, MainFields DEF IInv
  <2> QED
    BY <1>1, <1>2, <1>3, <1>4, <2>1, <2>2 DEF JoinIP
<1>5. CASE ~(main.spec # NoSpec /\ validate(main.spec))
  BY <1>1, <1>2, <1>3, <1>5 DEF JoinIP
<1> QED
  BY <1>4, <1>5

(* The handler begins on a resource.                                        *)
LEMMA BeginChanges ==
    ASSUME NEW p \in Pools, updateOrAdd(p) \/ OnDelete(p)
    PROVE  /\ main.at = "idle" /\ ~down /\ UNCHANGED <<apiVars, pools, inst, down, events>>
           /\ \/ /\ main' = Idle /\ main'.at = "idle" /\ main'.uid = 0 /\ main'.spec = NoSpec
                 /\ spec[p] # NoSpec /\ ~validate(spec[p]) /\ Known(p) = {}
                 /\ handled' = [handled EXCEPT ![p] = <<spec[p], uid[p]>>]
              \/ /\ main'.pool = p /\ main'.uid = uid[p] /\ main'.spec = spec[p] /\ main'.change = FALSE
                 /\ UNCHANGED handled
                 /\ \/ main'.at = "add" /\ spec[p] # NoSpec /\ validate(spec[p]) /\ Known(p) = {}
                    \/ main'.at = "stop" /\ main'.on \in Known(p)
                    \/ /\ main'.at = "providers" /\ main'.on \in Known(p)
                       /\ spec[p] # NoSpec /\ ~MustStop(inst[main'.on], spec[p])
<1>1. ASSUME NEW at, NEW x, Begin(at, x, p)
      PROVE  /\ main'.at = at /\ main'.on = x /\ main'.change = FALSE
             /\ main'.pool = p /\ main'.uid = uid[p] /\ main'.spec = spec[p]
  BY <1>1 DEF Begin
<1>2. CASE OnDelete(p)
  BY <1>1, <1>2 DEF OnDelete
<1>3. CASE updateOrAdd(p) /\ Known(p) = {} /\ validate(spec[p])
  BY <1>1, <1>3 DEF updateOrAdd
<1>4. CASE updateOrAdd(p) /\ Known(p) = {} /\ ~validate(spec[p])
  BY <1>4 DEF updateOrAdd, Idle
<1>5. CASE updateOrAdd(p) /\ Known(p) # {}
  <2>1. PICK x \in Known(p) : Begin(IF MustStop(inst[x], spec[p]) THEN "stop" ELSE "providers", x, p)
    BY <1>5 DEF updateOrAdd
  <2>2. CASE MustStop(inst[x], spec[p])
    <3>1. Begin("stop", x, p)
      BY <2>1, <2>2
    <3> QED
      BY <1>1, <1>5, <2>1, <3>1 DEF updateOrAdd
  <2>3. CASE ~MustStop(inst[x], spec[p])
    <3>1. Begin("providers", x, p)
      BY <2>1, <2>3
    <3> QED
      BY <1>1, <1>5, <2>1, <2>3, <3>1 DEF updateOrAdd
  <2> QED
    BY <2>2, <2>3
<1> QED
  BY <1>2, <1>3, <1>4, <1>5

\* What users do: they edit or remove resources, or create one with a new UID.
UserEffect ==
    /\ UNCHANGED <<handled, pools, inst, main, events>> /\ (down => down') /\ DOMAIN spec' = Pools
    /\ \/ /\ UNCHANGED <<uid, nextUID>>
          /\ \A p \in Pools : spec'[p] # NoSpec =>
               /\ spec[p] # NoSpec
               /\ \/ "region" \in events
                  \/ spec'[p].provider = spec[p].provider /\ spec'[p].region = spec[p].region
       \/ \E p \in Pools :
            /\ uid' = [uid EXCEPT ![p] = nextUID] /\ nextUID' = nextUID + 1
            /\ spec[p] = NoSpec /\ \A q \in Pools : q # p => spec'[q] = spec[q]
            /\ "missed" \notin events => Known(p) = {} /\ main.pool # p

(* Users only change resources, and no UID is given out twice.              *)
LEMMA UserChanges ==
    ASSUME UIDsApart, Users
    PROVE  UserEffect
<1>1. CASE Shutdown
  BY <1>1 DEF Shutdown, UserEffect, UIDsApart, apiVars
<1>2. ASSUME NEW p \in Edited, Remove(p) \/ OnDeleteUnknown(p) PROVE UserEffect
  BY <1>2, ConstantsAssumption DEF Remove, OnDeleteUnknown, UserEffect, UIDsApart, apiVars
<1>3. ASSUME NEW p \in Edited, NEW s \in Specs, Edit(p, s) PROVE UserEffect
  <2>1. /\ Kind(spec[p], s) \in events /\ spec[p] # NoSpec /\ spec' = [spec EXCEPT ![p] = s]
        /\ UNCHANGED <<uid, nextUID, handled, pools, inst, main, down, events>>
    BY <1>3 DEF Edit, Event
  <2>2. "region" \in events \/ (s.provider = spec[p].provider /\ s.region = spec[p].region)
    BY <2>1 DEF Kind
  <2> QED
    BY <2>1, <2>2, ConstantsAssumption DEF UserEffect, UIDsApart
<1>4. ASSUME NEW p \in Edited, NEW s \in Specs, Create(p, s) PROVE UserEffect
  <2>1. /\ spec[p] = NoSpec /\ spec' = [spec EXCEPT ![p] = s]
        /\ uid' = [uid EXCEPT ![p] = nextUID] /\ nextUID' = nextUID + 1
        /\ UNCHANGED <<handled, pools, inst, main, down, events>>
    BY <1>4 DEF Create
  <2>2. "missed" \notin events => Known(p) = {} /\ main.pool # p
    BY <1>4 DEF Create, Event
  <2> QED
    BY <2>1, <2>2, ConstantsAssumption DEF UserEffect, UIDsApart
<1> QED
  BY <1>1, <1>2, <1>3, <1>4 DEF Users

(* The first resources have different UIDs.                                 *)
LEMMA UIDsInit == Init => UIDsApart
<1> SUFFICES ASSUME Init PROVE UIDsApart
  OBVIOUS
<1> DEFINE n == Cardinality(Pools)
           P(f) == \A p, q \in Pools : f[p] = f[q] => p = q
<1>1. n \in Nat
  BY ConstantsAssumption, FS_CardinalityType
<1>2. \E f \in [Pools -> 1 .. n] : P(f)
  <2>1. IsFiniteSet(1 .. n) /\ Cardinality(1 .. n) = n
    BY <1>1, FS_Interval
  <2>2. ExistsBijection(Pools, 1 .. n)
    BY <2>1, ConstantsAssumption, FS_SameCardinalityBij
  <2> QED
    BY <2>2 DEF ExistsBijection, Bijection, Injection, IsInjective
<1>3. uid = CHOOSE f \in [Pools -> 1 .. n] : P(f)
  BY DEF Init
<1>4. uid \in [Pools -> 1 .. n] /\ P(uid)
  BY <1>2, <1>3
<1>5. main.uid = 0 /\ main.spec = NoSpec /\ main.at = "idle"
  BY DEF Init, Idle
<1>6. /\ nextUID = n + 1 /\ pools = {} /\ DOMAIN spec = Pools /\ DOMAIN handled = Pools
      /\ \A p \in Pools : handled[p][2] = 0
  BY DEF Init
<1> HIDE DEF n
<1> QED
  BY <1>1, <1>4, <1>5, <1>6 DEF UIDsApart

(* Every step keeps the scenario; once down, Run stays down.                *)
LEMMA EventsKept == ASSUME [Next]_vars PROVE events' = events /\ (down => down')
<1>1. CASE Main
  <2>1. ASSUME NEW p \in Pools, updateOrAdd(p) \/ OnDelete(p) PROVE UNCHANGED <<events, down>>
    BY <2>1 DEF updateOrAdd, OnDelete
  <2>2. ASSUME NEW x \in Instances, RunStops(x) PROVE UNCHANGED <<events, down>>
    BY <2>2 DEF RunStops
  <2>3. AddPool \/ SameProviders \/ StopForProviders \/ Reset \/ UpdateIPs \/ Annotated => UNCHANGED <<events, down>>
    BY DEF AddPool, SameProviders, StopForProviders, Reset, UpdateIPs, Annotated
  <2>4. Configured \/ Stop \/ JoinMatch \/ JoinIP \/ RunReturns => UNCHANGED <<events, down>>
    BY DEF Configured, Stop, JoinMatch, JoinIP, RunReturns
  <2> QED
    BY <1>1, <2>1, <2>2, <2>3, <2>4 DEF Main
<1>2. ASSUME NEW x \in Instances, Goroutines(x) \/ GetNodeFromPools(x)
      PROVE  events' = events /\ (down => down')
  BY <1>2 DEF Goroutines, ListerSet, EnableNodes, MatchEnds, Reconcile, IPEnds, GetNodeFromPools
<1>3. CASE Users
  BY <1>3 DEF Users, Remove, OnDeleteUnknown, Edit, Create, Shutdown
<1>4. CASE Restart \/ UNCHANGED vars
  BY <1>4 DEF Restart, vars
<1> QED
  BY <1>1, <1>2, <1>3, <1>4 DEF Next

(* UIDs stay apart.                                                         *)
LEMMA UIDsNext ==
    ASSUME IInv, UIDsApart, [Next]_vars
    PROVE  UIDsApart'
<1>1. pools \subseteq Instances
  BY DEF IInv
<1>2. ASSUME NEW p \in Pools, updateOrAdd(p) \/ OnDelete(p) PROVE UIDsApart'
  <2>1. UNCHANGED <<uid, nextUID, spec, pools, inst>>
    BY <1>2, BeginChanges DEF apiVars
  <2>2. DOMAIN handled' = Pools /\ \A q \in Pools : handled'[q][2] \in Nat /\ handled'[q][2] < nextUID
    <3>1. handled' = handled \/ handled' = [handled EXCEPT ![p] = <<spec[p], uid[p]>>]
      BY <1>2, BeginChanges
    <3>2. DOMAIN handled' = Pools /\ \A q \in Pools : handled'[q][2] = handled[q][2] \/ handled'[q][2] = uid[q]
      BY <3>1 DEF UIDsApart
    <3> QED
      BY <3>2 DEF UIDsApart
  <2>3. \/ main'.uid = 0 /\ main'.spec = NoSpec /\ main'.at = "idle"
        \/ main'.uid = uid[p]
    BY <1>2, BeginChanges
  <2>4. main'.uid \in Nat /\ main'.uid < nextUID /\ (main'.spec # NoSpec \/ main'.at = "add" => main'.uid # 0)
    BY <2>3 DEF UIDsApart
  <2> QED
    BY <2>1, <2>2, <2>4 DEF UIDsApart
<1>3. CASE (\E x \in Instances : RunStops(x)) \/ RunReturns
  <2>1. UNCHANGED <<uid, nextUID, spec, pools, inst, handled>>
    BY <1>3 DEF RunStops, RunReturns, apiVars
  <2>2. main'.uid = 0 /\ main'.spec = NoSpec /\ main'.at # "add"
    BY <1>3 DEF RunStops, RunReturns, Idle
  <2> QED
    BY <2>1, <2>2 DEF UIDsApart
<1>4. CASE AddPool
  <2>1. PICK x \in Instances :
             /\ pools' = pools \cup {x} /\ \A y \in Instances : y # x => inst'[y] = inst[y]
             /\ inst'[x].uid = main.uid /\ main.at = "add" /\ main'.uid = main.uid
             /\ UNCHANGED <<uid, nextUID, spec, handled>>
    BY <1>4, AddPoolChanges DEF apiVars
  <2> QED
    BY <1>1, <2>1 DEF UIDsApart
<1>5. CASE StopForProviders \/ Reset \/ UpdateIPs \/ Configured \/ Stop \/ JoinMatch \/ SameProviders \/ Annotated
  <2>1. UNCHANGED <<uid, nextUID, spec, pools>> /\ \A y \in Instances : inst'[y].uid = inst[y].uid
    <3>1. CASE SameProviders \/ Annotated
      BY <3>1 DEF SameProviders, Annotated, apiVars
    <3>2. CASE ~(SameProviders \/ Annotated)
      BY <1>5, <3>2, HandlerChanges DEF apiVars
    <3> QED
      BY <3>1, <3>2
  <2>2. DOMAIN handled' = Pools /\ \A q \in Pools : handled'[q][2] \in Nat /\ handled'[q][2] < nextUID
    <3>1. CASE Configured
      BY <3>1 DEF Configured, Return, UIDsApart
    <3>2. CASE ~Configured
      BY <1>5, <3>2 DEF StopForProviders, Reset, UpdateIPs, Stop, JoinMatch, SameProviders, Annotated, UIDsApart
    <3> QED
      BY <3>1, <3>2
  <2>3. \/ main'.uid = 0 /\ main'.spec = NoSpec /\ main'.at = "idle"
        \/ main'.uid = main.uid /\ main'.spec = main.spec /\ main'.at # "add"
    BY <1>5, MainChanges
  <2> QED
    BY <1>1, <2>1, <2>2, <2>3 DEF UIDsApart
<1>6. CASE JoinIP
  <2>1. /\ pools' = pools \ {main.on} /\ \A y \in Instances : y # main.on => inst'[y] = inst[y]
        /\ UNCHANGED <<uid, nextUID, spec>>
    BY <1>6, JoinIPChanges DEF apiVars
  <2>2. \/ main.spec # NoSpec /\ main'.uid = main.uid
        \/ main'.uid = 0 /\ main'.spec = NoSpec /\ main'.at = "idle"
    BY <1>6, JoinIPChanges DEF Return, Idle
  <2>3. DOMAIN handled' = Pools /\ \A q \in Pools : handled'[q][2] \in Nat /\ handled'[q][2] < nextUID
    BY <1>6, JoinIPChanges DEF Return, UIDsApart
  <2> QED
    BY <1>1, <2>1, <2>2, <2>3 DEF UIDsApart
<1>7. ASSUME NEW x \in Instances, Goroutines(x) \/ GetNodeFromPools(x) PROVE UIDsApart'
  <2>1. /\ UNCHANGED <<uid, nextUID, spec, handled, pools, main>>
        /\ \A y \in Instances : inst'[y].uid = inst[y].uid
    BY <1>7, GoroutineChanges DEF apiVars
  <2> QED
    BY <1>1, <2>1 DEF UIDsApart
<1>8. CASE Users
  <2>1. UserEffect
    BY <1>8, UserChanges
  <2>2. CASE UNCHANGED <<uid, nextUID>>
    BY <2>1, <2>2 DEF UserEffect, UIDsApart
  <2>3. CASE ~UNCHANGED <<uid, nextUID>>
    <3>1. PICK p \in Pools : uid' = [uid EXCEPT ![p] = nextUID] /\ nextUID' = nextUID + 1
      BY <2>1, <2>3 DEF UserEffect
    <3>2. nextUID \in Nat \ {0} /\ uid \in [Pools -> Nat \ {0}]
      BY DEF UIDsApart
    <3> QED
      BY <2>1, <3>1, <3>2 DEF UserEffect, UIDsApart
  <2> QED
    BY <2>2, <2>3
<1>9. CASE Restart
  <2>1. /\ main'.uid = 0 /\ main'.spec = NoSpec /\ main'.at = "idle"
        /\ UNCHANGED <<uid, nextUID, spec>> /\ pools' = {} /\ DOMAIN handled' = Pools
        /\ \A q \in Pools : handled'[q][2] = 0
    BY <1>9 DEF Restart, Idle, apiVars
  <2> QED
    BY <2>1 DEF UIDsApart
<1>10. CASE UNCHANGED vars
  BY <1>10 DEF vars, apiVars, UIDsApart
<1> QED
  BY <1>2, <1>3, <1>4, <1>5, <1>6, <1>7, <1>8, <1>9, <1>10 DEF Next, Main
-----------------------------------------------------------------------------
(* The nodes that an ipController knows.                                    *)
Alike(s, t) == s.provider = t.provider /\ s.region = t.region
Provides(r, s) == r.provider = Get(s.provider) /\ r.region = s.region

\* Every instance has the provider and region of its resource, but for the
\* one that is being configured, whose match controller has yet to enable
\* its nodes.
NodesInSync ==
    /\ \A x \in pools : inst[x].match = "live" => inst[x].knows
    /\ main.spec # NoSpec => \A p \in Pools : uid[p] = main.uid /\ spec[p] # NoSpec => Alike(main.spec, spec[p])
    /\ main.at \in Configuring \cup {"add"} => main.spec # NoSpec
    /\ main.at \in Configuring => inst[main.on].uid = main.uid
    /\ main.at = "providers" => inst[main.on].match # "live" \/ Provides(inst[main.on], main.spec)
    /\ main.at = "reset" => inst[main.on].match # "live"
    /\ main.at \in {"ips", "annotate", "dns"} => Provides(inst[main.on], main.spec)
    /\ \A x \in pools : \A p \in Pools :
         inst[x].uid = uid[p] /\ spec[p] # NoSpec =>
            (main.on = x /\ main.at \in Configuring) \/ Provides(inst[x], spec[p])

(* The handler begins on a resource, or stops.                              *)
LEMMA NodesBegin ==
    ASSUME IInv, UIDsApart, NodesInSync,
           (\E p \in Pools : updateOrAdd(p) \/ OnDelete(p)) \/ (\E x \in Instances : RunStops(x)) \/ RunReturns
    PROVE  NodesInSync'
<1>1. ASSUME NEW p \in Pools, updateOrAdd(p) \/ OnDelete(p) PROVE NodesInSync'
  <2>1. /\ main.at = "idle" /\ UNCHANGED <<spec, uid, pools, inst>>
        /\ \/ main'.at = "idle" /\ main'.spec = NoSpec
           \/ /\ main'.uid = uid[p] /\ main'.spec = spec[p]
              /\ \/ main'.at = "add" /\ spec[p] # NoSpec
                 \/ main'.at = "stop"
                 \/ main'.at = "providers" /\ main'.on \in Known(p) /\ spec[p] # NoSpec
    BY <1>1, BeginChanges DEF apiVars
  <2>2. \A x \in pools : \A q \in Pools : inst[x].uid = uid[q] /\ spec[q] # NoSpec => Provides(inst[x], spec[q])
    BY <2>1 DEF NodesInSync, Configuring
  <2>3. \A q \in Pools : uid[q] = uid[p] => q = p
    BY DEF UIDsApart
  <2>4. main'.at = "providers" => inst[main'.on].uid = uid[p] /\ Provides(inst[main'.on], spec[p])
    BY <2>1, <2>2 DEF Known
  <2> QED
    BY <2>1, <2>2, <2>3, <2>4 DEF NodesInSync, Configuring, Alike, Provides
<1>2. CASE (\E x \in Instances : RunStops(x)) \/ RunReturns
  <2>1. main.at = "idle" /\ UNCHANGED <<spec, uid, pools, inst>>
    BY <1>2 DEF RunStops, RunReturns, apiVars
  <2>2. main'.spec = NoSpec /\ main'.at \in {"stop", "returned"}
    BY <1>2 DEF RunStops, RunReturns, Idle
  <2> QED
    BY <2>1, <2>2 DEF NodesInSync, Configuring, Provides
<1> QED
  BY <1>1, <1>2

(* A pool is added, or taken out of the map.                                *)
LEMMA NodesMap ==
    ASSUME IInv, UIDsApart, NodesInSync, AddPool \/ JoinIP
    PROVE  NodesInSync'
<1>1. pools \subseteq Instances
  BY DEF IInv
<1>2. CASE AddPool
  <2>1. PICK x \in Instances :
             /\ x \notin pools /\ pools' = pools \cup {x}
             /\ \A y \in Instances : y # x => inst'[y] = inst[y]
             /\ inst'[x].uid = main.uid /\ inst'[x].match = "starting"
             /\ main.at = "add" /\ main'.at = "providers" /\ main'.on = x /\ main'.uid = main.uid
             /\ main'.spec = main.spec /\ UNCHANGED <<spec, uid>>
    BY <1>2, AddPoolChanges DEF apiVars
  <2> QED
    BY <1>1, <2>1 DEF NodesInSync, Configuring, Alike, Provides
<1>3. CASE JoinIP
  <2>1. /\ main.at = "joinIP" /\ pools' = pools \ {main.on}
        /\ \A y \in Instances : y # main.on => inst'[y] = inst[y]
        /\ UNCHANGED <<spec, uid>>
    BY <1>3, JoinIPChanges DEF apiVars
  <2>2. \/ main.spec # NoSpec /\ main'.at = "add" /\ main'.uid = main.uid /\ main'.spec = main.spec
        \/ main'.at = "idle" /\ main'.spec = NoSpec
    BY <1>3, JoinIPChanges DEF Return, Idle
  <2> QED
    BY <1>1, <2>1, <2>2 DEF NodesInSync, Configuring, Alike, Provides
<1> QED
  BY <1>2, <1>3

(* The handler's steps on an instance: Reset, which forgets the nodes, only *)
(* ever meets one whose match controller has enabled none.                  *)
LEMMA NodesConfigure ==
    ASSUME IInv, UIDsApart, NodesInSync,
           SameProviders \/ StopForProviders \/ Reset \/ UpdateIPs \/ Annotated \/ Configured \/ Stop \/ JoinMatch
    PROVE  NodesInSync'
<1> DEFINE q == inst[main.on]
<1>1. main.on \in pools /\ main.on \in Instances /\ DOMAIN inst = Instances /\ DOMAIN q = DOMAIN Fresh /\ pools \subseteq Instances
  BY DEF IInv, HandlerSound, SameProviders, StopForProviders, Reset, UpdateIPs, Annotated, Configured, Stop, JoinMatch
<1>2. /\ UNCHANGED <<spec, uid, pools>> /\ \A y \in Instances : y # main.on => inst'[y] = inst[y]
      /\ inst'[main.on].uid = q.uid /\ inst'[main.on].match = q.match
  <2>1. CASE SameProviders \/ Annotated
    BY <2>1 DEF SameProviders, Annotated, apiVars
  <2>2. CASE ~(SameProviders \/ Annotated)
    BY <2>2, HandlerChanges DEF apiVars
  <2> QED
    BY <2>1, <2>2
<1>3. \/ main' = Idle /\ main'.spec = NoSpec /\ main'.at = "idle"
      \/ main'.uid = main.uid /\ main'.spec = main.spec /\ main'.on = main.on
  BY MainChanges
<1>4. CASE SameProviders
  <2>1. main.at = "providers" /\ Provides(q, main.spec) /\ inst' = inst
    BY <1>4 DEF SameProviders, NewProvider, Provides
  <2>2. main'.at = "ips" /\ main'.uid = main.uid /\ main'.spec = main.spec /\ main'.on = main.on
    BY <1>4, MainFields DEF SameProviders, Go, IInv
  <2> QED
    BY <1>2, <2>1, <2>2 DEF NodesInSync, Configuring, Alike, Provides
<1>5. CASE StopForProviders
  <2>1. main.at = "providers" /\ ~Provides(q, main.spec) /\ inst' = [inst EXCEPT ![main.on] = [q EXCEPT !.stopIP = TRUE]]
    BY <1>5 DEF StopForProviders, NewProvider, Provides, Set
  <2>2. main'.at = "reset" /\ main'.uid = main.uid /\ main'.spec = main.spec /\ main'.on = main.on
    BY <1>5, MainFields DEF StopForProviders, Go, IInv
  <2>3. q.match # "live"
    BY <2>1 DEF NodesInSync
  <2> QED
    BY <1>1, <1>2, <2>1, <2>2, <2>3, Fields DEF NodesInSync, Configuring, Alike, Provides
<1>6. CASE Reset
  <2>1. main.at = "reset" /\ inst'[main.on].provider = Get(main.spec.provider) /\ inst'[main.on].region = main.spec.region
    BY <1>1, <1>6, Fields DEF Reset, Set
  <2>2. main'.at = "ips" /\ main'.uid = main.uid /\ main'.spec = main.spec /\ main'.on = main.on
    BY <1>6, MainFields DEF Reset, IInv
  <2>3. q.match # "live"
    BY <2>1 DEF NodesInSync
  <2> QED
    BY <1>1, <1>2, <2>1, <2>2, <2>3 DEF NodesInSync, Configuring, Alike, Provides
<1>7. CASE UpdateIPs \/ Annotated
  <2>1. /\ main.at \in {"ips", "annotate"} /\ inst'[main.on].provider = q.provider
        /\ inst'[main.on].region = q.region /\ inst'[main.on].knows = q.knows
    BY <1>1, <1>7, Fields DEF UpdateIPs, Annotated, Set
  <2>2. main'.at \in {"annotate", "dns"} /\ main'.uid = main.uid /\ main'.spec = main.spec /\ main'.on = main.on
    BY <1>7, MainFields DEF UpdateIPs, Annotated, Go, IInv
  <2> QED
    BY <1>1, <1>2, <2>1, <2>2 DEF NodesInSync, Configuring, Alike, Provides
<1>8. CASE Configured
  <2>1. /\ main.at = "dns" /\ inst'[main.on].provider = q.provider
        /\ inst'[main.on].region = q.region /\ inst'[main.on].knows = q.knows
    BY <1>1, <1>8, Fields DEF Configured, Set
  <2>2. main'.at = "idle" /\ main'.spec = NoSpec
    BY <1>8 DEF Configured, Return, Idle
  <2>3. \A p \in Pools : q.uid = uid[p] /\ spec[p] # NoSpec => Provides(q, spec[p])
    BY <2>1 DEF NodesInSync, Configuring, Alike, Provides
  <2> QED
    BY <1>1, <1>2, <2>1, <2>2, <2>3 DEF NodesInSync, Configuring, Provides
<1>9. CASE Stop \/ JoinMatch
  <2>1. /\ main.at \in {"stop", "joinMatch"} /\ inst'[main.on].provider = q.provider
        /\ inst'[main.on].region = q.region /\ inst'[main.on].knows = q.knows
    BY <1>1, <1>9, Fields DEF Stop, JoinMatch, Set
  <2>2. main'.at \in {"joinMatch", "joinIP"} /\ main'.uid = main.uid /\ main'.spec = main.spec /\ main'.on = main.on
    BY <1>9, MainFields DEF Stop, JoinMatch, Go, IInv
  <2> QED
    BY <1>1, <1>2, <2>1, <2>2 DEF NodesInSync, Configuring, Alike, Provides
<1> QED
  BY <1>4, <1>5, <1>6, <1>7, <1>8, <1>9

(* Every step.                                                              *)
LEMMA NodesNext ==
    ASSUME IInv, UIDsApart, NodesInSync, [Next]_vars, events \cap {"region", "early"} = {}
    PROVE  NodesInSync'
<1>1. pools \subseteq Instances
  BY DEF IInv
<1>2. ASSUME NEW x \in Instances, Goroutines(x) \/ GetNodeFromPools(x) PROVE NodesInSync'
  <2>1. UNCHANGED <<spec, uid, pools, main>>
    BY <1>2, GoroutineChanges DEF apiVars
  <2>2. \A y \in Instances :
          /\ inst'[y].uid = inst[y].uid /\ inst'[y].provider = inst[y].provider /\ inst'[y].region = inst[y].region
          /\ inst[y].knows => inst'[y].knows
          /\ inst'[y].match = "live" => \/ inst[y].match = "live"
                                        \/ /\ inst'[y].knows
                                           /\ ~(main.on = y /\ main.at \in {"providers", "reset", "ips"})
    BY <1>2, GoroutineChanges
  <2>3. main.at \in Configuring => main.on \in Instances
    BY <1>1 DEF IInv, HandlerSound, Configuring
  <2> QED
    BY <1>1, <2>1, <2>2, <2>3 DEF NodesInSync, Configuring, Alike, Provides
<1>3. CASE Users
  <2>1. UserEffect
    BY <1>3, UserChanges
  <2>2. CASE UNCHANGED <<uid, nextUID>>
    <3>1. \A p \in Pools : spec'[p] # NoSpec => spec[p] # NoSpec /\ Alike(spec[p], spec'[p])
      <4>1. nextUID' # nextUID + 1
        BY <2>2 DEF UIDsApart
      <4> QED
        BY <2>1, <4>1 DEF UserEffect, Alike
    <3> QED
      BY <2>1, <2>2, <3>1 DEF UserEffect, NodesInSync, Alike, Provides
  <2>3. CASE ~UNCHANGED <<uid, nextUID>>
    <3>1. PICK p \in Pools :
            /\ uid' = [uid EXCEPT ![p] = nextUID] /\ \A q \in Pools : q # p => spec'[q] = spec[q]
      BY <2>1, <2>3 DEF UserEffect
    <3>2. \A q \in Pools : q # p => uid'[q] = uid[q]
      BY <3>1 DEF UIDsApart
    <3>3. uid'[p] # main.uid /\ \A x \in pools : inst[x].uid # uid'[p]
      BY <3>1 DEF UIDsApart
    <3> QED
      BY <2>1, <3>1, <3>2, <3>3 DEF UserEffect, NodesInSync, Alike, Provides
  <2> QED
    BY <2>2, <2>3
<1>4. CASE Restart
  <2>1. pools' = {} /\ main'.at = "idle" /\ main'.spec = NoSpec
    BY <1>4 DEF Restart, Idle
  <2> QED
    BY <2>1 DEF NodesInSync, Configuring
<1>5. CASE UNCHANGED vars
  BY <1>5 DEF vars, apiVars, NodesInSync, Configuring, Alike, Provides
<1> QED
  BY <1>2, <1>3, <1>4, <1>5, NodesBegin, NodesMap, NodesConfigure DEF Next, Main

(* Unless a provider or region is edited or the match controller is done    *)
(* early, updateProviders resets no ipController that has been told of its  *)
(* nodes, whatever else is edited, deleted, missed, crashed or shut down:   *)
(* for any number of pools it knows the nodes its match controller enabled. *)
THEOREM NodesStayKnown == Spec => []NodesKept
<1> DEFINE J == UIDsApart /\ (events \cap {"region", "early"} = {} => NodesInSync)
<1>1. Init => IInv /\ J
  <2>1. Init => NodesInSync
    <3>1. Init => pools = {} /\ main.at = "idle" /\ main.spec = NoSpec
      BY DEF Init, Idle
    <3> QED
      BY <3>1 DEF NodesInSync, Configuring
  <2> QED
    BY <2>1, InitIInv, UIDsInit
<1>2. IInv /\ J /\ [Next]_vars => IInv' /\ J'
  BY NextIInv, UIDsNext, NodesNext, EventsKept
<1>3. J => NodesKept
  BY DEF NodesInSync, NodesKept
<1> HIDE DEF J
<1> QED
  BY <1>1, <1>2, <1>3, PTL DEF Spec
-----------------------------------------------------------------------------
(* The instances that serve a resource.                                     *)

\* Both goroutines run, and nothing has told them to stop.
MatchUp(r) == r.stopMatch = FALSE /\ r.match \in {"starting", "syncing", "live"}
Up(r) == MatchUp(r) /\ r.stopIP = FALSE /\ r.ip = "running"

Served(p, s) ==
    IF validate(s) THEN \E x \in pools : Known(p) = {x} /\ Follows(inst[x], s) ELSE Known(p) = {}

\* Every instance serves a resource, and no two the same.
OneEach ==
    /\ \A x \in pools : \E p \in Pools : inst[x].uid = uid[p]
    /\ \A x, y \in pools : inst[x].uid = inst[y].uid => x = y

\* The resource that the handler works on is not deleted and created again
\* meanwhile; a new instance has no provider yet, and gets one before it is
\* started.
HandlerInSync ==
    /\ Busy => /\ main.pool \in Pools /\ main.uid = uid[main.pool]
               /\ main.spec = NoSpec => spec[main.pool] = NoSpec /\ main.at \in Stopping
    /\ main.at \in Configuring \cup Stopping => inst[main.on].uid = main.uid
    /\ main.at = "add" => validate(main.spec) /\ Known(main.pool) = {}
    /\ main.at \in Configuring => /\ validate(main.spec) /\ inst[main.on].criteria = main.spec.criteria
                                  /\ MatchUp(inst[main.on])
    /\ main.at = "providers" => /\ inst[main.on].stopIP = FALSE
                                /\ inst[main.on].ip = "running" \/ inst[main.on].provider = "nil"
    /\ main.at \in {"ips", "annotate", "dns"} =>
         /\ Provides(inst[main.on], main.spec) /\ inst[main.on].stopIP = FALSE
         /\ main.change = TRUE \/ inst[main.on].ip = "running"

\* Every instance that the handler leaves alone runs, and every resource is
\* served as the handler last saw it.
ServedInSync ==
    /\ OneEach /\ HandlerInSync
    /\ \A x \in pools : (main.at \in Configuring \cup Stopping /\ main.on = x) \/ Up(inst[x])
    /\ \A p \in Pools :
         spec[p] # NoSpec /\ handled[p][1] # NoSpec /\ handled[p][2] = uid[p] /\ ~(Busy /\ main.pool = p) =>
            Served(p, handled[p][1])

(* A valid spec names a provider that is registered.                        *)
LEMMA ValidProvider ==
    ASSUME NEW s, validate(s) PROVE Get(s.provider) = s.provider /\ Get(s.provider) # "nil"
  BY DEF validate, IsIPProvider, Get

(* A resource stays served when its instance keeps what it is served with.  *)
LEMMA ServedFrame ==
    ASSUME NEW p \in Pools, NEW s, Served(p, s), uid'[p] = uid[p],
           Known(p)' = Known(p), \A x \in Known(p) : x \in pools' /\ (Follows(inst[x], s) => Follows(inst'[x], s))
    PROVE  Served(p, s)'
<1>1. CASE validate(s)
  <2>1. PICK x \in pools : Known(p) = {x} /\ Follows(inst[x], s)
    BY <1>1 DEF Served
  <2>2. x \in pools' /\ Known(p)' = {x} /\ Follows(inst'[x], s)
    BY <2>1
  <2> QED
    BY <1>1, <2>2 DEF Served
<1>2. CASE ~validate(s)
  BY <1>2 DEF Served
<1> QED
  BY <1>1, <1>2

(* The handler begins on a resource.                                        *)
LEMMA ServedBegin ==
    ASSUME IInv, UIDsApart, ServedInSync, NEW p \in Pools, updateOrAdd(p) \/ OnDelete(p)
    PROVE  ServedInSync'
<1>1. main.at = "idle" /\ ~Busy /\ UNCHANGED <<spec, uid, pools, inst>>
  BY BeginChanges DEF apiVars, Busy
<1>2. /\ OneEach /\ \A x \in pools : Up(inst[x])
      /\ \A q \in Pools :
           spec[q] # NoSpec /\ handled[q][1] # NoSpec /\ handled[q][2] = uid[q] => Served(q, handled[q][1])
  BY <1>1 DEF ServedInSync, Configuring, Stopping
<1>3. OneEach' /\ \A q \in Pools : \A s : Served(q, s)' <=> Served(q, s)
  BY <1>1, <1>2 DEF OneEach, Served, Known
<1>4. CASE main' = Idle
  <2>1. main'.at = "idle" /\ ~validate(spec[p]) /\ Known(p) = {} /\ handled' = [handled EXCEPT ![p] = <<spec[p], uid[p]>>]
    <3>1. main'.at = "idle" /\ main'.spec = NoSpec /\ main'.uid = 0
      BY <1>4 DEF Idle
    <3>2. uid[p] # 0
      BY DEF UIDsApart
    <3> QED
      BY <3>1, <3>2, BeginChanges
  <2>2. HandlerInSync'
    BY <2>1 DEF HandlerInSync, Busy, Configuring, Stopping
  <2>3. Served(p, spec[p]) /\ DOMAIN handled = Pools
    BY <2>1 DEF Served, UIDsApart
  <2>4. \A q \in Pools : spec[q] # NoSpec /\ handled'[q][1] # NoSpec /\ handled'[q][2] = uid[q] => Served(q, handled'[q][1])
    BY <1>2, <2>1, <2>3
  <2> QED
    BY <1>1, <1>2, <1>3, <2>2, <2>4 DEF ServedInSync
<1>5. CASE main' # Idle
  <2>1. /\ main'.pool = p /\ main'.uid = uid[p] /\ main'.spec = spec[p] /\ UNCHANGED handled
        /\ \/ main'.at = "add" /\ spec[p] # NoSpec /\ validate(spec[p]) /\ Known(p) = {}
           \/ main'.at = "stop" /\ main'.on \in Known(p)
           \/ /\ main'.at = "providers" /\ main'.on \in Known(p)
              /\ spec[p] # NoSpec /\ ~MustStop(inst[main'.on], spec[p])
    BY <1>5, BeginChanges
  <2>2. main'.on \in Known(p) => main'.on \in pools /\ inst[main'.on].uid = uid[p] /\ Up(inst[main'.on])
    BY <1>2 DEF Known
  <2>3. Known(p)' = Known(p)
    BY <1>1 DEF Known
  <2>4. HandlerInSync'
    BY <1>1, <2>1, <2>2, <2>3 DEF HandlerInSync, Busy, Configuring, Stopping, Up, MatchUp, MustStop
  <2> QED
    BY <1>1, <1>2, <1>3, <2>1, <2>4 DEF ServedInSync
<1> QED
  BY <1>4, <1>5

(* A pool is added.                                                         *)
LEMMA ServedAdd ==
    ASSUME IInv, UIDsApart, ServedInSync, AddPool
    PROVE  ServedInSync'
<1>1. PICK x \in Instances :
           /\ x \notin pools /\ pools' = pools \cup {x}
           /\ \A y \in Instances : y # x => inst'[y] = inst[y]
           /\ inst'[x].uid = main.uid /\ inst'[x].criteria = main.spec.criteria
           /\ inst'[x].match = "starting" /\ inst'[x].stopMatch = FALSE /\ inst'[x].stopIP = FALSE
           /\ inst'[x].provider = "nil"
           /\ main.at = "add" /\ main'.at = "providers" /\ main'.on = x /\ main'.uid = main.uid
           /\ main'.spec = main.spec /\ main'.pool = main.pool
           /\ UNCHANGED <<spec, uid, handled>>
  BY AddPoolChanges DEF apiVars
<1>2. /\ main.pool \in Pools /\ main.uid = uid[main.pool] /\ validate(main.spec) /\ Known(main.pool) = {}
      /\ main.spec # NoSpec /\ pools \subseteq Instances
  BY <1>1 DEF ServedInSync, HandlerInSync, Busy, Stopping, IInv
<1>3. \A y \in pools : y # x /\ inst'[y] = inst[y] /\ inst[y].uid # main.uid
  BY <1>1, <1>2 DEF Known
<1>4. OneEach'
  BY <1>1, <1>2, <1>3 DEF ServedInSync, OneEach
<1>5. HandlerInSync'
  BY <1>1, <1>2 DEF HandlerInSync, Busy, Configuring, Stopping, MatchUp
<1>6. \A y \in pools : Up(inst[y])
  BY <1>1 DEF ServedInSync, Configuring, Stopping
<1>7. ASSUME NEW q \in Pools, q # main.pool, NEW s, Served(q, s) PROVE Served(q, s)'
  <2>1. uid[q] # main.uid
    BY <1>2, <1>7 DEF UIDsApart
  <2>2. Known(q)' = Known(q)
    BY <1>1, <1>3, <2>1 DEF Known
  <2>3. \A y \in Known(q) : y \in pools' /\ inst'[y] = inst[y]
    BY <1>1, <1>3 DEF Known
  <2> QED
    BY <1>1, <1>7, <2>2, <2>3, ServedFrame
<1>8. Busy /\ Busy'
  BY <1>1 DEF Busy
<1> QED
  BY <1>1, <1>3, <1>4, <1>5, <1>6, <1>7, <1>8 DEF ServedInSync, Configuring

(* A pool is taken out of the map.                                          *)
LEMMA ServedJoin ==
    ASSUME IInv, UIDsApart, ServedInSync, JoinIP
    PROVE  ServedInSync'
<1>1. /\ main.at = "joinIP" /\ main.on \in pools /\ pools' = pools \ {main.on}
      /\ \A y \in Instances : y # main.on => inst'[y] = inst[y]
      /\ UNCHANGED <<spec, uid>> /\ pools \subseteq Instances
  BY JoinIPChanges DEF apiVars, IInv
<1>2. /\ main.pool \in Pools /\ main.uid = uid[main.pool] /\ inst[main.on].uid = main.uid
      /\ main.spec = NoSpec => spec[main.pool] = NoSpec
  BY <1>1 DEF ServedInSync, HandlerInSync, Busy, Stopping
<1> PICK p \in Pools : p = main.pool
  BY <1>2
<1>3. \A y \in pools' : y # main.on /\ y \in pools /\ inst'[y] = inst[y] /\ inst[y].uid # main.uid
  BY <1>1, <1>2 DEF ServedInSync, OneEach
<1>4. OneEach'
  BY <1>1, <1>3 DEF ServedInSync, OneEach
<1>5. \A y \in pools' : Up(inst'[y])
  BY <1>1, <1>3 DEF ServedInSync
<1>6. Known(p)' = {}
  BY <1>1, <1>2, <1>3 DEF Known
<1>7. ASSUME NEW q \in Pools, q # p, NEW s, Served(q, s) PROVE Served(q, s)'
  <2>1. uid[q] # main.uid
    BY <1>2, <1>7 DEF UIDsApart
  <2>2. Known(q)' = Known(q)
    BY <1>1, <1>2, <1>3, <2>1 DEF Known
  <2>3. \A y \in Known(q) : y \in pools' /\ inst'[y] = inst[y]
    BY <1>1, <1>3, <2>2 DEF Known
  <2> QED
    BY <1>1, <1>7, <2>2, <2>3, ServedFrame
<1>8. Busy
  BY <1>1 DEF Busy
<1>9. CASE main.spec # NoSpec /\ validate(main.spec)
  <2>1. main'.at = "add" /\ main'.uid = main.uid /\ main'.spec = main.spec /\ main'.pool = main.pool /\ UNCHANGED handled
    BY <1>9, JoinIPChanges
  <2>2. HandlerInSync'
    BY <1>1, <1>2, <1>6, <1>9, <2>1 DEF HandlerInSync, Busy, Configuring, Stopping
  <2>3. Busy'
    BY <2>1 DEF Busy
  <2> QED
    BY <1>1, <1>4, <1>5, <1>7, <1>8, <2>1, <2>2, <2>3 DEF ServedInSync
<1>10. CASE ~(main.spec # NoSpec /\ validate(main.spec))
  <2>1. main' = Idle /\ main'.at = "idle"
    BY <1>10, JoinIPChanges DEF Return, Idle
  <2>2. handled' = IF main.spec = NoSpec THEN handled ELSE [handled EXCEPT ![main.pool] = <<main.spec, main.uid>>]
    BY <1>10, JoinIPChanges DEF Return
  <2>3. HandlerInSync' /\ ~Busy'
    BY <2>1 DEF HandlerInSync, Busy, Configuring, Stopping
  <2>4. \A q \in Pools : q # p => handled'[q] = handled[q]
    BY <2>2 DEF UIDsApart
  <2>5. ASSUME spec[p] # NoSpec, NEW s, s = handled'[p][1] PROVE Served(p, s)'
    <3>1. main.spec # NoSpec /\ ~validate(main.spec)
      BY <1>2, <1>10, <2>5
    <3>2. handled'[p] = <<main.spec, main.uid>>
      BY <1>2, <2>2, <3>1 DEF UIDsApart
    <3> QED
      BY <1>6, <2>5, <3>1, <3>2 DEF Served
  <2>6. ASSUME NEW q \in Pools, NEW s, s = handled'[q][1],
               spec[q] # NoSpec, s # NoSpec, handled'[q][2] = uid[q]
        PROVE  Served(q, s)'
    <3>1. CASE q = p
      BY <2>5, <2>6, <3>1
    <3>2. CASE q # p
      <4>1. Served(q, s)
        BY <1>1, <2>4, <2>6, <3>2 DEF ServedInSync
      <4> QED
        BY <1>7, <3>2, <4>1
    <3> QED
      BY <3>1, <3>2
  <2> QED
    BY <1>1, <1>4, <1>5, <2>3, <2>6 DEF ServedInSync
<1> QED
  BY <1>9, <1>10

(* The handler works on its instance and stays with its resource: the other *)
(* resources are served as before.                                          *)
LEMMA ServedWork ==
    ASSUME IInv, UIDsApart, ServedInSync, main.at \in Configuring \cup Stopping,
           UNCHANGED <<spec, uid, pools, handled>>,
           \A y \in Instances : y # main.on => inst'[y] = inst[y],
           inst'[main.on].uid = inst[main.on].uid,
           main'.on = main.on, main'.pool = main.pool, main'.at \in Configuring \cup Stopping,
           HandlerInSync'
    PROVE  ServedInSync'
<1>1. main.on \in pools /\ pools \subseteq Instances
  BY DEF IInv, HandlerSound, Configuring, Stopping
<1>2. inst[main.on].uid = main.uid /\ main.pool \in Pools /\ main.uid = uid[main.pool] /\ Busy /\ Busy'
  BY DEF ServedInSync, HandlerInSync, Busy, Configuring, Stopping
<1>3. OneEach'
  BY <1>1 DEF ServedInSync, OneEach
<1>4. \A x \in pools' : (main'.at \in Configuring \cup Stopping /\ main'.on = x) \/ Up(inst'[x])
  BY <1>1 DEF ServedInSync
<1>5. ASSUME NEW q \in Pools, q # main.pool, NEW s, Served(q, s) PROVE Served(q, s)'
  <2>1. uid[q] # main.uid
    BY <1>2, <1>5 DEF UIDsApart
  <2>2. Known(q)' = Known(q) /\ main.on \notin Known(q)
    BY <1>1, <1>2, <2>1 DEF Known
  <2>3. \A y \in Known(q) : y \in pools' /\ inst'[y] = inst[y]
    BY <1>1, <2>2 DEF Known
  <2> QED
    BY <1>5, <2>2, <2>3, ServedFrame
<1> QED
  BY <1>2, <1>3, <1>4, <1>5 DEF ServedInSync

(* updateProviders, updateIPs and the first steps of stopping.              *)
LEMMA ServedHandler ==
    ASSUME IInv, UIDsApart, ServedInSync,
           SameProviders \/ StopForProviders \/ Reset \/ UpdateIPs \/ Annotated \/ Stop \/ JoinMatch
    PROVE  ServedInSync'
<1> DEFINE q == inst[main.on]
<1>1. /\ main.on \in pools /\ main.on \in Instances /\ DOMAIN inst = Instances /\ DOMAIN q = DOMAIN Fresh
      /\ DOMAIN main = DOMAIN Idle
  BY DEF IInv, HandlerSound, SameProviders, StopForProviders, Reset, UpdateIPs, Annotated, Stop, JoinMatch
<1>2. /\ UNCHANGED <<spec, uid, pools>> /\ \A y \in Instances : y # main.on => inst'[y] = inst[y]
      /\ inst'[main.on].uid = q.uid /\ inst'[main.on].match = q.match /\ inst'[main.on].criteria = q.criteria
  <2>1. CASE SameProviders \/ Annotated
    BY <2>1 DEF SameProviders, Annotated, apiVars
  <2>2. CASE ~(SameProviders \/ Annotated)
    BY <2>2, HandlerChanges DEF apiVars
  <2> QED
    BY <2>1, <2>2
<1>3. /\ main'.uid = main.uid /\ main'.spec = main.spec /\ main'.on = main.on /\ main'.pool = main.pool
      /\ UNCHANGED handled
  <2>1. CASE SameProviders \/ StopForProviders \/ UpdateIPs \/ Annotated \/ Stop \/ JoinMatch
    BY <1>1, <2>1, MainFields DEF SameProviders, StopForProviders, UpdateIPs, Annotated, Stop, JoinMatch, Go
  <2>2. CASE Reset
    BY <1>1, <2>2, MainFields DEF Reset
  <2> QED
    BY <2>1, <2>2
<1>4. HandlerInSync
  BY DEF ServedInSync
<1>5. SUFFICES main.at \in Configuring \cup Stopping /\ main'.at \in Configuring \cup Stopping /\ HandlerInSync'
  BY <1>2, <1>3, ServedWork
<1>6. CASE SameProviders
  <2>1. main.at = "providers" /\ Provides(q, main.spec) /\ inst' = inst
    BY <1>6 DEF SameProviders, NewProvider, Provides
  <2>2. main'.at = "ips"
    BY <1>1, <1>6, MainFields DEF SameProviders, Go
  <2>3. validate(main.spec)
    BY <1>4, <2>1 DEF HandlerInSync, Configuring
  <2>4. q.provider # "nil"
    BY <2>1, <2>3, ValidProvider DEF Provides
  <2> QED
    BY <1>2, <1>3, <1>4, <2>1, <2>2, <2>4 DEF HandlerInSync, Busy, Configuring, Stopping, Provides, MatchUp
<1>7. CASE StopForProviders
  <2>1. main.at = "providers" /\ inst'[main.on].stopMatch = q.stopMatch
    BY <1>1, <1>7, Fields DEF StopForProviders, Set
  <2>2. main'.at = "reset"
    BY <1>1, <1>7, MainFields DEF StopForProviders, Go
  <2> QED
    BY <1>2, <1>3, <1>4, <2>1, <2>2 DEF HandlerInSync, Busy, Configuring, Stopping, MatchUp
<1>8. CASE Reset
  <2>1. /\ main.at = "reset" /\ inst'[main.on].provider = Get(main.spec.provider)
        /\ inst'[main.on].region = main.spec.region
        /\ inst'[main.on].stopMatch = q.stopMatch /\ inst'[main.on].stopIP = FALSE
    BY <1>1, <1>8, Fields DEF Reset, Set
  <2>2. main'.at = "ips" /\ main'.change = TRUE
    BY <1>1, <1>8, MainFields DEF Reset
  <2> QED
    BY <1>2, <1>3, <1>4, <2>1, <2>2 DEF HandlerInSync, Busy, Configuring, Stopping, Provides, MatchUp
<1>9. CASE UpdateIPs \/ Annotated
  <2>1. /\ main.at \in {"ips", "annotate"} /\ inst'[main.on].provider = q.provider
        /\ inst'[main.on].region = q.region /\ inst'[main.on].ip = q.ip
        /\ inst'[main.on].stopMatch = q.stopMatch /\ inst'[main.on].stopIP = q.stopIP
    BY <1>1, <1>9, Fields DEF UpdateIPs, Annotated, Set
  <2>2. main'.at \in {"annotate", "dns"} /\ main'.change = main.change
    BY <1>1, <1>9, MainFields DEF UpdateIPs, Annotated, Go
  <2> QED
    BY <1>2, <1>3, <1>4, <2>1, <2>2 DEF HandlerInSync, Busy, Configuring, Stopping, Provides, MatchUp
<1>10. CASE Stop \/ JoinMatch
  <2>1. main.at \in {"stop", "joinMatch"}
    BY <1>10 DEF Stop, JoinMatch
  <2>2. main'.at \in {"joinMatch", "joinIP"}
    BY <1>1, <1>10, MainFields DEF Stop, JoinMatch, Go
  <2> QED
    BY <1>2, <1>3, <1>4, <2>1, <2>2 DEF HandlerInSync, Busy, Configuring, Stopping
<1> QED
  BY <1>6, <1>7, <1>8, <1>9, <1>10

(* updateOrAdd returns.                                                     *)
LEMMA ServedConfigured ==
    ASSUME IInv, UIDsApart, ServedInSync, Configured
    PROVE  ServedInSync'
<1> DEFINE r == inst[main.on]
<1>1. /\ main.at = "dns" /\ main.on \in pools /\ pools \subseteq Instances /\ DOMAIN inst = Instances
      /\ DOMAIN r = DOMAIN Fresh
  BY DEF IInv, HandlerSound, Configured
<1>2. /\ UNCHANGED <<spec, uid, pools>> /\ \A y \in Instances : y # main.on => inst'[y] = inst[y]
      /\ inst'[main.on].uid = r.uid /\ inst'[main.on].match = r.match /\ inst'[main.on].criteria = r.criteria
  BY HandlerChanges DEF apiVars
<1>3. /\ inst'[main.on].provider = r.provider /\ inst'[main.on].region = r.region
      /\ inst'[main.on].dns = main.spec.dns
      /\ inst'[main.on].stopMatch = r.stopMatch /\ inst'[main.on].stopIP = r.stopIP
  BY <1>1, Fields DEF Configured, Set
<1>4. inst'[main.on].ip = IF main.change THEN "running" ELSE r.ip
  BY <1>1, Fields DEF Configured, Set
<1>5. /\ main.pool \in Pools /\ main.uid = uid[main.pool] /\ main.spec # NoSpec /\ r.uid = main.uid
      /\ validate(main.spec) /\ r.criteria = main.spec.criteria /\ MatchUp(r)
      /\ Provides(r, main.spec) /\ r.stopIP = FALSE /\ (main.change = TRUE \/ r.ip = "running")
  BY <1>1 DEF ServedInSync, HandlerInSync, Busy, Configuring, Stopping
<1>6. inst'[main.on].ip = "running"
  BY <1>4, <1>5
<1>7. main'.at = "idle" /\ handled' = [handled EXCEPT ![main.pool] = <<main.spec, main.uid>>]
  BY <1>5 DEF Configured, Return, Idle
<1> PICK p \in Pools : p = main.pool
  BY <1>5
<1> PICK x \in pools : x = main.on
  BY <1>1
<1>8. Up(inst'[x])
  BY <1>2, <1>3, <1>5, <1>6 DEF Up, MatchUp
<1>9. Follows(inst'[x], main.spec)
  BY <1>2, <1>3, <1>5, <1>6, ValidProvider DEF Follows, Provides, MatchUp
<1>10. OneEach'
  BY <1>1, <1>2 DEF ServedInSync, OneEach
<1>11. \A y \in pools' : Up(inst'[y])
  BY <1>1, <1>2, <1>8 DEF ServedInSync
<1>12. HandlerInSync' /\ ~Busy'
  BY <1>7 DEF HandlerInSync, Busy, Configuring, Stopping
<1>13. Known(p)' = {x}
  BY <1>1, <1>2, <1>5 DEF Known, ServedInSync, OneEach
<1>14. \A s : s = main.spec => Served(p, s)'
  BY <1>2, <1>5, <1>9, <1>13 DEF Served
<1>15. ASSUME NEW q \in Pools, q # p, NEW s, Served(q, s) PROVE Served(q, s)'
  <2>1. uid[q] # main.uid
    BY <1>5, <1>15 DEF UIDsApart
  <2>2. Known(q)' = Known(q) /\ main.on \notin Known(q)
    BY <1>1, <1>2, <1>5, <2>1 DEF Known
  <2>3. \A y \in Known(q) : y \in pools' /\ inst'[y] = inst[y]
    BY <1>1, <1>2, <2>2 DEF Known
  <2> QED
    BY <1>2, <1>15, <2>2, <2>3, ServedFrame
<1>16. ASSUME NEW q \in Pools, NEW s, s = handled'[q][1],
              spec[q] # NoSpec, s # NoSpec, handled'[q][2] = uid[q]
       PROVE  Served(q, s)'
  <2>1. CASE q = p
    <3>1. s = main.spec
      BY <1>7, <1>16, <2>1 DEF UIDsApart
    <3> QED
      BY <1>14, <2>1, <3>1
  <2>2. CASE q # p
    <3>1. handled'[q] = handled[q]
      BY <1>7, <2>2 DEF UIDsApart
    <3>2. Served(q, s)
      BY <1>16, <2>2, <3>1 DEF ServedInSync
    <3> QED
      BY <1>15, <2>2, <3>2
  <2> QED
    BY <2>1, <2>2
<1> QED
  BY <1>2, <1>10, <1>11, <1>12, <1>16 DEF ServedInSync

(* The goroutines run on.                                                   *)
LEMMA ServedGoroutines ==
    ASSUME IInv, UIDsApart, ServedInSync, ~down, NEW x \in Instances, Goroutines(x) \/ GetNodeFromPools(x)
    PROVE  ServedInSync'
<1>1. UNCHANGED <<spec, uid, handled, pools, main>> /\ pools \subseteq Instances
  BY GoroutineChanges DEF apiVars, IInv
<1>2. \A y \in Instances :
        /\ inst'[y].uid = inst[y].uid /\ inst'[y].criteria = inst[y].criteria
        /\ inst'[y].provider = inst[y].provider /\ inst'[y].region = inst[y].region
        /\ inst'[y].dns = inst[y].dns
        /\ inst'[y].stopMatch = inst[y].stopMatch /\ inst'[y].stopIP = inst[y].stopIP
  BY GoroutineChanges
<1>3. \A y \in Instances :
        /\ inst[y].stopMatch = FALSE => inst'[y].match = inst[y].match \/ inst'[y].match \in {"syncing", "live"}
        /\ inst[y].stopIP = FALSE => inst'[y].ip = inst[y].ip
  BY GoroutineChanges
<1>4. \A y \in Instances : (MatchUp(inst[y]) => MatchUp(inst'[y])) /\ (Up(inst[y]) => Up(inst'[y]))
  BY <1>2, <1>3 DEF MatchUp, Up
<1>5. OneEach'
  BY <1>1, <1>2 DEF ServedInSync, OneEach
<1>6. main.at \in Configuring \cup Stopping => main.on \in Instances
  BY <1>1 DEF IInv, HandlerSound, Configuring, Stopping
<1>7. \A p \in Pools : Known(p)' = Known(p)
  BY <1>1, <1>2 DEF Known
<1>8. HandlerInSync'
  <2>1. main.at = "add" => (Known(main.pool) = {})'
    BY <1>1, <1>2 DEF ServedInSync, HandlerInSync, Known
  <2> QED
    BY <1>1, <1>2, <1>3, <1>4, <1>6, <2>1 DEF ServedInSync, HandlerInSync, Provides, Configuring, Stopping, Busy
<1>9. \A y \in pools' : (main'.at \in Configuring \cup Stopping /\ main'.on = y) \/ Up(inst'[y])
  BY <1>1, <1>4 DEF ServedInSync
<1>10. ASSUME NEW p \in Pools, ~(Busy /\ main.pool = p), NEW s, Served(p, s) PROVE Served(p, s)'
  <2>1. \A y \in Known(p) : y \in Instances /\ Up(inst[y])
    <3>1. \A y \in Known(p) : main.at \in Configuring \cup Stopping => main.on # y
      BY <1>10 DEF ServedInSync, HandlerInSync, Busy, Known, UIDsApart, Configuring, Stopping
    <3> QED
      BY <1>1, <3>1 DEF Known, ServedInSync
  <2>2. \A y \in Known(p) : y \in pools' /\ (Follows(inst[y], s) => Follows(inst'[y], s))
    BY <1>1, <1>2, <1>3, <2>1 DEF Follows, Up, MatchUp, Known
  <2> QED
    BY <1>1, <1>7, <1>10, <2>2, ServedFrame
<1> QED
  BY <1>1, <1>5, <1>8, <1>9, <1>10 DEF ServedInSync, Busy

(* Users.                                                                   *)
LEMMA ServedUsers ==
    ASSUME IInv, UIDsApart, ServedInSync, "missed" \notin events, Users
    PROVE  ServedInSync'
<1>1. UserEffect
  BY UserChanges
<1>2. UNCHANGED <<handled, pools, inst, main>>
  BY <1>1 DEF UserEffect
<1>3. CASE UNCHANGED uid /\ \A p \in Pools : spec'[p] # NoSpec => spec[p] # NoSpec
  <2>1. OneEach' /\ \A p \in Pools : \A s : Served(p, s)' <=> Served(p, s)
    BY <1>2, <1>3 DEF ServedInSync, OneEach, Served, Known
  <2>2. HandlerInSync'
    BY <1>2, <1>3 DEF ServedInSync, HandlerInSync, Busy, Known
  <2> QED
    BY <1>2, <1>3, <2>1, <2>2 DEF ServedInSync, Busy
<1>4. CASE ~(UNCHANGED uid /\ \A p \in Pools : spec'[p] # NoSpec => spec[p] # NoSpec)
  <2>1. PICK p \in Pools :
          /\ uid' = [uid EXCEPT ![p] = nextUID] /\ \A q \in Pools : q # p => spec'[q] = spec[q]
          /\ Known(p) = {} /\ main.pool # p
    BY <1>1, <1>4 DEF UserEffect
  <2>2. uid'[p] = nextUID /\ \A q \in Pools : q # p => uid'[q] = uid[q]
    BY <2>1 DEF UIDsApart
  <2>3. \A q \in Pools : q # p => Known(q)' = Known(q) /\ \A s : Served(q, s)' <=> Served(q, s)
    BY <1>2, <2>2 DEF Served, Known
  <2>4. OneEach'
    BY <1>2, <2>1, <2>2 DEF ServedInSync, OneEach, Known
  <2>5. HandlerInSync'
    <3>1. main.at = "add" => main.pool \in Pools /\ (Known(main.pool) = {})'
      BY <1>2, <2>1, <2>2 DEF ServedInSync, HandlerInSync, Known, Busy
    <3> QED
      BY <1>2, <2>1, <2>2, <3>1 DEF ServedInSync, HandlerInSync, Busy
  <2> QED
    BY <1>2, <2>1, <2>2, <2>3, <2>4, <2>5 DEF ServedInSync, Busy, UIDsApart
<1> QED
  BY <1>3, <1>4

(* Every step, until the context is cancelled.                              *)
LEMMA ServedNext ==
    ASSUME IInv, UIDsApart, ServedInSync, [Next]_vars, "missed" \notin events, ~down
    PROVE  ServedInSync'
<1>1. CASE (\E x \in Instances : RunStops(x)) \/ RunReturns
  BY <1>1 DEF RunStops, RunReturns
<1>2. CASE Restart
  <2>1. main'.at = "idle" /\ pools' = {} /\ \A p \in Pools : handled'[p][1] = NoSpec
    BY <1>2 DEF Restart, Idle
  <2> QED
    BY <2>1 DEF ServedInSync, OneEach, HandlerInSync, Busy, Configuring, Stopping
<1>3. CASE UNCHANGED vars
  <2>1. UNCHANGED <<spec, uid, handled, pools, inst, main>>
    BY <1>3 DEF vars, apiVars
  <2>2. OneEach' /\ \A p \in Pools : \A s : Served(p, s)' <=> Served(p, s)
    BY <2>1 DEF ServedInSync, OneEach, Served, Known
  <2>3. HandlerInSync'
    BY <2>1 DEF ServedInSync, HandlerInSync, Busy, Known
  <2> QED
    BY <2>1, <2>2, <2>3 DEF ServedInSync, Busy
<1>4. CASE Users
  BY <1>4, ServedUsers
<1> QED
  BY <1>1, <1>2, <1>3, <1>4, ServedBegin, ServedAdd, ServedJoin, ServedHandler, ServedConfigured, ServedGoroutines
     DEF Next, Main

(* Whatever is edited, deleted, created again, crashed or started, for any  *)
(* number of pools: when updateOrAdd and OnDelete have seen the resources   *)
(* as they are, every valid FloatingIPPool is served by exactly one         *)
(* instance, which runs with the criteria, provider, region and record set  *)
(* of its spec, and every invalid one by none.                              *)
THEOREM EachPoolServed == Spec => []Serves
<1> DEFINE J == UIDsApart /\ ("missed" \notin events /\ ~down => ServedInSync)
<1>1. Init => IInv /\ J
  <2>1. Init => ServedInSync
    <3>1. Init => main.at = "idle" /\ pools = {} /\ \A p \in Pools : handled[p][1] = NoSpec
      BY DEF Init, Idle
    <3> QED
      BY <3>1 DEF ServedInSync, OneEach, HandlerInSync, Busy, Configuring, Stopping
  <2> QED
    BY <2>1, InitIInv, UIDsInit
<1>2. IInv /\ J /\ [Next]_vars => IInv' /\ J'
  BY NextIInv, UIDsNext, ServedNext, EventsKept
<1>3. J => Serves
  <2> SUFFICES ASSUME J, Settled, "missed" \notin events, NEW p \in Pools, spec[p] # NoSpec
               PROVE  IF validate(spec[p])
                      THEN Cardinality(Known(p)) = 1 /\ \A x \in Known(p) : Follows(inst[x], spec[p])
                      ELSE Known(p) = {}
    BY DEF Serves
  <2>1. ServedInSync /\ ~Busy /\ handled[p] = <<spec[p], uid[p]>>
    BY DEF Settled, Busy
  <2>2. handled[p][1] = spec[p] /\ handled[p][2] = uid[p]
    BY <2>1
  <2>3. Served(p, spec[p])
    BY <2>1, <2>2 DEF ServedInSync
  <2> QED
    BY <2>3, FS_Singleton DEF Served
<1> HIDE DEF J
<1> QED
  BY <1>1, <1>2, <1>3, PTL DEF Spec
=============================================================================
