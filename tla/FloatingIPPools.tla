--------------------------- MODULE FloatingIPPools ---------------------------
(***************************************************************************)
(* The FloatingIPPool controller (floatingippool_controller.go) with       *)
(* several pools.  The main goroutine (the informer's handlers, then the   *)
(* end of Run) creates, reconfigures and stops the pools; each has a match *)
(* controller and an ipController with a goroutine of their own.  What     *)
(* these two do with nodes and IPs is in NodeMatch and IPController; here  *)
(* they only hold the ipController's lock while they annotate a node, for  *)
(* which they go through the pools of the controller.                      *)
(***************************************************************************)
EXTENDS Naturals, FiniteSets

CONSTANTS
    Pools,              \* the names of FloatingIPPools
    Instances,          \* floatingIPPool values
    Specs, FirstSpecs,  \* the specs users write, and those found at the start
    NoSpec,             \* the resource does not exist
    NoInstance,
    Edited,             \* the pools that users change
    Registered,         \* the providers with credentials
    MaxUID,             \* how many resources there may come to be
    Scenarios,          \* the sets of things that may happen together ...
    MaxEvents           \* ... and how many of them do

\* "edit", "region", "dns": what a user changes; "missed": the informer does
\* not see a deletion; "early": the match controller is done before
\* updateOrAdd is; "down": the context is cancelled.
AllEvents == {"edit", "region", "dns", "delete", "create", "missed", "early", "down"}

ASSUME ConstantsAssumption ==
    /\ IsFiniteSet(Pools) /\ Edited \subseteq Pools
    /\ NoSpec \notin Specs /\ FirstSpecs \subseteq Specs \cup {NoSpec} /\ NoInstance \notin Instances
    /\ Registered \subseteq {"digitalocean", "cloudflare"} /\ Registered # {}
    /\ MaxUID \in Nat /\ Scenarios \subseteq SUBSET AllEvents /\ MaxEvents \in Nat

VARIABLES
    spec, uid,   \* the resources in the API server
    nextUID,
    handled,     \* the resource each handler call was last about
    pools,       \* c.pools: the instances in the map
    inst,        \* every instance: its configuration and its two goroutines
    main,        \* the main goroutine
    down,        \* the context of Run is cancelled
    crashed,     \* what the process died of
    events, budget

apiVars == <<spec, uid, nextUID>>
vars == <<apiVars, handled, pools, inst, main, down, crashed, events, budget>>

\* match and ip: where the goroutines of the match controller ("starting":
\* nodeLister is nil) and of the ipController are; knows: the ipController has
\* the nodes; lock: who holds i.lock and is in getNodeFromPools.
Fresh ==
    [uid |-> 0, criteria |-> "none", provider |-> "nil", region |-> "none", dns |-> "none",
     dnsProvider |-> "nil", match |-> "none", ip |-> "none", stopMatch |-> FALSE, stopIP |-> FALSE,
     knows |-> FALSE, lock |-> "free"]

\* main.change: what updateProviders returned.
Idle == [at |-> "idle", on |-> NoInstance, pool |-> "none", uid |-> 0, spec |-> NoSpec, change |-> FALSE]

Event(e) == e \in events /\ budget > 0 /\ budget' = budget - 1
NoEvent == budget' = budget
Alive == crashed = "none"

Init ==
    /\ spec \in [Pools -> FirstSpecs]
    /\ uid = (CHOOSE f \in [Pools -> 1 .. Cardinality(Pools)] : \A p, q \in Pools : f[p] = f[q] => p = q)
    /\ nextUID = Cardinality(Pools) + 1
    /\ handled = [p \in Pools |-> <<NoSpec, 0>>]
    /\ pools = {} /\ inst = [x \in Instances |-> Fresh] /\ main = Idle
    /\ down = FALSE /\ crashed = "none"
    /\ events \in Scenarios /\ budget = MaxEvents

Set(x, r) == inst' = [inst EXCEPT ![x] = r]
Go(at) == main' = [main EXCEPT !.at = at]
Known(p) == {x \in pools : inst[x].uid = uid[p]}
MatchEnded(r) == r.match \in {"none", "gone"}
IPEnded(r) == r.ip \in {"none", "gone"}

\* c.pools is written while another goroutine iterates over it: a fatal error
\* if the runtime notices.
MapWritten ==
    \/ crashed' = crashed
    \/ (\E x \in Instances : inst[x].lock # "free") /\ crashed' = "map"
-----------------------------------------------------------------------------
(* Registry.Get and validate.  The status that validate writes with every   *)
(* error it finds is left out: nothing here reads it.                       *)
Get(name) == IF name \in Registered THEN name ELSE "nil"
IsIPProvider(p) == p = "digitalocean"
IsDNSProvider(p) == p \in {"digitalocean", "cloudflare"}

validate(s) ==
    /\ IsIPProvider(Get(s.provider))
    /\ s.ips                      \* ips or desiredIPs
    /\ s.criteria # "invalid"     \* ValidateMatch
    /\ s.dns # "none" =>
         IsDNSProvider(IF Get(s.dns) = "nil" THEN Get(s.provider) ELSE Get(s.dns))

\* dnsProv of updateOrAdd; "default": spec.dnsRecordSet.provider is empty.
DNSProviderOf(s) == IF s.dns \in {"none", "default"} THEN Get(s.provider) ELSE Get(s.dns)
-----------------------------------------------------------------------------
(* OnAdd and OnUpdate: updateOrAdd.  The informer repeats every object.     *)
Begin(at, x, p) ==
    main' = [at |-> at, on |-> x, pool |-> p, uid |-> uid[p], spec |-> spec[p], change |-> FALSE]

\* Mutant: only a change of the criteria stops an invalid pool.
MustStopByCriteria(r, s) == r.criteria # s.criteria

\* The pool is stopped: "match criteria changed, resetting", or "updated
\* FloatingIPPool spec is invalid".
MustStop(r, s) == r.criteria # s.criteria \/ ~validate(s)

updateOrAdd(p) ==
    /\ main.at = "idle" /\ ~down /\ Alive /\ spec[p] # NoSpec
    /\ IF Known(p) = {}
       THEN IF validate(spec[p])
            THEN Begin("add", NoInstance, p) /\ UNCHANGED handled
            ELSE main' = Idle /\ handled' = [handled EXCEPT ![p] = <<spec[p], uid[p]>>]
       ELSE /\ \E x \in Known(p) : Begin(IF MustStop(inst[x], spec[p]) THEN "stop" ELSE "providers", x, p)
            /\ UNCHANGED handled
    /\ NoEvent
    /\ UNCHANGED <<apiVars, pools, inst, down, crashed, events>>

\* The handler is done with main.spec.
Return ==
    /\ main' = Idle
    /\ handled' = IF main.spec = NoSpec THEN handled
                  ELSE [handled EXCEPT ![main.pool] = <<main.spec, main.uid>>]

\* The new pool's match controller starts before the pool has a provider.
AddPool ==
    LET x == CHOOSE x \in Instances : inst[x] = Fresh IN
    /\ main.at = "add" /\ Alive
    /\ \E y \in Instances : inst[y] = Fresh
    /\ Set(x, [Fresh EXCEPT !.uid = main.uid, !.criteria = main.spec.criteria, !.match = "starting"])
    /\ pools' = pools \cup {x} /\ MapWritten
    /\ main' = [main EXCEPT !.at = "providers", !.on = x]
    /\ NoEvent
    /\ UNCHANGED <<apiVars, handled, down, events>>

\* Mutant: every update is taken for a change.
NewProviderAlways == TRUE

\* updateProviders: stop(), reset() without the lock, the new provider.
NewProvider == inst[main.on].provider # Get(main.spec.provider) \/ inst[main.on].region # main.spec.region

SameProviders ==
    /\ main.at = "providers" /\ Alive /\ ~NewProvider
    /\ Go("ips")
    /\ NoEvent
    /\ UNCHANGED <<apiVars, handled, pools, inst, down, crashed, events>>

StopForProviders ==
    /\ main.at = "providers" /\ Alive /\ NewProvider
    /\ Set(main.on, [inst[main.on] EXCEPT !.stopIP = TRUE])
    /\ Go("reset")
    /\ NoEvent
    /\ UNCHANGED <<apiVars, handled, pools, down, crashed, events>>

Reset ==
    /\ main.at = "reset" /\ Alive /\ IPEnded(inst[main.on])
    /\ Set(main.on, [inst[main.on] EXCEPT !.stopIP = FALSE, !.ip = "none", !.knows = FALSE,
                        !.provider = Get(main.spec.provider), !.region = main.spec.region,
                        !.dnsProvider = DNSProviderOf(main.spec)])
    /\ main' = [main EXCEPT !.at = "ips", !.change = TRUE]
    /\ NoEvent
    /\ UNCHANGED <<apiVars, handled, pools, down, crashed, events>>

\* updateIPs, which annotates a node when it takes its IP off the list.
UpdateIPs ==
    /\ main.at = "ips" /\ Alive /\ inst[main.on].lock = "free"
    /\ \/ Go("dns") /\ UNCHANGED inst
       \/ /\ inst[main.on].knows
          /\ Go("annotate") /\ Set(main.on, [inst[main.on] EXCEPT !.lock = "main"])
    /\ NoEvent
    /\ UNCHANGED <<apiVars, handled, pools, down, crashed, events>>

Annotated ==
    /\ main.at = "annotate" /\ Alive /\ inst[main.on].lock = "free"
    /\ Go("dns")
    /\ NoEvent
    /\ UNCHANGED <<apiVars, handled, pools, inst, down, crashed, events>>

\* updateDNSSpec, and start() after a change.
Configured ==
    /\ main.at = "dns" /\ Alive /\ inst[main.on].lock = "free"
    /\ Set(main.on, [inst[main.on] EXCEPT !.dns = main.spec.dns,
                                          !.ip = IF main.change THEN "running" ELSE @])
    /\ Return
    /\ NoEvent
    /\ UNCHANGED <<apiVars, pools, down, crashed, events>>
-----------------------------------------------------------------------------
(* Stopping a pool: updateOrAdd, OnDelete, and the end of Run.              *)
\* Mutant: the match controller's goroutine is not waited for.
StopMatchOnly ==
    /\ main.at = "stop" /\ Alive
    /\ Set(main.on, [inst[main.on] EXCEPT !.stopMatch = TRUE, !.stopIP = TRUE])
    /\ Go("joinIP")
    /\ NoEvent
    /\ UNCHANGED <<apiVars, handled, pools, down, crashed, events>>

Stop ==
    /\ main.at = "stop" /\ Alive
    /\ Set(main.on, [inst[main.on] EXCEPT !.stopMatch = TRUE])
    /\ Go("joinMatch")
    /\ NoEvent
    /\ UNCHANGED <<apiVars, handled, pools, down, crashed, events>>

JoinMatch ==
    /\ main.at = "joinMatch" /\ Alive /\ MatchEnded(inst[main.on])
    /\ Set(main.on, [inst[main.on] EXCEPT !.stopIP = TRUE])
    /\ Go("joinIP")
    /\ NoEvent
    /\ UNCHANGED <<apiVars, handled, pools, down, crashed, events>>

\* delete(c.pools, uid); new criteria begin a new pool.
JoinIP ==
    /\ main.at = "joinIP" /\ Alive /\ IPEnded(inst[main.on])
    /\ pools' = pools \ {main.on} /\ MapWritten
    /\ Set(main.on, IF MatchEnded(inst[main.on]) THEN Fresh ELSE [inst[main.on] EXCEPT !.ip = "gone"])
    /\ IF main.spec # NoSpec /\ validate(main.spec)
       THEN main' = [main EXCEPT !.at = "add", !.on = NoInstance] /\ UNCHANGED handled
       ELSE Return
    /\ NoEvent
    /\ UNCHANGED <<apiVars, down, events>>

OnDelete(p) ==
    /\ main.at = "idle" /\ ~down /\ Alive /\ spec[p] = NoSpec
    /\ \E x \in Known(p) : Begin("stop", x, p)
    /\ NoEvent
    /\ UNCHANGED <<apiVars, handled, pools, inst, down, crashed, events>>

\* What the informer hands over for a deletion it did not see is no
\* FloatingIPPool: OnDelete warns, and then dereferences nil.
OnDeleteUnknown(p) ==
    /\ main.at = "idle" /\ ~down /\ Alive /\ spec[p] = NoSpec /\ Known(p) # {} /\ Event("missed")
    /\ crashed' = "tombstone"
    /\ UNCHANGED <<apiVars, handled, pools, inst, main, down, events>>

\* "FloatingIPPool controller shutting down"
RunStops(x) ==
    /\ main.at = "idle" /\ down /\ Alive /\ x \in pools
    /\ main' = [Idle EXCEPT !.at = "stop", !.on = x]
    /\ NoEvent
    /\ UNCHANGED <<apiVars, handled, pools, inst, down, crashed, events>>

RunReturns ==
    /\ main.at = "idle" /\ down /\ Alive /\ pools = {}
    /\ main' = [Idle EXCEPT !.at = "returned"]
    /\ NoEvent
    /\ UNCHANGED <<apiVars, handled, pools, inst, down, crashed, events>>
-----------------------------------------------------------------------------
(* The goroutines of an instance.                                           *)
ListerSet(x) ==
    /\ inst[x].match = "starting" /\ Alive
    /\ Set(x, [inst[x] EXCEPT !.match = "syncing"])
    /\ NoEvent
    /\ UNCHANGED <<apiVars, handled, pools, main, down, crashed, events>>

\* EnableNodes, in bulk or for a change; also if Stop() came after the sync.
EnableNodes(x) ==
    /\ inst[x].lock = "free" /\ Alive
    /\ inst[x].match = "syncing" \/ (inst[x].match = "live" /\ ~(inst[x].stopMatch \/ down))
    /\ main.on = x /\ main.at \in {"providers", "reset", "ips"} => "early" \in events
    /\ Set(x, [inst[x] EXCEPT !.match = "live", !.knows = TRUE, !.lock = "match"])
    /\ NoEvent
    /\ UNCHANGED <<apiVars, handled, pools, main, down, crashed, events>>

MatchEnds(x) ==
    /\ inst[x].match \in {"syncing", "live"} /\ inst[x].lock # "match" /\ Alive
    /\ inst[x].stopMatch \/ down
    /\ Set(x, [inst[x] EXCEPT !.match = "gone"])
    /\ NoEvent
    /\ UNCHANGED <<apiVars, handled, pools, main, down, crashed, events>>

\* A pass that finds or makes an assignment.
Reconcile(x) ==
    /\ inst[x].ip = "running" /\ inst[x].knows /\ inst[x].lock = "free" /\ Alive
    /\ ~(inst[x].stopIP \/ down)
    /\ Set(x, [inst[x] EXCEPT !.lock = "ip"])
    /\ NoEvent
    /\ UNCHANGED <<apiVars, handled, pools, main, down, crashed, events>>

IPEnds(x) ==
    /\ inst[x].ip = "running" /\ inst[x].lock # "ip" /\ Alive
    /\ inst[x].stopIP \/ down
    /\ Set(x, [inst[x] EXCEPT !.ip = "gone"])
    /\ NoEvent
    /\ UNCHANGED <<apiVars, handled, pools, main, down, crashed, events>>

\* Mutant: getNodeFromPools takes poolLock, which every handler holds.
GetNodeFromPoolsLocked(x) ==
    /\ inst[x].lock # "free" /\ Alive /\ main.at \in {"idle", "returned"}
    /\ Set(x, [inst[x] EXCEPT !.lock = "free"])
    /\ NoEvent
    /\ UNCHANGED <<apiVars, handled, pools, main, down, crashed, events>>

\* The end of getNodeFromPools: it asks the match controllers, in any order,
\* until one knows the node.  One that has no lister yet panics.
GetNodeFromPools(x) ==
    /\ inst[x].lock # "free" /\ Alive
    /\ \/ Set(x, [inst[x] EXCEPT !.lock = "free"]) /\ UNCHANGED crashed
       \/ (\E y \in pools : inst[y].match = "starting") /\ crashed' = "lister" /\ UNCHANGED inst
    /\ NoEvent
    /\ UNCHANGED <<apiVars, handled, pools, main, down, events>>
-----------------------------------------------------------------------------
(* Users and the process.                                                   *)
Kind(s, t) ==
    IF s.provider # t.provider \/ s.region # t.region THEN "region"
    ELSE IF s.criteria # t.criteria \/ s.ips # t.ips THEN "edit" ELSE "dns"

Edit(p, s) ==
    /\ spec[p] \notin {NoSpec, s} /\ Event(Kind(spec[p], s))
    /\ spec' = [spec EXCEPT ![p] = s]
    /\ UNCHANGED <<uid, nextUID, handled, pools, inst, main, down, crashed, events>>

Remove(p) ==
    /\ spec[p] # NoSpec /\ Event("delete")
    /\ spec' = [spec EXCEPT ![p] = NoSpec]
    /\ UNCHANGED <<uid, nextUID, handled, pools, inst, main, down, crashed, events>>

Create(p, s) ==
    /\ spec[p] = NoSpec /\ nextUID <= MaxUID
    /\ Event(IF Known(p) = {} /\ main.pool # p THEN "create" ELSE "missed")
    /\ spec' = [spec EXCEPT ![p] = s] /\ uid' = [uid EXCEPT ![p] = nextUID] /\ nextUID' = nextUID + 1
    /\ UNCHANGED <<handled, pools, inst, main, down, crashed, events>>

Shutdown ==
    /\ ~down /\ Event("down")
    /\ down' = TRUE
    /\ UNCHANGED <<apiVars, handled, pools, inst, main, crashed, events>>

Restart ==
    /\ ~Alive /\ ~down
    /\ handled' = [p \in Pools |-> <<NoSpec, 0>>]
    /\ pools' = {} /\ inst' = [x \in Instances |-> Fresh] /\ main' = Idle /\ crashed' = "none"
    /\ NoEvent
    /\ UNCHANGED <<apiVars, down, events>>

Main ==
    \/ (\E p \in Pools : updateOrAdd(p) \/ OnDelete(p))
    \/ (\E x \in Instances : RunStops(x))
    \/ AddPool \/ SameProviders \/ StopForProviders \/ Reset \/ UpdateIPs \/ Annotated \/ Configured
    \/ Stop \/ JoinMatch \/ JoinIP \/ RunReturns
Goroutines(x) ==
    ListerSet(x) \/ EnableNodes(x) \/ MatchEnds(x) \/ Reconcile(x) \/ IPEnds(x)
Users ==
    \/ \E p \in Edited : Remove(p) \/ OnDeleteUnknown(p) \/ \E s \in Specs : Edit(p, s) \/ Create(p, s)
    \/ Shutdown

Next == Main \/ (\E x \in Instances : Goroutines(x) \/ GetNodeFromPools(x)) \/ Users \/ Restart

Spec == Init /\ [][Next]_vars

\* Goroutines run on, and a mutex passes to one that waits long enough.
FairSpec ==
    /\ Spec /\ WF_vars(Main) /\ SF_vars(UpdateIPs \/ Annotated \/ Configured) /\ WF_vars(Restart)
    /\ \A x \in Instances :
         /\ WF_vars(GetNodeFromPools(x)) /\ WF_vars(ListerSet(x))
         /\ WF_vars(MatchEnds(x)) /\ WF_vars(IPEnds(x))
-----------------------------------------------------------------------------
TypeOK ==
    /\ spec \in [Pools -> Specs \cup {NoSpec}] /\ uid \in [Pools -> 1 .. MaxUID] /\ pools \subseteq Instances
    /\ \A x \in Instances :
         /\ inst[x].match \in {"none", "starting", "syncing", "live", "gone"}
         /\ inst[x].ip \in {"none", "running", "gone"} /\ inst[x].lock \in {"free", "ip", "match", "main"}
    /\ main.at \in {"idle", "add", "providers", "reset", "ips", "annotate", "dns", "stop",
                    "joinMatch", "joinIP", "returned"}
    /\ main.on \in Instances \cup {NoInstance}
    /\ crashed \in {"none", "map", "lister", "tombstone"} /\ budget \in 0 .. MaxEvents

Running(x) == ~MatchEnded(inst[x]) \/ ~IPEnded(inst[x])

(* No goroutine of a pool goes on unsupervised: whatever is edited, deleted *)
(* or shut down, it belongs to a pool in c.pools, until Stop() and stop()   *)
(* have waited for it; once Run has returned there is none.                 *)
NoOrphans ==
    /\ \A x \in Instances : Running(x) => x \in pools
    /\ main.at = "returned" => pools = {}

\* The rest of the inductive invariant: the handler works on an instance that
\* is in the map, and before it takes it out of the map it has waited for
\* both goroutines.
HandlerSound ==
    /\ main.at \in {"providers", "reset", "ips", "annotate", "dns", "stop", "joinMatch", "joinIP"} =>
         main.on \in pools
    /\ main.at = "joinIP" => MatchEnded(inst[main.on])
    /\ main.at = "returned" => pools = {} /\ down

IInv ==
    /\ pools \subseteq Instances
    /\ DOMAIN inst = Instances /\ \A x \in Instances : DOMAIN inst[x] = DOMAIN Fresh
    /\ DOMAIN main = DOMAIN Idle
    /\ NoOrphans /\ HandlerSound

\* The controller has seen the resources as they are, and is not busy.
Settled == main.at = "idle" /\ Alive /\ ~down /\ \A p \in Pools : spec[p] # NoSpec => handled[p] = <<spec[p], uid[p]>>

Follows(r, s) ==
    /\ r.criteria = s.criteria /\ r.provider = s.provider /\ r.region = s.region /\ r.dns = s.dns
    /\ r.ip = "running" /\ r.match # "gone"

(* Between handlers every valid pool is served by exactly one instance,     *)
(* which runs with the criteria, provider and region of the resource, and   *)
(* an invalid one by none, after any sequence of edits, deletions and       *)
(* re-creations that the informer sees.                                     *)
Serves ==
    Settled /\ "missed" \notin events =>
        \A p \in Pools : spec[p] # NoSpec =>
            IF validate(spec[p])
            THEN Cardinality(Known(p)) = 1 /\ \A x \in Known(p) : Follows(inst[x], spec[p])
            ELSE Known(p) = {}

(* The nodes that the match controller has enabled stay known to the        *)
(* ipController, unless the provider or region of a running pool changes or *)
(* the match controller is done before updateProviders resets the maps.     *)
NodesKept ==
    events \cap {"region", "early"} = {} =>
        \A x \in pools : Settled /\ inst[x].match = "live" => inst[x].knows

(* Every handler and the shutdown end: no goroutine that the controller     *)
(* waits for waits for the controller.                                      *)
Finishes ==
    /\ (main.at # "idle") ~> (main.at \in {"idle", "returned"} \/ ~Alive)
    /\ down ~> (main.at = "returned" \/ ~Alive)
-----------------------------------------------------------------------------
(* What does not hold.                                                      *)

\* The process survives what its goroutines do to each other.
NoRaces == crashed \notin {"map", "lister"}

\* The process survives a deletion that its informer missed.
NoTombstone == crashed # "tombstone"

\* A pool that passed validate has a provider for its record set.
HasDNSProvider ==
    \A x \in pools : Settled /\ inst[x].dns # "none" => inst[x].dnsProvider # "nil"

\* The record set is written where the spec says.
DNSProviderCurrent ==
    \A p \in Pools : \A x \in Known(p) :
        Settled /\ spec[p].dns \in Registered => inst[x].dnsProvider = spec[p].dns

\* A resource is served by one instance at a time, also across its deletion.
OneInstance == Settled => Cardinality(pools) <= Cardinality(Pools)

\* The nodes are never forgotten.
NodesAlwaysKept == \A x \in pools : Settled /\ inst[x].match = "live" => inst[x].knows
=============================================================================
