------------------------------- MODULE NodeDNS -------------------------------
(***************************************************************************)
(* The NodeDNSRecordSet controller (nodedns/controller.go).  A resource is *)
(* served by a child, a dnsEnablerDisabler, which keeps the matching nodes *)
(* its match controller tells it and writes their addresses to DNS.  Three *)
(* kinds of goroutine work on a child, serialised by its lock: the main    *)
(* one (informer handlers and shutdown), that of the match controller, and *)
(* those of the retry timers.  The main one keeps the lock while it waits  *)
(* for the match controller's to end.                                      *)
(*                                                                         *)
(* The match controller is the promise checked in NodeMatch: one bulk call *)
(* with the nodes that match, then a call for every change.  A DNS update  *)
(* is the promise checked in DNSRecordSet.                                 *)
(***************************************************************************)
EXTENDS Naturals, FiniteSets

CONSTANTS
    Nodes,
    Criteria, Selects,  \* match criteria, and the nodes each selects
    Zones,              \* provider, zone, name and TTL of a record set
    Types, Addresses,   \* address types, and the pairs <<node, type>> that exist
    Specs, FirstSpecs,  \* the specs users write, and the one found at the start
    NoSpec,             \* the resource does not exist
    Children,           \* 1 .. N, the children that may come to exist
    MaxUID,             \* how often the resource may be created
    FastLen,            \* length of the retry schedule
    Scenarios,          \* the sets of things that may go wrong together ...
    MaxEvents           \* ... and how many of them do

\* "busy": a match controller is told to stop during a call to the child;
\* "early": it disables a node before it has seen them all; the informer misses
\* a deletion, and sees the next resource of the same name ("missed") or tells
\* OnDelete about it with a tombstone ("tombstone").
AllEvents == {"flip", "edit", "address", "invalid", "delete", "create", "missed", "tombstone", "dns",
              "status", "busy", "early", "down"}

ASSUME ConstantsAssumption ==
    /\ Selects \in [Criteria -> SUBSET Nodes]
    /\ Addresses \subseteq Nodes \X Types
    /\ Specs \subseteq [match : Criteria, dns : Zones, addr : Types, valid : BOOLEAN]
    /\ FirstSpecs \subseteq Specs /\ NoSpec \notin Specs
    /\ IsFiniteSet(Children) /\ Children = 1 .. Cardinality(Children) /\ MaxUID \in Nat /\ FastLen \in Nat \ {0}
    /\ Scenarios \subseteq SUBSET AllEvents /\ MaxEvents \in Nat

VARIABLES
    spec, uid,    \* the resource in the API server
    status,       \* its status
    matching,     \* the nodes that are ready
    record,       \* the addresses every record set holds
    children,     \* c.children
    born,         \* children created so far
    child,        \* every child: a dnsEnablerDisabler and its match controller
    main,         \* the main goroutine: where it is, on which child, with which spec
    down,         \* the context is cancelled
    events, budget

apiVars == <<spec, uid, status>>
worldVars == <<matching, record>>
runVars == <<down, events>>
vars == <<apiVars, worldVars, children, born, child, main, runVars, budget>>

NoCall == [kind |-> "none", nodes |-> {}]
Call(kind, nodes) == [kind |-> kind, nodes |-> nodes]

\* newDNSEnablerDisabler
Fresh(u) ==
    [uid |-> u, k8s |-> NoSpec, activeNodes |-> {}, retries |-> 0,
     lock |-> "free", step |-> "none", ok |-> FALSE,  \* who holds it; applyDNS
     timer |-> FALSE, lost |-> 0, fired |-> 0,        \* d.retryTimer, forgotten ones
     run |-> "none", cancelled |-> FALSE,             \* the match controller
     call |-> NoCall, told |-> {}]

Idle == [at |-> "idle", on |-> 0, spec |-> NoSpec]

Event(e) == e \in events /\ budget > 0 /\ budget' = budget - 1
NoEvent == budget' = budget

Init ==
    /\ spec \in FirstSpecs /\ uid = 1 /\ status = "none"
    /\ matching \in SUBSET Nodes
    /\ record \in {[z \in Zones |-> {}], [z \in Zones |-> Addresses]}
    /\ children = {} /\ born = 0
    /\ child = [c \in Children |-> Fresh(0)]
    /\ main = Idle /\ down = FALSE
    /\ events \in Scenarios /\ budget = MaxEvents

Set(c, r) == child' = [child EXCEPT ![c] = r]
Cancelled(c) == child[c].cancelled \/ down
Matches(s) == matching \cap Selects[s.match]
Wanted(s) == Addresses \cap (Matches(s) \X {s.addr})
Known == {c \in children : child[c].uid = uid}
-----------------------------------------------------------------------------
(* The main goroutine: OnAdd and OnUpdate.  The informer repeats every      *)
(* object now and then.                                                     *)
\* validate found the spec invalid, and says so in the status.
Invalid ==
    /\ main.at = "idle" /\ ~down /\ spec # NoSpec /\ ~spec.valid
    /\ \/ status' = "error" /\ NoEvent
       \/ status' = status /\ Event("status")
    /\ main' = IF Known = {} THEN Idle
               ELSE [at |-> "stop", on |-> CHOOSE c \in Known : TRUE, spec |-> NoSpec]
    /\ UNCHANGED <<spec, uid, worldVars, children, born, child, runVars>>

Update ==
    /\ main.at = "idle" /\ ~down /\ spec # NoSpec /\ spec.valid
    /\ IF Known = {}
       THEN /\ born < Cardinality(Children) /\ born' = born + 1
            /\ children' = children \cup {born + 1}
            /\ Set(born + 1, Fresh(uid))
            /\ main' = [at |-> "update", on |-> born + 1, spec |-> spec]
       ELSE /\ main' = [at |-> "update", on |-> CHOOSE c \in Known : TRUE, spec |-> spec]
            /\ UNCHANGED <<children, born, child>>
    /\ NoEvent
    /\ UNCHANGED <<apiVars, worldVars, runVars>>

\* Mutant: a change of the record set alone does not restart the controller.
NeedsRestartByMatch(r) == r.run # "none" /\ r.k8s.match # main.spec.match

\* "NodeDNSRecordSet updated; restarting controller."
NeedsRestart(r) ==
    r.run # "none" /\ (r.k8s.match # main.spec.match \/ r.k8s.dns # main.spec.dns)

\* Mutant: the nodes of the old criteria are kept.
UpdatedKeepsNodes(r) ==
    IF r.run = "none"
    THEN [r EXCEPT !.k8s = main.spec, !.run = "new", !.timer = FALSE]
    ELSE IF NeedsRestart(r)
    THEN [r EXCEPT !.k8s = main.spec, !.run = "new", !.timer = FALSE, !.cancelled = FALSE,
                   !.told = {}, !.lock = "free"]
    ELSE [r EXCEPT !.k8s = main.spec]

\* The rest of update(): a new match controller where there is none.
Updated(r) ==
    IF r.run = "none"
    THEN [r EXCEPT !.k8s = main.spec, !.run = "new", !.timer = FALSE]
    ELSE IF NeedsRestart(r)
    THEN [r EXCEPT !.k8s = main.spec, !.run = "new", !.timer = FALSE, !.cancelled = FALSE,
                   !.told = {}, !.activeNodes = {}, !.lock = "free"]
    ELSE [r EXCEPT !.k8s = main.spec]

\* Stop() tells the match controller to stop, with or without it being in a
\* call that waits for the lock.
MayStop(r) == r.run = "call" => "busy" \in events

UpdateLock ==
    LET c == main.on  r == child[main.on] IN
    /\ main.at = "update" /\ r.lock = "free"
    /\ IF NeedsRestart(r)
       THEN /\ MayStop(r)
            /\ Set(c, [r EXCEPT !.lock = "main", !.cancelled = TRUE])
            /\ main' = [main EXCEPT !.at = "join"]
       ELSE Set(c, Updated(r)) /\ main' = [main EXCEPT !.at = "start"]
    /\ NoEvent
    /\ UNCHANGED <<apiVars, worldVars, children, born, runVars>>

\* m.wg.Wait() of Stop(); a controller never started has nothing to wait for.
Ended(r) == r.run \in {"none", "new", "gone"}

UpdateJoined ==
    LET c == main.on  r == child[main.on] IN
    /\ main.at = "join" /\ Ended(r)
    /\ Set(c, Updated(r))
    /\ main' = [main EXCEPT !.at = "start"]
    /\ NoEvent
    /\ UNCHANGED <<apiVars, worldVars, children, born, runVars>>

Start ==
    LET c == main.on  r == child[main.on] IN
    /\ main.at = "start" /\ r.lock = "free"
    /\ Set(c, IF r.run = "new" THEN [r EXCEPT !.run = "sync"] ELSE r)
    /\ main' = Idle
    /\ NoEvent
    /\ UNCHANGED <<apiVars, worldVars, children, born, runVars>>

(* OnDelete, and Run once its informer has returned: stop every child.      *)
Delete(c) ==
    /\ main.at = "idle" /\ c \in children
    /\ down \/ (child[c].uid = uid /\ spec = NoSpec)
    /\ main' = [at |-> "stop", on |-> c, spec |-> NoSpec]
    /\ NoEvent
    /\ UNCHANGED <<apiVars, worldVars, children, born, child, runVars>>

StopLock ==
    LET c == main.on  r == child[main.on] IN
    /\ main.at = "stop" /\ r.lock = "free" /\ MayStop(r)
    /\ Set(c, [r EXCEPT !.lock = "main", !.timer = FALSE, !.cancelled = TRUE])
    /\ main' = [main EXCEPT !.at = "stopJoin"]
    /\ NoEvent
    /\ UNCHANGED <<apiVars, worldVars, children, born, runVars>>

StopJoined ==
    LET c == main.on  r == child[main.on] IN
    /\ main.at = "stopJoin" /\ Ended(r)
    /\ Set(c, [r EXCEPT !.lock = "free", !.run = "gone"])
    /\ children' = children \ {c}
    /\ main' = Idle
    /\ NoEvent
    /\ UNCHANGED <<apiVars, worldVars, born, runVars>>

Return ==
    /\ main.at = "idle" /\ down /\ children = {}
    /\ main' = [Idle EXCEPT !.at = "returned"]
    /\ NoEvent
    /\ UNCHANGED <<apiVars, worldVars, children, born, child, runVars>>
-----------------------------------------------------------------------------
(* The goroutine of the match controller.                                   *)
Calls(c, kind, nodes, told) ==
    Set(c, [child[c] EXCEPT !.run = "call", !.call = Call(kind, nodes), !.told = told])

\* A node that does not match, but has a reserved IP, seen by the first list.
EarlyDisable(c, n) ==
    /\ child[c].run = "sync" /\ ~Cancelled(c)
    /\ n \in Nodes \ Matches(child[c].k8s) /\ Event("early")
    /\ Calls(c, "early", {n}, {})
    /\ UNCHANGED <<apiVars, worldVars, children, born, main, runVars>>

\* Mutant: the first nodes are enabled one by one, as they are listed.
BulkOneByOne(c) ==
    /\ child[c].run = "sync" /\ (Cancelled(c) => "busy" \in events)
    /\ \/ \E n \in Matches(child[c].k8s) : Calls(c, "enable", {n}, {n})
       \/ Matches(child[c].k8s) = {} /\ Calls(c, "enable", {}, {})
    /\ NoEvent
    /\ UNCHANGED <<apiVars, worldVars, children, born, main, runVars>>

\* run() does not look at the context between the sync and the bulk enable.
Bulk(c) ==
    LET nodes == Matches(child[c].k8s) IN
    /\ child[c].run = "sync" /\ (Cancelled(c) => "busy" \in events)
    /\ Calls(c, "enable", nodes, nodes)
    /\ NoEvent
    /\ UNCHANGED <<apiVars, worldVars, children, born, main, runVars>>

Changed(c, n) ==
    LET told == child[c].told IN
    /\ child[c].run = "live" /\ ~Cancelled(c)
    /\ \/ n \in Matches(child[c].k8s) \ told /\ Calls(c, "enable", {n}, told \cup {n})
       \/ n \in told \ Matches(child[c].k8s) /\ Calls(c, "disable", {n}, told \ {n})
    /\ NoEvent
    /\ UNCHANGED <<apiVars, worldVars, children, born, main, runVars>>

\* Mutant: the wait for the informers' caches does not heed the context.
EndsWhenLive(c) ==
    /\ child[c].run = "live" /\ Cancelled(c)
    /\ Set(c, [child[c] EXCEPT !.run = "gone"])
    /\ NoEvent
    /\ UNCHANGED <<apiVars, worldVars, children, born, main, runVars>>

Ends(c) ==
    /\ child[c].run \in {"sync", "live"} /\ Cancelled(c)
    /\ Set(c, [child[c] EXCEPT !.run = "gone"])
    /\ NoEvent
    /\ UNCHANGED <<apiVars, worldVars, children, born, main, runVars>>

\* EnableNodes and DisableNodes, up to applyDNS.
Deliver(c) ==
    LET r == child[c] IN
    /\ r.run = "call" /\ r.lock = "free"
    /\ Set(c, [r EXCEPT !.lock = "match", !.step = "ensure",
                        !.activeNodes = IF r.call.kind = "enable" THEN @ \cup r.call.nodes
                                        ELSE @ \ r.call.nodes])
    /\ NoEvent
    /\ UNCHANGED <<apiVars, worldVars, children, born, main, runVars>>
-----------------------------------------------------------------------------
(* Retry timers.                                                            *)
\* The timer fires; its goroutine has yet to get the lock.
TimerFires(c) ==
    /\ \/ child[c].timer /\ Set(c, [child[c] EXCEPT !.timer = FALSE, !.fired = @ + 1])
       \/ child[c].lost > 0 /\ Set(c, [child[c] EXCEPT !.lost = @ - 1, !.fired = @ + 1])
    /\ NoEvent
    /\ UNCHANGED <<apiVars, worldVars, children, born, main, runVars>>

Retry(c) ==
    /\ child[c].fired > 0 /\ child[c].lock = "free"
    /\ Set(c, [child[c] EXCEPT !.fired = @ - 1, !.lock = "timer", !.step = "ensure"])
    /\ NoEvent
    /\ UNCHANGED <<apiVars, worldVars, children, born, main, runVars>>
-----------------------------------------------------------------------------
(* applyDNS, by whoever holds the lock.                                     *)
\* The addresses of the requested type.
ips(r) == Addresses \cap (r.activeNodes \X {r.k8s.addr})

Ensured(c) ==
    LET r == child[c] IN
    /\ r.step = "ensure" /\ ~down
    /\ record' = [record EXCEPT ![r.k8s.dns] = ips(r)]
    /\ Set(c, [r EXCEPT !.step = "status", !.ok = TRUE])
    /\ NoEvent
    /\ UNCHANGED <<apiVars, matching, children, born, main, runVars>>

\* Mutant: no retry is scheduled.
WithoutTimer(r) == [r EXCEPT !.step = "status", !.ok = FALSE]

\* The new timer takes the place of one that may still be running.
WithTimer(r) ==
    [r EXCEPT !.step = "status", !.ok = FALSE, !.timer = TRUE,
              !.lost = IF r.timer THEN @ + 1 ELSE @,
              !.retries = IF @ < FastLen THEN @ + 1 ELSE @]

\* An update cut short leaves some of the old and some of the new addresses.
CutShort(r) ==
    LET old == record[r.k8s.dns] IN
    \E left \in SUBSET (old \cup ips(r)) :
       old \cap ips(r) \subseteq left /\ record' = [record EXCEPT ![r.k8s.dns] = left]

EnsureFails(c) ==
    LET r == child[c] IN
    /\ r.step = "ensure"
    /\ \/ ~down /\ Event("dns") /\ CutShort(r)
       \/ down /\ NoEvent /\ UNCHANGED record
    /\ Set(c, WithTimer(r))
    /\ UNCHANGED <<apiVars, matching, children, born, main, runVars>>

\* The end of EnableNodes, DisableNodes or the timer's function.
Unlocked(r) ==
    [r EXCEPT !.lock = "free", !.step = "none",
              !.run  = IF r.lock = "timer" THEN @
                       ELSE IF r.call.kind = "early" THEN "sync" ELSE "live",
              !.call = IF r.lock = "timer" THEN @ ELSE NoCall]

\* Any success of the status update resets the retries.
StatusWritten(c) ==
    LET r == child[c] IN
    /\ r.step = "status" /\ ~down /\ spec # NoSpec
    /\ status' = IF r.ok THEN "active" ELSE "in-progress"
    /\ Set(c, [Unlocked(r) EXCEPT !.retries = 0])
    /\ NoEvent
    /\ UNCHANGED <<spec, uid, worldVars, children, born, main, runVars>>

StatusFails(c) ==
    /\ child[c].step = "status"
    /\ ((down \/ spec = NoSpec) /\ NoEvent) \/ Event("status")
    /\ Set(c, Unlocked(child[c]))
    /\ UNCHANGED <<apiVars, worldVars, children, born, main, runVars>>
-----------------------------------------------------------------------------
(* Nodes, users and the process.                                            *)
Flip(n) ==
    /\ Event("flip")
    /\ matching' = IF n \in matching THEN matching \ {n} ELSE matching \cup {n}
    /\ UNCHANGED <<apiVars, record, children, born, child, main, runVars>>

\* What an edit to spec s changes.
EditKinds(s) ==
    {k \in {"edit", "address", "invalid"} :
       \/ k = "edit" /\ <<s.match, s.dns, s.valid>> # <<spec.match, spec.dns, spec.valid>>
       \/ k = "address" /\ s.addr # spec.addr
       \/ k = "invalid" /\ ~s.valid}

Edit(s) ==
    /\ spec # NoSpec /\ s # spec
    /\ EditKinds(s) \subseteq events /\ budget > 0 /\ budget' = budget - 1
    /\ spec' = s
    /\ UNCHANGED <<uid, status, worldVars, children, born, child, main, runVars>>

Remove ==
    /\ spec # NoSpec /\ Event("delete")
    /\ spec' = NoSpec /\ status' = "none"
    /\ UNCHANGED <<uid, worldVars, children, born, child, main, runVars>>

Create(s) ==
    /\ spec = NoSpec /\ uid < MaxUID /\ s.valid
    /\ Event(IF Known = {} THEN "create" ELSE "missed")
    /\ spec' = s /\ uid' = uid + 1 /\ status' = "none"
    /\ UNCHANGED <<worldVars, children, born, child, main, runVars>>

\* OnDelete is handed a tombstone: the type assertion fails, which is logged,
\* and nrs.GetUID() dereferences nil.  The process dies and is started again;
\* an update of a record set may be under way.
OnDeleteUnknown ==
    /\ main.at = "idle" /\ ~down /\ spec = NoSpec /\ Known # {} /\ "tombstone" \in events
    /\ \/ UNCHANGED record
       \/ \E c \in Children : child[c].step = "ensure" /\ CutShort(child[c])
    /\ children' = {} /\ born' = 0
    /\ child' = [c \in Children |-> Fresh(0)]
    /\ NoEvent
    /\ UNCHANGED <<apiVars, matching, main, runVars>>

Shutdown ==
    /\ ~down /\ Event("down")
    /\ down' = TRUE
    /\ UNCHANGED <<apiVars, worldVars, children, born, child, main, events>>

Main == Invalid \/ Update \/ UpdateLock \/ UpdateJoined \/ Start \/ StopLock \/ StopJoined
          \/ Return \/ \E c \in Children : Delete(c)
Matcher(c) == Bulk(c) \/ Ends(c) \/ Deliver(c) \/ \E n \in Nodes : EarlyDisable(c, n) \/ Changed(c, n)
Timer(c) == TimerFires(c) \/ Retry(c)
Apply(c) == Ensured(c) \/ EnsureFails(c) \/ StatusWritten(c) \/ StatusFails(c)
Environment == (\E n \in Nodes : Flip(n)) \/ (\E s \in Specs : Edit(s) \/ Create(s)) \/ Remove \/ Shutdown

Next == Main \/ OnDeleteUnknown \/ Environment \/ \E c \in Children : Matcher(c) \/ Timer(c) \/ Apply(c)

Spec == Init /\ [][Next]_vars

\* Goroutines run on, and a mutex passes to one that waits long enough, also
\* when others keep taking it.
Fairness ==
    /\ SF_vars(Main)
    /\ \A c \in Children :
         SF_vars(Matcher(c)) /\ WF_vars(TimerFires(c)) /\ SF_vars(Retry(c)) /\ WF_vars(Apply(c))

FairSpec == Spec /\ Fairness
-----------------------------------------------------------------------------
Child ==
    [uid : Nat, k8s : Specs \cup {NoSpec}, activeNodes : SUBSET Nodes, retries : 0 .. FastLen,
     lock : {"free", "main", "match", "timer"}, step : {"none", "ensure", "status"}, ok : BOOLEAN,
     timer : BOOLEAN, lost : Nat, fired : Nat,
     run : {"none", "new", "sync", "call", "live", "gone"}, cancelled : BOOLEAN,
     call : [kind : {"none", "enable", "disable", "early"}, nodes : SUBSET Nodes],
     told : SUBSET Nodes]

MainSteps == {"idle", "update", "join", "start", "stop", "stopJoin", "returned"}

TypeOK ==
    /\ spec \in Specs \cup {NoSpec} /\ uid \in Nat
    /\ matching \subseteq Nodes
    /\ children \subseteq Children /\ born \in Nat
    /\ child \in [Children -> Child]
    /\ main \in [at : MainSteps, on : Children \cup {0}, spec : Specs \cup {NoSpec}]
    /\ main.at \notin {"idle", "returned"} => main.on \in Children
    /\ main.at \in {"update", "join"} => main.spec \in Specs

(* Stop() waits for the old match controller before update() forgets its    *)
(* nodes, so no late call of it brings back a node the criteria of the      *)
(* child do not select, whatever happens.                                   *)
NoStaleNodes ==
    \A c \in Children : child[c].k8s # NoSpec => child[c].activeNodes \subseteq Selects[child[c].k8s.match]

\* The rest of the inductive invariant: a child that was never updated does
\* nothing, one without a match controller has no nodes, and a call on its
\* way to the child enables only nodes that its criteria select.
ChildSound(r) ==
    /\ r.k8s = NoSpec => /\ r.run \in {"none", "gone"} /\ r.step = "none"
                         /\ ~r.timer /\ r.lost = 0 /\ r.fired = 0
    /\ r.k8s = NoSpec \/ r.run = "none" => r.activeNodes = {}
    /\ r.k8s # NoSpec => r.activeNodes \subseteq Selects[r.k8s.match]
    /\ r.run = "call" /\ r.call.kind = "enable" => r.call.nodes \subseteq Selects[r.k8s.match]

IInv == TypeOK /\ \A c \in Children : ChildSound(child[c])

\* Nothing is under way: the child has the resource as it is, its match
\* controller has told it every change, and no retry is due.
Quiet(c) ==
    /\ main.at = "idle" /\ spec # NoSpec /\ c \in Known /\ child[c].k8s = spec /\ ~down
    /\ child[c].run = "live" /\ child[c].told = Matches(spec) /\ child[c].lock = "free"
    /\ \A e \in Children : ~child[e].timer /\ child[e].lost = 0 /\ child[e].fired = 0

(* When all is quiet the A record holds the addresses of the matching nodes *)
(* and the status says "active".                                            *)
UpToDate == \A c \in Children : Quiet(c) => record[spec.dns] = Wanted(spec) /\ status = "active"

\* A retry that has fired goes on after stop(), and may write over the record
\* of the child that took the place of its own: after the resource was created
\* again, or was invalid for a while.
LateRetries == "dns" \in events /\ events \cap {"create", "invalid"} # {}

\* What this does not survive: a new address type, a deletion the informer
\* misses, a status update that fails, and late retries.
Benign == events \cap {"address", "missed", "status"} = {} /\ ~LateRetries

(* UpToDate holds through failures, retries, restarts of the match          *)
(* controller, invalid edits and forgotten timers.                          *)
Accurate == Benign => UpToDate

\* An address that is served and that a child's spec wants stays.
KeepsServed ==
    \A c \in children :
       LET s == child[c].k8s IN
       s # NoSpec => record[s.dns] \cap Wanted(s) \subseteq record'[s.dns]

(* "hopefully avoid disabling ... nodes which are active but not yet seen": *)
(* a restart of the controller disturbs nothing that is served.             *)
NeverOutage == [][KeepsServed]_record

(* The bulk enable replaces the record in one go, so a restart of the match *)
(* controller, or of the process, takes away no address that is served and  *)
(* wanted (unless a node is disabled early, or a retry of an earlier        *)
(* failure runs between the restart and the bulk).                          *)
NoOutage ==
    [][events \cap {"early", "flip", "missed"} = {}
         /\ ~("dns" \in events /\ events \cap {"edit", "create"} # {}) => KeepsServed]_record

(* Once nodes and users leave it alone, a valid record set is brought up to *)
(* date and stays so, although updates fail and retries pile up.            *)
Converges ==
    (events \cap {"address", "missed", "busy", "down"} = {} /\ ~LateRetries) =>
       <>[](spec = NoSpec \/ ~spec.valid \/ record[spec.dns] = Wanted(spec))

(* Run() returns after its context is cancelled: it waits for every child,  *)
(* and they all end, unless one is told to stop during a call of its match  *)
(* controller ("busy"): that deadlock is what StopReturns is about.         *)
RunReturns == ("busy" \notin events) => (down ~> main.at = "returned")

(* Stop() returns: no goroutine waits for a match controller that waits for *)
(* the lock it holds.                                                       *)
StopReturns == (main.at \in {"join", "stopJoin"}) ~> (main.at \notin {"join", "stopJoin"})

(* "This loop just verifies all children have completed": after Run() has   *)
(* returned nothing works on a child.                                       *)
ChildrenCompleted == main.at = "returned" => \A c \in Children : child[c].lock = "free"

(* After stop() a deleted resource's record set is left alone.              *)
DeletedIsLeftAlone ==
    [][spec = NoSpec /\ children = {} => UNCHANGED record]_<<record, child>>
=============================================================================
