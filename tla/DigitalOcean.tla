----------------------------- MODULE DigitalOcean -----------------------------
(***************************************************************************)
(* The floating IP part of the DigitalOcean provider (digitalocean.go):    *)
(* IPToProviderID, AssignIP with the NodeToIP it calls, and asyncStatus.   *)
(* An assignment runs asynchronously at DigitalOcean; the provider keeps   *)
(* the identifier of the one it started last for an IP in                  *)
(* floatingIPActions and answers ErrInProgress until that one has ended.   *)
(* One provider is shared by the goroutines of all pools.  An action of    *)
(* the module is what a call does between two calls to the API or between  *)
(* the API and do.lock.                                                    *)
(***************************************************************************)
EXTENDS Naturals, Sequences, FiniteSets

CONSTANTS
    Callers, Manages,  \* the pools' goroutines, and the IPs of each pool
    IPs, Droplets,
    Own,               \* the public address of its own every droplet has
    NoDroplet,         \* provider ID ""
    Unknown,           \* the caller has been told nothing that still holds
    MaxActions,        \* assignments DigitalOcean starts for an IP
    Scenarios,         \* the sets of things that may go wrong together ...
    MaxEvents          \* ... and how many of them do

\* "fail": a call fails; "lost": one fails after it took effect; "pending":
\* the droplet has another event; "errored": an assignment ends in an error;
\* "gone": an IP or droplet is deleted; "expire": doActionExpiration passes;
\* "restart": flipop does; "first": the floating IP is not listed last.
AllEvents == {"fail", "lost", "pending", "errored", "gone", "expire", "restart", "first"}

ASSUME ConstantsAssumption ==
    /\ Manages \in [Callers -> SUBSET IPs]
    /\ Own \notin IPs /\ NoDroplet \notin IPs \cup Droplets /\ Unknown \notin Droplets \cup {NoDroplet}
    /\ MaxActions \in Nat /\ Scenarios \subseteq SUBSET AllEvents /\ MaxEvents \in Nat

VARIABLES
    exists,             \* the IPs and droplets that exist
    attached,           \* the droplet of every IP
    flight,             \* the droplet that an assignment in progress gives it to
    latest,             \* the identifier of its last assignment; 0: none
    floatingIPActions,  \* do.floatingIPActions; 0: no entry
    expired,            \* the entries whose time has passed
    call,               \* every caller's call
    known,              \* what the last answer about an IP said, until it is assigned
    panicked,
    events, budget

apiVars == <<exists, attached, flight, latest>>
mapVars == <<floatingIPActions, expired>>
vars == <<apiVars, mapVars, call, known, panicked, events, budget>>

\* at: where the call is; for: on whose behalf asyncStatus runs; act: a; cur:
\* curProvider; err: the error of Assign; ips, i: the loop of NodeToIP.
Idle(result) ==
    [op |-> "none", ip |-> Own, target |-> NoDroplet, at |-> "idle", for |-> "none",
     act |-> 0, cur |-> NoDroplet, err |-> "none", ips |-> <<>>, i |-> 0, result |-> result]

Event(e) == e \in events /\ budget > 0 /\ budget' = budget - 1
NoEvent == budget' = budget

Init ==
    /\ exists = IPs \cup Droplets
    /\ attached \in [IPs -> Droplets \cup {NoDroplet}]
    /\ \A a, b \in IPs : a # b /\ attached[a] = attached[b] => attached[a] = NoDroplet
    /\ flight = [ip \in IPs |-> NoDroplet] /\ latest = [ip \in IPs |-> 0]
    /\ floatingIPActions = [ip \in IPs |-> 0] /\ expired = {}
    /\ call = [c \in Callers |-> Idle("none")]
    /\ known = [ip \in IPs |-> Unknown] /\ panicked = FALSE
    /\ events \in Scenarios /\ budget = MaxEvents

InFlight(ip) == flight[ip] # NoDroplet
Holds(d) == {ip \in IPs : attached[ip] = d}

Go(c, r) == call' = [call EXCEPT ![c] = r]
At(c, at) == call[c].at = at /\ ~panicked
Return(c, result) == Go(c, Idle(result))

\* The error that AssignIP returns when it could not find a better one.
AssignError(r) == IF r.err = "pending" THEN "fast" ELSE "error"

\* The IP asyncStatus and IPToProviderID are called with.
Subject(r) == IF r.for = "loop" THEN r.ips[r.i] ELSE r.ip

\* IPToProviderID or asyncStatus fails: AssignIP eats the error of the calls
\* it makes to understand another one.
Failed(c, err) == Return(c, IF call[c].for \in {"recheck", "loop"} THEN AssignError(call[c]) ELSE err)
-----------------------------------------------------------------------------
(* The callers: a pool's goroutine calls for its own IPs, and again until   *)
(* the answer is not an error.                                              *)
\* Mutant: a lookup does not wait for the assignment in progress.
IPToProviderIDAtOnce(c, ip) ==
    /\ At(c, "idle")
    /\ Go(c, [Idle("none") EXCEPT !.op = "lookup", !.ip = ip, !.at = "flip", !.for = "lookup"])
    /\ NoEvent
    /\ UNCHANGED <<apiVars, mapVars, known, panicked, events>>

IPToProviderID(c, ip) ==
    /\ At(c, "idle")
    /\ Go(c, [Idle("none") EXCEPT !.op = "lookup", !.ip = ip, !.at = "status", !.for = "lookup"])
    /\ NoEvent
    /\ UNCHANGED <<apiVars, mapVars, known, panicked, events>>

AssignIP(c, ip, d) ==
    /\ At(c, "idle") /\ latest[ip] < MaxActions
    /\ Go(c, [Idle("none") EXCEPT !.op = "assign", !.ip = ip, !.target = d,
                                  !.at = "status", !.for = "assign"])
    /\ known' = [known EXCEPT ![ip] = Unknown]
    /\ NoEvent
    /\ UNCHANGED <<apiVars, mapVars, panicked, events>>
-----------------------------------------------------------------------------
(* asyncStatus.                                                             *)
\* Mutant: the entries that have not expired go.
CleanedTooEarly == [ip \in IPs |-> IF ip \in expired THEN floatingIPActions[ip] ELSE 0]

Cleaned == [ip \in IPs |-> IF ip \in expired THEN 0 ELSE floatingIPActions[ip]]

\* The caller goes on once no action is in its way.
Onward(r) == [r EXCEPT !.at = IF r.for = "assign" THEN "assign" ELSE "flip", !.act = 0]

Entry(ip) == IF ip \in IPs THEN Cleaned[ip] ELSE 0

StatusRead(c) ==
    /\ At(c, "status")
    /\ floatingIPActions' = Cleaned /\ expired' = {}
    /\ LET r == call[c]  a == Entry(Subject(r)) IN
       Go(c, IF a = 0 THEN Onward(r) ELSE [r EXCEPT !.at = "poll", !.act = a])
    /\ NoEvent
    /\ UNCHANGED <<apiVars, known, panicked, events>>

ActionInProgress(ip, id) == InFlight(ip) /\ latest[ip] = id

StatusGet(c) ==
    /\ At(c, "poll")
    /\ IF ActionInProgress(Subject(call[c]), call[c].act)
       THEN Failed(c, "inProgress")
       ELSE Go(c, [call[c] EXCEPT !.at = "drop"])
    /\ NoEvent
    /\ UNCHANGED <<apiVars, mapVars, known, panicked, events>>

StatusGetFails(c) ==
    /\ At(c, "poll") /\ Event("fail")
    /\ Failed(c, "error")
    /\ UNCHANGED <<apiVars, mapVars, known, panicked, events>>

\* Mutant: the entry stays.
StatusKeep(c) ==
    /\ At(c, "drop")
    /\ Failed(c, "inProgress")
    /\ NoEvent
    /\ UNCHANGED <<apiVars, mapVars, known, panicked, events>>

\* "action completed": the lock is taken again, and the entry of the IP,
\* whichever it is now, goes.
StatusDrop(c) ==
    /\ At(c, "drop")
    /\ floatingIPActions' = [floatingIPActions EXCEPT ![Subject(call[c])] = 0]
    /\ expired' = expired \ {Subject(call[c])}
    /\ Go(c, Onward(call[c]))
    /\ NoEvent
    /\ UNCHANGED <<apiVars, known, panicked, events>>
-----------------------------------------------------------------------------
(* The rest of IPToProviderID: ipsService.Get.                              *)
\* The provider ID goes to the caller, ...
Lookup(c) ==
    /\ At(c, "flip") /\ call[c].for = "lookup"
    /\ IF call[c].ip \in exists
       THEN Return(c, "ok") /\ known' = [known EXCEPT ![call[c].ip] = attached[call[c].ip]]
       ELSE Return(c, "notFound") /\ UNCHANGED known
    /\ NoEvent
    /\ UNCHANGED <<apiVars, mapVars, panicked, events>>

\* ... or to AssignIP, whose Assign was refused.  "Already set to us. This is
\* success."  An unattached IP makes NodeToIP fail on parsing "".
Recheck(c) ==
    /\ At(c, "flip") /\ call[c].for = "recheck"
    /\ LET r == call[c]  cur == attached[r.ip] IN
       IF r.ip \in exists /\ cur = r.target
       THEN Return(c, "ok") /\ known' = [known EXCEPT ![r.ip] = cur]
       ELSE /\ IF r.ip \in exists /\ cur # NoDroplet
               THEN Go(c, [r EXCEPT !.at = "droplet", !.cur = cur])
               ELSE Return(c, AssignError(r))
            /\ UNCHANGED known
    /\ NoEvent
    /\ UNCHANGED <<apiVars, mapVars, panicked, events>>

FlipFails(c) ==
    /\ At(c, "flip") /\ Event("fail")
    /\ Failed(c, "error")
    /\ UNCHANGED <<apiVars, mapVars, known, panicked, events>>
-----------------------------------------------------------------------------
(* The rest of AssignIP: ipActionsService.Assign.                           *)
\* The API refuses: the IP or the droplet is busy, or the droplet has an IP.
Refuses(ip, d) ==
    {e \in {"pending", "taken"} :
        \/ e = "pending" /\ (InFlight(ip) \/ \E other \in IPs : flight[other] = d)
        \/ e = "taken" /\ Holds(d) # {}}

AssignRefused(c) ==
    /\ At(c, "assign") /\ {call[c].ip, call[c].target} \subseteq exists
    /\ \E e \in {"pending", "taken"} :
         /\ \/ e \in Refuses(call[c].ip, call[c].target) /\ NoEvent
            \/ e = "pending" /\ Event("pending")
         /\ Go(c, [call[c] EXCEPT !.at = "status", !.for = "recheck", !.err = e])
    /\ UNCHANGED <<apiVars, mapVars, known, panicked, events>>

Accepts(c) ==
    /\ At(c, "assign") /\ {call[c].ip, call[c].target} \subseteq exists
    /\ Refuses(call[c].ip, call[c].target) = {}
    /\ latest' = [latest EXCEPT ![call[c].ip] = @ + 1]
    /\ UNCHANGED <<exists, mapVars, panicked, events>>

\* The action is complete when the API answers, ...
AssignedAtOnce(c) ==
    /\ Accepts(c)
    /\ attached' = [attached EXCEPT ![call[c].ip] = call[c].target]
    /\ known' = [known EXCEPT ![call[c].ip] = call[c].target]
    /\ Return(c, "ok")
    /\ NoEvent
    /\ UNCHANGED flight

\* ... or has only begun; the answer may get lost.
AssignStarted(c) ==
    /\ Accepts(c)
    /\ flight' = [flight EXCEPT ![call[c].ip] = call[c].target]
    /\ \/ NoEvent /\ Go(c, [call[c] EXCEPT !.at = "record", !.act = latest'[call[c].ip]])
       \/ Event("lost") /\ Return(c, "error")
    /\ UNCHANGED <<attached, known>>

AssignFails(c) ==
    /\ At(c, "assign")
    /\ \/ Event("fail") /\ Return(c, "error")
       \/ {call[c].ip, call[c].target} \ exists # {} /\ NoEvent /\ Return(c, "notFound")
    /\ UNCHANGED <<apiVars, mapVars, known, panicked, events>>

\* "floating IP assignment initiated"
Record(c) ==
    /\ At(c, "record")
    /\ floatingIPActions' = [floatingIPActions EXCEPT ![call[c].ip] = call[c].act]
    /\ expired' = expired \ {call[c].ip}
    /\ Return(c, "inProgress")
    /\ NoEvent
    /\ UNCHANGED <<apiVars, known, panicked, events>>
-----------------------------------------------------------------------------
(* NodeToIP, which AssignIP calls with the droplet that has the IP now.     *)
Listed(d) ==
    {<<Own, ip>> : ip \in Holds(d)}
    \cup (IF "first" \in events THEN {<<ip, Own>> : ip \in Holds(d)} ELSE {})
    \cup (IF Holds(d) = {} THEN {<<Own>>} ELSE {})

GetDroplet(c) ==
    /\ At(c, "droplet")
    /\ IF call[c].cur \in exists
       THEN \E ips \in Listed(call[c].cur) :
              IF Len(ips) < 2
              THEN Return(c, AssignError(call[c]))
              ELSE Go(c, [call[c] EXCEPT !.ips = ips, !.i = Len(ips),
                                         !.at = "status", !.for = "loop"])
       ELSE Return(c, AssignError(call[c]))
    /\ NoEvent
    /\ UNCHANGED <<apiVars, mapVars, known, panicked, events>>

GetDropletFails(c) ==
    /\ At(c, "droplet") /\ Event("fail")
    /\ Return(c, AssignError(call[c]))
    /\ UNCHANGED <<apiVars, mapVars, known, panicked, events>>

\* ipProvider == providerID
IsFound(r) == Subject(r) \in exists /\ attached[Subject(r)] = r.cur

\* An address that is the IP of the droplet ends the loop, with ErrNodeInUse.
LoopFound(c) ==
    /\ At(c, "flip") /\ call[c].for = "loop"
    /\ IsFound(call[c])
    /\ Return(c, "inUse")
    /\ NoEvent
    /\ UNCHANGED <<apiVars, mapVars, known, panicked, events>>

\* One that is not a floating IP, or is another droplet's: i++, which reads
\* past the end of the slice.
LoopOn(c) ==
    /\ At(c, "flip") /\ call[c].for = "loop"
    /\ ~IsFound(call[c])
    /\ LET r == call[c] IN
       IF r.i + 1 > Len(r.ips)
       THEN panicked' = TRUE /\ UNCHANGED call
       ELSE Go(c, [r EXCEPT !.i = @ + 1, !.at = "status"]) /\ UNCHANGED panicked
    /\ NoEvent
    /\ UNCHANGED <<apiVars, mapVars, known, events>>
-----------------------------------------------------------------------------
(* DigitalOcean, the clock, and the process.                                *)
Ends(ip) ==
    /\ InFlight(ip)
    /\ \/ attached' = [attached EXCEPT ![ip] = flight[ip]] /\ NoEvent
       \/ UNCHANGED attached /\ Event("errored")
    /\ flight' = [flight EXCEPT ![ip] = NoDroplet]
    /\ UNCHANGED <<exists, latest, mapVars, call, known, panicked, events>>

Gone(x) ==
    /\ x \in exists /\ Event("gone")
    /\ exists' = exists \ {x}
    /\ attached' = [ip \in IPs |-> IF x \in {ip, attached[ip]} THEN NoDroplet ELSE attached[ip]]
    /\ flight' = [ip \in IPs |-> IF x \in {ip, flight[ip]} THEN NoDroplet ELSE flight[ip]]
    /\ UNCHANGED <<latest, mapVars, call, known, panicked, events>>

Expire ==
    /\ Event("expire")
    /\ expired' = {ip \in IPs : floatingIPActions[ip] # 0}
    /\ UNCHANGED <<apiVars, floatingIPActions, call, known, panicked, events>>

\* NewDigitalOcean begins with an empty map.  A panic ends the process, too.
Restart ==
    /\ \/ panicked /\ NoEvent
       \/ ~panicked /\ Event("restart")
    /\ floatingIPActions' = [ip \in IPs |-> 0] /\ expired' = {}
    /\ call' = [c \in Callers |-> Idle("none")]
    /\ known' = [ip \in IPs |-> Unknown] /\ panicked' = FALSE
    /\ UNCHANGED <<apiVars, events>>

Ask(c) == \E ip \in Manages[c] : IPToProviderID(c, ip)

Answer(c) ==
    \/ StatusRead(c) \/ StatusGet(c) \/ StatusDrop(c)
    \/ Lookup(c) \/ Recheck(c)
    \/ AssignRefused(c) \/ AssignedAtOnce(c) \/ AssignStarted(c) \/ AssignFails(c) \/ Record(c)
    \/ GetDroplet(c) \/ LoopFound(c) \/ LoopOn(c)

Next ==
    \/ \E c \in Callers :
         \/ Ask(c) \/ Answer(c)
         \/ \E ip \in Manages[c], d \in Droplets : AssignIP(c, ip, d)
         \/ StatusGetFails(c) \/ FlipFails(c) \/ GetDropletFails(c)
    \/ \E ip \in IPs : Ends(ip)
    \/ \E x \in IPs \cup Droplets : Gone(x)
    \/ Expire \/ Restart

Spec == Init /\ [][Next]_vars

\* DigitalOcean ends every assignment and answers every call; the pool asks
\* again after an answer that is an error.
FairSpec ==
    /\ Spec
    /\ WF_vars(Restart)
    /\ \A ip \in IPs : WF_vars(Ends(ip))
    /\ \A c \in Callers :
         /\ WF_vars(Answer(c))
         /\ \A ip \in Manages[c] : SF_vars(IPToProviderID(c, ip))
-----------------------------------------------------------------------------
Calls ==
    [op : {"none", "lookup", "assign"}, ip : IPs \cup {Own}, target : Droplets \cup {NoDroplet},
     at : {"idle", "status", "poll", "drop", "flip", "assign", "record", "droplet"},
     for : {"none", "lookup", "assign", "recheck", "loop"},
     act : Nat, cur : Droplets \cup {NoDroplet}, err : {"none", "pending", "taken"},
     ips : Seq(IPs \cup {Own}), i : Nat,
     result : {"none", "ok", "inProgress", "notFound", "inUse", "fast", "error"}]

TypeOK ==
    /\ exists \subseteq IPs \cup Droplets
    /\ attached \in [IPs -> Droplets \cup {NoDroplet}] /\ flight \in [IPs -> Droplets \cup {NoDroplet}]
    /\ latest \in [IPs -> Nat] /\ floatingIPActions \in [IPs -> Nat]
    /\ call \in [Callers -> Calls]
    /\ known \in [IPs -> Droplets \cup {NoDroplet, Unknown}]

\* No IP is in two pools, flipop sees every answer and remembers it, and
\* nobody but flipop touches the IPs and droplets.
Undisturbed ==
    /\ \A c, d \in Callers : c # d => Manages[c] \cap Manages[d] = {}
    /\ events \cap {"lost", "gone", "expire", "restart", "first"} = {}

(* floatingIPActions knows the assignments that run: one that DigitalOcean  *)
(* has not ended is the one recorded for its IP, or its caller is about to  *)
(* record it, whatever the other callers do between the two halves of       *)
(* asyncStatus.                                                             *)
Tracked ==
    Undisturbed =>
        \A ip \in IPs : InFlight(ip) =>
            \/ floatingIPActions[ip] = latest[ip]
            \/ \E c \in Callers : call[c].at = "record" /\ call[c].ip = ip /\ call[c].act = latest[ip]

(* "asyncStatus tries to abstract the asynchronous nature of DO's floating  *)
(* IP updates": what IPToProviderID or AssignIP has answered about an IP    *)
(* stays true until the caller assigns it, no assignment that was still     *)
(* running changes it afterwards.                                           *)
AnswersHold ==
    Undisturbed => \A ip \in IPs : known[ip] # Unknown => attached[ip] = known[ip]

\* The rest of the inductive invariant.  A droplet has, or is getting, at most
\* one IP.
Takes(ip) == {attached[ip], flight[ip]} \ {NoDroplet}

Exclusive == \A a, b \in IPs : a # b => Takes(a) \cap Takes(b) = {}

\* Only a recorded assignment is in the way of an answer.
IPSound(ip) ==
    /\ InFlight(ip) => latest[ip] # 0
    /\ InFlight(ip) /\ floatingIPActions[ip] # latest[ip] =>
         \E c \in Callers : call[c].at = "record" /\ call[c].ip = ip /\ call[c].act = latest[ip]
    /\ known[ip] # Unknown => attached[ip] = known[ip] /\ ~InFlight(ip)

\* A call has waited for the assignment of its IP before it goes on, and the
\* loop of NodeToIP begins with that IP.
CallFits(c, r) ==
    /\ r.at # "idle" => r.ip \in Manages[c]
    /\ r.at = "idle" => r.for = "none"
    /\ r.at = "record" => r.act = latest[r.ip]
    /\ r.at = "poll" => r.act = floatingIPActions[r.ip]
    /\ r.at \in {"drop", "flip", "assign", "droplet"} \/ r.for \in {"recheck", "loop"} => ~InFlight(r.ip)
    /\ r.for \in {"assign", "recheck", "loop"} => known[r.ip] = Unknown
    /\ r.at \in {"assign", "record"} => r.for = "assign"
    /\ r.at = "droplet" => r.for = "recheck" /\ attached[r.ip] = r.cur /\ r.cur # NoDroplet
    /\ r.for = "loop" => r.ips = <<Own, r.ip>> /\ r.i = 2 /\ attached[r.ip] = r.cur

CallSound(c) == CallFits(c, call[c])

Sound ==
    /\ TypeOK /\ exists = IPs \cup Droplets /\ expired = {} /\ ~panicked
    /\ Exclusive /\ (\A ip \in IPs : IPSound(ip)) /\ \A c \in Callers : CallSound(c)

IInv == Undisturbed => Sound

(* What goes wrong makes no IP stay "in progress": a caller that keeps on   *)
(* asking is not answered ErrInProgress for ever, also when answers get     *)
(* lost, actions fail or expire, droplets vanish or flipop restarts.        *)
Settles == \A c \in Callers : <>[](call[c].result # "inProgress")
-----------------------------------------------------------------------------
(* What the comments of the code say, and what does not hold.               *)

\* "NodeToIP attempts to find any floating IPs bound to the specified node",
\* and "there's nothing explicitly saying the order of IPs": its loop stays in
\* the slice wherever the floating IP is listed.
NeverPanics == ~panicked

\* "It's likely the node already has an IP. Verify that, and return an
\* appropriate error": ErrNodeInUse is about the node that gets the IP.
InUseMeansInUse ==
    [][\A c \in Callers : LoopFound(c) => Holds(call[c].target) # {}]_vars

\* "tries to abstract the asynchronous nature", also across restarts.
AnswersAlwaysHold == \A ip \in IPs : known[ip] # Unknown => attached[ip] = known[ip]
=============================================================================
