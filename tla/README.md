# Verification of FLIPOP

FLIPOP is a Kubernetes operator that keeps a pool of floating (reserved) IPs
assigned to the nodes that match some criteria, and DNS A records pointing at
matching nodes. This directory holds TLA+ models of its controllers, its
providers and its leader election, TLC configurations that check them on small
instances, and TLAPS proofs.

- `PROJECT.json` lists components, runs, mutants, the source lines behind every
  definition, findings, hazards and theorems.
- `tlc -config PoolRetries.cfg MCIPWhereabouts` runs one configuration;
  `tlapm IPControllerProofs.tla` checks the proofs of a module.

## 1. The system

| Component | Source | State | Operations |
|---|---|---|---|
| ipController | `pkg/floatingip/ip_controller.go` | known and pending IPs, status of every IP, claims (`providerIDToIP`), active nodes, two ordered queues, back-off times, dirty flags | reconcile goroutine; `updateIPs`, `updateDNSSpec`, `updateProviders`, `EnableNodes`, `DisableNodes`, `start`, `stop` |
| orderedSet | same file | a list without repetition | `Add` (front or back), `Delete`, `IsSet`, `Front` |
| FloatingIPPool controller | `pkg/floatingip/floatingippool_controller.go` | pools by UID | informer handlers, `validate`, callbacks that write spec, status and node annotations, `getNodeFromPools` |
| node match controller | `pkg/nodematch/match_controller.go` | record of every node (match, ready pods, enabled), `primed` | handlers of two informers, start-up goroutine `run()`, `Start`, `Stop` |
| NodeDNSRecordSet controller | `pkg/nodedns/controller.go` | children by UID; per child the active nodes, retry timer, retries, match controller | informer handlers, `update`, `start`, `stop`, `EnableNodes`, `DisableNodes`, `applyDNS` |
| DigitalOcean provider | `pkg/provider/digitalocean.go` | actions in flight (`floatingIPActions`) | `AssignIP`, `IPToProviderID`, `NodeToIP`, `asyncStatus`, `CreateIP`, `EnsureDNSARecordSet` |
| Cloudflare provider | `pkg/provider/cloudflare.go` | none | `EnsureDNSARecordSet` |
| registry, retry schedules | `pkg/provider/provider.go` | providers with credentials | `Init`, `Get`; which schedule an error selects |
| leader election | `pkg/leaderelection/leaderelection.go`, `cmd/flipop/main.go` | child context, lock, wait group | the two callbacks, shutdown goroutine, signals |

How they interact. The pool controller creates, per FloatingIPPool, an
ipController and a match controller. The match controller calls
`EnableNodes`/`DisableNodes` from informer goroutines. The ipController's own
goroutine takes its mutex for a whole pass: allocate missing IPs, write them to
the spec, ask the provider where each IP points, pair free IPs with waiting
nodes, update DNS, publish the status. The handlers take the same mutex. The
spec that the pass writes comes back through the informer to `updateIPs`; the
annotations it writes come back to the match controller, and to NodeDNS. To
annotate a node the goroutine of one pool goes through the pools of all.
A NodeDNSRecordSet has a match controller too, and writes the addresses of the
enabled nodes itself, under a lock of its own. One value of a provider is
shared by every pool and record set. All of this runs as the children of the
process that holds the lease.

What is hard: the provider, the API server, users and other controllers act
between any two calls of a pass; calls fail, or are carried out although an
error came back; provider actions are asynchronous; informers lag and miss
deletions; the process crashes (its state is in memory only) or its context is
cancelled mid-pass; back-off and cool-off times decide what a pass skips; the
match controller's `run()` reads the same records as the handlers without their
lock; several goroutines wait for others with a lock held; record sets are
rewritten one record at a time.

What makes it correct: a node's claim agrees with the IP's status; no IP or
node is lost from both the maps and the queues; the IP of a matching node is
never offered to another; everything that is published (status, A record,
annotations, spec) agrees with the state whenever it is not marked dirty; no IP
is leaked at the provider; nodes that match are served in the end; the enabled
nodes are those that match; a record set that was written successfully is
exactly the one asked for, and no wanted address leaves it on the way; every
goroutine belongs to a live resource and ends when it should; two replicas do
not reconcile at the same time.

## 2. Modules

| Module | Models |
|---|---|
| `OrderedSet` | the two queues, as sequences |
| `IPController` | the ipController of one pool with the callbacks of the pool controller, the provider, the API server and the user |
| `IPWhereabouts` | what the ipController promises, and as long as what: `IPController` with a history variable that remembers whether some record was wrong about where an IP is |
| `Assignment` | the abstract promise of an ipController: an IP is given to a matching node without one, and never taken from a matching node, until the controller goes astray; implemented by `IPWhereabouts` |
| `NodeMatch` | the node match controller with its informers |
| `FloatingIPPools` | the FloatingIPPool controller with several pools, their goroutines and the map they share |
| `NodeDNS` | the NodeDNSRecordSet controller: children, locks, match controllers, retry timers, DNS |
| `DNSRecordSet` | `EnsureDNSARecordSet` of both providers, one call to the DNS API per action |
| `RecordPromise` | the abstract promise of a DNSProvider |
| `DigitalOcean` | the floating IP calls of the DigitalOcean provider, shared by several goroutines |
| `LeaderElection` | the replicas, the lease, the callbacks and the children |
| `MC...` | model values and small instances for TLC |
| `OrderedSetTheorems`, `IPControllerProofs`, `NodeMatchProofs`, `NodeDNSProofs`, `FloatingIPPoolsProofs`, `DNSRecordSetProofs`, `DigitalOceanProofs`, `LeaderElectionProofs` | proofs |

How they fit together. `IPController` takes the nodes that are enabled, the
provider's answers and the DNS update as given; `NodeMatch`, `DigitalOcean` and
`DNSRecordSet` show what these really do. `NodeDNS` uses of its match
controller what `NodeMatch` establishes (one bulk call, then a call per change)
and of a DNS update what `RecordPromise` says (all, or a mixture of old and
new). `FloatingIPPools` keeps of `IPController` and `NodeMatch` only where their
goroutines are and which locks they hold.

Exceptional events have names. In `IPController` and `DNSRecordSet` the constant
`Events` holds the ones that may happen. The other modules have `Scenarios`, a
set of such sets of which `Init` picks one, so that one run covers several
combinations without all of them at once. `MaxEvents` (`MaxChanges` in
`NodeMatch`) bounds how many happen in one behaviour; nothing else that nodes,
goroutines and timers do is bounded.

### IPController

Variables carry the names of the Go fields; `pc` is the part of `reconcile` the
goroutine is in, and `removing` is non-empty while `updateIPs` holds the lock
and walks over the removed IPs. A pass is one action per call that leaves the
process (`CreateIP`, `OnNewIPs`, `Lookup`, `AssignIP`, `EnsureDNS`, `Publish`,
each with its failing variant) plus one per skip or early return. Handlers are
enabled only when the mutex is free (`Unlocked`).

Abstractions: durations are flags (`wait`, `createWait`, `coolWait`,
`providerIDToRetry`) that elapse at any time; messages are dropped, so that
"state or message changed" becomes a choice for two errors in a row
(`Differs`); `ipToStatus` is total with the state "absent" for a missing entry;
a nil dereference leads to `pc = "panicked"`. The node cache and the pool cache
are the informers' copies: "stale" makes the pool's asynchronous, "lag" is one
annotation that the node informer has not seen yet; without them a write is seen
at once. `lostAssign` and `lostNewIPs` are calls that take
effect and return an error.

`Start` models a pool that `updateOrAdd` has just started, `Restart` a new
process (after a crash or a panic) and a new controller after a change of the
match criteria; both begin with nothing known and any IP attached anywhere.

One simplification: the provider of this module knows an action in flight also
after a restart, while the real one starts with an empty map.
`LostAction.cfg` shows what that does, in `DigitalOcean`.

The provider is asynchronous in every run (`Async`), as the only one of the
repository is: `AssignIP` starts an action and answers `ErrInProgress`, also
when an action for the same IP is already in flight to another node
(`digitalocean.go:221-231`, `ip_controller.go:578`). The theorems are for both
kinds of provider.

### IPWhereabouts and Assignment

The controller decides on account of its records: the node that `ipToStatus` has
for an IP. With an asynchronous provider a record can be wrong without anything
having failed, and most of what one would like to say of the controller is then
false (section 3 has the rows). `Truthful` says that every record names the node
its IP is on or on its way to (`Dest`). `strayed` remembers that this failed at
some time since the maps were last empty. It restricts no step. There are then
two kinds of properties:

- `Strays` names every way in which a record comes to be wrong (`LosesTrack`):
  a lookup that creates a status and says nothing of the node, or that says the
  IP does not exist (`BlindLookup`); "in progress" for another node's action
  (`ForeignAction`); a failed assignment of an IP that is attached somewhere
  (`Rollback`, which includes an assignment that was carried out although an
  error came back); an address somebody attached before it was adopted
  (`AdoptTaken`); an action that fails at the provider; an IP moved by somebody
  else. All are answers or actions of the provider or of others. No handler,
  displacement, eviction or removal of the controller itself mixes IPs up.
- `NoSteal`, `NodesAccounted`, `IPsAccounted`, `StatusFresh`, `ServedAnnotated`
  and `KeepsPromise` are promised until then, through crashes, edits and every
  failure that leaves the records right.

`Assignment` has the same exit: `GoAstray`. In the step in which the controller
is first wrong nothing moves, unless that step is an assignment of its own.

### NodeMatch

An informer updates its store and later delivers the event: `nodeStore`,
`podStore` and the two queues. `OnNode` and `OnPod` are the handlers, `RunList`,
`RunUpdate` and `RunPrime` the steps of `run()`. A node is `match` or `plain`
(readiness, labels and taints together), a pod `ready` or `unready`; a node's
reserved-IP annotation is a Boolean that may change. "early" allows nodes and
pods to come, go and change before `run()` is done, "relist" makes an informer
miss a deletion. `RunUpdate` is one step although the code holds no lock there:
a torn map access, which Go reports as a fatal error, is not modelled.

### DNSRecordSet

`zone` holds the records of a zone by identifier, those of the provider's own
name and type ("mine": address, TTL, proxied) and all others ("foreign"). A call
is `Begin`, `List` for a page (DigitalOcean) or for the name (Cloudflare),
`ScanKeep`, `ScanDrop` or `ScanFix` for each listed record, then `Reuse`,
`Create` and `Delete`, then `Return`. Each write may fail with or without
effect; the error selects the schedule (`toRetryError`), and the caller calls
again. "others" are foreign records written by somebody else; "shift" allows that
while the zone is being listed, too.

### NodeDNS

A child is a record: its lock and who holds it, `step` of `applyDNS`, the
current timer, the timers it has forgotten (`lost`) and the fired ones that wait
for the lock (`fired`), and its match controller (`run`, the call it is making,
what it has told the child). `main` is the goroutine of the informer handlers,
which after the shutdown runs the rest of `Run`. `update` and `stop` take the
lock and then wait for the match controller ("join"), as in the code. A call of
the match controller that is under way when `Stop` begins is the event "busy".
An edit counts as "edit" (criteria, record set or validity), "address" (address
type) and "invalid" (the new spec is invalid), whichever apply, and happens only
where all of them may.
A record is, per zone, the set of addresses it holds; zone, name, TTL and
provider of a record set change together. A deletion that the watch missed
reaches `OnDelete` as a "tombstone", for which it dereferences nil
(`nodedns/controller.go:133-139`): `OnDeleteUnknown` ends the process, maybe in the
middle of an update of a record, and a new one starts.

### DigitalOcean

A caller's `call` records where it is (`at`) and on whose behalf `asyncStatus`
and `IPToProviderID` run: a lookup, an assignment, the recheck after a refused
`Assign`, or the loop of `NodeToIP`. Between two API calls, or an API call and
`do.lock`, other callers run. The API itself is external: it refuses an
assignment while the IP or the droplet is busy or the droplet has an IP,
completes it at once or later, and lists the addresses of a droplet. `known` is
what the last answer said; it is not in the code and only serves the properties.

### FloatingIPPools

An instance is one `floatingIPPool` value: its configuration, the states of the
goroutines of its match controller and its ipController, and who holds its lock
while annotating a node. `main` goes through `updateOrAdd`, `OnDelete` and the
end of `Run` in steps that end where it waits for a goroutine or a lock. A
write to `c.pools` during an iteration, a nil lister and a nil pool in
`OnDelete` crash the process, and `Restart` follows. `handled` is the resource
each handler last saw, which only the properties use.

### LeaderElection

Four goroutines of every replica share `childLock`: the one in `l.Run` (`main`),
the one client-go starts for `OnStartedLeading` (`start`), the one that waits
for the context (`shut`), and the children (`running`). client-go's elector is
external: acquire, renew, release on cancel, then `OnStoppedLeading`. A lease
that nobody renews lapses. A child reads `childCtx` when its goroutine is
scheduled (`leaderelection.go:108`); after a failed renewal `OnStoppedLeading` may
have set it to nil by then (line 119), and the process panics (`ChildGetsNil`).
Which of the children have read it is not recorded, so the panic is possible
whenever the callback has come and the children were just started.

## 3. Runs

### Passing

| Run | Bounds | Shows |
|---|---|---|
| `pool_retries` | 1 IP growing to 2, 2 nodes, record or none, 1 of 9 events: failing call or action, lagging node informer, external move | between passes the A record is right or marked dirty, every allocated address is in the spec or pending, queues have no element twice, claims and statuses agree (`DNSFresh`, `AllocatedListed`, `QueueSound`, `ClaimConsistent`) |
| `pool_restart` | 1 IP growing to 2, 2 nodes, 1 of 10 events: crash, edit, failing or lost call | records go wrong only as `LosesTrack` says (`Strays`); until then the IP of an active node is never offered, no node is forgotten, no IP is stranded, status and annotations are published, `IPWhereabouts` implements `Assignment` (`NoSteal`, `NodesAccounted`, `IPsAccounted`, `StatusFresh`, `ServedAnnotated`, `KeepsPromise`) |
| `pool_served` | 2 IPs, 2 nodes, 1 failed action or write, fair | every node that stays is served for good, record and status become complete (`NodesServed`, `RecordComplete`) |
| `pool_takeover` | 1 IP, 2 nodes, 2 crashes, failing or lost calls, failing actions or external moves, cool-off, fair | unless the IP ends up stranded, the node that remains takes it over (`LastNodeServed`) |
| `pool_chaos` | 2 IPs, 1 node, 2 of 9 events, desiredIPs 0 or 1, stale pool informer | `TypeOK`; no map knows an IP outside the pool (`TrackedInPool`); a nil status is dereferenced only in a pass whose context was cancelled (`NoPanic`) |
| `match_settles` | 1 node, 2 pods, 4 changes in 2 scenarios, fair | `EnabledByRecord` in both; `MatchesAll`, `MatchSettles` without annotation changes, early changes and missed deletions |
| `dns_records` | both providers, 2 addresses, 2 TTLs, zones of up to 2 records at the beginning, 6 identifiers, pages of 2, 2 events, fair | both implement `RecordPromise` (`KeepsPromise`), touch only their own records (`OnlyOwn`), write nothing needlessly (`NoNeedlessWrite`) and repair what failed (`Converges`) |
| `node_dns` | 2 nodes, 2 criteria, 2 zones, 2 children, 8 scenarios of 2 events, tombstones included, fair | no node of old criteria is published, the record is right when all is quiet and in the end, a restart takes nothing out of service, `Run` returns (`NoStaleNodes`, `Accurate`, `NoOutage`, `Converges`, `RunReturns`) |
| `digital_ocean` | 2 callers with an IP each, 2 droplets, 2 assignments per IP, 6 scenarios of 1 event, fair | in the undisturbed scenario running assignments are tracked and answers stay true; in all of them nothing stays in progress (`Tracked`, `AnswersHold`, `Settles`) |
| `pools` | 2 pools of which 1 is changed, 3 instances, 6 scenarios of 2 events, fair | no goroutine without a pool, one instance per valid pool that follows its spec, nodes are not forgotten, handlers and shutdown end (`NoOrphans`, `Serves`, `NodesKept`, `Finishes`) |
| `leaders` | 3 replicas of which 1 has no credentials, 3 scenarios of 3 events, fair | children run only under the lease, a signal ends the process, someone leads in the end (`ChildrenHoldLease`, `SignalEnds`, `SomeoneLeads`) |

Why the bounds are enough. Two IPs and two nodes allow every interaction in the
ipController: each step of the pass touches one IP, the node it was on, the node it
goes to and the IP it displaces. One or two exceptional events reach each error
path and, from there, every order of the ordinary steps, which are unbounded.
`pool_chaos` has one node and two events instead, as what edits, old pools and
cancelled passes do to the maps concerns IPs and one node at a time.
Two addresses with two initial records give a kept, an outdated, a duplicate, a
reused and a superfluous record; the identifiers above them let lost creations
and foreign records push the list over two or three pages. Two children let one
be stopped while another, for the same resource, starts. Two callers are the two
sides of every race on the provider's map. Two pools are one that annotates
nodes and one that comes and goes. Two replicas with credentials are a leader and
a successor.

Deadlock is checked in the runs of `IPController`, `NodeMatch` and
`DigitalOcean`. It is not in the others, where the system may stop: a call of
`EnsureDNSARecordSet` that succeeded, a deleted resource or a `Run` that has
returned. There the temporal properties say that nothing stops too early.
Nodes are symmetric in `pool_retries` and `pool_restart`, whose properties are
all safety properties (`Strays` and `KeepsPromise` are about
single steps and treat all nodes alike). `match_settles` has pod criteria, the
harder case; criteria on nodes only are covered by the theorems and by
`MissedDelete`.

Some properties are conditional. `Accurate`, `NoOutage`, `Converges`, `Tracked`,
`AnswersHold`, `Serves`, `NodesKept`, `MatchesAll`, `MatchSettles` and
`ChildrenHoldLease` say in their first line under which events they are claimed;
`NoSteal`, `NodesAccounted`, `IPsAccounted`, `StatusFresh`, `ServedAnnotated` and
`KeepsPromise` end with `strayed`; `LastNodeServed` supposes that no IP ends up
stranded (`IPsOffered`); `NoPanic` excepts cancelled passes. What is left out is
left out because the property fails under it, and has a row below. `DNSFresh` is
also broken by three external moves in a row, after which a displaced IP is
marked `error` without `dnsDirty` (`ip_controller.go:466-476`).

### A violation: what the code does against what the repository says

`stop_deadlock` checks `StopReturns` of `NodeDNS`: "Stop terminates execution
of the node match controller and waits for it to finish"
(`match_controller.go:104`). `update` and `stop` of a NodeDNSRecordSet call
`Stop` with the child's lock held. If the match controller is at that moment about
to call `EnableNodes`, which takes the lock, neither goes on. The trace needs
one edit of the criteria during the bulk enable. It is the finding in
`PROJECT.json`.

### The limits of the passing runs

These configurations are not listed as runs. Each switches on what makes a
property fail, and so marks the limit of what the passing runs show; TLC ends each
with a counterexample. For most of them the repository says otherwise; the words
are quoted.

| Configuration | Module, property | Why it fails |
|---|---|---|
| `InProgressTakeOver` | `MCIPController` `LastNodeAlwaysServed` | "in progress" for an older action is taken for a started assignment (`ip_controller.go:578`). The lookup then finds the IP, known before, on a node that does not match, and nothing puts it back into `assignableIPs` (443-480): the only node that matches waits for ever. `README.md:125` "it assigns IPs to the top candidates (sorted by name) until the quota is met." |
| `EvictedAnnotation` | `MCIPController` `AnnotationTruth` | the same answer annotates the new node (587); the lookup evicts it (481-490) and leaves the annotation. `README.md:126` "If nodes no longer host matching pods or no longer match node criteria, then the annotation is removed" |
| `AssignRollback` | `MCIPController` `NoDisruption` | a failed assignment forgets where the IP still is (`ip_controller.go:562`, 607); the IP is moved off its node although it matches again. `README.md:127` "the controller will only unassign a Floating IP address from a Droplet if that node no longer matches" |
| `NotFoundRecovery` | `MCIPController` `IPsOffered` | an IP that was not found for a while, and is found on a node that does not match, is in no queue. `ip_controller.go:399` "If it recovers, it should be added back." |
| `StaleSpec` | `MCIPController` `AllocatesDesired` | an old pool event drops a new address (`floatingippool_controller.go:215`); another one is allocated in its place. `README.md:65` "Allocates a number of Floating IPs equal to `desiredIPs`." |
| `LostNewIPs` | `MCIPController` `ClaimConsistent` | an address whose recording succeeded with an error is adopted twice (`ip_controller.go:349`) |
| `AnnotatedNode` | `MCNodeMatch` `AlwaysSettles` | an annotation change drops an unready pod without disabling its node (`match_controller.go:327`) |
| `MissedDelete` | `MCNodeMatch` `AlwaysSettles` | tombstones are ignored (`match_controller.go:494`), the node stays enabled; against `README.md:126` |
| `ZoneShift` | `MCDNSRecordSet` `KeepsPromise` | a foreign record deleted between two pages moves one of ours to a page already read (`digitalocean.go:413`). `digitalocean.go:356` "contains all IPs listed in `ips` and no others." |
| `AddressType` | `MCNodeDNS` `UpToDate` | a new address type alone neither restarts nor applies (`nodedns/controller.go:272`). `README.md:110` "Collects the specified address type from each node." |
| `RetryOutage` | `MCNodeDNS` `NeverOutage` | a retry between the restart and the bulk enable applies an empty set (`nodedns/controller.go:388`). `match_controller.go:240` "hopefully avoid disabling or moving nodes which are active but not yet seen" |
| `LateRetry` | `MCNodeDNS` `ChildrenCompleted` | a timer that has fired cannot be stopped and works on after `Run` returned. `nodedns/controller.go:105` "This loop just verifies all children have completed." |
| `AddressOrder` | `MCDigitalOcean` `NeverPanics` | `NodeToIP` starts at the last address and counts up (`digitalocean.go:281`). Line 280: "There's nothing explicitly saying the order of IPs, but it seems the FLIP is normally second." |
| `LostAction` | `MCDigitalOcean` `AnswersAlwaysHold` | after a restart a lookup does not wait for the assignment that still runs |
| `MapRace` | `MCFloatingIPPools` `NoRaces` | `getNodeFromPools` reads `c.pools`, and listers not yet set, without the lock (`floatingippool_controller.go:332`) |
| `Tombstone` | `MCFloatingIPPools` `NoTombstone` | `OnDelete` dereferences nil for a deletion that was missed (`floatingippool_controller.go:156`) |
| `EarlyMatch` | `MCFloatingIPPools` `NodesAlwaysKept` | nodes enabled before `updateProviders` are forgotten by `reset` (`ip_controller.go:171`). `ip_controller.go:85` "It is the source of truth for which node providerIDs are active." |
| `LostLease` | `MCLeaderElection` `OneLeader` | a leader that cannot renew stops its children after the lease is gone (`leaderelection.go:112`). `README.md:26` "Ensures only one active control loop per cluster." |

The same can be seen for these without a file of its own, by giving the named
events to a configuration of the module (for `IPWhereabouts`, with the property
stated without `strayed`):

| Module, property | Events | Why it fails |
|---|---|---|
| `IPWhereabouts` `IPsAccounted` | none | the IP of `InProgressTakeOver` is no-match and not offered |
| `IPWhereabouts` `NodesAccounted` | none | as there, but the first node matches again before the lookup, which gives it the claim and leaves it in `assignableNodes`: the IP was known before (`ip_controller.go:443-490`) |
| `IPWhereabouts` `NoSteal` | none | as there, and the second node stops matching too: the claim of the first names an IP that stays offered (`ip_controller.go:443-480`) |
| `IPWhereabouts` `NoSteal` | none, more IPs listed than `desiredIPs` | a node that holds an IP beyond `desiredIPs` is refused another one, and the rollback (`ip_controller.go:562`) forgets where the IP still is, so it stays offered when its node comes back |
| `IPWhereabouts` `KeepsPromise` | `asyncFail` or `move` | an action that fails, or somebody else, moves an IP back or away: nothing the controller did |
| `IPWhereabouts` `KeepsPromise` | `cancel` | `updateProviders` empties the maps of a controller whose pass was cancelled while nodes stay matched (`ip_controller.go:171`), as in `EarlyMatch`; `Assignment` has no such step |
| `IPWhereabouts` `StatusFresh` with the node of every state | none | a new node is not published when the state stays in-progress (`ip_controller.go:616`); the property claims the node only for states that come from a lookup |
| `IPWhereabouts` `ServedAnnotated` | `lag` or `annotate` | `annotationUpdater` compares with the informer's node (`floatingippool_controller.go:354`), and a failed patch is not retried |
| `IPController` `AnnotationTruth` | `lag` | a removal is skipped when the annotation is not there yet (`floatingippool_controller.go:354`) |
| `IPController` `AnnotationTruth` | `lookup` | a failed first lookup creates the status, and the next one takes the IP for initialized (`ip_controller.go:447`) |
| `IPController` `AnnotationTruth` | `crash` | nobody removes the annotation of a node that stopped matching while no controller ran (`ip_controller.go:664`) |
| `IPController` `NodesServed` | `edit`, fair | a node whose IP was taken off the list cannot get another (`ip_controller.go:224`) |
| `IPController` `AllocatedListed` | `crash` | a pending address is in memory only (`ip_controller.go:318`) |
| `IPController` `pc # "panicked"` | `cancel` | after a cancelled `reconcileIPStatus`, `reconcileDNS` reads a nil status (`ip_controller.go:629`) |
| `NodeMatch` `AlwaysSettles` | `node`, `early` | a node deleted during `run()` is enabled for good (`match_controller.go:233`) |
| `NodeMatch` `AlwaysSettles` | `pod`, `early` | a pod that goes before the bulk enable leaves its node enabled (`match_controller.go:413`) |
| `NodeDNS` `UpToDate` | `missed`, `create` | the child of a resource whose deletion was missed writes to the same record set |
| `NodeDNS` `UpToDate` | `status` | a status update that fails is not repeated |
| `NodeDNS` `DeletedIsLeftAlone` | `dns`, `delete` | a forgotten timer applies the record set of a deleted resource |
| `NodeDNS` `UpToDate` | `dns`, `delete`, `create` | a retry of the deleted resource writes the record of the one created after it |
| `NodeDNS` `UpToDate` | `dns`, `edit`, `invalid` (3 events) | a retry that has fired outlives the stop of a child whose spec was invalid for a while, and writes its old nodes over the record of the next child (`nodedns/controller.go:408`) |
| `NodeDNS` `NeverOutage` | `early` | a node disabled before the bulk enable applies a set without the others (`nodedns/controller.go:313`) |
| `DigitalOcean` `InUseMeansInUse` | `pending` | `AssignIP` asks for the IPs of the node that has the IP, not of the one that gets it |
| `FloatingIPPools` `OneInstance` | `delete`, `missed` | a deletion that was missed leaves the old pool next to the new one |
| `FloatingIPPools` `DNSProviderCurrent` | edits of the record set's provider | that alone is not a change of provider |
| `FloatingIPPools` `HasDNSProvider` | a spec with an unknown DNS provider | `validate` falls back on the IP provider, `updateOrAdd` does not |
| `LeaderElection` `NoLateStart` | `renew` | `OnStartedLeading` may come after `OnStoppedLeading` |

The liveness runs leave one combination out: with an asynchronous provider, a
failed `AssignIP` and a node that goes on flapping for ever, the flapping node
renews the wait of an IP that is really attached to another node, and no
lookup finds out.

### Fairness

Nothing is ever assumed of users, nodes, failures or the order in which
goroutines are scheduled, only that each goes on. Go's mutex does not starve a
waiter: a step that needs a mutex which is free again and again, but not
continuously, gets strong fairness; other steps of a goroutine get weak
fairness.

- `IPController`: weak for the goroutine (its timer is always set while
  something waits, and every pass ends), elapsing time, the end of a provider
  action and the loop of `updateIPs`; strong for `UpdateIPs` and
  `UpdateDNSSpec`, which need the mutex.
- `NodeMatch`: informers deliver and resync (every five minutes in the code),
  and `run()` goes on.
- `DNSRecordSet`: the goroutine goes on (`Provider`) and calls again after an
  error (`Again`: a retry timer or the next pass).
- `NodeDNS`: strong for the main goroutine, the match controllers and the retry
  goroutines, which compete for a child's lock; weak for timers and for the
  holder of the lock (`Apply`).
- `DigitalOcean`: assignments end, API calls are answered, a panicked process
  restarts (Kubernetes does that), and the pool looks every IP up again and
  again, as reconcile passes do.
- `FloatingIPPools`: weak for the main goroutine and those of an instance,
  strong for the three steps of the main one that need an instance's lock.
- `LeaderElection`: weak for processes, callbacks, the lapse of a lease nobody
  renews, and the acquisition of a free lease by some replica.

## 4. Proofs

All proofs are for any values of the constants (IPs, nodes, records, replicas,
page sizes, any number of events) from the named assumption on the constants in
each module.

`OrderedSetTheorems`: what `Delete`, `AddFront`, `AddBack`, `Tail` and
concatenation do to the elements and the uniqueness of a queue.

`IPControllerProofs`:

- `TypeCorrect`: `Spec => []TypeOK`.
- `QueuesSound`: `Spec => []QueueSound`, under all events. `QueueSound` is not
  inductive by itself: `reconcileAssignment` keeps elements in its retry lists
  and puts them back at the end, which is only sound if they are tracked,
  active, without repetition and in no queue (`RetrySound`), and if no handler
  runs in between (`LockSound`).
- `Inductive`, `ClaimsConsistent`, `OnlyPoolTracked`, `NeverPanics`: if
  `lostNewIPs` does not happen, `IInv`, `ClaimConsistent`, `TrackedInPool` and
  `NoPanic` always hold. The invariant adds `PoolSound` (tracked IPs are in the
  pool or being removed), `PendingFresh` (a pending address is in no list and
  untracked, which is what a lost answer breaks) and `ScanComplete` (what the
  lookup loop has passed has a status). `LostNewIPs.cfg` shows that the
  assumption is needed. `NoPanic` excepts cancelled passes, for the reason in the
  table above.
- `NoneLeaked`: `AllocatedListed`, for a pool that is `Unedited` and does not
  crash. `Unedited` says that nobody edits the pool, its informer is not stale,
  no answer to `onNewIPs` is lost, no pass is cancelled, and the pool lists the
  addresses that point at nodes and not more than `desiredIPs`. Whatever the
  provider does, `PoolInSync` then holds: `ips` is the list in the spec, and an
  address that was created and not recorded yet is pending.
- `WhereaboutsKnown`: `WhereInv`, for an asynchronous or synchronous provider and
  under every event but `lostNewIPs`. The invariant says that unless the
  controller has strayed, every record names the node its IP is on or on its way
  to (`Truthful`), and records, claims and queues agree (`Placed`): the claim of
  the node in a record names the IP back, the IP is offered exactly when that
  node is not active, and an active node is queued exactly when it has no
  claim, where queued and offered include what the pass under way has put off
  (`retryIPs`, `retryProviders`). `NoSteal` alone is not inductive: an IP is
  offered on account of its record, so the proof needs that the claim names the
  record back, and that a lookup of a truthful record moves nothing between
  nodes. The proof reduces every step to what it does to the records and to the
  queues, and treats each kind once.
- From it `NothingStolen`, `NoNodeForgotten`, `NoIPStranded` (`NoSteal`,
  `NodesAccounted`, `IPsAccounted`) and `StraysListed` (`Strays`), under the same
  events. For `StraysListed` every action but those of `LosesTrack` is shown to
  keep `Truthful`; the provider never lets two IPs be on or on their way to one
  node.
- `PromiseKept`: `HSpec => KeepsPromise`, the refinement of `Assignment`, without
  `move`, `asyncFail`, `cancel` and `lostNewIPs`. The step that matters is
  `AssignIP`: by `WhereInv` the IP is offered because its node does not match,
  and the node that gets it is queued because it has none. It also needs that
  the active nodes are the matching ones whenever a pass runs.
- `StatusIsFresh`: `StatusFresh`, without `cancel` and `lostNewIPs`. The
  invariant says that what differs from the published status sets
  `updateStatus`, or will before the pass ends.
- `AnnotationsServed`: `ServedAnnotated`, without `lag`, `annotate` and
  `lostNewIPs`; crashes, failed lookups and moves are allowed. Informer and API
  server then agree, and a claim comes with its annotation.
- `RecordIsFresh`: `DNSFresh` if nobody moves IPs, cancels passes or loses
  answers to `onNewIPs`; edits, crashes, an asynchronous provider and failures
  of all its calls are allowed. `RecordInSync` says that an active IP is where
  the status says, with no action running, that no two IPs are on or on their
  way to one node, so that an assignment never displaces an active IP unnoticed,
  and that whatever changes the active IPs sets `dnsDirty`.

Where section 3 has a row for an event that `Unedited` or a theorem excludes, the
property fails under it. Two exclusions are the proofs' own: `lostNewIPs`, of
which one does no harm but two break `ClaimConsistent`, and `cancel` in
`StatusIsFresh` and `RecordIsFresh`, for which TLC finds no counterexample with
one cancelled pass.

`NodeMatchProofs`: `MatchTypeCorrect` and `EnabledFollowsRecord`: whatever the
events and however `run()` races, only nodes recorded as matching are enabled
and, once primed, every node recorded as matching with a ready pod is. The
invariant adds what holds before priming (`EnabledByBulk`). The argument is one
lemma about the outcome of any handler (`SoundOutcome`) and one per handler.
`ExactlyMatchingEnabled`: `Spec => []MatchesAll`, with the invariant `InSync`
for scenarios without annotation changes, early changes and missed deletions.
The annotation in a node's record, in the events on their way and in the store
is the same unless the node goes in between (`NotesAgree`); the last event of a
pod tells its state, which the node's record has once no event is left
(`PodsAgree`); until the bulk enable only labels change, so all agree with the
store (`BeforeBulk`).

`DNSRecordSetProofs`:

- `RecordTypeCorrect`, and `OnlyOwnTouched`: `Spec => []OnlyOwn` under all
  events, writes of others during the listing included.
- `RecordsPromised`: without `shift`, `Spec => KeepsPromise`, that is, both
  providers implement `RecordPromise`. The refinement needs the invariant
  `IInv`. `ListSound` says that the pages cut the zone without overlap or gap;
  this rests on the positions of the records not moving while the zone is
  listed (the lemmas about `Position`), which `shift` breaks (`ZoneShift.cfg`).
  `KeepSound` says that every wanted address is either still missing or has a
  record among those kept, and that no record to be deleted holds a missing
  address. From the first follows that a returning call has the exact set, from
  the second that reusing and deleting take no wanted address out of service.
  `IInvStep` shows the invariant and `PromiseStep` that every step is a step of
  the promise or a stutter.
- `NothingRewritten`: without `shift`, `Spec => NoNeedlessWrite`. With as many
  records as addresses no two records have the same address
  (`OnePerAddress`), so by `KeepSound` none is left to delete or reuse, and none
  is missing.

`LeaderElectionProofs`: `ElectionTypeCorrect`; `LeaseCoversChildren`
(`Spec => []ChildrenHoldLease`) and its consequence `NoTwoLeaders`, as long as
leases can be renewed. The invariant `LeaseHeld` carries the order of the
shutdown: the leader's context is cancelled only after the children have ended
and after the context of `OnStartedLeading` is done, so that its late goroutine
starts nothing. One lemma (`ReplicaStep`) reduces a step to the new state of the
one replica that takes it. `ChildGetsNil` is possible only after a failed
renewal, and takes the children with it.

`NodeDNSProofs`: `ChildrenTypeCorrect`, and `StaleNodesForgotten`
(`Spec => []NoStaleNodes`) under all events. The invariant `ChildSound` adds
that a child that was never updated does nothing, that one without a match
controller has no nodes, and that a call on its way to the child enables only
nodes its criteria select. The last part is what `update` relies on when it
waits for the old match controller before it forgets the nodes and starts the
next. `RecordInductive` is the invariant behind `RecordsAccurate`
(`Spec => []Accurate`) and `RestartDisturbsNothing` (`Spec => NoOutage`):

- `ChildrenFit`, under all events: `applyDNS` runs under the lock of a call or
  of a timer, and a child has the nodes it was told but for a call on its way.
- `OneHand`, unless a deletion is missed or retries outlive their child
  (`Tame`): there is one child at a time, and while there is a resource no
  stopped child has a retry left. This is what keeps others from the record.
- `RightRecord`: the child has the address type of the resource, and once it is
  told all, its last update of the record was right or a retry is due.
- `FullRecord`: with steady nodes, a child that is about to write the record
  has all the matching nodes, by the bulk enable or as a retry of it.

The steps are first reduced to what they do to the fields of a child
(`StepIs`); each part of the invariant then has one lemma per kind of step. A
process that dies at a tombstone starts again with no children, and may have left
an update cut short (`DiesSound`, `DiesFits`, `DiesTame`).

`FloatingIPPoolsProofs`: `NothingLeftBehind` (`Spec => []NoOrphans`) under all
events. `HandlerSound` says that the handler works on an instance in the map,
and that the match controller has ended when it waits for the ipController, so
both have when it deletes the instance. `NodesStayKnown` and `EachPoolServed`
(`Spec => []NodesKept`, `Spec => []Serves`) add `UIDsApart` (every resource has
a UID of its own, and no instance has one that is yet to be given out),
`NodesInSync` (every instance but the one being configured has the provider and
region of its resource, so that the maps are reset only before the match
controller is live) and `ServedInSync` (every instance that the handler leaves
alone runs, and every resource is served as the handler last saw it).

`DigitalOceanProofs`: `AssignmentsTracked` and `AnswersStayTrue` (`Tracked`,
`AnswersHold`), under `Undisturbed`: no IP is in two pools and none of the events
happens under which they fail. The invariant says of the droplets that each has
or is getting at most one IP
(`Exclusive`), of an IP that an assignment in progress is recorded and that
nothing is known while one runs (`IPSound`), and of a call that it has waited
for the assignment of its IP before it goes on (`CallFits`). As pools are
disjoint, a step of one caller leaves the IPs of the other calls alone
(`OtherCalls`), which is why asyncStatus may release the lock between reading
and dropping an entry.

Only model-checked:

- The liveness properties (`NodesServed`, `RecordComplete`, `LastNodeServed`,
  `MatchSettles`, `Converges` twice, `RunReturns`, `Settles`, `Finishes`,
  `SignalEnds`, `SomeoneLeads`): TLAPS does not do fairness and `ENABLED`.
- The properties of `pool_restart` under one `lostNewIPs`. Conversely, what the run
  leaves out of them (`move`, `asyncFail`, `stale`, `cancel`, two events) is shown
  by the theorems, as far as they go.

## 5. Not modelled

- A change of the cool-off alone, which shifts `nextAssignment`; all waits are
  flags, so their lengths and the durations of the retry schedules are not in
  the models.
- The status that `validate` writes with each validation error
  (`floatingippool_controller.go:225-256, 261-273`).
- Counters, messages and metrics; they are read-only or for people.
- Label, taint and condition predicates, and the parsing of addresses and
  provider IDs: their outcome is what the models choose from.
- Command-line flags, logging, context metadata, generated clients, mocks and
  test fixtures.
- The Kubernetes client libraries and the APIs of the providers, except as the
  code uses them.

## 6. Plan

1. `IPWhereabouts`: the theorems under at most one `lostNewIPs`, for which
   `PendingFresh` has to admit one address that is listed and still pending.
2. `IPController`: `DNSFresh` under moves, with a bound on how many of them fall
   between two passes.
3. `LeaderElection`: which children have read their context.
