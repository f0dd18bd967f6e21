# TLA+ models of PyRP

PyRP is a software router made of three HTTP services: a control plane, a RIPv1 service and an SLA
service. Each keeps route tables; the control plane collects routes from the protocols
("redistribute out") and hands them back to RIP ("redistribute in"). These modules model the tables,
the handlers that change them and what happens between the services, check them with TLC on small
instances and prove the central invariants with TLAPS for all instances.

## The system

| Part | State | Operations | Talks to |
|---|---|---|---|
| RIP instance (`src/src/rp_rip1/main.py`, `src/api_rp_rip1.py`) | `_learned_routes`, `_redistributed_routes`, `_rib` | packets in, periodic and triggered responses, `redistribute_in`, `redistribute_out`, `refresh_rib`, housekeeping (`check_routes`) | neighbours over UDP broadcast; the control plane, by a `redistribute` call in a task nobody awaits |
| Control plane instance (`src/src/control_plane/main.py`, `src/api_control_plane.py`) | `_static_routes`, `_rib` | `redistribute`, `refresh_rib`, best routes | RIP and SLA services over HTTP, blocking |
| SLA instance (`src/src/rp_sla/main.py`, `src/api_rp_sla.py`) | configured routes with status and time of evaluation | `evaluate_routes`, deletion, `redistribute_out` | pings its next hops |
| Route tables (`src/src/generic/rib.py` and subclasses) | a set of routes, equal by key | add, remove, import, export | used by all three |
| Indexed RIB (class `RIB` of `src/src/generic/rib.py`) | a set of entries and three dictionaries | add, remove, remove by source, search | used by no service yet |
| Registries (`protocol_instances`, `LATEST_INSTANCE_ID` of each `api_*.py`) | instances by id | create, delete, look up | the control plane creates instances in the other services |
| Forwarding plane (`src/src/fp_interface/main.py`) | none | ping, send, listen | sockets |
| Clients, configuration, monitor | none that outlives a call | | |

What is hard in it:

* **A copy with two sources.** RIP's `_rib` is rebuilt from the learned and the redistributed routes
  at some of the steps that change them, not at others, and not when a handler raises in the middle.
* **A key that does not follow its fields.** `Route.__init__` fixes a route's hash; RIP sets the next
  hop of a received route afterwards.
* **Threads.** The endpoints of the control plane and of the SLA service are plain functions: FastAPI
  runs them in a thread pool. Nothing keeps two `redistribute` calls, or two evaluations, apart.
* **Failures half way.** An HTTP call in the middle of `redistribute`, a socket error in the middle of
  `evaluate_routes`, a prefix without a class in the middle of `redistribute_in`.
* **A loop through two services.** A dead RIP route leaves RIP's own RIB only because the control
  plane, told of the change, posts a body back; and it leaves the control plane's only with the
  second of two such calls.
* **No split horizon.** Routers advertise a route on the segment they learned it from, the broadcast
  comes back to its sender, and packets are lost, repeated and reordered.
* **Construction across services.** A control plane makes its SLA and its RIP instance over HTTP before
  it is registered itself; nothing is undone when a step fails.

## Modules

### `Rib`: what the tables are

`Route.__eq__` and `__hash__` look only at a key, so a table is a function from keys to the rest of a
route. `ImportRoutes` is `set.union` (the left operand's element wins: an import never updates),
`TablesOf` is what adding pairs in an unknown order can leave, `BestSelections` the selection loop of
`export_routes` and `redistribute_out`, in which ties go to whichever route the iteration meets first.

### `RipTables`: what RIP computes

The stateless helpers of the RIP handlers, over the constants that describe prefixes, hops, timers and
redistribution: what a packet teaches (`ReceivedRoutes`), what the RIB is rebuilt to (`Refreshes`), what
is advertised (`Responses`) and offered (`Offerable`), what a body installs (`Installed`), what
housekeeping leaves (`CheckedRoutes`). `RipInstance`, `RipNetwork` and `Node` are built from them.

### `RipInstance`: one RIPv1 instance

`learned`, `redistributed` and `rib` are the three tables; `sent` the content of the last response;
`triggers` the outstanding `redistribute` tasks; `posted` (history) the last body received.
The service is one asyncio loop and no handler awaits anything that suspends between its first and
last state change (the `asyncio.Lock` guards sections without an `await` in them and is never
contended), so **every handler is one atomic action**:

| Action | Code |
|---|---|
| `HandleResponse` | `handle_udp_bytes` for a RESPONSE: learn, `refresh_rib`, trigger, answer a poisoned route |
| `SendResponse` | `send_response`: advertisement, endpoint, answer to a REQUEST |
| `InstallOffer`, `FailOffer` | `redistribute_in`; the second when a prefix has no class and `classful` raises |
| `OperatorRedistribution`, `TriggeredRedistribution` | where the body comes from |
| `LoseTrigger` | the task's HTTP call fails, its exception is never read |
| `RefreshRib` | the `routes/rib/refresh` endpoint |
| `CheckRoutes` | a round of `check_routes`; its `self.refresh_rib(...)` is not awaited and does nothing |
| `Tick` | time |

A learned route is kept under its *wire key* (network, next hop in the packet), because that is what
its hash was computed from; `hop` is the next hop it really has. When `refresh_rib` exports and
imports it again, it gets the key of the real next hop (`RibKey`).

Abstracted: addresses (prefixes and networks are model values, `Classful` a function that may be
undefined), packet bytes, the wall clock (ages up to one more than the garbage timeout).

### `ControlPlane`: overlapping calls

Each thread goes through the steps of `redistribute` or `refresh_rib`: replace `self._rib`
(`Begin`), then per source `Fetch`, `ImportRead`, `ImportWrite`, then `Export` and `Post`. Reading
`_table` and assigning the union are two steps, for `import_routes` is not atomic. An assignment to a
`CP_RIB` that another call has replaced is lost; the snapshot is then `Orphaned`. `FetchFails` and
`PostFails` are `raise_for_status`. `refresh_rib` ends after the static routes: the client method and
the endpoint it calls next do not exist, with a protocol enabled it always raises (the model has at
least the SLA or the RIP protocol enabled whenever it makes that call).

### `SlaInstance`: evaluation in threads

`status` and `age` per configured route; a thread takes the routes (`BeginEvaluate`), passes over
those evaluated lately (`SkipRoute`), blocks in a ping (`StartPing`), and assigns the status
(`EndPing`) and the time (`Stamp`), whatever other threads did meanwhile. `PingBreaks` is a socket
error that is not a timeout: it leaves `evaluate_routes`. `answers` collects what the ping may come to
while the path changes under it. A ping takes the first ICMP packet of its next hop for its answer,
so while another ping of the next hop is out, its late answer may be taken too (`Overheard`). Next
hops are assumed to send ICMP only in answer to an echo, within the socket's timeout or never.

### `IndexedRib` and `RouteSet`

The class `RIB`: `entries` and, per indexed field, a dictionary from values to sets of entries.
`RouteSet` is its abstract specification: a function from an entry's identity to the entry that came
first. `IndexedRib` implements it four times over, by the set and by each dictionary
(`INSTANCE RouteSet WITH routes <- Identified(...)`): a step that leaves a dictionary with an entry the
abstract table would not have, if only for a while, is an error.

### `RipNetwork`: routers on a segment

Per router the three tables; `flight` is the set of packets on the segment. A packet in flight may be
heard by any router, its sender included, any number of times and in any order until it is lost
(`Hear`, `Lose`). `ListenersDie` is an exception that ends the listening tasks: the router goes on
advertising. Triggers and what they make the control plane post are left out; it posts any of its
bodies whenever it likes, or never (`RedistributeIn`): `InstallBody`, or `FailBody` where a route raises,
as in `RipInstance`. A network goes on the wire as its address (`OnWire`) and each router makes a network
of it again (`Heard`), the same one but for the default route.

### `Node`: a control plane and its RIP instance

`Cp == INSTANCE ControlPlane` and `Rip == INSTANCE RipInstance` side by side; each action of `Node` is a
step of one of them or of both. What `ControlPlane` leaves open, RIP's answers, is computed from the RIB
of `RipInstance` (`RipOffers`); what `RipInstance` leaves open, the bodies, are those the control plane
posts (`RipHandlesBody`); a trigger becomes a call that a thread serves (`TriggeredCall`). RIP has
installed a body before the control plane has the answer (`EndCall`). `cause` and `handled` tie a
thread to the trigger it serves. A call that fails on its way is `CallFails`, one that never reaches the
control plane (refused, or 404 before it is registered) `LoseCall`. The SLA instance is a set of routes that
changes (`SlaChanges`). `failed` and `overlapped` are histories.

### `Lifecycle`: registries

Per service `instances` and `latest`; a thread's creation goes SLA (named, then registered), RIP (one
step, it is a coroutine), `/run`, registration, `LATEST_INSTANCE_ID`. `CreateFails` ends it at any call,
before or after the service did its part, and undoes nothing. Deletion is three statements in the
control plane and in SLA and one step in RIP, where `"latest"` is not resolved and deletes nothing.
Deleted RIP instances stay in `running`: nothing stops their tasks. `BeginNew` is `instances/new` of SLA.

### `Classful`: the address arithmetic

`RIP1_Route.classful` on addresses of `Width` bits, as the code has it: `supernet`, and where that raises
the network address with the length of the class; a class D address raises. `Block(n)` is the number of
addresses of a prefix of length `n`, a power of two. `Journey` is the specification of a prefix on its
way: into the RIB of its origin (`RedistributeIn`), from RIB to wire to RIB, where only the address
travels (`HandleResponse`), and on to another prefix (`Reconfigure`).

### Slips

Operators marked "Slip for ..." are plausible mistakes in the code beside them (a dropped cap, an
import left out, a swapped order). They are used by no specification; substituted for the operator
they stand before, each makes a property below fail.

## Runs

| Run | Properties | Instance | States |
|---|---|---|---|
| `RipSafety` | `TypeOK`, `RibTracksLearned`, `ReplacesOldSet`, `PoisonPassedOn`, `ForgetsLearned` | two networks (of the one RIP learns and is given routes, of the other it is given some), four prefixes (two in one network, one without a class), two neighbours and the router itself; six packets, four bodies; infinity 3, timeouts 1 and 2; calls may be lost | about 69,000 |
| `CpCalls` | `TypeOK`, `NothingOutdated`, `AloneIsComplete` | two threads, one static route, one route per protocol that comes and goes, failing calls | about 177,000 |
| `SlaOffers` | `TypeOK`, `AllEvaluated`, `OffersFollowPaths` | two threads, a prefix with a better and a worse route, one next hop slow at times, one out of reach at times | about 71,000 |
| `IndexedRibAgree` | `IndexesAgree`, `SearchAgrees`, `SourceGone`, `ImplementsRouteSet` | eight entries sharing fields, two pairs equal but for the metric | 144 |
| `RipNetwork` | `TypeOK`, `AtLeastDistance`, `NearestOriginUndisturbed`, `DeadRoutesDie`, `RoutesComeBack` | two routers, one network with one origin that comes and goes, one of whose bodies raises half way; infinity 4, timeouts 0 and 1, a packet of each router in flight, own messages accepted | about 163,000 |
| `Node` | `TypeOK`, `RedistributionArrives`, `DeadRoutesLeave`, `GoodRoutesArrive`, `RibForgetsLearned`, `LoopEnds`, `AnswersRip` | one neighbour announcing and poisoning a route, a static route, an SLA route that comes up, one thread, two triggers at once, calls that fail and calls that do not get there | about 108,000 |
| `NodeOverlap` | `DeadRoutesAwaitRepair`, `DeadRoutesLeave`, `GoodRoutesArrive` | the same neighbour, two threads, one of which serves operators as well as RIP, two triggers at once; no static route, no SLA route, no failing call | about 175,000 |
| `Lifecycle` | `TypeOK`, `PartsStandBehind`, `LatestResolves`, `RunningFindsOwner` | two threads, two ids, failures at every call | about 623,000 |
| `Classful` | `SubnetsCovered`, `MergesWithinNetwork`, `NetworksAgree` | all prefixes of six-bit addresses, classes of three, four and five bits | 351 |

What they show:

* `RibTracksLearned`: whatever the order of packets, redistribution, failures and housekeeping, each
  learned route has a RIB entry; if that is a RIP route its metric is the learned one, unless
  housekeeping has marked the learned route down since.
* `ReplacesOldSet`: after a body that could be installed, the foreign routes of the RIB are exactly those
  of that body. `FailOffer` breaks `_redistributed_routes` without touching `_rib`; the property says
  what a later success restores, not what holds in between.
* `PoisonPassedOn`: the response to a poisoned route carries it at infinity, or the metric of another
  route the RIB still has.
* `ForgetsLearned`: after the neighbours fall silent their routes leave the learned table, whatever is
  lost and whichever bodies fail. `RibForgetsLearned`: they leave the RIB as well, by way of the control
  plane, unless the call that should have seen to it was lost; then they do with a later call.
* `NothingOutdated`: no overlap and no failure of calls brings back a route that no protocol has offered
  since a call last began alone. `AloneIsComplete`: a call that no other overlapped posts the whole RIB,
  with the static routes and all that was on offer throughout.
* `AllEvaluated`: an evaluation that gets to its end leaves every route with a status, whatever others
  evaluated, deleted or broke off meanwhile. `OffersFollowPaths`: once paths settle, calls keep
  coming and pings of one next hop no longer overlap, the offer is, for good, the best routes that
  answer, whatever older, overheard or broken pings left behind.
* `IndexesAgree`: the three dictionaries and the set hold the same entries, the metric of equal entries
  included; `ImplementsRouteSet`: each of them is the abstract table; `SearchAgrees`: a search finds what
  the dictionaries have in common for its arguments, where that is not nothing, and everything where it
  has none. (What it does with arguments that nothing matches is among the disagreements below.)
* `AtLeastDistance`: no echo makes a router believe to be nearer to a network than one link from an
  origin of it. `NearestOriginUndisturbed`: the nearest origin goes on advertising its own metric, also
  where it hears itself and learns its network back under the key of its own route: the redistributed
  routes are imported first, and `set.union` keeps them. A body that raises half way (`FailBody`) leaves
  the RIB as it was and the router `behind`: until its RIB is rebuilt it may not advertise a route that
  it was given, and the property says nothing of it. `DeadRoutesDie`: when its last origin is gone, a
  route that routers hold for each other ends at infinity everywhere and stays there, also at a router
  that went deaf (by its timeout). It need not be forgotten: poisoned routes are answered with poisoned
  routes, which keeps them young. `RoutesComeBack`: a live network keeps coming back to every router that
  listens, through poison and stale packets; it need not stay, for routes heard from two routers replace
  each other. Both hold if no RIB stays out of date for good (`RibsFollow`), and TLC finds both violated
  without that: nothing in a RIP instance refreshes the RIB after a body that raised or after
  housekeeping, if it hears nothing and is posted nothing more. The condition is met, for one, by an
  origin that has gone deaf, has an up-to-date RIB and is never posted another body.
* `RedistributionArrives`: when a call that no other overlapped ends, the foreign routes of RIP's RIB
  include the static ones and all that was on offer throughout, and none that was not offered since the
  call began. `DeadRoutesAwaitRepair`, `DeadRoutesLeave`: the call that is triggered when a route is
  marked down imports it into the control plane once more, because RIP rebuilds its RIB only at the end
  of that call; the call triggered when the route is removed takes it out. That housekeeping has two
  stages is what makes this work, and each of the two calls is needed. So it works by itself only while
  no call fails and **no two calls overlap**: the endpoint is a plain function, which the pool serves in
  several threads, and with two of them TLC finds a dead route put back to stay. One call fetches it, is
  passed by the two that remove it, and then imports it into the RIB of the last. What does hold with
  any overlaps and failures is that dead routes leave for good if calls go on being made.
  `GoodRoutesArrive` holds after any number of failures, since each announcement triggers anew, but it
  needs calls to stop overlapping: while they do, each may replace `self._rib` before the import of what
  the other has fetched (`control_plane/main.py:132`, `:147`), for ever, and a route that all the while is on
  offer is never in the control plane. `LoopEnds`: the two services do not keep each other busy.
  `AnswersRip`: the fairness that `RipInstance` assumes of its control plane is met by `Node`.
* `PartsStandBehind`: a control plane one can call has its parts, and RIP runs, however creations overlap
  or fail. `LatestResolves`: `LATEST_INSTANCE_ID` dangles only when a deletion came between registration
  and naming and, in SLA, during and after a construction that raised. `RunningFindsOwner`: a RIP
  instance that calls its control plane too early finds it later, or creation failed, or it was deleted.
* `NetworksAgree`: all routers know a network under one name; the default route alone becomes the first
  class A network beyond its origin. `SubnetsCovered`: a prefix within a classful network is covered by
  it; one that is shorter shrinks to its first network. `MergesWithinNetwork`: two prefixes become one
  route exactly when they start in the same network.

Each of the other runs has one property, a sentence of the documentation, that the code does not meet:

| Run | Property | What TLC finds |
|---|---|---|
| `RipStaleOffer` | `OffersOnlyGoodRoutes` (`ARCHITECTURE.md`: only "valid, good routes") | a route housekeeping marked down stays in the RIB with its old metric and is offered |
| `RipWireKey` | `OtherRoutersKept` (`intrinsic_fields`: prefix and next hop) | a route from one neighbour displaces that from another |
| `CpOldSet` | `RipHasNewSet` (`rp_sla/main.py`: all routes, and the new set replaces the old) | two overlapping calls leave RIP with an older or partial set |

Other disagreements, met while modelling and part of the models, with no run of their own:

* `refresh_rib` of the control plane calls methods that do not exist after it emptied the RIB, and so
  loses the routes of the protocols (`ARCHITECTURE.md:39`: propagation "is always enabled and assumed").
* A socket error other than a timeout ends `evaluate_routes` with routes unevaluated (its docstring:
  "will evaluate all routes"); a ping takes the late answer to another ping of its next hop for its own.
* A search of the class `RIB` with arguments that no entry matches returns every entry
  (`generic/rib.py:134`, `:157`); its docstring has it return the entries that match and all of them "if no
  arguments are given" (`:121`, `:144`). `Search` has it as the code does, `SearchAgrees` leaves it out.
* A router that originates the default route and hears its own broadcast keeps the echo as 0.0.0.0/8 and
  advertises the address 0.0.0.0 twice in one packet, as its own route and as an echo; a receiver keeps
  whichever comes last, which may be the poisoned one every time. `RoutesComeBack` leaves out networks
  whose address more than one network has.
* `delete_instance` of RIP does not know `"latest"`; `instances/new` of SLA passes the administrative
  distance and the measure interval in the wrong order.

### Bounds

Named bounds: `MaxTriggers` (outstanding `redistribute` tasks; one or two suffice, the control plane's
answers do not depend on their number), ages capped one above the garbage timeout and, in the SLA
module, one above the interval (older ages are treated alike by every comparison in the code),
`MaxMetric` 3 instead of 16 (a metric below, at and beyond infinity, and one that reaches it by the
link cost, all occur). Two threads are enough for every pairwise overlap. Two neighbours and two
networks give a collision of keys, a route that is better, and a network that is left alone. The three
packets of the runs `RipStaleOffer` and `RipWireKey` are enough for their traces. In the
SLA runs the interval is 0 ticks: a route is due again after one tick. The control plane run is
symmetric in its threads and checks safety only.

`MaxFlight` (packets of one router in flight, in `RipNetwork`) is one: as a packet may be heard again
long after it was sent and tables have changed since, stale and repeated packets occur with one, and
what a router sends while its packet is still out is lost. Infinity 4 leaves room for two echoes before
the count ends. Two routers that also hear themselves make every kind of loop of two; longer loops are
not covered. `Operators` (threads that serve calls of operators) is every thread in `Node` and one of two
in `NodeOverlap`: the other serves the calls of RIP, each may be overtaken by the other, and two calls of
RIP overlap as well. The two runs share the node's behaviour between them, for the states of both
together are too many: failing calls and routes of other sources with one thread in `Node`, overlapping
calls in `NodeOverlap`. A tick
stands for many rounds of `check_routes` and waits for them; housekeeping runs every second, the
timeouts are minutes. In `Lifecycle` two threads and two ids give every pair of overlapping creations
and deletions; ids are fresh (`generate_id` draws from 62^8). In `Classful` six bits leave each class
several networks, prefixes within and beyond them, and class D.

### Fairness

`RipInstance!FairSpec`: time passes and `check_routes`, a loop with a one-second sleep, keeps running
(weak fairness of `Tick` and `CheckRoutes`); a call that RIP made comes to an end, by a body or by an error
(weak fairness of `TriggeredRedistribution` or `LoseTrigger`, which `AnswersRip` shows of `Node`). That no
call is lost is nowhere assumed: the code does not repeat a lost call, and where the liveness of the RIB
takes one the property says so. Neighbours and operators owe nothing: that they fall silent is an
antecedent of the properties.

`SlaInstance!FairSpec`: a call that has begun is carried through, since a ping ends within a second, and
time passes. That calls come at all, that paths settle and that pings of a next hop stop overlapping
are antecedents, since nothing in the service sees to it.

`RipNetwork!FairSpec`: the tasks of every router run, packets do not stay on the segment for good, and of
those a router keeps sending another one that listens hears some (strong fairness of hearing: the
segment may lose any number of packets, not all). A router need never hear itself, and **control planes
owe nothing**: they may never post, or post for ever. What of the liveness takes a refresh of the RIB is
the antecedent `RibsFollow`, about the tables, not about who refreshes them.

`Node!FairSpec`: a call that has begun is carried on (HTTP calls end in an answer or an error), the
calls that RIP makes get a thread though operators keep calling (strong fairness: the pool's queue is
first in, first out), time passes and housekeeping runs. That calls go on being made, stop failing or
stop overlapping are antecedents of the properties.

`Lifecycle!FairSpec`: a creation that has begun goes on, to its end or to an error.

## Proofs

The modules named `...Proofs` hold theorems of the specifications, proved for every value of the
constants that meets the assumptions of the modules: any networks, packets, bodies, timeouts, routers,
threads, ids and offers. They add no assumption of their own.

| Module | Theorem | States |
|---|---|---|
| `RipInstanceProofs` | `TypeCorrect` | `Spec => []TypeOK` |
| | `RibAlwaysTracksLearned` | `Spec => []RibTracksLearned` |
| | `AlwaysReplacesOldSet` | `Spec => []ReplacesOldSet` |
| | `PoisonAlwaysPassedOn` | `Spec => PoisonPassedOn` |
| | `OffersGoodUntilHousekeeping` | each step keeps `OffersOnlyGoodRoutes` but `CheckRoutes`, and each that refreshes the RIB restores it |
| `ControlPlaneProofs` | `TypeCorrect` | `Spec => []TypeOK` |
| | `NeverOutdated` | `Spec => []NothingOutdated` |
| | `AloneAlwaysComplete` | `Spec => AloneIsComplete` |
| | `NewSetUnlessOverlap` | `Spec /\ []NoOverlap => []RipHasNewSet`, given `redistribute` alone is called and no call fails |
| `RouteProofs` | `AlwaysAgree` | `Spec => []IndexesAgree` |
| | `SourceAlwaysGone` | `Spec => SourceGone` |
| | `AlwaysSearchAgrees` | `Spec => []SearchAgrees` |
| | `AlwaysRouteSet` | `Spec => ImplementsRouteSet`, the refinement of `RouteSet` |
| | `NetworksAlwaysAgree` | `Journey => NetworksAgree` |
| | `SubnetsAlwaysCovered` | `Journey => []SubnetsCovered` |
| | `AlwaysMergesWithinNetwork` | `Journey => []MergesWithinNetwork` |
| | `NetworksKeepTheirName` | each classful network is a prefix, is its own network and is found again from its address; no two share an address |
| `RipNetworkProofs` | `TypeCorrect` | `Spec => []TypeOK` |
| | `NeverNearerThanALink` | `Spec => []AtLeastDistance` |
| | `NearestOriginNeverDisturbed` | `Spec => []NearestOriginUndisturbed` |
| `SlaInstanceProofs` | `TypeCorrect` | `Spec => []TypeOK` |
| | `AlwaysAllEvaluated` | `Spec => AllEvaluated` |
| `LifecycleProofs` | `TypeCorrect` | `Spec => []TypeOK` |
| | `PartsAlwaysStandBehind` | `Spec => []PartsStandBehind` |
| | `LatestAlwaysResolves` | `Spec => []LatestResolves` |
| `NodeProofs` | `ImplementsControlPlane`, `ImplementsRip` | `Spec => Cp!Spec`, `Spec => Rip!Spec` |
| | `TypeCorrect` | `Spec => []TypeOK` |
| | `PartsKeepTheirWord` | `Spec =>` `Cp!NothingOutdated`, `Rip!RibTracksLearned` and `Rip!ReplacesOldSet` always, `Cp!AloneIsComplete`, `Rip!PoisonPassedOn` |
| | `RedistributionAlwaysArrives` | `Spec => RedistributionArrives` |
| | `DeadRoutesAlwaysAwaitRepair` | `Spec => []DeadRoutesAwaitRepair`, given the trigger |

`RipTablesProofs` holds the lemmas about the operators of `Rib` and `RipTables` that the proofs about an
instance, a network and a node share; `RouteProofs` is about the two modules without threads or messages,
`IndexedRib` and `Classful`. Each inductive invariant below was an invariant of a TLC run on the instance
of the table above before it was proved.

*RIP.* Neither `RibTracksLearned` nor `ReplacesOldSet` is inductive. The first needs to know that a
learned route under a named key has that next hop (`WireKeysTrue`), or two routes could meet under one
RIB key and only one of them be there; it also needs the redistributed table never to hold a RIP route
(`RedistForeign`). The second needs that while the last body was installable the redistributed table is
what it gives (`BodyInstalled`): that table, and not the RIB, is what `refresh_rib` starts from at every
later step. The inductive invariant `IInv` is the conjunction of these with `TypeOK` and
`RibTracksLearned`. `PoisonPassedOn` follows from `IInv'`: the poisoned route has an entry in the RIB
after the refresh, and the answer is put together from that RIB. `OffersGoodUntilHousekeeping` is the
other side of the run `RipStaleOffer`: a RIB that was just rebuilt has a RIP route only with the metric of
a learned one (`RedistForeign` again), and of the steps that do not rebuild it only `CheckRoutes` touches
the learned metrics.

*Control plane.* `Current` bounds everything a call carries by what was seen: the body, the routes to
import and, until it is written, the snapshot. A snapshot that is not bounded any more is `Orphaned`,
because the call that reset `seen` also replaced the RIB. For `AloneIsComplete`, `AloneInv` says what a
call that nothing overlapped has got so far (`OnItsWay`): the routes of the stages behind it are in the
RIB, or in its hands and snapshot. A steady route is one of a protocol that offers it now
(`SteadyOnOffer`), and of no other one: that the routes on offer from the two protocols are distinct is
an assumption of the module, since a route names its source. Without it the property is false: a route
could pass from RIP to SLA between the two fetches, on offer throughout and never fetched.
`NewSetUnlessOverlap` is the other side of the run `CpOldSet`, whose constants meet its hypotheses: a call
posts the RIB as it is, and with one call at a time nothing changes the RIB that does not end in a post
(`PostsToCome`). A call that fails, and a `refresh_rib`, end without one.

*Indexed RIB.* `IndexesAgree` is inductive: `index` is the partition of `entries` by each field, and
putting and dropping entries commute with partitioning. With it a step of the set is the same step of
each dictionary, and that is the refinement.

*Classful.* `Pow2` is a recursive function and the prover has no rule for those: that it is what its
definition says takes a witness, put together from functions on initial segments (`PowersExist`,
`PowersAgree`), and every induction is about the least number for which a claim would fail (`Least`).
From there the argument is arithmetic: masking cuts the addresses into blocks of equal size
(`MaskedUnique`), blocks of one length fall into whole blocks of a greater one (`BlocksDivide`), the
classes are blocks of length one to three and do not meet (`ClassesApart`), so the network depends on
the address alone (`ClassfulLemma`) and covers it (`CoveredLemma`). The invariant of the journey says
which network the route has in terms of its origin (`JourneyInv`). `NetworksKeepTheirName` is what
`RipTables` and `RipNetwork` assume of the constant function they have in place of this module.

*Network.* `AtLeastDistance` is about learned routes; the invariant adds that redistributed routes have
an origin's metric at least, that a RIB entry has the one or the other, and that a packet in flight
is beyond its origin (`PacketsBeyondOrigin`). The link cost makes the step: what is sent of a metric
not below an origin's is beyond it, infinity included. `NearestOriginUndisturbed` needs besides that a
RIB holds the redistributed routes as they are (`OwnInRib`): its best route to the network is then no
worse than its own, and by the invariant no better than the nearest origin's. `OwnInRib` is claimed of
the routers that are not `behind`, the history of bodies that raised since the last rebuild. Of the
conversion between networks and addresses the module assumes only that what is heard of a network is a
network, and that the name it has then stays (`Heard`, which `NetworksAgree` of `Classful` is about): the
default route, which becomes 0.0.0.0/8, is one of the networks the theorems are about.

*SLA.* A status or a time is assigned to whatever route a thread is at, and that route may have been
deleted since: the invariant says that a thread is at a configured route exactly while it pings or has
a result to store (`AtARoute`), and that the ping under way, and no other, has a way to end (`PingsEnd`).
For `AllEvaluated`, the routes a call has behind it have a status, but for the one whose next hop it
pings (`BehindEvaluated`).

*Lifecycle.* Each of the two properties is about steps of several threads, and what makes them hold is
that an id is generated once (`IdsUsed`): until its creator has come to a step nobody else can have
done it or undone it (`PartsToCome`), and what the creator has done is there or was deleted
(`PartsMade`). `PopsAreSafe` and `NamesWhatIsThere` relate a deletion under way to a naming to come. The
proof goes through all fifteen kinds of steps for each of the eight parts.

*Node.* Every step of the node is a step of its control plane or leaves it alone, and so for its RIP
instance; the bodies are sets of routes because `ControlPlane` keeps its types. The theorems of the two
modules then hold inside the node, by instantiation. `RedistributionArrives` puts three of them together
(`AloneIsComplete`, `NothingOutdated`, `ReplacesOldSet`) with an invariant across the two parts: the body
that RIP has handled for a call that nothing overlapped is the body that call holds (`Handed`).

`DeadRoutesAwaitRepair` takes an invariant across the two as well (`Repair`): RIP's answer may hold a
route that is marked down only while one call is outstanding, and one that is gone only while two are; a
call carries a route that is gone only if another call follows it. Two things are needed for that: without
`TriggerRedistribution` TLC shows that a dead route stays, and of two calls that overlap one may put it
back, a sequence of forty steps. The trigger is a hypothesis of the theorem; that no call has failed and
no two have overlapped so far is part of the property (`failed`, `overlapped`), so the theorem holds for a
service with any number of threads, up to its first overlap.

Only model-checked: the liveness properties (`ForgetsLearned`, `RibForgetsLearned`, `OffersFollowPaths`,
`DeadRoutesDie`, `RoutesComeBack`, `DeadRoutesLeave`, `GoodRoutesArrive`, `LoopEnds`, `AnswersRip`,
`RunningFindsOwner`), whose proofs would need ENABLED and fairness. Every invariant and every action
property of a passing run is a theorem. That each router of `RipNetwork` is a `RipInstance` is not proved
by refinement: it would take an instance of `RipInstance` with a parameter, whose theorems the prover
cannot use. The two are built from the same operators of `RipTables`, and so are their proofs.

## Not modelled

* The SLA instance inside `Node`: it calls nobody when its routes change, so to the control plane it is
  a set of routes; joining the threads of `SlaInstance` multiplies the states and adds no behaviour.
* Networks of more than one segment (the code sends to one broadcast address), and triggers within
  `RipNetwork`.
* The end of `run_advertisements` by a socket error: the fairness of `RipNetwork` assumes that routers
  go on advertising. `check_routes` makes no call that fails.
* The field validation of `RIB_Base` (no caller passes an invalid field), the read-only best-route
  selection of the control plane, HTTP, sockets and packet bytes, configuration files (their values
  are constants), the terminal monitor.
* `add_configured_route` after construction: the endpoint that calls it passes arguments it does not
  take and always fails. Likewise `items` raising when another thread changes the set during the
  iteration: such a call has changed nothing, and for the control plane it is one that failed.

## Plan

All invariants and action properties of the passing runs are theorems. What could come next:

1. `SlaInstance`: what a status says of its path when pings of one next hop overlap, where an overheard
   answer may be stored.
2. `Node` with two threads and failing calls at once, in a run small enough to finish.
3. `RipNetwork` with triggers, joined to a control plane per router.
