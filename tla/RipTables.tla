------------------------------ MODULE RipTables ------------------------------
(***************************************************************************)
(* What the handlers of src/rp_rip1/main.py compute from the three tables  *)
(* of a RIPv1 instance: no state, so that one instance (RipInstance) and a *)
(* network of them (RipNetwork) are built from the same operators.         *)
(*                                                                         *)
(* A learned route is DOWN exactly when its metric is RIP_MAX_METRIC, so   *)
(* the metric stands for both.  last_updated is kept as the route's age.   *)
(*                                                                         *)
(* A route's key is computed once, by Route.__init__.  handle_response     *)
(* sets the next hop of a received route AFTER that: a learned route is    *)
(* stored under the next hop that was on the wire, 0.0.0.0 for every       *)
(* router that leaves itself the next hop, whichever router sent it.       *)
(***************************************************************************)
EXTENDS Rib

CONSTANTS
  Prefix,                 \* prefixes a packet or the control plane may name
  Net,                    \* classful networks
  Invalid,                \* what RIP1_Route.classful raising ValueError yields
  Classful,               \* [Prefix -> Net \cup {Invalid}]
  Hop,                    \* next-hop addresses, the neighbours' among them
  Unspecified,            \* the next hop 0.0.0.0
  MaxMetric,              \* RIP_MAX_METRIC
  RouteTimeout,           \* RIP_ROUTE_TIMEOUT
  GarbageTimeout,         \* RIP_ROUTE_GARBAGE_TIMEOUT
  RedistributeInSources,  \* redistribute_in_sources
  InMetric                \* redistribute_in_metrics, with default_metric

Source == {"STATIC", "SLA", "RIP1"}

WireKey == Net \X (Hop \cup {Unspecified})

Key == Net \X Hop

Rte == [addr : Prefix, next_hop : Hop \cup {Unspecified}, metric : Nat]

CpRoute == [prefix : Prefix, next_hop : Hop, source : Source]

ASSUME RipTablesAssumption ==
  /\ Invalid \notin Net
  /\ Unspecified \notin Hop
  /\ Classful \in [Prefix -> Net \cup {Invalid}]
  /\ MaxMetric \in Nat
  /\ RouteTimeout \in Nat /\ GarbageTimeout \in Nat
  /\ RouteTimeout < GarbageTimeout
  /\ RedistributeInSources \subseteq {"STATIC", "SLA"}
  /\ InMetric \in [Source -> Nat]

LearnedRoute == [hop : Hop, metric : 0..MaxMetric, age : 0..(GarbageTimeout + 1)]

RibRoute == [metric : 0..MaxMetric, source : Source]

Capped(n, bound) == IF n > bound THEN bound ELSE n

-----------------------------------------------------------------------------
(* Helpers of the handlers.                                                *)

\* Slip for handle_response: a metric beyond RIP_MAX_METRIC is kept.
ReceivedUncapped(p) ==
  {<<<<Classful[rte.addr], rte.next_hop>>,
     [hop |-> IF rte.next_hop = Unspecified THEN p.src ELSE rte.next_hop,
      metric |-> rte.metric,
      age |-> 0]>> :
     rte \in {e \in p.rtes : Classful[e.addr] # Invalid}}

\* RP_RIP1.handle_response: an entry without a classful network is skipped, a
\* metric of RIP_MAX_METRIC or more is a poisoned route, a next hop of 0.0.0.0
\* becomes the sender of the packet while the key keeps what was on the wire.
ReceivedRoutes(p) ==
  {<<<<Classful[rte.addr], rte.next_hop>>,
     [hop |-> IF rte.next_hop = Unspecified THEN p.src ELSE rte.next_hop,
      metric |-> Capped(rte.metric, MaxMetric),
      age |-> 0]>> :
     rte \in {e \in p.rtes : Classful[e.addr] # Invalid}}

\* Slip for RIP1_RIB.add: a route that is there is marked as seen, not replaced.
LearnMarksSeen(old, new) ==
  ImportRoutes([k \in DOMAIN old |-> IF k \in DOMAIN new THEN [old[k] EXCEPT !.age = 0] ELSE old[k]], new)

\* RIP1_RIB.add discards the route with the same key before adding.
Learn(old, new) == ImportRoutes(new, old)

\* Slip for handle_response: the next hop on the wire is the one that is exported.
RibKeyOnWire(table, k) == k

\* The RIB key of a learned route: export_routes() writes its real next hop.
RibKey(table, k) == <<k[1], table[k].hop>>

\* export_routes() of a table of learned routes, as import_routes reads it: age
\* and status are dropped, the key is computed anew from the real next hop.
Exported(table) ==
  TablesOf({<<RibKey(table, k), [metric |-> table[k].metric, source |-> "RIP1"]>> :
              k \in DOMAIN table})

\* Slip for refresh_rib: a poisoned route is not worth a RIB entry.
RefreshesWithoutPoison(redist, learnt) ==
  {ImportRoutes(redist, t) :
     t \in Exported([k \in {q \in DOMAIN learnt : learnt[q].metric < MaxMetric} |-> learnt[k]])}

\* Slip for refresh_rib: the learned routes come first and stay.
RefreshesLearnedFirst(redist, learnt) == {ImportRoutes(t, redist) : t \in Exported(learnt)}

\* RP_RIP1_Interface.refresh_rib: a new _rib with the redistributed routes, then
\* the learned ones, which do not displace them.
Refreshes(redist, learnt) == {ImportRoutes(redist, t) : t \in Exported(learnt)}

\* Slip for _rte_from_route: the link cost is left out.
ResponsesAtNoCost(table) ==
  {content \in [{k[1] : k \in DOMAIN table} -> 0..MaxMetric] :
     \A n \in DOMAIN content : \E k \in DOMAIN table :
       /\ k[1] = n
       /\ content[n] = table[k].metric
       /\ \A q \in DOMAIN table : q[1] = n => table[k].metric =< table[q].metric}

\* RP_RIP1._rte_from_route over export_routes(): per network the metric of a best
\* route plus the link cost of 1, whatever the route's status.
Responses(table) ==
  {content \in [{k[1] : k \in DOMAIN table} -> 0..MaxMetric] :
     \A n \in DOMAIN content : \E k \in DOMAIN table :
       /\ k[1] = n
       /\ content[n] = Capped(table[k].metric + 1, MaxMetric)
       /\ \A q \in DOMAIN table : q[1] = n => table[k].metric =< table[q].metric}

\* The routes redistribute_out selects from: learned by RIP and not at infinity.
Offerable(table) ==
  {k \in DOMAIN table : table[k].source = "RIP1" /\ table[k].metric < MaxMetric}

\* Routes of a redistribute_in body from a source configured for redistribution.
Accepted(offer) == {r \in offer : r.source \in RedistributeInSources}

\* Accepted routes for which RIP1_Route.classful raises ValueError.
Unclassful(offer) == {r \in Accepted(offer) : Classful[r.prefix] = Invalid}

RedistributedPair(r) ==
  <<<<Classful[r.prefix], r.next_hop>>,
    [metric |-> Capped(InMetric[r.source], MaxMetric), source |-> r.source]>>

\* Slip for redistribute_in: the loop adds to the old table instead of a new one.
InstalledOnTop(table, routes) ==
  {ImportRoutes(t, table) : t \in TablesOf({RedistributedPair(r) : r \in routes})}

\* redistribute_in starts from an empty table: the new set replaces the old one.
Installed(table, routes) == TablesOf({RedistributedPair(r) : r \in routes})

\* Slip for check_routes: the garbage test is left out.
NeverCollected(table) ==
  [k \in DOMAIN table |->
     IF table[k].age > RouteTimeout THEN [table[k] EXCEPT !.metric = MaxMetric] ELSE table[k]]

\* Slip for check_routes: a route past its timeout is removed at once.
CollectedAtOnce(table) ==
  [k \in {q \in DOMAIN table : table[q].age =< RouteTimeout} |-> table[k]]

\* One pass of check_routes over the learned routes: garbage is removed, a route
\* past its timeout is marked down.
CheckedRoutes(table) ==
  [k \in {q \in DOMAIN table : table[q].age =< GarbageTimeout} |->
     IF table[k].age > RouteTimeout THEN [table[k] EXCEPT !.metric = MaxMetric] ELSE table[k]]

Aged(table) ==
  [k \in DOMAIN table |-> [table[k] EXCEPT !.age = Capped(@ + 1, GarbageTimeout + 1)]]

Poisons(p) == \E r \in ReceivedRoutes(p) : r[2].metric = MaxMetric

=============================================================================
