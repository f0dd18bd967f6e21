------------------------------ MODULE RipNetwork ------------------------------
(***************************************************************************)
(* RIPv1 instances of src/rp_rip1/main.py on one broadcast segment.        *)
(*                                                                         *)
(* A router has one interface: every response goes to default_dst_ip, the  *)
(* broadcast address, and a route is advertised to the segment it was      *)
(* learned from (TODO.md: no split horizon, no poisoned reverse).  A       *)
(* packet in flight may be heard by any router any number of times, in any *)
(* order, or by none.  An answer to a request goes to one router only,     *)
(* which is a broadcast that the others miss.                              *)
(*                                                                         *)
(* The control plane of a router posts redistribute_in bodies when it      *)
(* likes, or never; RipInstance has what RIP calls it for.                 *)
(*                                                                         *)
(* A network goes on the wire as its address, and each router that hears   *)
(* of it works out a network again: the same one, but for the default      *)
(* route, which is 0.0.0.0/8 from the next router on.  Module Classful     *)
(* has the arithmetic.                                                     *)
(***************************************************************************)
EXTENDS RipTables, FiniteSets

CONSTANTS
  Router,             \* addresses of the routers
  Bodies,             \* router -> redistribute_in bodies its control plane may post
  OnWire,             \* network -> its address, as the prefix that handle_response makes of it
  RejectOwnMessages,  \* reject_own_messages
  MaxFlight           \* bound: packets of one router in flight at once

\* The network under which a router keeps what it hears of a network.
Heard(n) == Classful[OnWire[n]]

ASSUME RipNetworkAssumption ==
  /\ Router \subseteq Hop
  /\ Bodies \in [Router -> SUBSET SUBSET CpRoute]
  /\ \A r \in Router : {} \in Bodies[r]
  /\ RejectOwnMessages \in BOOLEAN
  /\ MaxFlight \in Nat \ {0}
  \* Module Classful: NetworksAgree.
  /\ OnWire \in [Net -> Prefix]
  /\ \A n \in Net : Heard(n) \in Net /\ Heard(Heard(n)) = Heard(n)

VARIABLES
  learned,        \* router -> _learned_routes
  redistributed,  \* router -> _redistributed_routes
  rib,            \* router -> _rib
  flight,         \* packets on the segment
  deaf,           \* routers whose listen and run_requests tasks have ended
  behind          \* history: routers that have not rebuilt _rib since a redistribute_in raised

vars == <<learned, redistributed, rib, flight, deaf, behind>>

-----------------------------------------------------------------------------
\* The packets send_response may put together: networks are told by their addresses, the
\* next hop is left at 0.0.0.0.
PacketsOf(r, table) ==
  {[src |-> r,
    rtes |-> {[addr |-> OnWire[n], next_hop |-> Unspecified, metric |-> content[n]] : n \in DOMAIN content}] :
     content \in Responses(table)}

\* The segment after a broadcast.  One packet too many is lost, and one without an
\* entry tells nobody anything.
Broadcast(p) ==
  IF p.rtes = {} \/ Cardinality({q \in flight \cup {p} : q.src = p.src}) > MaxFlight
  THEN flight ELSE flight \cup {p}

\* A packet with a poisoned route is answered with a response.
AfterAnswer(r, p, table) ==
  IF Poisons(p) THEN {Broadcast(a) : a \in PacketsOf(r, table)} ELSE {flight}

Rebuilds(r) ==
  /\ \E t \in Refreshes(redistributed'[r], learned'[r]) : rib' = [rib EXCEPT ![r] = t]
  /\ behind' = behind \ {r}

-----------------------------------------------------------------------------
Init ==
  /\ learned = [r \in Router |-> EmptyTable]
  /\ redistributed = [r \in Router |-> EmptyTable]
  /\ rib = [r \in Router |-> EmptyTable]
  /\ flight = {}
  /\ deaf = {}
  /\ behind = {}

\* run_advertisements, or the answer to a request.
Advertise(r) ==
  /\ \E p \in PacketsOf(r, rib[r]) : flight' = Broadcast(p)
  /\ UNCHANGED <<learned, redistributed, rib, deaf, behind>>

\* handle_udp_bytes for a response on the segment, which stays there for the others.
Hear(r, p) ==
  /\ p \in flight
  /\ r \notin deaf
  /\ ~(p.src = r /\ RejectOwnMessages)
  /\ \E new \in TablesOf(ReceivedRoutes(p)) : learned' = [learned EXCEPT ![r] = Learn(@, new)]
  /\ UNCHANGED <<redistributed, deaf>>
  /\ Rebuilds(r)
  /\ flight' \in AfterAnswer(r, p, rib'[r])

\* The packet has reached all it will ever reach.
Lose(p) ==
  /\ p \in flight
  /\ flight' = flight \ {p}
  /\ UNCHANGED <<learned, redistributed, rib, deaf, behind>>

\* redistribute_in installs the routes of the body and rebuilds the RIB.
InstallBody(r, body) ==
  /\ Unclassful(body) = {}
  /\ \E t \in Installed(redistributed[r], Accepted(body)) :
       redistributed' = [redistributed EXCEPT ![r] = t]
  /\ UNCHANGED <<learned, flight, deaf>>
  /\ Rebuilds(r)

\* A route of the body raises: those before it are in the new table, the RIB is as it was.
FailBody(r, body) ==
  /\ Unclassful(body) # {}
  /\ \E before \in SUBSET (Accepted(body) \ Unclassful(body)) :
       \E t \in Installed(redistributed[r], before) :
         redistributed' = [redistributed EXCEPT ![r] = t]
  /\ behind' = behind \cup {r}
  /\ UNCHANGED <<learned, rib, flight, deaf>>

RedistributeIn(r, body) == InstallBody(r, body) \/ FailBody(r, body)

\* A round of check_routes that changes a route; the RIB is not refreshed.
CheckRoutes(r) ==
  /\ learned' = [learned EXCEPT ![r] = CheckedRoutes(@)]
  /\ learned' # learned
  /\ UNCHANGED <<redistributed, rib, flight, deaf, behind>>

Tick ==
  /\ learned' = [r \in Router |-> Aged(learned[r])]
  /\ UNCHANGED <<redistributed, rib, flight, deaf, behind>>

\* An exception in the listening tasks, of a packet that does not parse or of a
\* socket, ends them; the router goes on advertising what it has.
ListenersDie(r) ==
  /\ deaf' = deaf \cup {r}
  /\ UNCHANGED <<learned, redistributed, rib, flight, behind>>

Next ==
  \/ \E r \in Router : Advertise(r)
  \/ \E r \in Router, p \in flight : Hear(r, p)
  \/ \E p \in flight : Lose(p)
  \/ \E r \in Router : \E body \in Bodies[r] : RedistributeIn(r, body)
  \/ \E r \in Router : CheckRoutes(r)
  \/ Tick
  \/ \E r \in Router : ListenersDie(r)

Spec == Init /\ [][Next]_vars

HearFrom(r, s) == \E p \in flight : p.src = s /\ Hear(r, p)

\* The event loops keep running their tasks and time passes; no packet stays on the segment
\* for good; of those that a router keeps sending, another one that listens hears some.
\* Control planes owe nothing.
FairSpec ==
  /\ Spec
  /\ WF_vars(Tick)
  /\ \A r \in Router :
       /\ WF_vars(Advertise(r))
       /\ WF_vars(CheckRoutes(r))
       /\ WF_vars(\E p \in flight : p.src = r /\ Lose(p))
       /\ \A s \in Router \ {r} : SF_vars(HearFrom(r, s))

-----------------------------------------------------------------------------
(* Properties.                                                             *)

TypeOK ==
  /\ \A r \in Router :
       /\ \E K \in SUBSET WireKey : learned[r] \in [K -> LearnedRoute]
       /\ \E K \in SUBSET Key : redistributed[r] \in [K -> RibRoute]
       /\ \E K \in SUBSET Key : rib[r] \in [K -> RibRoute]
  /\ \A p \in flight : p.src \in Router /\ p.rtes \subseteq Rte
  /\ {deaf, behind} \subseteq SUBSET Router

\* The networks that a router may have, or have heard of, as this one.
TakenFor(n) == {c \in Net : c = n \/ Heard(c) = n}

\* The metrics under which a router may redistribute a network.
OriginMetric(n) ==
  {RedistributedPair(x)[2].metric :
     x \in {y \in UNION {Accepted(body) : body \in UNION {Bodies[r] : r \in Router}} :
              Classful[y.prefix] \in TakenFor(n)}}

\* Whatever is echoed, lost, delayed or repeated, and whichever bodies fail half way, no
\* router ever believes to be nearer to a network than one link from a router that
\* redistributes it.  An echo can then never look better to an origin than its own route.
AtLeastDistance ==
  \A r \in Router : \A k \in DOMAIN learned[r] :
    \E m \in OriginMetric(k[1]) : learned[r][k].metric >= Capped(m + 1, MaxMetric)

\* The nearest origin of a network goes on advertising it at its own metric, whatever
\* comes back to it: the echo of its own broadcast, which it may keep under the very key
\* of its own route, or a route by way of other routers.  (After a body that failed it
\* advertises what it did before, until it hears something or gets a body that does not.)
NearestOriginUndisturbed ==
  \A r \in Router \ behind : \A k \in DOMAIN redistributed[r] :
    (\A m \in OriginMetric(k[1]) : redistributed[r][k].metric =< m) =>
      \A content \in Responses(rib[r]) :
        content[k[1]] = Capped(redistributed[r][k].metric + 1, MaxMetric)

\* Routes below infinity that RIP has for a network.
Alive(r, n) ==
  \/ \E k \in DOMAIN learned[r] : k[1] = n /\ learned[r][k].metric < MaxMetric
  \/ \E k \in DOMAIN rib[r] : k[1] = n /\ rib[r][k].metric < MaxMetric

Originates(r, n) == \E k \in DOMAIN redistributed[r] : k[1] \in TakenFor(n)

\* The RIB is one that refresh_rib could have made of the tables as they are now.
UpToDate(r) == rib[r] \in Refreshes(redistributed[r], learned[r])

\* No RIB stays out of date for good: after a body that failed, and after the changes that
\* check_routes makes, there is a refresh at some time.  The code leaves that to what the
\* router hears and to the bodies its control plane posts when it is triggered.
RibsFollow == \A r \in Router : []<>UpToDate(r)

\* There is no split horizon: routers that learned a route from each other keep it
\* alive after its origin is gone, each a link further than the other.  Once no router
\* redistributes a network, for good, every route to it ends at infinity all the same,
\* and stays there, also at routers that no longer hear anything.  (It need not be
\* forgotten: poisoned routes are answered with poisoned routes, which keeps them young.)
DeadRoutesDie ==
  RibsFollow =>
    \A n \in Net :
      <>[](\A r \in Router : ~Originates(r, n)) => <>[](\A r \in Router : ~Alive(r, n))

\* A network that some router goes on redistributing keeps coming back to every router
\* that goes on listening, whatever poison and stale echoes it hears besides.  (It need not
\* stay: routes heard from two routers replace each other.  Nor need the default route
\* come back, or 0.0.0.0/8: an origin that has heard its own default route advertises one
\* address twice, as its own route and as an echo, and whichever comes last is kept.)
RoutesComeBack ==
  RibsFollow =>
    \A n \in {c \in Net : {s \in Net : Heard(s) = c} = {c}} :
      <>[](\E r \in Router : Originates(r, n)) =>
        \A r \in Router : <>[](r \notin deaf) => []<>Alive(r, n)

=============================================================================
