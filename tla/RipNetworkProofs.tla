--------------------------- MODULE RipNetworkProofs ---------------------------
(***************************************************************************)
(* Proofs about RipNetwork, for any number of routers, any networks and    *)
(* bodies, any loss, repetition and reordering on the segment.             *)
(*                                                                         *)
(* AtLeastDistance speaks of the learned routes only.  It is kept by what  *)
(* the RIBs and the packets in flight have as well: every metric, wherever *)
(* it is, comes from that of an origin and has grown by at least a link    *)
(* when it is on the segment.                                              *)
(***************************************************************************)
EXTENDS RipNetwork, RipTablesProofs

\* A metric under which some router redistributes the network, or a worse one.
FromOrigin(n, m) == \E o \in OriginMetric(n) : m >= o

\* One of a router that is a link away from such a router, at least.
BeyondOrigin(n, m) == \E o \in OriginMetric(n) : m >= Capped(o + 1, MaxMetric)

\* What send_response puts into a packet.
SentRte == [addr : {OnWire[n] : n \in Net}, next_hop : {Unspecified}, metric : 0..MaxMetric]

\* What one router keeps: its learned routes are a link beyond an origin at least, the
\* routes of its other tables are as far as an origin.
RouterOK(learnt, redist, table) ==
  /\ LearnedTable(learnt) /\ RibTable(redist) /\ RibTable(table)
  /\ \A k \in DOMAIN learnt : BeyondOrigin(k[1], learnt[k].metric)
  /\ \A k \in DOMAIN redist : FromOrigin(k[1], redist[k].metric)
  /\ \A k \in DOMAIN table : FromOrigin(k[1], table[k].metric)

RoutersOK == \A r \in Router : RouterOK(learned[r], redistributed[r], rib[r])

Domains == DOMAIN learned = Router /\ DOMAIN redistributed = Router /\ DOMAIN rib = Router

PacketsOK == flight \subseteq [src : Router, rtes : SUBSET SentRte]

PacketsBeyondOrigin ==
  \A p \in flight : \A e \in p.rtes : BeyondOrigin(Classful[e.addr], e.metric)

\* AtLeastDistance is a part of RoutersOK.
IInv ==
  /\ Domains /\ RoutersOK /\ PacketsOK /\ PacketsBeyondOrigin
  /\ {deaf, behind} \subseteq SUBSET Router

-----------------------------------------------------------------------------
(* Origins.                                                                *)

\* The bodies are bodies of routes of the control plane.
LEMMA BodiesType ==
  ASSUME NEW r \in Router, NEW body \in Bodies[r]
  PROVE  body \in SUBSET CpRoute
BY RipNetworkAssumption DEF RipNetworkAssumption

\* Origins redistribute under metrics up to infinity.
LEMMA OriginMetricType ==
  ASSUME NEW n, NEW o \in OriginMetric(n)
  PROVE  o \in 0..MaxMetric
<1>1. PICK r \in Router : \E body \in Bodies[r] : \E x \in Accepted(body) :
        Classful[x.prefix] \in TakenFor(n) /\ o = RedistributedPair(x)[2].metric
  BY DEF OriginMetric
<1>2. PICK body \in Bodies[r] : \E x \in Accepted(body) :
        Classful[x.prefix] \in TakenFor(n) /\ o = RedistributedPair(x)[2].metric
  BY <1>1
<1>3. PICK x \in Accepted(body) :
        Classful[x.prefix] \in TakenFor(n) /\ o = RedistributedPair(x)[2].metric
  BY <1>2
<1>4. body \in SUBSET CpRoute /\ x \notin Unclassful(body)
  <2>1. Classful[x.prefix] # Invalid
    BY <1>3, RipTablesAssumption DEF TakenFor, RipTablesAssumption
  <2> QED
    BY <2>1, BodiesType DEF Unclassful
<1>5. RedistributedPair(x) \in Key \X RibRoute
  BY <1>4, RedistributedPairType
<1> QED
  BY <1>3, <1>5 DEF RibRoute

\* What a network is heard as may come from all that the network may come from.
LEMMA HeardFromMore ==
  ASSUME NEW c \in Net
  PROVE  Heard(c) \in Net /\ OriginMetric(c) \subseteq OriginMetric(Heard(c))
<1>1. \A n \in Net : Heard(n) \in Net /\ Heard(Heard(n)) = Heard(n)
  BY RipNetworkAssumption DEF RipNetworkAssumption
<1>2. TakenFor(c) \subseteq TakenFor(Heard(c))
  <2>1. ASSUME NEW n \in TakenFor(c)
        PROVE  Heard(n) = Heard(c)
    BY <1>1, <2>1 DEF TakenFor
  <2> QED
    BY <2>1 DEF TakenFor
<1> QED
  BY <1>1, <1>2 DEF OriginMetric

\* A link further than a route of an origin, or of a router beyond it, is beyond it.
LEMMA BeyondByALink ==
  ASSUME NEW n, NEW m \in 0..MaxMetric, FromOrigin(n, m)
  PROVE  BeyondOrigin(n, Capped(m + 1, MaxMetric))
<1>1. PICK o \in OriginMetric(n) : m >= o
  BY DEF FromOrigin
<1>2. o \in 0..MaxMetric /\ MaxMetric \in Nat
  BY OriginMetricType, RipTablesAssumption DEF RipTablesAssumption
<1>3. Capped(m + 1, MaxMetric) >= Capped(o + 1, MaxMetric)
  BY <1>1, <1>2 DEF Capped
<1> QED
  BY <1>3 DEF BeyondOrigin

\* A metric beyond an origin's is no less than it.
LEMMA BeyondIsFrom ==
  ASSUME NEW n, NEW m \in 0..MaxMetric, BeyondOrigin(n, m)
  PROVE  FromOrigin(n, m)
<1>1. PICK o \in OriginMetric(n) : m >= Capped(o + 1, MaxMetric)
  BY DEF BeyondOrigin
<1>2. o \in 0..MaxMetric /\ MaxMetric \in Nat
  BY OriginMetricType, RipTablesAssumption DEF RipTablesAssumption
<1>3. m >= o
  BY <1>1, <1>2 DEF Capped
<1> QED
  BY <1>3 DEF FromOrigin

\* A poisoned route is beyond every origin of its network.
LEMMA InfinityIsBeyond ==
  ASSUME NEW n, NEW m, BeyondOrigin(n, m)
  PROVE  BeyondOrigin(n, MaxMetric)
<1>1. PICK o \in OriginMetric(n) : TRUE
  BY DEF BeyondOrigin
<1>2. o \in 0..MaxMetric /\ MaxMetric \in Nat
  BY OriginMetricType, RipTablesAssumption DEF RipTablesAssumption
<1>3. MaxMetric >= Capped(o + 1, MaxMetric)
  BY <1>2 DEF Capped
<1> QED
  BY <1>3 DEF BeyondOrigin

-----------------------------------------------------------------------------
(* What the handlers do to the distances.                                  *)

\* A packet put together from a RIB takes its metrics a link further.
LEMMA PacketsOfLemma ==
  ASSUME NEW r \in Router, NEW table, RibTable(table), NEW p \in PacketsOf(r, table),
         \A k \in DOMAIN table : FromOrigin(k[1], table[k].metric)
  PROVE  /\ p \in [src : Router, rtes : SUBSET SentRte]
         /\ \A e \in p.rtes : BeyondOrigin(Classful[e.addr], e.metric)
<1>1. PICK c \in Responses(table) :
        p = [src |-> r,
             rtes |-> {[addr |-> OnWire[n], next_hop |-> Unspecified, metric |-> c[n]] :
                         n \in DOMAIN c}]
  BY DEF PacketsOf
<1>2. PICK N \in SUBSET Net : c \in [N -> 0..MaxMetric]
  BY ResponsesLemma
<1>3. ASSUME NEW n \in DOMAIN c
      PROVE  BeyondOrigin(n, c[n])
  <2>1. PICK k \in DOMAIN table : k[1] = n /\ c[n] = Capped(table[k].metric + 1, MaxMetric)
    BY ResponsesLemma
  <2>2. table[k].metric \in 0..MaxMetric
    BY RibTableLemma DEF RibRoute
  <2> QED
    BY <2>1, <2>2, BeyondByALink
<1>4. ASSUME NEW e \in p.rtes
      PROVE  e \in SentRte /\ BeyondOrigin(Classful[e.addr], e.metric)
  <2>1. PICK n \in DOMAIN c : e = [addr |-> OnWire[n], next_hop |-> Unspecified, metric |-> c[n]]
    BY <1>1
  <2>2. n \in Net /\ Classful[e.addr] = Heard(n)
    BY <1>2, <2>1 DEF Heard
  <2>3. BeyondOrigin(Heard(n), c[n])
    BY <1>3, <2>2, HeardFromMore DEF BeyondOrigin
  <2> QED
    BY <1>2, <2>1, <2>2, <2>3 DEF SentRte
<1> QED
  BY <1>1, <1>4

\* On the segment then are the packets that were there, and packets of that kind.
LEMMA BroadcastLemma ==
  ASSUME PacketsOK, PacketsBeyondOrigin, NEW r \in Router, NEW table, RibTable(table),
         \A k \in DOMAIN table : FromOrigin(k[1], table[k].metric),
         flight' \in {flight} \cup {Broadcast(p) : p \in PacketsOf(r, table)}
  PROVE  PacketsOK' /\ PacketsBeyondOrigin'
<1>1. CASE flight' = flight
  BY <1>1 DEF PacketsOK, PacketsBeyondOrigin
<1>2. ASSUME NEW p \in PacketsOf(r, table), flight' = Broadcast(p)
      PROVE  PacketsOK' /\ PacketsBeyondOrigin'
  <2>1. \A q \in flight' : q \in flight \/ q = p
    BY <1>2 DEF Broadcast
  <2> QED
    BY <2>1, PacketsOfLemma DEF PacketsOK, PacketsBeyondOrigin
<1> QED
  BY <1>1, <1>2

\* A packet on the segment is one the handlers take, and what it teaches is as far
\* as it says.
LEMMA HeardType ==
  ASSUME PacketsOK, NEW p \in flight
  PROVE  p \in WirePacket
<1>1. p \in [src : Router, rtes : SUBSET SentRte]
  BY DEF PacketsOK
<1>2. Router \subseteq Hop /\ SentRte \subseteq Rte
  BY RipNetworkAssumption, RipTablesAssumption
     DEF RipNetworkAssumption, RipTablesAssumption, SentRte, Rte
<1> QED
  BY <1>1, <1>2 DEF WirePacket

\* What a packet teaches is beyond every origin's metric, as the packet was.
LEMMA HeardLemma ==
  ASSUME PacketsOK, PacketsBeyondOrigin, NEW p \in flight, NEW x \in ReceivedRoutes(p)
  PROVE  BeyondOrigin(x[1][1], x[2].metric)
<1>1. p.rtes \subseteq SentRte /\ \A e \in p.rtes : BeyondOrigin(Classful[e.addr], e.metric)
  BY DEF PacketsOK, PacketsBeyondOrigin
<1>2. PICK e \in p.rtes : x[1][1] = Classful[e.addr] /\ x[2].metric = Capped(e.metric, MaxMetric)
  BY DEF ReceivedRoutes
<1>3. Capped(e.metric, MaxMetric) = e.metric
  BY <1>1, RipTablesAssumption DEF SentRte, Capped, RipTablesAssumption
<1> QED
  BY <1>1, <1>2, <1>3

\* Learning such a packet keeps a table of learned routes beyond their origins.
LEMMA LearnKeepsDistance ==
  ASSUME PacketsOK, PacketsBeyondOrigin, NEW p \in flight,
         NEW old, \A k \in DOMAIN old : BeyondOrigin(k[1], old[k].metric),
         NEW new \in TablesOf(ReceivedRoutes(p)),
         NEW k \in DOMAIN Learn(old, new)
  PROVE  BeyondOrigin(k[1], Learn(old, new)[k].metric)
<1> DEFINE P == ReceivedRoutes(p)
           L == Learn(old, new)
<1>1. \A x \in P : BeyondOrigin(x[1][1], x[2].metric)
  BY HeardLemma
<1> HIDE DEF P
<1>2. /\ DOMAIN L = DOMAIN new \cup DOMAIN old
      /\ \A j \in DOMAIN new : L[j] = new[j]
      /\ \A j \in DOMAIN old \ DOMAIN new : L[j] = old[j]
  BY DEF Learn, ImportRoutes
<1>5. \A j \in DOMAIN new : <<j, new[j]>> \in P
  <2>1. new \in TablesOf(P)
    BY DEF P
  <2> QED
    BY <2>1, TablesOfLemma
<1> HIDE DEF L
<1>3. CASE k \in DOMAIN new
  <2>1. LET x == <<k, new[k]>> IN BeyondOrigin(x[1][1], x[2].metric)
    BY <1>1, <1>5, <1>3
  <2>2. BeyondOrigin(k[1], new[k].metric)
    BY <2>1
  <2>3. BeyondOrigin(k[1], L[k].metric)
    BY <1>2, <1>3, <2>2
  <2> QED
    BY <2>3 DEF L
<1>4. CASE k \notin DOMAIN new
  <2>1. BeyondOrigin(k[1], L[k].metric)
    <3>1. k \in DOMAIN L
      BY DEF L
    <3> QED
      BY <1>2, <1>4, <3>1
  <2> QED
    BY <2>1 DEF L
<1> QED
  BY <1>3, <1>4

\* refresh_rib takes every metric over as it is.
LEMMA RefreshKeepsDistance ==
  ASSUME NEW redist, NEW learnt, LearnedTable(learnt),
         \A k \in DOMAIN redist : FromOrigin(k[1], redist[k].metric),
         \A k \in DOMAIN learnt : BeyondOrigin(k[1], learnt[k].metric),
         NEW t \in Refreshes(redist, learnt), NEW q \in DOMAIN t
  PROVE  FromOrigin(q[1], t[q].metric)
<1>1. CASE q \in DOMAIN redist
  BY <1>1, RefreshesLemma
<1>2. CASE q \notin DOMAIN redist
  <2>1. PICK k \in DOMAIN learnt :
          RibKey(learnt, k) = q /\ t[q] = [metric |-> learnt[k].metric, source |-> "RIP1"]
    BY <1>2, RefreshesLemma
  <2>2. q[1] = k[1] /\ t[q].metric = learnt[k].metric
    BY <2>1 DEF RibKey
  <2>3. learnt[k].metric \in 0..MaxMetric
    BY LearnedTableLemma DEF LearnedRoute
  <2> QED
    BY <2>2, <2>3, BeyondIsFrom
<1> QED
  BY <1>1, <1>2

\* The routes of a body, or those of them before the one that raises, have the metrics of
\* an origin.
LEMMA InstalledFromOrigin ==
  ASSUME NEW r \in Router, NEW body \in Bodies[r],
         NEW routes \in SUBSET (Accepted(body) \ Unclassful(body)), NEW old, NEW t \in Installed(old, routes)
  PROVE  RibTable(t) /\ \A k \in DOMAIN t : FromOrigin(k[1], t[k].metric)
<1>1. body \in SUBSET CpRoute
  BY BodiesType
<1>2. RibTable(t)
  BY <1>1, InstalledLemma
<1>3. \A k \in DOMAIN t : \E x \in routes : <<k, t[k]>> = RedistributedPair(x)
  <2> DEFINE P == {RedistributedPair(x) : x \in routes}
  <2>1. t \in TablesOf(P)
    BY DEF Installed
  <2>2. \A y \in P : \E x \in routes : y = RedistributedPair(x)
    OBVIOUS
  <2> HIDE DEF P
  <2>3. \A k \in DOMAIN t : <<k, t[k]>> \in P
    BY <2>1, TablesOfLemma
  <2> QED
    BY <2>2, <2>3
<1>4. ASSUME NEW k \in DOMAIN t
      PROVE  FromOrigin(k[1], t[k].metric)
  <2>1. PICK x \in routes : <<k, t[k]>> = RedistributedPair(x)
    BY <1>3
  <2>2. /\ k[1] = Classful[x.prefix] /\ t[k].metric = RedistributedPair(x)[2].metric
        /\ x \in Accepted(body)
    BY <2>1 DEF RedistributedPair
  <2>3. k[1] \in Net /\ t[k].metric \in 0..MaxMetric
    BY <1>2, RibTableLemma DEF RibRoute, Key
  <2>4. RedistributedPair(x)[2].metric \in OriginMetric(k[1])
    BY <2>2, <2>3 DEF OriginMetric, TakenFor
  <2> QED
    BY <2>2, <2>3, <2>4 DEF FromOrigin
<1> QED
  BY <1>2, <1>4

-----------------------------------------------------------------------------
(* The invariant.                                                          *)

\* At the start there is nothing that could be too near.
LEMMA InvInit ==
  ASSUME Init
  PROVE  IInv
<1>1. RoutersOK
  BY EmptyTableType DEF Init, RoutersOK, RouterOK
<1> QED
  BY <1>1 DEF Init, IInv, Domains, PacketsOK, PacketsBeyondOrigin

\* One router changes its tables to ones that are as they should be.
LEMMA OneRouterStep ==
  ASSUME IInv, NEW r \in Router, RouterOK(learned'[r], redistributed'[r], rib'[r]),
         \A s \in Router \ {r} :
           learned'[s] = learned[s] /\ redistributed'[s] = redistributed[s] /\ rib'[s] = rib[s]
  PROVE  RoutersOK'
<1>1. \A s \in Router \ {r} : RouterOK(learned'[s], redistributed'[s], rib'[s])
  BY DEF IInv, RoutersOK
<1> QED
  BY <1>1 DEF RoutersOK

\* run_advertisements, or an answer, puts on the segment what the RIB has, a link further.
LEMMA AdvertiseStep ==
  ASSUME IInv, NEW r \in Router, Advertise(r)
  PROVE  IInv'
<1>1. PICK p \in PacketsOf(r, rib[r]) : flight' = Broadcast(p)
  BY DEF Advertise
<1>2. RouterOK(learned[r], redistributed[r], rib[r])
  BY DEF IInv, RoutersOK
<1>3. PacketsOK' /\ PacketsBeyondOrigin'
  BY <1>1, <1>2, BroadcastLemma DEF IInv, RouterOK
<1> QED
  BY <1>3 DEF Advertise, IInv, Domains, RoutersOK

\* What is heard is beyond an origin, so what is learned is; the answer is made of the
\* rebuilt RIB.
LEMMA HearStep ==
  ASSUME IInv, NEW r \in Router, NEW p \in flight, Hear(r, p)
  PROVE  IInv'
<1>1. PICK new \in TablesOf(ReceivedRoutes(p)) : learned' = [learned EXCEPT ![r] = Learn(@, new)]
  BY DEF Hear
<1>2. PICK t \in Refreshes(redistributed'[r], learned'[r]) : rib' = [rib EXCEPT ![r] = t]
  BY DEF Hear, Rebuilds
<1> DEFINE L == Learn(learned[r], new)
<1>3. learned'[r] = L /\ redistributed'[r] = redistributed[r] /\ rib'[r] = t
  BY <1>1, <1>2 DEF Hear, IInv, Domains
<1>4. RouterOK(learned[r], redistributed[r], rib[r]) /\ PacketsOK /\ PacketsBeyondOrigin
  BY DEF IInv, RoutersOK
<1>5. LearnedTable(L)
  BY <1>4, HeardType, LearnType DEF RouterOK
<1>6. \A k \in DOMAIN L : BeyondOrigin(k[1], L[k].metric)
  BY <1>4, LearnKeepsDistance DEF RouterOK
<1> HIDE DEF L
<1>7. t \in Refreshes(redistributed[r], L)
  BY <1>2, <1>3
<1>8. RibTable(t) /\ \A k \in DOMAIN t : FromOrigin(k[1], t[k].metric)
  BY <1>4, <1>5, <1>6, <1>7, RefreshesType, RefreshKeepsDistance DEF RouterOK
<1>9. RouterOK(L, redistributed[r], t)
  BY <1>4, <1>5, <1>6, <1>8 DEF RouterOK
<1>10. Domains' /\ RoutersOK'
  <2>1. /\ Domains'
        /\ \A s \in Router \ {r} :
             learned'[s] = learned[s] /\ redistributed'[s] = redistributed[s] /\ rib'[s] = rib[s]
    BY <1>1, <1>2 DEF Hear, IInv, Domains
  <2> QED
    BY <1>3, <1>9, <2>1, OneRouterStep
<1>11. PacketsOK' /\ PacketsBeyondOrigin'
  <2>1. flight' \in {flight} \cup {Broadcast(a) : a \in PacketsOf(r, t)}
    BY <1>3 DEF Hear, AfterAnswer
  <2> QED
    BY <1>4, <1>8, <2>1, BroadcastLemma
<1> QED
  BY <1>10, <1>11 DEF Hear, Rebuilds, IInv

\* A packet less on the segment.
LEMMA LoseStep ==
  ASSUME IInv, NEW p \in flight, Lose(p)
  PROVE  IInv'
<1>1. PacketsOK' /\ PacketsBeyondOrigin'
  BY DEF IInv, Lose, PacketsOK, PacketsBeyondOrigin
<1> QED
  BY <1>1 DEF Lose, IInv, Domains, RoutersOK

\* The redistributed routes are those of a body, and the RIB is rebuilt from them.
LEMMA InstallBodyStep ==
  ASSUME IInv, NEW r \in Router, NEW body \in Bodies[r], InstallBody(r, body)
  PROVE  IInv'
<1>1. PICK d \in Installed(redistributed[r], Accepted(body)) :
        redistributed' = [redistributed EXCEPT ![r] = d]
  BY DEF InstallBody
<1>2. PICK t \in Refreshes(redistributed'[r], learned'[r]) : rib' = [rib EXCEPT ![r] = t]
  BY DEF InstallBody, Rebuilds
<1>3. learned'[r] = learned[r] /\ redistributed'[r] = d
  BY <1>1 DEF InstallBody, IInv, Domains
<1>4. RouterOK(learned[r], redistributed[r], rib[r])
  BY DEF IInv, RoutersOK
<1>5. RibTable(d) /\ \A k \in DOMAIN d : FromOrigin(k[1], d[k].metric)
  <2>1. Accepted(body) \in SUBSET (Accepted(body) \ Unclassful(body))
    BY DEF InstallBody
  <2> QED
    BY <2>1, InstalledFromOrigin
<1>6. t \in Refreshes(d, learned[r])
  BY <1>2, <1>3
<1>7. RibTable(t) /\ \A k \in DOMAIN t : FromOrigin(k[1], t[k].metric)
  BY <1>4, <1>5, <1>6, RefreshesType, RefreshKeepsDistance DEF RouterOK
<1>8. RouterOK(learned[r], d, t)
  BY <1>4, <1>5, <1>7 DEF RouterOK
<1>9. /\ Domains' /\ rib'[r] = t
      /\ \A s \in Router \ {r} :
           learned'[s] = learned[s] /\ redistributed'[s] = redistributed[s] /\ rib'[s] = rib[s]
  BY <1>1, <1>2 DEF InstallBody, IInv, Domains
<1>10. RoutersOK'
  BY <1>3, <1>8, <1>9, OneRouterStep
<1> QED
  BY <1>9, <1>10 DEF InstallBody, Rebuilds, IInv, PacketsOK, PacketsBeyondOrigin

\* Some of the routes of a body are redistributed; nothing else changes.
LEMMA FailBodyStep ==
  ASSUME IInv, NEW r \in Router, NEW body \in Bodies[r], FailBody(r, body)
  PROVE  IInv'
<1>1. PICK before \in SUBSET (Accepted(body) \ Unclassful(body)) :
        \E t \in Installed(redistributed[r], before) :
          redistributed' = [redistributed EXCEPT ![r] = t]
  BY DEF FailBody
<1>2. PICK d \in Installed(redistributed[r], before) :
        redistributed' = [redistributed EXCEPT ![r] = d]
  BY <1>1
<1>3. RibTable(d) /\ \A k \in DOMAIN d : FromOrigin(k[1], d[k].metric)
  BY InstalledFromOrigin
<1>4. RouterOK(learned[r], redistributed[r], rib[r])
  BY DEF IInv, RoutersOK
<1>5. RouterOK(learned[r], d, rib[r])
  BY <1>3, <1>4 DEF RouterOK
<1>6. /\ Domains' /\ learned'[r] = learned[r] /\ redistributed'[r] = d /\ rib'[r] = rib[r]
      /\ \A s \in Router \ {r} :
           learned'[s] = learned[s] /\ redistributed'[s] = redistributed[s] /\ rib'[s] = rib[s]
  BY <1>2 DEF FailBody, IInv, Domains
<1>7. RoutersOK'
  BY <1>5, <1>6, OneRouterStep
<1> QED
  BY <1>6, <1>7 DEF FailBody, IInv, PacketsOK, PacketsBeyondOrigin

\* A route that is marked down is at infinity, beyond any origin.
LEMMA CheckRoutesStep ==
  ASSUME IInv, NEW r \in Router, CheckRoutes(r)
  PROVE  IInv'
<1> DEFINE C == CheckedRoutes(learned[r])
<1>1. RouterOK(learned[r], redistributed[r], rib[r])
  BY DEF IInv, RoutersOK
<1>2. LearnedTable(C)
  BY <1>1, CheckedType DEF RouterOK
<1>3. ASSUME NEW k \in DOMAIN C
      PROVE  BeyondOrigin(k[1], C[k].metric)
  <2>1. /\ k \in DOMAIN learned[r]
        /\ C[k] = learned[r][k] \/ C[k].metric = MaxMetric
    BY <1>1, <1>3, CheckedLemma DEF RouterOK
  <2>2. BeyondOrigin(k[1], learned[r][k].metric)
    BY <1>1, <2>1 DEF RouterOK
  <2> QED
    BY <2>1, <2>2, InfinityIsBeyond
<1> HIDE DEF C
<1>4. RouterOK(C, redistributed[r], rib[r])
  BY <1>1, <1>2, <1>3 DEF RouterOK
<1>5. /\ Domains' /\ learned'[r] = C /\ redistributed'[r] = redistributed[r] /\ rib'[r] = rib[r]
      /\ \A s \in Router \ {r} :
           learned'[s] = learned[s] /\ redistributed'[s] = redistributed[s] /\ rib'[s] = rib[s]
  BY DEF CheckRoutes, IInv, Domains, C
<1>6. RoutersOK'
  BY <1>4, <1>5, OneRouterStep
<1> QED
  BY <1>5, <1>6 DEF CheckRoutes, IInv, PacketsOK, PacketsBeyondOrigin

\* Time changes no metric.
LEMMA TickStep ==
  ASSUME IInv, Tick
  PROVE  IInv'
<1>1. ASSUME NEW r \in Router
      PROVE  RouterOK(learned'[r], redistributed'[r], rib'[r])
  <2>1. RouterOK(learned[r], redistributed[r], rib[r])
    BY DEF IInv, RoutersOK
  <2>2. LearnedTable(Aged(learned[r]))
    BY <2>1, AgedType DEF RouterOK
  <2>3. \A k \in DOMAIN Aged(learned[r]) : BeyondOrigin(k[1], Aged(learned[r])[k].metric)
    BY <2>1, AgedLemma DEF RouterOK
  <2>4. learned'[r] = Aged(learned[r]) /\ redistributed'[r] = redistributed[r] /\ rib'[r] = rib[r]
    BY DEF Tick
  <2> QED
    BY <2>1, <2>2, <2>3, <2>4 DEF RouterOK
<1>2. Domains'
  BY DEF Tick, IInv, Domains
<1> QED
  BY <1>1, <1>2 DEF Tick, IInv, RoutersOK, PacketsOK, PacketsBeyondOrigin

\* No step, of whichever router, disturbs the invariant.
LEMMA InvStep ==
  ASSUME IInv, [Next]_vars
  PROVE  IInv'
<1>1. ASSUME NEW r \in Router, Advertise(r) PROVE IInv'
  BY <1>1, AdvertiseStep
<1>2. ASSUME NEW r \in Router, NEW p \in flight, Hear(r, p) PROVE IInv'
  BY <1>2, HearStep
<1>3. ASSUME NEW p \in flight, Lose(p) PROVE IInv'
  BY <1>3, LoseStep
<1>4. ASSUME NEW r \in Router, NEW body \in Bodies[r], RedistributeIn(r, body) PROVE IInv'
  BY <1>4, InstallBodyStep, FailBodyStep DEF RedistributeIn
<1>5. ASSUME NEW r \in Router, CheckRoutes(r) PROVE IInv'
  BY <1>5, CheckRoutesStep
<1>6. CASE Tick
  BY <1>6, TickStep
<1>7. ASSUME NEW r \in Router, ListenersDie(r) PROVE IInv'
  BY <1>7 DEF ListenersDie, IInv, Domains, RoutersOK, PacketsOK, PacketsBeyondOrigin
<1>8. CASE UNCHANGED vars
  BY <1>8 DEF vars, IInv, Domains, RoutersOK, PacketsOK, PacketsBeyondOrigin
<1> QED
  BY <1>1, <1>2, <1>3, <1>4, <1>5, <1>6, <1>7, <1>8 DEF Next

\* So it always holds.
LEMMA Inductive == Spec => []IInv
<1>1. Init => IInv
  BY InvInit
<1>2. IInv /\ [Next]_vars => IInv'
  BY InvStep
<1> QED
  BY <1>1, <1>2, PTL DEF Spec

-----------------------------------------------------------------------------
(* Theorems.                                                               *)

\* Every router only ever keeps tables of classful routes with metrics up to infinity,
\* and only packets of such routes are on the segment.
THEOREM TypeCorrect == Spec => []TypeOK
<1>1. ASSUME IInv
      PROVE  TypeOK
  <2>1. ASSUME NEW r \in Router
        PROVE  /\ \E K \in SUBSET WireKey : learned[r] \in [K -> LearnedRoute]
               /\ \E K \in SUBSET Key : redistributed[r] \in [K -> RibRoute]
               /\ \E K \in SUBSET Key : rib[r] \in [K -> RibRoute]
    BY <1>1 DEF IInv, RoutersOK, RouterOK, LearnedTable, RibTable
  <2>2. ASSUME NEW p \in flight
        PROVE  p.src \in Router /\ p.rtes \subseteq Rte
    <3>1. p \in [src : Router, rtes : SUBSET SentRte]
      BY <1>1 DEF IInv, PacketsOK
    <3>2. SentRte \subseteq Rte
      BY RipNetworkAssumption, RipTablesAssumption
         DEF RipNetworkAssumption, RipTablesAssumption, SentRte, Rte
    <3> QED
      BY <3>1, <3>2
  <2> QED
    BY <1>1, <2>1, <2>2 DEF TypeOK, IInv
<1> QED
  BY <1>1, Inductive, PTL

\* Whatever is lost, repeated, delayed or echoed without a split horizon, a learned
\* route is never nearer than a link from a router that redistributes its network.
THEOREM NeverNearerThanALink == Spec => []AtLeastDistance
<1>1. ASSUME IInv
      PROVE  AtLeastDistance
  BY <1>1 DEF IInv, RoutersOK, RouterOK, BeyondOrigin, AtLeastDistance
<1> QED
  BY <1>1, Inductive, PTL

-----------------------------------------------------------------------------
(* The nearest origin.  refresh_rib imports the redistributed routes       *)
(* before the learned ones, at each step that changes the former.          *)

\* A router's RIB holds its redistributed routes as they are, unless the last body failed
\* and the RIB has not been rebuilt since.
OwnInRib ==
  \A r \in Router \ behind : \A k \in DOMAIN redistributed[r] :
    k \in DOMAIN rib[r] /\ rib[r][k] = redistributed[r][k]

\* A rebuilt RIB holds them, and the other routers' are left alone.
LEMMA RebuildKeepsOwn ==
  ASSUME Domains, OwnInRib, NEW r \in Router, Rebuilds(r),
         \A s \in Router \ {r} : redistributed'[s] = redistributed[s]
  PROVE  OwnInRib'
<1>1. PICK t \in Refreshes(redistributed'[r], learned'[r]) : rib' = [rib EXCEPT ![r] = t]
  BY DEF Rebuilds
<1>2. rib'[r] = t /\ \A s \in Router \ {r} : rib'[s] = rib[s]
  BY <1>1 DEF Domains
<1>3. \A k \in DOMAIN redistributed'[r] : k \in DOMAIN t /\ t[k] = redistributed'[r][k]
  BY <1>1, RefreshesLemma
<1>4. behind' = behind \ {r}
  BY DEF Rebuilds
<1> QED
  BY <1>2, <1>3, <1>4 DEF OwnInRib

\* No step lets go of a redistributed route but one that takes it out of both tables, or
\* one that puts the router behind.
LEMMA OwnStep ==
  ASSUME Domains, OwnInRib, [Next]_vars
  PROVE  OwnInRib'
<1>1. ASSUME UNCHANGED <<redistributed, rib, behind>>
      PROVE  OwnInRib'
  BY <1>1 DEF OwnInRib
<1>2. ASSUME NEW r \in Router, NEW p \in flight, Hear(r, p)
      PROVE  OwnInRib'
  BY <1>2, RebuildKeepsOwn DEF Hear
<1>3. ASSUME NEW r \in Router, NEW body \in Bodies[r], InstallBody(r, body)
      PROVE  OwnInRib'
  <2>1. \A s \in Router \ {r} : redistributed'[s] = redistributed[s]
    BY <1>3 DEF InstallBody, Domains
  <2> QED
    BY <1>3, <2>1, RebuildKeepsOwn DEF InstallBody
<1>4. ASSUME NEW r \in Router, NEW body \in Bodies[r], FailBody(r, body)
      PROVE  OwnInRib'
  <2>1. /\ behind' = behind \cup {r} /\ rib' = rib
        /\ \A s \in Router \ {r} : redistributed'[s] = redistributed[s]
    BY <1>4 DEF FailBody, Domains
  <2> QED
    BY <2>1 DEF OwnInRib
<1> QED
  BY <1>1, <1>2, <1>3, <1>4 DEF Next, vars, RedistributeIn, Advertise, Lose, CheckRoutes, Tick,
     ListenersDie

\* The best route an origin has is no better than the nearest origin's and no worse than
\* its own.
LEMMA OwnIsBest ==
  ASSUME IInv, OwnInRib, NEW r \in Router \ behind, NEW k \in DOMAIN redistributed[r],
         \A m \in OriginMetric(k[1]) : redistributed[r][k].metric =< m,
         NEW content \in Responses(rib[r])
  PROVE  content[k[1]] = Capped(redistributed[r][k].metric + 1, MaxMetric)
<1>1. RouterOK(learned[r], redistributed[r], rib[r])
  BY DEF IInv, RoutersOK
<1>2. k \in DOMAIN rib[r] /\ rib[r][k] = redistributed[r][k]
  BY DEF OwnInRib
<1>3. PICK j \in DOMAIN rib[r] :
        /\ j[1] = k[1]
        /\ content[k[1]] = Capped(rib[r][j].metric + 1, MaxMetric)
        /\ \A q \in DOMAIN rib[r] : q[1] = k[1] => rib[r][j].metric =< rib[r][q].metric
  BY <1>2 DEF Responses
<1>4. rib[r][j].metric =< redistributed[r][k].metric
  BY <1>2, <1>3
<1>5. PICK o \in OriginMetric(k[1]) : rib[r][j].metric >= o
  BY <1>1, <1>3 DEF RouterOK, FromOrigin
<1>6. rib[r][j].metric \in 0..MaxMetric /\ redistributed[r][k].metric \in 0..MaxMetric
  BY <1>1, <1>2, RibTableLemma DEF RouterOK, RibRoute
<1>7. o \in 0..MaxMetric /\ MaxMetric \in Nat
  BY OriginMetricType, RipTablesAssumption DEF RipTablesAssumption
<1>8. rib[r][j].metric = redistributed[r][k].metric
  BY <1>4, <1>5, <1>6, <1>7
<1> QED
  BY <1>3, <1>8

\* Without a split horizon, and though a router may hear itself: the nearest origin of a
\* network goes on advertising it at its own metric, except after a body that failed, until
\* its RIB is rebuilt.
THEOREM NearestOriginNeverDisturbed == Spec => []NearestOriginUndisturbed
<1>1. Init => OwnInRib
  BY EmptyTableType DEF Init, OwnInRib
<1>2. IInv /\ OwnInRib /\ [Next]_vars => OwnInRib'
  BY OwnStep DEF IInv
<1>3. IInv /\ OwnInRib => NearestOriginUndisturbed
  BY OwnIsBest DEF NearestOriginUndisturbed
<1> QED
  BY <1>1, <1>2, <1>3, Inductive, PTL DEF Spec

=============================================================================
