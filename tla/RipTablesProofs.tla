--------------------------- MODULE RipTablesProofs ---------------------------
(***************************************************************************)
(* Lemmas about the operators of Rib and RipTables: what they return, and  *)
(* that they take well-typed tables to well-typed tables.  The proofs      *)
(* about one RIP instance and about a network of them rest on these.       *)
(***************************************************************************)
EXTENDS RipTables, TLAPS

LearnedTable(t) == \E K \in SUBSET WireKey : t \in [K -> LearnedRoute]

RibTable(t) == \E K \in SUBSET Key : t \in [K -> RibRoute]

WirePacket == [src : Hop, rtes : SUBSET Rte]

-----------------------------------------------------------------------------
(* Tables.                                                                 *)

\* What import_routes returns: both tables, the left one on top.
LEMMA ImportRoutesLemma ==
  ASSUME NEW a, NEW b
  PROVE  /\ DOMAIN ImportRoutes(a, b) = DOMAIN a \cup DOMAIN b
         /\ \A k \in DOMAIN a : ImportRoutes(a, b)[k] = a[k]
         /\ \A k \in DOMAIN b \ DOMAIN a : ImportRoutes(a, b)[k] = b[k]
BY DEF ImportRoutes

\* A table filled from a set of pairs has the keys of the pairs, and each of its
\* routes is one of the pairs.
LEMMA TablesOfLemma ==
  ASSUME NEW P, NEW t \in TablesOf(P)
  PROVE  /\ DOMAIN t = {p[1] : p \in P}
         /\ \A k \in DOMAIN t : <<k, t[k]>> \in P
         /\ t \in [{p[1] : p \in P} -> {p[2] : p \in P}]
BY DEF TablesOf

\* The metrics stay within infinity.
LEMMA CappedType ==
  ASSUME NEW n \in Nat, NEW b \in Nat
  PROVE  Capped(n, b) \in 0..b
BY DEF Capped

\* The same, key by key: a well-typed table has well-typed keys and routes.
LEMMA LearnedTableLemma ==
  ASSUME NEW t
  PROVE  LearnedTable(t) <=>
           /\ t = [k \in DOMAIN t |-> t[k]]
           /\ \A k \in DOMAIN t : k \in WireKey /\ t[k] \in LearnedRoute
BY DEF LearnedTable

\* And so has a RIB.
LEMMA RibTableLemma ==
  ASSUME NEW t
  PROVE  RibTable(t) <=>
           /\ t = [k \in DOMAIN t |-> t[k]]
           /\ \A k \in DOMAIN t : k \in Key /\ t[k] \in RibRoute
BY DEF RibTable

\* The empty table is of every type.
LEMMA EmptyTableType == LearnedTable(EmptyTable) /\ RibTable(EmptyTable) /\ DOMAIN EmptyTable = {}
<1>1. DOMAIN EmptyTable = {} /\ EmptyTable = [k \in DOMAIN EmptyTable |-> EmptyTable[k]]
  BY DEF EmptyTable
<1> QED
  BY <1>1, LearnedTableLemma, RibTableLemma

-----------------------------------------------------------------------------
(* The learned routes.                                                     *)

\* The routes of a packet: a wire key each, a real next hop, a metric up to infinity.
LEMMA ReceivedType ==
  ASSUME NEW p \in WirePacket
  PROVE  ReceivedRoutes(p) \subseteq WireKey \X LearnedRoute
<1> SUFFICES ASSUME NEW rte \in p.rtes, Classful[rte.addr] # Invalid
             PROVE  /\ <<Classful[rte.addr], rte.next_hop>> \in WireKey
                    /\ [hop |-> IF rte.next_hop = Unspecified THEN p.src ELSE rte.next_hop,
                        metric |-> Capped(rte.metric, MaxMetric), age |-> 0] \in LearnedRoute
  BY DEF ReceivedRoutes
<1>1. p.src \in Hop /\ rte \in Rte
  BY DEF WirePacket
<1>2. Classful[rte.addr] \in Net
  BY <1>1, RipTablesAssumption DEF RipTablesAssumption, Rte
<1>3. Capped(rte.metric, MaxMetric) \in 0..MaxMetric
  BY <1>1, CappedType, RipTablesAssumption DEF RipTablesAssumption, Rte
<1>4. 0 \in 0..(GarbageTimeout + 1)
  BY RipTablesAssumption DEF RipTablesAssumption
<1> QED
  BY <1>1, <1>2, <1>3, <1>4 DEF WireKey, LearnedRoute, Rte

\* What learning leaves: the routes of the packet, and below them the old ones.
LEMMA LearnLemma ==
  ASSUME NEW old, NEW P, NEW new \in TablesOf(P)
  PROVE  /\ DOMAIN Learn(old, new) = DOMAIN new \cup DOMAIN old
         /\ \A k \in DOMAIN new : Learn(old, new)[k] = new[k] /\ <<k, new[k]>> \in P
         /\ \A k \in DOMAIN old \ DOMAIN new : Learn(old, new)[k] = old[k]
         /\ Learn(old, new) = [k \in DOMAIN Learn(old, new) |-> Learn(old, new)[k]]
BY TablesOfLemma DEF Learn, ImportRoutes

\* Learning a packet keeps the learned routes well typed.
LEMMA LearnType ==
  ASSUME NEW old, LearnedTable(old), NEW p \in WirePacket,
         NEW new \in TablesOf(ReceivedRoutes(p))
  PROVE  LearnedTable(Learn(old, new))
<1> DEFINE P == ReceivedRoutes(p)
           L == Learn(old, new)
<1>1. P \subseteq WireKey \X LearnedRoute
  BY ReceivedType
<1>2. \A k \in DOMAIN old : k \in WireKey /\ old[k] \in LearnedRoute
  BY LearnedTableLemma
<1> HIDE DEF P
<1>3. /\ DOMAIN L = DOMAIN new \cup DOMAIN old
      /\ \A k \in DOMAIN new : L[k] = new[k] /\ <<k, new[k]>> \in P
      /\ \A k \in DOMAIN old \ DOMAIN new : L[k] = old[k]
      /\ L = [k \in DOMAIN L |-> L[k]]
  BY LearnLemma DEF P
<1>4. \A k \in DOMAIN L : k \in WireKey /\ L[k] \in LearnedRoute
  BY <1>1, <1>2, <1>3
<1> HIDE DEF L
<1>5. LearnedTable(L)
  BY <1>3, <1>4, LearnedTableLemma
<1> QED
  BY <1>5 DEF L

\* A pass of housekeeping removes routes and marks routes past their timeout down.
LEMMA CheckedLemma ==
  ASSUME NEW t, LearnedTable(t), NEW k \in DOMAIN CheckedRoutes(t)
  PROVE  /\ k \in DOMAIN t
         /\ CheckedRoutes(t)[k].hop = t[k].hop
         /\ CheckedRoutes(t)[k].age = t[k].age
         /\ \/ CheckedRoutes(t)[k] = t[k]
            \/ CheckedRoutes(t)[k].metric = MaxMetric /\ t[k].age > RouteTimeout
<1>1. k \in DOMAIN t /\ t[k] \in LearnedRoute
  BY LearnedTableLemma DEF CheckedRoutes
<1>2. CheckedRoutes(t)[k] = IF t[k].age > RouteTimeout
                            THEN [t[k] EXCEPT !.metric = MaxMetric] ELSE t[k]
  BY DEF CheckedRoutes
<1> QED
  BY <1>1, <1>2 DEF LearnedRoute

\* Housekeeping keeps the learned routes well typed.
LEMMA CheckedType ==
  ASSUME NEW t, LearnedTable(t)
  PROVE  LearnedTable(CheckedRoutes(t))
<1>1. ASSUME NEW k \in DOMAIN CheckedRoutes(t)
      PROVE  k \in WireKey /\ CheckedRoutes(t)[k] \in LearnedRoute
  <2>1. k \in DOMAIN t /\ k \in WireKey /\ t[k] \in LearnedRoute
    BY LearnedTableLemma DEF CheckedRoutes
  <2>2. [t[k] EXCEPT !.metric = MaxMetric] \in LearnedRoute
    BY <2>1, RipTablesAssumption DEF RipTablesAssumption, LearnedRoute
  <2> QED
    BY <2>1, <2>2 DEF CheckedRoutes
<1>2. CheckedRoutes(t) = [k \in DOMAIN CheckedRoutes(t) |-> CheckedRoutes(t)[k]]
  BY DEF CheckedRoutes
<1> QED
  BY <1>1, <1>2, LearnedTableLemma

\* The passing of time changes neither keys nor metrics, and what is past its timeout
\* stays past it.
LEMMA AgedLemma ==
  ASSUME NEW t, LearnedTable(t)
  PROVE  /\ DOMAIN Aged(t) = DOMAIN t
         /\ \A k \in DOMAIN t :
              /\ Aged(t)[k].hop = t[k].hop
              /\ Aged(t)[k].metric = t[k].metric
              /\ Aged(t)[k].age \in 0..(GarbageTimeout + 1)
              /\ t[k].age > RouteTimeout => Aged(t)[k].age > RouteTimeout
              /\ Aged(t)[k] \in LearnedRoute
<1> SUFFICES ASSUME NEW k \in DOMAIN t
             PROVE  /\ Aged(t)[k].hop = t[k].hop
                    /\ Aged(t)[k].metric = t[k].metric
                    /\ Aged(t)[k].age \in 0..(GarbageTimeout + 1)
                    /\ t[k].age > RouteTimeout => Aged(t)[k].age > RouteTimeout
                    /\ Aged(t)[k] \in LearnedRoute
  BY DEF Aged
<1>1. t[k] \in LearnedRoute
  BY LearnedTableLemma
<1>2. Aged(t)[k] = [t[k] EXCEPT !.age = Capped(t[k].age + 1, GarbageTimeout + 1)]
  BY DEF Aged
<1>3. /\ Capped(t[k].age + 1, GarbageTimeout + 1) \in 0..(GarbageTimeout + 1)
      /\ t[k].age > RouteTimeout => Capped(t[k].age + 1, GarbageTimeout + 1) > RouteTimeout
  BY <1>1, RipTablesAssumption DEF RipTablesAssumption, LearnedRoute, Capped
<1> QED
  BY <1>1, <1>2, <1>3 DEF LearnedRoute

\* The passing of time keeps the learned routes well typed.
LEMMA AgedType ==
  ASSUME NEW t, LearnedTable(t)
  PROVE  LearnedTable(Aged(t))
<1>1. Aged(t) = [k \in DOMAIN Aged(t) |-> Aged(t)[k]]
  BY DEF Aged
<1> QED
  BY <1>1, AgedLemma, LearnedTableLemma

-----------------------------------------------------------------------------
(* The RIB.                                                                *)

\* What export_routes() of the learned routes gives import_routes.
LEMMA ExportedLemma ==
  ASSUME NEW table, NEW t \in Exported(table)
  PROVE  /\ DOMAIN t = {RibKey(table, k) : k \in DOMAIN table}
         /\ \A q \in DOMAIN t : \E k \in DOMAIN table :
              /\ RibKey(table, k) = q
              /\ t[q] = [metric |-> table[k].metric, source |-> "RIP1"]
<1> DEFINE Pair(k) == <<RibKey(table, k), [metric |-> table[k].metric, source |-> "RIP1"]>>
           P == {Pair(k) : k \in DOMAIN table}
<1>1. t \in TablesOf(P)
  BY DEF Exported
<1>2. /\ DOMAIN t = {p[1] : p \in P}
      /\ \A q \in DOMAIN t : <<q, t[q]>> \in P
  <2> HIDE DEF P
  <2> QED
    BY <1>1, TablesOfLemma
<1>3. {p[1] : p \in P} = {RibKey(table, k) : k \in DOMAIN table}
  <2>1. \A k \in DOMAIN table : Pair(k)[1] = RibKey(table, k)
    OBVIOUS
  <2> HIDE DEF Pair
  <2> QED
    BY <2>1, Zenon
<1>4. ASSUME NEW q \in DOMAIN t
      PROVE  \E k \in DOMAIN table :
               /\ RibKey(table, k) = q
               /\ t[q] = [metric |-> table[k].metric, source |-> "RIP1"]
  <2>1. PICK k \in DOMAIN table : <<q, t[q]>> = Pair(k)
    BY <1>2
  <2> QED
    BY <2>1
<1> QED
  BY <1>2, <1>3, <1>4

\* What refresh_rib leaves in the RIB: every redistributed route as it is, every
\* learned route under its RIB key, and nothing else.
LEMMA RefreshesLemma ==
  ASSUME NEW redist, NEW learnt, NEW r \in Refreshes(redist, learnt)
  PROVE  /\ \A q : q \in DOMAIN r <=>
              q \in DOMAIN redist \/ \E k \in DOMAIN learnt : RibKey(learnt, k) = q
         /\ \A q \in DOMAIN redist : r[q] = redist[q]
         /\ \A q \in DOMAIN r \ DOMAIN redist : \E k \in DOMAIN learnt :
              /\ RibKey(learnt, k) = q
              /\ r[q] = [metric |-> learnt[k].metric, source |-> "RIP1"]
<1>1. PICK t \in Exported(learnt) : r = ImportRoutes(redist, t)
  BY DEF Refreshes
<1>2. /\ DOMAIN t = {RibKey(learnt, k) : k \in DOMAIN learnt}
      /\ \A q \in DOMAIN t : \E k \in DOMAIN learnt :
           /\ RibKey(learnt, k) = q
           /\ t[q] = [metric |-> learnt[k].metric, source |-> "RIP1"]
  BY ExportedLemma
<1>3. /\ DOMAIN r = DOMAIN redist \cup DOMAIN t
      /\ \A q \in DOMAIN redist : r[q] = redist[q]
      /\ \A q \in DOMAIN t \ DOMAIN redist : r[q] = t[q]
  BY <1>1 DEF ImportRoutes
<1> QED
  BY <1>2, <1>3

\* refresh_rib builds a well-typed RIB out of well-typed tables.
LEMMA RefreshesType ==
  ASSUME NEW redist, NEW learnt, NEW r \in Refreshes(redist, learnt),
         RibTable(redist), LearnedTable(learnt)
  PROVE  RibTable(r)
<1>1. /\ \A q : q \in DOMAIN r <=>
              q \in DOMAIN redist \/ \E k \in DOMAIN learnt : RibKey(learnt, k) = q
      /\ \A q \in DOMAIN redist : r[q] = redist[q]
      /\ \A q \in DOMAIN r \ DOMAIN redist : \E k \in DOMAIN learnt :
           /\ RibKey(learnt, k) = q
           /\ r[q] = [metric |-> learnt[k].metric, source |-> "RIP1"]
  BY RefreshesLemma
<1>2. \A k \in DOMAIN redist : k \in Key /\ redist[k] \in RibRoute
  BY RibTableLemma
<1>3. \A k \in DOMAIN learnt : RibKey(learnt, k) \in Key /\ learnt[k].metric \in 0..MaxMetric
  BY LearnedTableLemma DEF RibKey, Key, WireKey, LearnedRoute
<1>4. DOMAIN r \in SUBSET Key
  BY <1>1, <1>2, <1>3
<1>5. ASSUME NEW q \in DOMAIN r
      PROVE  r[q] \in RibRoute
  <2>1. CASE q \in DOMAIN redist
    BY <1>1, <1>2, <2>1
  <2>2. CASE q \notin DOMAIN redist
    <3>1. PICK k \in DOMAIN learnt : r[q] = [metric |-> learnt[k].metric, source |-> "RIP1"]
      BY <1>1, <2>2
    <3> QED
      BY <1>3, <3>1 DEF RibRoute, Source
  <2> QED
    BY <2>1, <2>2
<1>6. r = [q \in DOMAIN r |-> r[q]]
  BY DEF Refreshes, ImportRoutes
<1> QED
  BY <1>4, <1>5, <1>6, RibTableLemma

-----------------------------------------------------------------------------
(* Redistribution and responses.                                           *)

\* A redistributed route: a key of the RIB, a metric up to infinity, and a source that
\* may be redistributed.
LEMMA RedistributedPairType ==
  ASSUME NEW offer \in SUBSET CpRoute, NEW r \in Accepted(offer), r \notin Unclassful(offer)
  PROVE  /\ RedistributedPair(r) \in Key \X RibRoute
         /\ RedistributedPair(r)[2].source \in RedistributeInSources
<1>1. r \in CpRoute /\ r.source \in RedistributeInSources
  BY DEF Accepted
<1>2. Classful[r.prefix] \in Net
  BY <1>1, RipTablesAssumption DEF RipTablesAssumption, Unclassful, CpRoute
<1>3. Capped(InMetric[r.source], MaxMetric) \in 0..MaxMetric
  <2>1. InMetric[r.source] \in Nat
    BY <1>1, RipTablesAssumption DEF RipTablesAssumption, CpRoute
  <2> QED
    BY <2>1, CappedType, RipTablesAssumption DEF RipTablesAssumption
<1> QED
  BY <1>1, <1>2, <1>3 DEF RedistributedPair, Key, RibRoute, CpRoute

\* The table redistribute_in fills: well typed, and made of the routes it was given.
LEMMA InstalledLemma ==
  ASSUME NEW offer \in SUBSET CpRoute, NEW good \in SUBSET (Accepted(offer) \ Unclassful(offer)),
         NEW old, NEW t \in Installed(old, good)
  PROVE  /\ RibTable(t)
         /\ \A k \in DOMAIN t : t[k].source \in RedistributeInSources
         /\ \A k \in DOMAIN t : \E r \in good : <<k, t[k]>> = RedistributedPair(r)
<1> DEFINE P == {RedistributedPair(r) : r \in good}
<1>1. \A x \in P : x \in Key \X RibRoute /\ x[2].source \in RedistributeInSources
  BY RedistributedPairType
<1>2. t \in TablesOf(P)
  BY DEF Installed
<1>3. \A x \in P : \E r \in good : x = RedistributedPair(r)
  OBVIOUS
<1> HIDE DEF P
<1>4. /\ DOMAIN t = {x[1] : x \in P}
      /\ \A k \in DOMAIN t : <<k, t[k]>> \in P
      /\ t \in [{x[1] : x \in P} -> {x[2] : x \in P}]
  BY <1>2, TablesOfLemma
<1>5. \A k \in DOMAIN t : k \in Key /\ t[k] \in RibRoute /\ t[k].source \in RedistributeInSources
  BY <1>1, <1>4
<1>6. t = [k \in DOMAIN t |-> t[k]]
  BY <1>4
<1> QED
  BY <1>3, <1>4, <1>5, <1>6, RibTableLemma

\* The content of a response: for each network of the table the metric of some route to
\* it, and one more for the link.
LEMMA ResponsesLemma ==
  ASSUME NEW table, RibTable(table), NEW c \in Responses(table)
  PROVE  /\ \E N \in SUBSET Net : c \in [N -> 0..MaxMetric]
         /\ \A n \in DOMAIN c : \E k \in DOMAIN table :
              k[1] = n /\ c[n] = Capped(table[k].metric + 1, MaxMetric)
<1> DEFINE N == {k[1] : k \in DOMAIN table}
<1>1. N \in SUBSET Net
  BY RibTableLemma DEF Key
<1>2. c \in [N -> 0..MaxMetric]
  BY DEF Responses
<1>3. \A n \in DOMAIN c : \E k \in DOMAIN table :
        k[1] = n /\ c[n] = Capped(table[k].metric + 1, MaxMetric)
  BY DEF Responses
<1> QED
  BY <1>1, <1>2, <1>3

=============================================================================
