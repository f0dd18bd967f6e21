-------------------------- MODULE RipInstanceProofs --------------------------
(***************************************************************************)
(* Proofs about RipInstance, for every set of prefixes, hops, packets and  *)
(* redistribute_in bodies and for all timers and metrics.                  *)
(***************************************************************************)
EXTENDS RipInstance, RipTablesProofs

-----------------------------------------------------------------------------
(* Types.                                                                  *)

\* TypeOK by tables.
LEMMA TypeTables ==
  TypeOK <=> /\ LearnedTable(learned) /\ RibTable(redistributed) /\ RibTable(rib)
             /\ triggers \in 0..MaxTriggers
             /\ \E N \in SUBSET Net : sent \in [N -> 0..MaxMetric]
             /\ posted \in Offer \cup {{}}
BY DEF TypeOK, LearnedTable, RibTable

\* The packets and the bodies are what the handlers take.
LEMMA InputsType ==
  /\ Packet \subseteq WirePacket
  /\ Offer \cup {{}} \subseteq SUBSET CpRoute
BY RipAssumption DEF RipAssumption, WirePacket

\* Learning from a packet.
LEMMA HandleResponseType ==
  ASSUME LearnedTable(learned), NEW p \in Packet, HandleResponse(p)
  PROVE  LearnedTable(learned')
<1>1. PICK new \in TablesOf(ReceivedRoutes(p)) : learned' = Learn(learned, new)
  BY DEF HandleResponse
<1> QED
  BY <1>1, InputsType, LearnType

\* Whichever way redistribute_in ends, the table it fills is well typed and holds
\* routes of the configured sources only.
LEMMA RedistributeInType ==
  ASSUME NEW offer \in Offer, RedistributeIn(offer)
  PROVE  /\ RibTable(redistributed')
         /\ \A k \in DOMAIN redistributed' : redistributed'[k].source \in RedistributeInSources
<1>1. PICK good \in SUBSET (Accepted(offer) \ Unclassful(offer)) :
        redistributed' \in Installed(redistributed, good)
  <2>1. CASE InstallOffer(offer)
    BY <2>1 DEF InstallOffer
  <2>2. CASE FailOffer(offer)
    BY <2>2 DEF FailOffer
  <2> QED
    BY <2>1, <2>2 DEF RedistributeIn
<1> QED
  BY <1>1, InputsType, InstalledLemma

\* redistribute_in leaves a well-typed RIB.
LEMMA RedistributeInRib ==
  ASSUME LearnedTable(learned), RibTable(rib), NEW offer \in Offer, RedistributeIn(offer)
  PROVE  RibTable(rib')
<1>1. CASE InstallOffer(offer)
  <2>1. RibTable(redistributed')
    BY RedistributeInType
  <2>2. rib' \in Refreshes(redistributed', learned)
    BY <1>1 DEF InstallOffer
  <2> QED
    BY <2>1, <2>2, RefreshesType
<1>2. CASE FailOffer(offer)
  BY <1>2 DEF FailOffer
<1> QED
  BY <1>1, <1>2 DEF RedistributeIn

\* A trigger adds one outstanding call at most, and none beyond the bound.
LEMMA TriggersType ==
  ASSUME triggers \in 0..MaxTriggers, TriggersRedistribution
  PROVE  triggers' \in 0..MaxTriggers
BY RipAssumption DEF RipAssumption, TriggersRedistribution

\* The tables are empty at the start.
LEMMA TypeInit == Init => TypeOK
<1> SUFFICES ASSUME Init
             PROVE  TypeOK
  OBVIOUS
<1>1. sent \in [{} -> 0..MaxMetric] /\ {} \in SUBSET Net
  BY DEF Init, EmptyTable
<1>2. triggers \in 0..MaxTriggers
  BY RipAssumption DEF Init, RipAssumption
<1> QED
  BY <1>1, <1>2, EmptyTableType, TypeTables DEF Init

\* Every step keeps the types.
LEMMA TypeStep == TypeOK /\ [Next]_vars => TypeOK'
<1> SUFFICES ASSUME TypeOK, [Next]_vars
             PROVE  TypeOK'
  OBVIOUS
<1> DEFINE SentType == \E N \in SUBSET Net : sent \in [N -> 0..MaxMetric]
           T == /\ LearnedTable(learned) /\ RibTable(redistributed) /\ RibTable(rib)
                /\ triggers \in 0..MaxTriggers
                /\ SentType
                /\ posted \in Offer \cup {{}}
<1>0. T
  BY TypeTables
<1> SUFFICES T'
  BY DEF TypeOK, LearnedTable, RibTable
<1>1. CASE SendResponse
  <2>1. SentType'
    BY <1>0, <1>1, ResponsesLemma DEF SendResponse
  <2> QED
    BY <1>0, <1>1, <2>1 DEF SendResponse
<1>2. ASSUME NEW p \in Packet, HandleResponse(p)
      PROVE  T'
  <2>1. LearnedTable(learned')
    BY <1>0, <1>2, HandleResponseType
  <2>2. RibTable(rib')
    <3>1. rib' \in Refreshes(redistributed, learned')
      BY <1>2 DEF HandleResponse
    <3> QED
      BY <1>0, <2>1, <3>1, RefreshesType
  <2>3. SentType'
    <3>1. sent' \in Responses(rib') \/ sent' = sent
      BY <1>2 DEF HandleResponse, Answers
    <3> QED
      BY <1>0, <2>2, <3>1, ResponsesLemma
  <2>4. triggers' \in 0..MaxTriggers
    BY <1>0, <1>2, TriggersType DEF HandleResponse
  <2> QED
    BY <1>0, <1>2, <2>1, <2>2, <2>3, <2>4 DEF HandleResponse
<1>3. ASSUME NEW offer \in Offer, RedistributeIn(offer), triggers' \in 0..MaxTriggers
      PROVE  T'
  <2>1. RibTable(redistributed')
    BY <1>3, RedistributeInType
  <2>2. RibTable(rib')
    BY <1>0, <1>3, RedistributeInRib
  <2>3. UNCHANGED <<learned, sent>> /\ posted' = offer
    BY <1>3 DEF RedistributeIn, InstallOffer, FailOffer
  <2> QED
    BY <1>0, <1>3, <2>1, <2>2, <2>3
<1>4. ASSUME NEW offer \in Offer, OperatorRedistribution(offer)
      PROVE  RedistributeIn(offer) /\ triggers' \in 0..MaxTriggers
  BY <1>0, <1>4 DEF OperatorRedistribution
<1>5. ASSUME NEW offer \in Offer, TriggeredRedistribution(offer)
      PROVE  RedistributeIn(offer) /\ triggers' \in 0..MaxTriggers
  BY <1>0, <1>5, RipAssumption DEF TriggeredRedistribution, RipAssumption
<1>6. CASE LoseTrigger
  BY <1>0, <1>6, RipAssumption DEF LoseTrigger, RipAssumption
<1>7. CASE RefreshRib
  <2>1. RibTable(rib')
    BY <1>0, <1>7, RefreshesType DEF RefreshRib
  <2> QED
    BY <1>0, <1>7, <2>1 DEF RefreshRib
<1>8. CASE CheckRoutes
  <2>1. LearnedTable(learned')
    BY <1>0, <1>8, CheckedType DEF CheckRoutes
  <2> QED
    BY <1>0, <1>8, <2>1, TriggersType DEF CheckRoutes
<1>9. CASE Tick
  <2>1. LearnedTable(learned')
    BY <1>0, <1>9, AgedType DEF Tick
  <2> QED
    BY <1>0, <1>9, <2>1 DEF Tick
<1>10. CASE UNCHANGED vars
  BY <1>0, <1>10 DEF vars
<1> HIDE DEF T
<1> QED
  BY <1>1, <1>2, <1>3, <1>4, <1>5, <1>6, <1>7, <1>8, <1>9, <1>10 DEF Next

\* The tables of a RIP instance hold routes of their own kind, under keys of their
\* own kind, whatever packets and redistribute_in bodies arrive.
THEOREM TypeCorrect == Spec => []TypeOK
<1> QED
  BY TypeInit, TypeStep, PTL DEF Spec

-----------------------------------------------------------------------------
(* The RIB against the tables it is built from.                            *)

\* A learned route is stored under 0.0.0.0 or under the next hop its packet named.
WireKeysTrue ==
  \A k \in DOMAIN learned :
    k[2] = Unspecified \/ (k[2] \in NamedHop /\ learned[k].hop = k[2])

\* No redistributed route has RIP for its source: none can pass for a learned one.
RedistForeign == \A k \in DOMAIN redistributed : redistributed[k].source \in RedistributeInSources

\* After a body that could be installed, the table of redistributed routes is one
\* that body fills, and it is the foreign part of the RIB.
BodyInstalled ==
  Unclassful(posted) = {} =>
    /\ redistributed \in TablesOf({RedistributedPair(r) : r \in Accepted(posted)})
    /\ \A k \in DOMAIN redistributed : k \in DOMAIN rib /\ rib[k] = redistributed[k]
    /\ \A k \in DOMAIN rib : rib[k].source # "RIP1" => k \in DOMAIN redistributed

IInv == TypeOK /\ WireKeysTrue /\ RedistForeign /\ RibTracksLearned /\ BodyInstalled

\* A packet brings routes under true keys.
LEMMA ReceivedKeysTrue ==
  ASSUME NEW p \in Packet, NEW x \in ReceivedRoutes(p)
  PROVE  x[1][2] = Unspecified \/ (x[1][2] \in NamedHop /\ x[2].hop = x[1][2])
<1>1. PICK rte \in p.rtes :
        /\ x[1][2] = rte.next_hop
        /\ x[2].hop = IF rte.next_hop = Unspecified THEN p.src ELSE rte.next_hop
  BY DEF ReceivedRoutes
<1>2. rte.next_hop \in NamedHop
  BY DEF NamedHop
<1> QED
  BY <1>1, <1>2

\* Learning keeps wire keys true.
LEMMA LearnKeepsKeysTrue ==
  ASSUME WireKeysTrue, NEW p \in Packet, HandleResponse(p)
  PROVE  WireKeysTrue'
<1>1. PICK new \in TablesOf(ReceivedRoutes(p)) : learned' = Learn(learned, new)
  BY DEF HandleResponse
<1>2. /\ DOMAIN learned' = DOMAIN new \cup DOMAIN learned
      /\ \A k \in DOMAIN new : learned'[k] = new[k]
      /\ \A k \in DOMAIN learned \ DOMAIN new : learned'[k] = learned[k]
  BY <1>1 DEF Learn, ImportRoutes
<1>3. ASSUME NEW k \in DOMAIN new
      PROVE  k[2] = Unspecified \/ (k[2] \in NamedHop /\ learned'[k].hop = k[2])
  <2>1. <<k, new[k]>> \in ReceivedRoutes(p)
    BY TablesOfLemma
  <2>2. LET x == <<k, new[k]>>
        IN  x[1][2] = Unspecified \/ (x[1][2] \in NamedHop /\ x[2].hop = x[1][2])
    BY <2>1, ReceivedKeysTrue
  <2> QED
    BY <1>2, <2>2
<1> QED
  BY <1>2, <1>3 DEF WireKeysTrue

\* Two learned routes with one RIB key are one route, unless a packet named the hop.
LEMMA RibKeyInjective ==
  ASSUME WireKeysTrue', learned' \in [DOMAIN learned' -> LearnedRoute],
         DOMAIN learned' \subseteq WireKey,
         NEW j \in DOMAIN learned', NEW k \in DOMAIN learned',
         RibKey(learned', j) = RibKey(learned', k), learned'[k].hop \notin NamedHop
  PROVE  j = k
<1>1. j[1] = k[1] /\ learned'[j].hop = learned'[k].hop
  BY DEF RibKey
<1>2. j[2] = Unspecified /\ k[2] = Unspecified
  BY <1>1 DEF WireKeysTrue
<1>3. j = <<j[1], j[2]>> /\ k = <<k[1], k[2]>>
  BY DEF WireKey
<1> QED
  BY <1>1, <1>2, <1>3

\* refresh_rib brings the RIB in step with both of its tables.
LEMMA RefreshTracks ==
  ASSUME LearnedTable(learned'), WireKeysTrue', RedistForeign', rib' \in Refreshes(redistributed', learned')
  PROVE  /\ RibTracksLearned'
         /\ \A k \in DOMAIN redistributed' : k \in DOMAIN rib' /\ rib'[k] = redistributed'[k]
         /\ \A k \in DOMAIN rib' : rib'[k].source # "RIP1" => k \in DOMAIN redistributed'
<1>1. /\ \A q : q \in DOMAIN rib' <=>
             q \in DOMAIN redistributed' \/ \E k \in DOMAIN learned' : RibKey(learned', k) = q
      /\ \A q \in DOMAIN redistributed' : rib'[q] = redistributed'[q]
      /\ \A q \in DOMAIN rib' \ DOMAIN redistributed' : \E k \in DOMAIN learned' :
           /\ RibKey(learned', k) = q
           /\ rib'[q] = [metric |-> learned'[k].metric, source |-> "RIP1"]
  BY RefreshesLemma
<1>2. ASSUME NEW k \in DOMAIN learned', rib'[RibKey(learned', k)].source = "RIP1",
             learned'[k].hop \notin NamedHop
      PROVE  rib'[RibKey(learned', k)].metric = learned'[k].metric
  <2> DEFINE q == RibKey(learned', k)
  <2>1. q \in DOMAIN rib'
    BY <1>1
  <2>2. q \notin DOMAIN redistributed'
    BY <1>1, <1>2, RipTablesAssumption DEF RedistForeign, RipTablesAssumption
  <2>3. PICK j \in DOMAIN learned' :
          /\ RibKey(learned', j) = q
          /\ rib'[q] = [metric |-> learned'[j].metric, source |-> "RIP1"]
    BY <1>1, <2>1, <2>2
  <2>4. learned' \in [DOMAIN learned' -> LearnedRoute] /\ DOMAIN learned' \subseteq WireKey
    BY LearnedTableLemma DEF WireKey
  <2>5. j = k
    BY <1>2, <2>3, <2>4, RibKeyInjective
  <2> QED
    BY <2>3, <2>5
<1>3. RibTracksLearned'
  BY <1>1, <1>2 DEF RibTracksLearned
<1> QED
  BY <1>1, <1>3

\* redistribute_in, however it ends, keeps the two tables and the RIB in step.
LEMMA RedistributeInTracks ==
  ASSUME IInv, TypeOK', NEW offer \in Offer, RedistributeIn(offer)
  PROVE  WireKeysTrue' /\ RedistForeign' /\ RibTracksLearned' /\ BodyInstalled'
<1>1. learned' = learned /\ posted' = offer
  BY DEF RedistributeIn, InstallOffer, FailOffer
<1>2. WireKeysTrue'
  BY <1>1 DEF IInv, WireKeysTrue
<1>3. RedistForeign'
  BY RedistributeInType DEF RedistForeign
<1>4. LearnedTable(learned')
  BY DEF TypeOK, LearnedTable
<1>5. CASE InstallOffer(offer)
  <2>1. rib' \in Refreshes(redistributed', learned')
    BY <1>1, <1>5 DEF InstallOffer
  <2>2. redistributed' \in TablesOf({RedistributedPair(r) : r \in Accepted(posted')})
    BY <1>1, <1>5 DEF InstallOffer, Installed
  <2> QED
    BY <1>2, <1>3, <1>4, <2>1, <2>2, RefreshTracks DEF BodyInstalled
<1>6. CASE FailOffer(offer)
  <2>1. rib' = rib /\ Unclassful(posted') # {}
    BY <1>1, <1>6 DEF FailOffer
  <2>2. RibTracksLearned'
    BY <1>1, <2>1 DEF IInv, RibTracksLearned, RibKey, Expired
  <2> QED
    BY <1>2, <1>3, <2>1, <2>2 DEF BodyInstalled
<1> QED
  BY <1>5, <1>6 DEF RedistributeIn

\* A pass of housekeeping removes learned routes or marks them down; a removed one
\* may stay in the RIB, one that is marked down differs from the RIB afterwards.
LEMMA CheckRoutesTracks ==
  ASSUME IInv, CheckRoutes
  PROVE  WireKeysTrue' /\ RibTracksLearned'
<1>0. LearnedTable(learned)
  BY TypeTables DEF IInv
<1>1. rib' = rib /\ learned' = CheckedRoutes(learned)
  BY DEF CheckRoutes
<1>2. ASSUME NEW k \in DOMAIN learned'
      PROVE  /\ k \in DOMAIN learned
             /\ learned'[k].hop = learned[k].hop
             /\ learned'[k] = learned[k] \/ Expired(learned'[k])
  BY <1>0, <1>1, CheckedLemma DEF Expired
<1>3. WireKeysTrue'
  BY <1>2 DEF IInv, WireKeysTrue
<1>4. RibTracksLearned'
  BY <1>1, <1>2 DEF IInv, RibTracksLearned, RibKey
<1> QED
  BY <1>3, <1>4

\* The passing of time changes neither keys nor metrics, and what is past its
\* timeout stays past it.
LEMMA TickTracks ==
  ASSUME IInv, Tick
  PROVE  WireKeysTrue' /\ RibTracksLearned'
<1>0. LearnedTable(learned)
  BY TypeTables DEF IInv
<1>1. rib' = rib /\ learned' = Aged(learned)
  BY DEF Tick
<1>2. ASSUME NEW k \in DOMAIN learned'
      PROVE  /\ k \in DOMAIN learned
             /\ learned'[k].hop = learned[k].hop
             /\ learned'[k].metric = learned[k].metric
             /\ Expired(learned[k]) => Expired(learned'[k])
  BY <1>0, <1>1, AgedLemma DEF Expired
<1>3. WireKeysTrue'
  BY <1>2 DEF IInv, WireKeysTrue
<1>4. RibTracksLearned'
  BY <1>1, <1>2 DEF IInv, RibTracksLearned, RibKey
<1> QED
  BY <1>3, <1>4

\* With empty tables there is nothing to disagree.
LEMMA TracksInit == Init => IInv
<1> SUFFICES ASSUME Init
             PROVE  IInv
  OBVIOUS
<1>1. TypeOK
  BY TypeInit
<1>2. DOMAIN learned = {} /\ DOMAIN redistributed = {} /\ DOMAIN rib = {}
  BY EmptyTableType DEF Init
<1>3. WireKeysTrue /\ RedistForeign /\ RibTracksLearned
  BY <1>2 DEF WireKeysTrue, RedistForeign, RibTracksLearned
<1>4. BodyInstalled
  <2>1. {RedistributedPair(r) : r \in Accepted(posted)} = {}
    BY DEF Init, Accepted
  <2>2. redistributed \in TablesOf({})
    BY DEF Init, EmptyTable, TablesOf
  <2> QED
    BY <1>2, <2>1, <2>2 DEF BodyInstalled
<1> QED
  BY <1>1, <1>3, <1>4 DEF IInv

\* The inductive step, one case per action.
LEMMA TracksStep == IInv /\ [Next]_vars => IInv'
<1> SUFFICES ASSUME IInv, [Next]_vars
             PROVE  IInv'
  OBVIOUS
<1>0. TypeOK' /\ LearnedTable(learned')
  BY TypeStep DEF IInv, TypeOK, LearnedTable
<1> SUFFICES WireKeysTrue' /\ RedistForeign' /\ RibTracksLearned' /\ BodyInstalled'
  BY <1>0 DEF IInv
<1>a. ASSUME UNCHANGED <<redistributed, rib, posted>>
      PROVE  RedistForeign' /\ BodyInstalled'
  BY <1>a DEF IInv, RedistForeign, BodyInstalled, Unclassful, Accepted
<1>b. ASSUME UNCHANGED <<learned, redistributed, rib, posted>>
      PROVE  WireKeysTrue' /\ RedistForeign' /\ RibTracksLearned' /\ BodyInstalled'
  <2>1. WireKeysTrue' /\ RibTracksLearned'
    BY <1>b DEF IInv, WireKeysTrue, RibTracksLearned, RibKey, Expired
  <2> QED
    BY <1>a, <1>b, <2>1
<1>c. ASSUME WireKeysTrue', UNCHANGED <<redistributed, posted>>,
             rib' \in Refreshes(redistributed', learned')
      PROVE  WireKeysTrue' /\ RedistForeign' /\ RibTracksLearned' /\ BodyInstalled'
  <2>1. RedistForeign'
    BY <1>c DEF IInv, RedistForeign
  <2>2. /\ RibTracksLearned'
        /\ \A k \in DOMAIN redistributed' : k \in DOMAIN rib' /\ rib'[k] = redistributed'[k]
        /\ \A k \in DOMAIN rib' : rib'[k].source # "RIP1" => k \in DOMAIN redistributed'
    BY <1>0, <1>c, <2>1, RefreshTracks
  <2>3. BodyInstalled'
    BY <1>c, <2>2 DEF IInv, BodyInstalled
  <2> QED
    BY <1>c, <2>1, <2>2, <2>3
<1>1. CASE SendResponse
  BY <1>b, <1>1 DEF SendResponse
<1>2. ASSUME NEW p \in Packet, HandleResponse(p)
      PROVE  WireKeysTrue' /\ RedistForeign' /\ RibTracksLearned' /\ BodyInstalled'
  <2>1. WireKeysTrue'
    BY <1>2, LearnKeepsKeysTrue DEF IInv
  <2>2. rib' \in Refreshes(redistributed', learned') /\ UNCHANGED <<redistributed, posted>>
    BY <1>2 DEF HandleResponse
  <2> QED
    BY <1>c, <2>1, <2>2
<1>3. ASSUME NEW offer \in Offer, OperatorRedistribution(offer) \/ TriggeredRedistribution(offer)
      PROVE  WireKeysTrue' /\ RedistForeign' /\ RibTracksLearned' /\ BodyInstalled'
  <2>1. RedistributeIn(offer)
    BY <1>3 DEF OperatorRedistribution, TriggeredRedistribution
  <2> QED
    BY <1>0, <2>1, RedistributeInTracks
<1>4. CASE LoseTrigger
  BY <1>b, <1>4 DEF LoseTrigger
<1>5. CASE RefreshRib
  <2>1. rib' \in Refreshes(redistributed', learned')
    BY <1>5 DEF RefreshRib
  <2>2. WireKeysTrue' /\ UNCHANGED <<redistributed, posted>>
    BY <1>5 DEF RefreshRib, IInv, WireKeysTrue
  <2> QED
    BY <1>c, <2>1, <2>2
<1>6. CASE CheckRoutes
  BY <1>a, <1>6, CheckRoutesTracks DEF CheckRoutes
<1>7. CASE Tick
  BY <1>a, <1>7, TickTracks DEF Tick
<1>8. CASE UNCHANGED vars
  BY <1>b, <1>8 DEF vars
<1> QED
  BY <1>1, <1>2, <1>3, <1>4, <1>5, <1>6, <1>7, <1>8 DEF Next

\* The foreign part of the RIB is what the last installable body asked for.
LEMMA InstalledIsBody ==
  ASSUME IInv
  PROVE  ReplacesOldSet
<1> DEFINE P == {RedistributedPair(r) : r \in Accepted(posted)}
<1> SUFFICES ASSUME Unclassful(posted) = {}
             PROVE  /\ \A f \in Foreign : f \in P
                    /\ \A r \in Accepted(posted) : \E f \in Foreign : f[1] = RedistributedPair(r)[1]
  BY DEF ReplacesOldSet
<1>1. /\ redistributed \in TablesOf(P)
      /\ \A k \in DOMAIN redistributed : k \in DOMAIN rib /\ rib[k] = redistributed[k]
      /\ \A k \in DOMAIN rib : rib[k].source # "RIP1" => k \in DOMAIN redistributed
  BY DEF IInv, BodyInstalled
<1>2. \A r \in Accepted(posted) : RedistributedPair(r) \in P
  OBVIOUS
<1> HIDE DEF P
<1>3. /\ DOMAIN redistributed = {x[1] : x \in P}
      /\ \A k \in DOMAIN redistributed : <<k, redistributed[k]>> \in P
  BY <1>1, TablesOfLemma
<1>4. ASSUME NEW f \in Foreign
      PROVE  f \in P
  <2>1. PICK k \in DOMAIN rib : rib[k].source # "RIP1" /\ f = <<k, rib[k]>>
    BY DEF Foreign
  <2> QED
    BY <1>1, <1>3, <2>1
<1>5. ASSUME NEW r \in Accepted(posted)
      PROVE  \E f \in Foreign : f[1] = RedistributedPair(r)[1]
  <2> DEFINE k == RedistributedPair(r)[1]
  <2>1. k \in DOMAIN redistributed
    BY <1>2, <1>3
  <2>2. rib[k].source # "RIP1" /\ k \in DOMAIN rib
    BY <1>1, <2>1, RipTablesAssumption DEF IInv, RedistForeign, RipTablesAssumption
  <2>3. <<k, rib[k]>> \in Foreign
    BY <2>2 DEF Foreign
  <2> QED
    BY <2>3
<1> QED
  BY <1>4, <1>5

\* The inductive invariant holds throughout.
LEMMA Inductive == Spec => []IInv
<1> QED
  BY TracksInit, TracksStep, PTL DEF Spec

\* A learned route is always in the RIB with its metric, unless housekeeping has
\* marked it down or a redistributed route has its place: for every set of packets
\* and bodies, in every order, with every failure.
THEOREM RibAlwaysTracksLearned == Spec => []RibTracksLearned
<1>1. IInv => RibTracksLearned
  BY DEF IInv
<1> QED
  BY Inductive, <1>1, PTL

\* Redistribution into RIP replaces the old set: the RIB holds exactly the routes of
\* the last body that could be installed, as far as they are configured.
THEOREM AlwaysReplacesOldSet == Spec => []ReplacesOldSet
<1>1. IInv => ReplacesOldSet
  BY InstalledIsBody
<1> QED
  BY Inductive, <1>1, PTL

-----------------------------------------------------------------------------
(* Poison.                                                                 *)

\* The answer to a packet with a poisoned route comes from the RIB with that route in it.
LEMMA AnswerHasPoison ==
  ASSUME NEW p \in Packet, HandleResponse(p), NEW k \in DOMAIN learned',
         <<k, learned'[k]>> \in ReceivedRoutes(p), learned'[k].metric = MaxMetric
  PROVE  /\ k[1] \in DOMAIN sent'
         /\ \/ sent'[k[1]] = MaxMetric
            \/ \E q \in DOMAIN rib' : q[1] = k[1] /\ sent'[k[1]] = rib'[q].metric + 1
<1> DEFINE n == k[1]
<1>1. Poisons(p)
  <2>1. LET r == <<k, learned'[k]>> IN r \in ReceivedRoutes(p) /\ r[2].metric = MaxMetric
    OBVIOUS
  <2> QED
    BY <2>1 DEF Poisons
<1>2. sent' \in Responses(rib')
  BY <1>1 DEF HandleResponse, Answers
<1>3. RibKey(learned', k) \in DOMAIN rib'
  <2>1. rib' \in Refreshes(redistributed, learned')
    BY DEF HandleResponse
  <2> QED
    BY <2>1, RefreshesLemma
<1>4. n \in DOMAIN sent'
  BY <1>2, <1>3 DEF Responses, RibKey
<1>5. PICK q \in DOMAIN rib' : q[1] = n /\ sent'[n] = Capped(rib'[q].metric + 1, MaxMetric)
  BY <1>2, <1>4 DEF Responses
<1> QED
  BY <1>4, <1>5 DEF Capped

\* A poisoned route is passed on in the answer to its packet, or another route that the
\* RIB still has; the RIB before the packet never has a say in it.
THEOREM PoisonAlwaysPassedOn == Spec => PoisonPassedOn
<1>1. [\A p \in Packet : HandleResponse(p) =>
         \A k \in DOMAIN learned' :
           <<k, learned'[k]>> \in ReceivedRoutes(p) /\ learned'[k].metric = MaxMetric =>
             /\ k[1] \in DOMAIN sent'
             /\ \/ sent'[k[1]] = MaxMetric
                \/ \E q \in DOMAIN rib' :
                     q[1] = k[1] /\ sent'[k[1]] = rib'[q].metric + 1]_vars
  BY AnswerHasPoison
<1> QED
  BY <1>1, PTL DEF PoisonPassedOn

-----------------------------------------------------------------------------
(* Good routes.  That only good routes are offered is what the             *)
(* documentation says of redistribution, and OffersOnlyGoodRoutes fails.   *)
(* It is housekeeping alone that breaks it, and every handler that         *)
(* refreshes the RIB restores it.                                          *)

\* The steps that get to the end of refresh_rib.
RefreshesRib ==
  \/ \E p \in Packet : HandleResponse(p)
  \/ \E offer \in Offer : InstallOffer(offer)
  \/ RefreshRib

\* A RIP route in a RIB that was just built has the metric of a learned route.
LEMMA RefreshOffersGood ==
  ASSUME RedistForeign', rib' \in Refreshes(redistributed', learned')
  PROVE  OffersOnlyGoodRoutes'
<1> SUFFICES ASSUME NEW q \in Offerable(rib')
             PROVE  \E k \in DOMAIN learned' : RibKey(learned', k) = q /\ learned'[k].metric < MaxMetric
  BY DEF OffersOnlyGoodRoutes
<1>1. q \in DOMAIN rib' /\ rib'[q].source = "RIP1" /\ rib'[q].metric < MaxMetric
  BY DEF Offerable
<1>2. q \notin DOMAIN redistributed'
  <2>1. "RIP1" \notin RedistributeInSources
    BY RipTablesAssumption DEF RipTablesAssumption
  <2>2. \A k \in DOMAIN redistributed' : rib'[k] = redistributed'[k]
    BY RefreshesLemma
  <2> QED
    BY <1>1, <2>1, <2>2 DEF RedistForeign
<1>3. PICK k \in DOMAIN learned' :
        RibKey(learned', k) = q /\ rib'[q] = [metric |-> learned'[k].metric, source |-> "RIP1"]
  BY <1>1, <1>2, RefreshesLemma
<1> QED
  BY <1>1, <1>3

\* What is offered is good after a step that refreshes the RIB, and after any other step
\* but a round of housekeeping if it was good before: for all packets and bodies.
THEOREM OffersGoodUntilHousekeeping ==
  Spec => [][RefreshesRib \/ (OffersOnlyGoodRoutes /\ ~ CheckRoutes) => OffersOnlyGoodRoutes']_vars
<1>1. ASSUME IInv, RedistForeign', Next, RefreshesRib \/ (OffersOnlyGoodRoutes /\ ~ CheckRoutes)
      PROVE  OffersOnlyGoodRoutes'
  <2>1. CASE RefreshesRib
    <3>1. rib' \in Refreshes(redistributed', learned')
      BY <2>1 DEF RefreshesRib, HandleResponse, InstallOffer, RefreshRib
    <3> QED
      BY <1>1, <3>1, RefreshOffersGood
  <2>2. ASSUME OffersOnlyGoodRoutes, UNCHANGED <<learned, rib>>
        PROVE  OffersOnlyGoodRoutes'
    BY <2>2 DEF OffersOnlyGoodRoutes, Offerable
  <2>3. CASE Tick
    <3>1. /\ DOMAIN learned' = DOMAIN learned
          /\ \A k \in DOMAIN learned : /\ learned'[k].hop = learned[k].hop
                                       /\ learned'[k].metric = learned[k].metric
      BY <1>1, <2>3, AgedLemma, TypeTables DEF Tick, IInv
    <3> QED
      BY <1>1, <2>1, <2>3, <3>1 DEF Tick, OffersOnlyGoodRoutes, Offerable, RibKey
  <2> QED
    BY <1>1, <2>1, <2>2, <2>3 DEF Next, OperatorRedistribution, TriggeredRedistribution,
       RedistributeIn, RefreshesRib, SendResponse, FailOffer, LoseTrigger
<1>2. IInv => RedistForeign
  BY DEF IInv
<1> QED
  BY <1>1, <1>2, Inductive, PTL DEF Spec

=============================================================================
