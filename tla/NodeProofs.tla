------------------------------ MODULE NodeProofs ------------------------------
(***************************************************************************)
(* Proofs about Node, for any neighbours, routes and offers and any number *)
(* of threads.                                                             *)
(*                                                                         *)
(* A node is a control plane and a RIP instance: each of its steps is one  *)
(* of ControlPlane or leaves its variables alone, and the same holds of    *)
(* RipInstance.  What is proved of the two modules then holds of the node. *)
(*                                                                         *)
(* CpProofs and RipProofs bring the theorems.  Their definitions are those *)
(* of Cp and Rip, which Node uses, under other names.                      *)
(***************************************************************************)
EXTENDS Node, RipTablesProofs, FiniteSetTheorems

CpProofs == INSTANCE ControlPlaneProofs WITH Calls <- {"redistribute"}

RipProofs == INSTANCE RipInstanceProofs WITH
  Offer <- SUBSET Route, CpAnswers <- ~CallsFail, posted <- given

-----------------------------------------------------------------------------
(* The constants of the parts.                                             *)

\* What either protocol may offer; no RIP route is static or comes from SLA.
LEMMA OffersLemma ==
  /\ Offers = [p \in {"SLA", "RIP1"} |-> Offers[p]]
  /\ Offers["SLA"] = SlaOffers \cup {{}}
  /\ Offers["RIP1"] = SUBSET {RipRoute(k) : k \in Key}
  /\ UNION Offers["SLA"] = UNION SlaOffers
  /\ UNION Offers["RIP1"] = {RipRoute(k) : k \in Key}
<1>1. /\ Offers = [p \in {"SLA", "RIP1"} |-> Offers[p]]
      /\ Offers["SLA"] = SlaOffers \cup {{}}
      /\ Offers["RIP1"] = SUBSET {RipRoute(k) : k \in Key}
  BY DEF Offers, Enabled
<1>2. UNION (SUBSET {RipRoute(k) : k \in Key}) = {RipRoute(k) : k \in Key}
  OBVIOUS
<1>3. UNION (SlaOffers \cup {{}}) = UNION SlaOffers
  OBVIOUS
<1> QED
  BY <1>1, <1>2, <1>3

\* A route the control plane may hold is a RIP route under a key of the RIB, or it has
\* another source and a classful network.
LEMMA RouteLemma ==
  ASSUME NEW r \in Route
  PROVE  /\ r \in CpRoute
         /\ \/ r.source # "RIP1" /\ Classful[r.prefix] \in Net
            \/ r \in {RipRoute(k) : k \in Key}
<1>1. CASE r \in Static \cup UNION SlaOffers
  BY <1>1, NodeAssumption DEF NodeAssumption
<1>2. CASE r \in {RipRoute(k) : k \in Key}
  BY <1>2, NodeAssumption DEF NodeAssumption, RipRoute, Key, CpRoute, Source
<1>3. Route = Static \cup (UNION SlaOffers) \cup {RipRoute(k) : k \in Key}
  BY OffersLemma DEF Route
<1> QED
  BY <1>1, <1>2, <1>3

\* Every body can be installed.
LEMMA BodyClassful ==
  ASSUME NEW body \in SUBSET Route
  PROVE  body \in SUBSET CpRoute /\ Unclassful(body) = {}
<1>1. ASSUME NEW r \in body, r.source \in RedistributeInSources
      PROVE  Classful[r.prefix] # Invalid
  <2>1. r.source # "RIP1"
    BY <1>1, RipTablesAssumption DEF RipTablesAssumption
  <2>2. Classful[r.prefix] \in Net
    BY <2>1, RouteLemma DEF RipRoute
  <2> QED
    BY <2>2, RipTablesAssumption DEF RipTablesAssumption
<1>2. Unclassful(body) = {}
  BY <1>1 DEF Unclassful, Accepted
<1> QED
  BY <1>2, RouteLemma

\* The constants that the node gives the control plane are as ControlPlane assumes.
LEMMA CpAssumption == CpProofs!ControlPlaneAssumption
<1>1. Offers \in [CpProofs!Protocol -> SUBSET SUBSET Route]
  <2>1. \A o \in Offers["SLA"] : o \in SUBSET Route
    BY DEF Route
  <2>2. \A o \in Offers["RIP1"] : o \in SUBSET Route
    BY DEF Route
  <2> HIDE DEF Route
  <2> QED
    BY <2>1, <2>2, OffersLemma DEF CpProofs!Protocol
<1>2. (UNION Offers["SLA"]) \cap (UNION Offers["RIP1"]) = {}
  <2>1. \A r \in UNION Offers["SLA"] : r.source # "RIP1"
    BY OffersLemma, NodeAssumption DEF NodeAssumption
  <2>2. \A r \in UNION Offers["RIP1"] : r.source = "RIP1"
    BY OffersLemma DEF RipRoute
  <2> QED
    BY <2>1, <2>2
<1>3. Static \subseteq Route /\ {} \in Offers["SLA"] /\ {} \in Offers["RIP1"]
  BY OffersLemma DEF Route
<1> QED
  BY <1>1, <1>2, <1>3, NodeAssumption DEF NodeAssumption, CpProofs!ControlPlaneAssumption,
     CpProofs!Protocol, Enabled

\* And so are those of the RIP instance.
LEMMA RipAssumptionHolds == RipProofs!RipAssumption
<1>1. Packet \subseteq [src : Hop, rtes : SUBSET RipProofs!Rte]
  BY NodeAssumption DEF NodeAssumption, Rte, RipProofs!Rte
<1>2. SUBSET Route \subseteq SUBSET RipProofs!CpRoute
  <2>1. \A r \in Route : r \in RipProofs!CpRoute
    BY RouteLemma DEF CpRoute, Source, RipProofs!CpRoute, RipProofs!Source
  <2> QED
    BY <2>1
<1>3. /\ LocalIp \in Hop /\ MaxTriggers \in Nat
      /\ {RejectOwnMessages, TriggerRedistribution, ~CallsFail} \subseteq BOOLEAN
  BY NodeAssumption DEF NodeAssumption
<1> QED
  BY <1>1, <1>2, <1>3 DEF RipProofs!RipAssumption

\* The RIP instance has the tables of the node.
LEMMA RipTablesAssumptionHolds == RipProofs!RipTablesAssumption
BY RipTablesAssumption DEF RipTablesAssumption, Source, RipProofs!RipTablesAssumption, RipProofs!Source

-----------------------------------------------------------------------------
(* Cp is CpProofs, and Rip is RipProofs, once all is expanded.             *)

\* The control plane.
LEMMA CpSame ==
  /\ Cp!Init <=> CpProofs!Init
  /\ [Cp!Next]_(Cp!vars) <=> [CpProofs!Next]_(CpProofs!vars)
  /\ Cp!TypeOK <=> CpProofs!TypeOK
  /\ Cp!NothingOutdated <=> CpProofs!NothingOutdated
<1>1. Cp!Init <=> CpProofs!Init
  BY DEF Cp!Init, Cp!Protocol, CpProofs!Init, CpProofs!Protocol
<1>2. [Cp!Next]_(Cp!vars) <=> [CpProofs!Next]_(CpProofs!vars)
  BY DEF Cp!Next, CpProofs!Next, Cp!Begin, CpProofs!Begin, Cp!Step, CpProofs!Step,
     Cp!ImportRead, CpProofs!ImportRead, Cp!ImportWrite, CpProofs!ImportWrite, Cp!Fetch,
     CpProofs!Fetch, Cp!FetchFails, CpProofs!FetchFails, Cp!Export, CpProofs!Export,
     Cp!Post, CpProofs!Post, Cp!PostFails, CpProofs!PostFails, Cp!OfferChanges,
     CpProofs!OfferChanges, Cp!vars, CpProofs!vars, Cp!local, CpProofs!local, Cp!history,
     CpProofs!history, Cp!Offered, CpProofs!Offered, Cp!Idle, CpProofs!Idle,
     Cp!EmptiedTable, CpProofs!EmptiedTable, Cp!StageAfter, CpProofs!StageAfter, Cp!UnionOf,
     CpProofs!UnionOf, Cp!StepAfterImport, CpProofs!StepAfterImport, Cp!Protocol,
     CpProofs!Protocol
<1>3. Cp!TypeOK <=> CpProofs!TypeOK
  BY DEF Cp!TypeOK, Cp!Protocol, CpProofs!TypeOK, CpProofs!Protocol
<1>4. Cp!NothingOutdated <=> CpProofs!NothingOutdated
  BY DEF Cp!NothingOutdated, CpProofs!NothingOutdated
<1> QED
  BY <1>1, <1>2, <1>3, <1>4

\* The RIP instance.
LEMMA RipSame ==
  /\ Rip!Init <=> RipProofs!Init
  /\ [Rip!Next]_(Rip!vars) <=> [RipProofs!Next]_(RipProofs!vars)
  /\ Rip!TypeOK <=> RipProofs!TypeOK
<1>1. Rip!Init <=> RipProofs!Init
  BY DEF Rip!Init, RipProofs!Init, Rip!EmptyTable, RipProofs!EmptyTable
<1>2. [Rip!Next]_(Rip!vars) <=> [RipProofs!Next]_(RipProofs!vars)
  BY DEF Rip!Accepted, RipProofs!Accepted, Rip!Responses, RipProofs!Responses,
     Rip!Unclassful, RipProofs!Unclassful, Rip!Installed, RipProofs!Installed, Rip!Learn,
     RipProofs!Learn, Rip!CheckedRoutes, RipProofs!CheckedRoutes, Rip!Aged, RipProofs!Aged,
     Rip!ReceivedRoutes, RipProofs!ReceivedRoutes, Rip!TablesOf, RipProofs!TablesOf,
     Rip!Poisons, RipProofs!Poisons, Rip!Refreshes, RipProofs!Refreshes, Rip!ImportRoutes,
     RipProofs!ImportRoutes, Rip!Exported, RipProofs!Exported, Rip!RibKey, RipProofs!RibKey,
     Rip!RedistributedPair, RipProofs!RedistributedPair, Rip!Capped, RipProofs!Capped,
     Rip!Next, RipProofs!Next, Rip!SendResponse, RipProofs!SendResponse, Rip!HandleResponse,
     RipProofs!HandleResponse, Rip!OperatorRedistribution, RipProofs!OperatorRedistribution,
     Rip!TriggeredRedistribution, RipProofs!TriggeredRedistribution, Rip!RedistributeIn,
     RipProofs!RedistributeIn, Rip!InstallOffer, RipProofs!InstallOffer, Rip!FailOffer,
     RipProofs!FailOffer, Rip!LoseTrigger, RipProofs!LoseTrigger, Rip!RefreshRib,
     RipProofs!RefreshRib, Rip!CheckRoutes, RipProofs!CheckRoutes, Rip!Tick, RipProofs!Tick,
     Rip!TriggersRedistribution, RipProofs!TriggersRedistribution, Rip!Answers,
     RipProofs!Answers, Rip!vars, RipProofs!vars
<1>3. Rip!TypeOK <=> RipProofs!TypeOK
  BY DEF Rip!TypeOK, RipProofs!TypeOK, Rip!RibRoute, RipProofs!RibRoute, Rip!Key,
     RipProofs!Key, Rip!WireKey, RipProofs!WireKey, Rip!LearnedRoute,
     RipProofs!LearnedRoute, Rip!Source, RipProofs!Source
<1> QED
  BY <1>1, <1>2, <1>3

-----------------------------------------------------------------------------
(* The node implements its parts.                                          *)

\* Every step of the node is one of its control plane, or leaves that alone.
LEMMA CpStep ==
  ASSUME [Next]_vars
  PROVE  [Cp!Next]_(Cp!vars)
<1>1. Cp!OfferChanges("SLA") \/ Cp!OfferChanges("RIP1") => [Cp!Next]_(Cp!vars)
  BY DEF Cp!Next, Cp!Protocol
<1>2. ASSUME NEW t \in Thread, Cp!Begin(t, "redistribute") \/ Cp!Step(t)
      PROVE  [Cp!Next]_(Cp!vars)
  BY <1>2 DEF Cp!Next
<1>3. ASSUME UNCHANGED cpVars
      PROVE  [Cp!Next]_(Cp!vars)
  BY <1>3 DEF cpVars, Cp!vars, Cp!local, Cp!history
<1>4. ASSUME NEW p \in Packet, HandleResponse(p)
      PROVE  [Cp!Next]_(Cp!vars)
  BY <1>1, <1>4 DEF HandleResponse, RipOffers
<1>5. CASE RefreshRib
  BY <1>1, <1>5 DEF RefreshRib, RipOffers
<1>6. CASE SendResponse \/ CheckRoutes \/ Tick \/ LoseCall
  BY <1>3, <1>6 DEF SendResponse, CheckRoutes, Tick, LoseCall
<1>7. ASSUME NEW t \in Thread, OperatorCall(t) \/ TriggeredCall(t)
      PROVE  [Cp!Next]_(Cp!vars)
  BY <1>2, <1>7 DEF OperatorCall, TriggeredCall
<1>8. ASSUME NEW t \in Thread, Collect(t) \/ EndCall(t) \/ CallFails(t)
      PROVE  [Cp!Next]_(Cp!vars)
  BY <1>2, <1>8 DEF Collect, EndCall, CallFails, Cp!Step
<1>9. ASSUME NEW t \in Thread, RipHandlesBody(t)
      PROVE  [Cp!Next]_(Cp!vars)
  BY <1>1, <1>9 DEF RipHandlesBody, RipOffers
<1>10. CASE SlaChanges
  BY <1>1, <1>10 DEF SlaChanges
<1>11. CASE UNCHANGED vars
  BY <1>3, <1>11 DEF vars, cpVars
<1> QED
  BY <1>4, <1>5, <1>6, <1>7, <1>8, <1>9, <1>10, <1>11 DEF Next

\* Every step of the node is one of its RIP instance, or leaves that alone.  The bodies it
\* is given are sets of routes because what the threads hold is.
LEMMA RipStep ==
  ASSUME Cp!TypeOK, [Next]_vars
  PROVE  [Rip!Next]_(Rip!vars)
<1>1. ASSUME UNCHANGED ripVars
      PROVE  [Rip!Next]_(Rip!vars)
  BY <1>1 DEF ripVars, Rip!vars
<1>2. ASSUME NEW p \in Packet, HandleResponse(p)
      PROVE  [Rip!Next]_(Rip!vars)
  BY <1>2 DEF HandleResponse, Rip!Next
<1>3. CASE RefreshRib \/ SendResponse \/ CheckRoutes \/ Tick \/ LoseCall
  BY <1>3 DEF RefreshRib, SendResponse, CheckRoutes, Tick, LoseCall, Rip!Next
<1>4. ASSUME NEW t \in Thread, RipHandlesBody(t)
      PROVE  [Rip!Next]_(Rip!vars)
  <2>1. held[t] \in SUBSET Route
    BY DEF Cp!TypeOK
  <2> QED
    BY <1>4, <2>1 DEF RipHandlesBody, Rip!Next
<1>5. ASSUME NEW t \in Thread, CallFails(t)
      PROVE  [Rip!Next]_(Rip!vars)
  <2>1. Rip!LoseTrigger \/ UNCHANGED ripVars
    BY <1>5 DEF CallFails
  <2>2. Rip!LoseTrigger => [Rip!Next]_(Rip!vars)
    BY DEF Rip!Next
  <2> QED
    BY <1>1, <2>1, <2>2
<1>6. ASSUME NEW t \in Thread, OperatorCall(t) \/ TriggeredCall(t) \/ Collect(t) \/ EndCall(t)
      PROVE  [Rip!Next]_(Rip!vars)
  BY <1>1, <1>6 DEF OperatorCall, TriggeredCall, Collect, EndCall, ripVars
<1>7. CASE SlaChanges \/ UNCHANGED vars
  BY <1>1, <1>7 DEF SlaChanges, vars, ripVars
<1> QED
  BY <1>2, <1>3, <1>4, <1>5, <1>6, <1>7 DEF Next

\* Who made a call and whether RIP has had its body.
JointTypeOK ==
  /\ cause \in [Thread -> {"operator", "RIP1"}]
  /\ handled \in [Thread -> BOOLEAN]
  /\ {failed, overlapped} \subseteq BOOLEAN

\* No call has been made at the start.
LEMMA JointInit == Init => JointTypeOK
BY DEF Init, JointTypeOK

\* Every step keeps the types of the joint variables.
LEMMA JointStep == JointTypeOK /\ [Next]_vars => JointTypeOK'
<1> SUFFICES ASSUME JointTypeOK, [Next]_vars
             PROVE  JointTypeOK'
  OBVIOUS
<1> USE DEF JointTypeOK, joint
<1>1. CASE (\E p \in Packet : HandleResponse(p)) \/ RefreshRib \/ SendResponse \/ CheckRoutes \/ Tick
  BY <1>1 DEF HandleResponse, RefreshRib, SendResponse, CheckRoutes, Tick
<1>2. ASSUME NEW t \in Thread, OperatorCall(t) \/ TriggeredCall(t) \/ Collect(t)
      PROVE  JointTypeOK'
  BY <1>2 DEF OperatorCall, TriggeredCall, Collect
<1>3. ASSUME NEW t \in Thread, RipHandlesBody(t) \/ EndCall(t) \/ CallFails(t)
      PROVE  JointTypeOK'
  BY <1>3 DEF RipHandlesBody, EndCall, CallFails
<1>4. CASE LoseCall \/ SlaChanges \/ UNCHANGED vars
  BY <1>4 DEF LoseCall, SlaChanges, vars
<1> QED
  BY <1>1, <1>2, <1>3, <1>4 DEF Next

\* A node behaves towards RIP, SLA and its operators as ControlPlane says, whatever the
\* RIP instance at its side does.
THEOREM ImplementsControlPlane == Spec => Cp!Spec
<1>1. Init => Cp!Init
  BY DEF Init
<1>2. [Next]_vars => [Cp!Next]_(Cp!vars)
  BY CpStep
<1> QED
  BY <1>1, <1>2, PTL DEF Spec, Cp!Spec

\* The control plane of a node keeps its types.
LEMMA CpTypeCorrect == Spec => []Cp!TypeOK
<1>1. Cp!Init => Cp!TypeOK
  BY CpSame, CpAssumption, CpProofs!TypeInit
<1>2. Cp!TypeOK /\ [Cp!Next]_(Cp!vars) => Cp!TypeOK'
  <2>1. CpProofs!TypeOK /\ [CpProofs!Next]_(CpProofs!vars) => CpProofs!TypeOK'
    BY CpAssumption, CpProofs!TypeStep
  <2>2. Cp!TypeOK' <=> CpProofs!TypeOK'
    BY DEF Cp!TypeOK, Cp!Protocol, CpProofs!TypeOK, CpProofs!Protocol
  <2> QED
    BY <2>1, <2>2, CpSame
<1> QED
  BY <1>1, <1>2, ImplementsControlPlane, PTL DEF Cp!Spec

\* The bodies that the node's control plane posts are such as RipInstance allows, at the
\* times it allows.
THEOREM ImplementsRip == Spec => Rip!Spec
<1>1. Init => Rip!Init
  BY DEF Init
<1>2. Cp!TypeOK /\ [Next]_vars => [Rip!Next]_(Rip!vars)
  BY RipStep
<1> QED
  BY <1>1, <1>2, CpTypeCorrect, PTL DEF Spec, Rip!Spec

\* The RIP instance of a node keeps its types.
LEMMA RipTypeCorrect == Spec => []Rip!TypeOK
<1>1. Rip!Init => Rip!TypeOK
  BY RipSame, RipAssumptionHolds, RipTablesAssumptionHolds, RipProofs!TypeInit
<1>2. Rip!TypeOK /\ [Rip!Next]_(Rip!vars) => Rip!TypeOK'
  <2>1. RipProofs!TypeOK /\ [RipProofs!Next]_(RipProofs!vars) => RipProofs!TypeOK'
    BY RipAssumptionHolds, RipTablesAssumptionHolds, RipProofs!TypeStep
  <2>2. Rip!TypeOK' <=> RipProofs!TypeOK'
    BY DEF Rip!TypeOK, RipProofs!TypeOK, Rip!RibRoute, RipProofs!RibRoute, Rip!Key,
       RipProofs!Key, Rip!WireKey, RipProofs!WireKey, Rip!LearnedRoute,
       RipProofs!LearnedRoute, Rip!Source, RipProofs!Source
  <2> QED
    BY <2>1, <2>2, RipSame
<1> QED
  BY <1>1, <1>2, ImplementsRip, PTL DEF Rip!Spec

\* What RIP hands over and what it gets back are routes of the control plane, whichever
\* calls overlap.
THEOREM TypeCorrect == Spec => []TypeOK
<1>1. Spec => []JointTypeOK
  BY JointInit, JointStep, PTL DEF Spec
<1>2. Cp!TypeOK /\ Rip!TypeOK /\ JointTypeOK => TypeOK
  BY DEF TypeOK, JointTypeOK
<1> QED
  BY <1>1, <1>2, CpTypeCorrect, RipTypeCorrect, PTL

\* What is proved of the parts on their own holds of them in a node.
THEOREM PartsKeepTheirWord ==
  Spec => /\ [](Cp!NothingOutdated /\ Rip!RibTracksLearned /\ Rip!ReplacesOldSet)
          /\ Cp!AloneIsComplete
          /\ Rip!PoisonPassedOn
<1>1. Cp!Spec => []Cp!NothingOutdated
  <2>1. CpProofs!Spec => []CpProofs!NothingOutdated
    BY CpAssumption, CpProofs!NeverOutdated
  <2>2. Cp!Spec => CpProofs!Spec
    BY CpSame, PTL DEF Cp!Spec, CpProofs!Spec
  <2>3. Cp!NothingOutdated <=> CpProofs!NothingOutdated
    BY CpSame
  <2> QED
    BY <2>1, <2>2, <2>3, PTL
<1>2. Rip!Spec => [](Rip!RibTracksLearned /\ Rip!ReplacesOldSet)
  <2>1. RipProofs!Spec => []RipProofs!RibTracksLearned
    BY RipAssumptionHolds, RipTablesAssumptionHolds, RipProofs!RibAlwaysTracksLearned
  <2>2. RipProofs!Spec => []RipProofs!ReplacesOldSet
    BY RipAssumptionHolds, RipTablesAssumptionHolds, RipProofs!AlwaysReplacesOldSet
  <2>3. Rip!Spec => RipProofs!Spec
    BY RipSame, PTL DEF Rip!Spec, RipProofs!Spec
  <2>4. Rip!RibTracksLearned <=> RipProofs!RibTracksLearned
    BY DEF Rip!RibTracksLearned, Rip!RibKey, Rip!Expired, Rip!NamedHop,
           RipProofs!RibTracksLearned, RipProofs!RibKey, RipProofs!Expired, RipProofs!NamedHop
  <2>5. Rip!ReplacesOldSet <=> RipProofs!ReplacesOldSet
    BY DEF Rip!ReplacesOldSet, Rip!Foreign, Rip!Unclassful, Rip!Accepted, Rip!RedistributedPair,
           Rip!Capped, RipProofs!ReplacesOldSet, RipProofs!Foreign, RipProofs!Unclassful,
           RipProofs!Accepted, RipProofs!RedistributedPair, RipProofs!Capped
  <2> QED
    BY <2>1, <2>2, <2>3, <2>4, <2>5, PTL
<1>3. Cp!Spec => Cp!AloneIsComplete
  <2>1. CpProofs!Spec => CpProofs!AloneIsComplete
    BY CpAssumption, CpProofs!AloneAlwaysComplete
  <2>2. Cp!Spec => CpProofs!Spec
    BY CpSame, PTL DEF Cp!Spec, CpProofs!Spec
  <2>3. [\A t \in Thread : CpProofs!Post(t) /\ alone[t] =>
           posted' = table /\ Static \cup steady \subseteq table]_(CpProofs!vars)
        => [\A t \in Thread : Cp!Post(t) /\ alone[t] =>
              posted' = table /\ Static \cup steady \subseteq table]_(Cp!vars)
    BY DEF Cp!Post, CpProofs!Post, Cp!vars, CpProofs!vars, Cp!local, CpProofs!local,
       Cp!history, CpProofs!history
  <2> QED
    BY <2>1, <2>2, <2>3, PTL DEF Cp!AloneIsComplete, CpProofs!AloneIsComplete
<1>4. Rip!Spec => Rip!PoisonPassedOn
  <2>1. RipProofs!Spec => RipProofs!PoisonPassedOn
    BY RipAssumptionHolds, RipTablesAssumptionHolds, RipProofs!PoisonAlwaysPassedOn
  <2>2. Rip!Spec => RipProofs!Spec
    BY RipSame, PTL DEF Rip!Spec, RipProofs!Spec
  <2>3. [\A p \in Packet : RipProofs!HandleResponse(p) =>
           \A k \in DOMAIN learned' :
             <<k, learned'[k]>> \in RipProofs!ReceivedRoutes(p) /\ learned'[k].metric = MaxMetric =>
               /\ k[1] \in DOMAIN sent'
               /\ \/ sent'[k[1]] = MaxMetric
                  \/ \E q \in DOMAIN rib' :
                       q[1] = k[1] /\ sent'[k[1]] = rib'[q].metric + 1]_(RipProofs!vars)
        => [\A p \in Packet : Rip!HandleResponse(p) =>
              \A k \in DOMAIN learned' :
                <<k, learned'[k]>> \in Rip!ReceivedRoutes(p) /\ learned'[k].metric = MaxMetric =>
                  /\ k[1] \in DOMAIN sent'
                  /\ \/ sent'[k[1]] = MaxMetric
                     \/ \E q \in DOMAIN rib' :
                          q[1] = k[1] /\ sent'[k[1]] = rib'[q].metric + 1]_(Rip!vars)
    BY DEF Rip!HandleResponse, RipProofs!HandleResponse, Rip!ReceivedRoutes,
       RipProofs!ReceivedRoutes, Rip!TablesOf, RipProofs!TablesOf, Rip!Learn, RipProofs!Learn,
       Rip!ImportRoutes, RipProofs!ImportRoutes, Rip!Refreshes, RipProofs!Refreshes,
       Rip!Exported, RipProofs!Exported, Rip!RibKey, RipProofs!RibKey, Rip!Capped,
       RipProofs!Capped, Rip!TriggersRedistribution, RipProofs!TriggersRedistribution,
       Rip!Answers, RipProofs!Answers, Rip!Poisons, RipProofs!Poisons, Rip!Responses,
       RipProofs!Responses, Rip!vars, RipProofs!vars
  <2> QED
    BY <2>1, <2>2, <2>3, PTL DEF Rip!PoisonPassedOn, RipProofs!PoisonPassedOn
<1> QED
  BY <1>1, <1>2, <1>3, <1>4, ImplementsControlPlane, ImplementsRip, PTL

-----------------------------------------------------------------------------
(* What arrives.  A call posts what it holds, RIP installs it, and the     *)
(* call ends: in between the routes of other sources in the RIB are those  *)
(* of the body RIP was given last, which is that of another call if one    *)
(* overlaps.                                                               *)

\* RIP has had the body of a call that is about to end, and no other one since if nothing
\* overlapped the call.
Handed ==
  \A t \in Thread :
    /\ handled[t] => pc[t] = "post"
    /\ handled[t] /\ alone[t] => given = held[t]

\* No call has been made at the start.
LEMMA HandedInit == Init => Handed
BY DEF Init, Handed

\* Another body needs another call at its post, and then this one is not alone.
LEMMA HandedStep ==
  ASSUME Cp!TypeOK, JointTypeOK, CpProofs!AloneInv, Handed, [Next]_vars
  PROVE  Handed'
<1> USE DEF Handed
<1>1. ASSUME UNCHANGED <<handled, pc, alone, given, held>>
      PROVE  Handed'
  BY <1>1
<1>2. CASE \/ \E p \in Packet : HandleResponse(p)
           \/ RefreshRib \/ SendResponse \/ CheckRoutes \/ Tick
  BY <1>1, <1>2 DEF HandleResponse, RefreshRib, SendResponse, CheckRoutes, Tick, RipOffers,
     Cp!OfferChanges, Cp!local, Rip!HandleResponse, Rip!RefreshRib, Rip!SendResponse,
     Rip!CheckRoutes, Rip!Tick, cpVars, joint
<1>3. ASSUME NEW t \in Thread, OperatorCall(t) \/ TriggeredCall(t)
      PROVE  Handed'
  <2>1. Cp!Begin(t, "redistribute") /\ UNCHANGED <<handled, given>>
    BY <1>3 DEF OperatorCall, TriggeredCall, ripVars
  <2> QED
    BY <2>1 DEF Cp!Begin, Cp!TypeOK, JointTypeOK
<1>4. ASSUME NEW t \in Thread, Collect(t)
      PROVE  Handed'
  <2>1. UNCHANGED <<handled, given, alone>> /\ pc[t] # "post"
    BY <1>4 DEF Collect, ripVars, joint, Cp!ImportRead, Cp!ImportWrite, Cp!Fetch, Cp!Export,
       Cp!history
  <2>2. \A u \in Thread \ {t} : pc'[u] = pc[u] /\ held'[u] = held[u]
    BY <1>4 DEF Collect, Cp!ImportRead, Cp!ImportWrite, Cp!Fetch, Cp!Export, Cp!TypeOK
  <2> QED
    BY <2>1, <2>2
<1>5. ASSUME NEW t \in Thread, RipHandlesBody(t)
      PROVE  Handed'
  <2>1. given' = held[t] /\ pc[t] = "post"
    BY <1>5 DEF RipHandlesBody, Rip!TriggeredRedistribution, Rip!OperatorRedistribution,
       Rip!RedistributeIn, Rip!InstallOffer, Rip!FailOffer
  <2>2. UNCHANGED <<pc, held, alone>> /\ handled' = [handled EXCEPT ![t] = TRUE]
    BY <1>5 DEF RipHandlesBody, RipOffers, Cp!OfferChanges, Cp!local
  <2>3. \A u \in Thread \ {t} : handled[u] => ~ alone[u]
    BY <2>1 DEF CpProofs!AloneInv, CpProofs!Undisturbed
  <2> QED
    BY <2>1, <2>2, <2>3 DEF JointTypeOK
<1>6. ASSUME NEW t \in Thread, EndCall(t) \/ CallFails(t)
      PROVE  Handed'
  <2>1. handled' = [handled EXCEPT ![t] = FALSE] /\ UNCHANGED <<given, alone>>
    BY <1>6 DEF EndCall, CallFails, Rip!LoseTrigger, ripVars, Cp!Post, Cp!PostFails,
       Cp!FetchFails, Cp!history
  <2>2. \A u \in Thread \ {t} : pc'[u] = pc[u] /\ held'[u] = held[u]
    BY <1>6 DEF EndCall, CallFails, Cp!Post, Cp!PostFails, Cp!FetchFails, Cp!TypeOK
  <2> QED
    BY <2>1, <2>2 DEF JointTypeOK
<1>7. CASE LoseCall \/ SlaChanges \/ UNCHANGED vars
  BY <1>1, <1>7 DEF LoseCall, SlaChanges, Cp!OfferChanges, Cp!local, Rip!LoseTrigger, ripVars,
     joint, vars, cpVars
<1> QED
  BY <1>2, <1>3, <1>4, <1>5, <1>6, <1>7 DEF Next

\* What the two parts and Handed say of a call that ends, put together.
LEMMA EndDelivers ==
  ASSUME Cp!TypeOK, CpProofs!AloneInv, Cp!NothingOutdated, Rip!ReplacesOldSet, Handed,
         NEW t \in Thread, EndCall(t), alone[t]
  PROVE  /\ \A r \in Accepted(Static \cup steady) :
              \E f \in Rip!Foreign : f[1] = RedistributedPair(r)[1]
         /\ Rip!Foreign \subseteq {RedistributedPair(r) : r \in Accepted(Static \cup seen)}
<1>1. given = held[t] /\ pc[t] = "post" /\ held[t] \in SUBSET Route
  BY DEF EndCall, Handed, Cp!TypeOK
<1>2. Static \cup steady \subseteq held[t] /\ held[t] \subseteq Static \cup seen
  BY <1>1, CpAssumption, CpProofs!PostComplete DEF Cp!NothingOutdated
<1>3. Unclassful(given) = {}
  BY <1>1, BodyClassful
<1>4. /\ Rip!Foreign \subseteq {RedistributedPair(r) : r \in Accepted(given)}
      /\ \A r \in Accepted(given) : \E f \in Rip!Foreign : f[1] = RedistributedPair(r)[1]
  BY <1>3 DEF Rip!ReplacesOldSet, Rip!Unclassful, Rip!Accepted, Rip!RedistributedPair,
     Rip!Capped, Unclassful, Accepted, RedistributedPair, Capped
<1>5. /\ Accepted(Static \cup steady) \subseteq Accepted(given)
      /\ Accepted(given) \subseteq Accepted(Static \cup seen)
  BY <1>1, <1>2 DEF Accepted
<1> QED
  BY <1>4, <1>5

\* With any number of calls at once, RIP learning and forgetting meanwhile and routes
\* coming and going: a call that no other overlapped leaves RIP with all routes of other
\* sources that were on offer throughout, and with none that was not at any time.
THEOREM RedistributionAlwaysArrives == Spec => RedistributionArrives
<1>1. Spec => []CpProofs!AloneInv
  <2>1. CpProofs!Spec => []CpProofs!AloneInv
    BY CpAssumption, CpProofs!AloneHolds
  <2>2. Cp!Spec => CpProofs!Spec
    BY CpSame, PTL DEF Cp!Spec, CpProofs!Spec
  <2> QED
    BY <2>1, <2>2, ImplementsControlPlane, PTL
<1>2. Spec => []JointTypeOK
  BY JointInit, JointStep, PTL DEF Spec
<1>3. Cp!TypeOK /\ JointTypeOK /\ CpProofs!AloneInv /\ Handed /\ [Next]_vars => Handed'
  BY HandedStep
<1>4. Spec => []Handed
  BY <1>1, <1>2, <1>3, HandedInit, CpTypeCorrect, PTL DEF Spec
<1>5. Cp!TypeOK /\ CpProofs!AloneInv /\ Cp!NothingOutdated /\ Rip!ReplacesOldSet /\ Handed =>
        [\A t \in Thread : EndCall(t) /\ alone[t] =>
           /\ \A r \in Accepted(Static \cup steady) :
                \E f \in Rip!Foreign : f[1] = RedistributedPair(r)[1]
           /\ Rip!Foreign \subseteq {RedistributedPair(r) : r \in Accepted(Static \cup seen)}]_vars
  BY EndDelivers
<1> QED
  BY <1>1, <1>4, <1>5, CpTypeCorrect, PartsKeepTheirWord, PTL DEF RedistributionArrives

-----------------------------------------------------------------------------
(* Dead routes.  A route is marked down before it is removed, and both make *)
(* RIP call the control plane: of these two calls the first may still fetch *)
(* the route, but RIP handles its body before the second one begins.        *)

\* RIB keys of the routes RIP has, and of those it has not marked down.
Known == {RibKey(learned, k) : k \in DOMAIN learned}

Good == {RibKey(learned, k) : k \in {j \in DOMAIN learned : learned[j].metric < MaxMetric}}

\* RIB keys of the RIP routes in a set.
RipKeys(routes) == {k \in Key : RipRoute(k) \in routes}

\* Routes that are in the control plane's RIB, or will be when the thread has imported.
Carried(t) ==
  table \cup (IF pc[t] \in {"read", "write"} THEN held[t] ELSE {})
        \cup (IF pc[t] = "write" /\ snapshot[t] # Orphaned THEN snapshot[t] ELSE {})

\* A route past the garbage timeout has been marked down.
OldIsDown ==
  \A k \in DOMAIN learned : learned[k].age > GarbageTimeout => learned[k].metric = MaxMetric

\* Calls that have to be outstanding for one to follow what t does.
Outstanding(t) == IF t \in Serving THEN 2 ELSE 1

\* What RIP would answer is out of date only while calls are outstanding, two of them if
\* a route is gone; a call carries a route that is gone only if another one follows.
Repair ==
  /\ triggers >= 1 \/ RipKeys(offered["RIP1"]) \subseteq Good
  /\ triggers >= 2 \/ RipKeys(offered["RIP1"]) \subseteq Known
  /\ \A t \in Serving : triggers >= 1
  /\ \A t \in Thread : triggers >= Outstanding(t) \/ RipKeys(Carried(t)) \subseteq Known
  /\ triggers >= 1 \/ RipKeys(table) \subseteq Known

\* Redistributed SLA routes name their source.
SlaForeign == \A r \in offered["SLA"] : r.source # "RIP1"

\* The inductive invariant: with one call at a time, what is out of date awaits a call.
RInv == OldIsDown /\ SlaForeign /\ (failed \/ overlapped \/ (OneAtATime /\ Repair))

\* What the rest of the proof supplies.
Context ==
  /\ Cp!TypeOK /\ JointTypeOK /\ LearnedTable(learned) /\ triggers \in Nat
  /\ \A k \in DOMAIN redistributed : redistributed[k].source # "RIP1"

\* Rip has the operators of RipTables under names of its own.
LEMMA RipOperators ==
  /\ \A p : Rip!ReceivedRoutes(p) = ReceivedRoutes(p)
  /\ \A P : Rip!TablesOf(P) = TablesOf(P)
  /\ \A old, new : Rip!Learn(old, new) = Learn(old, new)
  /\ \A t : Rip!CheckedRoutes(t) = CheckedRoutes(t)
  /\ \A t : Rip!Aged(t) = Aged(t)
  /\ \A redist, learnt : Rip!Refreshes(redist, learnt) = Refreshes(redist, learnt)
  /\ \A body : Rip!Unclassful(body) = Unclassful(body)
<1>1. \A p : Rip!ReceivedRoutes(p) = ReceivedRoutes(p)
  BY DEF Rip!ReceivedRoutes, Rip!Capped, ReceivedRoutes, Capped
<1>2. \A P : Rip!TablesOf(P) = TablesOf(P)
  BY DEF Rip!TablesOf, TablesOf
<1>3. \A a, b : Rip!ImportRoutes(a, b) = ImportRoutes(a, b)
  BY DEF Rip!ImportRoutes, ImportRoutes
<1>4. \A old, new : Rip!Learn(old, new) = Learn(old, new)
  BY <1>3 DEF Rip!Learn, Learn
<1>5. \A t : Rip!CheckedRoutes(t) = CheckedRoutes(t)
  BY DEF Rip!CheckedRoutes, CheckedRoutes
<1>6. \A t : Rip!Aged(t) = Aged(t)
  BY DEF Rip!Aged, Rip!Capped, Aged, Capped
<1>7. \A learnt : Rip!Exported(learnt) = Exported(learnt)
  BY <1>2 DEF Rip!Exported, Rip!RibKey, Exported, RibKey
<1>8. \A redist, learnt : Rip!Refreshes(redist, learnt) = Refreshes(redist, learnt)
  BY <1>3, <1>7 DEF Rip!Refreshes, Refreshes
<1>9. \A body : Rip!Unclassful(body) = Unclassful(body)
  BY DEF Rip!Unclassful, Rip!Accepted, Unclassful, Accepted
<1> QED
  BY <1>1, <1>2, <1>4, <1>5, <1>6, <1>8, <1>9

\* The actions of the RIP instance, in the operators of RipTables.
LEMMA RipActions ==
  /\ \A p \in Packet : Rip!HandleResponse(p) =>
       /\ \E new \in TablesOf(ReceivedRoutes(p)) : learned' = Learn(learned, new)
       /\ rib' \in Refreshes(redistributed', learned')
       /\ Rip!TriggersRedistribution
  /\ Rip!CheckRoutes => learned' = CheckedRoutes(learned) /\ Rip!TriggersRedistribution
  /\ Rip!Tick => learned' = Aged(learned) /\ UNCHANGED triggers
  /\ Rip!RefreshRib => /\ rib' \in Refreshes(redistributed', learned')
                       /\ UNCHANGED <<learned, triggers>>
  /\ \A body \in SUBSET Route : Rip!RedistributeIn(body) =>
       rib' \in Refreshes(redistributed', learned') /\ UNCHANGED learned
<1>1. ASSUME NEW p \in Packet, Rip!HandleResponse(p)
      PROVE  /\ \E new \in TablesOf(ReceivedRoutes(p)) : learned' = Learn(learned, new)
             /\ rib' \in Refreshes(redistributed', learned')
             /\ Rip!TriggersRedistribution
  BY <1>1, RipOperators, Zenon DEF Rip!HandleResponse
<1>2. Rip!CheckRoutes => learned' = CheckedRoutes(learned) /\ Rip!TriggersRedistribution
  BY RipOperators DEF Rip!CheckRoutes
<1>3. Rip!Tick => learned' = Aged(learned) /\ UNCHANGED triggers
  BY RipOperators DEF Rip!Tick
<1>4. Rip!RefreshRib => /\ rib' \in Refreshes(redistributed', learned')
                        /\ UNCHANGED <<learned, triggers>>
  BY RipOperators DEF Rip!RefreshRib
<1>5. ASSUME NEW body \in SUBSET Route, Rip!RedistributeIn(body)
      PROVE  rib' \in Refreshes(redistributed', learned') /\ UNCHANGED learned
  <2>1. Rip!Unclassful(body) = {}
    BY BodyClassful, RipOperators
  <2> QED
    BY <1>5, <2>1, RipOperators DEF Rip!RedistributeIn, Rip!InstallOffer, Rip!FailOffer
<1> QED
  BY <1>1, <1>2, <1>3, <1>4, <1>5

\* After a refresh of the RIB all that RIP would answer is good.
LEMMA RefreshGood ==
  ASSUME rib' \in Refreshes(redistributed', learned'), RipOffers,
         \A k \in DOMAIN redistributed' : redistributed'[k].source # "RIP1"
  PROVE  RipKeys(offered'["RIP1"]) \subseteq Good' /\ Good' \subseteq Known'
<1>1. PICK S \in BestSelections([k \in Offerable(rib') |-> rib'[k].metric]) :
        offered'["RIP1"] = {RipRoute(k) : k \in S}
  BY DEF RipOffers, RipOutputs
<1>2. S \subseteq Offerable(rib')
  BY <1>1 DEF BestSelections
<1>3. ASSUME NEW k \in RipKeys(offered'["RIP1"])
      PROVE  k \in Good'
  <2>1. PICK q \in S : RipRoute(k) = RipRoute(q)
    BY <1>1 DEF RipKeys
  <2>2. q \in DOMAIN rib' /\ rib'[q].source = "RIP1" /\ rib'[q].metric < MaxMetric
    BY <1>2 DEF Offerable
  <2>3. PICK j \in DOMAIN learned' :
          RibKey(learned', j) = q /\ rib'[q] = [metric |-> learned'[j].metric, source |-> "RIP1"]
    BY <2>2, RefreshesLemma
  <2>4. q \in Good'
    BY <2>2, <2>3 DEF Good
  <2>5. k = q
    <3>1. k[1] = q[1] /\ k[2] = q[2]
      BY <2>1 DEF RipRoute
    <3>2. k = <<k[1], k[2]>> /\ q = <<q[1], q[2]>>
      BY <2>3 DEF RipKeys, Key, RibKey
    <3> QED
      BY <3>1, <3>2
  <2> QED
    BY <2>4, <2>5
<1>4. Good' \subseteq Known'
  BY DEF Good, Known
<1> QED
  BY <1>3, <1>4

\* RIP calls the control plane: there is a call to come after all that is under way.
LEMMA TriggerRepairs ==
  ASSUME Repair, triggers \in Nat, triggers' = triggers + 1, Serving' = Serving,
         triggers >= 1 \/ RipKeys(offered'["RIP1"]) \subseteq Known'
  PROVE  Repair'
<1>1. \A t \in Thread : Outstanding(t)' = Outstanding(t)
  BY DEF Outstanding
<1>2. \A t \in Thread : triggers + 1 >= Outstanding(t)
  BY DEF Repair, Outstanding
<1> QED
  BY <1>1, <1>2 DEF Repair

\* A step that brings nothing new needs no call.
LEMMA QuietStep ==
  ASSUME Repair, UNCHANGED triggers, Known' = Known, Good' = Good, offered'["RIP1"] = offered["RIP1"],
         Serving' \subseteq Serving, triggers \in Nat,
         \A t \in Thread : pc'[t] = "idle" \/ Carried(t)' \subseteq Carried(t),
         table' \subseteq table \/ \E t \in Thread : table' \subseteq Carried(t)
  PROVE  Repair'
<1>1. triggers >= 1 \/ RipKeys(table') \subseteq Known
  <2>1. CASE table' \subseteq table
    BY <2>1 DEF Repair, RipKeys
  <2>2. ASSUME NEW t \in Thread, table' \subseteq Carried(t)
        PROVE  triggers >= 1 \/ RipKeys(table') \subseteq Known
    <3>1. RipKeys(table') \subseteq RipKeys(Carried(t))
      BY <2>2 DEF RipKeys
    <3> QED
      BY <3>1 DEF Repair, Outstanding
  <2> QED
    BY <2>1, <2>2
<1>2. ASSUME NEW t \in Thread, pc'[t] = "idle"
      PROVE  triggers >= Outstanding(t)' \/ RipKeys(Carried(t)') \subseteq Known
  BY <1>1, <1>2 DEF Outstanding, Serving, Carried
<1>3. ASSUME NEW t \in Thread, Carried(t)' \subseteq Carried(t)
      PROVE  triggers >= Outstanding(t)' \/ RipKeys(Carried(t)') \subseteq Known
  <2>1. Outstanding(t)' <= Outstanding(t)
    BY DEF Outstanding
  <2>2. RipKeys(Carried(t)') \subseteq RipKeys(Carried(t))
    BY <1>3 DEF RipKeys
  <2>3. Outstanding(t) \in Nat /\ Outstanding(t)' \in Nat
    BY DEF Outstanding
  <2> QED
    BY <2>1, <2>2, <2>3 DEF Repair
<1> QED
  BY <1>1, <1>2, <1>3 DEF Repair

\* Housekeeping has marked a route down before time takes it past the garbage timeout.
LEMMA OldStep ==
  ASSUME Context, OldIsDown, [Next]_vars
  PROVE  OldIsDown'
<1>1. ASSUME NEW p \in Packet, HandleResponse(p)
      PROVE  OldIsDown'
  <2>1. PICK new \in TablesOf(ReceivedRoutes(p)) : learned' = Learn(learned, new)
    BY <1>1, RipActions DEF HandleResponse
  <2>2. \A r \in ReceivedRoutes(p) : ~(r[2].age > GarbageTimeout)
    BY RipTablesAssumption DEF RipTablesAssumption, ReceivedRoutes
  <2>3. ASSUME NEW k \in DOMAIN learned', learned'[k].age > GarbageTimeout
        PROVE  learned'[k].metric = MaxMetric
    <3>1. /\ DOMAIN learned' = DOMAIN new \cup DOMAIN learned
          /\ \A j \in DOMAIN new : learned'[j] = new[j]
          /\ \A j \in DOMAIN learned \ DOMAIN new : learned'[j] = learned[j]
      BY <2>1 DEF Learn, ImportRoutes
    <3>2. k \notin DOMAIN new
      <4>1. \A j \in DOMAIN new : <<j, new[j]>> \in ReceivedRoutes(p)
        BY TablesOfLemma
      <4> QED
        BY <2>2, <2>3, <3>1, <4>1
    <3> QED
      BY <2>3, <3>1, <3>2 DEF OldIsDown
  <2> QED
    BY <2>3 DEF OldIsDown
<1>2. CASE CheckRoutes
  <2>1. learned' = CheckedRoutes(learned)
    BY <1>2, RipActions DEF CheckRoutes
  <2>2. ASSUME NEW k \in DOMAIN learned'
        PROVE  ~(learned'[k].age > GarbageTimeout)
    <3>1. k \in DOMAIN learned /\ learned[k].age =< GarbageTimeout /\ learned'[k].age = learned[k].age
      BY <2>1, <2>2, CheckedLemma DEF Context, CheckedRoutes
    <3>2. learned[k].age \in Nat
      BY <3>1, LearnedTableLemma DEF Context, LearnedRoute
    <3> QED
      BY <3>1, <3>2, RipTablesAssumption DEF RipTablesAssumption
  <2> QED
    BY <2>2 DEF OldIsDown
<1>3. CASE Tick
  <2>1. learned' = Aged(learned) /\ CheckedRoutes(learned) = learned
    BY <1>3, RipActions DEF Tick
  <2>2. ASSUME NEW k \in DOMAIN learned', learned'[k].age > GarbageTimeout
        PROVE  learned'[k].metric = MaxMetric
    <3>1. k \in DOMAIN learned /\ learned[k] \in LearnedRoute
      BY <2>1, <2>2, AgedLemma, LearnedTableLemma DEF Context
    <3>2. learned'[k].metric = learned[k].metric
      BY <2>1, <3>1, AgedLemma DEF Context
    <3>3. learned'[k].age = Capped(learned[k].age + 1, GarbageTimeout + 1)
      BY <2>1, <3>1 DEF Aged, LearnedRoute
    <3>4. learned[k].age > RouteTimeout
      BY <2>2, <3>1, <3>3, RipTablesAssumption DEF RipTablesAssumption, Capped, LearnedRoute
    <3>5. learned[k] = [learned[k] EXCEPT !.metric = MaxMetric]
      BY <2>1, <3>1, <3>4 DEF CheckedRoutes
    <3> QED
      BY <3>1, <3>2, <3>5 DEF LearnedRoute
  <2> QED
    BY <2>2 DEF OldIsDown
<1>4. ASSUME UNCHANGED learned
      PROVE  OldIsDown'
  BY <1>4 DEF OldIsDown
<1>5. CASE RefreshRib \/ SendResponse
  BY <1>4, <1>5, RipActions DEF RefreshRib, SendResponse, Rip!SendResponse
<1>6. ASSUME NEW t \in Thread, OperatorCall(t) \/ TriggeredCall(t) \/ Collect(t) \/ EndCall(t)
      PROVE  OldIsDown'
  BY <1>4, <1>6 DEF OperatorCall, TriggeredCall, Collect, EndCall, ripVars
<1>7. ASSUME NEW t \in Thread, RipHandlesBody(t)
      PROVE  OldIsDown'
  <2>1. Rip!RedistributeIn(held[t])
    BY <1>7 DEF RipHandlesBody, Rip!TriggeredRedistribution, Rip!OperatorRedistribution
  <2>2. held[t] \in SUBSET Route
    BY DEF Context, Cp!TypeOK
  <2> QED
    BY <1>4, <2>1, <2>2, RipActions
<1>8. ASSUME NEW t \in Thread, CallFails(t)
      PROVE  OldIsDown'
  BY <1>4, <1>8 DEF CallFails, Rip!LoseTrigger, ripVars
<1>9. CASE LoseCall \/ SlaChanges \/ UNCHANGED vars
  BY <1>4, <1>9 DEF LoseCall, Rip!LoseTrigger, SlaChanges, ripVars, vars
<1> QED
  BY <1>1, <1>2, <1>3, <1>5, <1>6, <1>7, <1>8, <1>9 DEF Next

\* What the SLA instance answers never comes from RIP.
LEMMA SlaStep ==
  ASSUME Context, SlaForeign, [Next]_vars
  PROVE  SlaForeign'
<1>1. ASSUME offered'["SLA"] = offered["SLA"]
      PROVE  SlaForeign'
  BY <1>1 DEF SlaForeign
<1>2. ASSUME Cp!OfferChanges("RIP1")
      PROVE  offered'["SLA"] = offered["SLA"]
  BY <1>2 DEF Cp!OfferChanges, Context, Cp!TypeOK, Cp!Protocol
<1>3. CASE (\E p \in Packet : HandleResponse(p)) \/ RefreshRib \/ \E t \in Thread : RipHandlesBody(t)
  BY <1>1, <1>2, <1>3 DEF HandleResponse, RefreshRib, RipHandlesBody, RipOffers
<1>4. CASE SlaChanges
  BY <1>4, NodeAssumption DEF SlaChanges, SlaForeign, NodeAssumption
<1>5. CASE SendResponse \/ CheckRoutes \/ Tick \/ LoseCall \/ UNCHANGED vars
  BY <1>1, <1>5 DEF SendResponse, CheckRoutes, Tick, LoseCall, vars, cpVars
<1>6. ASSUME NEW t \in Thread, OperatorCall(t) \/ TriggeredCall(t)
      PROVE  SlaForeign'
  BY <1>1, <1>6 DEF OperatorCall, TriggeredCall, Cp!Begin
<1>7. ASSUME NEW t \in Thread, Collect(t) \/ EndCall(t) \/ CallFails(t)
      PROVE  SlaForeign'
  BY <1>1, <1>7 DEF Collect, EndCall, CallFails, Cp!ImportRead, Cp!ImportWrite, Cp!Fetch,
       Cp!FetchFails, Cp!Export, Cp!Post, Cp!PostFails
<1> QED
  BY <1>3, <1>4, <1>5, <1>6, <1>7 DEF Next

\* The steps of the RIP instance on its own: a call comes with what they change.
LEMMA RipRepairs ==
  ASSUME Context, Context', TriggerRedistribution, OldIsDown, Repair,
         \/ \E p \in Packet : HandleResponse(p)
         \/ RefreshRib \/ SendResponse \/ CheckRoutes \/ Tick
  PROVE  Repair'
<1>1. triggers \in Nat /\ LearnedTable(learned)
  BY DEF Context
<1>2. /\ Serving' = Serving /\ table' = table
      /\ \A t \in Thread : Carried(t)' = Carried(t)
      /\ \A t \in Thread : Outstanding(t)' = Outstanding(t)
  <2>1. UNCHANGED <<table, pc, held, snapshot, joint>>
    BY DEF HandleResponse, RefreshRib, SendResponse, CheckRoutes, Tick, RipOffers, cpVars,
           Cp!OfferChanges, Cp!local
  <2> QED
    BY <2>1 DEF joint, Serving, Carried, Outstanding
<1>3. ASSUME NEW p \in Packet, HandleResponse(p)
      PROVE  Repair'
  <2>1. triggers' = triggers + 1 /\ rib' \in Refreshes(redistributed', learned') /\ RipOffers
    BY <1>3, RipActions DEF HandleResponse, Rip!TriggersRedistribution
  <2>2. RipKeys(offered'["RIP1"]) \subseteq Known'
    BY <2>1, RefreshGood DEF Context
  <2> QED
    BY <1>1, <1>2, <2>1, <2>2, TriggerRepairs
<1>4. CASE RefreshRib
  <2>1. rib' \in Refreshes(redistributed', learned') /\ UNCHANGED <<learned, triggers>> /\ RipOffers
    BY <1>4, RipActions DEF RefreshRib
  <2>2. RipKeys(offered'["RIP1"]) \subseteq Good' /\ Good' \subseteq Known'
    BY <2>1, RefreshGood DEF Context
  <2>3. Known' = Known
    BY <2>1 DEF Known, RibKey
  <2> QED
    BY <1>2, <2>1, <2>2, <2>3 DEF Repair
<1>5. CASE SendResponse
  <2>1. UNCHANGED <<learned, triggers, offered>>
    BY <1>5 DEF SendResponse, Rip!SendResponse, cpVars
  <2>2. Known' = Known /\ Good' = Good
    BY <2>1 DEF Known, Good, RibKey
  <2> QED
    BY <1>1, <1>2, <2>1, <2>2, QuietStep
<1>6. CASE CheckRoutes
  <2>1. /\ triggers' = triggers + 1
        /\ learned' = CheckedRoutes(learned)
        /\ offered' = offered
    BY <1>6, RipActions DEF CheckRoutes, Rip!TriggersRedistribution, cpVars
  <2>2. Good \subseteq Known'
    <3>1. ASSUME NEW k \in DOMAIN learned, learned[k].metric < MaxMetric
          PROVE  k \in DOMAIN learned' /\ RibKey(learned', k) = RibKey(learned, k)
      <4>1. learned[k].age =< GarbageTimeout
        BY <1>1, <3>1, LearnedTableLemma, RipTablesAssumption DEF OldIsDown, LearnedRoute,
           RipTablesAssumption
      <4>2. k \in DOMAIN learned'
        BY <2>1, <4>1 DEF CheckedRoutes
      <4> QED
        BY <1>1, <2>1, <4>2, CheckedLemma DEF RibKey
    <3> QED
      BY <3>1 DEF Good, Known
  <2>3. triggers >= 1 \/ RipKeys(offered'["RIP1"]) \subseteq Known'
    BY <2>1, <2>2 DEF Repair
  <2> QED
    BY <1>1, <1>2, <2>1, <2>3, TriggerRepairs
<1>7. CASE Tick
  <2>1. learned' = Aged(learned) /\ UNCHANGED <<triggers, offered>>
    BY <1>7, RipActions DEF Tick, cpVars
  <2>2. /\ DOMAIN learned' = DOMAIN learned
        /\ \A k \in DOMAIN learned : /\ RibKey(learned', k) = RibKey(learned, k)
                                     /\ learned'[k].metric = learned[k].metric
    BY <1>1, <2>1, AgedLemma DEF RibKey
  <2>3. Known' = Known /\ Good' = Good
    BY <2>2 DEF Known, Good
  <2> QED
    BY <1>1, <1>2, <2>1, <2>3, QuietStep
<1> QED
  BY <1>3, <1>4, <1>5, <1>6, <1>7

\* A call begins with an empty RIB, and serves a trigger that no other thread serves.
LEMMA BeginRepairs ==
  ASSUME Context, Context', OneAtATime', Repair, NEW t \in Thread,
         OperatorCall(t) \/ TriggeredCall(t)
  PROVE  Repair'
<1>1. triggers \in Nat
  BY DEF Context
<1>2. /\ Cp!Begin(t, "redistribute") /\ UNCHANGED <<learned, triggers, offered>>
      /\ cause' = [cause EXCEPT ![t] = "operator"] \/ TriggeredCall(t)
  <2>1. CASE OperatorCall(t)
    BY <2>1 DEF OperatorCall, ripVars, Cp!Begin
  <2>2. CASE TriggeredCall(t)
    BY <2>2 DEF TriggeredCall, ripVars, Cp!Begin
  <2> QED
    BY <2>1, <2>2
<1>3. /\ table' = {} /\ pc'[t] = "read" /\ held'[t] = Static
      /\ \A u \in Thread \ {t} : pc'[u] = "idle"
      /\ Serving = {}
  <2>1. table' = {} /\ pc'[t] = "read" /\ held'[t] = Static
    BY <1>2 DEF Cp!Begin, Cp!EmptiedTable, Context, Cp!TypeOK
  <2>2. pc[t] = "idle" /\ \A u \in Thread \ {t} : pc'[u] = pc[u]
    BY <1>2 DEF Cp!Begin, Context, Cp!TypeOK
  <2>3. \A u \in Thread \ {t} : pc'[u] = "idle"
    BY <2>1 DEF OneAtATime
  <2> QED
    BY <2>1, <2>2, <2>3 DEF Serving
<1>4. RipKeys({}) = {} /\ RipKeys(Static) = {}
  BY NodeAssumption DEF RipKeys, RipRoute, NodeAssumption
<1>5. \A u \in Thread : RipKeys(Carried(u)') = {}
  <2>1. Carried(t)' = Static /\ \A u \in Thread \ {t} : Carried(u)' = {}
    BY <1>3 DEF Carried
  <2> QED
    BY <1>4, <2>1
<1>6. \A u \in Serving' : triggers >= 1
  <2>1. CASE TriggeredCall(t)
    <3>1. Cardinality(Serving) = 0
      BY <1>3, FS_EmptySet
    <3> QED
      BY <1>1, <2>1, <3>1 DEF TriggeredCall
  <2>2. CASE cause' = [cause EXCEPT ![t] = "operator"]
    <3>1. cause'[t] = "operator"
      BY <2>2 DEF Context, JointTypeOK
    <3> QED
      BY <1>3, <3>1 DEF Serving
  <2> QED
    BY <1>2, <2>1, <2>2
<1>7. Known' = Known /\ Good' = Good
  BY <1>2 DEF Known, Good, RibKey
<1> QED
  BY <1>2, <1>3, <1>4, <1>5, <1>6, <1>7 DEF Repair

\* A call brings in nothing that RIP does not have, unless another call is to come.
LEMMA CollectRepairs ==
  ASSUME Context, OneAtATime, SlaForeign, Repair, NEW t \in Thread, Collect(t)
  PROVE  Repair'
<1>1. /\ triggers \in Nat /\ t \in DOMAIN pc /\ t \in DOMAIN held /\ t \in DOMAIN snapshot
      /\ \A u \in Thread \ {t} : pc[u] = "idle" /\ pc'[u] = "idle"
  <2>1. pc[t] # "idle" /\ \A u \in Thread \ {t} : pc'[u] = pc[u]
    BY DEF Collect, Cp!ImportRead, Cp!ImportWrite, Cp!Fetch, Cp!Export, Context, Cp!TypeOK
  <2> QED
    BY <2>1 DEF Context, Cp!TypeOK, OneAtATime
<1>2. UNCHANGED <<learned, triggers, offered, joint>> /\ Known' = Known /\ Good' = Good
  <2>1. UNCHANGED <<learned, triggers, offered, joint>>
    BY DEF Collect, ripVars, Cp!ImportRead, Cp!ImportWrite, Cp!Fetch, Cp!Export
  <2> QED
    BY <2>1 DEF Known, Good, RibKey
<1>3. Serving' \subseteq Serving
  BY <1>1, <1>2 DEF Collect, Serving, joint, Cp!ImportRead, Cp!ImportWrite, Cp!Fetch, Cp!Export
<1>4. CASE Cp!ImportRead(t)
  <2>1. Carried(t)' \subseteq Carried(t) /\ table' = table
    BY <1>1, <1>4 DEF Cp!ImportRead, Carried
  <2> QED
    BY <1>1, <1>2, <1>3, <2>1, QuietStep
<1>5. CASE Cp!ImportWrite(t)
  <2>1. pc'[t] \notin {"read", "write"}
    BY <1>1, <1>5 DEF Cp!ImportWrite, Cp!StepAfterImport
  <2>2. Carried(t)' \subseteq Carried(t) /\ table' \subseteq Carried(t)
    BY <1>5, <2>1 DEF Cp!ImportWrite, Carried, Cp!UnionOf
  <2> QED
    BY <1>1, <1>2, <1>3, <2>2, QuietStep
<1>6. CASE Cp!Export(t)
  <2>1. Carried(t)' \subseteq Carried(t) /\ table' = table
    BY <1>1, <1>6 DEF Cp!Export, Carried
  <2> QED
    BY <1>1, <1>2, <1>3, <2>1, QuietStep
<1>7. CASE Cp!Fetch(t)
  <2>1. /\ pc[t] = "fetch" /\ pc'[t] = "read" /\ table' = table
        /\ held'[t] = {} \/ held'[t] = offered["SLA"] \/ held'[t] = offered["RIP1"]
    BY <1>1, <1>7 DEF Cp!Fetch, Enabled
  <2>2. Outstanding(t)' = Outstanding(t) /\ Outstanding(t) \in 1..2
    BY <1>2, <2>1 DEF Outstanding, Serving, joint
  <2>3. RipKeys(held'[t]) \subseteq Known \/ triggers >= 2
    <3>1. RipKeys({}) = {} /\ RipKeys(offered["SLA"]) = {}
      BY DEF RipKeys, RipRoute, SlaForeign
    <3> QED
      BY <2>1, <3>1 DEF Repair
  <2>4. RipKeys(Carried(t)') = RipKeys(Carried(t)) \cup RipKeys(held'[t])
    BY <2>1 DEF Carried, RipKeys
  <2>5. triggers' >= Outstanding(t)' \/ RipKeys(Carried(t)') \subseteq Known'
    BY <1>1, <1>2, <2>2, <2>3, <2>4 DEF Repair
  <2>6. \A u \in Thread \ {t} : Carried(u)' = table /\ Outstanding(u)' = 1
    BY <1>1, <2>1 DEF Carried, Outstanding, Serving
  <2> QED
    BY <1>1, <1>2, <1>3, <2>1, <2>5, <2>6 DEF Repair
<1> QED
  BY <1>4, <1>5, <1>6, <1>7 DEF Collect

\* RIP has its body: what it would answer is up to date again.
LEMMA HandledRepairs ==
  ASSUME Context, Context', OneAtATime, Repair, NEW t \in Thread, RipHandlesBody(t)
  PROVE  Repair'
<1>1. /\ triggers \in Nat /\ t \in DOMAIN handled
      /\ \A u \in Thread \ {t} : pc[u] = "idle"
      /\ held[t] \in SUBSET Route
  BY DEF Context, Cp!TypeOK, JointTypeOK, OneAtATime, RipHandlesBody
<1>2. Rip!RedistributeIn(held[t]) /\ RipOffers
  BY DEF RipHandlesBody, Rip!TriggeredRedistribution, Rip!OperatorRedistribution
<1>3. rib' \in Refreshes(redistributed', learned') /\ UNCHANGED learned
  BY <1>1, <1>2, RipActions
<1>4. RipKeys(offered'["RIP1"]) \subseteq Good' /\ Good' \subseteq Known' /\ Known' = Known
  <2>1. RipKeys(offered'["RIP1"]) \subseteq Good' /\ Good' \subseteq Known'
    BY <1>2, <1>3, RefreshGood DEF Context
  <2> QED
    BY <1>3, <2>1 DEF Known, RibKey
<1>5. UNCHANGED <<table, pc, held, snapshot>>
  BY DEF RipHandlesBody, RipOffers, Cp!OfferChanges, Cp!local
<1>6. /\ Serving' = {} /\ Carried(t) = table
      /\ \A u \in Thread : Carried(u)' = table /\ Outstanding(u)' = 1
  BY <1>1, <1>5 DEF RipHandlesBody, Serving, Carried, Outstanding
<1>7. triggers' >= 1 \/ RipKeys(table) \subseteq Known
  <2>1. CASE t \in Serving
    <3>1. triggers' = triggers - 1
      BY <2>1 DEF RipHandlesBody, Serving, Rip!TriggeredRedistribution
    <3>2. triggers >= 2 \/ RipKeys(table) \subseteq Known
      BY <1>6, <2>1 DEF Repair, Outstanding
    <3> QED
      BY <1>1, <3>1, <3>2
  <2>2. CASE t \notin Serving
    <3>1. triggers' = triggers
      BY <2>2 DEF RipHandlesBody, Serving, Rip!OperatorRedistribution
    <3> QED
      BY <3>1 DEF Repair
  <2> QED
    BY <2>1, <2>2
<1> QED
  BY <1>1, <1>4, <1>5, <1>6, <1>7 DEF Repair

\* That a call failed, or that two overlapped, stays on record.
LEMMA RecordStep ==
  ASSUME [Next]_vars
  PROVE  (failed => failed') /\ (overlapped => overlapped')
<1>1. CASE UNCHANGED joint
  BY <1>1 DEF joint
<1>2. CASE LoseCall
  BY <1>2 DEF LoseCall
<1>3. ASSUME NEW t \in Thread, CallFails(t)
      PROVE  failed' /\ overlapped' = overlapped
  BY <1>3 DEF CallFails
<1>4. ASSUME NEW t \in Thread, OperatorCall(t) \/ TriggeredCall(t)
      PROVE  (failed => failed') /\ (overlapped => overlapped')
  <2>1. failed' = failed /\ overlapped' = (overlapped \/ ~Cp!Idle)
    BY <1>4 DEF OperatorCall, TriggeredCall
  <2> QED
    BY <2>1, Zenon
<1>5. ASSUME NEW t \in Thread, RipHandlesBody(t) \/ EndCall(t)
      PROVE  UNCHANGED <<failed, overlapped>>
  BY <1>5 DEF RipHandlesBody, EndCall
<1> QED
  BY <1>1, <1>2, <1>3, <1>4, <1>5 DEF Next, vars, HandleResponse, RefreshRib, SendResponse, CheckRoutes,
     Tick, Collect, SlaChanges

\* A call that overlaps another one is on record from its first step.
LEMMA OverlapStep ==
  ASSUME Context, OneAtATime, [Next]_vars
  PROVE  overlapped' \/ OneAtATime'
<1>1. ASSUME UNCHANGED pc
      PROVE  OneAtATime'
  BY <1>1 DEF OneAtATime
<1>2. ASSUME NEW t \in Thread, OperatorCall(t) \/ TriggeredCall(t)
      PROVE  overlapped' \/ OneAtATime'
  <2>1. overlapped' = (overlapped \/ ~Cp!Idle) /\ Cp!Begin(t, "redistribute")
    BY <1>2 DEF OperatorCall, TriggeredCall
  <2>2. \A u \in Thread \ {t} : pc'[u] = pc[u]
    BY <2>1 DEF Cp!Begin, Context, Cp!TypeOK
  <2>3. CASE Cp!Idle
    BY <2>2, <2>3 DEF Cp!Idle, OneAtATime
  <2> QED
    BY <2>1, <2>3
<1>3. ASSUME NEW t \in Thread, Collect(t) \/ EndCall(t) \/ CallFails(t)
      PROVE  OneAtATime'
  <2>1. pc[t] # "idle" /\ \A u \in Thread \ {t} : pc'[u] = pc[u]
    BY <1>3 DEF Collect, EndCall, CallFails, Cp!ImportRead, Cp!ImportWrite, Cp!Fetch,
       Cp!FetchFails, Cp!Export, Cp!Post, Cp!PostFails, Context, Cp!TypeOK
  <2> QED
    BY <2>1 DEF OneAtATime
<1> QED
  BY <1>1, <1>2, <1>3 DEF Next, vars, cpVars, HandleResponse, RefreshRib, SendResponse,
     CheckRoutes, Tick, LoseCall, RipHandlesBody, SlaChanges, RipOffers, Cp!OfferChanges, Cp!local

\* Every step keeps Repair, or is a failure.
LEMMA RepairStep ==
  ASSUME Context, Context', OneAtATime, OneAtATime', TriggerRedistribution, OldIsDown, SlaForeign,
         Repair, [Next]_vars
  PROVE  failed' \/ Repair'
<1>1. CASE \/ \E p \in Packet : HandleResponse(p)
           \/ RefreshRib \/ SendResponse \/ CheckRoutes \/ Tick
  BY <1>1, RipRepairs
<1>2. ASSUME NEW t \in Thread, OperatorCall(t) \/ TriggeredCall(t)
      PROVE  Repair'
  BY <1>2, BeginRepairs
<1>3. ASSUME NEW t \in Thread, Collect(t)
      PROVE  Repair'
  BY <1>3, CollectRepairs
<1>4. ASSUME NEW t \in Thread, RipHandlesBody(t)
      PROVE  Repair'
  BY <1>4, HandledRepairs
<1>5. ASSUME NEW t \in Thread, EndCall(t)
      PROVE  Repair'
  <2>1. /\ triggers \in Nat /\ t \in DOMAIN pc
        /\ \A u \in Thread \ {t} : pc[u] = "idle"
    BY <1>5 DEF EndCall, Cp!Post, Context, Cp!TypeOK, OneAtATime
  <2>2. /\ UNCHANGED <<learned, triggers, offered, table>>
        /\ \A u \in Thread : pc'[u] = "idle"
    BY <1>5, <2>1 DEF EndCall, Cp!Post, ripVars, Context, Cp!TypeOK
  <2>3. Known' = Known /\ Good' = Good /\ Serving' \subseteq Serving
    BY <2>1, <2>2 DEF Known, Good, RibKey, Serving
  <2> QED
    BY <2>1, <2>2, <2>3, QuietStep
<1>6. CASE LoseCall \/ \E t \in Thread : CallFails(t)
  BY <1>6 DEF LoseCall, CallFails
<1>7. CASE SlaChanges \/ UNCHANGED vars
  <2>1. /\ UNCHANGED <<learned, triggers, table, pc, held, snapshot, joint>>
        /\ offered'["RIP1"] = offered["RIP1"]
    <3>1. CASE SlaChanges
      BY <3>1 DEF SlaChanges, Cp!OfferChanges, Cp!local, ripVars, Context, Cp!TypeOK, Cp!Protocol
    <3>2. CASE UNCHANGED vars
      BY <3>2 DEF vars, cpVars, ripVars
    <3> QED
      BY <1>7, <3>1, <3>2
  <2>2. /\ Known' = Known /\ Good' = Good /\ Serving' = Serving
        /\ \A t \in Thread : Carried(t)' = Carried(t)
    BY <2>1 DEF Known, Good, RibKey, Serving, Carried, joint
  <2>3. triggers \in Nat
    BY DEF Context
  <2> QED
    BY <2>1, <2>2, <2>3, QuietStep
<1> QED
  BY <1>1, <1>2, <1>3, <1>4, <1>5, <1>6, <1>7 DEF Next

\* At the start the control plane has no RIP route.
LEMMA RInvInit == Init => RInv
<1> SUFFICES ASSUME Init
             PROVE  OldIsDown /\ SlaForeign /\ Repair
  BY DEF RInv, Init, Cp!Init, OneAtATime
<1>1. offered = [p \in {"SLA", "RIP1"} |-> {}] /\ table = Static /\ triggers = 0
  BY DEF Init, Cp!Init, Cp!Protocol, Rip!Init
<1>2. DOMAIN learned = {}
  BY DEF Init, Rip!Init, Rip!EmptyTable
<1>3. RipKeys({}) = {} /\ RipKeys(Static) = {}
  BY NodeAssumption DEF RipKeys, RipRoute, NodeAssumption
<1>4. \A t \in Thread : Carried(t) = Static /\ t \notin Serving
  BY <1>1 DEF Init, Cp!Init, Carried, Serving
<1>5. Repair
  <2>1. RipKeys(offered["RIP1"]) = {} /\ RipKeys(table) = {}
    BY <1>1, <1>3
  <2>2. \A t \in Thread : RipKeys(Carried(t)) = {}
    BY <1>3, <1>4
  <2> QED
    BY <1>4, <2>1, <2>2 DEF Repair, Serving
<1> QED
  BY <1>1, <1>2, <1>5 DEF OldIsDown, SlaForeign

\* Until a call fails or two overlap each change is answered by a call: every step keeps it.
LEMMA RInvStep ==
  ASSUME Context, Context', TriggerRedistribution, RInv, [Next]_vars
  PROVE  RInv'
<1>1. OldIsDown' /\ SlaForeign'
  BY OldStep, SlaStep DEF RInv
<1>2. CASE failed \/ overlapped
  BY <1>1, <1>2, RecordStep DEF RInv
<1>3. CASE OneAtATime /\ Repair
  <2>1. overlapped' \/ OneAtATime'
    BY <1>3, OverlapStep
  <2>2. OneAtATime' => failed' \/ Repair'
    BY <1>3, RepairStep DEF RInv
  <2> QED
    BY <1>1, <2>1, <2>2 DEF RInv
<1> QED
  BY <1>2, <1>3 DEF RInv

\* What is proved of the parts gives what the steps need.
LEMMA ContextHolds == Spec => []Context
<1>1. Rip!Spec => []RipProofs!IInv
  <2>1. RipProofs!Spec => []RipProofs!IInv
    BY RipAssumptionHolds, RipTablesAssumptionHolds, RipProofs!Inductive
  <2>2. Rip!Spec => RipProofs!Spec
    BY RipSame, PTL DEF Rip!Spec, RipProofs!Spec
  <2> QED
    BY <2>1, <2>2, PTL
<1>2. TypeOK /\ RipProofs!IInv => Context
  <2> SUFFICES ASSUME TypeOK, RipProofs!IInv
               PROVE  Context
    OBVIOUS
  <2>1. LearnedTable(learned) /\ triggers \in Nat
    <3>1. \E K \in SUBSET WireKey : learned \in [K -> LearnedRoute]
      BY DEF TypeOK, Rip!TypeOK, Rip!WireKey, Rip!LearnedRoute, WireKey, LearnedRoute
    <3>2. triggers \in 0..MaxTriggers
      BY DEF TypeOK, Rip!TypeOK
    <3> QED
      BY <3>1, <3>2, NodeAssumption DEF LearnedTable, NodeAssumption
  <2>2. \A k \in DOMAIN redistributed : redistributed[k].source # "RIP1"
    BY RipTablesAssumption DEF RipProofs!IInv, RipProofs!RedistForeign, RipTablesAssumption
  <2> QED
    BY <2>1, <2>2 DEF Context, TypeOK, JointTypeOK
<1> QED
  BY <1>1, <1>2, TypeCorrect, ImplementsRip, PTL

\* With housekeeping's trigger enabled, whatever the neighbours and the operators do: until a
\* call fails or two overlap, a RIP route in the control plane's RIB is one that RIP still
\* has, or a call is outstanding that will remove it.
THEOREM DeadRoutesAlwaysAwaitRepair ==
  ASSUME TriggerRedistribution
  PROVE  Spec => []DeadRoutesAwaitRepair
<1>1. Init => RInv
  BY RInvInit
<1>2. Context /\ Context' /\ RInv /\ [Next]_vars => RInv'
  BY RInvStep
<1>3. Context /\ RInv => DeadRoutesAwaitRepair
  BY DEF Context, RInv, Repair, DeadRoutesAwaitRepair, RipRoutes, RipKeys, Known
<1> QED
  BY <1>1, <1>2, <1>3, ContextHolds, PTL DEF Spec

=============================================================================
