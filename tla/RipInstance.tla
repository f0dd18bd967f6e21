----------------------------- MODULE RipInstance -----------------------------
(***************************************************************************)
(* One RIPv1 instance: the classes RP_RIP1_Interface and RP_RIP1 of        *)
(* src/rp_rip1/main.py with the three RIP1_RIB tables they keep, in an     *)
(* open environment.  Neighbours broadcast responses and requests, the     *)
(* control plane posts redistribute_in bodies, time passes.                *)
(*                                                                         *)
(* The service is one asyncio event loop.  No handler suspends between its *)
(* first and its last statement: the asyncio.Lock guards sections without  *)
(* an await in them, so it is never contended and acquiring it does not    *)
(* yield.  Every handler is therefore one atomic action.                   *)
(***************************************************************************)
EXTENDS RipTables

CONSTANTS
  LocalIp,                \* ForwardingPlane.get_local_ip()
  RejectOwnMessages,      \* reject_own_messages
  TriggerRedistribution,  \* trigger_redistribution
  Packet,                 \* response packets the environment may deliver
  Offer,                  \* redistribute_in bodies the control plane may post
  CpAnswers,              \* no triggered redistribute call is lost
  MaxTriggers             \* bound: redistribute tasks outstanding at once

ASSUME RipAssumption ==
  /\ LocalIp \in Hop
  /\ {RejectOwnMessages, TriggerRedistribution, CpAnswers} \subseteq BOOLEAN
  /\ Packet \subseteq [src : Hop, rtes : SUBSET Rte]
  /\ Offer \subseteq SUBSET CpRoute
  /\ MaxTriggers \in Nat

VARIABLES
  learned,        \* _learned_routes: wire key -> [hop, metric, age]
  redistributed,  \* _redistributed_routes: key -> [metric, source]
  rib,            \* _rib: key -> [metric, source]
  triggers,       \* redistribute calls to the control plane not answered yet
  sent,           \* content of the last response sent: network -> metric
  posted          \* history: body of the last redistribute_in call

vars == <<learned, redistributed, rib, triggers, sent, posted>>

\* Slip for handle_udp_bytes: the answer is put together before refresh_rib ran.
AnswersBeforeRefresh(p, before, after) == IF Poisons(p) THEN Responses(before) ELSE {sent}

\* A packet with a poisoned route is answered with a response, after refresh_rib.
Answers(p, before, after) == IF Poisons(p) THEN Responses(after) ELSE {sent}

\* Slip for create_task(self._cp.redistribute(...)): the call is never made.
NeverTriggers == UNCHANGED triggers

\* asyncio.create_task(self._cp.redistribute(self.cp_id)), where it is enabled.
TriggersRedistribution ==
  IF TriggerRedistribution
  THEN triggers < MaxTriggers /\ triggers' = triggers + 1
  ELSE UNCHANGED triggers

-----------------------------------------------------------------------------
Init ==
  /\ learned = EmptyTable
  /\ redistributed = EmptyTable
  /\ rib = EmptyTable
  /\ triggers = 0
  /\ sent = EmptyTable
  /\ posted = {}

\* send_response: the periodic advertisement, the sendResponse endpoint, and the
\* answer to a neighbour's request.
SendResponse ==
  /\ sent' \in Responses(rib)
  /\ UNCHANGED <<learned, redistributed, rib, triggers, posted>>

\* handle_udp_bytes for a RESPONSE: learn, refresh the RIB, trigger the control
\* plane, and answer a poisoned route with a response of its own.
HandleResponse(p) ==
  /\ ~(p.src = LocalIp /\ RejectOwnMessages)
  /\ ReceivedRoutes(p) # {}
  /\ \E new \in TablesOf(ReceivedRoutes(p)) : learned' = Learn(learned, new)
  /\ rib' \in Refreshes(redistributed, learned')
  /\ TriggersRedistribution
  /\ sent' \in Answers(p, rib, rib')
  /\ UNCHANGED <<redistributed, posted>>

\* redistribute_in with a body whose accepted routes all have a classful network.
InstallOffer(offer) ==
  /\ Unclassful(offer) = {}
  /\ redistributed' \in Installed(redistributed, Accepted(offer))
  /\ rib' \in Refreshes(redistributed', learned)
  /\ posted' = offer
  /\ UNCHANGED <<learned, sent>>

\* redistribute_in when a route raises: the routes before it in the body are in
\* the new table, the exception leaves the handler, _rib is not refreshed.
FailOffer(offer) ==
  /\ Unclassful(offer) # {}
  /\ \E before \in SUBSET (Accepted(offer) \ Unclassful(offer)) :
       redistributed' \in Installed(redistributed, before)
  /\ posted' = offer
  /\ UNCHANGED <<learned, rib, sent>>

RedistributeIn(offer) == InstallOffer(offer) \/ FailOffer(offer)

\* A call the operator or another instance made the control plane make.
OperatorRedistribution(offer) == RedistributeIn(offer) /\ UNCHANGED triggers

\* Slip for redistribute_in: refresh_rib(route_change=True).
RedistributionTriggersAgain(offer) ==
  /\ triggers > 0
  /\ RedistributeIn(offer)
  /\ UNCHANGED triggers

\* The call the control plane makes in answer to a trigger of this instance.
TriggeredRedistribution(offer) ==
  /\ triggers > 0
  /\ RedistributeIn(offer)
  /\ triggers' = triggers - 1

\* The control plane does not answer: the task ends in an exception nobody reads.
LoseTrigger ==
  /\ ~CpAnswers
  /\ triggers > 0
  /\ triggers' = triggers - 1
  /\ UNCHANGED <<learned, redistributed, rib, sent, posted>>

\* The routes/rib/refresh endpoint.
RefreshRib ==
  /\ rib' \in Refreshes(redistributed, learned)
  /\ UNCHANGED <<learned, redistributed, triggers, sent, posted>>

\* One round of check_routes that changes a route.  It calls refresh_rib without
\* awaiting it: the coroutine never runs and _rib keeps what it had.
CheckRoutes ==
  /\ learned' = CheckedRoutes(learned)
  /\ learned' # learned
  /\ TriggersRedistribution
  /\ UNCHANGED <<redistributed, rib, sent, posted>>

Tick ==
  /\ learned' = Aged(learned)
  /\ UNCHANGED <<redistributed, rib, triggers, sent, posted>>

Next ==
  \/ SendResponse
  \/ \E p \in Packet : HandleResponse(p)
  \/ \E offer \in Offer : OperatorRedistribution(offer)
  \/ \E offer \in Offer : TriggeredRedistribution(offer)
  \/ LoseTrigger
  \/ RefreshRib
  \/ CheckRoutes
  \/ Tick

Spec == Init /\ [][Next]_vars

\* The event loop keeps running check_routes, time passes, and a call the instance
\* made comes to an end: the control plane answers it, or it is lost.  Neighbours
\* and operators owe nothing.
FairSpec ==
  /\ Spec
  /\ WF_vars(Tick)
  /\ WF_vars(CheckRoutes)
  /\ WF_vars(LoseTrigger \/ \E offer \in Offer : TriggeredRedistribution(offer))

-----------------------------------------------------------------------------
(* Properties.                                                             *)

\* Every table holds routes of its own kind, under keys of its own kind.
TypeOK ==
  /\ \E K \in SUBSET WireKey : learned \in [K -> LearnedRoute]
  /\ \E K \in SUBSET Key : redistributed \in [K -> RibRoute]
  /\ \E K \in SUBSET Key : rib \in [K -> RibRoute]
  /\ triggers \in 0..MaxTriggers
  /\ \E N \in SUBSET Net : sent \in [N -> 0..MaxMetric]
  /\ posted \in Offer \cup {{}}

Expired(r) == r.age > RouteTimeout /\ r.metric = MaxMetric

\* Next hops some packet names itself instead of leaving 0.0.0.0 in the field.
\* Two learned routes with one RIB key exist only for these.
NamedHop == {rte.next_hop : rte \in UNION {p.rtes : p \in Packet}}

\* _rib is rebuilt from the two other tables at some of the steps that change
\* them and not at others.  Whatever the order of packets, redistribution,
\* housekeeping and failures: a learned route always has a RIB entry, and where
\* that entry is a RIP route its metric is the learned one, unless housekeeping
\* has marked the route down since (it never refreshes the RIB).
RibTracksLearned ==
  \A k \in DOMAIN learned :
    /\ RibKey(learned, k) \in DOMAIN rib
    /\ LET entry == rib[RibKey(learned, k)] IN
       \/ entry.source # "RIP1"
       \/ learned[k].hop \in NamedHop
       \/ entry.metric = learned[k].metric
       \/ Expired(learned[k])

\* The routes of other sources in the RIB.
Foreign == {<<k, rib[k]>> : k \in {q \in DOMAIN rib : rib[q].source # "RIP1"}}

\* Redistribution is stateless: the control plane sends the whole set each time.
\* After a body that could be installed the RIB holds, whatever was redistributed
\* before and whatever happened since, exactly the routes of that body which are
\* configured for redistribution: none of an older set, and none missing.
ReplacesOldSet ==
  Unclassful(posted) = {} =>
    /\ Foreign \subseteq {RedistributedPair(r) : r \in Accepted(posted)}
    /\ \A r \in Accepted(posted) : \E f \in Foreign : f[1] = RedistributedPair(r)[1]

\* A poisoned route is passed on in the answer to the packet it came in: its
\* network is advertised at infinity, or else with the metric of a route that
\* the RIB still has once the packet is processed, never of one it had before.
PoisonPassedOn ==
  [][\A p \in Packet : HandleResponse(p) =>
       \A k \in DOMAIN learned' :
         <<k, learned'[k]>> \in ReceivedRoutes(p) /\ learned'[k].metric = MaxMetric =>
           /\ k[1] \in DOMAIN sent'
           /\ \/ sent'[k[1]] = MaxMetric
              \/ \E q \in DOMAIN rib' :
                   q[1] = k[1] /\ sent'[k[1]] = rib'[q].metric + 1]_vars

\* From some point on no neighbour is heard any more.
NeighboursSilent == <>[][~ \E p \in Packet : HandleResponse(p)]_vars

\* Once the neighbours are silent everything learned from them is forgotten,
\* whatever becomes of the calls and of the bodies posted.
ForgetsLearned == NeighboursSilent => <>[](learned = EmptyTable)

\* ARCHITECTURE.md: redistribution sends only valid, good routes.  A route that
\* redistribute_out may offer is one RIP still holds and has not marked down.
OffersOnlyGoodRoutes ==
  \A q \in Offerable(rib) :
    \E k \in DOMAIN learned : RibKey(learned, k) = q /\ learned[k].metric < MaxMetric

\* A route is identified by its prefix and its next hop (intrinsic_fields): a
\* packet of one router, which leaves itself the next hop, updates the routes
\* through that router and leaves those through other routers alone.
OtherRoutersKept ==
  [][\A p \in Packet :
       HandleResponse(p) /\ (\A rte \in p.rtes : rte.next_hop = Unspecified) =>
         \A k \in DOMAIN learned :
           learned[k].hop # p.src => \E j \in DOMAIN learned' : learned'[j] = learned[k]]_vars

=============================================================================
