-------------------------------- MODULE Node --------------------------------
(***************************************************************************)
(* A router: a ControlPlane instance and the RIP instance it made, joined. *)
(* What ControlPlane leaves open, the answers of redistribute_out, is      *)
(* computed from the RIB of RipInstance; what RipInstance leaves open, the *)
(* redistribute_in bodies, are those that the control plane posts.  Every  *)
(* action is a step of one of the two, or of both.                         *)
(*                                                                         *)
(* A change of a learned route makes RIP call the control plane, which     *)
(* asks RIP for its routes and posts a body back: the triggers of          *)
(* RipInstance are calls that threads of ControlPlane serve.  RIP handles  *)
(* the body before the control plane has the answer to its post.           *)
(*                                                                         *)
(* The SLA instance is the part of the control plane's environment that    *)
(* SlaInstance describes: it calls nobody when its routes change.          *)
(***************************************************************************)
EXTENDS RipTables, FiniteSets

CONSTANTS
  LocalIp, RejectOwnMessages, TriggerRedistribution,  \* of RipInstance
  Packet,     \* response packets of the neighbours
  Thread, Orphaned, Static, CallsFail,                \* of ControlPlane
  SlaOffers,    \* what the SLA instance may answer
  Operators,    \* bound: threads in which calls of operators are served
  MaxTriggers   \* bound: redistribute tasks outstanding at once

VARIABLES
  table, offered, posted, call, pc, stage, held, snapshot,  \* of ControlPlane
  seen, steady, alone,                                      \* its histories
  learned, redistributed, rib, triggers, sent,              \* of RipInstance
  given,    \* the body that the RIP instance was last given
  cause,    \* thread -> who made the call it serves
  handled,  \* thread -> RIP has handled the body it posts
  failed,     \* history: some call has failed
  overlapped  \* history: two calls have been in progress at one time

\* A route as redistribute_out hands it to the control plane.
RipRoute(k) == [prefix |-> k[1], next_hop |-> k[2], source |-> "RIP1"]

Enabled == {"SLA", "RIP1"}

Offers == [p \in Enabled |->
  IF p = "SLA" THEN SlaOffers \cup {{}} ELSE SUBSET {RipRoute(k) : k \in Key}]

\* The routes the control plane may come to hold.
Route == Static \cup (UNION Offers["SLA"]) \cup (UNION Offers["RIP1"])

ASSUME NodeAssumption ==
  /\ LocalIp \in Hop
  /\ {RejectOwnMessages, TriggerRedistribution, CallsFail} \subseteq BOOLEAN
  /\ Packet \subseteq [src : Hop, rtes : SUBSET Rte]
  /\ Operators \subseteq Thread
  /\ MaxTriggers \in Nat
  /\ Net \subseteq Prefix
  /\ Static \subseteq CpRoute
  /\ SlaOffers \subseteq SUBSET CpRoute
  /\ \A r \in Static \cup UNION SlaOffers : r.source # "RIP1" /\ Classful[r.prefix] \in Net
  /\ \A routes \in SUBSET Route : Orphaned # routes

Cp == INSTANCE ControlPlane WITH Calls <- {"redistribute"}

Rip == INSTANCE RipInstance WITH
  Offer <- SUBSET Route, CpAnswers <- ~CallsFail, posted <- given

cpVars == <<table, offered, posted, call, pc, stage, held, snapshot, seen, steady, alone>>
ripVars == <<learned, redistributed, rib, triggers, sent, given>>
joint == <<cause, handled, failed, overlapped>>
vars == <<cpVars, ripVars, joint>>

-----------------------------------------------------------------------------
\* What redistribute_out may answer: per network a best route learned by RIP and
\* not at infinity, as the RIB has it.
RipOutputs(t) ==
  {{RipRoute(k) : k \in S} : S \in BestSelections([k \in Offerable(t) |-> t[k].metric])}

\* The RIB was rebuilt, and with it what RIP would answer.
RipOffers == Cp!OfferChanges("RIP1") /\ offered'["RIP1"] \in RipOutputs(rib')

\* Threads serving a call that RIP has made.
Serving == {t \in Thread : pc[t] # "idle" /\ cause[t] = "RIP1" /\ ~handled[t]}

-----------------------------------------------------------------------------
Init ==
  /\ Cp!Init
  /\ Rip!Init
  /\ cause = [t \in Thread |-> "operator"]
  /\ handled = [t \in Thread |-> FALSE]
  /\ failed = FALSE
  /\ overlapped = FALSE

\* The RIP instance on its own.
HandleResponse(p) == Rip!HandleResponse(p) /\ RipOffers /\ UNCHANGED joint

RefreshRib == Rip!RefreshRib /\ RipOffers /\ UNCHANGED joint

SendResponse == Rip!SendResponse /\ UNCHANGED <<cpVars, joint>>

CheckRoutes == Rip!CheckRoutes /\ UNCHANGED <<cpVars, joint>>

\* A tick is many rounds of check_routes: it comes when they have nothing left to do.
Tick ==
  /\ CheckedRoutes(learned) = learned
  /\ Rip!Tick
  /\ UNCHANGED <<cpVars, joint>>

\* The redistribute endpoint, called by an operator or by RIP.
OperatorCall(t) ==
  /\ t \in Operators
  /\ Cp!Begin(t, "redistribute")
  /\ cause' = [cause EXCEPT ![t] = "operator"]
  /\ overlapped' = (overlapped \/ ~Cp!Idle)
  /\ UNCHANGED <<ripVars, handled, failed>>

TriggeredCall(t) ==
  /\ triggers > Cardinality(Serving)
  /\ Cp!Begin(t, "redistribute")
  /\ cause' = [cause EXCEPT ![t] = "RIP1"]
  /\ overlapped' = (overlapped \/ ~Cp!Idle)
  /\ UNCHANGED <<ripVars, handled, failed>>

\* redistribute up to the post.
Collect(t) ==
  /\ Cp!ImportRead(t) \/ Cp!ImportWrite(t) \/ Cp!Fetch(t) \/ Cp!Export(t)
  /\ UNCHANGED <<ripVars, joint>>

\* The RIP instance gets the body and installs it.
RipHandlesBody(t) ==
  /\ pc[t] = "post" /\ ~handled[t]
  /\ IF cause[t] = "RIP1" THEN Rip!TriggeredRedistribution(held[t])
                          ELSE Rip!OperatorRedistribution(held[t])
  /\ RipOffers
  /\ handled' = [handled EXCEPT ![t] = TRUE]
  /\ UNCHANGED <<cause, failed, overlapped>>

\* The control plane has RIP's answer.
EndCall(t) ==
  /\ handled[t]
  /\ Cp!Post(t)
  /\ handled' = [handled EXCEPT ![t] = FALSE]
  /\ UNCHANGED <<ripVars, cause, failed, overlapped>>

\* A call that ends in an exception answers the trigger it came from with an error.
CallFails(t) ==
  /\ Cp!FetchFails(t) \/ Cp!PostFails(t)
  /\ IF t \in Serving THEN Rip!LoseTrigger ELSE UNCHANGED ripVars
  /\ handled' = [handled EXCEPT ![t] = FALSE]
  /\ failed' = TRUE
  /\ UNCHANGED <<cause, overlapped>>

\* A call that RIP makes does not get to the control plane: the connection is refused, or
\* the instance is not registered yet and the answer is 404.
LoseCall ==
  /\ triggers > Cardinality(Serving)
  /\ Rip!LoseTrigger
  /\ failed' = TRUE
  /\ UNCHANGED <<cpVars, cause, handled, overlapped>>

\* Bound: SLA routes come up, they do not go down again.
SlaChanges ==
  /\ Cp!OfferChanges("SLA")
  /\ offered'["SLA"] \in SlaOffers
  /\ UNCHANGED <<ripVars, joint>>

Next ==
  \/ \E p \in Packet : HandleResponse(p)
  \/ RefreshRib \/ SendResponse \/ CheckRoutes \/ Tick
  \/ \E t \in Thread :
       \/ OperatorCall(t) \/ TriggeredCall(t)
       \/ Collect(t) \/ RipHandlesBody(t) \/ EndCall(t) \/ CallFails(t)
  \/ LoseCall
  \/ SlaChanges

Spec == Init /\ [][Next]_vars

\* Calls that have begun are carried on, time passes and housekeeping runs.  The pool
\* serves waiting calls in the order they came, so that those of operators do not
\* keep out those of RIP for ever.  Neighbours, operators and SLA routes owe nothing.
FairSpec ==
  /\ Spec
  /\ \A t \in Thread : WF_vars(Collect(t) \/ RipHandlesBody(t) \/ EndCall(t))
  /\ SF_vars(\E t \in Thread : TriggeredCall(t))
  /\ WF_vars(CheckRoutes)
  /\ WF_vars(Tick)

-----------------------------------------------------------------------------
(* Properties.                                                             *)

\* The routes RIP hands over, and the bodies it gets back, are routes of the control
\* plane: with a next hop of their own, never the 0.0.0.0 that was on the wire.
TypeOK ==
  /\ Cp!TypeOK
  /\ Rip!TypeOK
  /\ cause \in [Thread -> {"operator", "RIP1"}]
  /\ handled \in [Thread -> BOOLEAN]
  /\ {failed, overlapped} \subseteq BOOLEAN

RipRoutes == {k \in Key : RipRoute(k) \in table}

\* RIP's housekeeping leaves a dead route in the RIB, and the call it triggers fetches
\* the route from there before it makes RIP rebuild the RIB.  As long as no call has failed
\* and no two have overlapped: a RIP route in the control plane's RIB is one RIP still has,
\* or a call is outstanding that will remove it.  (Of two calls that overlap, one may fetch
\* a dead route, be passed by the two calls that remove it, and put it back to stay.)
DeadRoutesAwaitRepair ==
  \/ failed \/ overlapped
  \/ triggers > 0
  \/ RipRoutes \subseteq {RibKey(learned, k) : k \in DOMAIN learned}

\* From the protocols and the configuration to the tables that RIP advertises from, across
\* two services, while routes come and go and RIP learns: when a call that no other
\* overlapped ends, the routes of other sources in RIP's RIB include the static routes and
\* all that were on offer throughout, and none that was not on offer at some time since
\* the call began.  What RIP itself has learned does not stand in their way.
RedistributionArrives ==
  [][\A t \in Thread : EndCall(t) /\ alone[t] =>
       /\ \A r \in Accepted(Static \cup steady) :
            \E f \in Rip!Foreign : f[1] = RedistributedPair(r)[1]
       /\ Rip!Foreign \subseteq {RedistributedPair(r) : r \in Accepted(Static \cup seen)}]_vars

NeighboursSilent == <>[][~ \E p \in Packet : HandleResponse(p)]_vars
OperatorsSilent == <>[][~ \E t \in Thread : OperatorCall(t)]_vars
NoMoreFailures == <>[][~ (LoseCall \/ \E t \in Thread : CallFails(t))]_vars
CallsKeepComing == []<><<\E t \in Thread : EndCall(t)>>_vars
OneAtATime == \A t, u \in Thread : pc[t] # "idle" /\ pc[u] # "idle" => t = u

\* ... and does remove it.  Once the neighbours are silent, no route of theirs stays in the
\* control plane's RIB: of itself, if no call fails and no two overlap, and otherwise,
\* whatever failed and however calls overlap all along, if only calls go on being made.
DeadRoutesLeave ==
  NeighboursSilent /\ ([](~failed /\ ~overlapped) \/ CallsKeepComing) => <>[](RipRoutes = {})

\* Whatever failed and overlapped before: a route that RIP goes on offering and the
\* neighbours go on announcing is in the control plane's RIB again and again, once calls
\* no longer overlap.  (While they do, each may come to replace the RIB before the import
\* of the route that the other has fetched, and the route is never in it.)
GoodRoutesArrive ==
  /\ NoMoreFailures /\ <>[]OneAtATime
  /\ []<><<\E p \in Packet : HandleResponse(p)>>_vars
  => \A k \in Key : <>[](RipRoute(k) \in offered["RIP1"]) => []<>(k \in RipRoutes)

\* RIP's housekeeping forgets a dead route but never refreshes the RIB: the control plane,
\* told of the change, answers with a body, and installing that does.  Once the neighbours
\* are silent, no route of theirs stays in RIP's RIB, if no call fails or if calls go on
\* being made: nothing else repeats a call that was lost.
RibForgetsLearned ==
  NeighboursSilent /\ ([](~failed) \/ CallsKeepComing)
    => <>[](\A k \in DOMAIN rib : rib[k].source # "RIP1")

\* RIP calls the control plane, which calls RIP, which rebuilds its RIB: with nobody
\* else at work this comes to an end.
LoopEnds ==
  NeighboursSilent /\ OperatorsSilent => <>[](triggers = 0 /\ \A t \in Thread : pc[t] = "idle")

\* What RipInstance assumes of the control plane: a trigger that stays outstanding is
\* answered with a body, or lost with the call that it made.
AnswersRip ==
  WF_ripVars(Rip!LoseTrigger \/ \E body \in SUBSET Route : Rip!TriggeredRedistribution(body))

=============================================================================
