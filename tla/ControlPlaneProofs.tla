------------------------- MODULE ControlPlaneProofs -------------------------
(***************************************************************************)
(* Proofs about ControlPlane, for any number of threads, any routes and    *)
(* any offers of the protocols.                                            *)
(***************************************************************************)
EXTENDS ControlPlane, TLAPS

\* What a protocol offers is among the offered routes.
LEMMA OfferedMember ==
  ASSUME NEW o, NEW p \in Enabled
  PROVE  o[p] \subseteq Offered(o)
BY DEF Offered

\* Whatever the protocols offer is a set of routes.
LEMMA OfferedType ==
  ASSUME offered \in [Protocol -> SUBSET Route]
  PROVE  Offered(offered) \in SUBSET Route
BY ControlPlaneAssumption DEF Offered, ControlPlaneAssumption

\* All is a set of routes at the start.
LEMMA TypeInit == Init => TypeOK
BY ControlPlaneAssumption DEF Init, TypeOK, ControlPlaneAssumption

\* One step of a call keeps the types.
LEMMA TypeOfStep ==
  ASSUME TypeOK, NEW t \in Thread, Step(t)
  PROVE  TypeOK'
<1> USE DEF TypeOK, local, history
<1>1. CASE ImportRead(t)
  BY <1>1 DEF ImportRead
<1>2. CASE ImportWrite(t)
  <2>1. table' \in SUBSET Route
    BY <1>2 DEF ImportWrite, UnionOf
  <2>2. pc' \in [Thread -> {"idle", "read", "write", "fetch", "export", "post"}]
    BY <1>2 DEF ImportWrite, StepAfterImport
  <2>3. StageAfter(stage[t]) \in {"SLA", "RIP1", "done"}
    BY DEF StageAfter
  <2> QED
    BY <1>2, <2>1, <2>2, <2>3 DEF ImportWrite
<1>3. CASE Fetch(t)
  BY <1>3, ControlPlaneAssumption DEF Fetch, ControlPlaneAssumption
<1>4. CASE FetchFails(t)
  BY <1>4 DEF FetchFails
<1>5. CASE Export(t)
  BY <1>5 DEF Export
<1>6. CASE Post(t)
  BY <1>6 DEF Post
<1>7. CASE PostFails(t)
  BY <1>7 DEF PostFails
<1> QED
  BY <1>1, <1>2, <1>3, <1>4, <1>5, <1>6, <1>7 DEF Step

\* So do the arrival of a call and the environment.
LEMMA TypeStep == TypeOK /\ [Next]_vars => TypeOK'
<1> SUFFICES ASSUME TypeOK, [Next]_vars
             PROVE  TypeOK'
  OBVIOUS
<1>0. Offered(offered) \in SUBSET Route
  BY OfferedType DEF TypeOK
<1>1. ASSUME NEW t \in Thread, NEW c \in Calls, Begin(t, c)
      PROVE  TypeOK'
  BY <1>0, <1>1, ControlPlaneAssumption DEF TypeOK, Begin, EmptiedTable, ControlPlaneAssumption
<1>2. ASSUME NEW t \in Thread, Step(t)
      PROVE  TypeOK'
  BY <1>2, TypeOfStep
<1>3. ASSUME NEW p \in Protocol, OfferChanges(p)
      PROVE  TypeOK'
  <2>1. offered' \in [Protocol -> SUBSET Route]
    <3>1. PICK o \in Offers[p] : offered' = [offered EXCEPT ![p] = o]
      BY <1>3 DEF OfferChanges
    <3>2. o \in SUBSET Route
      BY ControlPlaneAssumption DEF ControlPlaneAssumption
    <3> QED
      BY <3>1, <3>2 DEF TypeOK
  <2>2. Offered(offered') \in SUBSET Route
    BY <2>1, ControlPlaneAssumption DEF Offered, ControlPlaneAssumption
  <2> QED
    BY <1>3, <2>1, <2>2 DEF TypeOK, OfferChanges, local
<1>4. CASE UNCHANGED vars
  BY <1>4 DEF TypeOK, vars, local, history
<1> QED
  BY <1>1, <1>2, <1>3, <1>4 DEF Next

-----------------------------------------------------------------------------
(* Nothing withdrawn comes back.  The RIB and every set of routes a call    *)
(* carries, its snapshot included, stay below what was seen; a snapshot     *)
(* counts only until it is written, the other sets only during the call.    *)

Current ==
  /\ Offered(offered) \subseteq seen
  /\ table \subseteq Static \cup seen
  /\ \A t \in Thread : pc[t] # "idle" => held[t] \subseteq Static \cup seen
  /\ \A t \in Thread : pc[t] = "write" =>
       snapshot[t] = Orphaned \/ snapshot[t] \subseteq Static \cup seen

\* At the start the RIB has the static routes, and no call carries any.
LEMMA CurrentInit == Init => Current
<1> SUFFICES ASSUME Init
             PROVE  Current
  OBVIOUS
<1>1. \A p \in Enabled : offered[p] = {}
  BY ControlPlaneAssumption DEF Init, ControlPlaneAssumption
<1>2. Offered(offered) \subseteq seen
  BY <1>1 DEF Offered
<1> QED
  BY <1>2 DEF Init, Current

\* A call that begins starts from the static routes; one that begins alone starts seen anew,
\* with no other call to carry older routes.
LEMMA CurrentOfBegin ==
  ASSUME TypeOK, Current, NEW t \in Thread, NEW c \in Calls, Begin(t, c)
  PROVE  Current'
<1> USE DEF TypeOK
<1>1. Offered(offered)' \subseteq seen' /\ table' \subseteq Static \cup seen'
  BY DEF Begin, Current, Offered, EmptiedTable
<1>2. ASSUME NEW u \in Thread, pc'[u] # "idle"
      PROVE  held'[u] \subseteq Static \cup seen'
  BY <1>2 DEF Begin, Current, Idle
<1>3. ASSUME NEW u \in Thread, pc'[u] = "write"
      PROVE  snapshot'[u] = Orphaned
  BY <1>3 DEF Begin
<1> QED
  BY <1>1, <1>2, <1>3 DEF Current

\* A step of a call carries on what the call had, or fetches what is on offer now.
LEMMA CurrentOfStep ==
  ASSUME TypeOK, Current, NEW t \in Thread, Step(t)
  PROVE  Current'
<1> USE DEF TypeOK, history
<1>1. CASE ImportRead(t)
  BY <1>1 DEF ImportRead, Current, Offered
<1>2. CASE ImportWrite(t)
  <2>1. table' \subseteq Static \cup seen
    BY <1>2 DEF ImportWrite, Current, UnionOf
  <2>2. UNCHANGED <<offered, seen>>
    BY <1>2 DEF ImportWrite
  <2>3. \A u \in Thread : held'[u] = IF u = t THEN {} ELSE held[u]
    BY <1>2 DEF ImportWrite
  <2>4. \A u \in Thread : snapshot'[u] = IF u = t THEN {} ELSE snapshot[u]
    BY <1>2 DEF ImportWrite
  <2>5. \A u \in Thread \ {t} : pc'[u] = pc[u]
    BY <1>2 DEF ImportWrite
  <2> QED
    BY <2>1, <2>2, <2>3, <2>4, <2>5 DEF Current, Offered
<1>3. CASE Fetch(t)
  <2>1. held'[t] \subseteq Offered(offered)
    BY <1>3, OfferedMember DEF Fetch
  <2> QED
    BY <1>3, <2>1 DEF Fetch, Current, Offered
<1>4. CASE FetchFails(t)
  BY <1>4 DEF FetchFails, Current, Offered
<1>5. CASE Export(t)
  BY <1>5 DEF Export, Current, Offered
<1>6. CASE Post(t)
  BY <1>6 DEF Post, Current, Offered
<1>7. CASE PostFails(t)
  BY <1>7 DEF PostFails, Current, Offered
<1> QED
  BY <1>1, <1>2, <1>3, <1>4, <1>5, <1>6, <1>7 DEF Step

\* Every step keeps what calls carry within what was seen.
LEMMA CurrentStep == TypeOK /\ Current /\ [Next]_vars => Current'
<1> SUFFICES ASSUME TypeOK, Current, [Next]_vars
             PROVE  Current'
  OBVIOUS
<1>1. ASSUME NEW p \in Protocol, OfferChanges(p)
      PROVE  Current'
  BY <1>1 DEF OfferChanges, Current, local, Offered
<1>2. CASE UNCHANGED vars
  BY <1>2 DEF vars, local, history, Current, Offered
<1> QED
  BY <1>1, <1>2, CurrentOfBegin, CurrentOfStep DEF Next

\* Types of the control plane's state.
THEOREM TypeCorrect == Spec => []TypeOK
<1> QED
  BY TypeInit, TypeStep, PTL DEF Spec

\* A route no protocol has offered since a call last began alone is neither in the
\* RIB nor on its way to RIP, with any number of calls at any of their steps.
THEOREM NeverOutdated == Spec => []NothingOutdated
<1>1. Spec => [](TypeOK /\ Current)
  BY TypeInit, TypeStep, CurrentInit, CurrentStep, PTL DEF Spec
<1>2. Current => NothingOutdated
  BY DEF Current, NothingOutdated
<1> QED
  BY <1>1, <1>2, PTL

-----------------------------------------------------------------------------
(* A call that nothing overlaps.  It finds the table as it left it, so that *)
(* the routes add up; a route that is on offer throughout is on offer from  *)
(* the one protocol it belongs to when the call asks that protocol.         *)

\* What of the steady routes a source brings.
Brings(s) == IF s = "static" THEN Static ELSE {r \in steady : s \in Enabled /\ r \in UNION Offers[s]}

\* What the call has imported when it comes to a source.
Imported(s) ==
  CASE s = "static" -> {}
    [] s = "SLA" -> Static
    [] s = "RIP1" -> Static \cup Brings("SLA")
    [] OTHER -> Static \cup Brings("SLA") \cup Brings("RIP1")

\* A call in progress that nothing overlapped so far.
Undisturbed(t) == alone[t] /\ pc[t] # "idle"

\* Where that call stands.
OnItsWay(t) ==
  /\ Imported(stage[t]) \subseteq table
  /\ pc[t] \in {"read", "write"} => stage[t] # "done" /\ Brings(stage[t]) \subseteq held[t]
  /\ pc[t] = "write" => snapshot[t] = table
  /\ pc[t] = "fetch" => stage[t] \in Protocol
  /\ pc[t] \in {"export", "post"} => stage[t] = "done"
  /\ pc[t] = "post" => held[t] = table

SteadyOnOffer ==
  /\ \A p \in Protocol : offered[p] \in Offers[p]
  /\ steady \subseteq Offered(offered)

AloneInv ==
  /\ SteadyOnOffer
  /\ \A t \in Thread : Undisturbed(t) =>
       /\ \A u \in Thread \ {t} : pc[u] = "idle"
       /\ OnItsWay(t)

\* A steady route of a protocol is on offer from it now.
LEMMA BringsOffered ==
  ASSUME SteadyOnOffer, NEW p \in Protocol
  PROVE  Brings(p) \subseteq IF p \in Enabled THEN offered[p] ELSE {}
<1> SUFFICES ASSUME NEW r \in steady, p \in Enabled, r \in UNION Offers[p]
             PROVE  r \in offered[p]
  BY DEF Brings, Protocol
<1>1. PICK q \in Enabled : r \in offered[q]
  BY DEF SteadyOnOffer, Offered
<1>2. q \in Protocol /\ r \in UNION Offers[q]
  BY <1>1, ControlPlaneAssumption DEF ControlPlaneAssumption, SteadyOnOffer
<1>3. q = p
  <2>1. ~(r \in UNION Offers["SLA"] /\ r \in UNION Offers["RIP1"])
    BY ControlPlaneAssumption DEF ControlPlaneAssumption
  <2> QED
    BY <1>2, <2>1 DEF Protocol
<1> QED
  BY <1>1, <1>3

\* All the steady routes are brought by one protocol or the other.
LEMMA AllBrought ==
  ASSUME SteadyOnOffer
  PROVE  steady \subseteq Brings("SLA") \cup Brings("RIP1")
<1> SUFFICES ASSUME NEW r \in steady
             PROVE  r \in Brings("SLA") \cup Brings("RIP1")
  OBVIOUS
<1>1. PICK q \in Enabled : r \in offered[q]
  BY DEF SteadyOnOffer, Offered
<1>2. q \in Protocol /\ r \in UNION Offers[q]
  BY <1>1, ControlPlaneAssumption DEF ControlPlaneAssumption, SteadyOnOffer
<1> QED
  BY <1>1, <1>2 DEF Brings, Protocol

\* Importing the routes of a source comes to the next one.
LEMMA ImportedNext ==
  ASSUME NEW s \in {"static", "SLA", "RIP1"}
  PROVE  Imported(StageAfter(s)) = Imported(s) \cup Brings(s)
BY DEF Imported, StageAfter, Brings

\* No call has begun at the start.
LEMMA AloneInit == Init => AloneInv
<1> SUFFICES ASSUME Init
             PROVE  AloneInv
  OBVIOUS
<1>1. SteadyOnOffer
  BY ControlPlaneAssumption DEF Init, SteadyOnOffer, ControlPlaneAssumption, Protocol
<1> QED
  BY <1>1 DEF Init, AloneInv, Undisturbed

\* A call that arrives is alone when no other is in progress, and ends that of others.
LEMMA AloneOfBegin ==
  ASSUME TypeOK, AloneInv, NEW t \in Thread, NEW c \in Calls, Begin(t, c)
  PROVE  AloneInv'
<1> USE DEF TypeOK
<1>1. SteadyOnOffer'
  BY DEF Begin, AloneInv, SteadyOnOffer, Offered
<1>2. ASSUME NEW u \in Thread, Undisturbed(u)'
      PROVE  (\A v \in Thread \ {u} : pc'[v] = "idle") /\ OnItsWay(u)'
  <2>1. u = t /\ Idle
    BY <1>2 DEF Begin, Undisturbed
  <2>2. \A v \in Thread \ {u} : pc'[v] = "idle"
    BY <2>1 DEF Begin, Idle
  <2>3. pc'[u] = "read" /\ stage'[u] = "static" /\ held'[u] = Static
    BY <2>1 DEF Begin
  <2> QED
    BY <2>2, <2>3 DEF OnItsWay, Imported, Brings
<1> QED
  BY <1>1, <1>2 DEF AloneInv

\* A step of the call itself moves it on its way; no other call takes one.
LEMMA AloneOfStep ==
  ASSUME TypeOK, AloneInv, NEW t \in Thread, Step(t)
  PROVE  AloneInv'
<1> USE DEF TypeOK, history
<1>1. UNCHANGED <<offered, history>>
  BY DEF Step, ImportRead, ImportWrite, Fetch, FetchFails, Export, Post, PostFails
<1>2. SteadyOnOffer'
  BY <1>1 DEF AloneInv, SteadyOnOffer, Offered
<1>3. pc[t] # "idle"
  BY DEF Step, ImportRead, ImportWrite, Fetch, FetchFails, Export, Post, PostFails
<1>4. \A u \in Thread \ {t} : pc'[u] = pc[u]
  BY DEF Step, ImportRead, ImportWrite, Fetch, FetchFails, Export, Post, PostFails
<1>5. ASSUME NEW u \in Thread, Undisturbed(u)'
      PROVE  u = t /\ Undisturbed(t) /\ \A v \in Thread \ {u} : pc'[v] = "idle"
  <2>1. u # t => Undisturbed(u)
    BY <1>1, <1>4, <1>5 DEF Undisturbed
  <2>2. u = t
    BY <1>3, <2>1 DEF AloneInv
  <2>3. Undisturbed(t)
    BY <1>1, <1>3, <1>5, <2>2 DEF Undisturbed
  <2> QED
    BY <1>4, <2>2, <2>3 DEF AloneInv
<1>6. \A s : Brings(s)' = Brings(s) /\ Imported(s)' = Imported(s)
  BY <1>1 DEF Brings, Imported
<1>7. ASSUME Undisturbed(t), pc'[t] # "idle"
      PROVE  OnItsWay(t)'
  <2>1. OnItsWay(t)
    BY <1>7 DEF AloneInv
  <2>2. CASE ImportRead(t)
    BY <1>6, <2>1, <2>2 DEF ImportRead, OnItsWay
  <2>3. CASE ImportWrite(t)
    <3>1. /\ stage[t] \in {"static", "SLA", "RIP1"} /\ snapshot[t] = table
          /\ Imported(stage[t]) \subseteq table /\ Brings(stage[t]) \subseteq held[t]
      BY <2>1, <2>3 DEF ImportWrite, OnItsWay
    <3>2. table' = table \cup held[t]
      BY <2>3, <3>1, ControlPlaneAssumption DEF ImportWrite, UnionOf, ControlPlaneAssumption
    <3>3. stage'[t] = StageAfter(stage[t])
      BY <2>3 DEF ImportWrite
    <3>4. Imported(stage'[t]) \subseteq table'
      BY <3>1, <3>2, <3>3, ImportedNext
    <3>5. pc'[t] \in {"fetch", "export"}
      BY <1>7, <2>3 DEF ImportWrite, StepAfterImport
    <3>6. pc'[t] = "fetch" <=> stage'[t] # "done"
      BY <1>7, <2>3, <3>3 DEF ImportWrite, StepAfterImport
    <3>7. stage'[t] \in {"SLA", "RIP1", "done"}
      BY <3>3 DEF StageAfter
    <3> QED
      BY <1>6, <3>4, <3>5, <3>6, <3>7 DEF OnItsWay, Protocol
  <2>4. CASE Fetch(t)
    <3>1. stage[t] \in Protocol
      BY <2>1, <2>4 DEF Fetch, OnItsWay
    <3>2. Brings(stage[t]) \subseteq held'[t]
      BY <2>4, <3>1, BringsOffered DEF Fetch, AloneInv
    <3> QED
      BY <1>6, <2>1, <2>4, <3>1, <3>2 DEF Fetch, OnItsWay, Protocol
  <2>5. CASE FetchFails(t)
    BY <1>7, <2>5 DEF FetchFails
  <2>6. CASE Export(t)
    BY <1>6, <2>1, <2>6 DEF Export, OnItsWay
  <2>7. CASE Post(t)
    BY <1>7, <2>7 DEF Post
  <2>8. CASE PostFails(t)
    BY <1>7, <2>8 DEF PostFails
  <2> QED
    BY <2>2, <2>3, <2>4, <2>5, <2>6, <2>7, <2>8 DEF Step
<1>8. ASSUME NEW u \in Thread, Undisturbed(u)'
      PROVE  (\A v \in Thread \ {u} : pc'[v] = "idle") /\ OnItsWay(u)'
  <2>1. pc'[u] # "idle"
    BY <1>8 DEF Undisturbed
  <2> QED
    BY <1>5, <1>7, <1>8, <2>1
<1> QED
  BY <1>2, <1>8 DEF AloneInv

\* What is offered changes: what is steady gets less.
LEMMA AloneOfOffers ==
  ASSUME TypeOK, AloneInv, NEW p \in Protocol, OfferChanges(p)
  PROVE  AloneInv'
<1>1. SteadyOnOffer'
  <2>1. \A q \in Protocol : offered'[q] \in Offers[q]
    BY DEF OfferChanges, AloneInv, SteadyOnOffer, TypeOK
  <2>2. steady' \subseteq Offered(offered')
    BY DEF OfferChanges
  <2> QED
    BY <2>1, <2>2 DEF SteadyOnOffer, Offered
<1>2. \A s : Brings(s)' \subseteq Brings(s)
  BY DEF Brings, OfferChanges
<1>3. \A s : Imported(s)' \subseteq Imported(s)
  BY <1>2 DEF Imported
<1>4. UNCHANGED <<table, local, alone>>
  BY DEF OfferChanges
<1>5. ASSUME NEW t \in Thread, Undisturbed(t)'
      PROVE  (\A u \in Thread \ {t} : pc'[u] = "idle") /\ OnItsWay(t)'
  <2>1. (\A u \in Thread \ {t} : pc[u] = "idle") /\ OnItsWay(t)
    BY <1>4, <1>5 DEF AloneInv, Undisturbed, local
  <2> QED
    BY <1>2, <1>3, <1>4, <2>1 DEF OnItsWay, local
<1> QED
  BY <1>1, <1>5 DEF AloneInv

\* Every step keeps a call that nothing overlapped complete so far.
LEMMA AloneStep == TypeOK /\ AloneInv /\ [Next]_vars => AloneInv'
<1> SUFFICES ASSUME TypeOK, AloneInv, [Next]_vars
             PROVE  AloneInv'
  OBVIOUS
<1>1. CASE UNCHANGED vars
  BY <1>1 DEF vars, local, history, AloneInv, SteadyOnOffer, Offered, Undisturbed, OnItsWay,
              Imported, Brings
<1> QED
  BY <1>1, AloneOfBegin, AloneOfStep, AloneOfOffers DEF Next

\* So it always is.
LEMMA AloneHolds == Spec => []AloneInv
<1> QED
  BY TypeInit, TypeStep, AloneInit, AloneStep, PTL DEF Spec

\* It has it all when it is about to post.
LEMMA PostComplete ==
  ASSUME AloneInv, NEW t \in Thread, alone[t], pc[t] = "post"
  PROVE  held[t] = table /\ Static \cup steady \subseteq table
<1>1. OnItsWay(t)
  BY DEF AloneInv, Undisturbed
<1>2. held[t] = table /\ Static \cup Brings("SLA") \cup Brings("RIP1") \subseteq table
  BY <1>1 DEF OnItsWay, Imported
<1> QED
  BY <1>2, AllBrought DEF AloneInv

\* A redistribute call that no other one overlapped gives RIP the RIB, and in it are the
\* static routes and all routes that were on offer throughout the call.
THEOREM AloneAlwaysComplete == Spec => AloneIsComplete
<1>1. ASSUME AloneInv
      PROVE  [\A t \in Thread : Post(t) /\ alone[t] =>
                posted' = table /\ Static \cup steady \subseteq table]_vars
  BY <1>1, PostComplete DEF Post
<1> QED
  BY <1>1, AloneHolds, PTL DEF AloneIsComplete

-----------------------------------------------------------------------------
(* The new set.  That RIP is left with what is in the RIB is what the      *)
(* documentation says of redistribution, and RipHasNewSet fails.  Three    *)
(* things break it, and no other: a call that fails, a refresh_rib, which  *)
(* replaces the RIB and posts nothing, and two calls that overlap.         *)

\* No two calls are in progress at the same time.
NoOverlap == \A t, u \in Thread : pc[t] # "idle" /\ pc[u] # "idle" => t = u

\* A call posts the RIB as it is, and whatever has changed the RIB ends with a post.
PostsToCome ==
  /\ \A t \in Thread : call[t] = "redistribute"
  /\ \A t \in Thread : pc[t] = "post" => held[t] = table
  /\ "RIP1" \notin Enabled => posted = {} /\ \A t \in Thread : pc[t] \notin {"export", "post"}
  /\ RipHasNewSet

\* A call that arrives has its post before it.
LEMMA PostsToComeBegin ==
  ASSUME TypeOK, NoOverlap', PostsToCome, NEW t \in Thread, Begin(t, "redistribute")
  PROVE  PostsToCome'
<1> USE DEF TypeOK
<1>1. pc' = [pc EXCEPT ![t] = "read"] /\ call' = [call EXCEPT ![t] = "redistribute"]
  BY DEF Begin
<1>2. \A u \in Thread : pc'[u] # "idle" => u = t
  BY <1>1 DEF NoOverlap
<1>3. ~ Idle'
  BY <1>1 DEF Idle
<1>4. \A u \in Thread : pc'[u] \notin {"export", "post"}
  BY <1>1, <1>2
<1>5. posted' = posted
  BY DEF Begin
<1> QED
  BY <1>1, <1>3, <1>4, <1>5 DEF PostsToCome, RipHasNewSet

\* So has one that goes on, until it has posted; it does not end before.
LEMMA PostsToComeStep ==
  ASSUME TypeOK, ~CallsFail, NoOverlap, PostsToCome, NEW t \in Thread, Step(t)
  PROVE  PostsToCome'
<1> USE DEF TypeOK
<1>1. pc[t] # "idle"
  BY DEF Step, ImportRead, ImportWrite, Fetch, FetchFails, Export, Post, PostFails
<1>2. \A u \in Thread \ {t} : pc[u] = "idle"
  BY <1>1 DEF NoOverlap
<1>3. call' = call
  BY DEF Step, ImportRead, ImportWrite, Fetch, FetchFails, Export, Post, PostFails
<1>4. CASE ImportRead(t) \/ Fetch(t)
  <2>1. pc' = [pc EXCEPT ![t] = IF pc[t] = "read" THEN "write" ELSE "read"] /\ posted' = posted
    BY <1>4 DEF ImportRead, Fetch
  <2>2. ~ Idle' /\ \A u \in Thread : pc'[u] \notin {"export", "post"}
    BY <1>2, <2>1 DEF Idle
  <2> QED
    BY <1>3, <2>1, <2>2 DEF PostsToCome, RipHasNewSet
<1>5. CASE ImportWrite(t)
  <2>1. pc' = [pc EXCEPT ![t] = StepAfterImport(t)] /\ posted' = posted
    BY <1>5 DEF ImportWrite
  <2>2. StepAfterImport(t) # "post"
    BY DEF StepAfterImport
  <2>3. CASE "RIP1" \in Enabled
    <3>1. StepAfterImport(t) # "idle"
      BY <2>3 DEF StepAfterImport, PostsToCome
    <3> QED
      BY <1>2, <1>3, <2>1, <2>2, <2>3, <3>1 DEF PostsToCome, RipHasNewSet, Idle
  <2>4. CASE "RIP1" \notin Enabled
    <3>1. StepAfterImport(t) # "export"
      BY <2>4 DEF StepAfterImport
    <3> QED
      BY <1>2, <1>3, <2>1, <2>2, <2>4, <3>1 DEF PostsToCome, RipHasNewSet
  <2> QED
    BY <2>3, <2>4
<1>6. CASE Export(t)
  <2>1. /\ pc[t] = "export" /\ pc' = [pc EXCEPT ![t] = "post"]
        /\ held' = [held EXCEPT ![t] = table] /\ UNCHANGED <<table, posted>>
    BY <1>6 DEF Export
  <2> QED
    BY <1>2, <1>3, <2>1 DEF PostsToCome, RipHasNewSet, Idle
<1>7. CASE Post(t)
  <2>1. /\ pc[t] = "post" /\ pc' = [pc EXCEPT ![t] = "idle"]
        /\ posted' = held[t] /\ table' = table
    BY <1>7 DEF Post
  <2>2. posted' = table'
    BY <2>1 DEF PostsToCome
  <2> QED
    BY <1>2, <1>3, <2>1, <2>2 DEF PostsToCome, RipHasNewSet
<1> QED
  BY <1>4, <1>5, <1>6, <1>7 DEF Step, FetchFails, PostFails

\* Where redistribute is the only call, none fails and no two overlap, RIP is left with
\* what is in the RIB whenever no call is in progress.
THEOREM NewSetUnlessOverlap ==
  ASSUME ~CallsFail, Calls = {"redistribute"}
  PROVE  Spec /\ []NoOverlap => []RipHasNewSet
<1>1. Init => PostsToCome
  BY DEF Init, PostsToCome, RipHasNewSet
<1>2. ASSUME TypeOK, NoOverlap, NoOverlap', PostsToCome, [Next]_vars
      PROVE  PostsToCome'
  <2>1. CASE UNCHANGED vars \/ \E p \in Protocol : OfferChanges(p)
    <3>1. UNCHANGED <<call, pc, held, table, posted>>
      BY <2>1 DEF vars, local, OfferChanges
    <3> QED
      BY <3>1, <1>2 DEF PostsToCome, RipHasNewSet, Idle
  <2> QED
    BY <1>2, <2>1, PostsToComeBegin, PostsToComeStep DEF Next
<1>3. PostsToCome => RipHasNewSet
  BY DEF PostsToCome
<1> QED
  BY <1>1, <1>2, <1>3, TypeCorrect, PTL DEF Spec

=============================================================================
