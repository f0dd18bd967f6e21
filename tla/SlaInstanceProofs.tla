-------------------------- MODULE SlaInstanceProofs --------------------------
(***************************************************************************)
(* Proofs about SlaInstance, for any number of threads, any routes and any *)
(* behaviour of the paths.                                                 *)
(*                                                                         *)
(* EndPing and Stamp assign to whatever route the thread is at: a route of *)
(* the configuration, and no longer necessarily one that is present.  That *)
(* a thread that pings or stamps is at a route at all is what TypeOK leaves *)
(* unsaid and needs.                                                       *)
(***************************************************************************)
EXTENDS SlaInstance, TLAPS

\* A thread is at a route exactly while it pings its next hop or has the result to store.
AtARoute == \A t \in Thread : at[t] \in Configured <=> pc[t] \in {"ping", "stamp"}

\* A ping may end in one way at least, and in none once it is over.
PingsEnd == \A t \in Thread : answers[t] # {} <=> pc[t] = "ping"

\* Next hops behave as their paths can.
PathsKnown == \A h \in Hop : path[h] \in Path[h]

IInv == TypeOK /\ AtARoute /\ PingsEnd /\ PathsKnown

-----------------------------------------------------------------------------
\* At the start every thread is idle.
LEMMA InvInit ==
  ASSUME Init
  PROVE  IInv
<1>1. TypeOK
  BY SlaAssumption DEF Init, TypeOK, SlaAssumption, Outcome
<1>2. AtARoute /\ PingsEnd /\ PathsKnown
  BY SlaAssumption DEF Init, AtARoute, PingsEnd, PathsKnown, SlaAssumption
<1> QED
  BY <1>1, <1>2 DEF IInv

\* Each call, wherever the other threads are, and each change of the environment keeps it.
LEMMA InvStep ==
  ASSUME IInv, [Next]_vars
  PROVE  IInv'
<1> USE DEF IInv, TypeOK
<1>1. ASSUME NEW t \in Thread, BeginEvaluate(t)
      PROVE  IInv'
  BY <1>1 DEF BeginEvaluate, AtARoute, PingsEnd, PathsKnown
<1>2. ASSUME NEW t \in Thread, SkipRoute(t)
      PROVE  IInv'
  BY <1>2 DEF SkipRoute, AtARoute, PingsEnd, PathsKnown
<1>3. ASSUME NEW t \in Thread, StartPing(t)
      PROVE  IInv'
  <2>1. PICK r \in todo[t] :
          /\ at' = [at EXCEPT ![t] = r]
          /\ answers' = [answers EXCEPT ![t] = {path[r[2]]} \cup Overheard(r)]
          /\ todo' = [todo EXCEPT ![t] = @ \ {r}]
    BY <1>3 DEF StartPing
  <2>2. r \in Configured /\ path[r[2]] \in Outcome
    BY DEF Hop
  <2>3. Overheard(r) \subseteq {"overheard"}
    BY DEF Overheard
  <2>4. TypeOK'
    BY <1>3, <2>1, <2>2, <2>3 DEF StartPing
  <2>5. AtARoute' /\ PingsEnd' /\ PathsKnown'
    BY <1>3, <2>1, <2>2 DEF StartPing, AtARoute, PingsEnd, PathsKnown
  <2> QED
    BY <2>4, <2>5
<1>4. ASSUME NEW t \in Thread, EndPing(t)
      PROVE  IInv'
  <2>1. at[t] \in Configured
    BY <1>4 DEF EndPing, AtARoute
  <2>2. PICK a \in answers[t] : status' = [status EXCEPT ![at[t]] = StatusAfter(a)]
    BY <1>4 DEF EndPing
  <2>3. StatusAfter(a) \in {"up", "down"}
    BY DEF StatusAfter
  <2>4. TypeOK'
    BY <1>4, <2>1, <2>2, <2>3 DEF EndPing
  <2>5. AtARoute' /\ PingsEnd' /\ PathsKnown'
    BY <1>4 DEF EndPing, AtARoute, PingsEnd, PathsKnown
  <2> QED
    BY <2>4, <2>5
<1>5. ASSUME NEW t \in Thread, PingBreaks(t)
      PROVE  IInv'
  BY <1>5, SlaAssumption DEF PingBreaks, AtARoute, PingsEnd, PathsKnown, SlaAssumption
<1>6. ASSUME NEW t \in Thread, Stamp(t)
      PROVE  IInv'
  <2>1. TypeOK'
    <3>1. 0 \in 0..(Interval + 1)
      BY SlaAssumption DEF SlaAssumption
    <3>2. age' \in [Configured -> 0..(Interval + 1)]
      BY <1>6, <3>1 DEF Stamp
    <3> QED
      BY <1>6, <3>2 DEF Stamp
  <2>2. AtARoute' /\ PingsEnd' /\ PathsKnown'
    BY <1>6, SlaAssumption DEF Stamp, AtARoute, PingsEnd, PathsKnown, SlaAssumption
  <2> QED
    BY <2>1, <2>2
<1>7. ASSUME NEW t \in Thread, EndEvaluate(t)
      PROVE  IInv'
  BY <1>7 DEF EndEvaluate, AtARoute, PingsEnd, PathsKnown
<1>8. ASSUME NEW r \in Configured, DeleteRoute(r)
      PROVE  IInv'
  BY <1>8 DEF DeleteRoute, AtARoute, PingsEnd, PathsKnown
<1>9. ASSUME NEW h \in Hop, PathChanges(h)
      PROVE  IInv'
  <2>1. PICK x \in Path[h] :
          /\ path' = [path EXCEPT ![h] = x]
          /\ answers' = [t \in Thread |->
               IF pc[t] = "ping" /\ at[t][2] = h THEN answers[t] \cup {x} ELSE answers[t]]
    BY <1>9 DEF PathChanges
  <2>2. x \in Outcome
    BY SlaAssumption DEF SlaAssumption
  <2>3. TypeOK'
    BY <1>9, <2>1, <2>2 DEF PathChanges
  <2>4. AtARoute' /\ PingsEnd' /\ PathsKnown'
    BY <1>9, <2>1 DEF PathChanges, AtARoute, PingsEnd, PathsKnown
  <2> QED
    BY <2>3, <2>4
<1>10. CASE Tick
  <2>1. TypeOK'
    BY <1>10, SlaAssumption DEF Tick, SlaAssumption
  <2> QED
    BY <1>10, <2>1 DEF Tick, AtARoute, PingsEnd, PathsKnown
<1>11. CASE UNCHANGED vars
  BY <1>11 DEF vars, AtARoute, PingsEnd, PathsKnown
<1> QED
  BY <1>1, <1>2, <1>3, <1>4, <1>5, <1>6, <1>7, <1>8, <1>9, <1>10, <1>11 DEF Next, Evaluate

\* So it always holds.
LEMMA Inductive == Spec => []IInv
<1>1. Init => IInv
  BY InvInit
<1>2. IInv /\ [Next]_vars => IInv'
  BY InvStep
<1> QED
  BY <1>1, <1>2, PTL DEF Spec

-----------------------------------------------------------------------------
\* However the threads interleave and whichever routes are deleted under them, no
\* status or age is ever written for anything but a configured route.
THEOREM TypeCorrect == Spec => []TypeOK
<1>1. IInv => TypeOK
  BY DEF IInv
<1> QED
  BY <1>1, Inductive, PTL

-----------------------------------------------------------------------------
(* What a call has got through.  The inductive invariant of AllEvaluated   *)
(* has to speak of calls that are not at their end yet.                    *)

\* Whatever is still there and a call has left behind has a status, but for the route
\* whose next hop it pings.
BehindEvaluated ==
  \A t \in Thread : pc[t] # "idle" =>
    \A r \in present \ todo[t] : status[r] # "unknown" \/ (pc[t] = "ping" /\ at[t] = r)

\* No step makes a status unknown, brings a route back, or leaves one behind that has none.
LEMMA BehindStep ==
  ASSUME IInv, BehindEvaluated, [Next]_vars
  PROVE  BehindEvaluated'
<1> USE DEF IInv, TypeOK, BehindEvaluated
<1>1. ASSUME NEW t \in Thread, BeginEvaluate(t)
      PROVE  BehindEvaluated'
  BY <1>1 DEF BeginEvaluate
<1>2. ASSUME NEW t \in Thread, SkipRoute(t)
      PROVE  BehindEvaluated'
  BY <1>2 DEF SkipRoute, Due
<1>3. ASSUME NEW t \in Thread, StartPing(t)
      PROVE  BehindEvaluated'
  BY <1>3 DEF StartPing
<1>4. ASSUME NEW t \in Thread, EndPing(t)
      PROVE  BehindEvaluated'
  <2>1. \A a : StatusAfter(a) # "unknown"
    BY DEF StatusAfter
  <2> QED
    BY <1>4, <2>1 DEF EndPing, AtARoute
<1>5. ASSUME NEW t \in Thread, PingBreaks(t)
      PROVE  BehindEvaluated'
  BY <1>5 DEF PingBreaks
<1>6. ASSUME NEW t \in Thread, Stamp(t)
      PROVE  BehindEvaluated'
  BY <1>6 DEF Stamp
<1>7. ASSUME NEW t \in Thread, EndEvaluate(t)
      PROVE  BehindEvaluated'
  BY <1>7 DEF EndEvaluate
<1>8. ASSUME NEW r \in Configured, DeleteRoute(r)
      PROVE  BehindEvaluated'
  BY <1>8 DEF DeleteRoute
<1>9. ASSUME NEW h \in Hop, PathChanges(h)
      PROVE  BehindEvaluated'
  BY <1>9 DEF PathChanges
<1>10. CASE Tick
  BY <1>10 DEF Tick
<1>11. CASE UNCHANGED vars
  BY <1>11 DEF vars
<1> QED
  BY <1>1, <1>2, <1>3, <1>4, <1>5, <1>6, <1>7, <1>8, <1>9, <1>10, <1>11 DEF Next, Evaluate

\* When a call of evaluate_routes gets to its end every route there is has a status: of
\* any number of calls at once, whichever of them break off and whatever is deleted.
THEOREM AlwaysAllEvaluated == Spec => AllEvaluated
<1>1. Init => BehindEvaluated
  BY DEF Init, BehindEvaluated
<1>2. IInv /\ BehindEvaluated /\ [Next]_vars => BehindEvaluated'
  BY BehindStep
<1>3. IInv /\ BehindEvaluated =>
        [\A t \in Thread : EndEvaluate(t) => \A r \in present : status[r] # "unknown"]_vars
  BY DEF BehindEvaluated, EndEvaluate
<1> QED
  BY <1>1, <1>2, <1>3, Inductive, PTL DEF Spec, AllEvaluated

=============================================================================
