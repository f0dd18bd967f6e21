----------------------------- MODULE SlaInstance -----------------------------
(***************************************************************************)
(* One RP_SLA instance of src/rp_sla/main.py: configured routes that are   *)
(* up or down as their next hop answers a ping within a threshold.         *)
(*                                                                         *)
(* The endpoints of api_rp_sla.py are plain functions and run in threads.  *)
(* A ping blocks its thread for up to a second, during which other calls   *)
(* evaluate the same SLA_Route objects, delete routes, or ask for the best *)
(* ones.  _configured_routes and _rib hold the same objects, and what      *)
(* changes one changes the other: present stands for both.                 *)
(*                                                                         *)
(* Nothing in the service evaluates routes by itself: a call has to come.  *)
(*                                                                         *)
(* A next hop is taken to send ICMP only in answer to an echo, and to do   *)
(* so before the socket's timeout or never.                                *)
(***************************************************************************)
EXTENDS Rib

CONSTANTS
  Thread,     \* threads that may evaluate at the same time
  Configured, \* the routes of the configuration, <<prefix, next hop>>
  Priority,   \* [Configured -> Int], the highest wins
  Interval,   \* _threshold_measure_interval
  Path,       \* [Hop -> SUBSET Outcome], what pinging a next hop may come to
  NoRoute     \* a thread evaluates no route

\* An answer within threshold_ms; one beyond it, or none within the timeout of the
\* socket; a socket call that raises something else (no route to host, say).
Outcome == {"fast", "late", "broken"}

Hop == {r[2] : r \in Configured}

ASSUME SlaAssumption ==
  /\ Priority \in [Configured -> Int]
  /\ Interval \in Nat
  /\ Path \in [Hop -> (SUBSET Outcome) \ {{}}]
  /\ NoRoute \notin Configured

VARIABLES
  present,  \* _rib and _configured_routes
  status,   \* route -> its status
  age,      \* route -> time since last_updated
  path,     \* environment: next hop -> what a ping of it comes to now
  pc,       \* thread -> its next step
  todo,     \* thread -> routes evaluate_routes has not come to yet
  at,       \* thread -> route being evaluated
  answers   \* thread -> what its ping in progress may come to

vars == <<present, status, age, path, pc, todo, at, answers>>

-----------------------------------------------------------------------------
\* Slip for evaluate_route: a route that is down is left alone.
DueUnlessDown(r) == status[r] = "unknown" \/ (status[r] = "up" /\ age[r] > Interval)

Due(r) == status[r] = "unknown" \/ age[r] > Interval

\* Slip for evaluate_route: the outcome itself is stored.
OutcomeStored(outcome) == outcome

\* The status that an outcome other than "broken" gives the route.
StatusAfter(outcome) == IF outcome \in {"fast", "overheard"} THEN "up" ELSE "down"

\* _send_ping takes the first ICMP packet from the next hop for its answer, without
\* a look at its id and seq: where another ping of the next hop is still out, the
\* late answer to that one may come early enough to be a good one for this one.
Overheard(r) ==
  IF \E u \in Thread : pc[u] = "ping" /\ at[u][2] = r[2] /\ "late" \in answers[u]
  THEN {"overheard"} ELSE {}

\* redistribute_out: per prefix one of the routes that are up, of highest priority.
RedistributeOut(table) == BestSelections([r \in {q \in present : table[q] = "up"} |-> -Priority[r]])

-----------------------------------------------------------------------------
Init ==
  /\ present = Configured
  /\ status = [r \in Configured |-> "unknown"]
  /\ age = [r \in Configured |-> 0]
  /\ path \in {f \in [Hop -> Outcome] : \A h \in Hop : f[h] \in Path[h]}
  /\ pc = [t \in Thread |-> "idle"]
  /\ todo = [t \in Thread |-> {}]
  /\ at = [t \in Thread |-> NoRoute]
  /\ answers = [t \in Thread |-> {}]

\* evaluate_routes takes a copy of the RIB's items.
BeginEvaluate(t) ==
  /\ pc[t] = "idle"
  /\ pc' = [pc EXCEPT ![t] = "loop"]
  /\ todo' = [todo EXCEPT ![t] = present]
  /\ UNCHANGED <<present, status, age, path, at, answers>>

\* The next route was evaluated not long ago.
SkipRoute(t) ==
  /\ pc[t] = "loop"
  /\ \E r \in todo[t] : ~Due(r) /\ todo' = [todo EXCEPT ![t] = @ \ {r}]
  /\ UNCHANGED <<present, status, age, path, pc, at, answers>>

\* The next route is due: its next hop is pinged, and the thread blocks.
StartPing(t) ==
  /\ pc[t] = "loop"
  /\ \E r \in todo[t] :
       /\ Due(r)
       /\ at' = [at EXCEPT ![t] = r]
       /\ answers' = [answers EXCEPT ![t] = {path[r[2]]} \cup Overheard(r)]
       /\ todo' = [todo EXCEPT ![t] = @ \ {r}]
  /\ pc' = [pc EXCEPT ![t] = "ping"]
  /\ UNCHANGED <<present, status, age, path>>

\* The ping is answered or times out, and the status is assigned, whoever else has
\* assigned it in the meantime and whether or not the route is still in the RIB.
EndPing(t) ==
  /\ pc[t] = "ping"
  /\ \E a \in answers[t] \ {"broken"} :
       status' = [status EXCEPT ![at[t]] = StatusAfter(a)]
  /\ pc' = [pc EXCEPT ![t] = "stamp"]
  /\ answers' = [answers EXCEPT ![t] = {}]
  /\ UNCHANGED <<present, age, path, todo, at>>

\* Slip for evaluate_routes: a route whose ping raises is passed over.
PassOver(t) ==
  /\ pc[t] = "ping"
  /\ "broken" \in answers[t]
  /\ pc' = [pc EXCEPT ![t] = "loop"]
  /\ at' = [at EXCEPT ![t] = NoRoute]
  /\ answers' = [answers EXCEPT ![t] = {}]
  /\ UNCHANGED <<present, status, age, path, todo>>

\* Any other OSError leaves evaluate_routes: the routes not yet reached are not
\* evaluated, the route keeps its status and its last_updated.
PingBreaks(t) ==
  /\ pc[t] = "ping"
  /\ "broken" \in answers[t]
  /\ pc' = [pc EXCEPT ![t] = "idle"]
  /\ todo' = [todo EXCEPT ![t] = {}]
  /\ at' = [at EXCEPT ![t] = NoRoute]
  /\ answers' = [answers EXCEPT ![t] = {}]
  /\ UNCHANGED <<present, status, age, path>>

\* last_updated is assigned, a moment after the status.
Stamp(t) ==
  /\ pc[t] = "stamp"
  /\ age' = [age EXCEPT ![at[t]] = 0]
  /\ at' = [at EXCEPT ![t] = NoRoute]
  /\ pc' = [pc EXCEPT ![t] = "loop"]
  /\ UNCHANGED <<present, status, path, todo, answers>>

EndEvaluate(t) ==
  /\ pc[t] = "loop"
  /\ todo[t] = {}
  /\ pc' = [pc EXCEPT ![t] = "idle"]
  /\ UNCHANGED <<present, status, age, path, todo, at, answers>>

\* remove_configured_route.  There is no way back: the routes/new endpoint calls
\* add_configured_route with arguments it does not take.
DeleteRoute(r) ==
  /\ r \in present
  /\ present' = present \ {r}
  /\ UNCHANGED <<status, age, path, pc, todo, at, answers>>

\* Environment: a next hop starts or stops answering, also while it is pinged.
PathChanges(h) ==
  /\ \E x \in Path[h] :
       /\ path' = [path EXCEPT ![h] = x]
       /\ answers' = [t \in Thread |->
            IF pc[t] = "ping" /\ at[t][2] = h THEN answers[t] \cup {x} ELSE answers[t]]
  /\ UNCHANGED <<present, status, age, pc, todo, at>>

\* Ages beyond the interval are all alike.
Tick ==
  /\ age' = [r \in Configured |-> IF age[r] > Interval THEN age[r] ELSE age[r] + 1]
  /\ UNCHANGED <<present, status, path, pc, todo, at, answers>>

Evaluate(t) ==
  \/ SkipRoute(t) \/ StartPing(t)
  \/ EndPing(t) \/ PingBreaks(t)
  \/ Stamp(t)
  \/ EndEvaluate(t)

Next ==
  \/ \E t \in Thread : BeginEvaluate(t)
  \/ \E t \in Thread : Evaluate(t)
  \/ \E r \in Configured : DeleteRoute(r)
  \/ \E h \in Hop : PathChanges(h)
  \/ Tick

Spec == Init /\ [][Next]_vars

\* A ping ends within a second and time passes: a call that has begun is carried
\* through.  That calls come is nobody's duty.
FairSpec ==
  /\ Spec
  /\ \A t \in Thread : WF_vars(Evaluate(t))
  /\ WF_vars(Tick)

-----------------------------------------------------------------------------
(* Properties.                                                             *)

TypeOK ==
  /\ present \subseteq Configured
  /\ status \in [Configured -> {"unknown", "up", "down"}]
  /\ age \in [Configured -> 0..(Interval + 1)]
  /\ path \in [Hop -> Outcome]
  /\ pc \in [Thread -> {"idle", "loop", "ping", "stamp"}]
  /\ todo \in [Thread -> SUBSET Configured]
  /\ at \in [Thread -> Configured \cup {NoRoute}]
  /\ answers \in [Thread -> SUBSET (Outcome \cup {"overheard"})]

\* evaluate_routes "will evaluate all routes": when a call gets to its end, each route
\* there is has a status.  The call may have passed over some that were evaluated by
\* others, routes may have gone meanwhile, other calls may have broken off; a call that
\* leaves routes without a status does not get to its end.
AllEvaluated ==
  [][\A t \in Thread : EndEvaluate(t) => \A r \in present : status[r] # "unknown"]_vars

EvaluationsKeepComing == []<><<\E t \in Thread : BeginEvaluate(t)>>_vars

PathsSettle ==
  /\ <>[][\A h \in Hop : ~PathChanges(h)]_vars
  /\ <>[](\A h \in Hop : path[h] # "broken")

PingsKeepApart == <>[](\A t \in Thread : "overheard" \notin answers[t])

\* What redistribute_out should answer, were the state of the paths known.
BestByPath == RedistributeOut([r \in Configured |-> IF path[r[2]] = "fast" THEN "up" ELSE "down"])

\* Once the paths stay as they are, none of them broken, calls keep coming and no
\* longer ping a next hop two at a time, redistribute_out answers with the best routes
\* whose next hops do answer, for good.  Neither the answer to an old ping that
\* overwrote a newer status lasts, nor an overheard one, nor what was left undone by
\* the calls that a broken path ended.
OffersFollowPaths ==
  EvaluationsKeepComing /\ PathsSettle /\ PingsKeepApart =>
    <>[](RedistributeOut(status) = BestByPath)

=============================================================================
