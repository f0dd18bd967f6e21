---------------------------- MODULE ControlPlane ----------------------------
(***************************************************************************)
(* One ControlPlane instance of src/control_plane/main.py.                 *)
(*                                                                         *)
(* The endpoints of api_control_plane.py that change the RIB are plain     *)
(* functions: FastAPI runs each call in a thread of its pool, and nothing  *)
(* keeps two calls apart.  A call replaces self._rib by an empty CP_RIB    *)
(* and then imports the routes of one source after the other, asking the   *)
(* protocol services over HTTP in between.                                 *)
(*                                                                         *)
(* import_routes is not atomic: it reads _table, builds the union and      *)
(* assigns it back.  When another call has replaced self._rib in between,  *)
(* the assignment goes to a CP_RIB nobody reads any more, which is all     *)
(* that matters of the old objects: the snapshot becomes Orphaned.         *)
(*                                                                         *)
(* A route is opaque here.  It stands for its key, prefix, next hop and    *)
(* source: the rest of it follows from the source.                         *)
(***************************************************************************)

CONSTANTS
  Thread,      \* threads that may serve a call at the same time
  Route,
  Orphaned,    \* snapshot taken from a CP_RIB that was replaced since
  Static,      \* the static routes of the configuration
  Enabled,     \* protocols with a client: rp_sla_enabled, rp_rip1_enabled
  Offers,      \* what the redistribute_out of a protocol may answer
  Calls,       \* the calls that are made
  CallsFail    \* a call to a protocol service may fail

Protocol == {"SLA", "RIP1"}

ASSUME ControlPlaneAssumption ==
  /\ \A routes \in SUBSET Route : Orphaned # routes
  /\ Static \subseteq Route
  /\ Enabled \subseteq Protocol
  /\ Offers \in [Protocol -> SUBSET SUBSET Route]
  /\ {} \in Offers["SLA"] /\ {} \in Offers["RIP1"]
  \* A route names its source: no route is on offer from both protocols.
  /\ (UNION Offers["SLA"]) \cap (UNION Offers["RIP1"]) = {}
  /\ Calls \subseteq {"redistribute", "refresh_rib"}
  /\ CallsFail \in BOOLEAN

VARIABLES
  table,    \* self._rib._table
  offered,  \* environment: the routes each protocol would answer with now
  posted,   \* the set of routes the RIP instance was last given
  call,     \* thread -> the call it serves
  pc,       \* thread -> its next step
  stage,    \* thread -> the source whose routes it imports next
  held,     \* thread -> local routes: to be imported, or the body to be posted
  snapshot, \* thread -> the _table import_routes has read
  seen,     \* history: routes offered since a call last began alone
  steady,   \* history: the ones of them offered all that time
  alone     \* history: thread -> no other call overlapped its call so far

local == <<call, pc, stage, held, snapshot>>
history == <<seen, steady, alone>>
vars == <<table, offered, posted, local, history>>

Offered(o) == UNION {o[p] : p \in Enabled}

Idle == \A t \in Thread : pc[t] = "idle"

-----------------------------------------------------------------------------
\* Slip for the start of a call: the RIB is not replaced.
KeepsTable == table

\* self._rib = CP_RIB()
EmptiedTable == {}

\* Slip for the order of the sources: RIP is never asked.
StageSkippingRip(s) == IF s = "static" THEN "SLA" ELSE "done"

\* The sources in the order redistribute imports them.
StageAfter(s) == CASE s = "static" -> "SLA" [] s = "SLA" -> "RIP1" [] OTHER -> "done"

\* Slip for import_routes: the routes go in as one element.
UnionNests(old, routes) == old \cup {routes}

\* self._table.union(...)
UnionOf(old, routes) == old \cup routes

\* Slip for redistribute: RIP is given routes only if there are some.
StepSkippingEmptyExport(t) ==
  IF StageAfter(stage[t]) # "done" THEN "fetch"
  ELSE IF "RIP1" \in Enabled /\ table # Static THEN "export" ELSE "idle"

\* refresh_rib imports the static routes and goes no further: RpSlaClient has no
\* get_best_routes, the RIP service has no best_routes endpoint, both calls raise.
StepAfterImport(t) ==
  IF call[t] = "refresh_rib" THEN "idle"
  ELSE IF StageAfter(stage[t]) # "done" THEN "fetch"
  ELSE IF "RIP1" \in Enabled THEN "export" ELSE "idle"

-----------------------------------------------------------------------------
Init ==
  /\ table = Static
  /\ offered = [p \in Protocol |-> {}]
  /\ posted = {}
  /\ call = [t \in Thread |-> "redistribute"]
  /\ pc = [t \in Thread |-> "idle"]
  /\ stage = [t \in Thread |-> "static"]
  /\ held = [t \in Thread |-> {}]
  /\ snapshot = [t \in Thread |-> {}]
  /\ seen = {}
  /\ steady = {}
  /\ alone = [t \in Thread |-> FALSE]

\* A call arrives: a new RIB, and the static routes are about to be imported.
Begin(t, c) ==
  /\ pc[t] = "idle"
  /\ table' = EmptiedTable
  /\ snapshot' = [u \in Thread |-> IF pc[u] = "write" THEN Orphaned ELSE snapshot[u]]
  /\ call' = [call EXCEPT ![t] = c]
  /\ pc' = [pc EXCEPT ![t] = "read"]
  /\ stage' = [stage EXCEPT ![t] = "static"]
  /\ held' = [held EXCEPT ![t] = Static]
  /\ alone' = [u \in Thread |-> u = t /\ Idle]
  /\ seen' = IF Idle THEN Offered(offered) ELSE seen
  /\ steady' = IF Idle THEN Offered(offered) ELSE steady
  /\ UNCHANGED <<offered, posted>>

\* import_routes reads the table ...
ImportRead(t) ==
  /\ pc[t] = "read"
  /\ snapshot' = [snapshot EXCEPT ![t] = table]
  /\ pc' = [pc EXCEPT ![t] = "write"]
  /\ UNCHANGED <<table, offered, posted, call, stage, held, history>>

\* ... and assigns the union of what it read with the routes.
ImportWrite(t) ==
  /\ pc[t] = "write"
  /\ table' = IF snapshot[t] = Orphaned THEN table ELSE UnionOf(snapshot[t], held[t])
  /\ pc' = [pc EXCEPT ![t] = StepAfterImport(t)]
  /\ stage' = [stage EXCEPT ![t] = StageAfter(stage[t])]
  /\ held' = [held EXCEPT ![t] = {}]
  /\ snapshot' = [snapshot EXCEPT ![t] = {}]
  /\ UNCHANGED <<offered, posted, call, history>>

\* redistribute_out of the protocol, or no routes when it is not enabled.
Fetch(t) ==
  /\ pc[t] = "fetch"
  /\ held' = [held EXCEPT ![t] = IF stage[t] \in Enabled THEN offered[stage[t]] ELSE {}]
  /\ pc' = [pc EXCEPT ![t] = "read"]
  /\ UNCHANGED <<table, offered, posted, call, stage, snapshot, history>>

\* The service does not answer or answers with an error: raise_for_status ends the
\* call where it is.
FetchFails(t) ==
  /\ CallsFail
  /\ pc[t] = "fetch" /\ stage[t] \in Enabled
  /\ pc' = [pc EXCEPT ![t] = "idle"]
  /\ UNCHANGED <<table, offered, posted, call, stage, held, snapshot, history>>

\* The body of redistribute_in: what is in the RIB now, whoever put it there.
Export(t) ==
  /\ pc[t] = "export"
  /\ held' = [held EXCEPT ![t] = table]
  /\ pc' = [pc EXCEPT ![t] = "post"]
  /\ UNCHANGED <<table, offered, posted, call, stage, snapshot, history>>

\* The RIP instance gets the body.
Post(t) ==
  /\ pc[t] = "post"
  /\ posted' = held[t]
  /\ pc' = [pc EXCEPT ![t] = "idle"]
  /\ held' = [held EXCEPT ![t] = {}]
  /\ UNCHANGED <<table, offered, call, stage, snapshot, history>>

\* The body does not reach the RIP instance.
PostFails(t) ==
  /\ CallsFail
  /\ pc[t] = "post"
  /\ pc' = [pc EXCEPT ![t] = "idle"]
  /\ held' = [held EXCEPT ![t] = {}]
  /\ UNCHANGED <<table, offered, posted, call, stage, snapshot, history>>

\* Environment: routes of a protocol come up and go down.
OfferChanges(p) ==
  /\ p \in Enabled
  /\ \E o \in Offers[p] : offered' = [offered EXCEPT ![p] = o]
  /\ seen' = seen \cup Offered(offered')
  /\ steady' = steady \cap Offered(offered')
  /\ UNCHANGED <<table, posted, local, alone>>

Step(t) ==
  \/ ImportRead(t) \/ ImportWrite(t)
  \/ Fetch(t) \/ FetchFails(t)
  \/ Export(t)
  \/ Post(t) \/ PostFails(t)

Next ==
  \/ \E t \in Thread, c \in Calls : Begin(t, c)
  \/ \E t \in Thread : Step(t)
  \/ \E p \in Protocol : OfferChanges(p)

Spec == Init /\ [][Next]_vars

-----------------------------------------------------------------------------
(* Properties.                                                             *)

TypeOK ==
  /\ table \in SUBSET Route
  /\ offered \in [Protocol -> SUBSET Route]
  /\ posted \in SUBSET Route
  /\ call \in [Thread -> {"redistribute", "refresh_rib"}]
  /\ pc \in [Thread -> {"idle", "read", "write", "fetch", "export", "post"}]
  /\ stage \in [Thread -> {"static", "SLA", "RIP1", "done"}]
  /\ held \in [Thread -> SUBSET Route]
  /\ snapshot \in [Thread -> (SUBSET Route) \cup {Orphaned}]
  /\ seen \in SUBSET Route
  /\ steady \in SUBSET Route
  /\ alone \in [Thread -> BOOLEAN]

\* However calls overlap, and wherever they fail: a route that no protocol has
\* offered since a call last began with no other one in progress is neither in
\* the RIB nor in a body on its way to RIP.  Nothing withdrawn comes back.
NothingOutdated ==
  /\ table \subseteq Static \cup seen
  /\ \A t \in Thread : pc[t] = "post" => held[t] \subseteq Static \cup seen

\* A redistribute call that nothing overlapped does its job: RIP is given the RIB,
\* and in it are the static routes and all that was on offer throughout.
AloneIsComplete ==
  [][\A t \in Thread : Post(t) /\ alone[t] =>
       posted' = table /\ Static \cup steady \subseteq table]_vars

\* rp_sla/main.py: "a redistribution source will supply all of its routes to the
\* routing protocol.  The routing protocol will replace any old set of routes from this
\* source with the new set".  When no call is in progress, RIP has what is in the RIB.
RipHasNewSet == Idle /\ posted # {} => posted = table

=============================================================================
