------------------------------ MODULE Lifecycle ------------------------------
(***************************************************************************)
(* The registries of the three services, api_control_plane.py,             *)
(* api_rp_sla.py and api_rp_rip1.py: a dictionary protocol_instances and a *)
(* LATEST_INSTANCE_ID each, with the calls that create and delete          *)
(* instances.                                                              *)
(*                                                                         *)
(* A control plane creates its SLA and its RIP instance over HTTP, tells   *)
(* the latter to run, and is registered last.  Nothing is undone when one  *)
(* of these steps fails.  The endpoints of the control plane and of SLA    *)
(* run in threads, statement by statement; those of RIP are coroutines     *)
(* without an await, one step each.                                        *)
(*                                                                         *)
(* The instances made for a control plane go by its id here: each service  *)
(* has ids of its own, of which the control plane is told one and never    *)
(* uses another.                                                           *)
(***************************************************************************)
CONSTANTS
  Thread,   \* threads serving a creation or a deletion at the same time
  Id,       \* bound: the ids that generate_id yields
  None

Service == {"CP", "SLA", "RIP"}

ASSUME LifecycleAssumption == None \notin Id /\ "latest" \notin Id

VARIABLES
  instances,  \* service -> keys of protocol_instances
  latest,     \* service -> LATEST_INSTANCE_ID
  running,    \* RIP instances whose tasks were started
  pc,         \* thread -> its next step
  job,        \* thread -> the id it creates or deletes
  at,         \* thread -> the service it deletes from
  used,       \* ids generated
  failed,     \* history: ids whose creation has failed
  deleted,    \* history: service -> ids taken out of its dictionary
  overtaken   \* history: <<service, id>> deleted before its creator made it latest

threads == <<pc, job, at>>
vars == <<instances, latest, running, threads, used, failed, deleted, overtaken>>

\* Slip for from_config: the control plane is registered before it has its parts.
StepRegisteringFirst(step) ==
  CASE step = "begin" -> "register"
    [] step = "register" -> "sla"
    [] step = "sla" -> "sla_register"
    [] step = "sla_register" -> "rip"
    [] step = "rip" -> "run"
    [] step = "run" -> "latest"
    [] OTHER -> "idle"

\* Slip for create_instance_from_config: the order that api_rp_sla.py has.
StepNamingFirst(step) ==
  CASE step = "begin" -> "latest"
    [] step = "latest" -> "sla"
    [] step = "sla" -> "sla_register"
    [] step = "sla_register" -> "rip"
    [] step = "rip" -> "run"
    [] step = "run" -> "register"
    [] OTHER -> "idle"

\* Slip for create_instance_from_config: the new instance does not get into the dictionary.
StepWithoutRegistering(step) ==
  CASE step = "begin" -> "sla"
    [] step = "sla" -> "sla_register"
    [] step = "sla_register" -> "rip"
    [] step = "rip" -> "run"
    [] step = "run" -> "latest"
    [] OTHER -> "idle"

\* The creation of a control plane, step by step: LATEST_INSTANCE_ID of SLA comes before
\* the registration there, that of the control plane after it.
StepAfter(step) ==
  CASE step = "begin" -> "sla"
    [] step = "sla" -> "sla_register"
    [] step = "sla_register" -> "rip"
    [] step = "rip" -> "run"
    [] step = "run" -> "register"
    [] step = "register" -> "latest"
    [] OTHER -> "idle"

\* Slip for delete_instance: "latest" is taken for an id, as api_rp_rip1.py does.
VictimAsGiven(s, arg) == arg

\* The id that delete_instance takes out.
Victim(s, arg) == IF arg = "latest" THEN latest[s] ELSE arg

\* get_protocol_instance finds an instance; all three services resolve "latest" there.
Found(s, arg) == (IF arg = "latest" THEN latest[s] ELSE arg) \in instances[s]

Registers(s, c) == instances' = [instances EXCEPT ![s] = @ \cup {c}]

Names(s, c) == latest' = [latest EXCEPT ![s] = c]

Advance(t) == pc' = [pc EXCEPT ![t] = StepAfter(pc[t])]

Ends(t) == pc' = [pc EXCEPT ![t] = "idle"]

-----------------------------------------------------------------------------
Init ==
  /\ instances = [s \in Service |-> {}]
  /\ latest = [s \in Service |-> None]
  /\ running = {}
  /\ pc = [t \in Thread |-> "idle"]
  /\ job = [t \in Thread |-> None]
  /\ at = [t \in Thread |-> "CP"]
  /\ used = {}
  /\ failed = {}
  /\ deleted = [s \in Service |-> {}]
  /\ overtaken = {}

\* create_instance_from_config of the control plane: a new id.
BeginCreate(t, c) ==
  /\ pc[t] = "idle" /\ c \notin used
  /\ used' = used \cup {c}
  /\ job' = [job EXCEPT ![t] = c]
  /\ pc' = [pc EXCEPT ![t] = StepAfter("begin")]
  /\ UNCHANGED <<instances, latest, running, at, failed, deleted, overtaken>>

\* create_instance_from_config of SLA names the instance before it has built it ...
SlaNames(t) ==
  /\ pc[t] = "sla"
  /\ Names("SLA", job[t])
  /\ Advance(t)
  /\ UNCHANGED <<instances, running, job, at, used, failed, deleted, overtaken>>

\* ... and registers it.
SlaRegisters(t) ==
  /\ pc[t] = "sla_register"
  /\ Registers("SLA", job[t])
  /\ Advance(t)
  /\ UNCHANGED <<latest, running, job, at, used, failed, deleted, overtaken>>

\* create_instance_from_config of RIP.
RipCreated(t) ==
  /\ pc[t] = "rip"
  /\ Registers("RIP", job[t])
  /\ Names("RIP", job[t])
  /\ Advance(t)
  /\ UNCHANGED <<running, job, at, used, failed, deleted, overtaken>>

\* The run endpoint of RIP starts the tasks of an instance it still has.
RipRuns(t) ==
  /\ pc[t] = "run" /\ Found("RIP", job[t])
  /\ running' = running \cup {job[t]}
  /\ Advance(t)
  /\ UNCHANGED <<instances, latest, job, at, used, failed, deleted, overtaken>>

CpRegisters(t) ==
  /\ pc[t] = "register"
  /\ Registers("CP", job[t])
  /\ Advance(t)
  /\ UNCHANGED <<latest, running, job, at, used, failed, deleted, overtaken>>

CpNames(t) ==
  /\ pc[t] = "latest"
  /\ Names("CP", job[t])
  /\ Advance(t)
  /\ UNCHANGED <<instances, running, job, at, used, failed, deleted, overtaken>>

\* A call to SLA or RIP fails: the service did not get it, from_config of SLA raised, RIP
\* no longer has the instance, or the answer to what is done already got lost.
CreateFails(t) ==
  /\ pc[t] \in {"sla", "sla_register", "rip", "run", "register"}
  /\ Ends(t)
  /\ failed' = failed \cup {job[t]}
  /\ UNCHANGED <<instances, latest, running, job, at, used, deleted, overtaken>>

\* create_instance of SLA, for no control plane: registered first, named second.
BeginNew(t, c) ==
  /\ pc[t] = "idle" /\ c \notin used
  /\ used' = used \cup {c}
  /\ job' = [job EXCEPT ![t] = c]
  /\ Registers("SLA", c)
  /\ pc' = [pc EXCEPT ![t] = "new_latest"]
  /\ UNCHANGED <<latest, running, at, failed, deleted, overtaken>>

NewNames(t) ==
  /\ pc[t] = "new_latest"
  /\ Names("SLA", job[t])
  /\ Ends(t)
  /\ UNCHANGED <<instances, running, job, at, used, failed, deleted, overtaken>>

\* The creator of c has yet to make it the latest of s.
NamingAhead(s, c) ==
  \E t \in Thread :
    /\ job[t] = c
    /\ pc[t] \in (IF s = "CP" THEN {"register", "latest"} ELSE {"new_latest"})

\* delete_instance of the control plane or of SLA, by id or of the latest: is it latest?
BeginDelete(t, s, arg) ==
  /\ pc[t] = "idle" /\ s \in {"CP", "SLA"} /\ arg \in instances[s] \cup {"latest"}
  /\ job' = [job EXCEPT ![t] = Victim(s, arg)]
  /\ at' = [at EXCEPT ![t] = s]
  /\ pc' = [pc EXCEPT ![t] = IF arg \in {"latest", latest[s]} THEN "reset" ELSE "pop"]
  /\ overtaken' = overtaken \cup {<<s, c>> : c \in {i \in {arg} : NamingAhead(s, i)}}
  /\ UNCHANGED <<instances, latest, running, used, failed, deleted>>

\* LATEST_INSTANCE_ID = None
DeleteResets(t) ==
  /\ pc[t] = "reset"
  /\ Names(at[t], None)
  /\ pc' = [pc EXCEPT ![t] = "pop"]
  /\ UNCHANGED <<instances, running, job, at, used, failed, deleted, overtaken>>

\* protocol_instances.pop(instance_id, None)
DeletePops(t) ==
  /\ pc[t] = "pop"
  /\ instances' = [instances EXCEPT ![at[t]] = @ \ {job[t]}]
  /\ deleted' = [deleted EXCEPT ![at[t]] = @ \cup ({job[t]} \cap instances[at[t]])]
  /\ Ends(t)
  /\ UNCHANGED <<latest, running, job, at, used, failed, overtaken>>

\* delete_instance of RIP.  The tasks of the instance go on.  "latest" is taken for an
\* id here: the call for it changes nothing.
DeleteRip(c) ==
  /\ c \in instances["RIP"]
  /\ instances' = [instances EXCEPT !["RIP"] = @ \ {c}]
  /\ latest' = [latest EXCEPT !["RIP"] = IF @ = c THEN None ELSE @]
  /\ deleted' = [deleted EXCEPT !["RIP"] = @ \cup {c}]
  /\ UNCHANGED <<running, threads, used, failed, overtaken>>

CreateStep(t) ==
  \/ SlaNames(t) \/ SlaRegisters(t) \/ RipCreated(t) \/ RipRuns(t)
  \/ CpRegisters(t) \/ CpNames(t)
  \/ CreateFails(t)

Next ==
  \/ \E t \in Thread, c \in Id : BeginCreate(t, c) \/ BeginNew(t, c)
  \/ \E t \in Thread : CreateStep(t) \/ NewNames(t) \/ DeleteResets(t) \/ DeletePops(t)
  \/ \E t \in Thread, s \in Service, arg \in Id \cup {"latest"} : BeginDelete(t, s, arg)
  \/ \E c \in Id : DeleteRip(c)

Spec == Init /\ [][Next]_vars

\* A thread runs on, and a call to another service ends in an answer or an error.
FairSpec == Spec /\ \A t \in Thread : WF_vars(CreateStep(t))

-----------------------------------------------------------------------------
(* Properties.                                                             *)

TypeOK ==
  /\ instances \in [Service -> SUBSET Id]
  /\ latest \in [Service -> Id \cup {None}]
  /\ running \in SUBSET Id
  /\ pc \in [Thread -> {"idle", "sla", "sla_register", "rip", "run", "register", "latest",
                        "new_latest", "reset", "pop"}]
  /\ job \in [Thread -> Id \cup {None}]
  /\ at \in [Thread -> {"CP", "SLA"}]
  /\ used \in SUBSET Id
  /\ failed \in SUBSET Id
  /\ deleted \in [Service -> SUBSET Id]
  /\ overtaken \in SUBSET (Service \X Id)

\* A control plane that can be called has its parts: an SLA instance and a RIP instance,
\* unless an operator deleted them, and the RIP instance runs.  A creation that
\* failed half-way has left parts, but no control plane.
PartsStandBehind ==
  \A c \in instances["CP"] :
    /\ c \in instances["SLA"] \cup deleted["SLA"]
    /\ c \in instances["RIP"] \cup deleted["RIP"]
    /\ c \in running
    /\ c \notin failed

\* "latest" names an instance that is there.  The exceptions: a deletion that came
\* between the registration and the naming of an instance, and in SLA, which names an
\* instance before it builds it, one that is being built or could not be.
LatestResolves ==
  \A s \in Service :
    \/ latest[s] = None \/ Found(s, "latest")
    \/ <<s, latest[s]>> \in overtaken
    \/ /\ s = "SLA"
       /\ \/ latest[s] \in failed
          \/ \E t \in Thread : pc[t] = "sla_register" /\ job[t] = latest[s]

\* A RIP instance runs, and calls its control plane, before that is registered: till then
\* its calls fail.  They do not fail for ever, unless the creation failed or the control
\* plane was deleted.
RunningFindsOwner ==
  \A c \in Id : c \in running ~> c \in instances["CP"] \cup deleted["CP"] \cup failed

=============================================================================
