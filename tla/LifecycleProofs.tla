--------------------------- MODULE LifecycleProofs ---------------------------
(***************************************************************************)
(* Proofs about Lifecycle, for any number of threads and of ids.           *)
(*                                                                         *)
(* What makes the invariants hold is that an id is generated once: until   *)
(* its creator has come to a step, nobody else can have done or undone it. *)
(***************************************************************************)
EXTENDS Lifecycle, TLAPS

Early == {"sla", "sla_register", "rip", "run", "register"}

Creating == Early \cup {"latest", "new_latest"}

Deleting == {"reset", "pop"}

Deletes(t, s, c) == pc[t] \in Deleting /\ at[t] = s /\ job[t] = c

\* Nothing goes by an id that was not generated, and an id has one creator at a time.
IdsUsed ==
  /\ \A s \in Service : instances[s] \subseteq used /\ latest[s] \in used \cup {None}
  /\ failed \subseteq used
  /\ \A t \in Thread : pc[t] \in Creating => job[t] \in used
  /\ \A t \in Thread : pc[t] \in Deleting => job[t] \in used \cup {None}
  /\ \A t, u \in Thread :
       pc[t] \in Creating /\ pc[u] \in Creating /\ job[t] = job[u] => t = u

\* What the creator of a control plane has made so far is there, or was deleted.
PartsMade ==
  \A t \in Thread :
    /\ pc[t] \in {"rip", "run", "register"} => job[t] \in instances["SLA"] \cup deleted["SLA"]
    /\ pc[t] \in {"run", "register"} => job[t] \in instances["RIP"] \cup deleted["RIP"]
    /\ pc[t] = "register" => job[t] \in running
    /\ pc[t] \in Creating => job[t] \notin failed

\* What it has yet to make is not there, nor named, nor being deleted.
PartsToCome ==
  \A t \in Thread :
    /\ pc[t] \in Early =>
         /\ job[t] \notin instances["CP"]
         /\ \A u \in Thread : ~Deletes(u, "CP", job[t])
    /\ pc[t] = "sla" =>
         /\ job[t] \notin instances["SLA"]
         /\ \A u \in Thread : ~Deletes(u, "SLA", job[t])
    /\ pc[t] \in Early \cup {"latest"} => latest["CP"] # job[t]
    /\ pc[t] \in {"sla", "new_latest"} => latest["SLA"] # job[t]

\* An instance about to be taken out is not the latest, and will not become it, unless
\* its deletion came before its naming.
PopsAreSafe ==
  \A u \in Thread : pc[u] \in Deleting /\ job[u] # None =>
    \/ <<at[u], job[u]>> \in overtaken
    \/ /\ ~NamingAhead(at[u], job[u])
       /\ pc[u] = "pop" => latest[at[u]] # job[u]

\* A registered instance about to be named is there, unless its deletion came first.
NamesWhatIsThere ==
  \A t \in Thread :
    /\ pc[t] = "latest" => job[t] \in instances["CP"] \/ <<"CP", job[t]>> \in overtaken
    /\ pc[t] = "new_latest" => job[t] \in instances["SLA"] \/ <<"SLA", job[t]>> \in overtaken

IInv ==
  /\ TypeOK
  /\ IdsUsed /\ PartsMade /\ PartsToCome /\ PopsAreSafe /\ NamesWhatIsThere
  /\ PartsStandBehind /\ LatestResolves

-----------------------------------------------------------------------------
\* Nothing holds of a service that has neither instances nor threads.
LEMMA InvInit == Init => IInv
<1> SUFFICES ASSUME Init
             PROVE  IInv
  OBVIOUS
<1> USE DEF Init, threads, Creating, Deleting, Early
<1>1. TypeOK
  BY DEF TypeOK
<1>2. IdsUsed /\ PartsMade /\ PartsToCome /\ PopsAreSafe /\ NamesWhatIsThere
  BY DEF IdsUsed, PartsMade, PartsToCome, PopsAreSafe, NamesWhatIsThere
<1>3. PartsStandBehind /\ LatestResolves
  BY DEF PartsStandBehind, LatestResolves, Service
<1> QED
  BY <1>1, <1>2, <1>3 DEF IInv

\* The threads take the steps of one call at a time.
LEMMA StepAfterStep ==
  /\ StepAfter("begin") = "sla" /\ StepAfter("sla") = "sla_register"
  /\ StepAfter("sla_register") = "rip" /\ StepAfter("rip") = "run"
  /\ StepAfter("run") = "register" /\ StepAfter("register") = "latest"
  /\ StepAfter("latest") = "idle"
BY DEF StepAfter

\* The actions of Next, for the lemmas that go through them one by one.
LEMMA NextActions ==
  ASSUME [Next]_vars
  PROVE  \/ \E t \in Thread, c \in Id : BeginCreate(t, c) \/ BeginNew(t, c)
         \/ \E t \in Thread : SlaNames(t) \/ SlaRegisters(t) \/ RipCreated(t) \/ RipRuns(t)
         \/ \E t \in Thread : CpRegisters(t) \/ CpNames(t) \/ CreateFails(t) \/ NewNames(t)
         \/ \E t \in Thread : DeleteResets(t) \/ DeletePops(t)
         \/ \E t \in Thread, s \in Service, arg \in Id \cup {"latest"} : BeginDelete(t, s, arg)
         \/ \E c \in Id : DeleteRip(c)
         \/ UNCHANGED vars
BY Zenon DEF Next, CreateStep

\* Every step keeps the types.
LEMMA TypeStep ==
  ASSUME IInv, [Next]_vars
  PROVE  TypeOK'
<1>1. ASSUME NEW t \in Thread, NEW c \in Id, BeginCreate(t, c)
      PROVE  TypeOK'
  BY <1>1, StepAfterStep DEF BeginCreate, IInv, TypeOK
<1>2. ASSUME NEW t \in Thread, NEW c \in Id, BeginNew(t, c)
      PROVE  TypeOK'
  BY <1>2 DEF BeginNew, Registers, IInv, TypeOK
<1>3. ASSUME NEW t \in Thread, SlaNames(t)
      PROVE  TypeOK'
  BY <1>3, StepAfterStep DEF SlaNames, Names, Advance, IInv, TypeOK
<1>4. ASSUME NEW t \in Thread, SlaRegisters(t)
      PROVE  TypeOK'
  BY <1>4, StepAfterStep DEF SlaRegisters, Registers, Advance, IInv, TypeOK, Early,
     Creating, IdsUsed
<1>5. ASSUME NEW t \in Thread, RipCreated(t)
      PROVE  TypeOK'
  BY <1>5, StepAfterStep DEF RipCreated, Registers, Names, Advance, IInv, TypeOK, Early,
     Creating, IdsUsed
<1>6. ASSUME NEW t \in Thread, RipRuns(t)
      PROVE  TypeOK'
  BY <1>6, StepAfterStep DEF RipRuns, Advance, IInv, TypeOK, Early, Creating, IdsUsed
<1>7. ASSUME NEW t \in Thread, CpRegisters(t)
      PROVE  TypeOK'
  BY <1>7, StepAfterStep DEF CpRegisters, Registers, Advance, IInv, TypeOK, Early, Creating,
     IdsUsed
<1>8. ASSUME NEW t \in Thread, CpNames(t)
      PROVE  TypeOK'
  BY <1>8, StepAfterStep DEF CpNames, Names, Advance, IInv, TypeOK
<1>9. ASSUME NEW t \in Thread, CreateFails(t)
      PROVE  TypeOK'
  BY <1>9 DEF CreateFails, Ends, IInv, TypeOK, Early, Creating, IdsUsed
<1>10. ASSUME NEW t \in Thread, NewNames(t)
      PROVE  TypeOK'
  BY <1>10 DEF NewNames, Names, Ends, IInv, TypeOK
<1>11. ASSUME NEW t \in Thread, DeleteResets(t)
      PROVE  TypeOK'
  BY <1>11 DEF DeleteResets, Names, IInv, TypeOK
<1>12. ASSUME NEW t \in Thread, DeletePops(t)
      PROVE  TypeOK'
  BY <1>12 DEF DeletePops, Ends, IInv, TypeOK
<1>13. ASSUME NEW t \in Thread, NEW s \in Service, NEW arg \in Id \cup {"latest"}, BeginDelete(t, s, arg)
      PROVE  TypeOK'
  BY <1>13 DEF BeginDelete, Victim, IInv, TypeOK, Early, Creating, IdsUsed, NamingAhead
<1>14. ASSUME NEW c \in Id, DeleteRip(c)
      PROVE  TypeOK'
  BY <1>14 DEF DeleteRip, IInv, TypeOK, threads
<1>15. CASE UNCHANGED vars
  BY <1>15 DEF vars, IInv, TypeOK, threads
<1> QED
  BY <1>1, <1>2, <1>3, <1>4, <1>5, <1>6, <1>7, <1>8, <1>9, <1>10, <1>11, <1>12, <1>13,
     <1>14, <1>15, NextActions

\* An id in use was generated, and its creator alone creates under it.
LEMMA UsedStep ==
  ASSUME IInv, [Next]_vars
  PROVE  IdsUsed'
<1>1. ASSUME NEW t \in Thread, NEW c \in Id, BeginCreate(t, c)
      PROVE  IdsUsed'
  BY <1>1 DEF BeginCreate, IInv, TypeOK, IdsUsed
<1>2. ASSUME NEW t \in Thread, NEW c \in Id, BeginNew(t, c)
      PROVE  IdsUsed'
  BY <1>2 DEF BeginNew, Registers, IInv, TypeOK, IdsUsed
<1>3. ASSUME NEW t \in Thread, SlaNames(t)
      PROVE  IdsUsed'
  BY <1>3 DEF SlaNames, Names, Advance, IInv, Early, Creating, IdsUsed
<1>4. ASSUME NEW t \in Thread, SlaRegisters(t)
      PROVE  IdsUsed'
  BY <1>4 DEF SlaRegisters, Registers, Advance, IInv, Early, Creating, IdsUsed
<1>5. ASSUME NEW t \in Thread, RipCreated(t)
      PROVE  IdsUsed'
  BY <1>5 DEF RipCreated, Registers, Names, Advance, IInv, Early, Creating, IdsUsed
<1>6. ASSUME NEW t \in Thread, RipRuns(t)
      PROVE  IdsUsed'
  BY <1>6 DEF RipRuns, Advance, IInv, Early, Creating, IdsUsed
<1>7. ASSUME NEW t \in Thread, CpRegisters(t)
      PROVE  IdsUsed'
  BY <1>7 DEF CpRegisters, Registers, Advance, IInv, Early, Creating, IdsUsed
<1>8. ASSUME NEW t \in Thread, CpNames(t)
      PROVE  IdsUsed'
  BY <1>8 DEF CpNames, Names, Advance, IInv, Creating, IdsUsed
<1>9. ASSUME NEW t \in Thread, CreateFails(t)
      PROVE  IdsUsed'
  BY <1>9 DEF CreateFails, Ends, IInv, Early, Creating, IdsUsed
<1>10. ASSUME NEW t \in Thread, NewNames(t)
      PROVE  IdsUsed'
  BY <1>10 DEF NewNames, Names, Ends, IInv, Creating, IdsUsed
<1>11. ASSUME NEW t \in Thread, DeleteResets(t)
      PROVE  IdsUsed'
  BY <1>11 DEF DeleteResets, Names, IInv, Early, Creating, Deleting, IdsUsed
<1>12. ASSUME NEW t \in Thread, DeletePops(t)
      PROVE  IdsUsed'
  BY <1>12 DEF DeletePops, Ends, IInv, Early, Creating, Deleting, IdsUsed
<1>13. ASSUME NEW t \in Thread, NEW s \in Service, NEW arg \in Id \cup {"latest"}, BeginDelete(t, s, arg)
      PROVE  IdsUsed'
  BY <1>13 DEF BeginDelete, Victim, IInv, TypeOK, Early, Creating, IdsUsed
<1>14. ASSUME NEW c \in Id, DeleteRip(c)
      PROVE  IdsUsed'
  BY <1>14 DEF DeleteRip, IInv, threads, IdsUsed
<1>15. CASE UNCHANGED vars
  BY <1>15 DEF vars, IInv, threads, IdsUsed
<1> QED
  BY <1>1, <1>2, <1>3, <1>4, <1>5, <1>6, <1>7, <1>8, <1>9, <1>10, <1>11, <1>12, <1>13,
     <1>14, <1>15, NextActions

\* A creator finds what it made, or it was deleted.
LEMMA MadeStep ==
  ASSUME IInv, [Next]_vars
  PROVE  PartsMade'
<1>1. ASSUME NEW t \in Thread, NEW c \in Id, BeginCreate(t, c)
      PROVE  PartsMade'
  BY <1>1, StepAfterStep DEF BeginCreate, IInv, TypeOK, IdsUsed, PartsMade
<1>2. ASSUME NEW t \in Thread, NEW c \in Id, BeginNew(t, c)
      PROVE  PartsMade'
  BY <1>2 DEF BeginNew, Registers, IInv, TypeOK, IdsUsed, PartsMade
<1>3. ASSUME NEW t \in Thread, SlaNames(t)
      PROVE  PartsMade'
  BY <1>3, StepAfterStep DEF SlaNames, Advance, IInv, Early, Creating, PartsMade
<1>4. ASSUME NEW t \in Thread, SlaRegisters(t)
      PROVE  PartsMade'
  BY <1>4, StepAfterStep DEF SlaRegisters, Registers, Advance, IInv, TypeOK, Early,
     Creating, PartsMade, Service
<1>5. ASSUME NEW t \in Thread, RipCreated(t)
      PROVE  PartsMade'
  BY <1>5, StepAfterStep DEF RipCreated, Registers, Advance, IInv, TypeOK, Early, Creating,
     PartsMade, Service
<1>6. ASSUME NEW t \in Thread, RipRuns(t)
      PROVE  PartsMade'
  BY <1>6 DEF RipRuns, Advance, IInv, Early, Creating, PartsMade
<1>7. ASSUME NEW t \in Thread, CpRegisters(t)
      PROVE  PartsMade'
  BY <1>7 DEF CpRegisters, Registers, Advance, IInv, Early, Creating, PartsMade
<1>8. ASSUME NEW t \in Thread, CpNames(t)
      PROVE  PartsMade'
  BY <1>8, StepAfterStep DEF CpNames, Advance, IInv, Creating, PartsMade
<1>9. ASSUME NEW t \in Thread, CreateFails(t)
      PROVE  PartsMade'
  BY <1>9 DEF CreateFails, Ends, IInv, TypeOK, Early, Creating, IdsUsed, PartsMade
<1>10. ASSUME NEW t \in Thread, NewNames(t)
      PROVE  PartsMade'
  BY <1>10 DEF NewNames, Ends, IInv, Creating, PartsMade
<1>11. ASSUME NEW t \in Thread, DeleteResets(t)
      PROVE  PartsMade'
  BY <1>11 DEF DeleteResets, IInv, Early, Creating, PartsMade
<1>12. ASSUME NEW t \in Thread, DeletePops(t)
      PROVE  PartsMade'
  BY <1>12 DEF DeletePops, Ends, IInv, TypeOK, Early, Creating, PartsMade
<1>13. ASSUME NEW t \in Thread, NEW s \in Service, NEW arg \in Id \cup {"latest"}, BeginDelete(t, s, arg)
      PROVE  PartsMade'
  BY <1>13 DEF BeginDelete, IInv, Early, Creating, PartsMade
<1>14. ASSUME NEW c \in Id, DeleteRip(c)
      PROVE  PartsMade'
  BY <1>14 DEF DeleteRip, IInv, TypeOK, threads, PartsMade
<1>15. CASE UNCHANGED vars
  BY <1>15 DEF vars, IInv, threads, PartsMade
<1> QED
  BY <1>1, <1>2, <1>3, <1>4, <1>5, <1>6, <1>7, <1>8, <1>9, <1>10, <1>11, <1>12, <1>13,
     <1>14, <1>15, NextActions

\* Nobody names or deletes what its creator has not come to: the id is not known yet.
LEMMA ComeStep ==
  ASSUME IInv, [Next]_vars
  PROVE  PartsToCome'
<1>1. ASSUME NEW t \in Thread, NEW c \in Id, BeginCreate(t, c)
      PROVE  PartsToCome'
  BY <1>1, StepAfterStep, LifecycleAssumption DEF BeginCreate, IInv, TypeOK, Deleting,
     IdsUsed, PartsToCome, Service, Deletes
<1>2. ASSUME NEW t \in Thread, NEW c \in Id, BeginNew(t, c)
      PROVE  PartsToCome'
  BY <1>2, LifecycleAssumption DEF BeginNew, Registers, IInv, TypeOK, Early, Creating,
     IdsUsed, PartsToCome, Service, Deletes
<1>3. ASSUME NEW t \in Thread, SlaNames(t)
      PROVE  PartsToCome'
  BY <1>3, StepAfterStep DEF SlaNames, Names, Advance, IInv, TypeOK, Early, Creating,
     Deleting, IdsUsed, PartsToCome, Deletes
<1>4. ASSUME NEW t \in Thread, SlaRegisters(t)
      PROVE  PartsToCome'
  BY <1>4, StepAfterStep DEF SlaRegisters, Registers, Advance, IInv, Early, Creating,
     Deleting, IdsUsed, PartsToCome, Deletes
<1>5. ASSUME NEW t \in Thread, RipCreated(t)
      PROVE  PartsToCome'
  BY <1>5, StepAfterStep DEF RipCreated, Registers, Names, Advance, IInv, Early, Deleting,
     PartsToCome, Deletes
<1>6. ASSUME NEW t \in Thread, RipRuns(t)
      PROVE  PartsToCome'
  BY <1>6, StepAfterStep DEF RipRuns, Advance, IInv, Early, Deleting, PartsToCome, Deletes
<1>7. ASSUME NEW t \in Thread, CpRegisters(t)
      PROVE  PartsToCome'
  BY <1>7, StepAfterStep DEF CpRegisters, Registers, Advance, IInv, TypeOK, Early, Creating,
     IdsUsed, PartsToCome, Deletes
<1>8. ASSUME NEW t \in Thread, CpNames(t)
      PROVE  PartsToCome'
  BY <1>8, StepAfterStep DEF CpNames, Names, Advance, IInv, TypeOK, Early, Creating,
     IdsUsed, PartsToCome, Deletes
<1>9. ASSUME NEW t \in Thread, CreateFails(t)
      PROVE  PartsToCome'
  BY <1>9 DEF CreateFails, Ends, IInv, Early, Deleting, PartsToCome, Deletes
<1>10. ASSUME NEW t \in Thread, NewNames(t)
      PROVE  PartsToCome'
  BY <1>10 DEF NewNames, Names, Ends, IInv, TypeOK, Early, Creating, IdsUsed, PartsToCome,
     Deletes
<1>11. ASSUME NEW t \in Thread, DeleteResets(t)
      PROVE  PartsToCome'
  BY <1>11, LifecycleAssumption DEF DeleteResets, Names, IInv, TypeOK, Early, Creating,
     Deleting, IdsUsed, PartsToCome, Deletes
<1>12. ASSUME NEW t \in Thread, DeletePops(t)
      PROVE  PartsToCome'
  BY <1>12 DEF DeletePops, Ends, IInv, Early, Deleting, PartsToCome, Deletes
<1>13. ASSUME NEW t \in Thread, NEW s \in Service, NEW arg \in Id \cup {"latest"}, BeginDelete(t, s, arg)
      PROVE  PartsToCome'
  BY <1>13 DEF BeginDelete, Victim, IInv, TypeOK, Early, PartsToCome, Deletes
<1>14. ASSUME NEW c \in Id, DeleteRip(c)
      PROVE  PartsToCome'
  BY <1>14 DEF DeleteRip, IInv, threads, PartsToCome, Deletes
<1>15. CASE UNCHANGED vars
  BY <1>15 DEF vars, IInv, threads, PartsToCome, Deletes
<1> QED
  BY <1>1, <1>2, <1>3, <1>4, <1>5, <1>6, <1>7, <1>8, <1>9, <1>10, <1>11, <1>12, <1>13,
     <1>14, <1>15, NextActions

\* An instance that is being taken out does not become the latest again.
LEMMA PopsStep ==
  ASSUME IInv, [Next]_vars
  PROVE  PopsAreSafe'
<1>1. ASSUME NEW t \in Thread, NEW c \in Id, BeginCreate(t, c)
      PROVE  PopsAreSafe'
  BY <1>1, StepAfterStep DEF BeginCreate, IInv, Deleting, PopsAreSafe, NamingAhead
<1>2. ASSUME NEW t \in Thread, NEW c \in Id, BeginNew(t, c)
      PROVE  PopsAreSafe'
  BY <1>2 DEF BeginNew, IInv, TypeOK, Deleting, IdsUsed, PopsAreSafe, NamingAhead
<1>3. ASSUME NEW t \in Thread, SlaNames(t)
      PROVE  PopsAreSafe'
  BY <1>3, StepAfterStep DEF SlaNames, Names, Advance, IInv, Deleting, PartsToCome,
     PopsAreSafe, Deletes, NamingAhead
<1>4. ASSUME NEW t \in Thread, SlaRegisters(t)
      PROVE  PopsAreSafe'
  BY <1>4, StepAfterStep DEF SlaRegisters, Advance, IInv, Deleting, PopsAreSafe, NamingAhead
<1>5. ASSUME NEW t \in Thread, RipCreated(t)
      PROVE  PopsAreSafe'
  BY <1>5, StepAfterStep DEF RipCreated, Names, Advance, IInv, TypeOK, Deleting,
     PopsAreSafe, NamingAhead
<1>6. ASSUME NEW t \in Thread, RipRuns(t)
      PROVE  PopsAreSafe'
  BY <1>6, StepAfterStep DEF RipRuns, Advance, IInv, Early, Deleting, PartsToCome,
     PopsAreSafe, Deletes, NamingAhead
<1>7. ASSUME NEW t \in Thread, CpRegisters(t)
      PROVE  PopsAreSafe'
  BY <1>7, StepAfterStep DEF CpRegisters, Advance, IInv, Deleting, PopsAreSafe, NamingAhead
<1>8. ASSUME NEW t \in Thread, CpNames(t)
      PROVE  PopsAreSafe'
  BY <1>8, StepAfterStep DEF CpNames, Names, Advance, IInv, Deleting, PopsAreSafe,
     NamingAhead
<1>9. ASSUME NEW t \in Thread, CreateFails(t)
      PROVE  PopsAreSafe'
  BY <1>9 DEF CreateFails, Ends, IInv, Deleting, PopsAreSafe, NamingAhead
<1>10. ASSUME NEW t \in Thread, NewNames(t)
      PROVE  PopsAreSafe'
  BY <1>10 DEF NewNames, Names, Ends, IInv, Deleting, PopsAreSafe, NamingAhead
<1>11. ASSUME NEW t \in Thread, DeleteResets(t)
      PROVE  PopsAreSafe'
  BY <1>11 DEF DeleteResets, Names, IInv, TypeOK, Deleting, PopsAreSafe, Service,
     NamingAhead
<1>12. ASSUME NEW t \in Thread, DeletePops(t)
      PROVE  PopsAreSafe'
  BY <1>12 DEF DeletePops, Ends, IInv, Deleting, PopsAreSafe, NamingAhead
<1>13. ASSUME NEW t \in Thread, NEW s \in Service, NEW arg \in Id \cup {"latest"}, BeginDelete(t, s, arg)
      PROVE  PopsAreSafe'
  BY <1>13 DEF BeginDelete, Victim, IInv, TypeOK, Early, PartsToCome, PopsAreSafe,
     NamingAhead
<1>14. ASSUME NEW c \in Id, DeleteRip(c)
      PROVE  PopsAreSafe'
  BY <1>14 DEF DeleteRip, IInv, threads, PopsAreSafe, NamingAhead
<1>15. CASE UNCHANGED vars
  BY <1>15 DEF vars, IInv, threads, PopsAreSafe, NamingAhead
<1> QED
  BY <1>1, <1>2, <1>3, <1>4, <1>5, <1>6, <1>7, <1>8, <1>9, <1>10, <1>11, <1>12, <1>13,
     <1>14, <1>15, NextActions

\* A control plane is registered after its parts, and parts go only by deletion.
LEMMA BehindStep ==
  ASSUME IInv, [Next]_vars
  PROVE  PartsStandBehind'
<1>1. ASSUME NEW t \in Thread, NEW c \in Id, BeginCreate(t, c)
      PROVE  PartsStandBehind'
  BY <1>1 DEF BeginCreate, IInv, PartsStandBehind
<1>2. ASSUME NEW t \in Thread, NEW c \in Id, BeginNew(t, c)
      PROVE  PartsStandBehind'
  BY <1>2 DEF BeginNew, Registers, IInv, PartsStandBehind
<1>3. ASSUME NEW t \in Thread, SlaNames(t)
      PROVE  PartsStandBehind'
  BY <1>3 DEF SlaNames, IInv, PartsStandBehind
<1>4. ASSUME NEW t \in Thread, SlaRegisters(t)
      PROVE  PartsStandBehind'
  BY <1>4 DEF SlaRegisters, Registers, IInv, PartsStandBehind
<1>5. ASSUME NEW t \in Thread, RipCreated(t)
      PROVE  PartsStandBehind'
  BY <1>5 DEF RipCreated, Registers, IInv, PartsStandBehind
<1>6. ASSUME NEW t \in Thread, RipRuns(t)
      PROVE  PartsStandBehind'
  BY <1>6 DEF RipRuns, IInv, PartsStandBehind
<1>7. ASSUME NEW t \in Thread, CpRegisters(t)
      PROVE  PartsStandBehind'
  BY <1>7 DEF CpRegisters, Registers, IInv, Early, Creating, PartsMade, PartsStandBehind
<1>8. ASSUME NEW t \in Thread, CpNames(t)
      PROVE  PartsStandBehind'
  BY <1>8 DEF CpNames, IInv, PartsStandBehind
<1>9. ASSUME NEW t \in Thread, CreateFails(t)
      PROVE  PartsStandBehind'
  BY <1>9 DEF CreateFails, IInv, Early, PartsToCome, PartsStandBehind
<1>10. ASSUME NEW t \in Thread, NewNames(t)
      PROVE  PartsStandBehind'
  BY <1>10 DEF NewNames, IInv, PartsStandBehind
<1>11. ASSUME NEW t \in Thread, DeleteResets(t)
      PROVE  PartsStandBehind'
  BY <1>11 DEF DeleteResets, IInv, PartsStandBehind
<1>12. ASSUME NEW t \in Thread, DeletePops(t)
      PROVE  PartsStandBehind'
  BY <1>12 DEF DeletePops, IInv, TypeOK, PartsStandBehind
<1>13. ASSUME NEW t \in Thread, NEW s \in Service, NEW arg \in Id \cup {"latest"}, BeginDelete(t, s, arg)
      PROVE  PartsStandBehind'
  BY <1>13 DEF BeginDelete, IInv, PartsStandBehind
<1>14. ASSUME NEW c \in Id, DeleteRip(c)
      PROVE  PartsStandBehind'
  BY <1>14 DEF DeleteRip, IInv, TypeOK, PartsStandBehind
<1>15. CASE UNCHANGED vars
  BY <1>15 DEF vars, IInv, PartsStandBehind
<1> QED
  BY <1>1, <1>2, <1>3, <1>4, <1>5, <1>6, <1>7, <1>8, <1>9, <1>10, <1>11, <1>12, <1>13,
     <1>14, <1>15, NextActions

\* An instance about to be named is registered; one that is gone was overtaken.
LEMMA NamesStep ==
  ASSUME IInv, [Next]_vars
  PROVE  NamesWhatIsThere'
<1>1. ASSUME NEW t \in Thread, NEW c \in Id, BeginCreate(t, c)
      PROVE  NamesWhatIsThere'
  BY <1>1, StepAfterStep DEF BeginCreate, IInv, NamesWhatIsThere
<1>2. ASSUME NEW t \in Thread, NEW c \in Id, BeginNew(t, c)
      PROVE  NamesWhatIsThere'
  BY <1>2 DEF BeginNew, Registers, IInv, TypeOK, NamesWhatIsThere, Service
<1>3. ASSUME NEW t \in Thread, SlaNames(t)
      PROVE  NamesWhatIsThere'
  BY <1>3, StepAfterStep DEF SlaNames, Advance, IInv, NamesWhatIsThere
<1>4. ASSUME NEW t \in Thread, SlaRegisters(t)
      PROVE  NamesWhatIsThere'
  BY <1>4, StepAfterStep DEF SlaRegisters, Registers, Advance, IInv, NamesWhatIsThere
<1>5. ASSUME NEW t \in Thread, RipCreated(t)
      PROVE  NamesWhatIsThere'
  BY <1>5, StepAfterStep DEF RipCreated, Registers, Advance, IInv, NamesWhatIsThere
<1>6. ASSUME NEW t \in Thread, RipRuns(t)
      PROVE  NamesWhatIsThere'
  BY <1>6, StepAfterStep DEF RipRuns, Advance, IInv, NamesWhatIsThere
<1>7. ASSUME NEW t \in Thread, CpRegisters(t)
      PROVE  NamesWhatIsThere'
  BY <1>7, StepAfterStep DEF CpRegisters, Registers, Advance, IInv, TypeOK,
     NamesWhatIsThere, Service
<1>8. ASSUME NEW t \in Thread, CpNames(t)
      PROVE  NamesWhatIsThere'
  BY <1>8, StepAfterStep DEF CpNames, Advance, IInv, NamesWhatIsThere
<1>9. ASSUME NEW t \in Thread, CreateFails(t)
      PROVE  NamesWhatIsThere'
  BY <1>9 DEF CreateFails, Ends, IInv, NamesWhatIsThere
<1>10. ASSUME NEW t \in Thread, NewNames(t)
      PROVE  NamesWhatIsThere'
  BY <1>10 DEF NewNames, Ends, IInv, NamesWhatIsThere
<1>11. ASSUME NEW t \in Thread, DeleteResets(t)
      PROVE  NamesWhatIsThere'
  BY <1>11 DEF DeleteResets, IInv, NamesWhatIsThere
<1>12. ASSUME NEW t \in Thread, DeletePops(t)
      PROVE  NamesWhatIsThere'
  BY <1>12, LifecycleAssumption DEF DeletePops, Ends, IInv, TypeOK, Deleting, PopsAreSafe,
     NamesWhatIsThere, NamingAhead
<1>13. ASSUME NEW t \in Thread, NEW s \in Service, NEW arg \in Id \cup {"latest"}, BeginDelete(t, s, arg)
      PROVE  NamesWhatIsThere'
  BY <1>13 DEF BeginDelete, IInv, NamesWhatIsThere
<1>14. ASSUME NEW c \in Id, DeleteRip(c)
      PROVE  NamesWhatIsThere'
  BY <1>14 DEF DeleteRip, IInv, threads, NamesWhatIsThere
<1>15. CASE UNCHANGED vars
  BY <1>15 DEF vars, IInv, threads, NamesWhatIsThere
<1> QED
  BY <1>1, <1>2, <1>3, <1>4, <1>5, <1>6, <1>7, <1>8, <1>9, <1>10, <1>11, <1>12, <1>13,
     <1>14, <1>15, NextActions

\* The latest instance is there, or it is one of the cases that leave a dangling name.
LEMMA ResolvesStep ==
  ASSUME IInv, [Next]_vars
  PROVE  LatestResolves'
<1>1. ASSUME NEW t \in Thread, NEW c \in Id, BeginCreate(t, c)
      PROVE  LatestResolves'
  BY <1>1 DEF BeginCreate, IInv, LatestResolves, Found
<1>2. ASSUME NEW t \in Thread, NEW c \in Id, BeginNew(t, c)
      PROVE  LatestResolves'
  BY <1>2 DEF BeginNew, Registers, IInv, LatestResolves, Found
<1>3. ASSUME NEW t \in Thread, SlaNames(t)
      PROVE  LatestResolves'
  BY <1>3, StepAfterStep DEF SlaNames, Names, Advance, IInv, TypeOK, LatestResolves, Found
<1>4. ASSUME NEW t \in Thread, SlaRegisters(t)
      PROVE  LatestResolves'
  BY <1>4 DEF SlaRegisters, Registers, Advance, IInv, TypeOK, LatestResolves, Found
<1>5. ASSUME NEW t \in Thread, RipCreated(t)
      PROVE  LatestResolves'
  BY <1>5 DEF RipCreated, Registers, Names, Advance, IInv, TypeOK, LatestResolves, Found
<1>6. ASSUME NEW t \in Thread, RipRuns(t)
      PROVE  LatestResolves'
  BY <1>6 DEF RipRuns, Advance, IInv, LatestResolves, Found
<1>7. ASSUME NEW t \in Thread, CpRegisters(t)
      PROVE  LatestResolves'
  BY <1>7 DEF CpRegisters, Registers, Advance, IInv, LatestResolves, Found
<1>8. ASSUME NEW t \in Thread, CpNames(t)
      PROVE  LatestResolves'
  BY <1>8 DEF CpNames, Names, Advance, IInv, TypeOK, NamesWhatIsThere, LatestResolves,
     Found, Service
<1>9. ASSUME NEW t \in Thread, CreateFails(t)
      PROVE  LatestResolves'
  BY <1>9 DEF CreateFails, Ends, IInv, LatestResolves, Found
<1>10. ASSUME NEW t \in Thread, NewNames(t)
      PROVE  LatestResolves'
  BY <1>10 DEF NewNames, Names, IInv, TypeOK, NamesWhatIsThere, LatestResolves, Found,
     Service
<1>11. ASSUME NEW t \in Thread, DeleteResets(t)
      PROVE  LatestResolves'
  BY <1>11 DEF DeleteResets, Names, IInv, LatestResolves, Found
<1>12. ASSUME NEW t \in Thread, DeletePops(t)
      PROVE  LatestResolves'
  BY <1>12 DEF DeletePops, Ends, IInv, Deleting, PopsAreSafe, LatestResolves, Found
<1>13. ASSUME NEW t \in Thread, NEW s \in Service, NEW arg \in Id \cup {"latest"}, BeginDelete(t, s, arg)
      PROVE  LatestResolves'
  BY <1>13 DEF BeginDelete, IInv, LatestResolves, Found
<1>14. ASSUME NEW c \in Id, DeleteRip(c)
      PROVE  LatestResolves'
  BY <1>14 DEF DeleteRip, IInv, TypeOK, threads, LatestResolves, Found
<1>15. CASE UNCHANGED vars
  BY <1>15 DEF vars, IInv, threads, LatestResolves, Found
<1> QED
  BY <1>1, <1>2, <1>3, <1>4, <1>5, <1>6, <1>7, <1>8, <1>9, <1>10, <1>11, <1>12, <1>13,
     <1>14, <1>15, NextActions

\* The inductive invariant holds throughout.
LEMMA Inductive == Spec => []IInv
<1>1. IInv /\ [Next]_vars => IInv'
  <2> SUFFICES ASSUME IInv, [Next]_vars
               PROVE  IInv'
    OBVIOUS
  <2> QED
    BY TypeStep, UsedStep, MadeStep, ComeStep, PopsStep, BehindStep, NamesStep, ResolvesStep
       DEF IInv
<1> QED
  BY InvInit, <1>1, PTL DEF Spec

\* The registries hold ids, and every thread is at a step of the call it serves.
THEOREM TypeCorrect == Spec => []TypeOK
<1>1. IInv => TypeOK
  BY DEF IInv
<1> QED
  BY <1>1, Inductive, PTL

\* A control plane that one can call has its SLA and RIP instances, and the latter runs,
\* unless they were deleted, however creations and deletions overlap and fail.
THEOREM PartsAlwaysStandBehind == Spec => []PartsStandBehind
<1>1. IInv => PartsStandBehind
  BY DEF IInv
<1> QED
  BY <1>1, Inductive, PTL

\* LATEST_INSTANCE_ID names an instance that is there, but where a deletion came between
\* registration and naming or, in SLA, a name came before its instance.
THEOREM LatestAlwaysResolves == Spec => []LatestResolves
<1>1. IInv => LatestResolves
  BY DEF IInv
<1> QED
  BY <1>1, Inductive, PTL

=============================================================================
