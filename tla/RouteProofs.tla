------------------------------ MODULE RouteProofs ------------------------------
(***************************************************************************)
(* Proofs about the two modules that have neither threads nor messages:    *)
(* IndexedRib, for any set of entries, and Classful, for addresses of any  *)
(* width and any lengths of the classes.                                   *)
(*                                                                         *)
(* A dictionary that agrees with a set of entries is the partition of the  *)
(* set by the field.  add_route_entry and remove_route_entry work on the   *)
(* set and on the dictionaries apart: both keep partitions partitions.     *)
(*                                                                         *)
(* The network that RIP1_Route.classful finds for a prefix depends on the  *)
(* address alone, and is the block of addresses it lies in: masking cuts   *)
(* the addresses into blocks, and blocks of one length into shorter ones.  *)
(***************************************************************************)
EXTENDS IndexedRib, Classful, TLAPS, WellFoundedInduction

Partition(f, S) == [k \in {e[f] : e \in S} |-> {e \in S : e[f] = k}]

Distinct(S) == \A x, y \in S : Equal(x, y) => x = y

-----------------------------------------------------------------------------
(* IndexedRib: the operators.                                              *)

\* Equal entries agree in every field that has a dictionary.
LEMMA EqualFields ==
  ASSUME NEW x, NEW e, Equal(x, e), NEW f \in Indexed
  PROVE  x[f] = e[f]
BY DEF Equal, Value, Indexed

\* IndexesAgree in terms of partitions.
LEMMA AgreeAsPartition ==
  IndexesAgree <=>
    /\ entries \subseteq Entry
    /\ Distinct(entries)
    /\ index = [f \in Indexed |-> Partition(f, entries)]
BY DEF IndexesAgree, Distinct, Partition

\* Under a value there are the entries that have it, none if it is no key.
LEMMA AtPartition ==
  ASSUME NEW S, NEW f, NEW k
  PROVE  At(Partition(f, S), k) = {e \in S : e[f] = k}
BY DEF At, Partition

\* Adding an entry to the dictionary of a set, and adding it to the set, is one and the
\* same, also when the set has an equal entry already.
LEMMA WithPartition ==
  ASSUME NEW S, NEW f \in Indexed, NEW e
  PROVE  With(f, Partition(f, S), e) = Partition(f, Put(S, e))
<1> DEFINE Old == Partition(f, S)
           Of(T, k) == {x \in T : x[f] = k}
<1>1. \A k : At(Old, k) = Of(S, k)
  BY AtPartition
<1>2. CASE \E x \in S : Equal(x, e)
  <2>1. PICK x \in S : Equal(x, e)
    BY <1>2
  <2>2. x \in Of(S, e[f])
    BY <2>1, EqualFields
  <2>3. Put(S, e) = S /\ Put(Of(S, e[f]), e) = Of(S, e[f])
    BY <2>1, <2>2 DEF Put
  <2>4. DOMAIN Old \cup {e[f]} = DOMAIN Old
    BY <2>2 DEF Partition
  <2> QED
    BY <1>1, <2>3, <2>4 DEF With, Partition
<1>3. CASE ~ \E x \in S : Equal(x, e)
  <2>1. Put(S, e) = S \cup {e} /\ Put(Of(S, e[f]), e) = Of(S, e[f]) \cup {e}
    BY <1>3 DEF Put
  <2>2. DOMAIN Old \cup {e[f]} = {x[f] : x \in S \cup {e}}
    BY DEF Partition
  <2>3. ASSUME NEW k \in DOMAIN Old \cup {e[f]}
        PROVE  (IF k = e[f] THEN Put(At(Old, k), e) ELSE Old[k]) = Of(S \cup {e}, k)
    <3>1. CASE k = e[f]
      BY <1>1, <2>1, <3>1
    <3>2. CASE k # e[f]
      BY <3>2 DEF Partition
    <3> QED
      BY <3>1, <3>2
  <2>4. With(f, Old, e) =
          [k \in DOMAIN Old \cup {e[f]} |-> IF k = e[f] THEN Put(At(Old, k), e) ELSE Old[k]]
    BY DEF With
  <2>5. Partition(f, S \cup {e}) = [k \in {x[f] : x \in S \cup {e}} |-> Of(S \cup {e}, k)]
    BY DEF Partition
  <2> HIDE DEF Old, Of
  <2>6. With(f, Old, e) = [k \in {x[f] : x \in S \cup {e}} |-> Of(S \cup {e}, k)]
    BY <2>2, <2>3, <2>4
  <2> QED
    BY <2>1, <2>5, <2>6 DEF Old
<1> QED
  BY <1>2, <1>3

\* So it is with removing entries: to look at the values of those entries only is enough,
\* for an entry equal to one of them has that one's values.
LEMMA WithoutPartition ==
  ASSUME NEW S, NEW f \in Indexed, NEW gone
  PROVE  Without(f, Partition(f, S), gone) = Partition(f, Drop(S, gone))
<1> DEFINE Old == Partition(f, S)
           Of(T, k) == {x \in T : x[f] = k}
           touched == {e[f] : e \in gone} \cap DOMAIN Old
           emptied == {k \in touched : Drop(Old[k], gone) = {}}
<1>1. ASSUME NEW k \in DOMAIN Old
      PROVE  Old[k] = Of(S, k) /\ Of(S, k) # {} /\ Drop(Of(S, k), gone) = Of(Drop(S, gone), k)
  BY DEF Partition, Drop
<1>2. ASSUME NEW k \in DOMAIN Old \ touched
      PROVE  Of(Drop(S, gone), k) = Of(S, k)
  <2> SUFFICES ASSUME NEW x \in S, x[f] = k, NEW e \in gone, Equal(x, e)
               PROVE  FALSE
    BY DEF Drop
  <2> QED
    BY EqualFields
<1>3. ASSUME NEW k \in DOMAIN Old
      PROVE  k \in emptied <=> Of(Drop(S, gone), k) = {}
  BY <1>1, <1>2
<1>4. \A k : k \in {x[f] : x \in Drop(S, gone)} <=> k \in DOMAIN Old /\ Of(Drop(S, gone), k) # {}
  BY DEF Drop, Partition
<1>5. DOMAIN Old \ emptied = {x[f] : x \in Drop(S, gone)}
  BY <1>3, <1>4
<1>6. ASSUME NEW k \in DOMAIN Old \ emptied
      PROVE  (IF k \in touched THEN Drop(Old[k], gone) ELSE Old[k]) = Of(Drop(S, gone), k)
  BY <1>1, <1>2
<1>7. Without(f, Old, gone) =
        [k \in DOMAIN Old \ emptied |-> IF k \in touched THEN Drop(Old[k], gone) ELSE Old[k]]
  BY DEF Without
<1>8. Partition(f, Drop(S, gone)) =
        [k \in {x[f] : x \in Drop(S, gone)} |-> Of(Drop(S, gone), k)]
  BY DEF Partition
<1> HIDE DEF Old, Of, touched, emptied
<1>9. Without(f, Old, gone) = [k \in {x[f] : x \in Drop(S, gone)} |-> Of(Drop(S, gone), k)]
  BY <1>5, <1>6, <1>7
<1> QED
  BY <1>8, <1>9 DEF Old

\* A set of distinct entries stays one.
LEMMA PutDistinct ==
  ASSUME NEW S, Distinct(S), NEW e
  PROVE  Distinct(Put(S, e))
BY DEF Distinct, Put, Equal

\* And so it does when some of them go.
LEMMA DropDistinct ==
  ASSUME NEW S, Distinct(S), NEW gone
  PROVE  Distinct(Drop(S, gone))
BY DEF Distinct, Drop

-----------------------------------------------------------------------------
(* The dictionaries agree with the set.                                    *)

\* Empty, the set and the dictionaries agree.
LEMMA AgreeInit == Init => IndexesAgree
<1> SUFFICES ASSUME Init
             PROVE  IndexesAgree
  OBVIOUS
<1>1. \A f : Partition(f, {}) = [k \in {} |-> {}]
  BY DEF Partition
<1> QED
  BY <1>1, AgreeAsPartition DEF Init, Distinct

\* Every operation keeps the set and the dictionaries in agreement.
LEMMA AgreeStep == IndexesAgree /\ [Next]_vars => IndexesAgree'
<1> SUFFICES ASSUME IndexesAgree, [Next]_vars
             PROVE  /\ entries' \subseteq Entry
                    /\ Distinct(entries')
                    /\ index' = [f \in Indexed |-> Partition(f, entries')]
  BY DEF IndexesAgree, Distinct, Partition
<1>0. /\ entries \subseteq Entry
      /\ Distinct(entries)
      /\ index = [f \in Indexed |-> Partition(f, entries)]
  BY AgreeAsPartition
<1>1. ASSUME NEW e \in Entry, Add(e)
      PROVE  /\ entries' \subseteq Entry
             /\ Distinct(entries')
             /\ index' = [f \in Indexed |-> Partition(f, entries')]
  <2>1. entries' \subseteq Entry /\ Distinct(entries')
    BY <1>0, <1>1, PutDistinct DEF Add, Put
  <2>2. \A f \in Indexed : With(f, index[f], e) = Partition(f, entries')
    BY <1>0, <1>1, WithPartition DEF Add
  <2> QED
    BY <1>1, <2>1, <2>2 DEF Add
<1>2. ASSUME NEW gone, entries' = Drop(entries, gone),
             index' = [f \in Indexed |-> Without(f, index[f], gone)]
      PROVE  /\ entries' \subseteq Entry
             /\ Distinct(entries')
             /\ index' = [f \in Indexed |-> Partition(f, entries')]
  <2>1. entries' \subseteq Entry /\ Distinct(entries')
    BY <1>0, <1>2, DropDistinct DEF Drop
  <2>2. \A f \in Indexed : Without(f, index[f], gone) = Partition(f, entries')
    BY <1>0, <1>2, WithoutPartition
  <2> QED
    BY <1>2, <2>1, <2>2
<1>3. ASSUME NEW e \in Entry, Remove(e) \/ RemoveSource(e["source"])
      PROVE  \E gone : /\ entries' = Drop(entries, gone)
                       /\ index' = [f \in Indexed |-> Without(f, index[f], gone)]
  BY <1>3 DEF Remove, RemoveSource
<1>4. CASE UNCHANGED vars
  BY <1>0, <1>4 DEF vars
<1> QED
  BY <1>1, <1>2, <1>3, <1>4 DEF Next

\* The set and its three dictionaries always agree, for any entries, added and removed
\* in any order.
THEOREM AlwaysAgree == Spec => []IndexesAgree
<1> QED
  BY AgreeInit, AgreeStep, PTL DEF Spec

-----------------------------------------------------------------------------
(* What the dictionaries are used for.                                     *)

\* The dictionary of a field has the entries of the set under their values.
LEMMA AtIndex ==
  ASSUME IndexesAgree, NEW f \in Indexed, NEW k
  PROVE  At(index[f], k) = {e \in entries : e[f] = k}
<1>1. index[f] = Partition(f, entries)
  BY AgreeAsPartition
<1> QED
  BY <1>1, AtPartition

\* remove_route_entries_from_source goes by the dictionary of sources and the equality
\* of entries, and leaves exactly the entries of the other sources.
LEMMA RemovesSource ==
  ASSUME IndexesAgree, NEW s, RemoveSource(s)
  PROVE  entries' = {x \in entries : x["source"] # s}
<1>1. OfSource(s) = {x \in entries : x["source"] = s}
  BY AtIndex DEF OfSource, Indexed
<1>2. \A x, y : Equal(x, y) => x["source"] = y["source"]
  BY EqualFields DEF Indexed
<1>3. \A x : Equal(x, x)
  BY DEF Equal
<1>4. entries' = Drop(entries, OfSource(s))
  BY DEF RemoveSource
<1> QED
  BY <1>1, <1>2, <1>3, <1>4 DEF Drop

\* Taking out a source takes every entry of it out of the set, and no other.
THEOREM SourceAlwaysGone == Spec => SourceGone
<1>1. ASSUME IndexesAgree, [Next]_vars
      PROVE  [\A e \in Entry : RemoveSource(e["source"]) =>
                entries' = {x \in entries : x["source"] # e["source"]}]_vars
  BY <1>1, RemovesSource
<1> QED
  BY <1>1, AlwaysAgree, PTL DEF Spec, SourceGone

\* The search through the set and the intersection of what the dictionaries have under
\* the given arguments: one answer, in every state, for arguments that have something in
\* common and where none is given.
THEOREM AlwaysSearchAgrees == Spec => []SearchAgrees
<1>1. ASSUME IndexesAgree
      PROVE  SearchAgrees
  <2> DEFINE Values(f) == {e[f] : e \in Entry} \cup {Any}
             Under(f, v) == IF v = Any THEN entries ELSE At(index[f], v)
  <2> SUFFICES ASSUME NEW p \in Values("prefix"), NEW h \in Values("next_hop"),
                      NEW s \in Values("source")
               PROVE  LET common == Under("prefix", p) \cap Under("next_hop", h) \cap Under("source", s)
                      IN common # {} \/ {p, h, s} = {Any} => Search(p, h, s) = common
    BY DEF SearchAgrees
  <2>1. \A f \in Indexed : \A v : Under(f, v) = {e \in entries : v \in {Any, e[f]}}
    BY <1>1, AtIndex
  <2>2. Under("prefix", p) \cap Under("next_hop", h) \cap Under("source", s)
          = {e \in entries : Matches(e, p, h, s)}
    BY <2>1 DEF Matches, Indexed
  <2>3. {p, h, s} = {Any}
          => Under("prefix", p) \cap Under("next_hop", h) \cap Under("source", s) = entries
    OBVIOUS
  <2> HIDE DEF Under
  <2> QED
    BY <2>2, <2>3 DEF Search
<1> QED
  BY <1>1, AlwaysAgree, PTL

-----------------------------------------------------------------------------
(* The set and each dictionary implement RouteSet.                         *)

\* Identified takes each entry of a set of distinct ones by its identity.
LEMMA IdentifiedLemma ==
  ASSUME NEW S, Distinct(S)
  PROVE  /\ DOMAIN Identified(S) = {Value(e) : e \in S}
         /\ \A e \in S : Identified(S)[Value(e)] = e
         /\ \A T : Identified(S) = [i \in T |-> Identified(S)[i]] <=> T = {Value(e) : e \in S}
<1>1. ASSUME NEW e \in S
      PROVE  (CHOOSE x \in S : Value(x) = Value(e)) = e
  BY DEF Distinct, Equal
<1> QED
  BY <1>1 DEF Identified

\* A function is the entries of S by identity when it has their identities and gives
\* each the entry.
LEMMA IdentifiedUnique ==
  ASSUME NEW S, Distinct(S), NEW I, NEW g, g = [i \in I |-> g[i]],
         I = {Value(e) : e \in S}, \A e \in S : g[Value(e)] = e
  PROVE  Identified(S) = g
<1>1. DOMAIN Identified(S) = I /\ \A e \in S : Identified(S)[Value(e)] = e
  BY IdentifiedLemma
<1>2. Identified(S) = [i \in I |-> Identified(S)[i]]
  BY <1>1 DEF Identified
<1>3. \A i \in I : Identified(S)[i] = g[i]
  BY <1>1
<1> QED
  BY <1>2, <1>3

\* An empty set of entries is the empty abstract table.
LEMMA SetInit == Init => BySet!Init
<1>1. Identified({}) = [i \in {} |-> {}]
  BY DEF Identified
<1> QED
  BY <1>1 DEF Init, BySet!Init

\* Every step of the RIB is a step of RouteSet, or changes no route of it.
LEMMA SetStep == IndexesAgree /\ IndexesAgree' /\ [Next]_vars => [BySet!Next]_(Identified(entries))
<1> SUFFICES ASSUME IndexesAgree, IndexesAgree', [Next]_vars
             PROVE  BySet!Next \/ Identified(entries)' = Identified(entries)
  OBVIOUS
<1> DEFINE R == Identified(entries)
<1>0. Distinct(entries) /\ Distinct(entries') /\ entries \subseteq Entry
  BY DEF IndexesAgree, Distinct
<1>a. /\ DOMAIN R = {Value(x) : x \in entries}
      /\ \A x \in entries : R[Value(x)] = x
  BY <1>0, IdentifiedLemma
<1>1. ASSUME NEW e \in Entry, Add(e)
      PROVE  BySet!Add(e) \/ R' = R
  <2>1. CASE \E x \in entries : Equal(x, e)
    BY <1>1, <2>1 DEF Add, Put
  <2>2. CASE ~ \E x \in entries : Equal(x, e)
    <3> DEFINE g == [i \in DOMAIN R \cup {Value(e)} |-> IF i = Value(e) THEN e ELSE R[i]]
    <3>1. entries' = entries \cup {e}
      BY <1>1, <2>2 DEF Add, Put
    <3>2. Value(e) \notin DOMAIN R
      BY <1>a, <2>2 DEF Equal
    <3>3. DOMAIN R \cup {Value(e)} = {Value(x) : x \in entries'}
      BY <1>a, <3>1
    <3>4. \A x \in entries' : g[Value(x)] = x
      BY <1>a, <3>1, <3>2
    <3>5. R' = g
      <4> HIDE DEF R
      <4>1. g = [i \in DOMAIN R \cup {Value(e)} |-> g[i]]
        OBVIOUS
      <4> HIDE DEF g
      <4>2. Identified(entries') = g
        BY <1>0, <3>3, <3>4, <4>1, IdentifiedUnique
      <4> QED
        BY <4>2 DEF R
    <3> QED
      BY <3>2, <3>5 DEF BySet!Add, BySet!Id, Value
  <2> QED
    BY <2>1, <2>2
<1>2. ASSUME NEW I \in SUBSET DOMAIN R, entries' = {x \in entries : Value(x) \in I}
      PROVE  R' = [i \in I |-> R[i]]
  <2> DEFINE g == [i \in I |-> R[i]]
  <2>1. I = {Value(x) : x \in entries'}
    BY <1>a, <1>2
  <2>2. \A x \in entries' : g[Value(x)] = x
    BY <1>a, <1>2
  <2> HIDE DEF R
  <2>3. g = [i \in I |-> g[i]]
    OBVIOUS
  <2> HIDE DEF g
  <2>4. Identified(entries') = g
    BY <1>0, <2>1, <2>2, <2>3, IdentifiedUnique
  <2> QED
    BY <2>4 DEF R, g
<1>3. ASSUME NEW e \in Entry, Remove(e)
      PROVE  BySet!Remove(e)
  <2> DEFINE I == DOMAIN R \ {Value(e)}
  <2>1. entries' = {x \in entries : Value(x) \in I}
    BY <1>a, <1>3 DEF Remove, Drop, Equal
  <2>2. R' = [i \in I |-> R[i]]
    BY <1>2, <2>1
  <2> QED
    BY <2>2 DEF BySet!Remove, BySet!Keeping, BySet!Id, Value
<1>4. ASSUME NEW e \in Entry, RemoveSource(e["source"])
      PROVE  BySet!RemoveSource(e["source"])
  <2> DEFINE I == {i \in DOMAIN R : R[i]["source"] # e["source"]}
  <2>1. entries' = {x \in entries : x["source"] # e["source"]}
    BY <1>4, RemovesSource
  <2>2. entries' = {x \in entries : Value(x) \in I}
    BY <1>a, <2>1
  <2>3. R' = [i \in I |-> R[i]]
    BY <1>2, <2>2
  <2> QED
    BY <2>3 DEF BySet!RemoveSource, BySet!Keeping
<1>5. CASE UNCHANGED vars
  BY <1>5 DEF vars
<1> QED
  BY <1>1, <1>3, <1>4, <1>5 DEF Next, BySet!Next

\* Each dictionary holds the entries of the set between its values.
LEMMA InDictionaryAll ==
  ASSUME IndexesAgree, NEW f \in Indexed
  PROVE  InDictionary(f) = entries
<1>1. index[f] = Partition(f, entries)
  BY AgreeAsPartition
<1> QED
  BY <1>1 DEF InDictionary, Partition

\* As entries by identity it is the same table, before a step and after it.
LEMMA SameTable ==
  ASSUME IndexesAgree, IndexesAgree', NEW f \in Indexed
  PROVE  /\ Identified(InDictionary(f)) = Identified(entries)
         /\ Identified(InDictionary(f))' = Identified(entries)'
<1>1. InDictionary(f) = entries
  BY InDictionaryAll
<1>2. InDictionary(f)' = entries'
  <2>1. IndexesAgree' => index'[f] = Partition(f, entries')
    BY DEF IndexesAgree, Partition
  <2> QED
    BY <2>1 DEF InDictionary, Partition
<1> QED
  BY <1>1, <1>2

\* So is an empty dictionary of prefixes.
LEMMA PrefixInit == Init => ByPrefix!Init
<1> SUFFICES ASSUME Init
             PROVE  ByPrefix!Init
  OBVIOUS
<1>1. InDictionary("prefix") = {}
  BY DEF InDictionary, Init, Indexed
<1>2. Identified({}) = [i \in {} |-> {}]
  BY DEF Identified
<1> QED
  BY <1>1, <1>2 DEF ByPrefix!Init

\* Every operation acts on the dictionary of prefixes as the abstract one does.
LEMMA PrefixStep ==
  IndexesAgree /\ IndexesAgree' /\ [Next]_vars => [ByPrefix!Next]_(Identified(InDictionary("prefix")))
<1> SUFFICES ASSUME IndexesAgree, IndexesAgree', [Next]_vars
             PROVE  [ByPrefix!Next]_(Identified(InDictionary("prefix")))
  OBVIOUS
<1>1. /\ Identified(InDictionary("prefix")) = Identified(entries)
      /\ Identified(InDictionary("prefix"))' = Identified(entries)'
  BY SameTable DEF Indexed
<1>2. [BySet!Next]_(Identified(entries))
  BY SetStep
<1>3. \A e \in Entry : BySet!Add(e) => ByPrefix!Add(e)
  BY <1>1 DEF BySet!Add, BySet!Id, ByPrefix!Add, ByPrefix!Id
<1>4. \A e \in Entry : BySet!Remove(e) => ByPrefix!Remove(e)
  BY <1>1 DEF BySet!Remove, BySet!Keeping, BySet!Id, ByPrefix!Remove, ByPrefix!Keeping, ByPrefix!Id
<1>5. \A e \in Entry : BySet!RemoveSource(e["source"]) => ByPrefix!RemoveSource(e["source"])
  BY <1>1 DEF BySet!RemoveSource, BySet!Keeping, ByPrefix!RemoveSource, ByPrefix!Keeping
<1> QED
  BY <1>1, <1>2, <1>3, <1>4, <1>5 DEF BySet!Next, ByPrefix!Next

\* An empty dictionary of next hops is the empty abstract table.
LEMMA NextHopInit == Init => ByNextHop!Init
<1> SUFFICES ASSUME Init
             PROVE  ByNextHop!Init
  OBVIOUS
<1>1. InDictionary("next_hop") = {}
  BY DEF InDictionary, Init, Indexed
<1>2. Identified({}) = [i \in {} |-> {}]
  BY DEF Identified
<1> QED
  BY <1>1, <1>2 DEF ByNextHop!Init

\* Every operation acts on the dictionary of next hops as the abstract one does.
LEMMA NextHopStep ==
  IndexesAgree /\ IndexesAgree' /\ [Next]_vars => [ByNextHop!Next]_(Identified(InDictionary("next_hop")))
<1> SUFFICES ASSUME IndexesAgree, IndexesAgree', [Next]_vars
             PROVE  [ByNextHop!Next]_(Identified(InDictionary("next_hop")))
  OBVIOUS
<1>1. /\ Identified(InDictionary("next_hop")) = Identified(entries)
      /\ Identified(InDictionary("next_hop"))' = Identified(entries)'
  BY SameTable DEF Indexed
<1>2. [BySet!Next]_(Identified(entries))
  BY SetStep
<1>3. \A e \in Entry : BySet!Add(e) => ByNextHop!Add(e)
  BY <1>1 DEF BySet!Add, BySet!Id, ByNextHop!Add, ByNextHop!Id
<1>4. \A e \in Entry : BySet!Remove(e) => ByNextHop!Remove(e)
  BY <1>1 DEF BySet!Remove, BySet!Keeping, BySet!Id, ByNextHop!Remove, ByNextHop!Keeping, ByNextHop!Id
<1>5. \A e \in Entry : BySet!RemoveSource(e["source"]) => ByNextHop!RemoveSource(e["source"])
  BY <1>1 DEF BySet!RemoveSource, BySet!Keeping, ByNextHop!RemoveSource, ByNextHop!Keeping
<1> QED
  BY <1>1, <1>2, <1>3, <1>4, <1>5 DEF BySet!Next, ByNextHop!Next

\* An empty dictionary of sources is the empty abstract table.
LEMMA SourceInit == Init => BySource!Init
<1> SUFFICES ASSUME Init
             PROVE  BySource!Init
  OBVIOUS
<1>1. InDictionary("source") = {}
  BY DEF InDictionary, Init, Indexed
<1>2. Identified({}) = [i \in {} |-> {}]
  BY DEF Identified
<1> QED
  BY <1>1, <1>2 DEF BySource!Init

\* Every operation acts on the dictionary of sources as the abstract one does.
LEMMA SourceStep ==
  IndexesAgree /\ IndexesAgree' /\ [Next]_vars => [BySource!Next]_(Identified(InDictionary("source")))
<1> SUFFICES ASSUME IndexesAgree, IndexesAgree', [Next]_vars
             PROVE  [BySource!Next]_(Identified(InDictionary("source")))
  OBVIOUS
<1>1. /\ Identified(InDictionary("source")) = Identified(entries)
      /\ Identified(InDictionary("source"))' = Identified(entries)'
  BY SameTable DEF Indexed
<1>2. [BySet!Next]_(Identified(entries))
  BY SetStep
<1>3. \A e \in Entry : BySet!Add(e) => BySource!Add(e)
  BY <1>1 DEF BySet!Add, BySet!Id, BySource!Add, BySource!Id
<1>4. \A e \in Entry : BySet!Remove(e) => BySource!Remove(e)
  BY <1>1 DEF BySet!Remove, BySet!Keeping, BySet!Id, BySource!Remove, BySource!Keeping, BySource!Id
<1>5. \A e \in Entry : BySet!RemoveSource(e["source"]) => BySource!RemoveSource(e["source"])
  BY <1>1 DEF BySet!RemoveSource, BySet!Keeping, BySource!RemoveSource, BySource!Keeping
<1> QED
  BY <1>1, <1>2, <1>3, <1>4, <1>5 DEF BySet!Next, BySource!Next

\* The set, and each of the three dictionaries on its own, implements RouteSet.
THEOREM AlwaysRouteSet == Spec => ImplementsRouteSet
<1>1. Spec => BySet!Spec
  BY SetInit, SetStep, AlwaysAgree, PTL DEF Spec, BySet!Spec
<1>2. Spec => ByPrefix!Spec
  BY PrefixInit, PrefixStep, AlwaysAgree, PTL DEF Spec, ByPrefix!Spec
<1>3. Spec => ByNextHop!Spec
  BY NextHopInit, NextHopStep, AlwaysAgree, PTL DEF Spec, ByNextHop!Spec
<1>4. Spec => BySource!Spec
  BY SourceInit, SourceStep, AlwaysAgree, PTL DEF Spec, BySource!Spec
<1> QED
  BY <1>1, <1>2, <1>3, <1>4 DEF ImplementsRouteSet

-----------------------------------------------------------------------------
(* Classful: powers of two.  The prover has no rule for recursive          *)
(* functions: that Pow2 is what its definition says takes a witness, put   *)
(* together from functions on initial segments.                            *)

\* A set of numbers has a least one.  Induction, where the prover has no rule of
\* induction for a formula, is about the least number for which it would fail.
LEMMA Least ==
  ASSUME NEW T \in SUBSET Nat, T # {}
  PROVE  \E x \in T : \A y \in T : x =< y
<1> DEFINE R == OpToRel(<, Nat)
<1>1. IsWellFoundedOn(R, Nat)
  BY NatLessThanWellFounded
<1>2. \A x, y \in Nat : x < y => <<x, y>> \in R
  BY DEF OpToRel
<1> HIDE DEF R
<1>3. PICK x \in T : \A y \in T : ~ (<<y, x>> \in R)
  BY <1>1, WFMin, Zenon
<1>4. ASSUME NEW y \in T
      PROVE  x =< y
  <2>1. ~ (y < x)
    BY <1>2, <1>3, x \in Nat, y \in Nat, Zenon
  <2> QED
    BY <2>1
<1> QED
  BY <1>4

\* f holds the powers of two up to the n-th.
Powers(f, n) == f \in [0..n -> Nat] /\ f[0] = 1 /\ \A i \in 1..n : f[i] = 2 * f[i - 1]

\* There is such a function for each n ...
LEMMA PowersExist ==
  ASSUME NEW n \in Nat
  PROVE  \E f : Powers(f, n)
<1> DEFINE T == {m \in Nat : ~ \E f : Powers(f, m)}
<1> SUFFICES ASSUME T # {}
             PROVE  FALSE
  OBVIOUS
<1>1. PICK m \in T : \A y \in T : m =< y
  BY Least
<1>2. CASE m = 0
  <2>1. Powers([i \in 0..0 |-> 1], 0)
    BY DEF Powers
  <2> QED
    BY <1>2, <2>1
<1>3. CASE m # 0
  <2>1. m - 1 \in Nat /\ m - 1 \notin T
    BY <1>1, <1>3
  <2>2. PICK f : Powers(f, m - 1)
    BY <2>1
  <2> DEFINE g == [i \in 0..m |-> IF i = m THEN 2 * f[m - 1] ELSE f[i]]
  <2>3. f \in [0..(m - 1) -> Nat] /\ f[0] = 1 /\ \A i \in 1..(m - 1) : f[i] = 2 * f[i - 1]
    BY <2>2 DEF Powers
  <2>4. g \in [0..m -> Nat]
    <3> SUFFICES ASSUME NEW i \in 0..m
                 PROVE  g[i] \in Nat
      BY DEF g
    <3>1. f[m - 1] \in Nat
      BY <2>1, <2>3
    <3>2. CASE i = m
      BY <3>1, <3>2
    <3>3. CASE i # m
      BY <3>3, <2>3, <2>1
    <3> QED
      BY <3>2, <3>3
  <2>5. g[0] = 1
    BY <2>3, <1>3, <2>1
  <2>6. ASSUME NEW i \in 1..m
        PROVE  g[i] = 2 * g[i - 1]
    BY <2>3, <1>3, <2>1
  <2>7. Powers(g, m)
    BY <2>4, <2>5, <2>6 DEF Powers
  <2> QED
    BY <2>7
<1> QED
  BY <1>2, <1>3

\* ... and any two of them agree as far as both go.
LEMMA PowersAgree ==
  ASSUME NEW m \in Nat, NEW n \in Nat, NEW f, NEW g, Powers(f, m), Powers(g, n),
         NEW i \in 0..m, i =< n
  PROVE  f[i] = g[i]
<1> DEFINE T == {j \in Nat : j =< m /\ j =< n /\ f[j] # g[j]}
<1> SUFFICES ASSUME T # {}
             PROVE  FALSE
  OBVIOUS
<1>1. PICK j \in T : \A y \in T : j =< y
  BY Least
<1>2. j # 0
  BY DEF Powers
<1>3. j - 1 \in Nat /\ j - 1 \notin T
  BY <1>1, <1>2
<1>4. f[j - 1] = g[j - 1]
  BY <1>3
<1>5. f[j] = 2 * f[j - 1] /\ g[j] = 2 * g[j - 1]
  BY <1>2 DEF Powers
<1> QED
  BY <1>4, <1>5

\* The recursive function is what its definition says.
LEMMA Pow2Def ==
  /\ Pow2 \in [Nat -> Nat \ {0}]
  /\ Pow2[0] = 1
  /\ \A n \in Nat \ {0} : Pow2[n] = 2 * Pow2[n - 1]
<1> DEFINE W(n) == CHOOSE f : Powers(f, n)
           F == [n \in Nat |-> W(n)[n]]
<1>1. ASSUME NEW n \in Nat
      PROVE  Powers(W(n), n)
  BY PowersExist
<1> HIDE DEF W
<1>2. F \in [Nat -> Nat]
  BY <1>1 DEF Powers
<1>3. F[0] = 1
  BY <1>1 DEF Powers
<1>4. ASSUME NEW n \in Nat, n # 0
      PROVE  F[n] = 2 * F[n - 1]
  <2>1. n - 1 \in Nat /\ n - 1 \in 0..n /\ n - 1 =< n - 1
    BY <1>4
  <2>2. W(n)[n - 1] = W(n - 1)[n - 1]
    BY <1>1, <2>1, PowersAgree
  <2>3. W(n)[n] = 2 * W(n)[n - 1]
    BY <1>1, <1>4 DEF Powers
  <2> QED
    BY <2>1, <2>2, <2>3
<1>5. F = [n \in Nat |-> IF n = 0 THEN 1 ELSE 2 * F[n - 1]]
  BY <1>3, <1>4
<1> HIDE DEF F
<1>6. Pow2 = [n \in Nat |-> IF n = 0 THEN 1 ELSE 2 * Pow2[n - 1]]
  BY <1>5 DEF Pow2
<1>7. Pow2[0] = 1
  BY <1>6
<1>8. ASSUME NEW n \in Nat, n # 0
      PROVE  Pow2[n] = 2 * Pow2[n - 1]
  BY <1>6, <1>8
<1>9. ASSUME NEW n \in Nat
      PROVE  Pow2[n] \in Nat \ {0}
  <2> DEFINE T == {m \in Nat : Pow2[m] \notin Nat \ {0}}
  <2> SUFFICES ASSUME T # {}
               PROVE  FALSE
    OBVIOUS
  <2>1. PICK m \in T : \A y \in T : m =< y
    BY Least
  <2>2. m # 0
    BY <1>7
  <2>3. m - 1 \in Nat /\ m - 1 \notin T
    BY <2>1, <2>2
  <2>4. Pow2[m - 1] \in Nat \ {0}
    BY <2>3
  <2> QED
    BY <1>8, <2>2, <2>4
<1> QED
  BY <1>6, <1>7, <1>8, <1>9

-----------------------------------------------------------------------------
(* Classful: blocks of addresses.                                          *)

\* A prefix one bit longer covers half as many addresses.
LEMMA BlockLemma ==
  /\ \A n \in 0..Width : Block(n) \in Nat \ {0}
  /\ \A n \in 0..(Width - 1) : Block(n) = 2 * Block(n + 1)
<1> USE ClassfulAssumption DEF ClassfulAssumption
<1>1. ASSUME NEW n \in 0..Width
      PROVE  Block(n) \in Nat \ {0}
  <2>1. Width - n \in Nat
    OBVIOUS
  <2> QED
    BY <2>1, Pow2Def DEF Block
<1>2. ASSUME NEW n \in 0..(Width - 1)
      PROVE  Block(n) = 2 * Block(n + 1)
  <2>1. Width - n \in Nat \ {0} /\ Width - n - 1 = Width - (n + 1)
    OBVIOUS
  <2>2. Pow2[Width - n] = 2 * Pow2[Width - n - 1]
    BY <2>1, Pow2Def
  <2> QED
    BY <2>1, <2>2 DEF Block
<1> QED
  BY <1>1, <1>2

\* A longer prefix fits a whole number of times into a shorter one.
LEMMA BlocksDivide ==
  ASSUME NEW m \in 0..Width, NEW n \in m..Width
  PROVE  \E c \in Nat \ {0} : Block(m) = c * Block(n)
<1> USE ClassfulAssumption DEF ClassfulAssumption
<1> DEFINE T == {k \in Nat : k =< Width - m /\ ~ \E c \in Nat \ {0} : Block(m) = c * Block(m + k)}
<1>1. SUFFICES T = {}
  <2>1. n - m \in Nat /\ n - m =< Width - m /\ m + (n - m) = n
    OBVIOUS
  <2> QED
    BY <1>1, <2>1
<1> SUFFICES ASSUME T # {}
             PROVE  FALSE
  OBVIOUS
<1>2. PICK k \in T : \A y \in T : k =< y
  BY Least
<1>3. k # 0
  <2>1. m \in Nat /\ m + 0 = m /\ Block(m) \in Nat
    BY BlockLemma
  <2>2. Block(m) = 1 * Block(m + 0)
    BY <2>1
  <2> QED
    BY <2>2
<1>4. k - 1 \in Nat /\ k - 1 \notin T /\ k - 1 =< Width - m
  BY <1>2, <1>3
<1>5. PICK c \in Nat \ {0} : Block(m) = c * Block(m + (k - 1))
  BY <1>4
<1>6. m + (k - 1) \in 0..(Width - 1) /\ m + (k - 1) + 1 = m + k /\ m + k \in 0..Width
  BY <1>4
<1>7. Block(m + (k - 1)) = 2 * Block(m + k) /\ Block(m + k) \in Nat
  BY <1>6, BlockLemma
<1>8. Block(m) = (2 * c) * Block(m + k) /\ 2 * c \in Nat \ {0}
  BY <1>5, <1>7
<1> QED
  BY <1>8

\* Different multiples of a number are at least that number apart.
LEMMA NextMultiple ==
  ASSUME NEW x \in Nat, NEW y \in Nat, NEW b \in Nat, x < y
  PROVE  x * b + b =< y * b
<1>1. PICK d \in Nat : y = x + 1 + d
  <2>1. y - x - 1 \in Nat /\ y = x + 1 + (y - x - 1)
    OBVIOUS
  <2> QED
    BY <2>1
<1>2. y * b = x * b + b + d * b
  BY <1>1
<1>3. d * b \in Nat /\ x * b \in Nat /\ y * b \in Nat
  OBVIOUS
<1> QED
  BY <1>2, <1>3

\* An address lies in the block that starts where it is masked to ...
LEMMA MaskedLemma ==
  ASSUME NEW a \in Nat, NEW n \in 0..Width
  PROVE  /\ Masked(a, n) \in Nat
         /\ \E q \in Nat : Masked(a, n) = q * Block(n)
         /\ Masked(a, n) =< a /\ a < Masked(a, n) + Block(n)
<1> DEFINE b == Block(n)
<1>1. b \in Nat \ {0}
  BY BlockLemma
<1> HIDE DEF b
<1>2. a = b * (a \div b) + (a % b) /\ a % b \in 0..(b - 1) /\ a \div b \in Nat
  BY <1>1
<1>3. a - (a % b) = (a \div b) * b
  BY <1>1, <1>2
<1>4. (a \div b) * b \in Nat
  BY <1>1, <1>2
<1>5. Masked(a, n) = a - (a % b)
  BY DEF Masked, b
<1>6. Masked(a, n) = (a \div b) * b
  BY <1>3, <1>5
<1>7. \E q \in Nat : Masked(a, n) = q * Block(n)
  BY <1>2, <1>6 DEF b
<1>8. Masked(a, n) \in Nat
  BY <1>4, <1>6
<1>9. Masked(a, n) =< a /\ a < Masked(a, n) + b
  BY <1>1, <1>2, <1>5
<1> QED
  BY <1>7, <1>8, <1>9 DEF b

\* ... and in no other block of that length.
LEMMA MaskedUnique ==
  ASSUME NEW a \in Nat, NEW n \in 0..Width, NEW q \in Nat,
         q * Block(n) =< a, a < q * Block(n) + Block(n)
  PROVE  Masked(a, n) = q * Block(n)
<1>1. PICK p \in Nat : Masked(a, n) = p * Block(n)
  BY MaskedLemma
<1>2. Masked(a, n) =< a /\ a < Masked(a, n) + Block(n)
  BY MaskedLemma
<1> DEFINE b == Block(n)
<1>3. b \in Nat
  BY BlockLemma
<1> HIDE DEF b
<1>4. p * b =< a /\ a < p * b + b /\ q * b =< a /\ a < q * b + b
  BY <1>1, <1>2 DEF b
<1>5. p * b \in Nat /\ q * b \in Nat
  BY <1>3
<1>6. ~ (p < q)
  BY <1>3, <1>4, <1>5, NextMultiple
<1>7. ~ (q < p)
  BY <1>3, <1>4, <1>5, NextMultiple
<1> QED
  BY <1>1, <1>6, <1>7

\* Masking to fewer bits makes up for any masking before.
LEMMA MaskedTwice ==
  ASSUME NEW a \in Nat, NEW n \in 0..Width, NEW m \in 0..n
  PROVE  Masked(Masked(a, n), m) = Masked(a, m)
<1> USE ClassfulAssumption DEF ClassfulAssumption
<1>1. m \in 0..Width /\ n \in m..Width
  OBVIOUS
<1>2. PICK c \in Nat : Block(m) = c * Block(n)
  BY <1>1, BlocksDivide
<1>3. PICK q \in Nat : Masked(a, m) = q * Block(m)
  BY <1>1, MaskedLemma
<1>4. PICK r \in Nat : Masked(a, n) = r * Block(n)
  BY MaskedLemma
<1>5. /\ Masked(a, m) \in Nat /\ Masked(a, n) \in Nat
      /\ Masked(a, m) =< a /\ a < Masked(a, m) + Block(m)
      /\ Masked(a, n) =< a /\ a < Masked(a, n) + Block(n)
      /\ Block(n) \in Nat /\ Block(m) \in Nat
  BY <1>1, MaskedLemma, BlockLemma
<1>6. q * c \in Nat /\ Masked(a, m) = (q * c) * Block(n)
  BY <1>2, <1>3, <1>5
<1>7. ~ (r < q * c)
  <2>1. r < q * c => r * Block(n) + Block(n) =< (q * c) * Block(n)
    BY <1>5, <1>6, NextMultiple
  <2> QED
    BY <1>4, <1>5, <1>6, <2>1
<1>8. (q * c) * Block(n) =< r * Block(n)
  <2>1. q * c = r \/ q * c < r
    BY <1>6, <1>7
  <2>2. q * c < r => (q * c) * Block(n) + Block(n) =< r * Block(n)
    BY <1>5, <1>6, NextMultiple
  <2>3. (q * c) * Block(n) \in Nat /\ r * Block(n) \in Nat
    BY <1>5, <1>6
  <2> QED
    BY <1>5, <2>1, <2>2, <2>3
<1>9. Masked(a, m) =< Masked(a, n) /\ Masked(a, n) < Masked(a, m) + Block(m)
  BY <1>4, <1>5, <1>6, <1>8
<1> QED
  BY <1>1, <1>3, <1>5, <1>9, MaskedUnique

\* Masking to more bits than before changes nothing.
LEMMA MaskedFiner ==
  ASSUME NEW a \in Nat, NEW n \in 0..Width, NEW m \in 0..n
  PROVE  Masked(Masked(a, m), n) = Masked(a, m)
<1> USE ClassfulAssumption DEF ClassfulAssumption
<1>1. m \in 0..Width /\ n \in m..Width
  OBVIOUS
<1>2. PICK c \in Nat : Block(m) = c * Block(n)
  BY <1>1, BlocksDivide
<1>3. PICK q \in Nat : Masked(a, m) = q * Block(m)
  BY <1>1, MaskedLemma
<1>4. Block(n) \in Nat \ {0} /\ Masked(a, m) \in Nat
  BY <1>1, BlockLemma, MaskedLemma
<1>5. q * c \in Nat /\ Masked(a, m) = (q * c) * Block(n)
  BY <1>2, <1>3, <1>4
<1>6. Masked(a, m) < (q * c) * Block(n) + Block(n) /\ (q * c) * Block(n) =< Masked(a, m)
  BY <1>4, <1>5
<1> QED
  BY <1>4, <1>5, <1>6, MaskedUnique

-----------------------------------------------------------------------------
(* Classful: classes and their networks.                                   *)

\* The addresses of a class are those with the same first bits.
IsClass(first, bits, len) ==
  /\ bits \in 0..Width /\ len \in bits..Width
  /\ \E q \in Nat : first = q * Block(bits)

\* The networks of length n that a class of size addresses is split into.
Split(first, size, n) ==
  {[addr |-> first + i * Block(n), len |-> n] : i \in 0..(size \div Block(n) - 1)}

\* The block of an address of a class is one of those the class is split into.
LEMMA MaskedInClass ==
  ASSUME NEW first, NEW bits, NEW len, IsClass(first, bits, len),
         NEW a \in Nat, Masked(a, bits) = first
  PROVE  [addr |-> Masked(a, len), len |-> len] \in Split(first, Block(bits), len)
<1> USE ClassfulAssumption DEF ClassfulAssumption
<1>1. bits \in 0..Width /\ len \in bits..Width /\ len \in 0..Width /\ bits \in 0..len
  BY DEF IsClass
<1>2. PICK q \in Nat : first = q * Block(bits)
  BY DEF IsClass
<1>3. PICK c \in Nat \ {0} : Block(bits) = c * Block(len)
  BY <1>1, BlocksDivide
<1>4. PICK r \in Nat : Masked(a, len) = r * Block(len)
  BY <1>1, MaskedLemma
<1>5. Masked(a, len) \in Nat /\ Block(len) \in Nat \ {0} /\ Block(bits) \in Nat
  BY <1>1, MaskedLemma, BlockLemma
<1>6. Masked(Masked(a, len), bits) = first
  BY <1>1, MaskedTwice
<1>7. first =< Masked(a, len) /\ Masked(a, len) < first + Block(bits)
  BY <1>1, <1>5, <1>6, MaskedLemma
<1> DEFINE b == Block(len)
<1>8. b \in Nat \ {0}
  BY <1>5
<1> HIDE DEF b
<1>9. first = (q * c) * b /\ q * c \in Nat /\ first + Block(bits) = (q * c + c) * b
  BY <1>2, <1>3, <1>8 DEF b
<1>10. (q * c) * b =< r * b /\ r * b < (q * c + c) * b
  BY <1>4, <1>7, <1>9 DEF b
<1>11. q * c =< r
  <2>1. r < q * c => r * b + b =< (q * c) * b
    BY <1>8, <1>9, NextMultiple
  <2>2. r * b \in Nat /\ (q * c) * b \in Nat
    BY <1>8, <1>9
  <2> QED
    BY <1>8, <1>9, <1>10, <2>1, <2>2
<1>12. r < q * c + c
  <2>1. q * c + c < r => (q * c + c) * b + b =< r * b
    BY <1>8, <1>9, NextMultiple
  <2>2. r * b \in Nat /\ (q * c + c) * b \in Nat
    BY <1>8, <1>9
  <2> QED
    BY <1>8, <1>9, <1>10, <2>1, <2>2
<1> DEFINE i == r - q * c
<1>13. i \in 0..(c - 1)
  BY <1>9, <1>11, <1>12
<1>14. r * b = (q * c) * b + i * b
  BY <1>8, <1>9, <1>13
<1>15. Masked(a, len) = first + i * Block(len)
  BY <1>4, <1>9, <1>14 DEF b
<1>16. Block(bits) \div Block(len) = c
  BY <1>3, <1>5
<1> QED
  BY <1>13, <1>15, <1>16 DEF Split

\* Each of those blocks lies in the class, and starts where its addresses are masked to.
LEMMA SplitLemma ==
  ASSUME NEW first, NEW bits, NEW len, IsClass(first, bits, len),
         NEW n \in Split(first, Block(bits), len)
  PROVE  /\ n = [addr |-> n.addr, len |-> len] /\ n.addr \in Nat
         /\ Masked(n.addr, bits) = first
         /\ Masked(n.addr, len) = n.addr
<1> USE ClassfulAssumption DEF ClassfulAssumption
<1>1. bits \in 0..Width /\ len \in bits..Width /\ len \in 0..Width /\ bits \in 0..len
  BY DEF IsClass
<1>2. PICK q \in Nat : first = q * Block(bits)
  BY DEF IsClass
<1>3. PICK c \in Nat \ {0} : Block(bits) = c * Block(len)
  BY <1>1, BlocksDivide
<1>4. Block(len) \in Nat \ {0} /\ Block(bits) \in Nat
  BY <1>1, BlockLemma
<1>5. Block(bits) \div Block(len) = c
  BY <1>3, <1>4
<1>6. PICK i \in 0..(c - 1) : n = [addr |-> first + i * Block(len), len |-> len]
  BY <1>5 DEF Split
<1> DEFINE b == Block(len)
           addr == first + i * b
<1>7. b \in Nat \ {0}
  BY <1>4
<1>8. n = [addr |-> addr, len |-> len]
  BY <1>6
<1> HIDE DEF b
<1>9. first = (q * c) * b /\ q * c \in Nat /\ q * c + i \in Nat
  BY <1>2, <1>3, <1>7 DEF b
<1>10. addr = (q * c + i) * b /\ addr \in Nat
  BY <1>7, <1>9
<1>11. Masked(addr, len) = addr
  <2>1. addr < (q * c + i) * b + b /\ (q * c + i) * b =< addr
    BY <1>7, <1>10
  <2> QED
    BY <1>1, <1>9, <1>10, <2>1, MaskedUnique DEF b
<1>12. first =< addr /\ addr < first + Block(bits)
  <2>1. i * b + b =< c * b
    BY <1>7, NextMultiple
  <2>2. i * b \in Nat /\ first \in Nat /\ c * b \in Nat
    BY <1>7, <1>9
  <2>3. Block(bits) = c * b
    BY <1>3 DEF b
  <2> QED
    BY <1>7, <2>1, <2>2, <2>3
<1>13. Masked(addr, bits) = first
  BY <1>1, <1>2, <1>10, <1>12, MaskedUnique
<1> QED
  BY <1>8, <1>10, <1>11, <1>13

\* The three classes are such classes.
LEMMA Classes ==
  /\ IsClass(0, 1, LengthA)
  /\ IsClass(Block(1), 2, LengthB)
  /\ IsClass(Block(1) + Block(2), 3, LengthC)
<1> USE ClassfulAssumption DEF ClassfulAssumption
<1>1. Block(1) = 2 * Block(2) /\ Block(2) = 2 * Block(3)
  BY BlockLemma
<1>2. Block(1) \in Nat /\ Block(2) \in Nat /\ Block(3) \in Nat
  BY BlockLemma
<1>3. 0 = 0 * Block(1) /\ Block(1) + Block(2) = 6 * Block(3)
  BY <1>1, <1>2
<1> QED
  BY <1>1, <1>3 DEF IsClass

\* No address is in two of them.
LEMMA ClassesApart ==
  ASSUME NEW a \in Nat
  PROVE  /\ ~ (InClassA(a) /\ InClassB(a))
         /\ ~ (InClassA(a) /\ InClassC(a))
         /\ ~ (InClassB(a) /\ InClassC(a))
<1> USE ClassfulAssumption DEF ClassfulAssumption
<1>1. Block(1) = 2 * Block(2) /\ Block(2) = 2 * Block(3) /\ Block(3) \in Nat \ {0}
  BY BlockLemma
<1> DEFINE Around(n) == Masked(a, n) =< a /\ a < Masked(a, n) + Block(n)
<1> HIDE DEF Around
<1>2. \A n \in 0..Width : Around(n)
  BY MaskedLemma DEF Around
<1>3. Around(1) /\ Around(2) /\ Around(3)
  BY <1>2
<1>4. InClassA(a) => a < Block(1)
  BY <1>1, <1>3 DEF InClassA, Around
<1>5. InClassB(a) => Block(1) =< a /\ a < Block(1) + Block(2)
  BY <1>1, <1>3 DEF InClassB, Around
<1>6. InClassC(a) => Block(1) + Block(2) =< a
  BY <1>1, <1>3 DEF InClassC, Around
<1> QED
  BY <1>1, <1>4, <1>5, <1>6

\* Masking keeps an address an address.
LEMMA AddressLemma ==
  /\ Address \subseteq Nat
  /\ 0 \in Address /\ Block(1) \in Address
  /\ \A a \in Address, n \in 0..Width : Masked(a, n) \in Address
  /\ \A a \in Address : Masked(a, 0) = 0
<1> USE ClassfulAssumption DEF ClassfulAssumption
<1>1. Block(0) = 2 * Block(1) /\ Block(0) \in Nat /\ Block(1) \in Nat \ {0}
  BY BlockLemma
<1>2. Address \subseteq Nat /\ 0 \in Address /\ Block(1) \in Address
  BY <1>1 DEF Address
<1>3. ASSUME NEW a \in Address, NEW n \in 0..Width
      PROVE  Masked(a, n) \in Address
  <2>1. a \in Nat /\ a < Block(0)
    BY <1>1, <1>2 DEF Address
  <2>2. Masked(a, n) \in Nat /\ Masked(a, n) =< a
    BY <2>1, MaskedLemma
  <2> QED
    BY <1>1, <2>1, <2>2 DEF Address
<1>4. ASSUME NEW a \in Address
      PROVE  Masked(a, 0) = 0
  <2>1. 0 \in 0..Width /\ a < 0 * Block(0) + Block(0) /\ 0 * Block(0) =< a /\ 0 * Block(0) = 0
    BY <1>1 DEF Address
  <2> QED
    BY <1>2, <2>1, MaskedUnique
<1> QED
  BY <1>2, <1>3, <1>4

\* A prefix has no bit set beyond its length; only the default route has length 0.
LEMMA PrefixLemma ==
  ASSUME NEW p \in Prefix
  PROVE  /\ p.addr \in Address /\ p.len \in 0..Width
         /\ p = [addr |-> p.addr, len |-> p.len]
         /\ Masked(p.addr, p.len) = p.addr
         /\ p.len = 0 <=> p = Default
<1> USE ClassfulAssumption DEF ClassfulAssumption
<1>1. PICK n \in 0..Width : p \in [addr : {Masked(a, n) : a \in Address}, len : {n}]
  BY DEF Prefix
<1>2. PICK a \in Address : p.addr = Masked(a, n)
  BY <1>1
<1>3. p.len = n /\ p = [addr |-> p.addr, len |-> p.len]
  BY <1>1
<1>4. p.addr \in Address /\ a \in Nat
  BY <1>2, AddressLemma
<1>5. Masked(p.addr, n) = p.addr
  BY <1>2, <1>4, MaskedFiner
<1>6. n = 0 => p.addr = 0
  BY <1>2, AddressLemma
<1>7. p.len = 0 <=> p = Default
  BY <1>3, <1>6 DEF Default
<1> QED
  BY <1>3, <1>4, <1>5, <1>7

\* The default route is its own classful network.
LEMMA DefaultLemma == Default \in Prefix /\ ClassfulOf(Default) = Default
<1> USE ClassfulAssumption DEF ClassfulAssumption
<1>1. 0 \in Address /\ Masked(0, 0) = 0
  BY AddressLemma
<1>2. Default \in [addr : {Masked(a, 0) : a \in Address}, len : {0}]
  BY <1>1 DEF Default
<1>3. Default \in Prefix
  BY <1>2 DEF Prefix
<1>4. InClassA(0)
  <2>1. Masked(Masked(0, 1), 0) = 0 /\ Masked(0, 1) =< 0 /\ Masked(0, 1) \in Nat
    BY <1>1, MaskedTwice, MaskedLemma
  <2> QED
    BY <2>1 DEF InClassA
<1>5. SupernetOrFirst(Default, LengthA) = Default
  BY DEF SupernetOrFirst, Supernet, ValueError, Default
<1>6. ~ InClassB(0) /\ ~ InClassC(0)
  BY <1>4, ClassesApart
<1> QED
  BY <1>3, <1>4, <1>5, <1>6 DEF ClassfulOf, Default

\* Whether supernet raises or not: any other prefix ends up with the length of the class
\* and its address masked to that.
LEMMA SupernetLemma ==
  ASSUME NEW p \in Prefix, p # Default, NEW n \in 0..Width
  PROVE  SupernetOrFirst(p, n) = [addr |-> Masked(p.addr, n), len |-> n]
<1> USE ClassfulAssumption DEF ClassfulAssumption
<1>1. p.addr \in Address /\ p.len \in 0..Width /\ p.len # 0 /\ Masked(p.addr, p.len) = p.addr
  BY PrefixLemma
<1>2. p.addr \in Nat
  BY <1>1, AddressLemma
<1>3. CASE n > p.len
  <2>1. Masked(p.addr, n) = p.addr
    <3>1. p.len \in 0..n
      BY <1>1, <1>3
    <3> QED
      BY <1>1, <1>2, <3>1, MaskedFiner
  <2> QED
    BY <1>1, <1>3, <2>1 DEF SupernetOrFirst, Supernet, ValueError
<1>4. CASE ~ (n > p.len)
  <2>1. [addr |-> Masked(p.addr, n), len |-> n] \in [addr : Nat, len : Nat]
    BY <1>2, MaskedLemma
  <2>2. [addr |-> Masked(p.addr, n), len |-> n] # None
    BY <2>1
  <2> QED
    BY <1>1, <1>4, <2>2 DEF SupernetOrFirst, Supernet, ValueError
<1> QED
  BY <1>3, <1>4

\* What a router makes of an address, by class.
LEMMA FromWireLemma ==
  ASSUME NEW a \in Address
  PROVE  /\ InClassA(a) => FromWire(a) = [addr |-> Masked(a, LengthA), len |-> LengthA]
         /\ InClassB(a) => FromWire(a) = [addr |-> Masked(a, LengthB), len |-> LengthB]
         /\ InClassC(a) => FromWire(a) = [addr |-> Masked(a, LengthC), len |-> LengthC]
         /\ FromWire(a) # ValueError <=> InClassA(a) \/ InClassB(a) \/ InClassC(a)
<1> USE ClassfulAssumption DEF ClassfulAssumption
<1> DEFINE p == [addr |-> a, len |-> Width]
<1>1. a \in Nat /\ Masked(a, Width) = a
  <2>1. a \in Nat /\ Block(Width) \in Nat /\ Block(Width) = 1
    BY AddressLemma, Pow2Def DEF Block
  <2>2. a * Block(Width) = a /\ a < a * Block(Width) + Block(Width)
    BY <2>1
  <2> QED
    BY <2>1, <2>2, MaskedUnique
<1>2. p \in Prefix /\ p # Default
  <2>1. p \in [addr : {Masked(x, Width) : x \in Address}, len : {Width}]
    BY <1>1
  <2>2. Width \in 0..Width /\ Width # 0
    OBVIOUS
  <2> QED
    BY <2>1, <2>2 DEF Prefix, Default
<1>3. \A n \in 0..Width : SupernetOrFirst(p, n) = [addr |-> Masked(a, n), len |-> n]
  BY <1>2, SupernetLemma
<1>4. \A n \in 0..Width : [addr |-> Masked(a, n), len |-> n] # ValueError
  <2> SUFFICES ASSUME NEW n \in 0..Width
               PROVE  [addr |-> Masked(a, n), len |-> n] \in [addr : Nat, len : Nat]
    BY DEF ValueError
  <2>1. Masked(a, n) \in Nat
    BY <1>1, MaskedLemma
  <2> QED
    BY <2>1
<1>5. LengthA \in 0..Width /\ LengthB \in 0..Width /\ LengthC \in 0..Width
  OBVIOUS
<1> HIDE DEF p
<1>6. FromWire(a) = ClassfulOf(p) /\ p.addr = a
  BY DEF FromWire, p
<1> QED
  BY <1>1, <1>3, <1>4, <1>5, <1>6, ClassesApart DEF ClassfulOf

\* Beyond the default route the length of a prefix does not matter, only where it starts.
LEMMA ClassfulLemma ==
  ASSUME NEW p \in Prefix, p # Default
  PROVE  ClassfulOf(p) = FromWire(p.addr)
<1> USE ClassfulAssumption DEF ClassfulAssumption
<1>1. p.addr \in Address /\ p.addr \in Nat
  BY PrefixLemma, AddressLemma
<1>2. \A n \in 0..Width : SupernetOrFirst(p, n) = [addr |-> Masked(p.addr, n), len |-> n]
  BY SupernetLemma
<1>3. LengthA \in 0..Width /\ LengthB \in 0..Width /\ LengthC \in 0..Width
  OBVIOUS
<1> QED
  BY <1>1, <1>2, <1>3, ClassesApart, FromWireLemma DEF ClassfulOf

\* The address of a network leads back to the network.
LEMMA NameKept ==
  ASSUME NEW a \in Address, FromWire(a) # ValueError
  PROVE  /\ FromWire(a).addr \in Address
         /\ FromWire(FromWire(a).addr) = FromWire(a)
<1> USE ClassfulAssumption DEF ClassfulAssumption
<1>1. a \in Nat
  BY AddressLemma
<1>2. CASE InClassA(a)
  <2> DEFINE b == Masked(a, LengthA)
  <2>1. b \in Address /\ Masked(b, LengthA) = b /\ Masked(b, 1) = 0
    BY <1>1, <1>2, AddressLemma, MaskedTwice DEF InClassA
  <2> HIDE DEF b
  <2>2. FromWire(a) = [addr |-> b, len |-> LengthA]
    BY <1>2, FromWireLemma DEF b
  <2>3. FromWire(b) = [addr |-> b, len |-> LengthA]
    BY <2>1, FromWireLemma DEF InClassA
  <2> QED
    BY <2>1, <2>2, <2>3
<1>3. CASE InClassB(a)
  <2> DEFINE b == Masked(a, LengthB)
  <2>1. b \in Address /\ Masked(b, LengthB) = b /\ Masked(b, 2) = Block(1)
    BY <1>1, <1>3, AddressLemma, MaskedTwice DEF InClassB
  <2> HIDE DEF b
  <2>2. FromWire(a) = [addr |-> b, len |-> LengthB]
    BY <1>3, FromWireLemma DEF b
  <2>3. FromWire(b) = [addr |-> b, len |-> LengthB]
    BY <2>1, FromWireLemma DEF InClassB
  <2> QED
    BY <2>1, <2>2, <2>3
<1>4. CASE InClassC(a)
  <2> DEFINE b == Masked(a, LengthC)
  <2>1. b \in Address /\ Masked(b, LengthC) = b /\ Masked(b, 3) = Block(1) + Block(2)
    BY <1>1, <1>4, AddressLemma, MaskedTwice DEF InClassC
  <2> HIDE DEF b
  <2>2. FromWire(a) = [addr |-> b, len |-> LengthC]
    BY <1>4, FromWireLemma DEF b
  <2>3. FromWire(b) = [addr |-> b, len |-> LengthC]
    BY <2>1, FromWireLemma DEF InClassC
  <2> QED
    BY <2>1, <2>2, <2>3
<1> QED
  BY <1>2, <1>3, <1>4, FromWireLemma

\* Networks, with the operator above for the one inside its definition.
LEMMA NetworksLemma ==
  Networks = Split(0, Block(1), LengthA) \cup Split(Block(1), Block(2), LengthB)
               \cup Split(Block(1) + Block(2), Block(3), LengthC)
BY DEF Networks, Split

\* What comes of an address is one of the networks counted out ...
LEMMA NetworkOfAddress ==
  ASSUME NEW a \in Address, FromWire(a) # ValueError
  PROVE  FromWire(a) \in Networks
<1>1. a \in Nat
  BY AddressLemma
<1>2. CASE InClassA(a)
  BY <1>1, <1>2, Classes, MaskedInClass, FromWireLemma, NetworksLemma DEF InClassA
<1>3. CASE InClassB(a)
  BY <1>1, <1>3, Classes, MaskedInClass, FromWireLemma, NetworksLemma DEF InClassB
<1>4. CASE InClassC(a)
  BY <1>1, <1>4, Classes, MaskedInClass, FromWireLemma, NetworksLemma DEF InClassC
<1> QED
  BY <1>2, <1>3, <1>4, FromWireLemma

\* ... and it is the one among them that has the address.
LEMMA CoveredLemma ==
  ASSUME NEW a \in Address, NEW n \in Networks
  PROVE  a \in Covered(n) <=> FromWire(a) = n
<1> USE ClassfulAssumption DEF ClassfulAssumption
<1>1. a \in Nat
  BY AddressLemma
<1>2. a \in Covered(n) <=> Masked(a, n.len) = n.addr
  BY DEF Covered
<1> DEFINE Class(first, bits, len) ==
             /\ n = [addr |-> n.addr, len |-> len] /\ n.addr \in Nat
             /\ Masked(n.addr, bits) = first /\ Masked(n.addr, len) = n.addr
<1>3. \/ Class(0, 1, LengthA)
      \/ Class(Block(1), 2, LengthB)
      \/ Class(Block(1) + Block(2), 3, LengthC)
  BY Classes, SplitLemma, NetworksLemma
<1> DEFINE InClass(first, bits) == Masked(a, bits) = first
<1>4. ASSUME NEW first, NEW bits, NEW len, IsClass(first, bits, len), Class(first, bits, len),
             Masked(a, n.len) = n.addr
      PROVE  InClass(first, bits) /\ n = [addr |-> Masked(a, len), len |-> len]
  <2>1. len \in 0..Width /\ bits \in 0..len /\ n.len = len
    BY <1>4 DEF IsClass
  <2> QED
    BY <1>1, <1>4, <2>1, MaskedTwice
<1>5. a \in Covered(n) => FromWire(a) = n
  <2> SUFFICES ASSUME Masked(a, n.len) = n.addr
               PROVE  FromWire(a) = n
    BY <1>2
  <2>1. CASE Class(0, 1, LengthA)
    BY <2>1, <1>4, Classes, FromWireLemma DEF InClassA
  <2>2. CASE Class(Block(1), 2, LengthB)
    BY <2>2, <1>4, Classes, FromWireLemma DEF InClassB
  <2>3. CASE Class(Block(1) + Block(2), 3, LengthC)
    BY <2>3, <1>4, Classes, FromWireLemma DEF InClassC
  <2> QED
    BY <1>3, <2>1, <2>2, <2>3
<1>6. FromWire(a) = n => Masked(a, n.len) = n.addr
  <2> SUFFICES ASSUME FromWire(a) = n
               PROVE  Masked(a, n.len) = n.addr
    OBVIOUS
  <2>1. n # ValueError
    <3>1. n = [addr |-> n.addr, len |-> n.len] /\ n.addr \in Nat /\ n.len \in Nat
      BY <1>3
    <3>2. [addr |-> n.addr, len |-> n.len] \in [addr : Nat, len : Nat]
      BY <3>1
    <3> QED
      BY <3>1, <3>2 DEF ValueError
  <2>2. \E len : n = [addr |-> Masked(a, len), len |-> len]
    BY <2>1, FromWireLemma
  <2> QED
    BY <2>2
<1> QED
  BY <1>2, <1>5, <1>6

\* No network has both the first address and the first one of the second half.
LEMMA HalvesApart == FromWire(0) # FromWire(Block(1))
<1> USE ClassfulAssumption DEF ClassfulAssumption
<1>1. 0 \in Address /\ Block(1) \in Address /\ 0 \in Nat /\ Block(1) \in Nat \ {0}
  BY AddressLemma, BlockLemma
<1>2. \A n \in 0..Width : Masked(0, n) = 0
  <2> SUFFICES ASSUME NEW n \in 0..Width
               PROVE  Masked(0, n) = 0
    OBVIOUS
  <2> QED
    BY MaskedLemma
<1>3. InClassA(0)
  BY <1>2 DEF InClassA
<1>4. InClassB(Block(1))
  <2>1. Block(1) = 2 * Block(2) /\ Block(2) \in Nat \ {0}
    BY BlockLemma
  <2>2. Masked(Block(1), 2) = 2 * Block(2)
    BY <1>1, <2>1, MaskedUnique
  <2> QED
    BY <2>1, <2>2 DEF InClassB
<1> SUFFICES ASSUME FromWire(0) = FromWire(Block(1))
             PROVE  FALSE
  OBVIOUS
<1>5. Masked(Block(1), LengthB) = 0
  BY <1>1, <1>2, <1>3, <1>4, FromWireLemma
<1>6. Masked(Masked(Block(1), LengthB), 2) = Block(1)
  BY <1>1, <1>4, MaskedTwice DEF InClassB
<1> QED
  BY <1>1, <1>2, <1>5, <1>6

\* What RipTables and RipNetwork take for granted of networks: each is a prefix and its
\* own network, a router that gets its address finds it again, and no two share an
\* address.
THEOREM NetworksKeepTheirName ==
  /\ \A n \in Networks : n \in Prefix /\ ClassfulOf(n) = n /\ FromWire(OnWire(n)) = n
  /\ \A n, m \in Networks : n # m => Covered(n) \cap Covered(m) = {}
<1> USE ClassfulAssumption DEF ClassfulAssumption
<1>1. \A n, m \in Networks : n # m => Covered(n) \cap Covered(m) = {}
  <2>1. \A n \in Networks : Covered(n) \subseteq Address
    BY DEF Covered
  <2> QED
    BY <2>1, CoveredLemma
<1>2. ASSUME NEW n \in Networks
      PROVE  n \in Prefix /\ ClassfulOf(n) = n /\ FromWire(OnWire(n)) = n
  <2>1. /\ Block(0) = 2 * Block(1) /\ Block(1) = 2 * Block(2) /\ Block(2) = 2 * Block(3)
        /\ Block(0) \in Nat /\ Block(1) \in Nat /\ Block(2) \in Nat /\ Block(3) \in Nat
    BY BlockLemma
  <2>2. ASSUME NEW first, NEW bits, NEW len, IsClass(first, bits, len), len # 0,
               n \in Split(first, Block(bits), len), first + Block(bits) =< Block(0)
        PROVE  /\ n = [addr |-> n.addr, len |-> n.len] /\ n.len \in 1..Width
               /\ n.addr \in Address /\ Masked(n.addr, n.len) = n.addr
    <3>1. /\ n = [addr |-> n.addr, len |-> len] /\ n.addr \in Nat
          /\ Masked(n.addr, bits) = first
          /\ Masked(n.addr, len) = n.addr
      BY <2>2, SplitLemma
    <3>2. bits \in 0..Width /\ len \in 1..Width
      BY <2>2 DEF IsClass
    <3>3. n.addr < first + Block(bits) /\ first \in Nat /\ Block(bits) \in Nat
      BY <3>1, <3>2, MaskedLemma, BlockLemma
    <3>4. n.addr \in Address
      BY <2>1, <2>2, <3>1, <3>3 DEF Address
    <3> QED
      BY <3>1, <3>2, <3>4
  <2>3. /\ n = [addr |-> n.addr, len |-> n.len] /\ n.len \in 1..Width
        /\ n.addr \in Address /\ Masked(n.addr, n.len) = n.addr
    <3>1. CASE n \in Split(0, Block(1), LengthA)
      BY <2>1, <2>2, <3>1, Classes
    <3>2. CASE n \in Split(Block(1), Block(2), LengthB)
      BY <2>1, <2>2, <3>2, Classes
    <3>3. CASE n \in Split(Block(1) + Block(2), Block(3), LengthC)
      BY <2>1, <2>2, <3>3, Classes
    <3> QED
      BY <3>1, <3>2, <3>3, NetworksLemma
  <2>4. n \in [addr : {Masked(a, n.len) : a \in Address}, len : {n.len}]
    BY <2>3
  <2>5. n \in Prefix /\ n # Default
    BY <2>3, <2>4 DEF Prefix, Default
  <2>6. n.addr \in Covered(n)
    BY <2>3 DEF Covered
  <2>7. FromWire(n.addr) = n
    BY <2>3, <2>6, CoveredLemma
  <2> QED
    BY <2>5, <2>7, ClassfulLemma DEF OnWire
<1> QED
  BY <1>1, <1>2

-----------------------------------------------------------------------------
(* Classful: the journey.                                                  *)

\* The inductive invariant: which network the route has, in terms of its origin.
JourneyInv ==
  /\ origin \in Prefix
  /\ place \in {"none", "origin", "beyond"}
  /\ place = "origin" => net = ClassfulOf(origin)
  /\ place = "beyond" => net = FromWire(origin.addr)
  /\ place # "none" => net # ValueError

\* Where the route is, the network it has there is that of the address of the prefix, but
\* for the default route at its origin.
LEMMA NetLemma ==
  ASSUME JourneyInv, place # "none"
  PROVE  /\ FromWire(OnWire(net)) = FromWire(origin.addr)
         /\ net # Default => net = FromWire(origin.addr)
         /\ net = Default <=> place = "origin" /\ origin = Default
<1> USE DEF JourneyInv
<1>1. CASE place = "origin" /\ origin = Default
  <2>1. net = Default
    BY <1>1, DefaultLemma
  <2> QED
    BY <1>1, <2>1 DEF OnWire, Default
<1>2. CASE ~ (place = "origin" /\ origin = Default)
  <2>1. net = FromWire(origin.addr)
    BY <1>2, ClassfulLemma
  <2>2. origin.addr \in Address
    BY PrefixLemma
  <2>3. FromWire(OnWire(net)) = net
    BY <2>1, <2>2, NameKept DEF OnWire
  <2>4. net.len # 0
    BY <2>1, <2>2, FromWireLemma, ClassfulAssumption DEF ClassfulAssumption
  <2> QED
    BY <1>2, <2>1, <2>3, <2>4 DEF Default
<1> QED
  BY <1>1, <1>2

\* No router has the route at the start.
LEMMA JourneyInvInit ==
  ASSUME JourneyInit
  PROVE  JourneyInv
BY DEF JourneyInit, JourneyInv

\* Each router that hears of it finds the same network again.
LEMMA JourneyInvStep ==
  ASSUME JourneyInv, [JourneyNext]_journey
  PROVE  JourneyInv'
<1>1. CASE RedistributeIn
  BY <1>1 DEF RedistributeIn, JourneyInv
<1>2. CASE HandleResponse
  BY <1>2, NetLemma DEF HandleResponse, JourneyInv
<1>3. CASE Reconfigure
  BY <1>3 DEF Reconfigure, JourneyInv
<1>4. CASE UNCHANGED journey
  BY <1>4 DEF journey, JourneyInv
<1> QED
  BY <1>1, <1>2, <1>3, <1>4 DEF JourneyNext

\* So it always holds.
LEMMA JourneyInductive == Journey => []JourneyInv
<1>1. JourneyInit => JourneyInv
  BY JourneyInvInit
<1>2. JourneyInv /\ [JourneyNext]_journey => JourneyInv'
  BY JourneyInvStep
<1> QED
  BY <1>1, <1>2, PTL DEF Journey

\* For addresses of any width and classes of any lengths: every router has the route under
\* the network its neighbour has it under, the default route apart.
THEOREM NetworksAlwaysAgree == Journey => NetworksAgree
<1>1. JourneyInv /\ [JourneyNext]_journey => [HandleResponse /\ net # Default => net' = net]_journey
  BY NetLemma DEF HandleResponse
<1> QED
  BY <1>1, JourneyInductive, PTL DEF Journey, NetworksAgree

\* A prefix within a classful network is routed to that network everywhere.
THEOREM SubnetsAlwaysCovered == Journey => []SubnetsCovered
<1>1. JourneyInv => SubnetsCovered
  <2> SUFFICES ASSUME JourneyInv, place # "none", NEW n \in Networks,
                      Covered(origin) \subseteq Covered(n)
               PROVE  net = n
    BY DEF SubnetsCovered
  <2>1. origin.addr \in Address /\ Masked(origin.addr, origin.len) = origin.addr
    BY PrefixLemma DEF JourneyInv
  <2>2. origin.addr \in Covered(n)
    BY <2>1 DEF Covered
  <2>3. FromWire(origin.addr) = n
    BY <2>1, <2>2, CoveredLemma
  <2>4. origin # Default
    <3> SUFFICES ASSUME origin = Default
                 PROVE  FALSE
      OBVIOUS
    <3>1. Block(1) \in Covered(n) /\ 0 \in Covered(n)
      BY AddressLemma DEF Covered, Default
    <3>2. FromWire(Block(1)) = FromWire(0)
      BY <3>1, CoveredLemma, AddressLemma
    <3> QED
      BY <3>2, HalvesApart
  <2> QED
    BY <2>3, <2>4, NetLemma
<1> QED
  BY <1>1, JourneyInductive, PTL

\* Two prefixes become one route exactly when they start in one network.
THEOREM AlwaysMergesWithinNetwork == Journey => []MergesWithinNetwork
<1>1. JourneyInv => MergesWithinNetwork
  <2> SUFFICES ASSUME JourneyInv, place = "beyond", NEW p \in Prefix
               PROVE  (ClassfulOf(p) = net) =
                        (p # Default /\ \E n \in Networks : {p.addr, origin.addr} \subseteq Covered(n))
    BY DEF MergesWithinNetwork
  <2>1. net = FromWire(origin.addr) /\ net # ValueError /\ net # Default
    BY NetLemma DEF JourneyInv
  <2>2. origin.addr \in Address /\ p.addr \in Address
    BY PrefixLemma DEF JourneyInv
  <2>3. CASE p = Default
    BY <2>1, <2>3, DefaultLemma
  <2>4. CASE p # Default
    <3>1. ClassfulOf(p) = FromWire(p.addr)
      BY <2>4, ClassfulLemma
    <3>2. FromWire(p.addr) = net => net \in Networks /\ {p.addr, origin.addr} \subseteq Covered(net)
      BY <2>1, <2>2, NetworkOfAddress, CoveredLemma
    <3>3. ASSUME NEW n \in Networks, {p.addr, origin.addr} \subseteq Covered(n)
          PROVE  FromWire(p.addr) = net
      BY <2>1, <2>2, <3>3, CoveredLemma
    <3> QED
      BY <2>4, <3>1, <3>2, <3>3
  <2> QED
    BY <2>3, <2>4
<1> QED
  BY <1>1, JourneyInductive, PTL

=============================================================================
