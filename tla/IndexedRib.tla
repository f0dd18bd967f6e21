----------------------------- MODULE IndexedRib -----------------------------
(***************************************************************************)
(* The class RIB of src/generic/rib.py: a set of route entries and three   *)
(* dictionaries that index it by prefix, by next hop and by source.        *)
(*                                                                         *)
(* Entries are equal when their _value is, in which the metric is not.  A  *)
(* set keeps the entry it has when an equal one is added, and loses it     *)
(* when an equal one is discarded.                                         *)
(***************************************************************************)
CONSTANTS
  Entry,   \* route entries: records with the fields below and a metric
  Any      \* the argument of a search that is not given

\* _value of an entry.
Value(e) == <<e["prefix"], e["next_hop"], e["source"], e["admin_distance"]>>

\* The fields with a dictionary of their own: routes, next_hops, sources.
Indexed == {"prefix", "next_hop", "source"}

ASSUME IndexedRibAssumption ==
  \A e \in Entry :
    /\ Indexed \cup {"admin_distance"} \subseteq DOMAIN e
    /\ \A f \in Indexed : e[f] # Any

VARIABLES
  entries,  \* _route_entries
  index     \* the dictionaries: indexed field -> value -> entries

vars == <<entries, index>>

Equal(x, e) == Value(x) = Value(e)

\* set.add
Put(S, e) == IF \E x \in S : Equal(x, e) THEN S ELSE S \cup {e}

\* set.discard of each entry in gone
Drop(S, gone) == {x \in S : ~ \E e \in gone : Equal(x, e)}

At(dict, k) == IF k \in DOMAIN dict THEN dict[k] ELSE {}

\* Slip for add_route_entry: in the dictionary an update replaces the old entry.
WithReplacing(f, dict, e) ==
  [k \in DOMAIN dict \cup {e[f]} |->
     IF k = e[f] THEN Drop(At(dict, k), {e}) \cup {e} ELSE dict[k]]

\* The dictionary of field f after add_route_entry.
With(f, dict, e) ==
  [k \in DOMAIN dict \cup {e[f]} |-> IF k = e[f] THEN Put(At(dict, k), e) ELSE dict[k]]

\* Slip for remove_route_entry: a value whose last entry goes keeps its key.
WithoutKeepingKeys(f, dict, gone) ==
  [k \in DOMAIN dict |-> IF \E e \in gone : e[f] = k THEN Drop(dict[k], gone) ELSE dict[k]]

\* The dictionary of field f after remove_route_entry of each entry in gone: only the
\* values of those entries are looked at, and one with nothing left is deleted.
Without(f, dict, gone) ==
  LET touched == {e[f] : e \in gone} \cap DOMAIN dict
      emptied == {k \in touched : Drop(dict[k], gone) = {}}
  IN [k \in DOMAIN dict \ emptied |-> IF k \in touched THEN Drop(dict[k], gone) ELSE dict[k]]

\* Slip for remove_route_entries_from_source: the loop ends after an entry, as one
\* over the set that it is removing from would.
FirstOfSource(s) ==
  IF s \in DOMAIN index["source"] THEN {CHOOSE e \in index["source"][s] : TRUE} ELSE {}

OfSource(s) == At(index["source"], s)

-----------------------------------------------------------------------------
Init ==
  /\ entries = {}
  /\ index = [f \in Indexed |-> [k \in {} |-> {}]]

\* add_route_entry
Add(e) ==
  /\ entries' = Put(entries, e)
  /\ index' = [f \in Indexed |-> With(f, index[f], e)]

\* remove_route_entry, of any entry: the caller need not hold the one in the RIB.
Remove(e) ==
  /\ entries' = Drop(entries, {e})
  /\ index' = [f \in Indexed |-> Without(f, index[f], {e})]

\* remove_route_entries_from_source
RemoveSource(s) ==
  /\ entries' = Drop(entries, OfSource(s))
  /\ index' = [f \in Indexed |-> Without(f, index[f], OfSource(s))]

Next ==
  \/ \E e \in Entry : Add(e)
  \/ \E e \in Entry : Remove(e)
  \/ \E e \in Entry : RemoveSource(e["source"])

Spec == Init /\ [][Next]_vars

\* Slip for rib_entry_search: the source is looked at only where no prefix is given.
MatchesSourceAlone(e, prefix, next_hop, source) ==
  /\ prefix \in {Any, e["prefix"]}
  /\ next_hop \in {Any, e["next_hop"]}
  /\ prefix # Any \/ source \in {Any, e["source"]}

Matches(e, prefix, next_hop, source) ==
  /\ prefix \in {Any, e["prefix"]}
  /\ next_hop \in {Any, e["next_hop"]}
  /\ source \in {Any, e["source"]}

\* rib_entry_search and rib_entries_from_search: when nothing matches, all entries.
Search(prefix, next_hop, source) ==
  LET found == {e \in entries : Matches(e, prefix, next_hop, source)}
  IN IF found = {} THEN entries ELSE found

-----------------------------------------------------------------------------
(* Properties.                                                             *)

\* The dictionaries agree with the set, whatever was added and removed in whichever
\* order, equal entries of another metric included: under each value that some entry
\* has there are the very entries with that value, and no other value has a key.
IndexesAgree ==
  /\ entries \subseteq Entry
  /\ \A x, y \in entries : Equal(x, y) => x = y
  /\ index = [f \in Indexed |-> [k \in {e[f] : e \in entries} |-> {e \in entries : e[f] = k}]]

\* Taking out a source, which goes by the dictionary of sources, takes every entry of
\* it out of the set, and no entry of another source.
SourceGone ==
  [][\A e \in Entry : RemoveSource(e["source"]) =>
       entries' = {x \in entries : x["source"] # e["source"]}]_vars

\* The search, which goes through the set, finds what the dictionaries have in common
\* for the arguments it is given.  Left out is a search with arguments that have nothing
\* in common: it returns all entries, where the docstring of rib_entry_search has it
\* return those that match, and all of them only if no argument is given.
SearchAgrees ==
  LET Values(f) == {e[f] : e \in Entry} \cup {Any}
      Under(f, v) == IF v = Any THEN entries ELSE At(index[f], v)
  IN \A p \in Values("prefix"), h \in Values("next_hop"), s \in Values("source") :
       LET common == Under("prefix", p) \cap Under("next_hop", h) \cap Under("source", s)
       IN common # {} \/ {p, h, s} = {Any} => Search(p, h, s) = common

\* The entries of a set by identity, as RouteSet has them.
Identified(S) == [i \in {Value(e) : e \in S} |-> CHOOSE e \in S : Value(e) = i]

InDictionary(f) == UNION {index[f][k] : k \in DOMAIN index[f]}

BySet == INSTANCE RouteSet WITH routes <- Identified(entries)
ByPrefix == INSTANCE RouteSet WITH routes <- Identified(InDictionary("prefix"))
ByNextHop == INSTANCE RouteSet WITH routes <- Identified(InDictionary("next_hop"))
BySource == INSTANCE RouteSet WITH routes <- Identified(InDictionary("source"))

\* The set, and each dictionary on its own, is a full implementation of the RIB: one
\* entry for an identity, the first, whatever else is kept beside it.
ImplementsRouteSet == BySet!Spec /\ ByPrefix!Spec /\ ByNextHop!Spec /\ BySource!Spec

=============================================================================
