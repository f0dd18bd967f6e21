------------------------------ MODULE RouteSet ------------------------------
(***************************************************************************)
(* What a RIB of src/generic/rib.py promises: at most one entry for each   *)
(* identity, the one that came first, until it is removed by an entry of   *)
(* the same identity or with all the entries of its source.  How entries   *)
(* are indexed, and in which order the indexes are updated, does not show. *)
(***************************************************************************)
CONSTANT Entry

VARIABLE
  routes    \* identity -> the entry that holds it

\* _value, by which entries are equal.
Id(e) == <<e["prefix"], e["next_hop"], e["source"], e["admin_distance"]>>

Keeping(I) == [i \in I |-> routes[i]]

Init == routes = [i \in {} |-> {}]

Add(e) ==
  /\ Id(e) \notin DOMAIN routes
  /\ routes' = [i \in DOMAIN routes \cup {Id(e)} |-> IF i = Id(e) THEN e ELSE routes[i]]

Remove(e) == routes' = Keeping(DOMAIN routes \ {Id(e)})

RemoveSource(s) == routes' = Keeping({i \in DOMAIN routes : routes[i]["source"] # s})

Next == \E e \in Entry : Add(e) \/ Remove(e) \/ RemoveSource(e["source"])

Spec == Init /\ [][Next]_routes

=============================================================================
