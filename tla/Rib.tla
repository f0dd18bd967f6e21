--------------------------------- MODULE Rib ---------------------------------
(***************************************************************************)
(* The route tables of src/generic/rib.py and its subclasses.              *)
(*                                                                         *)
(* RIB_Base keeps a Python set of Route objects, and Route.__eq__ and      *)
(* __hash__ look only at the key of a route (Route._value): two routes     *)
(* with one key cannot both be in a table.  A table is therefore a         *)
(* function from keys to the rest of the route (metric, source, age ...).  *)
(* The first component of every key is the prefix.                         *)
(***************************************************************************)
EXTENDS Integers

EmptyTable == [k \in {} |-> 0]

(***************************************************************************)
(* set.union keeps the element of the left operand when the right one has  *)
(* an equal element, so import_routes never updates a route already there. *)
(***************************************************************************)
ImportRoutes(table, routes) ==
  [k \in DOMAIN table \cup DOMAIN routes |->
     IF k \in DOMAIN table THEN table[k] ELSE routes[k]]

(***************************************************************************)
(* The tables that adding the <<key, rest>> pairs to an empty table one    *)
(* after the other can leave.  The routes come out of a Python set or a    *)
(* packet, in an order the code does not fix, so of two pairs with the     *)
(* same key either may be the one that stays.                              *)
(***************************************************************************)
TablesOf(pairs) ==
  {t \in [{p[1] : p \in pairs} -> {p[2] : p \in pairs}] :
     \A k \in DOMAIN t : <<k, t[k]>> \in pairs}

(***************************************************************************)
(* The selection loop that export_routes and redistribute_out share: one   *)
(* key per prefix, of least cost.  Among equal costs the first one the     *)
(* iteration over a set meets wins, which is any of them.                  *)
(***************************************************************************)
BestSelections(cost) ==
  {S \in SUBSET DOMAIN cost :
     /\ \A k \in DOMAIN cost : \E s \in S : s[1] = k[1] /\ cost[s] =< cost[k]
     /\ \A s, u \in S : s[1] = u[1] => s = u}

=============================================================================
