--------------------------- MODULE MCSlaInstance ---------------------------
(***************************************************************************)
(* Two threads; a prefix with a better and a worse route.  One next hop    *)
(* may be slow, the other may be out of reach.                             *)
(***************************************************************************)
EXTENDS SlaInstance

CONSTANTS t1, t2, p, h1, h2, none

MCConfigured == {<<p, h1>>, <<p, h2>>}
MCPriority == [r \in MCConfigured |-> IF r[2] = h1 THEN 2 ELSE 1]

MCPath == [h \in {h1, h2} |-> IF h = h1 THEN {"fast", "late"} ELSE {"fast", "broken"}]

=============================================================================
