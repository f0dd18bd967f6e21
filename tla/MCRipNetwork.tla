---------------------------- MODULE MCRipNetwork ----------------------------
(***************************************************************************)
(* Two routers that both hear their own broadcasts.  The first is the      *)
(* origin of network n; one of its bodies has a route that raises.         *)
(***************************************************************************)
EXTENDS RipNetwork

CONSTANTS n, bad, r1, r2, none, invalid

MCInMetric == [s \in Source |-> IF s = "STATIC" THEN 1 ELSE 2]
MCClassful == [p \in Prefix |-> IF p = bad THEN invalid ELSE n]
MCOnWire == [c \in Net |-> n]

Redistributed(r, p) == [prefix |-> p, next_hop |-> r, source |-> "STATIC"]

MCBodies == [r \in Router |->
  IF r = r1 THEN {{}, {Redistributed(r, n)}, {Redistributed(r, n), Redistributed(r, bad)}}
  ELSE {{}}]

=============================================================================
