---------------------------- MODULE MCIndexedRib ----------------------------
(***************************************************************************)
(* Entries that share a prefix, a next hop or a source pairwise, two of    *)
(* them equal but for the metric.                                          *)
(***************************************************************************)
EXTENDS IndexedRib

CONSTANTS p1, p2, h1, h2, any

E(p, h, s, d, m) ==
  [prefix |-> p, next_hop |-> h, source |-> s, admin_distance |-> d, metric |-> m]

MCEntry == {
  E(p1, h1, "SLA", 1, 1), E(p1, h1, "SLA", 1, 2),
  E(p1, h1, "SLA", 2, 1),
  E(p1, h2, "RIP", 1, 1),
  E(p2, h1, "RIP", 1, 1),
  E(p2, h2, "SLA", 1, 1), E(p2, h2, "SLA", 1, 2),
  E(p2, h2, "STATIC", 1, 1) }

=============================================================================
