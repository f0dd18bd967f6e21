--------------------------- MODULE MCControlPlane ---------------------------
(***************************************************************************)
(* Two threads; a static route, and a route of each protocol that comes    *)
(* and goes.                                                               *)
(***************************************************************************)
EXTENDS ControlPlane, TLC

CONSTANTS t1, t2, s1, a1, r1, orphaned

MCRoute == {s1, a1, r1}
MCStatic == {s1}
MCOffers == [p \in Protocol |-> IF p = "SLA" THEN {{}, {a1}} ELSE {{}, {r1}}]

\* Threads are interchangeable.
Symmetry == Permutations(Thread)

=============================================================================
