------------------------------- MODULE MCNode -------------------------------
(***************************************************************************)
(* One neighbour that announces and poisons a route to one network.  In    *)
(* Node an SLA route to it comes up, there is a static route to it, calls  *)
(* fail and one thread serves them; in NodeOverlap there is neither, calls *)
(* succeed, and two threads serve them, one of them those of operators     *)
(* too.                                                                    *)
(***************************************************************************)
EXTENDS Node

CONSTANTS n1, peer, self, none, invalid, t1, t2, orphaned

MCNet == {n1}
MCClassful == [p \in MCNet |-> p]
MCInMetric == [s \in Source |-> 1]

Entry(a, m) == [addr |-> a, next_hop |-> none, metric |-> m]
MCPacket == {[src |-> peer, rtes |-> {Entry(n1, m)}] : m \in {1, 2}}

Via(h, s) == [prefix |-> n1, next_hop |-> h, source |-> s]
MCStatic == {Via(self, "STATIC")}
MCSlaOffers == {{Via(peer, "SLA")}}

=============================================================================
