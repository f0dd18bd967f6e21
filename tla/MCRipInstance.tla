--------------------------- MODULE MCRipInstance ---------------------------
(***************************************************************************)
(* A small RIP instance: two classful networks, two prefixes inside one of *)
(* them, a prefix that has no class, two neighbours and this router.       *)
(***************************************************************************)
EXTENDS RipInstance

CONSTANTS n1, n2, p1, p2, p3, pD, peer, gw, self, none, invalid

MCNet == {n1, n2}
MCPrefix == {p1, p2, p3, pD}
MCHop == {peer, gw, self}

\* p1 and p2 lie in one classful network; pD is a class D prefix.
MCClassful == [p \in MCPrefix |-> CASE p \in {p1, p2} -> n1 [] p = p3 -> n2 [] p = pD -> invalid]

\* Metric a redistributed route gets: static routes are costed worse than SLA.
MCInMetric == [s \in Source |-> IF s = "STATIC" THEN 2 ELSE 1]

Entry(a, h, m) == [addr |-> a, next_hop |-> h, metric |-> m]

\* An update, one of another router with two prefixes that meet under one key, the
\* second beyond infinity, a poisoned route, a next hop named in the packet, entries
\* without a class, and this router's own advertisement.
MCPacket == {
  [src |-> peer, rtes |-> {Entry(p1, none, 1)}],
  [src |-> gw,   rtes |-> {Entry(p1, none, 2), Entry(p2, none, 4)}],
  [src |-> peer, rtes |-> {Entry(p1, none, 3)}],
  [src |-> peer, rtes |-> {Entry(p2, gw, 1), Entry(pD, none, 1)}],
  [src |-> peer, rtes |-> {Entry(pD, none, 1)}],
  [src |-> self, rtes |-> {Entry(p1, none, 2)}] }

\* Packets of routers that leave themselves the next hop, as this one does.
MCPlainPacket == {
  [src |-> peer, rtes |-> {Entry(p1, none, 1)}],
  [src |-> gw,   rtes |-> {Entry(p1, none, 2)}],
  [src |-> peer, rtes |-> {Entry(p1, none, 3), Entry(p3, none, 1)}] }

Body(p, h, s) == [prefix |-> p, next_hop |-> h, source |-> s]

\* Nothing; static routes, one through the gateway a packet may also come from;
\* two sources whose prefixes fall into one network and meet under one key; a
\* prefix without a class among good ones; a route of RIP itself coming back.
MCInstallable == {
  {},
  {Body(p1, gw, "STATIC"), Body(p3, peer, "RIP1")},
  {Body(p1, gw, "STATIC"), Body(p2, gw, "SLA"), Body(p3, gw, "SLA")} }

MCOffer == MCInstallable \cup {{Body(p1, gw, "STATIC"), Body(pD, gw, "STATIC"), Body(p3, peer, "SLA")}}

=============================================================================
