------------------------------ MODULE Classful ------------------------------
(***************************************************************************)
(* RIPv1 carries addresses without a prefix length: a prefix is widened or *)
(* narrowed to a classful network when it is redistributed, and every      *)
(* router that hears of it works the length out again from the address.    *)
(* This is RIP1_Route.classful of src/rp_rip1/main.py with what becomes of *)
(* a prefix on its way: from the control plane into the RIB of its origin, *)
(* onto the wire, and into the RIBs of the routers beyond.                 *)
(*                                                                         *)
(* Addresses have Width bits, 32 in the code; the arithmetic is that of    *)
(* ip_network and its supernet method.                                     *)
(***************************************************************************)
EXTENDS Integers

CONSTANTS
  Width,         \* bits of an address
  LengthA, LengthB, LengthC,  \* prefix lengths of the classes: 8, 16, 24
  None

ASSUME ClassfulAssumption ==
  /\ Width \in Nat
  /\ LengthA \in 1..Width /\ LengthB \in 2..Width /\ LengthC \in 3..Width
  /\ None \notin [addr : Nat, len : Nat]

\* 2 ** n
Pow2[n \in Nat] == IF n = 0 THEN 1 ELSE 2 * Pow2[n - 1]

\* How many addresses a prefix of length n covers.
Block(n) == Pow2[Width - n]

Address == 0..(Block(0) - 1)

\* The address with its bits after the first n cleared.
Masked(a, n) == a - (a % Block(n))

\* ip_network(...): no bit set beyond the length.
Prefix == UNION {[addr : {Masked(a, n) : a \in Address}, len : {n}] : n \in 0..Width}

ValueError == None

\* net_addr in class_a, class_b, class_c, or none of them.
InClassA(a) == Masked(a, 1) = 0
InClassB(a) == Masked(a, 2) = Block(1)
InClassC(a) == Masked(a, 3) = Block(1) + Block(2)

\* prefix.supernet(new_prefix=n): 0.0.0.0/0 has no supernet but itself.
Supernet(p, n) ==
  IF p.len = 0 THEN p
  ELSE IF n > p.len THEN ValueError
  ELSE [addr |-> Masked(p.addr, n), len |-> n]

\* Slip for classful: a prefix with no such supernet stays as it is.
SupernetOrSame(p, n) == IF Supernet(p, n) = ValueError THEN p ELSE Supernet(p, n)

\* try supernet, except ValueError: the network address with the length of the class.
SupernetOrFirst(p, n) ==
  IF Supernet(p, n) = ValueError THEN [addr |-> p.addr, len |-> n] ELSE Supernet(p, n)

\* Slip for classful: the class is that of the length, not that of the address.
ClassfulByLength(p) ==
  CASE p.len =< LengthA -> SupernetOrFirst(p, LengthA)
    [] p.len > LengthA /\ p.len =< LengthB -> SupernetOrFirst(p, LengthB)
    [] OTHER -> SupernetOrFirst(p, LengthC)

\* Slip for classful: class C networks get the length of class B.
ClassfulShortC(p) ==
  CASE InClassA(p.addr) -> SupernetOrFirst(p, LengthA)
    [] InClassB(p.addr) \/ InClassC(p.addr) -> SupernetOrFirst(p, LengthB)
    [] OTHER -> ValueError

\* RIP1_Route.classful
ClassfulOf(p) ==
  CASE InClassA(p.addr) -> SupernetOrFirst(p, LengthA)
    [] InClassB(p.addr) -> SupernetOrFirst(p, LengthB)
    [] InClassC(p.addr) -> SupernetOrFirst(p, LengthC)
    [] OTHER -> ValueError

\* _rte_from_route: the network address is all that is sent.
OnWire(net) == net.addr

\* handle_response: the address alone, as a prefix of full length.
FromWire(a) == ClassfulOf([addr |-> a, len |-> Width])

VARIABLES
  origin,  \* the prefix in the control plane of the router it comes from
  place,   \* the RIB looked at: of the origin, of a router beyond, or none yet
  net      \* the network the route has there

journey == <<origin, place, net>>

JourneyInit == origin \in Prefix /\ place = "none" /\ net = None

\* redistribute_in of the origin.  A prefix that raises ends it, and is in no RIB.
RedistributeIn ==
  /\ place = "none"
  /\ ClassfulOf(origin) # ValueError
  /\ place' = "origin"
  /\ net' = ClassfulOf(origin)
  /\ UNCHANGED origin

\* A neighbour of the router looked at hears its response.
HandleResponse ==
  /\ place # "none"
  /\ FromWire(OnWire(net)) # ValueError
  /\ place' = "beyond"
  /\ net' = FromWire(OnWire(net))
  /\ UNCHANGED origin

\* The origin is given another prefix instead.
Reconfigure ==
  /\ origin' \in Prefix
  /\ place' = "none"
  /\ net' = None

JourneyNext == RedistributeIn \/ HandleResponse \/ Reconfigure

Journey == JourneyInit /\ [][JourneyNext]_journey

-----------------------------------------------------------------------------
(* Properties.                                                             *)

Covered(p) == {a \in Address : Masked(a, p.len) = p.addr}

\* The networks of the classes, counted out: each class is split evenly.
Networks ==
  LET Split(first, size, n) ==
        {[addr |-> first + i * Block(n), len |-> n] : i \in 0..(size \div Block(n) - 1)}
  IN Split(0, Block(1), LengthA) \cup Split(Block(1), Block(2), LengthB)
       \cup Split(Block(1) + Block(2), Block(3), LengthC)

Default == [addr |-> 0, len |-> 0]

\* A network has one name: every router has the route under the network its neighbour
\* has it under, although each works it out from an address.  The default route alone
\* turns into the first class A network beyond its origin.
NetworksAgree == [][HandleResponse /\ net # Default => net' = net]_journey

\* Nothing within a classful network gets lost: where the prefix lies in one, that network
\* is what every router routes to.
SubnetsCovered ==
  place # "none" =>
    \A n \in Networks : Covered(origin) \subseteq Covered(n) => net = n

\* Two prefixes become one route exactly when they start in one network: the tables,
\* which are keyed by networks, keep others apart.
MergesWithinNetwork ==
  place = "beyond" =>
    \A p \in Prefix :
      (ClassfulOf(p) = net) =
        (p # Default /\ \E n \in Networks : {p.addr, origin.addr} \subseteq Covered(n))

=============================================================================
