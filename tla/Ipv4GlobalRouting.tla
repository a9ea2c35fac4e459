------------------------- MODULE Ipv4GlobalRouting -------------------------
(***************************************************************************)
(* The routing tables of one node and their lookup                         *)
(* (src/internet/model/ipv4-global-routing.cc).  Each of the three lists   *)
(* is the set of its entries: the order of a list only decides which of    *)
(* several matching entries is taken, and the model lets it be any.        *)
(***************************************************************************)
EXTENDS Integers

(***************************************************************************)
(* Ipv4Address::CombineMask and Ipv4Mask::IsMatch.  An address is a        *)
(* natural and a mask is the size of the block it selects, so CombineMask  *)
(* drops the host part.                                                    *)
(***************************************************************************)
CombineMask(a, mask) == a - (a % mask)

IsMatch(mask, a, b) == CombineMask(a, mask) = CombineMask(b, mask)

EmptyTables == [host |-> {}, network |-> {}, external |-> {}]

(* Ipv4RoutingTableEntry; an exit is a pair <<gateway, interface>>. *)
Route(dest, mask, exit) ==
    [dest |-> dest, mask |-> mask, gateway |-> exit[1], interface |-> exit[2]]

RouteEntry == [dest : Nat, mask : Nat, gateway : Nat, interface : Int]

Tables ==
    [host : SUBSET RouteEntry, network : SUBSET RouteEntry, external : SUBSET RouteEntry]

(***************************************************************************)
(* Ipv4GlobalRouting::LookupGlobal: the entries a packet to a may be sent  *)
(* by.  Host routes hide network routes, which hide external routes; among *)
(* the network routes all that match are alike, whatever their mask.       *)
(***************************************************************************)
Matching(table, a) == {r \in table : IsMatch(r.mask, a, r.dest)}

LookupGlobal(tables, a) ==
    IF Matching(tables.host, a) # {} THEN Matching(tables.host, a)
    ELSE IF Matching(tables.network, a) # {} THEN Matching(tables.network, a)
    ELSE Matching(tables.external, a)
=============================================================================
