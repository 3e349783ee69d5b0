--------------------------- MODULE MCOrdersService ---------------------------
(* Two keys that compete for the only unit of part 1; part 9 does not exist. *)
EXTENDS OrdersService, TLC

CONSTANTS k1, k2, r1, r2, r3, ana, eva

MCParts == {1}
MCInitialStock == 1 :> 1
OneUnit == 1 :> 1
UnknownPart == 9 :> 1
MCPayloads == {OneUnit, UnknownPart}

\* Two bodies for one key: the right one, and one with an unknown part.
PartBodies == {[customer |-> ana, items |-> OneUnit], [customer |-> ana, items |-> UnknownPart]}

\* Two bodies for one key: a known and an unknown customer.
CustomerBodies == {[customer |-> ana, items |-> OneUnit], [customer |-> eva, items |-> OneUnit]}

Symmetry == Permutations(Requests) \cup Permutations(OrderIds)
=============================================================================
