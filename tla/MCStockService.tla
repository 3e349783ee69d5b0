--------------------------- MODULE MCStockService ----------------------------
(* A catalogue of two parts, two units each; part 3 is not in it. *)
EXTENDS StockService, TLC

CONSTANTS o1, o2, c1, c2, c3, c4

MCParts == {1, 2}
MCInitialStock == 1 :> 2 @@ 2 :> 2
MCOrderIds == {o1, o2}

\* Both parts (two orders fit), all of part 2, and a list with an unknown part.
MCPayloads == {1 :> 1 @@ 2 :> 1, 2 :> 2, 2 :> 1 @@ 3 :> 1}

CallSymmetry == Permutations(Calls)
Symmetry == Permutations(Calls) \cup Permutations(MCOrderIds)
=============================================================================
