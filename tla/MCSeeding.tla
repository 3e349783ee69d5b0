------------------------------ MODULE MCSeeding ------------------------------
(* Three calls on two orders and two parts, and a seeder that writes its     *)
(* parts in the opposite order of their ids.                                 *)
EXTENDS Seeding, TLC

CONSTANTS o1, o2, c1, c2, c3

MCParts == {1, 2}
\* One order takes all of part 1, until the next reset.
MCInitialStock == 1 :> 1 @@ 2 :> 2
MCPayloads == {1 :> 1 @@ 2 :> 1}
MCSeedParts == <<2, 1>>
=============================================================================
