-------------------------- MODULE MCInventoryCalls --------------------------
(* A reserve and a release, and a process that may be started again. *)
EXTENDS InventoryCalls, TLC

CONSTANTS c1, c2

MCMethod == c1 :> "ReserveStock" @@ c2 :> "ReleaseStock"
=============================================================================
