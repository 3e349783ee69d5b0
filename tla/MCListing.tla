------------------------------ MODULE MCListing ------------------------------
(* Orders 2 and 3 are created within one millisecond. *)
EXTENDS Listing

MCCreatedAt == [r \in Rows |-> r \div 2]
=============================================================================
