----------------------------- MODULE MCCustomers -----------------------------
(* Two mailboxes, one of them typed in two ways, and a repeated request; the  *)
(* rows 2 and 3 are created within one millisecond.                           *)
EXTENDS Customers

MCCreatedAt == [r \in Rows |-> r \div 2]

Typed(box, how) == [mailbox |-> box, typed |-> how]
MCEmail == [r \in Rows |->
    CASE r = 1 -> Typed("ana", "plain")
      [] r = 2 -> Typed("ana", "capitals")
      [] r = 3 -> Typed("luis", "plain")
      [] r = 4 -> Typed("luis", "plain")
      [] r = 5 -> Typed("eva", "spaces")]
=============================================================================
