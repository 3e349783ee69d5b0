------------------------------ MODULE Customers ------------------------------
(***************************************************************************)
(* apps/sales-api/src/customers/customers.service.ts: POST /v1/customers,  *)
(* one INSERT under the unique index of the e-mail, while a client lists   *)
(* the customers.  A customer is never changed or removed.  Creating one   *)
(* is not idempotent: a repeated request is a row of its own.  (The status *)
(* of a row of the listing only says here that the customer exists.)       *)
(***************************************************************************)
EXTENDS Listing

CONSTANT email      \* [Rows -> e-mails as typed]: [mailbox, typed]

ASSUME EmailAssumption ==
    \A r \in Rows : email[r] = [mailbox |-> email[r].mailbox, typed |-> email[r].typed]

VARIABLE answer     \* per request: "none", or its HTTP status

customersVars == <<listingVars, answer>>

\* One answer per request, and the listing's own types (customers.service.ts:53-68).
TypeOK == ListingTypeOK /\ answer \in [Rows -> {"none", "201", "409", "500"}]

Init == ListingInit /\ answer = [r \in Rows |-> "none"]

-----------------------------------------------------------------------------

AsTyped(e) == e                 \* mutant: neither trimmed nor in lower case
normalizeEmail(e) == [e EXCEPT !.typed = "plain"]

\* The unique index, on what is stored.
UniqueViolation(r) ==
    \E x \in Rows : status[x] # "NONE" /\ normalizeEmail(email[x]) = normalizeEmail(email[r])

Answer(r, code) == answer[r] = "none" /\ answer' = [answer EXCEPT ![r] = code]

\* The INSERT is done; its acknowledgement may be lost.
Create(r) ==
    /\ ~UniqueViolation(r)
    /\ Insert(r)
    /\ Answer(r, "201") \/ Answer(r, "500")

CreateRefused(r) == UniqueViolation(r) /\ Answer(r, "409") /\ UNCHANGED listingVars

AnyErrorIsConflict(r) ==        \* mutant: the catch does not look at the error's code
    Answer(r, "409") /\ UNCHANGED listingVars
CreateFails(r) == Answer(r, "500") /\ UNCHANGED listingVars

Next ==
    \/ \E r \in Rows : Create(r) \/ CreateRefused(r) \/ CreateFails(r)
    \/ ListNext /\ UNCHANGED answer

Spec == Init /\ [][Next]_customersVars

-----------------------------------------------------------------------------
(* Properties *)

SameMailbox(x, y) == email[x].mailbox = email[y].mailbox

\* SYSTEM-DESIGN.md:103: an e-mail is one customer's, however it was typed, and however
\* many requests create it together; of those at most one is answered 201.
OneCustomerPerEmail ==
    \A x, y \in Rows : x # y /\ SameMailbox(x, y) =>
        /\ status[x] = "NONE" \/ status[y] = "NONE"
        /\ answer[x] # "201" \/ answer[y] # "201"

\* A 201 is in the table, and a 409 names an e-mail that is: possibly the row of an
\* earlier attempt whose answer was lost (customers.service.ts:58-66).
AnswersAreTrue ==
    \A r \in Rows :
        /\ answer[r] = "201" => status[r] # "NONE"
        /\ answer[r] = "409" => \E x \in Rows : status[x] # "NONE" /\ SameMailbox(x, r)
=============================================================================
