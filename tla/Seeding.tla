------------------------------- MODULE Seeding -------------------------------
(***************************************************************************)
(* apps/inventory-grpc/prisma/seed.ts and seed-parts.ts run beside the     *)
(* service: insert-missing at every start of the container, and --reset    *)
(* whenever an operator asks for it, with calls in progress and orders     *)
(* reserved.  The calls are StockService's.                                *)
(***************************************************************************)
EXTENDS StockService, Sequences

CONSTANTS
    SEED_PARTS,     \* the catalogue in the order it is written, which is not that of ids
    MaxSeeds        \* bound on how often the seeder runs

\* Nothing but the seeder adds parts to the catalogue.
ASSUME SeedPartsAssumption ==
    /\ SEED_PARTS \in Seq(Parts)
    /\ \A p \in Parts : \E i \in 1..Len(SEED_PARTS) : SEED_PARTS[i] = p
ASSUME MaxSeedsAssumption == MaxSeeds \in Nat

VARIABLES
    upserts,        \* rows the reset's transaction has written so far, 0 when there is none
    seeds,          \* runs of the seeder
    carried         \* orders that were reserved when the last reset committed (history)

seedVars == <<upserts, seeds, carried>>
allVars == <<vars, seedVars>>

SeedInit == Init /\ upserts = 0 /\ seeds = 0 /\ carried = {}

\* Rows are locked as they are written.
SeederOwns(p) == \E i \in 1..upserts : SEED_PARTS[i] = p

ReservedOrders == {o \in OrderIds : ledger[o].status = "RESERVED"}

-----------------------------------------------------------------------------
(* The seeder *)

\* ON CONFLICT DO NOTHING, when every part is in the table.
SkipDuplicates == UNCHANGED vars

InsertMissing ==
    /\ seeds < MaxSeeds
    /\ upserts = 0
    /\ SkipDuplicates
    /\ seeds' = seeds + 1
    /\ UNCHANGED <<upserts, carried>>

\* The next upsert: waits for the call that holds the row.
Upsert ==
    /\ seeds < MaxSeeds
    /\ upserts < Len(SEED_PARTS)
    /\ \A c \in Calls : ~OwnsRow(c, SEED_PARTS[upserts + 1])
    /\ upserts' = upserts + 1
    /\ UNCHANGED <<vars, seeds, carried>>

Written(n) ==
    [p \in Parts |-> IF \E i \in 1..n : SEED_PARTS[i] = p THEN InitialStock[p] ELSE stock[p]]

CommitEach ==               \* mutant: the upserts are not in one transaction
    /\ seeds < MaxSeeds
    /\ upserts > 0
    /\ stock' = Written(upserts)
    /\ seeds' = IF upserts = Len(SEED_PARTS) THEN seeds + 1 ELSE seeds
    /\ upserts' = IF upserts = Len(SEED_PARTS) THEN 0 ELSE upserts
    /\ carried' = IF upserts = Len(SEED_PARTS) THEN ReservedOrders ELSE carried
    /\ UNCHANGED <<ledger, pc, cmd, found, seen, staged, reply, faults>>

ResetCommits ==
    /\ upserts = Len(SEED_PARTS)
    /\ stock' = Written(upserts)
    /\ upserts' = 0
    /\ seeds' = seeds + 1
    /\ carried' = ReservedOrders
    /\ UNCHANGED <<ledger, pc, cmd, found, seen, staged, reply, faults>>

\* Among other things because PostgreSQL breaks a cycle of row locks here; it may
\* choose the call instead (Rollback).
ResetFails ==
    /\ upserts > 0
    /\ upserts' = 0
    /\ seeds' = seeds + 1
    /\ UNCHANGED <<vars, carried>>

-----------------------------------------------------------------------------
(* The calls, which wait for rows that the seeder has written *)

ReadsWithoutLock(c) ==      \* mutant: no FOR UPDATE
    /\ Step(c)
    /\ UNCHANGED seedVars

CallStep(c) ==
    /\ Step(c)
    /\ \A p \in DOMAIN seen'[c] \ DOMAIN seen[c] : ~SeederOwns(p)
    /\ UNCHANGED seedVars

CallEvent(c) ==
    /\ (\E command \in Commands : Start(c, command)) \/ Rollback(c) \/ CommitAckLost(c)
    /\ UNCHANGED seedVars

Reset == Upsert \/ ResetCommits \/ ResetFails

SeedNext ==
    \/ \E c \in Calls : CallStep(c) \/ CallEvent(c)
    \/ InsertMissing
    \/ Reset

SeedSpec == SeedInit /\ [][SeedNext]_allVars

\* The calls run as in StockService; a reset that has begun goes on, commits or fails,
\* and one that waits for a call that waits for it is made to fail.
FairSeedSpec ==
    /\ SeedSpec
    /\ \A c \in Calls : SF_allVars(CallStep(c))
    /\ WF_allVars(upserts > 0 /\ Reset)

-----------------------------------------------------------------------------
(* Properties *)

\* What a reset does to the books, to the unit: afterwards the stock is off by what
\* the orders give back that were reserved before it, and by nothing else, whatever
\* calls are half way and wherever either side fails.  insert-missing moves nothing
\* (seed-parts.ts:18-27).  Without a reset this is StockConserved.
ResetDrift ==
    \A p \in Parts :
        LET reserved == Reserved(p) \ carried
            givenBack == carried \cap Returned(p)
        IN  stock[p] + Units(reserved, p) = InitialStock[p] + Units(givenBack, p)
=============================================================================
