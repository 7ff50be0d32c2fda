-------------------------------- MODULE Sink --------------------------------
(***************************************************************************)
(* src/indexer/sink.rs: what each SQL write does to the rows of one        *)
(* network.  A table is a function from its key to a row, or None where    *)
(* the table has no row.  The writes of one block run in one transaction,  *)
(* so an operator here gives the table after the statement from the table  *)
(* before it; the modules that use them apply them all in one step.        *)
(*                                                                         *)
(* Abstracted: reserved and frozen follow the CASE of free and are folded  *)
(* into it; the *_ms columns follow the block columns; extrinsics, events  *)
(* and balance_movements are children of a block, inserted with it under   *)
(* the same DO NOTHING, so the set of block numbers stands for them.       *)
(***************************************************************************)
EXTENDS FinalizedChain

CONSTANT None   \* a missing row, or Rust's Option::None

Least(x, y) == IF x <= y THEN x ELSE y
Greatest(x, y) == IF x <= y THEN y ELSE x

-----------------------------------------------------------------------------
(* blocks and its children *)

\* ON CONFLICT DO NOTHING, for the block and for each child row.
InsertBlock(stored, b) == stored \cup {b}

-----------------------------------------------------------------------------
(* account_balances *)

AccountRow ==
    [free : Nat, nonce : Nat,
     first_seen_block : Blocks, last_activity_block : Blocks]

ASSUME NoneIsNoRow == None \notin AccountRow /\ None \notin Int

\* The genesis walk: the whole System::Account table, at block 0 only.
GenesisAccounts(b) == IF b = 0 THEN Endowed ELSE {}

\* The accounts whose snapshot block b writes: collect_touched, and the walk.
FaultyTouchedAt(b) == Touched[b]   \* no genesis walk

TouchedAt(b) == Touched[b] \cup GenesisAccounts(b)

\* The row bound by the INSERT: an absolute System::Account reading at b.
Snapshot(b, a) ==
    [free |-> Free[b][a], nonce |-> Nonce[b][a],
     first_seen_block |-> b, last_activity_block |-> b]

\* The last writer wins.
FaultyMergeSnapshot(row, snap) ==
    [snap EXCEPT !.nonce = Greatest(row.nonce, snap.nonce),
        !.first_seen_block = Least(row.first_seen_block, snap.first_seen_block)]

\* The DO UPDATE clause, for a row that exists.
MergeSnapshot(row, snap) ==
    [free |-> IF snap.last_activity_block >= row.last_activity_block
              THEN snap.free ELSE row.free,
     nonce |-> Greatest(row.nonce, snap.nonce),
     first_seen_block |-> Least(row.first_seen_block, snap.first_seen_block),
     last_activity_block |->
        Greatest(row.last_activity_block, snap.last_activity_block)]

UpsertSnapshot(row, snap) ==
    IF row = None THEN snap ELSE MergeSnapshot(row, snap)

ApplyAccountSnapshots(table, b) ==
    [a \in Accounts |-> IF a \in TouchedAt(b)
                        THEN UpsertSnapshot(table[a], Snapshot(b, a))
                        ELSE table[a]]

\* reconcile_account_balances: the UPDATE of an operator's sweep.
FaultyReconciled(row, snap) ==
    [row EXCEPT !.free = snap.free, !.nonce = snap.nonce]

Reconciled(row, snap) ==
    [row EXCEPT !.free = snap.free, !.nonce = Greatest(row.nonce, snap.nonce)]

-----------------------------------------------------------------------------
(* ats_registry: version_count by id.  ats_versions: a set of <<id, version>>,
   whose foreign key is ON DELETE CASCADE.                                  *)

\* projections::ats::project - a creation is also version 0.
VersionInserts(b) == {<<i, 0>> : i \in Created[b]} \cup Updated[b]

\* The version INSERT fails, and the transaction with it, when a parent row
\* is neither stored nor inserted by this block.
ForeignKeysHold(registry, b) ==
    \A u \in VersionInserts(b) : u[1] \in Created[b] \/ registry[u[1]] # None

\* Registry inserts (DO NOTHING), then version-count bumps, which take the
\* GREATEST of the count and version + 1.
\* Without GREATEST.
FaultyBumpedCount(count, i, b) ==
    IF \E u \in Updated[b] : u[1] = i THEN count + 1 ELSE count

BumpedCount(count, i, b) ==
    LET bumps == {u[2] + 1 : u \in {v \in Updated[b] : v[1] = i}}
    IN  CHOOSE n \in bumps \cup {count} : \A m \in bumps \cup {count} : m <= n

RegistryInsert(count, i, b) ==
    IF count = None /\ i \in Created[b] THEN 1 ELSE count

\* Revocations come last, whatever the order of the events in the block.
ApplyAtsRegistry(registry, b) ==
    [i \in AtsIds |->
        LET count == RegistryInsert(registry[i], i, b)
        IN  IF i \in Revoked[b] \/ count = None
            THEN None ELSE BumpedCount(count, i, b)]

ApplyAtsVersions(versions, b) ==
    {u \in versions \cup VersionInserts(b) : u[1] \notin Revoked[b]}

-----------------------------------------------------------------------------
(* indexer_cursor, stream 'live' *)

BumpCursor(cursor, num) ==
    IF cursor = None THEN num
    ELSE IF cursor < num THEN num ELSE cursor
=============================================================================
