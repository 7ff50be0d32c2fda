------------------------------- MODULE Ledger -------------------------------
(***************************************************************************)
(* One network's account_balances from every side: the indexer commits     *)
(* blocks (src/src/indexer/sink.rs), an operator's --reconcile sweep       *)
(* rewrites rows batch by batch (src/src/indexer/reconcile.rs), the two    *)
(* providers read accounts, and the health endpoints say how far the       *)
(* indexer is (src/src/server/health.rs).                                  *)
(*                                                                         *)
(* Indexer models how the queue hands out blocks; here the backfill        *)
(* commits any finalized block at any moment, again and again.  The sweep  *)
(* is a process of its own: it runs beside the indexer, or, as the         *)
(* documentation advises, while the indexer is stopped.                    *)
(***************************************************************************)
EXTENDS Sink, Sequences, FiniteSets, FiniteSetsExt

CONSTANTS
    BatchSize,     \* rows per SELECT and UPDATE of the sweep
    Wrong,         \* a balance the chain never had, left by an earlier bug
    TopCount,      \* accounts asked of the two top_accounts
    MaxScan,       \* MAX_SCAN_ACCOUNTS
    ReadyMaxLag,   \* READY_MAX_LAG_SECONDS, in clock ticks
    OfflineAge,    \* OFFLINE_CURSOR_AGE_SECONDS, in clock ticks
    HealthyLag,    \* HEALTHY_LAG_BLOCKS
    Precision      \* a percentage with one of this many missing rounds to 100.0

ASSUME LedgerAssumption ==
    /\ Accounts \subseteq Nat \ {0}   \* in the order of their bytes
    /\ IsFiniteSet(Accounts)          \* of 32 bytes each
    /\ {BatchSize, MaxScan, Precision} \subseteq Nat \ {0}
    /\ {Wrong, TopCount, ReadyMaxLag, OfflineAge, HealthyLag} \subseteq Nat

VARIABLES
    final,      \* the node's finalized head
    watch,      \* RpcClient's finalized_head watch
    running,    \* is an indexer process up?
    stuck,      \* its live worker will not commit again
    stored,     \* numbers of the stored blocks
    cursor,     \* indexer_cursor, stream 'live'
    age,        \* clock ticks since its updated_at
    rows,       \* account_balances
    off,        \* rows that a bug or a racing sweep left wrong
    sweep,      \* the reconcile process
    banner      \* one request to /indexing/status

indexer == <<running, stuck, stored, cursor, age>>
table == <<rows, off>>
vars == <<final, watch, indexer, table, sweep, banner>>

Ages == 0 .. 1 + Max({ReadyMaxLag, OfflineAge})
NoSweep == [pc |-> "off", at |-> 0, cursor |-> 0, batch |-> {}, alone |-> FALSE]
NoBanner == [pc |-> "off", finalized |-> None, head |-> None, age |-> None]

TypeOK ==
    /\ final \in Blocks /\ watch \in 0 .. final \cup {None}
    /\ {running, stuck} \subseteq BOOLEAN
    /\ stored \subseteq 0 .. final
    /\ cursor \in stored \cup {None}
    /\ age \in Ages \cup {None} /\ (age = None <=> cursor = None)
    /\ rows \in [Accounts -> AccountRow \cup {None}]
    /\ off \subseteq {a \in Accounts : rows[a] # None}
    /\ sweep \in [pc : {"off", "scan", "write", "done", "failed"}, at : 0 .. final,
                  cursor : Accounts \cup {0}, batch : SUBSET Accounts,
                  alone : BOOLEAN]
    /\ Cardinality(sweep.batch) <= BatchSize
    /\ banner \in [pc : {"off", "head", "age", "count"},
                   finalized : Blocks \cup {None}, head : Blocks \cup {None},
                   age : Ages \cup {None}]

Init ==
    /\ final = 0 /\ watch = None
    /\ running = TRUE /\ stuck = FALSE
    /\ stored = {} /\ cursor = None /\ age = None
    /\ rows = [a \in Accounts |-> None] /\ off = {}
    /\ sweep = NoSweep /\ banner = NoBanner

-----------------------------------------------------------------------------
(* The node and its watcher. *)

Finalize ==
    /\ final < MaxBlock /\ final' = final + 1
    /\ UNCHANGED <<watch, indexer, table, sweep, banner>>

Publish ==
    /\ watch # final /\ watch' = final
    /\ UNCHANGED <<final, indexer, table, sweep, banner>>

Disconnect ==
    /\ watch # None /\ watch' = None
    /\ UNCHANGED <<final, indexer, table, sweep, banner>>

-----------------------------------------------------------------------------
(* The indexer. *)

\* Rows a block's snapshots overwrite are right again.
Healed(b) ==
    {a \in TouchedAt(b) : rows[a] # None /\ b >= rows[a].last_activity_block}

Commit(b) ==
    /\ stored' = InsertBlock(stored, b)
    /\ rows' = ApplyAccountSnapshots(rows, b)
    /\ off' = off \ Healed(b)

\* LiveWorker: the block after the cursor, or the head when there is none.
LiveCommit ==
    /\ running /\ ~stuck /\ watch # None
    /\ LET b == IF cursor = None THEN watch ELSE cursor + 1 IN
       /\ b <= watch
       /\ Commit(b)
       /\ cursor' = BumpCursor(cursor, b)
    /\ age' = 0
    /\ UNCHANGED <<final, watch, running, stuck, sweep, banner>>

\* A worker's commit writes no cursor.
FaultyAgeAfterBackfill == IF cursor = None THEN None ELSE 0
AgeAfterBackfill == age

BackfillCommit ==
    /\ running
    /\ \E b \in 0 .. final : Commit(b)
    /\ age' = AgeAfterBackfill
    /\ UNCHANGED <<final, watch, running, stuck, cursor, sweep, banner>>

\* The live worker leaves its loop, or hangs.
LiveStops ==
    /\ running /\ ~stuck /\ stuck' = TRUE
    /\ UNCHANGED <<final, watch, running, stored, cursor, age, table, sweep, banner>>

StopIndexer ==
    /\ running /\ running' = FALSE
    /\ UNCHANGED <<final, watch, stuck, stored, cursor, age, table, sweep, banner>>

StartIndexer ==
    /\ ~running /\ running' = TRUE /\ stuck' = FALSE
    /\ sweep' = [sweep EXCEPT !.alone = FALSE]
    /\ UNCHANGED <<final, watch, stored, cursor, age, table, banner>>

\* Postgres' clock, up to what any threshold tells apart.
Tick ==
    /\ age # None /\ age + 1 \in Ages /\ age' = age + 1
    /\ UNCHANGED <<final, watch, running, stuck, stored, cursor, table, sweep, banner>>

\* A bug of the indexer stores a balance it should not have.
Corrupt ==
    /\ running
    /\ \E a \in Accounts \ off :
        /\ rows[a] # None
        /\ rows' = [rows EXCEPT ![a].free = Wrong] /\ off' = off \cup {a}
    /\ UNCHANGED <<final, watch, indexer, sweep, banner>>

-----------------------------------------------------------------------------
(* reconcile_network. *)

\* at_current_block pins the node's finalized head for the whole sweep: the provider's
\* finalized_head_number_uncached reads that head from the same call, and the sweep's own
\* documentation says so.  (The comment at the call speaks of the best head.)
StartSweep ==
    /\ sweep.pc \in {"off", "done", "failed"}
    /\ sweep' = [NoSweep EXCEPT !.pc = "scan", !.at = final, !.alone = ~running]
    /\ UNCHANGED <<final, watch, indexer, table, banner>>

\* SELECT account ... WHERE account > cursor ORDER BY account LIMIT BatchSize.
Above(c) == {a \in Accounts : rows[a] # None /\ a > c}
FaultyNextBatch(c) ==
    {a \in Above(c) : Cardinality({b \in Above(c) : b < a}) <= BatchSize}
NextBatch(c) == {a \in Above(c) : Cardinality({b \in Above(c) : b < a}) < BatchSize}

ScanBatch ==
    /\ sweep.pc = "scan"
    /\ LET batch == NextBatch(sweep.cursor) IN
       sweep' = IF batch = {} THEN [sweep EXCEPT !.pc = "done"]
                ELSE [sweep EXCEPT !.pc = "write", !.cursor = Max(batch),
                                   !.batch = batch]
    /\ UNCHANGED <<final, watch, indexer, table, banner>>

\* fetch_accounts_at the pinned block; a reaped account reads as zeros.
FetchAccount(a) == Snapshot(sweep.at, a)

\* A short batch is the last one.
FaultyIsLast(batch) == Cardinality(batch) <= BatchSize
IsLast(batch) == Cardinality(batch) < BatchSize

WriteBatch ==
    /\ sweep.pc = "write"
    /\ rows' = [a \in Accounts |-> IF a \in sweep.batch
                                   THEN Reconciled(rows[a], FetchAccount(a))
                                   ELSE rows[a]]
    /\ off' = (off \ sweep.batch)
                \cup {a \in sweep.batch : sweep.at < rows[a].last_activity_block}
    /\ sweep' = [sweep EXCEPT !.pc = IF IsLast(sweep.batch) THEN "done" ELSE "scan",
                              !.batch = {}]
    /\ UNCHANGED <<final, watch, indexer, banner>>

\* Any statement or read fails: what earlier batches wrote stays.
SweepFails ==
    /\ sweep.pc \in {"scan", "write"}
    /\ sweep' = [sweep EXCEPT !.pc = "failed", !.batch = {}]
    /\ UNCHANGED <<final, watch, indexer, table, banner>>

-----------------------------------------------------------------------------
(* The readers of accounts: src/src/data/indexed/queries/accounts.rs and    *)
(* src/src/data/rpc/mappers/accounts.rs.                                    *)

\* An account the runtime has reaped has no entry.
FetchedAccount(a) == IF Free[final][a] = 0 THEN None ELSE Free[final][a]
AccountByAddress(a) == IF rows[a] = None THEN None ELSE rows[a].free

Richest(totals, n) ==
    LET above(a) == {b \in DOMAIN totals :
                       \/ totals[b] > totals[a]
                       \/ totals[b] = totals[a] /\ b < a}
        ranked == [i \in 1 .. Cardinality(DOMAIN totals) |->
                     CHOOSE a \in DOMAIN totals : Cardinality(above(a)) = i - 1]
    IN  [i \in 1 .. Min({n, Len(ranked)}) |-> totals[ranked[i]]]

\* The walk over System::Account stops after MaxScan entries, then sorts.
Existing == {a \in Accounts : FetchedAccount(a) # None}
FaultyScanned == {a \in Existing : Cardinality({b \in Existing : b < a}) < TopCount}
Scanned == {a \in Existing : Cardinality({b \in Existing : b < a}) < MaxScan}

FetchTopAccounts == Richest([a \in Scanned |-> FetchedAccount(a)], TopCount)
TopAccounts ==
    Richest([a \in {b \in Accounts : rows[b] # None} |-> AccountByAddress(a)], TopCount)

-----------------------------------------------------------------------------
(* The health endpoints. *)

\* ready_verdict, when the cursor query succeeds.
ReadyVerdict ==
    IF watch = None THEN "BackendNotReady"
    ELSE IF age # None /\ age > ReadyMaxLag THEN "CursorStale" ELSE "Ok"

\* collect_status_from: the watch, then three queries one after the other.
AskBanner ==
    /\ banner.pc = "off"
    /\ banner' = [NoBanner EXCEPT !.pc = "head", !.finalized = watch]
    /\ UNCHANGED <<final, watch, indexer, table, sweep>>

\* A query that fails reads as None.
ReadCursor ==
    /\ banner.pc = "head"
    /\ \E h \in {cursor, None} :
         banner' = [banner EXCEPT !.pc = "age", !.head = h]
    /\ UNCHANGED <<final, watch, indexer, table, sweep>>

ReadAge ==
    /\ banner.pc = "age"
    /\ \E g \in {age, None} :
         banner' = [banner EXCEPT !.pc = "count", !.age = g]
    /\ UNCHANGED <<final, watch, indexer, table, sweep>>

AnswerBanner ==
    /\ banner.pc = "count" /\ banner' = NoBanner
    /\ UNCHANGED <<final, watch, indexer, table, sweep>>

\* compute_status and derive_state, should the count be taken now.
FaultyBackfillTotal(f) == IF f = None THEN 0 ELSE f
BackfillTotal(f) == IF f = None THEN 0 ELSE f + 1
LiveLag ==
    IF None \in {banner.finalized, banner.head} THEN None
    ELSE IF banner.finalized > banner.head THEN banner.finalized - banner.head ELSE 0

\* backfill_pct is not below 100.0.  It is rounded to an f32: 100 - 2^-17 is the next
\* one down, so Precision is 100 * 2^18, the tie included (100.0 has the even mantissa).
ShowsFull(done, total) == done >= total \/ (total - done) * Precision <= total

DeriveState(done) ==
    IF banner.age # None /\ banner.age > OfflineAge THEN "Offline"
    ELSE IF ~ShowsFull(done, BackfillTotal(banner.finalized)) THEN "Backfilling"
    ELSE IF LiveLag # None /\ LiveLag > HealthyLag THEN "CatchingUp"
    ELSE "Healthy"

-----------------------------------------------------------------------------
Next ==
    \/ Finalize \/ Publish \/ Disconnect
    \/ LiveCommit \/ BackfillCommit \/ LiveStops \/ StopIndexer \/ StartIndexer
    \/ Tick \/ Corrupt
    \/ StartSweep \/ ScanBatch \/ WriteBatch \/ SweepFails
    \/ AskBanner \/ ReadCursor \/ ReadAge \/ AnswerBanner

Spec == Init /\ [][Next]_vars

\* Time passes.
FairSpec == Spec /\ WF_vars(Tick)

-----------------------------------------------------------------------------
(***************************************************************************)
(* Properties.                                                             *)
(***************************************************************************)

ExactAt(h, a) == Free[h][a] = IF rows[a] = None THEN 0 ELSE rows[a].free

\* A sweep that ends, the indexer having been stopped all along, leaves every row at the
\* chain's balance at the block it pinned, drifted rows and the last batch included
\* (docs/ops.md, --reconcile: exit code 0, "every configured network converged").
SweepConverges ==
    sweep.pc = "done" /\ sweep.alone =>
        \A a \in Accounts : rows[a] # None => ExactAt(sweep.at, a)

\* Only a bug or a sweep pinned below a row's last activity leaves a row wrong, and the
\* next block that touches it, or the next sweep, puts it right: every other row is exact
\* once the stored blocks reach what the sweep saw, in whatever order the blocks and the
\* batches were written (docs/ops.md: "The race is self-healing").  This is of a sweep
\* that pins a finalized block, see StartSweep: a best block that was abandoned later
\* would leave the rows read there wrong as well.
RacesHeal ==
    \A h \in sweep.at .. MaxBlock : stored = 0 .. h =>
        \A a \in Accounts \ off : ExactAt(h, a)

\* Neither a reaped account, whose nonce reads 0, nor an older block, nor a sweep takes a
\* stored nonce back (apply_account_snapshots and reconcile_account_balances: GREATEST).
NonceNeverFalls ==
    [][\A a \in Accounts : rows[a] # None => rows'[a].nonce >= rows[a].nonce]_vars

\* When the table is exact at the finalized head the two providers list the same richest
\* balances, as long as the walk is not cut: the reaped rows the table keeps only come
\* after them.
ProvidersAgree ==
    (\A a \in Accounts : ExactAt(final, a)) /\ Cardinality(Existing) <= MaxScan =>
        LET fetched == FetchTopAccounts
            listed == TopAccounts
        IN  /\ Len(fetched) <= Len(listed)
            /\ \A i \in 1 .. Len(listed) :
                 listed[i] = IF i <= Len(fetched) THEN fetched[i] ELSE 0

\* The readings of a banner are four awaits apart.  When it says Healthy, the blocks
\* missing up to the head it read are those the chain finalized while it was reading
\* (collect_status_from counts all rows, also those above that head) and at most one in
\* Precision more, which the rounding of backfill_pct hides.
HealthyBoundsTheHole ==
    banner.pc = "count" /\ banner.finalized # None /\ DeriveState(Cardinality(stored)) = "Healthy" =>
        LET missing == Cardinality((0 .. banner.finalized) \ stored)
            meanwhile == final - banner.finalized
        IN  (missing - meanwhile) * Precision <= banner.finalized + 1

\* A live worker that stops for good takes the pod out of rotation, although the backfill
\* goes on committing (health.rs:16-19: "A stuck live worker otherwise keeps serving stale
\* data silently").  Before its first commit there is no cursor to grow old.
StuckWorkerIsNoticed ==
    <>[](stuck /\ cursor # None) => <>[](ReadyVerdict # "Ok")
=============================================================================
