------------------------------ MODULE Indexer ------------------------------
(***************************************************************************)
(* The indexing pipeline of one network: the live worker                   *)
(* (src/indexer/live.rs), the backfill queue, its seed task and its worker *)
(* pool (src/indexer/backfill.rs), all writing the same Postgres tables    *)
(* through the sink while the node finalizes blocks.                       *)
(*                                                                         *)
(* Atomicity.  A step is one SQL transaction or one decision taken between *)
(* two awaits.  The RPC reads of index_block are constant functions of the *)
(* block number (FinalizedChain), so a block's fetch, projection and       *)
(* commit are one step that either commits or fails.  The lease, the claim *)
(* and the mark_* updates are separate autocommit statements, hence        *)
(* separate steps: anything may happen between them.                       *)
(***************************************************************************)
EXTENDS Sink, Gaps, FiniteSets

CONSTANTS
    ChunkSize,   \* DEFAULT_CHUNK_SIZE
    Workers,     \* the backfill pool of this network
    FirstHead,   \* the finalized head when the process first starts
    FaultKinds,  \* the faults the environment injects
    MaxFaults    \* bound: how many of them it injects in all

ASSUME IndexerParameters ==
    /\ ChunkSize \in Nat \ {0}
    /\ FirstHead \in Blocks
    /\ MaxFaults \in Nat
    /\ FaultKinds \subseteq
         {"rpc", "commit", "exit", "slow", "disconnect", "crash"}
    /\ None \notin Blocks \X Blocks

VARIABLES
    \* Postgres, which survives every crash
    blocks,      \* numbers present in `blocks`, with all their children
    accounts,    \* account_balances
    registry,    \* ats_registry
    versions,    \* ats_versions
    cursor,      \* indexer_cursor of the live stream
    chunks,      \* backfill_chunks, by (from_block, to_block)
    \* the node and the finalized-head watch channel
    finalized,   \* the node's finalized head
    watch,       \* the value in the channel
    headChanged, \* the live worker's receiver has not seen that value
    \* the tasks of the process
    live,        \* the live worker
    seeder,      \* seed_from_head
    workers,     \* the backfill workers
    faults       \* faults injected so far

rowVars == <<blocks, accounts, registry, versions>>
nodeVars == <<finalized, watch, headChanged>>
vars == <<rowVars, cursor, chunks, nodeVars, live, seeder, workers, faults>>

-----------------------------------------------------------------------------
(* Chunks *)

Ranges == {r \in Blocks \X Blocks : r[1] <= r[2]}

\* A row of backfill_chunks.  "leased" and "expired" are status 'running'
\* with lease_until in the future and in the past; "none" is no row.
ChunkStates == {"none", "pending", "leased", "expired", "done"}
ChunkRow == [id : Nat, state : ChunkStates]

Present == {r \in Ranges : chunks[r].state # "none"}

\* BIGSERIAL: new rows are numbered after every existing one, in list order.
NewId(r, new) ==
    Cardinality(Present) + Cardinality({s \in new : s[1] <= r[1]})

-----------------------------------------------------------------------------
(* Bounded environment faults *)

Fault(kind) ==
    /\ kind \in FaultKinds
    /\ faults < MaxFaults
    /\ faults' = faults + 1

\* The local variables of a task, and where its loop stands.
LiveTask == [pc : {"boot", "idle", "fill", "exited"},
             last : Blocks \cup {None}, num : Nat, target : Blocks]
SeedTask == [pc : {"wait", "scan", "insert", "seeded", "skipped"},
             head : Blocks, ranges : SUBSET Ranges]
WorkerTask ==
    [pc : {"boot", "idle", "index", "succeeded", "failed", "exited"},
     chunk : Ranges \cup {None}, next : Nat]

IdleWorker == [pc |-> "idle", chunk |-> None, next |-> 0]

Booting == [pc |-> "boot", last |-> None, num |-> 0, target |-> 0]

Init ==
    /\ blocks = {}
    /\ accounts = [a \in Accounts |-> None]
    /\ registry = [i \in AtsIds |-> None]
    /\ versions = {}
    /\ cursor = None
    /\ chunks = [r \in Ranges |-> [id |-> 0, state |-> "none"]]
    /\ finalized = FirstHead
    /\ watch = None
    /\ headChanged = FALSE
    /\ live = Booting
    /\ seeder = [pc |-> "wait", head |-> 0, ranges |-> {}]
    /\ workers = [w \in Workers |-> [IdleWorker EXCEPT !.pc = "boot"]]
    /\ faults = 0

-----------------------------------------------------------------------------
(* The node and the watch channel *)

Finalize ==
    /\ finalized < MaxBlock
    /\ finalized' = finalized + 1
    /\ UNCHANGED <<rowVars, cursor, chunks, watch, headChanged, live, seeder,
                   workers, faults>>

\* The finalized stream delivers a later block; one that ended and was opened
\* again has skipped some.  The channel keeps the last value only.  The bounded
\* chain stands for an endless one: a head above its last block wakes the live
\* worker too, and is seen as that block.
Publish ==
    /\ watch # None
    /\ \/ \E h \in watch + 1 .. finalized : watch' = h
       \/ watch = MaxBlock /\ UNCHANGED watch
    /\ headChanged' = TRUE
    /\ UNCHANGED <<rowVars, cursor, chunks, finalized, live, seeder, workers,
                   faults>>

\* A (re)connected finalized stream starts with the current head.
Connect ==
    /\ watch = None
    /\ watch' = finalized
    /\ headChanged' = TRUE
    /\ UNCHANGED <<rowVars, cursor, chunks, finalized, live, seeder, workers,
                   faults>>

\* The watcher supervisor loses the stream and publishes None.
Disconnect ==
    /\ watch # None
    /\ Fault("disconnect")
    /\ watch' = None
    /\ headChanged' = TRUE
    /\ UNCHANGED <<rowVars, cursor, chunks, finalized, live, seeder, workers>>

-----------------------------------------------------------------------------
(* One block's transaction *)

IndexBlock(b) ==
    /\ ForeignKeysHold(registry, b)
    /\ blocks' = InsertBlock(blocks, b)
    /\ accounts' = ApplyAccountSnapshots(accounts, b)
    /\ registry' = ApplyAtsRegistry(registry, b)
    /\ versions' = ApplyAtsVersions(versions, b)

-----------------------------------------------------------------------------
(* The live worker *)

LiveBoot ==
    /\ live.pc = "boot"
    /\ live' = [live EXCEPT !.pc = "idle", !.last = cursor]
    /\ headChanged' = TRUE
    /\ UNCHANGED <<rowVars, cursor, chunks, finalized, watch, seeder, workers,
                   faults>>

\* subxt() or load_cursor fails: run returns and nothing respawns the worker.
LiveBootFails ==
    /\ live.pc = "boot"
    /\ Fault("exit")
    /\ live' = [live EXCEPT !.pc = "exited"]
    /\ UNCHANGED <<rowVars, cursor, chunks, nodeVars, seeder, workers>>

FaultyFillStart == watch   \* forgets what lies between cursor and head

\* The fill runs from last + 1, or from the head itself with no cursor.
FillStart == IF live.last = None THEN watch ELSE live.last + 1

\* borrow_and_update, then `for num in start..=head`.
LiveTick ==
    /\ live.pc = "idle"
    /\ headChanged
    /\ headChanged' = FALSE
    /\ IF watch # None /\ FillStart <= watch
       THEN live' = [live EXCEPT !.pc = "fill", !.num = FillStart,
                                 !.target = watch]
       ELSE UNCHANGED live
    /\ UNCHANGED <<rowVars, cursor, chunks, finalized, watch, seeder, workers,
                   faults>>

LiveIndex ==
    /\ live.pc = "fill"
    /\ IndexBlock(live.num)
    /\ cursor' = BumpCursor(cursor, live.num)
    /\ live' = [live EXCEPT !.last = live.num, !.num = live.num + 1,
                            !.pc = IF live.num = live.target
                                   THEN "idle" ELSE "fill"]
    /\ UNCHANGED <<chunks, nodeVars, seeder, workers, faults>>

\* The transaction cannot commit: an ATS version without its registry row.
LiveRejected ==
    /\ live.pc = "fill"
    /\ ~ForeignKeysHold(registry, live.num)
    /\ live' = [live EXCEPT !.pc = "idle"]
    /\ UNCHANGED <<rowVars, cursor, chunks, nodeVars, seeder, workers, faults>>

\* Bumps the cursor outside the block's transaction.
FaultyLiveFails ==
    /\ live.pc = "fill"
    /\ Fault("rpc")
    /\ cursor' = BumpCursor(cursor, live.num)
    /\ live' = [live EXCEPT !.pc = "idle"]
    /\ UNCHANGED <<rowVars, chunks, nodeVars, seeder, workers>>


\* An RPC or database error breaks out of the fill; the next head retries.
LiveFails ==
    /\ live.pc = "fill"
    /\ Fault("rpc")
    /\ live' = [live EXCEPT !.pc = "idle"]
    /\ UNCHANGED <<rowVars, cursor, chunks, nodeVars, seeder, workers>>

\* Postgres committed but commit() reported an error.
LiveCommitLost ==
    /\ live.pc = "fill"
    /\ Fault("commit")
    /\ IndexBlock(live.num)
    /\ cursor' = BumpCursor(cursor, live.num)
    /\ live' = [live EXCEPT !.pc = "idle"]
    /\ UNCHANGED <<chunks, nodeVars, seeder, workers>>

-----------------------------------------------------------------------------
(* The seed task *)

\* The first head seen within SEED_HEAD_GRACE.
SeedHead ==
    /\ seeder.pc = "wait"
    /\ watch # None
    /\ seeder' = [seeder EXCEPT !.pc = "scan", !.head = watch]
    /\ UNCHANGED <<rowVars, cursor, chunks, nodeVars, live, workers, faults>>

\* An exclusive upper bound: the head itself is never queued.
FaultySeedScan ==
    /\ seeder.pc = "scan"
    /\ seeder' = [seeder EXCEPT !.pc = "insert",
                    !.ranges = GapRanges(seeder.head - 1, blocks, ChunkSize)]
    /\ UNCHANGED <<rowVars, cursor, chunks, nodeVars, live, workers, faults>>

\* seed_chunks reads the block numbers and splits the gaps in memory ...
SeedScan ==
    /\ seeder.pc = "scan"
    /\ seeder' = [seeder EXCEPT !.pc = "insert",
                    !.ranges = GapRanges(seeder.head, blocks, ChunkSize)]
    /\ UNCHANGED <<rowVars, cursor, chunks, nodeVars, live, workers, faults>>

\* ... and inserts one pending row per range, leaving the rows that exist.
SeedInsert ==
    /\ seeder.pc = "insert"
    /\ LET new == {r \in seeder.ranges : chunks[r].state = "none"}
       IN  chunks' = [r \in Ranges |->
                        IF r \in new
                        THEN [id |-> NewId(r, new), state |-> "pending"]
                        ELSE chunks[r]]
    /\ seeder' = [seeder EXCEPT !.pc = "seeded"]
    /\ UNCHANGED <<rowVars, cursor, nodeVars, live, workers, faults>>

\* The grace period ends with no head.
SeedSkipped ==
    /\ seeder.pc = "wait"
    /\ watch = None
    /\ seeder' = [seeder EXCEPT !.pc = "skipped"]
    /\ UNCHANGED <<rowVars, cursor, chunks, nodeVars, live, workers, faults>>

\* subxt() or a query fails: the task logs and ends, nothing reseeds.
SeedFails ==
    /\ seeder.pc \in {"wait", "scan", "insert"}
    /\ Fault("exit")
    /\ seeder' = [seeder EXCEPT !.pc = "skipped"]
    /\ UNCHANGED <<rowVars, cursor, chunks, nodeVars, live, workers>>

-----------------------------------------------------------------------------
(* The backfill workers *)

SetState(r, s) == chunks' = [chunks EXCEPT ![r].state = s]

\* Without the status filter, and without the test of lease_until.
StealingClaimable == {r \in Ranges : chunks[r].state \in {"pending", "leased"}}
NeverStealingClaimable == {r \in Ranges : chunks[r].state = "pending"}

\* WHERE status = 'pending' OR (status = 'running' AND lease_until < now()).
Claimable == {r \in Ranges : chunks[r].state \in {"pending", "expired"}}

\* Another worker may hold the row lock of r: it is marking it just now, or
\* its statement was cut off by the error that ended it.
MayBeLocked(r, w) ==
    \E v \in Workers \ {w} :
        \/ workers[v].chunk = r /\ workers[v].pc \in {"succeeded", "failed"}
        \/ workers[v].pc = "exited"

\* ORDER BY id LIMIT 1 FOR UPDATE SKIP LOCKED.
NextChunk(r, w) ==
    /\ r \in Claimable
    /\ \A s \in Claimable : chunks[s].id < chunks[r].id => MayBeLocked(s, w)

WorkerBoot(w) ==
    /\ workers[w].pc = "boot"
    /\ workers' = [workers EXCEPT ![w] = IdleWorker]
    /\ UNCHANGED <<rowVars, cursor, chunks, nodeVars, live, seeder, faults>>

WorkerBootFails(w) ==
    /\ workers[w].pc = "boot"
    /\ Fault("exit")
    /\ workers' = [workers EXCEPT ![w].pc = "exited"]
    /\ UNCHANGED <<rowVars, cursor, chunks, nodeVars, live, seeder>>

Claim(w, r) ==
    /\ workers[w].pc = "idle"
    /\ NextChunk(r, w)
    /\ SetState(r, "leased")
    /\ workers' = [workers EXCEPT
                    ![w] = [pc |-> "index", chunk |-> r, next |-> r[1]]]
    /\ UNCHANGED <<rowVars, cursor, nodeVars, live, seeder, faults>>

\* claim_chunk returns an error; the UPDATE may have committed or not.
ClaimFails(w, r) ==
    /\ workers[w].pc = "idle"
    /\ NextChunk(r, w)
    /\ Fault("exit")
    /\ SetState(r, "leased") \/ UNCHANGED chunks
    /\ workers' = [workers EXCEPT ![w].pc = "exited"]
    /\ UNCHANGED <<rowVars, cursor, nodeVars, live, seeder>>

WorkerIndex(w) ==
    LET k == workers[w] IN
    /\ k.pc = "index"
    /\ IndexBlock(k.next)
    /\ workers' = [workers EXCEPT
                    ![w] = [k EXCEPT !.next = k.next + 1,
                                     !.pc = IF k.next = k.chunk[2]
                                            THEN "succeeded" ELSE "index"]]
    /\ UNCHANGED <<cursor, chunks, nodeVars, live, seeder, faults>>

WorkerRejected(w) ==
    /\ workers[w].pc = "index"
    /\ ~ForeignKeysHold(registry, workers[w].next)
    /\ workers' = [workers EXCEPT ![w].pc = "failed"]
    /\ UNCHANGED <<rowVars, cursor, chunks, nodeVars, live, seeder, faults>>

\* Takes the error of index_chunk for its end.
FaultyWorkerFails(w) ==
    /\ workers[w].pc = "index"
    /\ Fault("rpc")
    /\ workers' = [workers EXCEPT ![w].pc = "succeeded"]
    /\ UNCHANGED <<rowVars, cursor, chunks, nodeVars, live, seeder>>

WorkerFails(w) ==
    /\ workers[w].pc = "index"
    /\ Fault("rpc")
    /\ workers' = [workers EXCEPT ![w].pc = "failed"]
    /\ UNCHANGED <<rowVars, cursor, chunks, nodeVars, live, seeder>>

WorkerCommitLost(w) ==
    /\ workers[w].pc = "index"
    /\ Fault("commit")
    /\ IndexBlock(workers[w].next)
    /\ workers' = [workers EXCEPT ![w].pc = "failed"]
    /\ UNCHANGED <<cursor, chunks, nodeVars, live, seeder>>

\* Both marks address the row by id alone, whoever holds its lease by now.
MarkChunkDone(w) ==
    /\ workers[w].pc = "succeeded"
    /\ SetState(workers[w].chunk, "done")
    /\ workers' = [workers EXCEPT ![w] = IdleWorker]
    /\ UNCHANGED <<rowVars, cursor, nodeVars, live, seeder, faults>>

MarkChunkFailed(w) ==
    /\ workers[w].pc = "failed"
    /\ SetState(workers[w].chunk, "pending")
    /\ workers' = [workers EXCEPT ![w] = IdleWorker]
    /\ UNCHANGED <<rowVars, cursor, nodeVars, live, seeder, faults>>

\* A mark returns an error: `?` ends the worker, the row may be updated.
MarkFails(w) ==
    LET k == workers[w] IN
    /\ k.pc \in {"succeeded", "failed"}
    /\ Fault("exit")
    /\ \/ SetState(k.chunk, IF k.pc = "succeeded" THEN "done" ELSE "pending")
       \/ UNCHANGED chunks
    /\ workers' = [workers EXCEPT ![w] = [IdleWorker EXCEPT !.pc = "exited"]]
    /\ UNCHANGED <<rowVars, cursor, nodeVars, live, seeder>>

\* LEASE_DURATION elapses.  For a chunk some worker is still indexing that is
\* a fault (nothing renews a lease); for an abandoned one, mere time.
LeaseExpires(r) ==
    /\ chunks[r].state = "leased"
    /\ IF \E w \in Workers : workers[w].chunk = r
       THEN Fault("slow") ELSE UNCHANGED faults
    /\ SetState(r, "expired")
    /\ UNCHANGED <<rowVars, cursor, nodeVars, live, seeder, workers>>

-----------------------------------------------------------------------------
(* The process dies and is started again: only Postgres keeps its state. *)

Restart ==
    /\ Fault("crash")
    /\ watch' = None
    /\ headChanged' = FALSE
    /\ live' = Booting
    /\ seeder' = [pc |-> "wait", head |-> 0, ranges |-> {}]
    /\ workers' = [w \in Workers |-> [IdleWorker EXCEPT !.pc = "boot"]]
    /\ UNCHANGED <<rowVars, cursor, chunks, finalized>>

-----------------------------------------------------------------------------

Node == Finalize \/ Publish \/ Connect \/ Disconnect

Live == LiveBoot \/ LiveBootFails \/ LiveTick \/ LiveIndex \/ LiveRejected
            \/ LiveFails \/ LiveCommitLost

Seed == SeedHead \/ SeedScan \/ SeedInsert \/ SeedSkipped \/ SeedFails

Worker(w) ==
    \/ WorkerBoot(w) \/ WorkerBootFails(w)
    \/ \E r \in Ranges : Claim(w, r) \/ ClaimFails(w, r)
    \/ WorkerIndex(w) \/ WorkerRejected(w) \/ WorkerFails(w)
    \/ WorkerCommitLost(w)
    \/ MarkChunkDone(w) \/ MarkChunkFailed(w) \/ MarkFails(w)

Next ==
    \/ Node \/ Live \/ Seed \/ Restart
    \/ \E w \in Workers : Worker(w)
    \/ \E r \in Ranges : LeaseExpires(r)

Spec == Init /\ [][Next]_vars

(***************************************************************************)
(* Fairness.  Every tokio task that is ready runs again, the node keeps    *)
(* finalizing and reconnecting, and time passes for abandoned leases; no   *)
(* fault is ever due.                                                      *)
(***************************************************************************)
LiveProgress == LiveBoot \/ LiveTick \/ LiveIndex \/ LiveRejected
SeedProgress == SeedHead \/ SeedScan \/ SeedInsert
WorkerProgress(w) ==
    \/ WorkerBoot(w) \/ \E r \in Ranges : Claim(w, r)
    \/ WorkerIndex(w) \/ WorkerRejected(w)
    \/ MarkChunkDone(w) \/ MarkChunkFailed(w)
Abandoned(r) == \A w \in Workers : workers[w].chunk # r

Fairness ==
    /\ WF_vars(Finalize) /\ WF_vars(Publish) /\ WF_vars(Connect)
    /\ WF_vars(LiveProgress) /\ WF_vars(SeedProgress)
    /\ \A w \in Workers : WF_vars(WorkerProgress(w))
    /\ \A r \in Ranges : WF_vars(Abandoned(r) /\ LeaseExpires(r))

FairSpec == Spec /\ Fairness

-----------------------------------------------------------------------------
(* Safety *)

\* Every variable keeps its type: the tables hold rows of their schema and
\* the tasks stay in the states their loops have.
TypeOK ==
    /\ blocks \in SUBSET Blocks
    /\ accounts \in [Accounts -> AccountRow \cup {None}]
    /\ registry \in [AtsIds -> Nat \cup {None}]
    /\ versions \in SUBSET (AtsIds \X Nat)
    /\ cursor \in Blocks \cup {None}
    /\ chunks \in [Ranges -> ChunkRow]
    /\ finalized \in Blocks
    /\ watch \in Blocks \cup {None}
    /\ headChanged \in BOOLEAN
    /\ live \in LiveTask
    /\ seeder \in SeedTask
    /\ workers \in [Workers -> WorkerTask]
    /\ faults \in Nat

\* A chunk marked done has every one of its blocks stored, whatever leases
\* expired, workers raced or commits were lost on the way: mark_chunk_done
\* runs only after index_chunk walked the whole range (backfill.rs).
DoneChunksAreIndexed ==
    \A r \in Ranges : chunks[r].state = "done" => Span(r) \subseteq blocks

\* The promise of the pipeline, over the same tables.
Promise == INSTANCE IndexedChain WITH indexed <- blocks, balances <- accounts

\* account_balances is a function of WHICH blocks are stored, never of the
\* order, the repetition or the task that stored them (sink.rs: "the live
\* worker and the backfill workers race safely on overlapping ranges").
AccountsFollowBlocks == Promise!Summarised

\* When the stored blocks are an unbroken prefix of the chain, every stored
\* balance is the chain's own balance at the end of it, although each
\* account was last written at a block of its own.
PrefixBalancesAreExact ==
    \A h \in Blocks : blocks = 0 .. h =>
        \A a \in Accounts :
            Free[h][a] = IF accounts[a] = None THEN 0 ELSE accounts[a].free

\* Seeding forgets nothing: once a seed has committed, every block up to the
\* head it saw is stored or lies in a chunk that is still to be drained -
\* including the ranges an earlier run of the process had already queued
\* (seed_chunks: ON CONFLICT DO NOTHING).
SeedCoversHead ==
    seeder.pc = "seeded" =>
        \A b \in 0 .. seeder.head :
            \/ b \in blocks
            \/ \E r \in Ranges :
                  b \in Span(r)
                  /\ chunks[r].state \in {"pending", "leased", "expired"}

\* FOR UPDATE SKIP LOCKED and the lease: as long as no worker outlives its
\* lease, no two workers index the same chunk (claim_chunk: "two workers
\* racing on the same scan never pick the same row").
LeaseExcludes ==
    "slow" \notin FaultKinds =>
        \A v, w \in Workers :
            v # w /\ workers[v].chunk # None
                => workers[v].chunk # workers[w].chunk

\* version_count is one more than the newest stored version although bumps
\* arrive in any order and are replayed, and versions never outlive their
\* registry row (apply_ats: GREATEST, ON DELETE CASCADE).
VersionCountsAgree ==
    \A i \in AtsIds :
        LET stored == {u \in versions : u[1] = i}
        IN  IF registry[i] = None THEN stored = {}
            ELSE /\ <<i, registry[i] - 1>> \in stored
                 /\ \A u \in stored : u[2] < registry[i]

(* What makes the above inductive: what a task's local state says of the
   tables, whoever else has written them since.                             *)

\* A worker has stored the part of its chunk that is behind it.
WorkersRemember ==
    \A w \in Workers :
        LET k == workers[w] IN
        /\ k.chunk = None <=> k.pc \in {"boot", "idle", "exited"}
        /\ k.pc = "index" =>
              k.next \in Span(k.chunk) /\ k.chunk[1] .. k.next - 1 \subseteq blocks
        /\ k.pc = "succeeded" => Span(k.chunk) \subseteq blocks

\* The live worker's memory is the cursor, or one block behind it after a
\* commit whose outcome was lost; nothing it does is ahead of the node.
LiveRemembers ==
    /\ watch # None => watch <= finalized
    /\ cursor # None =>
          cursor <= finalized /\ (watch # None => cursor <= watch)
    /\ live.last # None => cursor \in {live.last, live.last + 1}
    /\ live.pc = "fill" =>
          /\ live.num <= live.target /\ live.target <= finalized
          /\ watch # None => live.target <= watch
          /\ IF live.last = None THEN cursor # None => cursor <= live.num
             ELSE live.num = live.last + 1

\* The inductive invariant.
IInv ==
    /\ TypeOK
    /\ WorkersRemember
    /\ LiveRemembers
    /\ DoneChunksAreIndexed
    /\ AccountsFollowBlocks

(* Action properties *)

\* Once the live worker has a block behind it, its cursor walks the chain one
\* block at a time - never back, never over a block - through failed ticks,
\* commits whose outcome was lost, missed heads and restarts; and it names a
\* block stored by the same commit (index_block: block and cursor in one
\* transaction).  Before that it anchors, wherever the head is.
CursorNeverSkips ==
    [][cursor' # cursor =>
            /\ cursor' \in blocks'
            /\ live.last # None => cursor' = cursor + 1]_vars

\* The pipeline implements IndexedChain: every step of every task is one
\* block stored, with the account rows it implies, or invisible to readers.
ImplementsPromise == Promise!Spec

(* Liveness, under FairSpec *)

\* Block b updates an ATS that a stored block has revoked and the registry no longer
\* has: its version is refused however often b is retried, also when b is stored already
\* and only replayed (apply_ats: DO NOTHING meets no row, the foreign key no parent).
Orphaned(b) ==
    /\ b \in Blocks /\ ~ForeignKeysHold(registry, b)
    /\ \E u \in VersionInserts(b), c \in blocks :
         u[1] \in Revoked[c] /\ registry[u[1]] = None

\* The queue drains, every chunk of it done, as long as one worker of the pool
\* is alive: the lease of a crashed or exited worker lapses and another
\* finishes the range, and a chunk put back after a failure, or by a worker
\* that outlived its lease, is drained again (claim_chunk).  The exception is a
\* chunk with an orphaned update: it goes round for ever.
QueueBusy == \E r \in Ranges : chunks[r].state \notin {"none", "done"}

ChunksDrain ==
    \/ QueueBusy ~> ~QueueBusy \/ \A w \in Workers : workers[w].pc = "exited"
    \/ <>[](\E r \in Ranges :
              chunks[r].state \notin {"none", "done"} /\ \E b \in Span(r) : Orphaned(b))


-----------------------------------------------------------------------------
(* What a comment of the code says and the code does not do *)

\* live.rs: below the head it anchors at there is "no retroactive history walk
\* - that's the backfill's job": with the seed committed, every block up to
\* the live cursor is stored or queued.
NoHoleBelowCursor ==
    seeder.pc = "seeded" /\ cursor # None =>
        \A b \in 0 .. cursor :
            b \in blocks \/ \E r \in Present : b \in Span(r)
=============================================================================
