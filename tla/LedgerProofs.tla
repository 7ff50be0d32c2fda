---------------------------- MODULE LedgerProofs ----------------------------
(***************************************************************************)
(* The promises of the balance table, the reconcile sweep and the health   *)
(* banner, for every chain, batch size and threshold, whatever the         *)
(* indexer, the sweep and the node do.                                     *)
(***************************************************************************)
EXTENDS Ledger, OrderLemmas, FiniteSetTheorems, TLAPS

\* Nothing is ahead of the node, and a batch of the sweep is of rows that exist.
LedgerInv ==
    /\ final \in Blocks
    /\ watch \in 0 .. final \cup {None}
    /\ stored \subseteq 0 .. final
    /\ cursor \in 0 .. final \cup {None}
    /\ rows \in [Accounts -> AccountRow \cup {None}]
    /\ DOMAIN sweep = {"pc", "at", "cursor", "batch", "alone"}
    /\ sweep.at \in 0 .. final
    /\ \A a \in sweep.batch : a \in Accounts /\ rows[a] # None
    /\ DOMAIN banner = {"pc", "finalized", "head", "age"}
    /\ banner.finalized \in 0 .. final \cup {None}

\* The constants as numbers, and None as none.
LEMMA Numbers ==
    /\ MaxBlock \in Nat /\ Wrong \in Nat /\ HealthyLag \in Nat
    /\ None \notin Int /\ None \notin AccountRow
BY ChainTypes, LedgerAssumption, NoneIsNoRow

\* One row, as the two statements that write it leave it.
LEMMA SnapshotType ==
    ASSUME NEW b \in Blocks, NEW a \in Accounts
    PROVE  Snapshot(b, a) \in AccountRow
BY ChainTypes DEF Snapshot, AccountRow

LEMMA Upserted ==
    ASSUME NEW row \in AccountRow \cup {None}, NEW snap \in AccountRow
    PROVE  /\ UpsertSnapshot(row, snap) \in AccountRow
           /\ row # None => UpsertSnapshot(row, snap).nonce >= row.nonce
BY DEF UpsertSnapshot, MergeSnapshot, AccountRow, Least, Greatest, Blocks

LEMMA Rewritten ==
    ASSUME NEW row \in AccountRow, NEW snap \in AccountRow
    PROVE  /\ Reconciled(row, snap) \in AccountRow
           /\ Reconciled(row, snap).nonce >= row.nonce
<1> DEFINE nonce == Greatest(row.nonce, snap.nonce)
<1>1. nonce \in Nat /\ nonce >= row.nonce
    BY DEF Greatest, AccountRow
<1>2. Reconciled(row, snap) = [row EXCEPT !.free = snap.free, !.nonce = nonce]
    BY DEF Reconciled
<1> HIDE DEF nonce
<1> QED
    BY <1>1, <1>2 DEF AccountRow

\* No row disappears and no nonce falls from one table to the next.
Advances(old, new) ==
    /\ new \in [Accounts -> AccountRow \cup {None}]
    /\ \A a \in Accounts :
         old[a] # None => new[a] # None /\ new[a].nonce >= old[a].nonce

LEMMA CommitAdvances ==
    ASSUME LedgerInv, NEW b \in Blocks, Commit(b)
    PROVE  Advances(rows, rows')
<1>1. ASSUME NEW a \in Accounts
      PROVE  LET new == IF a \in TouchedAt(b)
                        THEN UpsertSnapshot(rows[a], Snapshot(b, a)) ELSE rows[a]
             IN  /\ new \in AccountRow \cup {None}
                 /\ rows[a] # None => new # None /\ new.nonce >= rows[a].nonce
    <2>1. rows[a] \in AccountRow \cup {None}
        BY DEF LedgerInv
    <2>2. CASE a \in TouchedAt(b)
        BY <2>1, <2>2, SnapshotType, Upserted, Numbers
    <2>3. CASE a \notin TouchedAt(b)
        BY <2>1, <2>3 DEF AccountRow
    <2> QED BY <2>2, <2>3
<1>2. rows' = [a \in Accounts |-> IF a \in TouchedAt(b)
                                  THEN UpsertSnapshot(rows[a], Snapshot(b, a))
                                  ELSE rows[a]]
    BY DEF Commit, ApplyAccountSnapshots
<1> QED
    BY <1>1, <1>2 DEF Advances

LEMMA SweepAdvances ==
    ASSUME LedgerInv, WriteBatch
    PROVE  Advances(rows, rows')
<1>1. ASSUME NEW a \in Accounts
      PROVE  LET new == IF a \in sweep.batch
                        THEN Reconciled(rows[a], FetchAccount(a)) ELSE rows[a]
             IN  /\ new \in AccountRow \cup {None}
                 /\ rows[a] # None => new # None /\ new.nonce >= rows[a].nonce
    <2>1. rows[a] \in AccountRow \cup {None}
        BY DEF LedgerInv
    <2>2. CASE a \in sweep.batch
        <3>1. sweep.at \in Blocks
            BY Numbers DEF LedgerInv, Blocks
        <3>2. FetchAccount(a) \in AccountRow
            BY <3>1, SnapshotType DEF FetchAccount
        <3>3. rows[a] \in AccountRow
            BY <2>1, <2>2 DEF LedgerInv
        <3> QED BY <2>2, <3>2, <3>3, Rewritten, Numbers
    <2>3. CASE a \notin sweep.batch
        BY <2>1, <2>3 DEF AccountRow
    <2> QED BY <2>2, <2>3
<1>2. rows' = [a \in Accounts |-> IF a \in sweep.batch
                                  THEN Reconciled(rows[a], FetchAccount(a))
                                  ELSE rows[a]]
    BY DEF WriteBatch
<1> QED
    BY <1>1, <1>2 DEF Advances

LEMMA CorruptAdvances ==
    ASSUME LedgerInv, Corrupt
    PROVE  Advances(rows, rows')
<1>1. PICK a \in Accounts : rows[a] # None /\ rows' = [rows EXCEPT ![a].free = Wrong]
    BY DEF Corrupt
<1>2. rows[a] \in AccountRow
    BY <1>1 DEF LedgerInv
<1> DEFINE new == [rows[a] EXCEPT !.free = Wrong]
<1>3. new \in AccountRow /\ new.nonce = rows[a].nonce /\ new.nonce \in Nat
    BY <1>2, Numbers DEF AccountRow
<1>4. rows' = [rows EXCEPT ![a] = new]
    BY <1>1
<1> HIDE DEF new
<1> QED
    BY <1>1, <1>3, <1>4, Numbers DEF Advances, LedgerInv, AccountRow

LEMMA RowsAdvance == LedgerInv /\ [Next]_vars => Advances(rows, rows')
<1> SUFFICES ASSUME LedgerInv, [Next]_vars PROVE Advances(rows, rows')
    OBVIOUS
<1>1. CASE LiveCommit
    <2>1. PICK b : b = (IF cursor = None THEN watch ELSE cursor + 1) /\ b <= watch
                   /\ Commit(b)
        BY <1>1 DEF LiveCommit
    <2>2. b \in Blocks
        BY <1>1, <2>1, Numbers DEF LiveCommit, LedgerInv, Blocks
    <2> QED BY <2>1, <2>2, CommitAdvances
<1>2. CASE BackfillCommit
    <2>1. PICK b \in 0 .. final : Commit(b)
        BY <1>2 DEF BackfillCommit
    <2>2. b \in Blocks
        BY Numbers DEF LedgerInv, Blocks
    <2> QED BY <2>1, <2>2, CommitAdvances
<1>3. CASE WriteBatch
    BY <1>3, SweepAdvances
<1>4. CASE Corrupt
    BY <1>4, CorruptAdvances
<1>5. CASE rows' = rows
    BY <1>5 DEF LedgerInv, Advances, AccountRow
<1> QED
    BY <1>1, <1>2, <1>3, <1>4, <1>5
    DEF Next, vars, table, Finalize, Publish, Disconnect, LiveStops, StopIndexer,
        StartIndexer, Tick, StartSweep, ScanBatch, SweepFails, AskBanner, ReadCursor,
        ReadAge, AnswerBanner

LEMMA InitInv == Init => LedgerInv
BY Numbers DEF Init, LedgerInv, NoSweep, NoBanner, Blocks

\* What the node, the indexer and the banner hold.
WorldOK ==
    /\ final \in Blocks
    /\ watch \in 0 .. final \cup {None}
    /\ stored \subseteq 0 .. final
    /\ cursor \in 0 .. final \cup {None}

LEMMA WorldStep == LedgerInv /\ [Next]_vars => WorldOK' /\ final <= final'
<1> SUFFICES ASSUME LedgerInv, [Next]_vars PROVE WorldOK' /\ final <= final'
    OBVIOUS
<1>w. WorldOK
    BY DEF WorldOK, LedgerInv
<1> USE <1>w, Numbers DEF WorldOK, Blocks
<1>1. CASE Finalize
    <2>1. /\ final \in Nat /\ final' = final + 1 /\ final < MaxBlock
          /\ UNCHANGED <<watch, stored, cursor>>
        BY <1>1 DEF Finalize, indexer
    <2> QED BY <2>1
<1>2. CASE Publish \/ Disconnect
    <2>1. /\ final \in Nat /\ watch' \in {final, None}
          /\ UNCHANGED <<final, stored, cursor>>
        BY <1>2 DEF Publish, Disconnect, indexer
    <2> QED BY <2>1
<1>3. CASE LiveCommit
    <2>1. PICK b : /\ b = IF cursor = None THEN watch ELSE cursor + 1
                   /\ b <= watch /\ Commit(b) /\ cursor' = BumpCursor(cursor, b)
        BY <1>3 DEF LiveCommit
    <2>2. b \in 0 .. final
        BY <1>3, <2>1 DEF LiveCommit
    <2>3. UNCHANGED <<final, watch>> /\ stored' = stored \cup {b}
        BY <1>3, <2>1 DEF LiveCommit, Commit, InsertBlock
    <2>4. cursor' \in {cursor, b}
        BY <2>1 DEF BumpCursor
    <2> QED BY <2>2, <2>3, <2>4 DEF WorldOK
<1>4. CASE BackfillCommit
    BY <1>4 DEF BackfillCommit, Commit, InsertBlock
<1>5. CASE UNCHANGED <<final, watch, stored, cursor>> BY <1>5
<1> QED
    BY <1>1, <1>2, <1>3, <1>4, <1>5
    DEF Next, vars, indexer, LiveStops, StopIndexer, StartIndexer, Tick, Corrupt,
        StartSweep, ScanBatch, WriteBatch, SweepFails, AskBanner, ReadCursor, ReadAge,
        AnswerBanner

\* What the sweep holds: rows do not disappear under a batch.
SweepOK ==
    /\ DOMAIN sweep = {"pc", "at", "cursor", "batch", "alone"}
    /\ sweep.at \in 0 .. final
    /\ \A a \in sweep.batch : a \in Accounts /\ rows[a] # None

LEMMA SweepStep == LedgerInv /\ [Next]_vars => SweepOK'
<1> SUFFICES ASSUME LedgerInv, [Next]_vars PROVE SweepOK'
    OBVIOUS
<1>1. /\ final \in Nat /\ final' \in Nat /\ final <= final'
      /\ sweep.at \in 0 .. final'
    BY WorldStep, Numbers DEF LedgerInv, WorldOK, Blocks
<1>2. \A a \in sweep.batch : a \in Accounts /\ rows'[a] # None
    BY RowsAdvance DEF Advances, LedgerInv
<1>3. CASE StartSweep
    BY <1>3, <1>1 DEF StartSweep, NoSweep, SweepOK
<1>4. CASE ScanBatch
    <2> DEFINE batch == NextBatch(sweep.cursor)
    <2>1. \A a \in batch : a \in Accounts /\ rows'[a] # None
        BY <1>4 DEF ScanBatch, NextBatch, Above, table
    <2>2. \/ sweep' = [sweep EXCEPT !.pc = "done"]
          \/ sweep' = [sweep EXCEPT !.pc = "write", !.cursor = Max(batch),
                                    !.batch = batch]
        BY <1>4 DEF ScanBatch
    <2> HIDE DEF batch
    <2> QED BY <2>1, <2>2, <1>1, <1>2 DEF SweepOK, LedgerInv
<1>5. CASE WriteBatch
    BY <1>5, <1>1, <1>2 DEF WriteBatch, SweepOK, LedgerInv
<1>6. CASE SweepFails
    BY <1>6, <1>1, <1>2 DEF SweepFails, SweepOK, LedgerInv
<1>7. CASE StartIndexer
    BY <1>7, <1>1, <1>2 DEF StartIndexer, SweepOK, LedgerInv
<1>8. CASE sweep' = sweep
    BY <1>8, <1>1, <1>2 DEF SweepOK, LedgerInv
<1> QED
    BY <1>3, <1>4, <1>5, <1>6, <1>7, <1>8
    DEF Next, vars, Finalize, Publish, Disconnect, LiveCommit, BackfillCommit,
        LiveStops, StopIndexer, Tick, Corrupt, AskBanner, ReadCursor, ReadAge,
        AnswerBanner

\* What the banner holds was read from the watch.
BannerOK ==
    /\ DOMAIN banner = {"pc", "finalized", "head", "age"}
    /\ banner.finalized \in 0 .. final \cup {None}

LEMMA BannerStep == LedgerInv /\ [Next]_vars => BannerOK'
<1> SUFFICES ASSUME LedgerInv, [Next]_vars PROVE BannerOK'
    OBVIOUS
<1>1. /\ final \in Nat /\ final' \in Nat /\ final <= final'
      /\ banner.finalized \in 0 .. final' \cup {None}
      /\ watch \in 0 .. final' \cup {None}
    BY WorldStep, Numbers DEF LedgerInv, WorldOK, Blocks
<1>2. DOMAIN banner' = {"pc", "finalized", "head", "age"}
      /\ banner'.finalized \in {banner.finalized, watch, None}
    <2>1. CASE AskBanner BY <2>1 DEF AskBanner, NoBanner
    <2>2. CASE ReadCursor
        <3>1. PICK h : banner' = [banner EXCEPT !.pc = "age", !.head = h]
            BY <2>2 DEF ReadCursor
        <3> QED BY <3>1 DEF LedgerInv
    <2>3. CASE ReadAge
        <3>1. PICK g : banner' = [banner EXCEPT !.pc = "count", !.age = g]
            BY <2>3 DEF ReadAge
        <3> QED BY <3>1 DEF LedgerInv
    <2>4. CASE AnswerBanner BY <2>4 DEF AnswerBanner, NoBanner
    <2>5. CASE banner' = banner BY <2>5 DEF LedgerInv
    <2> QED
        BY <2>1, <2>2, <2>3, <2>4, <2>5
        DEF Next, vars, Finalize, Publish, Disconnect, LiveCommit, BackfillCommit,
            LiveStops, StopIndexer, StartIndexer, Tick, Corrupt, StartSweep,
            ScanBatch, WriteBatch, SweepFails
<1> QED BY <1>1, <1>2 DEF BannerOK

LEMMA InvStep == LedgerInv /\ [Next]_vars => LedgerInv'
BY WorldStep, RowsAdvance, SweepStep, BannerStep
DEF LedgerInv, WorldOK, SweepOK, BannerOK, Advances

\* Of the blocks up to h a set of blocks up to c misses at most those its count falls
\* short by, and those above h that it may hold instead.
LEMMA CountBoundsTheHole ==
    ASSUME NEW c \in Nat, NEW h \in 0 .. c, NEW S \in SUBSET (0 .. c)
    PROVE  /\ Cardinality(S) \in Nat /\ Cardinality((0 .. h) \ S) \in Nat
           /\ Cardinality((0 .. h) \ S) <= (c - h) + (h + 1 - Cardinality(S))
<1> DEFINE low == S \cap (0 .. h)
           high == S \ (0 .. h)
<1>1. /\ IsFiniteSet(0 .. c) /\ IsFiniteSet(0 .. h) /\ IsFiniteSet(h + 1 .. c)
      /\ Cardinality(0 .. h) = h + 1
      /\ Cardinality(h + 1 .. c) = c - h
    <2>1. 0 \in Int /\ h \in Int /\ c \in Int /\ h + 1 \in Int
        OBVIOUS
    <2>2. IsFiniteSet(0 .. c)
        BY <2>1, FS_Interval
    <2>3. IsFiniteSet(0 .. h) /\ Cardinality(0 .. h) = IF 0 > h THEN 0 ELSE h - 0 + 1
        BY <2>1, FS_Interval
    <2>4. /\ IsFiniteSet(h + 1 .. c)
          /\ Cardinality(h + 1 .. c) = IF h + 1 > c THEN 0 ELSE c - (h + 1) + 1
        BY <2>1, FS_Interval
    <2>5. Cardinality(0 .. h) = h + 1 /\ Cardinality(h + 1 .. c) = c - h
        BY <2>3, <2>4
    <2> QED BY <2>2, <2>3, <2>4, <2>5
<1>2. high \subseteq h + 1 .. c
    OBVIOUS
<1>3. IsFiniteSet(high) /\ Cardinality(high) <= c - h
    BY <1>1, <1>2, FS_Subset
<1>4. IsFiniteSet(low) /\ IsFiniteSet(S) /\ Cardinality(low) \in Nat
      /\ Cardinality(high) \in Nat
    BY <1>1, <1>3, FS_Subset, FS_CardinalityType
<1>5. Cardinality(S) = Cardinality(low) + Cardinality(high)
    <2>1. S = low \cup high /\ low \cap high = {}
        OBVIOUS
    <2>2. Cardinality(low \cup high)
            = Cardinality(low) + Cardinality(high) - Cardinality(low \cap high)
        BY <1>3, <1>4, FS_Union
    <2>3. Cardinality(low \cap high) = 0
        BY <2>1, FS_EmptySet
    <2> HIDE DEF low, high
    <2> QED BY <2>1, <2>2, <2>3, <1>4
<1>6. Cardinality((0 .. h) \ S) = (h + 1) - Cardinality(low)
    <2>1. (0 .. h) \ S = (0 .. h) \ low
        OBVIOUS
    <2>2. Cardinality((0 .. h) \ low)
            = Cardinality(0 .. h) - Cardinality((0 .. h) \cap low)
        BY <1>1, FS_Difference
    <2>3. (0 .. h) \cap low = low
        OBVIOUS
    <2> QED BY <2>1, <2>2, <2>3, <1>1
<1> HIDE DEF low, high
<1>7. Cardinality(S) \in Nat
    BY <1>4, <1>5
<1>8. Cardinality((0 .. h) \ S) \in Nat
    <2>1. (0 .. h) \ S \in SUBSET (0 .. h)
        OBVIOUS
    <2> QED BY <1>1, <2>1, FS_Subset, FS_CardinalityType
<1> QED
    BY <1>3, <1>4, <1>5, <1>6, <1>7, <1>8

\* A product with a natural number grows with its other factor.
LEMMA ProductGrows ==
    ASSUME NEW x \in Int, NEW y \in Int, NEW p \in Nat, x <= y
    PROVE  x * p <= y * p
<1> DEFINE d == y - x
<1>1. d \in Nat /\ y = x + d
    OBVIOUS
<1> HIDE DEF d
<1>2. y * p = x * p + d * p
    BY <1>1
<1>3. x * p \in Int /\ d * p \in Nat
    BY <1>1
<1> QED BY <1>2, <1>3

------------------------------------------------------------------------------
\* The invariant holds in every reachable state.
THEOREM Invariance == Spec => []LedgerInv
BY InitInv, InvStep, PTL DEF Spec

\* apply_account_snapshots and reconcile_account_balances take GREATEST: no order of
\* blocks, replays and sweeps takes a stored nonce back.
THEOREM NoncesHold == Spec => NonceNeverFalls
<1>1. LedgerInv /\ [Next]_vars =>
        [\A a \in Accounts : rows[a] # None => rows'[a].nonce >= rows[a].nonce]_vars
    BY RowsAdvance DEF Advances
<1> QED
    BY Invariance, <1>1, PTL DEF Spec, NonceNeverFalls

\* compute_status: what a Healthy banner may hide of the blocks below the head it read,
\* for every threshold and precision and whatever moved between its readings.
THEOREM HealthyHolds == Spec => []HealthyBoundsTheHole
<1>1. LedgerInv => HealthyBoundsTheHole
    <2> SUFFICES ASSUME LedgerInv, banner.finalized # None,
                        DeriveState(Cardinality(stored)) = "Healthy"
                 PROVE  (Cardinality((0 .. banner.finalized) \ stored)
                            - (final - banner.finalized)) * Precision
                            <= banner.finalized + 1
        BY DEF HealthyBoundsTheHole
    <2> DEFINE total == banner.finalized + 1
               done == Cardinality(stored)
               hidden == Cardinality((0 .. banner.finalized) \ stored)
                            - (final - banner.finalized)
    <2>1. /\ final \in Nat /\ banner.finalized \in 0 .. final
          /\ stored \in SUBSET (0 .. final)
        BY Numbers DEF LedgerInv, Blocks
    <2>2. Precision \in Nat /\ total \in Nat
        BY <2>1, LedgerAssumption
    <2>3. ShowsFull(done, total)
        BY DEF DeriveState, BackfillTotal
    <2>4. done \in Nat /\ hidden \in Int /\ hidden <= total - done
        <3> DEFINE missing == Cardinality((0 .. banner.finalized) \ stored)
        <3>1. /\ done \in Nat /\ missing \in Nat
              /\ missing <= (final - banner.finalized) + (banner.finalized + 1 - done)
            BY <2>1, CountBoundsTheHole, Zenon
        <3>2. hidden = missing - (final - banner.finalized)
            OBVIOUS
        <3> HIDE DEF missing, hidden, done
        <3> QED BY <2>1, <3>1, <3>2
    <2> HIDE DEF total, done, hidden
    <2>5. hidden * Precision <= (total - done) * Precision
        BY <2>2, <2>4, ProductGrows
    <2>6. (total - done) * Precision <= total
        <3>1. CASE done >= total
            <4>1. total - done <= 0 /\ 0 * Precision = 0
                BY <2>2, <2>4, <3>1
            <4>2. (total - done) * Precision <= 0
                BY <2>2, <2>4, <4>1, ProductGrows
            <4> QED BY <2>2, <2>4, <4>2
        <3>2. CASE ~(done >= total)
            BY <2>3, <3>2 DEF ShowsFull
        <3> QED BY <3>1, <3>2
    <2>7. hidden * Precision <= total
        BY <2>2, <2>4, <2>5, <2>6
    <2> QED BY <2>7 DEF total, hidden
<1> QED
    BY Invariance, <1>1, PTL

------------------------------------------------------------------------------
(* Types, in full *)

LEMMA AgesHold ==
    /\ Ages \subseteq Nat /\ 0 \in Ages
    /\ \A t \in Ages, n \in Ages : t + 1 = n => n \in Ages
<1> DEFINE limits == {ReadyMaxLag, OfflineAge}
<1>1. limits \subseteq Nat /\ limits # {}
    BY LedgerAssumption
<1>2. \E m \in limits : \A n \in limits : m >= n
    <2>1. CASE ReadyMaxLag <= OfflineAge BY <1>1, <2>1
    <2>2. CASE ~(ReadyMaxLag <= OfflineAge) BY <1>1, <2>2
    <2> QED BY <2>1, <2>2
<1> HIDE DEF limits
<1>3. Max(limits) \in Nat
    BY <1>1, <1>2 DEF Max
<1>4. Ages = 0 .. 1 + Max(limits)
    BY DEF Ages, limits
<1> QED BY <1>3, <1>4

LEMMA AccountsAreNumbers == \A a \in Accounts : a \in Nat /\ a > 0
BY LedgerAssumption

\* SELECT ... ORDER BY account LIMIT BatchSize: at most that many rows, none left out
\* below the last of them, and a short batch is the rest of the table.
LEMMA BatchIsNext ==
    ASSUME NEW c \in Nat
    PROVE  /\ NextBatch(c) \in SUBSET Above(c) /\ Cardinality(NextBatch(c)) <= BatchSize
           /\ NextBatch(c) = {} => Above(c) = {}
           /\ NextBatch(c) # {} =>
                /\ Max(NextBatch(c)) \in NextBatch(c)
                /\ \A a \in NextBatch(c) : a <= Max(NextBatch(c))
           /\ \A a \in Above(c), b \in NextBatch(c) : a <= b => a \in NextBatch(c)
           /\ IsLast(NextBatch(c)) => NextBatch(c) = Above(c)
<1> DEFINE S == Above(c)
           batch == NextBatch(c)
<1>1. S \in SUBSET Nat /\ BatchSize \in Nat /\ BatchSize > 0
    <2>1. \A a \in S : a \in Nat
        BY AccountsAreNumbers DEF Above
    <2>2. BatchSize \in Nat \ {0}
        BY LedgerAssumption
    <2> HIDE DEF S
    <2> QED BY <2>1, <2>2
<1>2. batch = FirstOf(S, BatchSize)
    BY DEF NextBatch, FirstOf, Preceding
<1> HIDE DEF S, batch
<1>3. /\ IsFiniteSet(batch) /\ Cardinality(batch) <= BatchSize
      /\ \A a \in S, b \in batch : a <= b => a \in batch
      /\ Cardinality(batch) < BatchSize => batch = S
    BY <1>1, <1>2, FirstElements
<1>4. batch \in SUBSET S /\ batch \in SUBSET Nat
    BY <1>1, <1>2 DEF FirstOf
<1>5. batch = {} => S = {}
    BY <1>1, <1>3, FS_EmptySet
<1>6. batch # {} => Max(batch) \in batch /\ \A a \in batch : a <= Max(batch)
    <2> SUFFICES ASSUME batch # {}
                 PROVE  Max(batch) \in batch /\ \A a \in batch : a <= Max(batch)
        OBVIOUS
    <2>1. \E x \in batch : \A y \in batch : x >= y
        <3>1. PICK x \in batch : \A y \in batch : y <= x
            BY <1>3, <1>4, FiniteHasGreatest
        <3> QED BY <1>4, <3>1
    <2>2. Max(batch) \in batch /\ \A y \in batch : Max(batch) >= y
        BY <2>1 DEF Max
    <2> QED BY <1>4, <2>2
<1> QED
    BY <1>3, <1>4, <1>5, <1>6 DEF S, batch, IsLast

SweepRecord(last) ==
    [pc : {"off", "scan", "write", "done", "failed"}, at : 0 .. last,
     cursor : Accounts \cup {0}, batch : SUBSET Accounts, alone : BOOLEAN]

BannerRecord ==
    [pc : {"off", "head", "age", "count"}, finalized : Blocks \cup {None},
     head : Blocks \cup {None}, age : Ages \cup {None}]

LEMMA IndexerTypes ==
    ASSUME LedgerInv, TypeOK, [Next]_vars
    PROVE  /\ {running', stuck'} \subseteq BOOLEAN
           /\ cursor' \in stored' \cup {None}
           /\ age' \in Ages \cup {None} /\ (age' = None <=> cursor' = None)
<1> USE DEF TypeOK
<1>1. CASE LiveCommit
    <2>1. PICK b : /\ b = IF cursor = None THEN watch ELSE cursor + 1
                   /\ b <= watch /\ Commit(b) /\ cursor' = BumpCursor(cursor, b)
        BY <1>1 DEF LiveCommit
    <2>2. b \in Int
        BY <1>1, <2>1, Numbers DEF LiveCommit, LedgerInv, Blocks
    <2>3. /\ stored' = stored \cup {b} /\ age' = 0
          /\ cursor' \in {cursor, b} /\ cursor' # None
        BY <1>1, <2>1, <2>2, Numbers DEF LiveCommit, Commit, InsertBlock, BumpCursor
    <2>4. running' = running /\ stuck' = stuck
        BY <1>1 DEF LiveCommit
    <2>5. 0 # None BY Numbers
    <2> QED BY <2>3, <2>4, <2>5, AgesHold
<1>2. CASE BackfillCommit
    BY <1>2 DEF BackfillCommit, Commit, InsertBlock, AgeAfterBackfill
<1>3. CASE LiveStops \/ StopIndexer \/ StartIndexer
    BY <1>3 DEF LiveStops, StopIndexer, StartIndexer
<1>4. CASE Tick
    <2>1. age' \in Ages /\ UNCHANGED <<running, stuck, stored, cursor>> /\ age # None
        BY <1>4 DEF Tick
    <2>2. age' # None
        BY <2>1, AgesHold, Numbers
    <2> QED BY <2>1, <2>2
<1>5. CASE UNCHANGED indexer
    BY <1>5 DEF indexer
<1> QED
    BY <1>1, <1>2, <1>3, <1>4, <1>5
    DEF Next, vars, Finalize, Publish, Disconnect, Corrupt,
        StartSweep, ScanBatch, WriteBatch, SweepFails, AskBanner, ReadCursor, ReadAge,
        AnswerBanner

LEMMA OffType ==
    ASSUME LedgerInv, TypeOK, [Next]_vars
    PROVE  off' \subseteq {a \in Accounts : rows'[a] # None}
<1>1. \A a \in Accounts : rows[a] # None => rows'[a] # None
    BY RowsAdvance DEF Advances
<1>2. \A a \in off : a \in Accounts /\ rows'[a] # None
    BY <1>1 DEF TypeOK
<1>3. CASE WriteBatch
    BY <1>1, <1>2, <1>3 DEF WriteBatch, LedgerInv
<1>4. CASE Corrupt
    BY <1>1, <1>2, <1>4 DEF Corrupt
<1>5. CASE off' \subseteq off
    BY <1>2, <1>5
<1> QED
    BY <1>3, <1>4, <1>5
    DEF Next, vars, table, Finalize, Publish, Disconnect, LiveCommit, BackfillCommit,
        Commit, LiveStops, StopIndexer, StartIndexer, Tick, StartSweep, ScanBatch,
        SweepFails, AskBanner, ReadCursor, ReadAge, AnswerBanner

LEMMA EmptiedSweep ==
    ASSUME NEW last \in Nat, NEW old \in SweepRecord(last), Cardinality({}) = 0,
           NEW p \in {"done", "scan", "failed"},
           NEW new, new = [old EXCEPT !.pc = p, !.batch = {}]
    PROVE  new \in SweepRecord(last) /\ Cardinality(new.batch) <= BatchSize
<1>1. new.batch = {} /\ BatchSize \in Nat
    BY LedgerAssumption DEF SweepRecord
<1>2. Cardinality(new.batch) <= BatchSize
    BY <1>1
<1>3. old.at \in 0 .. last /\ old.cursor \in Accounts \cup {0} /\ old.alone \in BOOLEAN
    BY DEF SweepRecord
<1>4. new = [pc |-> p, at |-> old.at, cursor |-> old.cursor, batch |-> {},
             alone |-> old.alone]
    BY DEF SweepRecord
<1>5. new \in SweepRecord(last)
    BY <1>3, <1>4 DEF SweepRecord
<1> QED BY <1>2, <1>5

LEMMA SweepType ==
    ASSUME LedgerInv, TypeOK, [Next]_vars
    PROVE  sweep' \in SweepRecord(final') /\ Cardinality(sweep'.batch) <= BatchSize
<1>1. /\ final \in Nat /\ final' \in Nat /\ final <= final'
      /\ BatchSize \in Nat
    BY WorldStep, Numbers, LedgerAssumption DEF LedgerInv, WorldOK, Blocks
<1>2. sweep \in SweepRecord(final') /\ Cardinality(sweep.batch) <= BatchSize
    BY <1>1 DEF TypeOK, SweepRecord
<1>3. Cardinality({}) = 0
    BY FS_EmptySet
<1>4. CASE StartSweep
    <2>1. /\ final' = final /\ running \in BOOLEAN
          /\ sweep' = [pc |-> "scan", at |-> final, cursor |-> 0, batch |-> {},
                       alone |-> ~running]
        BY <1>4 DEF StartSweep, NoSweep, TypeOK
    <2>2. sweep'.batch = {} /\ final \in 0 .. final
        BY <1>1, <2>1
    <2> QED BY <1>1, <1>3, <2>1, <2>2 DEF SweepRecord
<1>5. CASE ScanBatch
    <2> DEFINE batch == NextBatch(sweep.cursor)
    <2>1. sweep.cursor \in Nat
        <3>1. sweep.cursor \in Accounts \cup {0}
            BY <1>2 DEF SweepRecord
        <3> QED BY <3>1, AccountsAreNumbers
    <2>2. /\ batch \in SUBSET Accounts /\ Cardinality(batch) <= BatchSize
          /\ batch # {} => Max(batch) \in Accounts
        BY <2>1, BatchIsNext DEF Above
    <2>3. \/ sweep' = [sweep EXCEPT !.pc = "done"]
          \/ batch # {} /\ sweep' = [sweep EXCEPT !.pc = "write",
                                        !.cursor = Max(batch), !.batch = batch]
        BY <1>5 DEF ScanBatch
    <2> HIDE DEF batch
    <2> QED BY <1>2, <2>2, <2>3 DEF SweepRecord
<1>6. CASE WriteBatch
    <2>1. PICK p \in {"done", "scan"} :
                sweep' = [sweep EXCEPT !.pc = p, !.batch = {}]
        BY <1>6 DEF WriteBatch
    <2> QED BY <1>1, <1>2, <1>3, <2>1, EmptiedSweep
<1>7. CASE SweepFails
    <2>1. sweep' = [sweep EXCEPT !.pc = "failed", !.batch = {}]
        BY <1>7 DEF SweepFails
    <2> HIDE DEF SweepRecord
    <2> QED BY <1>1, <1>2, <1>3, <2>1, EmptiedSweep
<1>8. CASE StartIndexer
    BY <1>8, <1>2 DEF StartIndexer, SweepRecord
<1>9. CASE sweep' = sweep
    BY <1>9, <1>2
<1> QED
    BY <1>4, <1>5, <1>6, <1>7, <1>8, <1>9
    DEF Next, vars, Finalize, Publish, Disconnect, LiveCommit, BackfillCommit,
        LiveStops, StopIndexer, Tick, Corrupt, AskBanner, ReadCursor, ReadAge,
        AnswerBanner

LEMMA BannerType ==
    ASSUME LedgerInv, TypeOK, [Next]_vars
    PROVE  banner' \in BannerRecord
<1>1. banner \in BannerRecord
    BY DEF TypeOK, BannerRecord
<1>2. /\ watch \in Blocks \cup {None} /\ cursor \in Blocks \cup {None}
      /\ age \in Ages \cup {None}
    BY Numbers DEF TypeOK, Blocks
<1>3. CASE AskBanner
    BY <1>2, <1>3 DEF AskBanner, NoBanner, BannerRecord
<1>4. CASE ReadCursor
    <2>1. PICK h \in {cursor, None} : banner' = [banner EXCEPT !.pc = "age", !.head = h]
        BY <1>4 DEF ReadCursor
    <2>2. h \in Blocks \cup {None} BY <1>2
    <2> QED BY <1>1, <2>1, <2>2 DEF BannerRecord
<1>5. CASE ReadAge
    <2>1. PICK g \in {age, None} : banner' = [banner EXCEPT !.pc = "count", !.age = g]
        BY <1>5 DEF ReadAge
    <2>2. g \in Ages \cup {None} BY <1>2
    <2> QED BY <1>1, <2>1, <2>2 DEF BannerRecord
<1>6. CASE AnswerBanner
    BY <1>6 DEF AnswerBanner, NoBanner, BannerRecord
<1>7. CASE banner' = banner
    BY <1>1, <1>7
<1> QED
    BY <1>3, <1>4, <1>5, <1>6, <1>7
    DEF Next, vars, Finalize, Publish, Disconnect, LiveCommit, BackfillCommit,
        LiveStops, StopIndexer, StartIndexer, Tick, Corrupt, StartSweep,
        ScanBatch, WriteBatch, SweepFails

LEMMA TypeInit == Init => TypeOK
<1> SUFFICES ASSUME Init PROVE TypeOK
    OBVIOUS
<1>1. 0 \in Blocks /\ Cardinality({}) = 0 /\ BatchSize \in Nat /\ 0 .. 0 = {0}
    BY Numbers, FS_EmptySet, LedgerAssumption DEF Blocks
<1>2. sweep \in SweepRecord(0)
    BY <1>1 DEF Init, NoSweep, SweepRecord
<1>3. banner \in BannerRecord
    BY DEF Init, NoBanner, BannerRecord
<1> QED
    <2>1. /\ Cardinality(sweep.batch) <= BatchSize /\ 0 \in 0 .. final
          /\ off \subseteq {a \in Accounts : rows[a] # None}
        BY <1>1 DEF Init, NoSweep
    <2>2. /\ final = 0 /\ watch = None /\ running = TRUE /\ stuck = FALSE
          /\ stored = {} /\ cursor = None /\ age = None
          /\ rows \in [Accounts -> AccountRow \cup {None}]
        BY DEF Init
    <2> QED BY <1>1, <1>2, <1>3, <2>1, <2>2 DEF TypeOK, SweepRecord, BannerRecord

LEMMA TypeStep == LedgerInv /\ TypeOK /\ [Next]_vars => TypeOK'
<1> SUFFICES ASSUME LedgerInv, TypeOK, [Next]_vars PROVE TypeOK'
    OBVIOUS
<1>1. WorldOK' /\ rows' \in [Accounts -> AccountRow \cup {None}]
    BY WorldStep, RowsAdvance DEF Advances
<1> QED
    BY <1>1, IndexerTypes, OffType, SweepType, BannerType
    DEF TypeOK, WorldOK, SweepRecord, BannerRecord

------------------------------------------------------------------------------
(* Rows and the blocks that wrote them *)

History(a) == {b \in stored : a \in TouchedAt(b)}

\* The balance of a row was read at its last activity, or by a sweep that pinned a
\* later block.
ReadAt(row, a, k) ==
    /\ k \in Blocks /\ row.free = Free[k][a]
    /\ \/ k = row.last_activity_block
       \/ row.last_activity_block <= k /\ k <= sweep.at

\* A row exists once a stored block touched its account, follows the newest of them, and
\* unless something left it wrong holds a balance read there or later.
RowFollows(a) ==
    IF History(a) = {} THEN rows[a] = None
    ELSE /\ rows[a] # None
         /\ rows[a].last_activity_block \in History(a)
         /\ \A b \in History(a) : b <= rows[a].last_activity_block
         /\ a \notin off => \E k \in Blocks : ReadAt(rows[a], a, k)

\* While the indexer is stopped a sweep leaves exact rows behind it, and its last batch
\* is the end of the table.
SweepInv ==
    /\ sweep.alone => ~running
    /\ sweep.alone /\ sweep.pc \in {"scan", "write", "done"} =>
         \A a \in Accounts :
            rows[a] # None =>
                \/ ExactAt(sweep.at, a)
                \/ sweep.pc = "write" /\ a \in sweep.batch
                \/ sweep.pc \in {"scan", "write"} /\ a > sweep.cursor
    /\ sweep.alone /\ sweep.pc = "write" /\ IsLast(sweep.batch) =>
         \A a \in Accounts : rows[a] # None => a <= sweep.cursor

LEMMA CommitFollows ==
    ASSUME LedgerInv, NEW b \in Blocks, Commit(b), sweep' = sweep,
           NEW a \in Accounts, RowFollows(a)
    PROVE  RowFollows(a)'
<1> DEFINE H == History(a)
           last == rows[a].last_activity_block
<1>1. /\ stored' = stored \cup {b} /\ off' = off \ Healed(b)
      /\ rows' = ApplyAccountSnapshots(rows, b)
    BY DEF Commit, InsertBlock
<1>2. History(a)' = IF a \in TouchedAt(b) THEN H \cup {b} ELSE H
    BY <1>1 DEF History
<1>3. rows'[a] = IF a \in TouchedAt(b)
                 THEN UpsertSnapshot(rows[a], Snapshot(b, a)) ELSE rows[a]
    BY <1>1 DEF ApplyAccountSnapshots
<1>4. b \in Nat /\ (\A c \in H : c \in Nat) /\ None \notin AccountRow
    <2>1. \A c \in H : c \in 0 .. final
        BY DEF LedgerInv, History
    <2>2. final \in Nat /\ b \in Nat /\ None \notin AccountRow
        BY Numbers DEF Blocks, LedgerInv
    <2> HIDE DEF H
    <2> QED BY <2>1, <2>2
<1>6. CASE a \notin TouchedAt(b)
    <2>1. a \notin off' => a \notin off
        BY <1>1, <1>6 DEF Healed
    <2>2. History(a)' = H /\ rows'[a] = rows[a]
        BY <1>2, <1>3, <1>6
    <2>3. \A k : ReadAt(rows[a], a, k) => ReadAt(rows[a], a, k)'
        BY <2>2 DEF ReadAt
    <2> QED BY <2>1, <2>2, <2>3 DEF RowFollows
<1>7. CASE a \in TouchedAt(b) /\ rows[a] = None
    <2>1. rows'[a] = Snapshot(b, a) /\ rows'[a] \in AccountRow
        BY <1>3, <1>7, SnapshotType DEF UpsertSnapshot
    <2>2. H = {} /\ History(a)' = {b}
        BY <1>2, <1>7 DEF RowFollows
    <2>3. rows'[a].last_activity_block = b /\ rows'[a].free = Free[b][a]
        BY <2>1 DEF Snapshot
    <2>4. ReadAt(rows[a], a, b)'
        BY <2>3 DEF ReadAt
    <2> QED BY <1>4, <2>1, <2>2, <2>3, <2>4 DEF RowFollows
<1>8. CASE a \in TouchedAt(b) /\ rows[a] # None
    <2>1. rows'[a] = MergeSnapshot(rows[a], Snapshot(b, a))
        BY <1>3, <1>8 DEF UpsertSnapshot
    <2>2. /\ last \in H /\ \A c \in H : c <= last
          /\ a \notin off => \E k \in Blocks : ReadAt(rows[a], a, k)
        BY <1>8 DEF RowFollows
    <2>3. last \in Nat /\ rows[a] \in AccountRow
        BY <1>4, <1>8, <2>2 DEF LedgerInv
    <2>4. /\ rows'[a].last_activity_block = Greatest(last, b)
          /\ rows'[a].free = IF b >= last THEN Free[b][a] ELSE rows[a].free
        BY <2>1 DEF MergeSnapshot, Snapshot
    <2>5. rows'[a] # None
        BY <1>8, CommitAdvances DEF Advances
    <2>6. History(a)' = H \cup {b}
        BY <1>2, <1>8
    <2> HIDE DEF last, H
    <2>7. CASE b >= last
        <3>1. rows'[a].last_activity_block = b /\ rows'[a].free = Free[b][a]
            BY <1>4, <2>3, <2>4, <2>7 DEF Greatest
        <3>2. \A c \in H \cup {b} : c <= b
            BY <1>4, <2>2, <2>3, <2>7
        <3>3. ReadAt(rows[a], a, b)'
            BY <3>1 DEF ReadAt
        <3> QED BY <2>5, <2>6, <3>1, <3>2, <3>3 DEF RowFollows
    <2>8. CASE ~(b >= last)
        <3>1. rows'[a].last_activity_block = last /\ rows'[a].free = rows[a].free
            BY <1>4, <2>3, <2>4, <2>8 DEF Greatest
        <3>2. \A c \in H \cup {b} : c <= last
            BY <1>4, <2>2, <2>3, <2>8
        <3>3. a \notin off' => a \notin off
            BY <1>1, <2>8 DEF Healed, last
        <3>4. \A k : ReadAt(rows[a], a, k) => ReadAt(rows[a], a, k)'
            BY <3>1 DEF ReadAt, last
        <3> QED BY <2>2, <2>5, <2>6, <3>1, <3>2, <3>3, <3>4 DEF RowFollows
    <2> QED BY <2>7, <2>8
<1> QED BY <1>6, <1>7, <1>8

\* The sweep's statement: a row touched after the pinned block is left wrong.
LEMMA WriteFollows ==
    ASSUME LedgerInv, WriteBatch, NEW a \in Accounts, RowFollows(a)
    PROVE  RowFollows(a)'
<1>1. stored' = stored /\ History(a)' = History(a)
    BY DEF WriteBatch, indexer, History
<1>2. sweep'.at = sweep.at /\ sweep.at \in Blocks /\ sweep.at \in Nat
    BY Numbers DEF WriteBatch, LedgerInv, Blocks
<1>3. CASE a \notin sweep.batch
    <2>1. rows'[a] = rows[a] /\ (a \notin off' => a \notin off)
        BY <1>3 DEF WriteBatch
    <2>2. \A k : ReadAt(rows[a], a, k) => ReadAt(rows[a], a, k)'
        BY <1>2, <2>1 DEF ReadAt
    <2> QED BY <1>1, <2>1, <2>2 DEF RowFollows
<1>4. CASE a \in sweep.batch
    <2>1. rows[a] \in AccountRow /\ rows[a] # None
        BY <1>4 DEF LedgerInv
    <2>2. rows'[a] = Reconciled(rows[a], FetchAccount(a))
        BY <1>4 DEF WriteBatch
    <2>3. /\ rows'[a].last_activity_block = rows[a].last_activity_block
          /\ rows'[a].free = Free[sweep.at][a]
        BY <2>1, <2>2, <1>2 DEF Reconciled, FetchAccount, Snapshot, AccountRow
    <2>4. a \notin off' => ~(sweep.at < rows[a].last_activity_block)
        BY <1>4 DEF WriteBatch
    <2>5. rows[a].last_activity_block \in Nat
        BY <2>1, Numbers DEF AccountRow, Blocks
    <2>6. a \notin off' => ReadAt(rows[a], a, sweep.at)'
        BY <1>2, <2>3, <2>4, <2>5 DEF ReadAt
    <2>7. rows'[a] # None
        BY <2>1, SweepAdvances DEF Advances
    <2> QED BY <1>1, <1>2, <2>1, <2>3, <2>6, <2>7 DEF RowFollows
<1> QED BY <1>3, <1>4

LEMMA CorruptFollows ==
    ASSUME LedgerInv, Corrupt, NEW a \in Accounts, RowFollows(a)
    PROVE  RowFollows(a)'
<1>1. PICK c \in Accounts : /\ rows[c] # None /\ off' = off \cup {c}
                            /\ rows' = [rows EXCEPT ![c].free = Wrong]
    BY DEF Corrupt
<1>2. UNCHANGED <<stored, sweep>> /\ History(a)' = History(a)
    BY DEF Corrupt, indexer, History
<1>3. CASE a = c
    <2>1. rows[a] \in AccountRow
        BY <1>1, <1>3 DEF LedgerInv
    <2>2. rows'[a] = [rows[a] EXCEPT !.free = Wrong] /\ a \in off' /\ rows[a] # None
        BY <1>1, <1>3 DEF LedgerInv
    <2>3. rows'[a].last_activity_block = rows[a].last_activity_block
        BY <2>1, <2>2 DEF AccountRow
    <2>4. rows'[a] # None
        BY <2>2, CorruptAdvances DEF Advances
    <2> QED BY <1>2, <2>2, <2>3, <2>4 DEF RowFollows
<1>4. CASE a # c
    <2>1. rows'[a] = rows[a] /\ (a \notin off' => a \notin off)
        BY <1>1, <1>4 DEF LedgerInv
    <2>2. \A k : ReadAt(rows[a], a, k) => ReadAt(rows[a], a, k)'
        BY <1>2, <2>1 DEF ReadAt
    <2> QED BY <1>2, <2>1, <2>2 DEF RowFollows
<1> QED BY <1>3, <1>4

\* A sweep pins no block below the one before it.
LEMMA OthersFollow ==
    ASSUME LedgerInv, NEW a \in Accounts, RowFollows(a),
           UNCHANGED <<rows, off, stored>>, sweep'.at \in {sweep.at, final}
    PROVE  RowFollows(a)'
<1>1. sweep.at \in Nat /\ sweep'.at \in Nat /\ sweep.at <= sweep'.at
    BY Numbers DEF LedgerInv, Blocks
<1>2. History(a)' = History(a)
    BY DEF History
<1>3. \A k : ReadAt(rows[a], a, k) => ReadAt(rows[a], a, k)'
    BY <1>1, Numbers DEF ReadAt, Blocks
<1> QED BY <1>2, <1>3 DEF RowFollows

LEMMA FollowStep ==
    ASSUME LedgerInv, TypeOK, [Next]_vars, NEW a \in Accounts, RowFollows(a)
    PROVE  RowFollows(a)'
<1>1. CASE LiveCommit
    <2>1. PICK b : b = (IF cursor = None THEN watch ELSE cursor + 1) /\ b <= watch
                   /\ Commit(b)
        BY <1>1 DEF LiveCommit
    <2>2. b \in Blocks
        BY <1>1, <2>1, Numbers DEF LiveCommit, LedgerInv, Blocks
    <2>3. sweep' = sweep
        BY <1>1 DEF LiveCommit
    <2> QED BY <2>1, <2>2, <2>3, CommitFollows
<1>2. CASE BackfillCommit
    <2>1. PICK b \in 0 .. final : Commit(b)
        BY <1>2 DEF BackfillCommit
    <2>2. b \in Blocks /\ sweep' = sweep
        BY <1>2, Numbers DEF LedgerInv, Blocks, BackfillCommit
    <2> QED BY <2>1, <2>2, CommitFollows
<1>3. CASE WriteBatch
    BY <1>3, WriteFollows
<1>4. CASE Corrupt
    BY <1>4, CorruptFollows
<1>5. CASE UNCHANGED <<table, stored>> /\ sweep'.at \in {sweep.at, final}
    BY <1>5, OthersFollow DEF table
<1>6. \/ UNCHANGED <<table, stored>> /\ sweep'.at \in {sweep.at, final}
      \/ LiveCommit \/ BackfillCommit \/ WriteBatch \/ Corrupt
    <2>1. sweep \in SweepRecord(final)
        BY DEF TypeOK, SweepRecord
    <2>2. CASE StartSweep
        BY <2>2 DEF StartSweep, NoSweep, indexer
    <2>3. CASE ScanBatch \/ SweepFails
        BY <2>1, <2>3 DEF ScanBatch, SweepFails, indexer, SweepRecord
    <2>4. CASE StartIndexer
        BY <2>1, <2>4 DEF StartIndexer, SweepRecord
    <2>5. CASE UNCHANGED <<table, stored, sweep>>
        BY <2>5
    <2> QED
        BY <2>2, <2>3, <2>4, <2>5
        DEF Next, vars, indexer, Finalize, Publish, Disconnect, LiveStops, StopIndexer,
            Tick, AskBanner, ReadCursor, ReadAge, AnswerBanner
<1> QED
    BY <1>1, <1>2, <1>3, <1>4, <1>5, <1>6

------------------------------------------------------------------------------
(* The sweep of a stopped indexer *)

LEMMA ScanKeepsSweepInv ==
    ASSUME LedgerInv, TypeOK, SweepInv, ScanBatch
    PROVE  SweepInv'
<1> DEFINE c == sweep.cursor
           batch == NextBatch(c)
<1>1. /\ sweep \in SweepRecord(final) /\ sweep.pc = "scan"
      /\ UNCHANGED <<running, rows>>
    BY DEF TypeOK, SweepRecord, ScanBatch, indexer, table
<1>2. c \in Nat
    BY <1>1, AccountsAreNumbers DEF SweepRecord
<1>3. /\ batch \in SUBSET Above(c)
      /\ batch = {} => Above(c) = {}
      /\ batch # {} => Max(batch) \in batch /\ \A a \in batch : a <= Max(batch)
      /\ \A a \in Above(c), b \in batch : a <= b => a \in batch
      /\ IsLast(batch) => batch = Above(c)
    BY <1>2, BatchIsNext
<1>4. \A a \in Accounts : a \in Above(c) <=> rows[a] # None /\ a > c
    BY DEF Above
<1>5. sweep' = IF batch = {} THEN [sweep EXCEPT !.pc = "done"]
               ELSE [sweep EXCEPT !.pc = "write", !.cursor = Max(batch),
                                  !.batch = batch]
    BY DEF ScanBatch
<1>6. sweep.alone => \A a \in Accounts : rows[a] # None =>
            ExactAt(sweep.at, a) \/ a \in Above(c)
    BY <1>1, <1>4 DEF SweepInv
<1>7. sweep.alone => ~running
    BY DEF SweepInv
<1> HIDE DEF batch
<1>8. CASE batch = {}
    <2>1. sweep'.pc = "done" /\ sweep'.at = sweep.at /\ sweep'.alone = sweep.alone
        BY <1>1, <1>5, <1>8 DEF SweepRecord
    <2>2. sweep.alone => \A a \in Accounts : rows[a] # None => ExactAt(sweep.at, a)
        BY <1>3, <1>6, <1>8
    <2> QED BY <1>1, <1>7, <2>1, <2>2 DEF SweepInv, ExactAt
<1>9. CASE batch # {}
    <2> DEFINE m == Max(batch)
    <2>1. /\ sweep'.pc = "write" /\ sweep'.at = sweep.at /\ sweep'.alone = sweep.alone
          /\ sweep'.cursor = m /\ sweep'.batch = batch
        BY <1>1, <1>5, <1>9 DEF SweepRecord
    <2>2. m \in batch /\ m \in Accounts /\ m > c /\ m \in Nat
        BY <1>3, <1>9, AccountsAreNumbers DEF Above
    <2>3. \A a \in batch : a <= m
        BY <1>3, <1>9
    <2> HIDE DEF m
    <2>4. \A a \in Above(c) : a \in batch \/ a > m
        <3> SUFFICES ASSUME NEW a \in Above(c), a \notin batch
                     PROVE  a > m
            OBVIOUS
        <3>1. a \in Nat /\ ~(a <= m)
            BY <1>3, <2>2, AccountsAreNumbers DEF Above
        <3> QED BY <2>2, <3>1
    <2>5. IsLast(batch) => \A a \in Accounts : rows[a] # None => a <= m
        <3> SUFFICES ASSUME IsLast(batch), NEW a \in Accounts, rows[a] # None
                     PROVE  a <= m
            OBVIOUS
        <3>1. CASE a > c
            BY <1>3, <1>4, <2>3, <3>1
        <3>2. CASE ~(a > c)
            BY <1>2, <2>2, <3>2, AccountsAreNumbers
        <3> QED BY <3>1, <3>2
    <2>6. sweep.alone => \A a \in Accounts : rows[a] # None =>
                ExactAt(sweep.at, a) \/ a \in batch \/ a > m
        BY <1>6, <2>4
    <2>7. \A a \in Accounts : ExactAt(sweep.at, a) => ExactAt(sweep.at, a)'
        BY <1>1, <2>1 DEF ExactAt
    <2> QED
        BY <1>1, <1>7, <2>1, <2>5, <2>6, <2>7 DEF SweepInv, IsLast
<1> QED BY <1>8, <1>9

LEMMA WriteKeepsSweepInv ==
    ASSUME LedgerInv, TypeOK, SweepInv, WriteBatch
    PROVE  SweepInv'
<1> DEFINE batch == sweep.batch
           p == IF IsLast(batch) THEN "done" ELSE "scan"
<1>1. /\ sweep \in SweepRecord(final) /\ sweep.pc = "write"
      /\ sweep' = [sweep EXCEPT !.pc = p, !.batch = {}]
      /\ UNCHANGED running
    BY DEF TypeOK, SweepRecord, WriteBatch, indexer
<1>2. /\ sweep'.pc = p /\ sweep'.at = sweep.at /\ sweep'.alone = sweep.alone
      /\ sweep'.cursor = sweep.cursor /\ p \in {"done", "scan"}
    BY <1>1 DEF SweepRecord
<1>3. \A a \in Accounts : rows'[a] = IF a \in batch
            THEN Reconciled(rows[a], FetchAccount(a)) ELSE rows[a]
    BY DEF WriteBatch
<1>4. sweep.alone => ~running
    BY DEF SweepInv
<1>5. ASSUME sweep.alone, NEW a \in Accounts, rows'[a] # None
      PROVE  \/ ExactAt(sweep.at, a)'
             \/ p = "scan" /\ a > sweep.cursor
    <2>1. CASE a \in batch
        <3>1. rows[a] \in AccountRow
            BY <2>1 DEF LedgerInv
        <3>2. rows'[a].free = Free[sweep.at][a]
            BY <1>3, <2>1, <3>1 DEF Reconciled, FetchAccount, Snapshot, AccountRow
        <3> QED BY <1>2, <1>5, <3>2 DEF ExactAt
    <2>2. CASE a \notin batch
        <3>1. rows'[a] = rows[a]
            BY <1>3, <2>2
        <3>2. ExactAt(sweep.at, a) \/ a > sweep.cursor
            BY <1>1, <1>5, <2>2, <3>1 DEF SweepInv
        <3>3. CASE ExactAt(sweep.at, a)
            BY <1>2, <3>1, <3>3 DEF ExactAt
        <3>4. CASE a > sweep.cursor
            <4>1. IsLast(batch) => a <= sweep.cursor
                BY <1>1, <1>5, <3>1 DEF SweepInv
            <4>2. a \in Nat /\ sweep.cursor \in Nat
                BY <1>1, AccountsAreNumbers DEF SweepRecord
            <4>3. ~IsLast(batch)
                BY <3>4, <4>1, <4>2
            <4> QED BY <3>4, <4>3
        <3> QED BY <3>2, <3>3, <3>4
    <2> QED BY <2>1, <2>2
<1> HIDE DEF p
<1> QED BY <1>1, <1>2, <1>4, <1>5 DEF SweepInv

LEMMA SweepInvStep == LedgerInv /\ TypeOK /\ SweepInv /\ [Next]_vars => SweepInv'
<1> SUFFICES ASSUME LedgerInv, TypeOK, SweepInv, [Next]_vars PROVE SweepInv'
    OBVIOUS
<1>0. sweep \in SweepRecord(final) /\ running \in BOOLEAN
    BY DEF TypeOK, SweepRecord
<1>1. CASE StartSweep
    <2>1. /\ sweep' = [pc |-> "scan", at |-> final, cursor |-> 0, batch |-> {},
                       alone |-> ~running]
          /\ UNCHANGED <<running, rows>>
        BY <1>1 DEF StartSweep, NoSweep, indexer, table
    <2> QED BY <2>1, AccountsAreNumbers DEF SweepInv
<1>2. CASE ScanBatch
    BY <1>2, ScanKeepsSweepInv
<1>3. CASE WriteBatch
    BY <1>3, WriteKeepsSweepInv
<1>4. CASE SweepFails
    <2>1. /\ sweep'.pc = "failed" /\ sweep'.alone = sweep.alone
          /\ running' = running
        BY <1>0, <1>4 DEF SweepFails, SweepRecord, indexer
    <2> QED BY <2>1 DEF SweepInv
<1>5. CASE running /\ (sweep'.alone = FALSE \/ sweep'.alone = sweep.alone)
    <2>1. ~sweep'.alone
        BY <1>5 DEF SweepInv
    <2> QED BY <2>1 DEF SweepInv
<1>6. CASE StartIndexer
    <2>1. sweep'.alone = FALSE
        BY <1>0, <1>6 DEF StartIndexer, SweepRecord
    <2> QED BY <2>1 DEF SweepInv
<1>7. CASE UNCHANGED <<running, rows, sweep>>
    <2>1. \A a \in Accounts : ExactAt(sweep.at, a) => ExactAt(sweep.at, a)'
        BY <1>7 DEF ExactAt
    <2> QED BY <1>7, <2>1 DEF SweepInv, IsLast
<1> QED
    BY <1>1, <1>2, <1>3, <1>4, <1>5, <1>6, <1>7
    DEF Next, vars, indexer, table, Finalize, Publish, Disconnect, LiveCommit,
        BackfillCommit, LiveStops, StopIndexer, Tick, Corrupt, AskBanner, ReadCursor,
        ReadAge, AnswerBanner

------------------------------------------------------------------------------
\* An account no block names keeps its balance.
LEMMA UntouchedKeepsBalance ==
    ASSUME NEW a \in Accounts, NEW l \in Blocks, NEW h \in Blocks, l <= h,
           \A c \in l + 1 .. h : a \notin Touched[c]
    PROVE  Free[h][a] = Free[l][a]
<1> DEFINE f == [c \in Blocks |-> Free[c][a]]
<1>1. l \in Nat /\ h \in Nat
    BY Numbers DEF Blocks
<1>2. ASSUME NEW c \in l + 1 .. h
      PROVE  f[c] = f[c - 1]
    <2>1. c \in Blocks \ {0} /\ c - 1 \in Blocks
        BY <1>1, Numbers DEF Blocks
    <2> QED BY <2>1, TouchedCoversChanges
<1> HIDE DEF f
<1>3. f[h] = f[l]
    BY <1>1, <1>2, StepsKeepValue
<1> QED BY <1>3 DEF f

\* A row that follows its blocks and is not left wrong is exact at the end of a prefix
\* that reaches the last sweep.
LEMMA FollowingRowIsExact ==
    ASSUME LedgerInv, NEW h \in sweep.at .. MaxBlock, stored = 0 .. h,
           NEW a \in Accounts \ off, RowFollows(a)
    PROVE  ExactAt(h, a)
<1>1. h \in Blocks /\ h \in Nat /\ sweep.at \in Nat /\ sweep.at <= h /\ 0 \in stored
    BY Numbers DEF LedgerInv, Blocks
<1>2. CASE History(a) = {}
    <2>1. \A c \in 0 .. h : a \notin TouchedAt(c)
        BY <1>2 DEF History
    <2>2. a \notin Endowed /\ \A c \in 0 + 1 .. h : a \notin Touched[c]
        BY <1>1, <2>1 DEF TouchedAt, GenesisAccounts
    <2>3. Free[h][a] = Free[0][a] /\ Free[0][a] = 0
        BY <1>1, <2>2, UntouchedKeepsBalance, TouchedCoversChanges, Numbers DEF Blocks
    <2>4. rows[a] = None
        BY <1>2 DEF RowFollows
    <2> QED BY <2>3, <2>4 DEF ExactAt
<1>3. CASE History(a) # {}
    <2> DEFINE last == rows[a].last_activity_block
    <2>1. /\ rows[a] # None /\ last \in History(a)
          /\ \A b \in History(a) : b <= last
        BY <1>3 DEF RowFollows
    <2>2. PICK k \in Blocks : ReadAt(rows[a], a, k)
        BY <1>3 DEF RowFollows
    <2>3. last \in 0 .. h
        BY <2>1 DEF History
    <2>4. k \in Nat /\ last <= k /\ k <= h
        BY <1>1, <2>2, <2>3, Numbers DEF ReadAt, Blocks
    <2>5. \A c \in k + 1 .. h : a \notin Touched[c]
        <3> SUFFICES ASSUME NEW c \in k + 1 .. h, a \in Touched[c]
                     PROVE  FALSE
            OBVIOUS
        <3>1. c \in 0 .. h /\ ~(c <= last)
            BY <1>1, <2>3, <2>4
        <3>2. c \in History(a)
            BY <3>1 DEF History, TouchedAt
        <3> QED BY <2>1, <3>1, <3>2
    <2>6. Free[h][a] = Free[k][a]
        BY <1>1, <2>4, <2>5, UntouchedKeepsBalance
    <2> QED BY <2>1, <2>2, <2>6 DEF ExactAt, ReadAt
<1> QED BY <1>2, <1>3

------------------------------------------------------------------------------
\* The inductive invariant of the table and the sweep.
TableInv == LedgerInv /\ TypeOK /\ SweepInv /\ \A a \in Accounts : RowFollows(a)

THEOREM TableInvariance == Spec => []TableInv
<1>1. Init => TableInv
    <2> SUFFICES ASSUME Init PROVE TableInv
        OBVIOUS
    <2>1. SweepInv
        BY DEF Init, NoSweep, SweepInv
    <2>2. \A a \in Accounts : RowFollows(a)
        BY DEF Init, RowFollows, History
    <2> QED BY <2>1, <2>2, InitInv, TypeInit DEF TableInv
<1>2. TableInv /\ [Next]_vars => TableInv'
    BY InvStep, TypeStep, SweepInvStep, FollowStep DEF TableInv
<1> QED BY <1>1, <1>2, PTL DEF Spec

\* Every variable of the table, the sweep, the indexer and the banner keeps its type;
\* the cursor names a stored block, and a batch has at most BatchSize rows.
THEOREM TypeCorrect == Spec => []TypeOK
<1>1. TableInv => TypeOK
    BY DEF TableInv
<1> QED BY <1>1, TableInvariance, PTL

\* reconcile_network (docs/ops.md): a sweep that ends while the indexer is stopped has
\* rewritten every row of the table, for every batch size and number of rows.
THEOREM SweepHolds == Spec => []SweepConverges
<1>1. TableInv => SweepConverges
    BY DEF TableInv, SweepInv, SweepConverges
<1> QED BY <1>1, TableInvariance, PTL

\* docs/ops.md, "The race is self-healing": whatever order blocks, replays, corruptions and
\* sweeps came in, the rows not known to be wrong are the chain's once the blocks reach
\* what the sweep saw.
THEOREM HealingHolds == Spec => []RacesHeal
<1>1. TableInv => RacesHeal
    BY FollowingRowIsExact DEF TableInv, RacesHeal
<1> QED BY <1>1, TableInvariance, PTL

------------------------------------------------------------------------------
(***************************************************************************)
(* The two lists of the richest accounts.                                  *)
(***************************************************************************)

Beyond(totals, a) ==
    {b \in DOMAIN totals : \/ totals[b] > totals[a]
                           \/ totals[b] = totals[a] /\ b < a}

Rank(totals, a) == Cardinality(Beyond(totals, a))

Balances == UNION {[D -> Nat] : D \in SUBSET Accounts}

LEMMA BalancesFit ==
    ASSUME NEW totals \in Balances
    PROVE  /\ DOMAIN totals \in SUBSET Accounts /\ IsFiniteSet(DOMAIN totals)
           /\ \A a \in DOMAIN totals : a \in Nat /\ totals[a] \in Nat
<1>1. PICK D \in SUBSET Accounts : totals \in [D -> Nat]
    BY DEF Balances
<1>2. DOMAIN totals = D /\ \A a \in D : a \in Nat /\ totals[a] \in Nat
    BY <1>1, AccountsAreNumbers
<1>3. IsFiniteSet(D)
    BY LedgerAssumption, FS_Subset
<1> QED
    BY <1>2, <1>3

\* No two accounts are at one rank: of two, one is beyond the other.
LEMMA OneAtEachRank ==
    ASSUME NEW totals \in Balances
    PROVE  /\ \A a \in DOMAIN totals : Rank(totals, a) \in 0 .. Cardinality(DOMAIN totals) - 1
           /\ \A a, b \in DOMAIN totals : Rank(totals, a) = Rank(totals, b) => a = b
           /\ \A i \in 0 .. Cardinality(DOMAIN totals) - 1 :
                \E a \in DOMAIN totals : Rank(totals, a) = i
<1> DEFINE D == DOMAIN totals
           n == Cardinality(D)
           r == [a \in D |-> Rank(totals, a)]
<1>1. IsFiniteSet(D) /\ n \in Nat /\ \A a \in D : a \in Nat /\ totals[a] \in Nat
    BY BalancesFit, FS_CardinalityType
<1>2. \A a, b : b \in Beyond(totals, a) <=>
         b \in D /\ (totals[b] > totals[a] \/ (totals[b] = totals[a] /\ b < a))
    BY DEF Beyond
<1> HIDE DEF D
<1>3. ASSUME NEW a \in D
      PROVE  IsFiniteSet(Beyond(totals, a)) /\ Rank(totals, a) \in 0 .. n - 1
    <2>1. Beyond(totals, a) \in SUBSET (D \ {a})
        BY <1>1, <1>2
    <2>2. IsFiniteSet(D \ {a}) /\ Cardinality(D \ {a}) = n - 1
        BY <1>1, FS_RemoveElement
    <2>3. IsFiniteSet(Beyond(totals, a)) /\ Rank(totals, a) <= n - 1
        BY <2>1, <2>2, FS_Subset DEF Rank
    <2>4. Rank(totals, a) \in Nat
        BY <2>3, FS_CardinalityType DEF Rank
    <2> HIDE DEF n
    <2> QED
        BY <1>1, <2>3, <2>4
<1>4. ASSUME NEW a \in D, NEW b \in D, b \in Beyond(totals, a)
      PROVE  Rank(totals, b) # Rank(totals, a)
    <2>1. \A c : c \in Beyond(totals, b) => c \in Beyond(totals, a)
        BY <1>1, <1>2, <1>4
    <2>2. b \notin Beyond(totals, b)
        BY <1>1, <1>2
    <2>3. Beyond(totals, b) \in SUBSET Beyond(totals, a) /\ IsFiniteSet(Beyond(totals, a))
        BY <1>3, <2>1
    <2> QED
        BY <1>4, <2>2, <2>3, FS_Subset DEF Rank
<1>5. \A a, b \in D : Rank(totals, a) = Rank(totals, b) => a = b
    <2> SUFFICES ASSUME NEW a \in D, NEW b \in D, a # b
                 PROVE  Rank(totals, a) # Rank(totals, b)
        OBVIOUS
    <2>1. b \in Beyond(totals, a) \/ a \in Beyond(totals, b)
        BY <1>1, <1>2
    <2> QED
        BY <1>4, <2>1
<1>6. r \in Injection(D, 0 .. n - 1)
    <2>1. r \in [D -> 0 .. n - 1]
        BY <1>3
    <2>2. \A a, b \in D : r[a] = r[b] => a = b
        BY <1>5
    <2> HIDE DEF r
    <2> QED
        BY <2>1, <2>2 DEF Injection, IsInjective
<1>7. IsFiniteSet(0 .. n - 1) /\ Cardinality(0 .. n - 1) = n
    <2> HIDE DEF n
    <2> QED
        BY <1>1, FS_Interval
<1>8. r \in Surjection(D, 0 .. n - 1)
    BY <1>6, <1>7, FS_Injection
<1>9. \A i \in 0 .. n - 1 : \E a \in D : r[a] = i
    BY <1>8 DEF Surjection
<1> QED
    BY <1>3, <1>5, <1>9 DEF D

LEMMA LeastOfTwo ==
    ASSUME NEW n \in Nat, NEW l \in Nat
    PROVE  Min({n, l}) = IF n < l THEN n ELSE l
<1> DEFINE m == IF n < l THEN n ELSE l
<1>1. m \in {n, l} /\ \A y \in {n, l} : m <= y
    OBVIOUS
<1>2. \A x \in {n, l} : (\A y \in {n, l} : x <= y) <=> x = m
    OBVIOUS
<1> HIDE DEF m
<1>3. Min({n, l}) = m
    BY <1>1, <1>2 DEF Min
<1> QED
    BY <1>3 DEF m

\* ORDER BY total DESC, account LIMIT n, and the sort of the walk: each place of the list
\* is the total of the account at that rank.
LEMMA RichestByRank ==
    ASSUME NEW totals \in Balances, NEW n \in Nat
    PROVE  LET list == Richest(totals, n)
               size == Cardinality(DOMAIN totals)
           IN  /\ size \in Nat /\ Len(list) = IF n < size THEN n ELSE size
               /\ \A i \in 1 .. Len(list) :
                    \E a \in DOMAIN totals : Rank(totals, a) = i - 1 /\ list[i] = totals[a]
<1> DEFINE D == DOMAIN totals
           size == Cardinality(D)
           ranked == [i \in 1 .. size |-> CHOOSE a \in D : Rank(totals, a) = i - 1]
           m == IF n < size THEN n ELSE size
           list == Richest(totals, n)
<1>1. size \in Nat
    BY BalancesFit, FS_CardinalityType
<1>2. list = [i \in 1 .. Min({n, Len(ranked)}) |-> totals[ranked[i]]]
    BY DEF Richest, Rank, Beyond
<1>3. \A i \in 1 .. size : ranked[i] \in D /\ Rank(totals, ranked[i]) = i - 1
    <2> SUFFICES ASSUME NEW i \in 1 .. size
                 PROVE  ranked[i] \in D /\ Rank(totals, ranked[i]) = i - 1
        OBVIOUS
    <2>1. i - 1 \in 0 .. size - 1
        BY <1>1
    <2>2. \E a \in D : Rank(totals, a) = i - 1
        BY <2>1, OneAtEachRank
    <2> QED
        BY <2>2
<1>4. Len(ranked) = size
    <2> HIDE DEF size
    <2> QED
        BY <1>1
<1> HIDE DEF ranked, D, size, list
<1>5. Min({n, Len(ranked)}) = m /\ m \in Nat /\ m <= size
    BY <1>1, <1>4, LeastOfTwo
<1> HIDE DEF m
<1>6. list = [i \in 1 .. m |-> totals[ranked[i]]]
    BY <1>2, <1>5
<1>7. Len(list) = m /\ \A i \in 1 .. m : list[i] = totals[ranked[i]] /\ i \in 1 .. size
    BY <1>1, <1>5, <1>6
<1>8. \A i \in 1 .. Len(list) : \E a \in D : Rank(totals, a) = i - 1 /\ list[i] = totals[a]
    BY <1>3, <1>7
<1> QED
    BY <1>1, <1>7, <1>8 DEF D, size, list, m

\* A walk of System::Account that is not cut has seen every account.
LEMMA NothingCut ==
    ASSUME Cardinality(Existing) <= MaxScan
    PROVE  Scanned = Existing
<1>1. IsFiniteSet(Existing) /\ \A a \in Existing : a \in Nat
    <2>1. Existing \in SUBSET Accounts
        BY DEF Existing
    <2> QED
        BY <2>1, LedgerAssumption, AccountsAreNumbers, FS_Subset
<1>2. Cardinality(Existing) \in Nat /\ MaxScan \in Nat
    BY <1>1, LedgerAssumption, FS_CardinalityType
<1>3. ASSUME NEW a \in Existing
      PROVE  Cardinality({b \in Existing : b < a}) < MaxScan
    <2> DEFINE before == {b \in Existing : b < a}
    <2>1. before \in SUBSET (Existing \ {a})
        BY <1>1
    <2>2. IsFiniteSet(Existing \ {a}) /\ Cardinality(Existing \ {a}) = Cardinality(Existing) - 1
        BY <1>1, FS_RemoveElement
    <2> HIDE DEF before
    <2>3. IsFiniteSet(before) /\ Cardinality(before) <= Cardinality(Existing) - 1
        BY <2>1, <2>2, FS_Subset
    <2>4. Cardinality(before) \in Nat
        BY <2>3, FS_CardinalityType
    <2>5. Cardinality(before) < MaxScan
        BY <1>2, <2>3, <2>4
    <2> QED
        BY <2>5 DEF before
<1> QED
    BY <1>3 DEF Scanned

\* The rows hold every account that exists, with its balance; the others are at zero and
\* come after all of them.
LEMMA ListsAreEqual ==
    ASSUME LedgerInv
    PROVE  ProvidersAgree
<1> SUFFICES ASSUME \A a \in Accounts : ExactAt(final, a), Cardinality(Existing) <= MaxScan
             PROVE  /\ Len(FetchTopAccounts) <= Len(TopAccounts)
                    /\ \A i \in 1 .. Len(TopAccounts) :
                         TopAccounts[i] = IF i <= Len(FetchTopAccounts)
                                          THEN FetchTopAccounts[i] ELSE 0
    BY DEF ProvidersAgree
<1> DEFINE E == Existing
           R == {b \in Accounts : rows[b] # None}
           tE == [a \in E |-> FetchedAccount(a)]
           tR == [a \in R |-> AccountByAddress(a)]
           fetched == FetchTopAccounts
           listed == TopAccounts
<1>0. TopCount \in Nat /\ None \notin Int
    BY Numbers, LedgerAssumption
<1>1. \A a \in Accounts : /\ Free[final][a] \in Nat
                          /\ rows[a] # None => rows[a].free \in Nat
    BY ChainTypes DEF LedgerInv, AccountRow
<1>2. \A a \in Accounts :
         /\ a \in E <=> Free[final][a] # 0
         /\ a \in E => FetchedAccount(a) = Free[final][a] /\ FetchedAccount(a) > 0
    BY <1>0, <1>1 DEF Existing, FetchedAccount
<1>3. \A a \in Accounts :
         /\ a \in E => a \in R
         /\ a \in R => AccountByAddress(a) = Free[final][a] /\ AccountByAddress(a) \in Nat
    BY <1>1, <1>2 DEF ExactAt, AccountByAddress
<1>4. E \in SUBSET Accounts /\ R \in SUBSET Accounts /\ E \in SUBSET R
    <2>1. E \in SUBSET Accounts
        BY DEF Existing
    <2> QED
        BY <1>3, <2>1
<1>5. fetched = Richest(tE, TopCount) /\ listed = Richest(tR, TopCount)
    BY NothingCut DEF FetchTopAccounts, TopAccounts
<1> HIDE DEF E, R, fetched, listed
<1>6. /\ DOMAIN tE = E /\ DOMAIN tR = R
      /\ \A a \in E : tE[a] = Free[final][a] /\ tE[a] \in Nat /\ tE[a] > 0
      /\ \A a \in R : tR[a] = Free[final][a] /\ tR[a] \in Nat /\ (a \notin E => tR[a] = 0)
    BY <1>1, <1>2, <1>3, <1>4
<1>7. tE \in [E -> Nat] /\ tR \in [R -> Nat]
    BY <1>6
<1>8. tE \in Balances /\ tR \in Balances
    BY <1>4, <1>7 DEF Balances
<1> HIDE DEF tE, tR
<1>9. /\ Cardinality(E) \in Nat
      /\ Len(fetched) = IF TopCount < Cardinality(E) THEN TopCount ELSE Cardinality(E)
      /\ \A i \in 1 .. Len(fetched) : \E a \in E : Rank(tE, a) = i - 1 /\ fetched[i] = tE[a]
    <2> DEFINE list == Richest(tE, TopCount)
               size == Cardinality(DOMAIN tE)
    <2>1. /\ size \in Nat /\ Len(list) = IF TopCount < size THEN TopCount ELSE size
          /\ \A i \in 1 .. Len(list) :
               \E a \in DOMAIN tE : Rank(tE, a) = i - 1 /\ list[i] = tE[a]
        BY <1>0, <1>8, RichestByRank
    <2>2. DOMAIN tE = E /\ size = Cardinality(E) /\ list = fetched
        BY <1>5, <1>6
    <2> HIDE DEF list, size
    <2> QED BY <2>1, <2>2
<1>10. /\ Cardinality(R) \in Nat
       /\ Len(listed) = IF TopCount < Cardinality(R) THEN TopCount ELSE Cardinality(R)
       /\ \A i \in 1 .. Len(listed) : \E a \in R : Rank(tR, a) = i - 1 /\ listed[i] = tR[a]
    <2> DEFINE list == Richest(tR, TopCount)
               size == Cardinality(DOMAIN tR)
    <2>1. /\ size \in Nat /\ Len(list) = IF TopCount < size THEN TopCount ELSE size
          /\ \A i \in 1 .. Len(list) :
               \E a \in DOMAIN tR : Rank(tR, a) = i - 1 /\ list[i] = tR[a]
        BY <1>0, <1>8, RichestByRank
    <2>2. DOMAIN tR = R /\ size = Cardinality(R) /\ list = listed
        BY <1>5, <1>6
    <2> HIDE DEF list, size
    <2> QED BY <2>1, <2>2
<1>11. Cardinality(E) <= Cardinality(R)
    <2>1. IsFiniteSet(R)
        BY <1>4, LedgerAssumption, FS_Subset
    <2> QED
        BY <1>4, <2>1, FS_Subset
<1>12. Len(fetched) <= Len(listed) /\ Len(fetched) \in Nat /\ Len(listed) \in Nat
    BY <1>0, <1>9, <1>10, <1>11
<1>13. ASSUME NEW a \in E
       PROVE  Rank(tR, a) = Rank(tE, a)
    <2>1. \A b : b \in Beyond(tR, a) <=> b \in Beyond(tE, a)
        <3>1. a \in R /\ tR[a] = tE[a] /\ tE[a] \in Nat /\ tE[a] > 0
            BY <1>4, <1>6
        <3>2. \A b : b \in E => b \in R /\ tR[b] = tE[b]
            BY <1>4, <1>6
        <3>3. \A b : b \in R /\ (tR[b] > tE[a] \/ tR[b] = tE[a]) => b \in E
            BY <1>6, <3>1
        <3> QED
            BY <1>6, <3>1, <3>2, <3>3 DEF Beyond
    <2>2. Beyond(tR, a) = Beyond(tE, a)
        BY <2>1
    <2> QED
        BY <2>2 DEF Rank
<1>14. ASSUME NEW a \in R, a \notin E
       PROVE  Rank(tR, a) >= Cardinality(E)
    <2>1. E \in SUBSET Beyond(tR, a)
        <3> SUFFICES ASSUME NEW b \in E
                     PROVE  b \in Beyond(tR, a)
            OBVIOUS
        <3>1. b \in R /\ tR[b] = tE[b] /\ tE[b] > 0 /\ tR[a] = 0
            BY <1>4, <1>6, <1>14
        <3> QED
            BY <1>6, <3>1 DEF Beyond
    <2>2. IsFiniteSet(Beyond(tR, a))
        <3>1. Beyond(tR, a) \in SUBSET R
            BY <1>6 DEF Beyond
        <3>2. IsFiniteSet(R)
            BY <1>4, LedgerAssumption, FS_Subset
        <3> QED
            BY <3>1, <3>2, FS_Subset
    <2>3. Cardinality(E) <= Rank(tR, a)
        BY <2>1, <2>2, FS_Subset DEF Rank
    <2>4. Rank(tR, a) \in Nat
        BY <2>2, FS_CardinalityType DEF Rank
    <2> QED
        BY <1>9, <2>3, <2>4
<1>15. ASSUME NEW i \in 1 .. Len(listed)
       PROVE  listed[i] = IF i <= Len(fetched) THEN fetched[i] ELSE 0
    <2>1. PICK a \in R : Rank(tR, a) = i - 1 /\ listed[i] = tR[a]
        BY <1>10
    <2>2. i \in Nat /\ i >= 1 /\ i <= TopCount
        BY <1>0, <1>10, <1>12
    <2>3. CASE a \in E
        <3>1. Rank(tE, a) = i - 1 /\ Rank(tE, a) < Cardinality(E)
            <4>1. Rank(tE, a) \in 0 .. Cardinality(E) - 1
                BY <1>6, <1>8, <2>3, OneAtEachRank
            <4> QED
                BY <1>9, <1>13, <2>1, <2>3, <4>1
        <3>2. i \in 1 .. Len(fetched)
            BY <1>0, <1>9, <2>2, <3>1
        <3>3. PICK b \in E : Rank(tE, b) = i - 1 /\ fetched[i] = tE[b]
            BY <1>9, <3>2
        <3>4. a = b
            BY <1>6, <1>8, <2>3, <3>1, <3>3, OneAtEachRank
        <3>5. tR[a] = tE[a]
            BY <1>6, <2>3
        <3> QED
            BY <1>12, <2>1, <3>2, <3>3, <3>4, <3>5
    <2>4. CASE a \notin E
        <3>1. i - 1 >= Cardinality(E)
            BY <1>14, <2>1, <2>4
        <3>2. ~(i <= Len(fetched))
            BY <1>0, <1>9, <2>2, <3>1
        <3> QED
            BY <1>6, <2>1, <2>4, <3>2
    <2> QED
        BY <2>3, <2>4
<1> QED
    BY <1>12, <1>15 DEF fetched, listed

\* TopAccounts of either provider: once the table is exact, the order by total and then by
\* account of IndexedProvider gives the accounts the walk of RpcProvider finds, the reaped
\* ones last, for every table, page size and balance.
THEOREM ProvidersHold == Spec => []ProvidersAgree
<1>1. LedgerInv => ProvidersAgree
    BY ListsAreEqual
<1> QED
    BY <1>1, Invariance, PTL
=============================================================================
