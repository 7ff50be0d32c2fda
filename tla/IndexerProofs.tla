--------------------------- MODULE IndexerProofs ---------------------------
(***************************************************************************)
(* Theorems about Indexer, for every chain, chunk size, worker pool and    *)
(* number of faults.                                                       *)
(***************************************************************************)
EXTENDS Indexer, OrderLemmas, FiniteSetTheorems, TLAPS

-----------------------------------------------------------------------------
(* The tables' statements keep their types *)

LEMMA NoneIsNotANumber == None \notin Nat /\ None \notin Blocks
BY NoneIsNoRow DEF Blocks

LEMMA SnapshotType ==
    ASSUME NEW b \in Blocks, NEW a \in Accounts
    PROVE  Snapshot(b, a) \in AccountRow
BY ChainTypes DEF Snapshot, AccountRow

LEMMA MergeType ==
    ASSUME NEW row \in AccountRow, NEW snap \in AccountRow
    PROVE  MergeSnapshot(row, snap) \in AccountRow
BY DEF MergeSnapshot, AccountRow, Least, Greatest, Blocks

LEMMA AccountsType ==
    ASSUME NEW table \in [Accounts -> AccountRow \cup {None}], NEW b \in Blocks
    PROVE  ApplyAccountSnapshots(table, b)
                \in [Accounts -> AccountRow \cup {None}]
<1> SUFFICES ASSUME NEW a \in Accounts
             PROVE  UpsertSnapshot(table[a], Snapshot(b, a))
                        \in AccountRow \cup {None}
    BY DEF ApplyAccountSnapshots
<1> QED
    BY SnapshotType, MergeType DEF UpsertSnapshot

\* The newest of the stored count and the versions the block brings.
LEMMA BumpedCountIsNewest ==
    ASSUME NEW count \in Nat, NEW i \in AtsIds, NEW b \in Blocks
    PROVE  LET n == BumpedCount(count, i, b)
               updates == {u \in Updated[b] : u[1] = i}
           IN  /\ n \in Nat
               /\ n = count \/ \E u \in updates : n = u[2] + 1
               /\ count <= n
               /\ \A u \in updates : u[2] + 1 <= n
<1> DEFINE updates == {u \in Updated[b] : u[1] = i}
           bumps == {u[2] + 1 : u \in updates}
           S == bumps \cup {count}
           Top(n) == \A m \in S : m <= n
<1>1. S \subseteq Nat
    BY ChainTypes
<1>2. \E n \in S : Top(n)
    <2>1. CASE updates = {}
        <3>1. count \in S /\ \A m \in S : m = count
            BY <2>1
        <3>2. Top(count)
            <4> HIDE DEF S
            <4>1. count <= count
                OBVIOUS
            <4> QED
                BY <3>1, <4>1
        <3> QED
            BY <3>1, <3>2
    <2>2. CASE updates # {}
        <3>1. PICK u \in updates : \A v \in updates : v[2] <= u[2]
            BY <2>2, ChainTypes DEF HasNewest
        <3>2. u[2] \in Nat /\ \A v \in updates : v[2] \in Nat
            BY ChainTypes
        <3>3. \A m \in bumps : m <= u[2] + 1
            BY <3>1, <3>2
        <3>4. CASE count <= u[2] + 1
            <4>1. Top(u[2] + 1) /\ u[2] + 1 \in S
                BY <3>3, <3>4
            <4> QED
                BY <4>1
        <3>5. CASE ~(count <= u[2] + 1)
            <4>1. \A m \in bumps : m <= count
                <5> SUFFICES ASSUME NEW m \in bumps
                             PROVE  m <= count
                    OBVIOUS
                <5>1. m \in Nat /\ m <= u[2] + 1 /\ u[2] \in Nat
                    BY <1>1, <3>2, <3>3
                <5> QED
                    BY <3>5, <5>1
            <4>2. Top(count) /\ count \in S
                BY <4>1
            <4> QED
                BY <4>2
        <3> QED
            BY <3>4, <3>5
    <2> QED
        BY <2>1, <2>2
<1>3. BumpedCount(count, i, b) = CHOOSE n \in S : Top(n)
    BY DEF BumpedCount
<1> DEFINE n == CHOOSE m \in S : Top(m)
<1>4. n \in S /\ Top(n)
    BY <1>2
<1> HIDE DEF n
<1>5. n = count \/ \E u \in updates : n = u[2] + 1
    BY <1>4
<1>6. count <= n /\ \A u \in updates : u[2] + 1 <= n
    BY <1>4
<1>7. n \in Nat
    BY <1>1, <1>4
<1>8. BumpedCount(count, i, b) = n
    BY <1>3 DEF n
<1> QED
    BY <1>5, <1>6, <1>7, <1>8

LEMMA RegistryType ==
    ASSUME NEW table \in [AtsIds -> Nat \cup {None}], NEW b \in Blocks
    PROVE  ApplyAtsRegistry(table, b) \in [AtsIds -> Nat \cup {None}]
BY BumpedCountIsNewest DEF ApplyAtsRegistry, RegistryInsert

LEMMA VersionsType ==
    ASSUME NEW table \in SUBSET (AtsIds \X Nat), NEW b \in Blocks
    PROVE  ApplyAtsVersions(table, b) \in SUBSET (AtsIds \X Nat)
<1>1. \A u \in Updated[b] : u \in AtsIds \X Nat
    BY ChainTypes
<1>2. \A i \in Created[b] : <<i, 0>> \in AtsIds \X Nat
    BY ChainTypes
<1> QED
    BY <1>1, <1>2 DEF ApplyAtsVersions, VersionInserts

LEMMA GapRangesType ==
    ASSUME NEW head \in Blocks, NEW existing
    PROVE  GapRanges(head, existing, ChunkSize) \subseteq Ranges
<1>1. Missing(head, existing) \subseteq Blocks
    BY ChainTypes DEF Missing, Blocks
<1>2. \A r \in GapRanges(head, existing, ChunkSize) :
        /\ r \in Missing(head, existing) \X Missing(head, existing)
        /\ r[1] <= r[2]
    BY DEF GapRanges
<1> QED
    BY <1>1, <1>2 DEF Ranges

LEMMA RangesFinite == IsFiniteSet(Ranges)
<1>1. IsFiniteSet(Blocks)
    <2>1. 0 \in Int /\ MaxBlock \in Int
        BY ChainTypes
    <2> QED
        BY <2>1, FS_Interval DEF Blocks
<1>2. IsFiniteSet(Blocks \X Blocks)
    BY <1>1, FS_Product
<1>3. Ranges \in SUBSET (Blocks \X Blocks)
    BY DEF Ranges
<1> QED
    BY <1>2, <1>3, FS_Subset

LEMMA NewIdType ==
    ASSUME NEW r \in Ranges, NEW new \in SUBSET Ranges
    PROVE  NewId(r, new) \in Nat
<1>1. Present \in SUBSET Ranges /\ {s \in new : s[1] <= r[1]} \in SUBSET Ranges
    BY DEF Present
<1>2. IsFiniteSet(Present) /\ IsFiniteSet({s \in new : s[1] <= r[1]})
    BY <1>1, RangesFinite, FS_Subset
<1>3. /\ Cardinality(Present) \in Nat
      /\ Cardinality({s \in new : s[1] <= r[1]}) \in Nat
    BY <1>2, FS_CardinalityType
<1> QED
    BY <1>3 DEF NewId

-----------------------------------------------------------------------------
(* Types *)

LEMMA IndexBlockType ==
    ASSUME TypeOK, NEW b \in Blocks, IndexBlock(b)
    PROVE  /\ blocks' \in SUBSET Blocks
           /\ accounts' \in [Accounts -> AccountRow \cup {None}]
           /\ registry' \in [AtsIds -> Nat \cup {None}]
           /\ versions' \in SUBSET (AtsIds \X Nat)
BY AccountsType, RegistryType, VersionsType DEF TypeOK, IndexBlock, InsertBlock

LEMMA LiveNumInRange ==
    ASSUME TypeOK, LiveRemembers, live.pc = "fill"
    PROVE  live.num \in Blocks
BY ChainTypes DEF TypeOK, LiveTask, LiveRemembers, Blocks

LEMMA WorkerChunkInRange ==
    ASSUME TypeOK, WorkersRemember, NEW w \in Workers,
           workers[w].pc \notin {"boot", "idle", "exited"}
    PROVE  workers[w].chunk \in Ranges
<1>1. workers[w].chunk # None
    BY DEF WorkersRemember
<1>2. workers[w] \in WorkerTask
    BY DEF TypeOK
<1> QED
    BY <1>1, <1>2 DEF WorkerTask

LEMMA WorkerNextInRange ==
    ASSUME TypeOK, WorkersRemember, NEW w \in Workers, workers[w].pc = "index"
    PROVE  /\ workers[w].chunk \in Ranges
           /\ workers[w].next \in Blocks
<1>1. workers[w].chunk \in Ranges
    BY WorkerChunkInRange
<1>2. workers[w].next \in Span(workers[w].chunk)
    BY DEF WorkersRemember
<1> QED
    BY <1>1, <1>2, ChainTypes DEF Ranges, Span, Blocks

LEMMA FaultType ==
    ASSUME TypeOK, NEW kind, Fault(kind)
    PROVE  faults' \in Nat
BY DEF TypeOK, Fault

LEMMA TypeInit == Init => TypeOK
<1> SUFFICES ASSUME Init
             PROVE  TypeOK
    OBVIOUS
<1>1. 0 \in Blocks
    BY ChainTypes DEF Blocks
<1>2. chunks \in [Ranges -> ChunkRow]
    BY DEF Init, ChunkRow, ChunkStates
<1>3. live \in LiveTask /\ seeder \in SeedTask
    BY <1>1 DEF Init, Booting, LiveTask, SeedTask
<1>4. workers \in [Workers -> WorkerTask]
    BY DEF Init, IdleWorker, WorkerTask
<1> QED
    BY <1>2, <1>3, <1>4, IndexerParameters DEF Init, TypeOK

LEMMA SetStateType ==
    ASSUME TypeOK, NEW r \in Ranges, NEW s \in ChunkStates, SetState(r, s)
    PROVE  chunks' \in [Ranges -> ChunkRow]
BY DEF TypeOK, SetState, ChunkRow

LEMMA NodeType == TypeOK /\ Node => TypeOK'
<1> SUFFICES ASSUME TypeOK, Node
             PROVE  TypeOK'
    OBVIOUS
<1>1. CASE Finalize
    <2>1. finalized' \in Blocks
        BY <1>1, ChainTypes DEF TypeOK, Finalize, Blocks
    <2> QED
        BY <1>1, <2>1 DEF TypeOK, Finalize, rowVars
<1>2. CASE Connect
    BY <1>2 DEF TypeOK, Connect, rowVars
<1>3. CASE Disconnect
    BY <1>3, FaultType DEF TypeOK, Disconnect, rowVars
<1>4. CASE Publish
    <2>1. watch \in Blocks /\ finalized \in Blocks
        BY <1>4 DEF TypeOK, Publish
    <2>2. watch' = watch \/ watch' \in watch + 1 .. finalized
        BY <1>4 DEF Publish
    <2>3. watch' \in Blocks
        BY <2>1, <2>2, ChainTypes DEF Blocks
    <2> QED
        BY <1>4, <2>3 DEF TypeOK, Publish, rowVars
<1> QED
    BY <1>1, <1>2, <1>3, <1>4 DEF Node

LEMMA LiveType == TypeOK /\ LiveRemembers /\ Live => TypeOK'
<1> SUFFICES ASSUME TypeOK, LiveRemembers, Live
             PROVE  TypeOK'
    OBVIOUS
<1>1. CASE LiveBoot
    BY <1>1 DEF TypeOK, LiveTask, LiveBoot, rowVars
<1>2. CASE LiveBootFails
    BY FaultType, <1>2 DEF TypeOK, LiveTask, LiveBootFails, rowVars, nodeVars
<1>3. CASE LiveTick
    <2>1. watch # None => watch \in Blocks /\ FillStart \in Nat
        BY ChainTypes DEF TypeOK, LiveTask, Blocks, FillStart
    <2>2. live' \in LiveTask
        BY <1>3, <2>1 DEF TypeOK, LiveTask, LiveTick
    <2> QED
        BY <1>3, <2>2 DEF TypeOK, LiveTick, rowVars
<1>4. CASE LiveIndex
    <2>1. live.num \in Blocks
        BY <1>4, LiveNumInRange DEF LiveIndex
    <2>2. cursor' \in Blocks \cup {None}
        BY <1>4, <2>1 DEF LiveIndex, BumpCursor, TypeOK
    <2>3. live' \in LiveTask
        <3>1. live.num + 1 \in Nat
            BY <2>1, ChainTypes DEF Blocks
        <3> QED
            BY <1>4, <2>1, <3>1 DEF LiveIndex, LiveTask, TypeOK
    <2> QED
        BY <1>4, <2>1, <2>2, <2>3, IndexBlockType
           DEF TypeOK, LiveIndex, nodeVars
<1>5. CASE LiveRejected
    BY <1>5 DEF TypeOK, LiveTask, LiveRejected, rowVars, nodeVars
<1>6. CASE LiveFails
    BY FaultType, <1>6 DEF TypeOK, LiveTask, LiveFails, rowVars, nodeVars
<1>7. CASE LiveCommitLost
    <2>1. live.num \in Blocks
        BY <1>7, LiveNumInRange DEF LiveCommitLost
    <2>2. cursor' \in Blocks \cup {None}
        BY <1>7, <2>1 DEF LiveCommitLost, BumpCursor, TypeOK
    <2> QED
        BY FaultType, <1>7, <2>1, <2>2, IndexBlockType
           DEF TypeOK, LiveTask, LiveCommitLost, nodeVars
<1> QED
    BY <1>1, <1>2, <1>3, <1>4, <1>5, <1>6, <1>7 DEF Live

LEMMA SeedType == TypeOK /\ Seed => TypeOK'
<1> SUFFICES ASSUME TypeOK, Seed
             PROVE  TypeOK'
    OBVIOUS
<1>1. CASE SeedHead
    BY <1>1 DEF TypeOK, SeedTask, SeedHead, rowVars, nodeVars
<1>2. CASE SeedScan
    <2>1. GapRanges(seeder.head, blocks, ChunkSize) \in SUBSET Ranges
        BY GapRangesType DEF TypeOK, SeedTask
    <2>2. seeder' \in SeedTask
        BY <1>2, <2>1 DEF TypeOK, SeedTask, SeedScan
    <2> QED
        BY <1>2, <2>2 DEF TypeOK, SeedScan, rowVars, nodeVars
<1>3. CASE SeedInsert
    <2> DEFINE new == {r \in seeder.ranges : chunks[r].state = "none"}
    <2>1. new \in SUBSET Ranges
        BY DEF TypeOK, SeedTask
    <2>2. chunks' = [r \in Ranges |->
                        IF r \in new
                        THEN [id |-> NewId(r, new), state |-> "pending"]
                        ELSE chunks[r]]
        BY <1>3 DEF SeedInsert
    <2> HIDE DEF new
    <2>3. chunks' \in [Ranges -> ChunkRow]
        BY <2>1, <2>2, NewIdType DEF TypeOK, ChunkRow, ChunkStates
    <2> QED
        BY <1>3, <2>3 DEF TypeOK, SeedTask, SeedInsert, rowVars, nodeVars
<1>4. CASE SeedSkipped
    BY <1>4 DEF TypeOK, SeedTask, SeedSkipped, rowVars, nodeVars
<1>5. CASE SeedFails
    BY FaultType, <1>5 DEF TypeOK, SeedTask, SeedFails, rowVars, nodeVars
<1> QED
    BY <1>1, <1>2, <1>3, <1>4, <1>5 DEF Seed

LEMMA WorkerType ==
    TypeOK /\ WorkersRemember /\ (\E w \in Workers : Worker(w)) => TypeOK'
<1> SUFFICES ASSUME TypeOK, WorkersRemember, NEW w \in Workers, Worker(w)
             PROVE  TypeOK'
    OBVIOUS
<1>1. CASE WorkerBoot(w)
    BY <1>1 DEF TypeOK, WorkerTask, WorkerBoot, IdleWorker, rowVars, nodeVars
<1>2. CASE WorkerBootFails(w)
    BY FaultType, <1>2 DEF TypeOK, WorkerTask, WorkerBootFails, rowVars, nodeVars
<1>3. ASSUME NEW r \in Ranges, Claim(w, r)
      PROVE  TypeOK'
    <2>1. chunks' \in [Ranges -> ChunkRow]
        BY <1>3, SetStateType DEF Claim, ChunkStates
    <2>2. r[1] \in Nat
        BY DEF Ranges, Blocks
    <2> QED
        BY <1>3, <2>1, <2>2 DEF TypeOK, WorkerTask, Claim, rowVars, nodeVars
<1>4. ASSUME NEW r \in Ranges, ClaimFails(w, r)
      PROVE  TypeOK'
    <2>1. chunks' \in [Ranges -> ChunkRow]
        BY <1>4, SetStateType DEF ClaimFails, ChunkStates, TypeOK
    <2> QED
        BY FaultType, <1>4, <2>1 DEF TypeOK, WorkerTask, ClaimFails, rowVars, nodeVars
<1>5. CASE WorkerIndex(w)
    <2>1. workers[w].next \in Blocks
        BY <1>5, WorkerNextInRange DEF WorkerIndex
    <2>2. workers' \in [Workers -> WorkerTask]
        <3>1. workers[w].next + 1 \in Nat
            BY <2>1, ChainTypes DEF Blocks
        <3> QED
            BY <1>5, <3>1, ZenonT(40) DEF WorkerIndex, WorkerTask, TypeOK
    <2> QED
        BY <1>5, <2>1, <2>2, IndexBlockType DEF TypeOK, WorkerIndex, nodeVars
<1>6. CASE WorkerRejected(w)
    BY <1>6 DEF TypeOK, WorkerTask, WorkerRejected, rowVars, nodeVars
<1>7. CASE WorkerFails(w)
    BY FaultType, <1>7 DEF TypeOK, WorkerTask, WorkerFails, rowVars, nodeVars
<1>8. CASE WorkerCommitLost(w)
    <2>1. workers[w].next \in Blocks
        BY <1>8, WorkerNextInRange DEF WorkerCommitLost
    <2> QED
        BY FaultType, <1>8, <2>1, IndexBlockType
           DEF TypeOK, WorkerTask, WorkerCommitLost, nodeVars
<1>9. CASE MarkChunkDone(w)
    <2>1. workers[w].chunk \in Ranges
        BY <1>9, WorkerChunkInRange DEF MarkChunkDone
    <2>2. chunks' \in [Ranges -> ChunkRow]
        BY <1>9, <2>1, SetStateType DEF MarkChunkDone, ChunkStates
    <2> QED
        BY <1>9, <2>2
           DEF TypeOK, WorkerTask, MarkChunkDone, IdleWorker, rowVars, nodeVars
<1>10. CASE MarkChunkFailed(w)
    <2>1. workers[w].chunk \in Ranges
        BY <1>10, WorkerChunkInRange DEF MarkChunkFailed
    <2>2. chunks' \in [Ranges -> ChunkRow]
        BY <1>10, <2>1, SetStateType DEF MarkChunkFailed, ChunkStates
    <2> QED
        BY <1>10, <2>2
           DEF TypeOK, WorkerTask, MarkChunkFailed, IdleWorker, rowVars, nodeVars
<1>11. CASE MarkFails(w)
    <2>1. workers[w].chunk \in Ranges
        BY <1>11, WorkerChunkInRange DEF MarkFails
    <2>2. chunks' \in [Ranges -> ChunkRow]
        BY <1>11, <2>1, SetStateType DEF MarkFails, ChunkStates, TypeOK
    <2> QED
        BY FaultType, <1>11, <2>2
           DEF TypeOK, WorkerTask, MarkFails, IdleWorker, rowVars, nodeVars
<1> QED
    BY <1>1, <1>2, <1>3, <1>4, <1>5, <1>6, <1>7, <1>8, <1>9, <1>10, <1>11
       DEF Worker

LEMMA RestartType == TypeOK /\ Restart => TypeOK'
<1> SUFFICES ASSUME TypeOK, Restart
             PROVE  TypeOK'
    OBVIOUS
<1>1. 0 \in Blocks
    BY ChainTypes DEF Blocks
<1>2. live' \in LiveTask /\ seeder' \in SeedTask
    BY <1>1 DEF Restart, Booting, LiveTask, SeedTask
<1>3. workers' \in [Workers -> WorkerTask]
    BY DEF Restart, IdleWorker, WorkerTask
<1> QED
    BY <1>2, <1>3, FaultType DEF TypeOK, Restart, rowVars

LEMMA LeaseType ==
    TypeOK /\ (\E r \in Ranges : LeaseExpires(r)) => TypeOK'
<1> SUFFICES ASSUME TypeOK, NEW r \in Ranges, LeaseExpires(r)
             PROVE  TypeOK'
    OBVIOUS
<1>1. chunks' \in [Ranges -> ChunkRow]
    BY SetStateType DEF LeaseExpires, ChunkStates
<1> QED
    BY FaultType, <1>1 DEF TypeOK, LeaseExpires, rowVars, nodeVars

LEMMA TypeStep ==
    TypeOK /\ WorkersRemember /\ LiveRemembers /\ [Next]_vars => TypeOK'
<1> SUFFICES ASSUME TypeOK, WorkersRemember, LiveRemembers, [Next]_vars
             PROVE  TypeOK'
    OBVIOUS
<1>1. CASE UNCHANGED vars
    BY <1>1 DEF TypeOK, vars, rowVars, nodeVars
<1>2. CASE Next
    BY <1>2, NodeType, LiveType, SeedType, WorkerType, RestartType, LeaseType
       DEF Next
<1> QED
    BY <1>1, <1>2

-----------------------------------------------------------------------------
(* What the tasks remember *)

\* Blocks are never deleted.
LEMMA BlocksGrow == [Next]_vars => blocks \subseteq blocks'
BY DEF Next, vars, rowVars, nodeVars, IndexBlock, InsertBlock,
       Node, Finalize, Publish, Connect, Disconnect,
       Live, LiveBoot, LiveBootFails, LiveTick, LiveIndex, LiveRejected,
       LiveFails, LiveCommitLost,
       Seed, SeedHead, SeedScan, SeedInsert, SeedSkipped, SeedFails,
       Worker, WorkerBoot, WorkerBootFails, Claim, ClaimFails, WorkerIndex,
       WorkerRejected, WorkerFails, WorkerCommitLost, MarkChunkDone,
       MarkChunkFailed, MarkFails, LeaseExpires, Restart

\* The part of WorkersRemember that is about one worker.
Remembers(w) ==
    LET k == workers[w] IN
    /\ k.chunk = None <=> k.pc \in {"boot", "idle", "exited"}
    /\ k.pc = "index" =>
          k.next \in Span(k.chunk) /\ k.chunk[1] .. k.next - 1 \subseteq blocks
    /\ k.pc = "succeeded" => Span(k.chunk) \subseteq blocks

LEMMA IdleRemembers ==
    ASSUME NEW w \in Workers,
           workers'[w].chunk = None,
           workers'[w].pc \in {"boot", "idle", "exited"}
    PROVE  Remembers(w)'
BY DEF Remembers

LEMMA UnchangedRemembers ==
    ASSUME NEW w \in Workers, Remembers(w), [Next]_vars,
           workers'[w] = workers[w]
    PROVE  Remembers(w)'
BY BlocksGrow DEF Remembers

\* A worker's own step.
LEMMA OwnStepRemembers ==
    ASSUME TypeOK, WorkersRemember, [Next]_vars, NEW w \in Workers, Worker(w)
    PROVE  Remembers(w)'
<1> DEFINE k == workers[w]
<1>1. k \in WorkerTask /\ Remembers(w) /\ DOMAIN workers = Workers
    BY DEF TypeOK, WorkersRemember, Remembers
<1>2. CASE WorkerBoot(w)
    BY <1>1, <1>2, IdleRemembers DEF WorkerBoot, IdleWorker
<1>3. CASE WorkerBootFails(w)
    BY <1>1, <1>3, IdleRemembers DEF WorkerBootFails, Remembers, WorkerTask
<1>4. ASSUME NEW r \in Ranges, Claim(w, r)
      PROVE  Remembers(w)'
    <2>1. workers'[w] = [pc |-> "index", chunk |-> r, next |-> r[1]]
        BY <1>1, <1>4 DEF Claim
    <2>2. r # None /\ r[1] \in Span(r) /\ r[1] .. r[1] - 1 = {}
        BY IndexerParameters, ChainTypes DEF Ranges, Span, Blocks
    <2> QED
        BY <2>1, <2>2 DEF Remembers
<1>5. ASSUME NEW r \in Ranges, ClaimFails(w, r)
      PROVE  Remembers(w)'
    BY <1>1, <1>5, IdleRemembers DEF ClaimFails, Remembers, WorkerTask
<1>6. CASE WorkerIndex(w)
    <2>1. k.chunk \in Ranges /\ k.next \in Blocks
        BY <1>6, WorkerNextInRange DEF WorkerIndex
    <2>2. workers'[w] = [k EXCEPT !.next = k.next + 1,
                                  !.pc = IF k.next = k.chunk[2]
                                         THEN "succeeded" ELSE "index"]
        BY <1>1, <1>6 DEF WorkerIndex
    <2>3. /\ workers'[w].chunk = k.chunk
          /\ workers'[w].next = k.next + 1
          /\ workers'[w].pc = IF k.next = k.chunk[2]
                              THEN "succeeded" ELSE "index"
        BY <1>1, <2>2 DEF WorkerTask
    <2>4. /\ k.next \in Span(k.chunk)
          /\ k.chunk[1] .. k.next - 1 \subseteq blocks
          /\ k.chunk # None
          /\ blocks' = blocks \cup {k.next}
        BY <1>1, <1>6 DEF WorkerIndex, Remembers, IndexBlock, InsertBlock
    <2>5. k.chunk[1] .. k.next \subseteq blocks'
        BY <2>1, <2>4, ChainTypes DEF Span, Ranges, Blocks
    <2>6. CASE k.next = k.chunk[2]
        BY <2>3, <2>4, <2>5, <2>6 DEF Remembers, Span
    <2>7. CASE k.next # k.chunk[2]
        <3>1. k.next + 1 \in Span(k.chunk) /\ (k.next + 1) - 1 = k.next
            <4>1. k.chunk[1] \in Int /\ k.chunk[2] \in Int /\ k.next \in Int
                BY <2>1, ChainTypes DEF Ranges, Blocks
            <4>2. k.next \in k.chunk[1] .. k.chunk[2]
                BY <2>4 DEF Span
            <4> HIDE DEF k
            <4> QED
                BY <2>7, <4>1, <4>2 DEF Span
        <3> QED
            BY <2>3, <2>4, <2>5, <2>7, <3>1 DEF Remembers
    <2> QED
        BY <2>6, <2>7
<1>7. CASE WorkerRejected(w)
    BY <1>1, <1>7 DEF WorkerRejected, Remembers, WorkerTask
<1>8. CASE WorkerFails(w)
    BY <1>1, <1>8 DEF WorkerFails, Remembers, WorkerTask
<1>9. CASE WorkerCommitLost(w)
    BY <1>1, <1>9 DEF WorkerCommitLost, Remembers, WorkerTask
<1>10. CASE MarkChunkDone(w)
    BY <1>1, <1>10, IdleRemembers DEF MarkChunkDone, IdleWorker
<1>11. CASE MarkChunkFailed(w)
    BY <1>1, <1>11, IdleRemembers DEF MarkChunkFailed, IdleWorker
<1>12. CASE MarkFails(w)
    BY <1>1, <1>12, IdleRemembers DEF MarkFails, IdleWorker
<1> QED
    BY <1>2, <1>3, <1>4, <1>5, <1>6, <1>7, <1>8, <1>9, <1>10, <1>11, <1>12
       DEF Worker

\* A step of worker v leaves the local state of the others alone.
LEMMA WorkersAreSeparate ==
    ASSUME TypeOK, NEW v \in Workers, Worker(v), NEW w \in Workers \ {v}
    PROVE  workers'[w] = workers[w]
BY DEF TypeOK, Worker, WorkerBoot, WorkerBootFails, Claim, ClaimFails,
       WorkerIndex, WorkerRejected, WorkerFails, WorkerCommitLost,
       MarkChunkDone, MarkChunkFailed, MarkFails

\* Only the workers' own steps and a restart touch the workers.
LEMMA WorkersAreTheirOwn ==
    [Next]_vars => \/ \E w \in Workers : Worker(w)
                   \/ Restart
                   \/ UNCHANGED workers
BY DEF Next, vars, Node, Finalize, Publish, Connect, Disconnect,
       Live, LiveBoot, LiveBootFails, LiveTick, LiveIndex, LiveRejected,
       LiveFails, LiveCommitLost,
       Seed, SeedHead, SeedScan, SeedInsert, SeedSkipped, SeedFails,
       LeaseExpires

LEMMA RememberStep ==
    TypeOK /\ WorkersRemember /\ [Next]_vars => WorkersRemember'
<1> SUFFICES ASSUME TypeOK, WorkersRemember, [Next]_vars, NEW w \in Workers
             PROVE  Remembers(w)'
    BY DEF WorkersRemember, Remembers
<1>1. Remembers(w)
    BY DEF WorkersRemember, Remembers
<1>2. ASSUME NEW v \in Workers, Worker(v)
      PROVE  Remembers(w)'
    <2>1. CASE v = w
        BY <1>2, <2>1, OwnStepRemembers
    <2>2. CASE v # w
        <3>1. workers'[w] = workers[w]
            BY <1>2, <2>2, WorkersAreSeparate
        <3> QED
            BY <1>1, <3>1, UnchangedRemembers
    <2> QED
        BY <2>1, <2>2
<1>3. CASE Restart
    BY <1>3, IdleRemembers DEF Restart, IdleWorker
<1>4. CASE UNCHANGED workers
    BY <1>1, <1>4, UnchangedRemembers
<1> QED
    BY <1>2, <1>3, <1>4, WorkersAreTheirOwn

LEMMA LiveIsItsOwn ==
    [Next]_vars => \/ Node \/ Live \/ Restart
                   \/ UNCHANGED <<live, cursor, finalized, watch>>
BY DEF Next, vars, rowVars, nodeVars,
       Seed, SeedHead, SeedScan, SeedInsert, SeedSkipped, SeedFails,
       Worker, WorkerBoot, WorkerBootFails, Claim, ClaimFails, WorkerIndex,
       WorkerRejected, WorkerFails, WorkerCommitLost, MarkChunkDone,
       MarkChunkFailed, MarkFails, LeaseExpires

\* The block being filled and the cursor once it is stored.
LEMMA StoredCursor ==
    ASSUME TypeOK, LiveRemembers, live.pc = "fill",
           cursor' = BumpCursor(cursor, live.num)
    PROVE  /\ cursor' = live.num \/ cursor' = cursor
           /\ live.num <= finalized
           /\ watch # None => live.num <= watch
           /\ live.last = None => cursor' = live.num
           /\ live.last # None => cursor' = live.last + 1
<1>1. /\ live.num \in Blocks /\ live.num \in Int
      /\ cursor \in Blocks \cup {None} /\ finalized \in Int
      /\ cursor # None => cursor \in Int
      /\ watch # None => watch \in Int
      /\ live.target \in Int /\ None \notin Int
    BY LiveNumInRange, ChainTypes, NoneIsNoRow DEF TypeOK, LiveTask, Blocks
<1>2. /\ live.num <= live.target /\ live.target <= finalized
      /\ watch # None => live.target <= watch
      /\ live.last = None => (cursor # None => cursor <= live.num)
      /\ live.last # None => /\ live.num = live.last + 1
                             /\ cursor \in {live.last, live.last + 1}
    BY DEF LiveRemembers
<1>3. live.last # None => live.last \in Int
    BY ChainTypes DEF TypeOK, LiveTask, Blocks
<1> QED
    BY <1>1, <1>2, <1>3 DEF BumpCursor

LEMMA LiveRememberStep ==
    TypeOK /\ LiveRemembers /\ [Next]_vars => LiveRemembers'
<1> SUFFICES ASSUME TypeOK, LiveRemembers, [Next]_vars
             PROVE  LiveRemembers'
    OBVIOUS
<1>1. /\ live \in LiveTask
      /\ cursor \in Blocks \cup {None}
      /\ watch \in Blocks \cup {None}
      /\ finalized \in Blocks
      /\ \A b \in Blocks : b \in Int
      /\ None \notin Int
    BY ChainTypes, NoneIsNoRow DEF TypeOK, Blocks
<1>2. CASE LiveBoot
    BY <1>1, <1>2 DEF LiveBoot, LiveRemembers, LiveTask
<1>3. CASE LiveBootFails
    BY <1>1, <1>3 DEF LiveBootFails, LiveRemembers, LiveTask, nodeVars
<1>4. CASE LiveTick
    <2>1. CASE UNCHANGED live
        BY <1>1, <1>4, <2>1 DEF LiveTick, LiveRemembers
    <2>2. CASE ~UNCHANGED live
        <3>1. /\ watch # None /\ FillStart <= watch
              /\ live' = [live EXCEPT !.pc = "fill", !.num = FillStart,
                                      !.target = watch]
              /\ UNCHANGED <<cursor, finalized, watch>>
            BY <1>4, <2>2 DEF LiveTick
        <3>2. /\ live'.num = FillStart /\ live'.target = watch
              /\ live'.last = live.last /\ live'.pc = "fill"
            BY <1>1, <3>1 DEF LiveTask
        <3>3. watch <= finalized /\ (cursor # None => cursor <= watch)
            BY <3>1 DEF LiveRemembers
        <3> QED
            BY <1>1, <3>1, <3>2, <3>3 DEF LiveRemembers, FillStart
    <2> QED
        BY <2>1, <2>2
<1>5. CASE LiveIndex
    <2>1. /\ live.num \in Blocks
          /\ live.num <= live.target /\ live.target <= finalized
          /\ watch # None => live.target <= watch
        BY <1>5, LiveNumInRange DEF LiveIndex, LiveRemembers
    <2>2. /\ live'.last = live.num
          /\ live'.num = live.num + 1
          /\ live'.target = live.target
          /\ live'.pc = "fill" => live.num # live.target
        BY <1>1, <1>5 DEF LiveIndex, LiveTask
    <2>3. /\ cursor' = live.num
          /\ UNCHANGED <<finalized, watch>>
        BY <1>5, StoredCursor DEF LiveIndex, nodeVars, LiveRemembers
    <2>4. live.target \in Int
        BY <1>1 DEF LiveTask
    <2> QED
        BY <1>1, <2>1, <2>2, <2>3, <2>4 DEF LiveRemembers
<1>6. CASE LiveRejected
    BY <1>1, <1>6 DEF LiveRejected, LiveRemembers, LiveTask, nodeVars
<1>7. CASE LiveFails
    BY <1>1, <1>7 DEF LiveFails, LiveRemembers, LiveTask, nodeVars
<1>8. CASE LiveCommitLost
    <2>1. /\ cursor' = live.num \/ cursor' = cursor
          /\ live.num <= finalized
          /\ watch # None => live.num <= watch
          /\ live.last # None => cursor' = live.last + 1
          /\ UNCHANGED <<finalized, watch>>
        BY <1>8, StoredCursor DEF LiveCommitLost, nodeVars
    <2>2. live'.pc = "idle" /\ live'.last = live.last
        BY <1>1, <1>8 DEF LiveCommitLost, LiveTask
    <2> QED
        BY <1>1, <2>1, <2>2 DEF LiveRemembers
<1>9. CASE Restart
    BY <1>9 DEF Restart, Booting, LiveRemembers
<1>10. CASE Node
    <2>1. UNCHANGED <<live, cursor>>
        BY <1>10 DEF Node, Finalize, Publish, Connect, Disconnect, rowVars
    <2>2. CASE Finalize
        <3>1. finalized' > finalized /\ finalized' \in Int /\ watch' = watch
            BY <1>1, <2>2 DEF Finalize
        <3> QED
            BY <1>1, <2>1, <3>1 DEF LiveRemembers, LiveTask
    <2>3. CASE Disconnect
        BY <1>1, <2>1, <2>3 DEF Disconnect, LiveRemembers, LiveTask
    <2>4. CASE Publish
        <3>1. watch' = watch \/ watch' \in watch + 1 .. finalized
            BY <2>4 DEF Publish
        <3>2. watch # None /\ watch <= finalized /\ UNCHANGED finalized
            BY <2>4 DEF Publish, LiveRemembers
        <3>3. /\ watch' >= watch /\ watch' <= finalized
              /\ watch' \in Int /\ watch \in Int
            BY <1>1, <3>1, <3>2
        <3>4. /\ live.target \in Int
              /\ cursor # None => cursor \in Int /\ cursor <= watch
              /\ live.pc = "fill" => live.target <= watch
            BY <1>1, <3>2 DEF LiveRemembers, LiveTask
        <3> QED
            BY <2>1, <3>2, <3>3, <3>4 DEF LiveRemembers
    <2>5. CASE Connect
        BY <1>1, <2>1, <2>5 DEF Connect, LiveRemembers, LiveTask
    <2> QED
        BY <1>10, <2>2, <2>3, <2>4, <2>5 DEF Node
<1>11. CASE UNCHANGED <<live, cursor, finalized, watch>>
    BY <1>11 DEF LiveRemembers
<1> QED
    BY <1>2, <1>3, <1>4, <1>5, <1>6, <1>7, <1>8, <1>9, <1>10, <1>11,
       LiveIsItsOwn
    DEF Live

-----------------------------------------------------------------------------
(* Chunks that are done *)

\* A row becomes done only under a worker that has walked its whole range.
LEMMA DoneComesFromSuccess ==
    ASSUME TypeOK, [Next]_vars, NEW r \in Ranges,
           chunks'[r].state = "done", chunks[r].state # "done"
    PROVE  \E w \in Workers :
                workers[w].pc = "succeeded" /\ workers[w].chunk = r
<1>1. chunks \in [Ranges -> ChunkRow]
    BY DEF TypeOK
<1>2. ~UNCHANGED chunks
    OBVIOUS
<1>3. CASE SeedInsert
    BY <1>1, <1>3 DEF SeedInsert
<1>4. ASSUME NEW q \in Ranges, NEW st \in ChunkStates \ {"done"},
             SetState(q, st)
      PROVE  FALSE
    BY <1>1, <1>4 DEF SetState, ChunkRow
<1>5. ASSUME NEW w \in Workers, Worker(w)
      PROVE  workers[w].pc = "succeeded" /\ workers[w].chunk = r
    <2>1. ASSUME NEW q \in Ranges, Claim(w, q) \/ ClaimFails(w, q)
          PROVE  FALSE
        <3>1. SetState(q, "leased")
            BY <1>2, <2>1 DEF Claim, ClaimFails
        <3> QED
            BY <1>4, <3>1 DEF ChunkStates
    <2>2. CASE MarkChunkDone(w)
        BY <1>1, <2>2 DEF MarkChunkDone, SetState, ChunkRow
    <2>3. CASE MarkChunkFailed(w)
        BY <1>1, <2>3 DEF MarkChunkFailed, SetState, ChunkRow
    <2>4. CASE MarkFails(w)
        BY <1>1, <1>2, <2>4 DEF MarkFails, SetState, ChunkRow
    <2> QED
        BY <1>2, <1>5, <2>1, <2>2, <2>3, <2>4
           DEF Worker, WorkerBoot, WorkerBootFails, WorkerIndex,
               WorkerRejected, WorkerFails, WorkerCommitLost
<1>6. ASSUME NEW q \in Ranges, LeaseExpires(q)
      PROVE  FALSE
    BY <1>4, <1>6 DEF LeaseExpires, ChunkStates
<1>7. \/ SeedInsert \/ \E w \in Workers : Worker(w)
      \/ \E q \in Ranges : LeaseExpires(q)
    BY <1>2 DEF Next, vars, Node, Finalize, Publish, Connect, Disconnect,
       Live, LiveBoot, LiveBootFails, LiveTick, LiveIndex, LiveRejected,
       LiveFails, LiveCommitLost,
       Seed, SeedHead, SeedScan, SeedSkipped, SeedFails, Restart
<1> QED
    BY <1>3, <1>5, <1>6, <1>7

LEMMA DoneStep ==
    /\ TypeOK /\ WorkersRemember /\ DoneChunksAreIndexed /\ [Next]_vars
    => DoneChunksAreIndexed'
<1> SUFFICES ASSUME TypeOK, WorkersRemember, DoneChunksAreIndexed,
                    [Next]_vars,
                    NEW r \in Ranges, chunks'[r].state = "done"
             PROVE  Span(r) \subseteq blocks'
    BY DEF DoneChunksAreIndexed
<1>1. Span(r) \subseteq blocks
    <2>1. CASE chunks[r].state = "done"
        BY <2>1 DEF DoneChunksAreIndexed
    <2>2. CASE chunks[r].state # "done"
        <3>1. PICK w \in Workers :
                    workers[w].pc = "succeeded" /\ workers[w].chunk = r
            BY <2>2, DoneComesFromSuccess
        <3> QED
            BY <3>1 DEF WorkersRemember
    <2> QED
        BY <2>1, <2>2
<1> QED
    BY <1>1, BlocksGrow

-----------------------------------------------------------------------------
(* Account balances: the upsert is a join, so the row of an account depends
   on the set of blocks that touched it and on nothing else.                *)

LEMMA FirstSnapshot ==
    ASSUME NEW a \in Accounts, NEW b \in Blocks
    PROVE  Promise!SummaryOf(a, Snapshot(b, a), {b})
<1>1. Snapshot(b, a) \in AccountRow
    BY SnapshotType
<1>2. b \in Int /\ Nonce[b][a] \in Int
    BY ChainTypes DEF Blocks
<1> QED
    BY <1>1, <1>2
       DEF Promise!SummaryOf, Promise!AccountRow, AccountRow, Snapshot,
           Promise!Blocks, Blocks

LEMMA MergedSnapshot ==
    ASSUME NEW a \in Accounts, NEW b \in Blocks, NEW S \in SUBSET Blocks,
           NEW row, Promise!SummaryOf(a, row, S)
    PROVE  Promise!SummaryOf(a, MergeSnapshot(row, Snapshot(b, a)), S \cup {b})
<1> DEFINE merged == MergeSnapshot(row, Snapshot(b, a))
<1>1. row \in AccountRow
    BY DEF Promise!SummaryOf, Promise!AccountRow, AccountRow,
           Promise!Blocks, Blocks
<1>2. merged \in AccountRow
    BY <1>1, SnapshotType, MergeType
<1>3. /\ \A c \in Blocks : c \in Int /\ Nonce[c][a] \in Int
      /\ row.nonce \in Int
      /\ row.first_seen_block \in Blocks /\ row.last_activity_block \in Blocks
    BY <1>1, ChainTypes DEF AccountRow, Blocks
<1>4. /\ merged.free = IF b >= row.last_activity_block
                       THEN Free[b][a] ELSE row.free
      /\ merged.nonce = Greatest(row.nonce, Nonce[b][a])
      /\ merged.first_seen_block = Least(row.first_seen_block, b)
      /\ merged.last_activity_block = Greatest(row.last_activity_block, b)
    BY DEF MergeSnapshot, Snapshot
<1>5. /\ row.last_activity_block \in S /\ row.first_seen_block \in S
      /\ \A c \in S : /\ c <= row.last_activity_block
                      /\ row.first_seen_block <= c
                      /\ Nonce[c][a] <= row.nonce
      /\ row.free = Free[row.last_activity_block][a]
      /\ \E c \in S : row.nonce = Nonce[c][a]
    BY DEF Promise!SummaryOf
<1> HIDE DEF merged
<1>6. /\ merged.last_activity_block \in S \cup {b}
      /\ merged.free = Free[merged.last_activity_block][a]
      /\ \A c \in S \cup {b} : c <= merged.last_activity_block
    BY <1>3, <1>4, <1>5 DEF Greatest
<1>7. /\ merged.first_seen_block \in S \cup {b}
      /\ \A c \in S \cup {b} : merged.first_seen_block <= c
    BY <1>3, <1>4, <1>5 DEF Least
<1>8. /\ \A c \in S \cup {b} : Nonce[c][a] <= merged.nonce
      /\ \E c \in S \cup {b} : merged.nonce = Nonce[c][a]
    BY <1>3, <1>4, <1>5 DEF Greatest
<1>9. merged \in Promise!AccountRow
    BY <1>2 DEF Promise!AccountRow, AccountRow, Promise!Blocks, Blocks
<1>10. Promise!SummaryOf(a, merged, S \cup {b})
    BY <1>6, <1>7, <1>8, <1>9 DEF Promise!SummaryOf
<1> QED
    BY <1>10 DEF merged

\* Storing a block, first or again, keeps every row the summary of the stored
\* blocks.
LEMMA IndexBlockSummarises ==
    ASSUME TypeOK, AccountsFollowBlocks, NEW b \in Blocks, IndexBlock(b)
    PROVE  AccountsFollowBlocks'
<1> DEFINE H(a) == {c \in blocks : a \in TouchedAt(c)}
           J(a) == {c \in blocks' : a \in TouchedAt(c)}
<1>1. blocks \subseteq Blocks /\ blocks' = blocks \cup {b}
    BY DEF TypeOK, IndexBlock, InsertBlock
<1>2. \A a \in Accounts :
        IF H(a) = {} THEN accounts[a] = None
        ELSE Promise!SummaryOf(a, accounts[a], H(a))
    BY DEF AccountsFollowBlocks, Promise!Summarised, Promise!History,
           Promise!TouchedAt, TouchedAt,
           Promise!GenesisAccounts, GenesisAccounts
<1> SUFFICES ASSUME NEW a \in Accounts
             PROVE  IF J(a) = {} THEN accounts'[a] = None
                    ELSE Promise!SummaryOf(a, accounts'[a], J(a))
    BY DEF AccountsFollowBlocks, Promise!Summarised, Promise!History,
           Promise!TouchedAt, TouchedAt,
           Promise!GenesisAccounts, GenesisAccounts,
           Promise!SummaryOf
<1>3. accounts'[a] = IF a \in TouchedAt(b)
                     THEN UpsertSnapshot(accounts[a], Snapshot(b, a))
                     ELSE accounts[a]
    BY DEF IndexBlock, ApplyAccountSnapshots
<1>4. CASE a \notin TouchedAt(b)
    <2>1. J(a) = H(a)
        BY <1>1, <1>4
    <2> HIDE DEF H, J
    <2> QED
        BY <1>2, <1>3, <1>4, <2>1
<1>5. CASE a \in TouchedAt(b)
    <2>1. J(a) = H(a) \cup {b} /\ H(a) \in SUBSET Blocks
        BY <1>1, <1>5
    <2>2. CASE H(a) = {}
        <3>1. accounts'[a] = Snapshot(b, a)
            BY <1>2, <1>3, <1>5, <2>2 DEF UpsertSnapshot
        <3>2. J(a) = {b}
            BY <2>1, <2>2
        <3> HIDE DEF H, J
        <3> QED
            BY <3>1, <3>2, FirstSnapshot
    <2>3. CASE H(a) # {}
        <3>1. Promise!SummaryOf(a, accounts[a], H(a))
            BY <1>2, <2>3
        <3>2. accounts[a] # None
            BY <3>1, NoneIsNoRow
               DEF Promise!SummaryOf, Promise!AccountRow, AccountRow,
                   Promise!Blocks, Blocks
        <3>3. accounts'[a] = MergeSnapshot(accounts[a], Snapshot(b, a))
            BY <1>3, <1>5, <3>2 DEF UpsertSnapshot
        <3> HIDE DEF H, J
        <3>4. J(a) # {}
            BY <2>1
        <3> QED
            BY <2>1, <3>1, <3>3, <3>4, MergedSnapshot
    <2> QED
        BY <2>2, <2>3
<1> QED
    BY <1>4, <1>5

\* Every step stores one block, with or without the cursor, or leaves the
\* tables a reader sees alone.
LEMMA StepsStoreOneBlock ==
    ASSUME TypeOK, WorkersRemember, LiveRemembers, [Next]_vars
    PROVE  \/ \E b \in Blocks :
                /\ IndexBlock(b)
                /\ \/ cursor' = cursor
                   \/ /\ live.pc = "fill" /\ b = live.num
                      /\ cursor' = BumpCursor(cursor, live.num)
           \/ UNCHANGED <<rowVars, cursor>>
<1>1. CASE Live
    <2>1. CASE LiveIndex \/ LiveCommitLost
        <3>1. /\ live.pc = "fill"
              /\ IndexBlock(live.num)
              /\ cursor' = BumpCursor(cursor, live.num)
            BY <2>1 DEF LiveIndex, LiveCommitLost
        <3> QED
            BY <3>1, LiveNumInRange
    <2>2. CASE ~(LiveIndex \/ LiveCommitLost)
        BY <1>1, <2>2 DEF Live, LiveBoot, LiveBootFails, LiveTick,
                          LiveRejected, LiveFails
    <2> QED
        BY <2>1, <2>2
<1>2. ASSUME NEW w \in Workers, Worker(w)
      PROVE  \/ \E b \in Blocks : IndexBlock(b) /\ cursor' = cursor
             \/ UNCHANGED <<rowVars, cursor>>
    <2>1. CASE WorkerIndex(w) \/ WorkerCommitLost(w)
        <3>1. /\ workers[w].pc = "index"
              /\ IndexBlock(workers[w].next)
              /\ cursor' = cursor
            BY <2>1 DEF WorkerIndex, WorkerCommitLost
        <3> QED
            BY <3>1, WorkerNextInRange
    <2>2. CASE ~(WorkerIndex(w) \/ WorkerCommitLost(w))
        BY <1>2, <2>2
           DEF Worker, WorkerBoot, WorkerBootFails, Claim, ClaimFails,
               WorkerRejected, WorkerFails, MarkChunkDone, MarkChunkFailed,
               MarkFails
    <2> QED
        BY <2>1, <2>2
<1>3. CASE ~Live /\ ~(\E w \in Workers : Worker(w))
    BY <1>3
       DEF Next, vars, Node, Finalize, Publish, Connect, Disconnect, Seed, SeedHead,
           SeedScan, SeedInsert, SeedSkipped, SeedFails, Restart,
           LeaseExpires
<1> QED
    BY <1>1, <1>2, <1>3

LEMMA AccountsStep ==
    /\ TypeOK /\ WorkersRemember /\ LiveRemembers /\ AccountsFollowBlocks
    /\ [Next]_vars
    => AccountsFollowBlocks'
<1> SUFFICES ASSUME TypeOK, WorkersRemember, LiveRemembers,
                    AccountsFollowBlocks, [Next]_vars
             PROVE  AccountsFollowBlocks'
    OBVIOUS
<1>1. CASE \E b \in Blocks : IndexBlock(b)
    BY <1>1, IndexBlockSummarises
<1>2. CASE UNCHANGED rowVars
    BY <1>2 DEF rowVars, AccountsFollowBlocks, Promise!Summarised,
                Promise!History, Promise!SummaryOf
<1> QED
    BY <1>1, <1>2, StepsStoreOneBlock

-----------------------------------------------------------------------------
(* The inductive invariant *)

LEMMA InitIInv == Init => IInv
<1> SUFFICES ASSUME Init
             PROVE  IInv
    OBVIOUS
<1>1. WorkersRemember
    BY DEF Init, WorkersRemember, IdleWorker
<1>2. LiveRemembers
    BY DEF Init, LiveRemembers, Booting
<1>3. DoneChunksAreIndexed
    BY DEF Init, DoneChunksAreIndexed
<1>4. AccountsFollowBlocks
    BY DEF Init, AccountsFollowBlocks, Promise!Summarised, Promise!History
<1> QED
    BY <1>1, <1>2, <1>3, <1>4, TypeInit DEF IInv

LEMMA NextIInv == IInv /\ [Next]_vars => IInv'
BY TypeStep, RememberStep, LiveRememberStep, DoneStep, AccountsStep DEF IInv

THEOREM Invariance == Spec => []IInv
BY InitIInv, NextIInv, PTL DEF Spec

\* Every variable of the pipeline keeps its type (TypeOK): the rows written by
\* the upserts of sink.rs stay rows, and block numbers stay in the chain.
THEOREM TypeCorrect == Spec => []TypeOK
<1>1. IInv => TypeOK
    BY DEF IInv
<1> QED
    BY <1>1, Invariance, PTL

\* mark_chunk_done (backfill.rs) only retires a range that is stored, for any
\* pool, chunk size and run of faults: the worker that marks a chunk has
\* stored every block of it, and blocks are never deleted.
THEOREM DoneChunksHold == Spec => []DoneChunksAreIndexed
<1>1. IInv => DoneChunksAreIndexed
    BY DEF IInv
<1> QED
    BY <1>1, Invariance, PTL

\* apply_account_snapshots (sink.rs) makes account_balances a function of the
\* set of stored blocks, whoever stored them, in whatever order, and however
\* often: its upsert is a join.
THEOREM AccountsHold == Spec => []AccountsFollowBlocks
<1>1. IInv => AccountsFollowBlocks
    BY DEF IInv
<1> QED
    BY <1>1, Invariance, PTL

\* The cursor of the live worker (live.rs, bump_cursor) walks block by block
\* once it has anchored, through failures, lost commits and restarts.
THEOREM CursorHolds == Spec => CursorNeverSkips
<1>1. IInv /\ [Next]_vars =>
        [cursor' # cursor =>
            /\ cursor' \in blocks'
            /\ live.last # None => cursor' = cursor + 1]_vars
    <2> SUFFICES ASSUME IInv, [Next]_vars, cursor' # cursor
                 PROVE  /\ cursor' \in blocks'
                        /\ live.last # None => cursor' = cursor + 1
        OBVIOUS
    <2>1. TypeOK /\ WorkersRemember /\ LiveRemembers
        BY DEF IInv
    <2>2. /\ live.pc = "fill"
          /\ IndexBlock(live.num)
          /\ cursor' = BumpCursor(cursor, live.num)
        BY <2>1, StepsStoreOneBlock
    <2>3. cursor' = live.num
        BY <2>1, <2>2, StoredCursor
    <2>4. cursor' \in blocks'
        BY <2>2, <2>3 DEF IndexBlock, InsertBlock
    <2>5. live.last # None =>
            /\ cursor' = live.last + 1
            /\ cursor \in {live.last, live.last + 1}
        BY <2>1, <2>2, StoredCursor DEF LiveRemembers
    <2> QED
        BY <2>4, <2>5
<1> QED
    BY <1>1, Invariance, PTL DEF Spec, CursorNeverSkips

-----------------------------------------------------------------------------
(* Refinement *)

LEMMA StepRefines == IInv /\ IInv' /\ [Next]_vars => [Promise!Next]_Promise!vars
<1> SUFFICES ASSUME IInv, IInv', [Next]_vars
             PROVE  [Promise!Next]_Promise!vars
    OBVIOUS
<1>1. TypeOK /\ WorkersRemember /\ LiveRemembers
    BY DEF IInv
<1>2. CASE UNCHANGED <<rowVars, cursor>>
    BY <1>2 DEF Promise!vars, rowVars
<1>3. ASSUME NEW b \in Blocks, IndexBlock(b),
             \/ cursor' = cursor
             \/ /\ live.pc = "fill" /\ b = live.num
                /\ cursor' = BumpCursor(cursor, live.num)
      PROVE  Promise!Next
    <2>1. blocks' = blocks \cup {b}
        BY <1>3 DEF IndexBlock, InsertBlock
    <2>2. Promise!Summarised'
        BY DEF IInv, AccountsFollowBlocks
    <2>3. cursor' = cursor \/ (cursor' = b /\ (cursor = None \/ b > cursor))
        <3>1. b \in Int /\ (cursor # None => cursor \in Int)
            BY <1>1, ChainTypes DEF TypeOK, Blocks
        <3> QED
            BY <1>3, <3>1 DEF BumpCursor
    <2>4. b \in Promise!Blocks
        BY DEF Promise!Blocks, Blocks
    <2> QED
        BY <2>1, <2>2, <2>3, <2>4 DEF Promise!Next, Promise!Store
<1> QED
    BY <1>1, <1>2, <1>3, StepsStoreOneBlock

\* The whole pipeline - live worker, seed, pool, leases, faults and crashes -
\* implements IndexedChain over the tables readers query.
THEOREM Refinement == Spec => ImplementsPromise
<1>1. Init => Promise!Init
    BY DEF Init, Promise!Init
<1> QED
    BY <1>1, StepRefines, Invariance, PTL
       DEF Spec, ImplementsPromise, Promise!Spec

-----------------------------------------------------------------------------
(* Leases *)

\* Who works on a chunk leases it, and works on it alone.
Holders ==
    /\ \A w \in Workers :
          workers[w].chunk # None => chunks[workers[w].chunk].state = "leased"
    /\ \A v, w \in Workers :
          v # w /\ workers[v].chunk # None => workers[v].chunk # workers[w].chunk

\* One worker lets go of its chunk; the state of no other chunk changes.
LEMMA LetGoKeepsHolders ==
    ASSUME TypeOK, Holders, NEW w \in Workers,
           \A v \in Workers \ {w} : workers'[v] = workers[v],
           workers'[w].chunk = None,
           \A r \in Ranges : r # workers[w].chunk => chunks'[r] = chunks[r]
    PROVE  Holders'
BY DEF Holders, TypeOK, WorkerTask

\* One worker changes the rest of its state only.
LEMMA OwnStateKeepsHolders ==
    ASSUME TypeOK, Holders, UNCHANGED chunks,
           \A v \in Workers : workers'[v].chunk = workers[v].chunk
    PROVE  Holders'
BY DEF Holders

LEMMA ClaimKeepsHolders ==
    ASSUME TypeOK, Holders, NEW w \in Workers, NEW r \in Ranges, Claim(w, r)
    PROVE  Holders'
<1>1. /\ chunks[r].state # "leased"
      /\ chunks' = [chunks EXCEPT ![r].state = "leased"]
    BY DEF Claim, NextChunk, Claimable, SetState
<1>2. \A v \in Workers : workers[v].chunk # r
    BY <1>1, IndexerParameters DEF Holders, Ranges
<1>3. /\ workers'[w].chunk = r
      /\ \A v \in Workers \ {w} : workers'[v] = workers[v]
    BY DEF Claim, TypeOK
<1>4. /\ chunks'[r].state = "leased"
      /\ \A q \in Ranges : q # r => chunks'[q] = chunks[q]
    BY <1>1 DEF TypeOK, ChunkRow
<1>5. \A v \in Workers : workers[v].chunk \in Ranges \cup {None}
    BY DEF TypeOK, WorkerTask
<1> QED
    BY <1>2, <1>3, <1>4, <1>5 DEF Holders

LEMMA WorkerKeepsHolders ==
    ASSUME TypeOK, WorkersRemember, Holders, NEW w \in Workers, Worker(w)
    PROVE  Holders'
<1>1. /\ workers[w] \in WorkerTask
      /\ workers \in [Workers -> WorkerTask]
      /\ chunks \in [Ranges -> ChunkRow]
    BY DEF TypeOK
<1>2. workers[w].chunk = None <=> workers[w].pc \in {"boot", "idle", "exited"}
    BY DEF WorkersRemember
<1>3. \A v \in Workers \ {w} : workers'[v] = workers[v]
    BY WorkersAreSeparate
<1>4. CASE WorkerBoot(w) \/ WorkerBootFails(w)
    <2>1. UNCHANGED chunks /\ workers'[w].chunk = None /\ workers[w].chunk = None
        BY <1>1, <1>2, <1>4
           DEF WorkerBoot, WorkerBootFails, IdleWorker, WorkerTask
    <2> QED
        BY <1>3, <2>1, OwnStateKeepsHolders
<1>5. ASSUME NEW r \in Ranges, Claim(w, r)
      PROVE  Holders'
    BY <1>5, ClaimKeepsHolders
<1>6. ASSUME NEW r \in Ranges, ClaimFails(w, r)
      PROVE  Holders'
    <2>1. \A v \in Workers : workers'[v].chunk = workers[v].chunk
        BY <1>1, <1>3, <1>6 DEF ClaimFails, WorkerTask
    <2>2. \A q \in Ranges : chunks[q].state = "leased"
                                => chunks'[q].state = "leased"
        BY <1>1, <1>6 DEF ClaimFails, SetState, ChunkRow
    <2>3. \A v \in Workers : workers[v].chunk \in Ranges \cup {None}
        BY <1>1 DEF WorkerTask
    <2> QED
        BY <2>1, <2>2, <2>3 DEF Holders
<1>7. CASE WorkerIndex(w) \/ WorkerRejected(w) \/ WorkerFails(w)
              \/ WorkerCommitLost(w)
    <2>1. UNCHANGED chunks /\ workers'[w].chunk = workers[w].chunk
        BY <1>1, <1>7, ZenonT(40)
           DEF WorkerIndex, WorkerRejected, WorkerFails, WorkerCommitLost,
               WorkerTask
    <2> QED
        BY <1>3, <2>1, OwnStateKeepsHolders
<1>8. CASE MarkChunkDone(w) \/ MarkChunkFailed(w) \/ MarkFails(w)
    <2>1. workers'[w].chunk = None
        BY <1>1, <1>8
           DEF MarkChunkDone, MarkChunkFailed, MarkFails, IdleWorker
    <2>2. \A q \in Ranges : q # workers[w].chunk => chunks'[q] = chunks[q]
        BY <1>1, <1>8
           DEF MarkChunkDone, MarkChunkFailed, MarkFails, SetState, ChunkRow
    <2> QED
        BY <1>3, <2>1, <2>2, LetGoKeepsHolders
<1> QED
    BY <1>4, <1>5, <1>6, <1>7, <1>8 DEF Worker

LEMMA HoldersStep ==
    ASSUME "slow" \notin FaultKinds, TypeOK, WorkersRemember, Holders,
           [Next]_vars
    PROVE  Holders'
<1>1. ASSUME NEW w \in Workers, Worker(w)
      PROVE  Holders'
    BY <1>1, WorkerKeepsHolders
<1>2. CASE SeedInsert
    <2>1. UNCHANGED workers
        BY <1>2 DEF SeedInsert
    <2>2. \A q \in Ranges : chunks[q].state = "leased"
                                => chunks'[q].state = "leased"
        BY <1>2 DEF SeedInsert, TypeOK, ChunkRow
    <2>3. \A v \in Workers : workers[v].chunk \in Ranges \cup {None}
        BY DEF TypeOK, WorkerTask
    <2> QED
        BY <2>1, <2>2, <2>3 DEF Holders
<1>3. CASE Restart
    BY <1>3 DEF Restart, IdleWorker, Holders
<1>4. ASSUME NEW q \in Ranges, LeaseExpires(q)
      PROVE  Holders'
    <2>1. \A w \in Workers : workers[w].chunk # q
        BY <1>4 DEF LeaseExpires, Fault
    <2>2. /\ UNCHANGED workers
          /\ \A r \in Ranges : r # q => chunks'[r] = chunks[r]
        BY <1>4 DEF LeaseExpires, SetState, TypeOK
    <2>3. \A v \in Workers : workers[v].chunk \in Ranges \cup {None}
        BY DEF TypeOK, WorkerTask
    <2> QED
        BY <2>1, <2>2, <2>3 DEF Holders
<1>5. CASE UNCHANGED <<workers, chunks>>
    BY <1>5 DEF Holders
<1>6. \/ SeedInsert \/ Restart \/ UNCHANGED <<workers, chunks>>
      \/ \E w \in Workers : Worker(w)
      \/ \E q \in Ranges : LeaseExpires(q)
    BY DEF Next, vars, Node, Finalize, Publish, Connect, Disconnect,
       Live, LiveBoot, LiveBootFails, LiveTick, LiveIndex, LiveRejected,
       LiveFails, LiveCommitLost,
       Seed, SeedHead, SeedScan, SeedSkipped, SeedFails
<1> QED
    BY <1>1, <1>2, <1>3, <1>4, <1>5, <1>6

\* claim_chunk (backfill.rs): while no worker outlives its lease, two workers
\* never index the same chunk, however many there are and whichever of them
\* exit, fail or are restarted.
THEOREM LeaseHolds == Spec => []LeaseExcludes
<1> DEFINE Exclusive == "slow" \notin FaultKinds => Holders
<1>1. Init => Exclusive
    BY DEF Init, IdleWorker, Holders
<1>2. IInv /\ Exclusive /\ [Next]_vars => Exclusive'
    BY HoldersStep DEF IInv
<1>3. Exclusive => LeaseExcludes
    BY DEF LeaseExcludes, Holders
<1> HIDE DEF Exclusive
<1> QED
    BY <1>1, <1>2, <1>3, Invariance, PTL DEF Spec

-----------------------------------------------------------------------------
(* ATS versions *)

\* VersionCountsAgree, for one id.
CountAgrees(i) ==
    LET stored == {u \in versions : u[1] = i}
    IN  IF registry[i] = None THEN stored = {}
        ELSE /\ <<i, registry[i] - 1>> \in stored
             /\ \A u \in stored : u[2] < registry[i]

LEMMA IndexBlockCounts ==
    ASSUME TypeOK, NEW b \in Blocks, IndexBlock(b),
           NEW i \in AtsIds, CountAgrees(i)
    PROVE  CountAgrees(i)'
<1> DEFINE brought == {u \in VersionInserts(b) : u[1] = i}
           updates == {u \in Updated[b] : u[1] = i}
           stored == {u \in versions : u[1] = i}
           count == RegistryInsert(registry[i], i, b)
<1>1. /\ registry[i] \in Nat \cup {None} /\ None \notin Int
      /\ versions \subseteq AtsIds \X Nat
    BY NoneIsNoRow DEF TypeOK
<1>2. {u \in versions' : u[1] = i} =
            IF i \in Revoked[b] THEN {} ELSE stored \cup brought
    BY DEF IndexBlock, ApplyAtsVersions
<1>3. registry'[i] = IF i \in Revoked[b] \/ count = None
                     THEN None ELSE BumpedCount(count, i, b)
    BY DEF IndexBlock, ApplyAtsRegistry
<1>4. /\ updates \subseteq brought
      /\ \A u \in updates : u[2] \in Nat /\ u = <<i, u[2]>>
      /\ \A u \in brought : u \in updates \/ (u = <<i, 0>> /\ i \in Created[b])
      /\ i \in Created[b] => <<i, 0>> \in brought
    BY ChainTypes DEF VersionInserts
<1>5. CASE i \in Revoked[b]
    BY <1>2, <1>3, <1>5 DEF CountAgrees
<1>6. CASE i \notin Revoked[b] /\ count = None
    <2>1. registry[i] = None /\ i \notin Created[b]
        BY <1>6, NoneIsNoRow DEF RegistryInsert
    <2>2. brought = {}
        BY <2>1 DEF IndexBlock, ForeignKeysHold
    <2>3. stored = {}
        BY <2>1 DEF CountAgrees
    <2> QED
        BY <1>2, <1>3, <1>6, <2>2, <2>3 DEF CountAgrees
<1>7. CASE i \notin Revoked[b] /\ count # None
    <2> DEFINE n == BumpedCount(count, i, b)
    <2>1. count \in Nat
        BY <1>1, <1>7 DEF RegistryInsert
    <2>2. /\ n \in Nat
          /\ n = count \/ \E u \in updates : n = u[2] + 1
          /\ count <= n
          /\ \A u \in updates : u[2] + 1 <= n
        BY <2>1, BumpedCountIsNewest
    <2>3. /\ registry'[i] = n
          /\ {u \in versions' : u[1] = i} = stored \cup brought
        BY <1>2, <1>3, <1>7
    <2>4. CASE registry[i] = None
        <3>1. count = 1 /\ i \in Created[b] /\ stored = {}
            BY <1>7, <2>4 DEF RegistryInsert, CountAgrees
        <3> HIDE DEF n, count, updates, brought, stored
        <3>2. <<i, n - 1>> \in brought
            BY <1>4, <2>2, <3>1
        <3>3. \A u \in brought : u[2] < n
            BY <1>4, <2>2, <3>1
        <3>4. n # None
            BY <1>1, <2>2
        <3> QED
            BY <2>3, <3>1, <3>2, <3>3, <3>4 DEF CountAgrees
    <2>5. CASE registry[i] # None
        <3>1. /\ count = registry[i]
              /\ <<i, count - 1>> \in stored
              /\ \A u \in stored : u[2] < count /\ u[2] \in Nat
            BY <1>1, <2>5 DEF RegistryInsert, CountAgrees
        <3>2. count - 1 \in Nat
            BY <3>1
        <3> HIDE DEF n, count, updates, brought, stored
        <3>3. <<i, n - 1>> \in stored \cup brought
            BY <1>4, <2>2, <3>1
        <3>4. \A u \in stored \cup brought : u[2] < n
            BY <1>4, <2>1, <2>2, <3>1, <3>2
        <3>5. n # None
            BY <1>1, <2>2
        <3> QED
            BY <2>3, <3>3, <3>4, <3>5 DEF CountAgrees
    <2> QED
        BY <2>4, <2>5
<1> QED
    BY <1>5, <1>6, <1>7

\* apply_ats (sink.rs): the version count of an ATS is one more than its newest
\* stored version, in whatever order creations, updates and revocations are
\* stored and replayed, and no version outlives its ATS.
THEOREM VersionCountsHold == Spec => []VersionCountsAgree
<1>1. VersionCountsAgree <=> \A i \in AtsIds : CountAgrees(i)
    BY DEF VersionCountsAgree, CountAgrees
<1>2. Init => VersionCountsAgree
    BY <1>1 DEF Init, CountAgrees
<1>3. IInv /\ VersionCountsAgree /\ [Next]_vars => VersionCountsAgree'
    <2> SUFFICES ASSUME IInv, \A i \in AtsIds : CountAgrees(i), [Next]_vars,
                        NEW i \in AtsIds
                 PROVE  CountAgrees(i)'
        BY DEF VersionCountsAgree, CountAgrees
    <2>1. TypeOK /\ WorkersRemember /\ LiveRemembers
        BY DEF IInv
    <2>2. CASE \E b \in Blocks : IndexBlock(b)
        BY <2>1, <2>2, IndexBlockCounts
    <2>3. CASE UNCHANGED rowVars
        BY <2>3 DEF rowVars, CountAgrees
    <2> QED
        BY <2>1, <2>2, <2>3, StepsStoreOneBlock
<1> QED
    BY <1>2, <1>3, Invariance, PTL DEF Spec

-----------------------------------------------------------------------------
(* The pieces of the gaps *)

\* split_gaps_into_chunks leaves no missing block out: the piece of b starts
\* at the last multiple of the size behind it in its run, and ends a size
\* further or where the run does.
LEMMA GapRangesCover ==
    ASSUME NEW head \in Nat, NEW existing, NEW size \in Nat \ {0},
           NEW b \in Missing(head, existing)
    PROVE  \E r \in GapRanges(head, existing, size) : b \in Span(r)
<1> DEFINE missing == Missing(head, existing)
           starts == {g \in 0 .. b : g .. b \subseteq missing}
<1>1. missing \subseteq Nat /\ b \in Nat /\ b \in missing
    BY DEF Missing
<1>2. starts \in SUBSET Nat /\ b \in starts
    BY <1>1
<1>3. PICK g \in starts : \A h \in starts : g <= h
    <2> HIDE DEF starts
    <2> QED
        BY <1>2, LeastElement
<1>4. g \in Nat /\ g <= b /\ g .. b \subseteq missing
    BY <1>1, <1>3
<1>5. g \in missing /\ g - 1 \notin missing
    <2>1. g \in missing
        BY <1>1, <1>4
    <2>2. ASSUME g - 1 \in missing
          PROVE  FALSE
        <3>1. g - 1 \in 0 .. b
            BY <1>1, <1>4, <2>2
        <3>2. g - 1 .. b \subseteq missing
            BY <1>1, <1>4, <2>2
        <3>3. g - 1 \in starts
            BY <3>1, <3>2
        <3> QED
            BY <1>3, <1>4, <3>3
    <2> QED
        BY <2>1, <2>2
<1> DEFINE steps == {k \in 0 .. b - g : k % size = 0}
<1>6. /\ steps \in SUBSET Nat /\ steps # {}
      /\ b - g \in Nat /\ \A k \in steps : k <= b - g
    <2>1. 0 \in steps
        BY <1>1, <1>4
    <2> QED
        BY <1>1, <1>4, <2>1
<1>7. PICK k \in steps : \A j \in steps : j <= k
    <2> HIDE DEF steps
    <2> QED
        BY <1>6, GreatestElement
<1>8. k \in Nat /\ k <= b - g /\ k % size = 0
    BY <1>1, <1>4, <1>7
<1>9. b < g + k + size
    <2>1. CASE k + size <= b - g
        <3>1. (k + size) % size = 0
            BY <1>8, NextMultiple
        <3>2. k + size \in steps
            BY <1>8, <2>1, <3>1
        <3> QED
            BY <1>7, <1>8, <3>2
    <2> QED
        BY <1>1, <1>4, <1>8, <2>1
<1> DEFINE from == g + k
<1>10. from \in Nat /\ g <= from /\ from <= b /\ b < from + size
       /\ (from - g) % size = 0
    BY <1>1, <1>4, <1>8, <1>9
<1> HIDE DEF from, steps, starts
\* The piece ends at most a size after its start, at the first stored block.
<1>11. \E end \in missing :
          /\ b <= end /\ from .. end \subseteq missing
          /\ \/ end = from + size - 1
             \/ end < from + size - 1 /\ end + 1 \notin missing
    <2> DEFINE last == from + size - 1
               stored == (from .. last) \ missing
    <2>1. CASE stored = {}
        <3>1. from .. last \subseteq missing
            BY <2>1
        <3>2. last \in from .. last /\ b <= last
            BY <1>1, <1>10
        <3> QED
            BY <3>1, <3>2
    <2>2. CASE stored # {}
        <3>1. stored \in SUBSET Nat
            BY <1>10
        <3>2. PICK e \in stored : \A f \in stored : e <= f
            <4> HIDE DEF stored
            <4> QED
                BY <2>2, <3>1, LeastElement
        <3>3. e \in Nat /\ from <= e /\ e <= last /\ e \notin missing
            BY <1>10, <3>2
        <3>4. b < e
            BY <1>1, <1>4, <1>10, <3>3
        <3>5. from .. e - 1 \subseteq missing
            <4> SUFFICES ASSUME NEW x \in from .. e - 1
                         PROVE  x \in missing
                OBVIOUS
            <4>1. x \in from .. last /\ ~(e <= x)
                BY <1>10, <3>3
            <4> QED
                BY <3>2, <4>1
        <3>6. e - 1 \in missing /\ b <= e - 1 /\ e - 1 < last
              /\ (e - 1) + 1 = e
            <4>1. e - 1 \in from .. e - 1
                BY <1>1, <1>10, <3>3, <3>4
            <4> QED
                BY <1>1, <1>10, <3>3, <3>4, <3>5, <4>1
        <3> HIDE DEF stored
        <3> QED
            BY <3>3, <3>5, <3>6
    <2> QED
        BY <2>1, <2>2
<1>12. PICK end \in missing :
          /\ b <= end /\ from .. end \subseteq missing
          /\ \/ end = from + size - 1
             \/ end < from + size - 1 /\ end + 1 \notin missing
    BY <1>11
<1> DEFINE r == <<from, end>>
<1>13. g .. end \subseteq missing
    <2> SUFFICES ASSUME NEW x \in g .. end
                 PROVE  x \in missing
        OBVIOUS
    <2>1. x \in g .. b \/ x \in from .. end
        BY <1>1, <1>4, <1>10, <1>12
    <2> QED
        BY <1>4, <1>12, <2>1
<1>14. r \in missing \X missing /\ r[1] = from /\ r[2] = end
    BY <1>1, <1>4, <1>10
<1>15. /\ r[1] <= r[2] /\ Span(r) \subseteq missing
       /\ g \in 0 .. r[1]
       /\ b \in Span(r)
    BY <1>1, <1>4, <1>10, <1>12, <1>14 DEF Span
<1>16. r \in GapRanges(head, existing, size)
    BY <1>5, <1>10, <1>12, <1>13, <1>14, <1>15 DEF GapRanges
<1> QED
    BY <1>15, <1>16

-----------------------------------------------------------------------------
(* What the seed leaves to the queue *)

\* A row of backfill_chunks is never deleted.
LEMMA ChunksStay ==
    ASSUME TypeOK, [Next]_vars, NEW r \in Ranges, chunks[r].state # "none"
    PROVE  chunks'[r].state # "none"
<1>1. chunks \in [Ranges -> ChunkRow]
    BY DEF TypeOK
<1>2. CASE UNCHANGED chunks
    BY <1>2
<1>3. CASE SeedInsert
    BY <1>1, <1>3 DEF SeedInsert
<1>4. ASSUME NEW q, NEW st \in ChunkStates \ {"none"}, SetState(q, st)
      PROVE  chunks'[r].state # "none"
    BY <1>1, <1>4 DEF SetState, ChunkRow
<1>5. ASSUME NEW w \in Workers, Worker(w)
      PROVE  chunks'[r].state # "none"
    BY <1>2, <1>4, <1>5
       DEF ChunkStates, Worker, WorkerBoot, WorkerBootFails, Claim, ClaimFails,
           WorkerIndex, WorkerRejected, WorkerFails, WorkerCommitLost,
           MarkChunkDone, MarkChunkFailed, MarkFails
<1>6. ASSUME NEW q \in Ranges, LeaseExpires(q)
      PROVE  chunks'[r].state # "none"
    BY <1>4, <1>6 DEF LeaseExpires, ChunkStates
<1>7. \/ SeedInsert \/ UNCHANGED chunks
      \/ \E w \in Workers : Worker(w)
      \/ \E q \in Ranges : LeaseExpires(q)
    BY DEF Next, vars, Node, Finalize, Publish, Connect, Disconnect,
       Live, LiveBoot, LiveBootFails, LiveTick, LiveIndex, LiveRejected,
       LiveFails, LiveCommitLost,
       Seed, SeedHead, SeedScan, SeedSkipped, SeedFails, Restart
<1> QED
    BY <1>2, <1>3, <1>5, <1>6, <1>7

\* Block b is stored, or a row of the queue has it.
StoredOrQueued(b) ==
    \/ b \in blocks
    \/ \E r \in Ranges : b \in Span(r) /\ chunks[r].state # "none"

\* Block b is stored, or in a range the seed task still holds in memory.
StoredOrSplit(b) == b \in blocks \/ \E r \in seeder.ranges : b \in Span(r)

\* SeedCoversHead with the step before it: from the scan to the insert, the
\* ranges in memory cover what the scan found missing.
SeedRemembers ==
    /\ seeder.pc = "insert" => \A b \in 0 .. seeder.head : StoredOrSplit(b)
    /\ seeder.pc = "seeded" => \A b \in 0 .. seeder.head : StoredOrQueued(b)

\* Other tasks may have stored or queued blocks since the scan, never removed
\* any.
LEMMA OthersKeepSeedRemembers ==
    ASSUME TypeOK, SeedRemembers, [Next]_vars, UNCHANGED seeder
    PROVE  SeedRemembers'
<1>1. \A b : StoredOrQueued(b) => StoredOrQueued(b)'
    BY BlocksGrow, ChunksStay DEF StoredOrQueued
<1>2. \A b : StoredOrSplit(b) => StoredOrSplit(b)'
    BY BlocksGrow DEF StoredOrSplit
<1> QED
    BY <1>1, <1>2 DEF SeedRemembers

LEMMA SeedScanCovers ==
    ASSUME TypeOK, SeedScan
    PROVE  SeedRemembers'
<1>1. seeder.head \in Nat /\ seeder'.head = seeder.head
      /\ seeder'.pc = "insert" /\ UNCHANGED blocks
      /\ seeder'.ranges = GapRanges(seeder.head, blocks, ChunkSize)
    BY ChainTypes DEF TypeOK, SeedTask, SeedScan, Blocks, rowVars
<1>2. ASSUME NEW b \in 0 .. seeder.head, b \notin blocks
      PROVE  \E r \in seeder'.ranges : b \in Span(r)
    BY <1>1, <1>2, GapRangesCover, IndexerParameters DEF Missing
<1> QED
    BY <1>1, <1>2 DEF SeedRemembers, StoredOrSplit

LEMMA SeedInsertQueues ==
    ASSUME TypeOK, SeedRemembers, SeedInsert
    PROVE  SeedRemembers'
<1>1. /\ seeder.ranges \subseteq Ranges
      /\ chunks \in [Ranges -> ChunkRow]
      /\ seeder'.head = seeder.head /\ seeder'.pc = "seeded"
      /\ UNCHANGED blocks
    BY DEF TypeOK, SeedTask, SeedInsert, rowVars
<1>2. \A r \in Ranges : r \in seeder.ranges \/ chunks[r].state # "none"
                            => chunks'[r].state # "none"
    BY <1>1 DEF SeedInsert
<1>3. \A b \in 0 .. seeder.head : StoredOrSplit(b)
    BY DEF SeedInsert, SeedRemembers
<1> QED
    BY <1>1, <1>2, <1>3 DEF SeedRemembers, StoredOrSplit, StoredOrQueued

LEMMA SeedRemembersStep ==
    TypeOK /\ SeedRemembers /\ [Next]_vars => SeedRemembers'
<1> SUFFICES ASSUME TypeOK, SeedRemembers, [Next]_vars
             PROVE  SeedRemembers'
    OBVIOUS
<1>1. CASE UNCHANGED seeder
    BY <1>1, OthersKeepSeedRemembers
<1>2. CASE SeedHead \/ SeedSkipped \/ SeedFails \/ Restart
    <2>1. seeder \in SeedTask
        BY DEF TypeOK
    <2>2. CASE SeedHead
        BY <2>1, <2>2 DEF SeedHead, SeedTask, SeedRemembers
    <2>3. CASE SeedSkipped \/ SeedFails
        BY <2>1, <2>3 DEF SeedSkipped, SeedFails, SeedTask, SeedRemembers
    <2>4. CASE Restart
        BY <2>4 DEF Restart, SeedRemembers
    <2> QED
        BY <1>2, <2>2, <2>3, <2>4
<1>3. CASE SeedScan
    BY <1>3, SeedScanCovers
<1>4. CASE SeedInsert
    BY <1>4, SeedInsertQueues
<1>5. UNCHANGED seeder \/ Seed \/ Restart
    BY DEF Next, vars, Node, Finalize, Publish, Connect, Disconnect,
       Live, LiveBoot, LiveBootFails, LiveTick, LiveIndex, LiveRejected,
       LiveFails, LiveCommitLost,
       Worker, WorkerBoot, WorkerBootFails, Claim, ClaimFails, WorkerIndex,
       WorkerRejected, WorkerFails, WorkerCommitLost, MarkChunkDone,
       MarkChunkFailed, MarkFails, LeaseExpires
<1> QED
    BY <1>1, <1>2, <1>3, <1>4, <1>5 DEF Seed

\* seed_chunks (backfill.rs): once a seed has committed, every block up to the
\* head it saw is stored or in a chunk that will still be drained - for every
\* chunk size and head, whatever live worker and pool did between the scan
\* and the insert, and whichever ranges were queued by an earlier process.
THEOREM SeedHolds == Spec => []SeedCoversHead
<1>1. Init => SeedRemembers
    BY DEF Init, SeedRemembers
<1>2. IInv /\ SeedRemembers /\ [Next]_vars => SeedRemembers'
    BY SeedRemembersStep DEF IInv
<1>3. IInv /\ SeedRemembers => SeedCoversHead
    <2> SUFFICES ASSUME IInv, SeedRemembers, seeder.pc = "seeded",
                        NEW b \in 0 .. seeder.head, b \notin blocks
                 PROVE  \E r \in Ranges :
                            /\ b \in Span(r)
                            /\ chunks[r].state \in {"pending", "leased", "expired"}
        BY DEF SeedCoversHead
    <2>1. PICK r \in Ranges : b \in Span(r) /\ chunks[r].state # "none"
        BY DEF SeedRemembers, StoredOrQueued
    <2>2. chunks[r].state # "done"
        BY <2>1 DEF IInv, DoneChunksAreIndexed
    <2>3. chunks[r].state \in ChunkStates
        BY DEF IInv, TypeOK, ChunkRow
    <2> QED
        BY <2>1, <2>2, <2>3 DEF ChunkStates
<1> QED
    BY <1>1, <1>2, <1>3, Invariance, PTL DEF Spec

-----------------------------------------------------------------------------
(* Balances of an unbroken prefix *)

\* An account no block names keeps its balance.
LEMMA UntouchedKeepsBalance ==
    ASSUME NEW a \in Accounts, NEW l \in Blocks, NEW h \in Blocks, l <= h,
           \A c \in l + 1 .. h : a \notin Touched[c]
    PROVE  Free[h][a] = Free[l][a]
<1> DEFINE f == [c \in Blocks |-> Free[c][a]]
<1>1. l \in Nat /\ h \in Nat
    BY ChainTypes DEF Blocks
<1>2. ASSUME NEW c \in l + 1 .. h
      PROVE  f[c] = f[c - 1]
    <2>1. c \in Blocks \ {0} /\ c - 1 \in Blocks
        BY <1>1, ChainTypes DEF Blocks
    <2> QED
        BY <2>1, TouchedCoversChanges
<1> HIDE DEF f
<1>3. f[h] = f[l]
    BY <1>1, <1>2, StepsKeepValue
<1> QED
    BY <1>3 DEF f

LEMMA SummaryIsExact ==
    ASSUME NEW h \in Blocks, blocks = 0 .. h, AccountsFollowBlocks,
           NEW a \in Accounts
    PROVE  Free[h][a] = IF accounts[a] = None THEN 0 ELSE accounts[a].free
<1> DEFINE S == {c \in blocks : a \in TouchedAt(c)}
<1>1. 0 \in Blocks /\ h \in Nat /\ 0 \in blocks
    BY ChainTypes DEF Blocks
<1>2. IF S = {} THEN accounts[a] = None
      ELSE Promise!SummaryOf(a, accounts[a], S)
    BY DEF AccountsFollowBlocks, Promise!Summarised, Promise!History,
           Promise!TouchedAt, TouchedAt, Promise!GenesisAccounts,
           GenesisAccounts
<1>3. CASE S = {}
    <2>1. a \notin Endowed
        BY <1>1, <1>3 DEF TouchedAt, GenesisAccounts
    <2>2. \A c \in 0 + 1 .. h : a \notin Touched[c]
        BY <1>1, <1>3 DEF TouchedAt
    <2>3. Free[h][a] = Free[0][a]
        BY <1>1, <2>2, UntouchedKeepsBalance
    <2> QED
        BY <1>2, <1>3, <2>1, <2>3, TouchedCoversChanges
<1>4. CASE S # {}
    <2> DEFINE l == accounts[a].last_activity_block
    <2>1. /\ accounts[a] \in AccountRow
          /\ l \in S /\ \A c \in S : c <= l
          /\ accounts[a].free = Free[l][a]
        BY <1>2, <1>4
           DEF Promise!SummaryOf, Promise!AccountRow, AccountRow,
               Promise!Blocks, Blocks
    <2>2. accounts[a] # None
        BY <2>1, NoneIsNoRow
    <2> HIDE DEF l
    <2>3. l \in Blocks /\ l <= h
        BY <1>1, <2>1, ChainTypes DEF Blocks
    <2>4. \A c \in l + 1 .. h : a \notin Touched[c]
        <3> SUFFICES ASSUME NEW c \in l + 1 .. h, a \in Touched[c]
                     PROVE  FALSE
            OBVIOUS
        <3>1. c \in blocks /\ ~(c <= l)
            BY <1>1, <2>3, ChainTypes DEF Blocks
        <3> QED
            BY <2>1, <3>1 DEF TouchedAt
    <2>5. Free[h][a] = Free[l][a]
        BY <2>3, <2>4, UntouchedKeepsBalance
    <2> QED
        BY <2>1, <2>2, <2>5
<1> QED
    BY <1>3, <1>4

\* apply_account_snapshots with collect_touched (sink.rs, accounts.rs): when
\* the stored blocks are a prefix of the chain, whoever stored them and in
\* whatever order, every balance is the chain's own at the end of it.
THEOREM PrefixBalancesHold == Spec => []PrefixBalancesAreExact
<1>1. IInv => PrefixBalancesAreExact
    BY SummaryIsExact DEF IInv, PrefixBalancesAreExact
<1> QED
    BY <1>1, Invariance, PTL
=============================================================================
