--------------------------- MODULE ListingsProofs ---------------------------
(***************************************************************************)
(* The walks of a client, over any chain, any page size, scan depth and    *)
(* interleaving with the node, the head watch and the indexer.             *)
(***************************************************************************)
EXTENDS Listings, OrderLemmas, FiniteSetTheorems, SequenceTheorems, TLAPS

\* The constants as numbers.
LEMMA Numbers ==
    /\ MaxBlock \in Nat /\ Count \in Nat /\ Count >= 1 /\ ScanDepth \in Nat
    /\ MaxMissing \in Nat /\ Stride \in Nat /\ Stride >= 1
BY ListingsAssumption

------------------------------------------------------------------------------
(***************************************************************************)
(* Pages.                                                                  *)
(***************************************************************************)

\* A set of numbers in descending order.
LEMMA NewestFirstSorts ==
    ASSUME NEW K \in SUBSET Nat, IsFiniteSet(K)
    PROVE  /\ NewestFirst(K) \in Seq(K) /\ Len(NewestFirst(K)) = Cardinality(K)
           /\ Cardinality(K) \in Nat
           /\ Descends(NewestFirst(K)) /\ Range(NewestFirst(K)) = K
BY RankOrder DEF NewestFirst

\* What the list pages are made of.
LEMMA TrimIsPage ==
    ASSUME NEW K \in SUBSET Nat, IsFiniteSet(K), NEW count \in Nat, count >= 1
    PROVE  /\ IsPage(Trim(NewestFirst(K), count), K, count)
           /\ Trim(Trim(NewestFirst(K), count + 1).items, count)
                = Trim(NewestFirst(K), count)
<1> DEFINE s == NewestFirst(K)
           m == AtMost(count, Len(s))
           items == SubSeq(s, 1, m)
           p == Trim(s, count)
<1>1. /\ s \in Seq(K) /\ Len(s) \in Nat /\ Descends(s) /\ Range(s) = K
      /\ Len(s) = Cardinality(K)
    BY NewestFirstSorts
<1> HIDE DEF s
<1>2. /\ m \in Nat /\ m <= Len(s) /\ m <= count
      /\ m = IF count < Len(s) THEN count ELSE Len(s)
    BY <1>1 DEF AtMost
<1>3. /\ items \in Seq(K) /\ Len(items) = m /\ \A i \in 1 .. m : items[i] = s[i]
    <2> HIDE DEF m
    <2> QED
        BY <1>1, <1>2
<1>4. p = [items |-> SubSeq(s, 1, m), more |-> Len(s) > count] /\ p.items = items
    BY DEF Trim
<1>11. IsPage(p, K, count)
    <2> HIDE DEF m, p
    <2> QED
        BY <1>1, <1>2, <1>4, FirstRows
<1> HIDE DEF m, items, p
<1>12. Trim(Trim(s, count + 1).items, count) = p
    <2> DEFINE m1 == AtMost(count + 1, Len(s))
               first == SubSeq(s, 1, m1)
    <2>1. Trim(s, count + 1).items = first
        BY DEF Trim
    <2>2. /\ m1 \in Nat /\ m1 <= Len(s) /\ (m1 > count <=> Len(s) > count)
          /\ AtMost(count, m1) = m /\ m <= m1
        BY <1>1 DEF AtMost, m
    <2> HIDE DEF m1
    <2>3. Len(first) = m1 /\ \A i \in 1 .. m1 : first[i] = s[i]
        BY <1>1, <2>2
    <2>4. first \in Seq(K)
        BY <1>1, <2>2
    <2> HIDE DEF first
    <2>5. SubSeq(first, 1, m) = items
        <3> DEFINE again == SubSeq(first, 1, m)
        <3>1. /\ again \in Seq(K) /\ Len(again) = m
              /\ \A i \in 1 .. m : again[i] = first[i]
            BY <1>2, <2>2, <2>3, <2>4
        <3> HIDE DEF again
        <3>2. \A i \in 1 .. m : i \in 1 .. m1
            BY <1>2, <2>2
        <3>3. \A i \in 1 .. m : again[i] = items[i]
            BY <1>3, <2>3, <3>1, <3>2
        <3>4. again = items
            BY <1>2, <1>3, <3>1, <3>3
        <3> QED
            BY <3>4 DEF again
    <2>6. Trim(first, count)
            = [items |-> SubSeq(first, 1, AtMost(count, Len(first))),
               more |-> Len(first) > count]
        BY DEF Trim
    <2>7. (Len(first) > count) = (Len(s) > count)
        BY <2>2, <2>3
    <2>8. SubSeq(first, 1, AtMost(count, Len(first))) = items
        BY <2>2, <2>3, <2>5
    <2>9. Trim(first, count) = p
        BY <1>4, <2>6, <2>7, <2>8
    <2> QED
        BY <2>1, <2>9
<1> QED
    BY <1>11, <1>12 DEF s, p

------------------------------------------------------------------------------
(***************************************************************************)
(* The inductive invariant.                                                *)
(***************************************************************************)

AllKeys == {Key(n, i) : n \in 0 .. MaxBlock, i \in 0 .. Stride - 1}
HeadKeys == {Key(n, 0) : n \in 0 .. MaxBlock}

Asking == pc \in {"ask", "head", "pending", "db"}
Assembling == pc \in {"head", "pending", "db"}
Ahead(k) == cursor = None \/ k < cursor

\* The world.
WorldTypes ==
    /\ chain \in Chains
    /\ top \in 0 .. MaxBlock /\ final \in 0 .. top
    /\ hint \in 0 .. top \cup {None}
    /\ stored \subseteq 0 .. final

\* The client.
ClientTypes ==
    /\ walk \in Lists \cup {NoWalk} /\ (Asking => walk \in Lists)
    /\ pc \in {"idle", "ask", "head", "pending", "db", "done"}
    /\ cursor \in AllKeys \cup {None}
    /\ got \in Seq(AllKeys) /\ Descends(got)
    /\ head \in 0 .. final /\ tipRead \in 0 .. top
    /\ slice \in Seq(HeadKeys) /\ Descends(slice) /\ Len(slice) <= Count
    /\ available \in SUBSET AllKeys
    /\ missing \subseteq 0 .. MaxBlock

\* While a walk goes on its cursor is the last row shown.
CursorIsLast ==
    /\ pc = "idle" => got = << >> /\ cursor = None
    /\ Asking => IF cursor = None THEN got = << >>
                 ELSE got # << >> /\ cursor = Last(got)

\* The cursors of the block list name blocks that others lie below.
BlockCursors ==
    /\ Assembling => List = "blocks" /\ Provider = "indexed"
    /\ Asking /\ List = "blocks" =>
        /\ available \subseteq HeadKeys
        /\ cursor # None => cursor \in HeadKeys /\ BlockOf(cursor) >= 1

\* The slice lies between the indexed head it was cut at and the cursor.
SliceIsPending ==
    /\ pc \in {"pending", "db"} => head <= IndexedHead
    /\ pc = "pending" => WantsPending(head)
    /\ pc = "db" =>
        /\ \A i \in 1 .. Len(slice) : BlockOf(slice[i]) > head /\ Ahead(slice[i])
        /\ slice # << >> => PendingUpper > head

WalkInv ==
    /\ WorldTypes /\ ClientTypes
    /\ CursorIsLast /\ BlockCursors /\ SliceIsPending

\* The walks whose rows are accounted for.
Accounted == walk # <<"blocks", "indexed", "busy">>

\* Nothing above the last row shown was left out.
ShownSoFar ==
    Asking /\ Accounted =>
        \A k \in available :
            got # << >> /\ k > Last(got) /\ BlockOf(k) \notin missing => k \in Range(got)

\* While a block page is assembled: what it may show is not above the chain
\* head read first, unless the database has it, ...
TipCovers ==
    pc \in {"head", "pending"} =>
        /\ hint = None \/ hint >= tipRead
        /\ \A k \in available : Ahead(k) =>
            \/ BlockOf(k) <= tipRead
            \/ BlockOf(k) <= IF pc = "head" THEN IndexedHead ELSE head

\* ... and what lies above the indexed head is in the slice, or below a full one.
SliceCovers ==
    pc = "db" /\ Filter # "busy" =>
        \A k \in available :
            /\ Ahead(k) /\ BlockOf(k) > head /\ BlockOf(k) \notin missing
            /\ Len(slice) < Count \/ k > Last(slice)
            => k \in Range(slice)

SkipInv == NothingSkipped /\ EndMeansAll /\ ShownSoFar /\ TipCovers /\ SliceCovers


------------------------------------------------------------------------------
(***************************************************************************)
(* Keys: rows in the order of their cursors.                               *)
(***************************************************************************)

\* A quotient is determined by its bounds.
LEMMA Quotient ==
    ASSUME NEW n \in Nat, NEW size \in Nat, size >= 1, NEW i \in 0 .. size - 1
    PROVE  n * size + i \in Nat /\ (n * size + i) \div size = n
<1> DEFINE k == n * size + i
           q == k \div size
           d == n - q
<1>1. k \in Nat /\ n * size \in Nat
    OBVIOUS
<1>2. k = size * q + (k % size) /\ q \in Int /\ k % size \in 0 .. size - 1
    BY <1>1
<1>3. size * d = (k % size) - i /\ d \in Int
    BY <1>2
<1>4. d >= 1 => size * d >= size
    BY <1>3
<1>5. d <= -1 => size * d <= -size
    BY <1>3
<1> HIDE DEF d
<1>6. d = 0
    BY <1>2, <1>3, <1>4, <1>5
<1> QED
    BY <1>1, <1>2, <1>6 DEF d

\* A key is a number from which its block can be read.
LEMMA KeyIsNumber ==
    \A n \in 0 .. MaxBlock, i \in 0 .. Stride - 1 :
        Key(n, i) \in AllKeys /\ Key(n, i) \in Nat /\ BlockOf(Key(n, i)) = n
<1> SUFFICES ASSUME NEW n \in 0 .. MaxBlock, NEW i \in 0 .. Stride - 1
             PROVE  Key(n, i) \in AllKeys /\ Key(n, i) \in Nat /\ BlockOf(Key(n, i)) = n
    OBVIOUS
<1>1. n \in Nat /\ Stride \in Nat /\ Stride >= 1
    BY Numbers
<1> QED
    BY <1>1, Quotient DEF Key, BlockOf, AllKeys

\* The keys are finitely many numbers, ordered by their blocks first.
LEMMA KeysOrder ==
    /\ \A k \in AllKeys : k \in Nat /\ k # None /\ BlockOf(k) \in 0 .. MaxBlock
    /\ \A k, l \in AllKeys : BlockOf(k) < BlockOf(l) => k < l
    /\ IsFiniteSet(AllKeys) /\ AllKeys \in SUBSET Nat
<1>0. /\ MaxBlock \in Nat /\ Stride \in Nat /\ Stride >= 1
      /\ MaxBlock * Stride \in Nat
    BY Numbers
<1>1. ASSUME NEW k \in AllKeys
      PROVE  /\ k \in Nat /\ k # None /\ BlockOf(k) \in 0 .. MaxBlock
             /\ \E i \in 0 .. Stride - 1 : k = BlockOf(k) * Stride + i
    <2>1. PICK n \in 0 .. MaxBlock, i \in 0 .. Stride - 1 : k = Key(n, i)
        BY DEF AllKeys
    <2>2. k \in Nat /\ BlockOf(k) = n
        BY <2>1, KeyIsNumber
    <2> QED
        BY <2>1, <2>2 DEF Key, None
<1>2. ASSUME NEW k \in AllKeys, NEW l \in AllKeys, BlockOf(k) < BlockOf(l)
      PROVE  k < l
    <2> DEFINE d == BlockOf(l) - BlockOf(k)
    <2>1. PICK i \in 0 .. Stride - 1 : k = BlockOf(k) * Stride + i
        BY <1>1
    <2>2. PICK j \in 0 .. Stride - 1 : l = BlockOf(l) * Stride + j
        BY <1>1
    <2>3. BlockOf(k) \in Nat /\ BlockOf(l) \in Nat /\ d \in Nat /\ d >= 1
        BY <1>1, <1>2
    <2> HIDE DEF BlockOf
    <2>4. l - k = Stride * d + j - i
        BY <1>0, <2>1, <2>2, <2>3
    <2>5. Stride * d >= Stride
        BY <1>0, <2>3
    <2>6. k \in Nat /\ l \in Nat
        BY <1>1
    <2> HIDE DEF d
    <2>7. Stride * d \in Nat
        BY <1>0, <2>3
    <2> QED
        BY <1>0, <2>4, <2>5, <2>6, <2>7
<1>3. \A k \in AllKeys : k <= MaxBlock * Stride + Stride
    <2> SUFFICES ASSUME NEW k \in AllKeys
                 PROVE  k <= MaxBlock * Stride + Stride
        OBVIOUS
    <2>1. PICK i \in 0 .. Stride - 1 : k = BlockOf(k) * Stride + i
        BY <1>1
    <2>2. BlockOf(k) \in 0 .. MaxBlock /\ k \in Nat
        BY <1>1
    <2> HIDE DEF BlockOf
    <2>3. BlockOf(k) * Stride <= MaxBlock * Stride
        BY <1>0, <2>2
    <2>4. BlockOf(k) * Stride \in Nat
        BY <1>0, <2>2
    <2> QED
        BY <1>0, <2>1, <2>2, <2>3, <2>4
<1>4. AllKeys \in SUBSET Nat
    BY <1>1
<1>5. MaxBlock * Stride + Stride \in Nat
    BY <1>0
<1>6. IsFiniteSet(AllKeys)
    BY <1>3, <1>4, <1>5, FS_BoundedSetOfNaturals
<1> QED
    BY <1>1, <1>2, <1>4, <1>6

\* The row a block is in the block list.
LEMMA HeadKeysOrder ==
    /\ \A n \in 0 .. MaxBlock : Key(n, 0) \in HeadKeys /\ BlockOf(Key(n, 0)) = n
    /\ \A k \in HeadKeys : k \in AllKeys /\ k = Key(BlockOf(k), 0) /\ BlockOf(k) \in Nat
    /\ \A k, l \in HeadKeys : k < l => BlockOf(k) < BlockOf(l)
<1>0. Stride \in Nat /\ 0 \in 0 .. Stride - 1
    BY Numbers
<1>1. \A n \in 0 .. MaxBlock : Key(n, 0) \in HeadKeys /\ BlockOf(Key(n, 0)) = n
    BY <1>0, KeyIsNumber DEF HeadKeys
<1>2. \A k \in HeadKeys : k \in AllKeys /\ k = Key(BlockOf(k), 0) /\ BlockOf(k) \in Nat
    <2>1. \A k \in HeadKeys : k \in AllKeys /\ k = Key(BlockOf(k), 0)
        BY <1>0, <1>1, KeyIsNumber DEF HeadKeys
    <2>2. \A k \in AllKeys : BlockOf(k) \in 0 .. MaxBlock
        BY KeysOrder
    <2>3. \A n \in 0 .. MaxBlock : n \in Nat
        OBVIOUS
    <2> QED
        BY <2>1, <2>2, <2>3
<1>3. ASSUME NEW k \in HeadKeys, NEW l \in HeadKeys, k < l
      PROVE  BlockOf(k) < BlockOf(l)
    <2>1. k \in AllKeys /\ l \in AllKeys /\ k = Key(BlockOf(k), 0) /\ l = Key(BlockOf(l), 0)
        BY <1>2
    <2>2. /\ BlockOf(k) \in Nat /\ BlockOf(l) \in Nat /\ k \in Nat /\ l \in Nat
          /\ BlockOf(l) < BlockOf(k) => l < k
        BY <2>1, KeysOrder
    <2>3. BlockOf(k) # BlockOf(l)
        BY <1>3, <2>1, <2>2
    <2> QED
        BY <1>3, <2>2, <2>3
<1> QED
    BY <1>1, <1>2, <1>3

------------------------------------------------------------------------------
(***************************************************************************)
(* Rows of a block.                                                        *)
(***************************************************************************)

\* A movement names its event and an account that event touches.
LEMMA MovementsName ==
    ASSUME NEW e, NEW j
    PROVE  \A m \in KeepFirst(MovementsOf(e, j)) :
               m.event = j /\ m.account \in TouchedBy(e)
<1> SUFFICES ASSUME NEW m \in KeepFirst(MovementsOf(e, j))
             PROVE  m.event = j /\ m.account \in TouchedBy(e)
    OBVIOUS
<1> DEFINE rows == MovementsOf(e, j)
<1>1. PICK k \in DOMAIN rows : m = rows[k]
    BY DEF KeepFirst
<1>2. CASE e.name \in TwoSided
    <2>1. rows = << Movement(j, e.who, e.name, -e.amount, e.to),
                    Movement(j, e.to, e.name, e.amount, e.who) >>
        BY <1>2 DEF MovementsOf
    <2>2. k = 1 \/ k = 2
        BY <1>1, <2>1
    <2>3. m.event = j /\ m.account \in {e.who, e.to}
        BY <1>1, <2>1, <2>2 DEF Movement
    <2> QED
        BY <1>2, <2>3 DEF TouchedBy
<1>3. CASE e.name \notin TwoSided /\ e.name \in Gains
    <2>1. rows = << Movement(j, e.who, e.name, e.amount, NoSigner) >>
        BY <1>3 DEF MovementsOf
    <2>2. m.event = j /\ m.account = e.who
        BY <1>1, <2>1 DEF Movement
    <2> QED
        BY <1>3, <2>2 DEF TouchedBy
<1>4. CASE e.name \notin TwoSided /\ e.name \notin Gains /\ e.name \in Losses
    <2>1. rows = << Movement(j, e.who, e.name, -e.amount, NoSigner) >>
        BY <1>4 DEF MovementsOf
    <2>2. m.event = j /\ m.account = e.who
        BY <1>1, <2>1 DEF Movement
    <2> QED
        BY <1>4, <2>2 DEF TouchedBy
<1>5. CASE e.name \notin TwoSided /\ e.name \notin Gains /\ e.name \notin Losses
    <2>1. rows = << >>
        BY <1>5 DEF MovementsOf
    <2> QED
        BY <1>1, <2>1
<1> QED
    BY <1>2, <1>3, <1>4, <1>5

\* The body of a block is bounded by the stride.
LEMMA BodyIsBounded ==
    ASSUME chain \in Chains, NEW n \in 0 .. MaxBlock
    PROVE  /\ Indices(chain[n].xts) \subseteq 0 .. Stride - 1
           /\ Indices(chain[n].evs) \subseteq 0 .. Stride - 1
           /\ DOMAIN chain[n].evs = 1 .. Len(chain[n].evs)
           /\ Len(chain[n].evs) \in Nat
<1>1. \A s \in {chain[n].xts, chain[n].evs} :
          Len(s) \in 0 .. Stride /\ DOMAIN s = 1 .. Len(s)
    BY ListingsAssumption
<1>2. /\ Len(chain[n].xts) \in 0 .. Stride /\ Len(chain[n].evs) \in 0 .. Stride
      /\ DOMAIN chain[n].evs = 1 .. Len(chain[n].evs)
    BY <1>1
<1>3. Stride \in Nat
    BY Numbers
<1> QED
    BY <1>2, <1>3 DEF Indices

\* Every row a list shows is one of the block's.
LEMMA RowsAreBounded ==
    ASSUME chain \in Chains, NEW n \in 0 .. MaxBlock, NEW f
    PROVE  /\ ScannedExtrinsics(n, f) \subseteq 0 .. Stride - 1
           /\ StoredExtrinsics(n, f) \subseteq 0 .. Stride - 1
           /\ ScannedTransfers(n, f) \subseteq 0 .. Stride - 1
           /\ StoredTransfers(n, f) \subseteq 0 .. Stride - 1
           /\ ScannedEvents(n, f) \subseteq 0 .. Stride - 1
<1> DEFINE body == chain[n]
<1>1. /\ Indices(body.xts) \subseteq 0 .. Stride - 1
      /\ Indices(body.evs) \subseteq 0 .. Stride - 1
    BY BodyIsBounded
<1>2. ScannedExtrinsics(n, f) \subseteq Indices(body.xts)
    BY DEF ScannedExtrinsics
<1>3. StoredExtrinsics(n, f) \subseteq Indices(body.xts)
    BY DEF StoredExtrinsics
<1>4. ScannedTransfers(n, f) \subseteq Indices(body.evs)
    <2>1. \A t \in MapTransfers(body) : t.event \in Indices(body.evs)
        BY DEF MapTransfers
    <2> QED
        BY <2>1 DEF ScannedTransfers
<1>5. StoredTransfers(n, f) \subseteq Indices(body.evs)
    <2>1. \A m \in ProjectMovements(body) : m.event \in Indices(body.evs)
        BY MovementsName DEF ProjectMovements
    <2>2. ASSUME NEW t \in ReadTransfers(body)
          PROVE  t.event \in Indices(body.evs)
        <3>1. PICK m \in ProjectMovements(body) :
                t = RowToTransfer(body, m, (CHOOSE r \in ProjectEvents(body) :
                                              r.idx = m.event).phase.idx)
            BY DEF ReadTransfers
        <3>2. t.event = m.event
            BY <3>1 DEF RowToTransfer
        <3> QED
            BY <2>1, <3>2
    <2> QED
        BY <2>2 DEF StoredTransfers
<1>6. ScannedEvents(n, f) \subseteq Indices(body.evs)
    <2>1. \A e \in MapBlockEvents(body) : e.index \in Indices(body.evs)
        BY DEF MapBlockEvents
    <2> QED
        BY <2>1 DEF ScannedEvents
<1> QED
    BY <1>1, <1>2, <1>3, <1>4, <1>5, <1>6

\* What could be served, list by list.
LEMMA ServableMembers ==
    ASSUME NEW f
    PROVE  /\ \A k : k \in Servable("blocks", "rpc", f) <=>
                  \E n \in 0 .. BestHead : BlockMatches(n, n <= final, f) /\ k = Key(n, 0)
           /\ \A k : k \in Servable("blocks", "indexed", f) <=>
                  \E n \in StoredBlocks(MaxBlock, f) \cup PendingZone(f) : k = Key(n, 0)
           /\ \A k : k \in Servable("extrinsics", "rpc", f) <=>
                  \E n \in 0 .. BestHead : \E i \in ScannedExtrinsics(n, f) : k = Key(n, i)
           /\ \A k : k \in Servable("extrinsics", "indexed", f) <=>
                  \E n \in stored : \E i \in StoredExtrinsics(n, f) : k = Key(n, i)
           /\ \A k : k \in Servable("transfers", "rpc", f) <=>
                  \E n \in 0 .. final : \E i \in ScannedTransfers(n, f) : k = Key(n, i)
           /\ \A k : k \in Servable("transfers", "indexed", f) <=>
                  \E n \in stored : \E i \in StoredTransfers(n, f) : k = Key(n, i)
           /\ \A list, provider :
                  \/ list \notin {"blocks", "extrinsics", "transfers"}
                  \/ provider \notin {"rpc", "indexed"}
                  => \A k : k \in Servable(list, provider, f) <=>
                        \E n \in 0 .. BestHead : \E i \in ScannedEvents(n, f) : k = Key(n, i)
<1>1. \A k : k \in Servable("blocks", "rpc", f) <=>
          \E n \in 0 .. BestHead : BlockMatches(n, n <= final, f) /\ k = Key(n, 0)
    <2>1. Servable("blocks", "rpc", f)
            = UNION {Keys(n, {0}) : n \in {m \in 0 .. BestHead : BlockMatches(m, m <= final, f)}}
        BY DEF Servable
    <2> QED
        BY <2>1 DEF Keys
<1>2. \A k : k \in Servable("blocks", "indexed", f) <=>
          \E n \in StoredBlocks(MaxBlock, f) \cup PendingZone(f) : k = Key(n, 0)
    <2>1. Servable("blocks", "indexed", f)
            = UNION {Keys(n, {0}) : n \in StoredBlocks(MaxBlock, f) \cup PendingZone(f)}
        BY DEF Servable
    <2> QED
        BY <2>1 DEF Keys
<1>3. \A k : k \in Servable("extrinsics", "rpc", f) <=>
          \E n \in 0 .. BestHead : \E i \in ScannedExtrinsics(n, f) : k = Key(n, i)
    <2>1. Servable("extrinsics", "rpc", f)
            = UNION {Keys(n, ScannedExtrinsics(n, f)) : n \in 0 .. BestHead}
        BY DEF Servable
    <2> QED
        BY <2>1 DEF Keys
<1>4. \A k : k \in Servable("extrinsics", "indexed", f) <=>
          \E n \in stored : \E i \in StoredExtrinsics(n, f) : k = Key(n, i)
    <2>1. Servable("extrinsics", "indexed", f)
            = UNION {Keys(n, StoredExtrinsics(n, f)) : n \in stored}
        BY DEF Servable
    <2> QED
        BY <2>1 DEF Keys
<1>5. \A k : k \in Servable("transfers", "rpc", f) <=>
          \E n \in 0 .. final : \E i \in ScannedTransfers(n, f) : k = Key(n, i)
    <2>1. Servable("transfers", "rpc", f)
            = UNION {Keys(n, ScannedTransfers(n, f)) : n \in 0 .. final}
        BY DEF Servable
    <2> QED
        BY <2>1 DEF Keys
<1>6. \A k : k \in Servable("transfers", "indexed", f) <=>
          \E n \in stored : \E i \in StoredTransfers(n, f) : k = Key(n, i)
    <2>1. Servable("transfers", "indexed", f)
            = UNION {Keys(n, StoredTransfers(n, f)) : n \in stored}
        BY DEF Servable
    <2> QED
        BY <2>1 DEF Keys
<1>7. ASSUME NEW list, NEW provider,
             \/ list \notin {"blocks", "extrinsics", "transfers"}
             \/ provider \notin {"rpc", "indexed"}
      PROVE  \A k : k \in Servable(list, provider, f) <=>
                 \E n \in 0 .. BestHead : \E i \in ScannedEvents(n, f) : k = Key(n, i)
    <2>1. Servable(list, provider, f)
            = UNION {Keys(n, ScannedEvents(n, f)) : n \in 0 .. BestHead}
        BY <1>7 DEF Servable
    <2> QED
        BY <2>1 DEF Keys
<1> QED
    BY <1>1, <1>2, <1>3, <1>4, <1>5, <1>6, <1>7

------------------------------------------------------------------------------
(***************************************************************************)
(* The world.                                                              *)
(***************************************************************************)

\* The maximum of a bounded set of numbers.
LEMMA MaxIsGreatest ==
    ASSUME NEW S \in SUBSET Nat, S # {}, NEW n \in Nat, \A y \in S : y <= n
    PROVE  Max(S) \in S /\ \A y \in S : y <= Max(S)
<1>1. PICK x \in S : \A y \in S : y <= x
    BY GreatestElement
<1>2. x \in S /\ \A y \in S : x >= y
    BY <1>1
<1>3. Max(S) \in S /\ \A y \in S : Max(S) >= y
    BY <1>2 DEF Max
<1> QED
    BY <1>3

\* The numbers the providers read.
LEMMA WorldNumbers ==
    ASSUME WorldTypes
    PROVE  /\ top \in Nat /\ final \in Nat /\ final <= top /\ top <= MaxBlock
           /\ MaxBlock \in Nat /\ BestHead \in 0 .. top
           /\ IndexedHead \in 0 .. final
           /\ \A n \in stored : n \in Nat /\ n <= final /\ n <= IndexedHead
           /\ stored # {} => IndexedHead \in stored
<1>1. /\ top \in Nat /\ final \in Nat /\ final <= top /\ top <= MaxBlock
      /\ MaxBlock \in Nat /\ stored \subseteq 0 .. final
    BY Numbers DEF WorldTypes
<1>2. BestHead \in 0 .. top
    BY <1>1 DEF WorldTypes, BestHead
<1>3. \A n \in stored : n \in Nat /\ n <= final
    BY <1>1
<1>4. CASE stored = {}
    BY <1>1, <1>2, <1>4 DEF IndexedHead
<1>5. CASE stored # {}
    <2>1. stored \in SUBSET Nat
        BY <1>3
    <2>2. IndexedHead \in stored /\ \A n \in stored : n <= IndexedHead
        BY <1>1, <1>3, <1>5, <2>1, MaxIsGreatest DEF IndexedHead
    <2> QED
        BY <1>1, <1>2, <1>3, <2>2
<1> QED
    BY <1>4, <1>5

\* A pair of list and provider decides between the queries.
LEMMA ListsAreKnown ==
    \A w \in Lists : /\ w[1] \in {"blocks", "extrinsics", "transfers", "events"}
                     /\ w[2] \in {"rpc", "indexed"}
                     /\ w # NoWalk
<1>1. \A w \in Lists : w \in {"blocks", "extrinsics", "transfers", "events"}
                               \X {"rpc", "indexed"} \X STRING
    BY ListingsAssumption
<1> QED
    BY <1>1 DEF NoWalk

\* What could be served are keys, and blocks for the block list.
LEMMA ServableIsBounded ==
    ASSUME WorldTypes, NEW list, NEW provider \in {"rpc", "indexed"}, NEW f
    PROVE  /\ \A k \in Servable(list, provider, f) : k \in AllKeys
           /\ list = "blocks" => \A k \in Servable(list, provider, f) : k \in HeadKeys
<1>1. /\ \A n \in 0 .. BestHead : n \in 0 .. MaxBlock
      /\ \A n \in 0 .. final : n \in 0 .. MaxBlock
      /\ \A n \in stored : n \in 0 .. MaxBlock
    BY WorldNumbers
<1>2. \A n \in StoredBlocks(MaxBlock, f) \cup PendingZone(f) : n \in 0 .. MaxBlock
    <2>1. \A n \in StoredBlocks(MaxBlock, f) : n \in stored
        BY DEF StoredBlocks
    <2>2. \A n \in PendingZone(f) : n \in 0 .. BestHead
        BY WorldNumbers DEF PendingZone
    <2> QED
        BY <1>1, <2>1, <2>2
<1>3. chain \in Chains
    BY DEF WorldTypes
<1>4. \A n \in 0 .. MaxBlock :
        /\ \A i \in ScannedExtrinsics(n, f) \cup StoredExtrinsics(n, f)
                 \cup ScannedTransfers(n, f) \cup StoredTransfers(n, f)
                 \cup ScannedEvents(n, f) : Key(n, i) \in AllKeys
        /\ Key(n, 0) \in HeadKeys
    BY <1>3, RowsAreBounded, KeyIsNumber, HeadKeysOrder
<1>5. \A k \in HeadKeys : k \in AllKeys
    BY HeadKeysOrder
<1>6. CASE list = "blocks" /\ provider = "rpc"
    <2>1. \A k \in Servable("blocks", "rpc", f) : \E n \in 0 .. BestHead : k = Key(n, 0)
        BY ServableMembers
    <2> QED
        BY <1>1, <1>4, <1>5, <1>6, <2>1
<1>7. CASE list = "blocks" /\ provider = "indexed"
    <2>1. \A k \in Servable("blocks", "indexed", f) :
            \E n \in StoredBlocks(MaxBlock, f) \cup PendingZone(f) : k = Key(n, 0)
        BY ServableMembers
    <2> QED
        BY <1>2, <1>4, <1>5, <1>7, <2>1
<1>8. CASE list = "extrinsics"
    <2>1. /\ \A k \in Servable("extrinsics", "rpc", f) :
               \E n \in 0 .. BestHead : \E i \in ScannedExtrinsics(n, f) : k = Key(n, i)
          /\ \A k \in Servable("extrinsics", "indexed", f) :
               \E n \in stored : \E i \in StoredExtrinsics(n, f) : k = Key(n, i)
        BY ServableMembers
    <2>2. \A k \in Servable("extrinsics", "rpc", f) : k \in AllKeys
        BY <1>1, <1>4, <2>1
    <2>3. \A k \in Servable("extrinsics", "indexed", f) : k \in AllKeys
        BY <1>1, <1>4, <2>1
    <2> QED
        BY <1>8, <2>2, <2>3
<1>9. CASE list = "transfers"
    <2>1. /\ \A k \in Servable("transfers", "rpc", f) :
               \E n \in 0 .. final : \E i \in ScannedTransfers(n, f) : k = Key(n, i)
          /\ \A k \in Servable("transfers", "indexed", f) :
               \E n \in stored : \E i \in StoredTransfers(n, f) : k = Key(n, i)
        BY ServableMembers
    <2>2. \A k \in Servable("transfers", "rpc", f) : k \in AllKeys
        BY <1>1, <1>4, <2>1
    <2>3. \A k \in Servable("transfers", "indexed", f) : k \in AllKeys
        BY <1>1, <1>4, <2>1
    <2> QED
        BY <1>9, <2>2, <2>3
<1>10. CASE list \notin {"blocks", "extrinsics", "transfers"}
    <2>1. \A k \in Servable(list, provider, f) :
            \E n \in 0 .. BestHead : \E i \in ScannedEvents(n, f) : k = Key(n, i)
        BY <1>10, ServableMembers
    <2> QED
        BY <1>1, <1>4, <1>10, <2>1
<1> QED
    BY <1>6, <1>7, <1>8, <1>9, <1>10

\* The walk that is on, and the rows it may expect.
LEMMA StillBounded ==
    ASSUME WorldTypes, walk \in Lists, available \in SUBSET AllKeys,
           List = "blocks" => available \subseteq HeadKeys
    PROVE  /\ StillAvailable \in SUBSET AllKeys
           /\ List = "blocks" => StillAvailable \subseteq HeadKeys
BY DEF StillAvailable

------------------------------------------------------------------------------
(***************************************************************************)
(* Pages that are one answer of a provider.                                *)
(***************************************************************************)

\* p is a page of the walk's list, up to the blocks in gone: its rows are below the
\* cursor and none above its last row is left out; without another page and with
\* every block found it ends a list that is read to its end.
Answers(p, gone) ==
    \E K \in SUBSET AllKeys :
        /\ IsPage(p, K, Count)
        /\ \A k \in K : Ahead(k)
        /\ List = "blocks" => K \subseteq HeadKeys
        /\ \A k \in Servable(List, Provider, Filter), l \in K :
               Ahead(k) /\ k > l /\ BlockOf(k) \notin gone => k \in K
        /\ ReadsToTheEnd /\ ~p.more /\ gone = {} =>
               \A k \in Servable(List, Provider, Filter) : Ahead(k) => k \in K

\* The state a page is asked for in.
Askable == WorldTypes /\ walk \in Lists /\ cursor \in AllKeys \cup {None}

\* A page over some keys.
LEMMA PageOfKeys ==
    ASSUME NEW K \in SUBSET AllKeys
    PROVE  IsPage(Trim(NewestFirst(K), Count), K, Count)
<1>1. IsFiniteSet(K) /\ K \in SUBSET Nat
    BY KeysOrder, FS_Subset
<1> QED
    BY <1>1, Numbers, TrimIsPage

\* A scan answers for the blocks it reaches: the uppermost of those that count.
LEMMA ScanAnswers ==
    ASSUME Askable, List # "blocks",
           NEW W, NEW all \in SUBSET (0 .. MaxBlock), W \subseteq all,
           NEW rows \in [0 .. MaxBlock -> SUBSET (0 .. Stride - 1)],
           \A k : k \in Servable(List, Provider, Filter) <=>
                      \E n \in all : \E i \in rows[n] : k = Key(n, i),
           NEW K,
           \A k : k \in K <=> Ahead(k) /\ \E n \in W : \E i \in rows[n] : k = Key(n, i),
           \A n \in W, k \in AllKeys :
               Ahead(k) /\ BlockOf(k) \in all /\ n <= BlockOf(k) => BlockOf(k) \in W,
           NEW gone, ReadsToTheEnd => W = all
    PROVE  Answers(Trim(NewestFirst(K), Count), gone)
<1>1. \A n \in all : \A i \in rows[n] :
          /\ n \in Nat /\ Key(n, i) \in AllKeys /\ BlockOf(Key(n, i)) = n
    BY KeyIsNumber
<1>2. K \in SUBSET AllKeys
    BY <1>1
<1>3. IsPage(Trim(NewestFirst(K), Count), K, Count)
    BY <1>2, PageOfKeys
<1>4. ASSUME NEW k \in Servable(List, Provider, Filter), NEW l \in K, Ahead(k), k > l
      PROVE  k \in K
    <2>1. PICK m \in all : \E i \in rows[m] : k = Key(m, i)
        OBVIOUS
    <2>2. PICK n \in W : \E i \in rows[n] : l = Key(n, i)
        OBVIOUS
    <2>3. /\ k \in AllKeys /\ l \in AllKeys /\ BlockOf(k) = m /\ BlockOf(l) = n
          /\ m \in Nat /\ n \in Nat
        BY <1>1, <2>1, <2>2
    <2>4. ~(m < n)
        <3>1. m < n => k < l
            BY <2>3, KeysOrder
        <3>2. k \in Nat /\ l \in Nat
            BY <2>3, KeysOrder
        <3> QED
            BY <1>4, <3>1, <3>2
    <2>5. m \in W
        BY <1>4, <2>1, <2>2, <2>3, <2>4
    <2> QED
        BY <1>4, <2>1, <2>5
<1>5. ReadsToTheEnd =>
          \A k \in Servable(List, Provider, Filter) : Ahead(k) => k \in K
    OBVIOUS
<1> HIDE DEF Ahead, Askable
<1> QED
    BY <1>2, <1>3, <1>4, <1>5 DEF Answers

\* The window of a scan reaches from the cursor, or the tip, down to some block.
LEMMA WindowIsTop ==
    ASSUME Askable, NEW tip \in 0 .. MaxBlock, NEW depth \in Nat, depth >= 1,
           NEW gone \in Gone
    PROVE  /\ ScanWindow(tip, depth, gone) \subseteq 0 .. tip
           /\ \A n \in ScanWindow(tip, depth, gone), k \in AllKeys :
                  Ahead(k) /\ BlockOf(k) \in 0 .. tip /\ n <= BlockOf(k)
                  => BlockOf(k) \in ScanWindow(tip, depth, gone)
<1> DEFINE from == IF cursor = None THEN tip ELSE AtMost(BlockOf(cursor), tip)
           low == Below(from, depth - 1)
           window == low .. from
           lost == Newest(gone \cap window)
           W == ScanWindow(tip, depth, gone)
<1>0. MaxBlock \in Nat /\ tip \in Nat /\ top \in Nat
    BY Numbers, WorldNumbers DEF Askable
<1>c. cursor # None => cursor \in AllKeys /\ BlockOf(cursor) \in Nat /\ cursor \in Nat
    BY KeysOrder DEF Askable
<1>1. from \in 0 .. tip /\ low \in 0 .. from
    <2>1. from \in 0 .. tip
        BY <1>0, <1>c DEF AtMost
    <2> HIDE DEF from
    <2> QED
        BY <1>0, <2>1 DEF Below, AtLeast
<1>2. W = {n \in window : n > lost}
    BY DEF ScanWindow
<1>3. lost \in Nat \cup {None}
    <2>1. CASE gone \cap window = {}
        BY <2>1 DEF Newest
    <2>2. CASE gone \cap window # {}
        <3>1. PICK g \in 0 .. top : gone = {g}
            BY <2>2 DEF Gone
        <3>2. gone \cap window = {g}
            BY <2>2, <3>1
        <3>3. {g} \in SUBSET Nat /\ {g} # {} /\ g \in Nat /\ \A y \in {g} : y <= g
            BY <1>0
        <3>4. Max({g}) \in {g}
            BY <3>3, MaxIsGreatest
        <3> QED
            BY <3>1, <3>2, <3>3, <3>4 DEF Newest
    <2> QED
        BY <2>1, <2>2
<1>4. lost \in Int
    BY <1>3 DEF None
<1>5. ASSUME NEW k \in AllKeys, Ahead(k), BlockOf(k) <= tip
      PROVE  BlockOf(k) <= from
    <2>1. k \in Nat /\ BlockOf(k) \in Nat
        BY KeysOrder
    <2>2. CASE cursor = None
        BY <1>5, <2>2
    <2>3. CASE cursor # None
        <3>1. ~(BlockOf(cursor) < BlockOf(k))
            BY <1>c, <1>5, <2>1, <2>3, KeysOrder DEF Ahead
        <3> QED
            BY <1>0, <1>c, <1>5, <2>1, <2>3, <3>1 DEF AtMost
    <2> QED
        BY <2>2, <2>3
<1> HIDE DEF from, low, lost, W
<1>6. W \subseteq 0 .. tip
    BY <1>0, <1>1, <1>2
<1>7. ASSUME NEW n \in W, NEW k \in AllKeys,
             Ahead(k), BlockOf(k) \in 0 .. tip, n <= BlockOf(k)
      PROVE  BlockOf(k) \in W
    <2>1. BlockOf(k) <= from /\ BlockOf(k) \in Nat
        BY <1>5, <1>7, KeysOrder
    <2> QED
        BY <1>0, <1>1, <1>2, <1>4, <1>7, <2>1
<1> QED
    BY <1>6, <1>7 DEF W

\* The extrinsics, transfers and events of the node.
LEMMA RpcScansAnswer ==
    ASSUME Askable, Provider = "rpc", NEW gone \in Gone
    PROVE  /\ List = "extrinsics" => Answers(RpcExtrinsics(gone, Filter), gone)
           /\ List = "transfers" => Answers(RpcTransfers(gone, Filter), gone)
           /\ List = "events" => Answers(RpcEvents(gone, Filter), gone)
<1>1. /\ 2 * Count \in Nat /\ 2 * Count >= 1 /\ ScanDepth + 1 \in Nat /\ ScanDepth + 1 >= 1
    BY Numbers
<1>2. /\ BestHead \in 0 .. MaxBlock /\ final \in 0 .. MaxBlock
      /\ 0 .. BestHead \in SUBSET (0 .. MaxBlock) /\ 0 .. final \in SUBSET (0 .. MaxBlock)
    BY WorldNumbers DEF Askable
<1>3. \A n \in 0 .. MaxBlock :
        /\ ScannedExtrinsics(n, Filter) \subseteq 0 .. Stride - 1
        /\ ScannedTransfers(n, Filter) \subseteq 0 .. Stride - 1
        /\ ScannedEvents(n, Filter) \subseteq 0 .. Stride - 1
    BY RowsAreBounded DEF Askable, WorldTypes
<1>4. List # "blocks" => ~ReadsToTheEnd
    BY DEF ReadsToTheEnd
<1>5. ASSUME List = "extrinsics"
      PROVE  Answers(RpcExtrinsics(gone, Filter), gone)
    <2> DEFINE W == ScanWindow(BestHead, 2 * Count, gone)
               all == 0 .. BestHead
               rows == [n \in 0 .. MaxBlock |-> ScannedExtrinsics(n, Filter)]
               K == {k \in UNION {Keys(n, ScannedExtrinsics(n, Filter)) : n \in W} :
                       cursor = None \/ k < cursor}
    <2>1. /\ rows \in [0 .. MaxBlock -> SUBSET (0 .. Stride - 1)]
          /\ \A n \in 0 .. MaxBlock : rows[n] = ScannedExtrinsics(n, Filter)
        BY <1>3
    <2>2. /\ W \subseteq all
          /\ \A n \in W, k \in AllKeys :
                 Ahead(k) /\ BlockOf(k) \in all /\ n <= BlockOf(k) => BlockOf(k) \in W
        BY <1>1, <1>2, WindowIsTop
    <2>3. RpcExtrinsics(gone, Filter) = Trim(NewestFirst(K), Count)
        BY DEF RpcExtrinsics, Scan
    <2>4. \A k : k \in K <=>
            Ahead(k) /\ \E n \in W : \E i \in ScannedExtrinsics(n, Filter) : k = Key(n, i)
        BY DEF Keys, Ahead
    <2>5. \A k : k \in Servable(List, Provider, Filter) <=>
            \E n \in all : \E i \in ScannedExtrinsics(n, Filter) : k = Key(n, i)
        BY <1>5, ServableMembers
    <2> HIDE DEF W, K, rows
    <2>6. \A k : k \in K <=> Ahead(k) /\ \E n \in W : \E i \in rows[n] : k = Key(n, i)
        BY <1>2, <2>1, <2>2, <2>4
    <2>7. \A k : k \in Servable(List, Provider, Filter) <=>
            \E n \in all : \E i \in rows[n] : k = Key(n, i)
        BY <1>2, <2>1, <2>5
    <2>8. List # "blocks" /\ all \in SUBSET (0 .. MaxBlock) /\ (ReadsToTheEnd => W = all)
        BY <1>2, <1>4, <1>5
    <2> HIDE DEF all
    <2>9. Answers(Trim(NewestFirst(K), Count), gone)
        BY <2>1, <2>2, <2>6, <2>7, <2>8, ScanAnswers, ZenonT(40)
    <2> QED
        BY <2>3, <2>9
<1>6. ASSUME List = "transfers"
      PROVE  Answers(RpcTransfers(gone, Filter), gone)
    <2> DEFINE W == ScanWindow(final, ScanDepth + 1, gone)
               all == 0 .. final
               rows == [n \in 0 .. MaxBlock |-> ScannedTransfers(n, Filter)]
               K == {k \in UNION {Keys(n, ScannedTransfers(n, Filter)) : n \in W} :
                       cursor = None \/ k < cursor}
    <2>1. /\ rows \in [0 .. MaxBlock -> SUBSET (0 .. Stride - 1)]
          /\ \A n \in 0 .. MaxBlock : rows[n] = ScannedTransfers(n, Filter)
        BY <1>3
    <2>2. /\ W \subseteq all
          /\ \A n \in W, k \in AllKeys :
                 Ahead(k) /\ BlockOf(k) \in all /\ n <= BlockOf(k) => BlockOf(k) \in W
        BY <1>1, <1>2, WindowIsTop
    <2>3. RpcTransfers(gone, Filter) = Trim(NewestFirst(K), Count)
        BY DEF RpcTransfers, Scan
    <2>4. \A k : k \in K <=>
            Ahead(k) /\ \E n \in W : \E i \in ScannedTransfers(n, Filter) : k = Key(n, i)
        BY DEF Keys, Ahead
    <2>5. \A k : k \in Servable(List, Provider, Filter) <=>
            \E n \in all : \E i \in ScannedTransfers(n, Filter) : k = Key(n, i)
        BY <1>6, ServableMembers
    <2> HIDE DEF W, K, rows
    <2>6. \A k : k \in K <=> Ahead(k) /\ \E n \in W : \E i \in rows[n] : k = Key(n, i)
        BY <1>2, <2>1, <2>2, <2>4
    <2>7. \A k : k \in Servable(List, Provider, Filter) <=>
            \E n \in all : \E i \in rows[n] : k = Key(n, i)
        BY <1>2, <2>1, <2>5
    <2>8. List # "blocks" /\ all \in SUBSET (0 .. MaxBlock) /\ (ReadsToTheEnd => W = all)
        BY <1>2, <1>4, <1>6
    <2> HIDE DEF all
    <2>9. Answers(Trim(NewestFirst(K), Count), gone)
        BY <2>1, <2>2, <2>6, <2>7, <2>8, ScanAnswers, ZenonT(40)
    <2> QED
        BY <2>3, <2>9
<1>7. ASSUME List = "events"
      PROVE  Answers(RpcEvents(gone, Filter), gone)
    <2> DEFINE W == ScanWindow(BestHead, 2 * Count, gone)
               all == 0 .. BestHead
               rows == [n \in 0 .. MaxBlock |-> ScannedEvents(n, Filter)]
               K == {k \in UNION {Keys(n, ScannedEvents(n, Filter)) : n \in W} :
                       cursor = None \/ k < cursor}
    <2>1. /\ rows \in [0 .. MaxBlock -> SUBSET (0 .. Stride - 1)]
          /\ \A n \in 0 .. MaxBlock : rows[n] = ScannedEvents(n, Filter)
        BY <1>3
    <2>2. /\ W \subseteq all
          /\ \A n \in W, k \in AllKeys :
                 Ahead(k) /\ BlockOf(k) \in all /\ n <= BlockOf(k) => BlockOf(k) \in W
        BY <1>1, <1>2, WindowIsTop
    <2>3. RpcEvents(gone, Filter) = Trim(NewestFirst(K), Count)
        BY DEF RpcEvents, Scan
    <2>4. \A k : k \in K <=>
            Ahead(k) /\ \E n \in W : \E i \in ScannedEvents(n, Filter) : k = Key(n, i)
        BY DEF Keys, Ahead
    <2>5. \A k : k \in Servable(List, Provider, Filter) <=>
            \E n \in all : \E i \in ScannedEvents(n, Filter) : k = Key(n, i)
        BY <1>7, ServableMembers
    <2> HIDE DEF W, K, rows
    <2>6. \A k : k \in K <=> Ahead(k) /\ \E n \in W : \E i \in rows[n] : k = Key(n, i)
        BY <1>2, <2>1, <2>2, <2>4
    <2>7. \A k : k \in Servable(List, Provider, Filter) <=>
            \E n \in all : \E i \in rows[n] : k = Key(n, i)
        BY <1>2, <2>1, <2>5
    <2>8. List # "blocks" /\ all \in SUBSET (0 .. MaxBlock) /\ (ReadsToTheEnd => W = all)
        BY <1>2, <1>4, <1>7
    <2> HIDE DEF all
    <2>9. Answers(Trim(NewestFirst(K), Count), gone)
        BY <2>1, <2>2, <2>6, <2>7, <2>8, ScanAnswers, ZenonT(40)
    <2> QED
        BY <2>3, <2>9
<1> QED
    BY <1>5, <1>6, <1>7

\* The extrinsics and transfers of the database.
LEMMA QueriesAnswer ==
    ASSUME Askable, Provider = "indexed"
    PROVE  /\ List = "extrinsics" => Answers(QueryExtrinsics(Filter), {})
           /\ List = "transfers" => Answers(QueryTransfers(Filter), {})
<1>1. stored \in SUBSET (0 .. MaxBlock)
    BY WorldNumbers DEF Askable
<1>2. \A n \in 0 .. MaxBlock :
        /\ StoredExtrinsics(n, Filter) \subseteq 0 .. Stride - 1
        /\ StoredTransfers(n, Filter) \subseteq 0 .. Stride - 1
    BY RowsAreBounded DEF Askable, WorldTypes
<1>3. ASSUME List = "extrinsics"
      PROVE  Answers(QueryExtrinsics(Filter), {})
    <2> DEFINE rows == [n \in 0 .. MaxBlock |-> StoredExtrinsics(n, Filter)]
               K == {k \in UNION {Keys(n, StoredExtrinsics(n, Filter)) : n \in stored} :
                       cursor = None \/ k < cursor}
    <2>1. /\ rows \in [0 .. MaxBlock -> SUBSET (0 .. Stride - 1)]
          /\ \A n \in 0 .. MaxBlock : rows[n] = StoredExtrinsics(n, Filter)
        BY <1>2
    <2>2. QueryExtrinsics(Filter) = Trim(NewestFirst(K), Count)
        BY DEF QueryExtrinsics, Scan
    <2>3. \A k : k \in K <=>
            Ahead(k) /\ \E n \in stored : \E i \in StoredExtrinsics(n, Filter) : k = Key(n, i)
        BY DEF Keys, Ahead
    <2>4. \A k : k \in Servable(List, Provider, Filter) <=>
            \E n \in stored : \E i \in StoredExtrinsics(n, Filter) : k = Key(n, i)
        BY <1>3, ServableMembers
    <2> HIDE DEF K, rows
    <2>5. \A k : k \in K <=> Ahead(k) /\ \E n \in stored : \E i \in rows[n] : k = Key(n, i)
        BY <1>1, <2>1, <2>3
    <2>6. \A k : k \in Servable(List, Provider, Filter) <=>
            \E n \in stored : \E i \in rows[n] : k = Key(n, i)
        BY <1>1, <2>1, <2>4
    <2>7. Answers(Trim(NewestFirst(K), Count), {})
        BY <1>1, <1>3, <2>1, <2>5, <2>6, ScanAnswers
    <2> QED
        BY <2>2, <2>7
<1>4. ASSUME List = "transfers"
      PROVE  Answers(QueryTransfers(Filter), {})
    <2> DEFINE rows == [n \in 0 .. MaxBlock |-> StoredTransfers(n, Filter)]
               K == {k \in UNION {Keys(n, StoredTransfers(n, Filter)) : n \in stored} :
                       cursor = None \/ k < cursor}
    <2>1. /\ rows \in [0 .. MaxBlock -> SUBSET (0 .. Stride - 1)]
          /\ \A n \in 0 .. MaxBlock : rows[n] = StoredTransfers(n, Filter)
        BY <1>2
    <2>2. QueryTransfers(Filter) = Trim(NewestFirst(K), Count)
        BY DEF QueryTransfers, Scan
    <2>3. \A k : k \in K <=>
            Ahead(k) /\ \E n \in stored : \E i \in StoredTransfers(n, Filter) : k = Key(n, i)
        BY DEF Keys, Ahead
    <2>4. \A k : k \in Servable(List, Provider, Filter) <=>
            \E n \in stored : \E i \in StoredTransfers(n, Filter) : k = Key(n, i)
        BY <1>4, ServableMembers
    <2> HIDE DEF K, rows
    <2>5. \A k : k \in K <=> Ahead(k) /\ \E n \in stored : \E i \in rows[n] : k = Key(n, i)
        BY <1>1, <2>1, <2>3
    <2>6. \A k : k \in Servable(List, Provider, Filter) <=>
            \E n \in stored : \E i \in rows[n] : k = Key(n, i)
        BY <1>1, <2>1, <2>4
    <2>7. Answers(Trim(NewestFirst(K), Count), {})
        BY <1>1, <1>4, <2>1, <2>5, <2>6, ScanAnswers
    <2> QED
        BY <2>2, <2>7
<1> QED
    BY <1>3, <1>4

\* The cursor of a walk over the blocks.
AtBlock == cursor # None => cursor \in HeadKeys /\ BlockOf(cursor) >= 1

\* The blocks of a window of the node.
WindowKeys(gone, f) ==
    {Key(n, 0) : n \in {m \in BlockWindow \ gone : BlockMatches(m, m <= final, f)}}

\* The window: it holds the blocks below the cursor that the node has, down to block
\* 0 or to one more than a page.
LEMMA BlockWindowIsTop ==
    ASSUME Askable, AtBlock
    PROVE  \E a, t \in 0 .. BestHead :
               /\ BlockWindow = a .. t /\ a <= t /\ (a = 0 \/ a + Count = t)
               /\ cursor # None => t < BlockOf(cursor)
               /\ \A k \in HeadKeys : Ahead(k) /\ BlockOf(k) <= BestHead => BlockOf(k) <= t
<1> DEFINE t == IF cursor = None THEN BestHead ELSE AtMost(Below(BlockOf(cursor), 1), BestHead)
           a == Below(t, Count)
<1>1. /\ BestHead \in Nat /\ Count \in Nat
      /\ cursor # None => cursor \in HeadKeys /\ BlockOf(cursor) \in Nat
                          /\ BlockOf(cursor) >= 1 /\ cursor \in Nat
    BY Numbers, WorldNumbers, HeadKeysOrder, KeysOrder DEF Askable, AtBlock
<1>2. /\ t \in 0 .. BestHead
      /\ cursor = None => t = BestHead
      /\ cursor # None => t = AtMost(BlockOf(cursor) - 1, BestHead) /\ t < BlockOf(cursor)
    BY <1>1 DEF Below, AtLeast, AtMost
<1>3. BlockWindow = a .. t
    BY DEF BlockWindow
<1>4. ASSUME NEW k \in HeadKeys, Ahead(k), BlockOf(k) <= BestHead
      PROVE  BlockOf(k) <= t
    <2>0. k \in AllKeys
        BY HeadKeysOrder
    <2>1. BlockOf(k) \in Nat
        BY <2>0, KeysOrder
    <2>2. cursor # None => BlockOf(k) < BlockOf(cursor)
        BY <1>1, <1>4, HeadKeysOrder DEF Ahead
    <2> HIDE DEF t
    <2> QED
        BY <1>1, <1>2, <1>4, <2>1, <2>2 DEF AtMost
<1> HIDE DEF t
<1>5. a \in 0 .. BestHead /\ a <= t /\ (a = 0 \/ a + Count = t)
    BY <1>1, <1>2 DEF Below, AtLeast
<1> HIDE DEF a
<1> QED
    BY <1>2, <1>3, <1>4, <1>5

\* The page of blocks of the node.
LEMMA RpcBlocksIsPage ==
    ASSUME Askable, AtBlock, NEW gone, NEW f
    PROVE  /\ IsPage(RpcBlocks(gone, f), WindowKeys(gone, f), Count)
           /\ \A k : k \in WindowKeys(gone, f) <=>
                  /\ k \in HeadKeys /\ BlockOf(k) \in BlockWindow \ gone
                  /\ BlockMatches(BlockOf(k), BlockOf(k) <= final, f)
           /\ \A k \in WindowKeys(gone, f) :
                  k \in HeadKeys /\ Ahead(k) /\ BlockOf(k) \in 0 .. BestHead
<1> DEFINE K == WindowKeys(gone, f)
<1>1. PICK a, t \in 0 .. BestHead :
        BlockWindow = a .. t /\ (cursor # None => t < BlockOf(cursor))
    BY BlockWindowIsTop
<1>2. /\ BestHead \in Nat /\ BestHead <= MaxBlock /\ MaxBlock \in Nat
      /\ cursor # None => cursor \in HeadKeys /\ BlockOf(cursor) \in Nat
    BY WorldNumbers, HeadKeysOrder, KeysOrder DEF Askable, AtBlock
<1>3. \A n \in BlockWindow : n \in 0 .. MaxBlock /\ n <= t /\ n \in 0 .. BestHead
    BY <1>1, <1>2
<1>4. \A k : k \in K <=> \E n \in BlockWindow \ gone :
                             BlockMatches(n, n <= final, f) /\ k = Key(n, 0)
    BY DEF WindowKeys
<1> HIDE DEF K
<1>5. \A k : k \in K <=>
          /\ k \in HeadKeys /\ BlockOf(k) \in BlockWindow \ gone
          /\ BlockMatches(BlockOf(k), BlockOf(k) <= final, f)
    BY <1>3, <1>4, HeadKeysOrder
<1>6. ASSUME NEW k \in K
      PROVE  k \in HeadKeys /\ Ahead(k) /\ BlockOf(k) \in 0 .. BestHead
    <2>1. k \in HeadKeys /\ BlockOf(k) \in 0 .. BestHead /\ BlockOf(k) <= t /\ t \in Nat
        BY <1>1, <1>3, <1>5
    <2>2. cursor # None => BlockOf(k) < BlockOf(cursor)
        BY <1>1, <1>2, <2>1
    <2>3. cursor # None => k < cursor
        BY <1>2, <2>1, <2>2, KeysOrder, HeadKeysOrder
    <2> QED
        BY <2>1, <2>3 DEF Ahead
<1>7. K \in SUBSET AllKeys
    BY <1>6, HeadKeysOrder
<1>8. RpcBlocks(gone, f) = Trim(NewestFirst(K), Count)
    BY DEF RpcBlocks, WindowKeys, K
<1> QED
    BY <1>5, <1>6, <1>7, <1>8, PageOfKeys DEF K

\* Fewer blocks than a page and one end at block 0.
LEMMA ShortWindow ==
    ASSUME Askable, AtBlock, Cardinality(WindowKeys({}, "all")) <= Count,
           NEW a \in 0 .. BestHead, NEW t \in 0 .. BestHead, BlockWindow = a .. t
    PROVE  a + Count # t
<1> DEFINE K == WindowKeys({}, "all")
           f == [k \in K |-> BlockOf(k)]
<1>1. \A k : k \in K <=> k \in HeadKeys /\ BlockOf(k) \in a .. t
    <2>1. \A m, final0 : BlockMatches(m, final0, "all")
        BY DEF BlockMatches
    <2>2. \A k : k \in WindowKeys({}, "all") <=>
            /\ k \in HeadKeys /\ BlockOf(k) \in BlockWindow \ {}
            /\ BlockMatches(BlockOf(k), BlockOf(k) <= final, "all")
        BY RpcBlocksIsPage
    <2> QED
        BY <2>1, <2>2
<1>0. BestHead \in Nat /\ BestHead <= MaxBlock /\ Count \in Nat /\ MaxBlock \in Nat
    BY Numbers, WorldNumbers DEF Askable
<1>2. IsFiniteSet(K)
    <2>1. K \in SUBSET AllKeys
        BY <1>1, HeadKeysOrder
    <2> QED
        BY <2>1, KeysOrder, FS_Subset
<1> HIDE DEF K
<1>3. f \in Surjection(K, a .. t)
    <2>1. \A k \in K : BlockOf(k) \in a .. t
        BY <1>1
    <2>2. ASSUME NEW n \in a .. t
          PROVE  \E k \in K : BlockOf(k) = n
        <3>1. n \in 0 .. MaxBlock
            BY <1>0
        <3> QED
            BY <1>1, <3>1, HeadKeysOrder
    <2> HIDE DEF BlockOf
    <2> QED
        BY <2>1, <2>2 DEF Surjection
<1>4. Cardinality(a .. t) <= Cardinality(K)
    BY <1>2, <1>3, FS_Surjection
<1>5. a \in Int /\ t \in Int /\ Cardinality(a .. t) = IF a > t THEN 0 ELSE t - a + 1
    BY <1>0, FS_Interval
<1>6. Cardinality(K) \in Nat /\ Cardinality(K) <= Count
    BY <1>2, FS_CardinalityType DEF K
<1> QED
    BY <1>0, <1>4, <1>5, <1>6

\* The blocks of the node.
LEMMA RpcBlocksAnswer ==
    ASSUME Askable, AtBlock, List = "blocks", Provider = "rpc", NEW gone
    PROVE  Answers(RpcBlocks(gone, Filter), gone)
<1> DEFINE K == WindowKeys(gone, Filter)
           p == RpcBlocks(gone, Filter)
<1>1. /\ IsPage(p, K, Count)
      /\ \A k : k \in K <=>
             /\ k \in HeadKeys /\ BlockOf(k) \in BlockWindow \ gone
             /\ BlockMatches(BlockOf(k), BlockOf(k) <= final, Filter)
      /\ \A k \in K : k \in HeadKeys /\ Ahead(k)
    BY RpcBlocksIsPage
<1>2. PICK a, t \in 0 .. BestHead :
        /\ BlockWindow = a .. t /\ (a = 0 \/ a + Count = t)
        /\ \A k \in HeadKeys : Ahead(k) /\ BlockOf(k) <= BestHead => BlockOf(k) <= t
    BY BlockWindowIsTop
<1>3. K \in SUBSET AllKeys /\ K \subseteq HeadKeys
    BY <1>1, HeadKeysOrder
<1>4. BestHead \in Nat /\ BestHead <= MaxBlock /\ MaxBlock \in Nat
    BY WorldNumbers DEF Askable
<1>5. ASSUME NEW k \in Servable(List, Provider, Filter), Ahead(k)
      PROVE  /\ k \in HeadKeys /\ BlockOf(k) \in 0 .. t
             /\ BlockMatches(BlockOf(k), BlockOf(k) <= final, Filter)
    <2>1. PICK n \in 0 .. BestHead : BlockMatches(n, n <= final, Filter) /\ k = Key(n, 0)
        BY ServableMembers
    <2>2. k \in HeadKeys /\ BlockOf(k) = n
        BY <1>4, <2>1, HeadKeysOrder
    <2> QED
        BY <1>2, <1>4, <1>5, <2>1, <2>2
<1>6. ASSUME NEW k \in Servable(List, Provider, Filter), NEW l \in K,
             Ahead(k), k > l, BlockOf(k) \notin gone
      PROVE  k \in K
    <2>1. l \in HeadKeys /\ BlockOf(l) \in a .. t
        BY <1>1, <1>2
    <2>2. k \in HeadKeys /\ BlockOf(k) \in 0 .. t
          /\ BlockMatches(BlockOf(k), BlockOf(k) <= final, Filter)
        BY <1>5, <1>6
    <2>3. l < k
        <3>1. k \in Nat /\ l \in Nat
            BY <2>1, <2>2, HeadKeysOrder, KeysOrder
        <3> QED
            BY <1>6, <3>1
    <2>4. BlockOf(l) < BlockOf(k)
        BY <2>1, <2>2, <2>3, HeadKeysOrder
    <2>5. BlockOf(k) \in a .. t
        BY <1>4, <2>1, <2>2, <2>4
    <2> QED
        BY <1>1, <1>2, <1>6, <2>2, <2>5
<1>7. ASSUME ReadsToTheEnd, ~p.more, gone = {},
             NEW k \in Servable(List, Provider, Filter), Ahead(k)
      PROVE  k \in K
    <2>1. Filter = "all"
        BY <1>7 DEF ReadsToTheEnd
    <2>2. Cardinality(WindowKeys({}, "all")) <= Count
        BY <1>1, <1>7, <2>1 DEF IsPage
    <2>3. a = 0
        BY <1>2, <2>2, ShortWindow
    <2>4. k \in HeadKeys /\ BlockOf(k) \in 0 .. t
          /\ BlockMatches(BlockOf(k), BlockOf(k) <= final, Filter)
        BY <1>5, <1>7
    <2> QED
        BY <1>1, <1>2, <1>7, <2>3, <2>4
<1> HIDE DEF K, p
<1>8. List = "blocks" => K \subseteq HeadKeys
    BY <1>3
<1>9. \A k \in K : Ahead(k)
    BY <1>1
<1>10. Answers(p, gone)
    BY <1>1, <1>3, <1>6, <1>7, <1>9 DEF Answers
<1> QED
    BY <1>10 DEF p

------------------------------------------------------------------------------
(***************************************************************************)
(* The types and the order of a walk.                                      *)
(***************************************************************************)

\* A page behind those received.
LEMMA JoinDescends ==
    ASSUME NEW s \in Seq(AllKeys), NEW t \in Seq(AllKeys), Descends(s), Descends(t),
           s # << >> => \A i \in 1 .. Len(t) : t[i] < Last(s)
    PROVE  /\ s \o t \in Seq(AllKeys) /\ Descends(s \o t)
           /\ Range(s \o t) = Range(s) \cup Range(t)
           /\ t # << >> => s \o t # << >> /\ Last(s \o t) = Last(t)
           /\ t = << >> => s \o t = s
           /\ Len(s \o t) = Len(s) + Len(t)
<1> DEFINE u == s \o t
<1>1. /\ Len(s) \in Nat /\ Len(t) \in Nat /\ u \in Seq(AllKeys)
      /\ Len(u) = Len(s) + Len(t)
      /\ \A i \in 1 .. Len(s) : u[i] = s[i] /\ s[i] \in AllKeys
      /\ \A i \in 1 .. Len(t) : u[Len(s) + i] = t[i] /\ t[i] \in AllKeys
      /\ DOMAIN u = 1 .. Len(u) /\ DOMAIN s = 1 .. Len(s) /\ DOMAIN t = 1 .. Len(t)
    OBVIOUS
<1>2. t = << >> => u = s
    OBVIOUS
<1>3. /\ t # << >> <=> Len(t) >= 1
      /\ s # << >> <=> Len(s) >= 1
      /\ u # << >> <=> Len(u) >= 1
    <2>1. \A q \in Seq(AllKeys) : q # << >> <=> Len(q) >= 1
        OBVIOUS
    <2> HIDE DEF u
    <2> QED
        BY <1>1, <2>1
<1> HIDE DEF u
<1>4. \A i \in 1 .. Len(u) : \/ i \in 1 .. Len(s) /\ u[i] = s[i]
                             \/ i > Len(s) /\ i - Len(s) \in 1 .. Len(t) /\ u[i] = t[i - Len(s)]
    <2> SUFFICES ASSUME NEW i \in 1 .. Len(u), ~(i \in 1 .. Len(s))
                 PROVE  i > Len(s) /\ i - Len(s) \in 1 .. Len(t) /\ u[i] = t[i - Len(s)]
        BY <1>1
    <2>1. i \in Nat /\ i > Len(s) /\ i - Len(s) \in 1 .. Len(t)
        BY <1>1
    <2>2. u[Len(s) + (i - Len(s))] = t[i - Len(s)]
        BY <1>1, <2>1
    <2>3. Len(s) + (i - Len(s)) = i
        BY <1>1, <2>1
    <2> QED
        BY <2>1, <2>2, <2>3
<1>5. Descends(u)
    <2> SUFFICES ASSUME NEW i \in 1 .. Len(u), NEW j \in 1 .. Len(u), i < j
                 PROVE  u[i] > u[j]
        BY DEF Descends
    <2>1. CASE i \in 1 .. Len(s) /\ j \in 1 .. Len(s)
        BY <1>1, <2>1 DEF Descends
    <2>2. CASE i \in 1 .. Len(s) /\ j > Len(s)
        <3>1. j - Len(s) \in 1 .. Len(t) /\ u[j] = t[j - Len(s)] /\ u[i] = s[i]
            BY <1>1, <1>4, <2>2
        <3>2. Len(s) >= 1 /\ s # << >> /\ Len(s) \in 1 .. Len(s)
            BY <1>1, <1>3, <2>2
        <3>3. u[j] < s[Len(s)]
            BY <3>1, <3>2 DEF Last
        <3>4. i = Len(s) \/ s[i] > s[Len(s)]
            <4>0. Len(s) \in Nat /\ \A n \in Nat : \A a \in 1 .. n : a = n \/ a < n
                BY <1>1
            <4>1. i = Len(s) \/ i < Len(s)
                BY <2>2, <4>0
            <4>2. \A a, b \in 1 .. Len(s) : a < b => s[a] > s[b]
                BY DEF Descends
            <4> QED
                BY <2>2, <3>2, <4>1, <4>2
        <3>5. s[i] \in Nat /\ s[Len(s)] \in Nat /\ u[j] \in Nat
            BY <1>1, <2>2, <3>1, <3>2, KeysOrder
        <3> QED
            BY <3>1, <3>3, <3>4, <3>5, SMTT(30)
    <2>3. CASE i > Len(s) /\ j > Len(s)
        <3>1. /\ i - Len(s) \in 1 .. Len(t) /\ u[i] = t[i - Len(s)]
              /\ j - Len(s) \in 1 .. Len(t) /\ u[j] = t[j - Len(s)]
            BY <1>1, <1>4, <2>3
        <3>2. i - Len(s) < j - Len(s)
            BY <1>1
        <3> QED
            BY <3>1, <3>2 DEF Descends
    <2> QED
        BY <1>1, <2>1, <2>2, <2>3
<1>6. Range(u) = Range(s) \cup Range(t)
    <2>1. ASSUME NEW k \in Range(u)
          PROVE  k \in Range(s) \cup Range(t)
        BY <1>1, <1>4 DEF Range
    <2>2. ASSUME NEW k \in Range(s)
          PROVE  k \in Range(u)
        <3>1. PICK i \in 1 .. Len(s) : k = s[i]
            BY <1>1 DEF Range
        <3>2. i \in 1 .. Len(u) /\ u[i] = k
            BY <1>1, <3>1
        <3> QED
            BY <1>1, <3>2 DEF Range
    <2>3. ASSUME NEW k \in Range(t)
          PROVE  k \in Range(u)
        <3>1. PICK i \in 1 .. Len(t) : k = t[i]
            BY <1>1 DEF Range
        <3>2. Len(s) + i \in 1 .. Len(u) /\ u[Len(s) + i] = k
            BY <1>1, <3>1
        <3> QED
            BY <1>1, <3>2 DEF Range
    <2> QED
        BY <2>1, <2>2, <2>3
<1>7. t # << >> => u # << >> /\ Last(u) = Last(t)
    <2> SUFFICES ASSUME t # << >>
                 PROVE  u # << >> /\ Last(u) = Last(t)
        OBVIOUS
    <2>1. Len(t) >= 1 /\ Len(t) \in 1 .. Len(t)
        BY <1>1, <1>3
    <2>2. u[Len(u)] = t[Len(t)]
        BY <1>1, <2>1
    <2> QED
        BY <1>1, <1>3, <2>1, <2>2 DEF Last
<1> QED
    BY <1>1, <1>2, <1>5, <1>6, <1>7 DEF u

\* The last of some keys is one of them and not above the others.
LEMMA LastOfKeys ==
    ASSUME NEW s \in Seq(AllKeys), s # << >>, Descends(s)
    PROVE  /\ Last(s) \in AllKeys /\ Last(s) \in Range(s)
           /\ \A k \in Range(s) : k >= Last(s)
<1>1. Len(s) \in 1 .. Len(s) /\ DOMAIN s = 1 .. Len(s) /\ Len(s) \in Nat
    OBVIOUS
<1>2. \A i \in 1 .. Len(s) : s[i] \in AllKeys
    OBVIOUS
<1>3. Last(s) = s[Len(s)]
    BY DEF Last
<1>4. ASSUME NEW i \in 1 .. Len(s)
      PROVE  s[i] >= s[Len(s)]
    <2>1. s[i] \in Nat /\ s[Len(s)] \in Nat
        BY <1>1, <1>2, KeysOrder
    <2>2. i = Len(s) \/ s[i] > s[Len(s)]
        <3>0. Len(s) \in Nat /\ \A n \in Nat : \A a \in 1 .. n : a = n \/ a < n
            BY <1>1
        <3>1. i = Len(s) \/ i < Len(s)
            BY <3>0
        <3>2. \A a, b \in 1 .. Len(s) : a < b => s[a] > s[b]
            BY DEF Descends
        <3> QED
            BY <1>1, <3>1, <3>2
    <2> QED
        BY <2>1, <2>2
<1> QED
    BY <1>1, <1>2, <1>3, <1>4 DEF Range

\* A page is received: its rows follow those shown, and the walk goes on from its
\* last row or ends.
LEMMA Arrives ==
    ASSUME WalkInv, Asking,
           NEW items \in Seq(AllKeys), Descends(items),
           \A i \in 1 .. Len(items) : Ahead(items[i]),
           NEW more \in BOOLEAN,
           more => items # << >>,
           more /\ List = "blocks" => Last(items) \in HeadKeys /\ BlockOf(Last(items)) >= 1,
           got' = got \o items,
           cursor' = IF more THEN Last(items) ELSE cursor,
           pc' = IF more THEN "ask" ELSE "done",
           available' = StillAvailable,
           missing' \subseteq 0 .. MaxBlock,
           UNCHANGED <<world, walk, page>>
    PROVE  /\ WalkInv'
           /\ Range(got') = Range(got) \cup Range(items)
           /\ items # << >> => got' # << >> /\ Last(got') = Last(items)
           /\ items = << >> => got' = got
<1>1. /\ WorldTypes /\ ClientTypes /\ CursorIsLast /\ BlockCursors
      /\ walk \in Lists /\ got \in Seq(AllKeys) /\ Descends(got)
    BY DEF WalkInv, ClientTypes
<1>2. got # << >> => \A i \in 1 .. Len(items) : items[i] < Last(got)
    BY <1>1 DEF CursorIsLast, Ahead
<1>3. /\ got' \in Seq(AllKeys) /\ Descends(got')
      /\ Range(got') = Range(got) \cup Range(items)
      /\ items # << >> => got' # << >> /\ Last(got') = Last(items)
      /\ items = << >> => got' = got
    BY <1>1, <1>2, JoinDescends
<1>4. cursor' \in AllKeys \cup {None}
    BY <1>1, LastOfKeys DEF ClientTypes
<1>5. /\ StillAvailable \in SUBSET AllKeys
      /\ List = "blocks" => StillAvailable \subseteq HeadKeys
    BY <1>1, StillBounded DEF ClientTypes, BlockCursors
<1>6. WorldTypes'
    BY <1>1 DEF WorldTypes, world
<1>7. ClientTypes'
    <2>1. /\ walk' \in Lists /\ pc' \in {"ask", "done"}
          /\ head' \in 0 .. final' /\ tipRead' \in 0 .. top'
          /\ slice' \in Seq(HeadKeys) /\ Len(slice') <= Count /\ Descends(slice')
          /\ available' \in SUBSET AllKeys /\ missing' \subseteq 0 .. MaxBlock
        BY <1>1, <1>5 DEF ClientTypes, world, page
    <2> QED
        BY <1>3, <1>4, <2>1 DEF ClientTypes, Asking
<1>8. CursorIsLast'
    <2>1. pc' # "idle"
        OBVIOUS
    <2>2. pc' = "ask" => more
        OBVIOUS
    <2>3. pc' = "done" \/ pc' = "ask"
        OBVIOUS
    <2>4. more => /\ cursor' = Last(items) /\ cursor' # None
                  /\ got' # << >> /\ Last(got') = Last(items)
        <3> SUFFICES ASSUME more
                     PROVE  cursor' = Last(items) /\ cursor' # None
            BY <1>3
        <3>1. Last(items) \in AllKeys
            BY LastOfKeys
        <3> QED
            BY <3>1, KeysOrder
    <2> QED
        BY <2>1, <2>2, <2>3, <2>4 DEF CursorIsLast, Asking
<1>9. BlockCursors'
    <2>1. List' = List /\ ~Assembling'
        BY DEF List, Assembling, page
    <2>2. pc' = "ask" \/ ~Asking'
        BY DEF Asking
    <2>3. ASSUME pc' = "ask", List = "blocks"
          PROVE  available' \subseteq HeadKeys /\ cursor' \in HeadKeys /\ BlockOf(cursor') >= 1
        BY <1>5, <2>3
    <2>4. BlockOf(cursor)' = BlockOf(cursor')
        BY DEF BlockOf
    <2> QED
        BY <2>1, <2>2, <2>3, <2>4 DEF BlockCursors
<1>10. SliceIsPending'
    BY DEF SliceIsPending
<1> QED
    BY <1>3, <1>6, <1>7, <1>8, <1>9, <1>10 DEF WalkInv

\* A row that was passed has been shown.
LEMMA PassedIsShown ==
    ASSUME WalkInv, SkipInv, Asking, Accounted,
           NEW k \in available, ~Ahead(k), BlockOf(k) \notin missing
    PROVE  k \in Range(got)
<1>1. /\ got \in Seq(AllKeys) /\ Descends(got) /\ available \subseteq AllKeys
      /\ cursor # None /\ got # << >> /\ cursor = Last(got) /\ ~(k < cursor)
    BY DEF WalkInv, ClientTypes, CursorIsLast, Ahead
<1>2. k \in Nat /\ Last(got) \in Nat /\ Last(got) \in Range(got)
    BY <1>1, LastOfKeys, KeysOrder
<1>3. k > Last(got) => k \in Range(got)
    BY <1>1 DEF SkipInv, ShownSoFar
<1> QED
    BY <1>1, <1>2, <1>3

\* Nothing above the last row shown is missing when rows arrive that lie over what
\* they leave out.
LEMMA ArrivesComplete ==
    ASSUME WalkInv, SkipInv, Asking, Accounted,
           NEW items \in Seq(AllKeys), Descends(items),
           \A i \in 1 .. Len(items) : Ahead(items[i]),
           got' = got \o items, Range(got') = Range(got) \cup Range(items),
           items # << >> => got' # << >> /\ Last(got') = Last(items),
           items = << >> => got' = got,
           missing \subseteq missing', available' = StillAvailable,
           \A k \in Servable(List, Provider, Filter) :
               /\ Ahead(k) /\ BlockOf(k) \notin missing'
               /\ items # << >> /\ k > Last(items)
               => k \in Range(items)
    PROVE  \A k \in available' :
               /\ ~Ahead(k) /\ BlockOf(k) \notin missing' => k \in Range(got')
               /\ Ahead(k) => k \in Servable(List, Provider, Filter)
               /\ got' # << >> /\ k > Last(got') /\ BlockOf(k) \notin missing'
                  => k \in Range(got')
<1> SUFFICES ASSUME NEW k \in available'
             PROVE  /\ ~Ahead(k) /\ BlockOf(k) \notin missing' => k \in Range(got')
                    /\ Ahead(k) => k \in Servable(List, Provider, Filter)
                    /\ got' # << >> /\ k > Last(got') /\ BlockOf(k) \notin missing'
                       => k \in Range(got')
    OBVIOUS
<1>1. k \in available /\ k \in AllKeys /\ (Ahead(k) => k \in Servable(List, Provider, Filter))
    <2>1. k \in available /\ k \in AllKeys
        BY DEF StillAvailable, WalkInv, ClientTypes
    <2>2. cursor # None => cursor \in Nat /\ k \in Nat
        BY <2>1, KeysOrder DEF WalkInv, ClientTypes
    <2> QED
        BY <2>1, <2>2 DEF StillAvailable, Ahead
<1>2. ~Ahead(k) /\ BlockOf(k) \notin missing' => k \in Range(got')
    BY <1>1, PassedIsShown
<1>3. ASSUME Ahead(k), got' # << >>, k > Last(got'), BlockOf(k) \notin missing'
      PROVE  k \in Range(got')
    <2>1. CASE items # << >>
        BY <1>1, <1>3, <2>1
    <2>2. CASE items = << >>
        <3>1. got # << >> /\ k > Last(got) /\ got \in Seq(AllKeys) /\ Descends(got)
            BY <1>3, <2>2 DEF WalkInv, ClientTypes
        <3>2. cursor # None /\ cursor = Last(got)
            BY <3>1 DEF WalkInv, CursorIsLast
        <3>3. k \in Nat /\ Last(got) \in Nat
            BY <1>1, <3>1, LastOfKeys, KeysOrder
        <3> QED
            BY <1>3, <3>1, <3>2, <3>3 DEF Ahead
    <2> QED
        BY <2>1, <2>2
<1> QED
    BY <1>1, <1>2, <1>3

\* A page that is one answer.
LEMMA AskedStep ==
    ASSUME WalkInv, pc = "ask", walk \in Lists, List = "blocks" => Provider = "rpc",
           NEW p, NEW gone, gone \subseteq 0 .. MaxBlock, Answers(p, gone),
           Receive(p.items, p.more), missing' = missing \cup gone,
           available' = StillAvailable, UNCHANGED <<world, walk, page>>
    PROVE  WalkInv' /\ (SkipInv => SkipInv')
<1> DEFINE items == p.items
<1>1. PICK K \in SUBSET AllKeys :
        /\ IsPage(p, K, Count)
        /\ \A k \in K : Ahead(k)
        /\ List = "blocks" => K \subseteq HeadKeys
        /\ \A k \in Servable(List, Provider, Filter), l \in K :
               Ahead(k) /\ k > l /\ BlockOf(k) \notin gone => k \in K
        /\ ReadsToTheEnd /\ ~p.more /\ gone = {} =>
               \A k \in Servable(List, Provider, Filter) : Ahead(k) => k \in K
    BY DEF Answers
<1>2. /\ p.more \in BOOLEAN
      /\ p.items \in Seq(K) /\ Len(p.items) <= Count /\ Descends(p.items)
      /\ \A k \in K, i \in 1 .. Len(p.items) : k > p.items[i] => k \in Range(p.items)
      /\ p.more => Len(p.items) = Count /\ \E k \in K : k < Last(p.items)
      /\ ~p.more => Range(p.items) = K
    BY <1>1 DEF IsPage
<1>3. items \in Seq(AllKeys)
    BY <1>2
<1>4. /\ Len(items) \in Nat /\ \A i \in 1 .. Len(items) : items[i] \in K /\ Ahead(items[i])
      /\ items # << >> <=> Len(items) >= 1
    BY <1>1, <1>2
<1>5. p.more => items # << >>
    BY <1>2, <1>4, Numbers
<1>6. items # << >> => Last(items) = items[Len(items)] /\ Len(items) \in 1 .. Len(items)
                       /\ Last(items) \in K
    BY <1>4 DEF Last
<1>7. ASSUME p.more, List = "blocks"
      PROVE  Last(items) \in HeadKeys /\ BlockOf(Last(items)) >= 1
    <2>1. Last(items) \in HeadKeys /\ K \subseteq HeadKeys
        BY <1>1, <1>5, <1>6, <1>7
    <2>2. PICK k \in K : k < Last(items)
        BY <1>2, <1>7
    <2>3. BlockOf(k) < BlockOf(Last(items))
        BY <2>1, <2>2, HeadKeysOrder
    <2>4. k \in AllKeys /\ Last(items) \in AllKeys
        BY <2>1, HeadKeysOrder
    <2>5. BlockOf(k) \in 0 .. MaxBlock /\ BlockOf(Last(items)) \in 0 .. MaxBlock
        BY <2>4, KeysOrder
    <2>6. BlockOf(k) \in Nat /\ BlockOf(Last(items)) \in Nat
        BY <2>5
    <2> QED
        BY <2>1, <2>3, <2>6
<1>8. missing' \subseteq 0 .. MaxBlock
    BY DEF WalkInv, ClientTypes
<1>9. Asking
    BY DEF Asking
<1> HIDE DEF items
<1>10. /\ got' = got \o items
       /\ cursor' = IF p.more THEN Last(items) ELSE cursor
       /\ pc' = IF p.more THEN "ask" ELSE "done"
    BY DEF Receive, items
<1>11. /\ WalkInv'
       /\ Range(got') = Range(got) \cup Range(items)
       /\ items # << >> => got' # << >> /\ Last(got') = Last(items)
       /\ items = << >> => got' = got
    BY <1>2, <1>3, <1>4, <1>5, <1>7, <1>8, <1>9, <1>10, Arrives DEF items
<1>12. ASSUME SkipInv
       PROVE  SkipInv'
    <2>1. Accounted
        <3>1. walk = <<"blocks", "indexed", "busy">> => List = "blocks" /\ Provider # "rpc"
            BY DEF List, Provider
        <3> QED
            BY <3>1 DEF Accounted
    <2>2. ASSUME NEW k \in Servable(List, Provider, Filter),
                 Ahead(k), BlockOf(k) \notin missing', items # << >>, k > Last(items)
          PROVE  k \in Range(items)
        <3>1. k \in K
            BY <1>1, <1>6, <2>2
        <3> QED
            BY <1>2, <1>6, <2>2, <3>1 DEF items
    <2>3. \A k \in available' :
              /\ ~Ahead(k) /\ BlockOf(k) \notin missing' => k \in Range(got')
              /\ Ahead(k) => k \in Servable(List, Provider, Filter)
              /\ got' # << >> /\ k > Last(got') /\ BlockOf(k) \notin missing'
                 => k \in Range(got')
        BY <1>2, <1>3, <1>4, <1>9, <1>10, <1>11, <1>12, <2>1, <2>2, ArrivesComplete
           DEF items
    <2>4. NothingSkipped' /\ ShownSoFar'
        <3>1. \A k : BlockOf(k)' = BlockOf(k)
            BY DEF BlockOf
        <3> QED
            BY <2>3 DEF NothingSkipped, ShownSoFar, BlockOf
    <2>5. TipCovers' /\ SliceCovers'
        BY <1>10 DEF TipCovers, SliceCovers
    <2>6. EndMeansAll'
        <3> SUFFICES ASSUME pc' = "done", ReadsToTheEnd', missing' = {}
                     PROVE  available' \subseteq Range(got')
            BY DEF EndMeansAll
        <3>1. ReadsToTheEnd /\ ~p.more /\ gone = {}
            BY <1>10 DEF ReadsToTheEnd, List, Provider, Filter, page
        <3>2. Range(items) = K
            BY <1>2, <3>1 DEF items
        <3>3. ASSUME NEW k \in available'
              PROVE  k \in Range(got')
            <4>1. CASE ~Ahead(k)
                BY <2>3, <4>1
            <4>2. CASE Ahead(k)
                BY <1>1, <1>11, <2>3, <3>1, <3>2, <4>2
            <4> QED
                BY <4>1, <4>2
        <3> QED
            BY <3>3
    <2> QED
        BY <2>4, <2>5, <2>6 DEF SkipInv
<1> QED
    BY <1>11, <1>12

------------------------------------------------------------------------------
(***************************************************************************)
(* The block page of IndexedProvider.                                      *)
(***************************************************************************)

\* The slice of a page of the node: its blocks above the indexed head.
LEMMA SliceOfPage ==
    ASSUME NEW K \in SUBSET HeadKeys, NEW p, IsPage(p, K, Count), head \in Nat
    PROVE  LET cut == PendingSlice(p.items)
           IN  /\ cut \in Seq(HeadKeys) /\ Descends(cut) /\ Len(cut) <= Count
               /\ \A i \in 1 .. Len(cut) : cut[i] \in K /\ BlockOf(cut[i]) > head
               /\ \A k \in K : BlockOf(k) > head /\ (Len(cut) < Count \/ k > Last(cut))
                               => k \in Range(cut)
               /\ (\A k \in K : BlockOf(k) > head) => cut = p.items
<1> DEFINE items == p.items
           above == {n \in 0 .. Len(items) : \A i \in 1 .. n : BlockOf(items[i]) > head}
           m == Max(above)
           cut == SubSeq(items, 1, m)
<1>1. /\ items \in Seq(K) /\ Len(items) \in Nat /\ Len(items) <= Count /\ Descends(items)
      /\ \A k \in K, i \in 1 .. Len(items) : k > items[i] => k \in Range(items)
      /\ p.more => Len(items) = Count
      /\ ~p.more => Range(items) = K
    BY DEF IsPage
<1>2. /\ \A i \in 1 .. Len(items) : items[i] \in K
      /\ DOMAIN items = 1 .. Len(items)
      /\ items \in Seq(HeadKeys)
    BY <1>1
<1>3. \A k \in K : k \in HeadKeys /\ k \in Nat /\ k \in AllKeys /\ BlockOf(k) \in Nat
    <2>1. \A k \in K : k \in HeadKeys /\ k \in AllKeys
        BY HeadKeysOrder
    <2>2. \A k \in AllKeys : k \in Nat /\ BlockOf(k) \in 0 .. MaxBlock
        BY KeysOrder
    <2>3. \A n \in 0 .. MaxBlock : n \in Nat
        OBVIOUS
    <2> QED
        BY <2>1, <2>2, <2>3
<1>4. PendingSlice(p.items) = cut
    BY DEF PendingSlice
<1> HIDE DEF items
<1>5. m \in above /\ \A n \in above : n <= m
    <2>1. above \in SUBSET Nat /\ 0 \in above /\ \A n \in above : n <= Len(items)
        BY <1>1
    <2>2. above # {}
        BY <2>1
    <2> HIDE DEF above
    <2> QED
        BY <1>1, <2>1, <2>2, MaxIsGreatest
<1>6. /\ m \in Nat /\ m <= Len(items) /\ \A i \in 1 .. m : BlockOf(items[i]) > head
      /\ m < Len(items) => ~(BlockOf(items[m + 1]) > head)
    <2>1. m \in Nat /\ m <= Len(items) /\ \A i \in 1 .. m : BlockOf(items[i]) > head
        BY <1>1, <1>5
    <2>2. ASSUME m < Len(items), BlockOf(items[m + 1]) > head
          PROVE  FALSE
        <3> HIDE DEF m
        <3>1. m + 1 \in 0 .. Len(items)
            BY <1>1, <2>1, <2>2
        <3>2. \A i \in 1 .. m + 1 : i = m + 1 \/ i \in 1 .. m
            BY <2>1
        <3>3. \A i \in 1 .. m + 1 : BlockOf(items[i]) > head
            BY <2>1, <2>2, <3>2
        <3>4. m + 1 \in above
            BY <3>1, <3>3
        <3> QED
            BY <1>5, <2>1, <3>4
    <2> QED
        BY <2>1, <2>2
<1> HIDE DEF above, m
<1>7. cut \in Seq(HeadKeys) /\ Len(cut) = m /\ \A i \in 1 .. m : cut[i] = items[i]
    BY <1>1, <1>2, <1>6
<1> HIDE DEF cut
<1>8. \A i \in 1 .. m : i \in 1 .. Len(items) /\ cut[i] \in K /\ BlockOf(cut[i]) > head
    BY <1>1, <1>2, <1>6, <1>7
<1>9. Descends(cut)
    BY <1>1, <1>7, <1>8 DEF Descends
<1>10. ASSUME NEW k \in K, NEW i \in 1 .. Len(items), ~(BlockOf(items[i]) > head), k <= items[i]
       PROVE  ~(BlockOf(k) > head)
    <2>1. /\ items[i] \in HeadKeys /\ k \in HeadKeys /\ k \in Nat /\ items[i] \in Nat
          /\ BlockOf(k) \in Nat /\ BlockOf(items[i]) \in Nat
        BY <1>2, <1>3
    <2>2. k = items[i] \/ BlockOf(k) < BlockOf(items[i])
        BY <1>10, <2>1, HeadKeysOrder
    <2> QED
        BY <1>10, <2>1, <2>2
<1>11. ASSUME NEW k \in K, BlockOf(k) > head, Len(cut) < Count \/ k > Last(cut)
       PROVE  k \in Range(cut)
    <2>1. CASE k \in Range(items)
        <3>1. PICK j \in 1 .. Len(items) : k = items[j]
            BY <1>2, <2>1 DEF Range
        <3>2. j \in 1 .. m
            <4> SUFFICES ASSUME ~(j \in 1 .. m)
                         PROVE  FALSE
                OBVIOUS
            <4>1. m + 1 \in 1 .. Len(items) /\ m < Len(items) /\ (j = m + 1 \/ m + 1 < j)
                BY <1>1, <1>6
            <4>2. j = m + 1 \/ items[m + 1] > items[j]
                BY <1>1, <4>1 DEF Descends
            <4>3. k <= items[m + 1]
                BY <1>2, <1>3, <3>1, <4>1, <4>2
            <4> QED
                BY <1>6, <1>10, <1>11, <4>1, <4>3
        <3>3. cut[j] = k /\ DOMAIN cut = 1 .. m
            BY <1>7, <3>1, <3>2
        <3> QED
            BY <3>2, <3>3 DEF Range
    <2>2. CASE k \notin Range(items)
        <3>1. Len(items) = Count /\ \A i \in 1 .. Len(items) : ~(k > items[i])
            BY <1>1, <2>2
        <3>2. \A i \in 1 .. Len(items) : k <= items[i]
            BY <1>2, <1>3, <3>1
        <3>3. m = Count
            <4> SUFFICES ASSUME m # Count
                         PROVE  FALSE
                OBVIOUS
            <4>1. m < Len(items) /\ m + 1 \in 1 .. Len(items)
                BY <1>1, <1>6, <3>1
            <4> QED
                BY <1>6, <1>10, <1>11, <3>2, <4>1
        <3>4. Count \in 1 .. m /\ Last(cut) = items[Count] /\ Count \in 1 .. Len(items)
            BY <1>6, <1>7, <3>1, <3>3, Numbers DEF Last
        <3> QED
            BY <1>2, <1>3, <1>7, <1>11, <3>1, <3>3, <3>4
    <2> QED
        BY <2>1, <2>2
<1>12. ASSUME \A k \in K : BlockOf(k) > head
       PROVE  cut = items
    <2>1. ~(m < Len(items))
        <3> SUFFICES ASSUME m < Len(items)
                     PROVE  FALSE
            OBVIOUS
        <3>1. m + 1 \in 1 .. Len(items)
            BY <1>1, <1>6
        <3> QED
            BY <1>2, <1>6, <1>12, <3>1
    <2>2. m = Len(items)
        BY <1>1, <1>6, <2>1
    <2> QED
        BY <1>2, <1>7, <2>2
<1>13. Len(cut) <= Count
    BY <1>1, <1>6, <1>7, Numbers
<1>14. \A i \in 1 .. Len(cut) : cut[i] \in K /\ BlockOf(cut[i]) > head
    BY <1>7, <1>8
<1> QED
    BY <1>4, <1>7, <1>9, <1>11, <1>12, <1>13, <1>14 DEF items

\* A block IndexedProvider could serve: a stored one, or one above them all.
LEMMA ServableBlock ==
    ASSUME WorldTypes, NEW f, NEW k \in Servable("blocks", "indexed", f)
    PROVE  /\ k \in HeadKeys /\ BlockOf(k) \in 0 .. MaxBlock /\ BlockOf(k) \in Nat
           /\ k = Key(BlockOf(k), 0)
           /\ \/ BlockOf(k) \in StoredBlocks(MaxBlock, f)
              \/ BlockOf(k) \in PendingZone(f)
<1>1. PICK n \in StoredBlocks(MaxBlock, f) \cup PendingZone(f) : k = Key(n, 0)
    BY ServableMembers
<1>2. n \in 0 .. MaxBlock /\ n \in Nat
    <2>1. \A m \in StoredBlocks(MaxBlock, f) : m \in stored
        BY DEF StoredBlocks
    <2>2. \A m \in PendingZone(f) : m \in 0 .. BestHead
        BY WorldNumbers DEF PendingZone
    <2> QED
        BY <1>1, <2>1, <2>2, WorldNumbers
<1> QED
    BY <1>1, <1>2, HeadKeysOrder

\* A step of the assembly of a page.
LEMMA AssemblyStep ==
    ASSUME WalkInv, Asking, List = "blocks", Provider = "indexed",
           pc' \in {"head", "pending", "db"}, available' = StillAvailable,
           UNCHANGED <<world, walk, cursor, got>>,
           missing \subseteq missing', missing' \subseteq 0 .. MaxBlock,
           head' \in 0 .. final, tipRead' \in 0 .. top,
           slice' \in Seq(HeadKeys), Descends(slice'), Len(slice') <= Count,
           SliceIsPending'
    PROVE  /\ WalkInv'
           /\ SkipInv /\ TipCovers' /\ SliceCovers' => SkipInv'
           /\ \A k \in available' :
                  /\ k \in available /\ k \in HeadKeys
                  /\ Ahead(k) => k \in Servable("blocks", "indexed", Filter)
<1>1. /\ WorldTypes /\ ClientTypes /\ CursorIsLast /\ BlockCursors
      /\ walk \in Lists /\ available \in SUBSET AllKeys /\ available \subseteq HeadKeys
      /\ cursor \in AllKeys \cup {None}
    BY DEF WalkInv, ClientTypes, BlockCursors
<1>2. /\ StillAvailable \in SUBSET AllKeys /\ StillAvailable \subseteq HeadKeys
    BY <1>1, StillBounded
<1>3. /\ WorldTypes' /\ List' = List /\ Provider' = Provider /\ Filter' = Filter
    BY <1>1 DEF WorldTypes, world, List, Provider, Filter
<1>4. Asking'
    BY DEF Asking
<1>5. ClientTypes'
    <2>1. /\ walk' \in Lists /\ cursor' \in AllKeys \cup {None}
          /\ got' \in Seq(AllKeys) /\ Descends(got')
          /\ head' \in 0 .. final' /\ tipRead' \in 0 .. top'
          /\ available' \in SUBSET AllKeys /\ pc' # "idle" /\ pc' # "ask" /\ pc' # "done"
        BY <1>1, <1>2 DEF ClientTypes, world
    <2> QED
        BY <2>1 DEF ClientTypes
<1>6. CursorIsLast'
    BY <1>1, <1>4 DEF CursorIsLast
<1>7. BlockCursors'
    <2>1. cursor # None => cursor \in HeadKeys /\ BlockOf(cursor) >= 1
        BY <1>1 DEF BlockCursors
    <2> QED
        BY <1>2, <1>3, <2>1 DEF BlockCursors, BlockOf
<1>8. WalkInv'
    BY <1>3, <1>5, <1>6, <1>7 DEF WalkInv
<1>9. ASSUME NEW k \in available'
      PROVE  /\ k \in available /\ k \in HeadKeys
             /\ Ahead(k) => k \in Servable("blocks", "indexed", Filter)
    <2>1. k \in available /\ k \in HeadKeys /\ k \in AllKeys
        BY <1>1, <1>2 DEF StillAvailable
    <2>2. cursor # None => cursor \in Nat /\ k \in Nat
        BY <1>1, <2>1, KeysOrder
    <2> QED
        BY <2>1, <2>2 DEF StillAvailable, Ahead
<1>10. ASSUME SkipInv, TipCovers', SliceCovers'
       PROVE  SkipInv'
    <2>1. NothingSkipped' /\ EndMeansAll'
        BY DEF NothingSkipped, EndMeansAll
    <2>2. ShownSoFar'
        BY <1>9, <1>10 DEF SkipInv, ShownSoFar, Accounted, BlockOf
    <2> QED
        BY <1>10, <2>1, <2>2 DEF SkipInv
<1> QED
    BY <1>8, <1>9, <1>10

\* The chain head is read.
LEMMA AskIndexedBlocksStep ==
    ASSUME WalkInv, AskIndexedBlocks
    PROVE  WalkInv' /\ (SkipInv => SkipInv')
<1>1. /\ pc = "ask" /\ List = "blocks" /\ Provider = "indexed"
      /\ tipRead' = BestHead /\ pc' = "head" /\ available' = StillAvailable
      /\ UNCHANGED <<world, walk, cursor, got, head, slice, missing>>
    BY DEF AskIndexedBlocks
<1>2. /\ WorldTypes /\ BestHead \in 0 .. top /\ head \in 0 .. final
      /\ slice \in Seq(HeadKeys) /\ Descends(slice) /\ Len(slice) <= Count
      /\ missing \subseteq 0 .. MaxBlock
    BY WorldNumbers DEF WalkInv, ClientTypes
<1>3. SliceIsPending'
    BY <1>1 DEF SliceIsPending
<1>4. Asking
    BY <1>1 DEF Asking
<1>5. /\ missing' = missing /\ head' = head /\ slice' = slice
      /\ UNCHANGED <<world, walk, cursor, got>>
    BY <1>1
<1>6. /\ WalkInv'
      /\ SkipInv /\ TipCovers' /\ SliceCovers' => SkipInv'
      /\ \A k \in available' : Ahead(k) => k \in Servable("blocks", "indexed", Filter)
    BY <1>1, <1>2, <1>3, <1>4, <1>5, AssemblyStep
<1>7. SliceCovers'
    BY <1>1 DEF SliceCovers
<1>8. TipCovers'
    <2>1. hint' = None \/ hint' >= tipRead'
        <3>1. hint' = hint /\ (hint \in Nat \/ hint = None)
            BY <1>1, <1>2, WorldNumbers DEF world, WorldTypes
        <3> QED
            BY <1>1, <3>1 DEF BestHead
    <2>2. ASSUME NEW k \in available', Ahead(k)
          PROVE  BlockOf(k) <= BestHead \/ BlockOf(k) <= IndexedHead
        <3>1. /\ BlockOf(k) \in Nat
              /\ BlockOf(k) \in StoredBlocks(MaxBlock, Filter) \/ BlockOf(k) \in PendingZone(Filter)
            BY <1>2, <1>6, <2>2, ServableBlock
        <3>2. \A n \in StoredBlocks(MaxBlock, Filter) : n \in stored
            BY DEF StoredBlocks
        <3>3. \A n \in PendingZone(Filter) : n \in IndexedHead + 1 .. BestHead
            BY DEF PendingZone
        <3>4. \A n \in stored : n <= IndexedHead
            BY <1>2, WorldNumbers
        <3>5. IndexedHead \in Nat /\ BestHead \in Nat
            BY <1>2, WorldNumbers
        <3> QED
            BY <3>1, <3>2, <3>3, <3>4, <3>5
    <2>3. IndexedHead' = IndexedHead /\ cursor' = cursor /\ tipRead' = BestHead
        BY <1>1 DEF IndexedHead, world
    <2> QED
        BY <1>1, <2>1, <2>2, <2>3 DEF TipCovers, Ahead, BlockOf
<1> QED
    BY <1>6, <1>7, <1>8

\* The indexed head is read.
LEMMA ReadIndexedHeadStep ==
    ASSUME WalkInv, ReadIndexedHead
    PROVE  WalkInv' /\ (SkipInv => SkipInv')
<1>1. /\ pc = "head" /\ head' = IndexedHead /\ slice' = << >>
      /\ pc' = IF WantsPending(IndexedHead) THEN "pending" ELSE "db"
      /\ available' = StillAvailable
      /\ UNCHANGED <<world, walk, cursor, got, tipRead, missing>>
    BY DEF ReadIndexedHead
<1>2. /\ WorldTypes /\ List = "blocks" /\ Provider = "indexed" /\ Asking
      /\ IndexedHead \in 0 .. final /\ tipRead \in 0 .. top
      /\ missing \subseteq 0 .. MaxBlock
      /\ cursor # None => cursor \in HeadKeys /\ BlockOf(cursor) >= 1
    BY <1>1, WorldNumbers DEF WalkInv, ClientTypes, BlockCursors, Assembling, Asking
<1>3. << >> \in Seq(HeadKeys) /\ Descends(<< >>) /\ Len(<< >>) = 0 /\ 0 <= Count
    BY Numbers DEF Descends
<1>4. IndexedHead' = IndexedHead /\ PendingUpper' = PendingUpper
      /\ Filter' = Filter /\ \A k : Ahead(k)' = Ahead(k)
    BY <1>1 DEF IndexedHead, PendingUpper, Filter, Ahead, BlockOf, world
<1>5. SliceIsPending'
    <2>1. head' <= IndexedHead'
        BY <1>1, <1>2, <1>4, WorldNumbers
    <2>2. pc' = "pending" => WantsPending(head)'
        BY <1>1, <1>4 DEF WantsPending
    <2>3. slice' = << >> /\ Len(slice') = 0
        BY <1>1
    <2> QED
        BY <2>1, <2>2, <2>3 DEF SliceIsPending
<1>6. /\ WalkInv'
      /\ SkipInv /\ TipCovers' /\ SliceCovers' => SkipInv'
      /\ \A k \in available' :
             k \in available /\ (Ahead(k) => k \in Servable("blocks", "indexed", Filter))
    <2>1. /\ UNCHANGED <<world, walk, cursor, got>> /\ missing' = missing
          /\ tipRead' = tipRead /\ pc' \in {"head", "pending", "db"}
          /\ Descends(slice') /\ slice' \in Seq(HeadKeys) /\ Len(slice') <= Count
        BY <1>1, <1>3
    <2> QED
        BY <1>1, <1>2, <1>5, <2>1, AssemblyStep
<1>7. ASSUME SkipInv
      PROVE  TipCovers' /\ SliceCovers'
    <2>1. /\ hint = None \/ hint >= tipRead
          /\ \A k \in available : Ahead(k) =>
                 BlockOf(k) <= tipRead \/ BlockOf(k) <= IndexedHead
        BY <1>1, <1>7 DEF SkipInv, TipCovers
    <2>2. TipCovers'
        <3>1. hint' = hint /\ tipRead' = tipRead /\ pc' # "head" /\ cursor' = cursor
            BY <1>1 DEF world
        <3> QED
            BY <1>1, <1>6, <2>1, <3>1 DEF TipCovers, Ahead, BlockOf
    <2>3. ASSUME ~WantsPending(IndexedHead), NEW k \in available', Ahead(k)
          PROVE  ~(BlockOf(k) > IndexedHead)
        <3>1. /\ k \in HeadKeys /\ BlockOf(k) \in Nat
              /\ BlockOf(k) \in StoredBlocks(MaxBlock, Filter) \/ BlockOf(k) \in PendingZone(Filter)
            BY <1>2, <1>6, <2>3, ServableBlock
        <3>2. BlockOf(k) \in StoredBlocks(MaxBlock, Filter) => BlockOf(k) <= IndexedHead
            BY <1>2, WorldNumbers DEF StoredBlocks
        <3>3. BlockOf(k) \in PendingZone(Filter) => Filter # "final"
            BY DEF PendingZone
        <3>4. ASSUME BlockOf(k) \in PendingZone(Filter)
              PROVE  BlockOf(k) <= IndexedHead
            <4>1. ~(PendingUpper > IndexedHead)
                BY <2>3, <3>3, <3>4 DEF WantsPending
            <4>2. IndexedHead \in Nat /\ tipRead \in Nat
                BY <1>2, WorldNumbers
            <4>3. CASE cursor = None
                <5>1. PendingUpper = tipRead
                    BY <4>3 DEF PendingUpper
                <5> QED
                    BY <1>6, <2>1, <2>3, <3>1, <4>1, <4>2, <5>1
            <4>4. CASE cursor # None
                <5>1. BlockOf(k) < BlockOf(cursor)
                    BY <1>2, <2>3, <3>1, <4>4, HeadKeysOrder DEF Ahead
                <5>2. BlockOf(cursor) \in Nat
                    BY <1>2, <4>4, HeadKeysOrder
                <5>3. PendingUpper = BlockOf(cursor) - 1
                    BY <1>2, <4>4, <5>2 DEF PendingUpper, Below, AtLeast
                <5> QED
                    BY <3>1, <4>1, <4>2, <5>1, <5>2, <5>3
            <4> QED
                BY <4>3, <4>4
        <3> QED
            BY <1>2, <3>1, <3>2, <3>4, WorldNumbers
    <2>4. SliceCovers'
        <3>1. pc' = "db" => ~WantsPending(IndexedHead)
            BY <1>1
        <3>2. \A k : BlockOf(k)' = BlockOf(k)
            BY DEF BlockOf
        <3> QED
            BY <1>1, <1>4, <2>3, <3>1, <3>2 DEF SliceCovers, Ahead, BlockOf
    <2> QED
        BY <2>2, <2>4
<1> QED
    BY <1>6, <1>7

\* A window of blocks that all match fills a page, one of them not found or not.
LEMMA WindowIsFull ==
    ASSUME Askable, AtBlock, NEW gone \in Gone, NEW f,
           NEW a \in 0 .. BestHead, NEW t \in 0 .. BestHead,
           BlockWindow = a .. t, a + Count = t,
           \A m \in a .. t : BlockMatches(m, m <= final, f)
    PROVE  Len(RpcBlocks(gone, f).items) = Count
<1> DEFINE K == WindowKeys(gone, f)
           left == (a .. t) \ gone
           g == [k \in K |-> BlockOf(k)]
           p == RpcBlocks(gone, f)
<1>0. BestHead \in Nat /\ BestHead <= MaxBlock /\ Count \in Nat /\ MaxBlock \in Nat
      /\ a \in Nat /\ t \in Nat
    BY Numbers, WorldNumbers DEF Askable
<1>1. /\ IsPage(p, K, Count)
      /\ \A k : k \in K <=> k \in HeadKeys /\ BlockOf(k) \in left
    BY RpcBlocksIsPage
<1>2. IsFiniteSet(K)
    <2>1. K \in SUBSET AllKeys
        BY <1>1, HeadKeysOrder
    <2> QED
        BY <2>1, KeysOrder, FS_Subset
<1>3. Cardinality(left) >= Count
    <2>1. IsFiniteSet(a .. t) /\ Cardinality(a .. t) = Count + 1
        BY <1>0, FS_Interval
    <2>2. CASE left = a .. t
        <3>1. Cardinality(left) = Cardinality(a .. t)
            BY <2>2
        <3> HIDE DEF left
        <3> QED
            BY <1>0, <2>1, <3>1
    <2>3. CASE left # a .. t
        <3>1. PICK b : b \in a .. t /\ left = (a .. t) \ {b}
            <4>1. PICK b \in 0 .. top : gone = {b}
                BY <2>3 DEF Gone
            <4> QED
                BY <2>3, <4>1
        <3>2. Cardinality(left) = Cardinality(a .. t) - 1
            BY <2>1, <3>1, FS_RemoveElement
        <3> QED
            BY <1>0, <2>1, <3>2
    <2> QED
        BY <2>2, <2>3
<1> HIDE DEF K, p
<1>4. g \in Surjection(K, left)
    <2>1. \A k \in K : BlockOf(k) \in left
        BY <1>1
    <2>2. ASSUME NEW n \in left
          PROVE  \E k \in K : BlockOf(k) = n
        <3>1. n \in 0 .. MaxBlock
            BY <1>0
        <3> QED
            BY <1>1, <3>1, HeadKeysOrder
    <2> HIDE DEF left, BlockOf
    <2> QED
        BY <2>1, <2>2 DEF Surjection
<1>5. Cardinality(left) <= Cardinality(K) /\ IsFiniteSet(left)
    BY <1>2, <1>4, FS_Surjection
<1>6. Cardinality(K) \in Nat /\ Cardinality(left) \in Nat
    BY <1>2, <1>5, FS_CardinalityType
<1>7. /\ Len(p.items) <= Count /\ p.more \in BOOLEAN /\ (p.more => Len(p.items) = Count)
      /\ ~p.more => Len(p.items) = Cardinality(K)
    BY <1>1 DEF IsPage
<1> HIDE DEF left
<1>8. Len(p.items) = Count
    BY <1>0, <1>3, <1>5, <1>6, <1>7
<1> QED
    BY <1>8 DEF p

\* The pending slice is read.
LEMMA ReadPendingStep ==
    ASSUME WalkInv, ReadPending
    PROVE  WalkInv' /\ (SkipInv => SkipInv')
<1>1. PICK gone \in Gone :
        /\ pc = "pending" /\ missing' = missing \cup gone
        /\ slice' = PendingSlice(RpcBlocks(gone, Filter).items)
        /\ pc' = "db" /\ available' = StillAvailable
        /\ UNCHANGED <<world, walk, cursor, got, tipRead, head>>
    BY DEF ReadPending, Lose
<1>2. /\ WorldTypes /\ List = "blocks" /\ Provider = "indexed" /\ Asking
      /\ head \in 0 .. final /\ tipRead \in 0 .. top /\ head <= IndexedHead
      /\ missing \subseteq 0 .. MaxBlock /\ walk \in Lists
      /\ cursor \in AllKeys \cup {None}
      /\ cursor # None => cursor \in HeadKeys /\ BlockOf(cursor) >= 1
      /\ PendingUpper > head /\ Filter # "final"
    BY <1>1 DEF WalkInv, ClientTypes, BlockCursors, Assembling, Asking, SliceIsPending,
                WantsPending
<1>3. /\ top \in Nat /\ final \in Nat /\ final <= top /\ top <= MaxBlock /\ MaxBlock \in Nat
      /\ BestHead \in 0 .. top /\ IndexedHead \in 0 .. final /\ head \in Nat
      /\ \A n \in stored : n \in Nat /\ n <= final /\ n <= IndexedHead
    BY <1>2, WorldNumbers
<1>4. Askable /\ AtBlock
    BY <1>2 DEF Askable, AtBlock
<1> DEFINE K == WindowKeys(gone, Filter)
           p == RpcBlocks(gone, Filter)
           cut == PendingSlice(p.items)
<1>5. /\ IsPage(p, K, Count)
      /\ \A k : k \in K <=>
             /\ k \in HeadKeys /\ BlockOf(k) \in BlockWindow \ gone
             /\ BlockMatches(BlockOf(k), BlockOf(k) <= final, Filter)
      /\ \A k \in K : k \in HeadKeys /\ Ahead(k)
    BY <1>4, RpcBlocksIsPage
<1>6. slice' = cut
    BY <1>1
<1> HIDE DEF K, p
<1>7. /\ cut \in Seq(HeadKeys) /\ Descends(cut) /\ Len(cut) <= Count
      /\ \A i \in 1 .. Len(cut) : cut[i] \in K /\ BlockOf(cut[i]) > head
      /\ \A k \in K : BlockOf(k) > head /\ (Len(cut) < Count \/ k > Last(cut))
                      => k \in Range(cut)
      /\ (\A k \in K : BlockOf(k) > head) => cut = p.items
    <2>1. K \in SUBSET HeadKeys
        BY <1>5
    <2> QED
        BY <1>3, <1>5, <2>1, SliceOfPage
<1> HIDE DEF cut
<1>8. IndexedHead' = IndexedHead /\ PendingUpper' = PendingUpper /\ head' = head
      /\ Filter' = Filter
    BY <1>1 DEF IndexedHead, PendingUpper, Filter, BlockOf, world
<1>9. SliceIsPending'
    <2>1. cursor' = cursor /\ IndexedHead' >= head'
        BY <1>1, <1>2, <1>3, <1>8
    <2>2. \A i \in 1 .. Len(slice') :
            BlockOf(slice'[i]) > head' /\ (cursor' = None \/ slice'[i] < cursor')
        BY <1>5, <1>6, <1>7, <1>8, <2>1 DEF Ahead
    <2>3. head' <= IndexedHead' /\ PendingUpper' > head' /\ pc' # "pending"
        BY <1>1, <1>2, <1>8
    <2> QED
        BY <2>2, <2>3 DEF SliceIsPending, Ahead
<1>10. missing' \subseteq 0 .. MaxBlock /\ missing \subseteq missing'
    <2>1. \A n \in 0 .. top : n \in 0 .. MaxBlock
        BY <1>3
    <2>2. gone = {} \/ \E n \in 0 .. top : gone = {n}
        BY DEF Gone
    <2>3. \A n \in gone : n \in 0 .. MaxBlock
        BY <2>1, <2>2
    <2> QED
        BY <1>1, <1>2, <2>3
<1>11. /\ WalkInv'
       /\ SkipInv /\ TipCovers' /\ SliceCovers' => SkipInv'
       /\ \A k \in available' :
              k \in available /\ (Ahead(k) => k \in Servable("blocks", "indexed", Filter))
    <2>1. UNCHANGED <<world, walk, cursor, got>> /\ tipRead' = tipRead
        BY <1>1
    <2> QED
        BY <1>1, <1>2, <1>6, <1>7, <1>8, <1>9, <1>10, <2>1, AssemblyStep
<1>12. TipCovers'
    BY <1>1 DEF TipCovers
<1>13. ASSUME SkipInv, Filter # "busy",
              NEW k \in available', Ahead(k), BlockOf(k) > head, BlockOf(k) \notin missing',
              Len(cut) < Count \/ k > Last(cut)
       PROVE  k \in Range(cut)
    <2> DEFINE n == BlockOf(k)
    <2>1. /\ k \in HeadKeys /\ n \in Nat /\ n \in 0 .. MaxBlock
          /\ n \in StoredBlocks(MaxBlock, Filter) \/ n \in PendingZone(Filter)
        BY <1>2, <1>11, <1>13, ServableBlock
    <2>2. /\ hint = None \/ hint >= tipRead
          /\ n <= tipRead
        <3>1. /\ hint = None \/ hint >= tipRead
              /\ BlockOf(k) <= tipRead \/ BlockOf(k) <= head
            BY <1>1, <1>11, <1>13 DEF SkipInv, TipCovers
        <3> QED
            BY <1>3, <1>13, <2>1, <3>1
    <2>3. n <= BestHead /\ BlockMatches(n, n <= final, Filter)
        <3>1. CASE n \in StoredBlocks(MaxBlock, Filter)
            <4>1. n \in stored /\ BlockMatches(n, TRUE, Filter)
                BY <3>1 DEF StoredBlocks
            <4>2. n <= final /\ (n <= final) = TRUE
                BY <1>3, <4>1
            <4>3. BlockMatches(n, n <= final, Filter)
                BY <4>1, <4>2
            <4>4. hint \in 0 .. top \cup {None}
                BY <1>2 DEF WorldTypes
            <4>5. n <= BestHead
                <5>1. hint = None => BestHead = final
                    BY DEF BestHead
                <5>2. hint # None => BestHead = hint /\ hint \in Nat /\ hint >= tipRead
                    BY <1>3, <2>2, <4>4 DEF BestHead
                <5>3. tipRead \in Nat
                    BY <1>2, <1>3
                <5> HIDE DEF n
                <5> QED
                    BY <1>3, <2>1, <2>2, <4>2, <5>1, <5>2, <5>3
            <4> QED
                BY <4>3, <4>5
        <3>2. CASE n \in PendingZone(Filter)
            <4>1. n \in IndexedHead + 1 .. BestHead /\ BlockMatches(n, n <= final, Filter)
                BY <3>2 DEF PendingZone
            <4> QED
                BY <1>3, <4>1
        <3> QED
            BY <2>1, <3>1, <3>2
    <2>4. PICK a \in 0 .. BestHead, t \in 0 .. BestHead :
            /\ BlockWindow = a .. t /\ (a = 0 \/ a + Count = t)
            /\ \A l \in HeadKeys : Ahead(l) /\ BlockOf(l) <= BestHead => BlockOf(l) <= t
        BY <1>4, BlockWindowIsTop
    <2>5. n <= t
        BY <1>13, <2>1, <2>3, <2>4
    <2>6. CASE a <= n
        <3>1. n \in BlockWindow \ gone
            BY <1>1, <1>3, <1>13, <2>1, <2>4, <2>5, <2>6
        <3>2. k \in K
            BY <1>5, <2>1, <2>3, <3>1
        <3> QED
            BY <1>7, <1>13, <3>2
    <2>7. CASE ~(a <= n)
        <3>1. a \in Nat /\ t \in Nat /\ n < a /\ a + Count = t
            BY <1>3, <2>1, <2>4, <2>7
        <3>2. \A m \in a .. t : BlockMatches(m, m <= final, Filter)
            <4> SUFFICES ASSUME NEW m \in a .. t
                         PROVE  BlockMatches(m, m <= final, Filter)
                OBVIOUS
            <4>1. m \in Nat /\ n < m
                BY <2>1, <3>1
            <4>2. CASE Filter = "pending"
                <5>1. ~(n <= final)
                    BY <2>3, <4>2 DEF BlockMatches
                <5>2. ~(m <= final)
                    BY <1>3, <2>1, <4>1, <5>1
                <5> QED
                    BY <4>2, <5>2 DEF BlockMatches
            <4>3. CASE Filter # "pending"
                BY <1>2, <1>13, <4>3 DEF BlockMatches
            <4> QED
                BY <4>2, <4>3
        <3>3. Len(p.items) = Count
            BY <1>4, <2>4, <3>1, <3>2, WindowIsFull DEF p
        <3>4. \A l \in K : l \in HeadKeys /\ BlockOf(l) \in Nat /\ n < BlockOf(l)
            BY <1>5, <2>1, <2>4, <3>1, HeadKeysOrder
        <3>5. cut = p.items
            <4>1. \A l \in K : BlockOf(l) > head
                BY <1>3, <1>13, <2>1, <3>4
            <4> QED
                BY <1>7, <4>1
        <3>6. Len(cut) = Count /\ ~(Len(cut) < Count) /\ Count \in 1 .. Len(cut)
            BY <3>3, <3>5, Numbers
        <3>7. Last(cut) \in K
            BY <1>7, <3>6 DEF Last
        <3>8. k < Last(cut)
            BY <2>1, <3>4, <3>7, HeadKeysOrder, KeysOrder
        <3>9. k \in Nat /\ Last(cut) \in Nat
            BY <2>1, <3>4, <3>7, HeadKeysOrder, KeysOrder
        <3> QED
            BY <1>13, <3>6, <3>8, <3>9
    <2> QED
        BY <1>3, <2>1, <2>6, <2>7
<1>14. ASSUME SkipInv
       PROVE  SliceCovers'
    <2>1. \A k : BlockOf(k)' = BlockOf(k) /\ Ahead(k)' = Ahead(k)
        BY <1>1 DEF BlockOf, Ahead
    <2> QED
        BY <1>6, <1>8, <1>13, <1>14, <2>1 DEF SliceCovers, BlockOf, Ahead
<1> QED
    BY <1>11, <1>12, <1>14

\* What the database is asked for: the stored blocks up to the head the slice was cut
\* at and below the cursor.
DbKeys == {Key(n, 0) : n \in StoredBlocks(DbUpper, Filter)}

\* They are at most at the indexed head and below the cursor, and all that are.
LEMMA DbKeysAreBelow ==
    ASSUME WalkInv, pc = "db"
    PROVE  /\ \A k \in DbKeys : k \in HeadKeys /\ Ahead(k) /\ BlockOf(k) <= head
           /\ \A k \in Servable("blocks", "indexed", Filter) :
                  Ahead(k) /\ ~(BlockOf(k) > head) => k \in DbKeys
<1>1. /\ WorldTypes /\ head \in 0 .. final /\ head <= IndexedHead
      /\ cursor # None => cursor \in HeadKeys /\ BlockOf(cursor) >= 1
    BY DEF WalkInv, ClientTypes, BlockCursors, SliceIsPending, Asking, Assembling
<1>2. /\ final \in Nat /\ top \in Nat /\ final <= top /\ top <= MaxBlock /\ MaxBlock \in Nat
      /\ head \in Nat /\ IndexedHead \in Nat
      /\ \A n \in stored : n \in Nat /\ n <= final
      /\ cursor # None => BlockOf(cursor) \in Nat /\ cursor \in AllKeys
    BY <1>1, WorldNumbers, HeadKeysOrder
<1>3. /\ DbUpper \in Nat /\ DbUpper <= head
      /\ cursor = None => DbUpper = head
      /\ cursor # None => DbUpper = head \/ DbUpper = BlockOf(cursor) - 1
      /\ cursor # None => DbUpper < BlockOf(cursor)
    BY <1>1, <1>2 DEF DbUpper, AtMost, Below, AtLeast
<1>4. ASSUME NEW k \in DbKeys
      PROVE  k \in HeadKeys /\ Ahead(k) /\ BlockOf(k) <= head
    <2>1. PICK n \in stored : n <= DbUpper /\ k = Key(n, 0)
        BY DEF DbKeys, StoredBlocks
    <2>2. n \in 0 .. MaxBlock /\ n <= head /\ n \in Nat
        BY <1>2, <1>3, <2>1
    <2>3. k \in HeadKeys /\ BlockOf(k) = n
        BY <2>1, <2>2, HeadKeysOrder
    <2>4. cursor # None => BlockOf(k) < BlockOf(cursor)
        BY <1>2, <1>3, <2>1, <2>2, <2>3
    <2>5. cursor # None => k < cursor
        BY <1>2, <2>3, <2>4, KeysOrder, HeadKeysOrder
    <2> QED
        BY <2>2, <2>3, <2>5 DEF Ahead
<1>5. ASSUME NEW k \in Servable("blocks", "indexed", Filter), Ahead(k), ~(BlockOf(k) > head)
      PROVE  k \in DbKeys
    <2> DEFINE n == BlockOf(k)
    <2>1. /\ k \in HeadKeys /\ n \in Nat /\ k = Key(n, 0)
          /\ n \in StoredBlocks(MaxBlock, Filter) \/ n \in PendingZone(Filter)
        BY <1>1, ServableBlock
    <2>2. cursor # None => n < BlockOf(cursor)
        BY <1>1, <1>5, <2>1, HeadKeysOrder DEF Ahead
    <2> HIDE DEF n
    <2>3. ~(n > head)
        BY <1>5 DEF n
    <2>4. n \notin PendingZone(Filter)
        <3>1. n \in PendingZone(Filter) => n \in IndexedHead + 1 .. BestHead
            BY DEF PendingZone
        <3>2. BestHead \in Nat
            BY <1>1, WorldNumbers
        <3> QED
            BY <1>1, <1>2, <2>1, <2>3, <3>1, <3>2
    <2>5. Filter # "pending" /\ n \in stored /\ BlockMatches(n, TRUE, Filter)
        BY <2>1, <2>4 DEF StoredBlocks
    <2>6. n <= DbUpper
        BY <1>2, <1>3, <2>1, <2>2, <2>3
    <2>7. n \in StoredBlocks(DbUpper, Filter)
        BY <2>5, <2>6 DEF StoredBlocks
    <2> QED
        BY <2>1, <2>7 DEF DbKeys
<1> QED
    BY <1>4, <1>5

\* The page is filled from the database.
LEMMA FillPageStep ==
    ASSUME WalkInv, FillPage
    PROVE  WalkInv' /\ (SkipInv => SkipInv')
<1> DEFINE need == Count - Len(slice)
           rest == Trim(QueryBlocks(need + 1, DbUpper, Filter).items, need)
<1>1. /\ pc = "db" /\ available' = StillAvailable
      /\ UNCHANGED <<world, walk, page, missing>>
      /\ IF need > 0
         THEN /\ got' = got \o slice \o rest.items
              /\ cursor' = IF rest.more THEN Last(rest.items) ELSE cursor
              /\ pc' = IF rest.more THEN "ask" ELSE "done"
         ELSE Receive(slice, head > 0 /\ PendingUpper > head)
    BY DEF FillPage
<1>2. /\ WorldTypes /\ List = "blocks" /\ Provider = "indexed" /\ Asking
      /\ walk \in Lists /\ head \in 0 .. final /\ missing \subseteq 0 .. MaxBlock
      /\ slice \in Seq(HeadKeys) /\ Descends(slice) /\ Len(slice) <= Count
      /\ \A i \in 1 .. Len(slice) : BlockOf(slice[i]) > head /\ Ahead(slice[i])
      /\ slice # << >> => PendingUpper > head
      /\ got \in Seq(AllKeys) /\ available \in SUBSET AllKeys
      /\ available \subseteq HeadKeys
    BY <1>1 DEF WalkInv, ClientTypes, BlockCursors, SliceIsPending, Asking, Assembling
<1>3. /\ head \in Nat /\ Count \in Nat /\ Count >= 1 /\ Len(slice) \in Nat
      /\ \A i \in 1 .. Len(slice) : slice[i] \in HeadKeys /\ BlockOf(slice[i]) \in Nat
      /\ slice \in Seq(AllKeys)
      /\ need \in Nat
    <2>1. head \in Nat
        BY <1>2, WorldNumbers
    <2>2. Len(slice) \in Nat /\ \A i \in 1 .. Len(slice) : slice[i] \in HeadKeys
        BY <1>2
    <2>3. HeadKeys \subseteq AllKeys
        BY HeadKeysOrder
    <2>4. slice \in Seq(AllKeys)
        BY <1>2, <2>3
    <2>5. need \in Nat
        BY <1>2, <2>2, Numbers
    <2> QED
        BY <2>1, <2>2, <2>4, <2>5, Numbers, HeadKeysOrder
<1>4. /\ \A k \in DbKeys : k \in HeadKeys /\ Ahead(k) /\ BlockOf(k) <= head
      /\ \A k \in Servable("blocks", "indexed", Filter) :
             Ahead(k) /\ ~(BlockOf(k) > head) => k \in DbKeys
    BY <1>1, DbKeysAreBelow
<1>5. ASSUME need > 0
      PROVE  IsPage(rest, DbKeys, need)
    <2>1. DbKeys \in SUBSET AllKeys
        BY <1>4, HeadKeysOrder
    <2>2. IsFiniteSet(DbKeys) /\ DbKeys \in SUBSET Nat
        BY <2>1, KeysOrder, FS_Subset
    <2>3. QueryBlocks(need + 1, DbUpper, Filter) = Trim(NewestFirst(DbKeys), need + 1)
        BY DEF QueryBlocks, DbKeys
    <2>4. need \in Nat /\ need >= 1
        BY <1>3, <1>5
    <2> HIDE DEF need
    <2>5. /\ IsPage(Trim(NewestFirst(DbKeys), need), DbKeys, need)
          /\ Trim(Trim(NewestFirst(DbKeys), need + 1).items, need)
               = Trim(NewestFirst(DbKeys), need)
        BY <2>2, <2>4, TrimIsPage
    <2> QED
        BY <2>3, <2>5
<1>6. SkipInv /\ Accounted => Filter # "busy"
    <2>1. Filter = "busy" => walk = <<"blocks", "indexed", "busy">>
        <3>1. walk \in {"blocks", "extrinsics", "transfers", "events"}
                           \X {"rpc", "indexed"} \X STRING
            BY <1>2, ListingsAssumption
        <3>2. walk = <<walk[1], walk[2], walk[3]>>
            BY <3>1
        <3> QED
            BY <1>2, <3>2 DEF List, Provider, Filter
    <2> QED
        BY <2>1 DEF Accounted
<1>7. ASSUME SkipInv, Filter # "busy",
             NEW k \in available, Ahead(k), BlockOf(k) > head, BlockOf(k) \notin missing,
             Len(slice) < Count \/ k > Last(slice)
      PROVE  k \in Range(slice)
    BY <1>1, <1>7 DEF SkipInv, SliceCovers
<1>8. ReadsToTheEnd' => ReadsToTheEnd /\ head > 0 /\ Filter # "busy"
    BY <1>1, <1>2 DEF ReadsToTheEnd, List, Provider, Filter, page
<1> HIDE DEF need, rest
<1>9. CASE need > 0
    <2> DEFINE items == slice \o rest.items
    <2>1. /\ rest.more \in BOOLEAN
          /\ rest.items \in Seq(DbKeys) /\ Descends(rest.items)
          /\ \A k \in DbKeys, i \in 1 .. Len(rest.items) :
                 k > rest.items[i] => k \in Range(rest.items)
          /\ rest.more => Len(rest.items) = need /\ \E k \in DbKeys : k < Last(rest.items)
          /\ ~rest.more => Range(rest.items) = DbKeys
        BY <1>5, <1>9 DEF IsPage
    <2>2. /\ Len(rest.items) \in Nat
          /\ \A i \in 1 .. Len(rest.items) : rest.items[i] \in DbKeys
          /\ rest.items # << >> <=> Len(rest.items) >= 1
          /\ DOMAIN rest.items = 1 .. Len(rest.items)
        BY <2>1
    <2>3. rest.items \in Seq(AllKeys)
        <3>1. DbKeys \subseteq AllKeys
            BY <1>4, HeadKeysOrder
        <3> QED
            BY <2>1, <3>1
    <2>4. rest.items # << >> =>
            /\ Last(rest.items) = rest.items[Len(rest.items)]
            /\ Len(rest.items) \in 1 .. Len(rest.items)
            /\ Last(rest.items) \in DbKeys
        BY <2>2 DEF Last
    <2>5. slice # << >> => \A i \in 1 .. Len(rest.items) : rest.items[i] < Last(slice)
        <3> SUFFICES ASSUME slice # << >>, NEW i \in 1 .. Len(rest.items)
                     PROVE  rest.items[i] < Last(slice)
            OBVIOUS
        <3>1. Len(slice) \in 1 .. Len(slice)
            BY <1>2, <1>3
        <3>2. Last(slice) \in HeadKeys /\ BlockOf(Last(slice)) > head
              /\ BlockOf(Last(slice)) \in Nat
            BY <1>2, <1>3, <3>1 DEF Last
        <3>3. rest.items[i] \in HeadKeys /\ BlockOf(rest.items[i]) <= head
              /\ BlockOf(rest.items[i]) \in Nat
            BY <1>4, <2>2, HeadKeysOrder
        <3>4. BlockOf(rest.items[i]) < BlockOf(Last(slice))
            BY <1>3, <3>2, <3>3
        <3> QED
            BY <3>2, <3>3, <3>4, KeysOrder, HeadKeysOrder
    <2>6. /\ items \in Seq(AllKeys) /\ Descends(items)
          /\ Range(items) = Range(slice) \cup Range(rest.items)
          /\ rest.items # << >> => items # << >> /\ Last(items) = Last(rest.items)
          /\ rest.items = << >> => items = slice
        BY <1>2, <1>3, <2>1, <2>3, <2>5, JoinDescends
    <2>7. \A i \in 1 .. Len(items) : Ahead(items[i])
        <3>1. \A k \in Range(slice) : Ahead(k)
            <4>1. DOMAIN slice = 1 .. Len(slice)
                BY <1>2
            <4> QED
                BY <1>2, <4>1 DEF Range
        <3>2. \A k \in Range(rest.items) : Ahead(k)
            BY <1>4, <2>2 DEF Range
        <3>3. \A i \in 1 .. Len(items) : items[i] \in Range(items)
            <4>1. DOMAIN items = 1 .. Len(items)
                BY <2>6
            <4> HIDE DEF items
            <4> QED
                BY <4>1 DEF Range
        <3> QED
            BY <2>6, <3>1, <3>2, <3>3
    <2>8. rest.more => rest.items # << >>
        BY <1>9, <2>1, <2>2, <1>3
    <2>9. rest.more => Last(items) \in HeadKeys /\ BlockOf(Last(items)) >= 1
        <3> SUFFICES ASSUME rest.more
                     PROVE  Last(items) \in HeadKeys /\ BlockOf(Last(items)) >= 1
            OBVIOUS
        <3>1. Last(items) = Last(rest.items) /\ Last(items) \in DbKeys
            BY <2>4, <2>6, <2>8
        <3>2. PICK k \in DbKeys : k < Last(rest.items)
            BY <2>1
        <3>3. /\ k \in HeadKeys /\ Last(items) \in HeadKeys /\ k < Last(items)
              /\ BlockOf(k) \in Nat /\ BlockOf(Last(items)) \in Nat
            BY <1>4, <3>1, <3>2, HeadKeysOrder
        <3>4. BlockOf(k) < BlockOf(Last(items))
            BY <3>3, HeadKeysOrder
        <3> QED
            BY <3>3, <3>4
    <2>10. got' = got \o items
        <3>1. (got \o slice) \o rest.items = got \o (slice \o rest.items)
            <4>1. \A s, t, u \in Seq(AllKeys) : (s \o t) \o u = s \o (t \o u)
                BY ConcatAssociative
            <4>2. got \in Seq(AllKeys) /\ slice \in Seq(AllKeys) /\ rest.items \in Seq(AllKeys)
                BY <1>2, <1>3, <2>3
            <4> QED
                BY <4>1, <4>2, Zenon
        <3>2. got' = (got \o slice) \o rest.items
            BY <1>1, <1>9
        <3> QED
            BY <3>1, <3>2
    <2>11. cursor' = IF rest.more THEN Last(items) ELSE cursor
        BY <1>1, <1>9, <2>6, <2>8
    <2>12. pc' = IF rest.more THEN "ask" ELSE "done"
        BY <1>1, <1>9
    <2>13. /\ UNCHANGED <<world, walk, page>> /\ missing' = missing
        BY <1>1
    <2>14. rest.more => items # << >>
        BY <2>6, <2>8
    <2> HIDE DEF items
    <2>15. /\ WalkInv'
           /\ Range(got') = Range(got) \cup Range(items)
           /\ items # << >> => got' # << >> /\ Last(got') = Last(items)
           /\ items = << >> => got' = got
        BY <1>1, <1>2, <2>1, <2>6, <2>7, <2>9, <2>10, <2>11, <2>12, <2>13, <2>14, Arrives
    <2>16. ASSUME SkipInv
           PROVE  SkipInv'
        <3>1. Len(slice) < Count
            BY <1>3, <1>9 DEF need
        <3>2. ASSUME Accounted,
                     NEW k \in Servable(List, Provider, Filter), k \in available,
                     Ahead(k), BlockOf(k) \notin missing', items # << >>, k > Last(items)
              PROVE  k \in Range(items)
            <4>1. CASE BlockOf(k) > head
                <5>1. k \in Range(slice)
                    BY <1>6, <1>7, <2>13, <2>16, <3>1, <3>2, <4>1
                <5> QED
                    BY <2>6, <5>1
            <4>2. CASE ~(BlockOf(k) > head)
                <5>1. k \in DbKeys
                    BY <1>2, <1>4, <3>2, <4>2
                <5>2. k \in Range(rest.items)
                    <6>1. CASE rest.items # << >>
                        BY <2>1, <2>4, <2>6, <3>2, <5>1, <6>1
                    <6>2. CASE rest.items = << >>
                        BY <2>1, <2>8, <5>1, <6>2
                    <6> QED
                        BY <6>1, <6>2
                <5> QED
                    BY <2>6, <5>2
            <4> QED
                BY <4>1, <4>2
        <3>3. ASSUME Accounted, NEW k \in available'
              PROVE  /\ ~Ahead(k) /\ BlockOf(k) \notin missing' => k \in Range(got')
                     /\ Ahead(k) => k \in Servable(List, Provider, Filter) /\ k \in available
                     /\ got' # << >> /\ k > Last(got') /\ BlockOf(k) \notin missing'
                        => k \in Range(got')
            <4>1. /\ k \in available
                  /\ Ahead(k) => k \in Servable(List, Provider, Filter)
                <5>1. k \in available /\ k \in AllKeys
                    BY <1>1, <1>2 DEF StillAvailable
                <5>2. cursor # None => cursor \in Nat /\ k \in Nat
                    BY <5>1, KeysOrder DEF WalkInv, ClientTypes
                <5> QED
                    BY <1>1, <5>1, <5>2 DEF StillAvailable, Ahead
            <4>2. ~Ahead(k) /\ BlockOf(k) \notin missing' => k \in Range(got')
                BY <1>2, <2>13, <2>15, <2>16, <3>3, <4>1, PassedIsShown
            <4>3. ASSUME Ahead(k), got' # << >>, k > Last(got'), BlockOf(k) \notin missing'
                  PROVE  k \in Range(got')
                <5>1. CASE items # << >>
                    BY <2>15, <3>2, <3>3, <4>1, <4>3, <5>1
                <5>2. CASE items = << >>
                    <6>1. got # << >> /\ k > Last(got) /\ Descends(got)
                        BY <2>15, <4>3, <5>2 DEF WalkInv, ClientTypes
                    <6>2. cursor # None /\ cursor = Last(got)
                        BY <1>2, <6>1 DEF WalkInv, CursorIsLast
                    <6>3. k \in Nat /\ Last(got) \in Nat
                        BY <1>2, <4>1, <6>1, LastOfKeys, KeysOrder
                    <6> QED
                        BY <4>3, <6>1, <6>2, <6>3 DEF Ahead
                <5> QED
                    BY <5>1, <5>2
            <4> QED
                BY <4>1, <4>2, <4>3
        <3>4. NothingSkipped' /\ ShownSoFar'
            <4>1. Accounted' = Accounted
                BY <2>13 DEF Accounted
            <4>2. walk' # <<"blocks", "indexed", "busy">> => Accounted
                BY <2>13 DEF Accounted
            <4>3. NothingSkipped'
                BY <3>3, <4>2 DEF NothingSkipped, BlockOf
            <4>4. ShownSoFar'
                BY <3>3, <4>1 DEF ShownSoFar, BlockOf
            <4> QED
                BY <4>3, <4>4
        <3>5. TipCovers' /\ SliceCovers'
            BY <2>12 DEF TipCovers, SliceCovers
        <3>6. EndMeansAll'
            <4> SUFFICES ASSUME pc' = "done", ReadsToTheEnd', missing' = {}
                         PROVE  available' \subseteq Range(got')
                BY DEF EndMeansAll
            <4>1. ReadsToTheEnd /\ ~rest.more /\ Filter # "busy" /\ missing = {}
                BY <1>8, <2>12, <2>13
            <4>2. Accounted
                BY <4>1 DEF Accounted, Filter
            <4>3. ASSUME NEW k \in available'
                  PROVE  k \in Range(got')
                <5>1. CASE ~Ahead(k)
                    BY <3>3, <4>2, <5>1
                <5>2. CASE Ahead(k) /\ BlockOf(k) > head
                    <6>1. k \in Range(slice)
                        BY <1>7, <2>16, <3>1, <3>3, <4>1, <4>2, <5>2
                    <6> QED
                        BY <2>6, <2>15, <6>1
                <5>3. CASE Ahead(k) /\ ~(BlockOf(k) > head)
                    <6>1. k \in DbKeys
                        BY <1>2, <1>4, <3>3, <4>2, <5>3
                    <6> QED
                        BY <2>1, <2>6, <2>15, <4>1, <6>1
                <5> QED
                    BY <5>1, <5>2, <5>3
            <4> QED
                BY <4>3
        <3> QED
            BY <3>4, <3>5, <3>6 DEF SkipInv
    <2> QED
        BY <2>15, <2>16
<1>10. CASE ~(need > 0)
    <2> DEFINE more == head > 0 /\ PendingUpper > head
    <2>1. Len(slice) = Count /\ slice # << >> /\ Len(slice) \in 1 .. Len(slice)
        BY <1>2, <1>3, <1>10 DEF need
    <2>2. /\ Last(slice) \in HeadKeys /\ BlockOf(Last(slice)) > head
          /\ BlockOf(Last(slice)) >= 1 /\ BlockOf(Last(slice)) \in Nat
        BY <1>2, <1>3, <2>1 DEF Last
    <2>3. /\ got' = got \o slice
          /\ cursor' = IF more THEN Last(slice) ELSE cursor
          /\ pc' = IF more THEN "ask" ELSE "done"
        BY <1>1, <1>10 DEF Receive
    <2>4. UNCHANGED <<world, walk, page>> /\ missing' = missing
        BY <1>1
    <2>5. more \in BOOLEAN
        OBVIOUS
    <2> HIDE DEF more
    <2>6. /\ WalkInv'
          /\ Range(got') = Range(got) \cup Range(slice)
          /\ got' # << >> /\ Last(got') = Last(slice)
        BY <1>1, <1>2, <1>3, <2>1, <2>2, <2>3, <2>4, <2>5, Arrives
    <2>7. ASSUME SkipInv
          PROVE  SkipInv'
        <3>1. ASSUME Accounted,
                     NEW k \in Servable(List, Provider, Filter),
                     Ahead(k), BlockOf(k) \notin missing', k > Last(slice), k \in available
              PROVE  k \in Range(slice)
            <4>1. /\ k \in HeadKeys /\ BlockOf(k) \in Nat /\ k \in Nat /\ Last(slice) \in Nat
                BY <1>2, <2>2, <3>1, HeadKeysOrder, KeysOrder
            <4>2. BlockOf(Last(slice)) < BlockOf(k)
                BY <2>2, <3>1, <4>1, HeadKeysOrder
            <4>3. BlockOf(k) > head
                BY <1>3, <2>2, <4>1, <4>2
            <4> QED
                BY <1>6, <1>7, <2>4, <2>7, <3>1, <4>3
        <3>2. ASSUME Accounted, NEW k \in available',
                     k > Last(got'), BlockOf(k) \notin missing'
              PROVE  k \in Range(got')
            <4>1. k \in available /\ (Ahead(k) => k \in Servable(List, Provider, Filter))
                <5>1. k \in available /\ k \in AllKeys
                    BY <1>1, <1>2 DEF StillAvailable
                <5>2. cursor # None => cursor \in Nat /\ k \in Nat
                    BY <5>1, KeysOrder DEF WalkInv, ClientTypes
                <5> QED
                    BY <1>1, <5>1, <5>2 DEF StillAvailable, Ahead
            <4>2. CASE ~Ahead(k)
                BY <1>2, <2>4, <2>6, <2>7, <3>2, <4>1, <4>2, PassedIsShown
            <4>3. CASE Ahead(k)
                BY <2>6, <3>1, <3>2, <4>1, <4>3
            <4> QED
                BY <4>2, <4>3
        <3>3. NothingSkipped' /\ ShownSoFar'
            <4>1. Accounted' = Accounted
                BY <2>4 DEF Accounted
            <4>2. walk' # <<"blocks", "indexed", "busy">> => Accounted
                BY <2>4 DEF Accounted
            <4>3. NothingSkipped'
                BY <3>2, <4>2 DEF NothingSkipped, BlockOf
            <4>4. ShownSoFar'
                BY <3>2, <4>1 DEF ShownSoFar, BlockOf
            <4> QED
                BY <4>3, <4>4
        <3>4. TipCovers' /\ SliceCovers'
            BY <2>3 DEF TipCovers, SliceCovers
        <3>5. EndMeansAll'
            <4>1. ReadsToTheEnd' => more
                BY <1>2, <1>8, <2>1 DEF more
            <4> QED
                BY <2>3, <4>1 DEF EndMeansAll
        <3> QED
            BY <3>3, <3>4, <3>5 DEF SkipInv
    <2> QED
        BY <2>6, <2>7
<1> QED
    BY <1>9, <1>10

------------------------------------------------------------------------------
(***************************************************************************)
(* The steps of the others, and the start and the end of a walk.           *)
(***************************************************************************)

\* The pages of the node.
LEMMA AskRpcStep ==
    ASSUME WalkInv,
           AskRpcBlocks \/ AskRpcExtrinsics \/ AskRpcTransfers \/ AskRpcEvents
    PROVE  WalkInv' /\ (SkipInv => SkipInv')
<1>1. \E gone, p :
        /\ gone \in Gone /\ pc = "ask" /\ walk # NoWalk /\ Provider = "rpc"
        /\ \/ List = "blocks" /\ p = RpcBlocks(gone, Filter)
           \/ List = "extrinsics" /\ p = RpcExtrinsics(gone, Filter)
           \/ List = "transfers" /\ p = RpcTransfers(gone, Filter)
           \/ List = "events" /\ p = RpcEvents(gone, Filter)
        /\ missing' = missing \cup gone /\ Receive(p.items, p.more)
        /\ available' = StillAvailable /\ UNCHANGED <<world, walk, page>>
    <2>1. CASE AskRpcBlocks
        BY <2>1 DEF AskRpcBlocks, AskRpc, Lose
    <2>2. CASE AskRpcExtrinsics
        BY <2>2 DEF AskRpcExtrinsics, AskRpc, Lose
    <2>3. CASE AskRpcTransfers
        BY <2>3 DEF AskRpcTransfers, AskRpc, Lose
    <2>4. CASE AskRpcEvents
        BY <2>4 DEF AskRpcEvents, AskRpc, Lose
    <2> QED
        BY <2>1, <2>2, <2>3, <2>4
<1>2. PICK gone, p :
        /\ gone \in Gone /\ pc = "ask" /\ walk # NoWalk /\ Provider = "rpc"
        /\ \/ List = "blocks" /\ p = RpcBlocks(gone, Filter)
           \/ List = "extrinsics" /\ p = RpcExtrinsics(gone, Filter)
           \/ List = "transfers" /\ p = RpcTransfers(gone, Filter)
           \/ List = "events" /\ p = RpcEvents(gone, Filter)
        /\ missing' = missing \cup gone /\ Receive(p.items, p.more)
        /\ available' = StillAvailable /\ UNCHANGED <<world, walk, page>>
    BY <1>1
<1>3. walk \in Lists /\ Askable
    BY <1>2 DEF WalkInv, ClientTypes, Askable, Asking
<1>4. List = "blocks" => AtBlock
    BY <1>2 DEF WalkInv, BlockCursors, Asking, AtBlock
<1>5. Answers(p, gone)
    BY <1>2, <1>3, <1>4, RpcBlocksAnswer, RpcScansAnswer
<1>6. gone \subseteq 0 .. MaxBlock
    <2>1. \A n \in 0 .. top : n \in 0 .. MaxBlock
        BY <1>3, WorldNumbers DEF Askable
    <2>2. gone = {} \/ \E n \in 0 .. top : gone = {n}
        BY <1>2 DEF Gone
    <2> QED
        BY <2>1, <2>2
<1> QED
    BY <1>2, <1>3, <1>5, <1>6, AskedStep

\* The pages of the database.
LEMMA AskQueryStep ==
    ASSUME WalkInv, AskIndexedExtrinsics \/ AskIndexedTransfers
    PROVE  WalkInv' /\ (SkipInv => SkipInv')
<1>1. \E p :
        /\ pc = "ask" /\ walk # NoWalk /\ Provider = "indexed"
        /\ \/ List = "extrinsics" /\ p = QueryExtrinsics(Filter)
           \/ List = "transfers" /\ p = QueryTransfers(Filter)
        /\ missing' = missing \cup {} /\ Receive(p.items, p.more)
        /\ available' = StillAvailable /\ UNCHANGED <<world, walk, page>>
    <2>1. CASE AskIndexedExtrinsics
        BY <2>1 DEF AskIndexedExtrinsics, AskQuery
    <2>2. CASE AskIndexedTransfers
        BY <2>2 DEF AskIndexedTransfers, AskQuery
    <2> QED
        BY <2>1, <2>2
<1>2. PICK p :
        /\ pc = "ask" /\ walk # NoWalk /\ Provider = "indexed"
        /\ \/ List = "extrinsics" /\ p = QueryExtrinsics(Filter)
           \/ List = "transfers" /\ p = QueryTransfers(Filter)
        /\ missing' = missing \cup {} /\ Receive(p.items, p.more)
        /\ available' = StillAvailable /\ UNCHANGED <<world, walk, page>>
    BY <1>1
<1>3. walk \in Lists /\ Askable /\ List # "blocks"
    BY <1>2 DEF WalkInv, ClientTypes, Askable, Asking
<1>4. Answers(p, {})
    BY <1>2, <1>3, QueriesAnswer
<1> QED
    BY <1>2, <1>3, <1>4, AskedStep

\* Larger sets of stored blocks reach at least as high.
LEMMA HeadGrows ==
    ASSUME NEW S \in SUBSET Nat, NEW T \in SUBSET Nat, S \subseteq T,
           NEW n \in Nat, \A y \in T : y <= n
    PROVE  (IF S = {} THEN 0 ELSE Max(S)) <= (IF T = {} THEN 0 ELSE Max(T))
<1>1. CASE S = {}
    <2>1. T # {} => Max(T) \in Nat
        BY MaxIsGreatest
    <2> QED
        BY <1>1, <2>1
<1>2. CASE S # {}
    <2>1. Max(S) \in S /\ Max(S) \in T
        BY <1>2, MaxIsGreatest
    <2>2. Max(S) <= Max(T)
        BY <2>1, MaxIsGreatest
    <2> QED
        BY <1>2, <2>1, <2>2
<1> QED
    BY <1>1, <1>2

\* The node, the head watch and the indexer only add to what a walk relies on.
LEMMA WorldStep ==
    ASSUME WalkInv, Grow \/ Finalize \/ PublishBest \/ Disconnect \/ StoreBlock
    PROVE  WalkInv' /\ (SkipInv => SkipInv')
<1>1. /\ UNCHANGED client /\ WorldTypes /\ ClientTypes /\ CursorIsLast /\ BlockCursors
      /\ SliceIsPending
    BY DEF WalkInv, Grow, Finalize, PublishBest, Disconnect, StoreBlock
<1>2. /\ walk' = walk /\ pc' = pc /\ cursor' = cursor /\ got' = got
      /\ tipRead' = tipRead /\ head' = head /\ slice' = slice
      /\ available' = available /\ missing' = missing
    BY <1>1 DEF client, page
<1>3. /\ top \in Nat /\ final \in Nat /\ final <= top /\ top <= MaxBlock /\ MaxBlock \in Nat
      /\ \A n \in stored : n \in Nat /\ n <= final
    BY <1>1, WorldNumbers
<1>4. /\ WorldTypes' /\ top' \in Nat /\ final' \in Nat
      /\ top <= top' /\ final <= final' /\ stored \subseteq stored'
      /\ hint' \in {hint, top, None}
    <2>1. CASE Grow
        BY <1>1, <1>3, <2>1 DEF Grow, WorldTypes
    <2>2. CASE Finalize
        BY <1>1, <1>3, <2>2 DEF Finalize, WorldTypes
    <2>3. CASE PublishBest
        BY <1>1, <1>3, <2>3 DEF PublishBest, WorldTypes
    <2>4. CASE Disconnect
        BY <1>1, <1>3, <2>4 DEF Disconnect, WorldTypes
    <2>5. CASE StoreBlock
        BY <1>1, <1>3, <2>5 DEF StoreBlock, WorldTypes
    <2> QED
        BY <2>1, <2>2, <2>3, <2>4, <2>5
<1>5. IndexedHead <= IndexedHead' /\ IndexedHead \in Nat /\ IndexedHead' \in Nat
    <2>1. \A n \in stored' : n \in Nat /\ n <= final'
        BY <1>4 DEF WorldTypes
    <2>2. stored \in SUBSET Nat /\ stored' \in SUBSET Nat
        BY <1>4, <2>1
    <2>3. IndexedHead <= IndexedHead'
        BY <1>4, <2>1, <2>2, HeadGrows DEF IndexedHead
    <2>4. IndexedHead' \in Nat
        BY <1>4, <2>1, <2>2, MaxIsGreatest DEF IndexedHead
    <2> QED
        BY <1>1, <1>3, <2>3, <2>4, WorldNumbers
<1>6. ClientTypes'
    <2>1. head' \in 0 .. final' /\ tipRead' \in 0 .. top'
        BY <1>1, <1>2, <1>3, <1>4 DEF ClientTypes
    <2>2. Asking' = Asking
        BY <1>2 DEF Asking
    <2> QED
        BY <1>1, <1>2, <2>1, <2>2 DEF ClientTypes
<1>7. CursorIsLast' /\ BlockCursors'
    <2>1. Asking' = Asking /\ Assembling' = Assembling /\ List' = List /\ Provider' = Provider
        BY <1>2 DEF Asking, Assembling, List, Provider
    <2> QED
        BY <1>1, <1>2, <2>1 DEF CursorIsLast, BlockCursors, BlockOf
<1>8. SliceIsPending'
    <2>1. /\ PendingUpper' = PendingUpper /\ WantsPending(head)' = WantsPending(head)
        BY <1>2 DEF PendingUpper, WantsPending, Filter, BlockOf
    <2>2. head \in Nat
        BY <1>1, <1>3 DEF ClientTypes
    <2>3. pc \in {"pending", "db"} => head' <= IndexedHead'
        BY <1>1, <1>2, <1>5, <2>2 DEF SliceIsPending
    <2>4. \A k : Ahead(k)' = Ahead(k)
        BY <1>2 DEF Ahead
    <2>5. \A i \in 1 .. Len(slice) : Ahead(slice[i])' = Ahead(slice[i])
        BY <1>2 DEF Ahead
    <2> QED
        BY <1>1, <1>2, <2>1, <2>3, <2>5 DEF SliceIsPending, BlockOf
<1>9. ASSUME SkipInv
      PROVE  SkipInv'
    <2>1. NothingSkipped' /\ EndMeansAll'
        <3>1. ReadsToTheEnd' = ReadsToTheEnd
            BY <1>2 DEF ReadsToTheEnd, List, Provider, Filter
        <3> QED
            BY <1>2, <1>9, <3>1 DEF SkipInv, NothingSkipped, EndMeansAll, BlockOf
    <2>2. ShownSoFar'
        BY <1>2, <1>9 DEF SkipInv, ShownSoFar, Asking, Accounted, BlockOf
    <2>3. SliceCovers'
        BY <1>2, <1>9 DEF SkipInv, SliceCovers, Ahead, Filter, BlockOf
    <2>4. TipCovers'
        <3> SUFFICES ASSUME pc \in {"head", "pending"}
                     PROVE  /\ hint' = None \/ hint' >= tipRead
                            /\ \A k \in available : Ahead(k) =>
                                 \/ BlockOf(k) <= tipRead
                                 \/ BlockOf(k) <= IF pc = "head" THEN IndexedHead' ELSE head
            BY <1>2 DEF TipCovers, Ahead, BlockOf
        <3>1. /\ hint = None \/ hint >= tipRead
              /\ \A k \in available : Ahead(k) =>
                   \/ BlockOf(k) <= tipRead
                   \/ BlockOf(k) <= IF pc = "head" THEN IndexedHead ELSE head
            BY <1>9 DEF SkipInv, TipCovers
        <3>2. top >= tipRead
            BY <1>1, <1>3 DEF ClientTypes
        <3>3. hint' = None \/ hint' >= tipRead
            BY <1>4, <3>1, <3>2
        <3>4. \A k \in available : BlockOf(k) \in Nat
            <4>1. available \in SUBSET AllKeys
                BY <1>1 DEF ClientTypes
            <4>2. \A k \in AllKeys : BlockOf(k) \in 0 .. MaxBlock
                BY KeysOrder
            <4>3. \A n \in 0 .. MaxBlock : n \in Nat
                BY <1>3
            <4> QED
                BY <4>1, <4>2, <4>3
        <3>5. ASSUME NEW k \in available, Ahead(k)
              PROVE  \/ BlockOf(k) <= tipRead
                     \/ BlockOf(k) <= IF pc = "head" THEN IndexedHead' ELSE head
            BY <1>5, <3>1, <3>4, <3>5
        <3> QED
            BY <3>3, <3>5
    <2> QED
        BY <2>1, <2>2, <2>3, <2>4 DEF SkipInv
<1> QED
    BY <1>4, <1>6, <1>7, <1>8, <1>9 DEF WalkInv

\* A walk starts with everything that can be served, and nothing shown.
LEMMA StartWalkStep ==
    ASSUME WalkInv, StartWalk
    PROVE  WalkInv' /\ (SkipInv => SkipInv')
<1>1. PICK w \in Lists :
        /\ pc = "idle" /\ walk' = w /\ available' = Servable(w[1], w[2], w[3])
        /\ pc' = "ask" /\ UNCHANGED <<world, cursor, got, page, missing>>
    BY DEF StartWalk
<1>2. /\ WorldTypes /\ ClientTypes /\ got = << >> /\ cursor = None
    BY <1>1 DEF WalkInv, CursorIsLast
<1>3. /\ available' \in SUBSET AllKeys
      /\ w[1] = "blocks" => available' \subseteq HeadKeys
    BY <1>1, <1>2, ListsAreKnown, ServableIsBounded
<1>4. WorldTypes' /\ CursorIsLast' /\ SliceIsPending'
    BY <1>1, <1>2 DEF WorldTypes, CursorIsLast, SliceIsPending, world
<1>5. ClientTypes'
    BY <1>1, <1>2, <1>3 DEF ClientTypes, world, page
<1>6. BlockCursors'
    BY <1>1, <1>2, <1>3 DEF BlockCursors, Assembling, List
<1>7. SkipInv'
    BY <1>1, <1>2 DEF SkipInv, NothingSkipped, EndMeansAll, ShownSoFar, TipCovers, SliceCovers
<1> QED
    BY <1>4, <1>5, <1>6, <1>7 DEF WalkInv

\* After the last page the client is back where it began.
LEMMA LeaveStep ==
    ASSUME WalkInv, Leave
    PROVE  WalkInv' /\ (SkipInv => SkipInv')
<1>1. /\ walk' = NoWalk /\ pc' = "idle" /\ cursor' = None /\ got' = << >>
      /\ tipRead' = 0 /\ head' = 0 /\ slice' = << >>
      /\ available' = {} /\ missing' = {} /\ UNCHANGED world
    BY DEF Leave
<1>2. WorldTypes /\ top \in Nat /\ final \in Nat
    BY WorldNumbers DEF WalkInv
<1>3. << >> \in Seq(HeadKeys) /\ << >> \in Seq(AllKeys) /\ Descends(<< >>) /\ Len(<< >>) = 0
      /\ 0 <= Count
    BY Numbers DEF Descends
<1>4. WorldTypes' /\ final' = final /\ top' = top
    BY <1>1, <1>2 DEF WorldTypes, world
<1>5. ClientTypes'
    BY <1>1, <1>2, <1>3, <1>4 DEF ClientTypes, Asking
<1>6. CursorIsLast' /\ BlockCursors' /\ SliceIsPending'
    BY <1>1 DEF CursorIsLast, BlockCursors, SliceIsPending, Asking, Assembling
<1>7. SkipInv'
    BY <1>1 DEF SkipInv, NothingSkipped, EndMeansAll, ShownSoFar, TipCovers, SliceCovers,
                Asking
<1> QED
    BY <1>4, <1>5, <1>6, <1>7 DEF WalkInv

\* A step that changes nothing.
LEMMA StutterStep ==
    ASSUME WalkInv, UNCHANGED vars
    PROVE  WalkInv' /\ (SkipInv => SkipInv')
<1>1. UNCHANGED <<chain, top, final, hint, stored, walk, pc, cursor, got, tipRead, head,
                  slice, available, missing>>
    BY DEF vars, world, page
<1>2. WalkInv'
    BY <1>1 DEF WalkInv, WorldTypes, ClientTypes, CursorIsLast, BlockCursors, SliceIsPending,
                Asking, Assembling, List, Provider, Filter, Ahead, WantsPending,
                PendingUpper, IndexedHead
<1>3. SkipInv => SkipInv'
    BY <1>1 DEF SkipInv, NothingSkipped, EndMeansAll, ShownSoFar, TipCovers, SliceCovers,
                Asking, Accounted, ReadsToTheEnd, List, Provider, Filter, Ahead, IndexedHead
<1> QED
    BY <1>2, <1>3

\* Nothing is walked at first.
LEMMA Start ==
    Init => WalkInv /\ SkipInv
<1> SUFFICES ASSUME Init
             PROVE  WalkInv /\ SkipInv
    OBVIOUS
<1>1. << >> \in Seq(HeadKeys) /\ << >> \in Seq(AllKeys) /\ Descends(<< >>) /\ Len(<< >>) = 0
      /\ 0 <= Count /\ MaxBlock \in Nat
    BY Numbers DEF Descends
<1>2. WorldTypes
    BY <1>1 DEF Init, WorldTypes
<1>3. ClientTypes
    BY <1>1 DEF Init, ClientTypes, Asking
<1>4. CursorIsLast /\ BlockCursors /\ SliceIsPending
    BY DEF Init, CursorIsLast, BlockCursors, SliceIsPending, Asking, Assembling
<1>5. SkipInv
    BY DEF Init, SkipInv, NothingSkipped, EndMeansAll, ShownSoFar, TipCovers, SliceCovers,
           Asking
<1> QED
    BY <1>2, <1>3, <1>4, <1>5 DEF WalkInv

------------------------------------------------------------------------------

\* The inductive invariant holds in every reachable state.
THEOREM Invariance == Spec => [](WalkInv /\ SkipInv)
<1>1. Init => WalkInv /\ SkipInv
    BY Start
<1>2. WalkInv /\ SkipInv /\ [Next]_vars => (WalkInv /\ SkipInv)'
    <2> SUFFICES ASSUME WalkInv, SkipInv, [Next]_vars
                 PROVE  WalkInv' /\ SkipInv'
        OBVIOUS
    <2>1. CASE Grow \/ Finalize \/ PublishBest \/ Disconnect \/ StoreBlock
        BY <2>1, WorldStep
    <2>2. CASE StartWalk
        BY <2>2, StartWalkStep
    <2>3. CASE Leave
        BY <2>3, LeaveStep
    <2>4. CASE AskRpcBlocks \/ AskRpcExtrinsics \/ AskRpcTransfers \/ AskRpcEvents
        BY <2>4, AskRpcStep
    <2>5. CASE AskIndexedExtrinsics \/ AskIndexedTransfers
        BY <2>5, AskQueryStep
    <2>6. CASE AskIndexedBlocks
        BY <2>6, AskIndexedBlocksStep
    <2>7. CASE ReadIndexedHead
        BY <2>7, ReadIndexedHeadStep
    <2>8. CASE ReadPending
        BY <2>8, ReadPendingStep
    <2>9. CASE FillPage
        BY <2>9, FillPageStep
    <2>10. CASE UNCHANGED vars
        BY <2>10, StutterStep
    <2> QED
        BY <2>1, <2>2, <2>3, <2>4, <2>5, <2>6, <2>7, <2>8, <2>9, <2>10 DEF Next, Ask
<1> QED
    BY <1>1, <1>2, PTL DEF Spec

\* The state of the world and of a walk stays well formed: blocks are stored up to the
\* finalized head only, a page assembled in four steps uses a chain head and an indexed
\* head that were right when they were read, its slice is no longer than a page
\* (provider.rs:189), and no cursor or row names a block beyond the chain.
THEOREM TypeCorrect == Spec => []TypeOK
<1>1. WalkInv => TypeOK
    <2> SUFFICES ASSUME WalkInv
                 PROVE  TypeOK
        OBVIOUS
    <2>1. WorldTypes /\ ClientTypes
        BY DEF WalkInv
    <2>2. \A k \in Range(got) \cup available \cup ({cursor} \ {None}) : BlockOf(k) \in 0 .. MaxBlock
        <3>1. Range(got) \subseteq AllKeys
            <4>1. got \in Seq(AllKeys)
                BY <2>1 DEF ClientTypes
            <4> QED
                BY <4>1 DEF Range
        <3> QED
            BY <2>1, <3>1, KeysOrder DEF ClientTypes
    <2> QED
        BY <2>1, <2>2 DEF TypeOK, WorldTypes, ClientTypes
<1> QED
    BY <1>1, Invariance, PTL

\* The rows a walk shows strictly descend, whatever the chain, the page size and the
\* blocks that arrive, are finalized or are indexed between two pages or inside the
\* assembly of one (provider.rs:216).
THEOREM RowsDescendHolds == Spec => []RowsDescend
<1>1. WalkInv => RowsDescend
    <2> SUFFICES ASSUME WalkInv, NEW i \in 1 .. Len(got) - 1
                 PROVE  got[i] > got[i + 1]
        BY DEF RowsDescend
    <2>1. got \in Seq(AllKeys) /\ Descends(got) /\ Len(got) \in Nat
        BY DEF WalkInv, ClientTypes
    <2>2. i \in 1 .. Len(got) /\ i + 1 \in 1 .. Len(got) /\ i < i + 1
        BY <2>1
    <2> QED
        BY <2>1, <2>2 DEF Descends
<1> QED
    BY <1>1, Invariance, PTL

\* No row that could be served at every request of a walk, that lies above the last row
\* shown and whose block the node found, is left out: not between two pages, not
\* between the pending slice and the rows of the database (provider.rs:189), however
\* the heads move while a page is assembled.
THEOREM NothingSkippedHolds == Spec => []NothingSkipped
<1>1. SkipInv => NothingSkipped
    BY DEF SkipInv
<1> QED
    BY <1>1, Invariance, PTL

\* A walk that is told there is no further page has been shown all of a list that is
\* read to its end.
THEOREM EndMeansAllHolds == Spec => []EndMeansAll
<1>1. SkipInv => EndMeansAll
    BY DEF SkipInv
<1> QED
    BY <1>1, Invariance, PTL

\* The movement rows of a block and the accounts whose balance is read again after it
\* are two readings of its events (balances.rs:566); every account with a movement is
\* touched, for every block body and every amount.
THEOREM MovementsHold == Spec => []MovementsAreTouched
<1>1. WalkInv => MovementsAreTouched
    <2> SUFFICES ASSUME WalkInv, NEW n \in stored,
                        NEW m \in ProjectMovements(chain[n])
                 PROVE  m.account \in CollectTouched(chain[n])
        BY DEF MovementsAreTouched
    <2>1. chain \in Chains /\ n \in 0 .. MaxBlock
        BY WorldNumbers DEF WalkInv, WorldTypes
    <2> DEFINE evs == chain[n].evs
    <2>2. DOMAIN evs = 1 .. Len(evs) /\ Len(evs) \in Nat
        BY <2>1, BodyIsBounded
    <2>3. PICK j \in Indices(evs) : m \in KeepFirst(MovementsOf(At(evs, j), j))
        BY DEF ProjectMovements
    <2>4. m.account \in TouchedBy(At(evs, j))
        BY <2>3, MovementsName
    <2>5. At(evs, j) \in Range(evs)
        <3>1. j + 1 \in DOMAIN evs
            BY <2>2, <2>3 DEF Indices
        <3> QED
            BY <3>1 DEF At, Range
    <2> QED
        BY <2>4, <2>5 DEF CollectTouched
<1> QED
    BY <1>1, Invariance, PTL

------------------------------------------------------------------------------
(***************************************************************************)
(* One block along two paths: the rows of the projections read back, and   *)
(* what the mappers make of the node's block.                              *)
(***************************************************************************)

\* The numbers of K below k, and how many they are.
Under(K, k) == {l \in K : l < k}
Lower(K, k) == Cardinality(Under(K, k))

\* The numbers of a finite set, each at its rank.
LEMMA OneAtEachRankBelow ==
    ASSUME NEW K \in SUBSET Nat, IsFiniteSet(K)
    PROVE  /\ Cardinality(K) \in Nat
           /\ \A k, l \in K : Lower(K, k) = Lower(K, l) => k = l
           /\ \A i \in 0 .. Cardinality(K) - 1 : \E k \in K : Lower(K, k) = i
<1> DEFINE n == Cardinality(K)
           r == [k \in K |-> Lower(K, k)]
<1>1. n \in Nat
    BY FS_CardinalityType
<1>0. \A k \in K : k \in Nat
    OBVIOUS
<1>2. \A k, l : l \in Under(K, k) <=> l \in K /\ l < k
    BY DEF Under
<1>3. ASSUME NEW k \in K
      PROVE  IsFiniteSet(Under(K, k)) /\ Lower(K, k) \in 0 .. n - 1
    <2>1. Under(K, k) \in SUBSET (K \ {k})
        BY <1>0, <1>2
    <2>2. IsFiniteSet(K \ {k}) /\ Cardinality(K \ {k}) = n - 1
        BY <1>1, FS_RemoveElement
    <2>3. IsFiniteSet(Under(K, k)) /\ Lower(K, k) <= n - 1
        BY <2>1, <2>2, FS_Subset DEF Lower
    <2>4. Lower(K, k) \in Nat
        BY <2>3, FS_CardinalityType DEF Lower
    <2> HIDE DEF n
    <2> QED
        BY <1>1, <2>3, <2>4
<1>4. ASSUME NEW k \in K, NEW l \in K, l < k
      PROVE  Lower(K, l) # Lower(K, k)
    <2>1. \A m : m \in Under(K, l) => m \in Under(K, k)
        <3> SUFFICES ASSUME NEW m \in Under(K, l)
                     PROVE  m \in Under(K, k)
            OBVIOUS
        <3>1. m \in K /\ m < l
            BY <1>2
        <3>2. m \in Nat /\ l \in Nat /\ k \in Nat
            BY <1>0, <3>1
        <3>3. m < k
            BY <1>4, <3>1, <3>2
        <3> QED
            BY <1>2, <3>1, <3>3
    <2>2. l \in Under(K, k) /\ l \notin Under(K, l)
        BY <1>0, <1>2, <1>4
    <2>3. Under(K, l) \in SUBSET Under(K, k) /\ IsFiniteSet(Under(K, k))
        BY <1>3, <2>1
    <2> QED
        BY <2>2, <2>3, FS_Subset DEF Lower
<1>5. \A k, l \in K : Lower(K, k) = Lower(K, l) => k = l
    <2> SUFFICES ASSUME NEW k \in K, NEW l \in K, k # l
                 PROVE  Lower(K, k) # Lower(K, l)
        OBVIOUS
    <2>1. l < k \/ k < l
        BY <1>0
    <2> QED
        BY <1>4, <2>1
<1>6. r \in Injection(K, 0 .. n - 1)
    <2>1. r \in [K -> 0 .. n - 1]
        BY <1>3
    <2>2. \A k, l \in K : r[k] = r[l] => k = l
        BY <1>5
    <2> HIDE DEF r
    <2> QED
        BY <2>1, <2>2 DEF Injection, IsInjective
<1>7. IsFiniteSet(0 .. n - 1) /\ Cardinality(0 .. n - 1) = n
    <2> HIDE DEF n
    <2> QED
        BY <1>1, FS_Interval
<1>8. r \in Surjection(K, 0 .. n - 1)
    BY <1>6, <1>7, FS_Injection
<1>9. \A i \in 0 .. n - 1 : \E k \in K : r[k] = i
    BY <1>8 DEF Surjection
<1> QED
    BY <1>1, <1>5, <1>9

\* A block body: sequences of extrinsics and events.
IsBody(body) ==
    /\ Len(body.xts) \in Nat
    /\ Len(body.evs) \in Nat
    /\ DOMAIN body.evs = 1 .. Len(body.evs)

\* The row of an event, the rows of one extrinsic's events and their ranks.
EventRow(body, j) ==
    [idx |-> j, phase |-> EncodePhase(At(body.evs, j)), variant |-> At(body.evs, j).name]

OwnEvents(body, i) == {k \in DOMAIN body.evs : body.evs[k].phase = i}
OwnRows(body, i) == {r \in ProjectEvents(body) : r.phase = [kind |-> 0, idx |-> i]}
RowRank(rows, r) == Cardinality({s \in rows : s.idx < r.idx})

\* Exactly the events of an extrinsic have a row with its phase.
LEMMA OwnRowsAreEvents ==
    ASSUME NEW body, IsBody(body), NEW i \in Nat
    PROVE  /\ \A k \in OwnEvents(body, i) :
                /\ EventRow(body, k - 1) \in OwnRows(body, i)
                /\ EventRow(body, k - 1).idx = k - 1
           /\ \A r \in OwnRows(body, i) :
                /\ r.idx \in Nat
                /\ r.idx + 1 \in OwnEvents(body, i)
                /\ r = EventRow(body, r.idx)
                /\ r.variant = body.evs[r.idx + 1].name
<1>1. \A j : /\ EventRow(body, j).idx = j
             /\ EventRow(body, j).phase = EncodePhase(At(body.evs, j))
             /\ EventRow(body, j).variant = body.evs[j + 1].name
    BY DEF EventRow, At
<1>2. ProjectEvents(body) = {EventRow(body, j) : j \in 0 .. Len(body.evs) - 1}
    BY DEF ProjectEvents, EventRow, Indices
<1>3. \A e : EncodePhase(e) = [kind |-> 0, idx |-> i] <=> e.phase = i
    <2> TAKE e
    <2>1. CASE e.phase \in Nat
        <3>1. EncodePhase(e) = [kind |-> 0, idx |-> e.phase]
            BY <2>1 DEF EncodePhase
        <3> QED
            BY <3>1
    <2>2. CASE e.phase \notin Nat
        <3>1. EncodePhase(e) = [kind |-> IF e.phase = Closing THEN 1 ELSE 2, idx |-> -1]
            BY <2>2 DEF EncodePhase
        <3>2. EncodePhase(e).kind # 0
            BY <3>1
        <3> QED
            BY <2>2, <3>2
    <2> QED
        BY <2>1, <2>2
<1>4. \A k : k \in OwnEvents(body, i) <=> k \in 1 .. Len(body.evs) /\ At(body.evs, k - 1).phase = i
    BY DEF OwnEvents, At, IsBody
<1>5. ASSUME NEW k \in OwnEvents(body, i)
      PROVE  EventRow(body, k - 1) \in OwnRows(body, i)
    <2>1. k - 1 \in 0 .. Len(body.evs) - 1 /\ At(body.evs, k - 1).phase = i
        BY <1>4 DEF IsBody
    <2>2. EventRow(body, k - 1) \in ProjectEvents(body)
        BY <1>2, <2>1
    <2>3. EventRow(body, k - 1).phase = [kind |-> 0, idx |-> i]
        BY <1>1, <1>3, <2>1
    <2> QED
        BY <2>2, <2>3 DEF OwnRows
<1>6. ASSUME NEW r \in OwnRows(body, i)
      PROVE  /\ r.idx \in Nat /\ r.idx + 1 \in OwnEvents(body, i)
             /\ r = EventRow(body, r.idx) /\ r.variant = body.evs[r.idx + 1].name
    <2>1. PICK j \in 0 .. Len(body.evs) - 1 : r = EventRow(body, j)
        BY <1>2 DEF OwnRows
    <2>2. r.phase = [kind |-> 0, idx |-> i]
        BY DEF OwnRows
    <2>3. r.idx = j /\ r.variant = body.evs[j + 1].name /\ At(body.evs, j).phase = i
        BY <1>1, <1>3, <2>1, <2>2
    <2>4. j + 1 \in 1 .. Len(body.evs) /\ (j + 1) - 1 = j
        BY <2>1 DEF IsBody
    <2>5. j + 1 \in OwnEvents(body, i)
        BY <1>4, <2>3, <2>4
    <2> QED
        BY <2>1, <2>3, <2>5
<1> QED
    BY <1>1, <1>5, <1>6

\* As many rows as events of an extrinsic come before a place in the block.
LEMMA RowsCount ==
    ASSUME NEW body, IsBody(body), NEW i \in Nat, NEW n \in Nat
    PROVE  Cardinality({s \in OwnRows(body, i) : s.idx < n})
             = Cardinality({l \in OwnEvents(body, i) : l < n + 1})
<1> DEFINE rows == {s \in OwnRows(body, i) : s.idx < n}
           events == {l \in OwnEvents(body, i) : l < n + 1}
           f == [l \in events |-> EventRow(body, l - 1)]
<1>1. /\ \A k \in OwnEvents(body, i) : k \in Nat /\ k >= 1
      /\ events \in SUBSET (1 .. Len(body.evs))
    BY DEF OwnEvents, IsBody
<1>2. IsFiniteSet(events)
    <2>1. Len(body.evs) \in Int /\ 1 \in Int
        BY DEF IsBody
    <2>2. IsFiniteSet(1 .. Len(body.evs))
        BY <2>1, FS_Interval
    <2> QED
        BY <1>1, <2>2, FS_Subset
<1>3. \A l \in events : f[l] \in rows /\ f[l].idx = l - 1
    BY <1>1, OwnRowsAreEvents
<1>4. \A r \in rows : \E l \in events : f[l] = r
    <2> SUFFICES ASSUME NEW r \in rows
                 PROVE  \E l \in events : f[l] = r
        OBVIOUS
    <2>1. r.idx \in Nat /\ r.idx + 1 \in OwnEvents(body, i) /\ r = EventRow(body, r.idx)
        BY OwnRowsAreEvents
    <2>2. r.idx + 1 \in events /\ (r.idx + 1) - 1 = r.idx
        BY <2>1
    <2>3. f[r.idx + 1] = r
        BY <2>1, <2>2
    <2> QED
        BY <2>2, <2>3
<1>5. DOMAIN f = events /\ f = [l \in events |-> f[l]]
    OBVIOUS
<1> HIDE DEF f, rows, events
<1>6. \A l, m \in events : f[l] = f[m] => l = m
    <2> SUFFICES ASSUME NEW l \in events, NEW m \in events, f[l] = f[m]
                 PROVE  l = m
        OBVIOUS
    <2>1. l - 1 = m - 1
        BY <1>3
    <2> QED
        BY <1>1, <2>1
<1>7. f \in Bijection(events, rows)
    <2>1. f \in [events -> rows]
        BY <1>3, <1>5
    <2> QED
        BY <1>4, <1>6, <2>1 DEF Bijection, Injection, Surjection, IsInjective
<1>8. Cardinality(rows) = Cardinality(events)
    BY <1>2, <1>7, FS_Bijection DEF ExistsBijection
<1> QED
    BY <1>8 DEF rows, events

\* The sequence of the numbers of a set has each at its rank.
LEMMA InOrderHas ==
    ASSUME NEW K \in SUBSET Nat, IsFiniteSet(K)
    PROVE  /\ DOMAIN InOrder(K) = 1 .. Cardinality(K)
           /\ \A j \in 1 .. Cardinality(K) :
                InOrder(K)[j] \in K /\ Lower(K, InOrder(K)[j]) = j - 1
<1>1. InOrder(K) = [j \in 1 .. Cardinality(K) |-> CHOOSE k \in K : Lower(K, k) = j - 1]
    BY DEF InOrder, Lower, Under
<1>2. ASSUME NEW j \in 1 .. Cardinality(K)
      PROVE  InOrder(K)[j] \in K /\ Lower(K, InOrder(K)[j]) = j - 1
    <2>1. j - 1 \in 0 .. Cardinality(K) - 1
        BY OneAtEachRankBelow
    <2>2. \E k \in K : Lower(K, k) = j - 1
        BY <2>1, OneAtEachRankBelow
    <2>3. InOrder(K)[j] = CHOOSE k \in K : Lower(K, k) = j - 1
        BY <1>1
    <2> QED
        BY <2>2, <2>3
<1> QED
    BY <1>1, <1>2

\* The events of an extrinsic read from their rows, sorted by their index, are its
\* events in chain order.
LEMMA EventsAgree ==
    ASSUME NEW body, IsBody(body), NEW i \in Nat
    PROVE  /\ Cardinality(OwnRows(body, i)) = Cardinality(OwnEvents(body, i))
           /\ \A j \in 1 .. Cardinality(OwnEvents(body, i)) :
                (CHOOSE r \in OwnRows(body, i) : RowRank(OwnRows(body, i), r) = j - 1).variant
                  = body.evs[InOrder(OwnEvents(body, i))[j]].name
<1> DEFINE rows == OwnRows(body, i)
           events == OwnEvents(body, i)
<1>1. /\ \A r \in rows : /\ r.idx \in Nat /\ r.idx + 1 \in events
                         /\ r = EventRow(body, r.idx)
                         /\ r.variant = body.evs[r.idx + 1].name
      /\ \A k \in events : EventRow(body, k - 1) \in rows /\ EventRow(body, k - 1).idx = k - 1
    BY OwnRowsAreEvents
<1>2. events \in SUBSET Nat /\ IsFiniteSet(events) /\ \A k \in events : k \in 1 .. Len(body.evs)
    <2>1. Len(body.evs) \in Int /\ 1 \in Int
        BY DEF IsBody
    <2>2. IsFiniteSet(1 .. Len(body.evs))
        BY <2>1, FS_Interval
    <2>3. events \in SUBSET (1 .. Len(body.evs))
        BY DEF OwnEvents, IsBody
    <2>4. \A k \in 1 .. Len(body.evs) : k \in Nat
        OBVIOUS
    <2> HIDE DEF events
    <2> QED
        BY <2>2, <2>3, <2>4, FS_Subset
<1>3. Cardinality(rows) = Cardinality(events)
    <2>1. Len(body.evs) \in Nat
        BY DEF IsBody
    <2>2. rows = {s \in rows : s.idx < Len(body.evs)}
        BY <1>1, <1>2, <2>1
    <2>3. events = {l \in events : l < Len(body.evs) + 1}
        BY <1>2, <2>1
    <2> QED
        BY <2>1, <2>2, <2>3, RowsCount
<1>4. ASSUME NEW r \in rows
      PROVE  RowRank(rows, r) = Lower(events, r.idx + 1)
    <2>1. r.idx \in Nat
        BY <1>1
    <2>2. RowRank(rows, r) = Cardinality({s \in rows : s.idx < r.idx})
        BY DEF RowRank
    <2>3. Lower(events, r.idx + 1) = Cardinality({l \in events : l < r.idx + 1})
        BY DEF Lower, Under
    <2> QED
        BY <2>1, <2>2, <2>3, RowsCount
<1> HIDE DEF rows, events
<1>5. ASSUME NEW j \in 1 .. Cardinality(events)
      PROVE  (CHOOSE r \in rows : RowRank(rows, r) = j - 1).variant
               = body.evs[InOrder(events)[j]].name
    <2> DEFINE k == InOrder(events)[j]
               chosen == CHOOSE r \in rows : RowRank(rows, r) = j - 1
    <2>1. k \in events /\ Lower(events, k) = j - 1 /\ k \in Nat
        BY <1>2, InOrderHas
    <2> HIDE DEF k
    <2>2. EventRow(body, k - 1) \in rows /\ EventRow(body, k - 1).idx = k - 1 /\ (k - 1) + 1 = k
        BY <1>1, <2>1
    <2>3. RowRank(rows, EventRow(body, k - 1)) = j - 1
        BY <1>4, <2>1, <2>2
    <2>4. chosen \in rows /\ RowRank(rows, chosen) = j - 1
        BY <2>2, <2>3
    <2> HIDE DEF chosen
    <2>5. chosen.idx + 1 \in events /\ Lower(events, chosen.idx + 1) = j - 1
        BY <1>1, <1>4, <2>4
    <2>6. chosen.idx + 1 = k
        <3>1. \A a, b \in events : Lower(events, a) = Lower(events, b) => a = b
            BY <1>2, OneAtEachRankBelow
        <3> QED
            BY <2>1, <2>5, <3>1
    <2>7. chosen.variant = body.evs[k].name
        BY <1>1, <2>4, <2>6
    <2> QED
        BY <2>7 DEF chosen, k
<1> QED
    BY <1>3, <1>5 DEF rows, events

\* An extrinsic of a plain account, or of none, read from Postgres is the one the
\* mapper makes.
LEMMA ExtrinsicsAgree ==
    ASSUME NEW body, IsBody(body), NEW i \in Indices(body.xts),
           At(body.xts, i).signer # Foreign
    PROVE  RowToExtrinsic(body, i) = MapExtrinsic(body, i)
<1> DEFINE x == At(body.xts, i)
           evs == EventsOf(body, i)
           n == Cardinality(OwnEvents(body, i))
           order == [j \in 1 .. Cardinality(OwnRows(body, i)) |->
                       CHOOSE r \in OwnRows(body, i) :
                         RowRank(OwnRows(body, i), r) = j - 1]
           names == [j \in 1 .. n |-> body.evs[InOrder(OwnEvents(body, i))[j]].name]
<1>1. i \in Nat
    BY DEF Indices, IsBody
<1>2. DOMAIN InOrder(OwnEvents(body, i)) = 1 .. n
    BY DEF InOrder
<1>3. evs = [j \in 1 .. n |-> body.evs[InOrder(OwnEvents(body, i))[j]]]
    BY <1>2 DEF EventsOf, OwnEvents
<1>4. [j \in DOMAIN evs |-> evs[j].name] = names
    BY <1>3
<1>5. [j \in DOMAIN order |-> order[j].variant] = names
    <2>1. DOMAIN order = 1 .. n
        BY <1>1, EventsAgree
    <2>2. \A j \in 1 .. n : order[j].variant = body.evs[InOrder(OwnEvents(body, i))[j]].name
        <3> TAKE j \in 1 .. n
        <3>1. order[j] = CHOOSE r \in OwnRows(body, i) :
                           RowRank(OwnRows(body, i), r) = j - 1
            BY <2>1
        <3> QED
            BY <1>1, <3>1, EventsAgree
    <2> HIDE DEF order, n
    <2> QED
        BY <2>1, <2>2
<1>6. ProjectSigner(x) = x.signer /\ MappedSigner(x) = x.signer
    BY DEF ProjectSigner, MappedSigner
<1>7. MapExtrinsic(body, i)
        = [index |-> i, pallet |-> x.pallet, signed |-> x.signer # NoSigner,
           signer |-> x.signer, failed |-> Fails(evs), fee |-> FeeIn(evs),
           events |-> names]
    BY <1>4, <1>6 DEF MapExtrinsic
<1>8. ProjectExtrinsic(body, i)
        = [idx |-> i, pallet |-> x.pallet, signer |-> x.signer,
           success |-> ~ Fails(evs), fee |-> FeeIn(evs)]
    BY <1>6 DEF ProjectExtrinsic
<1>9. RowToExtrinsic(body, i)
        = [index |-> ProjectExtrinsic(body, i).idx,
           pallet |-> ProjectExtrinsic(body, i).pallet,
           signed |-> ProjectExtrinsic(body, i).signer # NoSigner,
           signer |-> ProjectExtrinsic(body, i).signer,
           failed |-> ~ ProjectExtrinsic(body, i).success,
           fee |-> ProjectExtrinsic(body, i).fee,
           events |-> [j \in DOMAIN order |-> order[j].variant]]
    BY DEF RowToExtrinsic, OwnRows, RowRank
<1> HIDE DEF evs, order, names, x
<1>10. RowToExtrinsic(body, i)
        = [index |-> i, pallet |-> x.pallet, signed |-> x.signer # NoSigner,
           signer |-> x.signer, failed |-> ~ ProjectExtrinsic(body, i).success,
           fee |-> FeeIn(evs), events |-> names]
    <2>1. /\ ProjectExtrinsic(body, i).idx = i
          /\ ProjectExtrinsic(body, i).pallet = x.pallet
          /\ ProjectExtrinsic(body, i).signer = x.signer
          /\ ProjectExtrinsic(body, i).fee = FeeIn(evs)
        BY <1>8
    <2> QED
        BY <1>5, <1>9, <2>1
<1>11. (~ ProjectExtrinsic(body, i).success) = Fails(evs)
    <2>1. Fails(evs) \in BOOLEAN
        BY DEF Fails
    <2>2. ProjectExtrinsic(body, i).success = ~ Fails(evs)
        BY <1>8
    <2>3. CASE Fails(evs)
        BY <2>1, <2>2, <2>3
    <2>4. CASE ~ Fails(evs)
        BY <2>1, <2>2, <2>4
    <2> QED
        BY <2>3, <2>4
<1> QED
    BY <1>7, <1>10, <1>11

\* The sender's side of the transfer that event j is, and the transfer itself.
SenderRow(body, j) ==
    Movement(j, At(body.evs, j).who, "Transfer", -At(body.evs, j).amount, At(body.evs, j).to)

TransferOf(body, j) ==
    [event |-> j, from |-> At(body.evs, j).who, to |-> At(body.evs, j).to,
     amount |-> At(body.evs, j).amount, extrinsic |-> At(body.evs, j).phase]

\* The movements of transfers that lose something are their senders' sides.
LEMMA LosingSides ==
    ASSUME NEW body, IsBody(body), Storable(body)
    PROVE  /\ \A m \in ProjectMovements(body) :
                m.kind = "Transfer" /\ m.delta < 0 =>
                  /\ m.event \in Indices(body.evs)
                  /\ At(body.evs, m.event).name = "Transfer"
                  /\ At(body.evs, m.event).amount > 0
                  /\ m = SenderRow(body, m.event)
           /\ \A j \in Indices(body.evs) :
                At(body.evs, j).name = "Transfer" => SenderRow(body, j) \in ProjectMovements(body)
<1>1. \A j \in Indices(body.evs) : At(body.evs, j) \in Range(body.evs)
    <2> TAKE j \in Indices(body.evs)
    <2>1. j + 1 \in DOMAIN body.evs
        BY DEF Indices, IsBody
    <2> QED
        BY <2>1 DEF At, Range
<1>2. \A j \in Indices(body.evs) : At(body.evs, j).name = "Transfer" =>
                                     At(body.evs, j).amount \in Nat
    BY <1>1 DEF Storable
<1>3. ASSUME NEW j \in Indices(body.evs), NEW m \in KeepFirst(MovementsOf(At(body.evs, j), j)),
             m.kind = "Transfer", m.delta < 0
      PROVE  /\ m.event = j /\ At(body.evs, j).name = "Transfer"
             /\ At(body.evs, j).amount > 0 /\ m = SenderRow(body, j)
    <2> DEFINE e == At(body.evs, j)
               rows == MovementsOf(e, j)
    <2>1. PICK k \in DOMAIN rows : m = rows[k]
        BY <1>3 DEF KeepFirst
    <2> HIDE DEF e
    <2>2. m.kind = e.name /\ m.event = j
        <3>1. CASE e.name \in TwoSided
            <4>1. rows = << Movement(j, e.who, e.name, -e.amount, e.to),
                            Movement(j, e.to, e.name, e.amount, e.who) >>
                BY <3>1 DEF MovementsOf
            <4>2. k = 1 \/ k = 2
                BY <2>1, <4>1
            <4> QED
                BY <2>1, <4>1, <4>2 DEF Movement
        <3>2. CASE e.name \notin TwoSided /\ e.name \in Gains
            <4>1. rows = << Movement(j, e.who, e.name, e.amount, NoSigner) >>
                BY <3>2 DEF MovementsOf
            <4> QED
                BY <2>1, <4>1 DEF Movement
        <3>3. CASE e.name \notin TwoSided /\ e.name \notin Gains /\ e.name \in Losses
            <4>1. rows = << Movement(j, e.who, e.name, -e.amount, NoSigner) >>
                BY <3>3 DEF MovementsOf
            <4> QED
                BY <2>1, <4>1 DEF Movement
        <3>4. CASE e.name \notin TwoSided /\ e.name \notin Gains /\ e.name \notin Losses
            <4>1. rows = << >>
                BY <3>4 DEF MovementsOf
            <4> QED
                BY <2>1, <4>1
        <3> QED
            BY <3>1, <3>2, <3>3, <3>4
    <2>3. e.name = "Transfer" /\ e.amount \in Nat
        BY <1>2, <1>3, <2>2 DEF e
    <2>4. rows = << Movement(j, e.who, "Transfer", -e.amount, e.to),
                    Movement(j, e.to, "Transfer", e.amount, e.who) >>
        BY <2>3 DEF MovementsOf, TwoSided
    <2>5. k = 1 \/ k = 2
        BY <2>1, <2>4
    <2>6. k # 2
        <3> SUFFICES ASSUME k = 2
                     PROVE  FALSE
            OBVIOUS
        <3>1. m.delta = e.amount
            BY <2>1, <2>4 DEF Movement
        <3> QED
            BY <1>3, <2>3, <3>1
    <2>7. m = Movement(j, e.who, "Transfer", -e.amount, e.to)
        BY <2>1, <2>4, <2>5, <2>6
    <2>8. m.delta = -e.amount
        BY <2>7 DEF Movement
    <2>9. e.amount > 0
        BY <1>3, <2>3, <2>8
    <2> QED
        BY <2>2, <2>3, <2>7, <2>9 DEF SenderRow, e
<1>4. ASSUME NEW j \in Indices(body.evs), At(body.evs, j).name = "Transfer"
      PROVE  SenderRow(body, j) \in KeepFirst(MovementsOf(At(body.evs, j), j))
    <2> DEFINE e == At(body.evs, j)
               rows == MovementsOf(e, j)
    <2>1. rows = << SenderRow(body, j), Movement(j, e.to, "Transfer", e.amount, e.who) >>
        BY <1>4 DEF MovementsOf, TwoSided, SenderRow
    <2> HIDE DEF rows
    <2>2. 1 \in DOMAIN rows /\ rows[1] = SenderRow(body, j)
        BY <2>1
    <2>3. \A l \in 1 .. 1 - 1 : rows[l].account # rows[1].account
        OBVIOUS
    <2>4. rows[1] \in KeepFirst(rows)
        BY <2>2, <2>3 DEF KeepFirst
    <2> QED
        BY <2>2, <2>4 DEF rows
<1>5. ASSUME NEW m \in ProjectMovements(body), m.kind = "Transfer", m.delta < 0
      PROVE  /\ m.event \in Indices(body.evs) /\ At(body.evs, m.event).name = "Transfer"
             /\ At(body.evs, m.event).amount > 0 /\ m = SenderRow(body, m.event)
    <2>1. PICK j \in Indices(body.evs) : m \in KeepFirst(MovementsOf(At(body.evs, j), j))
        BY DEF ProjectMovements
    <2> QED
        BY <1>3, <1>5, <2>1
<1>6. ASSUME NEW j \in Indices(body.evs), At(body.evs, j).name = "Transfer"
      PROVE  SenderRow(body, j) \in ProjectMovements(body)
    BY <1>4, <1>6 DEF ProjectMovements
<1> QED
    BY <1>5, <1>6

\* The row of an event is the only one with its index, and names the extrinsic it is in.
LEMMA RowOfEvent ==
    ASSUME NEW body, IsBody(body), NEW j \in Indices(body.evs)
    PROVE  /\ \E r \in ProjectEvents(body) : r.idx = j
           /\ \A r \in ProjectEvents(body) : r.idx = j =>
                r.phase.idx \in Indices(body.xts) <=> At(body.evs, j).phase \in Indices(body.xts)
           /\ \A r \in ProjectEvents(body) : r.idx = j /\ r.phase.idx \in Indices(body.xts) =>
                r.phase.idx = At(body.evs, j).phase
           /\ \A r, s \in ProjectEvents(body) : r.idx = s.idx => r = s
<1>1. \A k : /\ EventRow(body, k).idx = k
             /\ EventRow(body, k).phase = EncodePhase(At(body.evs, k))
    BY DEF EventRow
<1>2. ProjectEvents(body) = {EventRow(body, k) : k \in Indices(body.evs)}
    BY DEF ProjectEvents, EventRow
<1>3. \A k \in Indices(body.xts) : k \in Nat
    BY DEF Indices, IsBody
<1>4. \A e : e.phase \in Nat => EncodePhase(e).idx = e.phase
    BY DEF EncodePhase
<1>5. \A e : e.phase \notin Nat => EncodePhase(e).idx = -1
    BY DEF EncodePhase
<1>6. EventRow(body, j) \in ProjectEvents(body)
    BY <1>2
<1>7. \A r \in ProjectEvents(body) : r = EventRow(body, r.idx)
    BY <1>1, <1>2
<1>8. -1 \notin Indices(body.xts)
    BY <1>3
<1> DEFINE e == At(body.evs, j)
<1>9. EncodePhase(e).idx \in Indices(body.xts) <=> e.phase \in Indices(body.xts)
    BY <1>3, <1>4, <1>5, <1>8
<1>10. EncodePhase(e).idx \in Indices(body.xts) => EncodePhase(e).idx = e.phase
    BY <1>3, <1>4, <1>5, <1>8
<1>11. \A r \in ProjectEvents(body) : r.idx = j => r.phase = EncodePhase(e)
    BY <1>1, <1>7
<1> HIDE DEF e
<1>12. \A r, s \in ProjectEvents(body) : r.idx = s.idx => r = s
    BY <1>7
<1>13. \E r \in ProjectEvents(body) : r.idx = j
    BY <1>1, <1>6
<1> QED
    BY <1>9, <1>10, <1>11, <1>12, <1>13 DEF e

\* The transfers the node's events give, by their events.
LEMMA MappedTransfers ==
    ASSUME NEW body, IsBody(body)
    PROVE  \A t : t \in MapTransfers(body) <=>
             \E j \in Indices(body.evs) :
               /\ At(body.evs, j).name = "Transfer"
               /\ At(body.evs, j).phase \in Indices(body.xts)
               /\ t = TransferOf(body, j)
<1>1. \A i : MapExtrinsic(body, i).index = i
    BY DEF MapExtrinsic
<1>2. \A j : TransferOf(body, j)
               = [event |-> j, from |-> At(body.evs, j).who, to |-> At(body.evs, j).to,
                  amount |-> At(body.evs, j).amount,
                  extrinsic |-> MapExtrinsic(body, At(body.evs, j).phase).index]
    BY <1>1 DEF TransferOf
<1>3. MapTransfers(body)
        = {TransferOf(body, j) :
             j \in {k \in Indices(body.evs) : /\ At(body.evs, k).name = "Transfer"
                                              /\ At(body.evs, k).phase \in Indices(body.xts)}}
    BY <1>2 DEF MapTransfers
<1> QED
    BY <1>3

\* The row of event j, and the movements the query joins with their event and extrinsic.
RowOf(body, j) == CHOOSE r \in ProjectEvents(body) : r.idx = j
Joined(body) ==
    {n \in ProjectMovements(body) :
       /\ n.kind = "Transfer" /\ n.delta < 0
       /\ \E r \in ProjectEvents(body) : r.idx = n.event /\ r.phase.idx \in Indices(body.xts)}

\* The transfers of Postgres are those of the node that move something.
LEMMA TransfersAgree ==
    ASSUME NEW body, IsBody(body), Storable(body)
    PROVE  ReadTransfers(body) = {t \in MapTransfers(body) : t.amount > 0}
<1>1. ReadTransfers(body)
        = {RowToTransfer(body, m, RowOf(body, m.event).phase.idx) : m \in Joined(body)}
    BY DEF ReadTransfers, RowOf, Joined
<1>2. \A j : TransferOf(body, j).amount = At(body.evs, j).amount
    BY DEF TransferOf
<1>3. ASSUME NEW j \in Indices(body.evs), At(body.evs, j).phase \in Indices(body.xts)
      PROVE  RowOf(body, j).phase.idx = At(body.evs, j).phase
    <2>1. RowOf(body, j) \in ProjectEvents(body) /\ RowOf(body, j).idx = j
        BY RowOfEvent DEF RowOf
    <2>2. RowOf(body, j).phase.idx \in Indices(body.xts)
        BY <1>3, <2>1, RowOfEvent
    <2> QED
        BY <2>1, <2>2, RowOfEvent
<1>4. ASSUME NEW j \in Indices(body.evs), At(body.evs, j).name = "Transfer",
             At(body.evs, j).phase \in Indices(body.xts), At(body.evs, j).amount > 0
      PROVE  /\ SenderRow(body, j).event = j /\ SenderRow(body, j).kind = "Transfer"
             /\ SenderRow(body, j).delta < 0
             /\ RowToTransfer(body, SenderRow(body, j), RowOf(body, j).phase.idx)
                  = TransferOf(body, j)
    <2> DEFINE e == At(body.evs, j)
               m == SenderRow(body, j)
    <2>1. /\ m.event = j /\ m.kind = "Transfer" /\ m.delta = -e.amount
          /\ m.account = e.who /\ m.counterparty = e.to
        BY DEF SenderRow, Movement
    <2>2. e.amount \in Nat
        <3>1. j + 1 \in DOMAIN body.evs
            BY DEF Indices, IsBody
        <3>2. e \in Range(body.evs)
            BY <3>1 DEF At, Range
        <3> QED
            BY <1>4, <3>2 DEF Storable
    <2>3. RowOf(body, j).phase.idx = e.phase
        BY <1>3, <1>4
    <2>4. ProjectExtrinsic(body, e.phase).idx = e.phase
        BY DEF ProjectExtrinsic
    <2> HIDE DEF e, m
    <2>5. m.delta < 0 /\ -m.delta = e.amount
        <3>1. e.amount > 0
            BY <1>4 DEF e
        <3> QED
            BY <2>1, <2>2, <3>1
    <2>6. RowToTransfer(body, m, e.phase)
            = [event |-> j, from |-> e.who, to |-> e.to, amount |-> e.amount,
               extrinsic |-> e.phase]
        BY <2>1, <2>4, <2>5 DEF RowToTransfer
    <2>7. TransferOf(body, j)
            = [event |-> j, from |-> e.who, to |-> e.to, amount |-> e.amount,
               extrinsic |-> e.phase]
        BY DEF TransferOf, e
    <2>8. RowToTransfer(body, m, RowOf(body, j).phase.idx) = TransferOf(body, j)
        BY <2>3, <2>6, <2>7
    <2> QED
        BY <2>1, <2>5, <2>8 DEF m
<1>5. ASSUME NEW t \in ReadTransfers(body)
      PROVE  t \in MapTransfers(body) /\ t.amount > 0
    <2>1. PICK m \in Joined(body) :
            t = RowToTransfer(body, m, RowOf(body, m.event).phase.idx)
        BY <1>1
    <2>2. m \in ProjectMovements(body) /\ m.kind = "Transfer" /\ m.delta < 0
        BY DEF Joined
    <2>3. PICK r \in ProjectEvents(body) :
            r.idx = m.event /\ r.phase.idx \in Indices(body.xts)
        BY DEF Joined
    <2> DEFINE j == m.event
    <2>4. /\ j \in Indices(body.evs) /\ At(body.evs, j).name = "Transfer"
          /\ At(body.evs, j).amount > 0 /\ m = SenderRow(body, j)
        BY <2>2, LosingSides
    <2>5. At(body.evs, j).phase \in Indices(body.xts)
        BY <2>3, <2>4, RowOfEvent
    <2>6. t = TransferOf(body, j)
        BY <1>4, <2>1, <2>4, <2>5
    <2> HIDE DEF j
    <2>7. t \in MapTransfers(body)
        BY <2>4, <2>5, <2>6, MappedTransfers
    <2> QED
        BY <1>2, <2>4, <2>6, <2>7
<1>6. ASSUME NEW t \in MapTransfers(body), t.amount > 0
      PROVE  t \in ReadTransfers(body)
    <2>1. PICK j \in Indices(body.evs) :
            /\ At(body.evs, j).name = "Transfer"
            /\ At(body.evs, j).phase \in Indices(body.xts)
            /\ t = TransferOf(body, j)
        BY MappedTransfers
    <2>2. At(body.evs, j).amount > 0
        BY <1>2, <1>6, <2>1
    <2> DEFINE m == SenderRow(body, j)
    <2>3. /\ m.event = j /\ m.kind = "Transfer" /\ m.delta < 0
          /\ RowToTransfer(body, m, RowOf(body, j).phase.idx) = t
        BY <1>4, <2>1, <2>2
    <2>4. m \in ProjectMovements(body)
        BY <2>1, LosingSides
    <2>5. PICK r \in ProjectEvents(body) : r.idx = j
        BY RowOfEvent
    <2>6. r.phase.idx \in Indices(body.xts)
        BY <2>1, <2>5, RowOfEvent
    <2> HIDE DEF m
    <2>7. m \in Joined(body)
        BY <2>3, <2>4, <2>5, <2>6 DEF Joined
    <2> QED
        BY <1>1, <2>3, <2>7
<1> QED
    BY <1>5, <1>6

\* A stored block reads as the mapper makes it from the node, final there too.
LEMMA BlocksAgree ==
    ASSUME NEW body, Storable(body), NEW n \in Nat, NEW finalizedHead \in Nat, n <= finalizedHead
    PROVE  RowToBlock(body, n) = MapBlock(body, n, finalizedHead)
<1> DEFINE row == ProjectBlock(body, n)
           weight == FetchWeights(body).ref_time
           pct == FetchWeights(body).pct
<1>1. /\ row.num = n
      /\ row.author = IF HasAuthor(body) THEN ResolveAuthor(body) ELSE NoSigner
      /\ row.extrinsic_count = Len(body.xts) /\ row.event_count = Len(body.evs)
      /\ row.ref_time = Signed(weight) /\ row.ref_time_pct = pct
    BY DEF ProjectBlock
<1>2. Signed(weight) = weight /\ weight >= 0
    <2>1. weight \in 0 .. MaxU64 \div 2
        BY DEF Storable
    <2> HIDE DEF weight
    <2>2. MaxU64 \div 2 \in Int
        BY BlockRowsAssumption
    <2> QED
        BY <2>1, <2>2 DEF Signed
<1>3. (IF row.author = NoSigner THEN Unknown ELSE row.author) = ResolveAuthor(body)
    <2>1. ~ HasAuthor(body) => ResolveAuthor(body) = Unknown
        BY DEF ResolveAuthor
    <2> QED
        BY <1>1, <2>1 DEF Storable
<1>4. (IF row.ref_time < 0 THEN 0 ELSE row.ref_time) = weight
    <2>1. weight \in Int
        BY DEF Storable
    <2> HIDE DEF weight
    <2> QED
        BY <1>1, <1>2, <2>1
<1>5. RowToBlock(body, n)
        = [number |-> row.num, finalized |-> TRUE,
           author |-> IF row.author = NoSigner THEN Unknown ELSE row.author,
           extrinsic_count |-> row.extrinsic_count, event_count |-> row.event_count,
           ref_time |-> IF row.ref_time < 0 THEN 0 ELSE row.ref_time,
           pct |-> row.ref_time_pct]
    BY DEF RowToBlock
<1>6. MapBlock(body, n, finalizedHead)
        = [number |-> n, finalized |-> n <= finalizedHead, author |-> ResolveAuthor(body),
           extrinsic_count |-> Len(body.xts), event_count |-> Len(body.evs),
           ref_time |-> weight, pct |-> pct]
    BY DEF MapBlock
<1>7. (n <= finalizedHead) = TRUE
    OBVIOUS
<1> HIDE DEF row, weight, pct
<1> QED
    BY <1>1, <1>3, <1>4, <1>5, <1>6, <1>7

\* A block, an extrinsic of a plain account and a transfer that moves something have
\* the same fields whether they come from Postgres or from the node: the events of an
\* extrinsic are found again by their phase and sorted by their index
\* (queries/events.rs:50), the sender's side of a transfer is the one that loses
\* (transfers.rs:93), and the weight passes through a signed column unchanged.  It
\* holds of every chain whose blocks Postgres stores as they are: their weight is at
\* most half the range of a u64.
THEOREM PathsHold ==
    ASSUME ChainsAreStorable
    PROVE  Spec => []PathsAgree
<1>1. WalkInv => PathsAgree
    <2> SUFFICES ASSUME WalkInv, NEW n \in stored
                 PROVE  /\ \A i \in Indices(chain[n].xts) :
                             At(chain[n].xts, i).signer # Foreign =>
                               RowToExtrinsic(chain[n], i) = MapExtrinsic(chain[n], i)
                        /\ ReadTransfers(chain[n])
                             = {t \in MapTransfers(chain[n]) : t.amount > 0}
                        /\ RowToBlock(chain[n], n) = MapBlock(chain[n], n, final)
        BY DEF PathsAgree
    <2>1. /\ chain \in Chains /\ n \in 0 .. MaxBlock
          /\ n \in Nat /\ final \in Nat /\ n <= final
        BY WorldNumbers DEF WalkInv, WorldTypes
    <2>2. Storable(chain[n])
        BY <2>1 DEF ChainsAreStorable
    <2>3. IsBody(chain[n])
        <3>1. \A s \in {chain[n].xts, chain[n].evs} :
                  Len(s) \in 0 .. Stride /\ DOMAIN s = 1 .. Len(s)
            BY <2>1, ListingsAssumption
        <3>2. /\ Len(chain[n].xts) \in 0 .. Stride /\ Len(chain[n].evs) \in 0 .. Stride
              /\ DOMAIN chain[n].evs = 1 .. Len(chain[n].evs)
            BY <3>1
        <3> QED
            BY <3>2 DEF IsBody
    <2>4. \A i \in Indices(chain[n].xts) :
              At(chain[n].xts, i).signer # Foreign =>
                RowToExtrinsic(chain[n], i) = MapExtrinsic(chain[n], i)
        BY <2>3, ExtrinsicsAgree
    <2>5. ReadTransfers(chain[n]) = {t \in MapTransfers(chain[n]) : t.amount > 0}
        BY <2>2, <2>3, TransfersAgree
    <2>6. RowToBlock(chain[n], n) = MapBlock(chain[n], n, final)
        BY <2>1, <2>2, BlocksAgree
    <2> QED
        BY <2>4, <2>5, <2>6
<1> QED
    BY <1>1, Invariance, PTL
=============================================================================
