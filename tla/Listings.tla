----------------------------- MODULE Listings ------------------------------
(***************************************************************************)
(* The paged lists of the explorer: a client walks from page to page with  *)
(* the cursor of the page before, while the chain grows, the head watch    *)
(* comes and goes and the indexer stores blocks, in order at the head and  *)
(* in any order below it.                                                  *)
(*                                                                         *)
(* A walk reads one list (blocks, extrinsics, transfers or events) with    *)
(* one filter from one provider.  RpcProvider scans a bounded window of    *)
(* blocks from the node for each page (src/src/data/rpc/provider.rs);      *)
(* IndexedProvider reads Postgres, and for the block list puts the blocks  *)
(* the database does not own yet, read through RpcProvider, in front of    *)
(* it (src/src/data/indexed/provider.rs).  That page is assembled in four  *)
(* steps with awaits between them, so the world moves under it.            *)
(*                                                                         *)
(* A row is the number Key(n, i) of block n and index i in it: comparing   *)
(* keys is comparing the (block, index) tuples of the cursors.  Forks      *)
(* above the finalized head are the subject of BlockReads, where Postgres  *)
(* rows come from of Indexer; here a block body never changes, and a block *)
(* is stored whole.                                                        *)
(***************************************************************************)
EXTENDS BlockRows, Paging

CONSTANTS
  Chains,        \* the chains to consider: functions from 0..MaxBlock to block bodies
  MaxBlock,      \* height at which the chain stops growing
  Lists,         \* the <<list, provider, filter>> triples a client walks
  Count,         \* rows per page, the `count` of a PageRequest
  ScanDepth,     \* MAX_DEPTH of the transfer scan
  MaxMissing,    \* bound on the blocks the node fails to find
  Stride         \* bound on the extrinsics and the events of a block

ASSUME ListingsAssumption ==
  /\ MaxBlock \in Nat
  /\ Count \in Nat \ {0}
  /\ ScanDepth \in Nat
  /\ MaxMissing \in Nat
  /\ Stride \in Nat \ {0}
  /\ Lists \subseteq {"blocks", "extrinsics", "transfers", "events"}
                     \X {"rpc", "indexed"} \X STRING
  /\ \A c \in Chains :
       /\ DOMAIN c = 0 .. MaxBlock
       /\ \A n \in 0 .. MaxBlock : \A s \in {c[n].xts, c[n].evs} :
            Len(s) \in 0 .. Stride /\ DOMAIN s = 1 .. Len(s)

VARIABLES
  chain,         \* block number -> body
  top,           \* the node's best block
  final,         \* the node's finalized head
  hint,          \* RpcClient::best_head: the best number last published, or None
  stored,        \* numbers of the blocks in Postgres
  walk,          \* the <<list, provider, filter>> being walked, or NoWalk
  pc,            \* idle, ask, head, pending, db, done
  cursor,        \* the cursor of the next request: a key, or None
  got,           \* keys received so far, in order
  tipRead,       \* chain_head of the page being assembled
  head,          \* indexed_head of the page being assembled
  slice,         \* its pending slice, newest first
  available,     \* rows the client could have received at every request so far
  missing        \* blocks the node answered BlockNotFound for during this walk

world == <<chain, top, final, hint, stored>>
page == <<tipRead, head, slice>>
vars == <<world, walk, pc, cursor, got, page, available, missing>>

NoWalk == << >>
Key(n, i) == n * Stride + i
BlockOf(key) == key \div Stride

List == walk[1]
Provider == walk[2]
Filter == walk[3]

(***************************************************************************)
(* The filters (src/src/data/filters.rs) over rows of either path.         *)
(***************************************************************************)
BlockMatches(n, finalized, f) ==
  CASE f = "final" -> finalized
    [] f = "pending" -> ~ finalized
    [] f = "busy" -> Len(chain[n].xts) >= 2        \* min_extrinsics = 2
    [] OTHER -> TRUE

ExtrinsicMatches(x, f) ==
  CASE f = "signed" -> x.signed
    [] f = "unsigned" -> ~ x.signed
    [] f = "timestamp" -> x.pallet = "Timestamp"
    [] f = "failed" -> x.failed
    [] OTHER -> TRUE

TransferMatches(t, f) ==
  CASE f = "from a" -> t.from = "a"
    [] f = "to a" -> t.to = "a"
    [] OTHER -> TRUE

EventMatches(e, f) == f = "failed" => e.name = "ExtrinsicFailed"

(***************************************************************************)
(* The rows block n contributes to a list.  The RPC scan always hides the  *)
(* unsigned extrinsic 0; the query shows it to the two filters that ask    *)
(* for it.                                                                 *)
(***************************************************************************)
ScannedExtrinsics(n, f) ==
  {i \in Indices(chain[n].xts) :
     LET x == MapExtrinsic(chain[n], i)
     IN  ~ (i = 0 /\ ~ x.signed) /\ ExtrinsicMatches(x, f)}

StoredExtrinsics(n, f) ==
  {i \in Indices(chain[n].xts) :
     LET x == RowToExtrinsic(chain[n], i)
         hides == f \notin {"unsigned", "timestamp"}
     IN  ~ (hides /\ i = 0 /\ x.signer = NoSigner) /\ ExtrinsicMatches(x, f)}

ScannedTransfers(n, f) ==
  {t.event : t \in {u \in MapTransfers(chain[n]) : TransferMatches(u, f)}}

StoredTransfers(n, f) ==
  {t.event : t \in {u \in ReadTransfers(chain[n]) : TransferMatches(u, f)}}

ScannedEvents(n, f) ==
  {e.index : e \in {d \in MapBlockEvents(chain[n]) : EventMatches(d, f)}}

Keys(n, indices) == {Key(n, i) : i \in indices}

(***************************************************************************)
(* RpcProvider.  The tip is the published best head, or the finalized head *)
(* before the first publication.                                           *)
(***************************************************************************)
BestHead == IF hint = None THEN final ELSE hint

\* latest_blocks: a window of Count + 1 blocks; a block that is not found is left out.
BlockWindow ==
  LET tip == IF cursor = None THEN BestHead ELSE AtMost(Below(BlockOf(cursor), 1), BestHead)
  IN  Below(tip, Count) .. tip

RpcBlocks(gone, f) ==
  Trim(NewestFirst({Key(n, 0) : n \in {m \in BlockWindow \ gone :
                                         BlockMatches(m, m <= final, f)}}),
       Count)

\* The other lists scan from the cursor's own block and stop at a block not found.
\* The next page starts below the block of the cursor and loses the rest of it.
FaultyScanWindow(tip, depth, gone) ==
  LET from == IF cursor = None THEN tip ELSE AtMost(Below(BlockOf(cursor), 1), tip)
      window == Below(from, depth - 1) .. from
  IN  {n \in window : n > Newest(gone \cap window)}

ScanWindow(tip, depth, gone) ==
  LET from == IF cursor = None THEN tip ELSE AtMost(BlockOf(cursor), tip)
      window == Below(from, depth - 1) .. from
  IN  {n \in window : n > Newest(gone \cap window)}

Scan(window, rows(_)) ==
  LET keys == UNION {Keys(n, rows(n)) : n \in window}
  IN  Trim(NewestFirst({k \in keys : cursor = None \/ k < cursor}), Count)

RpcExtrinsics(gone, f) ==
  Scan(ScanWindow(BestHead, 2 * Count, gone), LAMBDA n : ScannedExtrinsics(n, f))

RpcEvents(gone, f) ==
  Scan(ScanWindow(BestHead, 2 * Count, gone), LAMBDA n : ScannedEvents(n, f))

RpcTransfers(gone, f) ==
  Scan(ScanWindow(final, ScanDepth + 1, gone), LAMBDA n : ScannedTransfers(n, f))

(***************************************************************************)
(* The queries of IndexedProvider.                                         *)
(***************************************************************************)
IndexedHead == IF stored = {} THEN 0 ELSE Max(stored)

\* list_blocks_page_bounded; nothing that is not finalized is ever stored.
StoredBlocks(upper, f) ==
  IF f = "pending" THEN {} ELSE {n \in stored : n <= upper /\ BlockMatches(n, TRUE, f)}

QueryBlocks(count, upper, f) ==
  Trim(NewestFirst({Key(n, 0) : n \in StoredBlocks(upper, f)}), count)

QueryExtrinsics(f) == Scan(stored, LAMBDA n : StoredExtrinsics(n, f))

QueryTransfers(f) == Scan(stored, LAMBDA n : StoredTransfers(n, f))

(***************************************************************************)
(* What a client could receive now, were its pages long enough.            *)
(***************************************************************************)
PendingZone(f) ==
  {n \in IndexedHead + 1 .. BestHead : f # "final" /\ BlockMatches(n, n <= final, f)}

Servable(list, provider, f) ==
  LET of(numbers, rows(_)) == UNION {Keys(n, rows(n)) : n \in numbers}
      itself(n) == {0}
  IN  CASE list = "blocks" /\ provider = "rpc" ->
             of({n \in 0 .. BestHead : BlockMatches(n, n <= final, f)}, itself)
        [] list = "blocks" /\ provider = "indexed" ->
             of(StoredBlocks(MaxBlock, f) \cup PendingZone(f), itself)
        [] list = "extrinsics" /\ provider = "rpc" ->
             of(0 .. BestHead, LAMBDA n : ScannedExtrinsics(n, f))
        [] list = "extrinsics" /\ provider = "indexed" ->
             of(stored, LAMBDA n : StoredExtrinsics(n, f))
        [] list = "transfers" /\ provider = "rpc" ->
             of(0 .. final, LAMBDA n : ScannedTransfers(n, f))
        [] list = "transfers" /\ provider = "indexed" ->
             of(stored, LAMBDA n : StoredTransfers(n, f))
        [] OTHER -> of(0 .. BestHead, LAMBDA n : ScannedEvents(n, f))

\* Rows that can no longer be read and were not passed yet are no longer expected.
StillAvailable ==
  {k \in available : (cursor # None /\ k >= cursor) \/ k \in Servable(List, Provider, Filter)}

-----------------------------------------------------------------------------
(***************************************************************************)
(* The world: the node, the head watch and the indexer.                    *)
(***************************************************************************)
Init ==
  /\ chain \in Chains
  /\ top = 0 /\ final = 0 /\ hint = None /\ stored = {}
  /\ walk = NoWalk /\ pc = "idle" /\ cursor = None /\ got = << >>
  /\ tipRead = 0 /\ head = 0 /\ slice = << >>
  /\ available = {} /\ missing = {}

client == <<walk, pc, cursor, got, page, available, missing>>

Grow ==
  /\ top < MaxBlock
  /\ top' = top + 1
  /\ UNCHANGED <<chain, final, hint, stored, client>>

Finalize ==
  /\ final < top
  /\ final' = final + 1
  /\ UNCHANGED <<chain, top, hint, stored, client>>

\* The best-head watch publishes, or is emptied by a reconnect.
PublishBest ==
  /\ hint # top
  /\ hint' = top
  /\ UNCHANGED <<chain, top, final, stored, client>>

Disconnect ==
  /\ hint # None
  /\ hint' = None
  /\ UNCHANGED <<chain, top, final, stored, client>>

\* The live worker stores the next block, or after a restart the finalized head;
\* the backfill fills what it left out.
StoreBlock ==
  /\ \E n \in 0 .. final \ stored :
       /\ n > IndexedHead => n \in {IndexedHead + 1, final}
       /\ stored' = stored \cup {n}
  /\ UNCHANGED <<chain, top, final, hint, client>>

-----------------------------------------------------------------------------
(***************************************************************************)
(* The client.                                                             *)
(***************************************************************************)
StartWalk ==
  /\ pc = "idle"
  /\ \E w \in Lists :
       /\ walk' = w
       /\ available' = Servable(w[1], w[2], w[3])
  /\ pc' = "ask"
  /\ UNCHANGED <<world, cursor, got, page, missing>>

Leave ==
  /\ pc = "done"
  /\ walk' = NoWalk /\ pc' = "idle" /\ cursor' = None /\ got' = << >>
  /\ tipRead' = 0 /\ head' = 0 /\ slice' = << >>
  /\ available' = {} /\ missing' = {}
  /\ UNCHANGED world

\* The page arrives; its cursor is its last row when another page follows.
Receive(items, more) ==
  /\ got' = got \o items
  /\ cursor' = IF more THEN Last(items) ELSE cursor
  /\ pc' = IF more THEN "ask" ELSE "done"

\* The node does not find some block the request needs.
Lose(gone) ==
  /\ Cardinality(missing \cup gone) <= MaxMissing
  /\ missing' = missing \cup gone

Gone == {{}} \cup {{n} : n \in 0 .. top}

\* One page of RpcProvider; of IndexedProvider for events, which are not stored as a list.
AskRpc(list, Fetch(_, _)) ==
  /\ pc = "ask" /\ walk # NoWalk /\ List = list /\ Provider = "rpc"
  /\ \E gone \in Gone :
       /\ Lose(gone)
       /\ LET p == Fetch(gone, Filter) IN Receive(p.items, p.more)
  /\ available' = StillAvailable
  /\ UNCHANGED <<world, walk, page>>

AskRpcBlocks == AskRpc("blocks", RpcBlocks)
AskRpcExtrinsics == AskRpc("extrinsics", RpcExtrinsics)
AskRpcTransfers == AskRpc("transfers", RpcTransfers)
AskRpcEvents == AskRpc("events", RpcEvents)

\* One page of IndexedProvider that is a single query.
AskQuery(list, Fetch(_)) ==
  /\ pc = "ask" /\ walk # NoWalk /\ List = list /\ Provider = "indexed"
  /\ LET p == Fetch(Filter) IN Receive(p.items, p.more)
  /\ available' = StillAvailable
  /\ UNCHANGED <<world, walk, page, missing>>

AskIndexedExtrinsics == AskQuery("extrinsics", QueryExtrinsics)
AskIndexedTransfers == AskQuery("transfers", QueryTransfers)

\* The block page of IndexedProvider: the chain head, ...
AskIndexedBlocks ==
  /\ pc = "ask" /\ walk # NoWalk /\ List = "blocks" /\ Provider = "indexed"
  /\ tipRead' = BestHead
  /\ pc' = "head"
  /\ available' = StillAvailable
  /\ UNCHANGED <<world, walk, cursor, got, head, slice, missing>>

\* ... the indexed head, which decides whether the page reaches pending blocks, ...
PendingUpper == IF cursor = None THEN tipRead ELSE Below(BlockOf(cursor), 1)

WantsPending(indexed) == PendingUpper > indexed /\ Filter # "final"

ReadIndexedHead ==
  /\ pc = "head"
  /\ head' = IndexedHead
  /\ slice' = << >>
  /\ pc' = IF WantsPending(IndexedHead) THEN "pending" ELSE "db"
  /\ available' = StillAvailable
  /\ UNCHANGED <<world, walk, cursor, got, tipRead, missing>>

\* ... the pending slice, the rows of one RPC page down to the indexed head, ...
PendingSlice(items) ==
  SubSeq(items, 1, Max({n \in 0 .. Len(items) :
                          \A i \in 1 .. n : BlockOf(items[i]) > head}))

ReadPending ==
  /\ pc = "pending"
  /\ \E gone \in Gone :
       /\ Lose(gone)
       /\ slice' = PendingSlice(RpcBlocks(gone, Filter).items)
  /\ pc' = "db"
  /\ available' = StillAvailable
  /\ UNCHANGED <<world, walk, cursor, got, tipRead, head>>

\* ... and the rest of the page from the database.
\* The first page of the database is not bounded by the head the slice was cut at.
FaultyDbUpper == IF cursor = None THEN MaxBlock ELSE Below(BlockOf(cursor), 1)

DbUpper == IF cursor = None THEN head ELSE AtMost(head, Below(BlockOf(cursor), 1))

FillPage ==
  /\ pc = "db"
  /\ LET need == Count - Len(slice)
         rest == Trim(QueryBlocks(need + 1, DbUpper, Filter).items, need)
     IN  IF need > 0
         THEN /\ got' = got \o slice \o rest.items
              /\ cursor' = IF rest.more THEN Last(rest.items) ELSE cursor
              /\ pc' = IF rest.more THEN "ask" ELSE "done"
         ELSE Receive(slice, head > 0 /\ PendingUpper > head)
  /\ available' = StillAvailable
  /\ UNCHANGED <<world, walk, page, missing>>

Ask ==
  \/ AskRpcBlocks \/ AskRpcExtrinsics \/ AskRpcTransfers \/ AskRpcEvents
  \/ AskIndexedExtrinsics \/ AskIndexedTransfers
  \/ AskIndexedBlocks \/ ReadIndexedHead \/ ReadPending \/ FillPage

Next ==
  \/ Grow \/ Finalize \/ PublishBest \/ Disconnect \/ StoreBlock
  \/ StartWalk \/ Leave \/ Ask

Spec == Init /\ [][Next]_vars

-----------------------------------------------------------------------------
(***************************************************************************)
(* Properties.                                                             *)
(***************************************************************************)
TypeOK ==
  /\ chain \in Chains
  /\ final \in 0 .. top /\ top \in 0 .. MaxBlock
  /\ hint \in 0 .. top \cup {None}
  /\ stored \subseteq 0 .. final
  /\ walk \in Lists \cup {NoWalk}
  /\ pc \in {"idle", "ask", "head", "pending", "db", "done"}
  /\ \A k \in Range(got) \cup available \cup ({cursor} \ {None}) : BlockOf(k) \in 0 .. MaxBlock
  /\ head \in 0 .. final /\ tipRead \in 0 .. top
  /\ Len(slice) <= Count
  /\ missing \subseteq 0 .. MaxBlock

\* A walk never shows a row twice nor goes back up: the rows it returned, over all its
\* pages and in the middle of growth, strictly descend.
RowsDescend == \A i \in 1 .. Len(got) - 1 : got[i] > got[i + 1]

\* A walk leaves nothing out between two rows it shows: every matching row that the
\* provider could have served at each of its requests, that is above the last row shown
\* and that the node did find, was shown.
\* Excepted is the block list of IndexedProvider filtered by size: its pending slice is
\* one window of the node, and the database takes over below the indexed head.
NothingSkipped ==
  pc \in {"ask", "done"} /\ walk # <<"blocks", "indexed", "busy">> =>
    \A k \in available :
      got # << >> /\ k > Last(got) /\ BlockOf(k) \notin missing => k \in Range(got)

\* Lists read to their end: every list of the database, and the unfiltered block list.
\* A scan of the node stops at its depth, and a fresh database (indexed head 0) ends
\* a page of pending blocks.
ReadsToTheEnd ==
  \/ List # "blocks" /\ Provider = "indexed"
  \/ List = "blocks" /\ Provider = "rpc" /\ Filter = "all"
  \/ List = "blocks" /\ Provider = "indexed" /\ Filter \in {"all", "final"} /\ head > 0

\* When such a list says there is no other page, the walk returned every row it could
\* have been served at each of its requests.
EndMeansAll ==
  pc = "done" /\ ReadsToTheEnd /\ missing = {} => available \subseteq Range(got)

\* Every block of every chain is one Postgres stores as it is.
ChainsAreStorable == \A c \in Chains : \A n \in 0 .. MaxBlock : Storable(c[n])

\* The indexer and the mappers read the same block the same way: a block, an extrinsic
\* and a transfer have the same fields whether they come from Postgres or from the node,
\* and a stored block reads as final there too.  Excepted are signers other than plain
\* accounts, and transfers of nothing, of which the query finds no losing side.
PathsAgree ==
  \A n \in stored :
    /\ \A i \in Indices(chain[n].xts) :
         At(chain[n].xts, i).signer # Foreign =>
           RowToExtrinsic(chain[n], i) = MapExtrinsic(chain[n], i)
    /\ ReadTransfers(chain[n]) = {t \in MapTransfers(chain[n]) : t.amount > 0}
    /\ RowToBlock(chain[n], n) = MapBlock(chain[n], n, final)

\* Whoever has a movement row in a stored block had their balance read again at that
\* block: the movements and the touched accounts are two readings of the same events
\* (balances.rs:566, "any arm that decodes fresh accounts must contribute them to the
\* snapshot set, or the account_balances row will drift").
MovementsAreTouched ==
  \A n \in stored :
    {m.account : m \in ProjectMovements(chain[n])} \subseteq CollectTouched(chain[n])

=============================================================================
