-------------------------------- MODULE Ats --------------------------------
(***************************************************************************)
(* The registry of ATS records, read twice.  The pallet keeps, per id, an  *)
(* owner and a growing list of versions; an id that is revoked is deleted  *)
(* and never used again.  RpcProvider rebuilds records from the storage of *)
(* the node at its current finalized block and from the blocks that        *)
(* created their versions (src/src/data/rpc/mappers/ats.rs); the indexer   *)
(* projects the Ats events of each block onto two tables                   *)
(* (src/src/indexer/projections/ats.rs, apply_ats in                       *)
(* src/src/indexer/sink.rs), from where IndexedProvider reads them         *)
(* (src/src/data/indexed/queries/ats.rs).                                  *)
(*                                                                         *)
(* A client walks one of three lists: the records by id, the records of    *)
(* one owner by id, or the feed of versions by (block, id, version).       *)
(* Blocks are stored here in the order of the chain; Indexer has the       *)
(* other orders.  Block n has timestamp n.                                 *)
(***************************************************************************)
EXTENDS Paging, SequencesExt

CONSTANTS
  Accounts,      \* who creates, updates and owns
  Owner,         \* the account whose list is walked
  MaxOps,        \* bound on the Ats extrinsics of the chain
  Count,         \* rows per page
  FeedBuffer,    \* max(2 * count, 64): versions the feed of RpcProvider looks at
  MaxLost,       \* bound on the blocks the node fails to give during a walk
  Stride         \* bound on ids and on version indexes

ASSUME AtsAssumption ==
  /\ Owner \in Accounts
  /\ MaxOps \in Nat
  /\ Stride \in Nat /\ Stride >= MaxOps
  /\ Count \in Nat \ {0}
  /\ FeedBuffer \in Nat
  /\ MaxLost \in Nat

VARIABLES
  blocks,        \* the finalized chain: block n is blocks[n], its Ats extrinsics
  pallets,       \* the pallet's storage at each height: the node keeps every state
  stored,        \* height up to which the indexer has stored it
  registry,      \* ats_registry: id -> [owner, created, count]
  versions,      \* ats_versions: rows [ats, version, block, ext]
  walk,          \* the <<list, provider>> being walked, or NoWalk
  cursor,        \* the cursor of the next request, or None
  got,           \* keys received so far
  more,          \* whether the last page announced another one
  available,     \* rows the client could have received at every request so far
  lost           \* blocks the node failed to give during this walk

node == <<blocks, pallets>>
tables == <<stored, registry, versions>>
client == <<walk, cursor, got, more, available, lost>>
vars == <<node, tables, client>>

NoWalk == << >>
FeedKey(block, id, version) == block * (Stride * Stride) + id * Stride + version
Take(rows, n) == SubSeq(rows, 1, AtMost(n, Len(rows)))
Drop(rows, n) == SubSeq(rows, n + 1, Len(rows))

(***************************************************************************)
(* The pallet.  An extrinsic is [kind, id, version, signer, block, ext]:   *)
(* with its event AtsCreated, AtsUpdated or AtsRevoked.                    *)
(***************************************************************************)
NoEntries == [next |-> 0, live |-> [i \in {} |-> None]]

Dispatch(pallet, op) ==
  LET version == [block |-> op.block, ext |-> op.ext]
      live == pallet.live
  IN  CASE op.kind = "create" ->
             [next |-> pallet.next + 1,
              live |-> [i \in DOMAIN live \cup {op.id} |->
                          IF i \in DOMAIN live THEN live[i]
                          ELSE [owner |-> op.signer, versions |-> <<version>>]]]
        [] op.kind = "update" ->
             [pallet EXCEPT !.live[op.id].versions = Append(@, version)]
        [] op.kind = "revoke" ->
             [pallet EXCEPT !.live = [i \in DOMAIN live \ {op.id} |-> live[i]]]

Tip == Len(blocks)
AtTip == pallets[Tip]

Ops(pallet, block, ext) ==
  LET op(kind, id, version, signer) ==
        [kind |-> kind, id |-> id, version |-> version, signer |-> signer,
         block |-> block, ext |-> ext]
  IN  {op("create", pallet.next, 0, a) : a \in Accounts}
        \cup {op("update", i, Len(pallet.live[i].versions), a) :
                i \in DOMAIN pallet.live, a \in Accounts}
        \cup {op("revoke", i, 0, pallet.live[i].owner) : i \in DOMAIN pallet.live}

\* The extrinsics of the chain, and the versions a storage holds, as <<id, position>>.
Extrinsics == UNION {{n} \X DOMAIN blocks[n] : n \in 1 .. Tip}
LiveVersions(pallet) ==
  UNION {{i} \X DOMAIN pallet.live[i].versions : i \in DOMAIN pallet.live}

(***************************************************************************)
(* RpcProvider.  The block of a version is loaded again for its timestamp, *)
(* extrinsic and signer; a block the node does not give any more leaves a  *)
(* partial row.                                                            *)
(***************************************************************************)
Matches(op, id, version) ==
  /\ op.id = id
  /\ \/ op.kind = "create" /\ version = 0
     \/ op.kind = "update" /\ version > 0 /\ op.version = version

VersionExtras(block, id, version, owner, gone) ==
  LET of == {op \in Range(blocks[block]) : Matches(op, id, version)}
  IN  IF block \in gone THEN [time |-> 0, ext |-> 0, signer |-> owner]
      ELSE LET op == CHOOSE o \in of : TRUE
           IN  [time |-> block, ext |-> op.ext, signer |-> op.signer]

BuildRecord(pallet, id, gone) ==
  LET entry == pallet.live[id]
      extras(i) == VersionExtras(entry.versions[i].block, id, i - 1, entry.owner, gone)
      version(i) == [index |-> i - 1, block |-> entry.versions[i].block,
                     time |-> extras(i).time, ext |-> extras(i).ext,
                     signer |-> extras(i).signer]
  IN  [id |-> id, owner |-> entry.owner, created |-> entry.versions[1].block,
       count |-> Len(entry.versions),
       versions |-> [i \in DOMAIN entry.versions |-> version(i)]]

OwnerIndex(pallet, owner) == {i \in DOMAIN pallet.live : pallet.live[i].owner = owner}

\* The ids below the cursor of the request.
Before(ids) == {i \in ids : cursor = None \/ i < cursor}

\* The walk down the registry passes over revoked ids before it counts positions.
BuildList(pallet, count, from) == Take(Drop(NewestFirst(DOMAIN pallet.live), from), count)

\* The offset the client has counted: a creation between two pages moves it.
FaultyFromIndex(pallet) == Len(got)

FromIndex(pallet) == IF cursor = None THEN 0 ELSE Below(pallet.next, cursor)

RpcList(pallet, gone) == Trim(BuildList(pallet, Count + 1, FromIndex(pallet)), Count)

RpcOwned(pallet, gone) == Trim(NewestFirst(Before(OwnerIndex(pallet, Owner))), Count)

FeedItem(record, i) ==
  LET v == record.versions[i]
  IN  [id |-> record.id, index |-> v.index, block |-> v.block, time |-> v.time,
       owner |-> record.owner, signer |-> v.signer, ext |-> v.ext,
       latest |-> v.index + 1 = record.count]

FeedItems(record) == {FeedItem(record, i) : i \in DOMAIN record.versions}

\* The walk emits the versions of the newest record first, the newest version first,
\* and stops after `count`.
Scanned(pallet, count) ==
  LET rows == LiveVersions(pallet)
      earlier(v) == {w \in rows : w[1] > v[1] \/ (w[1] = v[1] /\ w[2] > v[2])}
  IN  {v \in rows : Cardinality(earlier(v)) < count}

BuildFeed(pallet, count, gone) ==
  {FeedItem(BuildRecord(pallet, v[1], gone), v[2]) : v \in Scanned(pallet, count)}

KeyOf(item) == FeedKey(item.block, item.id, item.index)

\* As before the fix of the feed: newest id first, whatever the block.
FaultyFeedOrder(item) == FeedKey(0, item.id, item.index)

\* sort_by_key is stable: equal timestamps keep the order of the walk.
FeedOrder(item) == FeedKey(item.time, item.id, item.index)

SortedByTime(items) ==
  LET order == NewestFirst({FeedOrder(item) : item \in items})
  IN  [i \in DOMAIN order |-> CHOOSE item \in items : FeedOrder(item) = order[i]]

KeysOf(items) == [i \in DOMAIN items |-> KeyOf(items[i])]

\* The items at or above the cursor are dropped after the sort in the code; which of
\* the two comes first makes no difference.
RpcFeed(pallet, gone) ==
  LET items == BuildFeed(pallet, FeedBuffer, gone)
  IN  Trim(KeysOf(SortedByTime({item \in items : cursor = None \/ KeyOf(item) < cursor})),
           Count)

\* The number of versions of each record, added up.
VersionTotal(counts) == SumFunction(counts)

BuildStats(pallet) ==
  LET ids == DOMAIN pallet.live
      count(i) == Len(pallet.live[i].versions)
      created == {pallet.live[i].versions[1].block : i \in ids}
  IN  [total |-> Cardinality(ids),
       total_versions |-> VersionTotal([i \in ids |-> count(i)]),
       unique_owners |-> Cardinality({pallet.live[i].owner : i \in ids}),
       multi_version |-> Cardinality({i \in ids : count(i) > 1}),
       genesis_block |-> IF created = {} THEN 0 ELSE Min(created)]

(***************************************************************************)
(* The indexer: the Ats events of a block grouped by effect, and the four  *)
(* writes in the order of the sink.  Revoking a record deletes its         *)
(* versions (ON DELETE CASCADE).                                           *)
(***************************************************************************)
Project(block) ==
  LET of(kind) == {op \in Range(block) : op.kind = kind}
      row(op) == [ats |-> op.id, version |-> op.version, block |-> op.block, ext |-> op.ext]
  IN  [registry_inserts |-> {[id |-> op.id, owner |-> op.signer, created |-> op.block] :
                               op \in of("create")},
       version_inserts |-> {row(op) : op \in of("create") \cup of("update")},
       version_count_bumps |-> {[id |-> op.id, count |-> op.version + 1] :
                                  op \in of("update")},
       revocations |-> {op.id : op \in of("revoke")}]

InsertRegistry(table, inserts) ==
  [i \in DOMAIN table \cup {r.id : r \in inserts} |->
     IF i \in DOMAIN table THEN table[i]
     ELSE LET r == CHOOSE r \in inserts : r.id = i
          IN  [owner |-> r.owner, created |-> r.created, count |-> 1]]

InsertVersions(rows, inserts) ==
  rows \cup {v \in inserts : \A r \in rows : <<r.ats, r.version>> # <<v.ats, v.version>>}

\* The count of an update is its version index.
FaultyBumpCounts(table, bumps) ==
  [i \in DOMAIN table |->
     [table[i] EXCEPT !.count = Max({@} \cup {b.count - 1 : b \in {c \in bumps : c.id = i}})]]

BumpCounts(table, bumps) ==
  [i \in DOMAIN table |->
     [table[i] EXCEPT !.count = Max({@} \cup {b.count : b \in {c \in bumps : c.id = i}})]]

\* The registry row goes, its versions stay.
FaultyRevoke(rows, ids) == rows

Revoke(rows, ids) == {r \in rows : r.ats \notin ids}

ForeignKeyHolds(table, inserts) == \A v \in inserts : v.ats \in DOMAIN table

(***************************************************************************)
(* The queries.  A version's signer is that of its extrinsic row, its time *)
(* that of its block row.                                                  *)
(***************************************************************************)
RowToVersion(row) ==
  [index |-> row.version, block |-> row.block, time |-> row.block, ext |-> row.ext,
   signer |-> blocks[row.block][row.ext].signer]

VersionsFor(id) == {r \in versions : r.ats = id}

\* ORDER BY version_index.
VersionAt(id, i) ==
  CHOOSE r \in VersionsFor(id) :
    Cardinality({s \in VersionsFor(id) : s.version < r.version}) = i - 1

RegistryToRecord(id) ==
  [id |-> id, owner |-> registry[id].owner, created |-> registry[id].created,
   count |-> registry[id].count,
   versions |-> [i \in 1 .. Cardinality(VersionsFor(id)) |-> RowToVersion(VersionAt(id, i))]]

RowKey(row) == FeedKey(row.block, row.ats, row.version)

FeedRowToItem(row) ==
  [id |-> row.ats, index |-> row.version, block |-> row.block, time |-> row.block,
   owner |-> registry[row.ats].owner, signer |-> RowToVersion(row).signer, ext |-> row.ext,
   latest |-> row.version + 1 = registry[row.ats].count]

OwnedRows == {i \in DOMAIN registry : registry[i].owner = Owner}
FeedKeys == {RowKey(r) : r \in versions}

\* WHERE the key is below the cursor, ORDER BY the key DESC, LIMIT count + 1.
ListAtsPage == Trim(NewestFirst(Before(DOMAIN registry)), Count)
ListAccountAtsPage == Trim(NewestFirst(Before(OwnedRows)), Count)
ListAtsFeedPage == Trim(NewestFirst(Before(FeedKeys)), Count)

\* The versions are counted where the other figures count records.
FaultyStoredStats ==
  LET ids == DOMAIN registry
  IN  [total |-> Cardinality(ids),
       total_versions |-> VersionTotal([i \in ids |-> 1]),
       unique_owners |-> Cardinality({registry[i].owner : i \in ids}),
       multi_version |-> Cardinality({i \in ids : registry[i].count > 1}),
       genesis_block |-> IF ids = {} THEN 0 ELSE Min({registry[i].created : i \in ids})]

StoredStats ==
  LET ids == DOMAIN registry
      count(i) == registry[i].count
  IN  [total |-> Cardinality(ids),
       total_versions |-> VersionTotal([i \in ids |-> count(i)]),
       unique_owners |-> Cardinality({registry[i].owner : i \in ids}),
       multi_version |-> Cardinality({i \in ids : registry[i].count > 1}),
       genesis_block |-> IF ids = {} THEN 0 ELSE Min({registry[i].created : i \in ids})]

(***************************************************************************)
(* The rows a client could receive now, were its page long enough.         *)
(***************************************************************************)
LiveKeys(pallet) ==
  {FeedKey(pallet.live[v[1]].versions[v[2]].block, v[1], v[2] - 1) : v \in LiveVersions(pallet)}

Servable(list, provider) ==
  CASE list = "records" /\ provider = "rpc" -> DOMAIN AtTip.live
    [] list = "owned" /\ provider = "rpc" -> OwnerIndex(AtTip, Owner)
    [] list = "feed" /\ provider = "rpc" -> LiveKeys(AtTip)
    [] list = "records" /\ provider = "indexed" -> DOMAIN registry
    [] list = "owned" /\ provider = "indexed" -> OwnedRows
    [] list = "feed" /\ provider = "indexed" -> FeedKeys

StillAvailable ==
  {k \in available : k \in Servable(walk[1], walk[2]) \/ (cursor # None /\ k >= cursor)}

-----------------------------------------------------------------------------
Init ==
  /\ blocks = << >> /\ pallets = [n \in {0} |-> NoEntries]
  /\ stored = 0 /\ registry = [i \in {} |-> None] /\ versions = {}
  /\ walk = NoWalk /\ cursor = None /\ got = << >> /\ more = FALSE
  /\ available = {} /\ lost = {}

Import(block, pallet) ==
  /\ blocks' = Append(blocks, block)
  /\ pallets' = [n \in 0 .. Tip + 1 |-> IF n <= Tip THEN pallets[n] ELSE pallet]

\* The node finalizes a block of one or two Ats extrinsics.
Finalize ==
  /\ \E o \in Ops(AtTip, Tip + 1, 1) :
       \/ Cardinality(Extrinsics) < MaxOps /\ Import(<<o>>, Dispatch(AtTip, o))
       \/ /\ Cardinality(Extrinsics) + 1 < MaxOps
          /\ \E p \in Ops(Dispatch(AtTip, o), Tip + 1, 2) :
               Import(<<o, p>>, Dispatch(Dispatch(AtTip, o), p))
  /\ UNCHANGED <<tables, client>>

\* apply_ats, in the transaction of the next block.
StoreBlock ==
  /\ stored < Tip
  /\ LET ops == Project(blocks[stored + 1])
         inserted == InsertRegistry(registry, ops.registry_inserts)
         bumped == BumpCounts(inserted, ops.version_count_bumps)
     IN  /\ ForeignKeyHolds(inserted, ops.version_inserts)
         /\ registry' = [i \in DOMAIN bumped \ ops.revocations |-> bumped[i]]
         /\ versions' = Revoke(InsertVersions(versions, ops.version_inserts), ops.revocations)
  /\ stored' = stored + 1
  /\ UNCHANGED <<node, client>>

-----------------------------------------------------------------------------
StartWalk ==
  /\ walk = NoWalk
  /\ \E l \in {"records", "owned", "feed"}, p \in {"rpc", "indexed"} :
       /\ walk' = <<l, p>>
       /\ available' = Servable(l, p)
  /\ more' = TRUE
  /\ UNCHANGED <<node, tables, cursor, got, lost>>

Leave ==
  /\ walk # NoWalk /\ ~ more
  /\ walk' = NoWalk /\ cursor' = None /\ got' = << >>
  /\ available' = {} /\ lost' = {}
  /\ UNCHANGED <<node, tables, more>>

Receive(p) ==
  /\ got' = got \o p.items
  /\ cursor' = IF p.more THEN Last(p.items) ELSE cursor
  /\ more' = p.more
  /\ available' = StillAvailable
  /\ UNCHANGED <<node, tables, walk>>

Ask(list, provider) == walk = <<list, provider>> /\ more

AskRpc(list, Fetch(_, _)) ==
  /\ Ask(list, "rpc")
  /\ \E gone \in {{}} \cup {{n} : n \in 1 .. Tip} :
       /\ Cardinality(lost \cup gone) <= MaxLost
       /\ lost' = lost \cup gone
       /\ Receive(Fetch(AtTip, gone))

AskRpcList == AskRpc("records", RpcList)
AskRpcOwned == AskRpc("owned", RpcOwned)
AskRpcFeed == AskRpc("feed", RpcFeed)

AskStoredList == Ask("records", "indexed") /\ Receive(ListAtsPage) /\ UNCHANGED lost
AskStoredOwned == Ask("owned", "indexed") /\ Receive(ListAccountAtsPage) /\ UNCHANGED lost
AskStoredFeed == Ask("feed", "indexed") /\ Receive(ListAtsFeedPage) /\ UNCHANGED lost

Next ==
  \/ Finalize \/ StoreBlock \/ StartWalk \/ Leave
  \/ AskRpcList \/ AskRpcOwned \/ AskRpcFeed
  \/ AskStoredList \/ AskStoredOwned \/ AskStoredFeed

Spec == Init /\ [][Next]_vars

-----------------------------------------------------------------------------
(***************************************************************************)
(* Properties.                                                             *)
(***************************************************************************)
TypeOK ==
  /\ stored \in 0 .. Tip
  /\ \A i \in DOMAIN registry :
       registry[i].owner \in Accounts /\ registry[i].count \in 1 .. MaxOps
  /\ \A r \in versions : r.ats \in DOMAIN registry /\ r.block \in 1 .. stored
  /\ walk \in ({"records", "owned", "feed"} \X {"rpc", "indexed"}) \cup {NoWalk}
  /\ more \in BOOLEAN
  /\ lost \subseteq 1 .. Tip

\* At every height the indexer has reached, the tables hold the registry the pallet had
\* at that height: every record and every item of the feed read from Postgres is the one
\* RpcProvider would have built there (tests/ats.rs, registry_matches_rpc_scan), although
\* a block's operations are applied grouped by kind and not in their order.
RecordsAgree ==
  LET pallet == pallets[stored]
  IN  /\ DOMAIN registry = DOMAIN pallet.live
      /\ \A i \in DOMAIN registry :
           /\ RegistryToRecord(i) = BuildRecord(pallet, i, {})
           /\ {FeedRowToItem(r) : r \in VersionsFor(i)} =
                FeedItems(BuildRecord(pallet, i, {}))

\* The figures of both providers agree at every height the indexer has reached.
StatsAgree == StoredStats = BuildStats(pallets[stored])

\* The feed of RpcProvider is sorted by timestamp: a block it could not load puts its
\* versions last.
Ordered == walk = <<"feed", "rpc">> => lost = {}

\* A walk never shows a row twice nor goes back up, whatever is created, updated or
\* revoked between its pages.
RowsDescend == Ordered => \A i \in 1 .. Len(got) - 1 : got[i] > got[i + 1]

\* RpcProvider looks at FeedBuffer versions only, and its list of records counts live
\* records where the cursor counts ids: the first must be enough at every height, and no
\* record may have been revoked.
Complete ==
  CASE walk = <<"feed", "rpc">> ->
         /\ \A n \in 0 .. Tip : Cardinality(LiveVersions(pallets[n])) <= FeedBuffer
         /\ lost = {}
    [] walk = <<"records", "rpc">> ->
         \A n \in 0 .. Tip : DOMAIN pallets[n].live = 0 .. pallets[n].next - 1
    [] OTHER -> TRUE

\* A walk that has come to its end has shown every row that could be read at each of its
\* requests (tests/ats.rs, version_feed_pagination).
WalksAreComplete ==
  walk # NoWalk /\ ~ more /\ Complete => available \subseteq Range(got)
=============================================================================
