----------------------------- MODULE BlockReads -----------------------------
(***************************************************************************)
(* RpcProvider's reads of blocks while the chain grows, re-organises and   *)
(* finalizes: the two head watches, the hot cache of the finalized head,   *)
(* the LRUs of block bodies with moka's single flight, and the handlers    *)
(* that read a head, look a block up, load it and map it.                  *)
(*                                                                         *)
(* A block is its number and the fork it is on; its contents are those of  *)
(* the fork.  extrinsics_in_block and events_in_block are the operation    *)
(* "list"; block_by_number, extrinsic_by_id and latest_blocks are "block", *)
(* "one" and "page".                                                       *)
(***************************************************************************)
EXTENDS Integers, FiniteSets, FiniteSetsExt

CONSTANTS
    Readers,      \* API handlers running at the same time
    MaxHeight,    \* bound: the highest block produced
    MaxForks,     \* bound: re-organisations of the part not yet finalized
    MaxFaults,    \* bound: pins dropped, storage reads failed, handlers dropped
    Ops,          \* operations the readers call
    Asked,        \* numbers they ask for; of a "page", the cursor (0 for none)
    PageCount,    \* PageRequest::count of a "page"
    None

Heights == 0 .. MaxHeight
Forks == 0 .. MaxForks
LruOps == {"block", "list", "one"}
AllOps == LruOps \cup {"page"}

ASSUME BoundsAreNumbers ==
    /\ {MaxHeight, MaxForks, MaxFaults, PageCount} \subseteq Nat
    /\ Ops \subseteq AllOps /\ Asked \subseteq Heights

VARIABLES
    canon,      \* canon[n]: fork of the canonical block n, as the node answers
    best,       \* the node's best block
    final,      \* the node's finalized block
    watch,      \* RpcClient's finalized_head and best_head watches
    hot,        \* Caches::finalized_head
    cache,      \* Caches: the LRUs of LruOps and the hot cache of latest_blocks
    reader,     \* where each handler is
    faults

vars == <<canon, best, final, watch, hot, cache, reader, faults>>
node == <<canon, best, final>>

\* What a mapped block says of itself, and the empty list.
Row == [fork: Forks, finalized: BOOLEAN]
Empty == [fork |-> None, finalized |-> FALSE]
Entry == Row \cup {Empty, None}
Rows == UNION {[N -> Entry] : N \in SUBSET Heights}
Pcs == {"idle", "final", "best", "lookup", "wait", "window", "load"}

IdleReader == [pc |-> "idle", op |-> "block", n |-> 0, final |-> 0,
               best |-> None, rows |-> [n \in {} |-> None], todo |-> {}]

TypeOK ==
    /\ canon \in [Heights -> Forks] /\ best \in Heights /\ final \in 0 .. best
    /\ watch \in [final: Heights \cup {None}, best: Heights \cup {None}]
    /\ hot \in Heights \cup {None}
    /\ cache \in [AllOps -> [Heights -> Rows \cup {None}]]
    /\ reader \in [Readers -> [pc: Pcs, op: AllOps, n: Heights, final: Heights,
                               best: Heights \cup {None}, rows: Rows,
                               todo: SUBSET Heights]]
    /\ \A r \in Readers : reader[r].todo \subseteq DOMAIN reader[r].rows
    /\ faults \in 0 .. MaxFaults

Init ==
    /\ canon = [n \in Heights |-> 0] /\ best = 0 /\ final = 0
    /\ watch = [final |-> None, best |-> None] /\ hot = None
    /\ cache = [op \in AllOps |-> [n \in Heights |-> None]]
    /\ reader = [r \in Readers |-> IdleReader]
    /\ faults = 0

MayFail == faults < MaxFaults /\ faults' = faults + 1

------------------------------------------------------------------------------
(***************************************************************************)
(* The node.                                                               *)
(***************************************************************************)

Grow ==
    /\ best < MaxHeight /\ best' = best + 1
    /\ UNCHANGED <<canon, final, watch, hot, cache, reader, faults>>

\* Another fork, from block n on, becomes the best chain.
Reorg ==
    /\ \E n \in final + 1 .. best :
        /\ canon[best] < MaxForks
        /\ canon' = [m \in Heights |-> IF m >= n THEN canon[best] + 1 ELSE canon[m]]
    /\ UNCHANGED <<best, final, watch, hot, cache, reader, faults>>

Finalize ==
    /\ final < best /\ final' = final + 1
    /\ UNCHANGED <<canon, best, watch, hot, cache, reader, faults>>

------------------------------------------------------------------------------
(***************************************************************************)
(* RpcClient's watches and the expiry of the caches.                       *)
(***************************************************************************)

\* run_finalized_head_watch: the stream delivers every finalized block.
PublishFinal ==
    /\ watch.final # final
    /\ watch' = [watch EXCEPT !.final = IF @ = None THEN final ELSE @ + 1]
    /\ UNCHANGED <<node, hot, cache, reader, faults>>

\* run_best_stream: the number is sent before the block is mapped.
PublishBest ==
    /\ watch.best # best /\ watch' = [watch EXCEPT !.best = best]
    /\ UNCHANGED <<node, hot, cache, reader, faults>>

\* invalidate and the end of a stream take both watches back to None.
Disconnect ==
    /\ MayFail /\ watch' = [final |-> None, best |-> None]
    /\ UNCHANGED <<node, hot, cache, reader>>

Expire ==
    /\ hot # None /\ hot' = None
    /\ UNCHANGED <<node, watch, cache, reader, faults>>

ExpirePage ==
    /\ \E n \in Asked : /\ cache["page"][n] # None
                       /\ cache' = [cache EXCEPT !["page"][n] = None]
    /\ UNCHANGED <<node, watch, hot, reader, faults>>

------------------------------------------------------------------------------
(***************************************************************************)
(* A read.                                                                 *)
(***************************************************************************)

\* The handler answers what it found in a cache, loaded, or waited for.
Answer(rs) ==
    reader' = [r \in Readers |-> IF r \in rs THEN IdleReader ELSE reader[r]]

\* latest_blocks takes the best head first, if it is published.
Start(r) ==
    /\ reader[r].pc = "idle"
    /\ \E op \in Ops, n \in Asked :
        reader' = [reader EXCEPT ![r].op = op, ![r].n = n,
                     ![r].best = IF op = "page" THEN watch.best ELSE None,
                     ![r].pc = CASE op = "page" -> "lookup"
                                 [] op = "block" -> "final"
                                 [] OTHER -> "best"]
    /\ UNCHANGED <<node, watch, hot, cache, faults>>

\* finalized_head_number: the watch, then the hot cache, then the node.
FinalizedHeadNumber(head) ==
    IF watch.final # None THEN head = watch.final /\ UNCHANGED hot
    ELSE IF hot # None THEN head = hot /\ UNCHANGED hot
    ELSE head = final /\ hot' = final

ReadFinal(r) ==
    /\ reader[r].pc = "final"
    /\ \E head \in Heights :
        /\ FinalizedHeadNumber(head)
        /\ reader' = [reader EXCEPT ![r].pc = "best", ![r].final = head]
    /\ UNCHANGED <<node, watch, cache, faults>>

\* best_head_number, and the guard against numbers above it.
ReadBest(r) ==
    /\ reader[r].pc = "best"
    /\ \E head \in Heights :
        /\ IF watch.best # None THEN head = watch.best /\ UNCHANGED hot
           ELSE FinalizedHeadNumber(head)
        /\ IF reader[r].n > head
           THEN Answer({r})
           ELSE reader' = [reader EXCEPT ![r].pc = "lookup"]
    /\ UNCHANGED <<node, watch, cache, faults>>

SameKey(r, p) == reader[p].op = reader[r].op /\ reader[p].n = reader[r].n
Loads == {"window", "load"}
Loading(r) == {p \in Readers : reader[p].pc \in Loads /\ SameKey(r, p)}
Waiting(r) == {p \in Readers : reader[p].pc = "wait" /\ SameKey(r, p)}

\* cached: a hit, a load already in flight to wait for, or a load.
Lookup(r) ==
    LET cached == cache[reader[r].op][reader[r].n] IN
    /\ reader[r].pc = "lookup"
    /\ IF cached # None THEN Answer({r})
       ELSE IF Loading(r) # {} THEN reader' = [reader EXCEPT ![r].pc = "wait"]
       ELSE IF reader[r].op = "page"
       THEN reader' = [reader EXCEPT ![r].pc = "window"]
       ELSE reader' = [reader EXCEPT ![r].pc = "load",
                         ![r].rows = [n \in {reader[r].n} |-> None],
                         ![r].todo = {reader[r].n}]
    /\ UNCHANGED <<node, watch, hot, cache, faults>>

\* latest_blocks: the window of count + 1 numbers that ends at the tip or
\* just below the cursor n; n = 0 stands for no cursor.
Window(tip) == (IF tip <= PageCount THEN 0 ELSE tip - PageCount) .. tip

OpenWindow(r) ==
    /\ reader[r].pc = "window"
    /\ LET head == IF reader[r].best = None THEN final ELSE reader[r].best
           tip == IF reader[r].n = 0 \/ reader[r].n - 1 > head THEN head
                  ELSE reader[r].n - 1
       IN reader' = [reader EXCEPT ![r].pc = "load", ![r].final = final, ![r].best = None,
                       ![r].rows = [n \in Window(tip) |-> None],
                       ![r].todo = Window(tip)]
    /\ UNCHANGED <<node, watch, hot, cache, faults>>

\* map_block flags a block by the head the handler read before it loads.
BestFlagsFinal(r, n) == n <= best
FinalizedAt(r, n) == n <= reader[r].final

\* at_block pins the block the node has at that number now: all later reads
\* of the load are made at its hash.
AtBlock(r, n) ==
    /\ reader[r].pc = "load" /\ n \in reader[r].todo /\ n <= best
    /\ reader' = [reader EXCEPT ![r].todo = @ \ {n},
                    ![r].rows[n] = [fork |-> canon[n],
                                    finalized |-> reader[r].op \in {"block", "page"}
                                                  /\ FinalizedAt(r, n)]]
    /\ UNCHANGED <<node, watch, hot, cache, faults>>

\* BlockNotFound: the node does not have the block, or has dropped the pin.
NotFound(r, n) ==
    /\ reader[r].pc = "load" /\ n \in reader[r].todo
    /\ IF n <= best THEN MayFail ELSE UNCHANGED faults
    /\ reader' = [reader EXCEPT ![r].todo = @ \ {n},
                    ![r].rows[n] = IF reader[r].op = "list" THEN Empty ELSE None]
    /\ UNCHANGED <<node, watch, hot, cache>>

\* A successful load enters the LRU, an error does not: block_by_number and
\* extrinsic_by_id turn a missing block into an error, the lists do not.
Found(r) == reader[r].op = "page" \/ reader[r].rows[reader[r].n] # None

Finish(r) ==
    /\ reader[r].pc = "load" /\ reader[r].todo = {}
    /\ cache' = IF Found(r)
                THEN [cache EXCEPT ![reader[r].op][reader[r].n] = reader[r].rows]
                ELSE cache
    /\ Answer({r} \cup Waiting(r))
    /\ UNCHANGED <<node, watch, hot, faults>>

\* A transport error or a timeout of any call of the load.
FailedLoad(r) ==
    /\ reader[r].pc \in Loads /\ MayFail
    /\ Answer({r} \cup Waiting(r))
    /\ UNCHANGED <<node, watch, hot, cache>>

\* The client of the request goes away and its future is dropped: one of the
\* waiters loads instead.
StrandingCancel(r) ==
    /\ reader[r].pc \in Loads /\ MayFail
    /\ Answer({r})
    /\ UNCHANGED <<node, watch, hot, cache>>

Cancel(r) ==
    /\ reader[r].pc \in Loads /\ MayFail
    /\ reader' = [p \in Readers |-> IF p = r THEN IdleReader
                                    ELSE IF p \in Waiting(r)
                                    THEN [reader[p] EXCEPT !.pc = "lookup"]
                                    ELSE reader[p]]
    /\ UNCHANGED <<node, watch, hot, cache>>

Step(r) ==
    \/ ReadFinal(r) \/ ReadBest(r) \/ Lookup(r) \/ OpenWindow(r)
    \/ \E n \in Heights : AtBlock(r, n) \/ NotFound(r, n)
    \/ Finish(r)

Next ==
    \/ Grow \/ Reorg \/ Finalize
    \/ PublishFinal \/ PublishBest \/ Disconnect \/ Expire \/ ExpirePage
    \/ \E r \in Readers : Start(r) \/ Step(r) \/ FailedLoad(r) \/ Cancel(r)

Spec == Init /\ [][Next]_vars

\* A handler's future is polled until it answers, and race_timeout bounds
\* every await of it.
FairSpec == Spec /\ \A r \in Readers : WF_vars(Step(r))

------------------------------------------------------------------------------
(***************************************************************************)
(* Properties.                                                             *)
(***************************************************************************)

Canonical(rows) ==
    \A n \in DOMAIN rows : rows[n] # None /\ rows[n].finalized =>
        n <= final /\ rows[n].fork = canon[n]

\* Whatever a handler answers or an LRU keeps as finalized is the block the
\* chain has finalized, although the head was read several awaits before the
\* block and the chain may re-organise between the two (provider.rs:82 and
\* :94, mapped by map_block).
FinalizedRowsAreCanonical ==
    /\ \A r \in Readers : Canonical(reader[r].rows)
    /\ \A op \in AllOps, n \in Heights :
            cache[op][n] # None => Canonical(cache[op][n])

\* A handler that waits for another one's load is answered even if that
\* handler is dropped in the middle (cache.rs:238, try_get_with).
ReadsReturn == \A r \in Readers : reader[r].pc = "wait" ~> reader[r].pc # "wait"

\* cache.rs:9-11 says of the LRUs: "answers keyed on (network, block_number)
\* where block_number <= finalized_head. Safe to pin forever because
\* finalized blocks don't reorg."
PinnedBlocksAreFinal ==
    \A op \in LruOps, n \in Heights :
        cache[op][n] # None => n <= final /\ cache[op][n][n].fork = canon[n]
=============================================================================
