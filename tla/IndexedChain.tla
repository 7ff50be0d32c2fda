----------------------------- MODULE IndexedChain -----------------------------
(***************************************************************************)
(* What the indexer promises its readers, without workers, chunks, leases  *)
(* or crashes: a set of stored blocks that only grows, one block at a      *)
(* time; an account table that at every moment is the summary of exactly   *)
(* those blocks; and a live cursor that only moves up, and only together   *)
(* with the block it names.                                                *)
(***************************************************************************)
EXTENDS Sink

VARIABLES indexed, balances, cursor

vars == <<indexed, balances, cursor>>

\* The stored blocks that touch account a.
History(a) == {b \in indexed : a \in TouchedAt(b)}

\* row is the reading of the newest block of S, with the earliest first_seen
\* and the largest nonce over S.
SummaryOf(a, row, S) ==
    /\ row \in AccountRow
    /\ row.last_activity_block \in S /\ row.first_seen_block \in S
    /\ \A b \in S : /\ b <= row.last_activity_block
                    /\ row.first_seen_block <= b
                    /\ Nonce[b][a] <= row.nonce
    /\ row.free = Free[row.last_activity_block][a]
    /\ \E b \in S : row.nonce = Nonce[b][a]

Summarised ==
    \A a \in Accounts : IF History(a) = {} THEN balances[a] = None
                        ELSE SummaryOf(a, balances[a], History(a))

Init ==
    /\ indexed = {}
    /\ balances = [a \in Accounts |-> None]
    /\ cursor = None

\* Some task stores block b, for the first time or again.
Store(b) ==
    /\ indexed' = indexed \cup {b}
    /\ Summarised'
    /\ \/ cursor' = cursor
       \/ cursor' = b /\ (cursor = None \/ b > cursor)

Next == \E b \in Blocks : Store(b)

Spec == Init /\ [][Next]_vars
=============================================================================
