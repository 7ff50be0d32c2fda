------------------------------- MODULE Paging ------------------------------
(* What every paged list of the explorer does with its rows: newest first, *)
(* one row fetched beyond the page to know whether another page follows.   *)
(* A row is the number its cursor stands for.                              *)
EXTENDS Integers, Sequences, FiniteSets, FiniteSetsExt

None == -1

AtMost(a, b) == IF a < b THEN a ELSE b
AtLeast(a, b) == IF a > b THEN a ELSE b

\* A plain subtraction, below zero at the first blocks.
FaultyBelow(n, k) == n - k

Below(n, k) == AtLeast(n - k, 0)          \* u64::saturating_sub

NewestFirst(keys) ==
  [i \in 1 .. Cardinality(keys) |->
     CHOOSE k \in keys : Cardinality({l \in keys : l > k}) = i - 1]
Newest(keys) == IF keys = {} THEN None ELSE Max(keys)

\* The look-ahead row is never seen.
FaultyTrim(rows, count) ==
  [items |-> SubSeq(rows, 1, AtMost(count, Len(rows))), more |-> Len(rows) > count + 1]

\* A page: at most `count` rows, and whether the row fetched beyond them exists.
Trim(rows, count) ==
  [items |-> SubSeq(rows, 1, AtMost(count, Len(rows))), more |-> Len(rows) > count]

=============================================================================
