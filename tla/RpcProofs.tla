------------------------------ MODULE RpcProofs ------------------------------
(***************************************************************************)
(* The two parts of the RPC layer.  What RpcProvider answers or caches as  *)
(* finalized is the finalized block (BlockReads), for any number of        *)
(* handlers, heights, forks and faults.  The connection slot of the client *)
(* it asks through (RpcClient) has, for any number of callers, a write     *)
(* guard that excludes and a dial that always finds it empty, and is never *)
(* replaced while it is live.                                              *)
(***************************************************************************)
EXTENDS BlockReads, RpcClient, FiniteSetTheorems, TLAPS

------------------------------------------------------------------------------
(***************************************************************************)
(* RpcProvider: the finalized blocks it hands out.                         *)
(***************************************************************************)

\* Every finalized head the program holds was the node's at some time.
HeadsLagBehind ==
    /\ watch.final # None => watch.final <= final
    /\ hot # None => hot <= final
    /\ \A r \in Readers : reader[r].final <= final

IInv == TypeOK /\ HeadsLagBehind /\ FinalizedRowsAreCanonical

LEMMA Bounds ==
    /\ MaxHeight \in Nat /\ MaxForks \in Nat /\ MaxFaults \in Nat
    /\ PageCount \in Nat
    /\ Ops \subseteq AllOps /\ Asked \subseteq Heights
BY BoundsAreNumbers

\* A Rows value is a function from some heights to entries.
LEMMA RowsType ==
    ASSUME NEW rows
    PROVE  rows \in Rows <=> /\ DOMAIN rows \in SUBSET Heights
                             /\ rows \in [DOMAIN rows -> Entry]
<1>1. ASSUME rows \in Rows
      PROVE  DOMAIN rows \in SUBSET Heights /\ rows \in [DOMAIN rows -> Entry]
    <2>1. PICK N \in SUBSET Heights : rows \in [N -> Entry]
        BY <1>1 DEF Rows
    <2> QED BY <2>1
<1>2. ASSUME DOMAIN rows \in SUBSET Heights, rows \in [DOMAIN rows -> Entry]
      PROVE  rows \in Rows
    BY <1>2 DEF Rows
<1> QED BY <1>1, <1>2

\* What one handler is, field by field.
ReaderType ==
    [pc: Pcs, op: AllOps, n: Heights, final: Heights, best: Heights \cup {None},
     rows: Rows, todo: SUBSET Heights]

LEMMA IdleType ==
    /\ IdleReader \in ReaderType /\ IdleReader.todo = {} /\ IdleReader.final = 0
    /\ DOMAIN IdleReader.rows = {}
<1>1. IdleReader.rows \in Rows
    BY RowsType DEF IdleReader
<1> QED
    BY <1>1, Bounds DEF IdleReader, ReaderType, Pcs, AllOps, LruOps, Heights

LEMMA InitInv == Init => IInv
<1> SUFFICES ASSUME Init PROVE IInv
    OBVIOUS
<1>1. TypeOK
    BY IdleType, Bounds
    DEF Init, TypeOK, ReaderType, Heights, Forks
<1>2. HeadsLagBehind
    BY IdleType DEF Init, HeadsLagBehind
<1>3. FinalizedRowsAreCanonical
    BY IdleType DEF Init, FinalizedRowsAreCanonical, Canonical
<1> QED BY <1>1, <1>2, <1>3 DEF IInv

------------------------------------------------------------------------------
(***************************************************************************)
(* Rows that are canonical stay so: the finalized head only rises and no   *)
(* fork begins at or below it.                                             *)
(***************************************************************************)
ChainExtends ==
    /\ final' \in Heights /\ final <= final'
    /\ \A n \in Heights : n <= final => canon'[n] = canon[n]

LEMMA ChainStep ==
    ASSUME TypeOK, [Next]_vars
    PROVE  ChainExtends
<1> USE Bounds DEF ChainExtends, TypeOK, Heights, Forks
<1>1. CASE Reorg BY <1>1 DEF Reorg
<1>2. CASE Finalize BY <1>2 DEF Finalize
<1>3. CASE UNCHANGED <<canon, final>> BY <1>3
<1>4. Reorg \/ Finalize \/ UNCHANGED <<canon, final>>
    BY ZenonT(40) DEF Next, vars, node, Grow, PublishFinal, PublishBest, Disconnect, Expire,
           ExpirePage, Start, Step, ReadFinal, ReadBest, Lookup, OpenWindow,
           AtBlock, NotFound, Finish, FailedLoad, Cancel
<1> QED BY <1>1, <1>2, <1>3, <1>4

\* Canonical, with the chain as an argument.
CanonicalIn(rows, upto, chain) ==
    \A n \in DOMAIN rows : rows[n] # None /\ rows[n].finalized =>
        n <= upto /\ rows[n].fork = chain[n]

LEMMA StaysCanonical ==
    ASSUME ChainExtends, final \in Heights
    PROVE  \A rows \in Rows : CanonicalIn(rows, final, canon)
                                => CanonicalIn(rows, final', canon')
<1> TAKE rows \in Rows
<1>1. DOMAIN rows \subseteq Heights
    BY RowsType
<1> QED
    BY <1>1, Bounds DEF ChainExtends, CanonicalIn, Heights

------------------------------------------------------------------------------
(***************************************************************************)
(* Handlers.                                                               *)
(***************************************************************************)
ReadersOK ==
    /\ reader \in [Readers -> ReaderType]
    /\ \A r \in Readers : reader[r].todo \subseteq DOMAIN reader[r].rows

LEMMA ReadersTyped == TypeOK => ReadersOK
BY DEF TypeOK, ReadersOK, ReaderType

\* Answering handlers makes them idle.
LEMMA AnswerReaders ==
    ASSUME ReadersOK, NEW rs, Answer(rs)
    PROVE  ReadersOK'
BY IdleType DEF ReadersOK, Answer

\* The fields of one handler change.
LEMMA UpdateReader ==
    ASSUME ReadersOK, NEW r \in Readers,
           NEW x \in ReaderType, x.todo \subseteq DOMAIN x.rows,
           reader' = [reader EXCEPT ![r] = x]
    PROVE  ReadersOK'
BY DEF ReadersOK

LEMMA ReadersStep == TypeOK /\ [Next]_vars => ReadersOK'
<1> SUFFICES ASSUME TypeOK, [Next]_vars PROVE ReadersOK'
    OBVIOUS
<1>t. ReadersOK
    BY ReadersTyped
<1> USE DEF ReadersOK
<1>1. ASSUME NEW r \in Readers, Start(r) PROVE ReadersOK'
    <2>1. PICK op \in Ops, n \in Asked :
            reader' = [reader EXCEPT ![r].op = op, ![r].n = n,
                         ![r].best = IF op = "page" THEN watch.best ELSE None,
                         ![r].pc = CASE op = "page" -> "lookup"
                                     [] op = "block" -> "final"
                                     [] OTHER -> "best"]
        BY <1>1 DEF Start
    <2> DEFINE at == CASE op = "page" -> "lookup" [] op = "block" -> "final"
                       [] OTHER -> "best"
               tip == IF op = "page" THEN watch.best ELSE None
               x == [reader[r] EXCEPT !.op = op, !.n = n, !.best = tip, !.pc = at]
    <2>2. reader' = [reader EXCEPT ![r] = x]
        BY <2>1, <1>t
    <2>3. /\ op \in AllOps /\ n \in Heights /\ at \in Pcs
          /\ tip \in Heights \cup {None}
        BY Bounds DEF Pcs, TypeOK
    <2>4. x \in ReaderType /\ x.todo = reader[r].todo /\ x.rows = reader[r].rows
        <3> HIDE DEF at, tip
        <3> QED BY <2>3, <1>t DEF ReaderType
    <2> HIDE DEF x
    <2> QED BY <2>2, <2>4, <1>t, UpdateReader
<1>2. ASSUME NEW r \in Readers, ReadFinal(r) PROVE ReadersOK'
    <2>1. PICK upto \in Heights :
            reader' = [reader EXCEPT ![r].pc = "best", ![r].final = upto]
        BY <1>2 DEF ReadFinal
    <2> QED BY <2>1, <1>t, ZenonT(40) DEF ReaderType, Pcs
<1>3. ASSUME NEW r \in Readers, ReadBest(r) PROVE ReadersOK'
    <2>1. Answer({r}) \/ reader' = [reader EXCEPT ![r].pc = "lookup"]
        BY <1>3 DEF ReadBest
    <2>2. CASE Answer({r})
        BY <2>2, <1>t, AnswerReaders
    <2>3. CASE reader' = [reader EXCEPT ![r].pc = "lookup"]
        BY <2>3, <1>t DEF ReaderType, Pcs
    <2> QED BY <2>1, <2>2, <2>3
<1>4. ASSUME NEW r \in Readers, Lookup(r) PROVE ReadersOK'
    <2>1. CASE Answer({r})
        BY <2>1, <1>t, AnswerReaders
    <2>2. CASE reader' = [reader EXCEPT ![r].pc = "wait"]
        BY <2>2, <1>t DEF ReaderType, Pcs
    <2>3. CASE reader' = [reader EXCEPT ![r].pc = "window"]
        BY <2>3, <1>t DEF ReaderType, Pcs
    <2>4. CASE reader' = [reader EXCEPT ![r].pc = "load",
                            ![r].rows = [n \in {reader[r].n} |-> None],
                            ![r].todo = {reader[r].n}]
        <3>1. reader[r].n \in Heights
            BY <1>t DEF ReaderType
        <3>2. [n \in {reader[r].n} |-> None] \in Rows
            BY <3>1, RowsType DEF Entry
        <3> DEFINE none == [n \in {reader[r].n} |-> None]
                   x == [reader[r] EXCEPT !.pc = "load", !.rows = none,
                                          !.todo = {reader[r].n}]
        <3>3. reader' = [reader EXCEPT ![r] = x]
            BY <2>4, <1>t
        <3>4. DOMAIN none = {reader[r].n} /\ none \in Rows
            BY <3>2
        <3> HIDE DEF none
        <3>5. x \in ReaderType /\ x.todo = {reader[r].n} /\ x.rows = none
            BY <3>1, <3>4, <1>t DEF ReaderType, Pcs
        <3> HIDE DEF x
        <3> QED BY <3>3, <3>4, <3>5, <1>t, UpdateReader
    <2> QED BY <1>4, <2>1, <2>2, <2>3, <2>4 DEF Lookup
<1>5. ASSUME NEW r \in Readers, OpenWindow(r) PROVE ReadersOK'
    <2> DEFINE top == IF reader[r].best = None THEN final ELSE reader[r].best
               tip == IF reader[r].n = 0 \/ reader[r].n - 1 > top THEN top
                      ELSE reader[r].n - 1
    <2>1. tip \in Heights
        <3>1. reader[r].n \in Heights /\ reader[r].best \in Heights \cup {None}
            BY <1>t DEF ReaderType
        <3>2. final \in Heights
            BY Bounds DEF TypeOK, Heights
        <3> QED BY <3>1, <3>2, Bounds DEF Heights
    <2>4. reader' = [reader EXCEPT ![r].pc = "load", ![r].final = final,
                       ![r].best = None,
                       ![r].rows = [n \in Window(tip) |-> None],
                       ![r].todo = Window(tip)]
        BY <1>5 DEF OpenWindow
    <2> HIDE DEF tip
    <2>2. Window(tip) \in SUBSET Heights
        BY <2>1, Bounds DEF Window, Heights
    <2>3. [n \in Window(tip) |-> None] \in Rows
        BY <2>2, RowsType DEF Entry
    <2>5. final \in Heights
        BY Bounds DEF TypeOK, Heights
    <2> DEFINE none == [n \in Window(tip) |-> None]
               x == [reader[r] EXCEPT !.pc = "load", !.final = final, !.best = None,
                                      !.rows = none, !.todo = Window(tip)]
    <2>6. reader' = [reader EXCEPT ![r] = x]
        BY <2>4, <1>t
    <2>7. DOMAIN none = Window(tip) /\ none \in Rows
        BY <2>3
    <2> HIDE DEF none
    <2>8. x \in ReaderType /\ x.todo = Window(tip) /\ x.rows = none
        BY <2>2, <2>5, <2>7, <1>t, ZenonT(40) DEF ReaderType, Pcs
    <2> HIDE DEF x
    <2> QED BY <2>6, <2>7, <2>8, <1>t, UpdateReader
<1>6. ASSUME NEW r \in Readers, NEW n \in Heights, AtBlock(r, n) PROVE ReadersOK'
    <2>1. reader[r].rows \in Rows /\ n \in DOMAIN reader[r].rows
        BY <1>6, <1>t DEF AtBlock, ReaderType
    <2> DEFINE row == [fork |-> canon[n],
                       finalized |-> reader[r].op \in {"block", "page"}
                                     /\ FinalizedAt(r, n)]
    <2>2. row \in Entry
        BY DEF TypeOK, Entry, Row
    <2> HIDE DEF row
    <2>3. [reader[r].rows EXCEPT ![n] = row] \in Rows
        BY <2>1, <2>2, RowsType
    <2>4. reader' = [reader EXCEPT ![r].todo = @ \ {n}, ![r].rows[n] = row]
        BY <1>6 DEF AtBlock, row
    <2> QED BY <2>1, <2>3, <2>4, <1>t, ZenonT(40) DEF ReaderType
<1>7. ASSUME NEW r \in Readers, NEW n \in Heights, NotFound(r, n) PROVE ReadersOK'
    <2>1. reader[r].rows \in Rows /\ n \in DOMAIN reader[r].rows
        BY <1>7, <1>t DEF NotFound, ReaderType
    <2>2. PICK row \in Entry :
            reader' = [reader EXCEPT ![r].todo = @ \ {n}, ![r].rows[n] = row]
        BY <1>7 DEF NotFound, Entry
    <2>3. [reader[r].rows EXCEPT ![n] = row] \in Rows
        BY <2>1, RowsType
    <2> QED BY <2>1, <2>2, <2>3, <1>t, ZenonT(40) DEF ReaderType
<1>8. ASSUME NEW r \in Readers, Finish(r) \/ FailedLoad(r) PROVE ReadersOK'
    BY <1>8, <1>t, AnswerReaders DEF Finish, FailedLoad
<1>9. ASSUME NEW r \in Readers, Cancel(r) PROVE ReadersOK'
    BY <1>9, <1>t, IdleType DEF Cancel, ReaderType, Pcs
<1>10. CASE UNCHANGED reader
    BY <1>10, <1>t
<1> QED
    BY <1>1, <1>2, <1>3, <1>4, <1>5, <1>6, <1>7, <1>8, <1>9, <1>10
    DEF Next, Step, vars, node, Grow, Reorg, Finalize, PublishFinal, PublishBest,
        Disconnect, Expire, ExpirePage

------------------------------------------------------------------------------
(***************************************************************************)
(* The invariant, part by part.                                            *)
(***************************************************************************)
WorldOK ==
    /\ canon \in [Heights -> Forks] /\ best \in Heights /\ final \in 0 .. best
    /\ watch \in [final: Heights \cup {None}, best: Heights \cup {None}]
    /\ hot \in Heights \cup {None}
    /\ faults \in 0 .. MaxFaults

CacheOK == cache \in [AllOps -> [Heights -> Rows \cup {None}]]

\* The head a handler takes from the watch, the hot cache or the node.
LEMMA HeadNumber ==
    ASSUME TypeOK, HeadsLagBehind, NEW upto \in Heights, FinalizedHeadNumber(upto)
    PROVE  /\ upto <= final
           /\ hot' \in Heights \cup {None}
           /\ hot' # None => hot' <= final
BY Bounds DEF TypeOK, HeadsLagBehind, FinalizedHeadNumber, Heights

LEMMA WorldStep == TypeOK /\ HeadsLagBehind /\ [Next]_vars => WorldOK'
<1> SUFFICES ASSUME TypeOK, HeadsLagBehind, [Next]_vars PROVE WorldOK'
    OBVIOUS
<1> USE Bounds DEF WorldOK, TypeOK, Heights, Forks, MayFail
<1>1. CASE Grow BY <1>1 DEF Grow
<1>2. CASE Reorg BY <1>2 DEF Reorg
<1>3. CASE Finalize BY <1>3 DEF Finalize
<1>4. CASE PublishFinal
    <2>1. watch.final \in Heights \cup {None} /\ final \in Heights
        OBVIOUS
    <2>2. (IF watch.final = None THEN final ELSE watch.final + 1) \in Heights
        BY <1>4, <2>1 DEF PublishFinal, HeadsLagBehind
    <2>3. watch' \in [final: Heights \cup {None}, best: Heights \cup {None}]
        BY <1>4, <2>2 DEF PublishFinal
    <2> QED BY <1>4, <2>3 DEF PublishFinal, node
<1>5. CASE PublishBest BY <1>5 DEF PublishBest, node
<1>6. CASE Disconnect BY <1>6 DEF Disconnect, node
<1>7. CASE Expire \/ ExpirePage BY <1>7 DEF Expire, ExpirePage, node
<1>8. ASSUME NEW r \in Readers, ReadFinal(r) \/ ReadBest(r) PROVE WorldOK'
    <2>1. hot' \in Heights \cup {None}
        BY <1>8, HeadNumber DEF ReadFinal, ReadBest
    <2> QED BY <2>1, <1>8 DEF ReadFinal, ReadBest, node
<1>9. ASSUME NEW r \in Readers,
             Start(r) \/ Lookup(r) \/ OpenWindow(r) \/ Finish(r) \/ FailedLoad(r)
               \/ Cancel(r) \/ \E n \in Heights : AtBlock(r, n) \/ NotFound(r, n)
      PROVE WorldOK'
    <2>1. UNCHANGED <<canon, best, final, watch, hot>>
        BY <1>9 DEF Start, Lookup, OpenWindow, Finish, FailedLoad, Cancel, AtBlock,
                    NotFound, node
    <2>2. faults' = faults \/ MayFail
        BY <1>9 DEF Start, Lookup, OpenWindow, Finish, FailedLoad, Cancel, AtBlock,
                    NotFound
    <2> QED BY <2>1, <2>2, SMTT(30)
<1>10. CASE UNCHANGED vars BY <1>10 DEF vars
<1> QED
    BY <1>1, <1>2, <1>3, <1>4, <1>5, <1>6, <1>7, <1>8, <1>9, <1>10 DEF Next, Step

\* A cache keeps what it has, loses a page, or takes a finished load.
LEMMA CacheChange ==
    ASSUME TypeOK, [Next]_vars, NEW op \in AllOps, NEW n \in Heights
    PROVE  \/ cache'[op][n] = cache[op][n]
           \/ cache'[op][n] = None
           \/ \E r \in Readers : cache'[op][n] = reader[r].rows
<1>1. CASE ExpirePage BY <1>1 DEF ExpirePage, TypeOK
<1>2. ASSUME NEW r \in Readers, Finish(r)
      PROVE  cache'[op][n] \in {cache[op][n], reader[r].rows}
    BY <1>2 DEF Finish, TypeOK
<1>3. CASE UNCHANGED cache BY <1>3
<1> QED
    BY <1>1, <1>2, <1>3, ZenonT(40)
    DEF Next, Step, vars, Grow, Reorg, Finalize, PublishFinal, PublishBest,
        Disconnect, Expire, Start, ReadFinal, ReadBest, Lookup, OpenWindow, AtBlock,
        NotFound, FailedLoad, Cancel

LEMMA CacheStep == TypeOK /\ [Next]_vars => CacheOK'
<1> SUFFICES ASSUME TypeOK, [Next]_vars PROVE CacheOK'
    OBVIOUS
<1>1. CASE ExpirePage
    <2>1. PICK n \in Heights : cache' = [cache EXCEPT !["page"][n] = None]
        BY <1>1, Bounds DEF ExpirePage
    <2>2. "page" \in AllOps
        BY DEF AllOps
    <2> DEFINE C == [Heights -> Rows \cup {None}]
               new == [cache["page"] EXCEPT ![n] = None]
    <2>3. cache \in [AllOps -> C] /\ new \in C
        BY <2>2 DEF TypeOK
    <2>4. cache' = [cache EXCEPT !["page"] = new]
        BY <2>1, <2>2 DEF TypeOK
    <2>5. cache' \in [AllOps -> C]
        <3> HIDE DEF C, new
        <3> QED BY <2>2, <2>3, <2>4
    <2> QED BY <2>5 DEF CacheOK
<1>2. ASSUME NEW r \in Readers, Finish(r) PROVE CacheOK'
    <2>1. reader[r].rows \in Rows
        BY DEF TypeOK
    <2>2. cache' = cache \/ cache' = [cache EXCEPT ![reader[r].op][reader[r].n] =
                                         reader[r].rows]
        BY <1>2 DEF Finish
    <2>3. reader[r].op \in AllOps /\ reader[r].n \in Heights
        BY DEF TypeOK
    <2> DEFINE C == [Heights -> Rows \cup {None}]
    <2>4. [cache[reader[r].op] EXCEPT ![reader[r].n] = reader[r].rows] \in C
        BY <2>1, <2>3 DEF TypeOK
    <2> DEFINE old == cache[reader[r].op]
               new == [old EXCEPT ![reader[r].n] = reader[r].rows]
    <2>6. cache' = cache \/ cache' = [cache EXCEPT ![reader[r].op] = new]
        BY <2>2, <2>3 DEF TypeOK
    <2>5. cache' \in [AllOps -> C]
        <3>1. cache \in [AllOps -> C] /\ new \in C
            BY <2>4 DEF TypeOK
        <3> HIDE DEF C, new
        <3> QED BY <2>3, <2>6, <3>1
    <2> QED BY <2>5 DEF CacheOK
<1>3. CASE UNCHANGED cache BY <1>3 DEF TypeOK, CacheOK
<1> QED
    BY <1>1, <1>2, <1>3, ZenonT(40)
    DEF Next, Step, vars, Grow, Reorg, Finalize, PublishFinal, PublishBest,
        Disconnect, Expire, Start, ReadFinal, ReadBest, Lookup, OpenWindow, AtBlock,
        NotFound, FailedLoad, Cancel

LEMMA TypeStep == TypeOK /\ HeadsLagBehind /\ [Next]_vars => TypeOK'
BY WorldStep, CacheStep, ReadersStep
DEF WorldOK, CacheOK, ReadersOK, ReaderType, TypeOK

LEMMA HeadsStep == TypeOK /\ HeadsLagBehind /\ [Next]_vars => HeadsLagBehind'
<1> SUFFICES ASSUME TypeOK, HeadsLagBehind, [Next]_vars PROVE HeadsLagBehind'
    OBVIOUS
<1>1. ChainExtends
    BY ChainStep
<1>2. watch'.final # None => watch'.final <= final'
    <2>1. CASE PublishFinal
        <3>1. watch'.final = IF watch.final = None THEN final ELSE watch.final + 1
            BY <2>1 DEF PublishFinal, TypeOK
        <3> QED
            BY <3>1, <2>1, Bounds
            DEF PublishFinal, HeadsLagBehind, TypeOK, Heights, node
    <2>2. watch'.final \in {watch.final, None} \/ PublishFinal
        <3>1. CASE PublishBest \/ Disconnect
            BY <3>1 DEF PublishBest, Disconnect, TypeOK
        <3>2. CASE UNCHANGED watch
            BY <3>2
        <3> QED
            BY <3>1, <3>2, ZenonT(40)
            DEF Next, Step, vars, Grow, Reorg, Finalize, Expire, ExpirePage, Start,
                ReadFinal, ReadBest, Lookup, OpenWindow, AtBlock, NotFound, Finish,
                FailedLoad, Cancel
    <2>3. watch.final \in Heights \cup {None} /\ final \in Heights
        BY Bounds DEF TypeOK, Heights
    <2> QED
        BY <2>1, <2>2, <2>3, <1>1, Bounds DEF HeadsLagBehind, ChainExtends, Heights
<1>3. hot' # None => hot' <= final'
    <2>1. ASSUME NEW r \in Readers, ReadFinal(r) \/ ReadBest(r)
          PROVE  /\ hot' \in Heights \cup {None}
                 /\ hot' # None => hot' <= final
        BY <2>1, HeadNumber DEF ReadFinal, ReadBest, HeadsLagBehind, TypeOK
    <2>2. \/ hot' \in {hot, None}
          \/ \E r \in Readers : ReadFinal(r) \/ ReadBest(r)
        BY ZenonT(40) DEF Next, Step, vars, Grow, Reorg, Finalize, PublishFinal, PublishBest,
               Disconnect, Expire, ExpirePage, Start, Lookup, OpenWindow, AtBlock,
               NotFound, Finish, FailedLoad, Cancel
    <2>3. hot \in Heights \cup {None} /\ final \in Heights
        BY Bounds DEF TypeOK, Heights
    <2> QED
        BY <2>1, <2>2, <2>3, <1>1, Bounds DEF HeadsLagBehind, ChainExtends, Heights
<1>4. ASSUME NEW q \in Readers PROVE reader'[q].final <= final'
    <2>1. \/ reader'[q].final \in {reader[q].final, 0, final}
          \/ ReadFinal(q)
        <3>1. ASSUME NEW rs, Answer(rs)
              PROVE  reader'[q].final \in {reader[q].final, 0}
            BY <3>1, IdleType DEF Answer
        <3>2. ASSUME NEW r \in Readers, Step(r) \/ FailedLoad(r)
              PROVE  \/ reader'[q].final \in {reader[q].final, 0, final}
                     \/ ReadFinal(q)
            <4>1. CASE Finish(r) \/ FailedLoad(r) \/ ReadBest(r) \/ Lookup(r)
                BY <4>1, <3>1
                DEF Finish, FailedLoad, ReadBest, Lookup, TypeOK, ReaderType
            <4>2. CASE OpenWindow(r)
                BY <4>2 DEF OpenWindow, TypeOK
            <4>3. CASE ReadFinal(r)
                BY <4>3 DEF ReadFinal, TypeOK
            <4>4. CASE \E n \in Heights : AtBlock(r, n) \/ NotFound(r, n)
                BY <4>4 DEF AtBlock, NotFound, TypeOK
            <4> QED BY <3>2, <4>1, <4>2, <4>3, <4>4 DEF Step
        <3>3. ASSUME NEW r \in Readers, Start(r) \/ Cancel(r)
              PROVE  reader'[q].final \in {reader[q].final, 0}
            <4>1. CASE Start(r)
                BY <4>1 DEF Start, TypeOK
            <4>2. CASE Cancel(r)
                BY <4>2, IdleType DEF Cancel, TypeOK
            <4> QED BY <3>3, <4>1, <4>2
        <3>4. CASE UNCHANGED reader
            BY <3>4
        <3> QED
            BY <3>2, <3>3, <3>4
            DEF Next, vars, Grow, Reorg, Finalize, PublishFinal, PublishBest,
                Disconnect, Expire, ExpirePage
    <2>2. CASE ReadFinal(q)
        <3>1. PICK upto \in Heights :
                /\ FinalizedHeadNumber(upto)
                /\ reader' = [reader EXCEPT ![q].pc = "best", ![q].final = upto]
            BY <2>2 DEF ReadFinal
        <3>2. reader'[q].final = upto
            BY <3>1 DEF TypeOK
        <3> QED
            BY <3>1, <3>2, <1>1, HeadNumber, Bounds
            DEF ChainExtends, Heights, TypeOK
    <2>3. reader[q].final \in Heights /\ final \in Heights
        BY Bounds DEF TypeOK, Heights
    <2> QED
        BY <2>1, <2>2, <2>3, <1>1, Bounds DEF HeadsLagBehind, ChainExtends, Heights
<1> QED BY <1>2, <1>3, <1>4 DEF HeadsLagBehind

------------------------------------------------------------------------------
(***************************************************************************)
(* What is answered and cached.                                            *)
(***************************************************************************)

\* The rows of a handler: the same, none, not loaded yet, or one more.
LEMMA RowsChange ==
    ASSUME TypeOK, [Next]_vars, NEW q \in Readers
    PROVE  \/ reader'[q].rows = reader[q].rows
           \/ \A n \in DOMAIN reader'[q].rows : reader'[q].rows[n] = None
           \/ \E n \in Heights : AtBlock(q, n) \/ NotFound(q, n)
<1> DEFINE Kept == \/ reader'[q].rows = reader[q].rows
                   \/ \A n \in DOMAIN reader'[q].rows : reader'[q].rows[n] = None
<1>1. ASSUME NEW rs, Answer(rs) PROVE Kept
    BY <1>1, IdleType DEF Answer
<1>2. ASSUME NEW r \in Readers,
             Start(r) \/ ReadFinal(r) \/ ReadBest(r) \/ Finish(r) \/ FailedLoad(r)
      PROVE  Kept
    <2>1. CASE Start(r) BY <2>1 DEF Start, TypeOK
    <2>2. CASE ReadFinal(r) BY <2>2 DEF ReadFinal, TypeOK
    <2>3. CASE ReadBest(r) BY <2>3, <1>1 DEF ReadBest, TypeOK
    <2>4. CASE Finish(r) \/ FailedLoad(r) BY <2>4, <1>1 DEF Finish, FailedLoad
    <2> QED BY <1>2, <2>1, <2>2, <2>3, <2>4
<1>3. ASSUME NEW r \in Readers, Lookup(r) PROVE Kept
    <2>1. CASE Answer({r}) BY <2>1, <1>1
    <2>2. CASE reader' = [reader EXCEPT ![r].pc = "wait"] BY <2>2 DEF TypeOK
    <2>3. CASE reader' = [reader EXCEPT ![r].pc = "window"] BY <2>3 DEF TypeOK
    <2>4. CASE reader' = [reader EXCEPT ![r].pc = "load",
                            ![r].rows = [n \in {reader[r].n} |-> None],
                            ![r].todo = {reader[r].n}]
        BY <2>4 DEF TypeOK
    <2> QED BY <1>3, <2>1, <2>2, <2>3, <2>4 DEF Lookup
<1>4. ASSUME NEW r \in Readers, OpenWindow(r) PROVE Kept
    BY <1>4 DEF OpenWindow, TypeOK
<1>5. ASSUME NEW r \in Readers, Cancel(r) PROVE Kept
    BY <1>5, IdleType DEF Cancel, TypeOK
<1>6. ASSUME NEW r \in Readers, r # q, NEW n \in Heights, AtBlock(r, n) \/ NotFound(r, n)
      PROVE  Kept
    BY <1>6 DEF AtBlock, NotFound, TypeOK
<1>7. ASSUME reader' = reader PROVE Kept
    BY <1>7
<1> HIDE DEF Kept
<1>9. ASSUME NEW r \in Readers, \E n \in Heights : AtBlock(r, n) \/ NotFound(r, n)
      PROVE  Kept \/ \E n \in Heights : AtBlock(q, n) \/ NotFound(q, n)
    <2>1. CASE r = q
        BY <1>9, <2>1
    <2>2. CASE r # q
        BY <1>9, <2>2, <1>6
    <2> QED BY <2>1, <2>2
<1>8. Kept \/ \E n \in Heights : AtBlock(q, n) \/ NotFound(q, n)
    <2>1. ASSUME NEW r \in Readers,
                 Start(r) \/ Step(r) \/ FailedLoad(r) \/ Cancel(r)
          PROVE  Kept \/ \E n \in Heights : AtBlock(q, n) \/ NotFound(q, n)
        <3>1. CASE \E n \in Heights : AtBlock(r, n) \/ NotFound(r, n)
            BY <3>1, <1>9
        <3>2. CASE Start(r) \/ ReadFinal(r) \/ ReadBest(r) \/ Finish(r) \/ FailedLoad(r)
            BY <3>2, <1>2
        <3>3. CASE Lookup(r) \/ OpenWindow(r) \/ Cancel(r)
            BY <3>3, <1>3, <1>4, <1>5
        <3> QED BY <2>1, <3>1, <3>2, <3>3 DEF Step
    <2>2. \/ reader' = reader
          \/ \E r \in Readers : Start(r) \/ Step(r) \/ FailedLoad(r) \/ Cancel(r)
        BY DEF Next, vars, Grow, Reorg, Finalize, PublishFinal, PublishBest,
               Disconnect, Expire, ExpirePage
    <2>3. CASE reader' = reader
        BY <2>3, <1>7
    <2>4. CASE \E r \in Readers : Start(r) \/ Step(r) \/ FailedLoad(r) \/ Cancel(r)
        BY <2>4, <2>1
    <2> QED BY <2>2, <2>3, <2>4
<1> QED BY <1>8 DEF Kept

LEMMA ReaderCanonical ==
    ASSUME IInv, [Next]_vars, NEW q \in Readers
    PROVE  CanonicalIn(reader'[q].rows, final', canon')
<1>1. ChainExtends /\ final \in Heights
    BY ChainStep, Bounds DEF IInv, TypeOK, Heights
<1>2. /\ reader[q].rows \in Rows
      /\ CanonicalIn(reader[q].rows, final, canon)
    BY DEF IInv, TypeOK, FinalizedRowsAreCanonical, Canonical, CanonicalIn
<1>3. CanonicalIn(reader[q].rows, final', canon')
    BY <1>1, <1>2, StaysCanonical
<1>4. CASE reader'[q].rows = reader[q].rows
    BY <1>3, <1>4
<1>5. CASE \A n \in DOMAIN reader'[q].rows : reader'[q].rows[n] = None
    BY <1>5 DEF CanonicalIn
<1>6. ASSUME NEW n \in Heights, AtBlock(q, n)
      PROVE  CanonicalIn(reader'[q].rows, final', canon')
    <2> DEFINE row == [fork |-> canon[n],
                       finalized |-> reader[q].op \in {"block", "page"}
                                     /\ FinalizedAt(q, n)]
    <2>1. reader'[q].rows = [reader[q].rows EXCEPT ![n] = row]
        BY <1>6 DEF AtBlock, IInv, TypeOK
    <2>2. UNCHANGED <<canon, final>>
        BY <1>6 DEF AtBlock, node
    <2>3. row.finalized => n <= final' /\ row.fork = canon'[n]
        <3>1. reader[q].final \in Heights /\ reader[q].final <= final
            BY DEF IInv, TypeOK, HeadsLagBehind
        <3>2. row.finalized => FinalizedAt(q, n)
            OBVIOUS
        <3>3. row.fork = canon[n]
            OBVIOUS
        <3>4. FinalizedAt(q, n) => n <= final
            BY <1>1, <3>1, Bounds DEF FinalizedAt, Heights
        <3> QED BY <2>2, <3>2, <3>3, <3>4
    <2> HIDE DEF row
    <2>4. n \in DOMAIN reader[q].rows
        BY <1>6 DEF AtBlock, IInv, TypeOK
    <2> QED BY <1>3, <2>1, <2>3, <2>4 DEF CanonicalIn
<1>7. ASSUME NEW n \in Heights, NotFound(q, n)
      PROVE  CanonicalIn(reader'[q].rows, final', canon')
    <2>1. PICK row \in {Empty, None} :
            reader'[q].rows = [reader[q].rows EXCEPT ![n] = row]
        BY <1>7 DEF NotFound, IInv, TypeOK
    <2>2. row = None \/ ~row.finalized
        BY DEF Empty
    <2> QED BY <1>3, <2>1, <2>2 DEF CanonicalIn
<1> QED
    BY <1>4, <1>5, <1>6, <1>7, RowsChange DEF IInv

LEMMA CanonicalStep == IInv /\ [Next]_vars => FinalizedRowsAreCanonical'
<1> SUFFICES ASSUME IInv, [Next]_vars PROVE FinalizedRowsAreCanonical'
    OBVIOUS
<1>1. ChainExtends /\ final \in Heights
    BY ChainStep, Bounds DEF IInv, TypeOK, Heights
<1>2. ASSUME NEW op \in AllOps, NEW n \in Heights, cache'[op][n] # None
      PROVE  CanonicalIn(cache'[op][n], final', canon')
    <2>1. ASSUME NEW r \in Readers
          PROVE  CanonicalIn(reader[r].rows, final', canon')
        <3>1. /\ reader[r].rows \in Rows
              /\ CanonicalIn(reader[r].rows, final, canon)
            BY DEF IInv, TypeOK, FinalizedRowsAreCanonical, Canonical, CanonicalIn
        <3> QED BY <1>1, <3>1, StaysCanonical
    <2>2. ASSUME cache[op][n] # None
          PROVE  CanonicalIn(cache[op][n], final', canon')
        <3>1. cache[op][n] \in Rows
            BY <2>2 DEF IInv, TypeOK
        <3>2. CanonicalIn(cache[op][n], final, canon)
            BY <2>2 DEF IInv, FinalizedRowsAreCanonical, Canonical, CanonicalIn
        <3> QED BY <1>1, <3>1, <3>2, StaysCanonical
    <2> QED BY <1>2, <2>1, <2>2, CacheChange DEF IInv
<1> QED
    BY <1>2, ReaderCanonical
    DEF FinalizedRowsAreCanonical, Canonical, CanonicalIn

------------------------------------------------------------------------------
\* The invariant holds in every reachable state, for any number of handlers, any
\* number of forks and any faults.
THEOREM Invariance == Spec => []IInv
<1>1. IInv /\ [Next]_vars => IInv'
    BY TypeStep, HeadsStep, CanonicalStep DEF IInv
<1> QED
    BY InitInv, <1>1, PTL DEF Spec

\* Every variable keeps its type (the window of latest_blocks included, which is
\* computed with saturating subtractions).
THEOREM TypeCorrect == Spec => []TypeOK
<1>1. IInv => TypeOK
    BY DEF IInv
<1> QED
    BY Invariance, <1>1, PTL

\* map_block's finalized flag is never wrong: a row that says finalized is the block
\* the chain has finalized, in an answer and in a cache.
THEOREM RowsAreCanonical == Spec => []FinalizedRowsAreCanonical
<1>1. IInv => FinalizedRowsAreCanonical
    BY DEF IInv
<1> QED
    BY Invariance, <1>1, PTL

------------------------------------------------------------------------------
(***************************************************************************)
(* RpcClient: the connection slot its callers and its watcher share.       *)
(***************************************************************************)

\* Only a task that is talking to the node holds a connection of its own.
ConnsAreHeld ==
    /\ \A p \in Callers : caller[p].conn # Nothing => caller[p].pc = "call"
    /\ watcher.conn # Nothing => watcher.pc \notin {"off", "connect", "sleep"}

ClientInv == ClientTypeOK /\ ConnsAreHeld

LEMMA ClientStart == ClientInit => ClientInv
BY ClientParameters
DEF ClientInit, ClientInv, ClientTypeOK, ConnsAreHeld, IdleCaller, CallerPcs, WatcherPcs,
    AllKinds, Cached, Runtimes

------------------------------------------------------------------------------
\* A dial finds a connection nobody holds: at most one per other task is.
LEMMA DialHasConn ==
    ASSUME ClientInv, slot = Nothing,
           watcher.conn = Nothing \/ \E p \in Callers : caller[p].conn = Nothing
    PROVE  NewConn \in Conns
<1> DEFINE held == [p \in Callers |-> caller[p].conn]
           H == {caller[p].conn : p \in Callers}
<1>1. held \in Surjection(Callers, H)
    BY DEF Surjection
<1>2. IsFiniteSet(H) /\ Cardinality(H) <= Cardinality(Callers)
    BY <1>1, ConnsSuffice, FS_Surjection
<1>3. Cardinality(H) \in Nat /\ Cardinality(Callers) \in Nat
      /\ Cardinality(Conns) \in Nat
    BY <1>2, ConnsSuffice, FS_CardinalityType
<1> HIDE DEF H, held
<1>4. ~(Conns \subseteq H \cup {watcher.conn})
    <2> SUFFICES ASSUME Conns \subseteq H \cup {watcher.conn} PROVE FALSE
        OBVIOUS
    <2>1. CASE watcher.conn = Nothing
        <3>1. Conns \in SUBSET H
            BY <2>1, ClientParameters
        <3>2. Cardinality(Conns) <= Cardinality(H)
            BY <3>1, <1>2, FS_Subset
        <3> QED BY <3>2, <1>2, <1>3, ConnsSuffice
    <2>2. CASE Nothing \in H
        <3> DEFINE K == H \ {Nothing}
        <3>1. IsFiniteSet(K) /\ Cardinality(K) = Cardinality(H) - 1
            BY <2>2, <1>2, FS_RemoveElement
        <3>2. /\ IsFiniteSet(K \cup {watcher.conn})
              /\ \/ Cardinality(K \cup {watcher.conn}) = Cardinality(K)
                 \/ Cardinality(K \cup {watcher.conn}) = Cardinality(K) + 1
            BY <3>1, FS_AddElement
        <3>3. Conns \in SUBSET (K \cup {watcher.conn})
            BY ClientParameters
        <3>4. Cardinality(Conns) <= Cardinality(K \cup {watcher.conn})
            BY <3>2, <3>3, FS_Subset
        <3> HIDE DEF K
        <3>5. Cardinality(Conns) <= Cardinality(H)
            BY <3>1, <3>2, <3>4, <1>3
        <3> QED BY <3>5, <1>2, <1>3, ConnsSuffice
    <2> QED BY <2>1, <2>2 DEF H
<1>5. PICK c \in Conns : c \notin H \cup {watcher.conn}
    BY <1>4
<1>6. c \in Unused
    BY <1>5, ClientParameters DEF Unused, H
<1> QED
    BY <1>6 DEF NewConn, Unused

\* A caller about to dial, or a watcher about to connect, holds none itself.
LEMMA DialsAreFresh ==
    ASSUME ClientInv, slot = Nothing,
           watcher.pc = "connect" \/ \E p \in Callers : caller[p].pc = "dial"
    PROVE  NewConn \in Conns
BY DialHasConn DEF ClientInv, ConnsAreHeld

------------------------------------------------------------------------------
CallerState == [pc: CallerPcs, kind: AllKinds, retried: BOOLEAN,
                conn: Conns \cup {Nothing}, value: Runtimes \cup {Nothing}]
WatcherState == [pc: WatcherPcs, conn: Conns \cup {Nothing}, seen: Runtimes]
Clearing == {"clear_block_time", "clear_identity", "clear_code"}

\* A caller that moves without touching the write guard disturbs nobody.
LEMMA CallerMoves ==
    ASSUME ClientInv, NEW p \in Callers, NEW r \in CallerState,
           caller' = [caller EXCEPT ![p] = r], lock' = lock,
           caller[p].pc \notin Clearing, r.pc \notin Clearing,
           r.conn # Nothing => r.pc = "call"
    PROVE  /\ caller' \in [Callers -> CallerState]
           /\ \A q \in Callers : caller'[q].conn # Nothing => caller'[q].pc = "call"
           /\ \A q \in Callers : lock' = q <=> caller'[q].pc \in Clearing
BY DEF ClientInv, ClientTypeOK, ConnsAreHeld, Clearing, CallerState

LEMMA IdleIsState == IdleCaller \in CallerState
BY DEF IdleCaller, CallerState, CallerPcs, AllKinds

LEMMA NodeStep ==
    ASSUME ClientInv, Upgrade \/ \E c \in Conns : DropConnection(c)
    PROVE  ClientInv'
BY ClientParameters
DEF ClientInv, ClientTypeOK, ConnsAreHeld, Upgrade, DropConnection, MayBreak, Runtimes

LEMMA CallerSteps ==
    ASSUME ClientInv, NEW p \in Callers, StartCall(p) \/ CallerStep(p) \/ DialFails(p)
    PROVE  ClientInv'
<1> USE DEF ClientInv, ClientTypeOK, ConnsAreHeld, CallerPcs, WatcherPcs
<1>1. CASE StartCall(p)
    <2>1. PICK k \in Kinds :
            caller' = [caller EXCEPT ![p] =
                         [caller[p] EXCEPT !.pc = "read_slot", !.kind = k]]
        BY <1>1 DEF StartCall
    <2>2. [caller[p] EXCEPT !.pc = "read_slot", !.kind = k] \in CallerState
        <3>1. caller[p] \in CallerState /\ k \in AllKinds
            BY KindsKnown DEF CallerState
        <3> HIDE DEF ClientInv, ClientTypeOK, ConnsAreHeld
        <3> QED BY <3>1 DEF CallerState
    <2> QED BY <1>1, <2>1, <2>2, CallerMoves DEF StartCall, CallerState, Clearing
<1>2. CASE ReadSlot(p)
    BY <1>2 DEF ReadSlot, Goto, UseSlot
<1>3. CASE DialReuse(p)
    BY <1>3 DEF DialReuse, UseSlot
<1>4. CASE Dial(p)
    <2>1. NewConn \in Conns
        BY <1>4, DialsAreFresh DEF Dial, MayDial
    <2> DEFINE r == [caller[p] EXCEPT !.pc = "call", !.conn = NewConn]
    <2>2. caller' = [caller EXCEPT ![p] = r] /\ r \in CallerState /\ r.pc = "call"
        BY <1>4, <2>1, ZenonT(60) DEF Dial, CallerState
    <2>3. /\ watcher' \in WatcherState
          /\ watcher'.conn # Nothing => watcher'.pc \notin {"off", "connect", "sleep"}
        BY <1>4 DEF Dial, EnsureWatcherRunning, WatcherState
    <2>4. /\ slot' \in Conns /\ dead' \subseteq Conns
          /\ UNCHANGED <<runtime, lock, head, caches, failures>>
        BY <1>4, <2>1 DEF Dial
    <2>5. caller[p].pc \notin Clearing
        BY <1>4 DEF Dial, Clearing
    <2> HIDE DEF r
    <2>6. /\ caller' \in [Callers -> CallerState]
          /\ \A q \in Callers : caller'[q].conn # Nothing => caller'[q].pc = "call"
          /\ \A q \in Callers : lock' = q <=> caller'[q].pc \in Clearing
        BY <2>2, <2>4, <2>5, CallerMoves DEF Clearing
    <2> QED BY <2>3, <2>4, <2>6 DEF CallerState, WatcherState, Clearing
<1>5. CASE DialFails(p)
    <2>1. PICK r \in {IdleCaller, [caller[p] EXCEPT !.pc = "invalidate"]} :
            caller' = [caller EXCEPT ![p] = r]
        BY <1>5 DEF DialFails, Leave, Goto
    <2>2. r \in CallerState /\ r.conn = Nothing /\ r.pc \in {"idle", "invalidate"}
        <3>1. caller[p] \in CallerState /\ caller[p].conn = Nothing
            BY <1>5 DEF DialFails, CallerState
        <3>2. CASE r = IdleCaller
            BY <3>2, IdleIsState DEF IdleCaller
        <3>3. CASE r = [caller[p] EXCEPT !.pc = "invalidate"]
            <4> HIDE DEF ClientInv, ClientTypeOK, ConnsAreHeld
            <4> QED BY <3>1, <3>3 DEF CallerState
        <3> QED BY <3>2, <3>3
    <2>3. failures' \in 0 .. MaxFailures /\ caller[p].pc \notin Clearing
          /\ UNCHANGED <<runtime, dead, slot, lock, head, caches, watcher>>
        BY <1>5, ClientParameters DEF DialFails, MayBreak, Clearing
    <2>4. /\ caller' \in [Callers -> CallerState]
          /\ \A q \in Callers : caller'[q].conn # Nothing => caller'[q].pc = "call"
          /\ \A q \in Callers : lock' = q <=> caller'[q].pc \in Clearing
        BY <2>1, <2>2, <2>3, CallerMoves DEF Clearing
    <2> QED BY <2>3, <2>4 DEF CallerState, Clearing
<1>6. CASE Invalidate(p)
    BY <1>6, ClientParameters DEF Invalidate, Goto
<1>7. CASE InvalidateCache(p)
    BY <1>7, ClientParameters DEF InvalidateCache, Goto, Clear
<1>8. CASE CallAnswered(p)
    <2>1. PICK r \in {IdleCaller, [caller[p] EXCEPT !.pc = "store", !.conn = Nothing,
                                                   !.value = runtime]} :
            caller' = [caller EXCEPT ![p] = r]
        BY <1>8 DEF CallAnswered, Leave
    <2>2. r \in CallerState /\ r.conn = Nothing /\ r.pc \in {"idle", "store"}
        <3>1. caller[p] \in CallerState /\ runtime \in Runtimes
            BY DEF CallerState
        <3>2. CASE r = IdleCaller
            BY <3>2, IdleIsState DEF IdleCaller
        <3>3. CASE r # IdleCaller
            <4> HIDE DEF ClientInv, ClientTypeOK, ConnsAreHeld
            <4> QED BY <3>1, <3>3 DEF CallerState
        <3> QED BY <3>2, <3>3
    <2>3. caller[p].pc \notin Clearing
          /\ UNCHANGED <<runtime, dead, slot, lock, head, caches, watcher, failures>>
        BY <1>8 DEF CallAnswered, Clearing
    <2>4. /\ caller' \in [Callers -> CallerState]
          /\ \A q \in Callers : caller'[q].conn # Nothing => caller'[q].pc = "call"
          /\ \A q \in Callers : lock' = q <=> caller'[q].pc \in Clearing
        BY <2>1, <2>2, <2>3, CallerMoves DEF Clearing
    <2> QED BY <2>3, <2>4 DEF CallerState, Clearing
<1>9. CASE CallFails(p)
    BY <1>9 DEF CallFails, Leave, IdleCaller, AllKinds
<1>10. CASE Store(p)
    BY <1>10 DEF Store, Leave, IdleCaller, AllKinds
<1> QED
    BY <1>1, <1>2, <1>3, <1>4, <1>5, <1>6, <1>7, <1>8, <1>9, <1>10 DEF CallerStep

LEMMA WatcherSteps ==
    ASSUME ClientInv,
           \/ WarmUp \/ WatcherStep \/ WatcherConnectFails \/ CheckSkipped
           \/ StreamEof \/ \E v \in Runtimes : Finalized(v)
    PROVE  ClientInv'
<1> USE ClientParameters DEF ClientInv, ClientTypeOK, ConnsAreHeld, WatcherPcs, Runtimes
<1>1. CASE WarmUp
    BY <1>1 DEF WarmUp, EnsureWatcherRunning
<1>2. CASE WatcherConnect
    <2>1. slot = Nothing => NewConn \in Conns
        BY <1>2, DialsAreFresh DEF WatcherConnect
    <2>2. PICK c \in Conns : watcher' = [watcher EXCEPT !.pc = "streams", !.conn = c]
                             /\ slot' = c /\ dead' \subseteq Conns
        BY <1>2, <2>1 DEF WatcherConnect, WatchOn
    <2>3. watcher' \in WatcherState /\ watcher'.pc = "streams"
        BY <2>2 DEF WatcherState
    <2>4. UNCHANGED <<runtime, lock, head, caches, caller, failures>>
        BY <1>2 DEF WatcherConnect
    <2> QED BY <2>2, <2>3, <2>4 DEF WatcherState
<1>3. CASE WatcherConnectFails
    BY <1>3 DEF WatcherConnectFails, MayBreak
<1>4. CASE WatcherWakes
    BY <1>4 DEF WatcherWakes
<1>5. CASE \E v \in Runtimes : Finalized(v)
    <2>1. PICK v \in Runtimes :
            /\ head' = v
            /\ watcher' = [watcher EXCEPT !.seen = v,
                            !.pc = IF caches.identity = Nothing THEN "streams"
                                   ELSE "check"]
            /\ UNCHANGED <<runtime, dead, slot, lock, caches, caller, failures>>
        BY <1>5 DEF Finalized
    <2>2. watcher' \in WatcherState /\ watcher'.pc \in {"streams", "check"}
        <3>1. watcher \in WatcherState
            BY DEF WatcherState
        <3> HIDE DEF ClientInv, ClientTypeOK, ConnsAreHeld
        <3> QED BY <2>1, <3>1 DEF WatcherState
    <2> QED BY <2>1, <2>2 DEF WatcherState
<1>6. CASE CheckSpec
    BY <1>6 DEF CheckSpec, Clear
<1>7. CASE CheckSkipped
    BY <1>7 DEF CheckSkipped
<1>8. CASE ClearOthers
    BY <1>8 DEF ClearOthers, Clear
<1>9. CASE StreamErrored
    <2>1. watcher' \in WatcherState /\ watcher'.conn = Nothing
        <3>1. watcher \in WatcherState /\ 1 \in Runtimes
            BY DEF WatcherState
        <3>2. PICK pc \in WatcherPcs :
                watcher' = [watcher EXCEPT !.pc = pc, !.conn = Nothing, !.seen = 1]
            BY <1>9 DEF StreamErrored
        <3> QED BY <3>1, <3>2 DEF WatcherState
    <2>2. /\ slot' = Nothing /\ head' = Nothing
          /\ UNCHANGED <<runtime, dead, lock, caches, caller, failures>>
        BY <1>9 DEF StreamErrored, DroppedSlot
    <2> QED BY <2>1, <2>2 DEF WatcherState
<1>10. CASE StreamEof
    <2>1. watcher' \in WatcherState /\ watcher'.conn = Nothing
        <3>1. watcher \in WatcherState /\ 1 \in Runtimes
            BY DEF WatcherState
        <3>2. PICK pc \in WatcherPcs :
                watcher' = [watcher EXCEPT !.pc = pc, !.conn = Nothing, !.seen = 1]
            BY <1>10 DEF StreamEof
        <3> QED BY <3>1, <3>2 DEF WatcherState
    <2>2. /\ failures' \in 0 .. MaxFailures
          /\ UNCHANGED <<runtime, dead, slot, lock, head, caches, caller>>
        BY <1>10 DEF StreamEof, MayBreak
    <2> QED BY <2>1, <2>2 DEF WatcherState
<1> QED
    BY <1>1, <1>2, <1>3, <1>4, <1>5, <1>6, <1>7, <1>8, <1>9, <1>10 DEF WatcherStep

LEMMA ClientStep == ClientInv /\ [ClientNext]_clientVars => ClientInv'
<1> SUFFICES ASSUME ClientInv, [ClientNext]_clientVars PROVE ClientInv'
    OBVIOUS
<1>1. CASE ClientNext
    BY <1>1, NodeStep, CallerSteps, WatcherSteps DEF ClientNext
<1>2. CASE UNCHANGED clientVars
    BY <1>2 DEF clientVars, ClientInv, ClientTypeOK, ConnsAreHeld
<1> QED
    BY <1>1, <1>2

\* Only a dial fills the slot, and a dial finds it empty.
LEMMA SlotStep ==
    ASSUME ClientNext, slot # Nothing, slot' # Nothing
    PROVE  slot' = slot
BY DEF ClientNext, Upgrade, WarmUp, DropConnection, StartCall, CallerStep, ReadSlot,
       DialReuse, Dial, MayDial, DialFails, Invalidate, InvalidateCache,
       CallAnswered, CallFails, Store, WatcherStep, WatcherConnect,
       WatcherConnectFails, WatcherWakes, Finalized, CheckSpec, CheckSkipped,
       ClearOthers, StreamErrored, DroppedSlot, StreamEof

------------------------------------------------------------------------------
\* The invariant holds in every reachable state, for any number of callers and
\* faults.
THEOREM ClientInvariance == ClientSpec => []ClientInv
BY ClientStart, ClientStep, PTL DEF ClientSpec

\* Every variable keeps its type; that includes that the write guard excludes:
\* exactly the caller that clears the caches holds it.
THEOREM ClientTypeCorrect == ClientSpec => []ClientTypeOK
<1>1. ClientInv => ClientTypeOK
    BY DEF ClientInv
<1> QED
    BY ClientInvariance, <1>1, PTL

\* connect_or_reuse and ensure_watcher_client check the slot again under the
\* write guard: a live connection is never replaced by another.
THEOREM SlotHolds == ClientSpec => SlotNeverReplaced
<1>1. [ClientNext]_clientVars => [slot # Nothing /\ slot' # Nothing => slot' = slot]_clientVars
    BY SlotStep DEF clientVars
<1> QED
    BY <1>1, PTL DEF ClientSpec, SlotNeverReplaced
==============================================================================
