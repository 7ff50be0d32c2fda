--------------------------- MODULE GapSplitProofs ---------------------------
(***************************************************************************)
(* split_gaps_into_chunks (src/indexer/backfill.rs) keeps its contract for *)
(* every head, chunk size and list of existing blocks, of any length.      *)
(***************************************************************************)
EXTENDS GapSplit, OrderLemmas, TLAPS

\* The arguments of the call, as numbers.
LEMMA CallType ==
    ASSUME call \in Inputs
    PROVE  /\ U64Max \in Nat
           /\ call.head \in 0 .. U64Max
           /\ call.size \in 1 .. U64Max
           /\ call.existing \in Seq(0 .. U64Max)
           /\ Len(call.existing) \in Nat
           /\ \A j \in 1 .. Len(call.existing) :
                call.existing[j] \in 0 .. U64Max
<1>1. call.existing \in Seq(0 .. U64Max)
    BY GapInputs
<1> QED
    BY <1>1, GapInputs

\* The piece push_chunked cuts off: never past the gap, never too wide, and
\* not wrapped round by the saturating addition.
LEMMA PieceEndBounds ==
    ASSUME TypeOK, Shape, pc \in {"gap", "tail"}
    PROVE  /\ PieceEnd \in 0 .. U64Max
           /\ f <= PieceEnd /\ PieceEnd <= to
           /\ PieceEnd - f < call.size
<1>1. /\ f \in Nat /\ to \in Nat /\ U64Max \in Nat /\ call.size \in Nat
      /\ call.size >= 1 /\ f <= to /\ to <= U64Max
    BY CallType DEF TypeOK, Shape
<1> QED
    BY <1>1 DEF PieceEnd, SaturatingAdd

\* Pushing a piece: the old pieces stay, the new one is last.
LEMMA PushedPiece ==
    ASSUME TypeOK, Shape, PushPiece
    PROVE  /\ chunks' \in Seq((0 .. U64Max) \X (0 .. U64Max))
           /\ Len(chunks) \in Nat /\ Len(chunks') = Len(chunks) + 1
           /\ \A k \in 1 .. Len(chunks) :
                /\ chunks'[k] = chunks[k]
                /\ chunks[k] \in (0 .. U64Max) \X (0 .. U64Max)
           /\ chunks'[Len(chunks')] = <<f, PieceEnd>>
<1>1. <<f, PieceEnd>> \in (0 .. U64Max) \X (0 .. U64Max)
    BY PieceEndBounds DEF TypeOK, PushPiece
<1>2. chunks' = Append(chunks, <<f, PieceEnd>>)
    BY DEF PushPiece
<1> QED
    BY <1>1, <1>2 DEF TypeOK

LEMMA TypeStep == TypeOK /\ Shape /\ [Next]_vars => TypeOK'
<1> SUFFICES ASSUME TypeOK, Shape, [Next]_vars
             PROVE  TypeOK'
    OBVIOUS
<1>1. /\ U64Max \in Nat /\ call.head \in 0 .. U64Max
      /\ Len(call.existing) \in Nat
      /\ i \in 1 .. Len(call.existing) + 1
    BY CallType DEF TypeOK
<1>2. CASE Skip
    BY <1>1, <1>2 DEF TypeOK, Skip
<1>3. CASE Advance
    <2>1. present \in 0 .. U64Max
        BY <1>1, <1>3, CallType DEF TypeOK, Advance, present
    <2>2. cursor' \in 0 .. U64Max
        BY <1>1, <1>3, <2>1 DEF Advance, SaturatingAdd
    <2>3. f' \in 0 .. U64Max /\ to' \in 0 .. U64Max
        BY <1>1, <1>3, <2>1 DEF TypeOK, Advance
    <2>4. i' \in 1 .. Len(call.existing) + 1
        BY <1>1, <1>3 DEF Advance
    <2> QED
        BY <1>3, <2>2, <2>3, <2>4 DEF TypeOK, Advance
<1>4. CASE Finish
    BY <1>1, <1>4 DEF TypeOK, Finish
<1>5. CASE PushPiece
    <2>1. chunks' \in Seq((0 .. U64Max) \X (0 .. U64Max))
        BY <1>5, PushedPiece
    <2>2. f' \in 0 .. U64Max
        <3>1. /\ PieceEnd \in Nat /\ PieceEnd <= to
              /\ to \in Nat /\ to <= U64Max
            BY <1>1, <1>5, PieceEndBounds DEF TypeOK, PushPiece
        <3>2. f' = f \/ (PieceEnd # to /\ f' = PieceEnd + 1)
            BY <1>5 DEF PushPiece
        <3> QED
            BY <1>1, <3>1, <3>2 DEF TypeOK
    <2> QED
        BY <1>5, <2>1, <2>2 DEF TypeOK, PushPiece
<1>6. CASE UNCHANGED vars
    BY <1>6 DEF TypeOK, vars
<1> QED
    BY <1>2, <1>3, <1>4, <1>5, <1>6 DEF Next

-----------------------------------------------------------------------------
(* The pieces *)

LEMMA ShapeStep == TypeOK /\ Shape /\ [Next]_vars => Shape'
<1> SUFFICES ASSUME TypeOK, Shape, [Next]_vars
             PROVE  Shape'
    OBVIOUS
<1>1. /\ U64Max \in Nat /\ call.head \in Nat /\ call.head <= U64Max
      /\ cursor \in Nat /\ f \in Nat /\ to \in Nat
      /\ Len(chunks) \in Nat
      /\ \A k \in 1 .. Len(chunks) :
            chunks[k][1] \in Nat /\ chunks[k][2] \in Nat
    BY CallType, SMTT(30) DEF TypeOK
<1>2. CASE Skip
    BY <1>2 DEF Skip, Shape, PiecesAscend, Frontier
<1>3. CASE Advance
    <2>1. /\ present \in Nat /\ present <= U64Max
          /\ present <= call.head /\ present >= cursor
        BY <1>1, <1>3, CallType DEF TypeOK, Advance, present
    <2>2. /\ UNCHANGED <<call, chunks>> /\ PiecesAscend
          /\ \A k \in 1 .. Len(chunks) : chunks[k][2] < cursor
        BY <1>3 DEF Advance, Shape, Frontier
    <2>3. PiecesAscend'
        BY <2>2 DEF PiecesAscend
    <2>4. cursor' >= present /\ cursor' \in Nat
        BY <1>1, <1>3, <2>1 DEF Advance, SaturatingAdd
    <2>5. CASE present > cursor
        <3>1. pc' = "gap" /\ f' = cursor /\ to' = present - 1
            BY <1>3, <2>5 DEF Advance
        <3>2. f' <= to' /\ to' <= call'.head /\ to' < cursor'
            BY <1>1, <2>1, <2>2, <2>4, <2>5, <3>1
        <3> QED
            BY <2>2, <2>3, <3>1, <3>2 DEF Shape, Frontier
    <2>6. CASE ~(present > cursor)
        <3>1. pc' = "scan"
            BY <1>3, <2>6 DEF Advance
        <3>2. \A k \in 1 .. Len(chunks) : chunks[k][2] < cursor'
            BY <1>1, <2>1, <2>2, <2>4
        <3> QED
            BY <2>2, <2>3, <3>1, <3>2 DEF Shape, Frontier
    <2> QED
        BY <2>5, <2>6
<1>4. CASE Finish
    <2>1. /\ UNCHANGED <<call, chunks, cursor>> /\ PiecesAscend
          /\ \A k \in 1 .. Len(chunks) :
                chunks[k][2] < cursor /\ chunks[k][2] <= call.head
        BY <1>4 DEF Finish, Shape, Frontier, PiecesAscend
    <2>2. PiecesAscend'
        BY <2>1 DEF PiecesAscend
    <2>3. \A k \in 1 .. Len(chunks) : chunks[k][2] < call.head + 1
        BY <1>1, <2>1
    <2>4. \/ pc' = "done"
          \/ pc' = "tail" /\ f' = cursor /\ to' = call.head /\ f' <= to'
        BY <1>4 DEF Finish
    <2> QED
        BY <1>1, <2>1, <2>2, <2>3, <2>4 DEF Shape, Frontier
<1>5. CASE PushPiece
    <2>1. /\ Len(chunks') = Len(chunks) + 1
          /\ \A k \in 1 .. Len(chunks) : chunks'[k] = chunks[k]
          /\ chunks'[Len(chunks) + 1] = <<f, PieceEnd>>
        BY <1>5, PushedPiece
    <2>2. /\ PieceEnd \in Nat /\ f <= PieceEnd /\ PieceEnd <= to
          /\ PieceEnd - f < call.size
          /\ to <= call.head /\ pc \in {"gap", "tail"}
          /\ pc = "gap" => to < cursor
          /\ pc = "tail" => to = call.head
        BY <1>1, <1>5, PieceEndBounds DEF PushPiece, Shape
    <2>3. /\ PiecesAscend
          /\ \A k \in 1 .. Len(chunks) : chunks[k][2] < f
        BY <2>2 DEF Shape, Frontier
    <2>4. UNCHANGED <<call, cursor, to>>
        BY <1>5 DEF PushPiece
    <2> DEFINE n == Len(chunks)
    <2>5. \A k \in 1 .. n + 1 :
            /\ chunks'[k][1] <= chunks'[k][2] /\ chunks'[k][2] <= call.head
            /\ chunks'[k][2] - chunks'[k][1] < call.size
        <3>1. \A k \in 1 .. n : /\ chunks[k][1] <= chunks[k][2]
                                /\ chunks[k][2] <= call.head
                                /\ chunks[k][2] - chunks[k][1] < call.size
            BY <2>3 DEF PiecesAscend
        <3>2. f <= PieceEnd /\ PieceEnd <= call.head /\ PieceEnd - f < call.size
            BY <1>1, <2>2
        <3> QED
            BY <1>1, <2>1, <3>1, <3>2
    <2>6. \A k, l \in 1 .. n + 1 : k < l => chunks'[k][2] < chunks'[l][1]
        <3>1. \A k, l \in 1 .. n : k < l => chunks[k][2] < chunks[l][1]
            BY <2>3 DEF PiecesAscend
        <3>2. SUFFICES ASSUME NEW k \in 1 .. n + 1, NEW l \in 1 .. n + 1, k < l
                       PROVE  chunks'[k][2] < chunks'[l][1]
            OBVIOUS
        <3>3. k \in 1 .. n /\ chunks'[k] = chunks[k]
            BY <1>1, <2>1, <3>2
        <3>4. CASE l = n + 1
            BY <2>1, <2>3, <3>3, <3>4
        <3>5. CASE l # n + 1
            <4>1. l \in 1 .. n
                BY <1>1, <3>5
            <4> QED
                BY <2>1, <3>1, <3>2, <3>3, <4>1
        <3> QED
            BY <3>4, <3>5
    <2>7. PiecesAscend'
        BY <2>1, <2>4, <2>5, <2>6 DEF PiecesAscend
    <2>8. \A k \in 1 .. n + 1 : chunks'[k][2] <= PieceEnd
        BY <1>1, <2>1, <2>2, <2>3, SMTT(30)
    <2>9. CASE PieceEnd = to
        <3>1. pc' = (IF pc = "gap" THEN "scan" ELSE "done")
            BY <1>5, <2>9 DEF PushPiece
        <3>2. CASE pc = "gap"
            <4>1. \A k \in 1 .. n + 1 : chunks'[k][2] < cursor'
                BY <1>1, <2>1, <2>2, <2>4, <2>8, <3>2, PushedPiece, <1>5
            <4> QED
                BY <2>1, <2>7, <3>1, <3>2, <4>1 DEF Shape, Frontier
        <3>3. CASE pc = "tail"
            <4>1. \A k \in 1 .. n + 1 : chunks'[k][2] \in Nat
                BY <1>1, <2>1, <2>2
            <4>2. \A k \in 1 .. n + 1 : chunks'[k][2] < call'.head + 1
                BY <1>1, <2>4, <2>5, <4>1
            <4> QED
                BY <2>1, <2>7, <3>1, <3>3, <4>2 DEF Shape, Frontier
        <3> QED
            BY <2>2, <3>2, <3>3
    <2>10. CASE PieceEnd # to
        <3>1. f' = PieceEnd + 1 /\ pc' = pc
            BY <1>5, <2>10 DEF PushPiece
        <3>2. f' <= to' /\ to' <= call'.head
            BY <1>1, <2>2, <2>4, <2>10, <3>1
        <3>3. \A k \in 1 .. n + 1 : chunks'[k][2] < f'
            BY <1>1, <2>1, <2>2, <2>3, <3>1
        <3> QED
            BY <2>1, <2>2, <2>4, <2>7, <3>1, <3>2, <3>3 DEF Shape, Frontier
    <2> QED
        BY <2>9, <2>10
<1>6. CASE UNCHANGED vars
    BY <1>6 DEF vars, Shape, PiecesAscend, Frontier
<1> QED
    BY <1>2, <1>3, <1>4, <1>5, <1>6 DEF Next

-----------------------------------------------------------------------------
(* What is covered *)

LEMMA PushCovers ==
    ASSUME TypeOK, Shape, PushPiece, NEW b \in Nat
    PROVE  Covered(b)' <=> Covered(b) \/ (f <= b /\ b <= PieceEnd)
<1>1. /\ Len(chunks') = Len(chunks) + 1 /\ Len(chunks) \in Nat
      /\ \A k \in 1 .. Len(chunks) : chunks'[k] = chunks[k]
      /\ chunks'[Len(chunks) + 1] = <<f, PieceEnd>>
    BY PushedPiece
<1>2. f \in Int /\ PieceEnd \in Int
    BY PieceEndBounds, CallType DEF TypeOK, PushPiece
<1>3. b \in Span(chunks'[Len(chunks) + 1]) <=> f <= b /\ b <= PieceEnd
    BY <1>1, <1>2 DEF Span
<1>4. Covered(b)' <=> \E k \in 1 .. Len(chunks) + 1 : b \in Span(chunks'[k])
    BY <1>1 DEF Covered
<1>5. (\E k \in 1 .. Len(chunks) : b \in Span(chunks'[k])) <=> Covered(b)
    BY <1>1 DEF Covered
<1>6. \A k : k \in 1 .. Len(chunks) + 1
                <=> k \in 1 .. Len(chunks) \/ k = Len(chunks) + 1
    BY <1>1
<1> QED
    BY <1>3, <1>4, <1>5, <1>6

LEMMA CoverageStep == TypeOK /\ Shape /\ Coverage /\ [Next]_vars => Coverage'
<1> SUFFICES ASSUME TypeOK, Shape, Coverage, [Next]_vars,
                    NEW b \in 0 .. call.head
             PROVE  \/ b >= cursor' /\ pc' \in {"scan", "gap"}
                    \/ b >= f' /\ b <= to' /\ pc' \in {"gap", "tail"}
                    \/ b \in Present \/ Covered(b)'
    BY DEF Next, Skip, Advance, Finish, PushPiece, vars, Coverage, Present
<1>1. /\ U64Max \in Nat /\ call.head \in Nat
      /\ cursor \in Nat /\ f \in Nat /\ to \in Nat /\ b \in Nat
    BY CallType DEF TypeOK
<1>2. \/ b >= cursor /\ pc \in {"scan", "gap"}
      \/ b >= f /\ b <= to /\ pc \in {"gap", "tail"}
      \/ b \in Present \/ Covered(b)
    BY DEF Coverage
<1>3. CASE Skip
    BY <1>2, <1>3 DEF Skip, Covered
<1>4. CASE Advance
    <2>1. present \in 0 .. U64Max /\ present \in Present
        BY <1>4, CallType, SMTT(30) DEF TypeOK, Advance, present, Present
    <2>2. cursor' = present + 1 \/ (cursor' = present /\ present = U64Max)
        BY <1>1, <1>4, <2>1 DEF Advance, SaturatingAdd
    <2>3. pc = "scan" /\ present >= cursor /\ (Covered(b)' <=> Covered(b))
        BY <1>4 DEF Advance, Covered
    <2>4. CASE present > cursor
        <3>1. pc' = "gap" /\ f' = cursor /\ to' = present - 1
            BY <1>4, <2>4 DEF Advance
        <3>2. b >= cursor => b <= present - 1 \/ b = present \/ b >= present + 1
            BY <1>1, <2>1
        <3>3. b >= present + 1 => b >= cursor'
            BY <1>1, <2>1, <2>2
        <3> QED
            BY <1>2, <2>1, <2>3, <3>1, <3>2, <3>3
    <2>5. CASE ~(present > cursor)
        <3>1. pc' = "scan" /\ present = cursor
            BY <1>1, <1>4, <2>1, <2>3, <2>5 DEF Advance
        <3>2. b >= cursor => b = present \/ b >= cursor'
            BY <1>1, <2>1, <2>2, <3>1
        <3> QED
            BY <1>2, <2>1, <2>3, <3>1, <3>2
    <2> QED
        BY <2>4, <2>5
<1>5. CASE Finish
    <2>1. cursor <= call.head => pc' = "tail" /\ f' = cursor /\ to' = call.head
        BY <1>5 DEF Finish
    <2>2. pc = "scan" /\ (Covered(b)' <=> Covered(b))
        BY <1>5 DEF Finish, Covered
    <2> QED
        BY <1>1, <1>2, <2>1, <2>2
<1>6. CASE PushPiece
    <2>1. Covered(b)' <=> Covered(b) \/ (f <= b /\ b <= PieceEnd)
        BY <1>1, <1>6, PushCovers
    <2>2. /\ PieceEnd \in Nat /\ cursor' = cursor /\ to' = to
          /\ pc \in {"gap", "tail"}
        BY <1>6, PieceEndBounds, CallType DEF PushPiece, TypeOK
    <2>3. CASE PieceEnd = to
        <3>1. pc = "gap" => pc' = "scan"
            BY <1>6, <2>3 DEF PushPiece
        <3> QED
            BY <1>2, <2>1, <2>2, <2>3, <3>1
    <2>4. CASE PieceEnd # to
        <3>1. pc' = pc /\ f' = PieceEnd + 1
            BY <1>6, <2>4 DEF PushPiece
        <3>2. b >= f => b <= PieceEnd \/ b >= f'
            BY <1>1, <2>2, <3>1
        <3> QED
            BY <1>2, <2>1, <2>2, <3>1, <3>2
    <2> QED
        BY <2>3, <2>4
<1>7. CASE UNCHANGED vars
    BY <1>2, <1>7 DEF vars, Covered
<1> QED
    BY <1>3, <1>4, <1>5, <1>6, <1>7 DEF Next

-----------------------------------------------------------------------------
(* What is not *)

LEMMA ExactnessStep == TypeOK /\ Shape /\ Exactness /\ [Next]_vars => Exactness'
<1> SUFFICES ASSUME TypeOK, Shape, Exactness, [Next]_vars,
                    Ascending(call.existing), call.head < U64Max
             PROVE  /\ \A j \in 1 .. i' - 1 : \/ call.existing[j] < cursor'
                                               \/ call.existing[j] > call.head
                    /\ pc' \in {"gap", "tail"} =>
                          \A b \in Present : ~(f' <= b /\ b <= to')
                    /\ \A b \in Present : ~Covered(b)'
    BY DEF Next, Skip, Advance, Finish, PushPiece, vars, Exactness, Present
<1> DEFINE ex == call.existing
<1>1. /\ U64Max \in Nat /\ call.head \in Nat
      /\ cursor \in Nat /\ f \in Nat /\ to \in Nat
      /\ Len(ex) \in Nat /\ i \in 1 .. Len(ex) + 1
      /\ \A j \in 1 .. Len(ex) : ex[j] \in Nat /\ ex[j] <= U64Max
      /\ \A j, k \in 1 .. Len(ex) : j < k => ex[j] <= ex[k]
    BY CallType DEF TypeOK, Ascending
<1>2. /\ \A j \in 1 .. i - 1 : ex[j] < cursor \/ ex[j] > call.head
      /\ pc \in {"gap", "tail"} => \A b \in Present : ~(f <= b /\ b <= to)
      /\ \A b \in Present : ~Covered(b)
    BY DEF Exactness
<1>3. \A b \in Present : b \in Nat
    BY <1>1 DEF Present
<1>4. CASE Skip
    <2>1. /\ i' = i + 1 /\ cursor' = cursor /\ pc' = "scan"
          /\ ex[i] > call.head \/ ex[i] < cursor
          /\ UNCHANGED chunks
        BY <1>4 DEF Skip, present
    <2>2. \A j \in 1 .. i' - 1 : j \in 1 .. i - 1 \/ j = i
        BY <1>1, <2>1
    <2> QED
        BY <1>2, <2>1, <2>2 DEF Covered
<1>5. CASE Advance
    <2>1. /\ i' = i + 1 /\ cursor' = SaturatingAdd(ex[i], 1)
          /\ ex[i] <= call.head /\ ex[i] >= cursor /\ i \in 1 .. Len(ex)
          /\ UNCHANGED chunks
        BY <1>1, <1>5 DEF Advance, present
    <2>2. cursor' = ex[i] + 1 /\ ex[i] \in Nat
        BY <1>1, <2>1 DEF SaturatingAdd
    <2>3. \A j \in 1 .. i' - 1 : ex[j] < cursor' \/ ex[j] > call.head
        <3> SUFFICES ASSUME NEW j \in 1 .. i' - 1
                     PROVE  ex[j] < cursor' \/ ex[j] > call.head
            OBVIOUS
        <3>1. j \in 1 .. i - 1 \/ j = i
            BY <1>1, <2>1
        <3>2. j \in 1 .. Len(ex) /\ ex[j] \in Nat
            BY <1>1, <2>1, <3>1
        <3> QED
            BY <1>1, <1>2, <2>1, <2>2, <3>1, <3>2, SMTT(30)
    <2>4. ASSUME ex[i] > cursor, NEW b \in Present
          PROVE  ~(cursor <= b /\ b <= ex[i] - 1)
        <3>1. PICK j \in 1 .. Len(ex) : b = ex[j]
            BY DEF Present
        <3>2. CASE j < i
            <4>1. ex[j] < cursor \/ ex[j] > call.head
                BY <1>1, <1>2, <3>2
            <4> QED
                BY <1>1, <2>1, <2>2, <3>1, <4>1, SMTT(30)
        <3>3. CASE j >= i
            <4>1. ex[i] <= ex[j]
                BY <1>1, <2>1, <2>2, <3>3
            <4> QED
                BY <1>1, <2>2, <3>1, <4>1
        <3> QED
            BY <1>1, <3>2, <3>3
    <2>5. pc' = "gap" => ex[i] > cursor /\ f' = cursor /\ to' = ex[i] - 1
        BY <1>5 DEF Advance, present
    <2>6. pc' \in {"scan", "gap"}
        BY <1>5 DEF Advance
    <2> QED
        BY <1>2, <2>1, <2>3, <2>4, <2>5, <2>6 DEF Covered
<1>6. CASE Finish
    <2>1. /\ i > Len(ex) /\ i' = i /\ cursor' = cursor /\ UNCHANGED chunks
          /\ pc' \in {"gap", "tail"} => f' = cursor /\ to' = call.head
        BY <1>6 DEF Finish
    <2>2. \A b \in Present : b < cursor \/ b > call.head
        BY <1>1, <1>2, <2>1 DEF Present
    <2>3. \A b \in Present : ~(cursor <= b /\ b <= call.head)
        BY <1>1, <1>3, <2>2
    <2> QED
        BY <1>2, <2>1, <2>3 DEF Covered
<1>7. CASE PushPiece
    <2>1. /\ UNCHANGED <<i, cursor, to>>
          /\ pc \in {"gap", "tail"}
          /\ pc' \in {"gap", "tail"} => f' = PieceEnd + 1
        BY <1>7 DEF PushPiece
    <2>2. PieceEnd \in Nat /\ f <= PieceEnd /\ PieceEnd <= to
        BY <1>1, <2>1, PieceEndBounds
    <2>3. \A b \in Present : ~Covered(b)'
        BY <1>1, <1>2, <1>3, <1>7, <2>1, <2>2, PushCovers
    <2>4. \A b \in Present : ~(PieceEnd + 1 <= b /\ b <= to)
        BY <1>1, <1>2, <1>3, <2>1, <2>2
    <2> QED
        BY <1>2, <2>1, <2>3, <2>4
<1>8. CASE UNCHANGED vars
    BY <1>2, <1>8 DEF vars, Covered
<1> QED
    BY <1>4, <1>5, <1>6, <1>7, <1>8 DEF Next

-----------------------------------------------------------------------------
(* The contract *)

LEMMA InitIInv == Init => IInv
<1> SUFFICES ASSUME Init
             PROVE  IInv
    OBVIOUS
<1>1. TypeOK
    BY CallType DEF Init, TypeOK
<1>2. Shape
    BY DEF Init, Shape, PiecesAscend
<1>3. Coverage
    BY CallType DEF Init, Coverage
<1>4. Exactness
    BY DEF Init, Exactness, Covered
<1> QED
    BY <1>1, <1>2, <1>3, <1>4 DEF IInv

THEOREM Invariance == Spec => []IInv
<1>1. IInv /\ [Next]_vars => IInv'
    BY TypeStep, ShapeStep, CoverageStep, ExactnessStep DEF IInv
<1> QED
    BY InitIInv, <1>1, PTL DEF Spec

\* The ranges ascend, do not overlap and are no wider than chunk_size, for any
\* input up to the end of u64 (split_gaps_into_chunks).
THEOREM PiecesHold == Spec => []PiecesAscend
<1>1. IInv => PiecesAscend
    BY DEF IInv, Shape
<1> QED
    BY <1>1, Invariance, PTL

\* No missing block is left out, sorted input or not.
THEOREM NothingIsMissed == Spec => []NothingMissed
<1>1. IInv => NothingMissed
    BY CallType DEF IInv, Coverage, NothingMissed, Missing, TypeOK
<1> QED
    BY <1>1, Invariance, PTL

\* No block that is present is queued again, for the ascending input the
\* contract asks for and a head below u64::MAX.
THEOREM NothingPresentIsQueued == Spec => []NothingPresentQueued
<1>1. IInv => NothingPresentQueued
    BY DEF IInv, Exactness, NothingPresentQueued
<1> QED
    BY <1>1, Invariance, PTL

-----------------------------------------------------------------------------
(* The pieces are those of the maximal runs *)

missing == Missing(call.head, Present)
RunStart(g) == g \in missing /\ g - 1 \notin missing

\* A block at a whole number of pieces from the start of the run that holds a .. b.
InStep(a, b) ==
    \E g \in 0 .. a : RunStart(g) /\ g .. b \subseteq missing /\ (a - g) % call.size = 0

\* A piece is full, or the last of its run.
EndsWell(a, b) ==
    \/ b = a + call.size - 1
    \/ b < a + call.size - 1 /\ b + 1 \notin missing

Runs ==
    Ascending(call.existing) /\ call.head < U64Max =>
        /\ pc \in {"scan", "gap"} => cursor - 1 \notin missing
        /\ pc \in {"gap", "tail"} => InStep(f, to) /\ to + 1 \notin missing
        /\ \A k \in 1 .. Len(chunks) :
                InStep(chunks[k][1], chunks[k][2]) /\ EndsWell(chunks[k][1], chunks[k][2])

\* The arguments and the position, as numbers.
LEMMA Positions ==
    ASSUME IInv
    PROVE  /\ U64Max \in Nat /\ call.head \in Nat /\ call.head <= U64Max
           /\ call.size \in Nat /\ call.size >= 1
           /\ cursor \in Nat /\ f \in Nat /\ to \in Nat /\ Len(chunks) \in Nat
           /\ \A k \in 1 .. Len(chunks) :
                chunks[k][1] \in Nat /\ chunks[k][2] \in Nat
           /\ \A b \in missing : b \in 0 .. call.head /\ b \notin Present
           /\ \A b \in Int : b \in missing <=>
                b >= 0 /\ b <= call.head /\ b \notin Present
BY CallType, SMTT(30) DEF IInv, TypeOK, missing, Missing

LEMMA Sizes == ASSUME IInv PROVE call.size \in Nat \ {0} /\ f \in Nat /\ to \in Nat
BY Positions

\* The blocks between the cursor and a present block that is not below it, or the
\* head, are missing.
LEMMA AdvanceRuns ==
    ASSUME IInv, IInv', Runs, Ascending(call.existing), call.head < U64Max, Advance
    PROVE  /\ pc' \in {"scan", "gap"} /\ cursor' - 1 \notin missing
           /\ pc' = "gap" => InStep(f', to') /\ to' + 1 \notin missing
<1>1. /\ i \in 1 .. Len(call.existing) /\ present \in 0 .. U64Max /\ present \in Present
      /\ present <= call.head /\ present >= cursor
      /\ cursor - 1 \notin missing
    <2>1. i \in 1 .. Len(call.existing)
        BY CallType DEF IInv, TypeOK, Advance
    <2>2. present \in 0 .. U64Max /\ present \in Present
        BY <2>1, CallType DEF IInv, TypeOK, present, Present
    <2> QED
        BY <2>1, <2>2 DEF Advance, Runs
<1>2. cursor' = present + 1 /\ present \notin missing
    BY <1>1, Positions DEF Advance, SaturatingAdd
<1>3. ASSUME present > cursor
      PROVE  InStep(cursor, present - 1)
    <2>1. \A b \in Present : ~(cursor <= b /\ b <= present - 1)
        BY <1>3 DEF IInv, Exactness, Advance, Present
    <2>2. \A b \in cursor .. present - 1 : b \in missing
        BY <1>1, <2>1, Positions
    <2>3. RunStart(cursor) /\ cursor \in 0 .. cursor
        BY <1>1, <1>3, <2>2, Positions DEF RunStart
    <2>4. (cursor - cursor) % call.size = 0
        BY Positions
    <2> QED
        BY <2>2, <2>3, <2>4 DEF InStep
<1>4. \/ /\ present > cursor /\ pc' = "gap" /\ f' = cursor /\ to' = present - 1
      \/ pc' = "scan"
    BY DEF Advance
<1>5. present - 1 + 1 = present /\ present + 1 - 1 = present
    BY <1>1
<1> QED
    BY <1>1, <1>2, <1>3, <1>4, <1>5

LEMMA FinishRuns ==
    ASSUME IInv, IInv', Runs, Ascending(call.existing), call.head < U64Max, Finish
    PROVE  /\ pc' \in {"tail", "done"}
           /\ pc' = "tail" => InStep(f', to') /\ to' + 1 \notin missing
<1>1. cursor - 1 \notin missing
    BY DEF Finish, Runs
<1>2. ASSUME cursor <= call.head
      PROVE  InStep(cursor, call.head)
    <2>1. \A b \in Present : ~(cursor <= b /\ b <= call.head)
        BY <1>2 DEF IInv, Exactness, Finish, Present
    <2>2. \A b \in cursor .. call.head : b \in missing
        BY <2>1, Positions
    <2>3. RunStart(cursor) /\ cursor \in 0 .. cursor
        BY <1>1, <1>2, <2>2, Positions DEF RunStart
    <2>4. (cursor - cursor) % call.size = 0
        BY Positions
    <2> QED
        BY <2>2, <2>3, <2>4 DEF InStep
<1>3. call.head + 1 \notin missing
    BY Positions
<1> QED
    BY <1>2, <1>3 DEF Finish

\* What push_chunked cuts off is a piece, and leaves it one piece further on.
LEMMA PieceRuns ==
    ASSUME IInv, Runs, Ascending(call.existing), call.head < U64Max, PushPiece
    PROVE  /\ InStep(f, PieceEnd) /\ EndsWell(f, PieceEnd)
           /\ PieceEnd # to => InStep(PieceEnd + 1, to)
<1>1. /\ pc \in {"gap", "tail"} /\ f <= to /\ to <= call.head
      /\ InStep(f, to) /\ to + 1 \notin missing
      /\ PieceEnd \in Nat /\ f <= PieceEnd /\ PieceEnd <= to
    BY PieceEndBounds, CallType DEF IInv, Shape, PushPiece, Runs
<1>2. PICK g \in 0 .. f :
        RunStart(g) /\ g .. to \subseteq missing /\ (f - g) % call.size = 0
    BY <1>1 DEF InStep
<1>3. InStep(f, PieceEnd)
    <2>1. g .. PieceEnd \subseteq g .. to
        BY <1>1, <1>2, Positions
    <2> QED
        BY <1>2, <2>1 DEF InStep
<1>4. \/ PieceEnd = f + (call.size - 1)
      \/ PieceEnd = to /\ to < f + (call.size - 1)
    BY <1>1, Positions DEF PieceEnd, SaturatingAdd
<1>5. EndsWell(f, PieceEnd)
    BY <1>1, <1>4, Positions DEF EndsWell
<1>6. ASSUME PieceEnd # to
      PROVE  InStep(PieceEnd + 1, to)
    <2>1. PieceEnd + 1 = f + call.size /\ g \in 0 .. PieceEnd + 1
        <3>1. PieceEnd = f + (call.size - 1)
            BY <1>4, <1>6
        <3>2. PieceEnd + 1 = f + call.size
            BY <3>1, Sizes
        <3>3. g \in Nat /\ g <= f /\ f <= f + call.size
            BY Sizes
        <3> QED
            BY <3>2, <3>3, Sizes
    <2>2. (PieceEnd + 1) - g = (f - g) + call.size /\ f - g \in Nat
        BY <2>1, Sizes
    <2>3. ((f - g) + call.size) % call.size = 0
        BY <1>2, <2>2, Sizes, NextMultiple
    <2> QED
        BY <1>2, <2>1, <2>2, <2>3 DEF InStep
<1> QED
    BY <1>3, <1>5, <1>6

LEMMA RunsStep == IInv /\ IInv' /\ Runs /\ [Next]_vars => Runs'
<1> SUFFICES ASSUME IInv, IInv', Runs, [Next]_vars PROVE Runs'
    OBVIOUS
<1>c. call' = call
    BY DEF Next, Skip, Advance, Finish, PushPiece, vars
<1>m. missing' = missing /\ (\A g : RunStart(g)' <=> RunStart(g))
    BY <1>c DEF missing, Present, RunStart
<1> SUFFICES ASSUME Ascending(call.existing), call.head < U64Max
             PROVE  /\ pc' \in {"scan", "gap"} => cursor' - 1 \notin missing
                    /\ pc' \in {"gap", "tail"} =>
                          InStep(f', to') /\ to' + 1 \notin missing
                    /\ \A k \in 1 .. Len(chunks') :
                          /\ InStep(chunks'[k][1], chunks'[k][2])
                          /\ EndsWell(chunks'[k][1], chunks'[k][2])
    BY <1>c, <1>m DEF Runs, InStep, EndsWell
<1>1. /\ pc \in {"scan", "gap"} => cursor - 1 \notin missing
      /\ pc \in {"gap", "tail"} => InStep(f, to) /\ to + 1 \notin missing
      /\ \A k \in 1 .. Len(chunks) :
            InStep(chunks[k][1], chunks[k][2]) /\ EndsWell(chunks[k][1], chunks[k][2])
    BY DEF Runs
<1>2. CASE Skip
    BY <1>1, <1>2 DEF Skip
<1>3. CASE Advance
    BY <1>1, <1>3, AdvanceRuns DEF Advance
<1>4. CASE Finish
    BY <1>1, <1>4, FinishRuns DEF Finish
<1>5. CASE PushPiece
    <2>1. /\ Len(chunks') = Len(chunks) + 1 /\ Len(chunks) \in Nat
          /\ \A k \in 1 .. Len(chunks) : chunks'[k] = chunks[k]
          /\ chunks'[Len(chunks) + 1] = <<f, PieceEnd>>
        BY <1>5, PushedPiece DEF IInv
    <2>2. ASSUME NEW k \in 1 .. Len(chunks')
          PROVE  /\ InStep(chunks'[k][1], chunks'[k][2])
                 /\ EndsWell(chunks'[k][1], chunks'[k][2])
        <3>1. CASE k \in 1 .. Len(chunks)
            BY <1>1, <2>1, <3>1
        <3>2. CASE k = Len(chunks) + 1
            <4>1. chunks'[k][1] = f /\ chunks'[k][2] = PieceEnd
                BY <2>1, <3>2
            <4> QED
                BY <1>5, <4>1, PieceRuns
        <3> QED
            BY <2>1, <2>2, <3>1, <3>2
    <2>3. CASE PieceEnd = to
        BY <1>1, <1>5, <2>2, <2>3 DEF PushPiece
    <2>4. CASE PieceEnd # to
        BY <1>1, <1>5, <2>2, <2>4, PieceRuns DEF PushPiece
    <2> QED
        BY <2>3, <2>4
<1>6. CASE UNCHANGED vars
    BY <1>1, <1>6 DEF vars
<1> QED
    BY <1>2, <1>3, <1>4, <1>5, <1>6 DEF Next

LEMMA InitRuns == Init => Runs
<1> SUFFICES ASSUME Init PROVE Runs
    OBVIOUS
<1>1. call.head \in Nat
    BY CallType DEF Init
<1>2. 0 - 1 \notin missing
    BY <1>1 DEF missing, Missing
<1> QED
    BY <1>2 DEF Init, Runs

\* Two runs that share a block start at the same block.
LEMMA OneStart ==
    ASSUME IInv, NEW g \in Nat, NEW h \in Nat, NEW c \in Nat, g <= c, h <= c,
           RunStart(g), RunStart(h), g .. c \subseteq missing, h .. c \subseteq missing
    PROVE  g = h
<1>1. g < h => h - 1 \in g .. c
    OBVIOUS
<1>2. h < g => g - 1 \in h .. c
    OBVIOUS
<1> QED
    BY <1>1, <1>2 DEF RunStart

\* Two pieces that share a block are the same piece.
LEMMA OnePiece ==
    ASSUME IInv,
           NEW a \in Nat, NEW b \in Nat, a <= b, InStep(a, b), EndsWell(a, b),
           NEW x \in Nat, NEW y \in Nat, x <= y, InStep(x, y), EndsWell(x, y),
           a <= x, x <= b
    PROVE  a = x /\ b = y
<1>1. PICK g \in 0 .. a :
        RunStart(g) /\ g .. b \subseteq missing /\ (a - g) % call.size = 0
    BY DEF InStep
<1>2. PICK h \in 0 .. x :
        RunStart(h) /\ h .. y \subseteq missing /\ (x - h) % call.size = 0
    BY DEF InStep
<1>3. g = h
    <2>1. g .. x \subseteq missing /\ h .. x \subseteq missing
        <3>1. g .. x \subseteq g .. b /\ h .. x \subseteq h .. y
            OBVIOUS
        <3> QED
            BY <1>1, <1>2, <3>1
    <2>2. g <= x /\ h <= x /\ RunStart(g) /\ RunStart(h)
        BY <1>1, <1>2
    <2> QED
        BY <2>1, <2>2, OneStart
<1>4. b <= a + call.size - 1 /\ y <= x + call.size - 1
    BY Sizes DEF EndsWell
<1>5. a = x
    <2>1. /\ a - g \in Nat /\ x - g \in Nat /\ a - g <= x - g
          /\ x - g < (a - g) + call.size
        BY <1>3, <1>4, Sizes
    <2>2. (a - g) % call.size = 0 /\ (x - g) % call.size = 0
        BY <1>1, <1>2, <1>3
    <2>3. a - g = x - g
        BY <2>1, <2>2, Sizes, SameMultiple
    <2> QED
        BY <2>3
<1>6. ~(b < y)
    <2> SUFFICES ASSUME b < y PROVE FALSE
        OBVIOUS
    <2>1. b < a + call.size - 1
        BY <1>4, <1>5, Sizes
    <2>2. b + 1 \notin missing
        BY <2>1, Sizes DEF EndsWell
    <2>3. b + 1 \in h .. y
        OBVIOUS
    <2> QED
        BY <1>2, <2>2, <2>3
<1>7. ~(y < b)
    <2> SUFFICES ASSUME y < b PROVE FALSE
        OBVIOUS
    <2>1. y < x + call.size - 1
        BY <1>4, <1>5, Sizes
    <2>2. y + 1 \notin missing
        BY <2>1, Sizes DEF EndsWell
    <2>3. y + 1 \in g .. b
        BY <1>3
    <2> QED
        BY <1>1, <2>2, <2>3
<1> QED
    BY <1>5, <1>6, <1>7

\* The ranges of the definition, in the words of the loop invariant.
LEMMA GapRange ==
    ASSUME IInv, NEW r \in missing \X missing
    PROVE  r \in GapRanges(call.head, Present, call.size) <=>
             /\ r[1] <= r[2] /\ InStep(r[1], r[2]) /\ EndsWell(r[1], r[2])
<1>1. /\ r[1] \in Nat /\ r[2] \in Nat
      /\ r[1] + call.size - 1 = r[1] + (call.size - 1)
    BY Positions
<1>2. r \in GapRanges(call.head, Present, call.size) <=>
        /\ r[1] <= r[2] /\ Span(r) \subseteq missing
        /\ InStep(r[1], r[2]) /\ EndsWell(r[1], r[2])
    BY DEF GapRanges, missing, InStep, RunStart, EndsWell
<1>3. InStep(r[1], r[2]) => Span(r) \subseteq missing
    BY <1>1 DEF InStep, Span
<1> QED
    BY <1>2, <1>3

LEMMA RunsAreGapRanges ==
    ASSUME IInv, Runs, pc = "done", Ascending(call.existing), call.head < U64Max
    PROVE  {chunks[k] : k \in 1 .. Len(chunks)}
              = GapRanges(call.head, Present, call.size)
<1>1. \A k \in 1 .. Len(chunks) :
        /\ chunks[k] \in Nat \X Nat /\ chunks[k] = <<chunks[k][1], chunks[k][2]>>
        /\ chunks[k][1] \in Nat /\ chunks[k][2] \in Nat /\ chunks[k][1] <= chunks[k][2]
        /\ InStep(chunks[k][1], chunks[k][2]) /\ EndsWell(chunks[k][1], chunks[k][2])
    BY CallType, SMTT(30) DEF IInv, TypeOK, Shape, PiecesAscend, Runs
<1>2. ASSUME NEW k \in 1 .. Len(chunks)
      PROVE  chunks[k] \in GapRanges(call.head, Present, call.size)
    <2>1. chunks[k][1] .. chunks[k][2] \subseteq missing
        BY <1>1 DEF InStep
    <2>2. chunks[k] \in missing \X missing
        BY <1>1, <2>1
    <2> QED
        BY <1>1, <2>2, GapRange
<1>3. ASSUME NEW r \in GapRanges(call.head, Present, call.size)
      PROVE  \E k \in 1 .. Len(chunks) : r = chunks[k]
    <2>1. r \in missing \X missing
        BY DEF GapRanges, missing
    <2>2. /\ r = <<r[1], r[2]>> /\ r[1] \in missing
          /\ r[1] \in Nat /\ r[2] \in Nat /\ r[1] <= r[2]
          /\ InStep(r[1], r[2]) /\ EndsWell(r[1], r[2])
        BY <2>1, GapRange, Positions
    <2>3. Covered(r[1])
        BY <2>2, Positions DEF IInv, Coverage
    <2>4. PICK k \in 1 .. Len(chunks) : r[1] \in Span(chunks[k])
        BY <2>3 DEF Covered
    <2>5. chunks[k][1] <= r[1] /\ r[1] <= chunks[k][2]
        BY <1>1, <2>2, <2>4 DEF Span
    <2>6. chunks[k][1] = r[1] /\ chunks[k][2] = r[2]
        BY <1>1, <2>2, <2>5, OnePiece
    <2> QED
        BY <1>1, <2>2, <2>6
<1> QED
    BY <1>2, <1>3

\* The pieces are the maximal runs of missing blocks, each cut from its start, and
\* nothing else: the set Indexer seeds its queue with, for the ascending input the
\* contract asks for and a head below u64::MAX (split_gaps_into_chunks).
THEOREM GapRangesComputed == Spec => []ComputesGapRanges
<1>1. Spec => [](IInv /\ Runs)
    <2>1. Init => IInv /\ Runs
        BY InitIInv, InitRuns
    <2>2. IInv /\ [Next]_vars => IInv'
        BY TypeStep, ShapeStep, CoverageStep, ExactnessStep DEF IInv
    <2>3. (IInv /\ Runs) /\ [Next]_vars => (IInv /\ Runs)'
        BY <2>2, RunsStep
    <2> QED
        BY <2>1, <2>3, PTL DEF Spec
<1>2. IInv /\ Runs => ComputesGapRanges
    BY RunsAreGapRanges DEF ComputesGapRanges
<1> QED
    BY <1>1, <1>2, PTL
=============================================================================
