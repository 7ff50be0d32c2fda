----------------------------- MODULE BlockRows -----------------------------
(***************************************************************************)
(* What one block contains and the rows the program makes of it, twice:    *)
(* the RPC mappers (src/src/data/rpc/mappers) build them from the node at  *)
(* every request, the projections (src/src/indexer/projections) write them *)
(* once to Postgres, from where the queries                                *)
(* (src/src/data/indexed/queries) read them back.                          *)
(*                                                                         *)
(* A block body is a record [xts, evs, slot, validators, weights, limit].  *)
(*   xts: a sequence of extrinsics [pallet, signer]; extrinsic i of the    *)
(*        chain is xts[i + 1].  The signer is an account, NoSigner for an  *)
(*        inherent, or Foreign for an address that is not a plain          *)
(*        account id (MultiAddress::Index, Raw, ...).                      *)
(*   evs: a sequence of events [phase, name, who, to, amount]; the phase   *)
(*        is the index of an extrinsic, Opening or Closing.                *)
(*   slot: the Aura slot of its header, or NoSlot; validators: those of    *)
(*        the session.                                                     *)
(*   weights: consumed by the three dispatch classes; limit: the maximum   *)
(*        of the runtime.                                                  *)
(***************************************************************************)
EXTENDS Integers, Sequences, SequencesExt, FiniteSets

CONSTANT MaxU64        \* the largest u64, 2 * k + 1

ASSUME BlockRowsAssumption == MaxU64 \in Nat /\ MaxU64 % 2 = 1

NoSigner == "none"
NoSlot == -1
Unknown == "unknown"   \* the author of a block without one
Foreign == "foreign"
Opening == -1          \* Phase::Initialization
Closing == -2          \* Phase::Finalization

Indices(seq) == 0 .. Len(seq) - 1
At(seq, i) == seq[i + 1]

(***************************************************************************)
(* Shared by both paths: the events of one extrinsic, in chain order, and  *)
(* what they say of its outcome.  The last fee event wins; an extrinsic    *)
(* without a failure event succeeded.                                      *)
(***************************************************************************)
InOrder(numbers) ==
  [j \in 1 .. Cardinality(numbers) |->
     CHOOSE k \in numbers : Cardinality({l \in numbers : l < k}) = j - 1]

EventsOf(body, i) ==
  LET own == InOrder({k \in DOMAIN body.evs : body.evs[k].phase = i})
  IN  [j \in DOMAIN own |-> body.evs[own[j]]]

Fails(evs) == \E e \in Range(evs) : e.name = "ExtrinsicFailed"

FeeIn(evs) ==
  FoldLeft(LAMBDA fee, e : IF e.name = "TransactionFeePaid" THEN e.amount ELSE fee,
           0, evs)

Saturate(n) == IF n > MaxU64 THEN MaxU64 ELSE n
SaturatingSum(weights) == FoldLeft(LAMBDA sum, w : Saturate(sum + w), 0, weights)

\* The consumed weight, and its share of the limit in percent, at most 100.
FetchWeights(body) ==
  LET total == SaturatingSum(body.weights)
      share == IF body.limit = 0 THEN 0 ELSE Saturate(100 * total) \div body.limit
  IN  [ref_time |-> total, pct |-> IF share > 100 THEN 100 ELSE share]

AuthorFromSlot(slot, validators) == validators[(slot % Len(validators)) + 1]

HasAuthor(body) == body.slot # NoSlot /\ body.validators # << >>

(***************************************************************************)
(* The RPC mappers.                                                        *)
(***************************************************************************)
MappedSigner(x) == IF x.signer = Foreign THEN NoSigner ELSE x.signer

MapExtrinsic(body, i) ==
  LET x == At(body.xts, i)
      evs == EventsOf(body, i)
  IN  [index |-> i, pallet |-> x.pallet, signed |-> x.signer # NoSigner,
       signer |-> MappedSigner(x), failed |-> Fails(evs), fee |-> FeeIn(evs),
       events |-> [j \in DOMAIN evs |-> evs[j].name]]

ResolveAuthor(body) ==
  IF HasAuthor(body) THEN AuthorFromSlot(body.slot, body.validators) ELSE Unknown

MapBlock(body, n, finalizedHead) ==
  LET weights == FetchWeights(body)
  IN  [number |-> n, finalized |-> n <= finalizedHead, author |-> ResolveAuthor(body),
       extrinsic_count |-> Len(body.xts), event_count |-> Len(body.evs),
       ref_time |-> weights.ref_time, pct |-> weights.pct]

PhaseToDomain(e) == e.phase

MapBlockEvents(body) ==
  {[index |-> j, phase |-> PhaseToDomain(At(body.evs, j)), name |-> At(body.evs, j).name] :
     j \in Indices(body.evs)}

\* A transfer outside any extrinsic has no extrinsic to link to.
MapTransfers(body) ==
  {[event |-> j, from |-> At(body.evs, j).who, to |-> At(body.evs, j).to,
    amount |-> At(body.evs, j).amount,
    extrinsic |-> MapExtrinsic(body, At(body.evs, j).phase).index] :
     j \in {k \in Indices(body.evs) : /\ At(body.evs, k).name = "Transfer"
                                      /\ At(body.evs, k).phase \in Indices(body.xts)}}

(***************************************************************************)
(* The projections.  Inherents and foreign addresses store no signer.      *)
(***************************************************************************)
ProjectSigner(x) == IF x.signer = Foreign THEN NoSigner ELSE x.signer

ProjectExtrinsic(body, i) ==
  LET x == At(body.xts, i)
      evs == EventsOf(body, i)
  IN  [idx |-> i, pallet |-> x.pallet, signer |-> ProjectSigner(x),
       success |-> ~ Fails(evs), fee |-> FeeIn(evs)]

EncodePhase(e) ==
  IF e.phase \in Nat THEN [kind |-> 0, idx |-> e.phase]
  ELSE [kind |-> IF e.phase = Closing THEN 1 ELSE 2, idx |-> -1]

ProjectEvents(body) ==
  {[idx |-> j, phase |-> EncodePhase(At(body.evs, j)), variant |-> At(body.evs, j).name] :
     j \in Indices(body.evs)}

\* A u64 bound to a signed column: the upper half turns negative.
Signed(n) == IF n > MaxU64 \div 2 THEN n - MaxU64 - 1 ELSE n

ProjectBlock(body, n) ==
  LET weights == FetchWeights(body)
  IN  [num |-> n, author |-> IF HasAuthor(body) THEN ResolveAuthor(body) ELSE NoSigner,
       extrinsic_count |-> Len(body.xts), event_count |-> Len(body.evs),
       ref_time |-> Signed(weights.ref_time), ref_time_pct |-> weights.pct]

\* Events with two movements, one per side; a gain and a loss, one movement.
TwoSided == {"Transfer", "TransferAndHold", "TransferOnHold"}
Gains == {"Deposit", "Reserved", "Minted", "Frozen", "Locked", "Held", "Endowed",
          "Restored"}
Losses == {"Withdraw", "Slashed", "Unreserved", "ReserveRepatriated", "Burned", "Thawed",
           "Unlocked", "Released", "BurnedHeld", "DustLost", "Suspended",
           "TransactionFeePaid"}
Unmoved == {"BalanceSet", "Upgraded"}

Movement(j, account, kind, delta, counterparty) ==
  [event |-> j, account |-> account, kind |-> kind, delta |-> delta,
   counterparty |-> counterparty]

\* The rows of event j in the order they are inserted.
MovementsOf(e, j) ==
  IF e.name \in TwoSided
  THEN << Movement(j, e.who, e.name, -e.amount, e.to),
          Movement(j, e.to, e.name, e.amount, e.who) >>
  ELSE IF e.name \in Gains THEN << Movement(j, e.who, e.name, e.amount, NoSigner) >>
  ELSE IF e.name \in Losses THEN << Movement(j, e.who, e.name, -e.amount, NoSigner) >>
  ELSE << >>

\* The primary key is (event, account) and a conflicting row is not inserted:
\* of two rows of one event for one account the first stays.
KeepFirst(rows) ==
  {rows[k] : k \in {m \in DOMAIN rows :
                      \A l \in 1 .. m - 1 : rows[l].account # rows[m].account}}

ProjectMovements(body) ==
  UNION {KeepFirst(MovementsOf(At(body.evs, j), j)) : j \in Indices(body.evs)}

\* The sender's side of a transfer only.
FaultyTouchedBy(e) ==
  IF e.name \in TwoSided \cup Gains \cup Losses \cup Unmoved THEN {e.who} ELSE {}

\* The accounts whose balance is read again after the block.
TouchedBy(e) ==
  IF e.name \in TwoSided THEN {e.who, e.to}
  ELSE IF e.name \in Gains \cup Losses \cup Unmoved THEN {e.who}
  ELSE {}

CollectTouched(body) ==
  UNION {TouchedBy(e) : e \in Range(body.evs)}
    \cup ({ProjectSigner(x) : x \in Range(body.xts)} \ {NoSigner})

(***************************************************************************)
(* The queries: rows of one block read back in the shape the mappers give. *)
(***************************************************************************)
RowToBlock(body, n) ==
  LET row == ProjectBlock(body, n)
  IN  [number |-> row.num, finalized |-> TRUE,
       author |-> IF row.author = NoSigner THEN Unknown ELSE row.author,
       extrinsic_count |-> row.extrinsic_count, event_count |-> row.event_count,
       ref_time |-> IF row.ref_time < 0 THEN 0 ELSE row.ref_time,
       pct |-> row.ref_time_pct]

RowToExtrinsic(body, i) ==
  LET row == ProjectExtrinsic(body, i)
      own == {r \in ProjectEvents(body) : r.phase = [kind |-> 0, idx |-> i]}
      order == [j \in 1 .. Cardinality(own) |->
                  CHOOSE r \in own : Cardinality({s \in own : s.idx < r.idx}) = j - 1]
  IN  [index |-> row.idx, pallet |-> row.pallet, signed |-> row.signer # NoSigner,
       signer |-> row.signer, failed |-> ~ row.success, fee |-> row.fee,
       events |-> [j \in DOMAIN order |-> order[j].variant]]

RowToTransfer(body, m, i) ==
  [event |-> m.event, from |-> m.account, to |-> m.counterparty, amount |-> -m.delta,
   extrinsic |-> ProjectExtrinsic(body, i).idx]

\* The receiver's movements as well: each transfer twice.
FaultyReadTransfers(body) ==
  {RowToTransfer(body, m, (CHOOSE r \in ProjectEvents(body) : r.idx = m.event).phase.idx) :
     m \in {n \in ProjectMovements(body) :
              /\ n.kind = "Transfer"
              /\ \E r \in ProjectEvents(body) :
                   r.idx = n.event /\ r.phase.idx \in Indices(body.xts)}}

\* The join of the sender's movements with events and extrinsics.
ReadTransfers(body) ==
  {RowToTransfer(body, m, (CHOOSE r \in ProjectEvents(body) : r.idx = m.event).phase.idx) :
     m \in {n \in ProjectMovements(body) :
              /\ n.kind = "Transfer"
              /\ n.delta < 0
              /\ \E r \in ProjectEvents(body) :
                   r.idx = n.event /\ r.phase.idx \in Indices(body.xts)}}

(***************************************************************************)
(* A body that Postgres stores as it is: its weight fits the signed        *)
(* column, and no author goes by the name of none.  Amounts are naturals.  *)
(***************************************************************************)
Storable(body) ==
  /\ FetchWeights(body).ref_time \in 0 .. MaxU64 \div 2
  /\ HasAuthor(body) => ResolveAuthor(body) # NoSigner
  /\ \A e \in Range(body.evs) : e.name = "Transfer" => e.amount \in Nat

=============================================================================
