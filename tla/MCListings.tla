----------------------------- MODULE MCListings ----------------------------
(* Instances of Listings for TLC. *)
EXTENDS Listings

X(p, s) == [pallet |-> p, signer |-> s]
E(p, nm, w, t, a) == [phase |-> p, name |-> nm, who |-> w, to |-> t, amount |-> a]

Validators == <<"v", "w", "x">>
B(xts, evs, slot, weights) ==
  [xts |-> xts, evs |-> evs, slot |-> slot, validators |-> Validators,
   weights |-> weights, limit |-> 50]

Set == X("Timestamp", NoSigner)
Fee(p, w, a) == E(p, "TransactionFeePaid", w, NoSigner, a)

\* Genesis; a block whose second extrinsic transfers twice and pays a
\* fee, before a transfer of the runtime itself; a block with a failing
\* extrinsic and a transfer of nothing.
Genesis == [B(<< >>, << >>, NoSlot, <<0, 0, 0>>) EXCEPT !.validators = << >>]
Busy == B(<<Set, X("Balances", "a")>>,
          <<E(1, "Transfer", "a", "b", 5), E(1, "Transfer", "b", "a", 2),
                   Fee(1, "a", 1), Fee(1, "a", 3), E(Closing, "Transfer", "b", "a", 1)>>,
          7, <<20, 5, 3>>)
Failing == B(<<Set, X("Balances", "b"), X("Sudo", Foreign)>>,
             <<E(Opening, "Released", "a", NoSigner, 4),
                      E(1, "ExtrinsicFailed", NoSigner, NoSigner, 0),
                      E(2, "Transfer", "a", "c", 1),
                      E(2, "Transfer", "a", "b", 0)>>,
             NoSlot, <<40, 10, 3>>)

ToChain(bodies) == [n \in 0 .. MaxBlock |-> bodies[n + 1]]
MCChains == {ToChain(<<Genesis, Busy, Failing, Busy>>)}

ASSUME BodiesAreStorable == ChainsAreStorable

MCLists ==
  ({"blocks"} \X {"rpc", "indexed"} \X {"all", "final", "pending", "busy"})
    \cup ({"extrinsics"} \X {"rpc", "indexed"} \X {"all", "signed", "unsigned", "timestamp"})
    \cup ({"transfers"} \X {"rpc", "indexed"} \X {"all", "from a"})
    \cup ({"events"} \X {"rpc"} \X {"all", "failed"})
=============================================================================
