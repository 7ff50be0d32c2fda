------------------------------ MODULE MCLedger ------------------------------
(***************************************************************************)
(* A three-block chain for TLC: account 1 is endowed and spends at block   *)
(* 1, account 2 appears at block 1, the richer one, and is reaped at       *)
(* block 2, where its nonce reads 0 again.                                 *)
(***************************************************************************)
EXTENDS Ledger, TLC

MCTouched == (0 :> {}) @@ (1 :> {1, 2}) @@ (2 :> {2})
MCEndowed == {1}
MCFree == (0 :> <<2, 0>>) @@ (1 :> <<1, 5>>) @@ (2 :> <<1, 0>>)
MCNonce == (0 :> <<0, 0>>) @@ (1 :> <<1, 1>>) @@ (2 :> <<1, 0>>)
MCNone == [b \in 0 .. MaxBlock |-> {}]
=============================================================================
