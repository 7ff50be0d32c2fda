------------------------------ MODULE MCIndexer ------------------------------
(***************************************************************************)
(* A four-block chain for TLC: one account endowed at genesis, spending at *)
(* blocks 1 and 3, and one account created at block 1 and reaped at block  *)
(* 2, where System::Account falls back to a zero nonce.                    *)
(***************************************************************************)
EXTENDS Indexer, TLC

CONSTANTS alice, bob, w1, w2

MCAccounts == {alice, bob}
MCTouched == [b \in 0 .. MaxBlock |->
    CASE b = 1 -> {alice, bob} [] b = 2 -> {bob} [] b = 3 -> {alice}
      [] OTHER -> {}]
MCFree == [b \in 0 .. MaxBlock |-> [a \in MCAccounts |->
    IF a = alice THEN CASE b = 0 -> 9 [] b \in {1, 2} -> 6 [] OTHER -> 5
    ELSE IF b = 1 THEN 3 ELSE 0]]
MCNonce == [b \in 0 .. MaxBlock |-> [a \in MCAccounts |->
    IF a = alice THEN CASE b = 0 -> 0 [] b \in {1, 2} -> 1 [] OTHER -> 2
    ELSE IF b = 1 THEN 1 ELSE 0]]
MCNoAts == [b \in 0 .. MaxBlock |-> {}]

\* One ATS: created at genesis, updated by every later block but the last,
\* which revokes it.
CONSTANT ats
MCCreated == [b \in 0 .. MaxBlock |-> IF b = 0 THEN {ats} ELSE {}]
MCUpdated == [b \in 0 .. MaxBlock |->
    IF b \in 1 .. MaxBlock - 1 THEN {<<ats, b>>} ELSE {}]
MCRevoked == [b \in 0 .. MaxBlock |-> IF b = MaxBlock THEN {ats} ELSE {}]
MCEmpty == [b \in 0 .. MaxBlock |-> [a \in {} |-> 0]]

MCSymmetry == Permutations({w1, w2})
=============================================================================
