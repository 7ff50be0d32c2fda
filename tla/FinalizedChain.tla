--------------------------- MODULE FinalizedChain ---------------------------
(***************************************************************************)
(* The finalized part of one chain, as the Substrate node behind           *)
(* RpcClient serves it.  The node is outside the repository: this module   *)
(* records only what the indexer reads from it, block by block.            *)
(*                                                                         *)
(* A finalized block never changes, so everything the indexer fetches for  *)
(* a block number is a constant function of that number.                   *)
(***************************************************************************)
EXTENDS Integers

CONSTANTS
    MaxBlock,   \* bound: the highest block the bounded chain ever finalizes
    Accounts,   \* the accounts of the chain
    Touched,    \* Touched[b]: accounts named by b's balance events or signers
    Endowed,    \* accounts of the genesis System::Account table
    Free,       \* Free[b][a]: free balance in System::Account at block b
    Nonce,      \* Nonce[b][a]: nonce in System::Account at block b
    AtsIds,     \* ids the Ats pallet hands out
    Created,    \* Created[b]: ids of the Ats.AtsCreated events of b
    Updated,    \* Updated[b]: pairs <<id, version>> of its Ats.AtsUpdated events
    Revoked     \* Revoked[b]: ids of its Ats.AtsRevoked events

Blocks == 0 .. MaxBlock

\* A block holds finitely many events: its updates of one ATS have a newest.
HasNewest(updates) ==
    updates # {} => \E u \in updates : \A v \in updates : v[2] <= u[2]

ASSUME ChainTypes ==
    /\ MaxBlock \in Nat
    /\ Touched \in [Blocks -> SUBSET Accounts]
    /\ Endowed \in SUBSET Accounts
    /\ Free \in [Blocks -> [Accounts -> Nat]]
    /\ Nonce \in [Blocks -> [Accounts -> Nat]]
    /\ Created \in [Blocks -> SUBSET AtsIds]
    /\ \A b \in Blocks : \A u \in Updated[b] :
            /\ u[1] \in AtsIds
            /\ u[2] \in Nat \ {0}
            /\ u = <<u[1], u[2]>>
    /\ \A b \in Blocks, i \in AtsIds : HasNewest({u \in Updated[b] : u[1] = i})
    /\ Revoked \in [Blocks -> SUBSET AtsIds]

(***************************************************************************)
(* The premise of the snapshot pipeline (projections/accounts.rs): a block *)
(* that changes an account names it in an event or a signature, and the    *)
(* accounts that exist at block 0 are the ones the genesis walk returns.   *)
(***************************************************************************)
ASSUME TouchedCoversChanges ==
    /\ \A a \in Accounts \ Endowed : Free[0][a] = 0
    /\ \A b \in Blocks \ {0}, a \in Accounts :
            Free[b][a] # Free[b - 1][a] => a \in Touched[b]
=============================================================================
