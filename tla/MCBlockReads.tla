----------------------------- MODULE MCBlockReads -----------------------------
(***************************************************************************)
(* Two handlers over genesis and two blocks, one re-organisation.          *)
(***************************************************************************)
EXTENDS BlockReads

CONSTANTS r1, r2

=============================================================================
