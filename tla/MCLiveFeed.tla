------------------------------ MODULE MCLiveFeed ------------------------------
(***************************************************************************)
(* One browser session, subscribing twice; one block, emitted twice.       *)
(***************************************************************************)
EXTENDS LiveFeed

CONSTANTS s1, e1, e2, e3, f1, f2

===============================================================================
