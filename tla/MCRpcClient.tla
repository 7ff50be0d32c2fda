----------------------------- MODULE MCRpcClient -----------------------------
(***************************************************************************)
(* Two API handlers and the watcher over one endpoint.                     *)
(***************************************************************************)
EXTENDS RpcClient

CONSTANTS p1, p2, c1, c2, c3

=============================================================================
