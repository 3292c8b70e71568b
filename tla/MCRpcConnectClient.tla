------------------------- MODULE MCRpcConnectClient -------------------------
(* RpcConnectClient on a small instance. *)
EXTENDS RpcConnectClient, TLC

Symmetry == Permutations(ServerIds)
=============================================================================
