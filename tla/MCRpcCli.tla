------------------------------ MODULE MCRpcCli ------------------------------
(* Instances of RpcCli for TLC. *)
EXTENDS RpcCli
=============================================================================
