---------------------------- MODULE MCRpcServer ----------------------------
(* Two daemons on one database and socket, a tool call that submits and one *)
(* that polls.                                                              *)
EXTENDS RpcServer

MCPlan == [spawn |-> <<"submit", "status">>, poll |-> <<"poll">>]
=============================================================================
