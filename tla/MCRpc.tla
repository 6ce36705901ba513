------------------------------- MODULE MCRpc --------------------------------
(***************************************************************************)
(* Every kind of call, with bounds that keep each kind's share of the      *)
(* state space alike: a request or a response can be queued behind the     *)
(* operation before it in all of them, and two responses can be under way  *)
(* where only one side streams.                                            *)
(***************************************************************************)
EXTENDS RpcProtocol

PerKind(unary, server_streaming, client_streaming, bidi) ==
  [k \in KindSet |->
     CASE k = "unary" -> unary
       [] k = "server_streaming" -> server_streaming
       [] k = "client_streaming" -> client_streaming
       [] k = "bidi" -> bidi]

MCNumRequests == PerKind(0, 0, 2, 1)
MCNumResponses == PerKind(2, 2, 2, 1)
MCDemands == PerKind({0, 1, Unbounded}, {0, 1, Unbounded}, {0, 1, Unbounded}, {1})
=============================================================================
