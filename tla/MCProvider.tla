----------------------------- MODULE MCProvider -----------------------------
(***************************************************************************)
(* An instance of QJsonRpcServiceProvider by itself: two clients and two    *)
(* requests.  (MCHttpServer checks the provider under the HTTP server,      *)
(* MCTcpServer under the TCP server.)                                       *)
(***************************************************************************)
EXTENDS QJsonRpcServiceProvider, TLC

CONSTANTS sk1, sk2, rq1, rq2

MCSockets == {sk1, sk2}
MCRequests == {rq1, rq2}

\* No definition tells one socket, or one request, from another.
Interchangeable == Permutations(MCSockets) \cup Permutations(MCRequests)
=============================================================================
