---------------------------- MODULE MCTcpServer ----------------------------
(***************************************************************************)
(* Instances of QJsonRpcTcpServer: two connections and two requests, enough *)
(* for a client to leave while the other is being served in a nested loop,  *)
(* and for one client to have a second message behind the first.            *)
(***************************************************************************)
EXTENDS QJsonRpcTcpServer, TLC

CONSTANTS sk1, sk2, rq1, rq2

MCSockets == {sk1, sk2}
MCRequests == {rq1, rq2}

\* A method that answers, one that does not, an error, and nothing at all.
MCSentKinds == {"call", "notification", "badCall", "response"}
=============================================================================
