--------------------------- MODULE MCHttpServer ----------------------------
(***************************************************************************)
(* Instances of QJsonRpcHttpServer: two connections and two requests.      *)
(***************************************************************************)
EXTENDS QJsonRpcHttpServer, TLC

CONSTANTS sk1, sk2, rq1, rq2

MCSockets == {sk1, sk2}
MCRequests == {rq1, rq2}
Interchangeable == Permutations(MCSockets) \cup Permutations(MCRequests)

Accepted(body) == [head |-> "accepted", body |-> body]
Preflight == [head |-> "options", body |-> "empty"]
Refused == [head |-> "refused", body |-> "call"]

\* A call in two pieces, and white space.
MCFragments == {"opening", "closing", "blank"}
MCJoined ==
  (<<"opening", "closing">> :> "call") @@ (<<"blank", "call">> :> "call") @@ (<<"call", "blank">> :> "call")

MCPosts ==
  {Accepted("call"), Accepted("badNotification"), Accepted("notification"),
   Accepted("opening"), Accepted("closing"), Accepted("blank"),
   Accepted("empty"), Preflight, Refused}
=============================================================================
