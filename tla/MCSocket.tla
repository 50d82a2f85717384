----------------------------- MODULE MCSocket ------------------------------
(***************************************************************************)
(* Instances of QJsonRpcSocket: one asynchronous and two blocking calls,   *)
(* the least with which a blocking call can nest in another while a third  *)
(* reply is pending.                                                       *)
(***************************************************************************)
EXTENDS QJsonRpcSocket, TLC

CONSTANTS k1, k2, k3

MCCalls == {k1, k2, k3}
MCBlocking == {k2, k3}
MCIds == 1..3

\* One message is sent by a blocking call and again by another, inside the first
\* or once it has timed out; the asynchronous call's is its own.
RetriedIds == (k1 :> 1) @@ (k2 :> 2) @@ (k3 :> 2)

\* Duplicates of the answers, a message, a batch and a document that does not parse.
AnyDocs == {AnswerDoc(i) : i \in {1, 2}} \cup OtherDocs
=============================================================================
