--------------------------- MODULE MCHttpClient ----------------------------
(***************************************************************************)
(* An instance of QJsonRpcHttpClient: an asynchronous request, a blocking  *)
(* request and a blocking notification.                                    *)
(***************************************************************************)
EXTENDS QJsonRpcHttpClient

CONSTANTS k1, k2, k3

MCCalls == {k1, k2, k3}
MCBlocking == {k2, k3}
MCNotifying == {k3}
=============================================================================
