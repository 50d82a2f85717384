------------------------ MODULE QJsonRpcHttpClient -------------------------
(***************************************************************************)
(* QJsonRpcHttpClient and QJsonRpcHttpReply                                *)
(* (src/src/qjsonrpchttpclient.cpp): a network reply of its own for every  *)
(* call, whose signals set the response and complete the reply, under      *)
(* blocking calls in nested event loops, owners that delete their replies  *)
(* at any time, and a client that may be destroyed.                        *)
(*                                                                         *)
(* As in module QJsonRpcSocket there is one thread, and `stack` holds the  *)
(* functions in which application code or an event loop may run.           *)
(***************************************************************************)
EXTENDS Naturals, Sequences

CONSTANTS
  Calls,          \* the calls the application makes
  Blocking,       \* those made with sendMessageBlocking
  Notifying,      \* those whose message is a notification
  OwnsManager,    \* whether the client created its QNetworkAccessManager
  NoBody          \* a model value

ASSUME ClientAssumption ==
  /\ Blocking \subseteq Calls /\ Notifying \subseteq Calls
  /\ OwnsManager \in BOOLEAN

\* What the server sends: a message with the call's id, another message, an
\* object that is no message but has the call's id, another such object, or what
\* is no JSON object or an empty one.
Messages == {"own", "stray"}
Objects == Messages \cup {"ownJunk", "junk"}
Bodies == Objects \cup {"garbage"}

ASSUME BodyAssumption == NoBody \notin Bodies

VARIABLES
  client,      \* the QJsonRpcHttpClient exists
  reply,       \* reply[c]: the QJsonRpcHttpReply is "none", "alive" or "deleted"
  network,     \* network[c]: the QNetworkReply is "none", "running", "failed"
               \* (errorOccurred was emitted), "finished", "doomed" (to be
               \* deleted later) or "deleted"
  failed,      \* calls whose network reply has reported an error
  response,    \* response[c]: what d->response was set to: one of Objects, an
               \* "error" made by the client, or "none"
  finished,    \* finished[c]: how often finished was emitted
  quit,        \* blocking calls whose event loop was told to quit
  result,      \* result[c]: what a blocking call returned
  stack,       \* the functions that wait for application code, innermost first
  wrecked      \* a null or deleted reply has been used

vars == <<client, reply, network, failed, response, finished, quit, result, stack, wrecked>>

\* sendMessageBlocking in exec(); the slots of messageReceived, emitted by
\* networkReplyFinished and by networkReplyError; those of finished.
Frames == [at : {"wait", "received", "failing", "finished"}, call : Calls, body : Objects \cup {NoBody}]

\* Types; among them that a reply emits finished once at most, whatever its
\* network reply reports (issue 23: an error is followed by finished).
ClientTypeOK ==
  /\ {client, wrecked} \subseteq BOOLEAN
  /\ reply \in [Calls -> {"none", "alive", "deleted"}]
  /\ network \in [Calls -> {"none", "running", "failed", "finished", "doomed", "deleted"}]
  /\ failed \subseteq Calls
  /\ response \in [Calls -> Objects \cup {"none", "error"}]
  /\ finished \in [Calls -> 0..1]
  /\ quit \subseteq Blocking
  /\ result \in [Calls -> {"none", "answer", "timeout"}]
  /\ stack \in Seq(Frames)

Init ==
  /\ client = TRUE
  /\ reply = [c \in Calls |-> "none"]
  /\ network = reply /\ response = reply /\ result = reply
  /\ failed = {} /\ quit = {}
  /\ finished = [c \in Calls |-> 0]
  /\ stack = <<>>
  /\ wrecked = FALSE

-----------------------------------------------------------------------------
Frame(at, c, body) == [at |-> at, call |-> c, body |-> body]
Push(frame) == stack' = <<frame>> \o stack
Pop == stack' = Tail(stack)

At(at) == stack # <<>> /\ Head(stack).at = at
EventLoopRunning == stack = <<>> \/ At("wait")

\* messageReceived is relayed by the client, finished comes from the reply.
ApplicationRuns ==
  EventLoopRunning \/ At("finished") \/ (client /\ (At("received") \/ At("failing")))

Waiting(c) == \E i \in DOMAIN stack : stack[i].at = "wait" /\ stack[i].call = c

-----------------------------------------------------------------------------
(* Calls. *)

\* writeMessage and the QJsonRpcHttpReply of the network reply it returns.
Post(c) ==
  /\ reply[c] = "none"
  /\ reply' = [reply EXCEPT ![c] = "alive"]
  /\ network' = [network EXCEPT ![c] = "running"]

\* sendMessage.  (Without an end point it returns 0 and changes nothing.)
SendMessage(c) ==
  /\ c \notin Blocking
  /\ ApplicationRuns /\ client
  /\ Post(c)
  /\ UNCHANGED <<client, failed, response, finished, quit, result, stack, wrecked>>

\* sendMessageBlocking up to responseLoop.exec(), which is entered without a
\* reply if there is no end point: setEndPoint may change that between any two
\* calls.
SendMessageBlocking(c, hasEndPoint) ==
  /\ c \in Blocking
  /\ ApplicationRuns /\ client
  /\ result[c] = "none" /\ ~Waiting(c)
  /\ Push(Frame("wait", c, NoBody))
  /\ IF hasEndPoint THEN Post(c) ELSE UNCHANGED <<reply, network>>
  /\ UNCHANGED <<client, failed, response, finished, quit, result, wrecked>>

RequestTimer(c) ==
  /\ EventLoopRunning
  /\ Waiting(c) /\ c \notin quit
  /\ quit' = quit \cup {c}
  /\ UNCHANGED <<client, reply, network, failed, response, finished, result, stack, wrecked>>

\* reply->response().isValid().
HasResponse(c) == response[c] \in Messages \cup {"error"}

\* sendMessageBlocking after exec().  The QScopedPointer deletes the reply, and
\* nothing aborts or deletes the network reply.
BlockingCallReturns ==
  /\ At("wait")
  /\ LET c == Head(stack).call IN
       /\ c \in quit
       /\ IF reply[c] # "alive"
          THEN wrecked' = TRUE /\ UNCHANGED <<reply, result, stack>>
          ELSE /\ result' = [result EXCEPT ![c] = IF HasResponse(c) THEN "answer" ELSE "timeout"]
               /\ reply' = [reply EXCEPT ![c] = "deleted"]
               /\ Pop
               /\ UNCHANGED wrecked
  /\ UNCHANGED <<client, network, failed, response, finished, quit>>

\* The owner of an asynchronous call's reply deletes it.
DeleteReply(c) ==
  /\ c \notin Blocking
  /\ ApplicationRuns
  /\ reply[c] = "alive"
  /\ reply' = [reply EXCEPT ![c] = "deleted"]
  /\ UNCHANGED <<client, network, failed, response, finished, quit, result, stack, wrecked>>

\* The application destroys the client, with the network access manager and its
\* replies if it is the client's, from an event handler outside their signals.
ClientDestroyed ==
  /\ client
  /\ \A i \in DOMAIN stack : stack[i].at = "wait"
  /\ client' = FALSE
  /\ network' = IF OwnsManager
                THEN [c \in Calls |-> IF network[c] = "none" THEN "none" ELSE "deleted"]
                ELSE network
  /\ UNCHANGED <<reply, failed, response, finished, quit, result, stack, wrecked>>

-----------------------------------------------------------------------------
(* The signals of the network reply. *)

\* A message in the body of a failure is the response, whatever its id.
FailureResponse(body) == IF body \in Messages THEN body ELSE "error"

\* errorOccurred, with what has come of a body; finished is left to
\* networkReplyFinished.
NetworkReplyError(c, body) ==
  /\ EventLoopRunning
  /\ network[c] = "running"
  /\ network' = [network EXCEPT ![c] = "failed"]
  /\ failed' = failed \cup {c}
  /\ IF reply[c] = "alive"
     THEN /\ response' = [response EXCEPT ![c] = FailureResponse(body)]
          /\ IF body \in Messages THEN Push(Frame("failing", c, body)) ELSE UNCHANGED stack
     ELSE UNCHANGED <<response, stack>>
  /\ UNCHANGED <<client, reply, finished, quit, result, wrecked>>

\* d->response for an object: a request's must carry its id, and need not be a
\* message.
ResponseFrom(c, body) ==
  IF c \in Notifying \/ body \in {"own", "ownJunk"} THEN body ELSE "error"

\* The end of networkReplyFinished: reply->deleteLater() and finished, whose
\* slots end a blocking call's loop or are the application's.
Complete(c, rest) ==
  /\ network' = [network EXCEPT ![c] = "doomed"]
  /\ finished' = [finished EXCEPT ![c] = @ + 1]
  /\ IF c \in Blocking
     THEN quit' = quit \cup {c} /\ stack' = rest
     ELSE stack' = <<Frame("finished", c, NoBody)>> \o rest /\ UNCHANGED quit

ErrorForgotten(c) == FALSE             \* mutant: error() is not looked at
\* reply->error() != NoError.
HasError(c) == network[c] = "failed"

\* finished of the network reply, up to the slots of messageReceived.  When the
\* QJsonRpcHttpReply is gone nothing is connected to it any more.
NetworkReplyFinished(c, body) ==
  /\ EventLoopRunning
  /\ network[c] \in {"running", "failed"}
  /\ IF reply[c] # "alive"
     THEN /\ network' = [network EXCEPT ![c] = "finished"]
          /\ UNCHANGED <<response, finished, quit, stack>>
     ELSE IF HasError(c)
          THEN Complete(c, stack) /\ UNCHANGED response
          ELSE IF body = "garbage"
               THEN /\ Complete(c, stack)
                    /\ response' = [response EXCEPT ![c] = "error"]
               ELSE /\ network' = [network EXCEPT ![c] = "finished"]
                    /\ Push(Frame("received", c, body))
                    /\ UNCHANGED <<response, finished, quit>>
  /\ UNCHANGED <<client, reply, failed, result, wrecked>>

\* The rest of it, after those slots, which may have deleted the reply.
ReceivedReturns ==
  /\ At("received")
  /\ LET c == Head(stack).call IN
       IF reply[c] = "deleted"
       THEN wrecked' = TRUE /\ UNCHANGED <<network, response, finished, quit, stack>>
       ELSE /\ response' = [response EXCEPT ![c] = ResponseFrom(c, Head(stack).body)]
            /\ Complete(c, Tail(stack))
            /\ UNCHANGED wrecked
  /\ UNCHANGED <<client, reply, failed, result>>

\* The slots of networkReplyError's messageReceived, or of finished, return:
\* nothing of the reply is used after them.
SlotsReturn ==
  /\ At("failing") \/ At("finished")
  /\ Pop
  /\ UNCHANGED <<client, reply, network, failed, response, finished, quit, result, wrecked>>

\* The event loop carries out reply->deleteLater().
NetworkReplyDeleted(c) ==
  /\ EventLoopRunning
  /\ network[c] = "doomed"
  /\ network' = [network EXCEPT ![c] = "deleted"]
  /\ UNCHANGED <<client, reply, failed, response, finished, quit, result, stack, wrecked>>

-----------------------------------------------------------------------------
CallStep(c) ==
  \/ SendMessage(c)
  \/ \E hasEndPoint \in BOOLEAN : SendMessageBlocking(c, hasEndPoint)
  \/ RequestTimer(c)
  \/ DeleteReply(c)

NetworkStep(c) ==
  \/ \E body \in Bodies : NetworkReplyError(c, body) \/ NetworkReplyFinished(c, body)
  \/ NetworkReplyDeleted(c)

Next ==
  /\ ~wrecked
  /\ \/ \E c \in Calls : CallStep(c) \/ NetworkStep(c)
     \/ BlockingCallReturns
     \/ ReceivedReturns
     \/ SlotsReturn
     \/ ClientDestroyed

Spec == Init /\ [][Next]_vars

-----------------------------------------------------------------------------
(* Properties. *)

\* What has been stored as a response stays, also when finished follows an
\* error; and a blocking call reports a timeout only if none was.
ResponseIsFinal ==
  [][\A c \in Calls : /\ HasResponse(c) => response'[c] = response[c]
                      /\ result'[c] = "timeout" => ~HasResponse(c)]_vars

\* The outcome of each call, as the abstract specification sees it.
OutcomeOf(c) ==
  CASE reply[c] = "none" -> "idle"
    [] reply[c] # "none" /\ HasResponse(c) -> "answered"
    [] reply[c] = "alive" /\ ~HasResponse(c) -> "pending"
    [] reply[c] = "deleted" /\ ~HasResponse(c) ->
         IF c \in Blocking THEN "timedOut" ELSE "abandoned"

outcome == [c \in Calls |-> OutcomeOf(c)]

RpcCalls == INSTANCE RpcCall WITH call <- outcome

\* Calls over HTTP keep what RpcCall promises.
ImplementsRpcCall == RpcCalls!Spec
=============================================================================
