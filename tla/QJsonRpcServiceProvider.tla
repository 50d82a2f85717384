------------------------ MODULE QJsonRpcServiceProvider ------------------------
(***************************************************************************)
(* The answering side: QJsonRpcServiceProvider::processMessage             *)
(* (src/src/qjsonrpcserviceprovider.cpp), the part of                      *)
(* QJsonRpcService::dispatch that decides whether a request is answered    *)
(* now, and QJsonRpcServiceRequest::respond, with which a service answers  *)
(* later (src/src/qjsonrpcservice.cpp).                                    *)
(*                                                                         *)
(* One service is modelled, with the two fields every request of every     *)
(* client shares: `currentRequest` and `delayedResponse`.  Its methods run *)
(* on the thread of the sockets, one C++ frame each on `stack` (innermost  *)
(* first); a method may run a nested event loop, in which further messages *)
(* are processed.  Sockets are what processMessage and respond are handed; *)
(* whose messages arrive when, and when a socket is deleted, is decided by *)
(* the server that owns them (module QJsonRpcTcpServer) and is free here.  *)
(***************************************************************************)
EXTENDS Naturals, Sequences

CONSTANTS
  Sockets,       \* the server's ends of the connections
  Requests,      \* messages the clients send, each processed once
  NoRequest, NoSocket,
  ServiceNests,  \* whether service methods may run a nested event loop
  DelayAndNest,  \* whether one method may do that and beginDelayedResponse too
  Workers,       \* whether delayed requests are answered from other threads
  UsesResult     \* whether services answer by emitting result()

\* What a message is to processMessage: a Request or a Notification that
\* dispatch can or ("bad...") cannot call a method for, a Response, or an
\* Error or invalid message.
Calling == {"call", "badCall"}
Notifying == {"notification", "badNotification"}
Kinds == Calling \cup Notifying \cup {"response", "other"}

ASSUME ProviderAssumption ==
  /\ NoRequest \notin Requests
  /\ NoSocket \notin Sockets
  /\ {ServiceNests, DelayAndNest, Workers, UsesResult} \subseteq BOOLEAN

VARIABLES
  life,            \* life[s]: the socket is "none" (yet), "alive", "deleted"
  registered,      \* the service is in the provider's `services`
  kind, from,      \* kind[r], from[r]: what r is and the socket it came from,
                   \* once processMessage has had it
  stack,           \* frames of service methods, innermost first
  currentRequest,  \* QJsonRpcServicePrivate::currentRequest
  delayedResponse, \* QJsonRpcServicePrivate::delayedResponse
  task,            \* task[r]: a copy of r's QJsonRpcServiceRequest is "none",
                   \* "held" by the service, "checked" or "posted" by the
                   \* thread that answers it, "done", or "emitted" if its
                   \* answer was a result()
  resultTo,        \* sockets whose notify slot is connected to result()
  answers,         \* answers[r][s]: messages for r that s was told to write
  dangling         \* a deleted socket has been used

requestVars == <<kind, from>>
serviceVars == <<stack, currentRequest, delayedResponse>>
providerVars == <<life, registered, requestVars, serviceVars, task, resultTo, answers, dangling>>

\* A method that has not nested yet, is in its nested loop, or is past it; and
\* whether it has called beginDelayedResponse.
Frames == [req : Requests, at : {"fresh", "nested", "resumed"}, delays : BOOLEAN]
TaskStates == {"none", "held", "checked", "posted", "done", "emitted"}

ProviderTypeOK ==
  /\ life \in [Sockets -> {"none", "alive", "deleted"}]
  /\ registered \in BOOLEAN
  /\ kind \in [Requests -> Kinds \cup {"none"}]
  /\ from \in [Requests -> Sockets \cup {NoSocket}]
  /\ \A r \in Requests : from[r] = NoSocket <=> kind[r] = "none"
  /\ stack \in Seq(Frames)
  /\ currentRequest \in Requests \cup {NoRequest}
  /\ delayedResponse \in BOOLEAN
  /\ task \in [Requests -> TaskStates]
  /\ resultTo \subseteq Sockets
  /\ answers \in [Requests -> [Sockets -> Nat]]
  /\ dangling \in BOOLEAN

ProviderInit ==
  /\ life = [s \in Sockets |-> "none"]
  /\ registered = TRUE
  /\ kind = [r \in Requests |-> "none"]
  /\ from = [r \in Requests |-> NoSocket]
  /\ stack = <<>>
  /\ currentRequest = NoRequest
  /\ delayedResponse = FALSE
  /\ task = [r \in Requests |-> "none"]
  /\ resultTo = {}
  /\ answers = [r \in Requests |-> [s \in Sockets |-> 0]]
  /\ dangling = FALSE

-----------------------------------------------------------------------------
At(places) == stack # <<>> /\ Head(stack).at \in places

\* A service method is running; or an event loop of the sockets' thread is.
InMethod == At({"fresh", "resumed"})
InLoop == ~InMethod

\* socket->notify(message) for r on the socket s.
Tell(r, s) == answers' = [answers EXCEPT ![r][s] = @ + 1]

OnStack(r) == \E i \in DOMAIN stack : stack[i].req = r

-----------------------------------------------------------------------------
(* The sockets and the registry, as the server drives them. *)

SocketCreated(s) ==
  /\ InLoop
  /\ life[s] = "none"
  /\ life' = [life EXCEPT ![s] = "alive"]
  /\ UNCHANGED <<registered, requestVars, serviceVars, task, resultTo, answers, dangling>>

\* Sockets are deleted with deleteLater, by an event loop.
DeletionRuns == InLoop

\* The sockets of S are deleted: their connections to result() and the calls
\* posted to them go with them, and every QPointer to them becomes null.
SocketsDeleted(S) ==
  /\ life' = [s \in Sockets |-> IF s \in S /\ life[s] = "alive" THEN "deleted" ELSE life[s]]
  /\ resultTo' = resultTo \ S
  /\ task' = [r \in Requests |-> IF task[r] = "posted" /\ from[r] \in S THEN "done" ELSE task[r]]
  /\ UNCHANGED <<registered, requestVars, serviceVars, answers, dangling>>

\* addService and removeService of the one service, from the application.
AddService ==
  /\ ~registered
  /\ registered' = TRUE
  /\ UNCHANGED <<life, requestVars, serviceVars, task, resultTo, answers, dangling>>

RemoveService ==
  /\ registered
  /\ registered' = FALSE
  /\ UNCHANGED <<life, requestVars, serviceVars, task, resultTo, answers, dangling>>

-----------------------------------------------------------------------------
(* processMessage. *)

\* A message stays tied to the socket it came from.
Noted(s, r, k) ==
  /\ kind' = [kind EXCEPT ![r] = k]
  /\ from' = [from EXCEPT ![r] = s]

Received(s, r, k) ==
  /\ InLoop
  /\ life[s] = "alive"
  /\ kind[r] = "none"
  /\ Noted(s, r, k)

\* A Response, or a Notification for a service nobody knows: nothing happens.
Ignore(s, r, k) ==
  /\ k = "response" \/ (k \in Notifying /\ ~registered)
  /\ Received(s, r, k)
  /\ UNCHANGED <<life, registered, serviceVars, task, resultTo, answers, dangling>>

\* What is no request, or a Request for a service nobody knows, is answered
\* with an error.
Reject(s, r, k) ==
  /\ k = "other" \/ (k \in Calling /\ ~registered)
  /\ Received(s, r, k)
  /\ Tell(r, s)
  /\ UNCHANGED <<life, registered, serviceVars, task, resultTo, dangling>>

OutermostStays(r) ==                           \* mutant
  currentRequest' = IF stack = <<>> THEN r ELSE currentRequest
MakeCurrent(r) == currentRequest' = r

\* A Request or Notification for the service: it becomes the current request,
\* and a Request connects its socket to result(), once (UniqueConnection).
BecomesCurrent(s, r, k) ==
  /\ registered
  /\ Received(s, r, k)
  /\ MakeCurrent(r)
  /\ resultTo' = IF k \in Calling THEN resultTo \cup {s} ELSE resultTo

\* dispatch fails: no such method, no overload that takes the parameters, or
\* invokeMethod refuses.  The error is a valid message, for a Notification too.
DispatchFails(s, r, k) ==
  /\ k \in {"badCall", "badNotification"}
  /\ BecomesCurrent(s, r, k)
  /\ Tell(r, s)
  /\ UNCHANGED <<life, registered, stack, delayedResponse, task, dangling>>

\* dispatch calls the method.
CallMethod(s, r, k) ==
  /\ k \in {"call", "notification"}
  /\ BecomesCurrent(s, r, k)
  /\ stack' = <<[req |-> r, at |-> "fresh", delays |-> FALSE]>> \o stack
  /\ UNCHANGED <<life, registered, delayedResponse, task, answers, dangling>>

ProcessMessage(s, r, k) ==
  \/ Ignore(s, r, k)
  \/ Reject(s, r, k)
  \/ DispatchFails(s, r, k)
  \/ CallMethod(s, r, k)

-----------------------------------------------------------------------------
(* The methods of the service. *)

SetTop(frame) == stack' = <<frame>> \o Tail(stack)

\* The method calls beginDelayedResponse and keeps a copy of currentRequest.
BeginDelayedResponse ==
  /\ InMethod
  /\ ~Head(stack).delays
  /\ Head(stack).at = "fresh" \/ DelayAndNest
  /\ task[currentRequest] = "none"
  /\ delayedResponse' = TRUE
  /\ task' = [task EXCEPT ![currentRequest] = "held"]
  /\ SetTop([Head(stack) EXCEPT !.delays = TRUE])
  /\ UNCHANGED <<life, registered, requestVars, currentRequest, resultTo, answers, dangling>>

RunNestedLoop ==
  /\ ServiceNests
  /\ At({"fresh"})
  /\ ~Head(stack).delays \/ DelayAndNest
  /\ SetTop([Head(stack) EXCEPT !.at = "nested"])
  /\ UNCHANGED <<life, registered, requestVars, currentRequest, delayedResponse, task, resultTo, answers, dangling>>

NestedLoopReturns ==
  /\ At({"nested"})
  /\ SetTop([Head(stack) EXCEPT !.at = "resumed"])
  /\ UNCHANGED <<life, registered, requestVars, currentRequest, delayedResponse, task, resultTo, answers, dangling>>

FlagKept == UNCHANGED delayedResponse          \* mutant: the flag is not reset
FlagReset == delayedResponse' = FALSE

\* The request dispatch was called with.
Returning == Head(stack).req

AnswerAnyway(r) == kind[r] = "call"            \* mutant: the flag is not tested
\* dispatch returns a valid message, which processMessage writes to the socket:
\* createResponse of a message without an id is invalid.
Answered(r) == kind[r] = "call" /\ ~delayedResponse

LatestSocket(r) == from[currentRequest]        \* mutant
\* The socket processMessage was given with r.
GivenSocket(r) == from[r]

\* The method returns, then dispatch, then processMessage, which still holds
\* the plain pointer to the socket.
MethodReturns ==
  /\ InMethod
  /\ LET r == Returning
         s == GivenSocket(r)
     IN  IF ~Answered(r) THEN UNCHANGED <<answers, dangling>>
         ELSE IF life[s] = "alive" THEN Tell(r, s) /\ UNCHANGED dangling
         ELSE dangling' = TRUE /\ UNCHANGED answers
  /\ stack' = Tail(stack)
  /\ FlagReset
  /\ UNCHANGED <<life, registered, requestVars, currentRequest, task, resultTo>>

-----------------------------------------------------------------------------
(* Answers that come later. *)

SocketUnchecked(r) == TRUE                     \* mutant: no test of d->socket
SocketGone(r) == life[from[r]] # "alive"       \* mutant: the test is inverted
\* The QPointer of the request is not null.
SocketOpen(r) == life[from[r]] = "alive"

Finish(r) == task' = [task EXCEPT ![r] = "done"]

\* respond() on the sockets' thread: notify is called directly.
Respond(r) ==
  /\ task[r] = "held"
  /\ Finish(r)
  /\ IF SocketOpen(r) THEN Tell(r, from[r]) ELSE UNCHANGED answers
  /\ UNCHANGED <<life, registered, requestVars, serviceVars, resultTo, dangling>>

\* respond() on another thread tests the socket ...
RespondChecks(r) ==
  /\ Workers
  /\ task[r] = "held"
  /\ task' = [task EXCEPT ![r] = IF SocketOpen(r) THEN "checked" ELSE "done"]
  /\ UNCHANGED <<life, registered, requestVars, serviceVars, resultTo, answers, dangling>>

\* ... and then reads the QPointer again for invokeMethod, which posts the call
\* to the thread of the socket.  If the socket has been deleted in between, this
\* read races with the deletion: it finds null, which invokeMethod refuses, or
\* the pointer it found is used after it.
RespondPosts(r) ==
  /\ task[r] = "checked"
  /\ IF life[from[r]] = "alive"
     THEN task' = [task EXCEPT ![r] = "posted"] /\ UNCHANGED dangling
     ELSE Finish(r) /\ dangling' \in BOOLEAN
  /\ UNCHANGED <<life, registered, requestVars, serviceVars, resultTo, answers>>

PostedCallRuns(r) ==
  /\ InLoop
  /\ task[r] = "posted"
  /\ Finish(r)
  /\ Tell(r, from[r])
  /\ UNCHANGED <<life, registered, requestVars, serviceVars, resultTo, dangling>>

\* The service emits result() with its answer to r: every connected socket
\* disconnects itself and writes it.
EmitResult(r) ==
  /\ UsesResult
  /\ task[r] = "held"
  /\ task' = [task EXCEPT ![r] = "emitted"]
  /\ answers' = [answers EXCEPT ![r] = [s \in Sockets |-> IF s \in resultTo THEN @[s] + 1 ELSE @[s]]]
  /\ resultTo' = {}
  /\ UNCHANGED <<life, registered, requestVars, serviceVars, dangling>>

-----------------------------------------------------------------------------
MethodStep ==
  \/ BeginDelayedResponse
  \/ RunNestedLoop
  \/ NestedLoopReturns
  \/ MethodReturns

TaskStep(r) ==
  \/ Respond(r)
  \/ RespondChecks(r)
  \/ RespondPosts(r)
  \/ PostedCallRuns(r)
  \/ EmitResult(r)

ProviderNext ==
  /\ ~dangling
  /\ \/ \E s \in Sockets : SocketCreated(s)
     \/ \E S \in SUBSET Sockets : DeletionRuns /\ SocketsDeleted(S)
     \/ AddService \/ RemoveService
     \/ \E s \in Sockets, r \in Requests, k \in Kinds : ProcessMessage(s, r, k)
     \/ MethodStep
     \/ \E r \in Requests : TaskStep(r)

ProviderSpec == ProviderInit /\ [][ProviderNext]_providerVars

-----------------------------------------------------------------------------
(* Properties.  AnswersGoHome, ClosedSocketStaysSilent and                   *)
(* UseAfterFreeNeedsNesting are stated for any services, the others for      *)
(* services whose methods do not both delay and nest (~DelayAndNest).        *)

\* No client is sent two messages for one request: dispatch does not answer a
\* request that its method will answer later, also when other requests are
\* dispatched by the same service in between.
AtMostOneAnswer == \A r \in Requests, s \in Sockets : answers[r][s] <= 1

\* An answer is written to the socket its request came from, whichever request
\* the service has seen since, unless the service emitted it as a result(),
\* which goes to every socket that is connected.
AnswersGoHome ==
  \A r \in Requests, s \in Sockets :
    answers[r][s] > 0 => s = from[r] \/ task[r] = "emitted"

\* The one delayedResponse flag of the service belongs to the method on top of
\* the stack: it is set exactly while a method that called
\* beginDelayedResponse has yet to return, and no other dispatch sees it.
DelayFlagIsOwn == delayedResponse <=> (stack # <<>> /\ Head(stack).delays)

\* The request a service keeps to answer later is the one its method was
\* called for, although currentRequest is overwritten by every message.
DelayedRequestIsOwn ==
  [][\A r \in Requests :
       task[r] = "none" /\ task'[r] = "held" => Head(stack).req = r]_providerVars

\* A Request whose method has returned has been answered, or the service holds
\* it to answer it, or has emitted a result() for it, or its client is gone:
\* none is swallowed.
NoCallForgotten ==
  \A r \in Requests :
    kind[r] \in Calling /\ ~OnStack(r) /\ life[from[r]] = "alive" =>
      answers[r][from[r]] = 1 \/ task[r] \in {"held", "checked", "posted", "emitted"}

\* No answer is written to a deleted socket: one that comes after the client
\* has left is dropped (the QPointer of the request, the posted call, the
\* connection to result()).  A method that resumes after its client left writes
\* through processMessage's plain pointer, to memory that is no socket: that is
\* `dangling`, and no part of answers.
ClosedSocketStaysSilent ==
  [][\A r \in Requests, s \in Sockets :
       life[s] = "deleted" => answers'[r][s] = answers[r][s]]_providerVars

\* A deleted socket is used only when a method that has run a nested event loop
\* comes back to processMessage, or by respond on another thread between its
\* two looks at the socket.
UseAfterFreeNeedsNesting ==
  [][~dangling /\ dangling' =>
       At({"resumed"}) \/ \E r \in Requests : task[r] = "checked"]_providerVars

\* JSON-RPC 2.0, which the README says is supported: a Notification is never
\* answered.  (The provider keeps to it for an unknown service; dispatch does
\* not for an unknown method or parameters that fit none.)
NotificationsUnanswered ==
  \A r \in Requests, s \in Sockets : kind[r] \in Notifying => answers[r][s] = 0
=============================================================================
