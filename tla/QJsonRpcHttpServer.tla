--------------------------- MODULE QJsonRpcHttpServer ---------------------------
(***************************************************************************)
(* QJsonRpcHttpServer and QJsonRpcHttpServerSocket                         *)
(* (src/src/qjsonrpchttpserver.cpp) over the provider they feed: the       *)
(* callbacks of the HTTP parser, the one response that closes a            *)
(* connection, the lookup of sockets and their deferred deletion, and the  *)
(* closing of the server.                                                  *)
(*                                                                         *)
(* A socket s stands for a QJsonRpcHttpServerSocket and the                *)
(* QJsonRpcHttpServerRpcSocket that writes to it, which are created and    *)
(* deleted together; `device` is the network socket below.  An HTTP        *)
(* request comes in two parts, its head and its body.  The C++ stack       *)
(* alternates as in module QJsonRpcTcpServer, with http_parser_execute in  *)
(* the place of the receive loop.                                          *)
(***************************************************************************)
EXTENDS QJsonRpcServiceProvider

CONSTANTS
  Posts,            \* what clients send: HTTP requests, [head, body]
  Fragments,        \* bodies that are part of a JSON document, or blank
  Joined,           \* Joined[doc]: the kind of the document that goes over the
                    \* bodies of the sequence doc, as far as such a one exists
  Pipelining,       \* whether clients send before the last response has come
  ImpatientClients  \* whether clients may leave before it has

\* A body is a message of some kind by itself, a fragment, or empty.
Bodies == Kinds \cup Fragments \cup {"empty"}

\* onHeadersComplete finds a preflight, a request whose method or headers it
\* refuses, or one it accepts.
HttpRequests == [head : {"options", "refused", "accepted"}, body : Bodies]

ASSUME HttpAssumption ==
  /\ Fragments \cap (Kinds \cup {"empty"}) = {}
  /\ \A doc \in DOMAIN Joined :
       doc \in Seq(Kinds \cup Fragments) /\ Len(doc) > 1 /\ Joined[doc] \in Kinds
  /\ Posts \subseteq HttpRequests
  /\ {Pipelining, ImpatientClients} \subseteq BOOLEAN

\* The braces and quotes of a whole message match, so that a document it ends
\* has nothing but white space before it.
ASSUME EndsAssumption ==
  \A doc \in DOMAIN Joined :
    LET last == doc[Len(doc)] IN last \in Kinds => Joined[doc] \in {"other", last}

VARIABLES
  serving,     \* the server is "listening", "closed" or "destroyed"
  conn,        \* conn[s]: the connection is "none" (yet), "open", "closing"
               \* (closed by the client) or "gone" (seen by the server)
  requests,    \* requests[s]: what the client has sent on it, in order
  inbox,       \* inbox[s]: parts that have not been read from the network
  silent,      \* silent[s]: read by the device while it emitted readyRead
  device,      \* device[s]: m_device is "none", "open", "closed" or "freed"
  chunk,       \* chunk[s]: the rest of readIncomingData's requestBuffer
  parser,      \* parser[s]: "ready", or "failed" after a callback returned -1
  payload,     \* payload[s]: the bodies that make up m_requestPayload
  receiving,   \* sockets in readIncomingData, innermost first
  requestSocketLookup,  \* its keys
  doomed,      \* doomed[s]: the loop level of its DeferredDelete event, or 0
  responses,   \* responses[s]: requests of the HTTP responses written to s
  astray       \* a socket that was forgotten or a device that was freed is used

linkVars == <<conn, requests, inbox>>
parserVars == <<silent, chunk, parser, payload, receiving>>
tableVars == <<serving, requestSocketLookup, doomed>>
outVars == <<device, responses, astray>>
httpVars == <<linkVars, parserVars, tableVars, outVars>>
vars == <<providerVars, httpVars>>

Parts == [req : Requests, part : {"head", "body"}, head : {"options", "refused", "accepted"},
          body : Bodies]

HttpTypeOK ==
  /\ ProviderTypeOK
  /\ serving \in {"listening", "closed", "destroyed"}
  /\ conn \in [Sockets -> {"none", "open", "closing", "gone"}]
  /\ requests \in [Sockets -> Seq(Parts)]
  /\ {inbox, silent, chunk} \subseteq [Sockets -> Seq(Parts)]
  /\ device \in [Sockets -> {"none", "open", "closed", "freed"}]
  /\ parser \in [Sockets -> {"ready", "failed"}]
  /\ payload \in [Sockets -> Seq(Bodies)]
  /\ receiving \in Seq(Sockets)
  /\ Len(receiving) - Len(stack) \in {0, 1}
  /\ requestSocketLookup \subseteq Sockets
  /\ doomed \in [Sockets -> Nat]
  /\ responses \in [Sockets -> Seq(Requests)]
  /\ astray \in BOOLEAN

HttpInit ==
  /\ ProviderInit
  /\ serving = "listening"
  /\ conn = [s \in Sockets |-> "none"]
  /\ requests = [s \in Sockets |-> <<>>]
  /\ inbox = requests /\ silent = requests /\ chunk = requests /\ payload = requests
  /\ responses = requests
  /\ device = conn
  /\ parser = [s \in Sockets |-> "ready"]
  /\ receiving = <<>>
  /\ requestSocketLookup = {}
  /\ doomed = [s \in Sockets |-> 0]
  /\ astray = FALSE

-----------------------------------------------------------------------------
ReceiveOnTop == Len(receiving) > Len(stack)

\* An event loop runs; the main one is level 1, one nested in it 2, ...
LoopRuns == InLoop /\ ~ReceiveOnTop
Level == Len(stack) + 1

Receives(s) == \E i \in DOMAIN receiving : receiving[i] = s

Sent(r) == \E s \in Sockets : \E i \in DOMAIN requests[s] : requests[s][i].req = r

-----------------------------------------------------------------------------
(* Clients. *)

ClientSends(s, r, post) ==
  /\ conn[s] = "open"
  /\ ~Sent(r)
  /\ Pipelining \/ requests[s] = <<>>
  /\ LET head == [req |-> r, part |-> "head", head |-> post.head, body |-> post.body]
         body == [head EXCEPT !.part = "body"]
     IN  /\ requests' = [requests EXCEPT ![s] = Append(@, head)]
         /\ inbox' = [inbox EXCEPT ![s] = @ \o <<head, body>>]
  /\ UNCHANGED <<providerVars, conn, parserVars, tableVars, outVars>>

ClientCloses(s) ==
  /\ conn[s] = "open"
  /\ ImpatientClients \/ Len(responses[s]) = Len(requests[s])
  /\ conn' = [conn EXCEPT ![s] = "closing"]
  /\ inbox' \in {inbox, [inbox EXCEPT ![s] = <<>>]}
  /\ UNCHANGED <<providerVars, requests, parserVars, tableVars, outVars>>

-----------------------------------------------------------------------------
(* Responses. *)

DeviceKept(s) == "open"                 \* mutant: no m_device->close()
\* What is left of the device by a response.
AfterResponse(s) == "closed"

ClosedFirst(s, r) ==                    \* mutant: close() before write()
  /\ device' = [device EXCEPT ![s] = IF @ = "open" THEN "closed" ELSE @]
  /\ UNCHANGED responses
\* sendOptionsResponse and sendErrorResponse: a device that is closed takes
\* nothing.
SendResponse(s, r) ==
  /\ device' = [device EXCEPT ![s] = IF @ = "open" THEN AfterResponse(s) ELSE @]
  /\ responses' = [responses EXCEPT ![s] = IF device[s] = "open" THEN Append(@, r) ELSE @]

\* This step tells s to write a message for r.
Told(r, s) == answers'[r][s] # answers[r][s]

\* writeData of every socket that is told to write, which gets a whole message
\* from notify: it becomes the body of a response.
WriteData ==
  LET writes == {s \in Sockets : \E r \in Requests : Told(r, s)}
      ready == {s \in writes : device[s] = "open"}
  IN  /\ device' = [s \in Sockets |-> IF s \in ready THEN AfterResponse(s) ELSE device[s]]
      /\ responses' = [s \in Sockets |->
                         IF s \in ready
                         THEN Append(responses[s], CHOOSE r \in Requests : Told(r, s))
                         ELSE responses[s]]
      /\ astray' = (astray \/ \E s \in writes : device[s] = "freed")

-----------------------------------------------------------------------------
(* Connections. *)

\* processIncomingConnection.
IncomingConnection(s) ==
  /\ LoopRuns /\ serving = "listening"
  /\ conn[s] = "none"
  /\ SocketCreated(s)
  /\ conn' = [conn EXCEPT ![s] = "open"]
  /\ device' = [device EXCEPT ![s] = "open"]
  /\ requestSocketLookup' = requestSocketLookup \cup {s}
  /\ UNCHANGED <<requests, inbox, parserVars, serving, doomed, responses, astray>>

\* _q_socketDisconnected of the sockets of S.
Disconnected(S) ==
  /\ conn' = [s \in Sockets |-> IF s \in S THEN "gone" ELSE conn[s]]
  /\ requestSocketLookup' = requestSocketLookup \ S
  /\ doomed' = [s \in Sockets |-> IF s \in S THEN Level ELSE doomed[s]]

\* The device emits disconnected: the client has left and all it sent has been
\* read, or the response that closed the device has been written.
DeviceDisconnects(s) ==
  /\ LoopRuns
  /\ s \in requestSocketLookup
  /\ device[s] = "closed" \/ (conn[s] = "closing" /\ inbox[s] = <<>>)
  /\ Disconnected({s})
  /\ UNCHANGED <<providerVars, requests, inbox, parserVars, serving, outVars>>

DeletedAnywhere(s) == doomed[s] > 0     \* mutant: delete, not deleteLater
DeletedByOuter(s) == LoopRuns /\ doomed[s] > Level   \* mutant: off by one level
\* A DeferredDelete event is delivered by the loop it was posted in or by one
\* outside that, never by a loop nested in it.
DeletionDue(s) == LoopRuns /\ doomed[s] >= Level

DeferredDelete(s) ==
  /\ life[s] = "alive"
  /\ DeletionDue(s)
  /\ SocketsDeleted({s})
  /\ UNCHANGED httpVars

\* close() and listen(), from the main loop: the network server is deleted with
\* its connections' devices, which emit disconnected.
CloseServer(then) ==
  /\ LoopRuns /\ stack = <<>>
  /\ serving # "destroyed" /\ then \in {"listening", "closed"}
  /\ serving' = then
  /\ Disconnected(requestSocketLookup)
  /\ device' = [s \in Sockets |-> IF device[s] = "none" THEN "none" ELSE "freed"]
  /\ UNCHANGED <<providerVars, requests, inbox, parserVars, responses, astray>>

\* ~QJsonRpcHttpServer: close(), and the sockets are its children.
ServerDestroyed ==
  /\ LoopRuns /\ stack = <<>>
  /\ serving # "destroyed"
  /\ serving' = "destroyed"
  /\ Disconnected(requestSocketLookup)
  /\ SocketsDeleted(Sockets)
  /\ device' = [s \in Sockets |-> IF device[s] = "none" THEN "none" ELSE "freed"]
  /\ UNCHANGED <<requests, inbox, parserVars, responses, astray>>

-----------------------------------------------------------------------------
(* readIncomingData and the callbacks of the parser. *)

\* readyRead, with some of what is under way.
ReadIncomingData(s) ==
  /\ LoopRuns
  /\ life[s] = "alive" /\ device[s] = "open"
  /\ ~Receives(s)
  /\ \E n \in 1..Len(inbox[s]) :
       /\ chunk' = [chunk EXCEPT ![s] = silent[s] \o SubSeq(inbox[s], 1, n)]
       /\ inbox' = [inbox EXCEPT ![s] = SubSeq(@, n + 1, Len(@))]
  /\ silent' = [silent EXCEPT ![s] = <<>>]
  /\ receiving' = <<s>> \o receiving
  /\ UNCHANGED <<providerVars, conn, requests, parser, payload, tableVars, outVars>>

\* In a loop nested in s's own readyRead the data is read but not announced.
ReadSilently(s) ==
  /\ LoopRuns
  /\ life[s] = "alive" /\ device[s] = "open" /\ inbox[s] # <<>>
  /\ Receives(s)
  /\ silent' = [silent EXCEPT ![s] = @ \o inbox[s]]
  /\ inbox' = [inbox EXCEPT ![s] = <<>>]
  /\ UNCHANGED <<providerVars, conn, requests, chunk, parser, payload, receiving, tableVars, outVars>>

\* The parser is about to make the callbacks for the next part.
Parsing(s, part) ==
  /\ ReceiveOnTop
  /\ s = Head(receiving)
  /\ life[s] = "alive"
  /\ parser[s] = "ready"
  /\ chunk[s] # <<>> /\ Head(chunk[s]).part = part

Consume(s) == chunk' = [chunk EXCEPT ![s] = Tail(@)]

RefusedGoesOn(s) == UNCHANGED parser    \* mutant: 0 for -1
\* onHeadersComplete returns -1: http_parser_execute stops, now and later.
ParserFails(s) == parser' = [parser EXCEPT ![s] = "failed"]

\* onHeadersComplete.
HeadersComplete(s) ==
  /\ Parsing(s, "head")
  /\ Consume(s)
  /\ LET request == Head(chunk[s]) IN
       /\ IF request.head = "accepted"
          THEN UNCHANGED <<device, responses>>
          ELSE SendResponse(s, request.req)
       /\ IF request.head = "refused" THEN ParserFails(s) ELSE UNCHANGED parser
  /\ UNCHANGED <<providerVars, linkVars, silent, payload, receiving, tableVars, astray>>

PrependBody(s, body) == payload' = [payload EXCEPT ![s] = <<body>> \o @]   \* mutant
\* onBody: m_requestPayload is only ever appended to.
AppendBody(s, body) == payload' = [payload EXCEPT ![s] = Append(@, body)]

\* The bodies are the parts of doc in their order, and empty ones.
Spell(bodies, doc) ==
  \E at \in [DOMAIN doc -> DOMAIN bodies] :
    /\ \A k \in DOMAIN doc : bodies[at[k]] = doc[k]
    /\ \A k, l \in DOMAIN doc : k < l => at[k] < at[l]
    /\ \A i \in DOMAIN bodies : bodies[i] = "empty" \/ \E k \in DOMAIN doc : at[k] = i

Documents == {<<k>> : k \in Kinds} \cup DOMAIN Joined

\* QJsonRpcMessage::fromJson parses what the bodies are one after the other:
\* what is not a document as a whole is invalid.
Parsed(bodies) ==
  IF \E doc \in Documents : Spell(bodies, doc)
  THEN LET doc == CHOOSE doc \in Documents : Spell(bodies, doc)
       IN  IF doc \in DOMAIN Joined THEN Joined[doc] ELSE Head(doc)
  ELSE "other"

\* onBody, onMessageComplete and processIncomingMessage.
MessageComplete(s) ==
  /\ Parsing(s, "body")
  /\ Consume(s)
  /\ s \in requestSocketLookup
  /\ AppendBody(s, Head(chunk[s]).body)
  /\ ProcessMessage(s, Head(chunk[s]).req, Parsed(payload'[s]))
  /\ WriteData
  /\ UNCHANGED <<linkVars, silent, parser, receiving, tableVars>>

ReceiveReturns ==
  /\ ReceiveOnTop
  /\ LET s == Head(receiving) IN
       /\ life[s] = "alive"
       /\ chunk[s] = <<>> \/ parser[s] = "failed"
       /\ chunk' = [chunk EXCEPT ![s] = <<>>]
  /\ receiving' = Tail(receiving)
  /\ UNCHANGED <<providerVars, linkVars, silent, parser, payload, tableVars, outVars>>

\* A loop nested in a method has deleted the socket, with the parser that runs,
\* or forgotten it, so that processMessage would get no socket.
ReceiveGoesAstray ==
  /\ ReceiveOnTop
  /\ LET s == Head(receiving) IN
       \/ life[s] = "deleted"
       \/ Parsing(s, "body") /\ s \notin requestSocketLookup
  /\ astray' = TRUE
  /\ UNCHANGED <<providerVars, linkVars, parserVars, tableVars, device, responses>>

-----------------------------------------------------------------------------
ClientStep(s) ==
  \/ \E r \in Requests, post \in Posts : ClientSends(s, r, post)
  \/ ClientCloses(s)

SocketStep(s) ==
  \/ IncomingConnection(s)
  \/ DeviceDisconnects(s)
  \/ DeferredDelete(s)
  \/ ReadIncomingData(s)
  \/ ReadSilently(s)

ReceiveStep ==
  \/ \E s \in Sockets : HeadersComplete(s) \/ MessageComplete(s)
  \/ ReceiveReturns
  \/ ReceiveGoesAstray

\* An answer that was delayed: on the sockets' thread not inside a callback's
\* own code, on other threads at any time.
TaskDue(r) ==
  /\ \/ ~ReceiveOnTop /\ (Respond(r) \/ EmitResult(r) \/ PostedCallRuns(r))
     \/ RespondChecks(r) \/ RespondPosts(r)
  /\ WriteData
  /\ UNCHANGED <<linkVars, parserVars, tableVars>>

MethodDue ==
  /\ ~ReceiveOnTop
  /\ MethodStep
  /\ WriteData
  /\ UNCHANGED <<linkVars, parserVars, tableVars>>

RegistryStep ==
  /\ ~ReceiveOnTop /\ serving # "destroyed"
  /\ AddService \/ RemoveService
  /\ UNCHANGED httpVars

Running == ~dangling /\ ~astray

HttpNext ==
  /\ Running
  /\ \/ \E s \in Sockets : ClientStep(s) \/ SocketStep(s)
     \/ ReceiveStep
     \/ \E r \in Requests : TaskDue(r)
     \/ MethodDue
     \/ RegistryStep
     \/ \E then \in {"listening", "closed"} : CloseServer(then)
     \/ ServerDestroyed

HttpSpec == HttpInit /\ [][HttpNext]_vars

\* What the thread of the sockets has to do, its methods with the loops they
\* nest, and services with what they delay.
Due ==
  \/ \E s \in Sockets :
       ReadIncomingData(s) \/ ReadSilently(s) \/ DeviceDisconnects(s) \/ DeferredDelete(s)
  \/ ReceiveStep
  \/ MethodDue
  \/ \E r \in Requests : TaskDue(r)

\* The thread does not stop while there is something to do; in which order it
\* is done is left open, since each of these steps brings its end nearer.
HttpFairness == WF_vars(Running /\ Due)

FairHttpSpec == HttpSpec /\ HttpFairness

-----------------------------------------------------------------------------
(* Properties. *)

\* A connection carries one HTTP response at most, whatever answers, errors and
\* refusals are written to it, at once, late, or by result().
OneResponse == \A s \in Sockets : Len(responses[s]) <= 1

\* A request with a method or headers that are refused never reaches a service,
\* and nothing that comes behind it on its connection does.
RefusedNeverServed ==
  \A s \in Sockets : \A i, j \in DOMAIN requests[s] :
    i <= j /\ requests[s][i].head = "refused" => kind[requests[s][j].req] = "none"

\* A request is processed as what the bodies of its connection say together, up
\* to its own: m_requestPayload is not cleared between them, but however they are
\* cut, read in nested loops and taken apart, none is lost, doubled, moved, or
\* put with those of another connection.
BodiesAddUp ==
  \A s \in Sockets : \A i \in DOMAIN requests[s] :
    kind[requests[s][i].req] \in {"none", Parsed([j \in 1..i |-> requests[s][j].body])}

\* A client that sends a call, or what is refused or invalid, and waits gets a
\* response, unless the server is closed.
CallsGetResponses ==
  \A s \in Sockets :
    /\ requests[s] # <<>>
    /\ requests[s][1].head = "accepted" => requests[s][1].body \in Calling \cup Fragments \cup {"other", "empty"}
    ~> responses[s] # <<>> \/ device[s] = "freed" \/ ~Running

\* A connection that has carried its response is taken down, also when the loop
\* that learns of it is nested in the method of another connection's request.
AnsweredSocketsAreDeleted ==
  \A s \in Sockets : device[s] = "closed" ~> life[s] = "deleted" \/ ~Running

\* The server drives its provider as the provider expects: every behaviour is
\* one of ProviderSpec.
ImplementsProvider == ProviderSpec
=============================================================================
