------------------------ MODULE QJsonRpcHttpServer_proof ------------------------
(***************************************************************************)
(* Proofs about module QJsonRpcHttpServer: what is in its queues, that it  *)
(* drives its provider within ProviderSpec, that a connection carries one  *)
(* response, and which requests reach a service as what, for every set of  *)
(* sockets and requests and every depth of nested event loops.             *)
(***************************************************************************)
EXTENDS QJsonRpcHttpServer, QJsonRpcServiceProvider_proof, SequenceTheorems

-----------------------------------------------------------------------------
(* What is in the queues are parts of requests. *)

Queues ==
  /\ requests \in [Sockets -> Seq(Parts)]
  /\ inbox \in [Sockets -> Seq(Parts)]
  /\ silent \in [Sockets -> Seq(Parts)]
  /\ chunk \in [Sockets -> Seq(Parts)]
  /\ payload \in [Sockets -> Seq(Bodies)]
  /\ receiving \in Seq(Sockets)

\* What ClientSends makes of a request: its head and its body.
LEMMA PartsOfRequest ==
  ASSUME NEW r \in Requests, NEW post \in Posts, NEW part \in {"head", "body"}
  PROVE  [req |-> r, part |-> part, head |-> post.head, body |-> post.body] \in Parts
<1>1. post \in HttpRequests
  BY HttpAssumption DEF HttpAssumption
<1>2. post.head \in {"options", "refused", "accepted"} /\ post.body \in Bodies
  BY <1>1 DEF HttpRequests
<1>. QED  BY <1>2 DEF Parts

LEMMA PartFields ==
  ASSUME NEW p \in Parts
  PROVE  p.req \in Requests /\ p.body \in Bodies
  BY DEF Parts

LEMMA InitQueues == HttpInit => Queues
<1>. SUFFICES ASSUME HttpInit PROVE Queues
  OBVIOUS
<1>1. <<>> \in Seq(Parts) /\ <<>> \in Seq(Bodies) /\ <<>> \in Seq(Sockets)
  BY EmptySeq
<1>2. requests \in [Sockets -> Seq(Parts)] /\ payload \in [Sockets -> Seq(Bodies)]
  BY <1>1 DEF HttpInit
<1>. QED  BY <1>1, <1>2 DEF HttpInit, Queues

\* What the bodies say is of some kind.
LEMMA ParsedKind == \A bodies : Parsed(bodies) \in Kinds
<1>. SUFFICES ASSUME NEW bodies PROVE Parsed(bodies) \in Kinds
  OBVIOUS
<1>1. CASE ~\E doc \in Documents : Spell(bodies, doc)
  BY <1>1 DEF Parsed, Kinds
<1>2. CASE \E doc \in Documents : Spell(bodies, doc)
  <2>1. PICK doc \in Documents : Parsed(bodies) = IF doc \in DOMAIN Joined THEN Joined[doc] ELSE Head(doc)
    BY <1>2, Zenon DEF Parsed
  <2>2. doc \in DOMAIN Joined => Joined[doc] \in Kinds
    BY HttpAssumption DEF HttpAssumption
  <2>3. \A k \in Kinds : Head(<<k>>) = k
    OBVIOUS
  <2>. QED  BY <2>1, <2>2, <2>3 DEF Documents
<1>. QED  BY <1>1, <1>2

LEMMA AppendBodyType ==
  ASSUME Queues, NEW s \in Sockets, NEW body \in Bodies, AppendBody(s, body)
  PROVE  /\ payload' \in [Sockets -> Seq(Bodies)]
         /\ payload'[s] = Append(payload[s], body)
<1>1. Append(payload[s], body) \in Seq(Bodies)
  BY AppendProperties DEF Queues
<1>. QED  BY <1>1 DEF AppendBody, Queues

\* Every step takes the queues from one such state to another.
LEMMA SendsQueues ==
  ASSUME Queues, NEW s \in Sockets, NEW r \in Requests, NEW post \in Posts, ClientSends(s, r, post)
  PROVE  Queues'
<1>. DEFINE head == [req |-> r, part |-> "head", head |-> post.head, body |-> post.body]
            body == [req |-> r, part |-> "body", head |-> post.head, body |-> post.body]
<1>1. head \in Parts /\ body \in Parts
  BY PartsOfRequest
<1>2. body = [head EXCEPT !.part = "body"]
  OBVIOUS
<1>3. /\ requests' = [requests EXCEPT ![s] = Append(@, head)]
      /\ inbox' = [inbox EXCEPT ![s] = @ \o <<head, body>>]
      /\ UNCHANGED parserVars
  BY <1>2 DEF ClientSends
<1>. HIDE DEF head, body
<1>4. <<head, body>> \in Seq(Parts)
  BY <1>1
<1>5. Append(requests[s], head) \in Seq(Parts) /\ inbox[s] \o <<head, body>> \in Seq(Parts)
  BY <1>1, <1>4, AppendProperties, ConcatProperties DEF Queues
<1>. QED  BY <1>3, <1>5 DEF Queues, parserVars

LEMMA ReadQueues ==
  ASSUME Queues, NEW s \in Sockets, ReadIncomingData(s) \/ ReadSilently(s)
  PROVE  Queues'
<1>1. CASE ReadIncomingData(s)
  <2>1. PICK n \in 1..Len(inbox[s]) :
          /\ chunk' = [chunk EXCEPT ![s] = silent[s] \o SubSeq(inbox[s], 1, n)]
          /\ inbox' = [inbox EXCEPT ![s] = SubSeq(@, n + 1, Len(@))]
    BY <1>1 DEF ReadIncomingData
  <2>2. inbox[s] \in Seq(Parts) /\ silent[s] \in Seq(Parts)
    BY DEF Queues
  <2>3. SubSeq(inbox[s], 1, n) \in Seq(Parts) /\ SubSeq(inbox[s], n + 1, Len(inbox[s])) \in Seq(Parts)
    BY <2>2
  <2>4. silent[s] \o SubSeq(inbox[s], 1, n) \in Seq(Parts)
    BY <2>2, <2>3, ConcatProperties
  <2>5. <<s>> \o receiving \in Seq(Sockets) /\ <<>> \in Seq(Parts)
    BY EmptySeq DEF Queues
  <2>. QED  BY <1>1, <2>1, <2>3, <2>4, <2>5 DEF Queues, ReadIncomingData
<1>2. CASE ReadSilently(s)
  <2>1. silent[s] \o inbox[s] \in Seq(Parts) /\ <<>> \in Seq(Parts)
    BY ConcatProperties, EmptySeq DEF Queues
  <2>. QED  BY <1>2, <2>1 DEF Queues, ReadSilently
<1>. QED  BY <1>1, <1>2

LEMMA ReceiverOnTop ==
  ASSUME Queues, StackType, ReceiveOnTop
  PROVE  receiving # <<>> /\ Head(receiving) \in Sockets /\ Tail(receiving) \in Seq(Sockets)
         /\ \E s \in Sockets : s = Head(receiving)
<1>1. receiving # <<>>
  BY DEF ReceiveOnTop, Queues, StackType
<1>. QED  BY <1>1, HeadTailProperties DEF Queues

LEMMA ReceiveQueues ==
  ASSUME Queues, StackType, ReceiveStep
  PROVE  Queues'
<1>1. ASSUME NEW s \in Sockets, chunk[s] # <<>>, Consume(s)
      PROVE  chunk' \in [Sockets -> Seq(Parts)] /\ Head(chunk[s]) \in Parts
  <2>1. Tail(chunk[s]) \in Seq(Parts) /\ Head(chunk[s]) \in Parts
    BY <1>1, HeadTailProperties DEF Queues
  <2>. QED  BY <1>1, <2>1 DEF Queues, Consume
<1>2. ASSUME NEW s \in Sockets, HeadersComplete(s) PROVE Queues'
  BY <1>1, <1>2 DEF HeadersComplete, Parsing, Queues, linkVars
<1>3. ASSUME NEW s \in Sockets, MessageComplete(s) PROVE Queues'
  <2>1. chunk' \in [Sockets -> Seq(Parts)] /\ Head(chunk[s]) \in Parts
    BY <1>1, <1>3 DEF MessageComplete, Parsing
  <2>2. payload' \in [Sockets -> Seq(Bodies)]
    BY <1>3, <2>1, PartFields, AppendBodyType DEF MessageComplete
  <2>. QED  BY <1>3, <2>1, <2>2 DEF MessageComplete, Queues, linkVars
<1>4. CASE ReceiveReturns
  <2>1. PICK s \in Sockets : s = Head(receiving)
    BY <1>4, ReceiverOnTop DEF ReceiveReturns
  <2>2. <<>> \in Seq(Parts) /\ Tail(receiving) \in Seq(Sockets)
    BY <1>4, EmptySeq, ReceiverOnTop DEF ReceiveReturns
  <2>. QED  BY <1>4, <2>1, <2>2 DEF ReceiveReturns, Queues, linkVars
<1>5. CASE ReceiveGoesAstray
  BY <1>5 DEF ReceiveGoesAstray, Queues, linkVars, parserVars
<1>. QED  BY <1>2, <1>3, <1>4, <1>5 DEF ReceiveStep

LEMMA NextQueues ==
  ASSUME Queues, StackType, [HttpNext]_vars
  PROVE  Queues'
<1>1. ASSUME UNCHANGED <<requests, inbox, parserVars>> PROVE Queues'
  BY <1>1 DEF Queues, parserVars
<1>2. ASSUME NEW s \in Sockets, ClientCloses(s) PROVE Queues'
  <2>1. inbox' \in [Sockets -> Seq(Parts)]
    BY <1>2, EmptySeq DEF Queues, ClientCloses
  <2>. QED  BY <1>2, <2>1 DEF Queues, ClientCloses, parserVars
<1>3. ASSUME NEW s \in Sockets, IncomingConnection(s) \/ DeviceDisconnects(s) \/ DeferredDelete(s)
      PROVE  UNCHANGED <<requests, inbox, parserVars>>
  BY <1>3 DEF IncomingConnection, DeviceDisconnects, DeferredDelete, httpVars, linkVars
<1>4. (\E r \in Requests : TaskDue(r)) \/ MethodDue \/ RegistryStep \/ ServerDestroyed
      \/ (\E then \in {"listening", "closed"} : CloseServer(then))
      => UNCHANGED <<requests, inbox, parserVars>>
  BY DEF TaskDue, MethodDue, RegistryStep, ServerDestroyed, CloseServer, httpVars, linkVars
<1>5. UNCHANGED vars => UNCHANGED <<requests, inbox, parserVars>>
  BY DEF vars, httpVars, linkVars
<1>. QED
  BY <1>1, <1>2, <1>3, <1>4, <1>5, SendsQueues, ReadQueues, ReceiveQueues
     DEF HttpNext, ClientStep, SocketStep

-----------------------------------------------------------------------------
(* The provider below. *)

\* Every step of the server is one of its provider, or none.
LEMMA NextRefines ==
  ASSUME Queues, StackType, [HttpNext]_vars
  PROVE  [ProviderNext]_providerVars
<1>1. ASSUME NEW s \in Sockets, ClientStep(s) \/ SocketStep(s), ~dangling
      PROVE  [ProviderNext]_providerVars
  <2>1. CASE IncomingConnection(s)
    BY <1>1, <2>1 DEF IncomingConnection, ProviderNext
  <2>2. CASE DeferredDelete(s)
    <3>1. {s} \in SUBSET Sockets /\ DeletionRuns /\ SocketsDeleted({s})
      BY <2>2 DEF DeferredDelete, DeletionDue, LoopRuns, DeletionRuns
    <3>. QED  BY <1>1, <3>1 DEF ProviderNext
  <2>3. CASE UNCHANGED providerVars
    BY <2>3
  <2>. QED  BY <1>1, <2>1, <2>2, <2>3 DEF ClientStep, ClientSends, ClientCloses, SocketStep,
            DeviceDisconnects, ReadIncomingData, ReadSilently
<1>2. ASSUME ReceiveStep, ~dangling PROVE [ProviderNext]_providerVars
  <2>1. ASSUME NEW s \in Sockets, MessageComplete(s) PROVE ProviderNext
    <3>1. PICK part : part = Head(chunk[s])
      OBVIOUS
    <3>2. part \in Parts
      BY <2>1, <3>1, HeadTailProperties DEF Queues, MessageComplete, Parsing
    <3>3. AppendBody(s, part.body) /\ ProcessMessage(s, part.req, Parsed(payload'[s]))
      BY <2>1, <3>1 DEF MessageComplete
    <3>4. part.req \in Requests /\ Parsed(payload'[s]) \in Kinds
      BY <3>2, <3>3, PartFields, ParsedKind
    <3>. QED  BY <1>2, <3>3, <3>4 DEF ProviderNext
  <2>2. (\E s \in Sockets : HeadersComplete(s)) \/ ReceiveReturns \/ ReceiveGoesAstray
        => UNCHANGED providerVars
    BY DEF HeadersComplete, ReceiveReturns, ReceiveGoesAstray
  <2>. QED  BY <1>2, <2>1, <2>2 DEF ReceiveStep
<1>3. ASSUME NEW r \in Requests, TaskDue(r), ~dangling PROVE ProviderNext
  <2>1. TaskStep(r)
    BY <1>3 DEF TaskDue, TaskStep
  <2>. QED  BY <1>3, <2>1 DEF ProviderNext
<1>4. MethodDue /\ ~dangling => ProviderNext
  BY DEF MethodDue, ProviderNext
<1>5. RegistryStep /\ ~dangling => ProviderNext
  BY DEF RegistryStep, ProviderNext
<1>6. ServerDestroyed /\ ~dangling => ProviderNext
  <2>1. Sockets \in SUBSET Sockets
    OBVIOUS
  <2>. QED  BY <2>1 DEF ServerDestroyed, LoopRuns, DeletionRuns, ProviderNext
<1>7. (\E then \in {"listening", "closed"} : CloseServer(then)) \/ UNCHANGED vars
      => UNCHANGED providerVars
  BY DEF CloseServer, vars
<1>. QED  BY <1>1, <1>2, <1>3, <1>4, <1>5, <1>6, <1>7 DEF HttpNext, Running

LEMMA QueuesHold == HttpSpec => [](Queues /\ ProviderTypeOK /\ HasSocket)
<1>1. HttpInit => Queues /\ ProviderTypeOK /\ HasSocket
  BY InitQueues, InitType DEF HttpInit
<1>2. Queues /\ ProviderTypeOK /\ HasSocket /\ [HttpNext]_vars
      => Queues' /\ ProviderTypeOK' /\ HasSocket'
  BY NextQueues, NextRefines, NextType, TypeParts
<1>. QED  BY <1>1, <1>2, PTL DEF HttpSpec

\* The HTTP server drives its provider as the provider expects: sockets are
\* created once and deleted by event loops only, and every part of a request
\* that reaches onMessageComplete is one message of a living socket.
THEOREM Implementation == HttpSpec => ImplementsProvider
<1>1. HttpInit => ProviderInit
  BY DEF HttpInit
<1>2. Queues /\ ProviderTypeOK /\ [HttpNext]_vars => [ProviderNext]_providerVars
  BY NextRefines, TypeParts
<1>. QED  BY <1>1, <1>2, QueuesHold, PTL DEF HttpSpec, ImplementsProvider, ProviderSpec

\* So, what is proved of the provider holds over HTTP: however loops nest, no
\* call is forgotten or answered twice, and answers go home.
THEOREM HttpAnswersOnce ==
  ASSUME ~DelayAndNest
  PROVE  HttpSpec => [](AtMostOneAnswer /\ NoCallForgotten /\ AnswersGoHome)
  BY Implementation, AtMostOneAnswerHolds, NoCallForgottenHolds, AnswersGoHomeHolds, PTL
     DEF ImplementsProvider

-----------------------------------------------------------------------------
(* Responses. *)

\* A device opens with the connection, and takes a response while it is open
\* and none before.
ResponsesFit ==
  /\ conn \in [Sockets -> {"none", "open", "closing", "gone"}]
  /\ device \in [Sockets -> {"none", "open", "closed", "freed"}]
  /\ responses \in [Sockets -> Seq(Requests)]
  /\ \A s \in Sockets :
       /\ conn[s] = "none" => device[s] = "none"
       /\ device[s] \in {"none", "open"} => responses[s] = <<>>
       /\ Len(responses[s]) <= 1

LEMMA InitResponses == HttpInit => ResponsesFit
<1>. SUFFICES ASSUME HttpInit PROVE ResponsesFit
  OBVIOUS
<1>1. <<>> \in Seq(Requests) /\ Len(<<>>) = 0
  BY EmptySeq
<1>2. conn = [s \in Sockets |-> "none"] /\ device = conn /\ responses = [s \in Sockets |-> <<>>]
  BY DEF HttpInit
<1>. QED  BY <1>1, <1>2 DEF ResponsesFit

\* One response to a device that was open, which is closed by it.
LEMMA Responded ==
  ASSUME ResponsesFit, NEW W, W \subseteq Sockets, UNCHANGED conn,
         \A s \in W : device[s] = "open",
         device' = [s \in Sockets |-> IF s \in W THEN "closed" ELSE device[s]],
         responses' \in [Sockets -> Seq(Requests)],
         \A s \in Sockets : IF s \in W THEN \E r \in Requests : responses'[s] = Append(responses[s], r)
                                       ELSE responses'[s] = responses[s]
  PROVE  ResponsesFit'
<1>1. device' \in [Sockets -> {"none", "open", "closed", "freed"}]
  BY DEF ResponsesFit
<1>2. ASSUME NEW s \in Sockets
      PROVE  /\ conn[s] = "none" => device'[s] = "none"
             /\ device'[s] \in {"none", "open"} => responses'[s] = <<>>
             /\ Len(responses'[s]) <= 1
  <2>1. CASE s \in W
    <3>1. PICK r \in Requests : responses'[s] = Append(responses[s], r)
      BY <2>1
    <3>2. responses[s] = <<>> /\ device'[s] = "closed" /\ conn[s] # "none"
      BY <2>1 DEF ResponsesFit
    <3>3. Len(responses'[s]) = 1
      BY <3>1, <3>2
    <3>. QED  BY <3>2, <3>3
  <2>2. CASE s \notin W
    BY <2>2 DEF ResponsesFit
  <2>. QED  BY <2>1, <2>2
<1>. QED  BY <1>1, <1>2 DEF ResponsesFit

LEMMA WriteDataResponds ==
  ASSUME ResponsesFit, WriteData, UNCHANGED conn
  PROVE  ResponsesFit'
<1>. DEFINE W == {s \in Sockets : (\E r \in Requests : Told(r, s)) /\ device[s] = "open"}
            first(s) == CHOOSE r \in Requests : Told(r, s)
<1>1. device' = [s \in Sockets |-> IF s \in W THEN "closed" ELSE device[s]]
  BY DEF WriteData, AfterResponse
<1>2. responses' = [s \in Sockets |-> IF s \in W THEN Append(responses[s], first(s)) ELSE responses[s]]
  BY DEF WriteData
<1>3. \A s \in W : first(s) \in Requests
  OBVIOUS
<1>4. \A s \in W : Append(responses[s], first(s)) \in Seq(Requests)
  BY <1>3, AppendProperties DEF ResponsesFit
<1>. HIDE DEF first
<1>5. responses' \in [Sockets -> Seq(Requests)]
  BY <1>2, <1>4 DEF ResponsesFit
<1>6. W \subseteq Sockets /\ \A s \in W : device[s] = "open"
  OBVIOUS
<1>. HIDE DEF W
<1>. QED  BY <1>1, <1>2, <1>3, <1>5, <1>6, Responded

LEMMA SendResponseResponds ==
  ASSUME ResponsesFit, NEW s \in Sockets, NEW r \in Requests, SendResponse(s, r), UNCHANGED conn
  PROVE  ResponsesFit'
<1>. DEFINE W == {t \in {s} : device[t] = "open"}
<1>1. device' = [t \in Sockets |-> IF t \in W THEN "closed" ELSE device[t]]
  BY DEF SendResponse, AfterResponse, ResponsesFit
<1>2. Append(responses[s], r) \in Seq(Requests)
  BY AppendProperties DEF ResponsesFit
<1>3. /\ responses' \in [Sockets -> Seq(Requests)]
      /\ \A t \in Sockets : IF t \in W THEN \E q \in Requests : responses'[t] = Append(responses[t], q)
                                       ELSE responses'[t] = responses[t]
  BY <1>2 DEF SendResponse, ResponsesFit
<1>4. W \subseteq Sockets /\ \A t \in W : device[t] = "open"
  OBVIOUS
<1>. HIDE DEF W
<1>. QED  BY <1>1, <1>3, <1>4, Responded

LEMMA NextResponses ==
  ASSUME Queues, ResponsesFit, [HttpNext]_vars
  PROVE  ResponsesFit'
<1>1. ASSUME UNCHANGED <<conn, device, responses>> PROVE ResponsesFit'
  BY <1>1 DEF ResponsesFit
<1>2. ASSUME NEW s \in Sockets, ClientCloses(s) PROVE ResponsesFit'
  BY <1>2 DEF ClientCloses, outVars, ResponsesFit
<1>3. ASSUME NEW s \in Sockets, IncomingConnection(s) PROVE ResponsesFit'
  BY <1>3 DEF IncomingConnection, ResponsesFit
<1>4. ASSUME NEW s \in Sockets, DeviceDisconnects(s) PROVE ResponsesFit'
  BY <1>4 DEF DeviceDisconnects, Disconnected, outVars, ResponsesFit
<1>5. ASSUME NEW S, Disconnected(S), UNCHANGED responses,
             device' = [s \in Sockets |-> IF device[s] = "none" THEN "none" ELSE "freed"]
      PROVE  ResponsesFit'
  BY <1>5 DEF Disconnected, ResponsesFit
<1>6. ASSUME NEW s \in Sockets, HeadersComplete(s) PROVE ResponsesFit'
  <2>1. PICK part : part = Head(chunk[s])
    OBVIOUS
  <2>2. part.req \in Requests
    BY <1>6, <2>1, HeadTailProperties, PartFields DEF HeadersComplete, Parsing, Queues
  <2>3. UNCHANGED conn /\ (SendResponse(s, part.req) \/ UNCHANGED <<device, responses>>)
    BY <1>6, <2>1 DEF HeadersComplete, linkVars
  <2>. QED  BY <1>1, <2>2, <2>3, SendResponseResponds
<1>7. ASSUME WriteData, UNCHANGED linkVars PROVE ResponsesFit'
  BY <1>7, WriteDataResponds DEF linkVars
<1>8. ReceiveStep => ResponsesFit'
  BY <1>1, <1>6, <1>7 DEF ReceiveStep, MessageComplete, ReceiveReturns, ReceiveGoesAstray, linkVars, outVars
<1>9. (\E r \in Requests : TaskDue(r)) \/ MethodDue => ResponsesFit'
  BY <1>7 DEF TaskDue, MethodDue
<1>10. RegistryStep \/ UNCHANGED vars => UNCHANGED <<conn, device, responses>>
  BY DEF RegistryStep, vars, httpVars, linkVars, outVars
<1>11. ServerDestroyed \/ (\E then \in {"listening", "closed"} : CloseServer(then)) => ResponsesFit'
  BY <1>5 DEF ServerDestroyed, CloseServer
<1>12. ASSUME NEW s \in Sockets, ClientStep(s) \/ SocketStep(s) PROVE ResponsesFit'
  BY <1>1, <1>2, <1>3, <1>4, <1>12 DEF ClientStep, ClientSends, SocketStep, DeferredDelete,
     ReadIncomingData, ReadSilently, httpVars, linkVars, outVars
<1>. QED  BY <1>1, <1>8, <1>9, <1>10, <1>11, <1>12 DEF HttpNext

\* A connection carries one HTTP response at most: whatever is written to its
\* socket first closes the device, and a device that is closed takes nothing.
THEOREM OneResponseHolds == HttpSpec => []OneResponse
<1>1. Queues /\ ResponsesFit /\ [HttpNext]_vars => ResponsesFit'
  BY NextResponses
<1>2. ResponsesFit => OneResponse
  BY DEF ResponsesFit, OneResponse
<1>. QED  BY <1>1, <1>2, InitResponses, QueuesHold, PTL DEF HttpSpec

-----------------------------------------------------------------------------
(* What is on its way to the parser of a socket. *)

RefusedHead(part) == part.part = "head" /\ part.head = "refused"

\* For the parts w on their way and the requests q a client has sent: each part
\* is of one of these requests; while the parser is ready, a refused head comes
\* before every body that is not to be served; and while the client may send
\* more, such a head comes before whatever it sends.
WaySane(w, q, state, link) ==
  /\ \A k \in DOMAIN w : \E j \in DOMAIN q :
       q[j].req = w[k].req /\ q[j].head = w[k].head /\ q[j].body = w[k].body
  /\ state = "ready" => \A k \in DOMAIN w : \A i, j \in DOMAIN q :
                w[k].part = "body" /\ q[j].req = w[k].req /\ i <= j /\ q[i].head = "refused"
                => \E l \in DOMAIN w : l < k /\ RefusedHead(w[l])
  /\ state = "ready" /\ link = "open" => \A i \in DOMAIN q :
                        q[i].head = "refused" => \E l \in DOMAIN w : RefusedHead(w[l])

LEMMA WaySaneWeaker ==
  ASSUME NEW w, NEW q, NEW state, NEW link, NEW state2, NEW link2,
         WaySane(w, q, state, link), state2 = "ready" => state = "ready", link2 = "open" => link = "open"
  PROVE  WaySane(w, q, state2, link2)
  BY DEF WaySane

\* A part is parsed: if its head is refused, the parser fails.
LEMMA WaySaneTail ==
  ASSUME NEW w \in Seq(Parts), w # <<>>, NEW q, NEW state, NEW link, NEW state2,
         WaySane(w, q, state, link), state2 = "ready" => state = "ready" /\ ~RefusedHead(w[1])
  PROVE  WaySane(Tail(w), q, state2, link)
<1>. DEFINE v == Tail(w)
<1>1. /\ DOMAIN v = 1..Len(v) /\ DOMAIN w = 1..Len(w)
      /\ Len(v) \in Nat /\ Len(w) = Len(v) + 1
      /\ \A k \in DOMAIN v : v[k] = w[k + 1]
  BY HeadTailProperties, LenProperties
<1>2. \A k \in DOMAIN v : k + 1 \in DOMAIN w
  BY <1>1
<1>3. ASSUME NEW l \in DOMAIN w, l # 1 PROVE l - 1 \in DOMAIN v /\ v[l - 1] = w[l]
  BY <1>1, <1>3
<1>. HIDE DEF v
<1>4. \A k \in DOMAIN v : \E j \in DOMAIN q :
        q[j].req = v[k].req /\ q[j].head = v[k].head /\ q[j].body = v[k].body
  BY <1>1, <1>2 DEF WaySane
<1>5. ASSUME state2 = "ready", NEW k \in DOMAIN v, NEW i \in DOMAIN q, NEW j \in DOMAIN q,
             v[k].part = "body", q[j].req = v[k].req, i <= j, q[i].head = "refused"
      PROVE  \E l \in DOMAIN v : l < k /\ RefusedHead(v[l])
  <2>1. PICK l \in DOMAIN w : l < k + 1 /\ RefusedHead(w[l])
    BY <1>1, <1>2, <1>5 DEF WaySane
  <2>2. l - 1 \in DOMAIN v /\ v[l - 1] = w[l] /\ l - 1 < k
    BY <1>1, <1>3, <1>5, <2>1
  <2>. QED  BY <2>1, <2>2
<1>6. ASSUME state2 = "ready", link = "open", NEW i \in DOMAIN q, q[i].head = "refused"
      PROVE  \E l \in DOMAIN v : RefusedHead(v[l])
  <2>1. PICK l \in DOMAIN w : RefusedHead(w[l])
    BY <1>6 DEF WaySane
  <2>. QED  BY <1>3, <1>6, <2>1
<1>. QED  BY <1>4, <1>5, <1>6 DEF WaySane, v

\* The client leaves, and what had not been read from the network is lost.
LEMMA WaySanePrefix ==
  ASSUME NEW v \in Seq(Parts), NEW u \in Seq(Parts), NEW q, NEW state, NEW link,
         WaySane(v \o u, q, state, link)
  PROVE  WaySane(v, q, state, "closing")
<1>. DEFINE w == v \o u
<1>1. /\ DOMAIN v = 1..Len(v) /\ DOMAIN w = 1..(Len(v) + Len(u))
      /\ Len(v) \in Nat /\ Len(u) \in Nat
      /\ \A k \in DOMAIN v : k \in DOMAIN w /\ w[k] = v[k]
  BY ConcatProperties, LenProperties
<1>2. \A k \in DOMAIN v, l \in DOMAIN w : l < k => l \in DOMAIN v
  BY <1>1
<1>. HIDE DEF w
<1>3. WaySane(w, q, state, link)
  BY DEF w
<1>. QED  BY <1>1, <1>2, <1>3 DEF WaySane

\* The parser has failed, and forgets what it was given.
LEMMA WaySaneSuffix ==
  ASSUME NEW v \in Seq(Parts), NEW u \in Seq(Parts), NEW q, NEW state, NEW link, NEW link2,
         WaySane(v \o u, q, state, link)
  PROVE  WaySane(u, q, "failed", link2)
<1>. DEFINE w == v \o u
<1>1. \A k \in DOMAIN u : Len(v) + k \in DOMAIN w /\ w[Len(v) + k] = u[k]
  BY ConcatProperties, LenProperties
<1>. HIDE DEF w
<1>2. WaySane(w, q, state, link)
  BY DEF w
<1>. QED  BY <1>1, <1>2 DEF WaySane

\* The client sends a request it has not sent before.
LEMMA WaySaneSend ==
  ASSUME NEW w \in Seq(Parts), NEW q \in Seq(Parts), NEW state,
         NEW head \in Parts, NEW body \in Parts, WaySane(w, q, state, "open"),
         head.part = "head", body.part = "body", body.req = head.req,
         body.head = head.head, body.body = head.body,
         \A j \in DOMAIN q : q[j].req # head.req
  PROVE  WaySane(w \o <<head, body>>, Append(q, head), state, "open")
<1>. DEFINE v == w \o <<head, body>>
            p == Append(q, head)
            n == Len(w)
            m == Len(q)
<1>1. /\ n \in Nat /\ DOMAIN w = 1..n /\ DOMAIN v = 1..(n + 2)
      /\ \A k \in DOMAIN w : v[k] = w[k]
      /\ v[n + 1] = head /\ v[n + 2] = body
  BY SMTT(20)
<1>2. /\ m \in Nat /\ DOMAIN q = 1..m /\ DOMAIN p = 1..(m + 1)
      /\ \A j \in DOMAIN q : p[j] = q[j]
      /\ p[m + 1] = head
  OBVIOUS
<1>. HIDE DEF v, p, n, m
<1>3. ASSUME NEW k \in DOMAIN v PROVE k \in DOMAIN w \/ k = n + 1 \/ k = n + 2
  BY <1>1, <1>3, SMTT(20)
<1>4. ASSUME NEW j \in DOMAIN p PROVE j \in DOMAIN q \/ j = m + 1
  BY <1>2, <1>4
<1>5. \A k \in DOMAIN v : \E j \in DOMAIN p :
        p[j].req = v[k].req /\ p[j].head = v[k].head /\ p[j].body = v[k].body
  <2>1. ASSUME NEW k \in DOMAIN w
        PROVE  \E j \in DOMAIN p : p[j].req = v[k].req /\ p[j].head = v[k].head /\ p[j].body = v[k].body
    <3>1. PICK j \in DOMAIN q : q[j].req = w[k].req /\ q[j].head = w[k].head /\ q[j].body = w[k].body
      BY DEF WaySane
    <3>. QED  BY <1>1, <1>2, <3>1
  <2>2. m + 1 \in DOMAIN p
    BY <1>2
  <2>. QED  BY <1>1, <1>2, <1>3, <2>1, <2>2
<1>6. ASSUME NEW l \in DOMAIN w PROVE l \in DOMAIN v /\ l < n + 2
  BY <1>1, <1>6
<1>7. ASSUME state = "ready", NEW i \in DOMAIN p, p[i].head = "refused"
      PROVE  \E l \in DOMAIN v : l < n + 2 /\ RefusedHead(v[l])
  <2>1. CASE i \in DOMAIN q
    <3>1. PICK l \in DOMAIN w : RefusedHead(w[l])
      BY <1>2, <1>7, <2>1 DEF WaySane
    <3>. QED  BY <1>1, <1>6, <3>1
  <2>2. CASE i = m + 1
    <3>1. n + 1 \in DOMAIN v /\ n + 1 < n + 2 /\ RefusedHead(v[n + 1])
      BY <1>1, <1>2, <1>7, <2>2 DEF RefusedHead
    <3>. QED  BY <3>1
  <2>. QED  BY <1>4, <2>1, <2>2
<1>8. ASSUME state = "ready", NEW k \in DOMAIN v, NEW i \in DOMAIN p, NEW j \in DOMAIN p,
             v[k].part = "body", p[j].req = v[k].req, i <= j, p[i].head = "refused"
      PROVE  \E l \in DOMAIN v : l < k /\ RefusedHead(v[l])
  <2>1. CASE k = n + 2
    BY <1>7, <1>8, <2>1
  <2>2. CASE k = n + 1
    BY <1>1, <1>8, <2>2
  <2>3. CASE k \in DOMAIN w
    <3>1. PICK h \in DOMAIN q : q[h].req = w[k].req
      BY <2>3 DEF WaySane
    <3>2. j # m + 1
      BY <1>1, <1>2, <1>8, <2>3, <3>1
    <3>3. j \in DOMAIN q /\ i \in DOMAIN q
      BY <1>2, <1>4, <1>8, <3>2
    <3>4. PICK l \in DOMAIN w : l < k /\ RefusedHead(w[l])
      BY <1>1, <1>2, <1>8, <2>3, <3>3 DEF WaySane
    <3>. QED  BY <1>1, <1>6, <3>4
  <2>. QED  BY <1>3, <2>1, <2>2, <2>3
<1>. QED  BY <1>5, <1>7, <1>8 DEF WaySane, v, p

\* The parts of a socket between its client and its parser.
Way(s) == chunk[s] \o silent[s] \o inbox[s]

Ways ==
  /\ conn \in [Sockets -> {"none", "open", "closing", "gone"}]
  /\ parser \in [Sockets -> {"ready", "failed"}]
  /\ \A s \in Sockets :
       /\ WaySane(Way(s), requests[s], parser[s], conn[s])
       /\ conn[s] = "none" => requests[s] = <<>>
       /\ chunk[s] # <<>> => Receives(s)

LEMMA InitWays == HttpInit => Ways
<1>. SUFFICES ASSUME HttpInit PROVE Ways
  OBVIOUS
<1>1. /\ conn = [s \in Sockets |-> "none"] /\ parser = [s \in Sockets |-> "ready"]
      /\ requests = [s \in Sockets |-> <<>>] /\ chunk = [s \in Sockets |-> <<>>]
      /\ silent = [s \in Sockets |-> <<>>] /\ inbox = [s \in Sockets |-> <<>>]
  BY DEF HttpInit
<1>2. ASSUME NEW s \in Sockets PROVE Way(s) = <<>>
  BY <1>1 DEF Way
<1>3. \A state, link : WaySane(<<>>, <<>>, state, link)
  BY DEF WaySane
<1>. QED  BY <1>1, <1>2, <1>3 DEF Ways

\* The sockets a step does not touch, or whose parts it only moves.
LEMMA WayKept ==
  ASSUME Ways, NEW s \in Sockets, Way(s)' = Way(s), requests'[s] = requests[s],
         parser'[s] = "ready" => parser[s] = "ready", conn'[s] = "open" => conn[s] = "open"
  PROVE  WaySane(Way(s)', requests'[s], parser'[s], conn'[s])
  BY WaySaneWeaker DEF Ways

LEMMA ConcatParts ==
  \A u, v, w \in Seq(Parts) : u \o v \in Seq(Parts) /\ (u \o v) \o w = u \o (v \o w)
<1>. SUFFICES ASSUME NEW u \in Seq(Parts), NEW v \in Seq(Parts), NEW w \in Seq(Parts)
              PROVE  u \o v \in Seq(Parts) /\ (u \o v) \o w = u \o (v \o w)
  OBVIOUS
<1>. QED  BY ConcatProperties, ConcatAssociative

LEMMA PartsAssociate == \A u, v, w \in Seq(Parts) : (u \o v) \o w = u \o (v \o w)
  BY ConcatParts

LEMMA TailOfParts ==
  \A u, v, w \in Seq(Parts) :
    u # <<>> => /\ (u \o v) \o w # <<>> /\ ((u \o v) \o w)[1] = Head(u)
                /\ Tail((u \o v) \o w) = (Tail(u) \o v) \o w
<1>. SUFFICES ASSUME NEW u \in Seq(Parts), NEW v \in Seq(Parts), NEW w \in Seq(Parts), u # <<>>
              PROVE  /\ (u \o v) \o w # <<>> /\ ((u \o v) \o w)[1] = Head(u)
                     /\ Tail((u \o v) \o w) = (Tail(u) \o v) \o w
  OBVIOUS
<1>1. PICK y \in Seq(Parts) : y = v \o w
  BY ConcatParts
<1>2. PICK x \in Seq(Parts) : x = Tail(u)
  BY HeadTailProperties
<1>3. u \o y # <<>> /\ (u \o y)[1] = Head(u) /\ Tail(u \o y) = x \o y
  BY <1>2
<1>4. PICK z \in Seq(Parts) : z = u
  OBVIOUS
<1>5. (z \o v) \o w = z \o (v \o w)
  BY PartsAssociate, ZenonT(60)
<1>6. (x \o v) \o w = x \o (v \o w)
  BY PartsAssociate, ZenonT(60)
<1>. QED  BY <1>1, <1>2, <1>3, <1>4, <1>5, <1>6

LEMMA WayIsSeq ==
  ASSUME Queues, NEW s \in Sockets
  PROVE  /\ chunk[s] \in Seq(Parts) /\ silent[s] \in Seq(Parts) /\ inbox[s] \in Seq(Parts)
         /\ requests[s] \in Seq(Parts)
         /\ chunk[s] \o silent[s] \in Seq(Parts) /\ silent[s] \o inbox[s] \in Seq(Parts)
         /\ Way(s) \in Seq(Parts)
         /\ Way(s) = (chunk[s] \o silent[s]) \o inbox[s]
         /\ Way(s) = chunk[s] \o (silent[s] \o inbox[s])
<1>1. chunk[s] \in Seq(Parts) /\ silent[s] \in Seq(Parts) /\ inbox[s] \in Seq(Parts)
      /\ requests[s] \in Seq(Parts)
  BY DEF Queues
<1>2. PICK u \in Seq(Parts), v \in Seq(Parts), w \in Seq(Parts) :
        u = chunk[s] /\ v = silent[s] /\ w = inbox[s]
  BY <1>1
<1>3. u \o v \in Seq(Parts) /\ v \o w \in Seq(Parts) /\ (u \o v) \o w = u \o (v \o w)
  BY ConcatParts
<1>4. (u \o v) \o w \in Seq(Parts)
  BY <1>3, ConcatProperties
<1>. QED  BY <1>1, <1>2, <1>3, <1>4 DEF Way

LEMMA SendsWays ==
  ASSUME Queues, Ways, NEW s \in Sockets, NEW r \in Requests, NEW post \in Posts, ClientSends(s, r, post)
  PROVE  Ways'
<1>. DEFINE head == [req |-> r, part |-> "head", head |-> post.head, body |-> post.body]
            body == [req |-> r, part |-> "body", head |-> post.head, body |-> post.body]
<1>1. /\ head \in Parts /\ body \in Parts
      /\ head.req = r /\ body.req = r /\ head.part = "head" /\ body.part = "body"
      /\ body.head = head.head /\ body.body = head.body /\ body = [head EXCEPT !.part = "body"]
  BY PartsOfRequest
<1>2. /\ requests' = [requests EXCEPT ![s] = Append(@, head)]
      /\ inbox' = [inbox EXCEPT ![s] = @ \o <<head, body>>]
      /\ conn[s] = "open" /\ ~Sent(r)
      /\ UNCHANGED <<conn, parserVars>>
  BY <1>1 DEF ClientSends
<1>. HIDE DEF head, body
<1>3. <<head, body>> \in Seq(Parts)
  BY <1>1
<1>4. Way(s)' = Way(s) \o <<head, body>>
  <2>1. inbox'[s] = inbox[s] \o <<head, body>> /\ chunk'[s] = chunk[s] /\ silent'[s] = silent[s]
    BY <1>2 DEF Queues, parserVars
  <2>2. PICK u \in Seq(Parts), v \in Seq(Parts), w \in Seq(Parts) :
          u = chunk[s] \o silent[s] /\ v = inbox[s] /\ w = <<head, body>>
    BY <1>3, WayIsSeq
  <2>3. u \o (v \o w) = (u \o v) \o w
    BY PartsAssociate, Zenon
  <2>. QED  BY <2>1, <2>2, <2>3 DEF Way
<1>5. \A j \in DOMAIN requests[s] : requests[s][j].req # head.req
  BY <1>1, <1>2 DEF Sent
<1>6. WaySane(Way(s), requests[s], parser[s], "open")
  BY <1>2, WaySaneWeaker DEF Ways
<1>7. WaySane(Way(s) \o <<head, body>>, Append(requests[s], head), parser[s], "open")
  BY <1>1, <1>5, <1>6, WayIsSeq, WaySaneSend
<1>8. WaySane(Way(s)', requests'[s], parser'[s], conn'[s])
  <2>1. requests'[s] = Append(requests[s], head) /\ parser'[s] = parser[s] /\ conn'[s] = conn[s]
    BY <1>2 DEF Queues, parserVars
  <2>. QED  BY <1>4, <1>7, <2>1, WaySaneWeaker
<1>9. ASSUME NEW t \in Sockets, t # s
      PROVE  WaySane(Way(t)', requests'[t], parser'[t], conn'[t])
  <2>1. Way(t)' = Way(t) /\ requests'[t] = requests[t]
    BY <1>2, <1>9 DEF Queues, Way, parserVars
  <2>. QED  BY <1>2, <2>1, WayKept DEF parserVars
<1>10. \A t \in Sockets : conn'[t] = "none" => requests'[t] = <<>>
  BY <1>2 DEF Ways, Queues
<1>. QED  BY <1>2, <1>8, <1>9, <1>10 DEF Ways, parserVars, Receives

LEMMA ClosesWays ==
  ASSUME Queues, Ways, NEW s \in Sockets, ClientCloses(s)
  PROVE  Ways'
<1>1. /\ conn' = [conn EXCEPT ![s] = "closing"] /\ inbox' \in {inbox, [inbox EXCEPT ![s] = <<>>]}
      /\ UNCHANGED <<requests, parserVars>>
  BY DEF ClientCloses
<1>2. conn' \in [Sockets -> {"none", "open", "closing", "gone"}]
      /\ \A t \in Sockets : conn'[t] = IF t = s THEN "closing" ELSE conn[t]
  BY <1>1 DEF Ways
<1>3. CASE UNCHANGED inbox
  <2>1. ASSUME NEW t \in Sockets
        PROVE  WaySane(Way(t)', requests'[t], parser'[t], conn'[t])
    <3>1. Way(t)' = Way(t)
      BY <1>1, <1>3 DEF Way, parserVars
    <3>. QED  BY <1>1, <1>2, <3>1, WayKept DEF parserVars
  <2>. QED  BY <1>1, <1>2, <2>1 DEF Ways, parserVars, Receives
<1>4. CASE inbox' = [inbox EXCEPT ![s] = <<>>]
  <2>1. ASSUME NEW t \in Sockets, t # s
        PROVE  WaySane(Way(t)', requests'[t], parser'[t], conn'[t])
    <3>1. Way(t)' = Way(t)
      BY <1>1, <1>4, <2>1 DEF Queues, Way, parserVars
    <3>. QED  BY <1>1, <1>2, <2>1, <3>1, WayKept DEF parserVars
  <2>2. WaySane(Way(s)', requests'[s], parser'[s], conn'[s])
    <3>1. Way(s)' = chunk[s] \o silent[s]
      <4>1. chunk'[s] = chunk[s] /\ silent'[s] = silent[s] /\ inbox'[s] = <<>>
        BY <1>1, <1>4 DEF Queues, parserVars
      <4>. QED  BY <4>1, WayIsSeq, ConcatEmptySeq DEF Way
    <3>2. WaySane(chunk[s] \o silent[s], requests[s], parser[s], "closing")
      <4>1. PICK v \in Seq(Parts) : v = chunk[s] \o silent[s]
        BY WayIsSeq
      <4>2. WaySane(v \o inbox[s], requests[s], parser[s], conn[s]) /\ inbox[s] \in Seq(Parts)
        BY <4>1, WayIsSeq DEF Ways
      <4>. QED  BY <4>1, <4>2, WaySanePrefix
    <3>. QED  BY <1>1, <1>2, <3>1, <3>2 DEF parserVars
  <2>. QED  BY <1>1, <1>2, <2>1, <2>2 DEF Ways, parserVars, Receives
<1>. QED  BY <1>1, <1>3, <1>4

\* A step of one socket leaves the ways of the others.
LEMMA OneSocketWays ==
  ASSUME Queues, Ways, NEW s \in Sockets, UNCHANGED <<conn, requests>>,
         parser' \in [Sockets -> {"ready", "failed"}],
         \A t \in Sockets \ {s} : /\ chunk'[t] = chunk[t] /\ silent'[t] = silent[t]
                                  /\ inbox'[t] = inbox[t] /\ parser'[t] = parser[t],
         WaySane(Way(s)', requests[s], parser'[s], conn[s]),
         \A t \in Sockets : chunk'[t] # <<>> => Receives(t)'
  PROVE  Ways'
<1>1. ASSUME NEW t \in Sockets, t # s
      PROVE  WaySane(Way(t)', requests'[t], parser'[t], conn'[t])
  <2>1. Way(t)' = Way(t)
    BY <1>1 DEF Way
  <2>. QED  BY <1>1, <2>1, WayKept
<1>. QED  BY <1>1 DEF Ways

\* What the device hands over only moves, announced or not.
LEMMA ReadsWay ==
  ASSUME Queues, Ways, NEW s \in Sockets, ReadIncomingData(s)
  PROVE  Way(s)' = Way(s)
<1>1. PICK n \in 1..Len(inbox[s]) :
        /\ chunk' = [chunk EXCEPT ![s] = silent[s] \o SubSeq(inbox[s], 1, n)]
        /\ inbox' = [inbox EXCEPT ![s] = SubSeq(inbox[s], n + 1, Len(inbox[s]))]
  BY DEF ReadIncomingData
<1>2. silent' = [silent EXCEPT ![s] = <<>>] /\ ~Receives(s)
  BY DEF ReadIncomingData
<1>3. PICK u \in Seq(Parts), v \in Seq(Parts) : u = silent[s] /\ v = inbox[s]
  BY WayIsSeq
<1>n. n \in 1..Len(v) /\ Len(v) \in Nat
  BY <1>3
<1>s. SubSeq(v, 1, n) \in Seq(Parts) /\ SubSeq(v, n + 1, Len(v)) \in Seq(Parts)
  BY <1>n
<1>4. PICK a \in Seq(Parts), b \in Seq(Parts) : a = SubSeq(v, 1, n) /\ b = SubSeq(v, n + 1, Len(v))
  BY <1>s
<1>5. a \o b = v
  BY <1>n, <1>4, SMTT(20)
<1>6. (u \o a) \o b = u \o (a \o b)
  BY PartsAssociate, Zenon
<1>7. /\ (u \o a) \o <<>> = u \o a
      /\ <<>> \o u = u
  BY ConcatParts, ConcatEmptySeq
<1>8. chunk[s] = <<>>
  BY <1>2 DEF Ways
<1>9. chunk'[s] = u \o a /\ silent'[s] = <<>> /\ inbox'[s] = b
  BY <1>1, <1>2, <1>3, <1>4 DEF Queues
<1>10. Way(s)' = (u \o a) \o b
  BY <1>7, <1>9 DEF Way
<1>11. Way(s) = u \o v
  BY <1>3, <1>7, <1>8 DEF Way
<1>. QED  BY <1>5, <1>6, <1>10, <1>11

LEMMA ReadsWays ==
  ASSUME Queues, Ways, NEW s \in Sockets, ReadIncomingData(s)
  PROVE  Ways'
<1>1. PICK n \in 1..Len(inbox[s]) :
        /\ chunk' = [chunk EXCEPT ![s] = silent[s] \o SubSeq(inbox[s], 1, n)]
        /\ inbox' = [inbox EXCEPT ![s] = SubSeq(inbox[s], n + 1, Len(inbox[s]))]
  BY DEF ReadIncomingData
<1>2. /\ silent' = [silent EXCEPT ![s] = <<>>] /\ receiving' = <<s>> \o receiving
      /\ ~Receives(s) /\ UNCHANGED <<conn, requests, parser>>
  BY DEF ReadIncomingData
<1>3. Way(s)' = Way(s)
  BY ReadsWay
<1>4. WaySane(Way(s)', requests[s], parser'[s], conn[s])
  BY <1>2, <1>3 DEF Ways
<1>5. \A t \in Sockets \ {s} : /\ chunk'[t] = chunk[t] /\ silent'[t] = silent[t]
                               /\ inbox'[t] = inbox[t] /\ parser'[t] = parser[t]
  BY <1>1, <1>2 DEF Queues
<1>6. \A t \in Sockets : t = s \/ Receives(t) => Receives(t)'
  <2>1. PICK q \in Seq(Sockets) : q = receiving
    BY DEF Queues
  <2>2. /\ 1 \in DOMAIN (<<s>> \o q) /\ (<<s>> \o q)[1] = s
        /\ \A i \in DOMAIN q : i + 1 \in DOMAIN (<<s>> \o q) /\ (<<s>> \o q)[i + 1] = q[i]
    OBVIOUS
  <2>. QED  BY <1>2, <2>1, <2>2 DEF Receives
<1>. QED  BY <1>2, <1>4, <1>5, <1>6, OneSocketWays DEF Ways

LEMMA ReadsSilentlyWay ==
  ASSUME Queues, NEW s \in Sockets, ReadSilently(s)
  PROVE  Way(s)' = Way(s)
<1>1. silent' = [silent EXCEPT ![s] = silent[s] \o inbox[s]] /\ inbox' = [inbox EXCEPT ![s] = <<>>] /\ UNCHANGED chunk
  BY DEF ReadSilently
<1>2. PICK u \in Seq(Parts), v \in Seq(Parts), w \in Seq(Parts) :
        u = chunk[s] /\ v = silent[s] /\ w = inbox[s]
  BY WayIsSeq
<1>v. v \o w \in Seq(Parts)
  BY ConcatProperties
<1>3. u \o (v \o w) = (u \o v) \o w
  BY PartsAssociate, Zenon
<1>4. u \o (v \o w) \in Seq(Parts)
  BY <1>v, ConcatProperties
<1>5. (u \o (v \o w)) \o <<>> = u \o (v \o w)
  BY <1>4, ConcatEmptySeq
<1>6. chunk'[s] = u /\ silent'[s] = v \o w /\ inbox'[s] = <<>>
  BY <1>1, <1>2 DEF Queues
<1>. QED  BY <1>2, <1>3, <1>5, <1>6 DEF Way

LEMMA ReadsSilentlyWays ==
  ASSUME Queues, Ways, NEW s \in Sockets, ReadSilently(s)
  PROVE  Ways'
<1>1. /\ silent' = [silent EXCEPT ![s] = silent[s] \o inbox[s]] /\ inbox' = [inbox EXCEPT ![s] = <<>>]
      /\ UNCHANGED <<conn, requests, chunk, parser, receiving>>
  BY DEF ReadSilently
<1>2. Way(s)' = Way(s)
  BY ReadsSilentlyWay
<1>3. \A t \in Sockets \ {s} : silent'[t] = silent[t] /\ inbox'[t] = inbox[t]
  BY <1>1 DEF Queues
<1>. QED  BY <1>1, <1>2, <1>3, OneSocketWays DEF Ways, Receives

\* The parser takes the first part of its chunk.
LEMMA ConsumesWay ==
  ASSUME Queues, NEW s \in Sockets, chunk[s] # <<>>, Consume(s), UNCHANGED <<inbox, silent>>
  PROVE  Way(s) # <<>> /\ Way(s)' = Tail(Way(s)) /\ Way(s)[1] = Head(chunk[s])
<1>1. chunk' = [chunk EXCEPT ![s] = Tail(chunk[s])]
  BY DEF Consume
<1>2. PICK u \in Seq(Parts), v \in Seq(Parts), w \in Seq(Parts) :
        u = chunk[s] /\ v = silent[s] /\ w = inbox[s]
  BY WayIsSeq
<1>3. chunk'[s] = Tail(u) /\ silent'[s] = v /\ inbox'[s] = w /\ u # <<>>
  BY <1>1, <1>2 DEF Queues
<1>u. u # <<>>
  BY <1>3
<1>4. /\ u \o v \o w # <<>> /\ (u \o v \o w)[1] = Head(u)
      /\ Tail(u \o v \o w) = Tail(u) \o v \o w
  BY <1>u, TailOfParts, ZenonT(60)
<1>5. Way(s) = u \o v \o w /\ Way(s)' = Tail(u) \o v \o w
  BY <1>2, <1>3 DEF Way
<1>. QED  BY <1>2, <1>4, <1>5

\* It fails if that is a refused head.
LEMMA ParsesWays ==
  ASSUME Queues, Ways, NEW s \in Sockets, chunk[s] # <<>>, Consume(s),
         UNCHANGED <<conn, requests, inbox, silent, receiving>>,
         \/ UNCHANGED parser /\ ~RefusedHead(Head(chunk[s]))
         \/ ParserFails(s)
  PROVE  Ways'
<1>1. chunk' = [chunk EXCEPT ![s] = Tail(chunk[s])]
  BY DEF Consume
<1>2. Way(s) # <<>> /\ Way(s)' = Tail(Way(s)) /\ Way(s)[1] = Head(chunk[s])
  BY ConsumesWay
<1>3. /\ parser' \in [Sockets -> {"ready", "failed"}]
      /\ \A t \in Sockets \ {s} : parser'[t] = parser[t]
      /\ parser'[s] = "ready" => parser[s] = "ready" /\ ~RefusedHead(Way(s)[1])
  BY <1>2 DEF Ways, ParserFails
<1>4. WaySane(Tail(Way(s)), requests[s], parser'[s], conn[s])
  <2>1. PICK w \in Seq(Parts) : w = Way(s)
    BY WayIsSeq
  <2>2. WaySane(w, requests[s], parser[s], conn[s])
    BY <2>1 DEF Ways
  <2>. QED  BY <1>2, <1>3, <2>1, <2>2, WaySaneTail
<1>5. \A t \in Sockets : chunk'[t] # <<>> => Receives(t)'
  BY <1>1 DEF Queues, Ways, Receives
<1>. QED  BY <1>1, <1>2, <1>3, <1>4, <1>5, OneSocketWays DEF Queues

LEMMA ReturnsWays ==
  ASSUME Queues, Ways, StackType, ReceiveReturns
  PROVE  Ways'
<1>1. PICK s \in Sockets : s = Head(receiving)
  BY ReceiverOnTop DEF ReceiveReturns
<1>2. /\ chunk[s] = <<>> \/ parser[s] = "failed"
      /\ chunk' = [chunk EXCEPT ![s] = <<>>] /\ receiving' = Tail(receiving)
      /\ UNCHANGED <<conn, requests, inbox, silent, parser>>
  BY <1>1 DEF ReceiveReturns, linkVars
<1>3. chunk'[s] = <<>> /\ \A t \in Sockets \ {s} : chunk'[t] = chunk[t]
  BY <1>2 DEF Queues
<1>4. WaySane(Way(s)', requests[s], parser'[s], conn[s])
  <2>1. CASE chunk[s] = <<>>
    <3>1. Way(s)' = Way(s)
      BY <1>2, <1>3, <2>1 DEF Way
    <3>. QED  BY <1>2, <3>1 DEF Ways
  <2>2. CASE parser[s] = "failed"
    <3>1. PICK u \in Seq(Parts), v \in Seq(Parts) : u = chunk[s] /\ v = silent[s] \o inbox[s]
      BY WayIsSeq
    <3>2. WaySane(u \o v, requests[s], parser[s], conn[s])
      BY <3>1, WayIsSeq DEF Ways
    <3>3. WaySane(v, requests[s], "failed", conn[s])
      BY <3>2, WaySaneSuffix
    <3>4. Way(s)' = v
      <4>1. <<>> \o silent[s] = silent[s]
        BY WayIsSeq, ConcatEmptySeq
      <4>. QED  BY <1>2, <1>3, <3>1, <4>1 DEF Way
    <3>. QED  BY <1>2, <2>2, <3>3, <3>4
  <2>. QED  BY <1>2, <2>1, <2>2
<1>5. \A t \in Sockets : chunk'[t] # <<>> => Receives(t)'
  <2>. SUFFICES ASSUME NEW t \in Sockets, t # s, Receives(t) PROVE Receives(t)'
    BY <1>3 DEF Ways
  <2>1. PICK i \in DOMAIN receiving : receiving[i] = t
    BY DEF Receives
  <2>2. PICK q \in Seq(Sockets) : q = receiving
    BY DEF Queues
  <2>3. q # <<>> /\ Head(q) = q[1] /\ i \in DOMAIN q
    BY <2>1, <2>2
  <2>4. i # 1
    BY <1>1, <2>1, <2>2, <2>3
  <2>5. i - 1 \in DOMAIN Tail(q) /\ Tail(q)[i - 1] = q[i]
    BY <2>3, <2>4
  <2>. QED  BY <1>2, <2>1, <2>2, <2>5 DEF Receives
<1>. QED  BY <1>2, <1>3, <1>4, <1>5, OneSocketWays DEF Ways

LEMMA NextWays ==
  ASSUME Queues, StackType, Ways, [HttpNext]_vars
  PROVE  Ways'
<1>1. ASSUME \A s \in Sockets : conn'[s] \in {conn[s], "gone"}, UNCHANGED <<requests, inbox, parserVars>>,
             conn' \in [Sockets -> {"none", "open", "closing", "gone"}]
      PROVE  Ways'
  <2>1. ASSUME NEW s \in Sockets PROVE WaySane(Way(s)', requests'[s], parser'[s], conn'[s])
    <3>1. Way(s)' = Way(s)
      BY <1>1 DEF Way, parserVars
    <3>. QED  BY <1>1, <3>1, WayKept DEF parserVars
  <2>. QED  BY <1>1, <2>1 DEF Ways, parserVars, Receives
<1>2. ASSUME NEW s \in Sockets, IncomingConnection(s) PROVE Ways'
  <2>1. /\ conn[s] = "none" /\ conn' = [conn EXCEPT ![s] = "open"]
        /\ UNCHANGED <<requests, inbox, parserVars>>
    BY <1>2 DEF IncomingConnection
  <2>2. ASSUME NEW t \in Sockets PROVE Way(t)' = Way(t)
    BY <2>1 DEF Way, parserVars
  <2>3. ASSUME NEW t \in Sockets, t # s PROVE WaySane(Way(t)', requests'[t], parser'[t], conn'[t])
    BY <2>1, <2>2, <2>3, WayKept DEF parserVars, Ways
  <2>4. WaySane(Way(s)', requests'[s], parser'[s], conn'[s])
    <3>1. WaySane(Way(s), <<>>, parser[s], conn[s]) /\ requests'[s] = <<>> /\ parser'[s] = parser[s]
      BY <2>1 DEF Ways, parserVars
    <3>2. WaySane(Way(s), <<>>, parser[s], conn'[s])
      BY <3>1 DEF WaySane
    <3>. QED  BY <2>2, <3>1, <3>2
  <2>. QED  BY <2>1, <2>3, <2>4 DEF Ways, parserVars, Receives
<1>3. ASSUME NEW S, Disconnected(S), UNCHANGED <<requests, inbox, parserVars>> PROVE Ways'
  BY <1>1, <1>3 DEF Disconnected, Ways
<1>4. ASSUME UNCHANGED <<linkVars, parserVars>> PROVE Ways'
  BY <1>1, <1>4 DEF linkVars, Ways
<1>5. ASSUME NEW s \in Sockets, HeadersComplete(s) PROVE Ways'
  <2>1. \/ UNCHANGED parser /\ ~RefusedHead(Head(chunk[s]))
        \/ ParserFails(s)
    BY <1>5 DEF HeadersComplete, RefusedHead
  <2>. QED  BY <1>5, <2>1, ParsesWays DEF HeadersComplete, Parsing, linkVars
<1>6. ASSUME NEW s \in Sockets, MessageComplete(s) PROVE Ways'
  BY <1>6, ParsesWays DEF MessageComplete, Parsing, RefusedHead, linkVars
<1>7. ReceiveStep => Ways'
  BY <1>4, <1>5, <1>6, ReturnsWays DEF ReceiveStep, ReceiveGoesAstray
<1>8. (\E r \in Requests : TaskDue(r)) \/ MethodDue \/ RegistryStep \/ UNCHANGED vars
      => UNCHANGED <<linkVars, parserVars>>
  BY DEF TaskDue, MethodDue, RegistryStep, vars, httpVars
<1>9. ServerDestroyed \/ (\E then \in {"listening", "closed"} : CloseServer(then)) => Ways'
  BY <1>3 DEF ServerDestroyed, CloseServer
<1>10. ASSUME NEW s \in Sockets, ClientStep(s) \/ SocketStep(s) PROVE Ways'
  BY <1>2, <1>3, <1>4, <1>10, SendsWays, ClosesWays, ReadsWays, ReadsSilentlyWays
     DEF ClientStep, SocketStep, DeviceDisconnects, DeferredDelete, httpVars
<1>. QED  BY <1>4, <1>7, <1>8, <1>9, <1>10 DEF HttpNext

-----------------------------------------------------------------------------
(* Which requests reach a service, and as what. *)

\* Each request is sent once, and a message is processed only for one that was.
SentOnce ==
  /\ \A s, t \in Sockets : \A i \in DOMAIN requests[s], j \in DOMAIN requests[t] :
       requests[s][i].req = requests[t][j].req => s = t /\ i = j
  /\ \A r \in Requests : kind[r] # "none" => Sent(r)

LEMMA InitLedger == HttpInit => SentOnce /\ RefusedNeverServed
  BY DEF HttpInit, ProviderInit, SentOnce, RefusedNeverServed

\* Requests are added by clients, kinds by onMessageComplete.
LEMMA LedgerCases ==
  ASSUME [HttpNext]_vars
  PROVE  \/ \E s \in Sockets, r \in Requests, post \in Posts : ClientSends(s, r, post)
         \/ \E s \in Sockets : MessageComplete(s)
         \/ UNCHANGED <<requests, kind>>
<1>1. ASSUME NEW s \in Sockets, ClientCloses(s) \/ SocketStep(s) PROVE UNCHANGED <<requests, kind>>
  BY <1>1 DEF ClientCloses, SocketStep, IncomingConnection, SocketCreated, DeviceDisconnects, DeferredDelete,
     SocketsDeleted, ReadIncomingData, ReadSilently, providerVars, requestVars, httpVars, linkVars
<1>2. (\E s \in Sockets : HeadersComplete(s)) \/ ReceiveReturns \/ ReceiveGoesAstray
      => UNCHANGED <<requests, kind>>
  BY DEF HeadersComplete, ReceiveReturns, ReceiveGoesAstray, providerVars, requestVars, linkVars
<1>3. (\E r \in Requests : TaskDue(r)) \/ MethodDue => UNCHANGED <<requests, kind>>
  BY DEF TaskDue, MethodDue, Respond, RespondChecks, RespondPosts, PostedCallRuns, EmitResult, MethodStep,
     BeginDelayedResponse, RunNestedLoop, NestedLoopReturns, MethodReturns, requestVars, linkVars
<1>4. RegistryStep \/ ServerDestroyed \/ (\E then \in {"listening", "closed"} : CloseServer(then))
      => UNCHANGED <<requests, kind>>
  BY DEF RegistryStep, AddService, RemoveService, ServerDestroyed, SocketsDeleted, CloseServer,
     providerVars, requestVars, httpVars, linkVars
<1>5. UNCHANGED vars => UNCHANGED <<requests, kind>>
  BY DEF vars, providerVars, requestVars, httpVars, linkVars
<1>. QED  BY <1>1, <1>2, <1>3, <1>4, <1>5 DEF HttpNext, ClientStep, ReceiveStep

LEMMA SendsLedger ==
  ASSUME Queues, SentOnce, RefusedNeverServed,
         NEW s \in Sockets, NEW r \in Requests, NEW post \in Posts, ClientSends(s, r, post)
  PROVE  SentOnce' /\ RefusedNeverServed'
<1>1. PICK head \in Parts : head.req = r /\ requests' = [requests EXCEPT ![s] = Append(@, head)]
  BY PartsOfRequest DEF ClientSends
<1>2. ~Sent(r) /\ UNCHANGED kind
  BY DEF ClientSends, providerVars, requestVars
<1>3. /\ \A t \in Sockets \ {s} : requests'[t] = requests[t]
      /\ DOMAIN requests'[s] = DOMAIN requests[s] \cup {Len(requests[s]) + 1}
      /\ \A i \in DOMAIN requests[s] : requests'[s][i] = requests[s][i] /\ i \in Nat /\ i < Len(requests[s]) + 1
      /\ requests'[s][Len(requests[s]) + 1] = head
  <2>1. PICK q \in Seq(Parts) : q = requests[s]
    BY DEF Queues
  <2>2. /\ DOMAIN Append(q, head) = DOMAIN q \cup {Len(q) + 1}
        /\ \A i \in DOMAIN q : Append(q, head)[i] = q[i] /\ i \in Nat /\ i < Len(q) + 1
        /\ Append(q, head)[Len(q) + 1] = head
    OBVIOUS
  <2>. QED  BY <1>1, <2>1, <2>2 DEF Queues
<1>4. PICK n : n = Len(requests[s]) + 1
  OBVIOUS
<1>5. \A t \in Sockets : \A i \in DOMAIN requests'[t] :
        \/ i \in DOMAIN requests[t] /\ requests'[t][i] = requests[t][i]
        \/ t = s /\ i = n /\ requests'[t][i].req = r
  BY <1>1, <1>3, <1>4
<1>6. \A t \in Sockets : \A i \in DOMAIN requests[t] : requests[t][i].req # r
  BY <1>2 DEF Sent
<1>7. kind[r] = "none"
  BY <1>2 DEF SentOnce
<1>8. SentOnce'
  <2>1. \A q \in Requests : Sent(q) => Sent(q)'
    BY <1>3 DEF Sent
  <2>2. ASSUME NEW t \in Sockets, NEW u \in Sockets, NEW i \in DOMAIN requests'[t], NEW j \in DOMAIN requests'[u],
               requests'[t][i].req = requests'[u][j].req
        PROVE  t = u /\ i = j
    BY <1>5, <1>6, <2>2 DEF SentOnce
  <2>. QED  BY <1>2, <2>1, <2>2 DEF SentOnce
<1>9. RefusedNeverServed'
  <2>. SUFFICES ASSUME NEW t \in Sockets, NEW i \in DOMAIN requests'[t], NEW j \in DOMAIN requests'[t],
                       i <= j, requests'[t][i].head = "refused"
                PROVE  kind[requests'[t][j].req] = "none"
    BY <1>2 DEF RefusedNeverServed
  <2>1. CASE t = s /\ j = n
    BY <1>1, <1>3, <1>4, <1>7, <2>1
  <2>2. CASE ~(t = s /\ j = n)
    <3>1. j \in DOMAIN requests[t] /\ requests'[t][j] = requests[t][j]
      BY <1>5, <2>2
    <3>2. ~(t = s /\ i = n)
      BY <1>3, <1>4, <3>1, <2>2
    <3>3. i \in DOMAIN requests[t] /\ requests'[t][i] = requests[t][i]
      BY <1>5, <3>2
    <3>. QED  BY <3>1, <3>3 DEF RefusedNeverServed
  <2>. QED  BY <2>1, <2>2
<1>. QED  BY <1>8, <1>9

\* onMessageComplete: the body's request has no refused one before it.
LEMMA CompletesLedger ==
  ASSUME Queues, DataType, Ways, SentOnce, RefusedNeverServed,
         NEW s \in Sockets, MessageComplete(s)
  PROVE  SentOnce' /\ RefusedNeverServed'
<1>1. PICK part \in Parts : part = Head(chunk[s])
  BY HeadTailProperties DEF Queues, MessageComplete, Parsing
<1>2. /\ chunk[s] # <<>> /\ part.part = "body" /\ parser[s] = "ready"
      /\ AppendBody(s, part.body) /\ UNCHANGED requests
      /\ ProcessMessage(s, part.req, Parsed(payload'[s]))
  BY <1>1 DEF MessageComplete, Parsing, linkVars
<1>3. PICK k : k = Parsed(payload'[s])
  OBVIOUS
<1>4. \A q \in Requests : kind'[q] = IF q = part.req THEN k ELSE kind[q]
  <2>1. Received(s, part.req, k)
    BY <1>2, <1>3 DEF ProcessMessage, Ignore, Reject, DispatchFails, CallMethod, BecomesCurrent
  <2>. QED  BY <2>1 DEF Received, Noted, DataType
<1>5. 1 \in DOMAIN Way(s) /\ Way(s)[1] = part
  <2>1. PICK u \in Seq(Parts), v \in Seq(Parts), w \in Seq(Parts) :
          u = chunk[s] /\ v = silent[s] /\ w = inbox[s]
    BY WayIsSeq
  <2>2. u # <<>>
    BY <1>2, <2>1
  <2>3. u \o v \o w # <<>> /\ (u \o v \o w)[1] = Head(u)
    BY <2>2, TailOfParts
  <2>4. Way(s) = u \o v \o w
    BY <2>1 DEF Way
  <2>5. PICK x \in Seq(Parts) : x = Way(s)
    BY WayIsSeq
  <2>6. x # <<>> => 1 \in DOMAIN x
    OBVIOUS
  <2>. QED  BY <1>1, <2>1, <2>3, <2>4, <2>5, <2>6
<1>6. PICK j \in DOMAIN requests[s] : requests[s][j].req = part.req /\ requests[s][j].body = part.body
  BY <1>5 DEF Ways, WaySane
<1>7. \A i \in DOMAIN requests[s] : i <= j => requests[s][i].head # "refused"
  <2>. SUFFICES ASSUME NEW i \in DOMAIN requests[s], i <= j, requests[s][i].head = "refused"
                PROVE  FALSE
    OBVIOUS
  <2>1. PICK l \in DOMAIN Way(s) : l < 1
    BY <1>2, <1>5, <1>6 DEF Ways, WaySane
  <2>2. PICK x \in Seq(Parts) : x = Way(s)
    BY WayIsSeq
  <2>3. \A m \in DOMAIN x : ~(m < 1)
    OBVIOUS
  <2>. QED  BY <2>1, <2>2, <2>3
<1>8. \A t \in Sockets : \A i \in DOMAIN requests[t] : requests[t][i].req \in Requests
  BY PartFields DEF Queues
<1>9. \A t \in Sockets : \A i \in DOMAIN requests[t] :
        requests[t][i].req = part.req => t = s /\ i = j
  BY <1>6 DEF SentOnce
<1>10. SentOnce'
  <2>1. Sent(part.req)
    BY <1>6 DEF Sent
  <2>. QED  BY <1>2, <1>4, <2>1 DEF SentOnce, Sent
<1>11. RefusedNeverServed'
  BY <1>2, <1>4, <1>7, <1>8, <1>9 DEF RefusedNeverServed
<1>. QED  BY <1>10, <1>11

LEMMA NextLedger ==
  ASSUME Queues, DataType, Ways, SentOnce, RefusedNeverServed, [HttpNext]_vars
  PROVE  SentOnce' /\ RefusedNeverServed'
<1>1. ASSUME UNCHANGED <<requests, kind>> PROVE SentOnce' /\ RefusedNeverServed'
  BY <1>1 DEF SentOnce, RefusedNeverServed, Sent
<1>. QED  BY <1>1, LedgerCases, SendsLedger, CompletesLedger

LEMMA LedgerHolds == HttpSpec => []RefusedNeverServed
<1>1. HttpInit => Ways /\ SentOnce /\ RefusedNeverServed
  BY InitWays, InitLedger
<1>2. Queues /\ ProviderTypeOK /\ Ways /\ [HttpNext]_vars => Ways'
  BY NextWays, TypeParts
<1>3. Queues /\ ProviderTypeOK /\ Ways /\ SentOnce /\ RefusedNeverServed /\ [HttpNext]_vars
      => SentOnce' /\ RefusedNeverServed'
  BY NextLedger, TypeParts
<1>. QED  BY <1>1, <1>2, <1>3, QueuesHold, PTL DEF HttpSpec

\* A request whose method or headers onHeadersComplete refuses never reaches a
\* service, and nothing behind it on its connection does: whatever is read in
\* which pieces, in whichever nested loops, its head stops the parser first.
THEOREM RefusedNeverServedHolds == HttpSpec => []RefusedNeverServed
  BY LedgerHolds, PTL

-----------------------------------------------------------------------------
(* Type correctness, with the alternation of methods and receive loops. *)

TableTypes ==
  /\ serving \in {"listening", "closed", "destroyed"}
  /\ requestSocketLookup \subseteq Sockets
  /\ doomed \in [Sockets -> Nat]
  /\ astray \in BOOLEAN

Alternating == Len(receiving) - Len(stack) \in {0, 1}

LEMMA NextTables ==
  ASSUME TableTypes, StackType, [HttpNext]_vars
  PROVE  TableTypes'
<1>l. Level \in Nat
  BY DEF Level, StackType
<1>1. ASSUME UNCHANGED <<serving, requestSocketLookup, doomed, astray>> PROVE TableTypes'
  BY <1>1 DEF TableTypes
<1>2. ASSUME NEW S, Disconnected(S), serving' \in {"listening", "closed", "destroyed"}, UNCHANGED astray
      PROVE  TableTypes'
  BY <1>l, <1>2 DEF Disconnected, TableTypes
<1>3. ASSUME NEW s \in Sockets, IncomingConnection(s) PROVE TableTypes'
  BY <1>3 DEF IncomingConnection, TableTypes
<1>4. ASSUME NEW s \in Sockets, DeviceDisconnects(s) PROVE TableTypes'
  BY <1>2, <1>4 DEF DeviceDisconnects, outVars, TableTypes
<1>5. ASSUME NEW s \in Sockets, ClientStep(s) \/ DeferredDelete(s) \/ ReadIncomingData(s) \/ ReadSilently(s)
      PROVE  UNCHANGED <<serving, requestSocketLookup, doomed, astray>>
  BY <1>5 DEF ClientStep, ClientSends, ClientCloses, DeferredDelete, ReadIncomingData, ReadSilently,
     httpVars, tableVars, outVars
<1>6. ASSUME WriteData, UNCHANGED tableVars PROVE TableTypes'
  BY <1>6 DEF WriteData, tableVars, TableTypes
<1>7. (\E s \in Sockets : MessageComplete(s)) \/ (\E r \in Requests : TaskDue(r)) \/ MethodDue => TableTypes'
  BY <1>6 DEF MessageComplete, TaskDue, MethodDue
<1>8. (\E s \in Sockets : HeadersComplete(s)) \/ ReceiveReturns \/ RegistryStep \/ UNCHANGED vars
      => UNCHANGED <<serving, requestSocketLookup, doomed, astray>>
  BY DEF HeadersComplete, ReceiveReturns, RegistryStep, vars, httpVars, tableVars, outVars
<1>9. ReceiveGoesAstray => TableTypes'
  BY DEF ReceiveGoesAstray, tableVars, TableTypes
<1>10. ServerDestroyed \/ (\E then \in {"listening", "closed"} : CloseServer(then)) => TableTypes'
  BY <1>2 DEF ServerDestroyed, CloseServer
<1>. QED
  BY <1>1, <1>3, <1>4, <1>5, <1>7, <1>8, <1>9, <1>10 DEF HttpNext, SocketStep, ReceiveStep

\* A frame is pushed by a receive loop that is on top, and popped, or a receive
\* loop entered, by nothing else.
LEMMA NextAlternating ==
  ASSUME Queues, StackType, Alternating, [HttpNext]_vars
  PROVE  Alternating'
<1>n. Len(receiving) \in Nat /\ Len(stack) \in Nat
  BY DEF Queues, StackType
<1>t. /\ ReceiveOnTop => Len(receiving) = Len(stack) + 1
      /\ ~ReceiveOnTop => Len(receiving) = Len(stack)
  BY <1>n DEF ReceiveOnTop, Alternating
<1>1. ASSUME UNCHANGED <<receiving, stack>> PROVE Alternating'
  BY <1>1 DEF Alternating
<1>2. ASSUME NEW s \in Sockets, ReadIncomingData(s) PROVE Alternating'
  <2>1. receiving' = <<s>> \o receiving /\ UNCHANGED stack /\ ~ReceiveOnTop
    BY <1>2 DEF ReadIncomingData, LoopRuns, providerVars, serviceVars
  <2>2. Len(receiving') = Len(receiving) + 1
    BY <2>1 DEF Queues
  <2>. QED  BY <1>n, <1>t, <2>1, <2>2 DEF Alternating
<1>3. CASE ReceiveReturns
  <2>1. receiving' = Tail(receiving) /\ UNCHANGED stack /\ ReceiveOnTop
    BY <1>3 DEF ReceiveReturns, providerVars, serviceVars
  <2>2. Len(receiving') = Len(receiving) - 1
    BY <1>n, <1>t, <2>1 DEF Queues
  <2>. QED  BY <1>n, <1>t, <2>1, <2>2 DEF Alternating
<1>4. ASSUME NEW s \in Sockets, MessageComplete(s) PROVE Alternating'
  <2>1. PICK part \in Parts : part = Head(chunk[s])
    BY <1>4, HeadTailProperties DEF Queues, MessageComplete, Parsing
  <2>2. PICK k : k = Parsed(payload'[s])
    OBVIOUS
  <2>3. ReceiveOnTop /\ UNCHANGED receiving /\ ProcessMessage(s, part.req, k)
    BY <1>4, <2>1, <2>2 DEF MessageComplete, Parsing
  <2>4. CASE UNCHANGED stack
    BY <1>1, <2>3, <2>4
  <2>5. CASE CallMethod(s, part.req, k)
    <3>1. stack' = <<[req |-> part.req, at |-> "fresh", delays |-> FALSE]>> \o stack
      BY <2>5 DEF CallMethod
    <3>2. [req |-> part.req, at |-> "fresh", delays |-> FALSE] \in Frames
      BY PartFields DEF Frames
    <3>3. Len(stack') = Len(stack) + 1
      BY <3>1, <3>2 DEF StackType
    <3>. QED  BY <1>n, <1>t, <2>3, <3>3 DEF Alternating
  <2>. QED  BY <2>3, <2>4, <2>5 DEF ProcessMessage, Ignore, Reject, DispatchFails, serviceVars
<1>5. ASSUME ~ReceiveOnTop, MethodStep, UNCHANGED receiving PROVE Alternating'
  <2>1. stack # <<>> /\ stack \in Seq(Frames)
    BY <1>5, MethodStack DEF StackType
  <2>2. ASSUME NEW f \in Frames, SetTop(f) PROVE Len(stack') = Len(stack)
    BY <2>1, <2>2 DEF SetTop
  <2>3. CASE MethodReturns
    <3>1. Len(stack') = Len(stack) - 1
      BY <2>1, <2>3 DEF MethodReturns
    <3>. QED  BY <1>n, <1>t, <1>5, <3>1 DEF Alternating
  <2>4. CASE ~MethodReturns
    <3>1. PICK f : SetTop(f)
      BY <1>5, <2>4 DEF MethodStep, BeginDelayedResponse, RunNestedLoop, NestedLoopReturns
    <3>2. Tail(stack) \in Seq(Frames) /\ Len(Tail(stack)) = Len(stack) - 1
      BY <2>1
    <3>3. Len(stack') = Len(stack)
      BY <1>n, <3>1, <3>2 DEF SetTop
    <3>. QED  BY <1>5, <3>3 DEF Alternating
  <2>. QED  BY <2>3, <2>4
<1>6. ASSUME NEW s \in Sockets, ClientStep(s) \/ IncomingConnection(s) \/ DeviceDisconnects(s)
                                \/ DeferredDelete(s) \/ ReadSilently(s)
      PROVE  UNCHANGED <<receiving, stack>>
  BY <1>6 DEF ClientStep, ClientSends, ClientCloses, IncomingConnection, SocketCreated, DeviceDisconnects,
     DeferredDelete, SocketsDeleted, ReadSilently, providerVars, serviceVars, httpVars, parserVars
<1>7. (\E s \in Sockets : HeadersComplete(s)) \/ ReceiveGoesAstray \/ RegistryStep \/ ServerDestroyed
      \/ (\E then \in {"listening", "closed"} : CloseServer(then)) \/ UNCHANGED vars
      => UNCHANGED <<receiving, stack>>
  BY DEF HeadersComplete, ReceiveGoesAstray, RegistryStep, AddService, RemoveService, ServerDestroyed,
     SocketsDeleted, CloseServer, vars, providerVars, serviceVars, httpVars, parserVars
<1>8. (\E r \in Requests : TaskDue(r)) => UNCHANGED <<receiving, stack>>
  BY DEF TaskDue, Respond, RespondChecks, RespondPosts, PostedCallRuns, EmitResult, serviceVars, parserVars
<1>9. MethodDue => Alternating'
  BY <1>5 DEF MethodDue, parserVars
<1>. QED
  BY <1>1, <1>2, <1>3, <1>4, <1>6, <1>7, <1>8, <1>9 DEF HttpNext, SocketStep, ReceiveStep

\* Type correctness of the HTTP server; in it, that every method runs inside a
\* readIncomingData of its own, with one more at most on top of them.
THEOREM HttpTypeCorrect == HttpSpec => []HttpTypeOK
<1>1. HttpInit => TableTypes /\ Alternating /\ ResponsesFit /\ Ways
  <2>1. HttpInit => TableTypes
    <3>. SUFFICES ASSUME HttpInit PROVE TableTypes
      OBVIOUS
    <3>1. serving \in {"listening", "closed", "destroyed"} /\ requestSocketLookup \subseteq Sockets
      BY DEF HttpInit
    <3>2. doomed \in [Sockets -> Nat]
      BY DEF HttpInit
    <3>3. astray \in BOOLEAN
      BY DEF HttpInit
    <3>. QED  BY <3>1, <3>2, <3>3 DEF TableTypes
  <2>2. HttpInit => Alternating
    BY DEF HttpInit, ProviderInit, Alternating
  <2>. QED  BY <2>1, <2>2, InitResponses, InitWays
<1>2. Queues /\ ProviderTypeOK /\ TableTypes /\ Alternating /\ ResponsesFit /\ Ways /\ [HttpNext]_vars
      => TableTypes' /\ Alternating' /\ ResponsesFit' /\ Ways'
  BY NextTables, NextAlternating, NextResponses, NextWays, TypeParts
<1>3. Queues /\ ProviderTypeOK /\ TableTypes /\ Alternating /\ ResponsesFit /\ Ways => HttpTypeOK
  BY DEF Queues, TableTypes, Alternating, ResponsesFit, Ways, HttpTypeOK
<1>. QED  BY <1>1, <1>2, <1>3, QueuesHold, PTL DEF HttpSpec

-----------------------------------------------------------------------------
(* What is owed.  A server that has nothing more to do has answered what it  *)
(* was asked and deleted what it closed: the part of the liveness properties *)
(* that is about states.                                                     *)

\* A connection, its two sockets and its device come together.  It is in the
\* lookup until it is gone, and from then on its sockets are to be deleted.
Connections ==
  \A s \in Sockets :
    /\ conn[s] = "none" <=> device[s] = "none"
    /\ conn[s] = "none" <=> life[s] = "none"
    /\ s \in requestSocketLookup <=> conn[s] \in {"open", "closing"}
    /\ conn[s] = "gone" <=> doomed[s] > 0
    /\ life[s] = "deleted" => conn[s] = "gone"

LEMMA DisconnectedConnections ==
  ASSUME Typed, TableTypes, ResponsesFit, Connections, NEW S, S \subseteq requestSocketLookup, Disconnected(S),
         \A s \in Sockets : device'[s] = "none" <=> device[s] = "none",
         \A s \in Sockets : \/ life'[s] = life[s]
                            \/ /\ S = requestSocketLookup
                               /\ life'[s] = (IF life[s] = "alive" THEN "deleted" ELSE life[s])
  PROVE  Connections'
<1>l. Level \in Nat /\ Level > 0
  BY DEF Level, Typed, StackType
<1>. SUFFICES ASSUME NEW s \in Sockets
              PROVE  /\ conn'[s] = "none" <=> device'[s] = "none"
                     /\ conn'[s] = "none" <=> life'[s] = "none"
                     /\ s \in requestSocketLookup' <=> conn'[s] \in {"open", "closing"}
                     /\ conn'[s] = "gone" <=> doomed'[s] > 0
                     /\ life'[s] = "deleted" => conn'[s] = "gone"
  BY DEF Connections
<1>1. /\ conn'[s] = (IF s \in S THEN "gone" ELSE conn[s])
      /\ requestSocketLookup' = requestSocketLookup \ S
      /\ doomed'[s] = IF s \in S THEN Level ELSE doomed[s]
  BY DEF Disconnected
<1>2. life'[s] = "none" <=> life[s] = "none"
  BY DEF Typed, DataType
<1>3. conn[s] \in {"none", "open", "closing", "gone"}
  BY DEF ResponsesFit
<1>4. CASE s \in S
  BY <1>l, <1>1, <1>2, <1>4 DEF Connections
<1>5. CASE s \notin S
  <2>1. /\ conn'[s] = conn[s] /\ doomed'[s] = doomed[s]
        /\ s \in requestSocketLookup' <=> s \in requestSocketLookup
    BY <1>1, <1>5
  <2>2. life'[s] = "deleted" => conn[s] = "gone"
    BY <1>3, <1>5 DEF Connections
  <2>. QED  BY <1>2, <2>1, <2>2 DEF Connections
<1>. QED  BY <1>4, <1>5

LEMMA NextConnections ==
  ASSUME Typed, TableTypes, ResponsesFit, Connections, [HttpNext]_vars
  PROVE  Connections'
<1>1. ASSUME UNCHANGED <<conn, life, requestSocketLookup, doomed>>,
             \A s \in Sockets : device'[s] = "none" <=> device[s] = "none"
      PROVE  Connections'
  BY <1>1 DEF Connections
<1>2. ASSUME NEW s \in Sockets, IncomingConnection(s) PROVE Connections'
  <2>1. /\ conn[s] = "none" /\ conn' = [conn EXCEPT ![s] = "open"] /\ device' = [device EXCEPT ![s] = "open"]
        /\ life' = [life EXCEPT ![s] = "alive"] /\ requestSocketLookup' = requestSocketLookup \cup {s}
        /\ UNCHANGED doomed
    BY <1>2 DEF IncomingConnection, SocketCreated
  <2>2. \A t \in Sockets : /\ conn'[t] = (IF t = s THEN "open" ELSE conn[t])
                           /\ device'[t] = (IF t = s THEN "open" ELSE device[t])
                           /\ life'[t] = (IF t = s THEN "alive" ELSE life[t])
                           /\ t \in requestSocketLookup' <=> t = s \/ t \in requestSocketLookup
    BY <2>1 DEF ResponsesFit, Typed, DataType
  <2>. QED  BY <2>1, <2>2 DEF Connections
<1>3. ASSUME NEW s \in Sockets, ClientCloses(s) PROVE Connections'
  <2>1. /\ conn[s] = "open" /\ conn' = [conn EXCEPT ![s] = "closing"]
        /\ UNCHANGED <<life, requestSocketLookup, doomed, device>>
    BY <1>3 DEF ClientCloses, providerVars, tableVars, outVars
  <2>2. \A t \in Sockets : conn'[t] = IF t = s THEN "closing" ELSE conn[t]
    BY <2>1 DEF ResponsesFit
  <2>. QED  BY <2>1, <2>2 DEF Connections
<1>4. ASSUME NEW s \in Sockets, DeviceDisconnects(s) PROVE Connections'
  <2>1. s \in requestSocketLookup /\ Disconnected({s}) /\ UNCHANGED <<life, device>>
    BY <1>4 DEF DeviceDisconnects, providerVars, outVars
  <2>. QED  BY <2>1, DisconnectedConnections
<1>5. ASSUME NEW s \in Sockets, DeferredDelete(s) PROVE Connections'
  <2>1. /\ doomed[s] >= Level /\ life' = [t \in Sockets |-> IF t \in {s} /\ life[t] = "alive" THEN "deleted" ELSE life[t]]
        /\ UNCHANGED <<conn, requestSocketLookup, doomed, device>>
    BY <1>5 DEF DeferredDelete, DeletionDue, SocketsDeleted, httpVars, linkVars, tableVars, outVars
  <2>2. Level \in Nat /\ Level > 0 /\ doomed[s] \in Nat
    BY DEF Level, Typed, StackType, TableTypes
  <2>3. conn[s] = "gone"
    BY <2>1, <2>2 DEF Connections
  <2>4. \A t \in Sockets : life'[t] = life[t] \/ (t = s /\ life[t] = "alive" /\ life'[t] = "deleted")
    BY <2>1
  <2>. QED  BY <2>1, <2>3, <2>4 DEF Connections
<1>6. ASSUME NEW then \in {"listening", "closed"}, CloseServer(then) PROVE Connections'
  <2>1. /\ Disconnected(requestSocketLookup) /\ UNCHANGED life
        /\ device' = [s \in Sockets |-> IF device[s] = "none" THEN "none" ELSE "freed"]
    BY <1>6 DEF CloseServer, providerVars
  <2>. QED  BY <2>1, DisconnectedConnections
<1>7. CASE ServerDestroyed
  <2>1. /\ Disconnected(requestSocketLookup)
        /\ device' = [s \in Sockets |-> IF device[s] = "none" THEN "none" ELSE "freed"]
        /\ life' = [s \in Sockets |-> IF s \in Sockets /\ life[s] = "alive" THEN "deleted" ELSE life[s]]
    BY <1>7 DEF ServerDestroyed, SocketsDeleted
  <2>. QED  BY <2>1, DisconnectedConnections
<1>8. ASSUME NEW s \in Sockets, (\E r \in Requests, post \in Posts : ClientSends(s, r, post))
                                \/ ReadIncomingData(s) \/ ReadSilently(s)
      PROVE  UNCHANGED <<conn, life, requestSocketLookup, doomed, device>>
  BY <1>8 DEF ClientSends, ReadIncomingData, ReadSilently, providerVars, tableVars, outVars
<1>9. ASSUME NEW s \in Sockets, HeadersComplete(s) PROVE Connections'
  <2>1. UNCHANGED <<conn, life, requestSocketLookup, doomed>>
    BY <1>9 DEF HeadersComplete, providerVars, linkVars, tableVars
  <2>2. UNCHANGED device \/ device' = [device EXCEPT ![s] = IF @ = "open" THEN "closed" ELSE @]
    BY <1>9 DEF HeadersComplete, SendResponse, AfterResponse
  <2>3. \A t \in Sockets : device'[t] = "none" <=> device[t] = "none"
    BY <2>2 DEF ResponsesFit
  <2>. QED  BY <1>1, <2>1, <2>3
<1>10. ASSUME WriteData, UNCHANGED <<linkVars, tableVars, life>> PROVE Connections'
  <2>1. \A t \in Sockets : device'[t] = "none" <=> device[t] = "none"
    BY <1>10 DEF WriteData, AfterResponse
  <2>. QED  BY <1>1, <1>10, <2>1 DEF linkVars, tableVars
<1>11. ASSUME NEW s \in Sockets, MessageComplete(s) PROVE Connections'
  BY <1>10, <1>11 DEF MessageComplete, ProcessMessage, Ignore, Reject, DispatchFails, CallMethod
<1>12. MethodDue \/ (\E r \in Requests : TaskDue(r)) => Connections'
  BY <1>10 DEF MethodDue, MethodStep, BeginDelayedResponse, RunNestedLoop, NestedLoopReturns, MethodReturns,
     TaskDue, Respond, RespondChecks, RespondPosts, PostedCallRuns, EmitResult
<1>13. ReceiveReturns \/ ReceiveGoesAstray \/ RegistryStep \/ UNCHANGED vars
       => UNCHANGED <<conn, life, requestSocketLookup, doomed, device>>
  BY DEF ReceiveReturns, ReceiveGoesAstray, RegistryStep, AddService, RemoveService, vars, providerVars, httpVars,
     linkVars, tableVars, outVars
<1>. QED
  BY <1>1, <1>2, <1>3, <1>4, <1>5, <1>6, <1>7, <1>8, <1>9, <1>11, <1>12, <1>13
     DEF HttpNext, ClientStep, SocketStep, ReceiveStep

\* A client has had its response, or can have none any more.
Served(s) == responses[s] # <<>> \/ device[s] = "freed"

\* What has been written to a socket has become a response, unless the device
\* had gone; so has what makes a parser fail.
Responding ==
  \A s \in Sockets :
    /\ device[s] = "closed" => responses[s] # <<>>
    /\ parser[s] = "failed" => Served(s)
    /\ s \in Heard => Served(s)

LEMMA HasRequest ==
  ASSUME Queues, Ways, NEW s \in Sockets, chunk[s] # <<>>
  PROVE  /\ requests[s] # <<>> /\ conn[s] # "none" /\ Head(chunk[s]) \in Parts
         /\ 1 \in DOMAIN Way(s) /\ Way(s)[1] = Head(chunk[s])
<1>1. PICK u \in Seq(Parts), v \in Seq(Parts), w \in Seq(Parts) :
        u = chunk[s] /\ v = silent[s] /\ w = inbox[s]
  BY WayIsSeq
<1>2. u # <<>> /\ Head(u) \in Parts
  BY <1>1, HeadTailProperties
<1>3. u \o v \o w # <<>> /\ (u \o v \o w)[1] = Head(u)
  BY <1>2, TailOfParts
<1>4. Way(s) = u \o v \o w
  BY <1>1 DEF Way
<1>5. PICK x \in Seq(Parts) : x = Way(s)
  BY WayIsSeq
<1>6. x # <<>> => 1 \in DOMAIN x
  OBVIOUS
<1>7. 1 \in DOMAIN Way(s) /\ Way(s)[1] = Head(u)
  BY <1>3, <1>4, <1>5, <1>6
<1>8. \E j \in DOMAIN requests[s] : requests[s][j].req = Way(s)[1].req
  BY <1>7 DEF Ways, WaySane
<1>9. requests[s] # <<>>
  BY <1>8
<1>. QED  BY <1>1, <1>2, <1>7, <1>9 DEF Ways

LEMMA SendResponseServes ==
  ASSUME ResponsesFit, NEW s \in Sockets, NEW r \in Requests, SendResponse(s, r)
  PROVE  \A t \in Sockets :
           /\ device'[t] = (IF t = s /\ device[s] = "open" THEN "closed" ELSE device[t])
           /\ t = s /\ device[s] = "open" => responses'[t] # <<>>
           /\ ~(t = s /\ device[s] = "open") => responses'[t] = responses[t]
<1>1. device' = [device EXCEPT ![s] = IF @ = "open" THEN "closed" ELSE @]
  BY DEF SendResponse, AfterResponse
<1>2. Append(responses[s], r) # <<>>
  BY AppendProperties DEF ResponsesFit
<1>. QED  BY <1>1, <1>2 DEF SendResponse, ResponsesFit

LEMMA WriteDataServes ==
  ASSUME ResponsesFit, WriteData
  PROVE  \A t \in Sockets :
           LET writes == device[t] = "open" /\ \E r \in Requests : Told(r, t)
           IN  /\ device'[t] = (IF writes THEN "closed" ELSE device[t])
               /\ writes => responses'[t] # <<>>
               /\ ~writes => responses'[t] = responses[t]
<1>. SUFFICES ASSUME NEW t \in Sockets
              PROVE  LET writes == device[t] = "open" /\ \E r \in Requests : Told(r, t)
                     IN  /\ device'[t] = (IF writes THEN "closed" ELSE device[t])
                         /\ writes => responses'[t] # <<>>
                         /\ ~writes => responses'[t] = responses[t]
  OBVIOUS
<1>. DEFINE first == CHOOSE r \in Requests : Told(r, t)
<1>1. (\E r \in Requests : Told(r, t)) => first \in Requests
  OBVIOUS
<1>2. responses[t] \in Seq(Requests)
  BY DEF ResponsesFit
<1>3. /\ device'[t] = (IF device[t] = "open" /\ (\E r \in Requests : Told(r, t)) THEN "closed" ELSE device[t])
      /\ responses'[t] = IF device[t] = "open" /\ (\E r \in Requests : Told(r, t))
                         THEN Append(responses[t], first) ELSE responses[t]
  BY DEF WriteData, AfterResponse
<1>. HIDE DEF first
<1>4. (\E r \in Requests : Told(r, t)) => Append(responses[t], first) # <<>>
  BY <1>1, <1>2, AppendProperties
<1>. QED  BY <1>3, <1>4

\* The steps that write nothing to any socket.
LEMMA OnlyWriteDataTells ==
  ASSUME [HttpNext]_vars
  PROVE  WriteData \/ UNCHANGED answers
<1>1. ASSUME NEW s \in Sockets, ClientStep(s) \/ SocketStep(s) PROVE UNCHANGED answers
  BY <1>1 DEF ClientStep, ClientSends, ClientCloses, SocketStep, IncomingConnection, SocketCreated, DeviceDisconnects,
     DeferredDelete, SocketsDeleted, ReadIncomingData, ReadSilently, providerVars
<1>2. (\E s \in Sockets : HeadersComplete(s)) \/ ReceiveReturns \/ ReceiveGoesAstray \/ RegistryStep \/ ServerDestroyed
      \/ (\E then \in {"listening", "closed"} : CloseServer(then)) \/ UNCHANGED vars
      => UNCHANGED answers
  BY DEF HeadersComplete, ReceiveReturns, ReceiveGoesAstray, RegistryStep, AddService, RemoveService, ServerDestroyed,
     SocketsDeleted, CloseServer, vars, providerVars
<1>3. (\E s \in Sockets : MessageComplete(s)) \/ (\E r \in Requests : TaskDue(r)) \/ MethodDue => WriteData
  BY DEF MessageComplete, TaskDue, MethodDue
<1>. QED  BY <1>1, <1>2, <1>3 DEF HttpNext, ReceiveStep

\* Responses and freed devices stay, and a device is closed by a response.
LEMMA ServedStays ==
  ASSUME Queues, Connections, ResponsesFit, [HttpNext]_vars, NEW s \in Sockets
  PROVE  /\ Served(s) => Served(s)'
         /\ responses[s] # <<>> => responses'[s] # <<>>
         /\ device'[s] = "closed" => device[s] = "closed" \/ responses'[s] # <<>>
<1>. DEFINE Goal == /\ Served(s) => Served(s)'
                    /\ responses[s] # <<>> => responses'[s] # <<>>
                    /\ device'[s] = "closed" => device[s] = "closed" \/ responses'[s] # <<>>
<1>1. ASSUME UNCHANGED <<device, responses>> PROVE Goal
  BY <1>1 DEF Served
<1>2. ASSUME NEW t \in Sockets, IncomingConnection(t) PROVE Goal
  <2>1. conn[t] = "none" /\ device' = [device EXCEPT ![t] = "open"] /\ UNCHANGED responses
    BY <1>2 DEF IncomingConnection
  <2>2. device[t] = "none"
    BY <2>1 DEF Connections
  <2>3. device'[s] = IF s = t THEN "open" ELSE device[s]
    BY <2>1 DEF ResponsesFit
  <2>. QED  BY <2>1, <2>2, <2>3 DEF Served
<1>3. ASSUME device' = [t \in Sockets |-> IF device[t] = "none" THEN "none" ELSE "freed"], UNCHANGED responses
      PROVE  Goal
  BY <1>3 DEF Served
<1>4. CASE WriteData
  BY <1>4, WriteDataServes DEF Served
<1>5. ASSUME NEW t \in Sockets, HeadersComplete(t) PROVE Goal
  <2>1. PICK part \in Parts : part = Head(chunk[t])
    BY <1>5, HeadTailProperties DEF HeadersComplete, Parsing, Queues
  <2>2. part.req \in Requests
    BY PartFields
  <2>3. SendResponse(t, part.req) \/ UNCHANGED <<device, responses>>
    BY <1>5, <2>1 DEF HeadersComplete
  <2>. QED  BY <1>1, <2>2, <2>3, SendResponseServes DEF Served
<1>6. ServerDestroyed \/ (\E then \in {"listening", "closed"} : CloseServer(then)) => Goal
  BY <1>3 DEF ServerDestroyed, CloseServer
<1>7. ASSUME NEW t \in Sockets, ClientStep(t) \/ SocketStep(t) PROVE Goal
  BY <1>1, <1>2, <1>7 DEF ClientStep, ClientSends, ClientCloses, SocketStep, DeviceDisconnects, DeferredDelete,
     ReadIncomingData, ReadSilently, httpVars, outVars
<1>8. (\E t \in Sockets : MessageComplete(t)) \/ (\E r \in Requests : TaskDue(r)) \/ MethodDue => WriteData
  BY DEF MessageComplete, TaskDue, MethodDue
<1>9. ReceiveReturns \/ ReceiveGoesAstray \/ RegistryStep \/ UNCHANGED vars => UNCHANGED <<device, responses>>
  BY DEF ReceiveReturns, ReceiveGoesAstray, RegistryStep, vars, httpVars, outVars
<1>. QED  BY <1>1, <1>4, <1>5, <1>6, <1>7, <1>8, <1>9 DEF HttpNext, ReceiveStep

\* The response of a head that is not accepted.
LEMMA HeadersServe ==
  ASSUME Queues, Ways, Connections, ResponsesFit, Responding, NEW s \in Sockets, HeadersComplete(s),
         Head(chunk[s]).head # "accepted"
  PROVE  Served(s)'
<1>1. PICK part \in Parts : part = Head(chunk[s]) /\ chunk[s] # <<>>
  BY HeadTailProperties DEF HeadersComplete, Parsing, Queues
<1>2. SendResponse(s, part.req) /\ part.req \in Requests
  BY <1>1, PartFields DEF HeadersComplete
<1>3. device[s] \in {"open", "closed", "freed"}
  BY <1>1, HasRequest DEF Connections, ResponsesFit
<1>. QED  BY <1>2, <1>3, SendResponseServes DEF Served, Responding

LEMMA NextResponding ==
  ASSUME Queues, Typed, Reachable, Ways, Connections, ResponsesFit, Responding, [HttpNext]_vars
  PROVE  Responding'
<1>. SUFFICES ASSUME NEW s \in Sockets
              PROVE  /\ device'[s] = "closed" => responses'[s] # <<>>
                     /\ parser'[s] = "failed" => Served(s)'
                     /\ s \in Heard' => Served(s)'
  BY DEF Responding, Served
<1>1. device'[s] = "closed" => responses'[s] # <<>>
  BY ServedStays DEF Responding
<1>2. Served(s) => Served(s)'
  BY ServedStays
<1>3. parser'[s] = "failed" => Served(s)'
  <2>1. ASSUME NEW t \in Sockets, HeadersComplete(t) PROVE parser'[s] = "failed" => Served(s)'
    <3>1. CASE UNCHANGED parser
      BY <1>2, <3>1 DEF Responding
    <3>2. CASE ~UNCHANGED parser
      <4>1. Head(chunk[t]).head = "refused" /\ ParserFails(t)
        BY <2>1, <3>2 DEF HeadersComplete
      <4>2. Served(t)'
        BY <2>1, <4>1, HeadersServe
      <4>3. s # t => parser'[s] = parser[s]
        BY <4>1 DEF ParserFails, Ways
      <4>. QED  BY <1>2, <4>2, <4>3 DEF Responding
    <3>. QED  BY <3>1, <3>2
  <2>2. UNCHANGED parser \/ \E t \in Sockets : HeadersComplete(t)
    <3>1. ASSUME NEW t \in Sockets, ClientStep(t) \/ SocketStep(t) PROVE UNCHANGED parser
      BY <3>1 DEF ClientStep, ClientSends, ClientCloses, SocketStep, IncomingConnection, DeviceDisconnects,
         DeferredDelete, ReadIncomingData, ReadSilently, httpVars, parserVars
    <3>2. (\E t \in Sockets : MessageComplete(t)) \/ ReceiveReturns \/ ReceiveGoesAstray \/ RegistryStep \/ ServerDestroyed
          \/ (\E then \in {"listening", "closed"} : CloseServer(then)) \/ MethodDue
          \/ (\E r \in Requests : TaskDue(r)) \/ UNCHANGED vars
          => UNCHANGED parser
      BY DEF MessageComplete, ReceiveReturns, ReceiveGoesAstray, RegistryStep, ServerDestroyed, CloseServer, MethodDue,
         TaskDue, vars, httpVars, parserVars
    <3>. QED  BY <3>1, <3>2 DEF HttpNext, ReceiveStep
  <2>. QED  BY <1>2, <2>1, <2>2 DEF Responding
<1>4. s \in Heard' => Served(s)'
  <2>1. CASE s \in Heard
    BY <1>2, <2>1 DEF Responding
  <2>2. CASE s \notin Heard
    <3>. SUFFICES ASSUME s \in Heard' PROVE Served(s)'
      OBVIOUS
    <3>1. PICK r \in Requests : answers'[r][s] > 0
      BY DEF Heard
    <3>2. answers'[r][s] # answers[r][s]
      BY <2>2, <3>1 DEF Heard
    <3>3. [ProviderNext]_providerVars
      BY NextRefines DEF Typed
    <3>4. life[s] = "alive"
      BY <3>2, <3>3, NextSilent
    <3>5. device[s] \in {"open", "closed", "freed"}
      BY <3>4 DEF Connections, ResponsesFit
    <3>6. WriteData /\ Told(r, s)
      BY <3>2, OnlyWriteDataTells DEF Told
    <3>. QED  BY <3>5, <3>6, WriteDataServes DEF Served, Responding
  <2>. QED  BY <2>1, <2>2
<1>. QED  BY <1>1, <1>3, <1>4

\* A step appends a request to a way, takes its first part, drops what a parser
\* that failed or a client that left would not have, or leaves it alone.
LEMMA SendsWay ==
  ASSUME Queues, NEW s \in Sockets, NEW r \in Requests, NEW post \in Posts, ClientSends(s, r, post)
  PROVE  \E head \in Parts, body \in Parts :
           /\ head.req = r /\ head.part = "head"
           /\ body.req = r /\ body.part = "body" /\ body.head = head.head /\ body.body = head.body
           /\ Way(s)' = Way(s) \o <<head, body>>
           /\ requests'[s] = Append(requests[s], head)
           /\ \A t \in Sockets \ {s} : Way(t)' = Way(t) /\ requests'[t] = requests[t]
<1>. DEFINE head == [req |-> r, part |-> "head", head |-> post.head, body |-> post.body]
            body == [req |-> r, part |-> "body", head |-> post.head, body |-> post.body]
<1>1. /\ head \in Parts /\ body \in Parts
      /\ head.req = r /\ body.req = r /\ head.part = "head" /\ body.part = "body"
      /\ body.head = head.head /\ body.body = head.body /\ body = [head EXCEPT !.part = "body"]
  BY PartsOfRequest
<1>2. /\ requests' = [requests EXCEPT ![s] = Append(@, head)]
      /\ inbox' = [inbox EXCEPT ![s] = @ \o <<head, body>>]
      /\ UNCHANGED parserVars
  BY <1>1 DEF ClientSends
<1>. HIDE DEF head, body
<1>3. <<head, body>> \in Seq(Parts)
  BY <1>1
<1>4. Way(s)' = Way(s) \o <<head, body>>
  <2>1. inbox'[s] = inbox[s] \o <<head, body>> /\ chunk'[s] = chunk[s] /\ silent'[s] = silent[s]
    BY <1>2 DEF Queues, parserVars
  <2>2. PICK u \in Seq(Parts), v \in Seq(Parts), w \in Seq(Parts) :
          u = chunk[s] \o silent[s] /\ v = inbox[s] /\ w = <<head, body>>
    BY <1>3, WayIsSeq
  <2>3. u \o (v \o w) = (u \o v) \o w
    BY PartsAssociate, Zenon
  <2>. QED  BY <2>1, <2>2, <2>3 DEF Way
<1>5. \A t \in Sockets \ {s} : Way(t)' = Way(t) /\ requests'[t] = requests[t]
  BY <1>2 DEF Queues, Way, parserVars
<1>6. requests'[s] = Append(requests[s], head)
  BY <1>2 DEF Queues
<1>. QED  BY <1>1, <1>4, <1>5, <1>6

LEMMA ClosesWay ==
  ASSUME Queues, NEW s \in Sockets, ClientCloses(s)
  PROVE  /\ \A i \in DOMAIN Way(s)' : i \in DOMAIN Way(s) /\ Way(s)'[i] = Way(s)[i]
         /\ \A t \in Sockets \ {s} : Way(t)' = Way(t)
<1>1. inbox' \in {inbox, [inbox EXCEPT ![s] = <<>>]} /\ UNCHANGED <<chunk, silent>>
  BY DEF ClientCloses, parserVars
<1>2. \A t \in Sockets \ {s} : Way(t)' = Way(t)
  BY <1>1 DEF Queues, Way
<1>3. CASE UNCHANGED inbox
  <2>1. Way(s)' = Way(s)
    BY <1>1, <1>3 DEF Way
  <2>. QED  BY <1>2, <2>1
<1>4. CASE inbox' = [inbox EXCEPT ![s] = <<>>]
  <2>1. PICK v \in Seq(Parts), w \in Seq(Parts) : v = chunk[s] \o silent[s] /\ w = inbox[s]
    BY WayIsSeq
  <2>2. v \o <<>> = v
    OBVIOUS
  <2>3. \A i \in DOMAIN v : i \in DOMAIN (v \o w) /\ (v \o w)[i] = v[i]
    OBVIOUS
  <2>4. inbox'[s] = <<>>
    BY <1>4 DEF Queues
  <2>5. Way(s)' = v /\ Way(s) = v \o w
    BY <1>1, <2>1, <2>2, <2>4 DEF Way
  <2>. QED  BY <1>2, <2>3, <2>5
<1>. QED  BY <1>1, <1>3, <1>4

LEMMA ReturnsWay ==
  ASSUME Queues, StackType, ReceiveReturns, NEW s \in Sockets
  PROVE  \/ Way(s)' = Way(s)
         \/ /\ parser[s] = "failed"
            /\ \E d \in Nat : \A i \in DOMAIN Way(s)' : i + d \in DOMAIN Way(s) /\ Way(s)'[i] = Way(s)[i + d]
<1>1. PICK t \in Sockets : t = Head(receiving)
  BY ReceiverOnTop DEF ReceiveReturns
<1>2. /\ chunk[t] = <<>> \/ parser[t] = "failed"
      /\ chunk' = [chunk EXCEPT ![t] = <<>>] /\ UNCHANGED <<inbox, silent>>
  BY <1>1 DEF ReceiveReturns, linkVars
<1>3. chunk'[s] = IF s = t THEN <<>> ELSE chunk[s]
  BY <1>2 DEF Queues
<1>4. CASE s # t \/ chunk[s] = <<>>
  <2>1. Way(s)' = Way(s)
    BY <1>2, <1>3, <1>4 DEF Way
  <2>. QED  BY <2>1
<1>5. CASE s = t /\ parser[s] = "failed"
  <2>1. PICK u \in Seq(Parts), v \in Seq(Parts) : u = chunk[s] /\ v = silent[s] \o inbox[s]
    BY WayIsSeq
  <2>2. Len(u) \in Nat /\ \A i \in DOMAIN v : i + Len(u) \in DOMAIN (u \o v) /\ v[i] = (u \o v)[i + Len(u)]
    OBVIOUS
  <2>3. Way(s) = u \o v
    BY <2>1, WayIsSeq
  <2>4. Way(s)' = v
    <3>1. <<>> \o silent[s] = silent[s]
      BY WayIsSeq, ConcatEmptySeq
    <3>. QED  BY <1>2, <1>3, <1>5, <2>1, <3>1 DEF Way
  <2>. QED  BY <1>5, <2>2, <2>3, <2>4
<1>. QED  BY <1>2, <1>4, <1>5

LEMMA WaySteps ==
  ASSUME Queues, StackType, Ways, [HttpNext]_vars, NEW s \in Sockets
  PROVE  \/ Way(s)' = Way(s)
         \/ \E r \in Requests, post \in Posts : ClientSends(s, r, post)
         \/ /\ ClientCloses(s)
            /\ \A i \in DOMAIN Way(s)' : i \in DOMAIN Way(s) /\ Way(s)'[i] = Way(s)[i]
         \/ /\ HeadersComplete(s) \/ MessageComplete(s)
            /\ Way(s) # <<>> /\ Way(s)' = Tail(Way(s)) /\ Way(s)[1] = Head(chunk[s])
         \/ /\ parser[s] = "failed"
            /\ \E d \in Nat : \A i \in DOMAIN Way(s)' : i + d \in DOMAIN Way(s) /\ Way(s)'[i] = Way(s)[i + d]
<1>1. ASSUME UNCHANGED <<inbox, chunk, silent>> PROVE Way(s)' = Way(s)
  BY <1>1 DEF Way
<1>2. ASSUME NEW t \in Sockets, NEW r \in Requests, NEW post \in Posts, ClientSends(t, r, post), t # s
      PROVE  Way(s)' = Way(s)
  <2>1. chunk'[s] = chunk[s] /\ silent'[s] = silent[s] /\ inbox'[s] = inbox[s]
    BY <1>2 DEF ClientSends, parserVars, Queues
  <2>. QED  BY <2>1 DEF Way
<1>3. ASSUME NEW t \in Sockets, ReadIncomingData(t) PROVE Way(s)' = Way(s)
  <2>1. CASE t = s
    BY <1>3, <2>1, ReadsWay
  <2>2. CASE t # s
    <3>1. chunk'[s] = chunk[s] /\ inbox'[s] = inbox[s] /\ silent'[s] = silent[s]
      BY <1>3, <2>2 DEF ReadIncomingData, Queues
    <3>. QED  BY <3>1 DEF Way
  <2>. QED  BY <2>1, <2>2
<1>4. ASSUME NEW t \in Sockets, ReadSilently(t) PROVE Way(s)' = Way(s)
  <2>1. CASE t = s
    BY <1>4, <2>1, ReadsSilentlyWay
  <2>2. CASE t # s
    <3>1. chunk'[s] = chunk[s] /\ inbox'[s] = inbox[s] /\ silent'[s] = silent[s]
      BY <1>4, <2>2 DEF ReadSilently, Queues
    <3>. QED  BY <3>1 DEF Way
  <2>. QED  BY <2>1, <2>2
<1>5. ASSUME NEW t \in Sockets, HeadersComplete(t) \/ MessageComplete(t)
      PROVE  \/ Way(s)' = Way(s)
             \/ /\ t = s
                /\ Way(s) # <<>> /\ Way(s)' = Tail(Way(s)) /\ Way(s)[1] = Head(chunk[s])
  <2>1. chunk[t] # <<>> /\ Consume(t) /\ UNCHANGED <<inbox, silent>>
    BY <1>5 DEF HeadersComplete, MessageComplete, Parsing, linkVars
  <2>2. CASE t = s
    BY <2>1, <2>2, ConsumesWay
  <2>3. CASE t # s
    <3>1. chunk'[s] = chunk[s]
      BY <2>1, <2>3 DEF Consume, Queues
    <3>. QED  BY <2>1, <3>1 DEF Way
  <2>. QED  BY <2>2, <2>3
<1>6. ASSUME NEW t \in Sockets, IncomingConnection(t) \/ DeviceDisconnects(t) \/ DeferredDelete(t)
      PROVE  UNCHANGED <<inbox, chunk, silent>>
  BY <1>6 DEF IncomingConnection, DeviceDisconnects, DeferredDelete, httpVars, linkVars, parserVars
<1>7. ReceiveGoesAstray \/ RegistryStep \/ ServerDestroyed \/ MethodDue \/ (\E r \in Requests : TaskDue(r))
      \/ (\E then \in {"listening", "closed"} : CloseServer(then)) \/ UNCHANGED vars
      => UNCHANGED <<inbox, chunk, silent>>
  BY DEF ReceiveGoesAstray, RegistryStep, ServerDestroyed, MethodDue, TaskDue, CloseServer, vars, httpVars,
     linkVars, parserVars
<1>8. ASSUME NEW t \in Sockets, ClientCloses(t)
      PROVE  \/ Way(s)' = Way(s)
             \/ t = s /\ \A i \in DOMAIN Way(s)' : i \in DOMAIN Way(s) /\ Way(s)'[i] = Way(s)[i]
  BY <1>8, ClosesWay
<1>. QED
  BY <1>1, <1>2, <1>3, <1>4, <1>5, <1>6, <1>7, <1>8, ReturnsWay DEF HttpNext, ClientStep, SocketStep, ReceiveStep

\* Each body waits once, and its request has not been processed before.
BodiesOnce ==
  \A s \in Sockets : \A i \in DOMAIN Way(s) :
    Way(s)[i].part = "body" =>
      /\ kind[Way(s)[i].req] = "none"
      /\ \A j \in DOMAIN Way(s) : Way(s)[j].part = "body" /\ Way(s)[j].req = Way(s)[i].req => i = j

LEMMA FirstTwo ==
  ASSUME NEW q \in Seq(Parts), NEW a \in Parts, NEW b \in Parts
  PROVE  /\ DOMAIN q \subseteq Nat
         /\ \A i \in DOMAIN q : i \in DOMAIN (q \o <<a, b>>) /\ (q \o <<a, b>>)[i] = q[i]
         /\ \A i \in DOMAIN (q \o <<a, b>>) :
              \/ i \in DOMAIN q /\ (q \o <<a, b>>)[i] = q[i]
              \/ i = Len(q) + 1 /\ (q \o <<a, b>>)[i] = a
              \/ i = Len(q) + 2 /\ (q \o <<a, b>>)[i] = b
  OBVIOUS

LEMMA TailAt ==
  ASSUME NEW q \in Seq(Parts), q # <<>>
  PROVE  /\ 1 \in DOMAIN q /\ DOMAIN q \subseteq Nat
         /\ \A i \in DOMAIN Tail(q) : i + 1 \in DOMAIN q /\ i + 1 # 1 /\ Tail(q)[i] = q[i + 1]
         /\ DOMAIN Tail(q) \subseteq Nat
  OBVIOUS

\* The requests of one way are those of its client.
LEMMA WayRequests ==
  ASSUME Queues, Ways, NEW s \in Sockets, NEW i \in DOMAIN Way(s)
  PROVE  /\ Way(s)[i] \in Parts /\ i \in Nat
         /\ \E j \in DOMAIN requests[s] :
              /\ requests[s][j].req = Way(s)[i].req /\ requests[s][j].head = Way(s)[i].head
              /\ requests[s][j].body = Way(s)[i].body
<1>1. PICK x \in Seq(Parts) : x = Way(s)
  BY WayIsSeq
<1>2. x[i] \in Parts /\ i \in Nat
  BY <1>1
<1>. QED  BY <1>1, <1>2 DEF Ways, WaySane

\* A way that has lost some of its parts at an end.
LEMMA BodiesOnceCut ==
  ASSUME Queues, BodiesOnce, NEW s \in Sockets, NEW d \in Nat,
         DOMAIN Way(s)' \subseteq Nat,
         \A i \in DOMAIN Way(s)' : i + d \in DOMAIN Way(s) /\ Way(s)'[i] = Way(s)[i + d],
         \A i \in DOMAIN Way(s)' : Way(s)'[i].part = "body" => kind'[Way(s)'[i].req] = kind[Way(s)'[i].req]
  PROVE  \A i \in DOMAIN Way(s)' :
           Way(s)'[i].part = "body" =>
             /\ kind'[Way(s)'[i].req] = "none"
             /\ \A j \in DOMAIN Way(s)' : Way(s)'[j].part = "body" /\ Way(s)'[j].req = Way(s)'[i].req => i = j
<1>. SUFFICES ASSUME NEW i \in DOMAIN Way(s)', Way(s)'[i].part = "body"
              PROVE  /\ kind'[Way(s)'[i].req] = "none"
                     /\ \A j \in DOMAIN Way(s)' :
                          Way(s)'[j].part = "body" /\ Way(s)'[j].req = Way(s)'[i].req => i = j
  OBVIOUS
<1>1. i + d \in DOMAIN Way(s) /\ Way(s)'[i] = Way(s)[i + d]
  OBVIOUS
<1>2. kind[Way(s)[i + d].req] = "none"
  BY <1>1 DEF BodiesOnce
<1>3. ASSUME NEW j \in DOMAIN Way(s)', Way(s)'[j].part = "body", Way(s)'[j].req = Way(s)'[i].req
      PROVE  i = j
  <2>1. j + d \in DOMAIN Way(s) /\ Way(s)'[j] = Way(s)[j + d]
    OBVIOUS
  <2>2. i + d = j + d
    BY <1>1, <1>3, <2>1 DEF BodiesOnce
  <2>. QED  BY <2>2
<1>. QED  BY <1>1, <1>2, <1>3

\* onMessageComplete takes the body it processes out of its way.
LEMMA ProcessesOnce ==
  ASSUME Queues, DataType, NEW s \in Sockets, MessageComplete(s)
  PROVE  LET r == Head(chunk[s]).req
         IN  /\ r \in Requests /\ kind'[r] = Parsed(payload'[s])
             /\ \A q \in Requests \ {r} : kind'[q] = kind[q]
<1>1. PICK part \in Parts : part = Head(chunk[s])
  BY HeadTailProperties DEF Queues, MessageComplete, Parsing
<1>2. PICK k : k = Parsed(payload'[s])
  OBVIOUS
<1>3. Received(s, part.req, k)
  BY <1>1, <1>2 DEF MessageComplete, ProcessMessage, Ignore, Reject, DispatchFails, CallMethod, BecomesCurrent
<1>. QED  BY <1>1, <1>2, <1>3, PartFields DEF Received, Noted, DataType

LEMMA SendsBodies ==
  ASSUME Queues, Ways, SentOnce, BodiesOnce,
         NEW s \in Sockets, NEW r \in Requests, NEW post \in Posts, ClientSends(s, r, post)
  PROVE  BodiesOnce'
<1>1. PICK head \in Parts, body \in Parts :
        /\ head.req = r /\ head.part = "head"
        /\ body.req = r /\ body.part = "body" /\ body.head = head.head /\ body.body = head.body
        /\ Way(s)' = Way(s) \o <<head, body>>
        /\ requests'[s] = Append(requests[s], head)
        /\ \A t \in Sockets \ {s} : Way(t)' = Way(t) /\ requests'[t] = requests[t]
  BY SendsWay, Zenon
<1>2. ~Sent(r) /\ UNCHANGED kind
  BY DEF ClientSends, providerVars, requestVars
<1>3. kind[r] = "none"
  BY <1>2 DEF SentOnce
<1>4. \A i \in DOMAIN Way(s) : Way(s)[i].req # r
  BY <1>2, WayRequests DEF Sent
<1>5. PICK q \in Seq(Parts) : q = Way(s)
  BY WayIsSeq
<1>6. \A i \in DOMAIN Way(s)' :
        \/ i \in DOMAIN Way(s) /\ Way(s)'[i] = Way(s)[i]
        \/ Way(s)'[i] = head
        \/ i = Len(q) + 2 /\ Way(s)'[i] = body
  BY <1>1, <1>5, FirstTwo
<1>7. ASSUME NEW i \in DOMAIN Way(s)', Way(s)'[i].part = "body"
      PROVE  /\ kind'[Way(s)'[i].req] = "none"
             /\ \A j \in DOMAIN Way(s)' : Way(s)'[j].part = "body" /\ Way(s)'[j].req = Way(s)'[i].req => i = j
  <2>1. CASE i \in DOMAIN Way(s) /\ Way(s)'[i] = Way(s)[i]
    BY <1>1, <1>2, <1>4, <1>6, <1>7, <2>1 DEF BodiesOnce
  <2>2. CASE i = Len(q) + 2 /\ Way(s)'[i] = body
    BY <1>1, <1>2, <1>3, <1>4, <1>6, <2>2
  <2>. QED  BY <1>1, <1>6, <1>7, <2>1, <2>2
<1>8. ASSUME NEW t \in Sockets, t # s, NEW i \in DOMAIN Way(t)', Way(t)'[i].part = "body"
      PROVE  /\ kind'[Way(t)'[i].req] = "none"
             /\ \A j \in DOMAIN Way(t)' : Way(t)'[j].part = "body" /\ Way(t)'[j].req = Way(t)'[i].req => i = j
  <2>1. Way(t)' = Way(t)
    BY <1>1, <1>8
  <2>. QED  BY <1>2, <1>8, <2>1 DEF BodiesOnce
<1>. QED  BY <1>7, <1>8 DEF BodiesOnce

LEMMA CompletesBodies ==
  ASSUME Queues, DataType, Ways, SentOnce, BodiesOnce, NEW s \in Sockets, MessageComplete(s)
  PROVE  BodiesOnce'
<1>1. /\ chunk[s] # <<>> /\ Head(chunk[s]).part = "body" /\ Consume(s)
      /\ UNCHANGED <<inbox, silent>>
  BY DEF MessageComplete, Parsing, linkVars
<1>2. Way(s) # <<>> /\ Way(s)' = Tail(Way(s)) /\ Way(s)[1] = Head(chunk[s])
  BY <1>1, ConsumesWay
<1>3. \A t \in Sockets \ {s} : Way(t)' = Way(t)
  BY <1>1 DEF Consume, Queues, Way
<1>4. PICK r \in Requests : r = Way(s)[1].req /\ \A q \in Requests \ {r} : kind'[q] = kind[q]
  BY <1>2, ProcessesOnce
<1>5. PICK q \in Seq(Parts) : q = Way(s)
  BY WayIsSeq
<1>6. /\ 1 \in DOMAIN Way(s) /\ DOMAIN Way(s)' \subseteq Nat
      /\ \A i \in DOMAIN Way(s)' : i + 1 \in DOMAIN Way(s) /\ i + 1 # 1 /\ Way(s)'[i] = Way(s)[i + 1]
  BY <1>2, <1>5, TailAt
<1>7. \A t \in Sockets : \A i \in DOMAIN Way(t) : Way(t)[i].req \in Requests
  BY WayRequests, PartFields
<1>8. ASSUME NEW t \in Sockets, t # s, NEW i \in DOMAIN Way(t)
      PROVE  Way(t)[i].req # r
  <2>1. PICK j \in DOMAIN requests[t] : requests[t][j].req = Way(t)[i].req
    BY WayRequests
  <2>2. PICK k \in DOMAIN requests[s] : requests[s][k].req = r
    BY <1>4, <1>6, WayRequests
  <2>. QED  BY <1>8, <2>1, <2>2 DEF SentOnce
<1>9. ASSUME NEW t \in Sockets, t # s, NEW i \in DOMAIN Way(t)', Way(t)'[i].part = "body"
      PROVE  /\ kind'[Way(t)'[i].req] = "none"
             /\ \A j \in DOMAIN Way(t)' : Way(t)'[j].part = "body" /\ Way(t)'[j].req = Way(t)'[i].req => i = j
  BY <1>3, <1>4, <1>7, <1>8, <1>9 DEF BodiesOnce
<1>10. \A i \in DOMAIN Way(s)' :
         Way(s)'[i].part = "body" => kind'[Way(s)'[i].req] = kind[Way(s)'[i].req]
  <2>. SUFFICES ASSUME NEW i \in DOMAIN Way(s)', Way(s)'[i].part = "body"
                PROVE  kind'[Way(s)'[i].req] = kind[Way(s)'[i].req]
    OBVIOUS
  <2>1. i + 1 \in DOMAIN Way(s) /\ i + 1 # 1 /\ Way(s)'[i] = Way(s)[i + 1]
    BY <1>6
  <2>2. Way(s)[i + 1].req # r
    BY <1>1, <1>2, <1>4, <1>6, <2>1 DEF BodiesOnce
  <2>. QED  BY <1>4, <1>7, <2>1, <2>2
<1>11. \A i \in DOMAIN Way(s)' :
         Way(s)'[i].part = "body" =>
           /\ kind'[Way(s)'[i].req] = "none"
           /\ \A j \in DOMAIN Way(s)' : Way(s)'[j].part = "body" /\ Way(s)'[j].req = Way(s)'[i].req => i = j
  BY <1>6, <1>10, BodiesOnceCut
<1>. QED  BY <1>9, <1>11 DEF BodiesOnce

LEMMA NextBodies ==
  ASSUME Queues, Typed, Ways, SentOnce, BodiesOnce, [HttpNext]_vars
  PROVE  BodiesOnce'
<1>1. ASSUME NEW s \in Sockets, NEW r \in Requests, NEW post \in Posts, ClientSends(s, r, post)
      PROVE  BodiesOnce'
  BY <1>1, SendsBodies
<1>2. ASSUME NEW s \in Sockets, MessageComplete(s) PROVE BodiesOnce'
  BY <1>2, CompletesBodies DEF Typed
<1>3. ASSUME UNCHANGED kind,
             ~(\E s \in Sockets, r \in Requests, post \in Posts : ClientSends(s, r, post))
      PROVE  BodiesOnce'
  <2>1. ASSUME NEW s \in Sockets
        PROVE  \A i \in DOMAIN Way(s)' :
                 Way(s)'[i].part = "body" =>
                   /\ kind'[Way(s)'[i].req] = "none"
                   /\ \A j \in DOMAIN Way(s)' : Way(s)'[j].part = "body" /\ Way(s)'[j].req = Way(s)'[i].req => i = j
    <3>1. Queues'
      BY NextQueues DEF Typed
    <3>2. DOMAIN Way(s)' \subseteq Nat
      <4>1. Way(s)' \in Seq(Parts)
        <5>1. PICK u \in Seq(Parts), v \in Seq(Parts), w \in Seq(Parts) :
                u = chunk'[s] /\ v = silent'[s] /\ w = inbox'[s]
          BY <3>1 DEF Queues
        <5>2. u \o v \o w \in Seq(Parts)
          <6>1. u \o v \in Seq(Parts)
            BY ConcatProperties
          <6>. QED  BY <6>1, ConcatProperties
        <5>. QED  BY <5>1, <5>2 DEF Way
      <4>. QED  BY <4>1
    <3>3. CASE Way(s)' = Way(s)
      BY <1>3, <3>3 DEF BodiesOnce
    <3>4. CASE \E d \in Nat : \A i \in DOMAIN Way(s)' : i + d \in DOMAIN Way(s) /\ Way(s)'[i] = Way(s)[i + d]
      BY <1>3, <3>2, <3>4, BodiesOnceCut
    <3>5. CASE \A i \in DOMAIN Way(s)' : i \in DOMAIN Way(s) /\ Way(s)'[i] = Way(s)[i]
      <4>1. \A i \in DOMAIN Way(s)' : i + 0 \in DOMAIN Way(s) /\ Way(s)'[i] = Way(s)[i + 0]
        BY <3>2, <3>5
      <4>. QED  BY <3>4, <4>1
    <3>6. CASE Way(s) # <<>> /\ Way(s)' = Tail(Way(s))
      <4>1. PICK q \in Seq(Parts) : q = Way(s)
        BY WayIsSeq
      <4>2. \A i \in DOMAIN Way(s)' : i + 1 \in DOMAIN Way(s) /\ Way(s)'[i] = Way(s)[i + 1]
        BY <3>6, <4>1, TailAt
      <4>. QED  BY <3>4, <4>2
    <3>. QED  BY <1>3, <3>3, <3>4, <3>5, <3>6, WaySteps DEF Typed
  <2>. QED  BY <2>1 DEF BodiesOnce
<1>. QED  BY <1>1, <1>2, <1>3, LedgerCases

\* All frames below the top are in nested loops, and so is the top one while a
\* receive loop runs above it: that loop can go on.
Nesting == \A i \in DOMAIN stack : i > 1 \/ ReceiveOnTop => stack[i].at = "nested"

LEMMA MethodNesting ==
  ASSUME StackType, Queues, Alternating, Nesting, ~ReceiveOnTop, MethodStep, UNCHANGED receiving
  PROVE  Nesting'
<1>s. stack \in Seq(Frames) /\ stack # <<>>
  BY MethodStack DEF StackType
<1>1. Len(receiving) = Len(stack)
  BY <1>s DEF Alternating, ReceiveOnTop, Queues
<1>2. ASSUME NEW f \in Frames, SetTop(f) PROVE Nesting'
  <2>1. /\ stack' \in Seq(Frames) /\ DOMAIN stack' = DOMAIN stack
        /\ \A i \in DOMAIN stack' : IF i = 1 THEN stack'[i] = f ELSE stack'[i] = stack[i]
    BY <1>s, <1>2, SetTopFrame
  <2>2. Len(stack') = Len(stack)
    BY <1>s, <2>1
  <2>3. ~ReceiveOnTop'
    BY <1>1, <1>s, <2>2 DEF ReceiveOnTop
  <2>. QED  BY <2>1, <2>3 DEF Nesting
<1>3. Head(stack) \in Frames
  BY <1>s, TopFrame
<1>4. CASE BeginDelayedResponse
  <2>1. [Head(stack) EXCEPT !.delays = TRUE] \in Frames
    BY <1>3 DEF Frames
  <2>. QED  BY <1>2, <1>4, <2>1 DEF BeginDelayedResponse
<1>5. CASE RunNestedLoop
  <2>1. [Head(stack) EXCEPT !.at = "nested"] \in Frames
    BY <1>3 DEF Frames
  <2>. QED  BY <1>2, <1>5, <2>1 DEF RunNestedLoop
<1>6. CASE NestedLoopReturns
  <2>1. [Head(stack) EXCEPT !.at = "resumed"] \in Frames
    BY <1>3 DEF Frames
  <2>. QED  BY <1>2, <1>6, <2>1 DEF NestedLoopReturns
<1>7. CASE MethodReturns
  <2>1. stack' = Tail(stack)
    BY <1>7 DEF MethodReturns
  <2>2. \A i \in DOMAIN stack' : i + 1 \in DOMAIN stack /\ i + 1 > 1 /\ stack'[i] = stack[i + 1]
    BY <1>s, <2>1, PopFrame
  <2>. QED  BY <2>2 DEF Nesting
<1>. QED  BY <1>4, <1>5, <1>6, <1>7 DEF MethodStep

LEMMA NextNesting ==
  ASSUME Queues, StackType, Alternating, Nesting, [HttpNext]_vars
  PROVE  Nesting'
<1>s. stack \in Seq(Frames)
  BY DEF StackType
<1>1. ASSUME UNCHANGED <<receiving, stack>> PROVE Nesting'
  BY <1>1 DEF Nesting, ReceiveOnTop
<1>2. ASSUME NEW s \in Sockets, ReadIncomingData(s) PROVE Nesting'
  <2>1. InLoop /\ UNCHANGED stack
    BY <1>2 DEF ReadIncomingData, LoopRuns, providerVars, serviceVars
  <2>2. ASSUME NEW i \in DOMAIN stack PROVE stack[i].at = "nested"
    <3>1. CASE i > 1
      BY <3>1 DEF Nesting
    <3>2. CASE i = 1
      <4>1. /\ stack # <<>> /\ Head(stack) = stack[1]
            /\ Head(stack).at \in {"fresh", "nested", "resumed"}
        BY <1>s, <3>2, TopFrame
      <4>. QED  BY <2>1, <3>2, <4>1 DEF InLoop, InMethod, At
    <3>. QED  BY <1>s, <3>1, <3>2
  <2>. QED  BY <2>1, <2>2 DEF Nesting
<1>3. CASE ReceiveReturns
  BY <1>3 DEF ReceiveReturns, Nesting, providerVars, serviceVars
<1>4. ASSUME NEW s \in Sockets, MessageComplete(s) PROVE Nesting'
  <2>1. PICK part \in Parts : part = Head(chunk[s])
    BY <1>4, HeadTailProperties DEF Queues, MessageComplete, Parsing
  <2>2. PICK k : k = Parsed(payload'[s])
    OBVIOUS
  <2>3. ReceiveOnTop /\ UNCHANGED receiving /\ ProcessMessage(s, part.req, k)
    BY <1>4, <2>1, <2>2 DEF MessageComplete, Parsing
  <2>4. CASE UNCHANGED stack
    BY <1>1, <2>3, <2>4
  <2>5. CASE CallMethod(s, part.req, k)
    <3>. DEFINE f == [req |-> part.req, at |-> "fresh", delays |-> FALSE]
    <3>1. f \in Frames /\ stack' = <<f>> \o stack
      BY <2>5, PartFields DEF CallMethod, Frames
    <3>. HIDE DEF f
    <3>2. \A i \in DOMAIN stack' : i = 1 \/ (i - 1 \in DOMAIN stack /\ stack'[i] = stack[i - 1])
      BY <1>s, <3>1, PushFrame
    <3>3. Len(stack') = Len(stack) + 1
      BY <1>s, <3>1
    <3>4. ~ReceiveOnTop'
      BY <1>s, <2>3, <3>3 DEF ReceiveOnTop, Alternating, Queues
    <3>5. \A i \in DOMAIN stack' : i > 1 => stack'[i].at = "nested"
      BY <2>3, <3>2 DEF Nesting
    <3>. QED  BY <3>4, <3>5 DEF Nesting
  <2>. QED  BY <2>3, <2>4, <2>5 DEF ProcessMessage, Ignore, Reject, DispatchFails, serviceVars
<1>5. MethodDue => Nesting'
  BY MethodNesting DEF MethodDue, parserVars
<1>6. ASSUME NEW s \in Sockets, ClientStep(s) \/ IncomingConnection(s) \/ DeviceDisconnects(s)
                                \/ DeferredDelete(s) \/ ReadSilently(s)
      PROVE  UNCHANGED <<receiving, stack>>
  BY <1>6 DEF ClientStep, ClientSends, ClientCloses, IncomingConnection, SocketCreated, DeviceDisconnects,
     DeferredDelete, SocketsDeleted, ReadSilently, providerVars, serviceVars, httpVars, parserVars
<1>7. (\E s \in Sockets : HeadersComplete(s)) \/ ReceiveGoesAstray \/ RegistryStep \/ ServerDestroyed
      \/ (\E then \in {"listening", "closed"} : CloseServer(then)) \/ UNCHANGED vars
      => UNCHANGED <<receiving, stack>>
  BY DEF HeadersComplete, ReceiveGoesAstray, RegistryStep, AddService, RemoveService, ServerDestroyed,
     SocketsDeleted, CloseServer, vars, providerVars, serviceVars, httpVars, parserVars
<1>8. (\E r \in Requests : TaskDue(r)) => UNCHANGED <<receiving, stack>>
  BY DEF TaskDue, Respond, RespondChecks, RespondPosts, PostedCallRuns, EmitResult, serviceVars, parserVars
<1>. QED
  BY <1>1, <1>2, <1>3, <1>4, <1>5, <1>6, <1>7, <1>8 DEF HttpNext, SocketStep, ReceiveStep

\* A client that waits for its response leaves after it.
Patient ==
  \A s \in Sockets : conn[s] \in {"closing", "gone"} /\ requests[s] # <<>> => Served(s)

LEMMA LeavesServed ==
  ASSUME ~ImpatientClients, ResponsesFit, Queues, NEW s \in Sockets, ClientCloses(s), requests[s] # <<>>
  PROVE  Served(s)'
<1>1. Len(responses[s]) = Len(requests[s]) /\ UNCHANGED responses
  BY DEF ClientCloses, outVars
<1>2. PICK u \in Seq(Parts), v \in Seq(Requests) : u = requests[s] /\ v = responses[s]
  BY DEF Queues, ResponsesFit
<1>3. u # <<>> /\ Len(u) = Len(v)
  BY <1>1, <1>2
<1>4. v # <<>>
  BY <1>3
<1>. QED  BY <1>1, <1>2, <1>4 DEF Served

LEMMA NextPatient ==
  ASSUME ~ImpatientClients, Queues, Connections, ResponsesFit, Responding, Patient, [HttpNext]_vars
  PROVE  Patient'
<1>s. \A s \in Sockets : Served(s) => Served(s)'
  BY ServedStays
<1>1. ASSUME \A s \in Sockets : conn'[s] \in {"closing", "gone"} => conn[s] \in {"closing", "gone"} \/ Served(s)',
             UNCHANGED requests
      PROVE  Patient'
  BY <1>s, <1>1 DEF Patient
<1>2. ASSUME NEW s \in Sockets, ClientCloses(s) PROVE Patient'
  <2>1. requests[s] # <<>> => Served(s)'
    BY <1>2, LeavesServed
  <2>2. UNCHANGED requests /\ \A t \in Sockets : t # s => conn'[t] = conn[t]
    BY <1>2 DEF ClientCloses, ResponsesFit
  <2>. QED  BY <1>s, <2>1, <2>2 DEF Patient
<1>3. ASSUME NEW s \in Sockets, NEW r \in Requests, NEW post \in Posts, ClientSends(s, r, post) PROVE Patient'
  <2>1. conn[s] = "open" /\ UNCHANGED conn /\ \A t \in Sockets : t # s => requests'[t] = requests[t]
    BY <1>3 DEF ClientSends, Queues
  <2>. QED  BY <1>s, <2>1 DEF Patient
<1>4. ASSUME NEW s \in Sockets, DeviceDisconnects(s) PROVE Patient'
  <2>1. /\ device[s] = "closed" \/ conn[s] = "closing"
        /\ \A t \in Sockets : t # s => conn'[t] = conn[t]
    BY <1>4 DEF DeviceDisconnects, Disconnected
  <2>2. UNCHANGED requests
    BY <1>4 DEF DeviceDisconnects
  <2>3. device[s] = "closed" => Served(s)
    BY DEF Responding, Served
  <2>. QED  BY <1>1, <1>s, <2>1, <2>2, <2>3
<1>5. ASSUME Disconnected(requestSocketLookup), UNCHANGED requests,
             device' = [s \in Sockets |-> IF device[s] = "none" THEN "none" ELSE "freed"]
      PROVE  Patient'
  <2>1. ASSUME NEW s \in Sockets, conn'[s] \in {"closing", "gone"} PROVE conn[s] \in {"closing", "gone"} \/ Served(s)'
    <3>1. conn[s] # conn'[s] => s \in requestSocketLookup
      BY <1>5 DEF Disconnected
    <3>2. s \in requestSocketLookup => device[s] # "none"
      BY DEF Connections
    <3>. QED  BY <1>5, <2>1, <3>1, <3>2 DEF Served
  <2>. QED  BY <1>1, <1>5, <2>1
<1>6. ServerDestroyed \/ (\E then \in {"listening", "closed"} : CloseServer(then)) => Patient'
  BY <1>5 DEF ServerDestroyed, CloseServer
<1>7. ASSUME NEW s \in Sockets, IncomingConnection(s) PROVE Patient'
  <2>1. UNCHANGED requests /\ conn' = [conn EXCEPT ![s] = "open"]
    BY <1>7 DEF IncomingConnection
  <2>. QED  BY <1>1, <2>1 DEF ResponsesFit
<1>8. ASSUME NEW s \in Sockets, DeferredDelete(s) \/ ReadIncomingData(s) \/ ReadSilently(s)
      PROVE  UNCHANGED <<conn, requests>>
  BY <1>8 DEF DeferredDelete, ReadIncomingData, ReadSilently, httpVars, linkVars
<1>9. ReceiveStep \/ (\E r \in Requests : TaskDue(r)) \/ MethodDue \/ RegistryStep \/ UNCHANGED vars
      => UNCHANGED <<conn, requests>>
  BY DEF ReceiveStep, HeadersComplete, MessageComplete, ReceiveReturns, ReceiveGoesAstray, TaskDue, MethodDue,
     RegistryStep, vars, httpVars, linkVars
<1>. QED
  BY <1>1, <1>2, <1>3, <1>4, <1>6, <1>7, <1>8, <1>9 DEF HttpNext, ClientStep, SocketStep

LEMMA ReceivingSteps ==
  ASSUME [HttpNext]_vars
  PROVE  \/ UNCHANGED <<receiving, stack>>
         \/ \E t \in Sockets : ReadIncomingData(t) \/ MessageComplete(t)
         \/ ReceiveReturns
         \/ MethodDue
<1>1. ASSUME NEW s \in Sockets, ClientStep(s) \/ IncomingConnection(s) \/ DeviceDisconnects(s)
                                \/ DeferredDelete(s) \/ ReadSilently(s)
      PROVE  UNCHANGED <<receiving, stack>>
  BY <1>1 DEF ClientStep, ClientSends, ClientCloses, IncomingConnection, SocketCreated, DeviceDisconnects,
     DeferredDelete, SocketsDeleted, ReadSilently, providerVars, serviceVars, httpVars, parserVars
<1>2. (\E s \in Sockets : HeadersComplete(s)) \/ ReceiveGoesAstray \/ RegistryStep \/ ServerDestroyed
      \/ (\E then \in {"listening", "closed"} : CloseServer(then)) \/ UNCHANGED vars
      => UNCHANGED <<receiving, stack>>
  BY DEF HeadersComplete, ReceiveGoesAstray, RegistryStep, AddService, RemoveService, ServerDestroyed,
     SocketsDeleted, CloseServer, vars, providerVars, serviceVars, httpVars, parserVars
<1>3. (\E r \in Requests : TaskDue(r)) => UNCHANGED <<receiving, stack>>
  BY DEF TaskDue, Respond, RespondChecks, RespondPosts, PostedCallRuns, EmitResult, serviceVars, parserVars
<1>. QED  BY <1>1, <1>2, <1>3 DEF HttpNext, SocketStep, ReceiveStep

LEMMA PushReceiver ==
  ASSUME NEW q \in Seq(Sockets), NEW t \in Sockets
  PROVE  /\ Len(<<t>> \o q) = Len(q) + 1
         /\ (<<t>> \o q)[1] = t
         /\ \A i \in DOMAIN (<<t>> \o q) : i = 1 \/ (i - 1 \in DOMAIN q /\ (<<t>> \o q)[i] = q[i - 1])
  OBVIOUS

LEMMA PopReceiver ==
  ASSUME NEW q \in Seq(Sockets), q # <<>>
  PROVE  /\ Head(q) = q[1] /\ 1 \in DOMAIN q
         /\ \A i \in DOMAIN Tail(q) : i + 1 \in DOMAIN q /\ i + 1 # 1 /\ Tail(q)[i] = q[i + 1]
  OBVIOUS

\* Whose receive loop runs has none but the top one.
ReceivedLast(s) == \A i \in DOMAIN receiving : receiving[i] = s => i = 1 /\ ReceiveOnTop

LEMMA ReceivedLastStays ==
  ASSUME Queues, StackType, Alternating, [HttpNext]_vars, NEW s \in Sockets, ReceivedLast(s), ~MessageComplete(s)
  PROVE  ReceivedLast(s)'
<1>1. CASE UNCHANGED <<receiving, stack>>
  BY <1>1 DEF ReceivedLast, ReceiveOnTop
<1>2. CASE MethodDue
  <2>1. ~ReceiveOnTop /\ UNCHANGED receiving
    BY <1>2 DEF MethodDue, parserVars
  <2>. QED  BY <2>1 DEF ReceivedLast
<1>3. ASSUME NEW t \in Sockets, MessageComplete(t) PROVE ReceivedLast(s)'
  <2>1. ReceiveOnTop /\ t = Head(receiving) /\ UNCHANGED receiving /\ t # s
    BY <1>3 DEF MessageComplete, Parsing
  <2>2. receiving # <<>>
    BY <2>1, ReceiverOnTop
  <2>3. receiving[1] = t
    BY <2>1, <2>2, PopReceiver DEF Queues
  <2>. QED  BY <2>1, <2>3 DEF ReceivedLast
<1>4. CASE ReceiveReturns
  <2>1. ReceiveOnTop /\ receiving' = Tail(receiving)
    BY <1>4 DEF ReceiveReturns
  <2>2. receiving # <<>>
    BY <2>1, ReceiverOnTop
  <2>3. \A i \in DOMAIN receiving' : i + 1 \in DOMAIN receiving /\ i + 1 # 1 /\ receiving'[i] = receiving[i + 1]
    BY <2>1, <2>2, PopReceiver DEF Queues
  <2>. QED  BY <2>3 DEF ReceivedLast
<1>5. ASSUME NEW t \in Sockets, ReadIncomingData(t) PROVE ReceivedLast(s)'
  <2>1. receiving' = <<t>> \o receiving /\ UNCHANGED stack /\ ~ReceiveOnTop
    BY <1>5 DEF ReadIncomingData, LoopRuns, providerVars, serviceVars
  <2>2. /\ Len(receiving') = Len(receiving) + 1
        /\ \A i \in DOMAIN receiving' : i = 1 \/ (i - 1 \in DOMAIN receiving /\ receiving'[i] = receiving[i - 1])
    BY <2>1, PushReceiver DEF Queues
  <2>3. Len(receiving) \in Nat /\ Len(stack) \in Nat
    BY DEF Queues, StackType
  <2>4. ReceiveOnTop'
    BY <2>1, <2>2, <2>3 DEF ReceiveOnTop, Alternating
  <2>. QED  BY <2>1, <2>2, <2>4 DEF ReceivedLast
<1>. QED  BY <1>1, <1>2, <1>3, <1>4, <1>5, ReceivingSteps

\* A socket whose client has sent nothing has read nothing.
Fresh == \A s \in Sockets : requests[s] = <<>> => payload[s] = <<>> /\ ~Receives(s)

LEMMA WayOfNothing ==
  ASSUME Queues, Ways, NEW s \in Sockets, requests[s] = <<>>
  PROVE  Way(s) = <<>> /\ silent[s] = <<>> /\ inbox[s] = <<>>
<1>1. \A i \in DOMAIN Way(s) : FALSE
  BY WayRequests
<1>2. PICK x \in Seq(Parts) : x = Way(s)
  BY WayIsSeq
<1>3. x = <<>>
  <2>1. x # <<>> => 1 \in DOMAIN x
    OBVIOUS
  <2>. QED  BY <1>1, <1>2, <2>1
<1>4. PICK u \in Seq(Parts), v \in Seq(Parts), w \in Seq(Parts) :
        u = chunk[s] /\ v = silent[s] /\ w = inbox[s]
  BY WayIsSeq
<1>5. u \o v \o w = <<>> => v = <<>> /\ w = <<>>
  OBVIOUS
<1>6. Way(s) = u \o v \o w
  BY <1>4 DEF Way
<1>. QED  BY <1>2, <1>3, <1>4, <1>5, <1>6

\* What a socket has taken from its network.
LEMMA TakenSteps ==
  ASSUME Queues, [HttpNext]_vars, NEW s \in Sockets, ~MessageComplete(s)
  PROVE  /\ payload'[s] = payload[s]
         /\ silent'[s] = silent[s] \/ silent'[s] = <<>> \/ ReadSilently(s)
<1>1. ASSUME UNCHANGED parserVars
      PROVE  payload'[s] = payload[s] /\ silent'[s] = silent[s]
  BY <1>1 DEF parserVars
<1>2. ASSUME NEW t \in Sockets, ReadIncomingData(t)
      PROVE  UNCHANGED payload /\ (silent'[s] = silent[s] \/ silent'[s] = <<>>)
  BY <1>2 DEF ReadIncomingData, Queues
<1>3. ASSUME NEW t \in Sockets, ReadSilently(t)
      PROVE  UNCHANGED payload /\ (silent'[s] = silent[s] \/ t = s)
  BY <1>3 DEF ReadSilently, Queues
<1>4. ASSUME NEW t \in Sockets, HeadersComplete(t) PROVE UNCHANGED <<payload, silent>>
  BY <1>4 DEF HeadersComplete
<1>5. ASSUME NEW t \in Sockets, MessageComplete(t) PROVE payload'[s] = payload[s] /\ UNCHANGED silent
  BY <1>5 DEF MessageComplete, AppendBody, Queues
<1>6. ReceiveReturns => UNCHANGED <<payload, silent>>
  BY DEF ReceiveReturns
<1>7. ASSUME NEW t \in Sockets, ClientStep(t) \/ IncomingConnection(t) \/ DeviceDisconnects(t) \/ DeferredDelete(t)
      PROVE  UNCHANGED parserVars
  BY <1>7 DEF ClientStep, ClientSends, ClientCloses, IncomingConnection, DeviceDisconnects, DeferredDelete, httpVars
<1>8. ReceiveGoesAstray \/ RegistryStep \/ ServerDestroyed \/ MethodDue \/ (\E r \in Requests : TaskDue(r))
      \/ (\E then \in {"listening", "closed"} : CloseServer(then)) \/ UNCHANGED vars
      => UNCHANGED parserVars
  BY DEF ReceiveGoesAstray, RegistryStep, ServerDestroyed, MethodDue, TaskDue, CloseServer, vars, httpVars
<1>. QED
  BY <1>1, <1>2, <1>3, <1>4, <1>5, <1>6, <1>7, <1>8 DEF HttpNext, SocketStep, ReceiveStep

LEMMA RequestsStay ==
  ASSUME Queues, [HttpNext]_vars, NEW s \in Sockets, requests[s] # <<>>
  PROVE  requests'[s] # <<>> /\ requests'[s][1] = requests[s][1]
<1>1. ASSUME NEW t \in Sockets, NEW r \in Requests, NEW post \in Posts, ClientSends(t, r, post)
      PROVE  requests'[s] # <<>> /\ requests'[s][1] = requests[s][1]
  <2>1. CASE t = s
    <3>1. PICK head \in Parts : requests' = [requests EXCEPT ![s] = Append(@, head)]
      BY <1>1, <2>1, PartsOfRequest DEF ClientSends
    <3>2. PICK q \in Seq(Parts) : q = requests[s]
      BY DEF Queues
    <3>3. q # <<>>
      BY <3>2
    <3>4. Append(q, head) # <<>> /\ Append(q, head)[1] = q[1]
      BY <3>3
    <3>. QED  BY <3>1, <3>2, <3>4 DEF Queues
  <2>2. CASE t # s
    BY <1>1, <2>2 DEF ClientSends, Queues
  <2>. QED  BY <2>1, <2>2
<1>2. ASSUME NEW t \in Sockets, MessageComplete(t) PROVE UNCHANGED requests
  BY <1>2 DEF MessageComplete, linkVars
<1>. QED  BY <1>1, <1>2, LedgerCases

LEMMA ReceivesStarts ==
  ASSUME Queues, StackType, [HttpNext]_vars, NEW s \in Sockets, ~Receives(s), ~ReadIncomingData(s)
  PROVE  ~Receives(s)'
<1>1. CASE UNCHANGED receiving
  BY <1>1 DEF Receives
<1>2. ASSUME NEW t \in Sockets, ReadIncomingData(t) PROVE ~Receives(s)'
  <2>1. receiving' = <<t>> \o receiving /\ t # s
    BY <1>2 DEF ReadIncomingData
  <2>2. /\ receiving'[1] = t
        /\ \A i \in DOMAIN receiving' : i = 1 \/ (i - 1 \in DOMAIN receiving /\ receiving'[i] = receiving[i - 1])
    BY <2>1, PushReceiver DEF Queues
  <2>. QED  BY <2>1, <2>2 DEF Receives
<1>3. CASE ReceiveReturns
  <2>1. ReceiveOnTop /\ receiving' = Tail(receiving)
    BY <1>3 DEF ReceiveReturns
  <2>2. receiving # <<>>
    BY <2>1, ReceiverOnTop
  <2>3. \A i \in DOMAIN receiving' : i + 1 \in DOMAIN receiving /\ receiving'[i] = receiving[i + 1]
    BY <2>1, <2>2, PopReceiver DEF Queues
  <2>. QED  BY <2>3 DEF Receives
<1>4. MethodDue \/ (\E t \in Sockets : MessageComplete(t)) => UNCHANGED receiving
  BY DEF MethodDue, MessageComplete, parserVars
<1>. QED  BY <1>1, <1>2, <1>3, <1>4, ReceivingSteps

LEMMA NextFreshSockets ==
  ASSUME Queues, StackType, Ways, Fresh, [HttpNext]_vars
  PROVE  Fresh'
<1>. SUFFICES ASSUME NEW s \in Sockets, requests'[s] = <<>>
              PROVE  payload'[s] = <<>> /\ ~Receives(s)'
  BY DEF Fresh
<1>1. requests[s] = <<>>
  BY RequestsStay
<1>2. ~MessageComplete(s)
  <2>1. chunk[s] = <<>>
    BY <1>1, HasRequest
  <2>. QED  BY <2>1 DEF MessageComplete, Parsing
<1>3. ~ReadIncomingData(s)
  <2>1. inbox[s] = <<>>
    BY <1>1, WayOfNothing
  <2>. QED  BY <2>1 DEF ReadIncomingData
<1>. QED  BY <1>1, <1>2, <1>3, TakenSteps, ReceivesStarts DEF Fresh

\* The first request q of s is on its way and nothing is before it, or it has
\* been processed as what it is.
Waits(s, q) ==
  /\ kind[q.req] = "none"
  /\ payload[s] = <<>> /\ silent[s] = <<>> /\ ReceivedLast(s)
  /\ 1 \in DOMAIN Way(s) /\ Way(s)[1].req = q.req
  /\ Way(s)[1].part = "body" => q.head = "accepted"
  /\ Way(s)[1].part = "head" => 2 \in DOMAIN Way(s) /\ Way(s)[2].part = "body" /\ Way(s)[2].req = q.req

IsProcessed(s, q) ==
  /\ from[q.req] = s /\ q.head = "accepted"
  /\ kind[q.req] = IF q.body \in Kinds THEN q.body ELSE "other"

FirstKept ==
  \A s \in Sockets, q \in Parts :
    requests[s] # <<>> /\ requests[s][1] = q => Served(s) \/ Waits(s, q) \/ IsProcessed(s, q)

LEMMA FirstPart ==
  ASSUME Queues, Ways, SentOnce, NEW s \in Sockets, NEW q \in Parts, requests[s] # <<>>, requests[s][1] = q,
         NEW i \in DOMAIN Way(s), Way(s)[i].req = q.req
  PROVE  Way(s)[i].head = q.head /\ Way(s)[i].body = q.body
<1>1. PICK j \in DOMAIN requests[s] :
        /\ requests[s][j].req = Way(s)[i].req /\ requests[s][j].head = Way(s)[i].head
        /\ requests[s][j].body = Way(s)[i].body
  BY WayRequests
<1>2. PICK x \in Seq(Parts) : x = requests[s]
  BY DEF Queues
<1>3. x # <<>> => 1 \in DOMAIN x
  OBVIOUS
<1>4. j = 1
  BY <1>1, <1>2, <1>3 DEF SentOnce
<1>. QED  BY <1>1, <1>4

LEMMA KindStays ==
  ASSUME Typed, [ProviderNext]_providerVars, NEW r \in Requests, kind[r] # "none"
  PROVE  kind'[r] = kind[r] /\ from'[r] = from[r]
<1>1. CASE UNCHANGED providerVars
  BY <1>1 DEF providerVars, requestVars
<1>2. CASE EnvironmentStep
  BY <1>2, EnvironmentEffect DEF Typed
<1>3. ASSUME NEW s \in Sockets, NEW q \in Requests, NEW k \in Kinds, ProcessMessage(s, q, k)
      PROVE  kind'[r] = kind[r] /\ from'[r] = from[r]
  <2>1. Received(s, q, k)
    BY <1>3 DEF ProcessMessage, Ignore, Reject, DispatchFails, CallMethod, BecomesCurrent
  <2>. QED  BY <2>1, ReceivedType DEF Typed
<1>4. CASE MethodStep
  BY <1>4, MethodStack DEF Typed
<1>5. ASSUME NEW q \in Requests, TaskStep(q) PROVE kind'[r] = kind[r] /\ from'[r] = from[r]
  BY <1>5 DEF TaskStep, Respond, RespondChecks, RespondPosts, PostedCallRuns, EmitResult, requestVars
<1>. QED  BY <1>1, <1>2, <1>3, <1>4, <1>5, ProviderCases

\* A body that is the first says by itself what it is.
LEMMA ParsedOne ==
  ASSUME NEW body \in Bodies
  PROVE  Parsed(<<body>>) = IF body \in Kinds THEN body ELSE "other"
<1>1. ASSUME NEW doc \in DOMAIN Joined, Spell(<<body>>, doc) PROVE FALSE
  <2>1. doc \in Seq(Kinds \cup Fragments) /\ Len(doc) > 1
    BY HttpAssumption DEF HttpAssumption
  <2>2. 1 \in DOMAIN doc /\ 2 \in DOMAIN doc /\ DOMAIN <<body>> = {1}
    BY <2>1
  <2>. QED  BY <1>1, <2>2 DEF Spell
<1>2. ASSUME NEW k \in Kinds PROVE Spell(<<body>>, <<k>>) <=> body = k
  <2>1. DOMAIN <<body>> = {1} /\ DOMAIN <<k>> = {1} /\ <<body>>[1] = body /\ <<k>>[1] = k
    OBVIOUS
  <2>2. Spell(<<body>>, <<k>>) => body = k
    BY <2>1 DEF Spell
  <2>3. ASSUME body = k PROVE Spell(<<body>>, <<k>>)
    <3>1. PICK at : at = [i \in {1} |-> 1]
      OBVIOUS
    <3>2. at \in [DOMAIN <<k>> -> DOMAIN <<body>>] /\ at[1] = 1
      BY <2>1, <3>1
    <3>. QED  BY <2>1, <2>3, <3>2 DEF Spell
  <2>. QED  BY <2>2, <2>3
<1>3. ASSUME NEW doc \in Documents, Spell(<<body>>, doc)
      PROVE  doc \notin DOMAIN Joined /\ body \in Kinds /\ doc = <<body>>
  BY <1>1, <1>2, <1>3 DEF Documents
<1>4. CASE body \in Kinds
  <2>1. \E doc \in Documents : Spell(<<body>>, doc)
    BY <1>2, <1>4 DEF Documents
  <2>2. Parsed(<<body>>) = Head(<<body>>)
    BY <1>3, <2>1, Zenon DEF Parsed
  <2>. QED  BY <1>4, <2>2
<1>5. CASE body \notin Kinds
  BY <1>3, <1>5 DEF Parsed
<1>. QED  BY <1>4, <1>5

\* onMessageComplete of the first request.
LEMMA CompletesFirst ==
  ASSUME Queues, Typed, Ways, SentOnce, NEW s \in Sockets, NEW q \in Parts, requests[s] # <<>>, requests[s][1] = q,
         Waits(s, q), MessageComplete(s)
  PROVE  IsProcessed(s, q)'
<1>1. PICK part \in Parts : part = Head(chunk[s])
  BY HeadTailProperties DEF Queues, MessageComplete, Parsing
<1>2. /\ chunk[s] # <<>> /\ part.part = "body"
      /\ AppendBody(s, part.body)
      /\ ProcessMessage(s, part.req, Parsed(payload'[s]))
  BY <1>1 DEF MessageComplete, Parsing
<1>3. 1 \in DOMAIN Way(s) /\ Way(s)[1] = part
  BY <1>1, <1>2, HasRequest
<1>4. part.req = q.req /\ q.head = "accepted"
  BY <1>2, <1>3 DEF Waits
<1>5. part.body = q.body
  BY <1>3, <1>4, FirstPart
<1>6. PICK k : k = Parsed(payload'[s])
  OBVIOUS
<1>7. Received(s, part.req, k)
  BY <1>2, <1>6 DEF ProcessMessage, Ignore, Reject, DispatchFails, CallMethod, BecomesCurrent
<1>8. kind'[q.req] = k /\ from'[q.req] = s
  BY <1>4, <1>7, PartFields DEF Received, Noted, Typed, DataType
<1>9. payload[s] = <<>>
  BY DEF Waits
<1>10. payload'[s] = <<part.body>>
  <2>1. payload'[s] = Append(<<>>, part.body)
    BY <1>2, <1>9 DEF AppendBody, Queues
  <2>. QED  BY <2>1
<1>12. k = IF q.body \in Kinds THEN q.body ELSE "other"
  BY <1>5, <1>6, <1>10, ParsedOne, PartFields
<1>. QED  BY <1>4, <1>8, <1>12 DEF IsProcessed

\* The message of another socket is no part of it.
LEMMA OthersComplete ==
  ASSUME Queues, Typed, Ways, SentOnce, NEW s \in Sockets, NEW q \in Parts, requests[s] # <<>>, requests[s][1] = q,
         kind[q.req] = "none", [HttpNext]_vars, ~MessageComplete(s)
  PROVE  kind'[q.req] = "none"
<1>1. ASSUME NEW t \in Sockets, MessageComplete(t) PROVE kind'[q.req] = "none"
  <2>1. PICK part \in Parts : part = Head(chunk[t]) /\ chunk[t] # <<>>
    BY <1>1, HeadTailProperties DEF Queues, MessageComplete, Parsing
  <2>2. 1 \in DOMAIN Way(t) /\ Way(t)[1] = part
    BY <2>1, HasRequest
  <2>3. PICK j \in DOMAIN requests[t] : requests[t][j].req = part.req
    BY <2>2, WayRequests
  <2>4. 1 \in DOMAIN requests[s]
    <3>1. PICK x \in Seq(Parts) : x = requests[s]
      BY DEF Queues
    <3>2. x # <<>> => 1 \in DOMAIN x
      OBVIOUS
    <3>. QED  BY <3>1, <3>2
  <2>5. part.req # q.req
    BY <1>1, <2>3, <2>4 DEF SentOnce
  <2>6. \A r \in Requests \ {part.req} : kind'[r] = kind[r]
    BY <1>1, <2>1, ProcessesOnce DEF Typed
  <2>. QED  BY <2>5, <2>6, PartFields
<1>2. (\E t \in Sockets, r \in Requests, post \in Posts : ClientSends(t, r, post)) => UNCHANGED kind
  BY DEF ClientSends, providerVars, requestVars
<1>. QED  BY <1>1, <1>2, LedgerCases

LEMMA TailKeeps ==
  ASSUME NEW w \in Seq(Parts), w # <<>>
  PROVE  2 \in DOMAIN w => 1 \in DOMAIN Tail(w) /\ Tail(w)[1] = w[2]
  OBVIOUS

\* Its way after a step.
LEMMA WaitsWay ==
  ASSUME ~ImpatientClients, Queues, Typed, Ways, SentOnce, Connections, ResponsesFit, Responding, [HttpNext]_vars,
         NEW s \in Sockets, NEW q \in Parts, requests[s] # <<>>, requests[s][1] = q,
         Waits(s, q), ~MessageComplete(s)
  PROVE  \/ Served(s)'
         \/ /\ 1 \in DOMAIN Way(s)' /\ Way(s)'[1].req = q.req
            /\ Way(s)'[1].part = "body" => q.head = "accepted"
            /\ Way(s)'[1].part = "head" => 2 \in DOMAIN Way(s)' /\ Way(s)'[2].part = "body" /\ Way(s)'[2].req = q.req
<1>. DEFINE Goal == \/ Served(s)'
                    \/ /\ 1 \in DOMAIN Way(s)' /\ Way(s)'[1].req = q.req
                       /\ Way(s)'[1].part = "body" => q.head = "accepted"
                       /\ Way(s)'[1].part = "head" =>
                            2 \in DOMAIN Way(s)' /\ Way(s)'[2].part = "body" /\ Way(s)'[2].req = q.req
<1>1. CASE Way(s)' = Way(s)
  BY <1>1 DEF Waits
<1>2. ASSUME NEW r \in Requests, NEW post \in Posts, ClientSends(s, r, post) PROVE Goal
  <2>1. PICK head \in Parts, body \in Parts :
           /\ head.req = r /\ head.part = "head"
           /\ body.req = r /\ body.part = "body" /\ body.head = head.head /\ body.body = head.body
           /\ Way(s)' = Way(s) \o <<head, body>>
           /\ requests'[s] = Append(requests[s], head)
           /\ \A t \in Sockets \ {s} : Way(t)' = Way(t) /\ requests'[t] = requests[t]
    BY <1>2, SendsWay, Zenon
  <2>2. PICK w \in Seq(Parts) : w = Way(s)
    BY WayIsSeq
  <2>3. \A i \in DOMAIN Way(s) : i \in DOMAIN Way(s)' /\ Way(s)'[i] = Way(s)[i]
    BY <2>1, <2>2, FirstTwo
  <2>. QED  BY <2>3 DEF Waits
<1>3. CASE ClientCloses(s)
  BY <1>3, LeavesServed
<1>4. ASSUME HeadersComplete(s), Way(s) # <<>>, Way(s)' = Tail(Way(s)), Way(s)[1] = Head(chunk[s]) PROVE Goal
  <2>1. CASE Head(chunk[s]).head # "accepted"
    BY <1>4, <2>1, HeadersServe
  <2>2. CASE Head(chunk[s]).head = "accepted"
    <3>1. Way(s)[1].part = "head"
      BY <1>4 DEF HeadersComplete, Parsing
    <3>2. /\ 1 \in DOMAIN Way(s) /\ Way(s)[1].req = q.req
          /\ 2 \in DOMAIN Way(s) /\ Way(s)[2].part = "body" /\ Way(s)[2].req = q.req
      BY <3>1 DEF Waits
    <3>3. q.head = "accepted"
      BY <1>4, <2>2, <3>2, FirstPart
    <3>4. PICK w \in Seq(Parts) : w = Way(s)
      BY WayIsSeq
    <3>5. 1 \in DOMAIN Way(s)' /\ Way(s)'[1] = Way(s)[2]
      BY <1>4, <3>2, <3>4, TailKeeps
    <3>. QED  BY <3>2, <3>3, <3>5
  <2>. QED  BY <2>1, <2>2
<1>5. CASE parser[s] = "failed"
  BY <1>5, ServedStays DEF Responding
<1>. QED  BY <1>1, <1>2, <1>3, <1>4, <1>5, WaySteps DEF Typed

LEMMA WaitsStays ==
  ASSUME ~ImpatientClients, Queues, Typed, Ways, SentOnce, Connections, ResponsesFit, Responding, Alternating,
         [HttpNext]_vars, NEW s \in Sockets, NEW q \in Parts, requests[s] # <<>>, requests[s][1] = q, Waits(s, q)
  PROVE  Served(s)' \/ Waits(s, q)' \/ IsProcessed(s, q)'
<1>1. CASE MessageComplete(s)
  BY <1>1, CompletesFirst
<1>2. CASE ~MessageComplete(s)
  <2>1. kind'[q.req] = "none"
    BY <1>2, OthersComplete DEF Waits
  <2>2. ~ReadSilently(s)
    BY DEF ReadSilently, Receives, LoopRuns, Waits, ReceivedLast
  <2>3. payload'[s] = <<>> /\ silent'[s] = <<>>
    BY <1>2, <2>2, TakenSteps DEF Waits
  <2>4. ReceivedLast(s)'
    BY <1>2, ReceivedLastStays DEF Waits, Typed
  <2>. QED  BY <1>2, <2>1, <2>3, <2>4, WaitsWay DEF Waits
<1>. QED  BY <1>1, <1>2

\* The first request of a client.
LEMMA SendsFirst ==
  ASSUME Queues, Typed, Ways, SentOnce, Fresh, NEW s \in Sockets, NEW r \in Requests, NEW post \in Posts,
         ClientSends(s, r, post), requests[s] = <<>>, NEW q \in Parts, requests'[s][1] = q
  PROVE  Waits(s, q)'
<1>1. PICK head \in Parts, body \in Parts :
         /\ head.req = r /\ head.part = "head"
         /\ body.req = r /\ body.part = "body" /\ body.head = head.head /\ body.body = head.body
         /\ Way(s)' = Way(s) \o <<head, body>>
         /\ requests'[s] = Append(requests[s], head)
         /\ \A t \in Sockets \ {s} : Way(t)' = Way(t) /\ requests'[t] = requests[t]
  BY SendsWay, Zenon
<1>2. Way(s) = <<>> /\ silent[s] = <<>> /\ payload[s] = <<>> /\ ~Receives(s)
  BY WayOfNothing DEF Fresh
<1>3. <<>> \o <<head, body>> = <<head, body>> /\ Append(<<>>, head) = <<head>>
  OBVIOUS
<1>4. q = head /\ Way(s)' = <<head, body>>
  BY <1>1, <1>2, <1>3
<1>5. kind'[r] = "none" /\ UNCHANGED <<payload, silent, receiving>>
  BY DEF ClientSends, SentOnce, providerVars, requestVars, parserVars
<1>6. ReceivedLast(s)'
  BY <1>2, <1>5 DEF Receives, ReceivedLast
<1>. QED  BY <1>1, <1>2, <1>4, <1>5, <1>6 DEF Waits

LEMMA NextFirstKept ==
  ASSUME ~ImpatientClients, Queues, Typed, Ways, SentOnce, Connections, ResponsesFit, Responding, Alternating, Fresh,
         FirstKept, [HttpNext]_vars
  PROVE  FirstKept'
<1>. SUFFICES ASSUME NEW s \in Sockets, NEW q \in Parts, requests'[s] # <<>>, requests'[s][1] = q
              PROVE  Served(s)' \/ Waits(s, q)' \/ IsProcessed(s, q)'
  BY DEF FirstKept
<1>1. CASE requests[s] = <<>>
  <2>1. UNCHANGED requests => FALSE
    BY <1>1
  <2>2. ASSUME NEW t \in Sockets, NEW r \in Requests, NEW post \in Posts, ClientSends(t, r, post)
        PROVE  Waits(s, q)'
    <3>1. t = s
      BY <1>1, <2>2 DEF ClientSends, Queues
    <3>. QED  BY <1>1, <2>2, <3>1, SendsFirst
  <2>3. ASSUME NEW t \in Sockets, MessageComplete(t) PROVE UNCHANGED requests
    BY <2>3 DEF MessageComplete, linkVars
  <2>. QED  BY <2>1, <2>2, <2>3, LedgerCases
<1>2. CASE requests[s] # <<>>
  <2>1. requests[s][1] = q
    BY <1>2, RequestsStay
  <2>2. CASE Served(s)
    BY <2>2, ServedStays
  <2>3. CASE Waits(s, q)
    BY <1>2, <2>1, <2>3, WaitsStays
  <2>4. CASE IsProcessed(s, q)
    <3>1. q.req \in Requests /\ kind[q.req] # "none"
      BY <2>4, PartFields DEF IsProcessed, Kinds, Calling, Notifying
    <3>2. [ProviderNext]_providerVars
      BY NextRefines DEF Typed
    <3>. QED  BY <2>4, <3>1, <3>2, KindStays DEF IsProcessed
  <2>. QED  BY <1>2, <2>1, <2>2, <2>3, <2>4 DEF FirstKept
<1>. QED  BY <1>1, <1>2

\* The guards of Due: a receive loop can go on, a method return, an answer be
\* made, a loop serve a socket.
CanReceive ==
  /\ ReceiveOnTop
  /\ LET s == Head(receiving)
     IN  \/ life[s] = "deleted"
         \/ /\ life[s] = "alive"
            /\ parser[s] = "ready" /\ chunk[s] # <<>> /\ Head(chunk[s]).part = "body" /\ s \in requestSocketLookup
               => InLoop /\ kind[Head(chunk[s]).req] = "none"

CanReturn == ~ReceiveOnTop /\ stack # <<>>

CanAnswer(r) ==
  \/ task[r] = "held" /\ (Workers \/ ~ReceiveOnTop)
  \/ task[r] = "checked"
  \/ task[r] = "posted" /\ LoopRuns

CanServe(s) ==
  /\ LoopRuns
  /\ \/ life[s] = "alive" /\ device[s] = "open" /\ inbox[s] # <<>>
     \/ s \in requestSocketLookup /\ (device[s] = "closed" \/ (conn[s] = "closing" /\ inbox[s] = <<>>))
     \/ life[s] = "alive" /\ doomed[s] >= Level

SomethingIsDue ==
  \/ CanReceive \/ CanReturn
  \/ \E r \in Requests : CanAnswer(r)
  \/ \E s \in Sockets : CanServe(s)

\* A client that CallsGetResponses promises a response.
Asks(s) ==
  /\ requests[s] # <<>>
  /\ requests[s][1].head = "accepted" => requests[s][1].body \in Calling \cup Fragments \cup {"other", "empty"}

LEMMA ParserGoesOn ==
  ASSUME Queues, Typed, Ways, Connections, BodiesOnce, Nesting, Fresh, ReceiveOnTop
  PROVE  CanReceive
<1>1. PICK s \in Sockets : s = Head(receiving) /\ Receives(s)
  <2>1. receiving \in Seq(Sockets) /\ receiving # <<>>
    BY ReceiverOnTop DEF Queues, Typed
  <2>2. Head(receiving) \in Sockets /\ 1 \in DOMAIN receiving /\ receiving[1] = Head(receiving)
    BY <2>1, PopReceiver, HeadTailProperties
  <2>. QED  BY <2>2 DEF Receives
<1>2. life[s] \in {"alive", "deleted"}
  <2>1. conn[s] # "none"
    BY <1>1 DEF Fresh, Ways
  <2>. QED  BY <2>1 DEF Connections, Typed, DataType
<1>3. InLoop
  <2>. SUFFICES ASSUME InMethod PROVE FALSE
    BY DEF InLoop
  <2>1. stack \in Seq(Frames) /\ stack # <<>>
    BY DEF InMethod, At, Typed, StackType
  <2>2. 1 \in DOMAIN stack /\ Head(stack) = stack[1]
    BY <2>1, TopFrame
  <2>. QED  BY <2>2 DEF Nesting, InMethod, At
<1>4. chunk[s] # <<>> /\ Head(chunk[s]).part = "body" => kind[Head(chunk[s]).req] = "none"
  BY HasRequest DEF BodiesOnce
<1>. QED  BY <1>1, <1>2, <1>3, <1>4 DEF CanReceive

LEMMA IdleLoops ==
  ASSUME Queues, Typed, Ways, Alternating, Connections, BodiesOnce, Nesting, Fresh, ~SomethingIsDue
  PROVE  /\ stack = <<>> /\ LoopRuns
         /\ \A s \in Sockets :
              /\ ~Receives(s) /\ chunk[s] = <<>>
              /\ life[s] = "alive" => doomed[s] = 0 \/ doomed[s] \notin Nat
<1>1. ~ReceiveOnTop /\ stack = <<>>
  BY ParserGoesOn DEF SomethingIsDue, CanReturn
<1>2. LoopRuns /\ Level = 1
  BY <1>1 DEF LoopRuns, InLoop, InMethod, At, Level
<1>3. receiving = <<>>
  BY <1>1 DEF ReceiveOnTop, Queues
<1>4. ASSUME NEW s \in Sockets, life[s] = "alive" PROVE doomed[s] = 0 \/ doomed[s] \notin Nat
  <2>1. ~(doomed[s] >= 1)
    BY <1>2, <1>4 DEF SomethingIsDue, CanServe
  <2>. QED  BY <2>1
<1>. QED  BY <1>1, <1>2, <1>3, <1>4 DEF Receives, Ways

LEMMA IdleDeletes ==
  ASSUME Queues, Typed, Ways, Alternating, Connections, BodiesOnce, Nesting, Fresh, TableTypes, ResponsesFit,
         ~SomethingIsDue, NEW s \in Sockets, device[s] = "closed"
  PROVE  life[s] = "deleted"
<1>1. LoopRuns /\ (life[s] = "alive" => doomed[s] = 0)
  BY IdleLoops DEF TableTypes
<1>2. s \notin requestSocketLookup
  BY <1>1 DEF SomethingIsDue, CanServe
<1>3. conn[s] = "gone" /\ doomed[s] > 0 /\ life[s] # "none"
  BY <1>2 DEF Connections, ResponsesFit
<1>. QED  BY <1>1, <1>3 DEF Typed, DataType, TableTypes

LEMMA IdleAnswers ==
  ASSUME Queues, Typed, Ways, Alternating, Connections, BodiesOnce, Nesting, Fresh, TableTypes, ResponsesFit,
         Responding, Patient, FirstKept, Wired, NoCallForgotten,
         ~SomethingIsDue, NEW s \in Sockets, Asks(s)
  PROVE  Served(s)
<1>. SUFFICES ASSUME ~Served(s) PROVE FALSE
  OBVIOUS
<1>1. stack = <<>> /\ LoopRuns /\ chunk[s] = <<>>
  BY IdleLoops
<1>2. PICK q \in Parts : requests[s] # <<>> /\ requests[s][1] = q
  <2>1. PICK x \in Seq(Parts) : x = requests[s] /\ x # <<>>
    BY DEF Queues, Asks
  <2>2. x[1] \in Parts
    BY <2>1
  <2>. QED  BY <2>1, <2>2
<1>3. conn[s] = "open" /\ device[s] = "open" /\ life[s] = "alive"
  <2>1. conn[s] = "open"
    BY <1>2 DEF Patient, Ways
  <2>2. device[s] \notin {"none", "closed", "freed"} /\ life[s] \notin {"none", "deleted"}
    BY <2>1 DEF Connections, Responding, Served
  <2>. QED  BY <2>1, <2>2 DEF ResponsesFit, Typed, DataType
<1>4. CASE Waits(s, q)
  <2>1. inbox[s] = <<>>
    BY <1>1, <1>3 DEF SomethingIsDue, CanServe
  <2>2. <<>> \o <<>> \o <<>> = <<>> /\ 1 \notin DOMAIN <<>>
    OBVIOUS
  <2>. QED  BY <1>1, <1>4, <2>1, <2>2 DEF Waits, Way
<1>5. CASE IsProcessed(s, q)
  <2>1. q.req \in Requests /\ from[q.req] = s /\ kind[q.req] \in Calling \cup {"other"}
    <3>1. q.body \in Calling \cup Fragments \cup {"other", "empty"} /\ q.req \in Requests
      BY <1>2, <1>5, PartFields DEF IsProcessed, Asks
    <3>2. q.body \in Kinds => q.body \notin Fragments /\ q.body # "empty"
      BY HttpAssumption DEF HttpAssumption, Kinds, Calling, Notifying
    <3>. QED  BY <1>5, <3>1, <3>2 DEF IsProcessed
  <2>2. s \notin Heard
    BY DEF Responding
  <2>3. kind[q.req] \in Calling
    BY <2>1, <2>2 DEF Wired
  <2>4. task[q.req] \notin {"held", "checked", "posted", "emitted"}
    <3>1. task[q.req] # "emitted"
      BY <1>3, <2>1, <2>2, <2>3 DEF Wired
    <3>. QED  BY <1>1, <2>1, <3>1 DEF SomethingIsDue, CanAnswer, LoopRuns
  <2>5. ~OnStack(q.req)
    BY <1>1 DEF OnStack
  <2>6. answers[q.req][s] = 1
    BY <1>3, <2>1, <2>3, <2>4, <2>5 DEF NoCallForgotten
  <2>. QED  BY <2>1, <2>2, <2>6 DEF Heard
<1>. QED  BY <1>2, <1>4, <1>5 DEF FirstKept

LEMMA InitOwed ==
  HttpInit => Connections /\ Responding /\ BodiesOnce /\ Nesting /\ Patient /\ Fresh /\ FirstKept
<1>. SUFFICES ASSUME HttpInit
              PROVE  Connections /\ Responding /\ BodiesOnce /\ Nesting /\ Patient /\ Fresh /\ FirstKept
  OBVIOUS
<1>1. ASSUME NEW s \in Sockets
      PROVE  /\ conn[s] = "none" /\ device[s] = "none" /\ life[s] = "none" /\ s \notin requestSocketLookup
             /\ doomed[s] = 0 /\ parser[s] = "ready" /\ requests[s] = <<>> /\ payload[s] = <<>>
             /\ s \notin Heard /\ Way(s) = <<>> /\ ~Receives(s)
  <2>1. chunk[s] = <<>> /\ silent[s] = <<>> /\ inbox[s] = <<>> /\ requests[s] = <<>> /\ payload[s] = <<>>
    BY DEF HttpInit
  <2>2. <<>> \o <<>> \o <<>> = <<>>
    OBVIOUS
  <2>3. s \notin Heard
    BY DEF HttpInit, ProviderInit, Heard
  <2>. QED  BY <2>1, <2>2, <2>3 DEF HttpInit, ProviderInit, Way, Receives
<1>2. Connections /\ Responding /\ Patient /\ Fresh /\ FirstKept
  BY <1>1 DEF Connections, Responding, Patient, Fresh, FirstKept
<1>3. BodiesOnce
  BY <1>1 DEF BodiesOnce
<1>4. Nesting
  BY DEF HttpInit, ProviderInit, Nesting
<1>. QED  BY <1>2, <1>3, <1>4

\* What the theorems below rest on.
Shape ==
  /\ Ways /\ SentOnce /\ TableTypes /\ Alternating /\ ResponsesFit
  /\ Connections /\ Responding /\ BodiesOnce /\ Nesting /\ Fresh

LEMMA NextShape ==
  ASSUME Queues, Typed, Reachable, RefusedNeverServed, Shape, [HttpNext]_vars
  PROVE  Shape'
<1>1. Ways' /\ TableTypes' /\ Alternating' /\ ResponsesFit'
  BY NextWays, NextTables, NextAlternating, NextResponses DEF Shape, Typed
<1>2. SentOnce'
  BY NextLedger DEF Shape, Typed
<1>3. Connections' /\ Responding'
  BY NextConnections, NextResponding DEF Shape
<1>4. BodiesOnce' /\ Nesting' /\ Fresh'
  BY NextBodies, NextNesting, NextFreshSockets DEF Shape, Typed
<1>. QED  BY <1>1, <1>2, <1>3, <1>4 DEF Shape

LEMMA InitShape == HttpInit => Shape
<1>1. HttpInit => TableTypes /\ Alternating
  <2>. SUFFICES ASSUME HttpInit PROVE TableTypes /\ Alternating
    OBVIOUS
  <2>1. serving = "listening" /\ requestSocketLookup = {} /\ astray = FALSE /\ doomed = [s \in Sockets |-> 0]
    BY DEF HttpInit
  <2>2. TableTypes
    BY <2>1 DEF TableTypes
  <2>3. receiving = <<>> /\ stack = <<>>
    BY DEF HttpInit, ProviderInit
  <2>. QED  BY <2>2, <2>3 DEF Alternating
<1>. QED  BY <1>1, InitWays, InitLedger, InitResponses, InitOwed DEF Shape

LEMMA ShapeHolds == HttpSpec => [](Queues /\ Typed /\ Shape)
<1>1. ProviderTypeOK /\ HasSocket => Typed
  BY TypeParts DEF Typed
<1>2. HttpSpec => [](Wired /\ Reachable)
  BY Implementation, WiredHolds, PTL DEF ImplementsProvider
<1>3. Queues /\ Typed /\ Reachable /\ RefusedNeverServed /\ Shape /\ [HttpNext]_vars => Shape'
  BY NextShape
<1>. QED  BY <1>1, <1>2, <1>3, InitShape, QueuesHold, LedgerHolds, PTL DEF HttpSpec

-----------------------------------------------------------------------------
(* What m_requestPayload holds. *)

\* For the parts w on their way, the requests q a client has sent, the bodies p
\* in the payload and the state of the connection: p is the first bodies of q,
\* and w what follows them, to the end of q while the client is there.
InStep(w, q, p, link) ==
  \E m \in 0..Len(q), b \in {0, 1} :
    /\ p = [j \in 1..m |-> q[j].body]
    /\ 2 * m + b + Len(w) <= 2 * Len(q)
    /\ link \in {"none", "open"} => 2 * m + b + Len(w) = 2 * Len(q)
    /\ \A k \in 1..Len(w), j \in 1..Len(q) :
         /\ 2 * j = 2 * m + b + k + 1 => w[k].part = "head"
         /\ 2 * j = 2 * m + b + k => w[k].part = "body" /\ w[k].req = q[j].req /\ w[k].body = q[j].body

Collected ==
  \A s \in Sockets : parser[s] = "ready" => InStep(Way(s), requests[s], payload[s], conn[s])

\* A way that stays, while its connection may end.
LEMMA InStepKept ==
  ASSUME NEW w, NEW q, NEW p, NEW link, NEW link2, InStep(w, q, p, link),
         link2 \in {"none", "open"} => link \in {"none", "open"}
  PROVE  InStep(w, q, p, link2)
  BY DEF InStep

LEMMA InStepPrefix ==
  ASSUME NEW w \in Seq(Parts), NEW v \in Seq(Parts), NEW q \in Seq(Parts), NEW p, NEW link, InStep(w, q, p, link),
         \A k \in DOMAIN v : k \in DOMAIN w /\ v[k] = w[k]
  PROVE  InStep(v, q, p, "closing")
<1>1. Len(v) \in Nat /\ Len(w) \in Nat /\ Len(q) \in Nat /\ DOMAIN v = 1..Len(v) /\ DOMAIN w = 1..Len(w)
  OBVIOUS
<1>2. Len(v) <= Len(w)
  <2>1. Len(v) # 0 => Len(v) \in DOMAIN v
    BY <1>1
  <2>2. Len(v) # 0 => Len(v) \in 1..Len(w)
    BY <1>1, <2>1
  <2>. QED  BY <1>1, <2>2
<1>3. PICK m \in 0..Len(q), b \in {0, 1} :
        /\ p = [j \in 1..m |-> q[j].body]
        /\ 2 * m + b + Len(w) <= 2 * Len(q)
        /\ \A k \in 1..Len(w), j \in 1..Len(q) :
             /\ 2 * j = 2 * m + b + k + 1 => w[k].part = "head"
             /\ 2 * j = 2 * m + b + k => w[k].part = "body" /\ w[k].req = q[j].req /\ w[k].body = q[j].body
  BY DEF InStep
<1>4. 2 * m + b + Len(v) <= 2 * Len(q)
  BY <1>1, <1>2, <1>3
<1>5. ASSUME NEW k \in 1..Len(v), NEW j \in 1..Len(q)
      PROVE  /\ 2 * j = 2 * m + b + k + 1 => v[k].part = "head"
             /\ 2 * j = 2 * m + b + k => v[k].part = "body" /\ v[k].req = q[j].req /\ v[k].body = q[j].body
  BY <1>1, <1>3, <1>5
<1>. QED  BY <1>3, <1>4, <1>5 DEF InStep

\* A head is taken, or a body, which then ends the payload.
LEMMA InStepTail ==
  ASSUME NEW w \in Seq(Parts), w # <<>>, NEW q \in Seq(Parts), NEW p \in Seq(Bodies), NEW link,
         InStep(w, q, p, link)
  PROVE  /\ w[1].part = "head" => InStep(Tail(w), q, p, link)
         /\ w[1].part = "body" =>
              /\ InStep(Tail(w), q, Append(p, w[1].body), link)
              /\ \E i \in 1..Len(q) :
                   w[1].req = q[i].req /\ Append(p, w[1].body) = [j \in 1..i |-> q[j].body]
<1>1. /\ Len(w) \in Nat /\ Len(q) \in Nat /\ Len(w) >= 1
      /\ Len(Tail(w)) = Len(w) - 1 /\ \A k \in 1..Len(Tail(w)) : Tail(w)[k] = w[k + 1]
  OBVIOUS
<1>2. PICK m \in 0..Len(q), b \in {0, 1} :
        /\ p = [j \in 1..m |-> q[j].body]
        /\ 2 * m + b + Len(w) <= 2 * Len(q)
        /\ link \in {"none", "open"} => 2 * m + b + Len(w) = 2 * Len(q)
        /\ \A k \in 1..Len(w), j \in 1..Len(q) :
             /\ 2 * j = 2 * m + b + k + 1 => w[k].part = "head"
             /\ 2 * j = 2 * m + b + k => w[k].part = "body" /\ w[k].req = q[j].req /\ w[k].body = q[j].body
  BY DEF InStep
<1>3. m + 1 \in 1..Len(q)
  BY <1>1, <1>2
<1>4. CASE b = 0
  <2>1. w[1].part = "head"
    BY <1>1, <1>2, <1>3, <1>4
  <2>2. ASSUME NEW k \in 1..Len(Tail(w)), NEW j \in 1..Len(q)
        PROVE  /\ 2 * j = 2 * m + 1 + k + 1 => Tail(w)[k].part = "head"
               /\ 2 * j = 2 * m + 1 + k =>
                    Tail(w)[k].part = "body" /\ Tail(w)[k].req = q[j].req /\ Tail(w)[k].body = q[j].body
    <3>1. k + 1 \in 1..Len(w) /\ Tail(w)[k] = w[k + 1]
      BY <1>1
    <3>. QED  BY <1>2, <1>4, <3>1
  <2>3. /\ 2 * m + 1 + Len(Tail(w)) <= 2 * Len(q)
        /\ 2 * m + b + Len(w) = 2 * Len(q) => 2 * m + 1 + Len(Tail(w)) = 2 * Len(q)
    BY <1>1, <1>2, <1>4
  <2>4. link \in {"none", "open"} => 2 * m + 1 + Len(Tail(w)) = 2 * Len(q)
    BY <1>2, <2>3
  <2>5. InStep(Tail(w), q, p, link)
    BY <1>2, <2>2, <2>3, <2>4 DEF InStep
  <2>. QED  BY <2>1, <2>5
<1>5. CASE b = 1
  <2>1. w[1].part = "body" /\ w[1].req = q[m + 1].req /\ w[1].body = q[m + 1].body
    BY <1>1, <1>2, <1>3, <1>5
  <2>2. Append(p, w[1].body) = [j \in 1..(m + 1) |-> q[j].body]
    <3>1. Len(p) = m
      BY <1>1, <1>2
    <3>. QED  BY <1>1, <1>2, <2>1, <3>1
  <2>3. ASSUME NEW k \in 1..Len(Tail(w)), NEW j \in 1..Len(q)
        PROVE  /\ 2 * j = 2 * (m + 1) + 0 + k + 1 => Tail(w)[k].part = "head"
               /\ 2 * j = 2 * (m + 1) + 0 + k =>
                    Tail(w)[k].part = "body" /\ Tail(w)[k].req = q[j].req /\ Tail(w)[k].body = q[j].body
    <3>1. k + 1 \in 1..Len(w) /\ Tail(w)[k] = w[k + 1]
      BY <1>1
    <3>. QED  BY <1>2, <1>5, <3>1
  <2>4. /\ m + 1 \in 0..Len(q)
        /\ 2 * (m + 1) + 0 + Len(Tail(w)) <= 2 * Len(q)
        /\ 2 * m + b + Len(w) = 2 * Len(q) => 2 * (m + 1) + 0 + Len(Tail(w)) = 2 * Len(q)
    <3>0. Len(q) \in Nat /\ Len(w) \in Nat
      OBVIOUS
    <3>1. PICK n \in Nat, l \in Nat : n = Len(q) /\ l = Len(w)
      BY <3>0, Zenon
    <3>t. Len(Tail(w)) = l - 1
      BY <1>1, <3>1
    <3>2. m \in Nat /\ m + 1 <= n /\ 2 * m + 1 + l <= 2 * n
      BY <1>2, <1>3, <1>5, <3>1
    <3>3. 2 * (m + 1) + 0 + (l - 1) <= 2 * n
      BY <3>2
    <3>4. 2 * m + b + l = 2 * n => 2 * (m + 1) + 0 + (l - 1) = 2 * n
      BY <1>5, <3>2
    <3>. QED  BY <3>1, <3>t, <3>2, <3>3, <3>4
  <2>5. link \in {"none", "open"} => 2 * (m + 1) + 0 + Len(Tail(w)) = 2 * Len(q)
    BY <1>2, <2>4
  <2>6. InStep(Tail(w), q, Append(p, w[1].body), link)
    BY <2>2, <2>3, <2>4, <2>5 DEF InStep
  <2>. QED  BY <1>3, <2>1, <2>2, <2>6
<1>. QED  BY <1>2, <1>4, <1>5

\* The client sends a request.
LEMMA InStepSend ==
  ASSUME NEW w \in Seq(Parts), NEW q \in Seq(Parts), NEW p, NEW head \in Parts, NEW body \in Parts,
         InStep(w, q, p, "open"),
         head.part = "head", body.part = "body", body.req = head.req, body.body = head.body
  PROVE  InStep(w \o <<head, body>>, Append(q, head), p, "open")
<1>. DEFINE v == w \o <<head, body>>
            r == Append(q, head)
<1>1. /\ Len(w) \in Nat /\ Len(q) \in Nat /\ Len(v) = Len(w) + 2 /\ Len(r) = Len(q) + 1
      /\ \A k \in 1..Len(w) : v[k] = w[k]
      /\ v[Len(w) + 1] = head /\ v[Len(w) + 2] = body
      /\ \A j \in 1..Len(q) : r[j] = q[j]
      /\ r[Len(q) + 1] = head
  BY SMTT(20)
<1>. HIDE DEF v, r
<1>2. PICK m \in 0..Len(q), b \in {0, 1} :
        /\ p = [j \in 1..m |-> q[j].body]
        /\ 2 * m + b + Len(w) = 2 * Len(q)
        /\ \A k \in 1..Len(w), j \in 1..Len(q) :
             /\ 2 * j = 2 * m + b + k + 1 => w[k].part = "head"
             /\ 2 * j = 2 * m + b + k => w[k].part = "body" /\ w[k].req = q[j].req /\ w[k].body = q[j].body
  BY DEF InStep
<1>3. p = [j \in 1..m |-> r[j].body] /\ m \in 0..Len(r) /\ 2 * m + b + Len(v) = 2 * Len(r)
  <2>1. m \in 0..Len(r) /\ 2 * m + b + Len(v) = 2 * Len(r) /\ \A j \in 1..m : j \in 1..Len(q)
    <3>1. PICK n \in Nat, l \in Nat : n = Len(q) /\ l = Len(w) /\ Len(v) = l + 2 /\ Len(r) = n + 1
      BY <1>1
    <3>2. m \in 0..n /\ 2 * m + b + l = 2 * n
      BY <1>2, <3>1
    <3>3. 2 * m + b + (l + 2) = 2 * (n + 1)
      BY <3>2
    <3>. QED  BY <3>1, <3>2, <3>3
  <2>2. [j \in 1..m |-> q[j].body] = [j \in 1..m |-> r[j].body]
    BY <1>1, <2>1
  <2>. QED  BY <1>2, <2>1, <2>2
<1>4. ASSUME NEW k \in 1..Len(v), NEW j \in 1..Len(r)
      PROVE  /\ 2 * j = 2 * m + b + k + 1 => v[k].part = "head"
             /\ 2 * j = 2 * m + b + k => v[k].part = "body" /\ v[k].req = r[j].req /\ v[k].body = r[j].body
  <2>1. CASE k \in 1..Len(w)
    <3>1. 2 * j = 2 * m + b + k + 1 => j \in 1..Len(q)
      BY <1>1, <1>2, <2>1
    <3>2. 2 * j = 2 * m + b + k => j \in 1..Len(q)
      BY <1>1, <1>2, <2>1
    <3>. QED  BY <1>1, <1>2, <2>1, <3>1, <3>2
  <2>2. CASE k = Len(w) + 1
    BY <1>1, <1>2, <2>2
  <2>3. CASE k = Len(w) + 2
    BY <1>1, <1>2, <2>3
  <2>. QED  BY <1>1, <2>1, <2>2, <2>3
<1>5. 2 * m + b + Len(v) <= 2 * Len(r)
  BY <1>1, <1>3
<1>6. InStep(v, r, p, "open")
  BY <1>3, <1>4, <1>5 DEF InStep
<1>. QED  BY <1>6 DEF v, r

\* What a step may do to connections and parsers.
LEMMA StreamSteps ==
  ASSUME Ways, [HttpNext]_vars, NEW s \in Sockets
  PROVE  /\ parser'[s] = "ready" => parser[s] = "ready"
         /\ conn'[s] \in {"none", "open"} => conn[s] \in {"none", "open"}
<1>. DEFINE Goal == /\ parser'[s] = "ready" => parser[s] = "ready"
                    /\ conn'[s] \in {"none", "open"} => conn[s] \in {"none", "open"}
<1>1. UNCHANGED <<conn, parser>> => Goal
  OBVIOUS
<1>2. ASSUME NEW t \in Sockets, NEW r \in Requests, NEW post \in Posts, ClientSends(t, r, post) PROVE Goal
  BY <1>2 DEF ClientSends, parserVars
<1>3. ASSUME NEW t \in Sockets, ClientCloses(t) \/ IncomingConnection(t) PROVE Goal
  BY <1>3 DEF ClientCloses, IncomingConnection, parserVars, Ways
<1>4. ASSUME NEW S, Disconnected(S), UNCHANGED parser PROVE Goal
  BY <1>4 DEF Disconnected
<1>5. ASSUME NEW t \in Sockets, DeviceDisconnects(t) PROVE Goal
  BY <1>4, <1>5 DEF DeviceDisconnects, parserVars
<1>6. ASSUME NEW t \in Sockets, DeferredDelete(t) \/ ReadIncomingData(t) \/ ReadSilently(t) \/ MessageComplete(t)
      PROVE  UNCHANGED <<conn, parser>>
  BY <1>6 DEF DeferredDelete, ReadIncomingData, ReadSilently, MessageComplete, httpVars, linkVars, parserVars
<1>7. ASSUME NEW t \in Sockets, HeadersComplete(t) PROVE Goal
  BY <1>7 DEF HeadersComplete, ParserFails, linkVars, Ways
<1>8. ReceiveReturns \/ ReceiveGoesAstray \/ (\E r \in Requests : TaskDue(r)) \/ MethodDue \/ RegistryStep
      \/ UNCHANGED vars => UNCHANGED <<conn, parser>>
  BY DEF ReceiveReturns, ReceiveGoesAstray, TaskDue, MethodDue, RegistryStep, vars, httpVars, linkVars, parserVars
<1>9. ServerDestroyed \/ (\E then \in {"listening", "closed"} : CloseServer(then)) => Goal
  BY <1>4 DEF ServerDestroyed, CloseServer, parserVars
<1>. QED
  BY <1>1, <1>2, <1>3, <1>5, <1>6, <1>7, <1>8, <1>9 DEF HttpNext, ClientStep, SocketStep, ReceiveStep

LEMMA InitCollected == HttpInit => Collected
<1>. SUFFICES ASSUME HttpInit, NEW s \in Sockets PROVE InStep(Way(s), requests[s], payload[s], conn[s])
  BY DEF Collected
<1>1. /\ requests[s] = <<>> /\ payload[s] = <<>> /\ conn[s] = "none"
      /\ chunk[s] = <<>> /\ silent[s] = <<>> /\ inbox[s] = <<>>
  BY DEF HttpInit
<1>2. <<>> \o <<>> \o <<>> = <<>> /\ Len(<<>>) = 0
  OBVIOUS
<1>3. InStep(<<>>, <<>>, <<>>, "none")
  <2>1. <<>> = [j \in 1..0 |-> <<>>[j].body]
    OBVIOUS
  <2>2. 0 \in 0..0 /\ 2 * 0 + 0 + 0 = 2 * 0
    OBVIOUS
  <2>3. \A k \in 1..0 : FALSE
    OBVIOUS
  <2>. QED  BY <1>2, <2>1, <2>2, <2>3 DEF InStep
<1>. QED  BY <1>1, <1>2, <1>3 DEF Way

\* The requests a step does not touch.
LEMMA RequestsKept ==
  ASSUME Queues, [HttpNext]_vars, NEW s \in Sockets,
         ~\E r \in Requests, post \in Posts : ClientSends(s, r, post)
  PROVE  requests'[s] = requests[s]
<1>1. ASSUME NEW t \in Sockets, NEW r \in Requests, NEW post \in Posts, ClientSends(t, r, post)
      PROVE  requests'[s] = requests[s]
  BY <1>1 DEF ClientSends, Queues
<1>2. ASSUME NEW t \in Sockets, MessageComplete(t) PROVE UNCHANGED requests
  BY <1>2 DEF MessageComplete, linkVars
<1>. QED  BY <1>1, <1>2, LedgerCases

LEMMA NextCollected ==
  ASSUME Queues, StackType, Ways, Collected, [HttpNext]_vars
  PROVE  Collected'
<1>. SUFFICES ASSUME NEW s \in Sockets, parser'[s] = "ready"
              PROVE  InStep(Way(s)', requests'[s], payload'[s], conn'[s])
  BY DEF Collected
<1>1. PICK w \in Seq(Parts), q \in Seq(Parts), p \in Seq(Bodies), link \in {conn[s]} :
        w = Way(s) /\ q = requests[s] /\ p = payload[s] /\ link = conn[s]
  BY WayIsSeq DEF Queues
<1>2. parser[s] = "ready" /\ InStep(w, q, p, link)
  BY <1>1, StreamSteps DEF Collected
<1>3. ASSUME NEW r \in Requests, NEW post \in Posts, ClientSends(s, r, post)
      PROVE  InStep(Way(s)', requests'[s], payload'[s], conn'[s])
  <2>1. PICK head \in Parts, body \in Parts :
          /\ head.req = r /\ head.part = "head"
          /\ body.req = r /\ body.part = "body" /\ body.head = head.head /\ body.body = head.body
          /\ Way(s)' = Way(s) \o <<head, body>>
          /\ requests'[s] = Append(requests[s], head)
          /\ \A t \in Sockets \ {s} : Way(t)' = Way(t) /\ requests'[t] = requests[t]
    BY <1>3, SendsWay, Zenon
  <2>2. link = "open" /\ payload'[s] = p /\ conn'[s] = link
    BY <1>1, <1>3 DEF ClientSends, parserVars
  <2>3. InStep(w \o <<head, body>>, Append(q, head), p, "open")
    BY <1>2, <2>1, <2>2, InStepSend
  <2>. QED  BY <1>1, <2>1, <2>2, <2>3
<1>4. CASE MessageComplete(s)
  <2>1. /\ chunk[s] # <<>> /\ Head(chunk[s]).part = "body" /\ Consume(s)
        /\ AppendBody(s, Head(chunk[s]).body) /\ UNCHANGED <<inbox, silent, requests, conn>>
    BY <1>4 DEF MessageComplete, Parsing, linkVars
  <2>2. w # <<>> /\ Way(s)' = Tail(w) /\ w[1] = Head(chunk[s])
    BY <1>1, <2>1, ConsumesWay
  <2>3. payload'[s] = Append(p, w[1].body)
    BY <1>1, <2>1, <2>2 DEF AppendBody, Queues
  <2>4. InStep(Tail(w), q, Append(p, w[1].body), link)
    BY <1>2, <2>1, <2>2, InStepTail
  <2>. QED  BY <1>1, <2>1, <2>2, <2>3, <2>4
<1>5. ASSUME ~MessageComplete(s), ~\E r \in Requests, post \in Posts : ClientSends(s, r, post)
      PROVE  InStep(Way(s)', requests'[s], payload'[s], conn'[s])
  <2>1. requests'[s] = q /\ payload'[s] = p
    BY <1>1, <1>5, RequestsKept, TakenSteps
  <2>2. conn'[s] \in {"none", "open"} => link \in {"none", "open"}
    BY <1>1, StreamSteps
  <2>3. CASE Way(s)' = Way(s)
    BY <1>1, <1>2, <2>1, <2>2, <2>3, InStepKept
  <2>4. CASE ClientCloses(s) /\ \A i \in DOMAIN Way(s)' : i \in DOMAIN Way(s) /\ Way(s)'[i] = Way(s)[i]
    <3>1. conn'[s] = "closing"
      BY <2>4 DEF ClientCloses, Ways
    <3>2. Queues'
      BY NextQueues
    <3>3. PICK v \in Seq(Parts) : v = Way(s)'
      <4>1. PICK x \in Seq(Parts), y \in Seq(Parts), z \in Seq(Parts) : x = chunk'[s] /\ y = silent'[s] /\ z = inbox'[s]
        BY <3>2 DEF Queues
      <4>2. x \o y \in Seq(Parts)
        BY ConcatProperties
      <4>3. (x \o y) \o z \in Seq(Parts)
        BY <4>2, ConcatProperties
      <4>. QED  BY <4>1, <4>3 DEF Way
    <3>4. \A k \in DOMAIN v : k \in DOMAIN w /\ v[k] = w[k]
      BY <1>1, <2>4, <3>3
    <3>5. InStep(v, q, p, "closing")
      BY <1>2, <3>4, InStepPrefix
    <3>. QED  BY <2>1, <3>1, <3>3, <3>5
  <2>5. CASE HeadersComplete(s) /\ Way(s) # <<>> /\ Way(s)' = Tail(Way(s)) /\ Way(s)[1] = Head(chunk[s])
    <3>1. w[1].part = "head" /\ w # <<>> /\ Way(s)' = Tail(w) /\ UNCHANGED conn
      BY <1>1, <2>5 DEF HeadersComplete, Parsing, linkVars
    <3>2. InStep(Tail(w), q, p, link)
      BY <1>2, <3>1, InStepTail
    <3>. QED  BY <1>1, <2>1, <3>1, <3>2
  <2>. QED  BY <1>2, <1>5, <2>3, <2>4, <2>5, WaySteps
<1>. QED  BY <1>3, <1>4, <1>5

LEMMA InitBodiesAddUp == HttpInit => BodiesAddUp
  BY DEF HttpInit, BodiesAddUp

\* The bodies up to the i-th do not change with what comes behind them.
LEMMA SendsAddUp ==
  ASSUME Queues, SentOnce, BodiesAddUp,
         NEW s \in Sockets, NEW r \in Requests, NEW post \in Posts, ClientSends(s, r, post)
  PROVE  BodiesAddUp'
<1>1. PICK head \in Parts : head.req = r /\ requests' = [requests EXCEPT ![s] = Append(@, head)]
  BY PartsOfRequest DEF ClientSends
<1>2. kind[r] = "none" /\ UNCHANGED kind
  BY DEF ClientSends, SentOnce, providerVars, requestVars
<1>. SUFFICES ASSUME NEW t \in Sockets, NEW i \in DOMAIN requests'[t]
              PROVE  kind[requests'[t][i].req] \in {"none", Parsed([j \in 1..i |-> requests'[t][j].body])}
  BY <1>2, Zenon DEF BodiesAddUp
<1>3. CASE t # s
  <2>1. requests'[t] = requests[t]
    BY <1>1, <1>3 DEF Queues
  <2>. QED  BY <2>1 DEF BodiesAddUp
<1>4. CASE t = s
  <2>1. PICK q \in Seq(Parts) : q = requests[s] /\ requests'[s] = Append(q, head)
    BY <1>1 DEF Queues
  <2>2. /\ DOMAIN Append(q, head) = 1..(Len(q) + 1) /\ DOMAIN q = 1..Len(q) /\ Len(q) \in Nat
        /\ \A j \in 1..Len(q) : Append(q, head)[j] = q[j]
        /\ Append(q, head)[Len(q) + 1] = head
    OBVIOUS
  <2>3. CASE i = Len(q) + 1
    BY <1>1, <1>2, <1>4, <2>1, <2>2, <2>3
  <2>4. CASE i # Len(q) + 1
    <3>1. i \in DOMAIN requests[s] /\ \A j \in 1..i : requests'[s][j] = requests[s][j]
      BY <1>4, <2>1, <2>2, <2>4
    <3>2. [j \in 1..i |-> requests'[s][j].body] = [j \in 1..i |-> requests[s][j].body]
      BY <3>1
    <3>3. requests'[s][i] = requests[s][i]
      BY <1>4, <2>1, <2>2, <2>4
    <3>. QED  BY <1>4, <3>1, <3>2, <3>3 DEF BodiesAddUp
  <2>. QED  BY <2>3, <2>4
<1>. QED  BY <1>3, <1>4

\* onMessageComplete: the body is the one that comes next in the payload.
LEMMA CompletesAddUp ==
  ASSUME Queues, DataType, SentOnce, Collected, BodiesAddUp, NEW s \in Sockets, MessageComplete(s)
  PROVE  BodiesAddUp'
<1>1. PICK w \in Seq(Parts), q \in Seq(Parts), p \in Seq(Bodies) :
        w = Way(s) /\ q = requests[s] /\ p = payload[s]
  BY WayIsSeq DEF Queues
<1>2. /\ parser[s] = "ready" /\ chunk[s] # <<>> /\ Head(chunk[s]).part = "body" /\ Consume(s)
      /\ AppendBody(s, Head(chunk[s]).body) /\ UNCHANGED <<inbox, silent, requests>>
  BY DEF MessageComplete, Parsing, linkVars
<1>3. w # <<>> /\ w[1] = Head(chunk[s])
  BY <1>1, <1>2, ConsumesWay
<1>4. payload'[s] = Append(p, w[1].body)
  BY <1>1, <1>2, <1>3 DEF AppendBody, Queues
<1>5. PICK i \in 1..Len(q) :
        w[1].req = q[i].req /\ Append(p, w[1].body) = [j \in 1..i |-> q[j].body]
  <2>1. InStep(w, q, p, conn[s])
    BY <1>1, <1>2 DEF Collected
  <2>2. w[1].part = "body"
    BY <1>2, <1>3
  <2>. QED  BY <1>3, <2>1, <2>2, InStepTail, Zenon
<1>6. PICK r : r = w[1].req
  OBVIOUS
<1>7. r \in Requests /\ kind'[r] = Parsed(payload'[s]) /\ \A o \in Requests \ {r} : kind'[o] = kind[o]
  BY <1>3, <1>6, ProcessesOnce
<1>8. i \in DOMAIN requests[s] /\ requests[s][i].req = r
  BY <1>1, <1>5, <1>6
<1>9. Parsed(payload'[s]) = Parsed([j \in 1..i |-> requests[s][j].body])
  BY <1>1, <1>4, <1>5
<1>. SUFFICES ASSUME NEW t \in Sockets, NEW k \in DOMAIN requests[t]
              PROVE  kind'[requests[t][k].req] \in {"none", Parsed([j \in 1..k |-> requests[t][j].body])}
  BY <1>2 DEF BodiesAddUp
<1>10. requests[t][k].req \in Requests
  BY PartFields DEF Queues
<1>11. CASE requests[t][k].req = r
  <2>1. t = s /\ k = i
    BY <1>8, <1>11 DEF SentOnce
  <2>. QED  BY <1>7, <1>9, <1>11, <2>1
<1>12. CASE requests[t][k].req # r
  BY <1>7, <1>10, <1>12 DEF BodiesAddUp
<1>. QED  BY <1>11, <1>12

\* A request is processed as what the bodies of its connection say together, up
\* to its own, which m_requestPayload keeps: whatever is read in which pieces, in
\* whichever nested loops, none is lost, doubled, moved or another connection's.
THEOREM BodiesAddUpHolds == HttpSpec => []BodiesAddUp
<1>1. ASSUME Queues, Typed, Shape, Collected, BodiesAddUp, [HttpNext]_vars PROVE BodiesAddUp'
  <2>1. ASSUME UNCHANGED <<requests, kind>> PROVE BodiesAddUp'
    BY <1>1, <2>1 DEF BodiesAddUp
  <2>. QED  BY <1>1, <2>1, LedgerCases, SendsAddUp, CompletesAddUp DEF Shape, Typed
<1>2. Queues /\ Typed /\ Shape /\ Collected /\ [HttpNext]_vars => Collected'
  BY NextCollected DEF Shape, Typed
<1>. QED  BY <1>1, <1>2, InitCollected, InitBodiesAddUp, ShapeHolds, PTL DEF HttpSpec

\* The bodies end with one that is a message by itself.
LEMMA ParsedLast ==
  ASSUME NEW bodies \in Seq(Bodies), Len(bodies) > 0, bodies[Len(bodies)] \in Kinds
  PROVE  Parsed(bodies) \in {"other", bodies[Len(bodies)]}
<1>1. ASSUME NEW doc \in Documents, Spell(bodies, doc)
      PROVE  doc \in Seq(Kinds \cup Fragments) /\ Len(doc) > 0 /\ doc[Len(doc)] = bodies[Len(bodies)]
  <2>1. doc \in Seq(Kinds \cup Fragments) /\ Len(doc) > 0
    <3>1. CASE doc \in DOMAIN Joined
      BY <3>1, HttpAssumption DEF HttpAssumption
    <3>2. ASSUME NEW k \in Kinds, doc = <<k>> PROVE doc \in Seq(Kinds \cup Fragments) /\ Len(doc) > 0
      BY <3>2
    <3>. QED  BY <3>1, <3>2 DEF Documents
  <2>2. PICK at \in [DOMAIN doc -> DOMAIN bodies] :
          /\ \A k \in DOMAIN doc : bodies[at[k]] = doc[k]
          /\ \A k, l \in DOMAIN doc : k < l => at[k] < at[l]
          /\ \A i \in DOMAIN bodies : bodies[i] = "empty" \/ \E k \in DOMAIN doc : at[k] = i
    BY <1>1 DEF Spell
  <2>3. /\ DOMAIN doc = 1..Len(doc) /\ DOMAIN bodies = 1..Len(bodies)
        /\ Len(doc) \in Nat /\ Len(bodies) \in Nat
        /\ Len(doc) \in DOMAIN doc /\ Len(bodies) \in DOMAIN bodies
    BY <2>1
  <2>4. bodies[Len(bodies)] # "empty"
    BY DEF Kinds, Calling, Notifying
  <2>5. PICK k \in DOMAIN doc : at[k] = Len(bodies)
    BY <2>2, <2>3, <2>4
  <2>6. k = Len(doc)
    <3>1. at[Len(doc)] \in 1..Len(bodies) /\ k <= Len(doc)
      <4>1. at[Len(doc)] \in DOMAIN bodies
        BY <2>3
      <4>. QED  BY <2>3, <4>1
    <3>2. k < Len(doc) => at[k] < at[Len(doc)]
      BY <2>2, <2>3
    <3>. QED  BY <2>3, <2>5, <3>1, <3>2
  <2>. QED  BY <2>1, <2>2, <2>5, <2>6
<1>2. CASE \E doc \in Documents : Spell(bodies, doc)
  <2>1. PICK doc \in Documents :
          /\ Spell(bodies, doc)
          /\ Parsed(bodies) = IF doc \in DOMAIN Joined THEN Joined[doc] ELSE Head(doc)
    BY <1>2, Zenon DEF Parsed
  <2>2. doc[Len(doc)] = bodies[Len(bodies)]
    BY <1>1, <2>1
  <2>3. CASE doc \in DOMAIN Joined
    BY <2>1, <2>2, <2>3, EndsAssumption DEF EndsAssumption
  <2>4. ASSUME NEW k \in Kinds, doc = <<k>>, doc \notin DOMAIN Joined
        PROVE  Parsed(bodies) = bodies[Len(bodies)]
    BY <2>1, <2>2, <2>4
  <2>. QED  BY <2>3, <2>4 DEF Documents
<1>3. CASE ~\E doc \in Documents : Spell(bodies, doc)
  BY <1>3 DEF Parsed
<1>. QED  BY <1>2, <1>3

\* A request whose body is a message by itself is processed as that message or as
\* an invalid one, whatever the payload holds before it; pieces of a message are
\* the ones that join.
THEOREM WholeBodiesKeepTheirKind ==
  HttpSpec => [](\A s \in Sockets : \A i \in DOMAIN requests[s] :
                   LET request == requests[s][i]
                   IN  request.body \in Kinds => kind[request.req] \in {"none", "other", request.body})
<1>1. ASSUME Queues, BodiesAddUp, NEW s \in Sockets, NEW i \in DOMAIN requests[s], requests[s][i].body \in Kinds
      PROVE  kind[requests[s][i].req] \in {"none", "other", requests[s][i].body}
  <2>1. PICK q \in Seq(Parts) : q = requests[s]
    BY <1>1 DEF Queues
  <2>2. PICK bodies : bodies = [j \in 1..i |-> q[j].body]
    OBVIOUS
  <2>3. i \in 1..Len(q) /\ Len(q) \in Nat
    BY <2>1
  <2>4. bodies \in Seq(Bodies) /\ Len(bodies) = i /\ bodies[i] = q[i].body
    <3>1. \A j \in 1..i : q[j] \in Parts
      BY <2>3
    <3>2. bodies \in [1..i -> Bodies] /\ i \in Nat /\ bodies[i] = q[i].body
      BY <2>2, <2>3, <3>1, PartFields
    <3>. QED  BY <3>2
  <2>5. Parsed(bodies) \in {"other", q[i].body}
    BY <1>1, <2>1, <2>3, <2>4, ParsedLast
  <2>. QED  BY <1>1, <2>1, <2>2, <2>5 DEF BodiesAddUp
<1>2. Queues /\ BodiesAddUp =>
        \A s \in Sockets : \A i \in DOMAIN requests[s] :
          LET request == requests[s][i]
          IN  request.body \in Kinds => kind[request.req] \in {"none", "other", request.body}
  BY <1>1
<1>. QED  BY <1>2, BodiesAddUpHolds, QueuesHold, PTL

\* A server that has nothing more to do has deleted the socket of every device it
\* has closed, in whichever nested loop it learnt that the device is closed.
THEOREM IdleServerDeletesAnswered ==
  HttpSpec => [](SomethingIsDue \/ \A s \in Sockets : device[s] = "closed" => life[s] = "deleted")
<1>1. Queues /\ Typed /\ Shape => SomethingIsDue \/ \A s \in Sockets : device[s] = "closed" => life[s] = "deleted"
  BY IdleDeletes DEF Shape
<1>. QED  BY <1>1, ShapeHolds, PTL

\* A server that has nothing more to do has answered every client that waits for
\* the response it was promised, however requests, loops and delays interleave.
THEOREM IdleServerHasAnswered ==
  ASSUME ~DelayAndNest, ~ImpatientClients
  PROVE  HttpSpec => [](SomethingIsDue \/ \A s \in Sockets : Asks(s) => Served(s))
<1>1. HttpSpec => [](NoCallForgotten /\ Wired)
  BY Implementation, NoCallForgottenHolds, WiredHolds, PTL DEF ImplementsProvider
<1>2. HttpInit => Patient /\ FirstKept
  BY InitOwed
<1>3. Queues /\ Typed /\ Shape /\ Patient /\ FirstKept /\ [HttpNext]_vars => Patient' /\ FirstKept'
  BY NextPatient, NextFirstKept DEF Shape
<1>4. Queues /\ Typed /\ Shape /\ Patient /\ FirstKept /\ Wired /\ NoCallForgotten
      => SomethingIsDue \/ \A s \in Sockets : Asks(s) => Served(s)
  BY IdleAnswers DEF Shape
<1>. QED  BY <1>1, <1>2, <1>3, <1>4, ShapeHolds, PTL DEF HttpSpec
=============================================================================
