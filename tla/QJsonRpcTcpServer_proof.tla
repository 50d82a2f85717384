------------------------ MODULE QJsonRpcTcpServer_proof ------------------------
(***************************************************************************)
(* Proofs about module QJsonRpcTcpServer: its two tables, and that it      *)
(* drives its provider within ProviderSpec, from which what is proved of   *)
(* the provider follows for the server.                                    *)
(***************************************************************************)
EXTENDS QJsonRpcTcpServer, QJsonRpcServiceProvider_proof

-----------------------------------------------------------------------------
(* What is in the queues are messages of sockets. *)

Queues ==
  /\ inbox \in [Sockets -> Seq(Messages)]
  /\ silent \in [Sockets -> Seq(Messages)]
  /\ buffer \in [Sockets -> Seq(Messages)]
  /\ receiving \in Seq(Sockets)

LEMMA AppendIsSeq ==
  ASSUME NEW S, NEW q \in Seq(S), NEW m \in S
  PROVE  Append(q, m) \in Seq(S)
  OBVIOUS

LEMMA ConcatIsSeq ==
  ASSUME NEW S, NEW p \in Seq(S), NEW q \in Seq(S)
  PROVE  p \o q \in Seq(S)
  OBVIOUS

LEMMA ConsIsSeq ==
  ASSUME NEW S, NEW q \in Seq(S), NEW x \in S
  PROVE  <<x>> \o q \in Seq(S)
  OBVIOUS

LEMMA HeadTail ==
  ASSUME NEW S, NEW q \in Seq(S), q # <<>>
  PROVE  Head(q) \in S /\ Tail(q) \in Seq(S)
  OBVIOUS

LEMMA NoMessage == <<>> \in Seq(Messages) /\ <<>> \in Seq(Sockets)
  OBVIOUS

\* The part of a server step that moves messages.
LEMMA NextQueues ==
  ASSUME Queues, [ServerNext]_vars
  PROVE  Queues'
<1>1. ASSUME UNCHANGED <<inbox, readVars>> PROVE Queues'
  BY <1>1 DEF Queues, readVars
<1>2. ASSUME NEW s \in Sockets, NEW r \in Requests, NEW k \in SentKinds, ClientSends(s, r, k)
      PROVE  Queues'
  <2>1. [req |-> r, kind |-> k] \in Messages
    BY ServerAssumption DEF ServerAssumption, Messages
  <2>2. Append(inbox[s], [req |-> r, kind |-> k]) \in Seq(Messages)
    BY <2>1, AppendIsSeq DEF Queues
  <2>. QED  BY <1>2, <2>2 DEF Queues, ClientSends, readVars
<1>3. ASSUME NEW s \in Sockets, ClientCloses(s) PROVE Queues'
  BY <1>3, NoMessage DEF Queues, ClientCloses, readVars
<1>4. ASSUME NEW s \in Sockets, ReadyRead(s) PROVE Queues'
  <2>1. buffer[s] \o silent[s] \o inbox[s] \in Seq(Messages)
    BY ConcatIsSeq DEF Queues
  <2>2. <<s>> \o receiving \in Seq(Sockets)
    BY ConsIsSeq DEF Queues
  <2>. QED  BY <1>4, <2>1, <2>2, NoMessage DEF Queues, ReadyRead
<1>5. ASSUME NEW s \in Sockets, ReadSilently(s) PROVE Queues'
  <2>1. silent[s] \o inbox[s] \in Seq(Messages)
    BY ConcatIsSeq DEF Queues
  <2>. QED  BY <1>5, <2>1, NoMessage DEF Queues, ReadSilently
<1>6. CASE ReceiveStep
  <2>0. CASE ReceiveOnDeleted
    BY <2>0, <1>1 DEF ReceiveOnDeleted, linkVars
  <2>1. ReceiveOnTop => receiving # <<>>
    BY DEF ReceiveOnTop, Queues
  <2>2. CASE ReceiveReturns
    <3>1. Tail(receiving) \in Seq(Sockets)
      BY <2>1, <2>2, HeadTail DEF Queues, ReceiveReturns
    <3>. QED  BY <2>2, <3>1 DEF Queues, ReceiveReturns, linkVars
  <2>3. CASE TakeMessage
    <3>. DEFINE s == Head(receiving)
    <3>1. s \in Sockets /\ buffer[s] # <<>>
      BY <2>1, <2>3, HeadTail DEF Queues, TakeMessage
    <3>2. Tail(buffer[s]) \in Seq(Messages)
      BY <3>1, HeadTail DEF Queues
    <3>. QED  BY <2>3, <3>1, <3>2 DEF Queues, TakeMessage, linkVars
  <2>. QED  BY <1>6, <2>0, <2>2, <2>3 DEF ReceiveStep
<1>7. ASSUME NEW s \in Sockets, IncomingConnection(s) \/ ClientDisconnected(s) \/ DeferredDelete(s)
      PROVE  Queues'
  BY <1>1, <1>7 DEF IncomingConnection, ClientDisconnected, DeferredDelete, serverVars, linkVars
<1>8. CASE ServiceStep \/ NotifyConnectedClients \/ ServerDestroyed
  BY <1>1, <1>8 DEF ServiceStep, TaskDue, NotifyConnectedClients, ServerDestroyed, serverVars, linkVars
<1>9. CASE UNCHANGED vars
  BY <1>1, <1>9 DEF vars, serverVars, linkVars
<1>. QED  BY <1>2, <1>3, <1>4, <1>5, <1>6, <1>7, <1>8, <1>9 DEF ServerNext, ClientStep, SocketStep

LEMMA InitQueues == ServerInit => Queues
  BY NoMessage DEF ServerInit, Queues

-----------------------------------------------------------------------------
(* Refinement. *)

LEMMA NextRefines ==
  ASSUME Queues, [ServerNext]_vars
  PROVE  [ProviderNext]_providerVars
<1>0. CASE UNCHANGED vars
  BY <1>0 DEF vars
<1>. SUFFICES ASSUME ServerNext PROVE [ProviderNext]_providerVars
  BY <1>0
<1>1. ASSUME NEW s \in Sockets, ClientStep(s) PROVE UNCHANGED providerVars
  BY <1>1 DEF ClientStep, ClientSends, ClientCloses
<1>2. ASSUME NEW s \in Sockets, SocketStep(s) PROVE [ProviderNext]_providerVars
  <2>1. CASE IncomingConnection(s)
    BY <2>1 DEF IncomingConnection, ProviderNext, ServerNext
  <2>2. CASE DeferredDelete(s)
    <3>1. {s} \in SUBSET Sockets /\ DeletionRuns /\ SocketsDeleted({s}) /\ ~dangling
      BY <2>2 DEF DeferredDelete, DeletionDue, LoopRuns, DeletionRuns, ServerNext
    <3>. QED  BY <3>1 DEF ProviderNext
  <2>3. CASE ClientDisconnected(s) \/ ReadyRead(s) \/ ReadSilently(s)
    BY <2>3 DEF ClientDisconnected, ReadyRead, ReadSilently
  <2>. QED  BY <1>2, <2>1, <2>2, <2>3 DEF SocketStep
<1>3. CASE ReceiveStep
  <2>1. CASE TakeMessage
    <3>. DEFINE s == Head(receiving)  m == Head(buffer[s])
    <3>1. s \in Sockets /\ buffer[s] # <<>>
      BY <2>1, HeadTail DEF Queues, TakeMessage, ReceiveOnTop
    <3>2. m \in Messages
      BY <3>1, HeadTail DEF Queues
    <3>3. m.req \in Requests /\ m.kind \in Kinds
      BY <3>2 DEF Messages
    <3>4. ProcessMessage(s, m.req, m.kind) /\ ~dangling
      BY <2>1 DEF TakeMessage, ServerNext
    <3>. HIDE DEF s, m
    <3>. QED  BY <3>1, <3>3, <3>4 DEF ProviderNext
  <2>2. CASE ReceiveReturns \/ ReceiveOnDeleted
    BY <2>2 DEF ReceiveReturns, ReceiveOnDeleted
  <2>. QED  BY <1>3, <2>1, <2>2 DEF ReceiveStep
<1>4. CASE ServiceStep
  BY <1>4 DEF ServiceStep, TaskDue, TaskStep, ProviderNext, ServerNext
<1>5. CASE NotifyConnectedClients
  BY <1>5 DEF NotifyConnectedClients
<1>6. CASE ServerDestroyed
  <2>1. Sockets \in SUBSET Sockets /\ DeletionRuns /\ SocketsDeleted(Sockets) /\ ~dangling
    BY <1>6 DEF ServerDestroyed, LoopRuns, DeletionRuns, ServerNext
  <2>. QED  BY <2>1 DEF ProviderNext
<1>. QED  BY <1>1, <1>2, <1>3, <1>4, <1>5, <1>6 DEF ServerNext

\* The server gives its provider messages and deletes its sockets only when and
\* as the provider allows: from an event loop, and one message at a time.
THEOREM Implementation == ServerSpec => ImplementsProvider
<1>1. ServerInit => ProviderInit
  BY DEF ServerInit
<1>2. ServerInit => Queues
  BY InitQueues
<1>3. Queues /\ [ServerNext]_vars => Queues' /\ [ProviderNext]_providerVars
  BY NextQueues, NextRefines
<1>. QED  BY <1>1, <1>2, <1>3, PTL DEF ServerSpec, ImplementsProvider, ProviderSpec

\* No client of the server is sent two messages for one request.
THEOREM ServerAnswersOnce ==
  ASSUME ~DelayAndNest
  PROVE  ServerSpec => []AtMostOneAnswer
  BY Implementation, AtMostOneAnswerHolds, PTL DEF ImplementsProvider

-----------------------------------------------------------------------------
(* The tables. *)

Tables ==
  /\ TablesMatchSockets
  /\ doomed \in [Sockets -> Nat]
  /\ \A s \in Sockets : doomed[s] > 0 => life[s] # "none"

Listed ==
  /\ clients = socketLookup /\ clients \subseteq Sockets
  /\ \A s \in Sockets : s \in clients <=> life[s] = "alive" /\ doomed[s] = 0

LEMMA TablesByMember == /\ TablesMatchSockets <=> Listed
                        /\ TablesMatchSockets' <=> Listed'
  BY DEF TablesMatchSockets, Listed

LEMMA InitTables == ServerInit => Tables
  BY DEF ServerInit, ProviderInit, Tables, TablesMatchSockets

LEMMA NextTables ==
  ASSUME ProviderTypeOK, Tables, [ServerNext]_vars
  PROVE  Tables'
<1>t. life \in [Sockets -> {"none", "alive", "deleted"}] /\ Level \in Nat \ {0}
  BY DEF ProviderTypeOK, Level
<1>1. ASSUME UNCHANGED <<life, clients, socketLookup, doomed>> PROVE Tables'
  BY <1>1 DEF Tables, TablesMatchSockets
<1>2. ASSUME NEW s \in Sockets, IncomingConnection(s) PROVE Tables'
  <2>1. /\ life[s] = "none" /\ life' = [life EXCEPT ![s] = "alive"]
        /\ clients' = clients \cup {s} /\ socketLookup' = socketLookup \cup {s} /\ UNCHANGED doomed
    BY <1>2 DEF IncomingConnection, SocketCreated
  <2>2. Listed /\ doomed[s] = 0
    BY <2>1, TablesByMember DEF Tables
  <2>3. Listed'
    BY <1>t, <2>1, <2>2 DEF Listed
  <2>4. \A q \in Sockets : doomed'[q] > 0 => life'[q] # "none"
    BY <1>t, <2>1 DEF Tables
  <2>. QED  BY <2>1, <2>3, <2>4, TablesByMember DEF Tables
<1>3. ASSUME NEW s \in Sockets, ClientDisconnected(s) PROVE Tables'
  <2>1. CASE s \in socketLookup
    <3>1. /\ clients' = clients \ {s} /\ socketLookup' = socketLookup \ {s}
          /\ doomed' = [doomed EXCEPT ![s] = Level] /\ UNCHANGED life /\ life[s] = "alive"
      BY <1>3, <2>1 DEF ClientDisconnected, ForgetClient, providerVars
    <3>2. Listed
      BY TablesByMember DEF Tables
    <3>3. doomed' \in [Sockets -> Nat]
      BY <1>t, <3>1 DEF Tables
    <3>4. \A q \in Sockets : doomed'[q] = IF q = s THEN Level ELSE doomed[q]
      BY <3>1 DEF Tables
    <3>5. Listed'
      BY <1>t, <3>1, <3>2, <3>4 DEF Listed
    <3>6. \A q \in Sockets : doomed'[q] > 0 => life'[q] # "none"
      BY <3>1, <3>4 DEF Tables
    <3>. QED  BY <3>3, <3>5, <3>6, TablesByMember DEF Tables
  <2>2. CASE s \notin socketLookup
    BY <1>1, <1>3, <2>2 DEF ClientDisconnected, providerVars
  <2>. QED  BY <2>1, <2>2
<1>4. ASSUME NEW s \in Sockets, DeferredDelete(s) PROVE Tables'
  <2>1. /\ doomed[s] > 0 /\ life[s] = "alive" /\ UNCHANGED <<clients, socketLookup, doomed>>
        /\ life' = [t \in Sockets |-> IF t \in {s} /\ life[t] = "alive" THEN "deleted" ELSE life[t]]
    BY <1>4, <1>t DEF DeferredDelete, DeletionDue, SocketsDeleted, serverVars, tableVars, Tables
  <2>2. \A t \in Sockets : life'[t] = IF t = s THEN "deleted" ELSE life[t]
    BY <2>1
  <2>3. Listed
    BY TablesByMember DEF Tables
  <2>4. Listed'
    BY <2>1, <2>2, <2>3 DEF Listed
  <2>5. \A t \in Sockets : doomed'[t] > 0 => life'[t] # "none"
    BY <2>1, <2>2 DEF Tables
  <2>. QED  BY <2>1, <2>4, <2>5, TablesByMember DEF Tables
<1>5. CASE ServerDestroyed
  <2>1. /\ clients' = {} /\ socketLookup' = {} /\ UNCHANGED doomed
        /\ life' = [t \in Sockets |-> IF t \in Sockets /\ life[t] = "alive" THEN "deleted" ELSE life[t]]
    BY <1>5 DEF ServerDestroyed, SocketsDeleted
  <2>2. \A t \in Sockets : life'[t] = IF life[t] = "alive" THEN "deleted" ELSE life[t]
    BY <2>1
  <2>3. Listed'
    BY <2>1, <2>2 DEF Listed
  <2>4. \A t \in Sockets : doomed'[t] > 0 => life'[t] # "none"
    BY <2>1, <2>2 DEF Tables
  <2>. QED  BY <2>1, <2>3, <2>4, TablesByMember DEF Tables
<1>6. CASE ServiceStep
  <2>1. UNCHANGED <<clients, socketLookup, doomed>>
    BY <1>6 DEF ServiceStep, TaskDue, serverVars, tableVars
  <2>2. UNCHANGED life
    BY <1>6 DEF ServiceStep, TaskDue, AddService, RemoveService, MethodStep, BeginDelayedResponse, RunNestedLoop,
       NestedLoopReturns, MethodReturns, Respond, RespondChecks, RespondPosts, PostedCallRuns, EmitResult
  <2>. QED  BY <1>1, <2>1, <2>2
<1>7. CASE ReceiveStep
  <2>1. UNCHANGED <<clients, socketLookup, doomed>>
    BY <1>7 DEF ReceiveStep, TakeMessage, ReceiveReturns, ReceiveOnDeleted, tableVars
  <2>2. UNCHANGED life
    BY <1>7 DEF ReceiveStep, TakeMessage, ReceiveReturns, ReceiveOnDeleted, ProcessMessage, Ignore,
       Reject, DispatchFails, CallMethod, providerVars
  <2>. QED  BY <1>1, <2>1, <2>2
<1>8. ASSUME NEW s \in Sockets, ClientStep(s) \/ ReadyRead(s) \/ ReadSilently(s) PROVE Tables'
  BY <1>1, <1>8 DEF ClientStep, ClientSends, ClientCloses, ReadyRead, ReadSilently, providerVars, tableVars
<1>9. CASE NotifyConnectedClients \/ UNCHANGED vars
  BY <1>1, <1>9 DEF NotifyConnectedClients, vars, providerVars, serverVars, tableVars
<1>. QED  BY <1>2, <1>3, <1>4, <1>5, <1>6, <1>7, <1>8, <1>9 DEF ServerNext, SocketStep

LEMMA TablesHold == ServerSpec => [](ProviderTypeOK /\ HasSocket /\ Tables)
<1>1. ServerInit => Tables
  BY InitTables
<1>2. ProviderTypeOK /\ Tables /\ [ServerNext]_vars => Tables'
  BY NextTables
<1>3. ServerSpec => [](ProviderTypeOK /\ HasSocket)
  BY Implementation, TypeCorrect, PTL DEF ImplementsProvider
<1>. QED  BY <1>1, <1>2, <1>3, PTL DEF ServerSpec

\* The tables of the server agree and never hold a socket that is deleted or
\* about to be, whoever leaves when.
THEOREM TablesMatchSocketsHolds == ServerSpec => []TablesMatchSockets
<1>1. Tables => TablesMatchSockets
  BY DEF Tables
<1>. QED  BY <1>1, TablesHold, PTL

-----------------------------------------------------------------------------
(* Deleted sockets. *)

\* Without nested loops no event loop runs while a receive loop does, so that
\* nothing is deleted under it.
ReceiversAlive ==
  /\ Len(receiving) >= Len(stack)
  /\ Len(receiving) <= Len(stack) + 1
  /\ \A i \in DOMAIN receiving : life[receiving[i]] = "alive"
  /\ ~freedUsed

LEMMA InitReceivers == ServerInit => ReceiversAlive
  BY DEF ServerInit, ProviderInit, ReceiversAlive

LEMMA NextReceivers ==
  ASSUME Typed, Queues, Flat, Flat', TablesMatchSockets, ReceiversAlive, [ServerNext]_vars
  PROVE  ReceiversAlive'
<1>s. stack \in Seq(Frames) /\ receiving \in Seq(Sockets)
  BY DEF Typed, StackType, Queues
<1>l. /\ InLoop => stack = <<>>
      /\ LoopRuns => stack = <<>> /\ receiving = <<>>
  <2>1. InLoop => stack = <<>>
    <3>. SUFFICES ASSUME InLoop, stack # <<>> PROVE FALSE
      OBVIOUS
    <3>1. /\ 1 \in DOMAIN stack /\ Head(stack) = stack[1]
          /\ Head(stack).at \in {"fresh", "nested", "resumed"}
      BY <1>s, TopFrame
    <3>. QED  BY <3>1 DEF InLoop, InMethod, At, Flat
  <2>2. LoopRuns => Len(receiving) <= Len(stack)
    BY <1>s DEF LoopRuns, ReceiveOnTop
  <2>. QED  BY <1>s, <2>1, <2>2 DEF LoopRuns
<1>1. ASSUME UNCHANGED <<life, stack, receiving, freedUsed>> PROVE ReceiversAlive'
  BY <1>1 DEF ReceiversAlive
<1>2. ASSUME NEW s \in Sockets, IncomingConnection(s) \/ DeferredDelete(s) PROVE ReceiversAlive'
  <2>1. stack = <<>> /\ receiving = <<>> /\ UNCHANGED <<stack, receiving, freedUsed>>
    BY <1>2, <1>l DEF IncomingConnection, DeferredDelete, DeletionDue, SocketCreated, SocketsDeleted,
       serviceVars, serverVars, readVars
  <2>. QED  BY <2>1 DEF ReceiversAlive
<1>3. CASE ServerDestroyed
  <2>1. stack = <<>> /\ receiving = <<>> /\ UNCHANGED <<stack, receiving, freedUsed>>
    BY <1>3, <1>l DEF ServerDestroyed, SocketsDeleted, serviceVars, readVars
  <2>. QED  BY <2>1 DEF ReceiversAlive
<1>4. ASSUME NEW s \in Sockets, ReadyRead(s) PROVE ReceiversAlive'
  <2>1. /\ stack = <<>> /\ receiving = <<>> /\ life[s] = "alive"
        /\ receiving' = <<s>> \o receiving /\ UNCHANGED <<life, stack, freedUsed>>
    BY <1>4, <1>l DEF ReadyRead, providerVars, serviceVars
  <2>2. receiving' = <<s>>
    BY <2>1
  <2>. QED  BY <2>1, <2>2 DEF ReceiversAlive
<1>5. ASSUME NEW s \in Sockets, ClientStep(s) \/ ClientDisconnected(s) \/ ReadSilently(s)
      PROVE  ReceiversAlive'
  BY <1>1, <1>5 DEF ClientStep, ClientSends, ClientCloses, ClientDisconnected, ReadSilently,
     providerVars, serviceVars, readVars
<1>6. CASE ReceiveStep
  <2>1. receiving # <<>> /\ Len(receiving) = Len(stack) + 1
    BY <1>s, <1>6 DEF ReceiveStep, TakeMessage, ReceiveReturns, ReceiveOnDeleted, ReceiveOnTop, ReceiversAlive
  <2>2. 1 \in DOMAIN receiving /\ Head(receiving) = receiving[1]
    BY <1>s, <2>1
  <2>3. ~ReceiveOnDeleted
    BY <2>2 DEF ReceiveOnDeleted, ReceiversAlive
  <2>4. CASE ReceiveReturns
    <3>1. receiving' = Tail(receiving) /\ UNCHANGED <<life, stack, freedUsed>>
      BY <2>4 DEF ReceiveReturns, providerVars, serviceVars
    <3>2. /\ Len(receiving') = Len(stack)
          /\ \A i \in DOMAIN receiving' : i + 1 \in DOMAIN receiving /\ receiving'[i] = receiving[i + 1]
      BY <1>s, <2>1, <3>1
    <3>. QED  BY <1>s, <3>1, <3>2 DEF ReceiversAlive
  <2>5. CASE TakeMessage
    <3>1. UNCHANGED <<life, receiving, freedUsed>>
      BY <2>5 DEF TakeMessage, ProcessMessage, Ignore, Reject, DispatchFails, CallMethod
    <3>2. Len(stack') = Len(stack) \/ Len(stack') = Len(stack) + 1
      BY <1>s, <2>5 DEF TakeMessage, ProcessMessage, Ignore, Reject, DispatchFails, CallMethod, serviceVars
    <3>. QED  BY <1>s, <2>1, <3>1, <3>2 DEF ReceiversAlive
  <2>. QED  BY <1>6, <2>3, <2>4, <2>5 DEF ReceiveStep
<1>7. CASE ServiceStep
  <2>1. UNCHANGED <<receiving, freedUsed>>
    BY <1>7 DEF ServiceStep, TaskDue, serverVars, readVars
  <2>2. UNCHANGED life
    BY <1>7 DEF ServiceStep, TaskDue, AddService, RemoveService, MethodStep, BeginDelayedResponse, RunNestedLoop,
       NestedLoopReturns, MethodReturns, Respond, RespondChecks, RespondPosts, PostedCallRuns, EmitResult
  <2>3. CASE MethodStep /\ ~ReceiveOnTop
    <3>1. stack # <<>> /\ Len(receiving) = Len(stack)
      BY <1>s, <2>3, MethodStack DEF ReceiveOnTop, ReceiversAlive, Typed
    <3>2. Len(stack') = Len(stack) \/ Len(stack') + 1 = Len(stack)
      <4>1. stack' = Tail(stack) \/ \E f : SetTop(f)
        BY <2>3 DEF MethodStep, BeginDelayedResponse, RunNestedLoop, NestedLoopReturns, MethodReturns
      <4>2. ASSUME NEW f, SetTop(f) PROVE Len(stack') = Len(stack)
        <5>1. Tail(stack) \in Seq(Frames) /\ Len(Tail(stack)) = Len(stack) - 1
          BY <1>s, <3>1
        <5>2. stack' = <<f>> \o Tail(stack)
          BY <4>2 DEF SetTop
        <5>. QED  BY <1>s, <5>1, <5>2
      <4>. QED  BY <1>s, <3>1, <4>1, <4>2
    <3>. QED  BY <1>s, <2>1, <2>2, <3>1, <3>2 DEF ReceiversAlive
  <2>4. CASE ~MethodStep
    BY <1>1, <1>7, <2>1, <2>2, <2>4 DEF ServiceStep, TaskDue, AddService, RemoveService, Respond, RespondChecks,
       RespondPosts, PostedCallRuns, EmitResult, serviceVars
  <2>. QED  BY <1>7, <2>3, <2>4, <1>1, <2>1, <2>2 DEF ServiceStep, TaskDue, AddService, RemoveService, Respond,
       RespondChecks, RespondPosts, PostedCallRuns, EmitResult, serviceVars
<1>8. CASE NotifyConnectedClients
  <2>1. ~(\E s \in clients : life[s] = "deleted")
    BY DEF TablesMatchSockets
  <2>. QED  BY <1>1, <1>8, <2>1 DEF NotifyConnectedClients, providerVars, serviceVars, readVars, ReceiversAlive
<1>9. CASE UNCHANGED vars
  BY <1>1, <1>9 DEF vars, providerVars, serviceVars, serverVars, readVars
<1>. QED  BY <1>2, <1>3, <1>4, <1>5, <1>6, <1>7, <1>8, <1>9 DEF ServerNext, SocketStep

\* Where methods do not nest event loops and do not answer from other threads,
\* no deleted socket is ever used, whoever leaves when.
THEOREM NoUseAfterFreeHolds ==
  ASSUME ~ServiceNests, ~Workers
  PROVE  ServerSpec => []NoUseAfterFree
<1>1. ServerInit => Queues /\ ReceiversAlive
  BY InitQueues, InitReceivers
<1>2. Queues /\ [ServerNext]_vars => Queues'
  BY NextQueues
<1>3. /\ ProviderTypeOK /\ HasSocket /\ Tables /\ Queues /\ Flat /\ ReceiversAlive
      /\ Flat' /\ [ServerNext]_vars
      => ReceiversAlive'
  BY NextReceivers, TypeParts DEF Typed, Tables
<1>4. Flat /\ ReceiversAlive => NoUseAfterFree
  BY DEF Flat, ReceiversAlive, NoUseAfterFree
<1>5. ServerSpec => []Flat
  BY Implementation, FlatHolds, PTL DEF ImplementsProvider
<1>. QED  BY <1>1, <1>2, <1>3, <1>4, <1>5, TablesHold, PTL DEF ServerSpec

-----------------------------------------------------------------------------
(* Which deleted sockets are used.  The receive loops and the methods inside  *)
(* them are the same C++ frames seen from two sides: the socket of the d-th   *)
(* loop from the top is the one the method it called was asked by.            *)

Paired(d) ==
  /\ Len(receiving) = Len(stack) + d
  /\ \A i \in DOMAIN stack : receiving[i + d] = from[stack[i].req]

Outliving ==
  /\ Paired(0) \/ Paired(1)
  /\ \A i \in DOMAIN receiving : life[receiving[i]] # "none"
  /\ \A r \in Requests : task[r] # "checked"
  /\ OnlyOutlivedLoopsUseFreed

LEMMA InitOutliving == ServerInit => Outliving
  BY DEF ServerInit, ProviderInit, Outliving, Paired, OnlyOutlivedLoopsUseFreed, NoUseAfterFree

\* Sockets, once there, never were not; and no other thread looks at them.
LEMMA NextMonotone ==
  ASSUME ~Workers, Typed, [ProviderNext]_providerVars, \A r \in Requests : task[r] # "checked"
  PROVE  /\ \A s \in Sockets : life[s] # "none" => life'[s] # "none"
         /\ \A r \in Requests : task'[r] # "checked"
         /\ \A r \in Requests : kind[r] # "none" => from'[r] = from[r]
<1>1. CASE UNCHANGED providerVars
  BY <1>1 DEF providerVars, requestVars
<1>2. CASE EnvironmentStep
  <2>1. /\ \A r \in Requests : task'[r] # "checked"
        /\ UNCHANGED from
    BY <1>2, EnvironmentEffect DEF Typed
  <2>2. \A s \in Sockets : life[s] # "none" => life'[s] # "none"
    BY <1>2 DEF EnvironmentStep, SocketCreated, SocketsDeleted, AddService, RemoveService, Typed, DataType
  <2>. QED  BY <2>1, <2>2
<1>3. ASSUME NEW s \in Sockets, NEW r \in Requests, NEW k \in Kinds, ProcessMessage(s, r, k)
      PROVE  /\ UNCHANGED <<life, task>>
             /\ \A q \in Requests : kind[q] # "none" => from'[q] = from[q]
  <2>1. Received(s, r, k) /\ UNCHANGED <<life, task>>
    BY <1>3 DEF ProcessMessage, Ignore, Reject, DispatchFails, CallMethod, BecomesCurrent
  <2>. QED  BY <2>1, ReceivedType DEF Typed
<1>4. CASE MethodStep
  <2>1. UNCHANGED <<life, from>>
    BY <1>4, MethodStack DEF Typed
  <2>2. \A r \in Requests : task'[r] # "checked"
    BY <1>4 DEF MethodStep, BeginDelayedResponse, RunNestedLoop, NestedLoopReturns, MethodReturns,
       Typed, DataType
  <2>. QED  BY <2>1, <2>2
<1>5. ASSUME NEW r \in Requests, TaskStep(r)
      PROVE  UNCHANGED <<life, from>> /\ \A q \in Requests : task'[q] # "checked"
  BY <1>5 DEF TaskStep, Respond, RespondChecks, RespondPosts, PostedCallRuns, EmitResult, Finish,
     Typed, DataType, requestVars
<1>. QED  BY <1>1, <1>2, <1>3, <1>4, <1>5, ProviderCases

\* The loops and the methods stay paired.
LEMMA NextPaired ==
  ASSUME Typed, Queues, Paired(0) \/ Paired(1), ServerNext,
         \A r \in Requests : kind[r] # "none" => from'[r] = from[r]
  PROVE  Paired(0)' \/ Paired(1)'
<1>s. stack \in Seq(Frames) /\ receiving \in Seq(Sockets)
  BY DEF Typed, StackType, Queues
<1>q. \A i \in DOMAIN stack : stack[i].req \in Requests /\ kind[stack[i].req] # "none"
  BY <1>s, FrameAt DEF Typed, HasSocket
<1>f. \A i \in DOMAIN stack : from'[stack[i].req] = from[stack[i].req]
  BY <1>q
<1>t. /\ ReceiveOnTop => Paired(1)
      /\ ~ReceiveOnTop => Paired(0)
  BY <1>s DEF ReceiveOnTop, Paired
<1>1. ASSUME UNCHANGED <<stack, receiving>> PROVE Paired(0)' \/ Paired(1)'
  <2>1. ASSUME NEW d \in {0, 1}, Paired(d) PROVE Paired(d)'
    BY <1>1, <1>f, <2>1 DEF Paired
  <2>. QED  BY <2>1
<1>2. ASSUME NEW s \in Sockets, ReadyRead(s) PROVE Paired(1)'
  <2>1. ~ReceiveOnTop /\ receiving' = <<s>> \o receiving /\ UNCHANGED stack
    BY <1>2 DEF ReadyRead, LoopRuns, providerVars, serviceVars
  <2>2. /\ Len(receiving') = Len(receiving) + 1
        /\ \A i \in DOMAIN receiving : receiving'[i + 1] = receiving[i]
    BY <1>s, <2>1
  <2>3. /\ DOMAIN receiving = DOMAIN stack /\ Len(receiving) = Len(stack)
        /\ \A i \in DOMAIN stack : receiving[i] = from[stack[i].req]
    BY <1>s, <1>t, <2>1 DEF Paired
  <2>4. \A i \in DOMAIN stack : receiving'[i + 1] = from'[stack[i].req]
    BY <1>f, <2>2, <2>3
  <2>. QED  BY <2>1, <2>2, <2>3, <2>4 DEF Paired
<1>3. CASE TakeMessage
  <2>. DEFINE s == Head(receiving)  m == Head(buffer[s])
  <2>1. /\ ReceiveOnTop /\ UNCHANGED receiving /\ ProcessMessage(s, m.req, m.kind)
        /\ s \in Sockets /\ buffer[s] # <<>>
    BY <1>3, HeadTail DEF TakeMessage, Queues, ReceiveOnTop
  <2>2. m \in Messages /\ m.req \in Requests /\ m.kind \in Kinds
    BY <2>1, HeadTail, ZenonT(60) DEF Queues, Messages
  <2>3. Paired(1)
    BY <1>t, <2>1
  <2>4. CASE UNCHANGED stack
    BY <1>1, <2>1, <2>4
  <2>5. CASE CallMethod(s, m.req, m.kind)
    <3>. DEFINE f == [req |-> m.req, at |-> "fresh", delays |-> FALSE]
    <3>1. f \in Frames /\ f.req = m.req
      BY <2>2 DEF Frames
    <3>2. stack' = <<f>> \o stack
      BY <2>5 DEF CallMethod
    <3>3. from'[m.req] = s
      <4>1. Received(s, m.req, m.kind)
        BY <2>5 DEF CallMethod, BecomesCurrent
      <4>. HIDE DEF s, m
      <4>. QED  BY <2>1, <2>2, <4>1, ReceivedType DEF Typed
    <3>4. s = receiving[1]
      BY <1>s, <2>1 DEF ReceiveOnTop
    <3>. HIDE DEF f, s, m
    <3>5. /\ stack' \in Seq(Frames)
          /\ \A i \in DOMAIN stack' :
               (i = 1 /\ stack'[i] = f) \/ (i > 1 /\ i - 1 \in DOMAIN stack /\ stack'[i] = stack[i - 1])
      BY <1>s, <3>1, <3>2, PushFrame
    <3>6. Len(stack') = Len(stack) + 1
      BY <1>s, <3>1, <3>2
    <3>7. \A i \in DOMAIN stack' : receiving'[i] = from'[stack'[i].req]
      <4>. SUFFICES ASSUME NEW i \in DOMAIN stack' PROVE receiving[i] = from'[stack'[i].req]
        BY <2>1
      <4>1. CASE i = 1 /\ stack'[i] = f
        BY <3>1, <3>3, <3>4, <4>1
      <4>2. CASE i > 1 /\ i - 1 \in DOMAIN stack /\ stack'[i] = stack[i - 1]
        <5>1. receiving[(i - 1) + 1] = from[stack[i - 1].req]
          BY <2>3, <4>2 DEF Paired
        <5>2. i \in Nat /\ (i - 1) + 1 = i
          BY <3>5
        <5>. QED  BY <1>f, <4>2, <5>1, <5>2
      <4>. QED  BY <3>5, <4>1, <4>2
    <3>. QED  BY <1>s, <2>1, <2>3, <3>5, <3>6, <3>7 DEF Paired
  <2>6. UNCHANGED stack \/ CallMethod(s, m.req, m.kind)
    BY <2>1 DEF ProcessMessage, Ignore, Reject, DispatchFails, serviceVars
  <2>. QED  BY <2>4, <2>5, <2>6
<1>4. CASE ReceiveReturns
  <2>1. ReceiveOnTop /\ receiving' = Tail(receiving) /\ UNCHANGED stack
    BY <1>4 DEF ReceiveReturns, providerVars, serviceVars
  <2>2. Paired(1)
    BY <1>t, <2>1
  <2>3. /\ Len(receiving') = Len(stack)
        /\ \A i \in DOMAIN receiving' : receiving'[i] = receiving[i + 1]
    BY <1>s, <2>1, <2>2 DEF Paired
  <2>4. receiving' \in Seq(Sockets) /\ DOMAIN receiving' = DOMAIN stack
    BY <1>s, <2>1, <2>2, <2>3 DEF Paired
  <2>. QED  BY <1>s, <1>f, <2>1, <2>2, <2>3, <2>4 DEF Paired
<1>5. ASSUME ~ReceiveOnTop, MethodStep, UNCHANGED receiving PROVE Paired(0)' \/ Paired(1)'
  <2>1. stack # <<>> /\ UNCHANGED from /\ Paired(0)
    BY <1>t, <1>5, MethodStack DEF Typed
  <2>2. ASSUME NEW f \in Frames, f.req = Head(stack).req, SetTop(f) PROVE Paired(0)'
    <3>1. /\ stack' \in Seq(Frames) /\ DOMAIN stack' = DOMAIN stack
          /\ \A i \in DOMAIN stack' : IF i = 1 THEN stack'[i] = f ELSE stack'[i] = stack[i]
      BY <1>s, <2>1, <2>2, SetTopFrame
    <3>2. Head(stack) = stack[1]
      BY <1>s, <2>1, TopFrame
    <3>3. Len(stack') = Len(stack)
      BY <1>s, <3>1
    <3>4. \A i \in DOMAIN stack' : stack'[i].req = stack[i].req
      BY <2>2, <3>1, <3>2
    <3>. QED  BY <1>5, <2>1, <3>1, <3>3, <3>4 DEF Paired
  <2>3. Head(stack) \in Frames
    BY <1>s, <2>1, TopFrame
  <2>4. CASE BeginDelayedResponse
    <3>. DEFINE f == [Head(stack) EXCEPT !.delays = TRUE]
    <3>1. f \in Frames /\ f.req = Head(stack).req /\ SetTop(f)
      BY <2>3, <2>4 DEF Frames, BeginDelayedResponse
    <3>. QED  BY <2>2, <3>1
  <2>5. CASE RunNestedLoop \/ NestedLoopReturns
    <3>1. PICK a \in {"nested", "resumed"} : SetTop([Head(stack) EXCEPT !.at = a])
      BY <2>5 DEF RunNestedLoop, NestedLoopReturns
    <3>. DEFINE f == [Head(stack) EXCEPT !.at = a]
    <3>2. f \in Frames /\ f.req = Head(stack).req /\ SetTop(f)
      BY <2>3, <3>1 DEF Frames
    <3>. QED  BY <2>2, <3>2
  <2>6. CASE MethodReturns
    <3>1. stack' = Tail(stack)
      BY <2>6 DEF MethodReturns
    <3>2. /\ stack' \in Seq(Frames) /\ Len(stack) = Len(stack') + 1
          /\ \A i \in DOMAIN stack' : i + 1 \in DOMAIN stack /\ stack'[i] = stack[i + 1]
      BY <1>s, <2>1, <3>1, PopFrame
    <3>3. \A i \in DOMAIN stack' : receiving[i + 1] = from[stack'[i].req]
      <4>1. \A i \in DOMAIN stack : receiving[i] = from[stack[i].req]
        BY <1>s, <2>1 DEF Paired
      <4>. QED  BY <3>2, <4>1
    <3>. QED  BY <1>5, <2>1, <3>2, <3>3 DEF Paired
  <2>. QED  BY <1>5, <2>4, <2>5, <2>6 DEF MethodStep
<1>6. ASSUME NEW s \in Sockets, ClientStep(s) \/ IncomingConnection(s) \/ ClientDisconnected(s)
                                \/ DeferredDelete(s) \/ ReadSilently(s)
      PROVE  UNCHANGED <<stack, receiving>>
  BY <1>6 DEF ClientStep, ClientSends, ClientCloses, IncomingConnection, SocketCreated, ClientDisconnected,
     DeferredDelete, SocketsDeleted, ReadSilently, providerVars, serviceVars, serverVars, readVars
<1>7. ReceiveOnDeleted \/ NotifyConnectedClients \/ ServerDestroyed => UNCHANGED <<stack, receiving>>
  BY DEF ReceiveOnDeleted, NotifyConnectedClients, ServerDestroyed, SocketsDeleted, providerVars,
     serviceVars, readVars
<1>8. ServiceStep => UNCHANGED receiving /\ (UNCHANGED stack \/ (~ReceiveOnTop /\ MethodStep))
  BY DEF ServiceStep, TaskDue, AddService, RemoveService, Respond, RespondChecks, RespondPosts,
     PostedCallRuns, EmitResult, serviceVars, serverVars, readVars
<1>. QED  BY <1>1, <1>2, <1>3, <1>4, <1>5, <1>6, <1>7, <1>8 DEF ServerNext, SocketStep, ReceiveStep

\* A step that uses a deleted socket is one of a receive loop whose own socket
\* it is.
LEMMA NextOutlived ==
  ASSUME ~Workers, Typed, Queues, Outliving, TablesMatchSockets, ServerNext
  PROVE  OnlyOutlivedLoopsUseFreed'
<1>s. stack \in Seq(Frames) /\ receiving \in Seq(Sockets) /\ ~dangling /\ ~freedUsed
  BY DEF Typed, StackType, Queues, ServerNext
<1>1. ASSUME NEW i \in DOMAIN receiving, life[receiving[i]] # "alive", UNCHANGED <<life, receiving>>
      PROVE  OnlyOutlivedLoopsUseFreed'
  <2>1. receiving[i] \in Sockets /\ life[receiving[i]] = "deleted"
    BY <1>s, <1>1 DEF Outliving, Typed, DataType
  <2>. QED  BY <1>1, <2>1 DEF OnlyOutlivedLoopsUseFreed, Receives
<1>2. ASSUME UNCHANGED <<dangling, freedUsed>> PROVE OnlyOutlivedLoopsUseFreed'
  BY <1>s, <1>2 DEF OnlyOutlivedLoopsUseFreed, NoUseAfterFree
<1>3. CASE ReceiveStep
  <2>1. CASE ReceiveOnDeleted
    <3>1. 1 \in DOMAIN receiving /\ Head(receiving) = receiving[1]
      BY <1>s, <2>1 DEF ReceiveOnDeleted, ReceiveOnTop
    <3>. QED  BY <1>1, <2>1, <3>1 DEF ReceiveOnDeleted, providerVars, readVars
  <2>2. CASE TakeMessage \/ ReceiveReturns
    BY <1>2, <2>2 DEF TakeMessage, ReceiveReturns, ProcessMessage, Ignore, Reject, DispatchFails,
       CallMethod, providerVars
  <2>. QED  BY <1>3, <2>1, <2>2 DEF ReceiveStep
<1>4. CASE ServiceStep
  <2>0. UNCHANGED <<receiving, freedUsed>>
    BY <1>4 DEF ServiceStep, serverVars, readVars
  <2>1. CASE UNCHANGED dangling
    BY <1>2, <2>0, <2>1
  <2>2. CASE ~ReceiveOnTop /\ MethodReturns /\ dangling' # dangling
    <3>. DEFINE r == Head(stack).req
    <3>1. /\ stack # <<>> /\ UNCHANGED life /\ life[from[r]] # "alive"
      BY <2>2 DEF MethodReturns, InMethod, At, Returning, GivenSocket
    <3>2. 1 \in DOMAIN stack /\ Head(stack) = stack[1]
      BY <1>s, <3>1, TopFrame
    <3>3. Paired(0)
      BY <1>s, <2>2 DEF ReceiveOnTop, Outliving, Paired
    <3>4. 1 \in DOMAIN receiving /\ receiving[1] = from[r]
      BY <1>s, <3>2, <3>3 DEF Paired
    <3>. QED  BY <1>1, <2>0, <3>1, <3>4
  <2>3. UNCHANGED dangling \/ (~ReceiveOnTop /\ MethodReturns)
    <3>1. \A r \in Requests : ~RespondPosts(r)
      BY DEF RespondPosts, Outliving
    <3>. QED  BY <1>4, <3>1 DEF ServiceStep, TaskDue, AddService, RemoveService, MethodStep,
              BeginDelayedResponse, RunNestedLoop, NestedLoopReturns, Respond, RespondChecks,
              PostedCallRuns, EmitResult
  <2>. QED  BY <2>1, <2>2, <2>3
<1>5. CASE NotifyConnectedClients
  <2>1. ~(\E s \in clients : life[s] = "deleted")
    BY DEF TablesMatchSockets
  <2>. QED  BY <1>s, <1>5, <2>1 DEF NotifyConnectedClients, providerVars, OnlyOutlivedLoopsUseFreed, NoUseAfterFree
<1>6. ASSUME NEW s \in Sockets, ClientStep(s) \/ SocketStep(s) PROVE UNCHANGED <<dangling, freedUsed>>
  BY <1>6 DEF ClientStep, ClientSends, ClientCloses, SocketStep, IncomingConnection, SocketCreated,
     ClientDisconnected, DeferredDelete, SocketsDeleted, ReadyRead, ReadSilently, providerVars, serverVars
<1>7. CASE ServerDestroyed
  BY <1>2, <1>7 DEF ServerDestroyed, SocketsDeleted
<1>. QED  BY <1>2, <1>3, <1>4, <1>5, <1>6, <1>7 DEF ServerNext

LEMMA NextOutliving ==
  ASSUME ~Workers, ProviderTypeOK, HasSocket, Queues, Tables, Outliving, [ServerNext]_vars
  PROVE  Outliving'
<1>t. Typed
  BY TypeParts DEF Typed
<1>1. CASE UNCHANGED vars
  BY <1>1 DEF vars, providerVars, requestVars, serviceVars, serverVars, readVars, Outliving, Paired,
     OnlyOutlivedLoopsUseFreed, NoUseAfterFree, Receives
<1>2. CASE ServerNext
  <2>1. [ProviderNext]_providerVars
    BY NextRefines
  <2>2. /\ \A s \in Sockets : life[s] # "none" => life'[s] # "none"
        /\ \A r \in Requests : task'[r] # "checked"
        /\ \A r \in Requests : kind[r] # "none" => from'[r] = from[r]
    BY <1>t, <2>1, NextMonotone DEF Outliving
  <2>3. Paired(0)' \/ Paired(1)'
    BY <1>t, <1>2, <2>2, NextPaired DEF Outliving
  <2>4. OnlyOutlivedLoopsUseFreed'
    BY <1>t, <1>2, NextOutlived DEF Tables
  <2>5. \A i \in DOMAIN receiving' : life'[receiving'[i]] # "none"
    <3>s. receiving \in Seq(Sockets)
      BY DEF Queues
    <3>1. \/ UNCHANGED receiving
          \/ receiving # <<>> /\ receiving' = Tail(receiving)
          \/ \E s \in Sockets : life[s] = "alive" /\ receiving' = <<s>> \o receiving
      <4>1. ASSUME NEW s \in Sockets, ClientStep(s) \/ SocketStep(s)
            PROVE  UNCHANGED receiving \/ (life[s] = "alive" /\ receiving' = <<s>> \o receiving)
        BY <4>1 DEF ClientStep, ClientSends, ClientCloses, SocketStep, IncomingConnection,
           ClientDisconnected, DeferredDelete, ReadyRead, ReadSilently, serverVars, readVars
      <4>2. ReceiveOnTop => receiving # <<>>
        BY <1>t, <3>s DEF ReceiveOnTop, Typed, StackType
      <4>3. ReceiveStep => UNCHANGED receiving \/ (receiving # <<>> /\ receiving' = Tail(receiving))
        BY <4>2 DEF ReceiveStep, TakeMessage, ReceiveReturns, ReceiveOnDeleted, readVars
      <4>4. ServiceStep \/ NotifyConnectedClients \/ ServerDestroyed => UNCHANGED receiving
        BY DEF ServiceStep, NotifyConnectedClients, ServerDestroyed, serverVars, readVars
      <4>. QED  BY <1>2, <4>1, <4>3, <4>4 DEF ServerNext
    <3>2. CASE UNCHANGED receiving
      BY <2>2, <3>s, <3>2 DEF Outliving
    <3>3. CASE receiving # <<>> /\ receiving' = Tail(receiving)
      <4>1. \A i \in DOMAIN receiving' : i + 1 \in DOMAIN receiving /\ receiving'[i] = receiving[i + 1]
        BY <3>s, <3>3
      <4>. QED  BY <2>2, <3>s, <4>1 DEF Outliving
    <3>4. ASSUME NEW s \in Sockets, life[s] = "alive", receiving' = <<s>> \o receiving
          PROVE  \A i \in DOMAIN receiving' : life'[receiving'[i]] # "none"
      <4>1. \A i \in DOMAIN receiving' :
              receiving'[i] = s \/ \E j \in DOMAIN receiving : receiving'[i] = receiving[j]
        <5>1. \A i \in DOMAIN receiving' :
                (i = 1 /\ receiving'[i] = s) \/ (i - 1 \in DOMAIN receiving /\ receiving'[i] = receiving[i - 1])
          BY <3>s, <3>4
        <5>. QED  BY <5>1
      <4>. QED  BY <2>2, <3>s, <3>4, <4>1 DEF Outliving
    <3>. QED  BY <3>1, <3>2, <3>3, <3>4
  <2>. QED  BY <2>2, <2>3, <2>4, <2>5 DEF Outliving
<1>. QED  BY <1>1, <1>2

\* However methods nest event loops and clients leave, a deleted socket is used
\* only by a receive loop that has outlived its own client, as long as services
\* do not answer from other threads.
THEOREM OnlyOutlivedLoopsUseFreedHolds ==
  ASSUME ~Workers
  PROVE  ServerSpec => []OnlyOutlivedLoopsUseFreed
<1>1. ServerInit => Queues /\ Outliving
  BY InitQueues, InitOutliving
<1>2. Queues /\ [ServerNext]_vars => Queues'
  BY NextQueues
<1>3. ProviderTypeOK /\ HasSocket /\ Queues /\ Tables /\ Outliving /\ [ServerNext]_vars => Outliving'
  BY NextOutliving
<1>4. Outliving => OnlyOutlivedLoopsUseFreed
  BY DEF Outliving
<1>. QED  BY <1>1, <1>2, <1>3, <1>4, TablesHold, PTL DEF ServerSpec

-----------------------------------------------------------------------------
(* What is owed.  A server that has nothing more to do has done all it had    *)
(* to: the part of the liveness properties that is about states.              *)

LinkType ==
  /\ conn \in [Sockets -> {"none", "open", "closing", "gone"}]
  /\ sent \in [Requests -> Sockets \cup {NoSocket}]

\* What the server has still to process of s, oldest first.
Queue(s) == buffer[s] \o silent[s] \o inbox[s]

\* Each message that was sent waits once, or has been processed, or went with
\* its connection.
Queued ==
  /\ \A s \in Sockets : \A i \in DOMAIN Queue(s) :
       sent[Queue(s)[i].req] = s /\ kind[Queue(s)[i].req] = "none"
  /\ \A s \in Sockets : \A i, j \in DOMAIN Queue(s) :
       Queue(s)[i].req = Queue(s)[j].req => i = j
  /\ \A r \in Requests : kind[r] # "none" => sent[r] # NoSocket
  /\ \A s \in Sockets, r \in Requests : sent[r] = s =>
       /\ conn[s] # "none"
       /\ conn[s] = "open" => kind[r] # "none" \/ \E i \in DOMAIN Queue(s) : Queue(s)[i].req = r

LEMMA JoinedQueues ==
  ASSUME NEW S, NEW p \in Seq(S), NEW q \in Seq(S), NEW r \in Seq(S)
  PROVE  /\ p \o q \o r \in Seq(S)
         /\ (p \o q \o r) \o <<>> \o <<>> = p \o q \o r
         /\ p \o (q \o r) \o <<>> = p \o q \o r
<1>1. (p \o q \o r) \o <<>> \o <<>> = p \o q \o r
  OBVIOUS
<1>2. p \o (q \o r) \o <<>> = p \o q \o r
  OBVIOUS
<1>. QED  BY <1>1, <1>2

LEMMA ShortQueue ==
  ASSUME NEW S, NEW p \in Seq(S), NEW q \in Seq(S), NEW r \in Seq(S)
  PROVE  \A i \in DOMAIN (p \o q \o <<>>) :
           i \in DOMAIN (p \o q \o r) /\ (p \o q \o <<>>)[i] = (p \o q \o r)[i]
  OBVIOUS

LEMMA QueueType ==
  ASSUME Queues
  PROVE  \A s \in Sockets : Queue(s) \in Seq(Messages)
<1>. SUFFICES ASSUME NEW s \in Sockets PROVE Queue(s) \in Seq(Messages)
  OBVIOUS
<1>1. buffer[s] \in Seq(Messages) /\ silent[s] \in Seq(Messages) /\ inbox[s] \in Seq(Messages)
  BY DEF Queues
<1>. QED  BY <1>1, JoinedQueues DEF Queue

\* A step that moves messages within the queues, or none.
LEMMA QueuedSame ==
  ASSUME LinkType, Queued, \A s \in Sockets : Queue(s)' = Queue(s), UNCHANGED <<sent, kind>>,
         \A s \in Sockets : (conn[s] # "none" => conn'[s] # "none")
                          /\ (conn'[s] = "open" => conn[s] \in {"none", "open"})
  PROVE  Queued'
<1>1. \A s \in Sockets : \A i \in DOMAIN Queue(s)' :
        sent'[Queue(s)'[i].req] = s /\ kind'[Queue(s)'[i].req] = "none"
  BY DEF Queued
<1>2. \A s \in Sockets : \A i, j \in DOMAIN Queue(s)' :
        Queue(s)'[i].req = Queue(s)'[j].req => i = j
  BY DEF Queued
<1>3. \A r \in Requests : kind'[r] # "none" => sent'[r] # NoSocket
  BY DEF Queued
<1>4. \A s \in Sockets, r \in Requests : sent'[r] = s =>
        /\ conn'[s] # "none"
        /\ conn'[s] = "open" => kind'[r] # "none" \/ \E i \in DOMAIN Queue(s)' : Queue(s)'[i].req = r
  BY DEF Queued
<1>. QED  BY <1>1, <1>2, <1>3, <1>4 DEF Queued

LEMMA SendQueued ==
  ASSUME Queues, LinkType, Queued, NEW s \in Sockets, NEW r \in Requests, NEW k \in SentKinds,
         ClientSends(s, r, k)
  PROVE  Queued'
<1>. DEFINE m == [req |-> r, kind |-> k]
            q == Queue(s)
<1>1. m \in Messages /\ m.req = r /\ q \in Seq(Messages)
  BY QueueType, ServerAssumption DEF ServerAssumption, Messages
<1>2. /\ conn[s] = "open" /\ sent[r] = NoSocket /\ UNCHANGED <<kind, conn, silent, buffer>>
      /\ inbox' = [inbox EXCEPT ![s] = Append(@, m)] /\ sent' = [sent EXCEPT ![r] = s]
  BY DEF ClientSends, providerVars, requestVars, readVars
<1>3. \A t \in Sockets \ {s} : Queue(t)' = Queue(t)
  BY <1>2 DEF Queue, Queues
<1>4. Queue(s)' = Append(q, m)
  <2>1. inbox'[s] = Append(inbox[s], m)
    BY <1>2 DEF Queues
  <2>2. buffer[s] \in Seq(Messages) /\ silent[s] \in Seq(Messages) /\ inbox[s] \in Seq(Messages)
    BY DEF Queues
  <2>. HIDE DEF m
  <2>5. m \in Messages
    BY <1>1
  <2>3. buffer[s] \o silent[s] \o Append(inbox[s], m) = Append(buffer[s] \o silent[s] \o inbox[s], m)
    <3>1. PICK a \in Seq(Messages), b \in Seq(Messages), c \in Seq(Messages) :
            a = buffer[s] /\ b = silent[s] /\ c = inbox[s]
      BY <2>2, Zenon
    <3>2. a \o b \o Append(c, m) = Append(a \o b \o c, m)
      BY <2>5
    <3>. QED  BY <3>1, <3>2, Zenon
  <2>4. buffer'[s] = buffer[s] /\ silent'[s] = silent[s]
    BY <1>2
  <2>. QED  BY <2>1, <2>3, <2>4 DEF Queue
<1>. HIDE DEF m, q
<1>5. /\ DOMAIN Append(q, m) = DOMAIN q \cup {Len(q) + 1} /\ Len(q) + 1 \notin DOMAIN q
      /\ \A i \in DOMAIN q : Append(q, m)[i] = q[i]
      /\ Append(q, m)[Len(q) + 1] = m
  BY <1>1
<1>6. \A i \in DOMAIN q : q[i].req # r /\ sent'[q[i].req] = s /\ kind[q[i].req] = "none"
  <2>. SUFFICES ASSUME NEW i \in DOMAIN q PROVE q[i].req # r /\ sent'[q[i].req] = s /\ kind[q[i].req] = "none"
    OBVIOUS
  <2>1. sent[q[i].req] = s /\ kind[q[i].req] = "none"
    BY DEF Queued, q
  <2>2. q[i].req \in Requests
    <3>1. q[i] \in Messages
      BY <1>1
    <3>. QED  BY <3>1 DEF Messages
  <2>3. s # NoSocket
    BY ProviderAssumption DEF ProviderAssumption
  <2>. QED  BY <1>2, <2>1, <2>2, <2>3 DEF LinkType
<1>7. kind[r] = "none" /\ sent'[r] = s
  BY <1>2 DEF Queued, LinkType
<1>8. \A i \in DOMAIN Queue(s)' : sent'[Queue(s)'[i].req] = s /\ kind'[Queue(s)'[i].req] = "none"
  BY <1>1, <1>2, <1>4, <1>5, <1>6, <1>7
<1>9. \A i, j \in DOMAIN Queue(s)' : Queue(s)'[i].req = Queue(s)'[j].req => i = j
  <2>1. \A i, j \in DOMAIN q : q[i].req = q[j].req => i = j
    BY DEF Queued, q
  <2>. QED  BY <1>1, <1>4, <1>5, <1>6, <2>1
<1>10. \A t \in Sockets \ {s} : \A i \in DOMAIN Queue(t) :
         sent'[Queue(t)[i].req] = t /\ kind'[Queue(t)[i].req] = "none"
  <2>. SUFFICES ASSUME NEW t \in Sockets \ {s}, NEW i \in DOMAIN Queue(t)
                PROVE  sent'[Queue(t)[i].req] = t /\ kind'[Queue(t)[i].req] = "none"
    OBVIOUS
  <2>1. sent[Queue(t)[i].req] = t /\ kind[Queue(t)[i].req] = "none"
    BY DEF Queued
  <2>2. Queue(t)[i].req \in Requests
    <3>1. Queue(t) \in Seq(Messages)
      BY QueueType
    <3>2. Queue(t)[i] \in Messages
      BY <3>1
    <3>. QED  BY <3>2 DEF Messages
  <2>3. t # NoSocket
    BY ProviderAssumption DEF ProviderAssumption
  <2>. QED  BY <1>2, <2>1, <2>2, <2>3 DEF LinkType
<1>11. \A p \in Requests : kind'[p] # "none" => sent'[p] # NoSocket
  BY <1>2, <1>7 DEF Queued, LinkType
<1>12. ASSUME NEW t \in Sockets, NEW p \in Requests, sent'[p] = t
       PROVE  /\ conn'[t] # "none"
              /\ conn'[t] = "open" => kind'[p] # "none" \/ \E i \in DOMAIN Queue(t)' : Queue(t)'[i].req = p
  <2>1. CASE p = r
    <3>1. t = s
      BY <1>7, <1>12, <2>1
    <3>. QED  BY <1>1, <1>2, <1>4, <1>5, <2>1, <3>1
  <2>2. CASE p # r
    <3>1. sent[p] = t
      BY <1>2, <1>12, <2>2 DEF LinkType
    <3>2. /\ conn[t] # "none"
          /\ conn[t] = "open" => kind[p] # "none" \/ \E i \in DOMAIN Queue(t) : Queue(t)[i].req = p
      BY <3>1 DEF Queued
    <3>3. CASE t = s
      <4>1. (\E i \in DOMAIN q : q[i].req = p) => \E i \in DOMAIN Queue(s)' : Queue(s)'[i].req = p
        BY <1>4, <1>5
      <4>. QED  BY <1>2, <3>2, <3>3, <4>1 DEF q
    <3>4. CASE t # s
      BY <1>2, <1>3, <3>2, <3>4
    <3>. QED  BY <3>3, <3>4
  <2>. QED  BY <2>1, <2>2
<1>13. \A t \in Sockets : \A i \in DOMAIN Queue(t)' :
         sent'[Queue(t)'[i].req] = t /\ kind'[Queue(t)'[i].req] = "none"
  BY <1>3, <1>8, <1>10
<1>14. \A t \in Sockets : \A i, j \in DOMAIN Queue(t)' : Queue(t)'[i].req = Queue(t)'[j].req => i = j
  BY <1>3, <1>9 DEF Queued
<1>. QED  BY <1>11, <1>12, <1>13, <1>14 DEF Queued

\* A reset throws the end of a queue away.
LEMMA CloseQueued ==
  ASSUME Queues, LinkType, Queued, NEW s \in Sockets, ClientCloses(s)
  PROVE  Queued'
<1>1. /\ conn' = [conn EXCEPT ![s] = "closing"] /\ UNCHANGED <<kind, sent, silent, buffer>>
      /\ inbox' \in {inbox, [inbox EXCEPT ![s] = <<>>]}
  BY DEF ClientCloses, providerVars, requestVars, readVars
<1>2. \A t \in Sockets : conn'[t] = IF t = s THEN "closing" ELSE conn[t]
  BY <1>1 DEF LinkType
<1>3. \A t \in Sockets \ {s} : Queue(t)' = Queue(t)
  BY <1>1 DEF Queue, Queues
<1>4. \A i \in DOMAIN Queue(s)' : i \in DOMAIN Queue(s) /\ Queue(s)'[i] = Queue(s)[i]
  <2>1. CASE inbox' = inbox
    BY <1>1, <2>1 DEF Queue
  <2>2. CASE inbox' = [inbox EXCEPT ![s] = <<>>]
    <3>1. PICK a \in Seq(Messages), b \in Seq(Messages), c \in Seq(Messages) :
            a = buffer[s] /\ b = silent[s] /\ c = inbox[s]
      BY DEF Queues
    <3>2. \A i \in DOMAIN (a \o b \o <<>>) : i \in DOMAIN (a \o b \o c) /\ (a \o b \o <<>>)[i] = (a \o b \o c)[i]
      BY ShortQueue
    <3>3. inbox'[s] = <<>>
      BY <2>2 DEF Queues
    <3>4. Queue(s) = a \o b \o c /\ Queue(s)' = a \o b \o <<>>
      BY <1>1, <3>1, <3>3 DEF Queue
    <3>. QED  BY <3>2, <3>4
  <2>. QED  BY <1>1, <2>1, <2>2
<1>5. \A t \in Sockets : \A i \in DOMAIN Queue(t)' : i \in DOMAIN Queue(t) /\ Queue(t)'[i] = Queue(t)[i]
  BY <1>3, <1>4
<1>6. \A t \in Sockets : \A i \in DOMAIN Queue(t)' :
        sent'[Queue(t)'[i].req] = t /\ kind'[Queue(t)'[i].req] = "none"
  BY <1>1, <1>5 DEF Queued
<1>7. \A t \in Sockets : \A i, j \in DOMAIN Queue(t)' : Queue(t)'[i].req = Queue(t)'[j].req => i = j
  BY <1>5 DEF Queued
<1>8. \A r \in Requests : kind'[r] # "none" => sent'[r] # NoSocket
  BY <1>1 DEF Queued
<1>9. \A t \in Sockets, r \in Requests : sent'[r] = t =>
        /\ conn'[t] # "none"
        /\ conn'[t] = "open" => kind'[r] # "none" \/ \E i \in DOMAIN Queue(t)' : Queue(t)'[i].req = r
  BY <1>1, <1>2, <1>3 DEF Queued
<1>. QED  BY <1>6, <1>7, <1>8, <1>9 DEF Queued

LEMMA TakeQueued ==
  ASSUME Queues, Typed, LinkType, Queued, TakeMessage
  PROVE  Queued'
<1>1. PICK s \in Sockets :
        /\ buffer[s] # <<>> /\ buffer' = [buffer EXCEPT ![s] = Tail(@)]
        /\ ProcessMessage(s, Head(buffer[s]).req, Head(buffer[s]).kind)
        /\ UNCHANGED <<conn, sent, inbox, silent>>
  <2>1. receiving \in Seq(Sockets) /\ receiving # <<>>
    BY DEF TakeMessage, Queues, Typed, StackType, ReceiveOnTop
  <2>2. Head(receiving) \in Sockets
    BY <2>1, HeadTail
  <2>. QED  BY <2>2 DEF TakeMessage, linkVars
<1>2. PICK m \in Messages : m = Head(buffer[s]) /\ m.req \in Requests /\ m.kind \in Kinds
  BY <1>1, HeadTail DEF Queues, Messages
<1>q. PICK q \in Seq(Messages) : q = Queue(s)
  BY QueueType
<1>3. q # <<>> /\ Head(q) = m /\ Queue(s)' = Tail(q)
  <2>1. PICK a \in Seq(Messages), b \in Seq(Messages), c \in Seq(Messages) :
          a = buffer[s] /\ b = silent[s] /\ c = inbox[s]
    BY <1>1 DEF Queues
  <2>2. /\ Tail(a) \o b \o c = Tail(a \o b \o c)
        /\ a \o b \o c # <<>> /\ Head(a \o b \o c) = Head(a) /\ a \o b \o c \in Seq(Messages)
    <3>1. a # <<>>
      BY <1>1, <2>1
    <3>2. a \o b \o c \in Seq(Messages)
      BY JoinedQueues
    <3>3. /\ Tail(a) \in Seq(Messages) /\ Len(Tail(a)) = Len(a) - 1
          /\ \A i \in 1..Len(a) - 1 : Tail(a)[i] = a[i + 1]
      BY <3>1
    <3>4. Len(a \o b \o c) = Len(a) + Len(b) + Len(c) /\ Len(a) > 0
      BY <3>1
    <3>5. Tail(a) \o b \o c = Tail(a \o b \o c)
      BY <3>2, <3>3, <3>4, SMTT(20)
    <3>6. a \o b \o c # <<>>
      BY <3>2, <3>4
    <3>7. Head(a \o b \o c) = Head(a)
      BY <3>1
    <3>. QED  BY <3>2, <3>5, <3>6, <3>7
  <2>3. buffer'[s] = Tail(a)
    BY <1>1, <2>1 DEF Queues
  <2>4. q = a \o b \o c /\ Queue(s)' = Tail(a) \o b \o c
    BY <1>1, <1>q, <2>1, <2>3 DEF Queue
  <2>. QED  BY <1>2, <2>1, <2>2, <2>4
<1>4. \A t \in Sockets \ {s} : Queue(t)' = Queue(t)
  BY <1>1 DEF Queue, Queues
<1>5. /\ 1 \in DOMAIN q /\ q[1] = m
      /\ \A i \in DOMAIN Tail(q) : i + 1 \in DOMAIN q /\ i + 1 # 1 /\ Tail(q)[i] = q[i + 1]
      /\ \A i \in DOMAIN q : i = 1 \/ (i - 1 \in DOMAIN Tail(q) /\ Tail(q)[i - 1] = q[i])
      /\ \A i, j \in DOMAIN Tail(q) : i + 1 = j + 1 => i = j
  <2>. QED  BY <1>3
<1>6. sent[m.req] = s
  BY <1>1, <1>5, <1>q DEF Queued
<1>7. /\ \A r \in Requests : r # m.req => kind'[r] = kind[r]
      /\ kind'[m.req] = m.kind /\ m.kind # "none"
  <2>1. Received(s, m.req, m.kind)
    BY <1>1, <1>2 DEF ProcessMessage, Ignore, Reject, DispatchFails, CallMethod, BecomesCurrent
  <2>. QED  BY <1>2, <2>1 DEF Received, Noted, Typed, DataType, Kinds, Calling, Notifying
<1>8. \A t \in Sockets : \A i \in DOMAIN Queue(t)' :
        \E j \in DOMAIN Queue(t) : Queue(t)'[i] = Queue(t)[j] /\ (t = s => j # 1)
  <2>1. ASSUME NEW i \in DOMAIN Queue(s)' PROVE \E j \in DOMAIN Queue(s) : Queue(s)'[i] = Queue(s)[j] /\ j # 1
    BY <1>3, <1>5, <1>q
  <2>. QED  BY <1>4, <2>1
<1>9. ASSUME NEW t \in Sockets, NEW i \in DOMAIN Queue(t)'
      PROVE  sent'[Queue(t)'[i].req] = t /\ kind'[Queue(t)'[i].req] = "none"
  <2>1. PICK j \in DOMAIN Queue(t) : Queue(t)'[i] = Queue(t)[j] /\ (t = s => j # 1)
    BY <1>8
  <2>2. sent[Queue(t)[j].req] = t /\ kind[Queue(t)[j].req] = "none"
    BY DEF Queued
  <2>3. Queue(t)[j].req \in Requests
    <3>1. Queue(t) \in Seq(Messages)
      BY QueueType
    <3>2. Queue(t)[j] \in Messages
      BY <3>1
    <3>. QED  BY <3>2 DEF Messages
  <2>4. Queue(t)[j].req # m.req
    <3>1. CASE t = s
      BY <1>1, <1>5, <1>q, <2>1, <3>1 DEF Queued
    <3>2. CASE t # s
      BY <1>6, <2>2, <3>2
    <3>. QED  BY <3>1, <3>2
  <2>. QED  BY <1>1, <1>7, <2>1, <2>2, <2>3, <2>4
<1>10. \A i, j \in DOMAIN Queue(s)' : Queue(s)'[i].req = Queue(s)'[j].req => i = j
  <2>1. \A i, j \in DOMAIN q : q[i].req = q[j].req => i = j
    BY <1>1, <1>q DEF Queued
  <2>. SUFFICES ASSUME NEW i \in DOMAIN Tail(q), NEW j \in DOMAIN Tail(q), Tail(q)[i].req = Tail(q)[j].req
                PROVE  i = j
    BY <1>3
  <2>2. i + 1 = j + 1
    BY <1>5, <2>1
  <2>. QED  BY <1>5, <2>2
<1>11. \A t \in Sockets : \A i, j \in DOMAIN Queue(t)' : Queue(t)'[i].req = Queue(t)'[j].req => i = j
  <2>1. ASSUME NEW t \in Sockets \ {s}
        PROVE  \A i, j \in DOMAIN Queue(t)' : Queue(t)'[i].req = Queue(t)'[j].req => i = j
    <3>1. Queue(t)' = Queue(t)
      BY <1>4
    <3>. QED  BY <3>1 DEF Queued
  <2>. QED  BY <1>10, <2>1
<1>12. \A r \in Requests : kind'[r] # "none" => sent'[r] # NoSocket
  <2>1. s # NoSocket
    BY ProviderAssumption DEF ProviderAssumption
  <2>. QED  BY <1>1, <1>6, <1>7, <2>1 DEF Queued
<1>13. ASSUME NEW t \in Sockets, NEW r \in Requests, sent'[r] = t
       PROVE  /\ conn'[t] # "none"
              /\ conn'[t] = "open" => kind'[r] # "none" \/ \E i \in DOMAIN Queue(t)' : Queue(t)'[i].req = r
  <2>1. /\ conn[t] # "none"
        /\ conn[t] = "open" => kind[r] # "none" \/ \E i \in DOMAIN Queue(t) : Queue(t)[i].req = r
    BY <1>1, <1>13 DEF Queued
  <2>2. ASSUME r # m.req, NEW i \in DOMAIN Queue(t), Queue(t)[i].req = r
        PROVE  \E j \in DOMAIN Queue(t)' : Queue(t)'[j].req = r
    <3>1. CASE t = s
      <4>1. i \in DOMAIN q /\ q[i].req = r /\ i # 1
        BY <1>5, <1>q, <2>2, <3>1
      <4>2. i - 1 \in DOMAIN Tail(q) /\ Tail(q)[i - 1].req = r
        BY <1>5, <4>1
      <4>. QED  BY <1>3, <3>1, <4>2
    <3>2. CASE t # s
      BY <1>4, <2>2, <3>2
    <3>. QED  BY <3>1, <3>2
  <2>. QED  BY <1>1, <1>7, <2>1, <2>2
<1>. QED  BY <1>9, <1>11, <1>12, <1>13 DEF Queued

LEMMA NextQueued ==
  ASSUME Queues, Typed, LinkType, Queued, [ServerNext]_vars
  PROVE  LinkType' /\ Queued'
<1>1. ASSUME NEW s \in Sockets, NEW r \in Requests, NEW k \in SentKinds, ClientSends(s, r, k)
      PROVE  LinkType' /\ Queued'
  BY <1>1, SendQueued DEF ClientSends, LinkType
<1>2. ASSUME NEW s \in Sockets, ClientCloses(s) PROVE LinkType' /\ Queued'
  BY <1>2, CloseQueued DEF ClientCloses, LinkType
<1>3. CASE TakeMessage
  BY <1>3, TakeQueued DEF TakeMessage, LinkType, linkVars
<1>4. ASSUME UNCHANGED <<sent, kind>>, \A s \in Sockets : Queue(s)' = Queue(s),
             \/ UNCHANGED conn
             \/ \E s \in Sockets, c \in {"open", "gone"} :
                  conn' = [conn EXCEPT ![s] = c] /\ (c = "open" => conn[s] = "none")
      PROVE  LinkType' /\ Queued'
  <2>1. \A s \in Sockets : /\ conn[s] # "none" => conn'[s] # "none"
                           /\ conn'[s] = "open" => conn[s] \in {"none", "open"}
    BY <1>4 DEF LinkType
  <2>2. LinkType'
    BY <1>4 DEF LinkType
  <2>. QED  BY <1>4, <2>1, <2>2, QueuedSame
<1>5. ASSUME NEW s \in Sockets, ReadyRead(s) \/ ReadSilently(s) PROVE LinkType' /\ Queued'
  <2>1. UNCHANGED <<sent, kind, conn>>
    BY <1>5 DEF ReadyRead, ReadSilently, providerVars, requestVars
  <2>2. PICK a \in Seq(Messages), b \in Seq(Messages), c \in Seq(Messages) :
          a = buffer[s] /\ b = silent[s] /\ c = inbox[s]
    BY DEF Queues
  <2>3. (a \o b \o c) \o <<>> \o <<>> = a \o b \o c /\ a \o (b \o c) \o <<>> = a \o b \o c
    BY JoinedQueues
  <2>4. \/ buffer'[s] = a \o b \o c /\ silent'[s] = <<>> /\ inbox'[s] = <<>>
        \/ buffer'[s] = a /\ silent'[s] = b \o c /\ inbox'[s] = <<>>
    BY <1>5, <2>2 DEF ReadyRead, ReadSilently, Queues
  <2>5. Queue(s)' = Queue(s)
    BY <2>2, <2>3, <2>4 DEF Queue
  <2>6. \A t \in Sockets \ {s} : Queue(t)' = Queue(t)
    BY <1>5 DEF ReadyRead, ReadSilently, Queues, Queue
  <2>. QED  BY <1>4, <2>1, <2>5, <2>6
<1>6. ASSUME UNCHANGED <<inbox, silent, buffer>> PROVE \A s \in Sockets : Queue(s)' = Queue(s)
  BY <1>6 DEF Queue
<1>7. ASSUME NEW s \in Sockets, IncomingConnection(s) PROVE LinkType' /\ Queued'
  <2>1. /\ UNCHANGED <<sent, kind, inbox, silent, buffer>>
        /\ conn' = [conn EXCEPT ![s] = "open"] /\ conn[s] = "none"
    BY <1>7 DEF IncomingConnection, SocketCreated, requestVars, readVars
  <2>. QED  BY <1>4, <1>6, <2>1
<1>8. ASSUME NEW s \in Sockets, ClientDisconnected(s) PROVE LinkType' /\ Queued'
  <2>1. /\ UNCHANGED <<sent, kind, inbox, silent, buffer>>
        /\ conn' = [conn EXCEPT ![s] = "gone"]
    BY <1>8 DEF ClientDisconnected, providerVars, requestVars, readVars
  <2>. QED  BY <1>4, <1>6, <2>1
<1>9. ASSUME NEW s \in Sockets, DeferredDelete(s) PROVE LinkType' /\ Queued'
  BY <1>4, <1>6, <1>9 DEF DeferredDelete, SocketsDeleted, requestVars, serverVars, linkVars, readVars
<1>10. CASE ServerDestroyed \/ NotifyConnectedClients \/ UNCHANGED vars
  BY <1>4, <1>6, <1>10 DEF ServerDestroyed, NotifyConnectedClients, SocketsDeleted, vars, providerVars,
     requestVars, serverVars, linkVars, readVars
<1>11. CASE ReceiveReturns \/ ReceiveOnDeleted
  BY <1>4, <1>6, <1>11 DEF ReceiveReturns, ReceiveOnDeleted, providerVars, requestVars, linkVars, readVars
<1>12. CASE ServiceStep
  <2>1. UNCHANGED <<sent, conn, inbox, silent, buffer>>
    BY <1>12 DEF ServiceStep, serverVars, linkVars, readVars
  <2>2. UNCHANGED kind
    BY <1>12 DEF ServiceStep, TaskDue, AddService, RemoveService, MethodStep, BeginDelayedResponse, RunNestedLoop,
       NestedLoopReturns, MethodReturns, Respond, RespondChecks, RespondPosts, PostedCallRuns, EmitResult, requestVars
  <2>. QED  BY <1>4, <1>6, <2>1, <2>2
<1>. QED  BY <1>1, <1>2, <1>3, <1>5, <1>7, <1>8, <1>9, <1>10, <1>11, <1>12
          DEF ServerNext, ClientStep, SocketStep, ReceiveStep

\* What is read is being received, and a receive loop that is on top may go on.
Looping ==
  /\ \A s \in Sockets : buffer[s] # <<>> => Receives(s)
  /\ \A i \in DOMAIN stack : i > 1 \/ ReceiveOnTop => stack[i].at = "nested"
  /\ Len(receiving) \in {Len(stack), Len(stack) + 1}

LEMMA MethodLoops ==
  ASSUME StackType, ~ReceiveOnTop, MethodStep, Looping,
         UNCHANGED <<buffer, receiving>>
  PROVE  Looping'
<1>s. stack \in Seq(Frames) /\ stack # <<>>
  BY MethodStack DEF StackType
<1>1. Len(receiving) = Len(stack)
  BY <1>s DEF Looping, ReceiveOnTop
<1>2. \A s \in Sockets : buffer'[s] # <<>> => Receives(s)'
  BY DEF Looping, Receives
<1>3. ASSUME NEW f \in Frames, SetTop(f) PROVE Looping'
  <2>1. /\ stack' \in Seq(Frames) /\ DOMAIN stack' = DOMAIN stack
        /\ \A i \in DOMAIN stack' : IF i = 1 THEN stack'[i] = f ELSE stack'[i] = stack[i]
    BY <1>s, <1>3, SetTopFrame
  <2>2. Len(stack') = Len(stack)
    BY <1>s, <2>1
  <2>3. ~ReceiveOnTop'
    BY <1>1, <1>s, <2>2 DEF ReceiveOnTop
  <2>4. \A i \in DOMAIN stack' : i > 1 => stack'[i].at = "nested"
    BY <2>1 DEF Looping
  <2>. QED  BY <1>1, <1>2, <2>2, <2>3, <2>4 DEF Looping
<1>4. Head(stack) \in Frames
  BY <1>s, TopFrame
<1>5. CASE BeginDelayedResponse
  <2>1. [Head(stack) EXCEPT !.delays = TRUE] \in Frames
    BY <1>4 DEF Frames
  <2>. QED  BY <1>3, <1>5, <2>1 DEF BeginDelayedResponse
<1>6. CASE RunNestedLoop
  <2>1. [Head(stack) EXCEPT !.at = "nested"] \in Frames
    BY <1>4 DEF Frames
  <2>. QED  BY <1>3, <1>6, <2>1 DEF RunNestedLoop
<1>7. CASE NestedLoopReturns
  <2>1. [Head(stack) EXCEPT !.at = "resumed"] \in Frames
    BY <1>4 DEF Frames
  <2>. QED  BY <1>3, <1>7, <2>1 DEF NestedLoopReturns
<1>8. CASE MethodReturns
  <2>1. stack' = Tail(stack)
    BY <1>8 DEF MethodReturns
  <2>2. /\ stack' \in Seq(Frames) /\ Len(stack') = Len(stack) - 1
        /\ \A i \in DOMAIN stack' : i + 1 \in DOMAIN stack /\ i + 1 > 1 /\ stack'[i] = stack[i + 1]
    BY <1>s, <2>1, PopFrame
  <2>3. \A i \in DOMAIN stack' : stack'[i].at = "nested"
    BY <2>2 DEF Looping
  <2>. QED  BY <1>1, <1>2, <1>s, <2>2, <2>3 DEF Looping
<1>. QED  BY <1>5, <1>6, <1>7, <1>8 DEF MethodStep

LEMMA TakeLoops ==
  ASSUME Queues, Typed, Looping, TakeMessage
  PROVE  Looping'
<1>s. stack \in Seq(Frames) /\ receiving \in Seq(Sockets)
  BY DEF Typed, StackType, Queues
<1>1. PICK s \in Sockets :
        /\ ReceiveOnTop /\ buffer' = [buffer EXCEPT ![s] = Tail(@)] /\ s = Head(receiving)
        /\ ProcessMessage(s, Head(buffer[s]).req, Head(buffer[s]).kind) /\ UNCHANGED receiving
        /\ buffer[s] # <<>>
  <2>1. receiving # <<>>
    BY <1>s DEF TakeMessage, ReceiveOnTop
  <2>2. Head(receiving) \in Sockets
    BY <1>s, <2>1, HeadTail
  <2>. QED  BY <2>2 DEF TakeMessage
<1>2. Len(receiving) = Len(stack) + 1
  BY <1>1, <1>s DEF ReceiveOnTop, Looping
<1>3. \A t \in Sockets : buffer'[t] # <<>> => Receives(t)'
  BY <1>1 DEF Queues, Looping, Receives
<1>4. CASE UNCHANGED stack
  BY <1>1, <1>2, <1>3, <1>4 DEF Looping, ReceiveOnTop
<1>5. ASSUME NEW r \in Requests, CallMethod(s, r, Head(buffer[s]).kind) PROVE Looping'
  <2>. DEFINE f == [req |-> r, at |-> "fresh", delays |-> FALSE]
  <2>1. f \in Frames /\ stack' = <<f>> \o stack
    BY <1>5 DEF CallMethod, Frames
  <2>. HIDE DEF f
  <2>2. /\ stack' \in Seq(Frames)
        /\ \A i \in DOMAIN stack' :
             (i = 1 /\ stack'[i] = f) \/ (i > 1 /\ i - 1 \in DOMAIN stack /\ stack'[i] = stack[i - 1])
    BY <1>s, <2>1, PushFrame
  <2>3. Len(stack') = Len(stack) + 1
    BY <1>s, <2>1
  <2>4. ~ReceiveOnTop'
    BY <1>1, <1>2, <1>s, <2>3 DEF ReceiveOnTop
  <2>5. \A i \in DOMAIN stack' : i > 1 => stack'[i].at = "nested"
    BY <1>1, <2>2 DEF Looping
  <2>. QED  BY <1>1, <1>2, <1>3, <2>3, <2>4, <2>5 DEF Looping
<1>6. Head(buffer[s]).req \in Requests
  <2>1. Head(buffer[s]) \in Messages
    BY <1>1, HeadTail DEF Queues
  <2>. QED  BY <2>1 DEF Messages
<1>. QED  BY <1>1, <1>4, <1>5, <1>6 DEF ProcessMessage, Ignore, Reject, DispatchFails, serviceVars

LEMMA NextLooping ==
  ASSUME Queues, Typed, Looping, [ServerNext]_vars
  PROVE  Looping'
<1>s. stack \in Seq(Frames) /\ receiving \in Seq(Sockets)
  BY DEF Typed, StackType, Queues
<1>1. ASSUME UNCHANGED <<stack, receiving, buffer>> PROVE Looping'
  BY <1>1 DEF Looping, Receives, ReceiveOnTop
<1>2. ASSUME NEW s \in Sockets, ReadyRead(s) PROVE Looping'
  <2>1. /\ receiving' = <<s>> \o receiving /\ UNCHANGED stack /\ LoopRuns
        /\ \A t \in Sockets \ {s} : buffer'[t] = buffer[t]
    BY <1>2 DEF ReadyRead, providerVars, serviceVars, Queues
  <2>2. /\ Len(receiving') = Len(receiving) + 1 /\ receiving' \in Seq(Sockets)
        /\ 1 \in DOMAIN receiving' /\ receiving'[1] = s
        /\ \A i \in DOMAIN receiving : i + 1 \in DOMAIN receiving' /\ receiving'[i + 1] = receiving[i]
    BY <1>s, <2>1
  <2>3. Receives(s)' /\ \A t \in Sockets : Receives(t) => Receives(t)'
    BY <2>2 DEF Receives
  <2>4. \A t \in Sockets : buffer'[t] # <<>> => Receives(t)'
    BY <2>1, <2>3 DEF Looping
  <2>5. Len(receiving) = Len(stack) /\ InLoop
    BY <1>s, <2>1 DEF LoopRuns, ReceiveOnTop, Looping
  <2>6. \A i \in DOMAIN stack : stack[i].at = "nested"
    <3>. SUFFICES ASSUME NEW i \in DOMAIN stack PROVE stack[i].at = "nested"
      OBVIOUS
    <3>1. CASE i > 1
      BY <3>1 DEF Looping
    <3>2. CASE i = 1
      <4>1. /\ stack # <<>> /\ Head(stack) = stack[1]
            /\ Head(stack).at \in {"fresh", "nested", "resumed"}
        BY <1>s, <3>2, TopFrame
      <4>. QED  BY <2>5, <3>2, <4>1 DEF InLoop, InMethod, At
    <3>. QED  BY <1>s, <3>1, <3>2
  <2>. QED  BY <1>s, <2>1, <2>2, <2>4, <2>5, <2>6 DEF Looping
<1>3. CASE ReceiveReturns
  <2>1. /\ ReceiveOnTop /\ receiving' = Tail(receiving) /\ UNCHANGED <<stack, buffer>>
        /\ buffer[Head(receiving)] = <<>>
    BY <1>3 DEF ReceiveReturns, NothingBuffered, providerVars, serviceVars
  <2>2. Len(receiving) = Len(stack) + 1
    BY <1>s, <2>1 DEF ReceiveOnTop, Looping
  <2>3. /\ Len(receiving') = Len(stack) /\ receiving' \in Seq(Sockets)
        /\ Head(receiving) = receiving[1]
        /\ \A i \in DOMAIN receiving : i = 1 \/ (i - 1 \in DOMAIN receiving' /\ receiving'[i - 1] = receiving[i])
    BY <1>s, <2>1, <2>2
  <2>4. \A t \in Sockets : t # Head(receiving) /\ Receives(t) => Receives(t)'
    BY <2>3 DEF Receives
  <2>5. \A t \in Sockets : buffer'[t] # <<>> => Receives(t)'
    BY <2>1, <2>4 DEF Looping
  <2>6. ~ReceiveOnTop'
    BY <1>s, <2>1, <2>3 DEF ReceiveOnTop
  <2>. QED  BY <2>1, <2>3, <2>5, <2>6 DEF Looping
<1>4. CASE ServiceStep
  <2>1. UNCHANGED <<receiving, buffer>>
    BY <1>4 DEF ServiceStep, serverVars, readVars
  <2>2. UNCHANGED stack \/ (~ReceiveOnTop /\ MethodStep)
    BY <1>4 DEF ServiceStep, TaskDue, AddService, RemoveService, Respond, RespondChecks, RespondPosts,
       PostedCallRuns, EmitResult, serviceVars
  <2>. QED  BY <1>1, <2>1, <2>2, MethodLoops DEF Typed
<1>5. ASSUME NEW s \in Sockets, ClientStep(s) \/ IncomingConnection(s) \/ ClientDisconnected(s)
                                \/ DeferredDelete(s) \/ ReadSilently(s)
      PROVE  UNCHANGED <<stack, receiving, buffer>>
  BY <1>5 DEF ClientStep, ClientSends, ClientCloses, IncomingConnection, SocketCreated, ClientDisconnected,
     DeferredDelete, SocketsDeleted, ReadSilently, providerVars, serviceVars, serverVars, readVars
<1>6. ReceiveOnDeleted \/ NotifyConnectedClients \/ ServerDestroyed \/ UNCHANGED vars
      => UNCHANGED <<stack, receiving, buffer>>
  BY DEF ReceiveOnDeleted, NotifyConnectedClients, ServerDestroyed, SocketsDeleted, vars, providerVars,
     serviceVars, serverVars, readVars
<1>. QED  BY <1>1, <1>2, <1>3, <1>4, <1>5, <1>6, TakeLoops DEF ServerNext, SocketStep, ReceiveStep

\* Sockets of connections exist, and those of ended ones are on their way out.
Connected ==
  /\ \A s \in Sockets : conn[s] # "none" => life[s] # "none"
  /\ \A s \in Sockets : conn[s] = "gone" => life[s] = "deleted" \/ doomed[s] > 0
  /\ \A s \in Sockets : Receives(s) => life[s] # "none"

\* A socket, once there, never was not, and a deleted one stays deleted.
LEMMA NextLife ==
  ASSUME Typed, [ProviderNext]_providerVars
  PROVE  \A s \in Sockets : /\ life[s] # "none" => life'[s] # "none"
                            /\ life[s] = "deleted" => life'[s] = "deleted"
<1>1. CASE EnvironmentStep
  BY <1>1 DEF EnvironmentStep, SocketCreated, SocketsDeleted, AddService, RemoveService, Typed, DataType
<1>2. ASSUME NEW s \in Sockets, NEW r \in Requests, NEW k \in Kinds, ProcessMessage(s, r, k)
      PROVE  UNCHANGED life
  BY <1>2 DEF ProcessMessage, Ignore, Reject, DispatchFails, CallMethod
<1>3. MethodStep => UNCHANGED life
  BY DEF MethodStep, BeginDelayedResponse, RunNestedLoop, NestedLoopReturns, MethodReturns
<1>4. ASSUME NEW r \in Requests, TaskStep(r) PROVE UNCHANGED life
  BY <1>4 DEF TaskStep, Respond, RespondChecks, RespondPosts, PostedCallRuns, EmitResult
<1>5. UNCHANGED providerVars => UNCHANGED life
  BY DEF providerVars
<1>. QED  BY <1>1, <1>2, <1>3, <1>4, <1>5, ProviderCases

LEMMA NextConnected ==
  ASSUME Queues, Typed, LinkType, Tables, Connected, [ServerNext]_vars
  PROVE  Connected'
<1>l. \A s \in Sockets : /\ life[s] # "none" => life'[s] # "none"
                         /\ life[s] = "deleted" => life'[s] = "deleted"
  BY NextRefines, NextLife
<1>s. receiving \in Seq(Sockets)
  BY DEF Queues
<1>1. ASSUME UNCHANGED <<conn, doomed>>, \A s \in Sockets : Receives(s)' => Receives(s) \/ life[s] # "none"
      PROVE  Connected'
  BY <1>1, <1>l DEF Connected
<1>2. UNCHANGED receiving => \A s \in Sockets : Receives(s)' => Receives(s)
  BY DEF Receives
<1>3. ASSUME NEW s \in Sockets, ReadyRead(s) PROVE Connected'
  <2>1. receiving' = <<s>> \o receiving /\ life[s] = "alive" /\ UNCHANGED <<conn, doomed>>
    BY <1>3 DEF ReadyRead, tableVars
  <2>2. \A i \in DOMAIN receiving' :
          receiving'[i] = s \/ (i - 1 \in DOMAIN receiving /\ receiving'[i] = receiving[i - 1])
    BY <1>s, <2>1
  <2>. QED  BY <1>1, <2>1, <2>2 DEF Receives
<1>4. CASE ReceiveReturns
  <2>1. receiving' = Tail(receiving) /\ receiving # <<>> /\ UNCHANGED <<conn, doomed>>
    BY <1>4, <1>s DEF ReceiveReturns, ReceiveOnTop, linkVars, tableVars, Typed, StackType
  <2>2. \A i \in DOMAIN receiving' : i + 1 \in DOMAIN receiving /\ receiving'[i] = receiving[i + 1]
    BY <1>s, <2>1
  <2>. QED  BY <1>1, <2>1, <2>2 DEF Receives
<1>5. CASE TakeMessage \/ ReceiveOnDeleted
  BY <1>1, <1>2, <1>5 DEF TakeMessage, ReceiveOnDeleted, linkVars, readVars, tableVars
<1>6. ASSUME NEW s \in Sockets, IncomingConnection(s) PROVE Connected'
  <2>1. /\ conn' = [conn EXCEPT ![s] = "open"] /\ life' = [life EXCEPT ![s] = "alive"]
        /\ UNCHANGED <<doomed, receiving>>
    BY <1>6 DEF IncomingConnection, SocketCreated, readVars
  <2>2. /\ \A t \in Sockets : conn'[t] = IF t = s THEN "open" ELSE conn[t]
        /\ life'[s] # "none"
    BY <2>1 DEF LinkType, Typed, DataType
  <2>. QED  BY <1>2, <1>l, <2>1, <2>2 DEF Connected
<1>7. ASSUME NEW s \in Sockets, ClientCloses(s) PROVE Connected'
  <2>1. conn[s] = "open" /\ conn' = [conn EXCEPT ![s] = "closing"] /\ UNCHANGED <<doomed, receiving>>
    BY <1>7 DEF ClientCloses, readVars, tableVars
  <2>2. \A t \in Sockets : conn'[t] = IF t = s THEN "closing" ELSE conn[t]
    BY <2>1 DEF LinkType
  <2>. QED  BY <1>2, <1>l, <2>1, <2>2 DEF Connected
<1>8. ASSUME NEW s \in Sockets, ClientDisconnected(s) PROVE Connected'
  <2>1. /\ conn' = [conn EXCEPT ![s] = "gone"] /\ life[s] = "alive" /\ UNCHANGED receiving
        /\ IF s \in socketLookup THEN doomed' = [doomed EXCEPT ![s] = Level] ELSE UNCHANGED doomed
    BY <1>8 DEF ClientDisconnected, readVars
  <2>2. \A t \in Sockets : conn'[t] = IF t = s THEN "gone" ELSE conn[t]
    BY <2>1 DEF LinkType
  <2>3. Level \in Nat /\ Level > 0
    BY DEF Level, Typed, StackType
  <2>4. doomed \in [Sockets -> Nat] /\ (s \notin socketLookup => doomed[s] > 0)
    BY <2>1 DEF Tables, TablesMatchSockets
  <2>5. doomed'[s] > 0 /\ \A t \in Sockets \ {s} : doomed'[t] = doomed[t]
    BY <2>1, <2>3, <2>4
  <2>. QED  BY <1>2, <1>l, <2>1, <2>2, <2>5 DEF Connected
<1>9. ASSUME NEW s \in Sockets, DeferredDelete(s) \/ ReadSilently(s)
                                \/ (\E r \in Requests, k \in SentKinds : ClientSends(s, r, k))
      PROVE  Connected'
  BY <1>1, <1>2, <1>9 DEF DeferredDelete, ReadSilently, ClientSends, serverVars, linkVars, readVars, tableVars
<1>10. CASE ServiceStep \/ NotifyConnectedClients \/ ServerDestroyed \/ UNCHANGED vars
  BY <1>1, <1>2, <1>10 DEF ServiceStep, NotifyConnectedClients, ServerDestroyed, vars, serverVars, linkVars,
     readVars, tableVars
<1>. QED  BY <1>3, <1>4, <1>5, <1>6, <1>7, <1>8, <1>9, <1>10 DEF ServerNext, ClientStep, SocketStep, ReceiveStep

\* When each action that Due is made of may be taken: a receive loop or a
\* method goes on, a service answers, a socket is read, forgotten or deleted.
CanReceive ==
  /\ ReceiveOnTop
  /\ LET s == Head(receiving)
     IN  \/ life[s] = "deleted"
         \/ life[s] = "alive" /\ (buffer[s] # <<>> => InLoop /\ kind[Head(buffer[s]).req] = "none")

CanReturn == ~ReceiveOnTop /\ stack # <<>>

CanAnswer(r) ==
  \/ task[r] = "held" /\ (Workers \/ ~ReceiveOnTop)
  \/ task[r] = "checked"
  \/ task[r] = "posted" /\ LoopRuns

CanServe(s) ==
  /\ LoopRuns /\ life[s] = "alive"
  /\ inbox[s] # <<>> \/ conn[s] = "closing" \/ doomed[s] >= Level

SomethingIsDue ==
  \/ CanReceive \/ CanReturn
  \/ \E r \in Requests : CanAnswer(r)
  \/ \E s \in Sockets : CanServe(s)

\* What MessagesAreProcessed, CallsAreAnswered and LeftSocketsAreDeleted promise
\* has come about, of all that has been asked for so far.
NothingIsOwed ==
  /\ \A s \in Sockets, r \in Requests :
       sent[r] = s /\ conn[s] = "open" /\ life[s] = "alive" => kind[r] # "none" \/ ReadSilentlyOnly(s, r)
  /\ \A r \in Requests :
       kind[r] \in Calling /\ life[from[r]] = "alive" => answers[r][from[r]] = 1 \/ task[r] = "emitted"
  /\ \A s \in Sockets : conn[s] \in {"closing", "gone"} => life[s] = "deleted"

LEMMA LoopGoesOn ==
  ASSUME Queues, Typed, Queued, Looping, Connected, ReceiveOnTop
  PROVE  CanReceive
<1>1. PICK s \in Sockets : s = Head(receiving) /\ Receives(s)
  <2>1. receiving \in Seq(Sockets) /\ receiving # <<>>
    BY DEF ReceiveOnTop, Queues, Typed, StackType
  <2>2. Head(receiving) \in Sockets /\ 1 \in DOMAIN receiving /\ receiving[1] = Head(receiving)
    BY <2>1, HeadTail
  <2>. QED  BY <2>2 DEF Receives
<1>2. life[s] \in {"alive", "deleted"}
  BY <1>1 DEF Connected, Typed, DataType
<1>3. InLoop
  <2>. SUFFICES ASSUME InMethod PROVE FALSE
    BY DEF InLoop
  <2>1. stack \in Seq(Frames) /\ stack # <<>>
    BY DEF InMethod, At, Typed, StackType
  <2>2. 1 \in DOMAIN stack /\ Head(stack) = stack[1]
    BY <2>1, TopFrame
  <2>. QED  BY <2>2 DEF Looping, InMethod, At
<1>4. ASSUME buffer[s] # <<>> PROVE kind[Head(buffer[s]).req] = "none"
  <2>1. PICK a \in Seq(Messages), b \in Seq(Messages), c \in Seq(Messages) :
          a = buffer[s] /\ b = silent[s] /\ c = inbox[s]
    BY DEF Queues
  <2>2. a # <<>>
    BY <1>4, <2>1
  <2>3. 1 \in DOMAIN (a \o b \o c) /\ (a \o b \o c)[1] = Head(a)
    BY <2>2
  <2>4. Queue(s) = a \o b \o c
    BY <2>1 DEF Queue
  <2>5. kind[Queue(s)[1].req] = "none"
    BY <2>3, <2>4 DEF Queued
  <2>. QED  BY <2>1, <2>3, <2>4, <2>5
<1>. QED  BY <1>1, <1>2, <1>3, <1>4 DEF CanReceive

LEMMA IdleIsSettled ==
  ASSUME Queues, Typed, LinkType, Tables, Queued, Looping, Connected, NoCallForgotten, ~SomethingIsDue
  PROVE  NothingIsOwed
<1>1. ~ReceiveOnTop /\ stack = <<>>
  BY LoopGoesOn DEF SomethingIsDue, CanReturn
<1>2. receiving = <<>> /\ LoopRuns /\ Level = 1
  BY <1>1 DEF ReceiveOnTop, LoopRuns, InLoop, InMethod, At, Level, Queues
<1>3. ASSUME NEW s \in Sockets, life[s] = "alive"
      PROVE  inbox[s] = <<>> /\ buffer[s] = <<>> /\ conn[s] # "closing" /\ doomed[s] = 0
  <2>1. inbox[s] = <<>> /\ conn[s] # "closing" /\ ~(doomed[s] >= 1)
    BY <1>2, <1>3 DEF SomethingIsDue, CanServe
  <2>2. doomed[s] = 0
    BY <2>1 DEF Tables
  <2>3. buffer[s] = <<>>
    BY <1>2 DEF Looping, Receives
  <2>. QED  BY <2>1, <2>2, <2>3
<1>4. ASSUME NEW s \in Sockets, NEW r \in Requests, sent[r] = s, conn[s] = "open", life[s] = "alive", kind[r] = "none"
      PROVE  ReadSilentlyOnly(s, r)
  <2>1. PICK i \in DOMAIN Queue(s) : Queue(s)[i].req = r
    BY <1>4 DEF Queued
  <2>2. PICK b \in Seq(Messages) : b = silent[s]
    BY DEF Queues
  <2>3. <<>> \o b \o <<>> = b
    OBVIOUS
  <2>4. Queue(s) = b
    BY <1>3, <1>4, <2>2, <2>3 DEF Queue
  <2>. QED  BY <2>1, <2>2, <2>4 DEF ReadSilentlyOnly
<1>5. ASSUME NEW r \in Requests, kind[r] \in Calling, life[from[r]] = "alive"
      PROVE  answers[r][from[r]] = 1 \/ task[r] = "emitted"
  <2>1. ~OnStack(r)
    BY <1>1 DEF OnStack
  <2>2. task[r] \notin {"held", "checked", "posted"}
    BY <1>1, <1>2 DEF SomethingIsDue, CanAnswer
  <2>. QED  BY <1>5, <2>1, <2>2 DEF NoCallForgotten
<1>6. ASSUME NEW s \in Sockets, conn[s] \in {"closing", "gone"}
      PROVE  life[s] = "deleted"
  BY <1>3, <1>6 DEF Connected, Typed, DataType
<1>. QED  BY <1>4, <1>5, <1>6 DEF NothingIsOwed

LEMMA InitOwed == ServerInit => LinkType /\ Queued /\ Looping /\ Connected
<1>. SUFFICES ASSUME ServerInit PROVE LinkType /\ Queued /\ Looping /\ Connected
  OBVIOUS
<1>1. \A s \in Sockets : Queue(s) = <<>>
  <2>1. <<>> \o <<>> \o <<>> = <<>>
    OBVIOUS
  <2>. QED  BY <2>1 DEF ServerInit, Queue
<1>2. \A r \in Requests : sent[r] = NoSocket /\ kind[r] = "none"
  BY DEF ServerInit, ProviderInit
<1>3. Queued
  <2>1. \A s \in Sockets : s # NoSocket
    BY ProviderAssumption DEF ProviderAssumption
  <2>. QED  BY <1>1, <1>2, <2>1 DEF Queued
<1>4. LinkType /\ Looping /\ Connected
  BY DEF ServerInit, ProviderInit, LinkType, Looping, Connected, Receives, ReceiveOnTop
<1>. QED  BY <1>3, <1>4

LEMMA OwedHolds == ServerSpec => [](LinkType /\ Queues /\ Queued /\ Looping /\ Connected)
<1>1. ServerInit => Queues /\ LinkType /\ Queued /\ Looping /\ Connected
  BY InitQueues, InitOwed
<1>2. /\ ProviderTypeOK /\ HasSocket /\ Tables /\ Queues /\ LinkType /\ Queued /\ Looping /\ Connected
      /\ [ServerNext]_vars
      => Queues' /\ LinkType' /\ Queued' /\ Looping' /\ Connected'
  BY NextQueues, NextQueued, NextLooping, NextConnected, TypeParts DEF Typed
<1>. QED  BY <1>1, <1>2, TablesHold, PTL DEF ServerSpec

\* A server that has nothing more to do has processed every message that it can
\* announce, answered every call and deleted every socket that was left: it never
\* comes to rest with something owed, whatever its services and clients do.
THEOREM IdleServerOwesNothing ==
  ASSUME ~DelayAndNest
  PROVE  ServerSpec => [](SomethingIsDue \/ NothingIsOwed)
<1>1. ServerSpec => []NoCallForgotten
  BY Implementation, NoCallForgottenHolds, PTL DEF ImplementsProvider
<1>2. /\ ProviderTypeOK /\ HasSocket /\ Tables /\ Queues /\ LinkType /\ Queued /\ Looping /\ Connected /\ NoCallForgotten
      => SomethingIsDue \/ NothingIsOwed
  BY IdleIsSettled, TypeParts DEF Typed
<1>. QED  BY <1>1, <1>2, OwedHolds, TablesHold, PTL

\* The server's variables keep their types, for any clients and services.
THEOREM ServerTypeCorrect == ServerSpec => []ServerTypeOK
<1>. DEFINE Flags == serving \in BOOLEAN /\ freedUsed \in BOOLEAN
<1>1. ServerInit => Flags
  BY DEF ServerInit
<1>2. Flags /\ [ServerNext]_vars => Flags'
  <2>. SUFFICES ASSUME Flags, [ServerNext]_vars PROVE Flags'
    OBVIOUS
  <2>1. ASSUME NEW s \in Sockets, ClientStep(s) \/ SocketStep(s) PROVE Flags'
    BY <2>1 DEF ClientStep, ClientSends, ClientCloses, SocketStep, IncomingConnection, ClientDisconnected,
       DeferredDelete, ReadyRead, ReadSilently, serverVars, tableVars
  <2>2. ReceiveStep => Flags'
    BY DEF ReceiveStep, TakeMessage, ReceiveReturns, ReceiveOnDeleted, tableVars
  <2>3. ServiceStep \/ NotifyConnectedClients \/ ServerDestroyed \/ UNCHANGED vars => Flags'
    BY DEF ServiceStep, NotifyConnectedClients, ServerDestroyed, vars, serverVars, tableVars
  <2>. QED  BY <2>1, <2>2, <2>3 DEF ServerNext
<1>3. ProviderTypeOK /\ Tables /\ LinkType /\ Queues /\ Looping /\ Flags => ServerTypeOK
  <2>. SUFFICES ASSUME ProviderTypeOK, Tables, LinkType, Queues, Looping, Flags PROVE ServerTypeOK
    OBVIOUS
  <2>1. clients \subseteq Sockets /\ socketLookup \subseteq Sockets /\ doomed \in [Sockets -> Nat]
    BY DEF Tables, TablesMatchSockets
  <2>2. Len(receiving) - Len(stack) \in {0, 1}
    <3>1. Len(receiving) \in Nat /\ Len(stack) \in Nat
      BY DEF Queues, ProviderTypeOK
    <3>. QED  BY <3>1 DEF Looping
  <2>. QED  BY <2>1, <2>2 DEF ServerTypeOK, LinkType, Queues
<1>. QED  BY <1>1, <1>2, <1>3, OwedHolds, TablesHold, PTL DEF ServerSpec
=============================================================================
