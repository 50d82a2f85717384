--------------------------- MODULE QJsonRpcTcpServer ---------------------------
(***************************************************************************)
(* QJsonRpcTcpServer (src/src/qjsonrpctcpserver.cpp) over the provider it  *)
(* inherits from: the connections it accepts, the table that maps them to  *)
(* QJsonRpcSockets, the receive loops of those sockets, their deferred     *)
(* deletion, and the broadcasts of the service.                            *)
(*                                                                         *)
(* The C++ stack alternates: below each service method on `stack` is the   *)
(* _q_processIncomingData that delivered its message.  `receiving` lists   *)
(* the sockets those run for, innermost first; one of them is on top when  *)
(* `receiving` is longer than `stack`.                                     *)
(***************************************************************************)
EXTENDS QJsonRpcServiceProvider

CONSTANTS
  SentKinds,        \* the kinds of messages that the clients send
  Pipelining,       \* whether clients send before their last message was processed
  ImpatientClients  \* whether clients may leave while it is being processed

ASSUME ServerAssumption ==
  /\ SentKinds \subseteq Kinds
  /\ {Pipelining, ImpatientClients} \subseteq BOOLEAN

VARIABLES
  serving,       \* the server object exists
  conn,          \* conn[s]: the connection is "none" (yet), "open", "closing"
                 \* (closed by the client) or "gone" (seen by the server)
  sent,          \* sent[r]: the socket r was sent to
  inbox,         \* inbox[s]: messages the server's QTcpSocket has not read
  silent,        \* silent[s]: read by it while it was emitting readyRead
  buffer,        \* buffer[s]: the buffer of the QJsonRpcSocket
  receiving,     \* sockets in _q_processIncomingData, innermost first
  clients,       \* QJsonRpcAbstractServerPrivate::clients
  socketLookup,  \* QJsonRpcTcpServerPrivate::socketLookup, by the socket
  doomed,        \* doomed[s]: the loop level of its DeferredDelete event, or 0
  freedUsed      \* a receive loop or a broadcast has used a deleted socket

linkVars == <<conn, sent, inbox>>
readVars == <<silent, buffer, receiving>>
tableVars == <<serving, clients, socketLookup, doomed>>
serverVars == <<linkVars, readVars, tableVars, freedUsed>>
vars == <<providerVars, serverVars>>

Messages == [req : Requests, kind : Kinds]

ServerTypeOK ==
  /\ ProviderTypeOK
  /\ serving \in BOOLEAN
  /\ conn \in [Sockets -> {"none", "open", "closing", "gone"}]
  /\ sent \in [Requests -> Sockets \cup {NoSocket}]
  /\ inbox \in [Sockets -> Seq(Messages)]
  /\ silent \in [Sockets -> Seq(Messages)]
  /\ buffer \in [Sockets -> Seq(Messages)]
  /\ receiving \in Seq(Sockets)
  /\ Len(receiving) - Len(stack) \in {0, 1}
  /\ clients \subseteq Sockets
  /\ socketLookup \subseteq Sockets
  /\ doomed \in [Sockets -> Nat]
  /\ freedUsed \in BOOLEAN

ServerInit ==
  /\ ProviderInit
  /\ serving = TRUE
  /\ conn = [s \in Sockets |-> "none"]
  /\ sent = [r \in Requests |-> NoSocket]
  /\ inbox = [s \in Sockets |-> <<>>]
  /\ silent = inbox /\ buffer = inbox
  /\ receiving = <<>>
  /\ clients = {} /\ socketLookup = {}
  /\ doomed = [s \in Sockets |-> 0]
  /\ freedUsed = FALSE

-----------------------------------------------------------------------------
ReceiveOnTop == Len(receiving) > Len(stack)

\* An event loop runs; the main one is level 1, one nested in it 2, ...
LoopRuns == InLoop /\ ~ReceiveOnTop
Level == Len(stack) + 1

Receives(s) == \E i \in DOMAIN receiving : receiving[i] = s

\* The server has taken up everything s has sent.
UpToDate(s) ==
  inbox[s] = <<>> /\ silent[s] = <<>> /\ buffer[s] = <<>> /\ ~Receives(s)

-----------------------------------------------------------------------------
(* Clients. *)

ClientSends(s, r, k) ==
  /\ conn[s] = "open"
  /\ sent[r] = NoSocket
  /\ Pipelining \/ UpToDate(s)
  /\ sent' = [sent EXCEPT ![r] = s]
  /\ inbox' = [inbox EXCEPT ![s] = Append(@, [req |-> r, kind |-> k])]
  /\ UNCHANGED <<providerVars, conn, readVars, tableVars, freedUsed>>

\* The client closes the connection or loses it; a reset also discards what
\* the server has not read.
ClientCloses(s) ==
  /\ conn[s] = "open"
  /\ ImpatientClients \/ UpToDate(s)
  /\ conn' = [conn EXCEPT ![s] = "closing"]
  /\ inbox' \in {inbox, [inbox EXCEPT ![s] = <<>>]}
  /\ UNCHANGED <<providerVars, sent, readVars, tableVars, freedUsed>>

-----------------------------------------------------------------------------
(* Connections. *)

\* incomingConnection.
IncomingConnection(s) ==
  /\ LoopRuns /\ serving
  /\ conn[s] = "none"
  /\ SocketCreated(s)
  /\ conn' = [conn EXCEPT ![s] = "open"]
  /\ clients' = clients \cup {s}
  /\ socketLookup' = socketLookup \cup {s}
  /\ UNCHANGED <<serving, sent, inbox, readVars, doomed, freedUsed>>

ClientKept(s) == UNCHANGED clients              \* mutant: no removeAll
ForgetClient(s) == clients' = clients \ {s}

\* _q_clientDisconnected, once everything the client sent has been read: the
\* socket is forgotten, and deleted later.
ClientDisconnected(s) ==
  /\ LoopRuns
  /\ conn[s] = "closing"
  /\ inbox[s] = <<>>
  /\ life[s] = "alive"
  /\ conn' = [conn EXCEPT ![s] = "gone"]
  /\ IF s \in socketLookup
     THEN /\ socketLookup' = socketLookup \ {s}
          /\ ForgetClient(s)
          /\ doomed' = [doomed EXCEPT ![s] = Level]
     ELSE UNCHANGED <<socketLookup, clients, doomed>>
  /\ UNCHANGED <<providerVars, serving, sent, inbox, readVars, freedUsed>>

DeletedAnywhere(s) == doomed[s] > 0             \* mutant: delete, not deleteLater
DeletedByOuter(s) == LoopRuns /\ doomed[s] > Level   \* mutant: off by one level
\* A DeferredDelete event is delivered by the loop it was posted in or by one
\* outside that, never by a loop nested in it.
DeletionDue(s) == LoopRuns /\ doomed[s] >= Level

DeferredDelete(s) ==
  /\ life[s] = "alive"
  /\ DeletionDue(s)
  /\ SocketsDeleted({s})
  /\ UNCHANGED serverVars

\* ~QJsonRpcTcpServer, from the main loop.  The sockets are children of the
\* server: they are deleted with it, before their DeferredDelete events.
ServerDestroyed ==
  /\ LoopRuns /\ serving
  /\ stack = <<>>
  /\ serving' = FALSE
  /\ clients' = {} /\ socketLookup' = {}
  /\ SocketsDeleted(Sockets)
  /\ UNCHANGED <<linkVars, readVars, doomed, freedUsed>>

\* The service emits notifyConnectedClients: every socket in `clients` writes.
NotifyConnectedClients ==
  /\ serving /\ registered
  /\ InMethod \/ LoopRuns
  /\ freedUsed' = (freedUsed \/ \E s \in clients : life[s] = "deleted")
  /\ UNCHANGED <<providerVars, linkVars, readVars, tableVars>>

-----------------------------------------------------------------------------
(* The receive loops (QJsonRpcSocketPrivate::_q_processIncomingData). *)

ReadyRead(s) ==
  /\ LoopRuns
  /\ life[s] = "alive" /\ inbox[s] # <<>>
  /\ ~Receives(s)
  /\ buffer' = [buffer EXCEPT ![s] = @ \o silent[s] \o inbox[s]]
  /\ silent' = [silent EXCEPT ![s] = <<>>]
  /\ inbox' = [inbox EXCEPT ![s] = <<>>]
  /\ receiving' = <<s>> \o receiving
  /\ UNCHANGED <<providerVars, conn, sent, tableVars, freedUsed>>

\* In a loop nested in s's own readyRead the data is read but not announced.
ReadSilently(s) ==
  /\ LoopRuns
  /\ life[s] = "alive" /\ inbox[s] # <<>>
  /\ Receives(s)
  /\ silent' = [silent EXCEPT ![s] = @ \o inbox[s]]
  /\ inbox' = [inbox EXCEPT ![s] = <<>>]
  /\ UNCHANGED <<providerVars, conn, sent, buffer, receiving, tableVars, freedUsed>>

ReturnAfterMessage(s) == TRUE                   \* mutant: return for continue
NothingBuffered(s) == buffer[s] = <<>>

\* A turn of the loop: messageReceived, _q_processMessage, processMessage.
TakeMessage ==
  /\ ReceiveOnTop
  /\ LET s == Head(receiving) IN
       /\ life[s] = "alive"
       /\ buffer[s] # <<>>
       /\ buffer' = [buffer EXCEPT ![s] = Tail(@)]
       /\ ProcessMessage(s, Head(buffer[s]).req, Head(buffer[s]).kind)
  /\ UNCHANGED <<linkVars, silent, receiving, tableVars, freedUsed>>

ReceiveReturns ==
  /\ ReceiveOnTop
  /\ life[Head(receiving)] = "alive"
  /\ NothingBuffered(Head(receiving))
  /\ receiving' = Tail(receiving)
  /\ UNCHANGED <<providerVars, linkVars, silent, buffer, tableVars, freedUsed>>

\* The socket was deleted by a loop nested in its own receive loop.
ReceiveOnDeleted ==
  /\ ReceiveOnTop
  /\ life[Head(receiving)] = "deleted"
  /\ freedUsed' = TRUE
  /\ UNCHANGED <<providerVars, linkVars, readVars, tableVars>>

-----------------------------------------------------------------------------
ClientStep(s) ==
  \/ \E r \in Requests, k \in SentKinds : ClientSends(s, r, k)
  \/ ClientCloses(s)

SocketStep(s) ==
  \/ IncomingConnection(s)
  \/ ClientDisconnected(s)
  \/ DeferredDelete(s)
  \/ ReadyRead(s)
  \/ ReadSilently(s)

ReceiveStep == TakeMessage \/ ReceiveReturns \/ ReceiveOnDeleted

\* An answer that was delayed: on the sockets' thread not inside a receive
\* loop's own code, on other threads at any time.
TaskDue(r) ==
  \/ ~ReceiveOnTop /\ (Respond(r) \/ EmitResult(r) \/ PostedCallRuns(r))
  \/ RespondChecks(r) \/ RespondPosts(r)

\* What the provider and the service do besides processMessage.
ServiceStep ==
  /\ \/ ~ReceiveOnTop /\ serving /\ (AddService \/ RemoveService)
     \/ ~ReceiveOnTop /\ MethodStep
     \/ \E r \in Requests : TaskDue(r)
  /\ UNCHANGED serverVars

ServerNext ==
  /\ ~dangling /\ ~freedUsed
  /\ \/ \E s \in Sockets : ClientStep(s) \/ SocketStep(s)
     \/ ReceiveStep
     \/ ServiceStep
     \/ NotifyConnectedClients
     \/ ServerDestroyed

ServerSpec == ServerInit /\ [][ServerNext]_vars

Running == ~dangling /\ ~freedUsed

\* What the thread of the sockets has to do, its methods with the loops they
\* nest, and services with what they delay.
Due ==
  \/ \E s \in Sockets :
       ReadyRead(s) \/ ReadSilently(s) \/ ClientDisconnected(s) \/ DeferredDelete(s)
  \/ ReceiveStep
  \/ /\ \/ ~ReceiveOnTop /\ (MethodReturns \/ NestedLoopReturns)
        \/ \E r \in Requests : TaskDue(r)
     /\ UNCHANGED serverVars

\* The thread does not stop while there is something to do; in which order it
\* is done is left open, since each of these steps brings its end nearer.
ServerFairness == WF_vars(Running /\ Due)

FairServerSpec == ServerSpec /\ ServerFairness

-----------------------------------------------------------------------------
(* Properties. *)

\* The server's two tables agree and hold exactly the sockets that are alive
\* and not waiting to be deleted: no broadcast reaches a deleted socket and no
\* connection is lost from them.
TablesMatchSockets ==
  /\ clients = socketLookup
  /\ clients = {s \in Sockets : life[s] = "alive" /\ doomed[s] = 0}

\* No deleted socket is used by processMessage, by a receive loop or by a
\* broadcast, although clients leave at any time and deletion is deferred.
NoUseAfterFree == ~dangling /\ ~freedUsed

\* If services do not answer from other threads, a deleted socket is used only
\* by a receive loop, or the processMessage inside one, whose own client has
\* left while a method it called was in a nested event loop: no broadcast, no
\* answer that comes later and no other client's message ever reaches one.
OnlyOutlivedLoopsUseFreed ==
  NoUseAfterFree \/ \E s \in Sockets : Receives(s) /\ life[s] = "deleted"

ReadSilentlyOnly(s, r) == \E i \in DOMAIN silent[s] : silent[s][i].req = r

\* Every message is processed unless its connection ends first, or it arrives
\* while the socket is inside its own readyRead: then it waits for the next.
MessagesAreProcessed ==
  \A s \in Sockets, r \in Requests :
    sent[r] = s ~>
      \/ kind[r] # "none" \/ ReadSilentlyOnly(s, r)
      \/ conn[s] # "open" \/ life[s] = "deleted" \/ ~Running

\* Every Request is answered, unless its client leaves first or the service
\* emits a result() for it, which another answer may have disconnected.
CallsAreAnswered ==
  \A r \in Requests :
    kind[r] \in Calling ~>
      \/ from[r] # NoSocket /\ (answers[r][from[r]] > 0 \/ life[from[r]] = "deleted")
      \/ task[r] = "emitted" \/ ~Running

\* The socket of a client that has left is deleted.
LeftSocketsAreDeleted ==
  \A s \in Sockets : conn[s] = "closing" ~> life[s] = "deleted" \/ ~Running

\* The server drives its provider as the provider expects: every behaviour is
\* one of ProviderSpec.
ImplementsProvider == ProviderSpec
=============================================================================
