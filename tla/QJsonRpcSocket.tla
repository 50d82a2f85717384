--------------------------- MODULE QJsonRpcSocket ---------------------------
(***************************************************************************)
(* The calling side of QJsonRpcSocket (src/src/qjsonrpcsocket.cpp): the    *)
(* table `replies` of pending QJsonRpcServiceReply objects, asynchronous   *)
(* and blocking calls, the nested event loops of the blocking ones, their  *)
(* timers, and the loop of _q_processIncomingData that takes documents out *)
(* of the buffer and completes replies.                                    *)
(*                                                                         *)
(* Everything runs in one thread, on one C++ stack.  `stack` is the part   *)
(* of that stack the properties depend on, its top at the head: a "wait"   *)
(* frame is a sendMessageBlocking inside responseLoop.exec(), a "loop",    *)
(* "received" or "finished" frame is a _q_processIncomingData that is      *)
(* about to look at the buffer, inside the slots of messageReceived, or    *)
(* inside the slots of a reply's finished signal.  The empty stack is the  *)
(* main event loop.                                                        *)
(*                                                                         *)
(* The grain is one whole JSON document; how documents are cut out of the  *)
(* byte stream is the subject of module JsonFraming.                       *)
(***************************************************************************)
EXTENDS Naturals, Sequences

CONSTANTS
  Calls,          \* uses of sendMessage / sendMessageBlocking, one reply each
  Blocking,       \* the calls made with sendMessageBlocking
  Ids,            \* message ids, as QJsonRpcMessage::id() returns them
  IdOf,           \* IdOf[c]: the id of the message c sends; two calls with one
                  \* id are two sends of the same message
  PeerDocs,       \* documents the peer may send that answer no request in turn
  MaxExtra,       \* bound on how many of them it sends
  CallbacksBlock, \* whether slots called from _q_processIncomingData may call
                  \* sendMessageBlocking
  DeviceMayDie,   \* whether the application may destroy the QIODevice
  NoCall, NoId

AnswerDoc(i) == [kind |-> "answer", id |-> i]
OtherDocs == [kind : {"message", "array", "malformed"}, id : {NoId}]

\* The documents of a connection: an "answer" is a Response or an Error, a
\* "message" any other object (request, notification, invalid message), an
\* "array" a batch, "malformed" one that is balanced but does not parse.
Docs == {AnswerDoc(i) : i \in Ids} \cup OtherDocs

ASSUME ConstantsAssumption ==
  /\ Blocking \subseteq Calls
  /\ IdOf \in [Calls -> Ids]
  /\ PeerDocs \subseteq Docs
  /\ MaxExtra \in Nat
  /\ CallbacksBlock \in BOOLEAN
  /\ DeviceMayDie \in BOOLEAN
  /\ NoCall \notin Calls
  /\ NoId \notin Ids

VARIABLES
  replies,   \* QHash<int, QPointer<QJsonRpcServiceReply>>; NoCall: no entry
  reply,     \* reply[c]: life of the reply object: "none", "alive", "deleted"
  finished,  \* finished[c]: how often c's reply has emitted finished()
  result,    \* result[c]: what a blocking call returned: "none" while it has not
  quit,      \* blocking calls whose responseLoop has been told to quit
  stack,     \* the frames described above, innermost first
  buffer,    \* QJsonRpcSocketPrivate::buffer
  devbuf,    \* what the QIODevice has read but the socket has not
  device,    \* the QPointer to the device is not null
  crashed,   \* a null reply has been dereferenced
  wire,      \* documents the peer has written that the device has not read
  owed,      \* requests the peer has not answered yet
  extra      \* documents it has sent beyond its answers

socketVars == <<replies, reply, finished, result, quit, stack, buffer, crashed>>
peerVars == <<owed, extra>>
vars == <<socketVars, devbuf, device, wire, peerVars>>

WaitFrames == [at : {"wait"}, call : Blocking, id : {NoId}]
DispatchFrames == [at : {"loop", "received", "finished"}, call : {NoCall}, id : Ids \cup {NoId}]
Frames == WaitFrames \cup DispatchFrames

TypeOK ==
  /\ replies \in [Ids -> Calls \cup {NoCall}]
  /\ reply \in [Calls -> {"none", "alive", "deleted"}]
  /\ finished \in [Calls -> Nat]
  /\ result \in [Calls -> {"none", "answer", "timeout"}]
  /\ quit \subseteq Blocking
  /\ stack \in Seq(Frames)
  /\ buffer \in Seq(Docs)
  /\ devbuf \in Seq(Docs)
  /\ wire \in Seq(Docs)
  /\ device \in BOOLEAN
  /\ crashed \in BOOLEAN
  /\ owed \subseteq Calls
  /\ extra \in 0..MaxExtra

Init ==
  /\ replies = [i \in Ids |-> NoCall]
  /\ reply = [c \in Calls |-> "none"]
  /\ finished = [c \in Calls |-> 0]
  /\ result = [c \in Calls |-> "none"]
  /\ quit = {}
  /\ stack = <<>>
  /\ buffer = <<>> /\ devbuf = <<>> /\ wire = <<>>
  /\ device = TRUE /\ crashed = FALSE
  /\ owed = {} /\ extra = 0

-----------------------------------------------------------------------------
(* The C++ stack. *)

Frame(at, c, i) == [at |-> at, call |-> c, id |-> i]
Push(frame) == stack' = <<frame>> \o stack
Pop == stack' = Tail(stack)
Goto(at) == stack' = <<[Head(stack) EXCEPT !.at = at]>> \o Tail(stack)

At(at) == stack # <<>> /\ Head(stack).at = at

\* An event loop is what runs: it delivers timers and socket notifications.
EventLoopRunning == stack = <<>> \/ At("wait")

\* Application code may run: an event handler, or a slot of a signal that
\* _q_processIncomingData emits.
ApplicationRuns == EventLoopRunning \/ At("received") \/ At("finished")

NeverEmitting == FALSE   \* mutant: readyRead is emitted recursively
\* A _q_processIncomingData is suspended somewhere on the stack, so the device
\* is still inside the emission of its readyRead signal.
Emitting == \E i \in DOMAIN stack : stack[i].at # "wait"

Waiting(c) == \E i \in DOMAIN stack : stack[i].at = "wait" /\ stack[i].call = c

-----------------------------------------------------------------------------
(* Calls. *)

\* sendMessage with a device: the request is written, then a new reply takes
\* the table's entry for the message's id, whatever was there.
Register(c) ==
  /\ reply[c] = "none"
  /\ reply' = [reply EXCEPT ![c] = "alive"]
  /\ replies' = [replies EXCEPT ![IdOf[c]] = c]
  /\ owed' = owed \cup {c}

\* sendMessage.  (Without a device it returns 0 and changes nothing.)
SendMessage(c) ==
  /\ c \notin Blocking
  /\ ApplicationRuns
  /\ device
  /\ Register(c)
  /\ UNCHANGED <<finished, result, quit, stack, buffer, devbuf, device, crashed, wire, extra>>

\* sendMessageBlocking up to responseLoop.exec().  Without a device its reply
\* pointer is null and the loop is entered all the same.
SendMessageBlocking(c) ==
  /\ c \in Blocking
  /\ EventLoopRunning \/ CallbacksBlock
  /\ ApplicationRuns
  /\ result[c] = "none" /\ ~Waiting(c)
  /\ Push(Frame("wait", c, NoId))
  /\ IF device THEN Register(c) ELSE UNCHANGED <<reply, replies, owed>>
  /\ UNCHANGED <<finished, result, quit, buffer, devbuf, device, crashed, wire, extra>>

TimerDiesWithDevice(c) == device /\ c \notin quit   \* mutant
\* The single shot has not been made superfluous by an answer.
TimerDue(c) == c \notin quit

\* The single-shot timer of a blocking call: any running event loop of the
\* thread delivers it, and it tells its own responseLoop to quit.
RequestTimer(c) ==
  /\ EventLoopRunning
  /\ Waiting(c)
  /\ TimerDue(c)
  /\ quit' = quit \cup {c}
  /\ UNCHANGED <<replies, reply, finished, result, stack, buffer, devbuf, device, crashed, wire, owed, extra>>

ForgetNothing(c) == UNCHANGED replies                         \* mutant
\* replies.remove(message.id()), whichever call the entry belongs to now.
ForgetRequest(c) == replies' = [replies EXCEPT ![IdOf[c]] = NoCall]

ResponseUnchecked(c) == TRUE                                  \* mutant
\* reply->response().isValid(): the response is set where finished is emitted.
HasResponse(c) == finished[c] > 0

\* sendMessageBlocking after responseLoop.exec(), which returns only once
\* every loop nested in it has returned.  QScopedPointer deletes the reply.
BlockingCallReturns ==
  /\ At("wait")
  /\ LET c == Head(stack).call IN
       /\ c \in quit
       /\ IF reply[c] = "none"
          THEN crashed' = TRUE /\ UNCHANGED <<replies, reply, result, stack>>
          ELSE /\ IF HasResponse(c)
                  THEN /\ result' = [result EXCEPT ![c] = "answer"]
                       /\ UNCHANGED replies
                  ELSE /\ result' = [result EXCEPT ![c] = "timeout"]
                       /\ ForgetRequest(c)
               /\ reply' = [reply EXCEPT ![c] = "deleted"]
               /\ Pop
               /\ UNCHANGED crashed
  /\ UNCHANGED <<finished, quit, buffer, devbuf, device, wire, owed, extra>>

\* The application deletes the reply of an asynchronous call.  The table's
\* QPointer, if it still has one, becomes null.
DeleteReply(c) ==
  /\ c \notin Blocking
  /\ ApplicationRuns
  /\ reply[c] = "alive"
  /\ reply' = [reply EXCEPT ![c] = "deleted"]
  /\ UNCHANGED <<replies, finished, result, quit, stack, buffer, devbuf, device, crashed, wire, owed, extra>>

-----------------------------------------------------------------------------
(* Incoming data. *)

\* The device's socket notifier, outside any readyRead emission: readyRead is
\* emitted and _q_processIncomingData appends readAll() to its buffer.
ReadyRead ==
  /\ EventLoopRunning /\ ~Emitting
  /\ device
  /\ wire # <<>>
  /\ buffer' = buffer \o devbuf \o wire
  /\ devbuf' = <<>>
  /\ wire' = <<>>
  /\ Push(Frame("loop", NoCall, NoId))
  /\ UNCHANGED <<replies, reply, finished, result, quit, device, crashed, owed, extra>>

\* The same notifier in a loop nested inside the emission: the device reads,
\* but a QIODevice does not emit readyRead recursively.
ReadSilently ==
  /\ EventLoopRunning /\ Emitting
  /\ device
  /\ wire # <<>>
  /\ devbuf' = devbuf \o wire
  /\ wire' = <<>>
  /\ UNCHANGED <<replies, reply, finished, result, quit, stack, buffer, device, crashed, owed, extra>>

\* The while loop ends: the buffer is empty, or begins with a document that
\* does not parse, which stays where it is.
LoopEnds == buffer = <<>> \/ Head(buffer).kind = "malformed"

\* One turn of the while loop up to messageReceived; a batch is consumed and
\* ignored.
TakeDocument ==
  /\ At("loop")
  /\ IF LoopEnds
     THEN Pop /\ UNCHANGED buffer
     ELSE /\ buffer' = Tail(buffer)
          /\ IF Head(buffer).kind = "array"
             THEN UNCHANGED stack
             ELSE stack' = <<Frame("received", NoCall, Head(buffer).id)>> \o Tail(stack)
  /\ UNCHANGED <<replies, reply, finished, result, quit, devbuf, device, crashed, wire, owed, extra>>

EntryKept(i) == UNCHANGED replies        \* mutant: value() instead of take()
TakeEntry(i) == replies' = [replies EXCEPT ![i] = NoCall]

ReplyUnchecked(c) == TRUE                \* mutant: no isNull() test
ReplyExists(c) == reply[c] = "alive"

ReturnAfterFinished(c) ==                \* mutant: return for continue
  IF c \in Blocking THEN quit' = quit \cup {c} /\ Pop ELSE Goto("finished") /\ UNCHANGED quit
\* The slots of c's finished signal: a blocking call's only tells its loop to
\* quit, that of an asynchronous call runs the application's.
FinishedSlots(c) ==
  IF c \in Blocking
  THEN quit' = quit \cup {c} /\ Goto("loop")
  ELSE Goto("finished") /\ UNCHANGED quit

\* The rest of the turn, after the slots of messageReceived: an answer takes
\* its entry out of the table and completes the reply if that still exists.
\* Any other message goes to processRequestMessage, which does nothing on a
\* calling socket.
DispatchAnswer ==
  /\ At("received")
  /\ LET i == Head(stack).id IN
       IF i = NoId \/ replies[i] = NoCall
       THEN Goto("loop") /\ UNCHANGED <<replies, finished, quit>>
       ELSE LET c == replies[i] IN
              /\ TakeEntry(i)
              /\ IF ReplyExists(c)
                 THEN /\ finished' = [finished EXCEPT ![c] = @ + 1]
                      /\ FinishedSlots(c)
                 ELSE Goto("loop") /\ UNCHANGED <<finished, quit>>
  /\ UNCHANGED <<reply, result, buffer, devbuf, device, crashed, wire, owed, extra>>

\* The slots of an asynchronous reply's finished signal return to the loop.
FinishedReturns ==
  /\ At("finished")
  /\ Goto("loop")
  /\ UNCHANGED <<replies, reply, finished, result, quit, buffer, devbuf, device, crashed, wire, owed, extra>>

\* The application destroys the device; the socket's QPointer becomes null.
DeviceDestroyed ==
  /\ DeviceMayDie
  /\ EventLoopRunning /\ ~Emitting
  /\ device
  /\ device' = FALSE
  /\ devbuf' = <<>> /\ wire' = <<>>
  /\ UNCHANGED <<socketVars, peerVars>>

-----------------------------------------------------------------------------
(* The peer. *)

PeerAnswers(c) ==
  /\ device
  /\ c \in owed
  /\ owed' = owed \ {c}
  /\ wire' = Append(wire, AnswerDoc(IdOf[c]))
  /\ UNCHANGED <<socketVars, devbuf, device, extra>>

\* A duplicate or stray answer, a message of its own, a batch or garbage.
PeerSends(doc) ==
  /\ device
  /\ extra < MaxExtra
  /\ extra' = extra + 1
  /\ wire' = Append(wire, doc)
  /\ UNCHANGED <<socketVars, devbuf, device, owed>>

-----------------------------------------------------------------------------
CallStep(c) ==
  \/ SendMessage(c)
  \/ SendMessageBlocking(c)
  \/ RequestTimer(c)
  \/ DeleteReply(c)
  \/ PeerAnswers(c)

DataStep ==
  \/ ReadyRead
  \/ ReadSilently
  \/ TakeDocument
  \/ DispatchAnswer
  \/ FinishedReturns

Next ==
  /\ ~crashed
  /\ \/ \E c \in Calls : CallStep(c)
     \/ BlockingCallReturns
     \/ DataStep
     \/ DeviceDestroyed
     \/ \E doc \in PeerDocs : PeerSends(doc)

Spec == Init /\ [][Next]_vars

\* The thread keeps running: event loops deliver what is due, slots return.
ThreadFairness ==
  /\ \A c \in Calls : WF_vars(~crashed /\ RequestTimer(c))
  /\ WF_vars(~crashed /\ BlockingCallReturns)
  /\ WF_vars(~crashed /\ DataStep)

\* A peer that answers every request it has received.
AnsweringPeer == \A c \in Calls : WF_vars(~crashed /\ PeerAnswers(c))

FairSpec == Spec /\ ThreadFairness
LiveSpec == FairSpec /\ AnsweringPeer

-----------------------------------------------------------------------------
(* Properties. *)

\* No reply completes twice, however often and however late the peer answers
\* and however calls with one id overlap (the take() of _q_processIncomingData).
AtMostOneFinish == \A c \in Calls : finished[c] <= 1

Pending(c) == reply[c] = "alive" /\ finished[c] = 0
Twins(c) == {d \in Calls \ {c} : IdOf[d] = IdOf[c]}

\* A reply that is still to be completed can be found under its message's id,
\* unless another call has sent the same message: neither the timeout of a
\* blocking call nor a stray answer ever takes another call's entry.
OrphanHasTwin ==
  \A c \in Calls : Pending(c) /\ replies[IdOf[c]] # c =>
    \E d \in Twins(c) : reply[d] # "none"

\* When a blocking call has returned, no entry refers to its deleted reply: a
\* timed out request leaves nothing behind (replies.remove after the timeout).
NoEntryOutlivesBlockingCall ==
  \A i \in Ids : replies[i] \in Blocking => reply[replies[i]] = "alive"

\* A blocking call reports a timeout only if its reply was never completed,
\* also when its timer fires while a nested call keeps it from returning and
\* the answer arrives in between; and an answer only if it was.
TimeoutMeansUnanswered ==
  \A c \in Blocking : /\ result[c] = "timeout" => finished[c] = 0
                      /\ result[c] = "answer" => finished[c] = 1

\* A deleted reply is never written to: an answer that arrives after the
\* timeout, or after the owner dropped the reply, is discarded.
LateAnswerIsDropped ==
  [][\A c \in Calls : reply[c] = "deleted" => finished'[c] = finished[c]]_vars

\* A blocking call made from a slot that _q_processIncomingData calls is never
\* answered: no readyRead is emitted until the outer emission has returned.
CallsFromCallbacksStarve ==
  \A i, j \in DOMAIN stack :
    i < j /\ stack[i].at = "wait" /\ stack[j].at # "wait" =>
      finished[stack[i].call] = 0

\* Every blocking call returns, whatever the peer does: its timer fires, and
\* the calls nested in it return first.
BlockingCallsReturn ==
  \A c \in Blocking : Waiting(c) ~> (result[c] # "none" \/ crashed)

\* A blocking call waits inside a receive loop.
WaitsInLoop ==
  \E i, j \in DOMAIN stack : i < j /\ stack[i].at = "wait" /\ stack[j].at # "wait"

Wedged == buffer # <<>> /\ Head(buffer).kind = "malformed"

\* If the peer answers every request, then every asynchronous call that shares
\* its id with no other completes unless its owner deletes the reply: provided
\* that the device lives, that nothing comes that does not parse, and that no
\* slot makes a blocking call inside _q_processIncomingData.
AnsweredCallsFinish ==
  [](device /\ ~Wedged /\ ~WaitsInLoop) =>
    \A c \in Calls \ Blocking :
      Twins(c) = {} => (reply[c] = "alive" ~> finished[c] > 0 \/ reply[c] = "deleted")

\* The outcome of each call, as the abstract specification sees it.
OutcomeOf(c) ==
  CASE reply[c] = "none" -> "idle"
    [] reply[c] # "none" /\ finished[c] > 0 -> "answered"
    [] reply[c] = "alive" /\ finished[c] = 0 -> "pending"
    [] reply[c] = "deleted" /\ finished[c] = 0 ->
         IF c \in Blocking THEN "timedOut" ELSE "abandoned"

outcome == [c \in Calls |-> OutcomeOf(c)]

RpcCalls == INSTANCE RpcCall WITH call <- outcome

\* Every behaviour of the socket is a behaviour of RpcCall: calls end at most
\* once and how they ended never changes.
ImplementsRpcCall == RpcCalls!Spec
=============================================================================
