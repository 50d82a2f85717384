---------------------- MODULE QJsonRpcHttpClient_proof ----------------------
(***************************************************************************)
(* Proofs about module QJsonRpcHttpClient, for every set of calls and      *)
(* every depth of nested event loops.                                      *)
(***************************************************************************)
EXTENDS QJsonRpcHttpClient, TLAPS

-----------------------------------------------------------------------------
(* The inductive invariant. *)

StackType == stack \in Seq(Frames)

DataType ==
  /\ client \in BOOLEAN /\ wrecked \in BOOLEAN
  /\ reply \in [Calls -> {"none", "alive", "deleted"}]
  /\ network \in [Calls -> {"none", "running", "failed", "finished", "doomed", "deleted"}]
  /\ failed \subseteq Calls
  /\ response \in [Calls -> Objects \cup {"none", "error"}]
  /\ finished \in [Calls -> 0..1]
  /\ quit \subseteq Blocking
  /\ result \in [Calls -> {"none", "answer", "timeout"}]

\* What the state of one call's network reply says of the rest of the call:
\* nothing is stored before the network reply reports something, finished is
\* emitted only by the step that dooms it, and a blocking call that has
\* returned has deleted its reply.
CallSane(c) ==
  /\ reply[c] = "none" <=> network[c] = "none"
  /\ network[c] \in {"none", "running"} => response[c] = "none"
  /\ network[c] \in {"none", "running", "failed"} => finished[c] = 0
  /\ result[c] # "none" => reply[c] = "deleted"
  /\ result[c] = "timeout" => ~HasResponse(c)

Sane == \A c \in Calls : CallSane(c)

\* networkReplyFinished is in the slots of messageReceived: the call has
\* neither a response nor a finished, and its network reply will report no more.
InSlots(c) ==
  /\ network[c] = "finished" /\ response[c] = "none"
  /\ finished[c] = 0 /\ reply[c] # "none"

\* So is every frame that says so, and no call is in them twice; only blocking
\* calls wait.
FramesSane ==
  \A i \in DOMAIN stack :
    /\ stack[i].at = "received" => stack[i].body \in Objects /\ InSlots(stack[i].call)
    /\ stack[i].at = "wait" => stack[i].call \in Blocking

ReceivedOnce ==
  \A i, j \in DOMAIN stack :
    stack[i].at = "received" /\ stack[j].at = "received" /\ stack[i].call = stack[j].call => i = j

IInv == StackType /\ DataType /\ Sane /\ FramesSane /\ ReceivedOnce

LEMMA TypeParts == ClientTypeOK <=> StackType /\ DataType
  BY DEF ClientTypeOK, StackType, DataType

-----------------------------------------------------------------------------
(* The stack. *)

LEMMA PushFrame ==
  ASSUME stack \in Seq(Frames), NEW f \in Frames, stack' = <<f>> \o stack
  PROVE  /\ stack' \in Seq(Frames) /\ stack' # <<>>
         /\ \A i \in DOMAIN stack' :
              (i = 1 /\ stack'[i] = f) \/ (i > 1 /\ i - 1 \in DOMAIN stack /\ stack'[i] = stack[i - 1])
  OBVIOUS

LEMMA PopFrame ==
  ASSUME stack \in Seq(Frames), stack # <<>>, stack' = Tail(stack)
  PROVE  /\ stack' \in Seq(Frames)
         /\ \A i \in DOMAIN stack' : i + 1 \in DOMAIN stack /\ i + 1 > 1 /\ stack'[i] = stack[i + 1]
  OBVIOUS

LEMMA FrameType ==
  ASSUME NEW at \in {"wait", "received", "failing", "finished"}, NEW c \in Calls,
         NEW body \in Objects \cup {NoBody}
  PROVE  /\ Frame(at, c, body) \in Frames /\ Frame(at, c, body).at = at
         /\ Frame(at, c, body).call = c /\ Frame(at, c, body).body = body
  BY DEF Frame, Frames

LEMMA FrameAt ==
  ASSUME StackType, NEW i \in DOMAIN stack
  PROVE  stack[i].call \in Calls /\ i \in Nat
<1>1. stack[i] \in Frames /\ i \in Nat
  BY DEF StackType
<1>. QED  BY <1>1 DEF Frames

LEMMA TopFrame ==
  ASSUME StackType, stack # <<>>
  PROVE  1 \in DOMAIN stack /\ Head(stack) = stack[1] /\ Head(stack).call \in Calls
<1>1. 1 \in DOMAIN stack /\ Head(stack) = stack[1]
  BY DEF StackType
<1>. QED  BY <1>1, FrameAt

\* A step that takes no call out of the slots of messageReceived keeps what is
\* known of the frames, whether it leaves the stack alone, ...
SlotsKept == \A c \in Calls : InSlots(c) => InSlots(c)'

LEMMA SameStack ==
  ASSUME IInv, SlotsKept, UNCHANGED stack
  PROVE  StackType' /\ FramesSane' /\ ReceivedOnce'
<1>1. FramesSane'
  <2>. SUFFICES ASSUME NEW i \in DOMAIN stack, NEW c, c = stack[i].call
                PROVE  /\ stack[i].at = "received" => stack[i].body \in Objects /\ InSlots(c)'
                       /\ stack[i].at = "wait" => c \in Blocking
    BY DEF FramesSane, InSlots
  <2>. QED  BY FrameAt DEF IInv, SlotsKept, FramesSane
<1>. QED  BY <1>1 DEF IInv, StackType, ReceivedOnce

\* ... pushes a frame of another kind, ...
LEMMA PushOther ==
  ASSUME IInv, SlotsKept, NEW f \in Frames, stack' = <<f>> \o stack,
         f.at # "received", f.at = "wait" => f.call \in Blocking
  PROVE  StackType' /\ FramesSane' /\ ReceivedOnce'
<1>1. StackType'
  BY PushFrame DEF IInv, StackType
<1>2. ASSUME NEW i \in DOMAIN stack', stack'[i].at = "received"
      PROVE  i - 1 \in DOMAIN stack /\ stack'[i] = stack[i - 1] /\ i \in Nat
  BY <1>2, <1>1, PushFrame DEF IInv, StackType
<1>3. FramesSane'
  <2>. SUFFICES ASSUME NEW i \in DOMAIN stack', NEW c, c = stack'[i].call
                PROVE  /\ stack'[i].at = "received" => stack'[i].body \in Objects /\ InSlots(c)'
                       /\ stack'[i].at = "wait" => c \in Blocking
    BY DEF FramesSane, InSlots
  <2>1. CASE stack'[i] = f
    BY <2>1
  <2>2. CASE i - 1 \in DOMAIN stack /\ stack'[i] = stack[i - 1]
    BY <2>2, FrameAt DEF IInv, SlotsKept, FramesSane
  <2>. QED  BY <2>1, <2>2, PushFrame DEF IInv, StackType
<1>4. ReceivedOnce'
  <2>. SUFFICES ASSUME NEW i \in DOMAIN stack', NEW j \in DOMAIN stack',
                       stack'[i].at = "received", stack'[j].at = "received",
                       stack'[i].call = stack'[j].call
                PROVE  i = j
    BY DEF ReceivedOnce
  <2>1. i - 1 = j - 1
    BY <1>2 DEF IInv, ReceivedOnce
  <2>. QED  BY <1>2, <2>1
<1>. QED  BY <1>1, <1>3, <1>4

\* ... or pops one.
LEMMA PopAny ==
  ASSUME IInv, stack # <<>>, stack' = Tail(stack)
  PROVE  /\ StackType' /\ ReceivedOnce'
         /\ \A i \in DOMAIN stack' : i + 1 \in DOMAIN stack /\ i + 1 > 1 /\ stack'[i] = stack[i + 1]
         /\ SlotsKept => FramesSane'
<1>1. StackType' /\ \A i \in DOMAIN stack' : i + 1 \in DOMAIN stack /\ i + 1 > 1 /\ stack'[i] = stack[i + 1]
  BY PopFrame DEF IInv, StackType
<1>2. \A i \in DOMAIN stack' : i \in Nat
  BY <1>1 DEF StackType
<1>3. ReceivedOnce'
  <2>. SUFFICES ASSUME NEW i \in DOMAIN stack', NEW j \in DOMAIN stack',
                       stack'[i].at = "received", stack'[j].at = "received",
                       stack'[i].call = stack'[j].call
                PROVE  i = j
    BY DEF ReceivedOnce
  <2>1. i + 1 = j + 1
    BY <1>1 DEF IInv, ReceivedOnce
  <2>. QED  BY <1>2, <2>1
<1>4. ASSUME SlotsKept PROVE FramesSane'
  <2>. SUFFICES ASSUME NEW i \in DOMAIN stack', NEW c, c = stack'[i].call
                PROVE  /\ stack'[i].at = "received" => stack'[i].body \in Objects /\ InSlots(c)'
                       /\ stack'[i].at = "wait" => c \in Blocking
    BY DEF FramesSane, InSlots
  <2>. QED  BY <1>1, <1>4, FrameAt DEF IInv, SlotsKept, FramesSane
<1>. QED  BY <1>1, <1>3, <1>4

-----------------------------------------------------------------------------
(* The invariant holds initially and is kept by every step. *)

LEMMA InitIInv == Init => IInv
<1>. SUFFICES ASSUME Init PROVE IInv
  OBVIOUS
<1>1. StackType /\ FramesSane /\ ReceivedOnce
  BY DEF Init, StackType, FramesSane, ReceivedOnce
<1>2. DataType
  <2>1. /\ reply = [c \in Calls |-> "none"] /\ network = [c \in Calls |-> "none"]
        /\ response = [c \in Calls |-> "none"] /\ result = [c \in Calls |-> "none"]
    BY DEF Init
  <2>2. client \in BOOLEAN /\ wrecked \in BOOLEAN
    BY DEF Init
  <2>3. finished \in [Calls -> 0..1]
    BY DEF Init
  <2>4. failed \subseteq Calls /\ quit \subseteq Blocking
    BY DEF Init
  <2>. QED  BY <2>1, <2>2, <2>3, <2>4 DEF DataType
<1>3. Sane
  BY DEF Init, Sane, CallSane, HasResponse, Messages
<1>. QED  BY <1>1, <1>2, <1>3 DEF IInv

\* The calls a step does not touch.
LEMMA OtherCall ==
  ASSUME NEW d \in Calls, reply'[d] = reply[d], network'[d] = network[d],
         response'[d] = response[d], finished'[d] = finished[d], result'[d] = result[d]
  PROVE  (CallSane(d) => CallSane(d)') /\ (InSlots(d) => InSlots(d)')
  BY DEF CallSane, InSlots, HasResponse

\* Post, the only step that makes a reply.
LEMMA PostKeeps ==
  ASSUME DataType, Sane, NEW c \in Calls, Post(c),
         UNCHANGED <<client, failed, response, finished, quit, result, wrecked>>
  PROVE  DataType' /\ Sane' /\ SlotsKept
<1>1. DataType'
  BY DEF DataType, Post
<1>2. CallSane(c)' /\ ~InSlots(c)
  BY DEF DataType, Post, Sane, CallSane, HasResponse, Messages, InSlots
<1>3. \A d \in Calls \ {c} : reply'[d] = reply[d] /\ network'[d] = network[d]
  BY DEF DataType, Post
<1>. QED  BY <1>1, <1>2, <1>3, OtherCall DEF Sane, SlotsKept

LEMMA SendMessageKeeps ==
  ASSUME IInv, NEW c \in Calls, SendMessage(c)
  PROVE  IInv'
  BY PostKeeps, SameStack DEF SendMessage, IInv

LEMMA SendMessageBlockingKeeps ==
  ASSUME IInv, NEW c \in Calls, NEW hasEndPoint \in BOOLEAN, SendMessageBlocking(c, hasEndPoint)
  PROVE  IInv'
<1>1. DataType' /\ Sane' /\ SlotsKept
  <2>1. CASE hasEndPoint
    BY <2>1, PostKeeps DEF SendMessageBlocking, IInv
  <2>2. CASE ~hasEndPoint
    BY <2>2 DEF SendMessageBlocking, IInv, DataType, Sane, SlotsKept, CallSane, InSlots, HasResponse
  <2>. QED  BY <2>1, <2>2
<1>2. /\ Frame("wait", c, NoBody) \in Frames /\ Frame("wait", c, NoBody).at # "received"
      /\ Frame("wait", c, NoBody).call = c /\ c \in Blocking
      /\ stack' = <<Frame("wait", c, NoBody)>> \o stack
  BY FrameType DEF SendMessageBlocking, Push
<1>. QED  BY <1>1, <1>2, PushOther DEF IInv

LEMMA RequestTimerKeeps ==
  ASSUME IInv, NEW c \in Calls, RequestTimer(c)
  PROVE  IInv'
<1>1. c \in Blocking
  BY DEF RequestTimer, Waiting, IInv, FramesSane
<1>2. DataType'
  BY <1>1 DEF RequestTimer, IInv, DataType
<1>3. Sane' /\ SlotsKept
  BY OtherCall DEF RequestTimer, IInv, Sane, SlotsKept
<1>. QED  BY <1>2, <1>3, SameStack DEF RequestTimer, IInv

\* What has become of a reply, by its deletion.
LEMMA DeleteKeeps ==
  ASSUME IInv, NEW c \in Calls, reply[c] = "alive",
         reply' = [reply EXCEPT ![c] = "deleted"],
         \/ UNCHANGED result
         \/ result' = [result EXCEPT ![c] = IF HasResponse(c) THEN "answer" ELSE "timeout"],
         UNCHANGED <<client, network, failed, response, finished, quit, wrecked>>
  PROVE  DataType' /\ Sane' /\ SlotsKept
<1>1. DataType'
  BY DEF IInv, DataType
<1>2. CallSane(c)' /\ (InSlots(c) => InSlots(c)')
  BY DEF IInv, DataType, Sane, CallSane, HasResponse, InSlots
<1>3. \A d \in Calls \ {c} : reply'[d] = reply[d] /\ result'[d] = result[d]
  BY DEF IInv, DataType
<1>. QED  BY <1>1, <1>2, <1>3, OtherCall DEF IInv, Sane, SlotsKept

LEMMA DeleteReplyKeeps ==
  ASSUME IInv, NEW c \in Calls, DeleteReply(c)
  PROVE  IInv'
<1>1. DataType' /\ Sane' /\ SlotsKept
  BY DeleteKeeps DEF DeleteReply
<1>. QED  BY <1>1, SameStack DEF DeleteReply, IInv

LEMMA BlockingCallReturnsKeeps ==
  ASSUME IInv, BlockingCallReturns
  PROVE  IInv'
<1>1. stack # <<>> /\ \E c \in Calls : c = Head(stack).call
  BY TopFrame DEF IInv, BlockingCallReturns, At
<1>. PICK c \in Calls : c = Head(stack).call
  BY <1>1
<1>2. CASE reply[c] # "alive"
  <2>1. DataType'
    BY <1>2 DEF BlockingCallReturns, IInv, DataType
  <2>2. Sane' /\ SlotsKept
    BY <1>2, OtherCall DEF BlockingCallReturns, IInv, Sane, SlotsKept
  <2>. QED  BY <1>2, <2>1, <2>2, SameStack DEF BlockingCallReturns, IInv
<1>3. CASE reply[c] = "alive"
  <2>1. DataType' /\ Sane' /\ SlotsKept
    BY <1>1, <1>3, DeleteKeeps DEF BlockingCallReturns
  <2>2. stack' = Tail(stack)
    BY <1>3 DEF BlockingCallReturns, Pop
  <2>. QED  BY <1>1, <2>1, <2>2, PopAny DEF IInv
<1>. QED  BY <1>2, <1>3

LEMMA ClientDestroyedKeeps ==
  ASSUME IInv, ClientDestroyed
  PROVE  IInv'
<1>1. \A d \in Calls : /\ network'[d] = "none" <=> network[d] = "none"
                       /\ network'[d] \in {network[d], "deleted"}
  BY DEF IInv, DataType, ClientDestroyed
<1>2. DataType'
  BY DEF IInv, DataType, ClientDestroyed
<1>3. ASSUME NEW d \in Calls PROVE CallSane(d)'
  <2>1. CallSane(d)
    BY DEF IInv, Sane
  <2>. QED  BY <1>1, <2>1 DEF CallSane, HasResponse, ClientDestroyed
<1>4. StackType' /\ FramesSane' /\ ReceivedOnce'
  BY DEF IInv, StackType, FramesSane, ReceivedOnce, ClientDestroyed
<1>. QED  BY <1>2, <1>3, <1>4 DEF IInv, Sane

\* Complete, in the steps of a call whose reply exists and whose network reply
\* has not been finished with.
LEMMA CompleteData ==
  ASSUME DataType, NEW c \in Calls, finished[c] = 0, NEW rest, Complete(c, rest)
  PROVE  /\ network' \in [Calls -> {"none", "running", "failed", "finished", "doomed", "deleted"}]
         /\ network'[c] = "doomed"
         /\ finished' \in [Calls -> 0..1]
         /\ quit' \subseteq Blocking
         /\ \A d \in Calls \ {c} : network'[d] = network[d] /\ finished'[d] = finished[d]
<1>1. finished' = [finished EXCEPT ![c] = 1]
  BY DEF DataType, Complete
<1>. QED  BY <1>1 DEF DataType, Complete

LEMMA NetworkReplyErrorKeeps ==
  ASSUME IInv, NEW c \in Calls, NEW body \in Bodies, NetworkReplyError(c, body)
  PROVE  IInv'
<1>1. FailureResponse(body) \in Objects \cup {"error"}
  BY DEF FailureResponse, Bodies, Objects
<1>2. DataType'
  BY <1>1 DEF IInv, DataType, NetworkReplyError
<1>3. CallSane(c)' /\ ~InSlots(c)
  BY DEF IInv, DataType, Sane, CallSane, InSlots, HasResponse, NetworkReplyError
<1>4. \A d \in Calls \ {c} : network'[d] = network[d] /\ response'[d] = response[d]
  BY DEF IInv, DataType, NetworkReplyError
<1>5. Sane' /\ SlotsKept
  BY <1>3, <1>4, OtherCall DEF IInv, Sane, SlotsKept, NetworkReplyError
<1>6. CASE UNCHANGED stack
  BY <1>2, <1>5, <1>6, SameStack DEF IInv
<1>7. CASE ~UNCHANGED stack
  <2>1. body \in Messages /\ Push(Frame("failing", c, body))
    BY <1>7 DEF NetworkReplyError
  <2>2. /\ Frame("failing", c, body) \in Frames /\ Frame("failing", c, body).at = "failing"
        /\ stack' = <<Frame("failing", c, body)>> \o stack
    BY <2>1, FrameType DEF Push, Objects
  <2>. QED  BY <1>2, <1>5, <2>2, PushOther DEF IInv
<1>. QED  BY <1>6, <1>7

\* What Complete does to the stack.
LEMMA CompleteStack ==
  ASSUME NEW c \in Calls, NEW rest \in Seq(Frames), Complete(c, rest)
  PROVE  \/ stack' = rest
         \/ /\ stack' = <<Frame("finished", c, NoBody)>> \o rest
            /\ Frame("finished", c, NoBody) \in Frames
            /\ Frame("finished", c, NoBody).at = "finished"
  BY FrameType DEF Complete

LEMMA FinishedReceived ==
  ASSUME IInv, NEW c \in Calls, NEW body \in Objects, network[c] = "running",
         reply[c] # "none", network' = [network EXCEPT ![c] = "finished"],
         Push(Frame("received", c, body)),
         UNCHANGED <<client, reply, failed, response, finished, quit, result, wrecked>>
  PROVE  IInv'
<1>. DEFINE f == Frame("received", c, body)
<1>1. DataType'
  BY DEF IInv, DataType
<1>2. CallSane(c)' /\ ~InSlots(c) /\ InSlots(c)'
  BY DEF IInv, DataType, Sane, CallSane, InSlots, HasResponse
<1>3. \A d \in Calls \ {c} : network'[d] = network[d]
  BY DEF IInv, DataType
<1>4. Sane' /\ SlotsKept
  BY <1>2, <1>3, OtherCall DEF IInv, Sane, SlotsKept
<1>5. f \in Frames /\ f.at = "received" /\ f.call = c /\ f.body = body /\ stack' = <<f>> \o stack
  BY FrameType DEF Push
<1>. HIDE DEF f
<1>6. /\ StackType'
      /\ \A i \in DOMAIN stack' :
           (i = 1 /\ stack'[i] = f) \/ (i > 1 /\ i - 1 \in DOMAIN stack /\ stack'[i] = stack[i - 1])
  BY <1>5, PushFrame DEF IInv, StackType
<1>7. \A i \in DOMAIN stack' : i \in Nat
  BY <1>6 DEF StackType
<1>8. \A i \in DOMAIN stack : stack[i].at = "received" => stack[i].call # c
  BY <1>2 DEF IInv, FramesSane
<1>9. FramesSane'
  <2>. SUFFICES ASSUME NEW i \in DOMAIN stack', NEW d, d = stack'[i].call
                PROVE  /\ stack'[i].at = "received" => stack'[i].body \in Objects /\ InSlots(d)'
                       /\ stack'[i].at = "wait" => d \in Blocking
    BY DEF FramesSane, InSlots
  <2>1. CASE stack'[i] = f
    BY <1>2, <1>5, <2>1
  <2>2. CASE i - 1 \in DOMAIN stack /\ stack'[i] = stack[i - 1]
    BY <1>4, <2>2, FrameAt DEF IInv, SlotsKept, FramesSane
  <2>. QED  BY <1>6, <2>1, <2>2
<1>10. ReceivedOnce'
  <2>. SUFFICES ASSUME NEW i \in DOMAIN stack', NEW j \in DOMAIN stack',
                       stack'[i].at = "received", stack'[j].at = "received",
                       stack'[i].call = stack'[j].call
                PROVE  i = j
    BY DEF ReceivedOnce
  <2>1. CASE i > 1 /\ j > 1
    <3>1. i - 1 = j - 1
      BY <1>6, <2>1 DEF IInv, ReceivedOnce
    <3>. QED  BY <1>7, <3>1
  <2>2. CASE i = 1 /\ j > 1
    BY <1>5, <1>6, <1>8, <2>2
  <2>3. CASE i > 1 /\ j = 1
    BY <1>5, <1>6, <1>8, <2>3
  <2>. QED  BY <1>6, <2>1, <2>2, <2>3
<1>. QED  BY <1>1, <1>4, <1>6, <1>9, <1>10 DEF IInv

LEMMA NetworkReplyFinishedKeeps ==
  ASSUME IInv, NEW c \in Calls, NEW body \in Bodies, NetworkReplyFinished(c, body)
  PROVE  IInv'
<1>1. network[c] \in {"running", "failed"} /\ finished[c] = 0 /\ ~InSlots(c)
  BY DEF NetworkReplyFinished, IInv, Sane, CallSane, InSlots
<1>2. CASE reply[c] # "alive"
  <2>1. DataType'
    BY <1>2 DEF NetworkReplyFinished, IInv, DataType
  <2>2. CallSane(c)'
    BY <1>1, <1>2 DEF NetworkReplyFinished, IInv, DataType, Sane, CallSane, HasResponse
  <2>3. \A d \in Calls \ {c} : network'[d] = network[d]
    BY <1>2 DEF NetworkReplyFinished, IInv, DataType
  <2>4. Sane' /\ SlotsKept
    BY <1>1, <1>2, <2>2, <2>3, OtherCall DEF NetworkReplyFinished, IInv, Sane, SlotsKept
  <2>. QED  BY <1>2, <2>1, <2>4, SameStack DEF NetworkReplyFinished, IInv
<1>3. CASE reply[c] = "alive" /\ Complete(c, stack)
             /\ (UNCHANGED response \/ response' = [response EXCEPT ![c] = "error"])
  <2>1. DataType' /\ network'[c] = "doomed"
        /\ \A d \in Calls \ {c} : network'[d] = network[d] /\ finished'[d] = finished[d]
    BY <1>1, <1>3, CompleteData DEF NetworkReplyFinished, IInv, DataType
  <2>2. CallSane(c)'
    BY <1>1, <1>3, <2>1 DEF NetworkReplyFinished, IInv, DataType, Sane, CallSane, HasResponse
  <2>3. \A d \in Calls \ {c} : response'[d] = response[d]
    BY <1>3 DEF IInv, DataType
  <2>4. Sane' /\ SlotsKept
    BY <1>1, <2>1, <2>2, <2>3, OtherCall DEF NetworkReplyFinished, IInv, Sane, SlotsKept
  <2>5. CASE UNCHANGED stack
    BY <2>1, <2>4, <2>5, SameStack DEF IInv
  <2>6. CASE ~UNCHANGED stack
    BY <1>3, <2>1, <2>4, <2>6, CompleteStack, PushOther DEF IInv, StackType
  <2>. QED  BY <2>5, <2>6
<1>4. CASE /\ reply[c] = "alive" /\ ~HasError(c) /\ body # "garbage"
  <2>1. network[c] = "running" /\ body \in Objects
    BY <1>1, <1>4 DEF HasError, Bodies
  <2>. QED  BY <1>4, <2>1, FinishedReceived DEF NetworkReplyFinished
<1>. QED  BY <1>2, <1>3, <1>4 DEF NetworkReplyFinished

\* networkReplyFinished comes back from the slots of messageReceived: every
\* other frame stays, moved by one place or not.
LEMMA ReplaceTop ==
  ASSUME IInv, stack # <<>>, NEW c \in Calls, Complete(c, Tail(stack))
  PROVE  /\ StackType'
         /\ \A i \in DOMAIN stack' :
              \/ stack'[i] = Frame("finished", c, NoBody)
              \/ \E j \in DOMAIN stack : j # 1 /\ stack'[i] = stack[j]
         /\ ReceivedOnce'
<1>. DEFINE rest == Tail(stack)
            f == Frame("finished", c, NoBody)
<1>1. rest \in Seq(Frames)
  BY DEF IInv, StackType
<1>2. f \in Frames /\ f.at = "finished"
  BY FrameType
<1>3. CASE stack' = rest
  <2>1. /\ StackType' /\ ReceivedOnce'
        /\ \A i \in DOMAIN stack' : i + 1 \in DOMAIN stack /\ i + 1 > 1 /\ stack'[i] = stack[i + 1]
    BY <1>3, PopAny
  <2>2. \A i \in DOMAIN stack' : i + 1 # 1
    BY <2>1
  <2>. QED  BY <2>1, <2>2
<1>4. CASE stack' = <<f>> \o rest
  <2>. HIDE DEF f
  <2>1. /\ StackType'
        /\ \A i \in DOMAIN stack' :
             \/ stack'[i] = f
             \/ i # 1 /\ i \in DOMAIN stack /\ stack'[i] = stack[i]
    BY <1>1, <1>2, <1>4 DEF IInv, StackType
  <2>2. ReceivedOnce'
    <3>. SUFFICES ASSUME NEW i \in DOMAIN stack', NEW j \in DOMAIN stack',
                         stack'[i].at = "received", stack'[j].at = "received",
                         stack'[i].call = stack'[j].call
                  PROVE  i = j
      BY DEF ReceivedOnce
    <3>. QED  BY <1>2, <2>1 DEF IInv, ReceivedOnce
  <2>. QED  BY <2>1, <2>2 DEF f
<1>. QED  BY <1>3, <1>4 DEF Complete

LEMMA ReceivedReturnsKeeps ==
  ASSUME IInv, ReceivedReturns
  PROVE  IInv'
<1>1. PICK c \in Calls : c = Head(stack).call
  BY TopFrame DEF IInv, ReceivedReturns, At
<1>2. PICK body : body = Head(stack).body
  OBVIOUS
<1>3. /\ stack # <<>> /\ 1 \in DOMAIN stack
      /\ stack[1].at = "received" /\ stack[1].call = c /\ stack[1].body = body
  BY <1>1, <1>2, TopFrame DEF IInv, ReceivedReturns, At
<1>4. InSlots(c) /\ body \in Objects
  BY <1>3 DEF IInv, FramesSane
<1>5. CASE reply[c] = "deleted"
  <2>1. DataType'
    BY <1>1, <1>5 DEF ReceivedReturns, IInv, DataType
  <2>2. Sane' /\ SlotsKept
    BY <1>1, <1>5, OtherCall DEF ReceivedReturns, IInv, Sane, SlotsKept
  <2>. QED  BY <1>1, <1>5, <2>1, <2>2, SameStack DEF ReceivedReturns, IInv
<1>6. CASE reply[c] # "deleted"
  <2>1. /\ response' = [response EXCEPT ![c] = ResponseFrom(c, body)]
        /\ Complete(c, Tail(stack))
        /\ UNCHANGED <<client, reply, failed, result, wrecked>>
    BY <1>1, <1>2, <1>6 DEF ReceivedReturns
  <2>2. ResponseFrom(c, body) \in Objects \cup {"error"}
    BY <1>4 DEF ResponseFrom
  <2>3. /\ network' \in [Calls -> {"none", "running", "failed", "finished", "doomed", "deleted"}]
        /\ network'[c] = "doomed"
        /\ finished' \in [Calls -> 0..1]
        /\ quit' \subseteq Blocking
        /\ \A d \in Calls \ {c} : network'[d] = network[d] /\ finished'[d] = finished[d]
    BY <1>4, <2>1, CompleteData DEF InSlots, IInv
  <2>4. DataType'
    BY <2>1, <2>2, <2>3 DEF IInv, DataType
  <2>5. CallSane(c)'
    <3>1. result[c] = "none" /\ result'[c] = "none"
      BY <1>4, <1>6, <2>1 DEF IInv, DataType, Sane, CallSane
    <3>. QED  BY <1>4, <2>1, <2>3, <3>1 DEF CallSane, InSlots
  <2>6. \A d \in Calls \ {c} : response'[d] = response[d]
    BY <2>1 DEF IInv, DataType
  <2>7. Sane' /\ \A d \in Calls \ {c} : InSlots(d) => InSlots(d)'
    BY <2>1, <2>3, <2>5, <2>6, OtherCall DEF IInv, Sane
  <2>8. /\ StackType' /\ ReceivedOnce'
        /\ \A i \in DOMAIN stack' :
              \/ stack'[i] = Frame("finished", c, NoBody)
              \/ \E j \in DOMAIN stack : j # 1 /\ stack'[i] = stack[j]
    BY <1>3, <2>1, ReplaceTop
  <2>9. \A j \in DOMAIN stack : j # 1 /\ stack[j].at = "received" => stack[j].call \in Calls \ {c}
    BY <1>3, FrameAt DEF IInv, ReceivedOnce
  <2>10. FramesSane'
    <3>. SUFFICES ASSUME NEW i \in DOMAIN stack', NEW d, d = stack'[i].call
                  PROVE  /\ stack'[i].at = "received" => stack'[i].body \in Objects /\ InSlots(d)'
                         /\ stack'[i].at = "wait" => d \in Blocking
      BY DEF FramesSane, InSlots
    <3>1. CASE stack'[i] = Frame("finished", c, NoBody)
      BY <3>1, FrameType
    <3>2. ASSUME NEW j \in DOMAIN stack, j # 1, stack'[i] = stack[j]
          PROVE  /\ stack'[i].at = "received" => stack'[i].body \in Objects /\ InSlots(d)'
                 /\ stack'[i].at = "wait" => d \in Blocking
      BY <2>7, <2>9, <3>2 DEF IInv, FramesSane
    <3>. QED  BY <2>8, <3>1, <3>2
  <2>. QED  BY <2>4, <2>7, <2>8, <2>10 DEF IInv
<1>. QED  BY <1>5, <1>6

LEMMA SlotsReturnKeeps ==
  ASSUME IInv, SlotsReturn
  PROVE  IInv'
<1>1. stack # <<>> /\ stack' = Tail(stack)
  BY DEF SlotsReturn, At, Pop
<1>2. DataType'
  BY DEF SlotsReturn, IInv, DataType
<1>3. Sane' /\ SlotsKept
  BY OtherCall DEF SlotsReturn, IInv, Sane, SlotsKept
<1>. QED  BY <1>1, <1>2, <1>3, PopAny DEF IInv

LEMMA NetworkReplyDeletedKeeps ==
  ASSUME IInv, NEW c \in Calls, NetworkReplyDeleted(c)
  PROVE  IInv'
<1>1. DataType'
  BY DEF NetworkReplyDeleted, IInv, DataType
<1>2. CallSane(c)' /\ ~InSlots(c)
  BY DEF NetworkReplyDeleted, IInv, DataType, Sane, CallSane, HasResponse, InSlots
<1>3. \A d \in Calls \ {c} : network'[d] = network[d]
  BY DEF NetworkReplyDeleted, IInv, DataType
<1>4. Sane' /\ SlotsKept
  BY <1>2, <1>3, OtherCall DEF NetworkReplyDeleted, IInv, Sane, SlotsKept
<1>. QED  BY <1>1, <1>4, SameStack DEF NetworkReplyDeleted, IInv

LEMMA StutterKeeps ==
  ASSUME IInv, UNCHANGED vars
  PROVE  IInv'
<1>1. DataType'
  BY DEF vars, IInv, DataType
<1>2. Sane' /\ SlotsKept
  BY OtherCall DEF vars, IInv, Sane, SlotsKept
<1>. QED  BY <1>1, <1>2, SameStack DEF vars, IInv

LEMMA NextIInv == IInv /\ [Next]_vars => IInv'
<1>. SUFFICES ASSUME IInv, [Next]_vars PROVE IInv'
  OBVIOUS
<1>1. ASSUME NEW c \in Calls, CallStep(c) PROVE IInv'
  BY <1>1, SendMessageKeeps, SendMessageBlockingKeeps, RequestTimerKeeps, DeleteReplyKeeps DEF CallStep
<1>2. ASSUME NEW c \in Calls, NetworkStep(c) PROVE IInv'
  BY <1>2, NetworkReplyErrorKeeps, NetworkReplyFinishedKeeps, NetworkReplyDeletedKeeps DEF NetworkStep
<1>. QED
  BY <1>1, <1>2, BlockingCallReturnsKeeps, ReceivedReturnsKeeps, SlotsReturnKeeps,
     ClientDestroyedKeeps, StutterKeeps DEF Next

LEMMA SpecIInv == Spec => []IInv
  BY InitIInv, NextIInv, PTL DEF Spec

\* Type correctness; in it, that a QJsonRpcHttpReply emits finished at most
\* once, however often its network reply reports and whatever runs in the slots
\* of messageReceived between the two ends of networkReplyFinished.
THEOREM TypeCorrect == Spec => []ClientTypeOK
<1>1. IInv => ClientTypeOK
  BY TypeParts DEF IInv
<1>. QED  BY <1>1, SpecIInv, PTL

-----------------------------------------------------------------------------
(* Responses. *)

LEMMA ResponseKept ==
  ASSUME IInv, [Next]_vars, NEW c \in Calls, HasResponse(c)
  PROVE  response'[c] = response[c]
<1>1. ASSUME NEW d \in Calls, CallStep(d) PROVE response' = response
  BY <1>1 DEF CallStep, SendMessage, SendMessageBlocking, RequestTimer, DeleteReply
<1>2. ASSUME NEW d \in Calls, NEW body \in Bodies, NetworkReplyError(d, body)
      PROVE  response'[c] = response[c]
  <2>1. response[d] = "none" \/ d # c
    BY <1>2 DEF NetworkReplyError, IInv, Sane, CallSane
  <2>. QED  BY <1>2, <2>1 DEF NetworkReplyError, HasResponse, Messages, IInv, DataType
<1>3. ASSUME NEW d \in Calls, NEW body \in Bodies, NetworkReplyFinished(d, body)
      PROVE  response'[c] = response[c]
  <2>1. CASE ~HasError(d)
    <3>1. response[d] = "none"
      BY <1>3, <2>1 DEF NetworkReplyFinished, HasError, IInv, Sane, CallSane
    <3>2. d # c
      BY <3>1 DEF HasResponse, Messages
    <3>. QED  BY <1>3, <3>2 DEF NetworkReplyFinished, IInv, DataType
  <2>2. CASE HasError(d)
    BY <1>3, <2>2 DEF NetworkReplyFinished
  <2>. QED  BY <2>1, <2>2
<1>4. ASSUME ReceivedReturns PROVE response'[c] = response[c]
  <2>1. PICK d \in Calls : d = Head(stack).call
    BY <1>4, TopFrame DEF IInv, ReceivedReturns, At
  <2>2. response[d] = "none"
    BY <1>4, <2>1, TopFrame DEF IInv, FramesSane, InSlots, ReceivedReturns, At
  <2>3. d # c
    BY <2>2 DEF HasResponse, Messages
  <2>. QED  BY <1>4, <2>1, <2>3 DEF ReceivedReturns, IInv, DataType
<1>. QED
  BY <1>1, <1>2, <1>3, <1>4 DEF Next, NetworkStep, NetworkReplyDeleted, BlockingCallReturns,
     SlotsReturn, ClientDestroyed, vars

LEMMA TimeoutMeansNone ==
  ASSUME IInv, [Next]_vars, NEW c \in Calls, result'[c] = "timeout"
  PROVE  ~HasResponse(c)
<1>1. CASE result'[c] = result[c]
  BY <1>1 DEF IInv, Sane, CallSane
<1>2. CASE result'[c] # result[c]
  <2>1. BlockingCallReturns
    BY <1>2 DEF Next, CallStep, SendMessage, SendMessageBlocking, RequestTimer, DeleteReply,
                NetworkStep, NetworkReplyError, NetworkReplyFinished, NetworkReplyDeleted,
                ReceivedReturns, SlotsReturn, ClientDestroyed, vars
  <2>2. PICK d \in Calls : d = Head(stack).call
    BY <2>1, TopFrame DEF IInv, BlockingCallReturns, At
  <2>3. result' = [result EXCEPT ![d] = IF HasResponse(d) THEN "answer" ELSE "timeout"]
    BY <1>2, <2>1, <2>2 DEF BlockingCallReturns
  <2>4. d = c
    BY <1>2, <2>3 DEF IInv, DataType
  <2>. QED  BY <2>3, <2>4 DEF IInv, DataType
<1>. QED  BY <1>1, <1>2

\* A response that was stored stays, also when networkReplyFinished follows
\* networkReplyError, and sendMessageBlocking reports a timeout only without one.
THEOREM ResponseIsFinalHolds == Spec => ResponseIsFinal
<1>1. IInv /\ [Next]_vars =>
        [\A c \in Calls : /\ HasResponse(c) => response'[c] = response[c]
                          /\ result'[c] = "timeout" => ~HasResponse(c)]_vars
  BY ResponseKept, TimeoutMeansNone
<1>. QED  BY <1>1, SpecIInv, PTL DEF Spec, ResponseIsFinal

-----------------------------------------------------------------------------
(* What a call promises. *)

LEMMA OneOutcome ==
  ASSUME NEW c \in Calls, NEW o, OutcomeOf(c)' = o,
         \A d \in Calls \ {c} : reply'[d] = reply[d] /\ response'[d] = response[d]
  PROVE  outcome' = [outcome EXCEPT ![c] = o]
<1>1. \A d \in Calls \ {c} : OutcomeOf(d)' = OutcomeOf(d)
  BY DEF OutcomeOf, HasResponse
<1>. QED  BY <1>1 DEF outcome

LEMMA StartStep ==
  ASSUME IInv, NEW c \in Calls, Post(c), UNCHANGED response
  PROVE  RpcCalls!Next
<1>1. reply[c] = "none" /\ ~HasResponse(c) /\ reply' = [reply EXCEPT ![c] = "alive"]
  BY DEF Post, IInv, Sane, CallSane, HasResponse, Messages
<1>2. outcome[c] = "idle"
  BY <1>1 DEF outcome, OutcomeOf
<1>3. OutcomeOf(c)' = "pending"
  BY <1>1 DEF OutcomeOf, HasResponse, IInv, DataType
<1>4. outcome' = [outcome EXCEPT ![c] = "pending"]
  BY <1>1, <1>3, OneOutcome DEF IInv, DataType
<1>. QED  BY <1>2, <1>4 DEF RpcCalls!Next, RpcCalls!Start

\* Storing a response, or an object that is no message.
LEMMA StoreStep ==
  ASSUME IInv, NEW c \in Calls, NEW r, reply[c] = "alive", response[c] = "none",
         response' = [response EXCEPT ![c] = r], UNCHANGED reply
  PROVE  RpcCalls!Next \/ UNCHANGED outcome
<1>1. outcome[c] = "pending"
  BY DEF outcome, OutcomeOf, HasResponse, Messages
<1>2. response'[c] = r /\ \A d \in Calls \ {c} : response'[d] = response[d]
  BY DEF IInv, DataType
<1>3. CASE HasResponse(c)'
  <2>1. OutcomeOf(c)' = "answered"
    BY <1>3 DEF OutcomeOf
  <2>2. outcome' = [outcome EXCEPT ![c] = "answered"]
    BY <1>2, <2>1, OneOutcome
  <2>. QED  BY <1>1, <2>2 DEF RpcCalls!Next, RpcCalls!Answer
<1>4. CASE ~HasResponse(c)'
  <2>1. OutcomeOf(c)' = "pending"
    BY <1>4 DEF OutcomeOf
  <2>2. outcome' = [outcome EXCEPT ![c] = "pending"]
    BY <1>2, <2>1, OneOutcome
  <2>. QED  BY <1>1, <2>2 DEF outcome
<1>. QED  BY <1>3, <1>4

LEMMA DeleteStep ==
  ASSUME IInv, NEW c \in Calls, reply[c] = "alive",
         reply' = [reply EXCEPT ![c] = "deleted"], UNCHANGED response
  PROVE  RpcCalls!Next \/ UNCHANGED outcome
<1>1. reply'[c] = "deleted" /\ (HasResponse(c)' <=> HasResponse(c))
      /\ \A d \in Calls \ {c} : reply'[d] = reply[d]
  BY DEF IInv, DataType, HasResponse
<1>2. CASE HasResponse(c)
  <2>1. OutcomeOf(c)' = "answered" /\ outcome[c] = "answered"
    BY <1>1, <1>2 DEF outcome, OutcomeOf
  <2>2. outcome' = [outcome EXCEPT ![c] = "answered"]
    BY <1>1, <2>1, OneOutcome
  <2>. QED  BY <2>1, <2>2 DEF outcome
<1>3. CASE ~HasResponse(c)
  <2>1. outcome[c] = "pending"
    BY <1>3 DEF outcome, OutcomeOf
  <2>2. CASE c \in Blocking
    <3>1. OutcomeOf(c)' = "timedOut"
      BY <1>1, <1>3, <2>2 DEF OutcomeOf
    <3>2. outcome' = [outcome EXCEPT ![c] = "timedOut"]
      BY <1>1, <3>1, OneOutcome
    <3>. QED  BY <2>1, <2>2, <3>2 DEF RpcCalls!Next, RpcCalls!TimeOut
  <2>3. CASE c \notin Blocking
    <3>1. OutcomeOf(c)' = "abandoned"
      BY <1>1, <1>3, <2>3 DEF OutcomeOf
    <3>2. outcome' = [outcome EXCEPT ![c] = "abandoned"]
      BY <1>1, <3>1, OneOutcome
    <3>. QED  BY <2>1, <2>3, <3>2 DEF RpcCalls!Next, RpcCalls!Abandon
  <2>. QED  BY <2>2, <2>3
<1>. QED  BY <1>2, <1>3

LEMMA NextRefines ==
  ASSUME IInv, [Next]_vars
  PROVE  RpcCalls!Next \/ UNCHANGED outcome
<1>s. ASSUME UNCHANGED <<reply, response>> PROVE UNCHANGED outcome
  BY <1>s DEF outcome, OutcomeOf, HasResponse
<1>1. ASSUME NEW c \in Calls, CallStep(c) PROVE RpcCalls!Next \/ UNCHANGED outcome
  <2>1. CASE Post(c) /\ UNCHANGED response
    BY <2>1, StartStep
  <2>2. CASE DeleteReply(c)
    BY <2>2, DeleteStep DEF DeleteReply
  <2>3. CASE UNCHANGED <<reply, response>>
    BY <1>s, <2>3
  <2>. QED  BY <1>1, <2>1, <2>2, <2>3 DEF CallStep, SendMessage, SendMessageBlocking, RequestTimer
<1>2. ASSUME NEW c \in Calls, NetworkStep(c) PROVE RpcCalls!Next \/ UNCHANGED outcome
  <2>1. ASSUME NEW body \in Bodies, NetworkReplyError(c, body)
        PROVE  RpcCalls!Next \/ UNCHANGED outcome
    <3>1. response[c] = "none"
      BY <2>1 DEF NetworkReplyError, IInv, Sane, CallSane
    <3>. QED  BY <1>s, <2>1, <3>1, StoreStep DEF NetworkReplyError
  <2>2. ASSUME NEW body \in Bodies, NetworkReplyFinished(c, body)
        PROVE  RpcCalls!Next \/ UNCHANGED outcome
    <3>1. HasError(c) \/ response[c] = "none"
      BY <2>2 DEF NetworkReplyFinished, HasError, IInv, Sane, CallSane
    <3>. QED  BY <1>s, <2>2, <3>1, StoreStep DEF NetworkReplyFinished
  <2>. QED  BY <1>s, <1>2, <2>1, <2>2 DEF NetworkStep, NetworkReplyDeleted
<1>3. CASE BlockingCallReturns
  <2>1. PICK c \in Calls : c = Head(stack).call
    BY <1>3, TopFrame DEF IInv, BlockingCallReturns, At
  <2>. QED  BY <1>s, <1>3, <2>1, DeleteStep DEF BlockingCallReturns
<1>4. CASE ReceivedReturns
  <2>1. PICK c \in Calls : c = Head(stack).call
    BY <1>4, TopFrame DEF IInv, ReceivedReturns, At
  <2>2. InSlots(c)
    BY <1>4, <2>1, TopFrame DEF IInv, FramesSane, ReceivedReturns, At
  <2>3. CASE reply[c] = "deleted"
    BY <1>s, <1>4, <2>1, <2>3 DEF ReceivedReturns
  <2>4. CASE reply[c] # "deleted"
    <3>1. reply[c] = "alive" /\ response[c] = "none"
      BY <2>2, <2>4 DEF InSlots, IInv, DataType
    <3>. QED  BY <1>4, <2>1, <2>4, <3>1, StoreStep DEF ReceivedReturns
  <2>. QED  BY <2>3, <2>4
<1>. QED
  BY <1>s, <1>1, <1>2, <1>3, <1>4 DEF Next, SlotsReturn, ClientDestroyed, vars

\* Calls over HTTP keep what RpcCall promises, with the network reply, the
\* nested loops and the owners of the replies in any order: a call is started
\* once, ends at most once, and how it ended never changes.
THEOREM Implementation == Spec => ImplementsRpcCall
<1>1. Init => RpcCalls!Init
  BY DEF Init, RpcCalls!Init, outcome, OutcomeOf
<1>2. IInv /\ [Next]_vars => [RpcCalls!Next]_outcome
  BY NextRefines
<1>. QED  BY <1>1, <1>2, SpecIInv, PTL DEF Spec, ImplementsRpcCall, RpcCalls!Spec
=============================================================================
