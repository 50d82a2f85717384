--------------------- MODULE QJsonRpcServiceProvider_proof ---------------------
(***************************************************************************)
(* Proofs about module QJsonRpcServiceProvider, for every set of sockets   *)
(* and messages and every depth of nested event loops.                     *)
(***************************************************************************)
EXTENDS QJsonRpcServiceProvider, TLAPS

-----------------------------------------------------------------------------
(* The stack. *)

LEMMA PushFrame ==
  ASSUME stack \in Seq(Frames), NEW f \in Frames, stack' = <<f>> \o stack
  PROVE  /\ stack' \in Seq(Frames) /\ stack' # <<>> /\ Head(stack') = f
         /\ \A i \in DOMAIN stack' :
              (i = 1 /\ stack'[i] = f) \/ (i > 1 /\ i - 1 \in DOMAIN stack /\ stack'[i] = stack[i - 1])
  OBVIOUS

LEMMA PopFrame ==
  ASSUME stack \in Seq(Frames), stack # <<>>, stack' = Tail(stack)
  PROVE  /\ stack' \in Seq(Frames)
         /\ \A i \in DOMAIN stack' : i + 1 \in DOMAIN stack /\ i + 1 > 1 /\ stack'[i] = stack[i + 1]
         /\ stack' # <<>> => 1 \in DOMAIN stack' /\ Head(stack') = stack'[1]
  OBVIOUS

LEMMA SetTopFrame ==
  ASSUME stack \in Seq(Frames), stack # <<>>, NEW f \in Frames, SetTop(f)
  PROVE  /\ stack' \in Seq(Frames) /\ stack' # <<>> /\ Head(stack') = f
         /\ DOMAIN stack' = DOMAIN stack
         /\ \A i \in DOMAIN stack' : IF i = 1 THEN stack'[i] = f ELSE stack'[i] = stack[i]
<1>1. Tail(stack) \in Seq(Frames) /\ Len(stack) > 0
  OBVIOUS
<1>2. Len(stack') = Len(stack)
  BY <1>1 DEF SetTop
<1>. QED  BY <1>1, <1>2 DEF SetTop

LEMMA FrameAt ==
  ASSUME stack \in Seq(Frames), NEW i \in DOMAIN stack
  PROVE  /\ stack[i].req \in Requests
         /\ stack[i].delays \in BOOLEAN
         /\ stack[i].at \in {"fresh", "nested", "resumed"}
<1>1. stack[i] \in Frames
  OBVIOUS
<1>. QED  BY <1>1 DEF Frames

LEMMA TopFrame ==
  ASSUME stack \in Seq(Frames), stack # <<>>
  PROVE  /\ 1 \in DOMAIN stack /\ Head(stack) = stack[1]
         /\ Head(stack) \in Frames
         /\ Head(stack).req \in Requests
         /\ Head(stack).delays \in BOOLEAN
         /\ Head(stack).at \in {"fresh", "nested", "resumed"}
<1>1. 1 \in DOMAIN stack /\ Head(stack) = stack[1] /\ Head(stack) \in Frames
  OBVIOUS
<1>. QED  BY <1>1 DEF Frames

-----------------------------------------------------------------------------
(* Messages written to sockets. *)

AnswersType == answers \in [Requests -> [Sockets -> Nat]]

LEMMA TellEffect ==
  ASSUME AnswersType, NEW r \in Requests, NEW s \in Sockets, Tell(r, s)
  PROVE  /\ AnswersType'
         /\ \A q \in Requests, t \in Sockets :
              answers'[q][t] = IF q = r /\ t = s THEN answers[q][t] + 1 ELSE answers[q][t]
  BY DEF AnswersType, Tell

LEMMA EmitEffect ==
  ASSUME AnswersType, NEW r \in Requests, EmitResult(r)
  PROVE  /\ AnswersType'
         /\ \A q \in Requests, t \in Sockets :
              answers'[q][t] = IF q = r /\ t \in resultTo THEN answers[q][t] + 1 ELSE answers[q][t]
  BY DEF AnswersType, EmitResult
-----------------------------------------------------------------------------
(* Type correctness.  Only the stack is a sequence; what is proved about the *)
(* other variables never looks at its type.                                  *)

StackType == stack \in Seq(Frames)

DataType ==
  /\ life \in [Sockets -> {"none", "alive", "deleted"}]
  /\ registered \in BOOLEAN
  /\ kind \in [Requests -> Kinds \cup {"none"}]
  /\ from \in [Requests -> Sockets \cup {NoSocket}]
  /\ \A r \in Requests : from[r] = NoSocket <=> kind[r] = "none"
  /\ currentRequest \in Requests \cup {NoRequest}
  /\ delayedResponse \in BOOLEAN
  /\ task \in [Requests -> TaskStates]
  /\ resultTo \subseteq Sockets
  /\ dangling \in BOOLEAN

LEMMA TypeParts == ProviderTypeOK <=> StackType /\ DataType /\ AnswersType
  BY DEF ProviderTypeOK, StackType, DataType, AnswersType

LEMMA TypePartsPrime == ProviderTypeOK' <=> StackType' /\ DataType' /\ AnswersType'
  BY DEF ProviderTypeOK, StackType, DataType, AnswersType

\* A method runs only for a message that has been received, and a request is
\* held only if it has: both have a socket.
HasSocket ==
  /\ \A i \in DOMAIN stack : kind[stack[i].req] \in {"call", "notification"}
  /\ \A r \in Requests : task[r] # "none" => kind[r] # "none"
  /\ currentRequest # NoRequest => kind[currentRequest] # "none"
  /\ stack # <<>> => currentRequest # NoRequest

LEMMA SocketOf ==
  ASSUME DataType, NEW r \in Requests, kind[r] # "none"
  PROVE  from[r] \in Sockets
  BY DEF DataType

LEMMA InitType == ProviderInit => ProviderTypeOK /\ HasSocket
<1>. SUFFICES ASSUME ProviderInit PROVE ProviderTypeOK /\ HasSocket
  OBVIOUS
<1>1. StackType
  BY DEF ProviderInit, StackType
<1>2. DataType /\ AnswersType
  BY DEF ProviderInit, DataType, AnswersType, TaskStates
<1>3. HasSocket
  BY DEF ProviderInit, HasSocket
<1>. QED  BY <1>1, <1>2, <1>3, TypeParts

LEMMA ReceivedType ==
  ASSUME DataType, HasSocket, NEW s \in Sockets, NEW r \in Requests, NEW k \in Kinds,
         Received(s, r, k)
  PROVE  /\ kind' \in [Requests -> Kinds \cup {"none"}]
         /\ from' \in [Requests -> Sockets \cup {NoSocket}]
         /\ \A q \in Requests : from'[q] = NoSocket <=> kind'[q] = "none"
         /\ \A q \in Requests : kind[q] # "none" => kind'[q] = kind[q] /\ from'[q] = from[q]
         /\ kind'[r] = k /\ k # "none" /\ from'[r] = s
<1>1. k # "none" /\ s # NoSocket
  BY ProviderAssumption DEF ProviderAssumption, Kinds, Calling, Notifying
<1>. QED  BY <1>1 DEF DataType, Received, Noted

LEMMA ProcessType ==
  ASSUME StackType, DataType, AnswersType, HasSocket,
         NEW s \in Sockets, NEW r \in Requests, NEW k \in Kinds, ProcessMessage(s, r, k)
  PROVE  StackType' /\ DataType' /\ AnswersType' /\ HasSocket'
<1>r. Received(s, r, k)
  BY DEF ProcessMessage, Ignore, Reject, DispatchFails, CallMethod, BecomesCurrent
<1>k. /\ kind' \in [Requests -> Kinds \cup {"none"}]
      /\ from' \in [Requests -> Sockets \cup {NoSocket}]
      /\ \A q \in Requests : from'[q] = NoSocket <=> kind'[q] = "none"
      /\ \A q \in Requests : kind[q] # "none" => kind'[q] = kind[q] /\ from'[q] = from[q]
      /\ kind'[r] = k /\ k # "none" /\ from'[r] = s
  BY <1>r, ReceivedType
<1>c. /\ currentRequest' \in {currentRequest, r}
      /\ resultTo' \in {resultTo, resultTo \cup {s}}
      /\ UNCHANGED <<life, registered, delayedResponse, task, dangling>>
  BY DEF ProcessMessage, Ignore, Reject, DispatchFails, CallMethod, BecomesCurrent, MakeCurrent, serviceVars
<1>d. DataType'
  BY <1>k, <1>c DEF DataType
<1>f. \A i \in DOMAIN stack : stack[i].req \in Requests
  BY FrameAt DEF StackType
<1>n. r # NoRequest
  BY ProviderAssumption DEF ProviderAssumption
<1>1. CASE UNCHANGED stack
  <2>1. UNCHANGED answers \/ Tell(r, s)
    BY <1>1 DEF ProcessMessage, Ignore, Reject, DispatchFails, CallMethod
  <2>2. AnswersType'
    BY <2>1, TellEffect DEF AnswersType
  <2>3. HasSocket'
    <3>1. \A i \in DOMAIN stack' : kind'[stack'[i].req] \in {"call", "notification"}
      BY <1>1, <1>k, <1>f DEF HasSocket
    <3>2. \A q \in Requests : task'[q] # "none" => kind'[q] # "none"
      BY <1>k, <1>c DEF HasSocket
    <3>3. currentRequest' # NoRequest => kind'[currentRequest'] # "none"
      BY <1>k, <1>c DEF HasSocket, DataType
    <3>4. stack' # <<>> => currentRequest' # NoRequest
      BY <1>1, <1>c, <1>n DEF HasSocket
    <3>. QED  BY <3>1, <3>2, <3>3, <3>4 DEF HasSocket
  <2>. QED  BY <1>1, <1>d, <2>2, <2>3 DEF StackType
<1>2. CASE CallMethod(s, r, k)
  <2>. DEFINE f == [req |-> r, at |-> "fresh", delays |-> FALSE]
  <2>0. stack \in Seq(Frames)
    BY DEF StackType
  <2>1. f \in Frames /\ f.req = r /\ stack' = <<f>> \o stack /\ UNCHANGED answers
    BY <1>2 DEF CallMethod, Frames
  <2>. HIDE DEF f
  <2>2. /\ stack' \in Seq(Frames)
        /\ \A i \in DOMAIN stack' :
              (i = 1 /\ stack'[i] = f) \/ (i > 1 /\ i - 1 \in DOMAIN stack /\ stack'[i] = stack[i - 1])
    BY <2>0, <2>1, PushFrame, Zenon
  <2>3. HasSocket'
    <3>1. \A i \in DOMAIN stack' : kind'[stack'[i].req] \in {"call", "notification"}
      <4>. SUFFICES ASSUME NEW i \in DOMAIN stack'
                    PROVE  kind'[stack'[i].req] \in {"call", "notification"}
        OBVIOUS
      <4>1. CASE i = 1 /\ stack'[i] = f
        BY <4>1, <1>2, <1>k, <2>1 DEF CallMethod
      <4>2. CASE i - 1 \in DOMAIN stack /\ stack'[i] = stack[i - 1]
        <5>1. kind[stack[i - 1].req] \in {"call", "notification"} /\ stack[i - 1].req \in Requests
          BY <4>2, <1>f DEF HasSocket
        <5>. QED  BY <4>2, <5>1, <1>k
      <4>. QED  BY <4>1, <4>2, <2>2
    <3>2. \A q \in Requests : task'[q] # "none" => kind'[q] # "none"
      BY <1>k, <1>c DEF HasSocket
    <3>3. currentRequest' = r
      BY <1>2 DEF CallMethod, BecomesCurrent, MakeCurrent
    <3>. QED  BY <1>k, <1>n, <3>1, <3>2, <3>3 DEF HasSocket
  <2>. QED  BY <1>d, <2>1, <2>2, <2>3 DEF StackType, AnswersType
<1>. QED
  BY <1>1, <1>2 DEF ProcessMessage, Ignore, Reject, DispatchFails, serviceVars

\* The methods leave the requests alone and keep every frame but the top one.
LEMMA MethodStack ==
  ASSUME StackType, MethodStep
  PROVE  /\ stack # <<>>
         /\ StackType'
         /\ UNCHANGED <<life, registered, kind, from, currentRequest, resultTo>>
         /\ \A i \in DOMAIN stack' :
              \E j \in DOMAIN stack : stack'[i].req = stack[j].req
<1>0. stack \in Seq(Frames)
  BY DEF StackType
<1>1. stack # <<>>
  BY DEF MethodStep, BeginDelayedResponse, RunNestedLoop, NestedLoopReturns, MethodReturns, InMethod, At
<1>2. UNCHANGED <<life, registered, kind, from, currentRequest, resultTo>>
  BY DEF MethodStep, BeginDelayedResponse, RunNestedLoop, NestedLoopReturns, MethodReturns, requestVars
<1>3. ASSUME NEW f \in Frames, f.req = Head(stack).req, SetTop(f)
      PROVE  StackType' /\ \A i \in DOMAIN stack' : \E j \in DOMAIN stack : stack'[i].req = stack[j].req
  <2>1. /\ stack' \in Seq(Frames) /\ DOMAIN stack' = DOMAIN stack
        /\ \A i \in DOMAIN stack' : IF i = 1 THEN stack'[i] = f ELSE stack'[i] = stack[i]
    BY <1>0, <1>1, <1>3, SetTopFrame
  <2>2. 1 \in DOMAIN stack /\ Head(stack) = stack[1]
    BY <1>0, <1>1, TopFrame
  <2>. QED  BY <1>3, <2>1, <2>2 DEF StackType
<1>4. Head(stack) \in Frames
  BY <1>0, <1>1, TopFrame
<1>5. CASE BeginDelayedResponse
  <2>. DEFINE f == [Head(stack) EXCEPT !.delays = TRUE]
  <2>1. f \in Frames /\ f.req = Head(stack).req /\ SetTop(f)
    BY <1>4, <1>5 DEF Frames, BeginDelayedResponse
  <2>. QED  BY <1>1, <1>2, <1>3, <2>1
<1>6. CASE RunNestedLoop
  <2>. DEFINE f == [Head(stack) EXCEPT !.at = "nested"]
  <2>1. f \in Frames /\ f.req = Head(stack).req /\ SetTop(f)
    BY <1>4, <1>6 DEF Frames, RunNestedLoop
  <2>. QED  BY <1>1, <1>2, <1>3, <2>1
<1>7. CASE NestedLoopReturns
  <2>. DEFINE f == [Head(stack) EXCEPT !.at = "resumed"]
  <2>1. f \in Frames /\ f.req = Head(stack).req /\ SetTop(f)
    BY <1>4, <1>7 DEF Frames, NestedLoopReturns
  <2>. QED  BY <1>1, <1>2, <1>3, <2>1
<1>8. CASE MethodReturns
  <2>1. stack' = Tail(stack)
    BY <1>8 DEF MethodReturns
  <2>2. /\ stack' \in Seq(Frames)
        /\ \A i \in DOMAIN stack' : i + 1 \in DOMAIN stack /\ stack'[i] = stack[i + 1]
    BY <1>0, <1>1, <2>1, PopFrame
  <2>. QED  BY <1>1, <1>2, <2>2 DEF StackType
<1>. QED  BY <1>5, <1>6, <1>7, <1>8 DEF MethodStep

LEMMA MethodType ==
  ASSUME StackType, DataType, AnswersType, HasSocket, MethodStep
  PROVE  StackType' /\ DataType' /\ AnswersType' /\ HasSocket'
<1>1. /\ stack # <<>> /\ StackType'
      /\ UNCHANGED <<life, registered, kind, from, currentRequest, resultTo>>
      /\ \A i \in DOMAIN stack' : \E j \in DOMAIN stack : stack'[i].req = stack[j].req
  BY MethodStack
<1>2. /\ currentRequest \in Requests /\ kind[currentRequest] # "none"
      /\ Head(stack).req \in Requests /\ from[Head(stack).req] \in Sockets
  <2>1. currentRequest \in Requests /\ kind[currentRequest] # "none"
    BY <1>1 DEF HasSocket, DataType
  <2>2. stack \in Seq(Frames)
    BY DEF StackType
  <2>3. 1 \in DOMAIN stack /\ Head(stack) = stack[1] /\ Head(stack).req \in Requests
    BY <1>1, <2>2, TopFrame
  <2>4. kind[Head(stack).req] # "none"
    BY <2>3 DEF HasSocket
  <2>. QED  BY <2>1, <2>3, <2>4, SocketOf
<1>3. /\ task' \in [Requests -> TaskStates]
      /\ \A q \in Requests : task'[q] # "none" => task[q] # "none" \/ q = currentRequest
  BY <1>2 DEF MethodStep, BeginDelayedResponse, RunNestedLoop, NestedLoopReturns, MethodReturns,
     DataType, TaskStates
<1>4. delayedResponse' \in BOOLEAN /\ dangling' \in BOOLEAN
  BY DEF MethodStep, BeginDelayedResponse, RunNestedLoop, NestedLoopReturns, MethodReturns,
     DataType, FlagReset
<1>5. DataType'
  BY <1>1, <1>3, <1>4 DEF DataType
<1>6. UNCHANGED answers \/ Tell(Head(stack).req, from[Head(stack).req])
  BY DEF MethodStep, BeginDelayedResponse, RunNestedLoop, NestedLoopReturns, MethodReturns, Returning, GivenSocket
<1>7. AnswersType'
  BY <1>2, <1>6, TellEffect DEF AnswersType
<1>8. HasSocket'
  BY <1>1, <1>2, <1>3 DEF HasSocket, DataType
<1>. QED  BY <1>1, <1>5, <1>7, <1>8

LEMMA TaskType ==
  ASSUME StackType, DataType, AnswersType, HasSocket, NEW r \in Requests, TaskStep(r)
  PROVE  StackType' /\ DataType' /\ AnswersType' /\ HasSocket'
<1>1. /\ task[r] # "none" /\ task' \in [Requests -> TaskStates]
      /\ \A q \in Requests : task'[q] # "none" => task[q] # "none"
      /\ UNCHANGED <<life, registered, kind, from, stack, currentRequest, delayedResponse>>
  BY DEF TaskStep, Respond, RespondChecks, RespondPosts, PostedCallRuns, EmitResult, Finish,
     DataType, TaskStates, requestVars, serviceVars
<1>2. dangling' \in BOOLEAN /\ resultTo' \subseteq Sockets
  BY DEF TaskStep, Respond, RespondChecks, RespondPosts, PostedCallRuns, EmitResult, DataType
<1>3. from[r] \in Sockets
  BY <1>1, SocketOf DEF HasSocket
<1>4. UNCHANGED answers \/ Tell(r, from[r]) \/ EmitResult(r)
  BY DEF TaskStep, Respond, RespondChecks, RespondPosts, PostedCallRuns
<1>5. AnswersType'
  BY <1>3, <1>4, TellEffect, EmitEffect DEF AnswersType
<1>6. HasSocket'
  BY <1>1 DEF HasSocket
<1>. QED  BY <1>1, <1>2, <1>5, <1>6 DEF StackType, DataType

\* Sockets come and go, the service is added and removed.
EnvironmentStep ==
  \/ \E s \in Sockets : SocketCreated(s)
  \/ \E S \in SUBSET Sockets : DeletionRuns /\ SocketsDeleted(S)
  \/ AddService
  \/ RemoveService

LEMMA EnvironmentEffect ==
  ASSUME DataType, EnvironmentStep
  PROVE  /\ life' \in [Sockets -> {"none", "alive", "deleted"}]
         /\ registered' \in BOOLEAN /\ resultTo' \subseteq Sockets
         /\ task' \in [Requests -> TaskStates]
         /\ \A q \in Requests : task'[q] = task[q] \/ (task[q] = "posted" /\ task'[q] = "done")
         /\ UNCHANGED <<kind, from, stack, currentRequest, delayedResponse, answers, dangling>>
<1>1. CASE \E s \in Sockets : SocketCreated(s)
  BY <1>1 DEF SocketCreated, DataType, requestVars, serviceVars
<1>2. CASE \E S \in SUBSET Sockets : DeletionRuns /\ SocketsDeleted(S)
  BY <1>2 DEF SocketsDeleted, DataType, TaskStates, requestVars, serviceVars
<1>3. CASE AddService \/ RemoveService
  BY <1>3 DEF AddService, RemoveService, DataType, requestVars, serviceVars
<1>. QED  BY <1>1, <1>2, <1>3 DEF EnvironmentStep

LEMMA ProviderCases ==
  ASSUME ProviderNext
  PROVE  \/ EnvironmentStep
         \/ \E s \in Sockets, r \in Requests, k \in Kinds : ProcessMessage(s, r, k)
         \/ MethodStep
         \/ \E r \in Requests : TaskStep(r)
  BY DEF ProviderNext, EnvironmentStep

LEMMA NextType ==
  ASSUME ProviderTypeOK, HasSocket, [ProviderNext]_providerVars
  PROVE  ProviderTypeOK' /\ HasSocket'
<1>t. StackType /\ DataType /\ AnswersType
  BY TypeParts
<1>. SUFFICES StackType' /\ DataType' /\ AnswersType' /\ HasSocket'
  BY TypePartsPrime
<1>1. CASE UNCHANGED providerVars
  BY <1>t, <1>1 DEF providerVars, requestVars, serviceVars, StackType, DataType, AnswersType, HasSocket
<1>2. CASE EnvironmentStep
  <2>1. /\ \A q \in Requests : task'[q] # "none" => task[q] # "none"
        /\ UNCHANGED <<kind, from, stack, currentRequest, delayedResponse, answers, dangling>>
    BY <1>t, <1>2, EnvironmentEffect
  <2>2. DataType'
    BY <1>t, <1>2, <2>1, EnvironmentEffect DEF DataType
  <2>3. StackType' /\ AnswersType' /\ HasSocket'
    BY <1>t, <2>1 DEF StackType, AnswersType, HasSocket
  <2>. QED  BY <2>2, <2>3
<1>3. CASE \E s \in Sockets, r \in Requests, k \in Kinds : ProcessMessage(s, r, k)
  BY <1>t, <1>3, ProcessType
<1>4. CASE MethodStep
  BY <1>t, <1>4, MethodType
<1>5. CASE \E r \in Requests : TaskStep(r)
  BY <1>t, <1>5, TaskType
<1>. QED  BY <1>1, <1>2, <1>3, <1>4, <1>5, ProviderCases

\* The provider's variables keep their types, and what is being answered has a
\* socket to be answered on.
THEOREM TypeCorrect == ProviderSpec => [](ProviderTypeOK /\ HasSocket)
<1>1. ProviderInit => ProviderTypeOK /\ HasSocket
  BY InitType
<1>2. ProviderTypeOK /\ HasSocket /\ [ProviderNext]_providerVars => ProviderTypeOK' /\ HasSocket'
  BY NextType
<1>. QED  BY <1>1, <1>2, PTL DEF ProviderSpec

-----------------------------------------------------------------------------
(* Answers, for services whose methods do not both delay and nest.  The       *)
(* invariant says why the one flag and the one currentRequest suffice: only   *)
(* the method on top of the stack can have delayed, because every one below   *)
(* it is in a nested loop; and until a method delays, nothing has been        *)
(* written for its request and nobody else holds it.                          *)

FramesOnce ==
  \A i, j \in DOMAIN stack : stack[i].req = stack[j].req => i = j

OnlyTopDelays ==
  \A i \in DOMAIN stack : /\ i > 1 => stack[i].at = "nested"
                          /\ stack[i].at = "nested" => ~stack[i].delays

UntouchedUntilDelayed ==
  \A i \in DOMAIN stack :
    ~stack[i].delays => /\ task[stack[i].req] = "none"
                        /\ \A s \in Sockets : answers[stack[i].req][s] = 0

TopIsCurrent ==
  stack # <<>> /\ Head(stack).at = "fresh" => currentRequest = Head(stack).req

\* What is held has not been answered, and what is unknown has neither.
Ledger ==
  /\ AtMostOneAnswer
  /\ \A r \in Requests, s \in Sockets :
       kind[r] = "none" \/ task[r] \in {"held", "checked", "posted"} => answers[r][s] = 0

IInv ==
  /\ FramesOnce
  /\ OnlyTopDelays
  /\ UntouchedUntilDelayed
  /\ TopIsCurrent
  /\ Ledger
  /\ DelayFlagIsOwn

Typed == StackType /\ DataType /\ AnswersType /\ HasSocket

LEMMA InitIInv == ProviderInit => IInv
  BY DEF ProviderInit, IInv, FramesOnce, OnlyTopDelays, UntouchedUntilDelayed, TopIsCurrent,
     Ledger, AtMostOneAnswer, DelayFlagIsOwn

LEMMA ProcessIInv ==
  ASSUME Typed, IInv, NEW s \in Sockets, NEW r \in Requests, NEW k \in Kinds,
         ProcessMessage(s, r, k)
  PROVE  IInv'
<1>s. stack \in Seq(Frames)
  BY DEF Typed, StackType
<1>r. Received(s, r, k) /\ UNCHANGED <<task, delayedResponse>>
  BY DEF ProcessMessage, Ignore, Reject, DispatchFails, CallMethod, BecomesCurrent, serviceVars
<1>k. /\ kind'[r] # "none" /\ kind[r] = "none"
      /\ \A q \in Requests : q # r => kind'[q] = kind[q]
  <2>1. kind[r] = "none" /\ kind' = [kind EXCEPT ![r] = k]
    BY <1>r DEF Received, Noted
  <2>2. kind'[r] # "none"
    BY <1>r, ReceivedType DEF Typed
  <2>. QED  BY <2>1, <2>2 DEF Typed, DataType
<1>n. \A i \in DOMAIN stack : stack[i].req \in Requests /\ stack[i].req # r
  BY <1>k, <1>s, FrameAt DEF Typed, HasSocket
<1>l. stack # <<>> => Head(stack).at = "nested" /\ 1 \in DOMAIN stack /\ Head(stack) = stack[1]
  BY <1>r, <1>s, TopFrame DEF Received, InLoop, InMethod, At
<1>t. task[r] = "none" /\ \A t \in Sockets : answers[r][t] = 0
  BY <1>k DEF Typed, HasSocket, IInv, Ledger
<1>1. CASE UNCHANGED stack
  <2>1. UNCHANGED answers \/ Tell(r, s)
    BY <1>1 DEF ProcessMessage, Ignore, Reject, DispatchFails, CallMethod
  <2>2. \A q \in Requests, t \in Sockets :
          answers'[q][t] = IF q = r THEN answers'[r][t] ELSE answers[q][t]
    BY <2>1, TellEffect DEF Typed
  <2>3. \A t \in Sockets : answers'[r][t] \in {0, 1}
    BY <1>t, <2>1, TellEffect DEF Typed
  <2>4. UntouchedUntilDelayed'
    BY <1>1, <1>r, <1>n, <2>2 DEF IInv, UntouchedUntilDelayed
  <2>5. Ledger'
    BY <1>r, <1>k, <1>t, <2>2, <2>3 DEF IInv, Ledger, AtMostOneAnswer
  <2>6. FramesOnce' /\ OnlyTopDelays' /\ TopIsCurrent' /\ DelayFlagIsOwn'
    BY <1>1, <1>r, <1>l DEF IInv, FramesOnce, OnlyTopDelays, TopIsCurrent, DelayFlagIsOwn
  <2>. QED  BY <2>4, <2>5, <2>6 DEF IInv
<1>2. CASE CallMethod(s, r, k)
  <2>. DEFINE f == [req |-> r, at |-> "fresh", delays |-> FALSE]
  <2>1. /\ f \in Frames /\ f.req = r /\ f.at = "fresh" /\ ~f.delays
        /\ stack' = <<f>> \o stack /\ UNCHANGED answers /\ currentRequest' = r
    BY <1>2 DEF CallMethod, Frames, BecomesCurrent, MakeCurrent
  <2>. HIDE DEF f
  <2>2. /\ stack' # <<>> /\ Head(stack') = f
        /\ \A i \in DOMAIN stack' :
              (i = 1 /\ stack'[i] = f) \/ (i > 1 /\ i - 1 \in DOMAIN stack /\ stack'[i] = stack[i - 1])
    BY <1>s, <2>1, PushFrame
  <2>i. \A i \in DOMAIN stack : i \in Nat \ {0}
    BY <1>s
  <2>j. \A i \in DOMAIN stack' : i \in Nat
    BY <2>i, <2>2, <1>s, <2>1, PushFrame
  <2>3. FramesOnce'
    BY <1>n, <2>1, <2>2, <2>j DEF IInv, FramesOnce
  <2>4. OnlyTopDelays'
    <3>. SUFFICES ASSUME NEW i \in DOMAIN stack'
                  PROVE  /\ i > 1 => stack'[i].at = "nested"
                         /\ stack'[i].at = "nested" => ~stack'[i].delays
      BY DEF OnlyTopDelays
    <3>1. CASE i = 1 /\ stack'[i] = f
      BY <3>1, <2>1
    <3>2. CASE i > 1 /\ i - 1 \in DOMAIN stack /\ stack'[i] = stack[i - 1]
      <4>1. stack[i - 1].at = "nested"
        <5>1. CASE i - 1 = 1
          BY <5>1, <3>2, <1>l
        <5>2. CASE i - 1 # 1
          <6>1. i - 1 > 1 /\ i - 1 \in DOMAIN stack
            BY <5>2, <3>2, <2>i, <2>j
          <6>. QED  BY <6>1 DEF IInv, OnlyTopDelays
        <5>. QED  BY <5>1, <5>2
      <4>. QED  BY <3>2, <4>1 DEF IInv, OnlyTopDelays
    <3>. QED  BY <3>1, <3>2, <2>2
  <2>5. UntouchedUntilDelayed'
    BY <1>r, <1>t, <2>1, <2>2 DEF IInv, UntouchedUntilDelayed
  <2>6. TopIsCurrent'
    BY <2>1, <2>2 DEF TopIsCurrent
  <2>7. Ledger'
    BY <1>r, <1>k, <1>t, <2>1 DEF IInv, Ledger, AtMostOneAnswer
  <2>8. DelayFlagIsOwn'
    BY <1>r, <1>l, <2>1, <2>2 DEF IInv, DelayFlagIsOwn, OnlyTopDelays
  <2>. QED  BY <2>3, <2>4, <2>5, <2>6, <2>7, <2>8 DEF IInv
<1>. QED
  BY <1>1, <1>2 DEF ProcessMessage, Ignore, Reject, DispatchFails, serviceVars

\* A method that delays, or enters or leaves its nested loop.
LEMMA SetTopIInv ==
  ASSUME Typed, IInv, stack # <<>>, NEW f \in Frames, SetTop(f), f.req = Head(stack).req,
         f.at = "nested" => ~f.delays
  PROVE  FramesOnce' /\ OnlyTopDelays'
<1>1. /\ stack' \in Seq(Frames) /\ DOMAIN stack' = DOMAIN stack
      /\ \A i \in DOMAIN stack' : IF i = 1 THEN stack'[i] = f ELSE stack'[i] = stack[i]
  BY SetTopFrame DEF Typed, StackType
<1>2. 1 \in DOMAIN stack /\ Head(stack) = stack[1]
  BY TopFrame DEF Typed, StackType
<1>3. \A i \in DOMAIN stack' : stack'[i].req = stack[i].req
  BY <1>1, <1>2
<1>4. FramesOnce'
  BY <1>1, <1>3 DEF IInv, FramesOnce
<1>5. OnlyTopDelays'
  BY <1>1 DEF IInv, OnlyTopDelays
<1>. QED  BY <1>4, <1>5

LEMMA MethodIInv ==
  ASSUME ~DelayAndNest, Typed, IInv, MethodStep
  PROVE  IInv'
<1>s. stack \in Seq(Frames) /\ stack # <<>>
  BY MethodStack DEF Typed, StackType
<1>u. UNCHANGED <<kind, from, currentRequest>>
  BY MethodStack DEF Typed
<1>h. /\ 1 \in DOMAIN stack /\ Head(stack) = stack[1] /\ Head(stack) \in Frames
      /\ Head(stack).req \in Requests /\ from[Head(stack).req] \in Sockets
      /\ kind[Head(stack).req] # "none"
  <2>1. 1 \in DOMAIN stack /\ Head(stack) = stack[1] /\ Head(stack) \in Frames /\ Head(stack).req \in Requests
    BY <1>s, TopFrame
  <2>2. kind[Head(stack).req] # "none"
    BY <2>1 DEF Typed, HasSocket
  <2>. QED  BY <2>1, <2>2, SocketOf DEF Typed
<1>q. \A i \in DOMAIN stack : stack[i].req \in Requests
  BY <1>s, FrameAt
<1>1. CASE BeginDelayedResponse
  <2>. DEFINE f == [Head(stack) EXCEPT !.delays = TRUE]
  <2>1. /\ f \in Frames /\ f.req = Head(stack).req /\ f.delays /\ f.at = Head(stack).at
        /\ SetTop(f) /\ Head(stack).at = "fresh" /\ ~Head(stack).delays
    BY <1>h, <1>1 DEF Frames, BeginDelayedResponse
  <2>. HIDE DEF f
  <2>2. /\ stack' # <<>> /\ Head(stack') = f
        /\ DOMAIN stack' = DOMAIN stack
        /\ \A i \in DOMAIN stack' : IF i = 1 THEN stack'[i] = f ELSE stack'[i] = stack[i]
    BY <1>s, <2>1, SetTopFrame
  <2>3. FramesOnce' /\ OnlyTopDelays'
    BY <1>s, <2>1, SetTopIInv
  <2>4. currentRequest = Head(stack).req
    BY <1>s, <2>1 DEF IInv, TopIsCurrent
  <2>5. /\ task' = [task EXCEPT ![Head(stack).req] = "held"]
        /\ UNCHANGED answers /\ delayedResponse'
    BY <1>1, <2>4 DEF BeginDelayedResponse
  <2>6. UntouchedUntilDelayed'
    <3>. SUFFICES ASSUME NEW i \in DOMAIN stack', ~stack'[i].delays
                  PROVE  /\ task'[stack'[i].req] = "none"
                         /\ \A s \in Sockets : answers'[stack'[i].req][s] = 0
      BY DEF UntouchedUntilDelayed
    <3>1. i # 1 /\ i \in DOMAIN stack /\ stack'[i] = stack[i]
      BY <2>1, <2>2
    <3>2. stack[i].req # Head(stack).req
      BY <1>h, <3>1 DEF IInv, FramesOnce
    <3>. QED  BY <1>q, <2>5, <3>1, <3>2 DEF IInv, UntouchedUntilDelayed, Typed, DataType
  <2>7. Ledger'
    <3>1. \A s \in Sockets : answers[Head(stack).req][s] = 0
      BY <1>h, <2>1 DEF IInv, UntouchedUntilDelayed
    <3>. QED  BY <1>u, <2>5, <3>1 DEF IInv, Ledger, AtMostOneAnswer, Typed, DataType
  <2>8. TopIsCurrent' /\ DelayFlagIsOwn'
    BY <1>u, <2>1, <2>2, <2>4, <2>5 DEF TopIsCurrent, DelayFlagIsOwn
  <2>. QED  BY <2>3, <2>6, <2>7, <2>8 DEF IInv
<1>2. ASSUME NEW f \in Frames, f.req = Head(stack).req, f.delays = Head(stack).delays,
             f.at # "fresh", f.at = "nested" => ~f.delays,
             SetTop(f), UNCHANGED <<task, answers, delayedResponse>>
      PROVE  IInv'
  <2>1. FramesOnce' /\ OnlyTopDelays'
    BY <1>s, <1>2, SetTopIInv
  <2>2. /\ stack' # <<>> /\ Head(stack') = f
        /\ DOMAIN stack' = DOMAIN stack
        /\ \A i \in DOMAIN stack' : IF i = 1 THEN stack'[i] = f ELSE stack'[i] = stack[i]
    BY <1>s, <1>2, SetTopFrame
  <2>3. \A i \in DOMAIN stack' : stack'[i].req = stack[i].req /\ stack'[i].delays = stack[i].delays
    BY <1>2, <1>h, <2>2
  <2>4. UntouchedUntilDelayed'
    BY <1>2, <2>2, <2>3 DEF IInv, UntouchedUntilDelayed
  <2>5. Ledger' /\ TopIsCurrent' /\ DelayFlagIsOwn'
    BY <1>s, <1>u, <1>2, <2>2 DEF IInv, Ledger, AtMostOneAnswer, TopIsCurrent, DelayFlagIsOwn
  <2>. QED  BY <2>1, <2>4, <2>5 DEF IInv
<1>3. CASE RunNestedLoop
  <2>. DEFINE f == [Head(stack) EXCEPT !.at = "nested"]
  <2>1. /\ f \in Frames /\ f.req = Head(stack).req /\ f.delays = Head(stack).delays /\ f.at = "nested"
        /\ SetTop(f) /\ ~f.delays
    BY <1>h, <1>3 DEF Frames, RunNestedLoop
  <2>2. UNCHANGED <<task, answers, delayedResponse>>
    BY <1>3 DEF RunNestedLoop
  <2>. HIDE DEF f
  <2>. QED  BY <1>2, <2>1, <2>2
<1>4. CASE NestedLoopReturns
  <2>. DEFINE f == [Head(stack) EXCEPT !.at = "resumed"]
  <2>1. /\ f \in Frames /\ f.req = Head(stack).req /\ f.delays = Head(stack).delays /\ f.at = "resumed"
        /\ SetTop(f)
    BY <1>h, <1>4 DEF Frames, NestedLoopReturns
  <2>2. UNCHANGED <<task, answers, delayedResponse>>
    BY <1>4 DEF NestedLoopReturns
  <2>. HIDE DEF f
  <2>. QED  BY <1>2, <2>1, <2>2
<1>5. CASE MethodReturns
  <2>. DEFINE r == Head(stack).req
  <2>1. /\ stack' = Tail(stack) /\ ~delayedResponse' /\ UNCHANGED task
        /\ UNCHANGED answers \/ (Tell(r, from[r]) /\ ~delayedResponse)
    BY <1>5 DEF MethodReturns, FlagReset, Returning, GivenSocket, Answered
  <2>2. /\ \A i \in DOMAIN stack' : i + 1 \in DOMAIN stack /\ i + 1 > 1 /\ stack'[i] = stack[i + 1]
        /\ stack' # <<>> => 1 \in DOMAIN stack' /\ Head(stack') = stack'[1]
    BY <1>s, <2>1, PopFrame
  <2>3. \A i \in DOMAIN stack' : /\ stack'[i].at = "nested" /\ ~stack'[i].delays
                                 /\ stack'[i].req # r
    BY <1>h, <2>2 DEF IInv, OnlyTopDelays, FramesOnce
  <2>4. OnlyTopDelays' /\ TopIsCurrent' /\ DelayFlagIsOwn'
    BY <2>1, <2>2, <2>3 DEF OnlyTopDelays, TopIsCurrent, DelayFlagIsOwn
  <2>5. FramesOnce'
    <3>1. \A i \in DOMAIN stack' : i \in Nat
      BY <1>s, <2>1
    <3>. QED  BY <2>2, <3>1 DEF IInv, FramesOnce
  <2>6. UNCHANGED answers
        \/ (/\ task[r] = "none" /\ \A t \in Sockets : answers[r][t] = 0
            /\ \A q \in Requests, t \in Sockets :
                 answers'[q][t] = IF q = r /\ t = from[r] THEN answers[q][t] + 1 ELSE answers[q][t])
    <3>1. CASE UNCHANGED answers
      BY <3>1
    <3>2. CASE Tell(r, from[r]) /\ ~delayedResponse
      <4>1. ~Head(stack).delays
        BY <1>s, <3>2 DEF IInv, DelayFlagIsOwn
      <4>. QED  BY <1>h, <3>2, <4>1, TellEffect DEF IInv, UntouchedUntilDelayed, Typed
    <3>. QED  BY <3>1, <3>2, <2>1
  <2>7. UntouchedUntilDelayed'
    BY <1>q, <2>1, <2>2, <2>3, <2>6 DEF IInv, UntouchedUntilDelayed
  <2>8. Ledger'
    BY <1>u, <1>h, <2>1, <2>6 DEF IInv, Ledger, AtMostOneAnswer
  <2>. QED  BY <2>4, <2>5, <2>7, <2>8 DEF IInv
<1>. QED  BY <1>1, <1>3, <1>4, <1>5 DEF MethodStep

LEMMA TaskIInv ==
  ASSUME Typed, IInv, NEW r \in Requests, TaskStep(r)
  PROVE  IInv'
<1>1. /\ task[r] \in {"held", "checked", "posted"}
      /\ task' \in [Requests -> TaskStates]
      /\ \A q \in Requests : q # r => task'[q] = task[q]
      /\ UNCHANGED <<kind, from, stack, currentRequest, delayedResponse>>
  BY DEF TaskStep, Respond, RespondChecks, RespondPosts, PostedCallRuns, EmitResult, Finish,
     Typed, DataType, TaskStates, requestVars, serviceVars
<1>2. \A t \in Sockets : answers[r][t] = 0
  BY <1>1 DEF IInv, Ledger
<1>3. from[r] \in Sockets
  BY <1>1, SocketOf DEF Typed, HasSocket
<1>4. UNCHANGED answers \/ (Tell(r, from[r]) /\ task'[r] = "done") \/ EmitResult(r)
  BY DEF TaskStep, Respond, RespondChecks, RespondPosts, PostedCallRuns, Finish, Typed, DataType
<1>5. /\ \A q \in Requests : q # r => \A t \in Sockets : answers'[q][t] = answers[q][t]
      /\ \A t \in Sockets : answers'[r][t] \in {0, 1}
      /\ UNCHANGED answers \/ task'[r] \in {"done", "emitted"}
  <2>1. CASE UNCHANGED answers
    BY <2>1, <1>2
  <2>2. CASE Tell(r, from[r]) /\ task'[r] = "done"
    BY <2>2, <1>2, <1>3, TellEffect DEF Typed
  <2>3. CASE EmitResult(r)
    <3>1. task'[r] = "emitted"
      BY <2>3 DEF EmitResult, Typed, DataType
    <3>. QED  BY <2>3, <3>1, <1>2, EmitEffect DEF Typed
  <2>. QED  BY <2>1, <2>2, <2>3, <1>4
<1>6. \A i \in DOMAIN stack : stack[i].req \in Requests
  BY FrameAt DEF Typed, StackType
<1>7. UntouchedUntilDelayed'
  <2>1. \A i \in DOMAIN stack : ~stack[i].delays => stack[i].req # r
    BY <1>1 DEF IInv, UntouchedUntilDelayed
  <2>. QED  BY <1>1, <1>5, <1>6, <2>1 DEF IInv, UntouchedUntilDelayed
<1>8. Ledger'
  <2>1. kind[r] # "none"
    BY <1>1 DEF Typed, HasSocket
  <2>. QED  BY <1>1, <1>2, <1>5, <2>1 DEF IInv, Ledger, AtMostOneAnswer
<1>9. FramesOnce' /\ OnlyTopDelays' /\ TopIsCurrent' /\ DelayFlagIsOwn'
  BY <1>1 DEF IInv, FramesOnce, OnlyTopDelays, TopIsCurrent, DelayFlagIsOwn
<1>. QED  BY <1>7, <1>8, <1>9 DEF IInv

LEMMA EnvironmentIInv ==
  ASSUME Typed, IInv, EnvironmentStep
  PROVE  IInv'
<1>1. /\ \A q \in Requests : task'[q] = task[q] \/ (task[q] = "posted" /\ task'[q] = "done")
      /\ UNCHANGED <<kind, stack, currentRequest, delayedResponse, answers>>
  BY EnvironmentEffect DEF Typed
<1>2. \A i \in DOMAIN stack : stack[i].req \in Requests
  BY FrameAt DEF Typed, StackType
<1>3. UntouchedUntilDelayed'
  BY <1>1, <1>2 DEF IInv, UntouchedUntilDelayed
<1>4. Ledger'
  BY <1>1 DEF IInv, Ledger, AtMostOneAnswer
<1>5. FramesOnce' /\ OnlyTopDelays' /\ TopIsCurrent' /\ DelayFlagIsOwn'
  BY <1>1 DEF IInv, FramesOnce, OnlyTopDelays, TopIsCurrent, DelayFlagIsOwn
<1>. QED  BY <1>3, <1>4, <1>5 DEF IInv

LEMMA NextIInv ==
  ASSUME ~DelayAndNest, ProviderTypeOK, HasSocket, IInv, [ProviderNext]_providerVars
  PROVE  IInv'
<1>t. Typed
  BY TypeParts DEF Typed
<1>1. CASE UNCHANGED providerVars
  BY <1>1 DEF providerVars, requestVars, serviceVars, IInv, FramesOnce, OnlyTopDelays,
     UntouchedUntilDelayed, TopIsCurrent, Ledger, AtMostOneAnswer, DelayFlagIsOwn
<1>2. CASE EnvironmentStep
  BY <1>t, <1>2, EnvironmentIInv
<1>3. CASE \E s \in Sockets, r \in Requests, k \in Kinds : ProcessMessage(s, r, k)
  BY <1>t, <1>3, ProcessIInv
<1>4. CASE MethodStep
  BY <1>t, <1>4, MethodIInv
<1>5. CASE \E r \in Requests : TaskStep(r)
  BY <1>t, <1>5, TaskIInv
<1>. QED  BY <1>1, <1>2, <1>3, <1>4, <1>5, ProviderCases

LEMMA IInvHolds ==
  ASSUME ~DelayAndNest
  PROVE  ProviderSpec => []IInv
<1>1. ProviderInit => IInv
  BY InitIInv
<1>2. ProviderTypeOK /\ HasSocket /\ IInv /\ [ProviderNext]_providerVars => IInv'
  BY NextIInv
<1>. QED  BY <1>1, <1>2, TypeCorrect, PTL DEF ProviderSpec

\* No client is sent two messages for one request, whatever its service delays
\* and however its methods nest, as long as no method does both.
THEOREM AtMostOneAnswerHolds ==
  ASSUME ~DelayAndNest
  PROVE  ProviderSpec => []AtMostOneAnswer
<1>1. IInv => AtMostOneAnswer
  BY DEF IInv, Ledger
<1>. QED  BY <1>1, IInvHolds, PTL

\* The delayedResponse flag is set exactly while the method on top of the stack
\* has asked for it.
THEOREM DelayFlagIsOwnHolds ==
  ASSUME ~DelayAndNest
  PROVE  ProviderSpec => []DelayFlagIsOwn
<1>1. IInv => DelayFlagIsOwn
  BY DEF IInv
<1>. QED  BY <1>1, IInvHolds, PTL

\* A service that keeps currentRequest to answer it later keeps its own.
THEOREM DelayedRequestIsOwnHolds ==
  ASSUME ~DelayAndNest
  PROVE  ProviderSpec => DelayedRequestIsOwn
<1>. DEFINE Own == \A r \in Requests :
                     task[r] = "none" /\ task'[r] = "held" => Head(stack).req = r
<1>1. ProviderTypeOK /\ HasSocket /\ IInv /\ [ProviderNext]_providerVars => [Own]_providerVars
  <2>. SUFFICES ASSUME ProviderTypeOK, HasSocket, IInv, ProviderNext,
                       NEW r \in Requests, task[r] = "none", task'[r] = "held"
                PROVE  Head(stack).req = r
    OBVIOUS
  <2>t. Typed
    BY TypeParts DEF Typed
  <2>1. BeginDelayedResponse
    <3>1. ~EnvironmentStep
      BY <2>t, EnvironmentEffect DEF Typed
    <3>2. ~(\E s \in Sockets, q \in Requests, k \in Kinds : ProcessMessage(s, q, k))
      BY DEF ProcessMessage, Ignore, Reject, DispatchFails, CallMethod
    <3>3. ~(\E q \in Requests : TaskStep(q))
      BY <2>t DEF Typed, DataType, TaskStep, Respond, RespondChecks, RespondPosts, PostedCallRuns,
         EmitResult, Finish
    <3>4. MethodStep
      BY <3>1, <3>2, <3>3, ProviderCases
    <3>. QED  BY <3>4 DEF MethodStep, RunNestedLoop, NestedLoopReturns, MethodReturns
  <2>2. stack # <<>> /\ Head(stack).at = "fresh"
    BY <2>1 DEF BeginDelayedResponse, InMethod, At
  <2>3. currentRequest = Head(stack).req
    BY <2>2 DEF IInv, TopIsCurrent
  <2>4. task' = [task EXCEPT ![currentRequest] = "held"]
    BY <2>1 DEF BeginDelayedResponse
  <2>. QED  BY <2>t, <2>3, <2>4 DEF Typed, DataType
<1>. QED  BY <1>1, TypeCorrect, IInvHolds, PTL DEF ProviderSpec, DelayedRequestIsOwn

-----------------------------------------------------------------------------
(* No request is swallowed.  What a service has ever held is answered or     *)
(* still owed, and a method on the stack that delayed has had its request    *)
(* held: when it returns without an answer, that is where the request is.    *)

Owed(r) == answers[r][from[r]] = 1 \/ task[r] \in {"held", "checked", "posted", "emitted"}

Kept ==
  \A r \in Requests :
    kind[r] \in Calling /\ life[from[r]] = "alive" /\ (~OnStack(r) \/ task[r] # "none") => Owed(r)

DelayedIsHeld ==
  \A i \in DOMAIN stack : stack[i].delays => task[stack[i].req] # "none"

\* The socket of a message exists, or has existed.
SocketsKnown == \A r \in Requests : kind[r] # "none" => life[from[r]] # "none"

NCF == Kept /\ DelayedIsHeld /\ SocketsKnown

LEMMA EnvironmentNCF ==
  ASSUME Typed, NCF, EnvironmentStep
  PROVE  NCF'
<1>1. UNCHANGED <<kind, from, stack, answers>>
  BY EnvironmentEffect DEF Typed
<1>2. \A r \in Requests : kind[r] # "none" => from[r] \in Sockets
  BY SocketOf DEF Typed
<1>3. \A r \in Requests : Owed(r)' <=> answers[r][from[r]] = 1 \/ task'[r] \in {"held", "checked", "posted", "emitted"}
  BY <1>1 DEF Owed
<1>4. \A r \in Requests : task'[r] # "none" <=> task[r] # "none"
  BY EnvironmentEffect DEF Typed
<1>5. DelayedIsHeld'
  <2>1. \A i \in DOMAIN stack : stack[i].req \in Requests
    BY FrameAt DEF Typed, StackType
  <2>. QED  BY <1>1, <1>4, <2>1 DEF NCF, DelayedIsHeld
<1>6. ASSUME NEW r \in Requests, kind[r] # "none"
      PROVE  /\ life'[from[r]] # "none"
             /\ life'[from[r]] = "alive" => life[from[r]] = "alive" /\ task'[r] = task[r]
  <2>0. from[r] \in Sockets /\ life[from[r]] # "none"
    BY <1>2, <1>6 DEF NCF, SocketsKnown
  <2>1. CASE \E s \in Sockets : SocketCreated(s)
    BY <2>0, <2>1 DEF SocketCreated, Typed, DataType
  <2>2. CASE \E S \in SUBSET Sockets : SocketsDeleted(S)
    <3>1. PICK S \in SUBSET Sockets : SocketsDeleted(S)
      BY <2>2
    <3>2. /\ life' = [s \in Sockets |-> IF s \in S /\ life[s] = "alive" THEN "deleted" ELSE life[s]]
          /\ task' = [q \in Requests |-> IF task[q] = "posted" /\ from[q] \in S THEN "done" ELSE task[q]]
      BY <3>1 DEF SocketsDeleted
    <3>. QED  BY <2>0, <3>2 DEF Typed, DataType
  <2>3. CASE AddService \/ RemoveService
    BY <2>0, <2>3 DEF AddService, RemoveService
  <2>. QED  BY <2>1, <2>2, <2>3 DEF EnvironmentStep
<1>7. SocketsKnown'
  BY <1>1, <1>6 DEF SocketsKnown
<1>8. Kept'
  <2>. SUFFICES ASSUME NEW r \in Requests, kind[r] \in Calling, life'[from[r]] = "alive",
                       ~OnStack(r) \/ task'[r] # "none"
                PROVE  Owed(r)'
    BY <1>1 DEF Kept, OnStack
  <2>1. kind[r] # "none"
    BY DEF Calling
  <2>. QED  BY <1>3, <1>4, <1>6, <2>1 DEF NCF, Kept, Owed
<1>. QED  BY <1>5, <1>7, <1>8 DEF NCF

LEMMA ProcessNCF ==
  ASSUME Typed, IInv, NCF,
         NEW s \in Sockets, NEW r \in Requests, NEW k \in Kinds, ProcessMessage(s, r, k)
  PROVE  NCF'
<1>1. /\ Received(s, r, k) /\ kind[r] = "none" /\ life[s] = "alive" /\ UNCHANGED <<life, task>>
      /\ UNCHANGED answers \/ Tell(r, s)
  BY DEF ProcessMessage, Ignore, Reject, DispatchFails, CallMethod, BecomesCurrent, Received
<1>2. /\ kind'[r] = k /\ from'[r] = s
      /\ \A q \in Requests : q # r => kind'[q] = kind[q] /\ from'[q] = from[q]
  BY <1>1, ReceivedType DEF Typed, Received, Noted, DataType
<1>3. task[r] = "none" /\ \A t \in Sockets : answers[r][t] = 0
  BY <1>1 DEF Typed, HasSocket, IInv, Ledger
<1>4. \A q \in Requests, t \in Sockets : q # r => answers'[q][t] = answers[q][t]
  BY <1>1, TellEffect DEF Typed
<1>5. \A i \in DOMAIN stack : stack[i].req \in Requests
  BY FrameAt DEF Typed, StackType
<1>6. \/ UNCHANGED stack /\ (k \in Calling => Tell(r, s))
      \/ stack' = <<[req |-> r, at |-> "fresh", delays |-> FALSE]>> \o stack
  <2>1. CASE Ignore(s, r, k)
    BY <2>1 DEF Ignore, Calling, Notifying, serviceVars
  <2>2. CASE Reject(s, r, k) \/ DispatchFails(s, r, k)
    BY <2>2 DEF Reject, DispatchFails, serviceVars
  <2>3. CASE CallMethod(s, r, k)
    BY <2>3 DEF CallMethod
  <2>. QED  BY <2>1, <2>2, <2>3 DEF ProcessMessage
<1>7. /\ \A q \in Requests : q # r => (OnStack(q)' <=> OnStack(q))
      /\ DelayedIsHeld'
      /\ OnStack(r)' \/ (k \in Calling => Tell(r, s))
  <2>1. CASE UNCHANGED stack /\ (k \in Calling => Tell(r, s))
    BY <1>1, <2>1 DEF OnStack, NCF, DelayedIsHeld
  <2>2. CASE stack' = <<[req |-> r, at |-> "fresh", delays |-> FALSE]>> \o stack
    <3>. DEFINE f == [req |-> r, at |-> "fresh", delays |-> FALSE]
    <3>1. f \in Frames /\ f.req = r /\ f.delays = FALSE
      BY DEF Frames
    <3>. HIDE DEF f
    <3>2. stack' = <<f>> \o stack /\ stack \in Seq(Frames)
      BY <2>2 DEF f, Typed, StackType
    <3>3. /\ \A i \in DOMAIN stack' :
               (i = 1 /\ stack'[i] = f) \/ (i > 1 /\ i - 1 \in DOMAIN stack /\ stack'[i] = stack[i - 1])
          /\ stack' \in Seq(Frames) /\ stack' # <<>> /\ Head(stack') = f
      BY <3>1, <3>2, PushFrame
    <3>4. 1 \in DOMAIN stack' /\ stack'[1] = f
      BY <3>3
    <3>5. \A i \in DOMAIN stack : i + 1 \in DOMAIN stack' /\ stack'[i + 1] = stack[i]
      BY <3>2
    <3>6. \A q \in Requests : q # r => (OnStack(q)' <=> OnStack(q))
      BY <3>1, <3>3, <3>5 DEF OnStack
    <3>7. OnStack(r)'
      BY <3>1, <3>4 DEF OnStack
    <3>8. DelayedIsHeld'
      BY <1>1, <3>1, <3>3 DEF NCF, DelayedIsHeld
    <3>. QED  BY <3>6, <3>7, <3>8
  <2>. QED  BY <1>6, <2>1, <2>2
<1>8. SocketsKnown'
  BY <1>1, <1>2 DEF NCF, SocketsKnown
<1>9. Kept'
  <2>. SUFFICES ASSUME NEW q \in Requests, kind'[q] \in Calling, life[from'[q]] = "alive",
                       ~OnStack(q)' \/ task[q] # "none"
                PROVE  Owed(q)'
    BY <1>1 DEF Kept
  <2>1. CASE q = r
    <3>1. Tell(r, s)
      BY <1>2, <1>3, <1>7, <2>1
    <3>2. answers'[r][s] = 1
      BY <1>3, <3>1, TellEffect DEF Typed
    <3>. QED  BY <1>2, <2>1, <3>2 DEF Owed
  <2>2. CASE q # r
    <3>1. Owed(q)
      BY <1>2, <1>7, <2>2 DEF NCF, Kept
    <3>2. from[q] \in Sockets
      <4>1. kind[q] # "none"
        BY <1>2, <2>2 DEF Calling
      <4>. QED  BY <4>1, SocketOf DEF Typed
    <3>. QED  BY <1>1, <1>2, <1>4, <2>2, <3>1, <3>2 DEF Owed
  <2>. QED  BY <2>1, <2>2
<1>. QED  BY <1>7, <1>8, <1>9 DEF NCF

LEMMA MethodNCF ==
  ASSUME ~DelayAndNest, Typed, IInv, NCF, MethodStep
  PROVE  NCF'
<1>s. stack \in Seq(Frames) /\ stack # <<>> /\ UNCHANGED <<life, kind, from>>
  BY MethodStack DEF Typed, StackType
<1>h. /\ 1 \in DOMAIN stack /\ Head(stack) = stack[1] /\ Head(stack) \in Frames
      /\ Head(stack).req \in Requests /\ Head(stack).delays \in BOOLEAN
  BY <1>s, TopFrame
<1>q. \A i \in DOMAIN stack : stack[i].req \in Requests
  BY <1>s, FrameAt
<1>k. SocketsKnown'
  BY <1>s DEF NCF, SocketsKnown
<1>1. ASSUME NEW f \in Frames, f.req = Head(stack).req, SetTop(f), UNCHANGED answers,
             \A r \in Requests : task'[r] = task[r] \/ task'[r] = "held",
             f.delays => Head(stack).delays \/ task'[f.req] = "held"
      PROVE  NCF'
  <2>1. /\ DOMAIN stack' = DOMAIN stack
        /\ \A i \in DOMAIN stack' : IF i = 1 THEN stack'[i] = f ELSE stack'[i] = stack[i]
    BY <1>s, <1>1, SetTopFrame
  <2>2. \A i \in DOMAIN stack : stack'[i].req = stack[i].req
    BY <1>h, <1>1, <2>1
  <2>3. \A r \in Requests : OnStack(r)' <=> OnStack(r)
    BY <2>1, <2>2 DEF OnStack
  <2>4. DelayedIsHeld'
    BY <1>h, <1>q, <1>1, <2>1 DEF NCF, DelayedIsHeld
  <2>5. Kept'
    BY <1>s, <1>1, <2>3 DEF NCF, Kept, Owed
  <2>. QED  BY <1>k, <2>4, <2>5 DEF NCF
<1>2. CASE BeginDelayedResponse
  <2>. DEFINE f == [Head(stack) EXCEPT !.delays = TRUE]
  <2>1. f \in Frames /\ f.req = Head(stack).req /\ SetTop(f) /\ Head(stack).at = "fresh"
    BY <1>h, <1>2 DEF Frames, BeginDelayedResponse
  <2>2. currentRequest = Head(stack).req
    BY <1>s, <2>1 DEF IInv, TopIsCurrent
  <2>3. task' = [task EXCEPT ![Head(stack).req] = "held"] /\ UNCHANGED answers
    BY <1>2, <2>2 DEF BeginDelayedResponse
  <2>. HIDE DEF f
  <2>4. /\ \A r \in Requests : task'[r] = task[r] \/ task'[r] = "held"
        /\ task'[f.req] = "held"
    BY <1>h, <2>1, <2>3 DEF Typed, DataType
  <2>. QED  BY <1>1, <2>1, <2>3, <2>4
<1>3. CASE RunNestedLoop \/ NestedLoopReturns
  <2>1. PICK a \in {"nested", "resumed"} :
          SetTop([Head(stack) EXCEPT !.at = a]) /\ UNCHANGED <<task, answers>>
    BY <1>3 DEF RunNestedLoop, NestedLoopReturns
  <2>. DEFINE f == [Head(stack) EXCEPT !.at = a]
  <2>2. f \in Frames /\ f.req = Head(stack).req /\ f.delays = Head(stack).delays /\ SetTop(f)
    BY <1>h, <2>1 DEF Frames
  <2>. HIDE DEF f
  <2>. QED  BY <1>1, <2>1, <2>2
<1>4. CASE MethodReturns
  <2>. DEFINE r == Head(stack).req
  <2>1. /\ stack' = Tail(stack) /\ UNCHANGED task
        /\ UNCHANGED answers \/ Tell(r, from[r])
        /\ kind[r] = "call" /\ ~delayedResponse /\ life[from[r]] = "alive" => Tell(r, from[r])
    BY <1>4 DEF MethodReturns, Returning, GivenSocket, Answered
  <2>2. \A i \in DOMAIN stack' : i + 1 \in DOMAIN stack /\ i + 1 > 1 /\ stack'[i] = stack[i + 1]
    BY <1>s, <2>1, PopFrame
  <2>3. \A i \in DOMAIN stack : i = 1 \/ (i - 1 \in DOMAIN stack' /\ stack'[i - 1] = stack[i])
    BY <1>s, <2>1
  <2>4. \A q \in Requests : q # r => (OnStack(q)' <=> OnStack(q))
    <3>1. \A q \in Requests : OnStack(q)' => OnStack(q)
      BY <2>2 DEF OnStack
    <3>2. \A q \in Requests : q # r /\ OnStack(q) => OnStack(q)'
      BY <1>h, <2>3 DEF OnStack
    <3>. QED  BY <3>1, <3>2
  <2>5. DelayedIsHeld'
    BY <2>1, <2>2 DEF NCF, DelayedIsHeld
  <2>6. \A q \in Requests : kind[q] # "none" => from[q] \in Sockets
    BY SocketOf DEF Typed
  <2>7. kind[r] \in {"call", "notification"} /\ r \in Requests
    BY <1>h DEF Typed, HasSocket
  <2>8. \A q \in Requests, t \in Sockets : q # r => answers'[q][t] = answers[q][t]
    BY <2>1, <2>6, <2>7, TellEffect DEF Typed
  <2>9. Kept'
    <3>. SUFFICES ASSUME NEW q \in Requests, kind[q] \in Calling, life[from[q]] = "alive",
                         ~OnStack(q)' \/ task[q] # "none"
                  PROVE  Owed(q)'
      BY <1>s, <2>1 DEF Kept
    <3>1. from[q] \in Sockets
      BY <2>6 DEF Calling
    <3>2. CASE q # r
      BY <1>s, <2>1, <2>4, <2>8, <3>1, <3>2 DEF NCF, Kept, Owed
    <3>3. CASE q = r /\ ~delayedResponse
      <4>1. kind[r] = "call"
        BY <2>7, <3>3 DEF Calling
      <4>2. ~Head(stack).delays
        BY <1>s, <1>h, <3>3 DEF IInv, DelayFlagIsOwn
      <4>3. answers[r][from[r]] = 0
        BY <1>h, <3>1, <3>3, <4>2 DEF IInv, UntouchedUntilDelayed
      <4>4. answers'[r][from[r]] = 1
        BY <2>1, <2>7, <3>1, <3>3, <4>1, <4>3, TellEffect DEF Typed
      <4>. QED  BY <1>s, <3>3, <4>4 DEF Owed
    <3>4. CASE q = r /\ delayedResponse
      <4>1. Head(stack).delays
        BY <3>4 DEF IInv, DelayFlagIsOwn
      <4>2. task[r] # "none"
        BY <1>h, <4>1 DEF NCF, DelayedIsHeld
      <4>3. UNCHANGED answers
        BY <1>4, <3>4 DEF MethodReturns, Answered, Returning
      <4>. QED  BY <1>s, <2>1, <3>4, <4>2, <4>3 DEF NCF, Kept, Owed
    <3>. QED  BY <3>2, <3>3, <3>4
  <2>. QED  BY <1>k, <2>5, <2>9 DEF NCF
<1>. QED  BY <1>2, <1>3, <1>4 DEF MethodStep

LEMMA TaskNCF ==
  ASSUME Typed, IInv, NCF, NEW r \in Requests, TaskStep(r)
  PROVE  NCF'
<1>1. /\ task[r] \in {"held", "checked", "posted"} /\ task'[r] # "none"
      /\ \A q \in Requests : q # r => task'[q] = task[q]
      /\ UNCHANGED <<life, kind, from, stack>>
  BY DEF TaskStep, Respond, RespondChecks, RespondPosts, PostedCallRuns, EmitResult, Finish,
     Typed, DataType, requestVars, serviceVars
<1>2. from[r] \in Sockets /\ answers[r][from[r]] = 0
  BY <1>1, SocketOf DEF Typed, HasSocket, IInv, Ledger
<1>3. UNCHANGED answers \/ Tell(r, from[r]) \/ EmitResult(r)
  BY DEF TaskStep, Respond, RespondChecks, RespondPosts, PostedCallRuns
<1>4. \A q \in Requests, t \in Sockets : q # r => answers'[q][t] = answers[q][t]
  BY <1>2, <1>3, TellEffect, EmitEffect DEF Typed
<1>5. life[from[r]] = "alive" => Tell(r, from[r]) \/ task'[r] \in {"checked", "posted", "emitted"}
  BY <1>1 DEF TaskStep, Respond, RespondChecks, RespondPosts, PostedCallRuns, EmitResult, SocketOpen,
     Typed, DataType
<1>6. life[from[r]] = "alive" => Owed(r)'
  <2>1. Tell(r, from[r]) => answers'[r][from[r]] = 1
    BY <1>2, TellEffect DEF Typed
  <2>. QED  BY <1>1, <1>5, <2>1 DEF Owed
<1>7. Kept'
  <2>. SUFFICES ASSUME NEW q \in Requests, q # r, kind[q] \in Calling, life[from[q]] = "alive",
                       ~OnStack(q) \/ task[q] # "none"
                PROVE  Owed(q)'
    BY <1>1, <1>6 DEF Kept, OnStack
  <2>1. from[q] \in Sockets
    BY SocketOf DEF Typed, Calling
  <2>. QED  BY <1>1, <1>4, <2>1 DEF NCF, Kept, Owed
<1>8. DelayedIsHeld'
  <2>1. \A i \in DOMAIN stack : stack[i].req \in Requests
    BY FrameAt DEF Typed, StackType
  <2>. QED  BY <1>1, <2>1 DEF NCF, DelayedIsHeld
<1>9. SocketsKnown'
  BY <1>1 DEF NCF, SocketsKnown
<1>. QED  BY <1>7, <1>8, <1>9 DEF NCF

LEMMA NextNCF ==
  ASSUME ~DelayAndNest, ProviderTypeOK, HasSocket, IInv, NCF, [ProviderNext]_providerVars
  PROVE  NCF'
<1>t. Typed
  BY TypeParts DEF Typed
<1>1. CASE UNCHANGED providerVars
  BY <1>1 DEF providerVars, requestVars, serviceVars, NCF, Kept, Owed, OnStack, DelayedIsHeld, SocketsKnown
<1>2. CASE EnvironmentStep
  BY <1>t, <1>2, EnvironmentNCF
<1>3. CASE \E s \in Sockets, r \in Requests, k \in Kinds : ProcessMessage(s, r, k)
  BY <1>t, <1>3, ProcessNCF
<1>4. CASE MethodStep
  BY <1>t, <1>4, MethodNCF
<1>5. CASE \E r \in Requests : TaskStep(r)
  BY <1>t, <1>5, TaskNCF
<1>. QED  BY <1>1, <1>2, <1>3, <1>4, <1>5, ProviderCases

\* A Request whose method has returned is answered, or held to be answered, or
\* went out as a result(), while its client is there.
THEOREM NoCallForgottenHolds ==
  ASSUME ~DelayAndNest
  PROVE  ProviderSpec => []NoCallForgotten
<1>1. ProviderInit => NCF
  BY DEF ProviderInit, NCF, Kept, DelayedIsHeld, SocketsKnown, Calling
<1>2. ProviderTypeOK /\ HasSocket /\ IInv /\ NCF /\ [ProviderNext]_providerVars => NCF'
  BY NextNCF
<1>3. NCF => NoCallForgotten
  BY DEF NCF, Kept, Owed, NoCallForgotten
<1>. QED  BY <1>1, <1>2, <1>3, TypeCorrect, IInvHolds, PTL DEF ProviderSpec

-----------------------------------------------------------------------------
(* Where answers go. *)

Home ==
  /\ AnswersGoHome
  /\ \A r \in Requests, s \in Sockets : kind[r] = "none" => answers[r][s] = 0

LEMMA EmittedStays ==
  ASSUME Typed, [ProviderNext]_providerVars, NEW q \in Requests, task[q] = "emitted"
  PROVE  task'[q] = "emitted"
<1>1. CASE UNCHANGED providerVars
  BY <1>1 DEF providerVars
<1>2. CASE EnvironmentStep
  BY <1>2, EnvironmentEffect DEF Typed
<1>3. ASSUME NEW s \in Sockets, NEW r \in Requests, NEW k \in Kinds, ProcessMessage(s, r, k)
      PROVE  UNCHANGED task
  BY <1>3 DEF ProcessMessage, Ignore, Reject, DispatchFails, CallMethod
<1>4. CASE MethodStep
  BY <1>4 DEF MethodStep, BeginDelayedResponse, RunNestedLoop, NestedLoopReturns, MethodReturns,
     Typed, DataType
<1>5. ASSUME NEW r \in Requests, TaskStep(r)
      PROVE  task'[q] = "emitted"
  BY <1>5 DEF TaskStep, Respond, RespondChecks, RespondPosts, PostedCallRuns, EmitResult, Finish,
     Typed, DataType
<1>. QED  BY <1>1, <1>2, <1>3, <1>4, <1>5, ProviderCases

LEMMA NextHome ==
  ASSUME Typed, Home, [ProviderNext]_providerVars
  PROVE  Home'
<1>1. ASSUME UNCHANGED <<kind, from, answers>> PROVE Home'
  BY <1>1, EmittedStays DEF Home, AnswersGoHome
<1>2. ASSUME UNCHANGED <<kind, from>>, NEW r \in Requests, kind[r] # "none", Tell(r, from[r])
      PROVE  Home'
  <2>1. from[r] \in Sockets
    BY <1>2, SocketOf DEF Typed
  <2>. QED  BY <1>2, <2>1, TellEffect, EmittedStays DEF Home, AnswersGoHome, Typed
<1>3. CASE UNCHANGED providerVars \/ EnvironmentStep
  BY <1>1, <1>3, EnvironmentEffect DEF providerVars, requestVars, Typed
<1>4. ASSUME NEW s \in Sockets, NEW r \in Requests, NEW k \in Kinds, ProcessMessage(s, r, k)
      PROVE  Home'
  <2>1. Received(s, r, k) /\ (UNCHANGED answers \/ Tell(r, s))
    BY <1>4 DEF ProcessMessage, Ignore, Reject, DispatchFails, CallMethod, BecomesCurrent
  <2>2. kind[r] = "none" /\ kind' = [kind EXCEPT ![r] = k] /\ from' = [from EXCEPT ![r] = s]
    BY <2>1 DEF Received, Noted
  <2>3. kind'[r] # "none" /\ from'[r] = s
    BY <2>1, ReceivedType DEF Typed
  <2>4. \A q \in Requests : q # r => kind'[q] = kind[q] /\ from'[q] = from[q]
    BY <2>2 DEF Typed, DataType
  <2>5. \A q \in Requests, t \in Sockets :
          answers'[q][t] = answers[q][t] \/ (q = r /\ t = s)
    BY <2>1, TellEffect DEF Typed
  <2>6. \A t \in Sockets : answers[r][t] = 0
    BY <2>2 DEF Home
  <2>7. AnswersGoHome'
    <3>. SUFFICES ASSUME NEW q \in Requests, NEW t \in Sockets, answers'[q][t] > 0
                  PROVE  t = from'[q] \/ task'[q] = "emitted"
      BY DEF AnswersGoHome
    <3>1. CASE q = r
      <4>1. answers'[q][t] # answers[q][t]
        BY <3>1, <2>6
      <4>. QED  BY <3>1, <4>1, <2>3, <2>5
    <3>2. CASE q # r
      BY <3>2, <2>4, <2>5, EmittedStays DEF Home, AnswersGoHome
    <3>. QED  BY <3>1, <3>2
  <2>8. \A q \in Requests, t \in Sockets : kind'[q] = "none" => answers'[q][t] = 0
    BY <2>3, <2>4, <2>5 DEF Home
  <2>. QED  BY <2>7, <2>8 DEF Home
<1>5. CASE MethodStep
  <2>1. stack # <<>> /\ UNCHANGED <<kind, from>>
    BY <1>5, MethodStack DEF Typed
  <2>2. UNCHANGED answers \/ Tell(Head(stack).req, from[Head(stack).req])
    BY <1>5 DEF MethodStep, BeginDelayedResponse, RunNestedLoop, NestedLoopReturns, MethodReturns, Returning, GivenSocket
  <2>3. Head(stack).req \in Requests /\ kind[Head(stack).req] # "none"
    <3>1. 1 \in DOMAIN stack /\ Head(stack) = stack[1] /\ Head(stack).req \in Requests
      BY <2>1, TopFrame DEF Typed, StackType
    <3>. QED  BY <3>1 DEF Typed, HasSocket
  <2>. QED  BY <1>1, <1>2, <2>1, <2>2, <2>3
<1>6. ASSUME NEW r \in Requests, TaskStep(r)
      PROVE  Home'
  <2>1. /\ task[r] # "none" /\ UNCHANGED <<kind, from>>
        /\ UNCHANGED answers \/ Tell(r, from[r]) \/ EmitResult(r)
    BY <1>6 DEF TaskStep, Respond, RespondChecks, RespondPosts, PostedCallRuns, EmitResult, requestVars
  <2>2. kind[r] # "none"
    BY <2>1 DEF Typed, HasSocket
  <2>3. CASE EmitResult(r)
    <3>1. task'[r] = "emitted"
      BY <2>3 DEF EmitResult, Typed, DataType
    <3>2. \A q \in Requests, t \in Sockets : q # r => answers'[q][t] = answers[q][t]
      BY <2>3, EmitEffect DEF Typed
    <3>. QED  BY <2>1, <2>2, <3>1, <3>2, EmittedStays DEF Home, AnswersGoHome
  <2>. QED  BY <1>1, <1>2, <2>1, <2>2, <2>3
<1>. QED  BY <1>3, <1>4, <1>5, <1>6, ProviderCases

\* An answer that is not broadcast with result() is written to the socket its
\* request came from, whatever services do.
THEOREM AnswersGoHomeHolds == ProviderSpec => []AnswersGoHome
<1>1. ProviderInit => Home
  BY DEF ProviderInit, Home, AnswersGoHome
<1>2. ProviderTypeOK /\ HasSocket /\ Home /\ [ProviderNext]_providerVars => Home'
  BY NextHome, TypeParts DEF Typed
<1>3. Home => AnswersGoHome
  BY DEF Home
<1>. QED  BY <1>1, <1>2, <1>3, TypeCorrect, PTL DEF ProviderSpec

-----------------------------------------------------------------------------
(* Deleted sockets. *)

\* Without nested loops and other threads a method's socket outlives it: the
\* event loop that could delete it does not run.
Flat ==
  /\ \A i \in DOMAIN stack : stack[i].at # "nested" /\ life[from[stack[i].req]] = "alive"
  /\ \A r \in Requests : task[r] # "checked"
  /\ ~dangling

LEMMA NextFlat ==
  ASSUME ~ServiceNests, ~Workers, Typed, Flat, [ProviderNext]_providerVars
  PROVE  Flat'
<1>s. stack \in Seq(Frames)
  BY DEF Typed, StackType
<1>f. \A i \in DOMAIN stack : stack[i].req \in Requests /\ kind[stack[i].req] # "none"
  BY <1>s, FrameAt DEF Typed, HasSocket
<1>l. InLoop => stack = <<>>
  <2>. SUFFICES ASSUME InLoop, stack # <<>> PROVE FALSE
    OBVIOUS
  <2>1. /\ 1 \in DOMAIN stack /\ Head(stack) = stack[1]
        /\ Head(stack).at \in {"fresh", "nested", "resumed"}
    BY <1>s, TopFrame
  <2>. QED  BY <2>1 DEF InLoop, InMethod, At, Flat
<1>1. CASE UNCHANGED providerVars
  BY <1>1 DEF providerVars, requestVars, serviceVars, Flat
<1>2. CASE EnvironmentStep
  <2>1. /\ \A q \in Requests : task'[q] = task[q] \/ task'[q] = "done"
        /\ UNCHANGED <<kind, from, stack, dangling>>
    BY <1>2, EnvironmentEffect DEF Typed
  <2>2. UNCHANGED life \/ stack = <<>>
    BY <1>2, <1>l DEF EnvironmentStep, SocketCreated, AddService, RemoveService, DeletionRuns
  <2>. QED  BY <2>1, <2>2 DEF Flat
<1>3. ASSUME NEW s \in Sockets, NEW r \in Requests, NEW k \in Kinds, ProcessMessage(s, r, k)
      PROVE  Flat'
  <2>1. Received(s, r, k) /\ UNCHANGED <<life, task, dangling>>
    BY <1>3 DEF ProcessMessage, Ignore, Reject, DispatchFails, CallMethod, BecomesCurrent
  <2>2. stack = <<>> /\ life[s] = "alive" /\ from'[r] = s
    BY <2>1, <1>l, ReceivedType DEF Received, Typed
  <2>3. stack' = stack \/ stack' = <<[req |-> r, at |-> "fresh", delays |-> FALSE]>>
    BY <1>3, <2>2 DEF ProcessMessage, Ignore, Reject, DispatchFails, CallMethod, serviceVars
  <2>. QED  BY <2>1, <2>2, <2>3 DEF Flat
<1>4. CASE MethodStep
  <2>1. /\ stack # <<>> /\ UNCHANGED <<life, from>>
        /\ \A i \in DOMAIN stack' : \E j \in DOMAIN stack : stack'[i].req = stack[j].req
    BY <1>4, MethodStack DEF Typed
  <2>2. 1 \in DOMAIN stack /\ Head(stack) = stack[1] /\ Head(stack) \in Frames
    BY <1>s, <2>1, TopFrame
  <2>3. ~dangling'
    BY <1>4, <2>2 DEF MethodStep, BeginDelayedResponse, RunNestedLoop, NestedLoopReturns,
       MethodReturns, Returning, GivenSocket, Flat
  <2>4. \A r \in Requests : task'[r] # "checked"
    BY <1>4 DEF MethodStep, BeginDelayedResponse, RunNestedLoop, NestedLoopReturns,
       MethodReturns, Flat, Typed, DataType
  <2>5. \A i \in DOMAIN stack' : stack'[i].at # "nested"
    <3>1. CASE BeginDelayedResponse
      <4>. DEFINE f == [Head(stack) EXCEPT !.delays = TRUE]
      <4>1. f \in Frames /\ f.at = Head(stack).at /\ SetTop(f)
        BY <3>1, <2>2 DEF BeginDelayedResponse, Frames
      <4>. HIDE DEF f
      <4>2. /\ DOMAIN stack' = DOMAIN stack
            /\ \A i \in DOMAIN stack' : IF i = 1 THEN stack'[i] = f ELSE stack'[i] = stack[i]
        BY <1>s, <2>1, <4>1, SetTopFrame
      <4>. QED  BY <2>2, <4>1, <4>2 DEF Flat
    <3>2. CASE MethodReturns
      <4>1. stack' = Tail(stack)
        BY <3>2 DEF MethodReturns
      <4>2. \A i \in DOMAIN stack' : i + 1 \in DOMAIN stack /\ stack'[i] = stack[i + 1]
        BY <1>s, <2>1, <4>1, PopFrame
      <4>. QED  BY <4>2 DEF Flat
    <3>3. ~RunNestedLoop /\ ~NestedLoopReturns
      BY <2>2 DEF RunNestedLoop, NestedLoopReturns, At, Flat
    <3>. QED  BY <1>4, <3>1, <3>2, <3>3 DEF MethodStep
  <2>6. \A i \in DOMAIN stack' : life'[from'[stack'[i].req]] = "alive"
    BY <2>1 DEF Flat
  <2>. QED  BY <2>3, <2>4, <2>5, <2>6 DEF Flat
<1>5. ASSUME NEW r \in Requests, TaskStep(r)
      PROVE  Flat'
  <2>1. /\ UNCHANGED <<life, from, stack, dangling>>
        /\ \A q \in Requests : task'[q] = task[q] \/ task'[q] \in {"done", "posted", "emitted"}
    BY <1>5 DEF TaskStep, Respond, RespondChecks, RespondPosts, PostedCallRuns, EmitResult, Finish,
       requestVars, serviceVars, Flat, Typed, DataType
  <2>. QED  BY <2>1 DEF Flat
<1>. QED  BY <1>1, <1>2, <1>3, <1>4, <1>5, ProviderCases

LEMMA FlatHolds ==
  ASSUME ~ServiceNests, ~Workers
  PROVE  ProviderSpec => []Flat
<1>1. ProviderInit => Flat
  BY DEF ProviderInit, Flat
<1>2. ProviderTypeOK /\ HasSocket /\ Flat /\ [ProviderNext]_providerVars => Flat'
  BY NextFlat, TypeParts DEF Typed
<1>. QED  BY <1>1, <1>2, TypeCorrect, PTL DEF ProviderSpec

\* A method that has not nested runs alone: the frames below it are in their
\* nested loops, and no event loop has run since its message was processed.
FreshAlive ==
  /\ \A i \in DOMAIN stack : i > 1 => stack[i].at = "nested"
  /\ stack # <<>> /\ Head(stack).at = "fresh" => life[from[Head(stack).req]] = "alive"

LEMMA MethodFresh ==
  ASSUME Typed, FreshAlive, MethodStep
  PROVE  FreshAlive'
<1>s. stack \in Seq(Frames)
  BY DEF Typed, StackType
<1>1. stack # <<>> /\ UNCHANGED <<life, from>>
  BY MethodStack DEF Typed
<1>2. 1 \in DOMAIN stack /\ Head(stack) = stack[1] /\ Head(stack) \in Frames
  BY <1>s, <1>1, TopFrame
<1>3. ASSUME NEW f \in Frames, SetTop(f), f.req = Head(stack).req,
             f.at = "fresh" => Head(stack).at = "fresh"
      PROVE  FreshAlive'
  <2>1. /\ Head(stack') = f /\ DOMAIN stack' = DOMAIN stack
        /\ \A i \in DOMAIN stack' : IF i = 1 THEN stack'[i] = f ELSE stack'[i] = stack[i]
    BY <1>s, <1>1, <1>3, SetTopFrame
  <2>2. \A i \in DOMAIN stack' : i > 1 => stack'[i].at = "nested"
    BY <2>1 DEF FreshAlive
  <2>3. Head(stack').at = "fresh" => life'[from'[Head(stack').req]] = "alive"
    BY <1>1, <1>3, <2>1 DEF FreshAlive
  <2>. QED  BY <2>2, <2>3 DEF FreshAlive
<1>4. CASE BeginDelayedResponse
  <2>. DEFINE f == [Head(stack) EXCEPT !.delays = TRUE]
  <2>1. f \in Frames /\ f.req = Head(stack).req /\ f.at = Head(stack).at /\ SetTop(f)
    BY <1>4, <1>2 DEF BeginDelayedResponse, Frames
  <2>. HIDE DEF f
  <2>. QED  BY <2>1, <1>3
<1>5. CASE RunNestedLoop
  <2>. DEFINE f == [Head(stack) EXCEPT !.at = "nested"]
  <2>1. f \in Frames /\ f.req = Head(stack).req /\ f.at = "nested" /\ SetTop(f)
    BY <1>5, <1>2 DEF RunNestedLoop, Frames
  <2>. HIDE DEF f
  <2>. QED  BY <2>1, <1>3
<1>6. CASE NestedLoopReturns
  <2>. DEFINE f == [Head(stack) EXCEPT !.at = "resumed"]
  <2>1. f \in Frames /\ f.req = Head(stack).req /\ f.at = "resumed" /\ SetTop(f)
    BY <1>6, <1>2 DEF NestedLoopReturns, Frames
  <2>. HIDE DEF f
  <2>. QED  BY <2>1, <1>3
<1>7. CASE MethodReturns
  <2>1. stack' = Tail(stack)
    BY <1>7 DEF MethodReturns
  <2>2. /\ \A i \in DOMAIN stack' : i + 1 \in DOMAIN stack /\ i + 1 > 1 /\ stack'[i] = stack[i + 1]
        /\ stack' # <<>> => 1 \in DOMAIN stack' /\ Head(stack') = stack'[1]
    BY <1>s, <1>1, <2>1, PopFrame
  <2>3. \A i \in DOMAIN stack' : stack'[i].at = "nested"
    BY <2>2 DEF FreshAlive
  <2>. QED  BY <2>2, <2>3 DEF FreshAlive
<1>. QED  BY <1>4, <1>5, <1>6, <1>7 DEF MethodStep

LEMMA NextFresh ==
  ASSUME Typed, FreshAlive, [ProviderNext]_providerVars
  PROVE  FreshAlive'
<1>s. stack \in Seq(Frames)
  BY DEF Typed, StackType
<1>l. ASSUME InLoop
      PROVE  /\ \A i \in DOMAIN stack : stack[i].at = "nested"
             /\ stack # <<>> => Head(stack).at # "fresh"
  <2>1. stack # <<>> => /\ 1 \in DOMAIN stack /\ Head(stack) = stack[1]
                        /\ Head(stack).at = "nested"
    BY <1>s, <1>l, TopFrame DEF InLoop, InMethod, At
  <2>2. \A i \in DOMAIN stack : i = 1 \/ i > 1
    BY <1>s
  <2>. QED  BY <1>s, <2>1, <2>2 DEF FreshAlive
<1>1. CASE UNCHANGED providerVars
  BY <1>1 DEF providerVars, requestVars, serviceVars, FreshAlive
<1>2. CASE EnvironmentStep
  <2>1. UNCHANGED <<from, stack>>
    BY <1>2, EnvironmentEffect DEF Typed
  <2>2. UNCHANGED life \/ InLoop
    BY <1>2 DEF EnvironmentStep, SocketCreated, AddService, RemoveService, DeletionRuns
  <2>. QED  BY <2>1, <2>2, <1>l DEF FreshAlive
<1>3. ASSUME NEW s \in Sockets, NEW r \in Requests, NEW k \in Kinds, ProcessMessage(s, r, k)
      PROVE  FreshAlive'
  <2>1. Received(s, r, k) /\ UNCHANGED life
    BY <1>3 DEF ProcessMessage, Ignore, Reject, DispatchFails, CallMethod, BecomesCurrent
  <2>2. InLoop /\ life[s] = "alive" /\ from'[r] = s
    BY <2>1, ReceivedType DEF Received, Typed
  <2>3. CASE stack' = stack
    BY <2>1, <2>2, <2>3, <1>l DEF FreshAlive
  <2>4. CASE stack' = <<[req |-> r, at |-> "fresh", delays |-> FALSE]>> \o stack
    <3>. DEFINE f == [req |-> r, at |-> "fresh", delays |-> FALSE]
    <3>1. f \in Frames /\ f.req = r /\ stack' = <<f>> \o stack
      BY <2>4 DEF Frames
    <3>. HIDE DEF f
    <3>2. /\ Head(stack') = f
          /\ \A i \in DOMAIN stack' :
               (i = 1 /\ stack'[i] = f) \/ (i > 1 /\ i - 1 \in DOMAIN stack /\ stack'[i] = stack[i - 1])
      BY <1>s, <3>1, PushFrame
    <3>3. \A i \in DOMAIN stack' : i > 1 => stack'[i].at = "nested"
      BY <3>2, <2>2, <1>l
    <3>. QED  BY <3>1, <3>2, <3>3, <2>1, <2>2 DEF FreshAlive
  <2>5. stack' = stack \/ stack' = <<[req |-> r, at |-> "fresh", delays |-> FALSE]>> \o stack
    BY <1>3 DEF ProcessMessage, Ignore, Reject, DispatchFails, CallMethod, serviceVars
  <2>. QED  BY <2>3, <2>4, <2>5
<1>4. CASE MethodStep
  BY <1>4, MethodFresh
<1>5. ASSUME NEW r \in Requests, TaskStep(r)
      PROVE  FreshAlive'
  <2>1. UNCHANGED <<life, from, stack>>
    BY <1>5 DEF TaskStep, Respond, RespondChecks, RespondPosts, PostedCallRuns, EmitResult,
       requestVars, serviceVars
  <2>. QED  BY <2>1 DEF FreshAlive
<1>. QED  BY <1>1, <1>2, <1>3, <1>4, <1>5, ProviderCases

LEMMA DanglingNeedsNesting ==
  ASSUME Typed, FreshAlive, [ProviderNext]_providerVars, ~dangling, dangling'
  PROVE  At({"resumed"}) \/ \E r \in Requests : task[r] = "checked"
<1>1. CASE UNCHANGED providerVars \/ EnvironmentStep
  BY <1>1, EnvironmentEffect DEF providerVars, Typed
<1>2. ASSUME NEW s \in Sockets, NEW r \in Requests, NEW k \in Kinds, ProcessMessage(s, r, k)
      PROVE  FALSE
  BY <1>2 DEF ProcessMessage, Ignore, Reject, DispatchFails, CallMethod
<1>3. CASE MethodStep
  <2>1. MethodReturns
    BY <1>3 DEF MethodStep, BeginDelayedResponse, RunNestedLoop, NestedLoopReturns
  <2>2. InMethod /\ life[from[Head(stack).req]] # "alive"
    BY <2>1 DEF MethodReturns, Returning, GivenSocket
  <2>. QED  BY <2>2 DEF InMethod, At, FreshAlive
<1>4. ASSUME NEW r \in Requests, TaskStep(r)
      PROVE  task[r] = "checked"
  BY <1>4 DEF TaskStep, Respond, RespondChecks, RespondPosts, PostedCallRuns, EmitResult
<1>. QED  BY <1>1, <1>2, <1>3, <1>4, ProviderCases

\* A deleted socket is used only by a method that comes back from a nested
\* event loop, or by respond on another thread between its two looks.
THEOREM UseAfterFreeNeedsNestingHolds == ProviderSpec => UseAfterFreeNeedsNesting
<1>. DEFINE Nests == ~dangling /\ dangling' =>
                       At({"resumed"}) \/ \E r \in Requests : task[r] = "checked"
<1>1. ProviderInit => FreshAlive
  BY DEF ProviderInit, FreshAlive
<1>2. ProviderTypeOK /\ HasSocket /\ FreshAlive /\ [ProviderNext]_providerVars => FreshAlive'
  BY NextFresh, TypeParts DEF Typed
<1>3. ProviderTypeOK /\ HasSocket /\ FreshAlive /\ [ProviderNext]_providerVars => [Nests]_providerVars
  BY DanglingNeedsNesting, TypeParts DEF Typed
<1>. QED  BY <1>1, <1>2, <1>3, TypeCorrect, PTL DEF ProviderSpec, UseAfterFreeNeedsNesting

\* What will be written without a further test goes to a living socket.
Reachable ==
  /\ \A r \in Requests : task[r] = "posted" => life[from[r]] = "alive"
  /\ \A s \in resultTo : life[s] = "alive"

LEMMA NextReachable ==
  ASSUME Typed, Reachable, [ProviderNext]_providerVars
  PROVE  Reachable'
<1>1. CASE UNCHANGED providerVars
  BY <1>1 DEF providerVars, requestVars, Reachable
<1>2. CASE EnvironmentStep
  <2>1. CASE \E s \in Sockets : SocketCreated(s)
    BY <2>1 DEF SocketCreated, Reachable, Typed, DataType, requestVars
  <2>2. CASE \E S \in SUBSET Sockets : SocketsDeleted(S)
    <3>1. PICK S \in SUBSET Sockets : SocketsDeleted(S)
      BY <2>2
    <3>2. /\ life' = [s \in Sockets |-> IF s \in S /\ life[s] = "alive" THEN "deleted" ELSE life[s]]
          /\ resultTo' = resultTo \ S /\ UNCHANGED from
          /\ task' = [r \in Requests |-> IF task[r] = "posted" /\ from[r] \in S THEN "done" ELSE task[r]]
      BY <3>1 DEF SocketsDeleted, requestVars
    <3>3. \A r \in Requests : task[r] = "posted" => from[r] \in Sockets
      BY SocketOf DEF Typed, HasSocket
    <3>. QED  BY <3>2, <3>3 DEF Reachable, Typed, DataType
  <2>3. CASE AddService \/ RemoveService
    BY <2>3 DEF AddService, RemoveService, Reachable, requestVars
  <2>. QED  BY <1>2, <2>1, <2>2, <2>3 DEF EnvironmentStep
<1>3. ASSUME NEW s \in Sockets, NEW r \in Requests, NEW k \in Kinds, ProcessMessage(s, r, k)
      PROVE  Reachable'
  <2>1. /\ Received(s, r, k) /\ life[s] = "alive" /\ UNCHANGED <<life, task>>
        /\ resultTo' \in {resultTo, resultTo \cup {s}}
    BY <1>3 DEF ProcessMessage, Ignore, Reject, DispatchFails, CallMethod, BecomesCurrent, Received
  <2>2. \A q \in Requests : task[q] = "posted" => from'[q] = from[q]
    BY <2>1, ReceivedType DEF Typed, HasSocket
  <2>. QED  BY <2>1, <2>2 DEF Reachable
<1>4. CASE MethodStep
  <2>1. UNCHANGED <<life, from, resultTo>>
    BY <1>4, MethodStack DEF Typed
  <2>2. \A r \in Requests : task'[r] = "posted" => task[r] = "posted"
    BY <1>4 DEF MethodStep, BeginDelayedResponse, RunNestedLoop, NestedLoopReturns, MethodReturns,
       Typed, DataType
  <2>. QED  BY <2>1, <2>2 DEF Reachable
<1>5. ASSUME NEW r \in Requests, TaskStep(r)
      PROVE  Reachable'
  <2>1. UNCHANGED <<life, from>> /\ resultTo' \subseteq resultTo
    BY <1>5 DEF TaskStep, Respond, RespondChecks, RespondPosts, PostedCallRuns, EmitResult, requestVars
  <2>2. \A q \in Requests : task'[q] = "posted" => task[q] = "posted" \/ life[from[q]] = "alive"
    BY <1>5 DEF TaskStep, Respond, RespondChecks, RespondPosts, PostedCallRuns, EmitResult, Finish,
       Typed, DataType
  <2>. QED  BY <2>1, <2>2 DEF Reachable
<1>. QED  BY <1>1, <1>2, <1>3, <1>4, <1>5, ProviderCases

LEMMA NextSilent ==
  ASSUME Typed, Reachable, [ProviderNext]_providerVars,
         NEW r \in Requests, NEW s \in Sockets, life[s] # "alive"
  PROVE  answers'[r][s] = answers[r][s]
<1>1. ASSUME NEW q \in Requests, NEW t \in Sockets, life[t] = "alive", Tell(q, t)
      PROVE  answers'[r][s] = answers[r][s]
  BY <1>1, TellEffect DEF Typed
<1>2. CASE UNCHANGED providerVars \/ EnvironmentStep
  BY <1>2, EnvironmentEffect DEF providerVars, Typed
<1>3. ASSUME NEW t \in Sockets, NEW q \in Requests, NEW k \in Kinds, ProcessMessage(t, q, k)
      PROVE  answers'[r][s] = answers[r][s]
  <2>1. life[t] = "alive" /\ (UNCHANGED answers \/ Tell(q, t))
    BY <1>3 DEF ProcessMessage, Ignore, Reject, DispatchFails, CallMethod, BecomesCurrent, Received
  <2>. QED  BY <1>1, <2>1
<1>4. CASE MethodStep
  <2>. DEFINE q == Head(stack).req
  <2>1. stack # <<>>
    BY <1>4, MethodStack DEF Typed
  <2>2. q \in Requests /\ from[q] \in Sockets
    <3>1. 1 \in DOMAIN stack /\ Head(stack) = stack[1] /\ q \in Requests
      BY <2>1, TopFrame DEF Typed, StackType
    <3>2. kind[q] # "none"
      BY <3>1 DEF Typed, HasSocket
    <3>. QED  BY <3>1, <3>2, SocketOf DEF Typed
  <2>3. UNCHANGED answers \/ (life[from[q]] = "alive" /\ Tell(q, from[q]))
    BY <1>4 DEF MethodStep, BeginDelayedResponse, RunNestedLoop, NestedLoopReturns, MethodReturns, Returning, GivenSocket
  <2>. QED  BY <1>1, <2>2, <2>3
<1>5. ASSUME NEW q \in Requests, TaskStep(q)
      PROVE  answers'[r][s] = answers[r][s]
  <2>1. CASE EmitResult(q)
    BY <2>1, EmitEffect DEF Reachable, Typed
  <2>2. CASE ~EmitResult(q)
    <3>1. /\ task[q] # "none"
          /\ UNCHANGED answers \/ (life[from[q]] = "alive" /\ Tell(q, from[q]))
      BY <1>5, <2>2 DEF TaskStep, Respond, RespondChecks, RespondPosts, PostedCallRuns, SocketOpen,
         Reachable
    <3>2. from[q] \in Sockets
      BY <3>1, SocketOf DEF Typed, HasSocket
    <3>. QED  BY <1>1, <3>1, <3>2
  <2>. QED  BY <2>1, <2>2
<1>. QED  BY <1>2, <1>3, <1>4, <1>5, ProviderCases

\* No answer is written to a deleted socket, however late it comes: by respond, by
\* a posted call or by result().  The writes through a dangling pointer are
\* UseAfterFreeNeedsNesting's.
THEOREM ClosedSocketStaysSilentHolds == ProviderSpec => ClosedSocketStaysSilent
<1>. DEFINE Silent == \A r \in Requests, s \in Sockets :
                        life[s] = "deleted" => answers'[r][s] = answers[r][s]
<1>1. ProviderInit => Reachable
  BY DEF ProviderInit, Reachable
<1>2. ProviderTypeOK /\ HasSocket /\ Reachable /\ [ProviderNext]_providerVars => Reachable'
  BY NextReachable, TypeParts DEF Typed
<1>3. ProviderTypeOK /\ HasSocket /\ Reachable /\ [ProviderNext]_providerVars => [Silent]_providerVars
  BY NextSilent, TypeParts DEF Typed
<1>. QED  BY <1>1, <1>2, <1>3, TypeCorrect, PTL DEF ProviderSpec, ClosedSocketStaysSilent

-----------------------------------------------------------------------------
(* What a socket has been told.  The socket of a call is told something once *)
(* the call has been answered, by result() too: whoever emits the answer, it *)
(* goes to the sockets that wait for one.                                    *)

Heard == {s \in Sockets : \E r \in Requests : answers[r][s] > 0}

Wired ==
  \A r \in Requests :
    /\ kind[r] # "none" => life[from[r]] # "none"
    /\ kind[r] \in Calling /\ life[from[r]] = "alive" =>
         (from[r] \in resultTo /\ task[r] # "emitted") \/ from[r] \in Heard
    /\ kind[r] = "other" => from[r] \in Heard

LEMMA AnswersGrow ==
  ASSUME Typed, [ProviderNext]_providerVars
  PROVE  \A r \in Requests, s \in Sockets : answers'[r][s] >= answers[r][s]
<1>a. AnswersType
  BY DEF Typed
<1>1. ASSUME NEW q \in Requests, NEW t \in Sockets, Tell(q, t)
      PROVE  \A r \in Requests, s \in Sockets : answers'[r][s] >= answers[r][s]
  <2>1. \A r \in Requests, s \in Sockets : answers[r][s] \in Nat
    BY <1>a DEF AnswersType
  <2>. QED  BY <1>a, <1>1, <2>1, TellEffect
<1>2. ASSUME UNCHANGED answers
      PROVE  \A r \in Requests, s \in Sockets : answers'[r][s] >= answers[r][s]
  BY <1>a, <1>2 DEF AnswersType
<1>3. CASE UNCHANGED providerVars \/ EnvironmentStep
  <2>1. UNCHANGED answers
    BY <1>3, EnvironmentEffect DEF providerVars, Typed
  <2>. QED  BY <1>2, <2>1
<1>4. ASSUME NEW t \in Sockets, NEW q \in Requests, NEW k \in Kinds, ProcessMessage(t, q, k)
      PROVE  UNCHANGED answers \/ Tell(q, t)
  BY <1>4 DEF ProcessMessage, Ignore, Reject, DispatchFails, CallMethod
<1>5. ASSUME MethodStep
      PROVE  \E q \in Requests, t \in Sockets : UNCHANGED answers \/ Tell(q, t)
  <2>1. stack # <<>> /\ stack \in Seq(Frames)
    BY <1>5, MethodStack DEF Typed, StackType
  <2>2. PICK q \in Requests : q = Head(stack).req /\ kind[q] # "none"
    <3>1. 1 \in DOMAIN stack /\ Head(stack) = stack[1] /\ Head(stack).req \in Requests
      BY <2>1, TopFrame
    <3>. QED  BY <3>1 DEF Typed, HasSocket
  <2>3. from[q] \in Sockets
    BY <2>2, SocketOf DEF Typed
  <2>4. UNCHANGED answers \/ Tell(q, from[q])
    BY <1>5, <2>2 DEF MethodStep, BeginDelayedResponse, RunNestedLoop, NestedLoopReturns, MethodReturns,
       Returning, GivenSocket
  <2>. QED  BY <2>3, <2>4
<1>6. ASSUME NEW q \in Requests, TaskStep(q)
      PROVE  \A r \in Requests, s \in Sockets : answers'[r][s] >= answers[r][s]
  <2>1. \A r \in Requests, s \in Sockets : answers[r][s] \in Nat
    BY <1>a DEF AnswersType
  <2>2. CASE EmitResult(q)
    BY <1>a, <2>1, <2>2, EmitEffect
  <2>3. CASE ~EmitResult(q)
    <3>1. task[q] # "none" /\ (UNCHANGED answers \/ Tell(q, from[q]))
      BY <1>6, <2>3 DEF TaskStep, Respond, RespondChecks, RespondPosts, PostedCallRuns
    <3>2. from[q] \in Sockets
      BY <3>1, SocketOf DEF Typed, HasSocket
    <3>. QED  BY <1>1, <1>2, <3>1, <3>2
  <2>. QED  BY <2>2, <2>3
<1>. QED  BY <1>1, <1>2, <1>3, <1>4, <1>5, <1>6, ProviderCases

LEMMA StillHeard ==
  ASSUME Typed, [ProviderNext]_providerVars, NEW s \in Sockets, s \in Heard
  PROVE  s \in Heard'
<1>1. PICK r \in Requests : answers[r][s] > 0
  BY DEF Heard
<1>2. answers'[r][s] >= answers[r][s] /\ answers[r][s] \in Nat
  BY AnswersGrow DEF Typed, AnswersType
<1>3. AnswersType'
  BY NextType, TypeParts, TypePartsPrime DEF Typed
<1>4. answers'[r][s] \in Nat
  BY <1>3 DEF AnswersType
<1>5. answers'[r][s] > 0
  BY <1>1, <1>2, <1>4
<1>. QED  BY <1>5 DEF Heard

LEMMA NextWired ==
  ASSUME Typed, Wired, [ProviderNext]_providerVars
  PROVE  Wired'
<1>k. \A r \in Requests : kind[r] # "none" => from[r] \in Sockets
  BY SocketOf DEF Typed
<1>h. \A s \in Sockets : s \in Heard => s \in Heard'
  BY StillHeard
<1>c. \A k \in Calling : k # "none" /\ k # "other"
  BY DEF Calling
<1>1. ASSUME UNCHANGED <<kind, from, resultTo>>, UNCHANGED life,
             \A r \in Requests : task'[r] = "emitted" => task[r] = "emitted"
      PROVE  Wired'
  BY <1>1, <1>k, <1>h, <1>c DEF Wired
<1>2. CASE UNCHANGED providerVars
  BY <1>1, <1>2 DEF providerVars, requestVars
<1>3. CASE EnvironmentStep
  <2>1. CASE \E s \in Sockets : SocketCreated(s)
    <3>1. PICK s \in Sockets : SocketCreated(s)
      BY <2>1
    <3>2. /\ life[s] = "none" /\ life' = [life EXCEPT ![s] = "alive"]
          /\ UNCHANGED <<kind, from, resultTo, task>>
      BY <3>1 DEF SocketCreated, requestVars
    <3>3. \A t \in Sockets : life'[t] = IF t = s THEN "alive" ELSE life[t]
      BY <3>2 DEF Typed, DataType
    <3>. QED  BY <3>2, <3>3, <1>k, <1>h, <1>c DEF Wired
  <2>2. CASE \E S \in SUBSET Sockets : SocketsDeleted(S)
    <3>1. PICK S \in SUBSET Sockets : SocketsDeleted(S)
      BY <2>2
    <3>2. /\ life' = [s \in Sockets |-> IF s \in S /\ life[s] = "alive" THEN "deleted" ELSE life[s]]
          /\ resultTo' = resultTo \ S /\ UNCHANGED <<kind, from>>
          /\ task' = [r \in Requests |-> IF task[r] = "posted" /\ from[r] \in S THEN "done" ELSE task[r]]
      BY <3>1 DEF SocketsDeleted, requestVars
    <3>3. \A t \in Sockets : /\ life[t] # "none" => life'[t] # "none"
                             /\ life'[t] = "alive" => life[t] = "alive" /\ t \notin S
      BY <3>2
    <3>4. \A r \in Requests : task'[r] = "emitted" => task[r] = "emitted"
      BY <3>2
    <3>. QED  BY <3>2, <3>3, <3>4, <1>k, <1>h, <1>c DEF Wired
  <2>3. CASE AddService \/ RemoveService
    BY <1>1, <2>3 DEF AddService, RemoveService, requestVars
  <2>. QED  BY <1>3, <2>1, <2>2, <2>3 DEF EnvironmentStep
<1>4. ASSUME NEW s \in Sockets, NEW r \in Requests, NEW k \in Kinds, ProcessMessage(s, r, k)
      PROVE  Wired'
  <2>1. /\ Received(s, r, k) /\ life[s] = "alive" /\ kind[r] = "none" /\ UNCHANGED <<life, task>>
        /\ resultTo' \in {resultTo, resultTo \cup {s}}
        /\ k \in Calling => s \in resultTo' \/ Tell(r, s)
        /\ k = "other" => Tell(r, s)
    BY <1>4 DEF ProcessMessage, Ignore, Reject, DispatchFails, CallMethod, BecomesCurrent, Received, Calling, Notifying
  <2>2. /\ \A q \in Requests : kind[q] # "none" => kind'[q] = kind[q] /\ from'[q] = from[q]
        /\ kind'[r] = k /\ from'[r] = s
        /\ \A q \in Requests : q # r => kind'[q] = kind[q] /\ from'[q] = from[q]
    BY <2>1, ReceivedType DEF Typed, Received, Noted, DataType
  <2>3. task[r] # "emitted"
    BY <2>1 DEF Typed, HasSocket
  <2>4. Tell(r, s) => s \in Heard'
    <3>. SUFFICES ASSUME Tell(r, s) PROVE s \in Heard'
      OBVIOUS
    <3>1. answers'[r][s] = answers[r][s] + 1 /\ answers[r][s] \in Nat
      BY TellEffect DEF Typed, AnswersType
    <3>2. answers'[r][s] > 0
      BY <3>1
    <3>. QED  BY <3>2 DEF Heard
  <2>5. ASSUME NEW q \in Requests
        PROVE  /\ kind'[q] # "none" => life'[from'[q]] # "none"
               /\ kind'[q] \in Calling /\ life'[from'[q]] = "alive" =>
                    (from'[q] \in resultTo' /\ task'[q] # "emitted") \/ from'[q] \in Heard'
               /\ kind'[q] = "other" => from'[q] \in Heard'
    <3>1. CASE q = r
      BY <2>1, <2>2, <2>3, <2>4, <3>1
    <3>2. CASE q # r /\ kind[q] # "none"
      <4>1. kind'[q] = kind[q] /\ from'[q] = from[q] /\ from[q] \in Sockets
        BY <1>k, <2>2, <3>2
      <4>2. from[q] \in Heard => from'[q] \in Heard'
        BY <1>h, <4>1
      <4>. QED  BY <2>1, <3>2, <4>1, <4>2 DEF Wired
    <3>3. CASE q # r /\ kind[q] = "none"
      BY <1>c, <2>2, <3>3
    <3>. QED  BY <3>1, <3>2, <3>3
  <2>. QED  BY <2>5 DEF Wired
<1>5. CASE MethodStep
  <2>1. UNCHANGED <<life, kind, from, resultTo>>
    BY <1>5, MethodStack DEF Typed
  <2>2. \A q \in Requests : task'[q] = "emitted" => task[q] = "emitted"
    BY <1>5 DEF MethodStep, BeginDelayedResponse, RunNestedLoop, NestedLoopReturns, MethodReturns, Typed, DataType
  <2>. QED  BY <1>1, <2>1, <2>2
<1>6. ASSUME NEW r \in Requests, TaskStep(r) PROVE Wired'
  <2>1. CASE ~EmitResult(r)
    <3>1. UNCHANGED <<life, kind, from, resultTo>>
      BY <1>6, <2>1 DEF TaskStep, Respond, RespondChecks, RespondPosts, PostedCallRuns, requestVars
    <3>2. \A q \in Requests : task'[q] = "emitted" => task[q] = "emitted"
      BY <1>6, <2>1 DEF TaskStep, Respond, RespondChecks, RespondPosts, PostedCallRuns, Finish, Typed, DataType
    <3>. QED  BY <1>1, <3>1, <3>2
  <2>2. CASE EmitResult(r)
    <3>1. UNCHANGED <<life, kind, from>>
      BY <2>2 DEF EmitResult, requestVars
    <3>2. \A s \in resultTo : s \in Heard'
      <4>. SUFFICES ASSUME NEW s \in resultTo PROVE s \in Heard'
        OBVIOUS
      <4>1. s \in Sockets
        BY DEF Typed, DataType
      <4>2. answers'[r][s] = answers[r][s] + 1 /\ answers[r][s] \in Nat
        BY <2>2, <4>1, EmitEffect DEF Typed, AnswersType
      <4>3. answers'[r][s] > 0
        BY <4>2
      <4>. QED  BY <4>1, <4>3 DEF Heard
    <3>3. ASSUME NEW q \in Requests, kind[q] \in Calling, life[from[q]] = "alive" PROVE from[q] \in Heard'
      <4>1. from[q] \in Sockets
        BY <1>c, <1>k, <3>3
      <4>2. from[q] \in resultTo \/ from[q] \in Heard
        BY <3>3 DEF Wired
      <4>. QED  BY <1>h, <3>2, <4>1, <4>2
    <3>4. ASSUME NEW q \in Requests, kind[q] = "other" PROVE from[q] \in Heard'
      BY <1>h, <1>k, <3>4 DEF Wired
    <3>5. \A q \in Requests : kind'[q] # "none" => life'[from'[q]] # "none"
      BY <3>1 DEF Wired
    <3>. QED  BY <3>1, <3>3, <3>4, <3>5 DEF Wired
  <2>. QED  BY <2>1, <2>2
<1>. QED  BY <1>2, <1>3, <1>4, <1>5, <1>6, ProviderCases
LEMMA WiredHolds == ProviderSpec => [](Wired /\ Reachable)
<1>1. ProviderInit => Wired /\ Reachable
  BY DEF ProviderInit, Wired, Reachable, Calling
<1>2. ProviderTypeOK /\ HasSocket /\ Wired /\ Reachable /\ [ProviderNext]_providerVars => Wired' /\ Reachable'
  BY NextWired, NextReachable, TypeParts DEF Typed
<1>. QED  BY <1>1, <1>2, TypeCorrect, PTL DEF ProviderSpec
=============================================================================
