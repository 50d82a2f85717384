------------------------ MODULE QJsonRpcSocket_proof ------------------------
(***************************************************************************)
(* Proofs about module QJsonRpcSocket, for every set of calls, every       *)
(* assignment of ids, every peer and every nesting of blocking calls.      *)
(***************************************************************************)
EXTENDS QJsonRpcSocket, TLAPS

-----------------------------------------------------------------------------
(* The stack operations stay within sequences of frames. *)

LEMMA PushIsSeq ==
  ASSUME NEW S, NEW s \in Seq(S), NEW x \in S
  PROVE  <<x>> \o s \in Seq(S)
  OBVIOUS

LEMMA TopIsFrame ==
  ASSUME stack \in Seq(Frames), NEW at, At(at)
  PROVE  /\ Head(stack) \in Frames
         /\ Tail(stack) \in Seq(Frames)
         /\ Head(stack).at = at
  BY DEF At

LEMMA GotoIsSeq ==
  ASSUME stack \in Seq(Frames),
         stack # <<>>, Head(stack) \in DispatchFrames,
         NEW at \in {"loop", "received", "finished"}, Goto(at)
  PROVE  stack' \in Seq(Frames)
<1>1. [Head(stack) EXCEPT !.at = at] \in Frames
  BY DEF Frames, DispatchFrames
<1>2. Tail(stack) \in Seq(Frames)
  OBVIOUS
<1>. QED  BY <1>1, <1>2, PushIsSeq DEF Goto

LEMMA DispatchTop ==
  ASSUME stack \in Seq(Frames), NEW at \in {"loop", "received", "finished"}, At(at)
  PROVE  Head(stack) \in DispatchFrames
  BY TopIsFrame DEF Frames, WaitFrames

LEMMA WaitTop ==
  ASSUME stack \in Seq(Frames), At("wait")
  PROVE  Head(stack) \in WaitFrames
  BY TopIsFrame DEF Frames, DispatchFrames

-----------------------------------------------------------------------------
(* Type correctness. *)

LEMMA EmptyIsSeq ==
  ASSUME NEW S
  PROVE  <<>> \in Seq(S)
  OBVIOUS

LEMMA InitType == Init => TypeOK
<1>. SUFFICES ASSUME Init PROVE TypeOK
  OBVIOUS
<1>1. stack \in Seq(Frames) /\ buffer \in Seq(Docs) /\ devbuf \in Seq(Docs) /\ wire \in Seq(Docs)
  BY EmptyIsSeq DEF Init
<1>2. extra \in 0..MaxExtra
  BY ConstantsAssumption DEF ConstantsAssumption, Init
<1>3. /\ replies \in [Ids -> Calls \cup {NoCall}]
      /\ reply \in [Calls -> {"none", "alive", "deleted"}]
      /\ finished \in [Calls -> Nat]
      /\ result \in [Calls -> {"none", "answer", "timeout"}]
  BY DEF Init
<1>4. quit \subseteq Blocking /\ owed \subseteq Calls /\ device \in BOOLEAN /\ crashed \in BOOLEAN
  BY DEF Init
<1>. QED  BY <1>1, <1>2, <1>3, <1>4 DEF TypeOK

\* The parts of the type invariant that the table and the replies need.
TableOK ==
  /\ replies \in [Ids -> Calls \cup {NoCall}]
  /\ reply \in [Calls -> {"none", "alive", "deleted"}]
  /\ finished \in [Calls -> Nat]
  /\ result \in [Calls -> {"none", "answer", "timeout"}]
  /\ quit \subseteq Blocking

\* The parts about sequences.
QueuesOK ==
  /\ stack \in Seq(Frames)
  /\ buffer \in Seq(Docs)
  /\ devbuf \in Seq(Docs)
  /\ wire \in Seq(Docs)

RestOK ==
  /\ device \in BOOLEAN
  /\ crashed \in BOOLEAN
  /\ owed \subseteq Calls
  /\ extra \in 0..MaxExtra

LEMMA TypeParts == TypeOK <=> TableOK /\ QueuesOK /\ RestOK
  BY DEF TypeOK, TableOK, QueuesOK, RestOK

LEMMA TypePartsPrime == TypeOK' <=> TableOK' /\ QueuesOK' /\ RestOK'
  BY DEF TypeOK, TableOK, QueuesOK, RestOK

LEMMA IdOfIsId ==
  ASSUME NEW c \in Calls
  PROVE  IdOf[c] \in Ids
  BY ConstantsAssumption DEF ConstantsAssumption

LEMMA BlockingIsCall == Blocking \subseteq Calls
  BY ConstantsAssumption DEF ConstantsAssumption

LEMMA CallStepType ==
  ASSUME TypeOK, NEW c \in Calls, CallStep(c)
  PROVE  TypeOK'
<1>t. TableOK /\ QueuesOK /\ RestOK
  BY TypeParts
<1>1. CASE SendMessage(c)
  <2>1. TableOK'
    BY <1>t, <1>1, IdOfIsId DEF TableOK, SendMessage, Register
  <2>2. QueuesOK' /\ RestOK'
    BY <1>t, <1>1 DEF QueuesOK, RestOK, SendMessage, Register
  <2>. QED  BY <2>1, <2>2, TypePartsPrime
<1>2. CASE SendMessageBlocking(c)
  <2>1. c \in Blocking /\ stack' = <<Frame("wait", c, NoId)>> \o stack
    BY <1>2 DEF SendMessageBlocking, Push
  <2>2. Frame("wait", c, NoId) \in Frames
    BY <2>1 DEF Frame, Frames, WaitFrames
  <2>3. QueuesOK'
    BY <1>t, <1>2, <2>1, <2>2, PushIsSeq DEF QueuesOK, SendMessageBlocking
  <2>4. TableOK'
    BY <1>t, <1>2, IdOfIsId DEF TableOK, SendMessageBlocking, Register
  <2>5. RestOK'
    BY <1>t, <1>2 DEF RestOK, SendMessageBlocking, Register
  <2>. QED  BY <2>3, <2>4, <2>5, TypePartsPrime
<1>3. CASE RequestTimer(c)
  <2>1. c \in Blocking
    BY <1>t, <1>3 DEF QueuesOK, RequestTimer, Waiting, Frames, WaitFrames, DispatchFrames
  <2>2. TableOK' /\ QueuesOK' /\ RestOK'
    BY <1>t, <1>3, <2>1 DEF RequestTimer, TableOK, QueuesOK, RestOK
  <2>. QED  BY <2>2, TypePartsPrime
<1>4. CASE DeleteReply(c)
  <2>1. TableOK' /\ QueuesOK' /\ RestOK'
    BY <1>t, <1>4 DEF DeleteReply, TableOK, QueuesOK, RestOK
  <2>. QED  BY <2>1, TypePartsPrime
<1>5. CASE PeerAnswers(c)
  <2>1. AnswerDoc(IdOf[c]) \in Docs
    BY IdOfIsId DEF Docs
  <2>2. QueuesOK'
    BY <1>t, <1>5, <2>1 DEF QueuesOK, PeerAnswers, socketVars
  <2>3. TableOK' /\ RestOK'
    BY <1>t, <1>5 DEF TableOK, RestOK, PeerAnswers, socketVars
  <2>. QED  BY <2>2, <2>3, TypePartsPrime
<1>. QED  BY <1>1, <1>2, <1>3, <1>4, <1>5 DEF CallStep

LEMMA ReturnType ==
  ASSUME TypeOK, BlockingCallReturns
  PROVE  TypeOK'
<1>t. TableOK /\ QueuesOK /\ RestOK
  BY TypeParts
<1>1. Head(stack) \in WaitFrames /\ Tail(stack) \in Seq(Frames)
  BY <1>t, WaitTop, TopIsFrame DEF BlockingCallReturns, QueuesOK
<1>2. Head(stack).call \in Calls /\ IdOf[Head(stack).call] \in Ids
  BY <1>1, BlockingIsCall, IdOfIsId DEF WaitFrames
<1>3. TableOK'
  BY <1>t, <1>2 DEF BlockingCallReturns, ForgetRequest, TableOK
<1>4. QueuesOK' /\ RestOK'
  BY <1>t, <1>1 DEF BlockingCallReturns, Pop, QueuesOK, RestOK
<1>. QED  BY <1>3, <1>4, TypePartsPrime

LEMMA TakeDocumentType ==
  ASSUME QueuesOK, TakeDocument
  PROVE  QueuesOK'
<1>1. Tail(stack) \in Seq(Frames)
  BY TopIsFrame DEF TakeDocument, QueuesOK
<1>2. CASE LoopEnds
  BY <1>1, <1>2 DEF TakeDocument, Pop, QueuesOK
<1>3. CASE ~LoopEnds
  <2>1. Head(buffer) \in Docs /\ Tail(buffer) \in Seq(Docs)
    BY <1>3 DEF LoopEnds, QueuesOK
  <2>2. Head(buffer).id \in Ids \cup {NoId}
    BY <2>1 DEF Docs, AnswerDoc, OtherDocs
  <2>3. Frame("received", NoCall, Head(buffer).id) \in Frames
    BY <2>2 DEF Frame, Frames, DispatchFrames
  <2>4. \/ stack' = stack
        \/ stack' = <<Frame("received", NoCall, Head(buffer).id)>> \o Tail(stack)
    BY <1>3 DEF TakeDocument
  <2>5. stack' \in Seq(Frames)
    BY <1>1, <2>3, <2>4, PushIsSeq DEF QueuesOK
  <2>. QED  BY <1>3, <2>1, <2>5 DEF TakeDocument, QueuesOK
<1>. QED  BY <1>2, <1>3

LEMMA DispatchTable ==
  ASSUME TableOK, DispatchAnswer, Head(stack).id \in Ids \cup {NoId}
  PROVE  TableOK'
<1>. DEFINE i == Head(stack).id
            c == replies[i]
<1>1. CASE i = NoId \/ replies[i] = NoCall
  BY <1>1 DEF DispatchAnswer, TableOK
<1>2. CASE ~(i = NoId \/ replies[i] = NoCall)
  <2>1. i \in Ids /\ c \in Calls
    BY <1>2 DEF TableOK
  <2>2. replies' = [replies EXCEPT ![i] = NoCall]
    BY <1>2 DEF DispatchAnswer, TakeEntry
  <2>3. \/ finished' = [finished EXCEPT ![c] = @ + 1] /\ FinishedSlots(c)
        \/ UNCHANGED <<finished, quit>>
    BY <1>2 DEF DispatchAnswer
  <2>4. quit' \subseteq Blocking
    BY <2>3 DEF FinishedSlots, TableOK
  <2>5. finished' \in [Calls -> Nat]
    BY <2>1, <2>3 DEF TableOK
  <2>6. UNCHANGED <<reply, result>>
    BY DEF DispatchAnswer
  <2>. QED  BY <2>1, <2>2, <2>4, <2>5, <2>6 DEF TableOK
<1>. QED  BY <1>1, <1>2

LEMMA DataStepType ==
  ASSUME TypeOK, DataStep
  PROVE  TypeOK'
<1>t. TableOK /\ QueuesOK /\ RestOK
  BY TypeParts
<1>1. CASE ReadyRead
  <2>1. Frame("loop", NoCall, NoId) \in Frames
    BY DEF Frame, Frames, DispatchFrames
  <2>2. stack' \in Seq(Frames)
    BY <1>t, <1>1, <2>1, PushIsSeq DEF ReadyRead, Push, QueuesOK
  <2>3. buffer' \in Seq(Docs) /\ devbuf' \in Seq(Docs) /\ wire' \in Seq(Docs)
    BY <1>t, <1>1 DEF ReadyRead, QueuesOK
  <2>4. TableOK' /\ RestOK'
    BY <1>t, <1>1 DEF ReadyRead, TableOK, RestOK
  <2>. QED  BY <2>2, <2>3, <2>4, TypePartsPrime DEF QueuesOK
<1>2. CASE ReadSilently
  <2>1. TableOK' /\ QueuesOK' /\ RestOK'
    BY <1>t, <1>2 DEF ReadSilently, TableOK, QueuesOK, RestOK
  <2>. QED  BY <2>1, TypePartsPrime
<1>3. CASE TakeDocument
  <2>1. TableOK' /\ RestOK'
    BY <1>t, <1>3 DEF TakeDocument, TableOK, RestOK
  <2>. QED  BY <1>t, <1>3, <2>1, TakeDocumentType, TypePartsPrime
<1>4. CASE DispatchAnswer
  <2>1. Head(stack) \in DispatchFrames /\ stack # <<>>
    BY <1>t, <1>4, DispatchTop DEF DispatchAnswer, At, QueuesOK
  <2>2. \/ Goto("loop")
        \/ Goto("finished")
    BY <1>4 DEF DispatchAnswer, FinishedSlots
  <2>3. stack' \in Seq(Frames)
    BY <1>t, <2>1, <2>2, GotoIsSeq DEF QueuesOK
  <2>4. QueuesOK' /\ RestOK'
    BY <1>t, <1>4, <2>3 DEF DispatchAnswer, QueuesOK, RestOK
  <2>5. TableOK'
    BY <1>t, <1>4, <2>1, DispatchTable DEF DispatchFrames
  <2>. QED  BY <2>4, <2>5, TypePartsPrime
<1>5. CASE FinishedReturns
  <2>1. Head(stack) \in DispatchFrames /\ stack # <<>>
    BY <1>t, <1>5, DispatchTop DEF FinishedReturns, At, QueuesOK
  <2>2. stack' \in Seq(Frames)
    BY <1>t, <1>5, <2>1, GotoIsSeq DEF FinishedReturns, QueuesOK
  <2>3. TableOK' /\ QueuesOK' /\ RestOK'
    BY <1>t, <1>5, <2>2 DEF FinishedReturns, TableOK, QueuesOK, RestOK
  <2>. QED  BY <2>3, TypePartsPrime
<1>. QED  BY <1>1, <1>2, <1>3, <1>4, <1>5 DEF DataStep

LEMMA NextType == TypeOK /\ [Next]_vars => TypeOK'
<1>. SUFFICES ASSUME TypeOK, [Next]_vars PROVE TypeOK'
  OBVIOUS
<1>1. CASE \E c \in Calls : CallStep(c)
  BY <1>1, CallStepType
<1>2. CASE BlockingCallReturns
  BY <1>2, ReturnType
<1>3. CASE DataStep
  BY <1>3, DataStepType
<1>4. CASE DeviceDestroyed
  <2>1. devbuf' \in Seq(Docs) /\ wire' \in Seq(Docs)
    BY <1>4, EmptyIsSeq DEF DeviceDestroyed
  <2>. QED  BY <1>4, <2>1 DEF DeviceDestroyed, socketVars, peerVars, TypeOK
<1>5. CASE \E doc \in PeerDocs : PeerSends(doc)
  BY <1>5, ConstantsAssumption DEF ConstantsAssumption, PeerSends, socketVars, TypeOK
<1>6. CASE UNCHANGED vars
  BY <1>6 DEF vars, socketVars, peerVars, TypeOK
<1>. QED  BY <1>1, <1>2, <1>3, <1>4, <1>5, <1>6 DEF Next

\* Every state of the socket is well typed: the table only ever refers to
\* calls, and only blocking calls have a frame on the stack.
THEOREM TypeCorrect == Spec => []TypeOK
<1>. QED  BY InitType, NextType, PTL DEF Spec

-----------------------------------------------------------------------------
(* The inductive invariant of the table and the replies.  AtMostOneFinish is *)
(* not inductive alone: a reply completes when the table leads to it, so one *)
(* needs that an entry only leads to a reply that has not completed, and     *)
(* TimeoutMeansUnanswered needs that a call that has returned has no reply   *)
(* left to complete.                                                         *)

EntriesArePending ==
  \A i \in Ids : replies[i] # NoCall =>
    /\ IdOf[replies[i]] = i
    /\ reply[replies[i]] # "none"
    /\ finished[replies[i]] = 0

RepliesAreSane ==
  \A c \in Calls :
    /\ finished[c] <= 1
    /\ reply[c] = "none" => finished[c] = 0
    /\ result[c] # "none" => c \in Blocking /\ reply[c] = "deleted"

IInv ==
  /\ TableOK
  /\ EntriesArePending
  /\ RepliesAreSane
  /\ OrphanHasTwin
  /\ NoEntryOutlivesBlockingCall
  /\ TimeoutMeansUnanswered

tableVars == <<replies, reply, finished, result>>

LEMMA InitIInv == Init => IInv
  BY ConstantsAssumption, InitType, TypeParts
     DEF ConstantsAssumption, Init, IInv, EntriesArePending, RepliesAreSane, OrphanHasTwin,
         Pending, NoEntryOutlivesBlockingCall, TimeoutMeansUnanswered

\* A step that leaves the table and the replies alone keeps the invariant.
LEMMA UnchangedIInv ==
  ASSUME IInv, TableOK', UNCHANGED tableVars
  PROVE  IInv'
  BY DEF IInv, tableVars, EntriesArePending, RepliesAreSane, OrphanHasTwin, Pending, Twins,
         NoEntryOutlivesBlockingCall, TimeoutMeansUnanswered

LEMMA RegisterIInv ==
  ASSUME IInv, TableOK', NEW c \in Calls, Register(c), result[c] = "none",
         UNCHANGED <<finished, result>>
  PROVE  IInv'
<1>1. IdOf[c] \in Ids /\ c # NoCall
  BY ConstantsAssumption DEF ConstantsAssumption
<1>2. /\ reply[c] = "none" /\ finished[c] = 0
      /\ reply' = [reply EXCEPT ![c] = "alive"]
      /\ replies' = [replies EXCEPT ![IdOf[c]] = c]
  BY DEF Register, IInv, RepliesAreSane
<1>3. EntriesArePending'
  BY <1>1, <1>2 DEF IInv, TableOK, EntriesArePending
<1>4. RepliesAreSane'
  BY <1>1, <1>2 DEF IInv, TableOK, RepliesAreSane
<1>5. OrphanHasTwin'
  <2>. SUFFICES ASSUME NEW d \in Calls, Pending(d)', replies'[IdOf[d]] # d
                PROVE  \E e \in Twins(d) : reply'[e] # "none"
    BY DEF OrphanHasTwin, Twins
  <2>1. d # c
    BY <1>1, <1>2 DEF IInv, TableOK
  <2>2. Pending(d)
    BY <1>2, <2>1 DEF Pending, IInv, TableOK
  <2>3. CASE IdOf[d] = IdOf[c]
    BY <1>2, <2>1, <2>3 DEF Twins, IInv, TableOK
  <2>4. CASE IdOf[d] # IdOf[c]
    <3>1. replies[IdOf[d]] # d
      BY <1>1, <1>2, <2>4, IdOfIsId DEF IInv, TableOK
    <3>2. PICK e \in Twins(d) : reply[e] # "none"
      BY <2>2, <3>1 DEF IInv, OrphanHasTwin
    <3>. QED  BY <1>2, <3>2 DEF Twins, IInv, TableOK
  <2>. QED  BY <2>3, <2>4
<1>6. NoEntryOutlivesBlockingCall'
  BY <1>1, <1>2, BlockingIsCall DEF IInv, TableOK, NoEntryOutlivesBlockingCall
<1>7. TimeoutMeansUnanswered'
  BY DEF IInv, TimeoutMeansUnanswered
<1>. QED  BY <1>3, <1>4, <1>5, <1>6, <1>7 DEF IInv

LEMMA DeleteIInv ==
  ASSUME IInv, TableOK', NEW c \in Calls, DeleteReply(c)
  PROVE  IInv'
<1>1. /\ c \notin Blocking /\ reply[c] = "alive"
      /\ reply' = [reply EXCEPT ![c] = "deleted"]
      /\ UNCHANGED <<replies, finished, result>>
  BY DEF DeleteReply
<1>2. EntriesArePending' /\ RepliesAreSane' /\ TimeoutMeansUnanswered'
  BY <1>1 DEF IInv, TableOK, EntriesArePending, RepliesAreSane, TimeoutMeansUnanswered
<1>3. NoEntryOutlivesBlockingCall'
  BY <1>1, BlockingIsCall DEF IInv, TableOK, NoEntryOutlivesBlockingCall
<1>4. OrphanHasTwin'
  <2>. SUFFICES ASSUME NEW d \in Calls, Pending(d)', replies'[IdOf[d]] # d
                PROVE  \E e \in Twins(d) : reply'[e] # "none"
    BY DEF OrphanHasTwin, Twins
  <2>1. Pending(d) /\ replies[IdOf[d]] # d
    BY <1>1 DEF Pending, IInv, TableOK
  <2>2. PICK e \in Twins(d) : reply[e] # "none"
    BY <2>1 DEF IInv, OrphanHasTwin
  <2>. QED  BY <1>1, <2>2 DEF Twins, IInv, TableOK
<1>. QED  BY <1>2, <1>3, <1>4 DEF IInv

LEMMA ReturnIInv ==
  ASSUME IInv, TableOK', BlockingCallReturns, Head(stack) \in WaitFrames
  PROVE  IInv'
<1>. DEFINE c == Head(stack).call
<1>1. c \in Blocking /\ c \in Calls /\ IdOf[c] \in Ids
  BY BlockingIsCall, IdOfIsId DEF WaitFrames
<1>2. CASE reply[c] = "none"
  BY <1>2, UnchangedIInv DEF BlockingCallReturns, tableVars
<1>3. CASE reply[c] # "none"
  <2>1. /\ reply' = [reply EXCEPT ![c] = "deleted"]
        /\ UNCHANGED finished
        /\ \/ finished[c] > 0 /\ result' = [result EXCEPT ![c] = "answer"] /\ replies' = replies
           \/ /\ ~(finished[c] > 0) /\ result' = [result EXCEPT ![c] = "timeout"]
              /\ replies' = [replies EXCEPT ![IdOf[c]] = NoCall]
    BY <1>3 DEF BlockingCallReturns, HasResponse, ForgetRequest
  <2>2. \A i \in Ids : replies'[i] = replies[i] \/ replies'[i] = NoCall
    BY <1>1, <2>1 DEF IInv, TableOK
  <2>3. \A i \in Ids : replies'[i] # c \/ c = NoCall
    BY <1>1, <2>1 DEF IInv, TableOK, EntriesArePending
  <2>4. c # NoCall
    BY <1>1, ConstantsAssumption DEF ConstantsAssumption
  <2>5. EntriesArePending'
    BY <2>1, <2>2, <2>3, <2>4 DEF IInv, TableOK, EntriesArePending
  <2>6. RepliesAreSane' /\ TimeoutMeansUnanswered'
    BY <1>1, <2>1, BlockingIsCall DEF IInv, TableOK, RepliesAreSane, TimeoutMeansUnanswered
  <2>7. NoEntryOutlivesBlockingCall'
    BY <2>1, <2>2, <2>3, <2>4, BlockingIsCall, ConstantsAssumption
       DEF IInv, TableOK, NoEntryOutlivesBlockingCall, ConstantsAssumption
  <2>8. OrphanHasTwin'
    <3>. SUFFICES ASSUME NEW d \in Calls, Pending(d)', replies'[IdOf[d]] # d
                  PROVE  \E e \in Twins(d) : reply'[e] # "none"
      BY DEF OrphanHasTwin, Twins
    <3>1. d # c /\ Pending(d)
      BY <1>1, <2>1 DEF Pending, IInv, TableOK
    <3>2. CASE IdOf[d] = IdOf[c]
      BY <1>1, <2>1, <3>1, <3>2 DEF Twins, IInv, TableOK
    <3>3. CASE IdOf[d] # IdOf[c]
      <4>1. replies[IdOf[d]] # d
        BY <1>1, <2>1, <3>3, IdOfIsId DEF IInv, TableOK
      <4>2. PICK e \in Twins(d) : reply[e] # "none"
        BY <3>1, <4>1 DEF IInv, OrphanHasTwin
      <4>. QED  BY <1>1, <2>1, <4>2 DEF Twins, IInv, TableOK
    <3>. QED  BY <3>2, <3>3
  <2>. QED  BY <2>5, <2>6, <2>7, <2>8 DEF IInv
<1>. QED  BY <1>2, <1>3

LEMMA DispatchIInv ==
  ASSUME IInv, TableOK', DispatchAnswer, Head(stack).id \in Ids \cup {NoId}
  PROVE  IInv'
<1>. DEFINE i == Head(stack).id
            c == replies[i]
<1>1. CASE i = NoId \/ replies[i] = NoCall
  BY <1>1, UnchangedIInv DEF DispatchAnswer, tableVars
<1>2. CASE ~(i = NoId \/ replies[i] = NoCall)
  <2>1. i \in Ids /\ c \in Calls /\ c # NoCall
    BY <1>2 DEF IInv, TableOK
  <2>2. IdOf[c] = i /\ reply[c] # "none" /\ finished[c] = 0
    BY <2>1 DEF IInv, EntriesArePending
  <2>3. /\ replies' = [replies EXCEPT ![i] = NoCall]
        /\ UNCHANGED <<reply, result>>
        /\ \/ reply[c] = "alive" /\ finished' = [finished EXCEPT ![c] = @ + 1]
           \/ reply[c] # "alive" /\ UNCHANGED finished
    BY <1>2 DEF DispatchAnswer, TakeEntry, ReplyExists
  <2>4. EntriesArePending'
    BY <2>1, <2>2, <2>3 DEF IInv, TableOK, EntriesArePending
  <2>5. RepliesAreSane' /\ TimeoutMeansUnanswered'
    BY <2>1, <2>2, <2>3, BlockingIsCall DEF IInv, TableOK, RepliesAreSane, TimeoutMeansUnanswered
  <2>6. NoEntryOutlivesBlockingCall'
    BY <2>1, <2>3, BlockingIsCall, ConstantsAssumption
       DEF IInv, TableOK, NoEntryOutlivesBlockingCall, ConstantsAssumption
  <2>7. OrphanHasTwin'
    <3>. SUFFICES ASSUME NEW d \in Calls, Pending(d)', replies'[IdOf[d]] # d
                  PROVE  \E e \in Twins(d) : reply'[e] # "none"
      BY DEF OrphanHasTwin, Twins
    <3>1. d # c /\ Pending(d)
      BY <2>1, <2>2, <2>3 DEF Pending, IInv, TableOK
    <3>2. CASE IdOf[d] = i
      BY <2>1, <2>2, <2>3, <3>1, <3>2 DEF Twins
    <3>3. CASE IdOf[d] # i
      <4>1. replies[IdOf[d]] # d
        BY <2>1, <2>3, <3>3, IdOfIsId DEF IInv, TableOK
      <4>2. PICK e \in Twins(d) : reply[e] # "none"
        BY <3>1, <4>1 DEF IInv, OrphanHasTwin
      <4>. QED  BY <2>3, <4>2
    <3>. QED  BY <3>2, <3>3
  <2>. QED  BY <2>4, <2>5, <2>6, <2>7 DEF IInv
<1>. QED  BY <1>1, <1>2

LEMMA NextIInv == TypeOK /\ TypeOK' /\ IInv /\ [Next]_vars => IInv'
<1>. SUFFICES ASSUME TypeOK, TypeOK', IInv, [Next]_vars PROVE IInv'
  OBVIOUS
<1>t. TableOK' /\ stack \in Seq(Frames)
  BY TypePartsPrime DEF TypeOK
<1>1. ASSUME NEW c \in Calls, SendMessage(c) PROVE IInv'
  <2>1. result[c] = "none"
    BY <1>1 DEF SendMessage, Register, IInv, RepliesAreSane
  <2>. QED  BY <1>t, <1>1, <2>1, RegisterIInv DEF SendMessage
<1>2. ASSUME NEW c \in Calls, SendMessageBlocking(c) PROVE IInv'
  <2>1. CASE device
    BY <1>t, <1>2, <2>1, RegisterIInv DEF SendMessageBlocking
  <2>2. CASE ~device
    BY <1>t, <1>2, <2>2, UnchangedIInv DEF SendMessageBlocking, tableVars
  <2>. QED  BY <2>1, <2>2
<1>3. ASSUME NEW c \in Calls, DeleteReply(c) PROVE IInv'
  BY <1>t, <1>3, DeleteIInv
<1>4. ASSUME NEW c \in Calls, RequestTimer(c) \/ PeerAnswers(c) PROVE IInv'
  BY <1>t, <1>4, UnchangedIInv DEF RequestTimer, PeerAnswers, socketVars, tableVars
<1>5. CASE BlockingCallReturns
  BY <1>t, <1>5, WaitTop, ReturnIInv DEF BlockingCallReturns
<1>6. CASE DispatchAnswer
  <2>1. Head(stack) \in DispatchFrames
    BY <1>t, <1>6, DispatchTop DEF DispatchAnswer
  <2>. QED  BY <1>t, <1>6, <2>1, DispatchIInv DEF DispatchFrames
<1>7. CASE ReadyRead \/ ReadSilently \/ TakeDocument \/ FinishedReturns
  BY <1>t, <1>7, UnchangedIInv DEF ReadyRead, ReadSilently, TakeDocument, FinishedReturns, tableVars
<1>8. CASE DeviceDestroyed \/ \E doc \in PeerDocs : PeerSends(doc)
  BY <1>t, <1>8, UnchangedIInv DEF DeviceDestroyed, PeerSends, socketVars, tableVars
<1>9. CASE UNCHANGED vars
  BY <1>t, <1>9, UnchangedIInv DEF vars, socketVars, tableVars
<1>. QED  BY <1>1, <1>2, <1>3, <1>4, <1>5, <1>6, <1>7, <1>8, <1>9 DEF Next, CallStep, DataStep

LEMMA IInvHolds == Spec => []IInv
<1>1. Init => TypeOK /\ IInv
  BY InitType, InitIInv
<1>2. (TypeOK /\ IInv) /\ [Next]_vars => (TypeOK /\ IInv)'
  BY NextType, NextIInv
<1>. QED  BY <1>1, <1>2, PTL DEF Spec

\* No reply emits finished() twice, whatever the peer sends and however calls
\* with one id overlap.
THEOREM AtMostOneFinishHolds == Spec => []AtMostOneFinish
<1>1. IInv => AtMostOneFinish
  BY DEF IInv, RepliesAreSane, AtMostOneFinish
<1>. QED  BY <1>1, IInvHolds, PTL

\* No timeout, deletion or stray answer ever takes the table entry of a pending
\* call whose message no other call has sent.
THEOREM OrphanHasTwinHolds == Spec => []OrphanHasTwin
<1>1. IInv => OrphanHasTwin
  BY DEF IInv
<1>. QED  BY <1>1, IInvHolds, PTL

\* A blocking call that has returned leaves no entry behind.
THEOREM NoEntryOutlivesBlockingCallHolds == Spec => []NoEntryOutlivesBlockingCall
<1>1. IInv => NoEntryOutlivesBlockingCall
  BY DEF IInv
<1>. QED  BY <1>1, IInvHolds, PTL

\* What a blocking call reports is what happened to its reply.
THEOREM TimeoutMeansUnansweredHolds == Spec => []TimeoutMeansUnanswered
<1>1. IInv => TimeoutMeansUnanswered
  BY DEF IInv
<1>. QED  BY <1>1, IInvHolds, PTL

\* A reply that has been deleted is never completed.
THEOREM LateAnswerIsDroppedHolds == Spec => LateAnswerIsDropped
<1>1. ASSUME TypeOK, [Next]_vars, NEW c \in Calls, reply[c] = "deleted"
      PROVE  finished'[c] = finished[c]
  <2>1. CASE DispatchAnswer
    <3>. DEFINE i == Head(stack).id
                d == replies[i]
    <3>1. \/ UNCHANGED finished
          \/ reply[d] = "alive" /\ finished' = [finished EXCEPT ![d] = @ + 1]
      BY <2>1 DEF DispatchAnswer, ReplyExists
    <3>2. finished \in [Calls -> Nat]
      BY <1>1 DEF TypeOK
    <3>. QED  BY <1>1, <3>1, <3>2
  <2>2. CASE ~DispatchAnswer
    BY <1>1, <2>2 DEF Next, CallStep, DataStep, SendMessage, SendMessageBlocking, RequestTimer,
       BlockingCallReturns, DeleteReply, ReadyRead, ReadSilently, TakeDocument, FinishedReturns,
       DeviceDestroyed, PeerAnswers, PeerSends, vars, socketVars
  <2>. QED  BY <2>1, <2>2
<1>2. TypeOK /\ [Next]_vars =>
        [\A c \in Calls : reply[c] = "deleted" => finished'[c] = finished[c]]_vars
  BY <1>1
<1>. QED  BY <1>2, TypeCorrect, PTL DEF Spec, LateAnswerIsDropped

-----------------------------------------------------------------------------
(* The order of the stack.  CallsFromCallbacksStarve is not inductive alone: *)
(* an answer completes the call of any frame, so one needs that the frame of *)
(* _q_processIncomingData that takes it is the only one, and on top; and a   *)
(* call that enters its loop must not have been answered, so one needs that  *)
(* a call that is under way has its frame already.                           *)

OneEmission ==
  \A i, j \in DOMAIN stack : stack[i].at # "wait" /\ stack[j].at # "wait" => i = j

StartedCallsWait ==
  \A c \in Blocking : reply[c] # "none" /\ result[c] = "none" => Waiting(c)

StackInv == OneEmission /\ StartedCallsWait /\ CallsFromCallbacksStarve

LEMMA InitStack == Init => StackInv
  BY DEF Init, StackInv, OneEmission, StartedCallsWait, CallsFromCallbacksStarve, Waiting

\* What a frame on top of a stack does to the places of the others.
LEMMA OnTop ==
  ASSUME NEW S, NEW x \in S, NEW s \in Seq(S), NEW t, t = <<x>> \o s
  PROVE  /\ DOMAIN t = 1..(Len(s) + 1) /\ DOMAIN s = 1..Len(s)
         /\ t[1] = x
         /\ \A i \in DOMAIN t : i # 1 => i - 1 \in DOMAIN s /\ t[i] = s[i - 1]
         /\ \A i \in DOMAIN s : i + 1 \in DOMAIN t /\ t[i + 1] = s[i]
  OBVIOUS

\* And so, read the other way, what taking the top away does.
LEMMA HeadAndTail ==
  ASSUME NEW S, NEW s \in Seq(S), s # <<>>
  PROVE  /\ Tail(s) \in Seq(S) /\ Head(s) \in S
         /\ s = <<Head(s)>> \o Tail(s)
  OBVIOUS

\* A step that leaves the stack, or only where on it the top frame of
\* _q_processIncomingData is, and that completes no call under such a frame.
LEMMA TopMoves ==
  ASSUME TypeOK, TypeOK', StackInv, stack # <<>>, Head(stack).at # "wait",
         UNCHANGED <<reply, result>>,
         \/ Tail(stack') = Tail(stack) /\ stack' # <<>> /\ Head(stack').at # "wait"
         \/ stack' = Tail(stack)
  PROVE  StackInv'
<1>1. stack \in Seq(Frames) /\ stack' \in Seq(Frames)
  BY DEF TypeOK
<1>. DEFINE s == Tail(stack)
<1>2. s \in Seq(Frames) /\ stack = <<Head(stack)>> \o s /\ Head(stack) \in Frames
  BY <1>1, HeadAndTail
<1>3. \A i \in DOMAIN s : s[i].at = "wait"
  BY <1>2, OnTop DEF StackInv, OneEmission
<1>4. \A c : Waiting(c) => \E i \in DOMAIN s : s[i].at = "wait" /\ s[i].call = c
  <2>1. \A i \in DOMAIN stack : i # 1 => i - 1 \in DOMAIN s /\ stack[i] = s[i - 1]
    BY <1>2, OnTop
  <2>2. stack[1].at # "wait"
    BY <1>1
  <2>. QED  BY <2>1, <2>2 DEF Waiting
<1>5. CASE stack' = s
  BY <1>2, <1>3, <1>4, <1>5, OnTop
     DEF StackInv, OneEmission, StartedCallsWait, CallsFromCallbacksStarve, Waiting
<1>6. CASE Tail(stack') = s /\ stack' # <<>> /\ Head(stack').at # "wait"
  <2>1. PICK h \in Frames : stack' = <<h>> \o s
    <3>1. stack' = <<Head(stack')>> \o Tail(stack') /\ Head(stack') \in Frames
      BY <1>1, <1>6, HeadAndTail
    <3>. QED  BY <1>6, <3>1
  <2>. HIDE DEF s
  <2>2. \A c : Waiting(c) => Waiting(c)'
    <3>1. \A i \in DOMAIN s : i + 1 \in DOMAIN stack' /\ stack'[i + 1] = s[i]
      BY <1>2, <2>1, OnTop
    <3>. QED  BY <1>4, <3>1 DEF Waiting
  <2>3. \A i \in DOMAIN stack' : i # 1 => stack'[i].at = "wait"
    <3>1. \A i \in DOMAIN stack' : i # 1 => i - 1 \in DOMAIN s /\ stack'[i] = s[i - 1]
      BY <1>2, <2>1, OnTop
    <3>. QED  BY <1>3, <3>1
  <2>4. OneEmission'
    BY <2>3 DEF OneEmission
  <2>5. CallsFromCallbacksStarve'
    BY <1>1, <2>3 DEF CallsFromCallbacksStarve
  <2>. QED  BY <2>2, <2>4, <2>5 DEF StackInv, StartedCallsWait
<1>. QED  BY <1>5, <1>6

\* Steps that leave the stack and the completions alone.
LEMMA StackStays ==
  ASSUME StackInv, UNCHANGED <<stack, finished, result>>,
         \A c \in Blocking : reply'[c] # "none" => reply[c] # "none"
  PROVE  StackInv'
  BY DEF StackInv, OneEmission, StartedCallsWait, CallsFromCallbacksStarve, Waiting

LEMMA BlockingStack ==
  ASSUME TypeOK, TypeOK', IInv, StackInv, NEW c \in Calls, SendMessageBlocking(c)
  PROVE  StackInv'
<1>1. /\ c \in Blocking /\ result[c] = "none" /\ ~Waiting(c)
      /\ stack' = <<Frame("wait", c, NoId)>> \o stack
      /\ UNCHANGED <<finished, result>>
      /\ \A d \in Calls \ {c} : reply'[d] = reply[d]
  BY DEF SendMessageBlocking, Push, Register, TypeOK
<1>2. /\ stack \in Seq(Frames) /\ Frame("wait", c, NoId) \in Frames
      /\ Frame("wait", c, NoId).at = "wait" /\ Frame("wait", c, NoId).call = c
  BY <1>1 DEF TypeOK, Frame, Frames, WaitFrames
<1>3. reply[c] = "none" /\ finished[c] = 0
  BY <1>1 DEF StackInv, StartedCallsWait, IInv, RepliesAreSane
<1>4. stack'[1].at = "wait" /\ stack'[1].call = c /\ 1 \in DOMAIN stack'
  BY <1>1, <1>2, OnTop
<1>5. \A i \in DOMAIN stack' : i # 1 => i - 1 \in DOMAIN stack /\ stack'[i] = stack[i - 1]
  BY <1>1, <1>2, OnTop
<1>10. DOMAIN stack \subseteq Nat /\ DOMAIN stack' = 1..Len(stack')
  BY <1>1, <1>2, OnTop
<1>6. \A d : Waiting(d) \/ d = c => Waiting(d)'
  <2>1. \A i \in DOMAIN stack : i + 1 \in DOMAIN stack' /\ stack'[i + 1] = stack[i]
    BY <1>1, <1>2, OnTop
  <2>. QED  BY <1>4, <2>1 DEF Waiting
<1>7. OneEmission'
  BY <1>4, <1>5, <1>10 DEF StackInv, OneEmission
<1>8. StartedCallsWait'
  BY <1>1, <1>6, BlockingIsCall DEF StackInv, StartedCallsWait
<1>9. CallsFromCallbacksStarve'
  <2>. SUFFICES ASSUME NEW i \in DOMAIN stack', NEW j \in DOMAIN stack',
                       i < j, stack'[i].at = "wait", stack'[j].at # "wait"
                PROVE  finished'[stack'[i].call] = 0
    BY DEF CallsFromCallbacksStarve
  <2>1. CASE i = 1
    BY <1>1, <1>3, <1>4, <2>1
  <2>2. CASE i # 1
    <3>1. j # 1 /\ i - 1 < j - 1
      BY <1>10, <2>2
    <3>. QED  BY <1>1, <1>5, <2>2, <3>1 DEF StackInv, CallsFromCallbacksStarve
  <2>. QED  BY <2>1, <2>2
<1>. QED  BY <1>7, <1>8, <1>9 DEF StackInv

LEMMA ReturnStack ==
  ASSUME TypeOK, TypeOK', IInv, StackInv, BlockingCallReturns
  PROVE  StackInv'
<1>. DEFINE c == Head(stack).call
            s == Tail(stack)
<1>1. /\ stack \in Seq(Frames) /\ stack # <<>> /\ Head(stack).at = "wait"
      /\ Head(stack) \in WaitFrames
  BY WaitTop DEF TypeOK, BlockingCallReturns, At
<1>2. CASE reply[c] = "none"
  BY <1>2, StackStays DEF BlockingCallReturns
<1>3. CASE reply[c] # "none"
  <2>1. /\ stack' = s /\ UNCHANGED finished /\ c \in Calls /\ c \in Blocking
        /\ result'[c] # "none"
        /\ \A d \in Calls \ {c} : reply'[d] = reply[d] /\ result'[d] = result[d]
    BY <1>1, <1>3, BlockingIsCall DEF BlockingCallReturns, Pop, WaitFrames, TypeOK
  <2>2. s \in Seq(Frames) /\ stack = <<Head(stack)>> \o s /\ Head(stack) \in Frames
    BY <1>1, HeadAndTail
  <2>3. \A i \in DOMAIN s : i + 1 \in DOMAIN stack /\ stack[i + 1] = s[i]
    BY <2>2, OnTop
  <2>4. DOMAIN s \subseteq Nat
    BY <2>2
  <2>5. \A d : Waiting(d) /\ d # c => Waiting(d)'
    <3>1. \A i \in DOMAIN stack : i # 1 => i - 1 \in DOMAIN s /\ stack[i] = s[i - 1]
      BY <2>2, OnTop
    <3>2. stack[1].call = c
      BY <1>1
    <3>. QED  BY <2>1, <3>1, <3>2 DEF Waiting
  <2>6. OneEmission'
    BY <2>1, <2>3, <2>4 DEF StackInv, OneEmission
  <2>7. StartedCallsWait'
    BY <2>1, <2>5, BlockingIsCall DEF StackInv, StartedCallsWait
  <2>8. CallsFromCallbacksStarve'
    BY <2>1, <2>3, <2>4 DEF StackInv, CallsFromCallbacksStarve
  <2>. QED  BY <2>6, <2>7, <2>8 DEF StackInv
<1>. QED  BY <1>2, <1>3

\* readyRead is emitted only when no frame of _q_processIncomingData is there.
LEMMA ReadyReadStack ==
  ASSUME TypeOK, StackInv, ReadyRead
  PROVE  StackInv'
<1>. DEFINE f == Frame("loop", NoCall, NoId)
<1>1. /\ stack' = <<f>> \o stack /\ stack \in Seq(Frames) /\ f \in Frames
      /\ UNCHANGED <<finished, result, reply>>
      /\ \A i \in DOMAIN stack : stack[i].at = "wait"
  BY DEF ReadyRead, Push, TypeOK, Emitting, Frame, Frames, DispatchFrames
<1>2. \A i \in DOMAIN stack' : i # 1 => stack'[i].at = "wait"
  BY <1>1, OnTop
<1>3. \A d : Waiting(d) => Waiting(d)'
  <2>1. \A i \in DOMAIN stack : i + 1 \in DOMAIN stack' /\ stack'[i + 1] = stack[i]
    BY <1>1, OnTop
  <2>. QED  BY <2>1 DEF Waiting
<1>4. DOMAIN stack' = 1..(Len(stack) + 1) /\ Len(stack) \in Nat
  BY <1>1, OnTop
<1>5. OneEmission' /\ CallsFromCallbacksStarve'
  BY <1>2, <1>4 DEF OneEmission, CallsFromCallbacksStarve
<1>. QED  BY <1>1, <1>3, <1>5 DEF StackInv, StartedCallsWait

LEMMA NextStack == TypeOK /\ TypeOK' /\ IInv /\ StackInv /\ [Next]_vars => StackInv'
<1>. SUFFICES ASSUME TypeOK, TypeOK', IInv, StackInv, [Next]_vars PROVE StackInv'
  OBVIOUS
<1>1. ASSUME NEW c \in Calls, SendMessage(c) PROVE StackInv'
  BY <1>1, StackStays, BlockingIsCall DEF SendMessage, Register, TypeOK
<1>2. ASSUME NEW c \in Calls, SendMessageBlocking(c) PROVE StackInv'
  BY <1>2, BlockingStack
<1>3. ASSUME NEW c \in Calls, RequestTimer(c) \/ DeleteReply(c) \/ PeerAnswers(c) PROVE StackInv'
  BY <1>3, StackStays, BlockingIsCall DEF RequestTimer, DeleteReply, PeerAnswers, socketVars, TypeOK
<1>4. CASE BlockingCallReturns
  BY <1>4, ReturnStack
<1>5. CASE ReadyRead
  BY <1>5, ReadyReadStack
<1>6. CASE TakeDocument
  <2>1. stack # <<>> /\ Head(stack).at # "wait" /\ UNCHANGED <<reply, result, finished>>
    BY <1>6 DEF TakeDocument, At
  <2>2. \/ stack' = Tail(stack)
        \/ UNCHANGED stack
        \/ stack' = <<Frame("received", NoCall, Head(buffer).id)>> \o Tail(stack)
    BY <1>6 DEF TakeDocument, Pop
  <2>3. ASSUME stack' = <<Frame("received", NoCall, Head(buffer).id)>> \o Tail(stack)
        PROVE  Tail(stack') = Tail(stack) /\ stack' # <<>> /\ Head(stack').at # "wait"
    <3>. DEFINE f == Frame("received", NoCall, Head(buffer).id)
    <3>1. f.at # "wait"
      BY DEF Frame
    <3>2. Tail(stack) \in Seq(Frames)
      BY <2>1 DEF TypeOK
    <3>. HIDE DEF f
    <3>3. Head(<<f>> \o Tail(stack)) = f /\ Tail(<<f>> \o Tail(stack)) = Tail(stack)
      BY <3>2
    <3>4. <<f>> \o Tail(stack) # <<>>
      BY <3>2
    <3>. QED  BY <2>3, <3>1, <3>3, <3>4 DEF f
  <2>. QED  BY <2>1, <2>2, <2>3, TopMoves, StackStays
<1>7. CASE DispatchAnswer \/ FinishedReturns
  <2>1. stack # <<>> /\ Head(stack) \in DispatchFrames /\ UNCHANGED <<reply, result>>
    BY <1>7, DispatchTop DEF DispatchAnswer, FinishedReturns, At, TypeOK
  <2>2. Head(stack).at # "wait"
    BY <2>1 DEF DispatchFrames
  <2>3. Goto("loop") \/ Goto("finished")
    BY <1>7 DEF DispatchAnswer, FinishedSlots, FinishedReturns
  <2>4. PICK at \in {"loop", "finished"} :
          stack' = <<[Head(stack) EXCEPT !.at = at]>> \o Tail(stack)
    BY <2>3 DEF Goto
  <2>5. Head(stack').at # "wait" /\ Tail(stack') = Tail(stack) /\ stack' # <<>>
    BY SMTT(20), <2>1, <2>4 DEF DispatchFrames, TypeOK
  <2>. QED  BY <2>1, <2>2, <2>5, TopMoves
<1>8. CASE \/ ReadSilently \/ DeviceDestroyed \/ (\E doc \in PeerDocs : PeerSends(doc))
           \/ UNCHANGED vars
  BY <1>8, StackStays DEF ReadSilently, DeviceDestroyed, PeerSends, socketVars, vars
<1>. QED  BY <1>1, <1>2, <1>3, <1>4, <1>5, <1>6, <1>7, <1>8 DEF Next, CallStep, DataStep

\* A blocking call that a slot of _q_processIncomingData has made is not
\* answered before that slot returns, however many calls nest: whoever waits
\* there waits for its timer.
THEOREM CallsFromCallbacksStarveHolds == Spec => []CallsFromCallbacksStarve
<1>1. Init => StackInv
  BY InitStack
<1>2. (TypeOK /\ TypeOK' /\ IInv) /\ StackInv /\ [Next]_vars => StackInv'
  BY NextStack
<1>3. StackInv => CallsFromCallbacksStarve
  BY DEF StackInv
<1>. QED  BY <1>1, <1>2, <1>3, TypeCorrect, IInvHolds, PTL DEF Spec

-----------------------------------------------------------------------------
(* The socket implements RpcCall: each step changes the outcome of at most   *)
(* one call, the one whose reply it registers, completes or deletes.         *)

\* A step changes the outcome of one call if it changes it there and the reply
\* and the completions of no other call.
LEMMA OneOutcome ==
  ASSUME NEW c \in Calls, NEW o, OutcomeOf(c)' = o,
         \A d \in Calls \ {c} : reply'[d] = reply[d] /\ finished'[d] = finished[d]
  PROVE  outcome' = [outcome EXCEPT ![c] = o]
<1>1. \A d \in Calls \ {c} : OutcomeOf(d)' = OutcomeOf(d)
  BY DEF OutcomeOf
<1>. QED  BY <1>1 DEF outcome

LEMMA StartStep ==
  ASSUME IInv, NEW c \in Calls, Register(c), UNCHANGED finished
  PROVE  RpcCalls!Next
<1>1. reply[c] = "none" /\ finished[c] = 0 /\ reply' = [reply EXCEPT ![c] = "alive"]
  BY DEF Register, IInv, RepliesAreSane
<1>2. outcome[c] = "idle"
  BY <1>1 DEF outcome, OutcomeOf
<1>3. outcome' = [outcome EXCEPT ![c] = "pending"]
  <2>1. OutcomeOf(c)' = "pending"
    BY <1>1 DEF OutcomeOf, IInv, TableOK
  <2>. QED  BY <1>1, <2>1, OneOutcome DEF IInv, TableOK
<1>. QED  BY <1>2, <1>3 DEF RpcCalls!Next, RpcCalls!Start

LEMMA AnswerStep ==
  ASSUME IInv, NEW c \in Calls, reply[c] = "alive", finished[c] = 0,
         finished' = [finished EXCEPT ![c] = @ + 1], UNCHANGED reply
  PROVE  RpcCalls!Next
<1>1. outcome[c] = "pending"
  BY DEF outcome, OutcomeOf
<1>2. outcome' = [outcome EXCEPT ![c] = "answered"]
  <2>1. OutcomeOf(c)' = "answered"
    BY DEF OutcomeOf, IInv, TableOK
  <2>. QED  BY <2>1, OneOutcome DEF IInv, TableOK
<1>. QED  BY <1>1, <1>2 DEF RpcCalls!Next, RpcCalls!Answer

LEMMA DeleteStep ==
  ASSUME IInv, NEW c \in Calls, reply[c] # "none",
         reply' = [reply EXCEPT ![c] = "deleted"], UNCHANGED finished
  PROVE  RpcCalls!Next \/ UNCHANGED outcome
<1>1. CASE finished[c] > 0 \/ reply[c] = "deleted"
  BY <1>1 DEF outcome, OutcomeOf, IInv, TableOK
<1>2. CASE ~(finished[c] > 0 \/ reply[c] = "deleted")
  <2>1. reply[c] = "alive" /\ finished[c] = 0
    BY <1>2 DEF IInv, TableOK
  <2>2. outcome[c] = "pending"
    BY <2>1 DEF outcome, OutcomeOf
  <2>3. CASE c \in Blocking
    <3>1. OutcomeOf(c)' = "timedOut"
      BY <2>1, <2>3 DEF OutcomeOf, IInv, TableOK
    <3>2. outcome' = [outcome EXCEPT ![c] = "timedOut"]
      BY <3>1, OneOutcome DEF IInv, TableOK
    <3>. QED  BY <2>2, <2>3, <3>2 DEF RpcCalls!Next, RpcCalls!TimeOut
  <2>4. CASE c \notin Blocking
    <3>1. OutcomeOf(c)' = "abandoned"
      BY <2>1, <2>4 DEF OutcomeOf, IInv, TableOK
    <3>2. outcome' = [outcome EXCEPT ![c] = "abandoned"]
      BY <3>1, OneOutcome DEF IInv, TableOK
    <3>. QED  BY <2>2, <2>4, <3>2 DEF RpcCalls!Next, RpcCalls!Abandon
  <2>. QED  BY <2>3, <2>4
<1>. QED  BY <1>1, <1>2

LEMMA NextRefines ==
  ASSUME TypeOK, IInv, [Next]_vars
  PROVE  RpcCalls!Next \/ UNCHANGED outcome
<1>s. ASSUME UNCHANGED <<reply, finished>> PROVE UNCHANGED outcome
  BY <1>s DEF outcome, OutcomeOf
<1>1. ASSUME NEW c \in Calls, CallStep(c) PROVE RpcCalls!Next \/ UNCHANGED outcome
  <2>1. CASE Register(c) /\ UNCHANGED finished
    BY <2>1, StartStep
  <2>2. CASE DeleteReply(c)
    BY <2>2, DeleteStep DEF DeleteReply
  <2>3. CASE UNCHANGED <<reply, finished>>
    BY <1>s, <2>3
  <2>. QED  BY <1>1, <2>1, <2>2, <2>3
       DEF CallStep, SendMessage, SendMessageBlocking, RequestTimer, PeerAnswers, socketVars
<1>2. CASE BlockingCallReturns
  <2>. DEFINE c == Head(stack).call
  <2>1. c \in Calls
    BY <1>2, WaitTop, BlockingIsCall DEF BlockingCallReturns, WaitFrames, TypeOK
  <2>2. CASE reply[c] = "none"
    BY <1>s, <1>2, <2>2 DEF BlockingCallReturns
  <2>3. CASE reply[c] # "none"
    BY <1>2, <2>1, <2>3, DeleteStep DEF BlockingCallReturns
  <2>. QED  BY <2>2, <2>3
<1>3. CASE DispatchAnswer
  <2>. DEFINE i == Head(stack).id
              c == replies[i]
  <2>1. i \in Ids \cup {NoId}
    BY <1>3, DispatchTop DEF DispatchAnswer, DispatchFrames, TypeOK
  <2>2. CASE i = NoId \/ replies[i] = NoCall
    BY <1>s, <1>3, <2>2 DEF DispatchAnswer
  <2>3. CASE ~(i = NoId \/ replies[i] = NoCall)
    <3>1. c \in Calls /\ finished[c] = 0
      BY <2>1, <2>3 DEF IInv, TableOK, EntriesArePending
    <3>2. /\ UNCHANGED reply
          /\ \/ reply[c] = "alive" /\ finished' = [finished EXCEPT ![c] = @ + 1]
             \/ UNCHANGED finished
      BY <1>3, <2>3 DEF DispatchAnswer, ReplyExists
    <3>. QED  BY <1>s, <3>1, <3>2, AnswerStep
  <2>. QED  BY <2>2, <2>3
<1>4. CASE \/ ReadyRead \/ ReadSilently \/ TakeDocument \/ FinishedReturns \/ DeviceDestroyed
           \/ \E doc \in PeerDocs : PeerSends(doc)
           \/ UNCHANGED vars
  BY <1>s, <1>4 DEF ReadyRead, ReadSilently, TakeDocument, FinishedReturns, DeviceDestroyed,
     PeerSends, vars, socketVars
<1>. QED  BY <1>1, <1>2, <1>3, <1>4 DEF Next, DataStep

\* Every behaviour of the socket, seen through the outcomes of its calls, is a
\* behaviour of RpcCall.
THEOREM Implementation == Spec => ImplementsRpcCall
<1>1. Init => RpcCalls!Init
  BY DEF Init, outcome, OutcomeOf, RpcCalls!Init
<1>2. TypeOK /\ IInv /\ [Next]_vars => [RpcCalls!Next]_outcome
  BY NextRefines
<1>. QED  BY <1>1, <1>2, TypeCorrect, IInvHolds, PTL DEF Spec, ImplementsRpcCall, RpcCalls!Spec
=============================================================================
