---------------------------- MODULE JsonFraming ----------------------------
(***************************************************************************)
(* How QJsonRpcSocket cuts JSON documents out of the byte stream of its    *)
(* device: findJsonDocumentEnd and the while loop of                       *)
(* _q_processIncomingData (src/src/qjsonrpcsocket.cpp).  The stream        *)
(* arrives in pieces of any size.  Bytes are told apart as far as the      *)
(* scanner tells them apart; whether a text parses is a constant.          *)
(***************************************************************************)
EXTENDS Naturals, Sequences, FiniteSets

CONSTANTS
  WellFormed,   \* texts that QJsonDocument::fromJson accepts
  Malformed,    \* other texts a peer may send
  MaxWritten    \* bound on the number of texts it sends

Bytes == {"{", "}", "[", "]", "quote", "backslash", "space", "other"}

\* An odd number of backslashes stands before the i-th byte.
Escaped(text, i) ==
  \E n \in 1..i - 1 :
    /\ n % 2 = 1
    /\ \A j \in i - n..i - 1 : text[j] = "backslash"
    /\ i - n = 1 \/ text[i - n - 1] # "backslash"

\* The i-th byte is a quote that opens or closes a string, or is in a string.
Quotes(text, i) == {j \in 1..i - 1 : text[j] = "quote" /\ ~Escaped(text, j)}
InString(text, i) == Cardinality(Quotes(text, i)) % 2 = 1

\* How often the byte stands among the first i, outside strings.
Outside(text, byte, i) ==
  {j \in 1..i : text[j] = byte /\ ~InString(text, j) /\ ~Escaped(text, j)}
Count(text, byte, i) == Cardinality(Outside(text, byte, i))

Closer(byte) == IF byte = "{" THEN "}" ELSE "]"

\* An object or an array from its first bracket to the one that closes it.
Enclosed(text) ==
  /\ text[1] \in {"{", "["}
  /\ \A i \in 1..Len(text) : Count(text, text[1], i) > Count(text, Closer(text[1]), i) <=> i < Len(text)

Begins(text, other) ==
  Len(text) <= Len(other) /\ \A i \in 1..Len(text) : text[i] = other[i]

\* White space around a text is not counted to it.  A text is malformed if it
\* neither begins with a document nor can go on as one.
ASSUME FramingAssumption ==
  /\ WellFormed \cup Malformed \subseteq Seq(Bytes) \ {<<>>}
  /\ \A text \in WellFormed : Enclosed(text)
  /\ \A text \in Malformed : text[1] # "space"
  /\ \A text \in WellFormed, other \in Malformed : ~Begins(text, other) /\ ~Begins(other, text)
  /\ MaxWritten \in Nat

VARIABLES
  written,    \* the texts the peer has written
  wire,       \* bytes of theirs that have not arrived
  buffer,     \* QJsonRpcSocketPrivate::buffer
  receiving,  \* the while loop of _q_processIncomingData runs
  documents   \* the documents it has taken out of the buffer

vars == <<written, wire, buffer, receiving, documents>>

Init ==
  /\ written = <<>> /\ wire = <<>> /\ buffer = <<>>
  /\ receiving = FALSE
  /\ documents = <<>>

-----------------------------------------------------------------------------
(* findJsonDocumentEnd, with positions counted from 1 and 0 for "none". *)

\* Its locals: the bracket that the document begins with (blockStart), and
\* whether the next byte is skipped (pos += 2).
Start == [opener |-> "none", depth |-> 0, inString |-> FALSE, skip |-> FALSE]

StringsIgnored(inString) == TRUE       \* mutant: strings are not told apart
\* Brackets are counted outside strings only.
Counted(inString) == ~inString

Ended(s) == s.opener # "none" /\ s.depth = 0

\* The locals after another byte.  Only brackets of the document's own kind count.
Scanned(s, byte) ==
  CASE s.opener = "none" ->
         IF byte \in {"{", "["} THEN [s EXCEPT !.opener = byte, !.depth = 1] ELSE s
    [] Ended(s) -> s
    [] s.opener # "none" /\ ~Ended(s) ->
         IF s.skip THEN [s EXCEPT !.skip = FALSE]
         ELSE IF byte = "backslash" THEN [s EXCEPT !.skip = TRUE]
         ELSE IF byte = "quote" THEN [s EXCEPT !.inString = ~@]
         ELSE IF Counted(s.inString) /\ byte = s.opener THEN [s EXCEPT !.depth = @ + 1]
         ELSE IF Counted(s.inString) /\ byte = Closer(s.opener) THEN [s EXCEPT !.depth = @ - 1]
         ELSE s

\* The locals after each byte.  (The loop also looks at the terminator that
\* QByteArray keeps behind the last one, which changes none of them.)
Scan(bytes) ==
  LET after[i \in 0..Len(bytes)] ==
        IF i = 0 THEN Start
        ELSE CHOOSE s \in {Scanned(t, bytes[i]) : t \in {after[i - 1]}} : TRUE
  IN  after

\* The position of the bracket that closes the document.
DocumentEnd(bytes) ==
  LET after == Scan(bytes)
      ends == {i \in 1..Len(bytes) : Ended(after[i])}
  IN  IF ends = {} THEN 0 ELSE CHOOSE i \in ends : \A j \in ends : i <= j

-----------------------------------------------------------------------------
(* _q_processIncomingData. *)

\* A text without the white space in front of it, which fromJson skips.
Stripped(text) ==
  LET rest == {i \in DOMAIN text : text[i] # "space"}
  IN  IF rest = {} THEN <<>>
      ELSE SubSeq(text, CHOOSE i \in rest : \A j \in rest : i <= j, Len(text))

ErrorUnchecked(text) == TRUE           \* mutant: what fromJson says is ignored
Parses(text) == Stripped(text) \in WellFormed

\* readyRead: some of the bytes that are under way have arrived.
ReadyRead ==
  /\ ~receiving
  /\ \E n \in 1..Len(wire) :
       /\ buffer' = buffer \o SubSeq(wire, 1, n)
       /\ wire' = SubSeq(wire, n + 1, Len(wire))
  /\ receiving' = TRUE
  /\ UNCHANGED <<written, documents>>

OnlyOne == receiving' = FALSE          \* mutant: if for while
Again == UNCHANGED receiving

\* A turn of the loop.  It ends when the buffer holds no whole document, or one
\* that does not parse, which stays in it.
TakeDocument ==
  /\ receiving
  /\ \E end \in {DocumentEnd(buffer)} : \E text \in {SubSeq(buffer, 1, end)} :
       IF end > 0 /\ Parses(text)
       THEN /\ documents' = Append(documents, Stripped(text))
            /\ buffer' = SubSeq(buffer, end + 1, Len(buffer))
            /\ Again
       ELSE receiving' = FALSE /\ UNCHANGED <<buffer, documents>>
  /\ UNCHANGED <<written, wire>>

\* The peer writes a text, on a line of its own or not.
PeerWrites(text) ==
  /\ Len(written) < MaxWritten
  /\ written' = Append(written, text)
  /\ \E separator \in {<<>>, <<"space">>} : wire' = wire \o separator \o text
  /\ UNCHANGED <<buffer, receiving, documents>>

Next ==
  \/ \E text \in WellFormed \cup Malformed : PeerWrites(text)
  \/ ReadyRead
  \/ TakeDocument

Spec == Init /\ [][Next]_vars

\* What has been sent arrives, and the loop runs on.
FairSpec == Spec /\ WF_vars(ReadyRead \/ TakeDocument)

-----------------------------------------------------------------------------
(* Properties. *)

\* Every document that no text that does not parse comes before is delivered.
DocumentsAreDelivered ==
  \A n \in 1..MaxWritten :
    Len(written) >= n /\ (\A i \in 1..n : written[i] \in WellFormed) ~> Len(documents) >= n

\* Documents are delivered whole, once and in order, and none after one that
\* does not parse: the socket's module takes a connection to be such a queue.
Queue == INSTANCE DocumentQueue
ImplementsDocumentQueue == Queue!Spec
=============================================================================
