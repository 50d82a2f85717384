------------------------------- MODULE HttpHeaders -------------------------------
(***************************************************************************)
(* How a QJsonRpcHttpServerSocket (src/src/qjsonrpchttpserver.cpp) reads   *)
(* requests with the parser of module HttpParser: its callbacks collect    *)
(* the headers, which come in pieces, decide on a request when they are    *)
(* complete, and collect the body.  Module QJsonRpcHttpServer takes this   *)
(* decision as given; here it is computed from the bytes.                  *)
(*                                                                         *)
(* A stream is read by a socket or, to check the parser itself, by a       *)
(* program that makes full use of the parser.                              *)
(***************************************************************************)
EXTENDS HttpParser

\* The parser of a socket is one for requests, and of its callbacks only the one
\* that completes the headers ever fails.
ASSUME SocketAssumption ==
  \A s \in Streams :
    /\ s.reader \in {"socket", "application"}
    /\ s.reader = "socket" => s.type = "request" /\ s.interruptions = {}

VARIABLES
  m_requestHeaders,      \* the headers by name, for the names there are
  m_currentHeaderField,  \* the name being collected
  m_currentHeaderValue,  \* its value
  m_requestPayload,      \* the body
  device,                \* "open", or "closed" after a response
  status,                \* of the last response to headers, or 0
  undefined              \* a callback was called through a pointer that was never set

headerVars == <<m_requestHeaders, m_currentHeaderField, m_currentHeaderValue, m_requestPayload,
                device, status, undefined>>
vars == <<parserVars, headerVars>>

NoHeaders == [n \in {} |-> <<>>]

Init ==
  /\ ParserInit
  /\ m_requestHeaders = NoHeaders
  /\ m_currentHeaderField = <<>>
  /\ m_currentHeaderValue = <<>>
  /\ m_requestPayload = <<>>
  /\ device = "open"
  /\ status = 0
  /\ undefined = FALSE

-----------------------------------------------------------------------------
\* The constructor sets these members of m_requestParserSettings and leaves
\* the others as they are: on_status, on_chunk_header and on_chunk_complete.
SetCallbacks == {"message_begin", "url", "header_field", "header_value", "headers_complete",
                 "body", "message_complete"}

NameCollected == m_currentHeaderField # <<>>  \* mutant: a pair without its value

\* m_requestHeaders with the pair that has been collected.
HavePair == m_currentHeaderField # <<>> /\ m_currentHeaderValue # <<>>

WithPair ==
  LET name == Lower(m_currentHeaderField)
  IN  IF HavePair
      THEN [n \in DOMAIN m_requestHeaders \cup {name} |->
              IF n = name THEN m_currentHeaderValue ELSE m_requestHeaders[n]]
      ELSE m_requestHeaders

\* QString::contains
ContainsText(text, part) ==
  \E i \in 0..Len(text) - Len(part) : SubSeq(text, i + 1, i + Len(part)) = part

SupportedTypes ==
  {Spell("application/json-rpc"), Spell("application/json"), Spell("application/jsonrequest")}

IsSupported(value) == \E t \in SupportedTypes : ContainsText(value, t)

TypesRequired == {Spell("content-type"), Spell("accept")}  \* mutant: the length is optional

RequiredHeaders == {Spell("content-type"), Spell("content-length"), Spell("accept")}

\* The status that a request with these headers is refused with, or 0.
Refusal(method, headers) ==
  IF method \notin {"GET", "POST"} THEN 405
  ELSE IF ~RequiredHeaders \subseteq DOMAIN headers THEN 400
  ELSE IF ~(IsSupported(headers[Spell("content-type")]) /\ IsSupported(headers[Spell("accept")]))
  THEN 400
  ELSE 0

\* What onHeadersComplete returns.
HeadersAnswer ==
  IF parser.method # "OPTIONS" /\ Refusal(parser.method, WithPair) # 0 THEN -1 ELSE 0

Respond(code) ==
  /\ status' = IF device = "open" THEN code ELSE status
  /\ device' = "closed"

OnHeadersComplete ==
  /\ UNCHANGED <<m_requestPayload, undefined>>
  /\ IF parser.method = "OPTIONS"
     THEN /\ Respond(200)
          /\ UNCHANGED <<m_requestHeaders, m_currentHeaderField, m_currentHeaderValue>>
     ELSE /\ m_requestHeaders' = WithPair
          /\ IF HavePair
             THEN m_currentHeaderField' = <<>> /\ m_currentHeaderValue' = <<>>
             ELSE UNCHANGED <<m_currentHeaderField, m_currentHeaderValue>>
          /\ IF Refusal(parser.method, WithPair) = 0 THEN UNCHANGED <<device, status>>
             ELSE Respond(Refusal(parser.method, WithPair))

OnHeaderField ==
  /\ m_requestHeaders' = WithPair
  /\ m_currentHeaderField' = (IF HavePair THEN <<>> ELSE m_currentHeaderField) \o called'.data
  /\ m_currentHeaderValue' = IF HavePair THEN <<>> ELSE m_currentHeaderValue
  /\ UNCHANGED <<m_requestPayload, device, status, undefined>>

OnHeaderValue ==
  /\ m_currentHeaderValue' = m_currentHeaderValue \o called'.data
  /\ UNCHANGED <<m_requestHeaders, m_currentHeaderField, m_requestPayload, device, status, undefined>>

OnMessageBegin ==
  /\ m_requestHeaders' = NoHeaders
  /\ UNCHANGED <<m_currentHeaderField, m_currentHeaderValue, m_requestPayload, device, status, undefined>>

OnBody ==
  /\ m_requestPayload' = m_requestPayload \o called'.data
  /\ UNCHANGED <<m_requestHeaders, m_currentHeaderField, m_currentHeaderValue, device, status, undefined>>

\* The message is answered at once, or later or never.
OnMessageComplete ==
  /\ device' \in {device, "closed"}
  /\ UNCHANGED <<m_requestHeaders, m_currentHeaderField, m_currentHeaderValue, m_requestPayload,
                 status, undefined>>

\* What the callback of this step does.
Collect ==
  CASE called'.cb = "header_field" -> OnHeaderField
    [] called'.cb = "header_value" -> OnHeaderValue
    [] called'.cb = "headers_complete" -> OnHeadersComplete
    [] called'.cb = "message_begin" -> OnMessageBegin
    [] called'.cb = "body" -> OnBody
    [] called'.cb = "message_complete" -> OnMessageComplete
    [] OTHER -> /\ undefined' = (undefined \/ called'.cb \notin SetCallbacks \cup {"none"})
                /\ UNCHANGED <<m_requestHeaders, m_currentHeaderField, m_currentHeaderValue,
                               m_requestPayload, device, status>>

-----------------------------------------------------------------------------
\* readIncomingData gives the parser what there is to read, whatever became of
\* earlier calls.
ReadIncomingData ==
  /\ device = "open"
  /\ \E size \in BufferSizes : Begin(size)
  /\ UNCHANGED headerVars

SocketExecutes == Execute({HeadersAnswer}) /\ Collect

SocketNext == ReadIncomingData \/ SocketExecutes

Next == \/ stream.reader = "socket" /\ SocketNext
        \/ stream.reader = "application" /\ ApplicationNext /\ UNCHANGED headerVars

Spec == Init /\ [][Next]_vars

-----------------------------------------------------------------------------
(* Properties. *)

Since(events, cb) ==
  LET at == {i \in DOMAIN events : events[i].cb = cb}
  IN  IF at = {} THEN <<>> ELSE SubSeq(events, CHOOSE i \in at : \A j \in at : j <= i, Len(events))

\* The headers of the present message: the parser's names and values.
Pairs(events) ==
  LET e == Since(events, "message_begin")
  IN  {<<i, Lower(e[i].data), e[i + 1].data>> :
         i \in {k \in 1..Len(e) - 1 : e[k].cb = "header_field" /\ e[k + 1].cb = "header_value"}}

\* The values that a header of this name was sent with last.
Sent(events) ==
  [n \in {p[2] : p \in Pairs(events)} |->
     (CHOOSE p \in Pairs(events) : p[2] = n /\ \A q \in Pairs(events) : q[2] = n => q[1] <= p[1])[3]]

\* A header with an empty value has been sent, and not only in this message.
EmptyValueSent(events) ==
  \E i \in DOMAIN events : events[i].cb = "header_value" /\ events[i].data = <<>>

PreflightSent(events) ==
  \E i \in DOMAIN events : events[i].cb = "headers_complete" /\ events[i].data = <<"OPTIONS">>

CompletesHeaders == stream.reader = "socket" /\ called'.cb = "headers_complete" /\ called # called'

\* In whatever pieces the names and values of a request come, the socket has
\* them all when it decides on the request, and takes it just when its method,
\* its headers and their types are the supported ones.  (A header with an empty
\* value is glued to the next one, and a preflight is answered without its last
\* header; a request after a preflight is read by a socket that is closed.)
HeadersDecideRequests ==
  [][CompletesHeaders /\ parser.method # "OPTIONS" /\ ~EmptyValueSent(log') /\ device = "open" =>
       /\ m_requestHeaders' = Sent(log')
       /\ IF Refusal(parser.method, Sent(log')) = 0
          THEN device' = "open" /\ parser'.errno = "OK"
          ELSE /\ status' = Refusal(parser.method, Sent(log'))
               /\ device' = "closed" /\ parser'.errno = "CB_headers_complete"]_vars

\* A callback that the socket never set is called only after a preflight, or a
\* header with an empty value: other requests whose body comes in chunks are
\* refused before their first chunk, by the parser if they have the length that
\* the socket requires, and by the socket if they do not.
UnsetCallbacksNeedPreflight == undefined => PreflightSent(log) \/ EmptyValueSent(log)
================================================================================
