------------------------------- MODULE HttpParser -------------------------------
(***************************************************************************)
(* http_parser_execute (src/src/http-parser/http_parser.c): the automaton  *)
(* that reads requests and responses from the buffers a connection         *)
(* delivers, wherever these are cut, and hands their parts to callbacks.   *)
(*                                                                         *)
(* One step is one turn of the loop over the bytes: Fetch is the head of   *)
(* the loop and the other actions are the cases of its switch.  A case     *)
(* ends in an outcome: Advance (break), Again (REEXECUTE), Return (RETURN) *)
(* or Error (goto error), possibly through a callback, which may pause the *)
(* parser or fail.  The inner loops over a name, a value and a body are    *)
(* one step each.  Strict mode (HTTP_PARSER_STRICT) is the default and     *)
(* what the library is built with; lenient_http_headers and                *)
(* allow_chunked_length are 0, as http_parser_init leaves them.            *)
(***************************************************************************)
EXTENDS HttpUrl, FiniteSets

CONSTANTS
  Streams,        \* what connections carry, [type, wire, answer, ...]: the
                  \* bytes, for a parser of this type, whose headers_complete
                  \* callback returns this answer; interruptions are what its
                  \* callbacks may do besides returning 0
  BufferSizes,    \* the sizes of the buffers a stream comes in
  MaxHeaderSize,  \* max_header_size
  UllongMax       \* ULLONG_MAX

ASSUME ParserAssumption ==
  /\ BufferSizes \subseteq Nat \ {0}
  /\ MaxHeaderSize \in Nat
  /\ UllongMax \in Nat \ 0..16

VARIABLES
  stream,  \* the stream of this connection
  pos,     \* the next byte of it; Len + 2 when its end has been told
  parser,  \* the struct http_parser
  call,    \* the locals of http_parser_execute, or NoCall
  called,  \* the callback of the last step, or Silence
  log      \* all callbacks, those with parts of one text joined

parserVars == <<stream, pos, parser, call, called, log>>

DataCallbacks == {"header_field", "header_value", "url", "body", "status"}
Callbacks == DataCallbacks \cup {"message_begin", "headers_complete", "message_complete",
                                 "chunk_header", "chunk_complete"}

NoMarks == [cb \in DataCallbacks |-> 0]
NoCall == [end |-> 0, nread |-> 0, fetched |-> FALSE, marks |-> NoMarks]
Silence == [cb |-> "none", data |-> <<>>]

StartState(type) == CASE type = "request" -> "start_req"
                      [] type = "response" -> "start_res"
                      [] type = "both" -> "start_req_or_res"

\* http_parser_init.  header_state and index say how far a name or a word has
\* been matched: header_state is the kind of header, phase where in its value
\* the parser is, and matched the letters that index counts.
HttpParserInit(type) ==
  [type |-> type, state |-> StartState(type), header_state |-> "general", phase |-> "name",
   matched |-> <<>>, flags |-> {}, uses_transfer_encoding |-> FALSE, nread |-> 0,
   content_length |-> 0, http_major |-> 0, http_minor |-> 0, status_code |-> 0,
   method |-> "DELETE", index |-> 0, errno |-> "OK", upgrade |-> FALSE]

ParserInit ==
  /\ stream \in Streams
  /\ pos = 1
  /\ parser = HttpParserInit(stream.type)
  /\ call = NoCall
  /\ called = Silence
  /\ log = <<>>

-----------------------------------------------------------------------------
(* Outcomes of a case of the switch, and callbacks. *)

Running == call.end # 0
At(states) == Running /\ call.fetched /\ parser.state \in states
ch == stream.wire[pos]

\* PARSING_HEADER
BodyStates == {"chunk_data", "chunk_data_almost_done", "chunk_data_done",
               "body_identity", "body_identity_eof", "message_done"}

In(state) == [parser EXCEPT !.state = state]

AdvanceTo(q, to) == [parser |-> q, pos |-> to, call |-> [call EXCEPT !.fetched = FALSE]]
Advance(q) == AdvanceTo(q, pos + 1)
Again(q) == [parser |-> q, pos |-> pos, call |-> call]
Leave(o) == [o EXCEPT !.parser.nread = o.call.nread, !.call = NoCall]
Return(q, to) == Leave(AdvanceTo(q, to))

\* Where in the buffer a call fails is left out: no call follows it.
Error(errno) == Return([parser EXCEPT !.errno = errno], pos)

\* MARK
Marked(o, cb) == [o EXCEPT !.call.marks[cb] = IF @ = 0 THEN pos ELSE @]

\* COUNT_HEADER_SIZE(n)
Counted(o, n) ==
  LET counted == [o EXCEPT !.call.nread = @ + n]
  IN  IF counted.call.nread <= MaxHeaderSize THEN counted
      ELSE Leave([counted EXCEPT !.parser.errno = "HEADER_OVERFLOW"])

Ends(o) ==
  /\ parser' = o.parser
  /\ pos' = o.pos
  /\ call' = o.call
  /\ UNCHANGED stream

Do(o) == Ends(o) /\ called' = Silence /\ UNCHANGED log

Joined(events, cb, data) ==
  IF cb \in DataCallbacks /\ events # <<>> /\ Last(events).cb = cb
  THEN [events EXCEPT ![Len(events)].data = @ \o data]
  ELSE Append(events, [cb |-> cb, data |-> data])

\* CALLBACK_NOTIFY_ and CALLBACK_DATA_ of a case that has come to o and goes on
\* to Then(o) if the callback returns 0.  http_parser_pause in it, or another
\* result, ends the call at o; only the error saves nread.
CallbackThen(cb, data, o, Then(_)) ==
  /\ called' = [cb |-> cb, data |-> data]
  /\ log' = Joined(log, cb, data)
  /\ \/ Ends(Then(o))
     \/ /\ "pause" \in stream.interruptions
        /\ Ends([o EXCEPT !.parser.errno = "PAUSED", !.call = NoCall])
     \/ /\ "error" \in stream.interruptions
        /\ Ends([Leave(o) EXCEPT !.parser.errno = "CB_" \o cb])

Stay(o) == o

Callback(cb, data, o) == CallbackThen(cb, data, o, Stay)

\* CALLBACK_DATA of what is marked, up to the byte `last`.
FlushThen(cb, last, o, Then(_)) ==
  IF call.marks[cb] = 0 THEN Do(Then(o))
  ELSE CallbackThen(cb, SubSeq(stream.wire, call.marks[cb], last),
                    [o EXCEPT !.call.marks[cb] = 0], Then)

Flush(cb, last, o) == FlushThen(cb, last, o, Stay)

-----------------------------------------------------------------------------
(* http_message_needs_eof, http_should_keep_alive and NEW_MESSAGE. *)

NeedsEof(q) ==
  /\ q.type # "request"
  /\ ~(q.status_code \div 100 = 1 \/ q.status_code \in {204, 304} \/ "SKIPBODY" \in q.flags)
  /\ \/ q.uses_transfer_encoding /\ "CHUNKED" \notin q.flags
     \/ "CHUNKED" \notin q.flags /\ q.content_length = UllongMax

ShouldKeepAlive(q) ==
  /\ IF q.http_major > 0 /\ q.http_minor > 0
     THEN "CONNECTION_CLOSE" \notin q.flags
     ELSE "CONNECTION_KEEP_ALIVE" \in q.flags
  /\ ~NeedsEof(q)

NewMessage(q) ==
  [q EXCEPT !.state = IF ~ShouldKeepAlive(q) THEN "dead"
                      ELSE IF q.type = "request" THEN "start_req" ELSE "start_res"]

-----------------------------------------------------------------------------
(* A call of http_parser_execute begins and ends. *)

UrlStates == {"path", "schema", "schema_slash", "schema_slash_slash", "query_string_start",
              "query_string", "fragment_start", "fragment"} \cup ServerStates

\* mutant: the text of a status line begins anew with each buffer
StatusUnmarked(state) == CASE state = "header_field" -> "header_field"
                           [] state = "header_value" -> "header_value"
                           [] state \in UrlStates -> "url"
                           [] OTHER -> "none"

\* The text that goes on when a buffer ends within it, by the state.
MarkOf(state) == CASE state = "header_field" -> "header_field"
                   [] state = "header_value" -> "header_value"
                   [] state = "res_status" -> "status"
                   [] state \in UrlStates -> "url"
                   [] OTHER -> "none"

\* The next size bytes, or what is left of the stream, are given to the parser.
Begin(size) ==
  /\ ~Running
  /\ parser.errno = "OK"
  /\ pos <= Len(stream.wire)
  /\ call' = [end |-> IF pos + size > Len(stream.wire) THEN Len(stream.wire) ELSE pos + size - 1,
              nread |-> parser.nread, fetched |-> FALSE,
              marks |-> [cb \in DataCallbacks |-> IF MarkOf(parser.state) = cb THEN pos ELSE 0]]
  /\ called' = Silence
  /\ UNCHANGED <<stream, pos, parser, log>>

Fetch ==
  /\ Running /\ ~call.fetched /\ pos <= call.end
  /\ LET o == [Again(parser) EXCEPT !.call.fetched = TRUE]
     IN  Do(IF parser.state \in BodyStates THEN o ELSE Counted(o, 1))

\* The buffer is used up: the text it breaks off in is handed over.
Finish ==
  /\ Running /\ ~call.fetched /\ pos > call.end
  /\ LET marked == {cb \in DataCallbacks : call.marks[cb] # 0}
     IN  IF marked = {} THEN Do(Return(parser, pos))
         ELSE FlushThen(CHOOSE cb \in marked : TRUE, call.end, AdvanceTo(parser, pos), Leave)

\* http_parser_execute with len = 0 tells the end of the connection.
Eof ==
  /\ ~Running
  /\ parser.errno = "OK"
  /\ pos = Len(stream.wire) + 1
  /\ LET o == [parser |-> parser, pos |-> pos + 1, call |-> [NoCall EXCEPT !.nread = parser.nread]]
     IN  IF parser.state = "body_identity_eof"
         THEN CallbackThen("message_complete", <<>>, o, Leave)
         ELSE IF parser.state \in {"dead", "start_req_or_res", "start_res", "start_req"}
         THEN Do(Leave(o))
         ELSE Do([Leave(o) EXCEPT !.parser.errno = "INVALID_EOF_STATE"])

\* http_parser_pause(parser, 0)
Resume ==
  /\ parser.errno = "PAUSED"
  /\ Do([parser |-> [parser EXCEPT !.errno = "OK"], pos |-> pos, call |-> NoCall])

-----------------------------------------------------------------------------
(* The first line. *)

LineEnds == {"CR", "LF"}

Dead ==
  /\ At({"dead"})
  /\ Do(IF ch \in LineEnds THEN Advance(parser) ELSE Error("CLOSED_CONNECTION"))

\* What the first byte of a message resets.
Fresh == [parser EXCEPT !.flags = {}, !.uses_transfer_encoding = FALSE, !.content_length = UllongMax]

StartReqOrRes ==
  /\ At({"start_req_or_res"})
  /\ IF ch \in LineEnds THEN Do(Advance(parser))
     ELSE IF ch = "H"
     THEN Callback("message_begin", <<>>, Advance([Fresh EXCEPT !.state = "res_or_resp_H"]))
     ELSE Do(Again([Fresh EXCEPT !.type = "request", !.state = "start_req"]))

ResOrRespH ==
  /\ At({"res_or_resp_H"})
  /\ Do(IF ch = "T" THEN Advance([parser EXCEPT !.type = "response", !.state = "res_HT"])
        ELSE IF ch = "E"
        THEN Advance([parser EXCEPT !.type = "request", !.method = "HEAD", !.index = 2,
                                    !.state = "req_method"])
        ELSE Error("INVALID_CONSTANT"))

StartRes ==
  /\ At({"start_res"})
  /\ IF ch \in LineEnds THEN Do(Advance(parser))
     ELSE IF ch = "H"
     THEN Callback("message_begin", <<>>, Advance([Fresh EXCEPT !.state = "res_H"]))
     ELSE Do(Error("INVALID_CONSTANT"))

\* States that STRICT_CHECK one byte and go on.
StrictMoves ==
  [res_H |-> <<"T", "res_HT">>, res_HT |-> <<"T", "res_HTT">>, res_HTT |-> <<"P", "res_HTTP">>,
   res_HTTP |-> <<"/", "res_http_major">>, res_line_almost_done |-> <<"LF", "header_field_start">>,
   req_http_H |-> <<"T", "req_http_HT">>, req_http_HT |-> <<"T", "req_http_HTT">>,
   req_http_HTT |-> <<"P", "req_http_HTTP">>, req_http_I |-> <<"C", "req_http_IC">>,
   req_http_IC |-> <<"E", "req_http_HTTP">>, req_http_HTTP |-> <<"/", "req_http_major">>,
   header_value_discard_ws_almost_done |-> <<"LF", "header_value_discard_lws">>]

StrictLetter ==
  /\ At(DOMAIN StrictMoves)
  /\ Do(IF ch = StrictMoves[parser.state][1] THEN Advance(In(StrictMoves[parser.state][2]))
        ELSE Error("STRICT"))

Version ==
  /\ At({"res_http_major", "res_http_dot", "res_http_minor", "res_http_end",
         "req_http_major", "req_http_dot", "req_http_minor"})
  /\ LET digit == DigitValue[ch]
         s == parser.state
     IN  Do(CASE s = "res_http_major" /\ ch \in Num ->
                   Advance([In("res_http_dot") EXCEPT !.http_major = digit])
              [] s = "req_http_major" /\ ch \in Num ->
                   Advance([In("req_http_dot") EXCEPT !.http_major = digit])
              [] s = "res_http_dot" /\ ch = "." -> Advance(In("res_http_minor"))
              [] s = "req_http_dot" /\ ch = "." -> Advance(In("req_http_minor"))
              [] s = "res_http_minor" /\ ch \in Num ->
                   Advance([In("res_http_end") EXCEPT !.http_minor = digit])
              [] s = "req_http_minor" /\ ch \in Num ->
                   Advance([In("req_http_end") EXCEPT !.http_minor = digit])
              [] s = "res_http_end" /\ ch = " " -> Advance(In("res_first_status_code"))
              [] OTHER -> Error("INVALID_VERSION"))

StatusCode ==
  /\ At({"res_first_status_code", "res_status_code"})
  /\ LET first == parser.state = "res_first_status_code"
         code == (IF first THEN 0 ELSE parser.status_code * 10) + DigitValue[ch]
     IN  Do(IF ch \in Num
            THEN IF code > 999 THEN Error("INVALID_STATUS")
                 ELSE Advance([In("res_status_code") EXCEPT !.status_code = code])
            ELSE IF ch = " " THEN Advance(IF first THEN parser ELSE In("res_status_start"))
            ELSE IF ch \in LineEnds /\ ~first THEN Again(In("res_status_start"))
            ELSE Error("INVALID_STATUS"))

StatusStart ==
  /\ At({"res_status_start"})
  /\ LET q == [In("res_status") EXCEPT !.index = 0]
     IN  Do(Marked(IF ch \in LineEnds THEN Again(q) ELSE Advance(q), "status"))

Status ==
  /\ At({"res_status"})
  /\ IF ch \in LineEnds
     THEN Flush("status", pos - 1,
                Advance(In(IF ch = "CR" THEN "res_line_almost_done" ELSE "header_field_start")))
     ELSE Do(Advance(parser))

\* The method that a first letter stands for until another letter turns it.
MethodOf ==
  [A |-> "ACL", B |-> "BIND", C |-> "CONNECT", D |-> "DELETE", G |-> "GET", H |-> "HEAD",
   L |-> "LOCK", M |-> "MKCOL", N |-> "NOTIFY", O |-> "OPTIONS", P |-> "POST", R |-> "REPORT",
   S |-> "SUBSCRIBE", T |-> "TRACE", U |-> "UNLOCK"]

StartReq ==
  /\ At({"start_req"})
  /\ IF ch \in LineEnds THEN Do(Advance(parser))
     ELSE IF ch \notin DOMAIN MethodOf THEN Do(Error("INVALID_METHOD"))
     ELSE Callback("message_begin", <<>>,
                   Advance([Fresh EXCEPT !.method = MethodOf[ch], !.index = 1,
                                         !.state = "req_method"]))

\* <<method, index, letter, the method it turns into>>
MethodTurns ==
  {<<"POST", 1, "U", "PUT">>, <<"POST", 1, "A", "PATCH">>, <<"POST", 1, "R", "PROPFIND">>,
   <<"PUT", 2, "R", "PURGE">>, <<"CONNECT", 1, "H", "CHECKOUT">>, <<"CONNECT", 2, "P", "COPY">>,
   <<"MKCOL", 1, "O", "MOVE">>, <<"MKCOL", 1, "E", "MERGE">>, <<"MKCOL", 1, "-", "M-SEARCH">>,
   <<"MKCOL", 2, "A", "MKACTIVITY">>, <<"MKCOL", 3, "A", "MKCALENDAR">>,
   <<"SUBSCRIBE", 1, "E", "SEARCH">>, <<"SUBSCRIBE", 1, "O", "SOURCE">>,
   <<"REPORT", 2, "B", "REBIND">>, <<"PROPFIND", 4, "P", "PROPPATCH">>, <<"LOCK", 1, "I", "LINK">>,
   <<"UNLOCK", 2, "S", "UNSUBSCRIBE">>, <<"UNLOCK", 2, "B", "UNBIND">>,
   <<"UNLOCK", 3, "I", "UNLINK">>}

ReqMethod ==
  /\ At({"req_method"})
  /\ LET n == parser.index
         over == n = Len(parser.method)
         turns == {t \in MethodTurns : t[1] = parser.method /\ t[2] = n /\ t[3] = ch}
         q == [parser EXCEPT !.index = n + 1]
     IN  Do(IF over /\ ch = " " THEN Advance([q EXCEPT !.state = "spaces_before_url"])
            ELSE IF ~over /\ ch = SubSeq(parser.method, n + 1, n + 1) THEN Advance(q)
            ELSE IF turns # {} THEN Advance([q EXCEPT !.method = (CHOOSE t \in turns : TRUE)[4]])
            ELSE Error("INVALID_METHOD"))

\* The next byte of the target, from state s.
Target(s) ==
  LET next == ParseUrlChar(s, ch)
  IN  IF next = "dead" THEN Error("INVALID_URL") ELSE Advance(In(next))

SpacesBeforeUrl ==
  /\ At({"spaces_before_url"})
  /\ Do(IF ch = " " THEN Advance(parser)
        ELSE LET o == Target(IF parser.method = "CONNECT" THEN "server_start" ELSE parser.state)
             IN  IF o.call = NoCall THEN o ELSE Marked(o, "url"))

\* States of a target that may end where it is.
MayEndUrl == UrlStates \ {"schema", "schema_slash", "schema_slash_slash", "server_start"}

Url ==
  /\ At(UrlStates)
  /\ IF ch = " " /\ parser.state \in MayEndUrl THEN Flush("url", pos - 1, Advance(In("req_http_start")))
     ELSE IF ch \in LineEnds /\ parser.state \in MayEndUrl
     THEN Flush("url", pos - 1,
                Advance([In(IF ch = "CR" THEN "req_line_almost_done" ELSE "header_field_start")
                           EXCEPT !.http_major = 0, !.http_minor = 9]))
     ELSE Do(Target(parser.state))

ReqHttpStart ==
  /\ At({"req_http_start"})
  /\ Do(IF ch = " " THEN Advance(parser)
        ELSE IF ch = "H" THEN Advance(In("req_http_H"))
        ELSE IF ch = "I" /\ parser.method = "SOURCE" THEN Advance(In("req_http_I"))
        ELSE Error("INVALID_CONSTANT"))

ReqHttpEnd ==
  /\ At({"req_http_end"})
  /\ Do(IF ch = "CR" THEN Advance(In("req_line_almost_done"))
        ELSE IF ch = "LF" THEN Advance(In("header_field_start"))
        ELSE Error("INVALID_VERSION"))

ReqLineAlmostDone ==
  /\ At({"req_line_almost_done"})
  /\ Do(IF ch = "LF" THEN Advance(In("header_field_start")) ELSE Error("LF_EXPECTED"))

-----------------------------------------------------------------------------
(* Headers. *)

TokenChar == Alpha \cup Num \cup Characters("!#$%&'*+-.^_|~")
HeaderChar == TokenChar \cup UrlChar \cup {" ", "HT", "#", "?", "CR", "LF"}

LowerOf(c) == IF c \in Upper
              THEN LET n == CHOOSE i \in 1..26 : SubSeq("ABCDEFGHIJKLMNOPQRSTUVWXYZ", i, i) = c
                   IN  SubSeq("abcdefghijklmnopqrstuvwxyz", n, n)
              ELSE c

Lower(text) == [i \in DOMAIN text |-> LowerOf(text[i])]

\* The headers the parser looks into, by their names.
KindOf == [n \in {Spell("connection"), Spell("proxy-connection"), Spell("content-length"),
                  Spell("transfer-encoding"), Spell("upgrade")} |->
             CASE n = Spell("content-length") -> "content_length"
               [] n = Spell("transfer-encoding") -> "transfer_encoding"
               [] n = Spell("upgrade") -> "upgrade"
               [] OTHER -> "connection"]

\* The letters of a name after those already matched: h_general when they are
\* not the beginning of one of these names.
NameRead(q, letters) ==
  LET name == q.matched \o Lower(letters)
      named == [q EXCEPT !.phase = "name", !.matched = name,
                         !.uses_transfer_encoding = @ \/ IsPrefix(Spell("transfer-encoding"), name)]
  IN  IF q.header_state = "general" THEN q
      ELSE IF name \in DOMAIN KindOf THEN [named EXCEPT !.header_state = KindOf[name]]
      ELSE IF \E n \in DOMAIN KindOf : IsPrefix(name, n) THEN [named EXCEPT !.header_state = "matching"]
      ELSE [named EXCEPT !.header_state = "general", !.matched = <<>>]

HeaderFieldStart ==
  /\ At({"header_field_start"})
  /\ Do(IF ch = "CR" THEN Advance(In("headers_almost_done"))
        ELSE IF ch = "LF" THEN Again(In("headers_almost_done"))
        ELSE IF ch \notin TokenChar THEN Error("INVALID_HEADER_TOKEN")
        ELSE Marked(Advance(NameRead([In("header_field") EXCEPT !.header_state = "matching",
                                                                !.matched = <<>>], <<ch>>)),
                    "header_field"))

\* The first byte from pos on that stops a run of bytes, or the one after the
\* buffer.
RunEnd(stops) ==
  LET ends == {i \in pos..call.end : stops[stream.wire[i]]}
  IN  IF ends = {} THEN call.end + 1 ELSE CHOOSE i \in ends : \A j \in ends : i <= j

AllChar == HeaderChar \cup {"NUL", "DEL"}

ASSUME StreamAssumption ==
  \A s \in Streams : s.wire \in Seq(AllChar) /\ s.type \in {"request", "response", "both"}

HeaderField ==
  /\ At({"header_field"})
  /\ LET p == RunEnd([c \in AllChar |-> c \notin TokenChar])
         q == NameRead(parser, SubSeq(stream.wire, pos, p - 1))
         at == [q EXCEPT !.state = "header_value_discard_ws"]
     IN  IF p > call.end THEN Do(Counted(AdvanceTo(q, p), p - 1 - pos))
         ELSE LET o == Counted(AdvanceTo(at, p + 1), p - pos)
              IN  IF o.call = NoCall THEN Do(o)
                  ELSE IF stream.wire[p] # ":" THEN Do(Error("INVALID_HEADER_TOKEN"))
                  ELSE Flush("header_field", p - 1, o)

\* What the lists in the values of these headers are searched for.
Words == [connection |-> {Spell("keep-alive"), Spell("close"), Spell("upgrade")},
          transfer_encoding |-> {Spell("chunked")}]

WordFlag(word) == CASE word = Spell("keep-alive") -> "CONNECTION_KEEP_ALIVE"
                    [] word = Spell("close") -> "CONNECTION_CLOSE"
                    [] word = Spell("upgrade") -> "CONNECTION_UPGRADE"
                    [] word = Spell("chunked") -> "CHUNKED"

ListKinds == DOMAIN Words
Begins(kind, letters) == \E w \in Words[kind] : IsPrefix(letters, w)
WholeWord(q) == q.header_state \in ListKinds /\ q.phase = "word" /\ q.matched \in Words[q.header_state]

\* The end of a header: the word its value ends with takes effect.
Finished(q) == IF WholeWord(q) THEN [q EXCEPT !.flags = @ \cup {WordFlag(q.matched)}] ELSE q

\* s_header_value_start: the first byte of a value, or of a folded line.
ValueStart(c) ==
  LET q == In("header_value")
      kind == q.header_state
      list(phase) == [q EXCEPT !.phase = phase, !.matched = <<LowerOf(c)>>]
  IN  CASE kind = "upgrade" -> Advance([q EXCEPT !.flags = @ \cup {"UPGRADE"}, !.header_state = "general"])
        [] kind \in ListKinds /\ q.phase = "name" ->
             Advance(list(IF Begins(kind, <<LowerOf(c)>>) THEN "word" ELSE "token"))
        [] kind = "content_length" /\ q.phase = "name" ->
             IF c \notin Num THEN Error("INVALID_CONTENT_LENGTH")
             ELSE IF "CONTENTLENGTH" \in q.flags THEN Error("UNEXPECTED_CONTENT_LENGTH")
             ELSE Advance([q EXCEPT !.flags = @ \cup {"CONTENTLENGTH"}, !.phase = "num",
                                    !.content_length = DigitValue[c]])
        [] \/ kind = "content_length" /\ q.phase = "ws"
           \/ kind \in ListKinds /\ q.phase = "start" -> Advance(q)
        [] OTHER -> Advance([q EXCEPT !.header_state = "general"])

HeaderValueDiscardWs ==
  /\ At({"header_value_discard_ws"})
  /\ Do(IF ch \in {" ", "HT"} THEN Advance(parser)
        ELSE IF ch = "CR" THEN Advance(In("header_value_discard_ws_almost_done"))
        ELSE IF ch = "LF" THEN Advance(In("header_value_discard_lws"))
        ELSE LET o == ValueStart(ch)
             IN  IF o.call = NoCall THEN o ELSE Marked(o, "header_value"))

HeaderValueStart ==
  /\ At({"header_value_start"})
  /\ Do(LET o == ValueStart(ch) IN IF o.call = NoCall THEN o ELSE Marked(o, "header_value"))

\* The next digit of a length, or UllongMax when the length may be too large.
DigitRead(length, base, digit) ==
  IF (UllongMax - base) \div base < length THEN UllongMax ELSE length * base + digit

LengthByte(q, c) ==
  LET bad == [q EXCEPT !.errno = "INVALID_CONTENT_LENGTH"]
      length == DigitRead(q.content_length, 10, DigitValue[c])
  IN  IF c = " " THEN [q EXCEPT !.phase = "ws"]
      ELSE IF q.phase = "ws" \/ c \notin Num THEN bad
      ELSE IF length = UllongMax THEN bad
      ELSE [q EXCEPT !.content_length = length]

\* The characters that LOWER makes tokens; it makes none of a tab.
LowerToken == (TokenChar \cup {"@", "\\"}) \ {"_"}

\* A byte of a list that is searched for words.
ListByte(q, c) ==
  LET kind == q.header_state
      word == Append(q.matched, LowerOf(c))
      first == <<LowerOf(c)>>
      in(phase) == [q EXCEPT !.phase = phase]
  IN  CASE q.phase = "start" ->
             IF Begins(kind, first) THEN [in("word") EXCEPT !.matched = first]
             ELSE IF c \in LowerToken THEN in("token")
             ELSE IF c = " " THEN q
             ELSE [q EXCEPT !.header_state = "general"]
        [] q.phase = "token" -> IF c = "," THEN in("start") ELSE q
        [] WholeWord(q) ->
             IF c = " " THEN q
             ELSE IF c = "," /\ kind = "connection"
             THEN [in("start") EXCEPT !.flags = @ \cup {WordFlag(q.matched)}]
             ELSE in("token")
        [] OTHER -> IF Begins(kind, word) THEN [q EXCEPT !.matched = word] ELSE in("token")

\* A byte of a value, neither CR nor LF.
ValueByte(q, c) ==
  IF q.errno # "OK" THEN q
  ELSE IF c \notin HeaderChar THEN [q EXCEPT !.errno = "INVALID_HEADER_TOKEN"]
  ELSE IF q.header_state = "content_length" THEN LengthByte(q, c)
  ELSE IF q.header_state \in ListKinds THEN ListByte(q, c)
  ELSE q

\* The bytes of a value: the inner loop of h_general, or one after the other.
ValueRead(q, bytes) ==
  LET after[i \in 0..Len(bytes)] ==
        IF i = 0 THEN q
        ELSE CHOOSE v \in {ValueByte(x, bytes[i]) : x \in {after[i - 1]}} : TRUE
  IN  IF q.header_state # "general" THEN after[Len(bytes)]
      ELSE IF \A i \in DOMAIN bytes : bytes[i] \in HeaderChar THEN q
      ELSE [q EXCEPT !.errno = "INVALID_HEADER_TOKEN"]

\* A line that ends in CR is handed over before it is counted, one that ends in
\* LF after.
HeaderValue ==
  /\ At({"header_value"})
  /\ LET p == RunEnd([c \in AllChar |-> c \in LineEnds])
     IN \E q \in {ValueRead(parser, SubSeq(stream.wire, pos, p - 1))} :
     LET at == [q EXCEPT !.state = "header_almost_done"]
         lf == Counted([AdvanceTo(at, p) EXCEPT !.call.fetched = TRUE], p - pos)
     IN  IF q.errno # "OK" THEN Do(Error(q.errno))
         ELSE IF p > call.end THEN Do(Counted(AdvanceTo(q, p), p - 1 - pos))
         ELSE IF stream.wire[p] = "CR"
         THEN LET Count(o) == Counted(o, p - pos)
              IN  FlushThen("header_value", p - 1, AdvanceTo(at, p + 1), Count)
         ELSE IF lf.call = NoCall THEN Do(lf)
         ELSE Flush("header_value", p - 1, lf)

HeaderAlmostDone ==
  /\ At({"header_almost_done"})
  /\ Do(IF ch = "LF" THEN Advance(In("header_value_lws")) ELSE Error("LF_EXPECTED"))

HeaderValueLws ==
  /\ At({"header_value_lws"})
  /\ Do(IF ch \in {" ", "HT"}
        THEN Again([In("header_value_start") EXCEPT
                      !.phase = IF parser.header_state = "content_length" /\ @ = "num" THEN "ws" ELSE @])
        ELSE Again([Finished(parser) EXCEPT !.state = "header_field_start"]))

\* The value is empty, unless it goes on after a folded line.
HeaderValueDiscardLws ==
  /\ At({"header_value_discard_lws"})
  /\ IF ch \in {" ", "HT"} THEN Do(Advance(In("header_value_discard_ws")))
     ELSE IF parser.header_state = "content_length" THEN Do(Error("INVALID_CONTENT_LENGTH"))
     ELSE Callback("header_value", <<>>, Again([Finished(parser) EXCEPT !.state = "header_field_start"]))

Upgrades(q) ==
  IF {"UPGRADE", "CONNECTION_UPGRADE"} \subseteq q.flags
  THEN q.type = "request" \/ q.status_code = 101
  ELSE q.method = "CONNECT"

\* on_headers_complete, which sees the method, returns one of answers: 1 and 2
\* for no body, 2 for another protocol, or something else to fail.
HeadersAlmostDone(answers) ==
  /\ At({"headers_almost_done"})
  /\ LET q == [In("headers_done") EXCEPT !.upgrade = Upgrades(parser)]
         saved == [q EXCEPT !.nread = call.nread]
         seen == <<parser.method>>
     IN  IF ch # "LF" THEN Do(Error("STRICT"))
         ELSE IF "TRAILING" \in parser.flags
         THEN Callback("chunk_complete", <<>>, Again(In("message_done")))
         ELSE IF parser.uses_transfer_encoding /\ "CONTENTLENGTH" \in parser.flags
         THEN Do(Error("UNEXPECTED_CONTENT_LENGTH"))
         ELSE \E a \in answers :
                CASE a = 0 -> Callback("headers_complete", seen, Again(saved))
                  [] a \in {1, 2} ->
                       Callback("headers_complete", seen,
                                Again([saved EXCEPT !.flags = @ \cup {"SKIPBODY"},
                                                    !.upgrade = @ \/ a = 2]))
                  [] OTHER -> /\ Ends(Return([q EXCEPT !.errno = "CB_headers_complete"], pos))
                              /\ called' = [cb |-> "headers_complete", data |-> seen]
                              /\ log' = Joined(log, "headers_complete", seen)

CountKept(o) == [o EXCEPT !.parser.nread = 0]  \* mutant: the local counter goes on

\* parser->nread = 0; nread = 0
Uncounted(o) == [o EXCEPT !.parser.nread = 0, !.call.nread = 0]

\* mutant: every message ends the call
LeavesAnyway(o, leaves) == CallbackThen("message_complete", <<>>, [o EXCEPT !.parser = NewMessage(@)], Leave)

\* message_complete, after which a parser that upgrades leaves the rest alone
Complete(o, leaves) ==
  LET next == [o EXCEPT !.parser = NewMessage(@)]
  IN  IF leaves THEN CallbackThen("message_complete", <<>>, next, Leave)
      ELSE Callback("message_complete", <<>>, next)

HeadersDone ==
  /\ At({"headers_done"})
  /\ LET length == parser.content_length
         chunked == "CHUNKED" \in parser.flags
         hasBody == chunked \/ length \notin {0, UllongMax}
         skip == "SKIPBODY" \in parser.flags
         on(state) == Do(Uncounted(Advance(In(state))))
         done(leaves) == Complete(Uncounted(Advance(parser)), leaves)
     IN  IF ch # "LF" THEN Do(Error("STRICT"))
         ELSE IF parser.upgrade /\ (parser.method = "CONNECT" \/ skip \/ ~hasBody) THEN done(TRUE)
         ELSE IF skip THEN done(FALSE)
         ELSE IF chunked THEN on("chunk_size_start")
         ELSE IF parser.uses_transfer_encoding
         THEN IF parser.type = "request"
              THEN Do([Error("INVALID_TRANSFER_ENCODING") EXCEPT !.parser.nread = 0])
              ELSE on("body_identity_eof")
         ELSE IF length = 0 THEN done(FALSE)
         ELSE IF length # UllongMax THEN on("body_identity")
         ELSE IF ~NeedsEof(parser) THEN done(FALSE)
         ELSE on("body_identity_eof")

-----------------------------------------------------------------------------
(* Bodies. *)

\* How much of the body that is left the buffer holds.
ToRead == LET left == call.end - pos + 1
          IN  IF parser.content_length < left THEN parser.content_length ELSE left

BodyIdentity ==
  /\ At({"body_identity"})
  /\ LET n == ToRead
         q == [parser EXCEPT !.content_length = @ - n]
         from == IF call.marks["body"] = 0 THEN pos ELSE call.marks["body"]
         last == [Again([q EXCEPT !.state = "message_done"]) EXCEPT !.pos = pos + n - 1]
     IN  IF q.content_length = 0
         THEN Callback("body", SubSeq(stream.wire, from, pos + n - 1), last)
         ELSE Do(Marked(AdvanceTo(q, pos + n), "body"))

BodyIdentityEof ==
  /\ At({"body_identity_eof"})
  /\ Do(Marked(AdvanceTo(parser, call.end + 1), "body"))

MessageDone ==
  /\ At({"message_done"})
  /\ Complete(Advance(parser), parser.upgrade)

HexValue == [d \in Hex |-> IF d \in Num THEN DigitValue[d]
                           ELSE 9 + (CHOOSE n \in 1..6 : SubSeq("abcdef", n, n) = LowerOf(d))]

\* What the characters of numbers are worth, that the words of headers differ and
\* that the results of callbacks are errors: facts about strings, which depend on
\* no constant.
ASSUME CharacterAssumption ==
  /\ \A d \in Num : DigitValue[d] \in 0..9
  /\ \A d \in Hex : HexValue[d] \in 0..15
  /\ KindOf[Spell("content-length")] = "content_length"
  /\ \A word \in Words["connection"] : WordFlag(word) # "CHUNKED"
  /\ \A cb \in Callbacks : "CB_" \o cb \notin {"OK", "PAUSED"}

ChunkSize ==
  /\ At({"chunk_size_start", "chunk_size"})
  /\ LET first == parser.state = "chunk_size_start"
         length == IF first THEN HexValue[ch] ELSE DigitRead(parser.content_length, 16, HexValue[ch])
     IN  Do(IF ch = "CR" /\ ~first THEN Advance(In("chunk_size_almost_done"))
            ELSE IF ch \in {";", " "} /\ ~first THEN Advance(In("chunk_parameters"))
            ELSE IF ch \notin Hex THEN Error("INVALID_CHUNK_SIZE")
            ELSE IF length = UllongMax THEN Error("INVALID_CONTENT_LENGTH")
            ELSE Advance([In("chunk_size") EXCEPT !.content_length = length]))

ChunkParameters ==
  /\ At({"chunk_parameters"})
  /\ Do(Advance(IF ch = "CR" THEN In("chunk_size_almost_done") ELSE parser))

ChunkSizeAlmostDone ==
  /\ At({"chunk_size_almost_done"})
  /\ IF ch # "LF" THEN Do(Error("STRICT"))
     ELSE Callback("chunk_header", <<>>,
                   Uncounted(Advance(IF parser.content_length = 0
                                     THEN [In("header_field_start") EXCEPT !.flags = @ \cup {"TRAILING"}]
                                     ELSE In("chunk_data"))))

ChunkData ==
  /\ At({"chunk_data"})
  /\ LET q == [parser EXCEPT !.content_length = @ - ToRead,
                             !.state = IF parser.content_length = ToRead
                                       THEN "chunk_data_almost_done" ELSE @]
     IN  Do(Marked(AdvanceTo(q, pos + ToRead), "body"))

ChunkDataAlmostDone ==
  /\ At({"chunk_data_almost_done"})
  /\ IF ch # "CR" THEN Do(Error("STRICT"))
     ELSE Flush("body", pos - 1, Advance(In("chunk_data_done")))

ChunkDataDone ==
  /\ At({"chunk_data_done"})
  /\ IF ch # "LF" THEN Do(Error("STRICT"))
     ELSE Callback("chunk_complete", <<>>, Uncounted(Advance(In("chunk_size_start"))))

-----------------------------------------------------------------------------
\* The call goes on.
Execute(answers) ==
  \/ Fetch \/ Finish
  \/ Dead \/ StartReqOrRes \/ ResOrRespH \/ StartRes \/ StrictLetter \/ Version
  \/ StatusCode \/ StatusStart \/ Status
  \/ StartReq \/ ReqMethod \/ SpacesBeforeUrl \/ Url \/ ReqHttpStart \/ ReqHttpEnd
  \/ ReqLineAlmostDone
  \/ HeaderFieldStart \/ HeaderField \/ HeaderValueDiscardWs \/ HeaderValueStart
  \/ HeaderValue \/ HeaderAlmostDone \/ HeaderValueLws \/ HeaderValueDiscardLws
  \/ HeadersAlmostDone(answers) \/ HeadersDone
  \/ BodyIdentity \/ BodyIdentityEof \/ MessageDone
  \/ ChunkSize \/ ChunkParameters \/ ChunkSizeAlmostDone
  \/ ChunkData \/ ChunkDataAlmostDone \/ ChunkDataDone

\* The parser has found that the rest is in another protocol.
Upgraded == parser.upgrade /\ parser.state \in {"dead", "start_req", "start_res"}

\* A program that reads a connection with the parser as its header asks: it
\* stops after an error and after an upgrade, and resumes after a pause.
ApplicationNext ==
  \/ ~Upgraded /\ \E size \in BufferSizes : Begin(size)
  \/ Execute({stream.answer})
  \/ ~Upgraded /\ Eof
  \/ Resume

-----------------------------------------------------------------------------
(* Properties.  A stream says what it means: `events`, the callbacks it leads *)
(* to, with whole texts, and `errno`, the error that ends it.                 *)

\* The callbacks made so far are the first of these, the last text perhaps not
\* whole yet.
MeantSoFar(events, meant) ==
  /\ Len(events) <= Len(meant)
  /\ \A i \in 1..Len(events) - 1 : events[i] = meant[i]
  /\ events # <<>> =>
       LET last == Last(events)
           next == meant[Len(events)]
       IN  /\ last.cb = next.cb
           /\ IF last.cb \in DataCallbacks THEN IsPrefix(last.data, next.data) ELSE last = next

WholeStream == ~Running /\ parser.errno = "OK" /\ (Upgraded \/ pos = Len(stream.wire) + 2)

\* The callbacks of a stream are the meant ones.
EventsAreMeant ==
  /\ MeantSoFar(log, stream.events)
  /\ WholeStream => log = stream.events

\* Its error, too.
ErrorsAreMeant ==
  /\ parser.errno \notin {"OK", "PAUSED"} /\ parser.errno \notin {"CB_" \o e.cb : e \in Range(log)} =>
       parser.errno = stream.errno
  /\ WholeStream => stream.errno = "OK"

\* However a stream is cut into buffers, and wherever callbacks pause the
\* parser, the callbacks get the method, target, headers, bodies and ends of
\* messages that the stream means, in order, each text once and whole; and a
\* stream is refused just when it is malformed, for the reason there is.
StreamIsMeant == EventsAreMeant /\ ErrorsAreMeant

\* The asserts of http_parser_execute hold: one text at a time is marked, a
\* list in a header has been begun before it goes on, there is a body to read
\* where one is read, and a chunk begins with its own count of bytes.
AssertsHold ==
  /\ Cardinality({cb \in DataCallbacks : call.marks[cb] # 0}) <= 1
  /\ At({"header_value"}) => ~(parser.header_state \in ListKinds /\ parser.phase = "name")
  /\ At({"body_identity", "chunk_data"}) => parser.content_length \notin {0, UllongMax}
  /\ At({"chunk_data_almost_done"}) => parser.content_length = 0
  /\ At({"chunk_size_start"}) => call.nread = 1
  /\ At({"chunk_size_start", "chunk_size", "chunk_data", "chunk_data_done"}) =>
       "CHUNKED" \in parser.flags

\* The states between which a turn of the loop may go without taking a byte.
ReexecuteOrder ==
  <<"start_req_or_res", "start_req", "res_status_code", "res_status_start", "res_status",
    "header_value", "header_almost_done", "header_value_discard_ws", "header_value_lws",
    "header_value_discard_lws", "header_value_start", "header_field_start", "headers_almost_done",
    "headers_done", "body_identity", "message_done">>

Later(s, t) == \E i, j \in DOMAIN ReexecuteOrder : i < j /\ ReexecuteOrder[i] = s /\ ReexecuteOrder[j] = t

\* The loop comes to its end, and leaves nothing unread: a turn takes a byte or
\* re-executes it in a later state of an order without cycles, and a call that
\* is over has read its whole buffer, unless the parser is paused, has failed or
\* leaves the rest to another protocol.
EveryByteIsRead ==
  [][Running /\ call.fetched =>
       /\ \/ pos' > pos
          \/ pos' = pos /\ Later(parser.state, parser'.state)
          \/ parser'.errno # "OK"
       /\ ~Running' => parser'.errno # "OK" \/ parser'.upgrade]_parserVars

UrlFieldOrder == <<"schema", "userinfo", "host", "port", "path", "query", "fragment">>

UrlDelimiters == {":", "/", "?", "#", "@", "[", "]"}

\* The fields of a URL are disjoint, come in order and leave out delimiters
\* only; the port is the number that is written, and a scheme has a host.
FieldsAreRight(url, r) ==
  LET f == r.fields
      bytes(n) == f[n].off + 1 .. f[n].off + f[n].len
      before(m, n) == \E i, j \in 1..7 : i < j /\ UrlFieldOrder[i] = m /\ UrlFieldOrder[j] = n
  IN  /\ \A n \in DOMAIN f : bytes(n) # {} /\ bytes(n) \subseteq 1..Len(url)
      /\ \A m, n \in DOMAIN f : before(m, n) => \A i \in bytes(m), j \in bytes(n) : i < j
      /\ \A i \in 1..Len(url) : url[i] \in UrlDelimiters \/ \E n \in DOMAIN f : i \in bytes(n)
      /\ "schema" \in DOMAIN f => "host" \in DOMAIN f
      /\ r.port = IF "port" \in DOMAIN f THEN Decimal(Text(url, f, "port")) ELSE 0

\* http_parser_parse_url cuts each target that a request line is accepted with
\* into the right fields, or refuses it for its host or its port.  A target of
\* 2^16 bytes, which MaxHeaderSize has room for, is more than off and len count.
UrlFieldsAreRight ==
  LET url == Last(log).data
      r == ParseUrl(url, parser.method = "CONNECT")
  IN  log # <<>> /\ Last(log).cb = "url" /\ parser.state \notin UrlStates /\ Len(url) \in 0..FieldWidth - 1 /\ r.ok =>
        FieldsAreRight(url, r)
================================================================================
