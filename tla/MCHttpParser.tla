------------------------------ MODULE MCHttpParser ------------------------------
(***************************************************************************)
(* The streams that the HTTP parser and the callbacks of the HTTP server   *)
(* are checked on, written as bytes with what they mean.                   *)
(***************************************************************************)
EXTENDS HttpHeaders

CRLF == <<"CR", "LF">>
LF == <<"LF">>

Event(cb, data) == [cb |-> cb, data |-> data]

\* A header: how it is written, and its name and value.
Written(name, spaced, value) ==
  [wire |-> Spell(name) \o <<":">> \o spaced \o value, name |-> Spell(name), value |-> value]

Plain(name, value) ==
  [wire |-> Spell(name) \o Spell(":") \o Spell(value), name |-> Spell(name), value |-> Spell(value)]

\* A value on two lines, the second of which begins with a space.
Folded(name, line, more, eol) ==
  [wire |-> Spell(name) \o Spell(": ") \o Spell(line) \o eol \o Spell(" ") \o Spell(more),
   name |-> Spell(name), value |-> Spell(line) \o Spell(" ") \o Spell(more)]

\* An empty value on two lines.
FoldedEmpty(name, more, eol) ==
  [wire |-> Spell(name) \o Spell(":") \o eol \o Spell(" ") \o Spell(more),
   name |-> Spell(name), value |-> Spell(more)]

HeadersWire(hs, eol) == FlattenSeq([i \in DOMAIN hs |-> hs[i].wire \o eol]) \o eol

HeadersEvents(hs) ==
  FlattenSeq([i \in DOMAIN hs |-> <<Event("header_field", hs[i].name), Event("header_value", hs[i].value)>>])

\* A first line: how it is written, what is told of it and the method.
Line(written, cb, told, method) ==
  [wire |-> Spell(written), cb |-> cb, told |-> Spell(told), method |-> method]

RequestLine(method, target) ==
  Line(method \o " " \o target \o " HTTP/1.1", "url", target, method)

\* A body: how it is written and what is told of it.
NoBody == [wire |-> <<>>, events |-> <<>>]
Body(text) == [wire |-> Spell(text), events |-> <<Event("body", Spell(text))>>]

Chunk(size, text) ==
  [wire |-> Spell(size) \o CRLF \o Spell(text) \o CRLF,
   events |-> <<Event("chunk_header", <<>>), Event("body", Spell(text)), Event("chunk_complete", <<>>)>>]

Chunks(cs, trailers) ==
  [wire |-> FlattenSeq([i \in DOMAIN cs |-> cs[i].wire]) \o Spell("0") \o CRLF \o HeadersWire(trailers, CRLF),
   events |-> FlattenSeq([i \in DOMAIN cs |-> cs[i].events]) \o <<Event("chunk_header", <<>>)>>
              \o HeadersEvents(trailers) \o <<Event("chunk_complete", <<>>)>>]

Message(line, hs, body, eol) ==
  [wire |-> line.wire \o eol \o HeadersWire(hs, eol) \o body.wire,
   events |-> <<Event("message_begin", <<>>), Event(line.cb, line.told)>> \o HeadersEvents(hs)
              \o <<Event("headers_complete", <<line.method>>)>> \o body.events
              \o <<Event("message_complete", <<>>)>>]

Stream(type, answer, messages, tail, errno) ==
  [reader |-> "application", type |-> type, answer |-> answer, errno |-> errno,
   interruptions |-> {"pause", "error"},
   wire |-> FlattenSeq([i \in DOMAIN messages |-> messages[i].wire]) \o tail.wire,
   events |-> FlattenSeq([i \in DOMAIN messages |-> messages[i].events]) \o tail.events]

\* The same stream with callbacks that return 0.
Calm(streams) == {[s EXCEPT !.interruptions = {}] : s \in streams}

Good(type, messages) == Stream(type, 0, messages, NoBody, "OK")
Skipping(type, answer, messages) == Stream(type, answer, messages, NoBody, "OK")

\* A stream that goes wrong within its last message.
Bad(type, messages, wire, events, errno) ==
  Stream(type, 0, messages, [wire |-> wire, events |-> events], errno)

-----------------------------------------------------------------------------
Get(target) == Message(RequestLine("GET", target), <<>>, NoBody, CRLF)
Post(hs, body) == Message(RequestLine("POST", "/"), hs, body, CRLF)
Length(n) == Written("Content-Length", <<" ">>, Spell(n))
Chunked == Plain("Transfer-Encoding", "chunked")
Hi(n) == Plain("a", n)

Methods == {"DELETE", "GET", "HEAD", "POST", "PUT", "OPTIONS", "TRACE", "COPY", "LOCK", "MKCOL",
            "MOVE", "PROPFIND", "PROPPATCH", "SEARCH", "UNLOCK", "BIND", "REBIND", "UNBIND", "ACL",
            "REPORT", "MKACTIVITY", "CHECKOUT", "MERGE", "M-SEARCH", "NOTIFY", "SUBSCRIBE",
            "UNSUBSCRIBE", "PATCH", "PURGE", "MKCALENDAR", "LINK", "UNLINK", "SOURCE"}

MethodStreams ==
  {Good("request", <<Message(RequestLine(m, "*"), <<>>, NoBody, LF)>>) : m \in Methods}
  \cup {Bad("request", <<>>, Spell(w), <<Event("message_begin", <<>>)>>, "INVALID_METHOD") :
          w \in {"GEX", "PO ", "MKX", "UNLOCKS ", "G@"}}
  \cup {Bad("request", <<>>, Spell("x"), <<>>, "INVALID_METHOD")}

\* Targets of few characters, in requests that end with them.
Authority(w) ==
  LET ends == {i \in DOMAIN w : w[i] \in {"/", "?"}}
  IN  IF ends = {} THEN w ELSE SubSeq(w, 1, (CHOOSE i \in ends : \A j \in ends : i <= j) - 1)

IsTarget(w) ==
  LET a == Authority(w)
  IN  /\ \A i \in DOMAIN a : a[i] # "#"
      /\ \A i \in 1..Len(a) - 1 : ~(a[i] = "@" /\ a[i + 1] = "@")

Simple(method, target, m) ==
  [wire |-> Spell(method \o " ") \o target \o m.wire,
   events |-> <<Event("message_begin", <<>>), Event("url", target)>> \o m.events]

TargetStream(w, ok) ==
  LET rest == [wire |-> LF \o LF,
               events |-> <<Event("headers_complete", <<"GET">>), Event("message_complete", <<>>)>>]
  IN  IF ok THEN Good("request", <<Simple("GET", w, rest)>>)
      ELSE LET m == Simple("GET", w, rest) IN Bad("request", <<>>, m.wire, m.events, "INVALID_URL")

TargetStreams ==
  {TargetStream(Spell("/") \o w, TRUE) : w \in SeqOf({"a", "?", "#"}, 2)}
  \cup {TargetStream(Spell("h://") \o w, IsTarget(w)) :
          w \in (SeqOf({"a", "/", "@", "?", "#"}, 3) \cup SeqOf({"a", "1", ":", "[", "]", "/"}, 2)) \ {<<>>}}
  \cup {TargetStream(Spell(w), FALSE) : w \in {"h", "h:", "h:/", "h:a", "h://", "?", "h1"}}
  \cup {TargetStream(Spell(w), TRUE) :
          w \in {"h://u:p@[::1%z]:80/?#", "h://a:65535", "h://a:65536/", "h://[a", "h://[1%]/"}}

Connects ==
  {Good("request", <<Message(RequestLine("CONNECT", w), <<>>, NoBody, CRLF)>>) :
     w \in {"a:80", "a", "[::1]:8", "u@a:80", "a:80/"}}

-----------------------------------------------------------------------------
Closing == Plain("Connection", "close")

LineStreams ==
  {Good("request", <<Message(Line("GET / HTTP/1.0", "url", "/", "GET"), <<Plain("Connection", v)>>,
                             NoBody, CRLF), Get("/a")>>) : v \in {"keep-alive", "x, Keep-Alive"}}
  \cup {Bad("request", <<Message(Line(l, "url", "/", "GET"), hs, NoBody, CRLF)>>, CRLF \o Spell("G"), <<>>,
            "CLOSED_CONNECTION") :
          l \in {"GET / HTTP/1.1"}, hs \in {<<Closing>>, <<Hi("b"), Plain("PROXY-connection", "a,Close ")>>}}
  \cup {Bad("request", <<Message(Line("GET / HTTP/1.0", "url", "/", "GET"), <<Plain(n, v)>>, NoBody, LF)>>,
            Spell("P"), <<>>, "CLOSED_CONNECTION") :
          n \in {"Connection", "Connectio", "ConnectionX"}, v \in {"c", "keep-alivee", "x keep-alive"}}
  \cup {Good("request", <<Message(Line("SOURCE  / ICE/1.1", "url", "/", "SOURCE"), <<>>, NoBody, CRLF)>>)}
  \cup {Bad("request", <<Get("/")>>, Spell(b[1]),
            <<Event("message_begin", <<>>), Event("url", Spell("/"))>>, b[2]) :
          b \in {<<"GET / ICE", "INVALID_CONSTANT">>, <<"GET / HTTQ", "STRICT">>,
                 <<"GET / HTTP/x", "INVALID_VERSION">>, <<"GET / HTTP/1,", "INVALID_VERSION">>,
                 <<"GET / HTTP/1.1 ", "INVALID_VERSION">>}}
  \cup {Bad("request", <<>>, Spell("GET / HTTP/1.1") \o <<"CR", "a">>,
            <<Event("message_begin", <<>>), Event("url", Spell("/"))>>, "LF_EXPECTED")}

Response(written, told, hs, body) == Message(Line(written, "status", told, "DELETE"), hs, body, CRLF)

ResponseStreams ==
  {Good(t, <<Response("HTTP/1.1 200 OK", "OK", <<Length("2")>>, Body("ab")),
             Response("HTTP/1.1 204", "", <<>>, NoBody),
             Response("HTTP/1.1  304 X Y", "X Y", <<Length("0")>>, NoBody)>>) : t \in {"response", "both"}}
  \cup {Good("response", <<Response("HTTP/1.1 200 OK", "OK", hs, Body("to the end"))>>) :
          hs \in {<<>>, <<Plain("Transfer-Encoding", "gzip")>>, <<Plain("Transfer-Encoding", "chunked, a")>>}}
  \cup {Good("response", <<Response("HTTP/1.1 200 ", "", <<Chunked>>, Chunks(<<Chunk("2", "ab")>>, <<>>)),
                           Response("HTTP/1.1 101 S", "S", <<Plain("upgrade", "a"), Plain("connection", "Upgrade")>>,
                                    NoBody)>>)}
  \cup {Bad("response", <<Response("HTTP/1.0 200 OK", "OK", <<Length("1")>>, Body("a"))>>, Spell("H"), <<>>,
            "CLOSED_CONNECTION"),
        Bad("response", <<>>, Spell("G"), <<>>, "INVALID_CONSTANT"),
        Bad("both", <<>>, Spell("HA"), <<Event("message_begin", <<>>)>>, "INVALID_CONSTANT"),
        Good("both", <<Message(RequestLine("HEAD", "/"), <<>>, NoBody, CRLF)>>),
        Good("both", <<Message(RequestLine("POST", "/"), <<>>, NoBody, CRLF)>>)}
  \cup {Bad("response", <<>>, Spell(w), <<Event("message_begin", <<>>)>>, "INVALID_STATUS") :
          w \in {"HTTP/1.1 a", "HTTP/1.1 20a", "HTTP/1.1 2000"}}
  \cup {Bad("response", <<>>, Spell("HTTP/1.1a"), <<Event("message_begin", <<>>)>>, "INVALID_VERSION"),
        Bad("response", <<>>, Spell("HTTP/1.1 200") \o <<"CR", "CR">>,
            <<Event("message_begin", <<>>), Event("status", <<>>)>>, "STRICT")}
  \* answers to HEAD, which announce a body that does not come
  \cup {Skipping("response", 1, <<Response("HTTP/1.1 200 OK", "OK", <<h>>, NoBody),
                                  Response("HTTP/1.1 200 OK", "OK", <<h>>, NoBody)>>) : h \in {Length("7"), Chunked}}
  \cup {Skipping("response", 2, <<Response("HTTP/1.1 200 OK", "OK", <<Length("7")>>, NoBody)>>)}

HeaderStreams ==
  {Good("request", <<Message(RequestLine("POST", "/"),
                             <<Folded("a", "b", "c", eol), Written("b", <<" ", "HT">>, <<>>),
                               FoldedEmpty("content", "x", eol), Plain("Upgrade", "h"), Written("a", <<>>, <<>>),
                               Folded("Content-Length", "2", " ", eol)>>,
                             Body("ab"), eol), Get("/")>>) : eol \in {LF, CRLF}}
  \cup {Good("request", <<Message(RequestLine("GET", "/"), <<Plain("Upgrade", "h2c"), Plain("connection", v)>>,
                                  NoBody, CRLF)>>) : v \in {"upgrade", "keep-alive,upgrade", "a, Upgrade ,b"}}
  \cup {Good("request", <<Post(<<Plain("Upgrade", "h2c"), Length("1"), Plain("connection", "upgrade")>>, Body("a"))>>)}
  \cup {Bad("request", <<>>, (RequestLine("POST", "/").wire \o CRLF) \o b[1],
            <<Event("message_begin", <<>>), Event("url", Spell("/"))>> \o HeadersEvents(b[2]), b[3]) :
          b \in {<<Spell("a b"), <<Hi("")>>, "INVALID_HEADER_TOKEN">>, <<Spell(":"), <<>>, "INVALID_HEADER_TOKEN">>,
                 <<Spell("a:b") \o <<"CR", "b">>, <<Hi("b")>>, "LF_EXPECTED">>,
                 <<Spell("a:bb") \o <<"NUL">>, <<Hi("bb")>>, "INVALID_HEADER_TOKEN">>,
                 <<Spell("a:") \o <<"CR", "b">>, <<Hi("")>>, "STRICT">>}}
  \cup {Bad("request", <<>>, RequestLine("POST", "/").wire \o CRLF \o HeadersWire(<<Length("1"), Plain("a", "b")>>, CRLF),
            Post(<<Length("1"), Plain("a", "b")>>, NoBody).events, "INVALID_EOF_STATE")}
  \* heads of just as many bytes as there may be, and of one more
  \cup {LET filling == [i \in 1..MaxHeaderSize - 27 |-> "a"]
            m == Message(RequestLine("GET", "/"), <<Written(n, <<>>, filling), Hi("b")>>, NoBody, CRLF)
            s == IF n = "b" THEN Good("request", <<m>>)
                 ELSE Bad("request", <<>>, m.wire, m.events, "HEADER_OVERFLOW")
            \* A pause loses count: most do not save parser->nread, and the one in
            \* headers_complete has a byte counted again.
        IN  [s EXCEPT !.interruptions = {}] : n \in {"b", "bb"}}

LengthStreams ==
  {Good("request", <<Post(<<Length(n)>>, Body(b)), Get("/b")>>) :
     n \in {"3", "03 "}, b \in {"a b"}}
  \cup {Good("request", <<Post(<<Length("0")>>, NoBody), Get("/")>>)}
  \cup {Bad("request", <<>>, RequestLine("POST", "/").wire \o CRLF \o HeadersWire(hs, CRLF),
            Post(hs, NoBody).events, "INVALID_CONTENT_LENGTH") :
          hs \in {<<Length(n)>> : n \in {"", "a", "1a", "1 1", "256", "250", "999"}}}
  \cup {Bad("request", <<>>, RequestLine("POST", "/").wire \o CRLF \o HeadersWire(hs, CRLF),
            Post(hs, NoBody).events, "UNEXPECTED_CONTENT_LENGTH") :
          hs \in {<<Length("1"), Length("1")>>, <<Chunked, Length("1")>>,
                  <<Length("1"), Plain("transfer-encoding", "a")>>}}

ChunkStreams ==
  {Good("request", <<Post(<<Plain("Transfer-Encoding", v)>>, Chunks(cs, ts))>>) :
     v \in {"chunked", "a, Chunked "}, cs \in {<<>>, <<Chunk("1;a", "x"), Chunk("00B", "hello world")>>},
     ts \in {<<>>, <<Plain("a", "b")>>}}
  \cup {Good("request", <<Post(<<Chunked>>, Chunks(<<Chunk("2 ", "ab")>>, <<>>)), Get("/")>>)}
  \cup {Bad("request", <<>>, RequestLine("POST", "/").wire \o CRLF \o HeadersWire(hs, CRLF),
            Post(hs, NoBody).events, "INVALID_TRANSFER_ENCODING") :
          hs \in {<<Plain("Transfer-Encoding", v)>> : v \in {"chunked, a", "chunkedd", "chunk"}}}
  \cup {LET m == Post(<<Chunked>>, [wire |-> b[1], events |-> b[2]])
        IN  Bad("request", <<>>, m.wire, m.events, b[3]) :
          b \in {<<Spell("g"), <<>>, "INVALID_CHUNK_SIZE">>, <<Spell("1g"), <<>>, "INVALID_CHUNK_SIZE">>,
                 <<Spell("ff"), <<>>, "INVALID_CONTENT_LENGTH">>,
                 <<Spell("1") \o <<"CR", "a">>, <<>>, "STRICT">>,
                 <<Spell("1") \o CRLF \o Spell("ab"), Chunk("1", "a").events, "STRICT">>,
                 <<Spell("1") \o CRLF \o Spell("a") \o <<"CR", "a">>, Chunk("1", "a").events, "STRICT">>}}

ParserStreams ==
  Calm(MethodStreams) \cup Calm(TargetStreams) \cup Connects \cup Calm(LineStreams) \cup ResponseStreams
  \cup HeaderStreams \cup Calm(LengthStreams) \cup ChunkStreams

-----------------------------------------------------------------------------
(* What the sockets of the HTTP server read. *)

Read(messages) == [Good("request", messages) EXCEPT !.reader = "socket", !.interruptions = {}]

ContentType(v) == Plain("Content-Type", v)
Accept(v) == Plain("ACCEPT", v)
Json == "application/json"

RequestHeaders ==
  {<<ContentType(Json), Length("2"), Accept(Json)>>,
   <<Accept("a/b, application/jsonrequest;q=1"), Hi("b"), Length("2"), ContentType("application/json-rpc; a")>>,
   <<ContentType("text/json"), Length("2"), Accept(Json)>>,
   <<ContentType(Json), Length("2"), Accept("*")>>,
   <<ContentType(Json), Accept(Json)>>,
   <<Length("2"), Accept(Json)>>,
   <<ContentType(Json), Accept("a"), Length("2"), Accept(Json)>>,
   <<ContentType(Json), Accept(Json), Length("2"), Accept("a")>>,
   <<ContentType(Json), Length("2"), Written("Origin", <<>>, <<>>), Accept(Json)>>}

SocketRequest(method, hs, body) == Message(RequestLine(method, "/"), hs, body, CRLF)

SocketStreams ==
  {Read(<<SocketRequest(m, hs, IF Len(hs) = 2 THEN NoBody ELSE Body("{}"))>>) :
     m \in {"POST", "PUT"}, hs \in RequestHeaders}
  \cup {Read(<<SocketRequest("POST", <<ContentType(Json), Length("2"), Accept(Json)>>, Body("[]")),
               SocketRequest("GET", <<ContentType(Json), Length("2")>> \o hs, Body("{}"))>>) :
          hs \in {<<Accept(Json)>>, <<Hi("b")>>, <<Accept("a"), Accept(Json)>>}}
  \cup {Read(<<SocketRequest(m, <<ContentType(Json), Chunked, Accept(Json)>>, Chunks(<<Chunk("2", "{}")>>, <<>>))>>) :
          m \in {"POST", "OPTIONS"}}
  \* names that are glued to the next: to one that is required, within a request
  \* and from one to the next
  \cup {Read(<<SocketRequest("POST", <<ContentType(Json), Accept(Json), Written("Content-", <<>>, <<>>),
                                      Plain("Length", "2"), Chunked>>, Chunks(<<Chunk("2", "{}")>>, <<>>))>>),
        Read(<<SocketRequest("POST", <<ContentType(Json), Length("2"), Accept(Json), Written("Content-", <<>>, <<>>)>>,
                             Body("{}")),
               SocketRequest("POST", <<Plain("Length", "2"), Accept(Json), ContentType(Json)>>, NoBody)>>)}
  \* a preflight behind a request that may have been answered
  \cup {Read(<<SocketRequest("POST", <<ContentType(Json), Length("2"), Accept(Json)>>, Body("[]")),
               SocketRequest("OPTIONS", <<ContentType(Json), Chunked>>, Chunks(<<Chunk("2", "{}")>>, <<>>))>>)}
  \cup {Read(<<SocketRequest("OPTIONS", <<Plain("Origin", "a"), Accept(Json)>>, NoBody),
               SocketRequest("POST", <<ContentType(Json), Length("2")>>, Body("{}"))>>)}

MCStreams == ParserStreams \cup SocketStreams

MCBufferSizes == {1, 3, 200}
================================================================================
