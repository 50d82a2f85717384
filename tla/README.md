# Verification of QJsonRpc

TLA+ modules of the QJsonRpc library (`src/src`), the TLC runs that check them
on small instances, and theorems about them proved with TLAPS for every value
of their constants. Lines below refer to files of `src/src` unless a longer
path is given.

1. [The system](#1-the-system)
2. [The modules](#2-the-modules)
3. [What the runs check](#3-what-the-runs-check)
4. [What is proved](#4-what-is-proved)
5. [What is not covered](#5-what-is-not-covered)
6. [Plan](#6-plan)

## 1. The system

QJsonRpc is a Qt library with which a program calls methods of another, or
offers its own, by JSON-RPC messages over TCP, local sockets or HTTP. All of
it is driven by Qt's event loops; there is normally one thread. What makes it
hard is that slots run in the middle of the library's own functions, that any
of them may run another event loop, that objects are deleted when such a loop
gets round to it, and that services may answer later and from other threads.

| Part | State | Operations | Behaviour that is hard |
|---|---|---|---|
| Calling socket (`qjsonrpcsocket.cpp`) | `replies`: pending replies by message id; `buffer`; the device | `sendMessage`, `sendMessageBlocking`, `_q_processIncomingData` | nested event loops of blocking calls, timers against late answers, callbacks inside the receive loop, replies and devices deleted by their owners |
| Service reply (`qjsonrpcservicereply.cpp`) | request, response | `finished` | deleted while its request is pending |
| Framing (`qjsonrpcsocket.cpp:17-69`) | `buffer` | `findJsonDocumentEnd` and the loop around it | documents cut anywhere, brackets in strings, escapes, garbage |
| Message (`qjsonrpcmessage.cpp`) | type, JSON object; the counter of ids | construction, `createResponse`, `createErrorResponse`, accessors, `==` | ids of other JSON types, the unlocked counter |
| Service provider (`qjsonrpcserviceprovider.cpp`) | `services` by name | `processMessage`, `addService`, `removeService`, `removeAllServices` | keeps a plain socket pointer over a service method |
| Service (`qjsonrpcservice.cpp`) | the method cache; `currentRequest` and `delayedResponse`, shared by all requests of all clients | `dispatch`, `beginDelayedResponse` | dispatch re-entered from a nested event loop |
| Service request (`qjsonrpcservice.cpp:38-92`) | request, `QPointer` to the socket | `respond` | late answers, worker threads, sockets deleted in between |
| TCP server (`qjsonrpctcpserver.cpp`), local server (the same code for `QLocalSocket`), abstract server | `clients`, `socketLookup` | incoming and closed connections, broadcasts, destruction | clients that leave while their message is processed, deferred deletion in nested loops |
| HTTP server (`qjsonrpchttpserver.cpp`) | per connection: parser, headers, payload, response; `requestSocketLookup` | parser callbacks, `writeData`, connections | several requests on a connection, one answer per connection; headers that come in pieces |
| HTTP client (`qjsonrpchttpclient.cpp`) | one network reply per call | `sendMessage`, `sendMessageBlocking`, error and finished slots | order of the network reply's signals |
| HTTP parser (`http-parser/http_parser.c`, vendored) | `struct http_parser`: state, header being matched, flags, lengths, bytes counted; per call: the buffer and the marks of texts begun in it | `http_parser_execute`, `http_parser_pause`, `http_parser_parse_url` | buffers cut anywhere, callbacks that pause or fail, limits |
| JSON classes (`json/`, vendored from Qt 5 for Qt 4) | blocks of memory in a binary form of offsets, counted by the handles that point into them | parser, writer, `insert`, `remove`, `take`, references, copies, compaction | in-place changes of shared blocks, stale indices, limits of the form |

How they interact. A calling socket writes a request to its device and files
a reply under the message's id. On the other side a server creates a
`QJsonRpcSocket` per connection; that socket's `_q_processIncomingData` cuts
documents out of its buffer and emits `messageReceived` for each, from which
the server's slot calls the provider's `processMessage`, which sets the
service's current request and calls `dispatch`, which calls the method: all of
it on one C++ stack, with the socket's receive loop at the bottom. The answer
goes back by `notify` on the socket, at once or by `respond` or `result()`
later. The calling socket's receive loop finds the reply under the answer's
id, stores the answer and emits `finished`, which ends the nested event loop
of a blocking call.

What makes it correct, part by part:

- calling: a call ends at most once, with the outcome its caller is told; no
  answer is written to a reply that is gone; blocking calls return; answered
  calls complete;
- framing: the documents that come out are those that went in, whatever the
  pieces;
- answering: each request is answered exactly once, to the client that sent
  it, unless that client has left; notifications are not answered;
- reading HTTP: callbacks and errors are those that the bytes mean, however they
  are cut, and a request is decided on by the headers that were sent;
- JSON: a text is taken if and only if its grammar has it, and means what that says;
  what is written reads back, and sharing never shows: every handle behaves as a value
  of its own;
- serving: the tables hold the sockets that live, and nothing that has been
  deleted is used; every message is processed; sockets of clients that have
  left are deleted.

The hazards, each at its line and with the properties that watch it, are
listed in `PROJECT.json`.

## 2. The modules

| Module | Models | Composition |
|---|---|---|
| `RpcCall` | what an end point promises about a call | abstract specification |
| `QJsonRpcSocket` | the calling socket | implements `RpcCall` |
| `DocumentQueue` | what a connection promises about documents | abstract specification |
| `JsonFraming` | `findJsonDocumentEnd` and its loop | implements `DocumentQueue` |
| `QJsonRpcServiceProvider` | `processMessage`, the part of `dispatch` that decides about answers, `respond`, `result()` | |
| `QJsonRpcTcpServer` | connections, receive loops, deletion, broadcasts | extends the provider and implements it |
| `ServiceDispatch` | the table of methods, the choice of an overload, what is called | stands beside the provider, which takes from it that dispatch can or cannot call a method |
| `HttpUrl` | the automaton of request targets, `http_parser_parse_url` | |
| `HttpParser` | `http_parser_execute` | extends `HttpUrl` |
| `HttpHeaders` | the callbacks of the HTTP server's socket, over bytes | extends `HttpParser`; computes the decision that `QJsonRpcHttpServer` takes as given |
| `QJsonRpcHttpServer` | the HTTP server: parser callbacks, responses, connections, deletion | extends the provider and implements it |
| `QJsonRpcHttpClient` | calls over HTTP | implements `RpcCall` |
| `JsonValues` | what a program may think of its objects, arrays and documents | abstract specification |
| `JsonText` | what a text of JSON means, by its grammar | reference for the parser |
| `JsonLayout` | the binary form of a document in memory | |
| `JsonParser`, `JsonWriter` | the one-pass parser and the writer | extend `JsonLayout` |
| `JsonDocuments` | handles of objects, arrays and documents that share blocks | extends the parser and the writer, implements `JsonValues` |
| `*_proof` | the theorems of the module they are named after | |
| `MC*` | instances for TLC | |

The two halves meet at messages: the modules of the calling socket, the
provider and the servers take a message for a name with a kind, and
`JsonFraming`, `HttpParser` and the JSON modules show how it comes out of the
bytes.

Definitions named as mutants in a comment are deliberate slips of the
definition after them; no specification uses them. Each property of each run
is violated when one of them takes that definition's place (`mutants` in
`PROJECT.json`), which shows that the property depends on the code.

### One thread, one stack

The functions of the library return to the event loop only at their end, so
what can interleave is decided by the C++ stack. `QJsonRpcSocket` has the part
of it that matters as the variable `stack`: a `"wait"` frame for a
`sendMessageBlocking` in its nested event loop (`qjsonrpcsocket.cpp:261`), and
one frame per `_q_processIncomingData`, which is about to look at its buffer
(`"loop"`), inside the slots of `messageReceived` (`"received"`) or inside
those of a reply's `finished` (`"finished"`). An action belongs to the frame on
top, or to the event loop when that is a `"wait"` frame or there is none:
timers and socket notifications are delivered only then.
`QJsonRpcServiceProvider` has a stack of service methods (`"fresh"`,
`"nested"` in an event loop of its own, `"resumed"`), and `QJsonRpcTcpServer`
and `QJsonRpcHttpServer` add `receiving`, the receive loops (or runs of the HTTP
parser) that alternate with them.

Three facts of Qt carry much of the behaviour and are modelled as external:

- a `QIODevice` does not emit `readyRead` recursively: while a receive loop is
  anywhere on the stack, data is read into the device but the socket is not
  told (`ReadSilently`, `devbuf`/`silent`);
- `deleteLater` is carried out by the event loop it was called under, or one
  outside it, never by one nested deeper (`DeletionDue`, with `doomed` as the
  level);
- when a `QObject` is deleted, its `QPointer`s become null, its connections
  end and calls posted to it are dropped (`SocketsDeleted`).

### `QJsonRpcSocket`

`Calls` are uses of `sendMessage` or (`Blocking`) `sendMessageBlocking`;
`IdOf` gives the id of the message each sends, so that two calls with one id
are two sends of one message. `replies` is the hash, `reply` and `finished`
the life of the reply objects, `quit` the nested loops that have been told to
end, `result` what blocking calls returned. Documents are whole: an answer
with an id, another message, a batch, or a text that does not parse; the peer
answers what it owes in any order and sends up to `MaxExtra` more. `Register`
is `sendMessage` (271-284), `BlockingCallReturns` all of `sendMessageBlocking`
after `exec()` (263-268) with the deletion of the reply by its scoped pointer;
`TakeDocument`, `DispatchAnswer` and `FinishedReturns` are a turn of the loop
(370-417), split where slots run: an asynchronous reply's `finished` may run
any application code, that of a blocking call only tells its loop to quit. The
device may be destroyed by any event handler outside its own signal. Without a device `sendMessageBlocking` waits
for its timer and then dereferences null: `crashed`, after which nothing moves.

### `JsonFraming`

The stream is a sequence of bytes told apart as far as the scanner does:
brackets, quote, backslash, space and all others. `Scanned` is what a byte does
to the locals of `findJsonDocumentEnd` (the step of two at a backslash, 50-52, is
a byte that is skipped), `DocumentEnd` the first position, from 1, at which the
depth is back at 0, and 0 for "none". `ReadyRead` adds
a piece of any length to the buffer; `TakeDocument` is a turn of the loop,
which ends at an incomplete document (372-375) and at one that does not parse
(379-385), which stays in the buffer. What parses is the constant
`WellFormed`; `FramingAssumption` says what the documents of a connection are, by
a definition that does not scan: bytes are in a string when an odd number of
quotes that no backslash escapes stands before them, and a document ends where
the brackets of its kind outside strings balance. The result justifies the grain of `QJsonRpcSocket`, which takes
a connection for a queue of whole documents that stops at the first that does
not parse.

### `QJsonRpcServiceProvider`

A message is known by its kind: a call or notification that dispatch can or
cannot (`"bad..."`: unknown method, parameters that fit no overload or do not
convert, `invokeMethod` refusing) call a method for, a response, or another
(an error or invalid message). `Ignore`, `Reject`, `DispatchFails` and
`CallMethod` are the paths of `processMessage` (86-123) through `dispatch`
(`qjsonrpcservice.cpp:381-483`); `MethodReturns` is the rest of both after the
method, which resets the flag or answers. `answers[r][s]` counts the messages
that `notify` of socket `s` was told to write for `r`; they are not followed
further. `task[r]` is the copy of the request that a service keeps to answer
later: `Respond` on the sockets' thread, `RespondChecks` and `RespondPosts` on
another, between whose two reads of the `QPointer` (85, 90) the socket may be
deleted, `PostedCallRuns` the queued `notify`, and `EmitResult` the `result()`
signal (`qjsonrpcsocket.cpp:294-299`), after which the task is `"emitted"`. `dangling` records the use of a deleted
socket. Four constants say what services do: nest event loops, delay and nest
in one method, answer from worker threads, emit `result()`.

### `QJsonRpcTcpServer`

Adds the clients (`ClientSends`, `ClientCloses`), each connection's bytes on
their way through device (`inbox`, `silent`) and `buffer`, one whole message at
a time; `IncomingConnection`, `ClientDisconnected`, `ServerDestroyed` and
`NotifyConnectedClients` are the functions of those names, `TakeMessage` is a
turn of the receive loop with `_q_processMessage`. `freedUsed` records that a
receive loop or a broadcast has used a deleted socket. `Pipelining` and
`ImpatientClients` say whether clients send, or leave, before their last
message has been processed, `SentKinds` which kinds of messages they send.
A `QTcpSocket` is deleted together with its
`QJsonRpcSocket` and is not told from it.

### `QJsonRpcHttpServer`

A socket stands for a `QJsonRpcHttpServerSocket` and the
`QJsonRpcHttpServerRpcSocket` that writes to it. An HTTP request arrives in two
parts, its head, which `onHeadersComplete` finds to be a preflight, refused or
accepted (`HeadersComplete`; `HttpHeaders` has the decision), and its body, with which `onBody`,
`onMessageComplete` and `processIncomingMessage` are one step
(`MessageComplete`, which calls the provider's `ProcessMessage` on what the
payload parses as). The parser makes these callbacks in order and makes none
once one of them has returned -1, which `HttpParser` is checked for.
`WriteData` is what
happens to the messages that the provider's step told sockets to write: the
first on a connection becomes the body of its HTTP response and closes the
device, and a device that is closed takes nothing more. `CloseServer` is
`close()` and `listen()`, which delete the network server with the devices of
its connections. The payload of a connection is never cleared
(`m_requestPayload`), so that what is processed for a second request on it is
the bodies of both; the response to the first has normally closed the
connection by then, but a notification has none, and what is pipelined in the same
buffer is parsed although the device is closed. `payload` is the sequence of
the bodies, and `Parsed` what their concatenation is. A body is a message of
some kind, empty, or one of `Fragments`, which are no message alone; `Joined`
gives the kind of the documents that several bodies make up (`Documents`), and any other
sequence is invalid. So two pieces of a call, pipelined as two bodies, are
dispatched as that call, after the first has been answered as invalid.
`EndsAssumption` says what `Joined` may be: the braces and quotes of a message match, so
that a document which it ends has nothing but white space before it.

`astray` records three uses the code does not guard against, at which the
behaviour stops because what follows is undefined: the parser going on in a
socket that a nested event loop has deleted, a body for a socket that has
been taken from `requestSocketLookup`, and an answer written through a device
that `close()` has freed. They are listed as hazards.

### `QJsonRpcHttpClient`

Every call has a `QNetworkReply` of its own and no table: `network[c]` is how
far that reply has come, `response[c]` what `d->response` was set to.
`NetworkReplyError` and `NetworkReplyFinished` are the two slots
(`qjsonrpchttpclient.cpp:63-124`); the first signal, if any, comes before the
second, and an event loop runs between them. Slots of `messageReceived` run in
the middle of the second (`ReceivedReturns` is the rest of it), at the end of
the first, and at `finished`; they may send, block, delete replies, though not
the client, whose destruction takes the network replies along if the client
made the access manager (`OwnsManager`). `SendMessageBlocking` has the call
that finds no end point, which waits for its timer and then uses a null
reply; `wrecked` records this, and a reply that was deleted in a slot of its
own `messageReceived`, and the behaviour stops there. That a network reply
emits `finished` once, after any error, is Qt's.

### `ServiceDispatch`

The methods of one name, as sequences of parameters told apart by name, type
and whether they are for output. `CacheInvokableInfo` is the loop that builds
the table (`qjsonrpcservice.cpp:212-242`), on top of what is there when the
service is added again; `ListFits` (whose loop takes one parameter at a time,
`AfterParameter`) and `ObjectFits` are `jsParameterCompare`
(244-278), `Chosen` the loop of `dispatch` over the table and `CalledFor` the
rest up to `invokeMethod` (394-466). `Called` is external: Qt looks the method
up by its name and the types of the arguments it is given, which are all
`QVariant`, takes the one declared last (also if it is not public), and
refuses it unless it returns a `QVariant`. One type stands for each kind of
JSON type; which values convert is a constant.

### `HttpUrl`, `HttpParser` and `HttpHeaders`

A stream is a sequence of characters, cut into buffers of any of `BufferSizes`.
One step is one turn of the loop of `http_parser_execute`: `Begin` is the call,
`Fetch` the head of the loop with its count of header bytes, one action per
case (or group of like cases) of the switch, `Finish` the end of the buffer
with the callback for the text it breaks off in, `Eof` the call with no bytes.
What a case ends in has the names of the macros (`Advance`, `Again`, `Return`,
`Error`), `Marked` and `Flush` are `MARK` and `CALLBACK_DATA`, and
`CallbackThen` has the three things a callback may do: return 0, pause the
parser, fail. `call` holds the locals of the call, so that what is lost between
calls is lost here. `header_state`, which in C counts letters with `index`, is
the word being matched (`matched`) with its place in a list (`phase`).
`HttpUrl` has both automata of URLs as tables of moves; the second cuts a URL
that the first has accepted into fields.

Each stream of the instance carries what it means: the events that it should
lead to and the error that it should end in, written from the text's parts and
not from the parser. The instance's reader is either a program that uses all
callbacks, pauses and resumes, or the HTTP server's socket: `HttpHeaders` has
its callbacks (`qjsonrpchttpserver.cpp:234-425`), the pieces of a name and a
value that they glue together, `Refusal` for the checks of
`onHeadersComplete`, and `undefined` for a call through one of the three
members of `m_requestParserSettings` that the constructor leaves unset.
`SocketAssumption` says that the socket's parser is one for requests and that
none of its callbacks pauses it.

### The JSON modules

`JsonLayout` is the form of `qjson_p.h`: a memory is a function from the
offsets at which a base, a value, a key, a string or a number begins to what
begins there. Sizes and offsets are computed as the code does, so that data
that overlaps, a table that points beside its data, or a block that is too
small shows; what is inside a cell is abstract. `Compacted`, `WithSpace`,
`IndexOf` and `Valid` are the functions of `qjson.cpp`.

`JsonParser` reads bytes and writes this form in the order of the code, tables
behind their data; a function of the parser is an operator from a parser to a
parser, and `Then` stops at the first that fails. `JsonText` says what a text
means without a parser: where brackets, commas and colons count, and what the
pieces mean, strictly by the grammars in the parser's comments; `Completed`
rewrites the two things that the parser takes against them, numbers without
figures at one side of the point and control characters in strings.
`JsonWriter` is the way back.

`JsonDocuments` is a program with a few handles. Every action is one call on
one of them, with the temporaries that it makes: it detaches (`Detached`),
changes the block in place, and compacts it when enough has been thrown away.
`JsonValues` is the promise, in which every handle is a value and a call
changes the one it names. The code breaks the promise in five known ways,
which the model names in `defects` and stops at: a key that a text gives
twice and an object then has twice, since keys are compared by `strcmp` on bytes that no NUL ends
(`KeyTwice`; `json_said` is about it), a compaction that takes the root for the
handle's base (`ParentCompacted`), that takes an empty object for an array
(`EmptyObjectIsArray`) or cuts a key of wide characters (`KeyCut`), and
`o[a] = o[b]` with an index that the other side has made stale or that never
was one (`StaleIndex`, `NoIndex`). They are listed as hazards. The library itself makes its messages with `insert`
and reads them with `value`; of the five it can meet only the repeated key, in
what a peer sends.

## 3. What the runs check

| Run | Instance | Distinct states | Question |
|---|---|---|---|
| `socket` | 1 asynchronous, 2 blocking calls that send one message, 1 extra document of any kind, callbacks block, device may die, peer answers in the end | 194 thousand | do calls end at most once and as their caller is told, however entries of the table are taken; do blocking calls return and answered calls complete? |
| `framing` | texts with nested brackets, brackets and escapes in strings, and texts that do not parse; every cut | 22 thousand | do the cuts matter, and is every document delivered? |
| `provider_notification` | a single thread, no nesting | (violated) | are notifications left unanswered? |
| `tcp` | 2 connections, 2 requests of 4 kinds; nesting, delays, `result()`, pipelining, impatient clients, destruction | 250 thousand | do the tables match the sockets, what uses a deleted socket, does the server keep to `ProviderSpec`; is every message processed, every call answered, every left socket deleted? |
| `http_safety` | 2 connections, 2 requests: calls, notifications, pieces of a call, white space, empty bodies, preflights, refused ones; nesting, workers, `result()`, pipelining, impatient clients | 486 thousand | one response per connection, nothing served that was refused, each request processed as its connection's bodies say; and of the provider under it: do requests mix in the shared fields, is one forgotten, is an answer written to a deleted socket? |
| `http_live` | nesting, delays, `result()`, one request per connection, patient clients | 176 thousand | does a client that waits get a response, and is its socket deleted? |
| `http_client` | 1 asynchronous request, 1 blocking request, 1 blocking notification; the client owns its manager | 803 thousand | does each call complete once, with one response, whatever HTTP does and whoever is deleted? |
| `dispatch` | services of up to 3 of 10 methods, or one of 11 parameters, added once or twice; lists of up to 3 arguments, objects of up to 2 | 39 thousand | is the overload chosen that the declarations mean, and is it the one that is called? |
| `dispatch_test` | the service of the dispatch test | (violated) | does a request that fits a method succeed? |
| `http_parser` | several hundred streams, well formed and not, in pieces of 1, 3 and 200 bytes, with pauses and failing callbacks | 1.6 million | are the callbacks and the errors those that the bytes mean, does the parser's own bookkeeping hold, and does the socket decide by the headers that were sent? |
| `json` | about 11 thousand texts; from 4 of them, 2 or 3 calls on two objects, an array and a document | 103 thousand | is each text taken or refused as the grammar says (with the two exceptions of `Completed`), do handles behave as values, does memory stay whole, does what is written read back? |
| `json_said` | one text, with half numbers, a control character and a key twice | (violated) | does the parser keep to its grammars and to the test of duplicate keys? |

**Bounds.** Three calls are the least with which a blocking call nests in
another while a third reply is pending; with two connections and two requests, a
receive loop can run in a loop nested in another's, a client can pipeline, a second
client can be served, or leave, meanwhile, and one method can be in its nested
loop while a second request is dispatched, delayed and answered late. What a third
request could add, for the provider, its theorems cover. Two bodies are the least
that join; longer documents are in the theorem. The four kinds of `tcp` stand for a
method that answers, one that does not, an error, and nothing at all. Three methods are enough for two that fit a request to stand at
either end of the table with a third between them, and their ten signatures
have every kind of parameter that the comparison tells apart. One extra document suffices for a
duplicate, a late answer after a timeout, or garbage; two or more only repeat
them. Three texts (`MaxWritten`) let a piece of the stream end one document, hold a
second and begin a third. The calls, requests and texts of a behaviour are
finite, so every run allows the system to stop (`CHECK_DEADLOCK FALSE`): an end
point with nothing to do waits.

The HTTP parser keeps nothing of its past but its struct and the marks of the
call, so that streams which take each state by each class of character show
its steps; pieces of one byte put a cut between any two of them, those of three
put every text, line end and number on both sides of a cut, and 200 has most
streams whole. The bounds of the C types are small enough to be met:
`MaxHeaderSize` 220 (80 KB) has streams of just as many bytes of head and one
more, `UllongMax` 255 has lengths at, below and above it in decimal and in
hexadecimal, and `FieldWidth` is the real 65536.

The limits of the JSON form are as small: integers up to 4 are stored in the
value (`IntLimit`), strings of 6 characters are not Latin-1 (`LatinLimit`),
values reach the largest offset at 160 bytes (`MaxSize`), nesting ends at 3
(`NestingLimit`), a block grows by 16 bytes (`MinReserve`) and is compacted at
the first change that leaves waste (`CompactAfter`). The texts are all short sequences of
brackets, commas, colons, strings, digits and blanks, of the characters that strings
tell apart (escapes, two to four bytes, surrogates, too long and cut short),
of the parts of a number, and of members whose keys recur; two calls are the least with
which a shared block is changed and the other handle looked at, and the
deepest text has three. `VIEW` leaves out the name of the last call only, which
nothing that follows depends on.

Symmetry is used in runs without liveness whose definitions do not tell the
elements apart, and nowhere else.

**Fairness.** `ThreadFairness` of the calling socket: a running event loop
delivers due timers and socket notifications, and the receive loop and the
slots it calls go on. It is what Qt does as long as application slots return.
`AnsweringPeer` is a peer that answers every request; `BlockingCallsReturn` is
checked in the same run but is about the thread's own timer.
`ServerFairness` and `HttpFairness` are one weak fairness condition each: while
the server runs and something is due (`Due`: data to read, a turn of a receive
loop, a method or a nested loop to return, a delayed answer, a deletion), some
due step is taken. That is a thread that does not stop; which of the due steps
comes first is left open, and none can be overtaken for ever because each uses
up some of what is finite. It includes services whose methods return, whose
nested loops end, and which answer what they delay. No liveness property assumes
that a client does anything. In `FairSpec` of the framing, data that was written
arrives and the loop goes on.

**Properties stated for some services or clients only.** The code does not
hold them for all, and the restriction is a constant or a premise:

- a method that both delays and nests (`DelayAndNest`) shares its flag with a
  request dispatched in between. `AtMostOneAnswer`, `DelayedRequestIsOwn`,
  `NoCallForgotten`, `CallsAreAnswered` and `CallsGetResponses` are for services
  without such a method;
- `result()` is written to every socket connected to it, which may not be the
  asker's, and disconnects them: `AnswersGoHome`, `NoCallForgotten` and
  `CallsAreAnswered` except a request whose task is `"emitted"`;
- a method that nests an event loop while its client leaves comes back to a
  deleted socket; so may `respond` on a worker thread.
  `OnlyOutlivedLoopsUseFreed` says that without workers nothing but such a
  loop uses one; that nothing does if services neither nest nor use threads is proved;
- data that arrives while the socket is inside its own `readyRead` waits for
  the next one: `MessagesAreProcessed` excepts such messages
  (`ReadSilentlyOnly`), and `CallsFromCallbacksStarve` states the same of the
  calling side;
- `MessagesAreProcessed`, `CallsAreAnswered` and `LeftSocketsAreDeleted` are for
  a server that has not been destroyed;
- `AnsweredCallsFinish` is for asynchronous calls with an id of their own, a
  device that lives, a peer whose documents parse, and callbacks that make no
  blocking call;
- `BodiesAddUp` says what a request is processed as, not that this is its own body:
  an empty or blank body behind a notification repeats the notification's message,
  pieces join, and a message behind an unanswered one is invalid.
  `AnsweredSocketsAreDeleted` and `CallsGetResponses` end where `astray` or
  `dangling` does;
- `HeadersDecideRequests` excepts preflights, which are answered before their
  last header is stored, a connection on which a header with an empty value has
  been sent, because its name is glued to the next one, and a socket that is
  already closed. `UnsetCallbacksNeedPreflight` says when a pointer that was
  never set may be called: after a preflight, whose body may come in chunks, or
  after a header with an empty value, which can hide that the body does;
- `ParsedAsMeant` reads a number without figures at one side of its point as if a 0
  stood there, and a control character in a string as itself, where the grammar has
  neither: that they are taken at all is a finding;
- `ParsedAsMeant`, `WrittenTextReadsBack`, `HandlesAreValues` and the part of
  `MemoryIsSound` about the data hold until a behaviour meets a known defect
  (`defects`). What finds no room may be refused, and then nothing changes;
- `ChosenIsCalled` is for methods as QML declares them (`QVariant` in and out)
  and up to ten parameters. `OverloadIsMeant` is about the choice only.

**Findings.** `provider_notification`: `dispatch` answers a notification it
cannot call a method for with an error of id 0, while the README claims
JSON-RPC 2.0 (`README.md:26`), which forbids an answer, and `processMessage`
itself withholds it for an unknown service. `dispatch_test`: `dispatch` asks
`invokeMethod` for a method of `QVariant`s that returns one, so that a method
declared with other types, which the table holds and the choice finds, is
never called and the request is refused, while the test of `dispatch`
(`tests/auto/qjsonrpcservice/tst_qjsonrpcservice.cpp:104-106, 155-156`) expects
such a request to succeed. The tests of overloads (`:167-187`) and of output
parameters (`tests/auto/qjsonrpcserver/tst_qjsonrpcserver.cpp:667-721`) rest on
the same.
`json_said` has a text whose reading is against three statements of the sources,
each of which the one state that TLC shows refutes. `parseNumber` takes
numbers without figures before or behind the point, while the grammar above it
(`json/qjsonparser.cpp:650-661`) makes both mandatory; the sources disagree here
also among themselves, since a test expects `1.e+308` to be taken
(`tests/auto/json/tst_qtjson.cpp:1785-1786`). `parseString` takes control characters, which its
grammar (`json/qjsonparser.cpp:765`) does not have. And a key of two characters
that comes twice is found twice in the object, since `strcmp` goes on into the
values behind the keys (`json/qjson_p.h:401`), while `parseDuplicateKeys`
(`tests/auto/json/tst_qtjson.cpp:1877-1892`), whose keys have one character and hence
a NUL behind them, says that the last of them is left.

## 4. What is proved

For any number of calls, ids, sockets and requests, any texts, methods and
streams, from the assumptions named in the modules. Those of the end points
(`ConstantsAssumption`, `ProviderAssumption`, `ServerAssumption`,
`HttpAssumption`, `EndsAssumption`, `ClientAssumption`, `BodyAssumption`), of dispatch
(`DispatchAssumption`) and of the HTTP parser (`StreamAssumption`,
`ParserAssumption`, `FieldWidthAssumption`) give the types of the constants,
and say that the null values are none of the real ones; `EndsAssumption` says what
bodies can join to (section 2). `FramingAssumption`
says what a document is (section 2), `SocketAssumption` how the socket uses its parser, and
`CharacterAssumption` what single characters are worth and that the words the
parser looks for differ, which TLC can evaluate and the provers cannot.

**`QJsonRpcSocket_proof`**: `TypeCorrect`, `AtMostOneFinishHolds`,
`OrphanHasTwinHolds`, `NoEntryOutlivesBlockingCallHolds`,
`TimeoutMeansUnansweredHolds`, `LateAnswerIsDroppedHolds` and
`Implementation` (the socket implements `RpcCall`). None of the invariants is
inductive alone: that a reply does not finish twice rests on its table entry
having been taken when it finished, that an entry is under its call's own id,
and on an idle call having neither. `IInv` joins these with what a pending
blocking call has (a reply that lives exactly while its frame is on the stack,
and only one frame). `NextIInv` has one lemma per group of actions; the
refinement maps each action to a step of `RpcCall` or to a stutter by the
change it makes to the outcome of one call (`OneOutcome`).
`CallsFromCallbacksStarveHolds` is about the order of the stack: there is one
frame of `_q_processIncomingData` on it at most, because `readyRead` is not
emitted under itself (`OneEmission`), and a blocking call that has been sent and has
not returned has a frame (`StartedCallsWait`). A call from a slot of that one
frame stands above it, and who takes documents while it waits would have to
stand above the call.

**`QJsonRpcServiceProvider_proof`**: `TypeCorrect` and
`ClosedSocketStaysSilentHolds` for any services (of the answers that `notify` is told to write; a
method that resumes after its client has left writes through a dangling pointer,
which is `UseAfterFreeNeedsNesting`'s matter), `AtMostOneAnswerHolds`,
`DelayFlagIsOwnHolds` and `DelayedRequestIsOwnHolds` for services without a
method that delays and nests, `NoCallForgottenHolds` for the same, `AnswersGoHomeHolds`
without restriction, `UseAfterFreeNeedsNestingHolds`. The invariant `IInv` says: each
request has one frame at most (`FramesOnce`); only the top frame can have
delayed (`OnlyTopDelays`); the top frame's method, until it nests, is that of
the current request (`TopIsCurrent`); a request has no task until its method
delays it (`UntouchedUntilDelayed`); and a ledger of who may still answer it:
its frame, its task, or nobody once it has been answered (`Ledger`). The shared
fields belong to the top of the stack, which is why a nested dispatch, popped
before its caller resumes, cannot disturb them. `UseAfterFreeNeedsNesting` needs
`FreshAlive`: every frame but the top one is in a nested loop, and the socket of
a top method that has not nested lives, because sockets are deleted only by an
event loop. `ClosedSocketStaysSilent` needs `Reachable` (what is still to be
written goes to a socket that lives). `NoCallForgotten` adds to the ledger
that a request which is owed an answer is still on the stack, with a task that
somebody holds, or its socket is gone (`NCF`). `Flat` (without nesting the stack holds
one frame, whose socket lives) is what the server's `NoUseAfterFree` rests on.
`Wired` (a socket from which a call came, while it lives, still waits for `result()`
on its behalf or has been told something) is what the HTTP server's idle theorem rests on.

**`QJsonRpcTcpServer_proof`**: `Implementation` (every behaviour of the server
is one of its provider's, so that the provider's theorems hold for it;
`ServerAnswersOnce` is one), `TablesMatchSocketsHolds` without restriction,
`OnlyOutlivedLoopsUseFreedHolds` for services without worker threads, and
`NoUseAfterFreeHolds` for services that do not nest either. The
refinement needs `Queues` (the receive loops' messages and sockets are what
the provider takes them for). `TablesMatchSockets` is inductive with the
levels' type and the fact that only a socket that was created has been doomed.
`NoUseAfterFree` needs `ReceiversAlive`: receive loops and methods alternate,
so that without nested loops an event loop, which is what deletes, runs only
when there is no receive loop. `OnlyOutlivedLoopsUseFreed` needs `Paired`:
counted from the bottom, each method was called by the receive loop of the
socket that its request came from, so that what a method does on its return it
does to the socket of a loop that is still there.

`IdleServerOwesNothing` is the part of the server's liveness properties that is
about states: whenever no guard of `Due` holds, the steps that fairness speaks of
(`SomethingIsDue` is false), every message that the device announced has been
processed, every call has been answered, or its answer emitted, or has lost its
socket, and every socket that was left is deleted. A message that was only read
silently waits for the next one and is excepted, as it is from the property.
Services that delay and nest are excepted as well. The invariant is that each
message sent and not processed is once in `Queue`, the buffer with what was read
silently and the inbox (`Queued`); that a buffer with messages is being received, and
all frames below the top are in nested loops, so that a receive loop on top can
always go on (`Looping`); and that the sockets of connections that ended are doomed
or deleted (`Connected`). What is answered is the provider's `NoCallForgotten`, by
the refinement. `ServerTypeCorrect` is the type of all of it.

**`QJsonRpcHttpServer_proof`**: `HttpTypeCorrect`, `Implementation` (the HTTP
server, too, is a provider's behaviour), `HttpAnswersOnce` (so that at most one
answer, none forgotten and each to its own socket hold over HTTP, without methods that
delay and nest), `OneResponseHolds`, `RefusedNeverServedHolds`, `BodiesAddUpHolds`
and `WholeBodiesKeepTheirKind`, for any services, fragments and documents that they make up. The refinement needs `Queues`, as
the TCP server's does. `OneResponse` needs `ResponsesFit`: a device
that is open, or not made yet, has no response, and writing one closes it.
`RefusedNeverServed` looks ahead: in what is still to be parsed of a connection, the
rest of the chunk, what is read silently and what has not arrived, in this
order, a refused head comes before every body that must not be served (`Ways`). That
is kept by each way of cutting the stream, and by a head that stops its parser.
`SentOnce` adds that each request is sent once, and that only what was sent has
been processed as something. `BodiesAddUp` needs `Collected`: while a connection's parser goes on, the
payload with the bodies still on the way (`Way`) is, body by body, what the client
sent, in its order (`InStep`), so that the payload at a request's end is that of all
requests up to it. A whole body at the end of the payload then
leaves `Parsed` that body's own kind or none (`ParsedLast`), by `EndsAssumption`. The type needs `Alternating`: every method runs inside a
`readIncomingData` of its own, with one more at most on top.

`IdleServerDeletesAnswered` and `IdleServerHasAnswered` ask the same of this
server: when nothing is due, the socket of each device that was closed is deleted,
whatever services do; and each client whose first request is a call, or is refused or
invalid, has a response or has lost its device, if it waits for the response
(`~ImpatientClients`, under which the run checks `CallsGetResponses`) and no
method delays and nests. The first needs `Connections` (a connection is in the lookup
until it is gone, and from then on its sockets are to be deleted) and `Nesting` (what
is below the top of the stack is in a nested loop). The second follows the first
request of each client (`FirstKept`): it has been served, or waits alone on its
way (in the chunk, silent or in the inbox), or has been processed as what it is, and
then is owed an answer by the provider (`NoCallForgotten`, `Wired`). It needs that
what has been written to a socket has become its response (`Responding`), that each body
waits once and was not processed before (`BodiesOnce`), that a socket whose client sent
nothing has read nothing (`Fresh`), and that a client leaves after its response (`Patient`).

**`QJsonRpcHttpClient_proof`**: `TypeCorrect`, `ResponseIsFinalHolds` and
`Implementation` (of `RpcCall`, the contract of the calling socket). `IInv`
says what the state of a call's network reply tells of its reply, its response
and its result (`Sane`), that a call with a frame in the slots of messageReceived
has neither response nor finished yet (`FramesSane`), and that a reply is in the slots of its messageReceived once at
most (`ReceivedOnce`): without it a reply could finish in the frame above and
again in the one below.

**`JsonFraming_proof`**: `EndOfDocument` (of bytes that a document leads,
after white space, `DocumentEnd` is the end of that document once it is there and
0 before), `FramingInvHolds` and `LoopImplementsQueue`. The scan is related to the
text byte by byte (`Tells`): after n bytes the depth is the difference of the
numbers of opening and closing brackets outside strings, the string flag is the
parity of the quotes, and the byte to skip is the one after a backslash. `FramingInv` says
that the bytes in the buffer and on the wire are those of the texts written
and not yet taken, in order (`Placed`), so that each turn of the loop takes one whole document or none.

**`ServiceDispatch_proof`**: `ListFitsIsBelongs` (the loop of `jsParameterCompare`
over a list, with its output parameters and what it leaves over, is the
definition of belonging), `OverloadIsMeantHolds` and `ChosenIsCalledHolds`, for all
services, requests, and numbers of times that a service is added. The table's invariant
(`TableInv`) says that it holds the methods that can be called and no other;
that a method without `QVariant`s occurs before any that has them or was declared
earlier; and that those with them first occur in their order. The first that fits is then the one
that the declarations mean, which is what adding a service twice does not
disturb. For `ChosenIsCalled` Qt's choice of a method by types is the one chosen, as no other has
its number of parameters.

**`HttpHeaders_proof`**: `AssertsHoldHolds` (the asserts of
`http_parser_execute`) and `EveryByteIsReadHolds` (its loop ends, and leaves no byte
unread), for every stream, every way to cut and pause it, and both readers.
`ParserInv` has four parts: the types of what is counted (`Typed`), that a call reads
inside its buffer and has not failed (`Within`), that only the text which the state is in the
middle of is marked (`Marking`), and what the state tells of the lengths, the
list in a header and the flags (`Sound`). Each action ends in an outcome, a parser
with a position and a call, that is shown to be `Good` before anything is said
of how it comes about; one lemma each for an end in a callback, a text that is
flushed or marked, an error and a byte read again carries that over to the step. A byte
is read again only in a later state of `ReexecuteOrder`, which is why the loop ends.

For the socket that reads requests with it, the same module has
`HeadersDecideRequestsHolds` and `UnsetCallbacksNeedPreflightHolds`. Both rest on one
invariant, `SocketInv`, of the parser, the log of its callbacks and the socket
together. Until a preflight or an empty value has been sent:

- `Collecting`: the socket's hash holds all headers of the message but the pair that
  the log ends with, whose name and value are in its two strings. This is what makes
  pieces harmless: a piece of a name ends the pair before it, and one of a value
  does not.
- `Named`: within a name, what the parser has matched is the name in lower case as
  far as it has been read, some of which is in the log and some in the buffer
  still; and a name that matches no longer is not `content-length`, however it goes on.
- `Flagged`: a message that has sent the length the socket requires has the
  parser's flag for it, and one with the flag for chunks has its encoding. The parser
  refuses a message with both, and the socket one without a length, so that no
  state of a chunk is reached and no callback for chunks is called.

`Sent`, which chooses among the pairs of a log, is proved equal to what its
positions determine (`SentIs`, `SentUnique`); `SentPair`, `SentSame` and `SentBegin` then say what
each callback does to it. Each action has a lemma (`UrlMeant`,
`HeaderFieldMeant`, ...) that it keeps `SocketInv` with whatever its callback does.

The same module has `UrlFieldsAreRightHolds`, for targets that 16 bits can index. Both
passes, over the URL and over its host, are walks of an automaton which write the
fields down as they go (`UrlStepWalks`, `HostStepWalks`). The invariant of each walk, `Cut`, is that the
characters behind it are in a field or are delimiters, that only the last field is still growing, and
that the fields are in the order of the URL's parts, which the states follow
(`Rank`, `Top`, `HostTop`). A step opens a field at its character
(`StartsCut`), extends the last one (`GrowsCut`) or passes a delimiter, and the
host's fields are put where the host was.

**Model-checked only.** All liveness properties, which are beyond TLAPS (it does
not reason about `ENABLED`). Of both servers the idle theorems prove what is about
states; that fairness brings about each step that is due, and that `SomethingIsDue` is
the `ENABLED` of `Due`, is not proved. `StreamIsMeant`, which compares the parser with what each
stream of the instance is known to mean. The JSON
modules, which follow their data with `RECURSIVE` operators, out of reach of the
provers. Where a proof needs induction over data (`JsonFraming`,
`ServiceDispatch`), it is over the set of positions up to which a statement holds
(`LeastNatural`, `Induction`), because the library's induction theorems take an operator.

## 5. What is not covered

- Wording of errors, logging and JSON formatting beyond what reads back.
- The registry of several services: names, `addService`, `removeService` and
  `removeAllServices` on one hash, by calls in sequence.
- Construction, accessors and equality of messages, an expression each, and the
  counter of ids: a race on one `int` whose outcome, two requests with one id, is
  an input of the calling socket's model.
- The values that `convertArgument` and `convertReturnValue` make, and how the name
  of a method is cut from the path.
- `notify` over HTTP (a network reply that deletes itself), the text of HTTP
  responses, TLS and authentication, a socket descriptor that is refused.
- Of http-parser: names of methods and errors, `http_body_is_final`, the version,
  lenient headers, and methods of which the streams have no example.
- Of the JSON classes: equality, iterators and `erase`, a `QJsonValueRef` that is kept
  over other calls, `obj[a] = obj[b]` where `obj[b]` is a container, `fromRawData`,
  where in a text an error is, embedded NULs, bytes of 128 or more after a
  backslash, and what happens after a known defect.
- Meta types and the set-up of the library, which keep no state that changes.
- Destroying a `QJsonRpcSocket` or a server from one of its own slots: the code
  does not do it and Qt forbids it.

## 6. Plan

The order was: the calling socket with its framing, the provider, the TCP
server on top of it, the dispatch, HTTP, and then what lies below, the HTTP
parser with the collection of headers and the JSON classes; proofs from the
most used part outwards. What would come next, in this order:

1. `RpcSystem`: a calling socket, a connection and the TCP server composed,
   implementing `RpcCall` end to end: what a caller is told was answered by
   the service it called.
2. `ServiceRegistry`: names, ownership and broadcasts' connections of several
   services. A registered service is alive, a broadcast is delivered once.
3. References and iterators of the JSON classes that are kept over calls.
