------------------------- MODULE HttpHeaders_proof -------------------------
(***************************************************************************)
(* Proofs about http_parser_execute, for all streams, ways to cut them,    *)
(* programs that pause it or fail, and limits, and about the socket that   *)
(* collects headers with it.                                               *)
(***************************************************************************)
EXTENDS HttpHeaders, SequenceTheorems, FiniteSetTheorems, WellFoundedInduction, TLAPS

-----------------------------------------------------------------------------
(* Induction, over sets of numbers. *)

\* A set of numbers that is not empty has a least one.
LEMMA LeastNatural ==
  ASSUME NEW S \in SUBSET Nat, S # {}
  PROVE  \E n \in S : \A m \in S : n <= m
<1>. DEFINE R == OpToRel(<, Nat)
<1>1. IsWellFoundedOn(R, Nat)
  BY NatLessThanWellFounded
<1>2. \A m, n \in Nat : m < n => <<m, n>> \in R
  BY DEF OpToRel
<1>. HIDE DEF R
<1>3. \E x \in S : \A y \in S : ~(<<y, x>> \in R)
  BY <1>1, WFMin, Zenon
<1>4. PICK x \in S : \A y \in S : ~(<<y, x>> \in R)
  BY <1>3
<1>5. \A y \in S : ~(y < x)
  BY <1>2, <1>4
<1>6. \A y \in S : x <= y
  BY <1>5
<1>. QED
  BY <1>6

\* A set that holds 0, and with a number the next one, holds all of them.
LEMMA Induction ==
  ASSUME NEW S, 0 \in S, \A n \in Nat : n \in S => n + 1 \in S
  PROVE  Nat \subseteq S
<1>1. SUFFICES ASSUME Nat \ S # {} PROVE FALSE
  OBVIOUS
<1>2. PICK n \in Nat \ S : \A m \in Nat \ S : n <= m
  BY <1>1, LeastNatural
<1>3. n - 1 \in Nat /\ ~(n <= n - 1)
  BY <1>2
<1>4. n - 1 \in S
  BY <1>2, <1>3
<1>5. n - 1 + 1 = n
  BY <1>2
<1>. QED
  BY <1>2, <1>3, <1>4, <1>5

-----------------------------------------------------------------------------
(* The invariant of the parser.  It is four predicates of the parser, the     *)
(* position and the call: what an action ends in is an outcome, a record of   *)
(* the three, for which they are shown before it is known to come about.      *)

\* The fields of the parser that the invariant is about.
ParserFields == {"type", "state", "header_state", "phase", "matched", "flags", "uses_transfer_encoding", "nread",
                 "content_length", "method", "errno", "upgrade"}

\* The types of what is counted and marked.
Typed(q, n, c) ==
  /\ ParserFields \subseteq DOMAIN q
  /\ q.content_length \in 0..UllongMax
  /\ q.nread \in Nat
  /\ n \in Nat \ {0}
  /\ DOMAIN c = {"end", "nread", "fetched", "marks"}
  /\ c.end \in Nat /\ c.nread \in Nat /\ c.fetched \in BOOLEAN
  /\ c.marks \in [DataCallbacks -> Nat]

\* A call that goes on has not failed, and reads inside its buffer.
Within(q, n, c) ==
  /\ c.end # 0 => q.errno = "OK" /\ n <= c.end + 1
  /\ c.fetched => c.end # 0 /\ n <= c.end

\* The text that a state is in the middle of.
TextOf(state) == IF state \in {"body_identity", "body_identity_eof", "chunk_data", "chunk_data_almost_done"}
                 THEN "body" ELSE MarkOf(state)

\* Only the text that the state is in the middle of may be marked.
Marking(q, n, c) ==
  \A cb \in DataCallbacks : c.marks[cb] # 0 =>
    /\ cb = TextOf(q.state)
    /\ q.state \in {"body_identity", "chunk_data"} => n > c.end

\* The states of a chunked body.
ChunkStates == {"chunk_size_start", "chunk_size", "chunk_parameters", "chunk_size_almost_done",
                "chunk_data", "chunk_data_almost_done", "chunk_data_done"}

\* What the states tell of the header that is read, of the length that is left, of
\* the bytes counted and of the flags, until the parser fails.
Sound(q, c) ==
  q.errno \in {"OK", "PAUSED"} =>
    /\ q.state = "header_value" => ~(q.header_state \in ListKinds /\ q.phase = "name")
    /\ q.state \in {"body_identity", "chunk_data"} => q.content_length # 0
    /\ q.state \in {"body_identity", "chunk_data", "chunk_size", "chunk_parameters", "chunk_size_almost_done"} =>
         q.content_length # UllongMax
    /\ q.state = "chunk_data_almost_done" => q.content_length = 0
    /\ q.state = "chunk_size_start" =>
         q.nread = 0 /\ (c.end # 0 => c.nread = IF c.fetched THEN 1 ELSE 0)
    /\ q.state \in ChunkStates => "CHUNKED" \in q.flags

Keeps(q, n, c) == Typed(q, n, c) /\ Within(q, n, c) /\ Marking(q, n, c) /\ Sound(q, c)

ParserInv == Keeps(parser, pos, call)

\* A turn of the loop.
Turn(q, n, c) ==
  /\ \/ n > pos
     \/ n = pos /\ Later(parser.state, q.state)
     \/ q.errno # "OK"
  /\ c.end = 0 => q.errno # "OK" \/ q.upgrade

\* What is to be shown of the outcome of an action.
Good(o) == Keeps(o.parser, o.pos, o.call) /\ Turn(o.parser, o.pos, o.call)

IsOutcome(o) == DOMAIN o = {"parser", "pos", "call"}

InTurn == ParserInv /\ Running /\ call.fetched

\* States that something is known of.
Special == ChunkStates \cup {"header_value", "body_identity"}

\* An action that comes to a good outcome keeps the invariant.
LEMMA DoKeeps ==
  ASSUME NEW o, Do(o), Good(o)
  PROVE  ParserInv' /\ Turn(parser', pos', call')
BY DEF Do, Ends, Good, ParserInv, Turn, Keeps, Typed, Within, Marking, Sound

LEMMA ErrnoSet ==
  ASSUME NEW q, ParserFields \subseteq DOMAIN q, NEW errno
  PROVE  LET u == [q EXCEPT !.errno = errno]
         IN  /\ ParserFields \subseteq DOMAIN u /\ u.errno = errno
             /\ u.state = q.state /\ u.header_state = q.header_state /\ u.phase = q.phase
             /\ u.flags = q.flags /\ u.nread = q.nread /\ u.content_length = q.content_length
             /\ u.upgrade = q.upgrade
BY DEF ParserFields

LEMMA NreadSet ==
  ASSUME NEW q, ParserFields \subseteq DOMAIN q, NEW nread
  PROVE  LET u == [q EXCEPT !.nread = nread]
         IN  /\ ParserFields \subseteq DOMAIN u /\ u.nread = nread /\ u.errno = q.errno
             /\ u.state = q.state /\ u.header_state = q.header_state /\ u.phase = q.phase
             /\ u.flags = q.flags /\ u.content_length = q.content_length /\ u.upgrade = q.upgrade
BY DEF ParserFields

LEMMA NoCallFacts ==
  /\ NoCall.end = 0 /\ NoCall.nread = 0 /\ NoCall.fetched \in BOOLEAN /\ ~NoCall.fetched /\ NoCall.marks \in [DataCallbacks -> Nat]
  /\ DOMAIN NoCall = {"end", "nread", "fetched", "marks"} /\ \A cb \in DataCallbacks : NoCall.marks[cb] = 0
BY DEF NoCall, NoMarks

LEMMA NoCallTyped ==
  ASSUME NEW q, ParserFields \subseteq DOMAIN q, q.content_length \in 0..UllongMax, q.nread \in Nat,
         NEW n \in Nat \ {0}
  PROVE  Typed(q, n, NoCall)
BY NoCallFacts DEF Typed

LEMMA NoCallKeeps ==
  ASSUME NEW q, NEW n, Typed(q, n, NoCall), Sound(q, NoCall)
  PROVE  Keeps(q, n, NoCall)
BY NoCallFacts DEF Keeps, Within, Marking

\* What becomes of a turn that ends in a callback, besides o.
Interrupted(o, cb) ==
  \/ Ends([o EXCEPT !.parser.errno = "PAUSED", !.call = NoCall])
  \/ Ends([Leave(o) EXCEPT !.parser.errno = "CB_" \o cb])

LEMMA EndsKeeps ==
  ASSUME NEW o, Ends(o), Good(o)
  PROVE  ParserInv' /\ Turn(parser', pos', call')
BY DEF Ends, Good, ParserInv, Turn, Keeps, Typed, Within, Marking, Sound

LEMMA InterruptedKeeps ==
  ASSUME NEW o, IsOutcome(o), NEW cb \in Callbacks, Interrupted(o, cb),
         Typed(o.parser, o.pos, o.call), Sound(o.parser, o.call), o.parser.errno = "OK"
  PROVE  ParserInv' /\ Turn(parser', pos', call')
<1>. DEFINE paused == [o EXCEPT !.parser.errno = "PAUSED", !.call = NoCall]
            failed == [Leave(o) EXCEPT !.parser.errno = "CB_" \o cb]
<1>1. Ends(paused) \/ Ends(failed)
  BY DEF Interrupted
<1>2. Good(paused)
  <2>1. paused.parser = [o.parser EXCEPT !.errno = "PAUSED"] /\ paused.pos = o.pos /\ paused.call = NoCall
    BY DEF IsOutcome
  <2>. DEFINE q == paused.parser
  <2>. HIDE DEF paused
  <2>2. /\ ParserFields \subseteq DOMAIN q /\ q.errno = "PAUSED" /\ q.nread = o.parser.nread
        /\ q.state = o.parser.state /\ q.header_state = o.parser.header_state /\ q.phase = o.parser.phase
        /\ q.flags = o.parser.flags /\ q.content_length = o.parser.content_length
    BY <2>1, ErrnoSet DEF Typed
  <2>. HIDE DEF q
  <2>3. Typed(q, paused.pos, paused.call)
    BY <2>1, <2>2, NoCallFacts DEF Typed
  <2>4. Sound(q, paused.call)
    BY <2>1, <2>2, NoCallFacts DEF Typed, Sound
  <2>. QED
    BY <2>1, <2>2, <2>3, <2>4, NoCallKeeps DEF Good, Turn, q
<1>3. Good(failed)
  <2>1. failed.parser = [[o.parser EXCEPT !.nread = o.call.nread] EXCEPT !.errno = "CB_" \o cb]
        /\ failed.pos = o.pos /\ failed.call = NoCall
    BY DEF IsOutcome, Leave
  <2>. DEFINE e == "CB_" \o cb
              q == [o.parser EXCEPT !.nread = o.call.nread]
  <2>2. e \notin {"OK", "PAUSED"}
    BY CharacterAssumption
  <2>3. failed.parser = [q EXCEPT !.errno = e] /\ failed.pos = o.pos /\ failed.call = NoCall
    BY <2>1
  <2>4. ParserFields \subseteq DOMAIN q /\ q.content_length \in 0..UllongMax /\ q.nread \in Nat
    BY NreadSet DEF Typed
  <2>. HIDE DEF e, failed, q
  <2>5. Typed(failed.parser, failed.pos, failed.call) /\ failed.parser.errno = e
    BY <2>3, <2>4, ErrnoSet, NoCallFacts DEF Typed
  <2>6. Sound(failed.parser, failed.call)
    BY <2>2, <2>5 DEF Sound
  <2>. QED
    BY <2>1, <2>2, <2>5, <2>6, NoCallKeeps DEF Good, Turn
<1>. HIDE DEF paused, failed
<1>. QED
  BY <1>1, <1>2, <1>3, EndsKeeps

\* A turn that ends in a callback, whatever the callback does.
LEMMA CallbackKeeps ==
  ASSUME NEW o, IsOutcome(o), NEW cb \in Callbacks, NEW data, Callback(cb, data, o), Good(o),
         o.parser.errno = "OK"
  PROVE  ParserInv' /\ Turn(parser', pos', call')
<1>1. Ends(o) \/ Interrupted(o, cb)
  BY DEF Callback, CallbackThen, Stay, Interrupted
<1>. QED
  BY <1>1, EndsKeeps, InterruptedKeeps DEF Good, Keeps

\* An error ends the call.
LEMMA ErrorGood ==
  ASSUME InTurn, NEW errno, errno \notin {"OK", "PAUSED"}
  PROVE  IsOutcome(Error(errno)) /\ Good(Error(errno))
<1>. DEFINE o == Error(errno)
<1>1. /\ o.parser = [[parser EXCEPT !.errno = errno] EXCEPT !.nread = call.nread]
      /\ o.pos = pos /\ o.call = NoCall /\ IsOutcome(o)
  BY DEF Error, Return, Leave, AdvanceTo, IsOutcome, InTurn, ParserInv, Keeps, Typed
<1>. DEFINE q == [parser EXCEPT !.errno = errno]
<1>4. ParserFields \subseteq DOMAIN q /\ q.errno = errno /\ q.content_length \in 0..UllongMax
  BY ErrnoSet DEF InTurn, ParserInv, Keeps, Typed
<1>5. o.parser = [q EXCEPT !.nread = call.nread]
  BY <1>1
<1>. HIDE DEF o, q
<1>2. Typed(o.parser, o.pos, o.call) /\ o.parser.errno = errno
  BY <1>1, <1>4, <1>5, NreadSet, NoCallFacts DEF InTurn, ParserInv, Keeps, Typed
<1>3. Sound(o.parser, o.call)
  BY <1>2 DEF Sound
<1>. QED
  BY <1>1, <1>2, <1>3, NoCallKeeps DEF Good, Turn, o

\* A turn that takes bytes and goes on with the text it is in the middle of, if any.
LEMMA AdvanceToGood ==
  ASSUME InTurn, NEW to \in Nat, pos < to, to <= call.end + 1,
         NEW q, ParserFields \subseteq DOMAIN q, q.errno = "OK",
         q.content_length \in 0..UllongMax, q.nread \in Nat,
         TextOf(parser.state) = "none" \/ (TextOf(q.state) = TextOf(parser.state) /\ TextOf(q.state) # "body"),
         Sound(q, [call EXCEPT !.fetched = FALSE])
  PROVE  IsOutcome(AdvanceTo(q, to)) /\ Good(AdvanceTo(q, to))
<1>. DEFINE o == AdvanceTo(q, to)
            c == [call EXCEPT !.fetched = FALSE]
<1>1. o.parser = q /\ o.pos = to /\ o.call = c /\ IsOutcome(o)
  BY DEF AdvanceTo, IsOutcome
<1>2. Typed(q, to, c) /\ c.end = call.end /\ c.marks = call.marks /\ c.fetched = FALSE
  BY DEF InTurn, ParserInv, Keeps, Typed
<1>3. Within(q, to, c)
  BY <1>2 DEF InTurn, ParserInv, Keeps, Typed, Within
<1>4. Marking(q, to, c)
  BY <1>2 DEF InTurn, ParserInv, Keeps, Typed, Marking, DataCallbacks, TextOf
<1>5. Turn(q, to, c)
  BY <1>2 DEF InTurn, ParserInv, Keeps, Typed, Turn, Running
<1>. HIDE DEF c, o
<1>6. Sound(q, c)
  BY DEF c
<1>. QED
  BY <1>1, <1>2, <1>3, <1>4, <1>5, <1>6 DEF Good, Keeps, o

LEMMA AdvanceGood ==
  ASSUME InTurn, NEW q, ParserFields \subseteq DOMAIN q, q.errno = "OK",
         q.content_length \in 0..UllongMax, q.nread \in Nat,
         TextOf(parser.state) = "none" \/ (TextOf(q.state) = TextOf(parser.state) /\ TextOf(q.state) # "body"),
         Sound(q, [call EXCEPT !.fetched = FALSE])
  PROVE  IsOutcome(Advance(q)) /\ Good(Advance(q))
<1>1. pos + 1 \in Nat /\ pos < pos + 1 /\ pos + 1 <= call.end + 1
  BY DEF InTurn, ParserInv, Keeps, Typed, Within
<1>. QED
  BY <1>1, AdvanceToGood DEF Advance

-----------------------------------------------------------------------------
(* Ways a case of the switch may end. *)

\* A parser that goes on.
Fit(q) ==
  /\ ParserFields \subseteq DOMAIN q /\ q.errno = "OK"
  /\ q.content_length \in 0..UllongMax /\ q.nread \in Nat

\* States outside any text of which nothing more is known.
PlainStates ==
  {"dead", "start_req_or_res", "res_or_resp_H", "start_res", "res_H", "res_HT", "res_HTT", "res_HTTP",
   "res_http_major", "res_http_dot", "res_http_minor", "res_http_end", "res_first_status_code",
   "res_status_code", "res_status_start", "res_line_almost_done", "start_req", "req_method",
   "spaces_before_url", "req_http_start", "req_http_H", "req_http_HT", "req_http_HTT", "req_http_I",
   "req_http_IC", "req_http_HTTP", "req_http_major", "req_http_dot", "req_http_minor",
   "req_http_end", "req_line_almost_done", "header_field_start", "header_value_discard_ws",
   "header_value_discard_ws_almost_done", "header_value_discard_lws", "header_value_start",
   "header_almost_done", "header_value_lws", "headers_almost_done", "headers_done", "message_done"}

LEMMA PlainIsPlain ==
  ASSUME NEW s \in PlainStates
  PROVE  TextOf(s) = "none" /\ s \notin Special
BY DEF PlainStates, TextOf, MarkOf, UrlStates, ServerStates, Special, ChunkStates

LEMMA PlainSound ==
  ASSUME NEW q, NEW c, q.state \notin Special
  PROVE  Sound(q, c)
BY DEF Sound, Special, ChunkStates

LEMMA InTurnFacts ==
  ASSUME ParserInv, NEW states, At(states)
  PROVE  InTurn /\ Fit(parser) /\ parser.state \in states /\ pos \in Nat
BY DEF InTurn, At, Running, ParserInv, Keeps, Within, Typed, Fit

LEMMA InFit ==
  ASSUME Fit(parser), NEW s
  PROVE  /\ Fit(In(s)) /\ In(s).state = s
         /\ In(s).content_length = parser.content_length /\ In(s).flags = parser.flags
         /\ In(s).header_state = parser.header_state /\ In(s).phase = parser.phase
         /\ In(s).upgrade = parser.upgrade /\ In(s).nread = parser.nread
         /\ In(s).type = parser.type /\ In(s).uses_transfer_encoding = parser.uses_transfer_encoding
         /\ In(s).method = parser.method /\ In(s).matched = parser.matched
BY DEF Fit, In, ParserFields

\* From a state outside any text to another.
LEMMA PlainAdvance ==
  ASSUME InTurn, parser.state \in PlainStates, NEW q, Fit(q), q.state \in PlainStates
  PROVE  IsOutcome(Advance(q)) /\ Good(Advance(q)) /\ Advance(q).parser.errno = "OK"
<1>1. TextOf(parser.state) = "none" /\ q.state \notin Special
  BY PlainIsPlain
<1>. QED
  BY <1>1, AdvanceGood, PlainSound DEF Fit, Advance, AdvanceTo

\* A byte is read again, in a later state.
LEMMA AgainGood ==
  ASSUME InTurn, TextOf(parser.state) = "none", NEW q, Fit(q), Sound(q, call), Later(parser.state, q.state)
  PROVE  IsOutcome(Again(q)) /\ Good(Again(q)) /\ Again(q).parser.errno = "OK"
<1>1. Again(q).parser = q /\ Again(q).pos = pos /\ Again(q).call = call
  BY DEF Again
<1>2. Typed(q, pos, call)
  BY DEF InTurn, ParserInv, Keeps, Typed, Fit
<1>3. Within(q, pos, call) /\ Turn(q, pos, call)
  BY DEF InTurn, ParserInv, Keeps, Within, Fit, Turn, Running
<1>4. Marking(q, pos, call)
  BY DEF InTurn, ParserInv, Keeps, Marking, DataCallbacks
<1>. QED
  BY <1>1, <1>2, <1>3, <1>4 DEF Good, Keeps, IsOutcome, Again, Fit

\* Which turns do not take a byte.
LEMMA LaterStates ==
  /\ Later("start_req_or_res", "start_req")
  /\ Later("res_status_code", "res_status_start") /\ Later("res_status_start", "res_status")
  /\ Later("header_value", "header_almost_done")
  /\ Later("header_value_lws", "header_value_start") /\ Later("header_value_lws", "header_field_start")
  /\ Later("header_value_discard_lws", "header_field_start")
  /\ Later("header_field_start", "headers_almost_done")
  /\ Later("headers_almost_done", "headers_done") /\ Later("headers_almost_done", "message_done")
  /\ Later("body_identity", "message_done")
<1>1. ASSUME NEW i \in 1..16, NEW j \in 1..16, i < j PROVE Later(ReexecuteOrder[i], ReexecuteOrder[j])
  BY <1>1 DEF Later, ReexecuteOrder
<1>2. /\ Later(ReexecuteOrder[1], ReexecuteOrder[2]) /\ Later(ReexecuteOrder[3], ReexecuteOrder[4])
      /\ Later(ReexecuteOrder[4], ReexecuteOrder[5]) /\ Later(ReexecuteOrder[6], ReexecuteOrder[7])
      /\ Later(ReexecuteOrder[9], ReexecuteOrder[11]) /\ Later(ReexecuteOrder[9], ReexecuteOrder[12])
      /\ Later(ReexecuteOrder[10], ReexecuteOrder[12]) /\ Later(ReexecuteOrder[12], ReexecuteOrder[13])
      /\ Later(ReexecuteOrder[13], ReexecuteOrder[14]) /\ Later(ReexecuteOrder[13], ReexecuteOrder[16])
      /\ Later(ReexecuteOrder[15], ReexecuteOrder[16])
  BY <1>1, SMTT(30)
<1>. QED
  BY <1>2 DEF ReexecuteOrder

\* A text begins.
LEMMA MarkedGood ==
  ASSUME InTurn, TextOf(parser.state) = "none", NEW o, IsOutcome(o), Good(o),
         o.call.marks = call.marks, NEW cb \in DataCallbacks, cb # "body", TextOf(o.parser.state) = cb
  PROVE  IsOutcome(Marked(o, cb)) /\ Good(Marked(o, cb))
<1>. DEFINE c == [o.call EXCEPT !.marks[cb] = IF @ = 0 THEN pos ELSE @]
<1>1. Marked(o, cb) = [o EXCEPT !.call = c] /\ IsOutcome(Marked(o, cb))
  BY DEF Marked, IsOutcome
<1>2. Marked(o, cb).parser = o.parser /\ Marked(o, cb).pos = o.pos /\ Marked(o, cb).call = c
  BY <1>1 DEF IsOutcome
<1>3. \A d \in DataCallbacks : call.marks[d] = 0
  BY DEF InTurn, ParserInv, Keeps, Marking, DataCallbacks
<1>4. /\ DOMAIN c = DOMAIN o.call /\ c.end = o.call.end /\ c.nread = o.call.nread /\ c.fetched = o.call.fetched
      /\ c.marks \in [DataCallbacks -> Nat] /\ \A d \in DataCallbacks : c.marks[d] # 0 => d = cb
  BY <1>3 DEF Good, Keeps, Typed, InTurn, ParserInv
<1>. HIDE DEF c
<1>5. Typed(o.parser, o.pos, c) /\ Within(o.parser, o.pos, c) /\ Sound(o.parser, c) /\ Turn(o.parser, o.pos, c)
  BY <1>4 DEF Good, Keeps, Typed, Within, Sound, Turn
<1>6. Marking(o.parser, o.pos, c)
  BY <1>4 DEF Marking, TextOf
<1>. QED
  BY <1>1, <1>2, <1>5, <1>6 DEF Good, Keeps

\* A text ends.
LEMMA FlushKeeps ==
  ASSUME InTurn, NEW cb \in DataCallbacks, TextOf(parser.state) = cb, NEW last, NEW o, IsOutcome(o),
         o.parser.errno = "OK", o.call.marks = call.marks,
         Typed(o.parser, o.pos, o.call), Within(o.parser, o.pos, o.call), Sound(o.parser, o.call),
         Turn(o.parser, o.pos, o.call), Flush(cb, last, o)
  PROVE  ParserInv' /\ Turn(parser', pos', call')
<1>. DEFINE cleared == [o EXCEPT !.call.marks[cb] = 0]
            c == [o.call EXCEPT !.marks[cb] = 0]
<1>1. \A d \in DataCallbacks : call.marks[d] # 0 => d = cb
  BY DEF InTurn, ParserInv, Keeps, Marking
<1>2. cleared.parser = o.parser /\ cleared.pos = o.pos /\ cleared.call = c /\ IsOutcome(cleared)
  BY DEF IsOutcome
<1>3. /\ DOMAIN c = DOMAIN o.call /\ c.end = o.call.end /\ c.nread = o.call.nread /\ c.fetched = o.call.fetched
      /\ c.marks \in [DataCallbacks -> Nat] /\ \A d \in DataCallbacks : c.marks[d] = 0
  BY <1>1 DEF Typed
<1>4. CASE call.marks[cb] = 0
  <2>1. Marking(o.parser, o.pos, o.call)
    BY <1>1, <1>4 DEF Marking
  <2>2. Do(o)
    BY <1>4 DEF Flush, FlushThen, Stay
  <2>. QED
    BY <2>1, <2>2, DoKeeps DEF Good, Keeps
<1>5. CASE call.marks[cb] # 0
  <2>1. Callback(cb, SubSeq(stream.wire, call.marks[cb], last), cleared)
    BY <1>5 DEF Flush, FlushThen, Callback
  <2>. HIDE DEF c, cleared
  <2>2. Typed(o.parser, o.pos, c) /\ Within(o.parser, o.pos, c) /\ Sound(o.parser, c) /\ Turn(o.parser, o.pos, c)
    BY <1>3 DEF Typed, Within, Sound, Turn
  <2>3. Marking(o.parser, o.pos, c)
    BY <1>3 DEF Marking
  <2>4. Good(cleared) /\ cleared.parser.errno = "OK" /\ cb \in Callbacks
    BY <1>2, <2>2, <2>3 DEF Good, Keeps, Callbacks
  <2>. DEFINE data == SubSeq(stream.wire, call.marks[cb], last)
  <2>. HIDE DEF data
  <2>. QED
    BY <1>2, <2>1, <2>4, CallbackKeeps DEF data
<1>. QED
  BY <1>4, <1>5

-----------------------------------------------------------------------------
(* Each case of the switch keeps the invariant and is a turn of the loop. *)

Kept == ParserInv' /\ Turn(parser', pos', call')

LEMMA ErrorKept ==
  ASSUME InTurn, NEW errno, errno \notin {"OK", "PAUSED"}, Do(Error(errno))
  PROVE  Kept
BY ErrorGood, DoKeeps DEF Kept

LEMMA PlainKept ==
  ASSUME InTurn, parser.state \in PlainStates, NEW q, Fit(q), q.state \in PlainStates, Do(Advance(q))
  PROVE  Kept
BY PlainAdvance, DoKeeps DEF Kept

LEMMA PlainCallbackKept ==
  ASSUME InTurn, parser.state \in PlainStates, NEW q, Fit(q), q.state \in PlainStates,
         NEW cb \in Callbacks, NEW data, Callback(cb, data, Advance(q))
  PROVE  Kept
BY PlainAdvance, CallbackKeeps DEF Kept

LEMMA AgainKept ==
  ASSUME InTurn, parser.state \in PlainStates, NEW q, Fit(q), q.state \in PlainStates,
         Later(parser.state, q.state), Do(Again(q))
  PROVE  Kept
<1>1. TextOf(parser.state) = "none" /\ Sound(q, call)
  BY PlainIsPlain, PlainSound
<1>. QED
  BY <1>1, AgainGood, DoKeeps DEF Kept

LEMMA FreshFit ==
  ASSUME Fit(parser)
  PROVE  Fit(Fresh) /\ Fresh.state = parser.state
BY ParserAssumption DEF Fit, Fresh, ParserFields

LEMMA DeadKept == ASSUME ParserInv, Dead PROVE Kept
<1>1. InTurn /\ Fit(parser) /\ parser.state = "dead"
  BY InTurnFacts DEF Dead
<1>2. Do(Advance(parser)) \/ Do(Error("CLOSED_CONNECTION"))
  BY DEF Dead
<1>. QED
  BY <1>1, <1>2, PlainKept, ErrorKept DEF PlainStates

LEMMA StartReqOrResKept == ASSUME ParserInv, StartReqOrRes PROVE Kept
<1>. DEFINE begun == [Fresh EXCEPT !.state = "res_or_resp_H"]
            request == [Fresh EXCEPT !.type = "request", !.state = "start_req"]
<1>1. InTurn /\ Fit(parser) /\ parser.state = "start_req_or_res"
  BY InTurnFacts DEF StartReqOrRes
<1>2. Do(Advance(parser)) \/ Callback("message_begin", <<>>, Advance(begun)) \/ Do(Again(request))
  BY DEF StartReqOrRes
<1>3. Fit(begun) /\ begun.state = "res_or_resp_H" /\ Fit(request) /\ request.state = "start_req"
  BY <1>1, FreshFit DEF Fit, ParserFields
<1>. HIDE DEF begun, request
<1>4. "start_req_or_res" \in PlainStates /\ "start_req" \in PlainStates /\ "res_or_resp_H" \in PlainStates
  BY DEF PlainStates
<1>5. CASE Do(Advance(parser))
  BY <1>1, <1>4, <1>5, PlainKept
<1>6. CASE Callback("message_begin", <<>>, Advance(begun))
  BY <1>1, <1>3, <1>4, <1>6, PlainCallbackKept DEF Callbacks
<1>7. CASE Do(Again(request))
  BY <1>1, <1>3, <1>4, <1>7, AgainKept, LaterStates
<1>. QED
  BY <1>2, <1>5, <1>6, <1>7

LEMMA ResOrRespHKept == ASSUME ParserInv, ResOrRespH PROVE Kept
<1>. DEFINE res == [parser EXCEPT !.type = "response", !.state = "res_HT"]
            req == [parser EXCEPT !.type = "request", !.method = "HEAD", !.index = 2,
                                  !.state = "req_method"]
<1>1. InTurn /\ Fit(parser) /\ parser.state = "res_or_resp_H"
  BY InTurnFacts DEF ResOrRespH
<1>2. Do(Advance(res)) \/ Do(Advance(req)) \/ Do(Error("INVALID_CONSTANT"))
  BY DEF ResOrRespH
<1>3. Fit(res) /\ res.state = "res_HT" /\ Fit(req) /\ req.state = "req_method"
  BY <1>1 DEF Fit, ParserFields
<1>. HIDE DEF res, req
<1>. QED
  BY <1>1, <1>2, <1>3, PlainKept, ErrorKept DEF PlainStates

LEMMA StartResKept == ASSUME ParserInv, StartRes PROVE Kept
<1>. DEFINE begun == [Fresh EXCEPT !.state = "res_H"]
<1>1. InTurn /\ Fit(parser) /\ parser.state = "start_res"
  BY InTurnFacts DEF StartRes
<1>2. Do(Advance(parser)) \/ Callback("message_begin", <<>>, Advance(begun)) \/ Do(Error("INVALID_CONSTANT"))
  BY DEF StartRes
<1>3. Fit(begun) /\ begun.state = "res_H"
  BY <1>1, FreshFit DEF Fit, ParserFields
<1>. HIDE DEF begun
<1>4. "start_res" \in PlainStates /\ "res_H" \in PlainStates
  BY DEF PlainStates
<1>. QED
  BY <1>1, <1>2, <1>3, <1>4, PlainKept, PlainCallbackKept, ErrorKept DEF Callbacks

LEMMA StrictLetterKept == ASSUME ParserInv, StrictLetter PROVE Kept
<1>. DEFINE next == StrictMoves[parser.state][2]
<1>1. InTurn /\ Fit(parser) /\ parser.state \in DOMAIN StrictMoves
  BY InTurnFacts DEF StrictLetter
<1>2. Do(Advance(In(next))) \/ Do(Error("STRICT"))
  BY DEF StrictLetter
<1>3. parser.state \in PlainStates /\ next \in PlainStates
  BY <1>1 DEF StrictMoves, PlainStates
<1>4. Fit(In(next)) /\ In(next).state = next
  BY <1>1, InFit
<1>. HIDE DEF next
<1>. QED
  BY <1>1, <1>2, <1>3, <1>4, PlainKept, ErrorKept

LEMMA VersionKept == ASSUME ParserInv, Version PROVE Kept
<1>. DEFINE major(s) == [In(s) EXCEPT !.http_major = DigitValue[ch]]
            minor(s) == [In(s) EXCEPT !.http_minor = DigitValue[ch]]
<1>1. InTurn /\ Fit(parser)
      /\ parser.state \in {"res_http_major", "res_http_dot", "res_http_minor", "res_http_end",
                           "req_http_major", "req_http_dot", "req_http_minor"}
  BY InTurnFacts DEF Version
<1>2. \/ Do(Advance(major("res_http_dot"))) \/ Do(Advance(major("req_http_dot")))
      \/ Do(Advance(minor("res_http_end"))) \/ Do(Advance(minor("req_http_end")))
      \/ Do(Advance(In("res_http_minor"))) \/ Do(Advance(In("req_http_minor")))
      \/ Do(Advance(In("res_first_status_code"))) \/ Do(Error("INVALID_VERSION"))
  BY DEF Version
<1>3. ASSUME NEW s
      PROVE  Fit(In(s)) /\ In(s).state = s /\ Fit(major(s)) /\ major(s).state = s
             /\ Fit(minor(s)) /\ minor(s).state = s
  BY <1>1, InFit DEF Fit, ParserFields
<1>. HIDE DEF major, minor
<1>. QED
  BY <1>1, <1>2, <1>3, PlainKept, ErrorKept DEF PlainStates

LEMMA StatusCodeKept == ASSUME ParserInv, StatusCode PROVE Kept
<1>. DEFINE code == (IF parser.state = "res_first_status_code" THEN 0 ELSE parser.status_code * 10)
                    + DigitValue[ch]
            coded == [In("res_status_code") EXCEPT !.status_code = code]
<1>1. InTurn /\ Fit(parser) /\ parser.state \in {"res_first_status_code", "res_status_code"}
  BY InTurnFacts DEF StatusCode
<1>2. \/ Do(Error("INVALID_STATUS")) \/ Do(Advance(coded)) \/ Do(Advance(parser))
      \/ Do(Advance(In("res_status_start")))
      \/ parser.state = "res_status_code" /\ Do(Again(In("res_status_start")))
  BY <1>1, ZenonT(30) DEF StatusCode
<1>3. Fit(In("res_status_start")) /\ In("res_status_start").state = "res_status_start"
      /\ Fit(coded) /\ coded.state = "res_status_code"
  BY <1>1, InFit DEF Fit, ParserFields
<1>. HIDE DEF coded
<1>4. {"res_first_status_code", "res_status_code", "res_status_start"} \subseteq PlainStates
  BY DEF PlainStates
<1>5. CASE parser.state = "res_status_code" /\ Do(Again(In("res_status_start")))
  BY <1>1, <1>3, <1>4, <1>5, AgainKept, LaterStates
<1>. QED
  BY <1>1, <1>2, <1>3, <1>4, <1>5, PlainKept, ErrorKept

LEMMA TextAdvance ==
  ASSUME InTurn, NEW q, Fit(q), q.state \notin Special, TextOf(q.state) # "body",
         TextOf(parser.state) \in {"none", TextOf(q.state)}
  PROVE  IsOutcome(Advance(q)) /\ Good(Advance(q)) /\ Advance(q).parser = q
         /\ Advance(q).call = [call EXCEPT !.fetched = FALSE] /\ Advance(q).call.marks = call.marks
         /\ Advance(q).call # NoCall
<1>1. Sound(q, [call EXCEPT !.fetched = FALSE])
  BY PlainSound
<1>2. Advance(q).parser = q /\ Advance(q).call = [call EXCEPT !.fetched = FALSE]
  BY DEF Advance, AdvanceTo
<1>3. [call EXCEPT !.fetched = FALSE].marks = call.marks /\ [call EXCEPT !.fetched = FALSE].end # 0
  BY DEF InTurn, ParserInv, Keeps, Typed, Running
<1>. QED
  BY <1>1, <1>2, <1>3, AdvanceGood, NoCallFacts DEF Fit

LEMMA FlushAdvance ==
  ASSUME InTurn, NEW cb \in DataCallbacks, TextOf(parser.state) = cb, NEW last,
         NEW q, Fit(q), Sound(q, [call EXCEPT !.fetched = FALSE]), Flush(cb, last, Advance(q))
  PROVE  Kept
<1>. DEFINE o == Advance(q)
            c == [call EXCEPT !.fetched = FALSE]
<1>1. o.parser = q /\ o.pos = pos + 1 /\ o.call = c /\ IsOutcome(o)
  BY DEF Advance, AdvanceTo, IsOutcome
<1>2. Typed(q, pos + 1, c) /\ c.end = call.end /\ c.marks = call.marks /\ c.fetched = FALSE
  BY DEF InTurn, ParserInv, Keeps, Typed, Fit
<1>3. Within(q, pos + 1, c) /\ Turn(q, pos + 1, c)
  BY <1>2 DEF InTurn, ParserInv, Keeps, Typed, Within, Turn, Running, Fit
<1>4. Sound(q, c) /\ Flush(cb, last, o)
  OBVIOUS
<1>. HIDE DEF c, o
<1>. QED
  BY <1>1, <1>2, <1>3, <1>4, FlushKeeps DEF Kept, Fit

LEMMA StatusStartKept == ASSUME ParserInv, StatusStart PROVE Kept
<1>. DEFINE q == [In("res_status") EXCEPT !.index = 0]
<1>1. InTurn /\ Fit(parser) /\ parser.state = "res_status_start"
  BY InTurnFacts DEF StatusStart
<1>2. Do(Marked(Again(q), "status")) \/ Do(Marked(Advance(q), "status"))
  BY DEF StatusStart
<1>3. Fit(q) /\ q.state = "res_status"
  BY <1>1, InFit DEF Fit, ParserFields
<1>. HIDE DEF q
<1>4. TextOf(parser.state) = "none"
  BY <1>1, PlainIsPlain DEF PlainStates
<1>5. TextOf(q.state) = "status" /\ q.state \notin Special /\ Sound(q, call) /\ "status" \in DataCallbacks
  BY <1>3, PlainSound DEF TextOf, MarkOf, UrlStates, ServerStates, Special, ChunkStates, DataCallbacks
<1>6. IsOutcome(Again(q)) /\ Good(Again(q)) /\ Again(q).parser = q /\ Again(q).call.marks = call.marks
  BY <1>1, <1>3, <1>4, <1>5, AgainGood, LaterStates DEF Again
<1>7. IsOutcome(Advance(q)) /\ Good(Advance(q)) /\ Advance(q).parser = q
      /\ Advance(q).call.marks = call.marks
  BY <1>1, <1>3, <1>4, <1>5, TextAdvance
<1>8. Good(Marked(Again(q), "status")) /\ Good(Marked(Advance(q), "status"))
  BY <1>1, <1>4, <1>5, <1>6, <1>7, MarkedGood
<1>. QED
  BY <1>2, <1>8, DoKeeps DEF Kept

LEMMA StatusKept == ASSUME ParserInv, Status PROVE Kept
<1>. DEFINE next == IF ch = "CR" THEN "res_line_almost_done" ELSE "header_field_start"
<1>1. InTurn /\ Fit(parser) /\ parser.state = "res_status"
  BY InTurnFacts DEF Status
<1>2. Flush("status", pos - 1, Advance(In(next))) \/ Do(Advance(parser))
  BY DEF Status
<1>3. Fit(In(next)) /\ In(next).state = next /\ next \in PlainStates
  BY <1>1, InFit DEF PlainStates
<1>4. TextOf(parser.state) = "status" /\ parser.state \notin Special /\ "status" \in DataCallbacks
  BY <1>1 DEF TextOf, MarkOf, UrlStates, ServerStates, Special, ChunkStates, DataCallbacks
<1>. HIDE DEF next
<1>5. Sound(In(next), [call EXCEPT !.fetched = FALSE])
  BY <1>3, PlainIsPlain, PlainSound
<1>6. CASE Flush("status", pos - 1, Advance(In(next)))
  BY <1>1, <1>3, <1>4, <1>5, <1>6, FlushAdvance
<1>7. CASE Do(Advance(parser))
  BY <1>1, <1>4, <1>7, TextAdvance, DoKeeps DEF Kept
<1>. QED
  BY <1>2, <1>6, <1>7

LEMMA StartReqKept == ASSUME ParserInv, StartReq PROVE Kept
<1>. DEFINE begun == [Fresh EXCEPT !.method = MethodOf[ch], !.index = 1, !.state = "req_method"]
<1>1. InTurn /\ Fit(parser) /\ parser.state = "start_req"
  BY InTurnFacts DEF StartReq
<1>2. Do(Advance(parser)) \/ Callback("message_begin", <<>>, Advance(begun)) \/ Do(Error("INVALID_METHOD"))
  BY DEF StartReq
<1>3. Fit(begun) /\ begun.state = "req_method"
  BY <1>1, FreshFit DEF Fit, ParserFields
<1>. HIDE DEF begun
<1>4. "start_req" \in PlainStates /\ "req_method" \in PlainStates
  BY DEF PlainStates
<1>. QED
  BY <1>1, <1>2, <1>3, <1>4, PlainKept, PlainCallbackKept, ErrorKept DEF Callbacks

LEMMA ReqMethodKept == ASSUME ParserInv, ReqMethod PROVE Kept
<1>. DEFINE q == [parser EXCEPT !.index = parser.index + 1]
            turns == {t \in MethodTurns : t[1] = parser.method /\ t[2] = parser.index /\ t[3] = ch}
            turned == [q EXCEPT !.method = (CHOOSE t \in turns : TRUE)[4]]
            over == [q EXCEPT !.state = "spaces_before_url"]
<1>1. InTurn /\ Fit(parser) /\ parser.state = "req_method"
  <2>1. At({"req_method"})
    BY DEF ReqMethod
  <2>. QED
    BY <2>1, InTurnFacts
<1>2. Do(Advance(over)) \/ Do(Advance(q)) \/ Do(Advance(turned)) \/ Do(Error("INVALID_METHOD"))
  BY DEF ReqMethod
<1>3. Fit(q) /\ q.state = "req_method"
  BY <1>1 DEF Fit, ParserFields
<1>4. ASSUME NEW m PROVE Fit([q EXCEPT !.method = m]) /\ [q EXCEPT !.method = m].state = "req_method"
  <2>. HIDE DEF q
  <2>. QED
    BY <1>3 DEF Fit, ParserFields
<1>5. Fit(over) /\ over.state = "spaces_before_url"
  <2>. HIDE DEF q
  <2>. QED
    BY <1>3 DEF Fit, ParserFields
<1>6. Fit(turned) /\ turned.state = "req_method"
  BY <1>4
<1>. HIDE DEF over, turned, q
<1>7. "req_method" \in PlainStates /\ "spaces_before_url" \in PlainStates
  BY DEF PlainStates
<1>. QED
  BY <1>1, <1>2, <1>3, <1>5, <1>6, <1>7, PlainKept, ErrorKept

\* The automaton of a target stays in the states of targets.
LEMMA TargetStates ==
  ASSUME NEW s, NEW c
  PROVE  ParseUrlChar(s, c) \in UrlStates \cup {"dead"}
<1>. DEFINE Fits(m) == s \in m[1] /\ c \in m[2]
            move == CHOOSE m \in UrlMoves : Fits(m)
<1>1. \A m \in UrlMoves : m[3] \in UrlStates
  BY DEF UrlMoves, UrlStates, ServerStates
<1>2. CASE \E m \in UrlMoves : Fits(m)
  <2>1. move \in UrlMoves
    <3>. HIDE DEF Fits
    <3>. QED
      BY <1>2
  <2>2. ParseUrlChar(s, c) = move[3]
    BY <1>2 DEF ParseUrlChar, Move
  <2>. HIDE DEF move
  <2>. QED
    BY <1>1, <2>1, <2>2
<1>3. CASE ~\E m \in UrlMoves : Fits(m)
  BY <1>3 DEF ParseUrlChar, Move
<1>. QED
  BY <1>2, <1>3

LEMMA UrlIsText ==
  ASSUME NEW s \in UrlStates
  PROVE  TextOf(s) = "url" /\ s \notin Special
BY DEF UrlStates, ServerStates, TextOf, MarkOf, Special, ChunkStates

LEMMA SpacesBeforeUrlKept == ASSUME ParserInv, SpacesBeforeUrl PROVE Kept
<1>. DEFINE next == ParseUrlChar(IF parser.method = "CONNECT" THEN "server_start" ELSE parser.state, ch)
            o == Advance(In(next))
<1>1. InTurn /\ Fit(parser) /\ parser.state = "spaces_before_url" /\ "spaces_before_url" \in PlainStates
  <2>1. At({"spaces_before_url"})
    BY DEF SpacesBeforeUrl
  <2>. QED
    BY <2>1, InTurnFacts DEF PlainStates
<1>2. Error("INVALID_URL").call = NoCall
  BY DEF Error, Return, Leave, AdvanceTo
<1>3. \/ Do(Advance(parser)) \/ Do(Error("INVALID_URL"))
      \/ next # "dead" /\ Do(IF o.call = NoCall THEN o ELSE Marked(o, "url"))
  BY <1>2 DEF SpacesBeforeUrl, Target
<1>4. next \in UrlStates \cup {"dead"}
  BY TargetStates
<1>. HIDE DEF next
<1>5. CASE next # "dead" /\ Do(IF o.call = NoCall THEN o ELSE Marked(o, "url"))
  <2>1. next \in UrlStates /\ Fit(In(next)) /\ In(next).state = next
    BY <1>1, <1>4, <1>5, InFit
  <2>2. TextOf(parser.state) = "none" /\ TextOf(In(next).state) = "url" /\ In(next).state \notin Special
    BY <1>1, <2>1, PlainIsPlain, UrlIsText
  <2>3. IsOutcome(o) /\ Good(o) /\ o.parser = In(next) /\ o.call.marks = call.marks /\ o.call # NoCall
    BY <1>1, <2>1, <2>2, TextAdvance
  <2>4. Do(Marked(o, "url"))
    BY <1>5, <2>3
  <2>. HIDE DEF o
  <2>5. Good(Marked(o, "url"))
    BY <1>1, <2>2, <2>3, MarkedGood DEF DataCallbacks
  <2>. QED
    BY <2>4, <2>5, DoKeeps DEF Kept
<1>. QED
  BY <1>1, <1>3, <1>5, PlainKept, ErrorKept

LEMMA UrlKept == ASSUME ParserInv, Url PROVE Kept
<1>. DEFINE next == ParseUrlChar(parser.state, ch)
            after == IF ch = "CR" THEN "req_line_almost_done" ELSE "header_field_start"
            simple == [In(after) EXCEPT !.http_major = 0, !.http_minor = 9]
<1>1. InTurn /\ Fit(parser) /\ parser.state \in UrlStates
  BY InTurnFacts DEF Url
<1>2. \/ Flush("url", pos - 1, Advance(In("req_http_start"))) \/ Flush("url", pos - 1, Advance(simple))
      \/ Do(Error("INVALID_URL"))
      \/ next # "dead" /\ Do(Advance(In(next)))
  <2>1. Target(parser.state) = IF next = "dead" THEN Error("INVALID_URL") ELSE Advance(In(next))
    BY DEF Target
  <2>. HIDE DEF next
  <2>2. \/ Flush("url", pos - 1, Advance(In("req_http_start"))) \/ Flush("url", pos - 1, Advance(simple))
        \/ Do(Target(parser.state))
    BY DEF Url
  <2>3. CASE next = "dead"
    BY <2>1, <2>2, <2>3
  <2>4. CASE next # "dead"
    BY <2>1, <2>2, <2>4
  <2>. QED
    BY <2>3, <2>4
<1>3. next \in UrlStates \cup {"dead"} /\ after \in PlainStates /\ "req_http_start" \in PlainStates
  BY TargetStates DEF PlainStates
<1>. HIDE DEF next, after
<1>4. Fit(In("req_http_start")) /\ In("req_http_start").state = "req_http_start"
      /\ Fit(simple) /\ simple.state = after
  BY <1>1, InFit DEF Fit, ParserFields
<1>. HIDE DEF simple
<1>5. TextOf(parser.state) = "url" /\ "url" \in DataCallbacks
  BY <1>1, UrlIsText DEF DataCallbacks
<1>6. Sound(In("req_http_start"), [call EXCEPT !.fetched = FALSE]) /\ Sound(simple, [call EXCEPT !.fetched = FALSE])
  BY <1>3, <1>4, PlainIsPlain, PlainSound
<1>7. CASE next # "dead" /\ Do(Advance(In(next)))
  <2>1. next \in UrlStates /\ Fit(In(next)) /\ In(next).state = next
    BY <1>1, <1>3, <1>7, InFit
  <2>2. TextOf(In(next).state) = "url" /\ In(next).state \notin Special
    BY <2>1, UrlIsText
  <2>. QED
    BY <1>1, <1>5, <1>7, <2>1, <2>2, TextAdvance, DoKeeps DEF Kept
<1>8. CASE Flush("url", pos - 1, Advance(In("req_http_start"))) \/ Flush("url", pos - 1, Advance(simple))
  BY <1>1, <1>4, <1>5, <1>6, <1>8, FlushAdvance
<1>. QED
  BY <1>1, <1>2, <1>7, <1>8, ErrorKept

LEMMA ReqHttpStartKept == ASSUME ParserInv, ReqHttpStart PROVE Kept
<1>1. InTurn /\ Fit(parser) /\ parser.state = "req_http_start"
  <2>1. At({"req_http_start"})
    BY DEF ReqHttpStart
  <2>. QED
    BY <2>1, InTurnFacts
<1>2. Do(Advance(parser)) \/ Do(Advance(In("req_http_H"))) \/ Do(Advance(In("req_http_I")))
      \/ Do(Error("INVALID_CONSTANT"))
  BY DEF ReqHttpStart
<1>3. ASSUME NEW s PROVE Fit(In(s)) /\ In(s).state = s
  BY <1>1, InFit
<1>. QED
  BY <1>1, <1>2, <1>3, PlainKept, ErrorKept DEF PlainStates

LEMMA ReqHttpEndKept == ASSUME ParserInv, ReqHttpEnd PROVE Kept
<1>1. InTurn /\ Fit(parser) /\ parser.state = "req_http_end"
  BY InTurnFacts DEF ReqHttpEnd
<1>2. Do(Advance(In("req_line_almost_done"))) \/ Do(Advance(In("header_field_start")))
      \/ Do(Error("INVALID_VERSION"))
  BY DEF ReqHttpEnd
<1>3. ASSUME NEW s PROVE Fit(In(s)) /\ In(s).state = s
  BY <1>1, InFit
<1>. QED
  BY <1>1, <1>2, <1>3, PlainKept, ErrorKept DEF PlainStates

LEMMA ReqLineAlmostDoneKept == ASSUME ParserInv, ReqLineAlmostDone PROVE Kept
<1>1. InTurn /\ Fit(parser) /\ parser.state = "req_line_almost_done"
  BY InTurnFacts DEF ReqLineAlmostDone
<1>2. Do(Advance(In("header_field_start"))) \/ Do(Error("LF_EXPECTED"))
  BY DEF ReqLineAlmostDone
<1>3. Fit(In("header_field_start")) /\ In("header_field_start").state = "header_field_start"
  BY <1>1, InFit
<1>. QED
  BY <1>1, <1>2, <1>3, PlainKept, ErrorKept DEF PlainStates

-----------------------------------------------------------------------------
(* Names and values. *)

\* Two parsers in the same place of a message.
Beside(q, r) ==
  /\ q.type = r.type /\ q.state = r.state /\ q.nread = r.nread /\ q.upgrade = r.upgrade
  /\ q.method = r.method
  /\ r.uses_transfer_encoding => q.uses_transfer_encoding
  /\ r.flags \subseteq q.flags

LEMMA NameReadFit ==
  ASSUME NEW q, Fit(q), NEW letters
  PROVE  Fit(NameRead(q, letters)) /\ Beside(NameRead(q, letters), q)
         /\ NameRead(q, letters).flags = q.flags
<1>. DEFINE name == q.matched \o Lower(letters)
            begun == IsPrefix(Spell("transfer-encoding"), name)
            named == [q EXCEPT !.phase = "name", !.matched = name, !.uses_transfer_encoding = @ \/ begun]
<1>1. \/ NameRead(q, letters) = q
      \/ NameRead(q, letters) = [named EXCEPT !.header_state = KindOf[name]]
      \/ NameRead(q, letters) = [named EXCEPT !.header_state = "matching"]
      \/ NameRead(q, letters) = [named EXCEPT !.header_state = "general", !.matched = <<>>]
  BY DEF NameRead
<1>. HIDE DEF name, begun
<1>2. Fit(named) /\ Beside(named, q) /\ named.flags = q.flags
  BY DEF Fit, Beside, ParserFields
<1>. HIDE DEF named
<1>3. ASSUME NEW v, Fit(v), NEW kind
      PROVE  Fit([v EXCEPT !.header_state = kind]) /\ Beside([v EXCEPT !.header_state = kind], v)
             /\ [v EXCEPT !.header_state = kind].flags = v.flags
  BY <1>3 DEF Fit, Beside, ParserFields
<1>4. ASSUME NEW v, Fit(v)
      PROVE  Fit([v EXCEPT !.header_state = "general", !.matched = <<>>])
             /\ Beside([v EXCEPT !.header_state = "general", !.matched = <<>>], v)
             /\ [v EXCEPT !.header_state = "general", !.matched = <<>>].flags = v.flags
  BY <1>4 DEF Fit, Beside, ParserFields
<1>5. CASE NameRead(q, letters) = q
  BY <1>5 DEF Beside
<1>6. ASSUME NEW v, NameRead(q, letters) = v, Fit(v), Beside(v, named), v.flags = named.flags
      PROVE  Fit(NameRead(q, letters)) /\ Beside(NameRead(q, letters), q)
             /\ NameRead(q, letters).flags = q.flags
  BY <1>2, <1>6 DEF Beside
<1>. QED
  BY <1>1, <1>2, <1>3, <1>4, <1>5, <1>6

\* Only the word of one header stands for chunks.
LEMMA WordFlagIs ==
  ASSUME NEW q, WholeWord(q)
  PROVE  /\ q.header_state \in {"connection", "transfer_encoding"}
         /\ WordFlag(q.matched) # "TRAILING"
         /\ WordFlag(q.matched) = "CHUNKED" => q.header_state = "transfer_encoding"
<1>1. q.header_state \in {"connection", "transfer_encoding"} /\ q.matched \in Words[q.header_state]
  BY DEF WholeWord, ListKinds, Words
<1>2. q.matched \in {Spell("keep-alive"), Spell("close"), Spell("upgrade"), Spell("chunked")}
  BY <1>1 DEF Words
<1>3. WordFlag(q.matched) \in {"CONNECTION_KEEP_ALIVE", "CONNECTION_CLOSE", "CONNECTION_UPGRADE", "CHUNKED"}
  BY <1>2 DEF WordFlag
<1>. QED
  BY <1>1, <1>3, CharacterAssumption

LEMMA FinishedFit ==
  ASSUME NEW q, Fit(q)
  PROVE  /\ Fit(Finished(q)) /\ Beside(Finished(q), q)
         /\ "TRAILING" \in Finished(q).flags => "TRAILING" \in q.flags
         /\ "CHUNKED" \in Finished(q).flags => "CHUNKED" \in q.flags \/ q.header_state = "transfer_encoding"
<1>1. \/ Finished(q) = q
      \/ WholeWord(q) /\ Finished(q) = [q EXCEPT !.flags = @ \cup {WordFlag(q.matched)}]
  BY DEF Finished
<1>. QED
  BY <1>1, WordFlagIs DEF Fit, Beside, ParserFields

\* A run of bytes ends at its first stop, or with the buffer.
LEMMA RunEndFacts ==
  ASSUME InTurn, NEW stops
  PROVE  /\ RunEnd(stops) \in pos..call.end + 1
         /\ RunEnd(stops) <= call.end => stops[stream.wire[RunEnd(stops)]]
         /\ \A i \in pos..RunEnd(stops) - 1 : ~stops[stream.wire[i]]
<1>. DEFINE ends == {i \in pos..call.end : stops[stream.wire[i]]}
            First(i) == \A j \in ends : i <= j
            first == CHOOSE i \in ends : First(i)
<1>1. pos \in Nat /\ call.end \in Nat /\ pos <= call.end
  BY DEF InTurn, ParserInv, Keeps, Typed, Within
<1>2. CASE ends = {}
  <2>1. RunEnd(stops) = call.end + 1
    BY <1>2 DEF RunEnd
  <2>. QED
    BY <1>1, <1>2, <2>1
<1>3. CASE ends # {}
  <2>1. RunEnd(stops) = first
    BY <1>3 DEF RunEnd
  <2>2. \E i \in ends : First(i)
    <3>1. ends \in SUBSET Nat
      BY <1>1
    <3>. HIDE DEF ends
    <3>. QED
      BY <1>3, <3>1, LeastNatural
  <2>3. first \in ends /\ First(first)
    <3>. HIDE DEF ends, First
    <3>. QED
      BY <2>2
  <2>. HIDE DEF first
  <2>4. first \in pos..call.end /\ stops[stream.wire[first]] /\ \A j \in ends : first <= j
    BY <2>3
  <2>. QED
    BY <1>1, <2>1, <2>4
<1>. QED
  BY <1>2, <1>3

LEMMA CountedGood ==
  ASSUME NEW o, IsOutcome(o), Typed(o.parser, o.pos, o.call), o.parser.errno = "OK",
         o.parser.state # "chunk_size_start", NEW n \in Nat
  PROVE  LET d == Counted(o, n)
         IN  /\ IsOutcome(d) /\ d.pos = o.pos
             /\ \/ d.call = NoCall /\ d.parser.errno = "HEADER_OVERFLOW" /\ Good(d)
                \/ /\ d.parser = o.parser /\ d.call.end = o.call.end
                   /\ d.call.fetched = o.call.fetched /\ d.call.marks = o.call.marks
                   /\ Typed(d.parser, d.pos, d.call)
                   /\ Sound(o.parser, o.call) => Sound(d.parser, d.call)
                   /\ Good(o) => Good(d)
<1>. DEFINE c == [o.call EXCEPT !.nread = @ + n]
            counted == [o EXCEPT !.call = c]
            over == Leave([counted EXCEPT !.parser.errno = "HEADER_OVERFLOW"])
            e == [o.parser EXCEPT !.errno = "HEADER_OVERFLOW"]
<1>1. Counted(o, n) = counted \/ Counted(o, n) = over
  BY DEF Counted
<1>2. c.nread = o.call.nread + n /\ c.end = o.call.end /\ c.fetched = o.call.fetched
      /\ c.marks = o.call.marks /\ DOMAIN c = DOMAIN o.call
  BY DEF Typed
<1>3. counted.parser = o.parser /\ counted.pos = o.pos /\ counted.call = c /\ IsOutcome(counted)
  BY DEF IsOutcome
<1>4. /\ over.parser = [e EXCEPT !.nread = c.nread] /\ over.pos = o.pos /\ over.call = NoCall
      /\ IsOutcome(over)
  BY DEF IsOutcome, Leave
<1>5. ParserFields \subseteq DOMAIN e /\ e.errno = "HEADER_OVERFLOW" /\ e.content_length \in 0..UllongMax
  BY ErrnoSet DEF Typed
<1>6. c.nread \in Nat /\ o.pos \in Nat \ {0}
  BY <1>2 DEF Typed
<1>. HIDE DEF c, counted, over, e
<1>7. Typed(over.parser, over.pos, over.call) /\ over.parser.errno = "HEADER_OVERFLOW"
  BY <1>4, <1>5, <1>6, NreadSet, NoCallFacts DEF Typed
<1>8. Sound(over.parser, over.call)
  BY <1>7 DEF Sound
<1>9. Good(over)
  BY <1>4, <1>7, <1>8, NoCallKeeps DEF Good, Turn
<1>10. Typed(counted.parser, counted.pos, counted.call)
       /\ (Sound(o.parser, o.call) => Sound(counted.parser, counted.call))
  BY <1>2, <1>3 DEF Typed, Sound
<1>11. Good(o) => Good(counted)
  BY <1>2, <1>3, <1>10 DEF Good, Keeps, Within, Marking, Turn
<1>. QED
  BY <1>1, <1>2, <1>3, <1>4, <1>7, <1>9, <1>10, <1>11

\* A parser within the value of a header.
InValue(v, q) ==
  /\ ParserFields \subseteq DOMAIN v /\ v.content_length \in 0..UllongMax
  /\ Beside(v, q)
  /\ ~(v.header_state \in ListKinds /\ v.phase = "name")
  /\ v.errno \in {"OK", "INVALID_HEADER_TOKEN", "INVALID_CONTENT_LENGTH"}
  /\ v.header_state \in {q.header_state, "general"}
  /\ \A flag \in {"TRAILING", "CHUNKED"} : flag \in v.flags => flag \in q.flags

LEMMA DigitReadFits ==
  ASSUME NEW length \in 0..UllongMax, NEW base \in {10, 16}, NEW digit \in 0..base - 1
  PROVE  DigitRead(length, base, digit) \in 0..UllongMax
<1>1. UllongMax \in Nat /\ UllongMax > 16
  BY ParserAssumption
<1>2. CASE base = 10
  BY <1>1, <1>2 DEF DigitRead
<1>3. CASE base = 16
  BY <1>1, <1>3 DEF DigitRead
<1>. QED
  BY <1>2, <1>3

LEMMA ListKindsAre == ListKinds = {"connection", "transfer_encoding"}
BY DEF ListKinds, Words

LEMMA LengthByteInValue ==
  ASSUME NEW q, NEW v, InValue(v, q), v.header_state = "content_length", NEW c
  PROVE  InValue(LengthByte(v, c), q)
<1>. DEFINE length == DigitRead(v.content_length, 10, DigitValue[c])
<1>1. \/ LengthByte(v, c) = [v EXCEPT !.errno = "INVALID_CONTENT_LENGTH"]
      \/ LengthByte(v, c) = [v EXCEPT !.phase = "ws"]
      \/ c \in Num /\ LengthByte(v, c) = [v EXCEPT !.content_length = length]
  BY DEF LengthByte
<1>2. c \in Num => length \in 0..UllongMax
  <2>. SUFFICES ASSUME c \in Num PROVE length \in 0..UllongMax
    OBVIOUS
  <2>1. DigitValue[c] \in 0..10 - 1 /\ v.content_length \in 0..UllongMax
    BY CharacterAssumption DEF InValue
  <2>. QED
    BY <2>1, DigitReadFits
<1>. HIDE DEF length
<1>3. v.header_state \notin ListKinds
  BY ListKindsAre
<1>4. ParserFields \subseteq DOMAIN v
  BY DEF InValue
<1>5. CASE LengthByte(v, c) = [v EXCEPT !.errno = "INVALID_CONTENT_LENGTH"]
  BY <1>3, <1>4, <1>5 DEF InValue, Beside, ParserFields
<1>6. CASE LengthByte(v, c) = [v EXCEPT !.phase = "ws"]
  BY <1>3, <1>4, <1>6 DEF InValue, Beside, ParserFields
<1>7. CASE c \in Num /\ LengthByte(v, c) = [v EXCEPT !.content_length = length]
  BY <1>2, <1>3, <1>4, <1>7 DEF InValue, Beside, ParserFields
<1>. QED
  BY <1>1, <1>5, <1>6, <1>7

LEMMA ListByteInValue ==
  ASSUME NEW q, NEW v, InValue(v, q), NEW c
  PROVE  InValue(ListByte(v, c), q)
<1>. DEFINE word == Append(v.matched, LowerOf(c))
            first == <<LowerOf(c)>>
            in(phase) == [v EXCEPT !.phase = phase]
            flag == WordFlag(v.matched)
<1>1. \/ ListByte(v, c) = v
      \/ ListByte(v, c) = in("token")
      \/ ListByte(v, c) = in("start")
      \/ ListByte(v, c) = [in("word") EXCEPT !.matched = first]
      \/ ListByte(v, c) = [v EXCEPT !.header_state = "general"]
      \/ /\ ListByte(v, c) = [in("start") EXCEPT !.flags = @ \cup {flag}]
         /\ WholeWord(v) /\ v.header_state = "connection"
      \/ ListByte(v, c) = [v EXCEPT !.matched = word]
  <2>. DEFINE kind == v.header_state
              one == v.phase = "start"
              two == v.phase = "token"
              three == WholeWord(v)
  <2>1. ListByte(v, c) =
          CASE one -> IF Begins(kind, first) THEN [in("word") EXCEPT !.matched = first]
                      ELSE IF c \in LowerToken THEN in("token")
                      ELSE IF c = " " THEN v
                      ELSE [v EXCEPT !.header_state = "general"]
            [] two -> IF c = "," THEN in("start") ELSE v
            [] three -> IF c = " " THEN v
                        ELSE IF c = "," /\ kind = "connection"
                        THEN [in("start") EXCEPT !.flags = @ \cup {flag}]
                        ELSE in("token")
            [] OTHER -> IF Begins(kind, word) THEN [v EXCEPT !.matched = word] ELSE in("token")
    BY Zenon DEF ListByte
  <2>2. \/ one /\ ~two /\ ~three
        \/ ~one /\ two /\ ~three
        \/ ~one /\ ~two /\ three
        \/ ~one /\ ~two /\ ~three
    BY DEF WholeWord
  <2>. HIDE DEF word, first, flag, in, one, two
  <2>. HIDE DEF three
  <2>3. kind = v.header_state /\ (three => WholeWord(v))
    BY DEF three
  <2>. HIDE DEF kind
  <2>. QED
    BY <2>1, <2>2, <2>3
<1>2. ParserFields \subseteq DOMAIN v
  BY DEF InValue
<1>9. WholeWord(v) /\ v.header_state = "connection" => flag \notin {"CHUNKED", "TRAILING"}
  BY WordFlagIs
<1>. HIDE DEF word, first, flag
<1>3. ASSUME NEW ph \in {"token", "start", "word"}
      PROVE  InValue(in(ph), q) /\ ParserFields \subseteq DOMAIN in(ph) /\ in(ph).phase = ph
  BY <1>2 DEF InValue, Beside, ParserFields
<1>. HIDE DEF in
<1>4. CASE ListByte(v, c) = [in("word") EXCEPT !.matched = first]
  <2>. DEFINE u == in("word")
  <2>1. InValue(u, q) /\ ParserFields \subseteq DOMAIN u /\ ListByte(v, c) = [u EXCEPT !.matched = first]
    BY <1>3, <1>4
  <2>. HIDE DEF u
  <2>. QED
    BY <2>1 DEF InValue, Beside, ParserFields
<1>5. CASE ListByte(v, c) = [in("start") EXCEPT !.flags = @ \cup {flag}] /\ flag \notin {"CHUNKED", "TRAILING"}
  <2>. DEFINE u == in("start")
  <2>1. InValue(u, q) /\ ParserFields \subseteq DOMAIN u
        /\ ListByte(v, c) = [u EXCEPT !.flags = @ \cup {flag}]
    BY <1>3, <1>5
  <2>. HIDE DEF u
  <2>. DEFINE next == [u EXCEPT !.flags = @ \cup {flag}]
  <2>2. next.flags = u.flags \cup {flag} /\ ParserFields \subseteq DOMAIN next
        /\ \A f \in ParserFields \ {"flags"} : next[f] = u[f]
    BY <2>1 DEF ParserFields
  <2>3. \A f \in {"TRAILING", "CHUNKED"} : f \in next.flags => f \in q.flags
    BY <1>5, <2>1, <2>2 DEF InValue
  <2>4. InValue(next, q)
    <3>. HIDE DEF next
    <3>. QED
      BY <2>1, <2>2, <2>3 DEF InValue, Beside, ParserFields
  <2>. QED
    BY <2>1, <2>4
<1>6. CASE ListByte(v, c) = [v EXCEPT !.header_state = "general"]
  BY <1>2, <1>6, ListKindsAre DEF InValue, Beside, ParserFields
<1>7. CASE ListByte(v, c) = [v EXCEPT !.matched = word]
  BY <1>2, <1>7 DEF InValue, Beside, ParserFields
<1>. QED
  BY <1>1, <1>3, <1>4, <1>5, <1>6, <1>7, <1>9

LEMMA ValueByteInValue ==
  ASSUME NEW q, NEW v, InValue(v, q), NEW c
  PROVE  InValue(ValueByte(v, c), q)
<1>1. \/ ValueByte(v, c) = v
      \/ ValueByte(v, c) = [v EXCEPT !.errno = "INVALID_HEADER_TOKEN"]
      \/ v.header_state = "content_length" /\ ValueByte(v, c) = LengthByte(v, c)
      \/ ValueByte(v, c) = ListByte(v, c)
  BY DEF ValueByte
<1>2. CASE ValueByte(v, c) = [v EXCEPT !.errno = "INVALID_HEADER_TOKEN"]
  BY <1>2 DEF InValue, Beside, ParserFields
<1>. QED
  BY <1>1, <1>2, LengthByteInValue, ListByteInValue

\* The one value that ValueByte has for the value that before has.
ByteTurned(before, byte) == CHOOSE v \in {ValueByte(x, byte) : x \in {before}} : TRUE

LEMMA ByteTurnedIs ==
  ASSUME NEW before, NEW byte
  PROVE  ByteTurned(before, byte) = ValueByte(before, byte)
<1>. DEFINE value == ValueByte(before, byte)
<1>1. {ValueByte(x, byte) : x \in {before}} = {value}
  OBVIOUS
<1>. HIDE DEF value
<1>2. ByteTurned(before, byte) = CHOOSE v \in {value} : TRUE
  BY <1>1 DEF ByteTurned
<1>. QED
  BY <1>2 DEF value

\* The function that ValueRead defines, on the first n bytes.
IsReading(after, q, bytes, n) ==
  after = [i \in 0..n |-> IF i = 0 THEN q ELSE ByteTurned(after[i - 1], bytes[i])]

Reading(q, bytes) == CHOOSE after : IsReading(after, q, bytes, Len(bytes))

LEMMA ValueReadIs ==
  ASSUME NEW q, NEW bytes
  PROVE  \/ ValueRead(q, bytes) = Reading(q, bytes)[Len(bytes)]
         \/ ValueRead(q, bytes) = q
         \/ ValueRead(q, bytes) = [q EXCEPT !.errno = "INVALID_HEADER_TOKEN"]
BY Zenon DEF ValueRead, Reading, IsReading, ByteTurned

LEMMA ReadingExists ==
  ASSUME NEW q, NEW bytes, Len(bytes) \in Nat
  PROVE  IsReading(Reading(q, bytes), q, bytes, Len(bytes))
<1>. DEFINE Defined == {n \in Nat : \E after : IsReading(after, q, bytes, n)}
<1>1. 0 \in Defined
  <2>1. IsReading([i \in 0..0 |-> q], q, bytes, 0)
    BY DEF IsReading
  <2>. QED
    BY <2>1
<1>2. \A n \in Nat : n \in Defined => n + 1 \in Defined
  <2>. SUFFICES ASSUME NEW n \in Nat, NEW after, IsReading(after, q, bytes, n)
                PROVE  \E next : IsReading(next, q, bytes, n + 1)
    OBVIOUS
  <2>. DEFINE last == ByteTurned(after[n], bytes[n + 1])
              next == [i \in 0..n + 1 |-> IF i = n + 1 THEN last ELSE after[i]]
              rule(f, i) == IF i = 0 THEN q ELSE ByteTurned(f[i - 1], bytes[i])
  <2>1. \A i \in 0..n : after[i] = rule(after, i)
    BY DEF IsReading
  <2>2. ASSUME NEW i \in 0..n + 1 PROVE next[i] = rule(next, i)
    <3>1. CASE i = n + 1
      <4>1. i # 0 /\ i - 1 = n /\ next[i - 1] = after[n] /\ next[i] = last
        BY <3>1
      <4>. HIDE DEF next
      <4>. QED
        BY <3>1, <4>1
    <3>2. CASE i # n + 1
      <4>1. i \in 0..n /\ next[i] = after[i] /\ (i # 0 => next[i - 1] = after[i - 1])
        BY <3>2
      <4>. HIDE DEF next
      <4>. QED
        BY <2>1, <4>1
    <3>. QED
      BY <3>1, <3>2
  <2>3. next = [i \in 0..n + 1 |-> rule(next, i)]
    BY <2>2
  <2>. HIDE DEF next
  <2>4. IsReading(next, q, bytes, n + 1)
    BY <2>3 DEF IsReading
  <2>. QED
    BY <2>4
<1>. HIDE DEF Defined
<1>3. Len(bytes) \in Defined
  BY <1>1, <1>2, Induction
<1>4. \E after : IsReading(after, q, bytes, Len(bytes))
  BY <1>3 DEF Defined
<1>. QED
  BY <1>4 DEF Reading

LEMMA ValueReadInValue ==
  ASSUME NEW q, InValue(q, q), NEW bytes, Len(bytes) \in Nat
  PROVE  InValue(ValueRead(q, bytes), q)
<1>. DEFINE after == Reading(q, bytes)
            Kind == {n \in Nat : n <= Len(bytes) => InValue(after[n], q)}
<1>1. \A i \in 0..Len(bytes) : after[i] = IF i = 0 THEN q ELSE ByteTurned(after[i - 1], bytes[i])
  BY ReadingExists DEF IsReading
<1>. HIDE DEF after
<1>2. 0 \in Kind
  BY <1>1
<1>3. \A n \in Nat : n \in Kind => n + 1 \in Kind
  <2>. SUFFICES ASSUME NEW n \in Nat, n \in Kind, n + 1 <= Len(bytes) PROVE InValue(after[n + 1], q)
    OBVIOUS
  <2>1. n + 1 \in 0..Len(bytes) /\ n + 1 # 0 /\ n + 1 - 1 = n /\ InValue(after[n], q)
    OBVIOUS
  <2>2. after[n + 1] = ByteTurned(after[n], bytes[n + 1])
    BY <1>1, <2>1
  <2>. QED
    BY <2>1, <2>2, ByteTurnedIs, ValueByteInValue
<1>4. Len(bytes) \in Kind
  <2>. HIDE DEF Kind
  <2>. QED
    BY <1>2, <1>3, Induction
<1>5. InValue(after[Len(bytes)], q)
  BY <1>4
<1>6. InValue([q EXCEPT !.errno = "INVALID_HEADER_TOKEN"], q)
  BY DEF InValue, Beside, ParserFields
<1>. QED
  BY <1>5, <1>6, ValueReadIs DEF after

-----------------------------------------------------------------------------
(* The cases of headers. *)

LEMMA HeaderFieldStartKept == ASSUME ParserInv, HeaderFieldStart PROVE Kept
<1>. DEFINE begun == [In("header_field") EXCEPT !.header_state = "matching", !.matched = <<>>]
            q == NameRead(begun, <<ch>>)
<1>1. InTurn /\ Fit(parser) /\ parser.state = "header_field_start"
  <2>1. At({"header_field_start"})
    BY DEF HeaderFieldStart
  <2>. QED
    BY <2>1, InTurnFacts
<1>2. \/ Do(Advance(In("headers_almost_done"))) \/ Do(Again(In("headers_almost_done")))
      \/ Do(Error("INVALID_HEADER_TOKEN"))
      \/ Do(Marked(Advance(q), "header_field"))
  BY DEF HeaderFieldStart
<1>3. Fit(In("headers_almost_done")) /\ In("headers_almost_done").state = "headers_almost_done"
  BY <1>1, InFit
<1>4. Fit(begun) /\ begun.state = "header_field"
  BY <1>1, InFit DEF Fit, ParserFields
<1>. HIDE DEF begun
<1>5. Fit(q) /\ q.state = "header_field"
  BY <1>4, NameReadFit DEF Beside
<1>. HIDE DEF q
<1>6. "header_field_start" \in PlainStates /\ "headers_almost_done" \in PlainStates
  BY DEF PlainStates
<1>7. CASE Do(Marked(Advance(q), "header_field"))
  <2>1. TextOf(q.state) = "header_field" /\ q.state \notin Special /\ "header_field" \in DataCallbacks
    BY <1>5 DEF TextOf, MarkOf, UrlStates, ServerStates, Special, ChunkStates, DataCallbacks
  <2>2. TextOf(parser.state) = "none"
    BY <1>1, <1>6, PlainIsPlain
  <2>3. IsOutcome(Advance(q)) /\ Good(Advance(q)) /\ Advance(q).parser = q
        /\ Advance(q).call.marks = call.marks
    BY <1>1, <1>5, <2>1, <2>2, TextAdvance
  <2>4. Good(Marked(Advance(q), "header_field"))
    BY <1>1, <2>1, <2>2, <2>3, MarkedGood
  <2>. QED
    BY <1>7, <2>4, DoKeeps DEF Kept
<1>8. CASE Do(Again(In("headers_almost_done")))
  BY <1>1, <1>3, <1>6, <1>8, AgainKept, LaterStates
<1>. QED
  BY <1>1, <1>2, <1>3, <1>6, <1>7, <1>8, PlainKept, ErrorKept

\* A text goes on to the end of the buffer.
LEMMA CountedKept ==
  ASSUME InTurn, NEW q, Fit(q), q.state = parser.state, q.state # "chunk_size_start",
         TextOf(q.state) # "body", Sound(q, [call EXCEPT !.fetched = FALSE]),
         NEW to \in Nat, pos < to, to <= call.end + 1,
         Do(Counted(AdvanceTo(q, to), to - 1 - pos))
  PROVE  Kept
<1>. DEFINE o == AdvanceTo(q, to)
            n == to - 1 - pos
<1>1. IsOutcome(o) /\ Good(o) /\ o.parser = q
  BY AdvanceToGood DEF Fit, AdvanceTo
<1>2. n \in Nat
  BY DEF InTurn, ParserInv, Keeps, Typed
<1>. HIDE DEF o, n
<1>3. Good(Counted(o, n))
  BY <1>1, <1>2, CountedGood DEF Fit, Good, Keeps
<1>. QED
  BY <1>3, DoKeeps DEF o, n, Kept

LEMMA NameIsText ==
  /\ TextOf("header_field") = "header_field" /\ "header_field" \notin Special
  /\ TextOf("header_value") = "header_value"
  /\ "header_field" \in DataCallbacks /\ "header_value" \in DataCallbacks
BY DEF TextOf, MarkOf, UrlStates, ServerStates, Special, ChunkStates, DataCallbacks

LEMMA HeaderFieldKept == ASSUME ParserInv, HeaderField PROVE Kept
<1>. DEFINE stops == [c \in AllChar |-> c \notin TokenChar]
            p == RunEnd(stops)
            q == NameRead(parser, SubSeq(stream.wire, pos, p - 1))
            at == [q EXCEPT !.state = "header_value_discard_ws"]
            n == p - pos
            over == AdvanceTo(at, p + 1)
            o == Counted(over, n)
<1>1. InTurn /\ Fit(parser) /\ parser.state = "header_field"
  <2>1. At({"header_field"})
    BY DEF HeaderField
  <2>. QED
    BY <2>1, InTurnFacts
<1>2. \/ p > call.end /\ Do(Counted(AdvanceTo(q, p), p - 1 - pos))
      \/ ~(p > call.end) /\ o.call = NoCall /\ Do(o)
      \/ Do(Error("INVALID_HEADER_TOKEN"))
      \/ ~(p > call.end) /\ o.call # NoCall /\ Flush("header_field", p - 1, o)
  BY DEF HeaderField
<1>3. p \in pos..call.end + 1 /\ pos \in Nat /\ call.end \in Nat /\ pos <= call.end
  <2>. HIDE DEF stops
  <2>. QED
    BY <1>1, RunEndFacts DEF InTurn, ParserInv, Keeps, Typed, Within
<1>. HIDE DEF p
<1>4. Fit(q) /\ q.state = "header_field"
  BY <1>1, NameReadFit DEF Beside
<1>. HIDE DEF q
<1>5. Fit(at) /\ at.state = "header_value_discard_ws"
  BY <1>4 DEF Fit, ParserFields
<1>. HIDE DEF at
<1>6. CASE p > call.end /\ Do(Counted(AdvanceTo(q, p), p - 1 - pos))
  <2>1. pos < p /\ p <= call.end + 1 /\ p \in Nat
    BY <1>3, <1>6
  <2>2. Sound(q, [call EXCEPT !.fetched = FALSE])
    BY <1>4, NameIsText, PlainSound
  <2>. QED
    BY <1>1, <1>4, <1>6, <2>1, <2>2, CountedKept, NameIsText
<1>7. CASE ~(p > call.end)
  <2>1. n \in Nat /\ p + 1 \in Nat /\ pos < p + 1 /\ p + 1 <= call.end + 1
    BY <1>3, <1>7
  <2>. DEFINE c == [call EXCEPT !.fetched = FALSE]
  <2>2. over.parser = at /\ over.pos = p + 1 /\ over.call = c /\ IsOutcome(over)
    BY DEF AdvanceTo, IsOutcome
  <2>3. Typed(at, p + 1, c) /\ c.end = call.end /\ c.marks = call.marks /\ c.fetched = FALSE
    BY <1>1, <1>5, <2>1 DEF InTurn, ParserInv, Keeps, Typed, Fit
  <2>. HIDE DEF c, over, n
  <2>4. Sound(at, c) /\ at.state # "chunk_size_start"
    <3>1. at.state \in PlainStates
      BY <1>5 DEF PlainStates
    <3>. QED
      BY <1>5, <3>1, PlainIsPlain, PlainSound
  <2>5. /\ IsOutcome(o) /\ o.pos = p + 1
        /\ \/ o.call = NoCall /\ Good(o)
           \/ /\ o.parser = at /\ o.call.end = call.end /\ o.call.fetched = FALSE
              /\ o.call.marks = call.marks /\ Typed(o.parser, o.pos, o.call) /\ Sound(o.parser, o.call)
    BY <1>5, <2>1, <2>2, <2>3, <2>4, CountedGood DEF Fit
  <2>. HIDE DEF o
  <2>6. CASE o.call = NoCall /\ Do(o)
    <3>1. Good(o)
      <4>1. NoCall.end # call.end
        BY <1>1, NoCallFacts DEF InTurn, Running
      <4>. QED
        BY <2>5, <2>6, <4>1
    <3>. QED
      BY <2>6, <3>1, DoKeeps DEF Kept
  <2>7. CASE o.call # NoCall /\ Flush("header_field", p - 1, o)
    <3>1. Within(o.parser, o.pos, o.call) /\ Turn(o.parser, o.pos, o.call)
      BY <1>1, <1>3, <1>5, <2>1, <2>5, <2>7 DEF Within, Turn, Fit, InTurn, Running
    <3>. QED
      BY <1>1, <1>5, <2>5, <2>7, <3>1, FlushKeeps, NameIsText DEF Kept, Fit
  <2>. QED
    BY <1>1, <1>2, <1>7, <2>6, <2>7, ErrorKept
<1>. QED
  BY <1>1, <1>2, <1>6, <1>7, ErrorKept

\* A parser that has read the first byte of a value.
ValueBegun(v) ==
  /\ Fit(v) /\ v.state = "header_value"
  /\ ~(v.header_state \in ListKinds /\ v.phase = "name")
  /\ v.type = parser.type /\ v.method = parser.method
  /\ v.uses_transfer_encoding = parser.uses_transfer_encoding
  /\ v.header_state \in {parser.header_state, "general"}
  /\ parser.flags \subseteq v.flags /\ v.flags \subseteq parser.flags \cup {"UPGRADE", "CONTENTLENGTH"}
  /\ parser.header_state = "content_length" /\ parser.phase = "name" => "CONTENTLENGTH" \in v.flags

LEMMA ValueStartIs ==
  ASSUME Fit(parser), NEW c
  PROVE  \/ ValueStart(c) \in {Error("INVALID_CONTENT_LENGTH"), Error("UNEXPECTED_CONTENT_LENGTH")}
         \/ \E v : ValueStart(c) = Advance(v) /\ ValueBegun(v)
<1>. DEFINE q == In("header_value")
            begins == Begins(q.header_state, <<LowerOf(c)>>)
            first == <<LowerOf(c)>>
            upgrade == [q EXCEPT !.flags = @ \cup {"UPGRADE"}, !.header_state = "general"]
            list(phase) == [q EXCEPT !.phase = phase, !.matched = first]
            length == [q EXCEPT !.flags = @ \cup {"CONTENTLENGTH"}, !.phase = "num",
                                !.content_length = DigitValue[c]]
            general == [q EXCEPT !.header_state = "general"]
            numbers == q.header_state = "content_length" /\ q.phase = "name"
<1>1. \/ ValueStart(c) \in {Error("INVALID_CONTENT_LENGTH"), Error("UNEXPECTED_CONTENT_LENGTH")}
      \/ c \in Num /\ q.header_state = "content_length" /\ ValueStart(c) = Advance(length)
      \/ /\ ~numbers
         /\ \/ ValueStart(c) = Advance(upgrade)
            \/ ValueStart(c) = Advance(list("word")) \/ ValueStart(c) = Advance(list("token"))
            \/ ValueStart(c) = Advance(q) /\ (q.header_state = "content_length" \/ q.phase = "start")
            \/ ValueStart(c) = Advance(general)
  <2>. DEFINE kind == q.header_state
              one == kind = "upgrade"
              two == kind \in ListKinds /\ q.phase = "name"
              three == kind = "content_length" /\ q.phase = "name"
              four == \/ kind = "content_length" /\ q.phase = "ws"
                      \/ kind \in ListKinds /\ q.phase = "start"
  <2>. HIDE DEF q
  <2>1. ValueStart(c) =
          CASE one -> Advance(upgrade)
            [] two -> Advance(list(IF begins THEN "word" ELSE "token"))
            [] three -> IF c \notin Num THEN Error("INVALID_CONTENT_LENGTH")
                        ELSE IF "CONTENTLENGTH" \in q.flags THEN Error("UNEXPECTED_CONTENT_LENGTH")
                        ELSE Advance(length)
            [] four -> Advance(q)
            [] OTHER -> Advance(general)
    BY Zenon DEF ValueStart, q
  <2>2. \/ one /\ ~two /\ ~three /\ ~four
        \/ ~one /\ two /\ ~three /\ ~four
        \/ ~one /\ ~two /\ three /\ ~four
        \/ ~one /\ ~two /\ ~three /\ four
        \/ ~one /\ ~two /\ ~three /\ ~four
    BY ListKindsAre
  <2>. HIDE DEF upgrade, list, length, general, begins
  <2>. QED
    BY <2>1, <2>2
<1>2. /\ Fit(q) /\ q.state = "header_value" /\ q.type = parser.type /\ q.method = parser.method
      /\ q.uses_transfer_encoding = parser.uses_transfer_encoding /\ q.flags = parser.flags
      /\ q.header_state = parser.header_state /\ q.phase = parser.phase
  BY InFit
<1>. HIDE DEF q, begins, first
<1>3. ~numbers => ValueBegun(upgrade) /\ ValueBegun(general)
  BY <1>2, ListKindsAre DEF ValueBegun, Fit, ParserFields
<1>4. ASSUME NEW ph \in {"word", "token"}, ~numbers PROVE ValueBegun(list(ph))
  BY <1>2, <1>4 DEF ValueBegun, Fit, ParserFields
<1>5. ASSUME c \in Num, q.header_state = "content_length" PROVE ValueBegun(length)
  <2>1. DigitValue[c] \in 0..UllongMax
    BY <1>5, CharacterAssumption, ParserAssumption
  <2>. QED
    BY <1>2, <1>5, <2>1, ListKindsAre DEF ValueBegun, Fit, ParserFields
<1>6. ASSUME q.header_state = "content_length" \/ q.phase = "start", ~numbers PROVE ValueBegun(q)
  BY <1>2, <1>6, ListKindsAre DEF ValueBegun
<1>. HIDE DEF upgrade, list, length, general, numbers
<1>. QED
  BY <1>1, <1>3, <1>4, <1>5, <1>6

LEMMA ValueBegunKept ==
  ASSUME InTurn, Fit(parser), parser.state \in PlainStates, NEW c,
         Do(IF ValueStart(c).call = NoCall THEN ValueStart(c) ELSE Marked(ValueStart(c), "header_value"))
  PROVE  Kept
<1>. DEFINE o == ValueStart(c)
<1>1. CASE o = Error("INVALID_CONTENT_LENGTH") \/ o = Error("UNEXPECTED_CONTENT_LENGTH")
  <2>1. o.call = NoCall
    BY <1>1 DEF Error, Return, Leave, AdvanceTo
  <2>2. Do(o)
    BY <2>1
  <2>. HIDE DEF o
  <2>. QED
    BY <1>1, <2>2, ErrorKept
<1>2. CASE \E v : o = Advance(v) /\ ValueBegun(v)
  <2>1. PICK v : o = Advance(v) /\ ValueBegun(v)
    BY <1>2
  <2>2. TextOf(parser.state) = "none" /\ TextOf(v.state) = "header_value"
    BY <2>1, PlainIsPlain, NameIsText DEF ValueBegun
  <2>3. Sound(v, [call EXCEPT !.fetched = FALSE])
    BY <2>1 DEF ValueBegun, Sound, ChunkStates
  <2>4. IsOutcome(o) /\ Good(o) /\ o.parser = v
    <3>1. Fit(v) /\ v.state = "header_value"
      BY <2>1 DEF ValueBegun
    <3>2. IsOutcome(Advance(v)) /\ Good(Advance(v))
      BY <2>2, <2>3, <3>1, AdvanceGood DEF Fit
    <3>3. Advance(v).parser = v
      BY DEF Advance, AdvanceTo
    <3>. QED
      BY <2>1, <3>2, <3>3
  <2>5. o.call = [call EXCEPT !.fetched = FALSE]
    BY <2>1 DEF Advance, AdvanceTo
  <2>6. o.call.marks = call.marks /\ o.call # NoCall
    BY <2>5, NoCallFacts DEF InTurn, ParserInv, Keeps, Typed, Running
  <2>. HIDE DEF o
  <2>7. Do(Marked(o, "header_value"))
    BY <2>6 DEF o
  <2>8. Good(Marked(o, "header_value"))
    BY <2>2, <2>4, <2>6, MarkedGood, NameIsText
  <2>. QED
    BY <2>7, <2>8, DoKeeps DEF Kept
<1>. QED
  BY <1>1, <1>2, ValueStartIs

LEMMA HeaderValueDiscardWsKept == ASSUME ParserInv, HeaderValueDiscardWs PROVE Kept
<1>. DEFINE o == ValueStart(ch)
            begun == IF o.call = NoCall THEN o ELSE Marked(o, "header_value")
<1>1. InTurn /\ Fit(parser) /\ parser.state = "header_value_discard_ws"
  <2>1. At({"header_value_discard_ws"})
    BY DEF HeaderValueDiscardWs
  <2>. QED
    BY <2>1, InTurnFacts
<1>2. \/ Do(Advance(parser)) \/ Do(Advance(In("header_value_discard_ws_almost_done")))
      \/ Do(Advance(In("header_value_discard_lws"))) \/ Do(begun)
  BY DEF HeaderValueDiscardWs
<1>3. ASSUME NEW s PROVE Fit(In(s)) /\ In(s).state = s
  BY <1>1, InFit
<1>4. {"header_value_discard_ws", "header_value_discard_ws_almost_done", "header_value_discard_lws"}
        \subseteq PlainStates
  BY DEF PlainStates
<1>. HIDE DEF begun
<1>5. CASE Do(begun)
  BY <1>1, <1>4, <1>5, ValueBegunKept DEF begun
<1>. QED
  BY <1>1, <1>2, <1>3, <1>4, <1>5, PlainKept

LEMMA HeaderValueStartKept == ASSUME ParserInv, HeaderValueStart PROVE Kept
<1>1. InTurn /\ Fit(parser) /\ parser.state = "header_value_start"
  <2>1. At({"header_value_start"})
    BY DEF HeaderValueStart
  <2>. QED
    BY <2>1, InTurnFacts
<1>2. Do(IF ValueStart(ch).call = NoCall THEN ValueStart(ch) ELSE Marked(ValueStart(ch), "header_value"))
  BY DEF HeaderValueStart
<1>3. parser.state \in PlainStates
  BY <1>1 DEF PlainStates
<1>. QED
  BY <1>1, <1>2, <1>3, ValueBegunKept

LEMMA HeaderAlmostDoneKept == ASSUME ParserInv, HeaderAlmostDone PROVE Kept
<1>1. InTurn /\ Fit(parser) /\ parser.state = "header_almost_done"
  <2>1. At({"header_almost_done"})
    BY DEF HeaderAlmostDone
  <2>. QED
    BY <2>1, InTurnFacts
<1>2. Do(Advance(In("header_value_lws"))) \/ Do(Error("LF_EXPECTED"))
  BY DEF HeaderAlmostDone
<1>3. Fit(In("header_value_lws")) /\ In("header_value_lws").state = "header_value_lws"
  BY <1>1, InFit
<1>. QED
  BY <1>1, <1>2, <1>3, PlainKept, ErrorKept DEF PlainStates

LEMMA HeaderValueLwsKept == ASSUME ParserInv, HeaderValueLws PROVE Kept
<1>. DEFINE folds == parser.header_state = "content_length"
            folded == [In("header_value_start") EXCEPT
                         !.phase = IF parser.header_state = "content_length" /\ @ = "num" THEN "ws" ELSE @]
            next == [Finished(parser) EXCEPT !.state = "header_field_start"]
<1>1. InTurn /\ Fit(parser) /\ parser.state = "header_value_lws"
  <2>1. At({"header_value_lws"})
    BY DEF HeaderValueLws
  <2>. QED
    BY <2>1, InTurnFacts
<1>2. Do(Again(folded)) \/ Do(Again(next))
  BY DEF HeaderValueLws
<1>3. Fit(folded) /\ folded.state = "header_value_start"
  <2>. DEFINE q == In("header_value_start")
  <2>1. Fit(q) /\ q.state = "header_value_start"
    BY <1>1, InFit
  <2>2. folded = [q EXCEPT !.phase = IF folds /\ q.phase = "num" THEN "ws" ELSE q.phase]
    OBVIOUS
  <2>. HIDE DEF q, folds, folded
  <2>. QED
    BY <2>1, <2>2 DEF Fit, ParserFields
<1>4. Fit(next) /\ next.state = "header_field_start"
  <2>1. Fit(Finished(parser))
    BY <1>1, FinishedFit
  <2>. QED
    BY <2>1 DEF Fit, ParserFields
<1>. HIDE DEF folded, next
<1>5. {"header_value_lws", "header_value_start", "header_field_start"} \subseteq PlainStates
  BY DEF PlainStates
<1>. QED
  BY <1>1, <1>2, <1>3, <1>4, <1>5, AgainKept, LaterStates

LEMMA HeaderValueDiscardLwsKept == ASSUME ParserInv, HeaderValueDiscardLws PROVE Kept
<1>. DEFINE next == [Finished(parser) EXCEPT !.state = "header_field_start"]
<1>1. InTurn /\ Fit(parser) /\ parser.state = "header_value_discard_lws"
  <2>1. At({"header_value_discard_lws"})
    BY DEF HeaderValueDiscardLws
  <2>. QED
    BY <2>1, InTurnFacts
<1>2. \/ Do(Advance(In("header_value_discard_ws"))) \/ Do(Error("INVALID_CONTENT_LENGTH"))
      \/ Callback("header_value", <<>>, Again(next))
  BY DEF HeaderValueDiscardLws
<1>3. Fit(next) /\ next.state = "header_field_start"
  <2>1. Fit(Finished(parser))
    BY <1>1, FinishedFit
  <2>. QED
    BY <2>1 DEF Fit, ParserFields
<1>4. {"header_value_discard_lws", "header_value_discard_ws", "header_field_start"} \subseteq PlainStates
  BY DEF PlainStates
<1>5. Fit(In("header_value_discard_ws")) /\ In("header_value_discard_ws").state = "header_value_discard_ws"
  BY <1>1, InFit
<1>. HIDE DEF next
<1>6. CASE Callback("header_value", <<>>, Again(next))
  <2>1. TextOf(parser.state) = "none" /\ Sound(next, call)
    BY <1>1, <1>3, <1>4, PlainIsPlain, PlainSound
  <2>2. IsOutcome(Again(next)) /\ Good(Again(next)) /\ Again(next).parser.errno = "OK"
    BY <1>1, <1>3, <2>1, AgainGood, LaterStates
  <2>. QED
    BY <1>6, <2>2, CallbackKeeps DEF Kept, Callbacks, DataCallbacks
<1>. QED
  BY <1>1, <1>2, <1>4, <1>5, <1>6, PlainKept, ErrorKept

\* A text ends with a byte that is handed over before it is counted.
LEMMA FlushThenCountedKept ==
  ASSUME InTurn, NEW cb \in DataCallbacks, TextOf(parser.state) = cb, NEW last, NEW n \in Nat,
         NEW q, Fit(q), q.state \in PlainStates, NEW to \in Nat, pos < to, to <= call.end + 1,
         LET Count(o) == Counted(o, n) IN FlushThen(cb, last, AdvanceTo(q, to), Count)
  PROVE  Kept
<1>. DEFINE o == AdvanceTo(q, to)
            c == [call EXCEPT !.fetched = FALSE]
            data == SubSeq(stream.wire, call.marks[cb], last)
            cleared == [o EXCEPT !.call.marks[cb] = 0]
            d == [c EXCEPT !.marks[cb] = 0]
<1>1. \/ call.marks[cb] = 0 /\ Do(Counted(o, n))
      \/ Ends(Counted(cleared, n)) \/ Interrupted(cleared, cb)
  BY DEF FlushThen, CallbackThen, Interrupted
<1>2. o.parser = q /\ o.pos = to /\ o.call = c /\ IsOutcome(o)
  BY DEF AdvanceTo, IsOutcome
<1>3. Typed(q, to, c) /\ c.end = call.end /\ c.marks = call.marks /\ c.fetched = FALSE
  BY DEF InTurn, ParserInv, Keeps, Typed, Fit
<1>4. cleared.parser = q /\ cleared.pos = to /\ cleared.call = d /\ IsOutcome(cleared)
  BY <1>2 DEF IsOutcome
<1>5. Typed(q, to, d) /\ d.end = call.end /\ d.marks = [call.marks EXCEPT ![cb] = 0] /\ d.fetched = FALSE
  BY <1>3 DEF Typed
<1>. HIDE DEF c, d, o, cleared
<1>6. Within(q, to, c) /\ Within(q, to, d) /\ Turn(q, to, c) /\ Turn(q, to, d)
  BY <1>3, <1>5 DEF InTurn, ParserInv, Keeps, Typed, Within, Turn, Running, Fit
<1>7. Sound(q, c) /\ Sound(q, d) /\ q.state # "chunk_size_start"
  BY PlainIsPlain, PlainSound DEF Special, ChunkStates
<1>8. Marking(q, to, d) /\ (call.marks[cb] = 0 => Marking(q, to, c))
  BY <1>3, <1>5 DEF InTurn, ParserInv, Keeps, Typed, Marking
<1>9. Good(cleared) /\ (call.marks[cb] = 0 => Good(o))
  BY <1>2, <1>3, <1>4, <1>5, <1>6, <1>7, <1>8 DEF Good, Keeps
<1>10. Good(Counted(cleared, n))
  BY <1>4, <1>5, <1>7, <1>9, CountedGood DEF Fit
<1>11. call.marks[cb] = 0 => Good(Counted(o, n))
  BY <1>2, <1>3, <1>7, <1>9, CountedGood DEF Fit
<1>12. CASE call.marks[cb] = 0 /\ Do(Counted(o, n))
  BY <1>11, <1>12, DoKeeps DEF Kept
<1>13. CASE Ends(Counted(cleared, n))
  BY <1>10, <1>13, EndsKeeps DEF Kept
<1>14. CASE Interrupted(cleared, cb)
  BY <1>4, <1>5, <1>7, <1>14, InterruptedKeeps DEF Kept, Fit, Callbacks
<1>. QED
  BY <1>1, <1>12, <1>13, <1>14

LEMMA HeaderValueKept == ASSUME ParserInv, HeaderValue PROVE Kept
<1>. DEFINE stops == [c \in AllChar |-> c \in LineEnds]
            p == RunEnd(stops)
            bytes == SubSeq(stream.wire, pos, p - 1)
            q == ValueRead(parser, bytes)
            at == [q EXCEPT !.state = "header_almost_done"]
            n == p - pos
            again == [AdvanceTo(at, p) EXCEPT !.call.fetched = TRUE]
            lf == Counted(again, n)
            Count(o) == Counted(o, n)
<1>1. InTurn /\ Fit(parser) /\ parser.state = "header_value"
  <2>1. At({"header_value"})
    BY DEF HeaderValue
  <2>. QED
    BY <2>1, InTurnFacts
<1>2. \/ q.errno # "OK" /\ Do(Error(q.errno))
      \/ q.errno = "OK" /\ p > call.end /\ Do(Counted(AdvanceTo(q, p), p - 1 - pos))
      \/ q.errno = "OK" /\ ~(p > call.end) /\ FlushThen("header_value", p - 1, AdvanceTo(at, p + 1), Count)
      \/ q.errno = "OK" /\ ~(p > call.end) /\ lf.call = NoCall /\ Do(lf)
      \/ q.errno = "OK" /\ ~(p > call.end) /\ lf.call # NoCall /\ Flush("header_value", p - 1, lf)
  BY DEF HeaderValue
<1>3. p \in pos..call.end + 1 /\ pos \in Nat \ {0} /\ call.end \in Nat /\ pos <= call.end
  <2>. HIDE DEF stops
  <2>. QED
    BY <1>1, RunEndFacts DEF InTurn, ParserInv, Keeps, Typed, Within
<1>. HIDE DEF p
<1>4. InValue(q, parser)
  <2>1. Len(bytes) \in Nat
    BY <1>3
  <2>2. InValue(parser, parser)
    BY <1>1 DEF InValue, Beside, InTurn, ParserInv, Keeps, Sound, Fit
  <2>. HIDE DEF bytes
  <2>. QED
    BY <2>1, <2>2, ValueReadInValue
<1>. HIDE DEF q
<1>5. ASSUME q.errno = "OK"
      PROVE  Fit(q) /\ q.state = "header_value" /\ Sound(q, [call EXCEPT !.fetched = FALSE])
             /\ Fit(at) /\ at.state = "header_almost_done" /\ at.state \in PlainStates
  <2>1. Fit(q) /\ q.state = "header_value"
    BY <1>1, <1>4, <1>5 DEF InValue, Beside, Fit
  <2>2. Sound(q, [call EXCEPT !.fetched = FALSE])
    BY <1>4, <2>1 DEF InValue, Sound, ChunkStates
  <2>3. Fit(at) /\ at.state = "header_almost_done"
    BY <2>1 DEF Fit, ParserFields
  <2>. QED
    BY <2>1, <2>2, <2>3 DEF PlainStates
<1>6. CASE q.errno # "OK" /\ Do(Error(q.errno))
  BY <1>1, <1>4, <1>6, ErrorKept DEF InValue
<1>7. CASE q.errno = "OK" /\ p > call.end /\ Do(Counted(AdvanceTo(q, p), p - 1 - pos))
  <2>1. pos < p /\ p <= call.end + 1 /\ p \in Nat
    BY <1>3, <1>7
  <2>. QED
    BY <1>1, <1>5, <1>7, <2>1, CountedKept, NameIsText
<1>8. CASE q.errno = "OK" /\ ~(p > call.end) /\ FlushThen("header_value", p - 1, AdvanceTo(at, p + 1), Count)
  <2>1. n \in Nat /\ p + 1 \in Nat /\ pos < p + 1 /\ p + 1 <= call.end + 1
    BY <1>3, <1>8
  <2>2. Fit(at) /\ at.state \in PlainStates
    BY <1>5, <1>8
  <2>3. TextOf(parser.state) = "header_value" /\ "header_value" \in DataCallbacks
    BY <1>1, NameIsText
  <2>. HIDE DEF at, n
  <2>. QED
    BY <1>1, <1>8, <2>1, <2>2, <2>3, FlushThenCountedKept
<1>9. CASE /\ q.errno = "OK" /\ ~(p > call.end)
           /\ \/ lf.call = NoCall /\ Do(lf)
              \/ lf.call # NoCall /\ Flush("header_value", p - 1, lf)
  <2>. DEFINE c == [[call EXCEPT !.fetched = FALSE] EXCEPT !.fetched = TRUE]
  <2>1. again.parser = at /\ again.pos = p /\ again.call = c /\ IsOutcome(again)
    BY DEF AdvanceTo, IsOutcome
  <2>2. n \in Nat /\ p \in Nat \ {0} /\ (p = pos \/ pos < p) /\ p <= call.end
    BY <1>3, <1>9
  <2>3. Typed(at, p, c) /\ c.end = call.end /\ c.marks = call.marks /\ c.fetched = TRUE
    BY <1>1, <1>5, <1>9, <2>2 DEF InTurn, ParserInv, Keeps, Typed, Fit
  <2>4. Fit(at) /\ at.state = "header_almost_done" /\ at.state \in PlainStates
    BY <1>5, <1>9
  <2>. HIDE DEF c, again, n, at
  <2>5. Sound(at, c) /\ at.state # "chunk_size_start"
    BY <2>4, PlainIsPlain, PlainSound
  <2>6. /\ IsOutcome(lf) /\ lf.pos = p
        /\ \/ lf.call = NoCall /\ Good(lf)
           \/ /\ lf.parser = at /\ lf.call.end = call.end /\ lf.call.fetched = TRUE
              /\ lf.call.marks = call.marks /\ Typed(lf.parser, lf.pos, lf.call) /\ Sound(lf.parser, lf.call)
    BY <2>1, <2>2, <2>3, <2>4, <2>5, CountedGood DEF Fit
  <2>. HIDE DEF lf
  <2>7. CASE lf.call = NoCall /\ Do(lf)
    <3>1. NoCall.end # call.end
      BY <1>1, NoCallFacts DEF InTurn, Running
    <3>2. Good(lf)
      BY <2>6, <2>7, <3>1
    <3>. QED
      BY <2>7, <3>2, DoKeeps DEF Kept
  <2>8. CASE lf.call # NoCall /\ Flush("header_value", p - 1, lf)
    <3>1. lf.parser = at /\ lf.call.end = call.end /\ lf.call.fetched = TRUE
          /\ lf.call.marks = call.marks /\ Typed(lf.parser, lf.pos, lf.call) /\ Sound(lf.parser, lf.call)
      BY <2>6, <2>8
    <3>2. Within(lf.parser, lf.pos, lf.call)
      BY <1>1, <1>3, <2>2, <2>4, <2>6, <3>1 DEF Within, Fit, InTurn, Running
    <3>3. Turn(lf.parser, lf.pos, lf.call)
      BY <1>1, <1>3, <2>2, <2>4, <2>6, <3>1, LaterStates DEF Turn, InTurn, Running
    <3>. QED
      BY <1>1, <2>4, <2>6, <2>8, <3>1, <3>2, <3>3, FlushKeeps, NameIsText DEF Kept, Fit
  <2>. QED
    BY <1>9, <2>7, <2>8 DEF lf
<1>. QED
  BY <1>2, <1>6, <1>7, <1>8, <1>9

LEMMA HeadersAlmostDoneKept ==
  ASSUME ParserInv, NEW answers, HeadersAlmostDone(answers)
  PROVE  Kept
<1>. DEFINE upgrade == Upgrades(parser)
            q == [In("headers_done") EXCEPT !.upgrade = upgrade]
            saved == [q EXCEPT !.nread = call.nread]
            skipped(a) == [saved EXCEPT !.flags = @ \cup {"SKIPBODY"}, !.upgrade = @ \/ a = 2]
            e == [q EXCEPT !.errno = "CB_headers_complete"]
            seen == <<parser.method>>
<1>1. InTurn /\ Fit(parser) /\ parser.state = "headers_almost_done" /\ parser.state \in PlainStates
  <2>1. At({"headers_almost_done"})
    BY DEF HeadersAlmostDone
  <2>. QED
    BY <2>1, InTurnFacts DEF PlainStates
<1>2. \/ Do(Error("STRICT")) \/ Do(Error("UNEXPECTED_CONTENT_LENGTH"))
      \/ Callback("chunk_complete", <<>>, Again(In("message_done")))
      \/ Callback("headers_complete", seen, Again(saved))
      \/ \E a \in answers : Callback("headers_complete", seen, Again(skipped(a)))
      \/ Ends(Return(e, pos))
  <2>. HIDE DEF q, saved
  <2>1. \/ Do(Error("STRICT")) \/ Do(Error("UNEXPECTED_CONTENT_LENGTH"))
        \/ Callback("chunk_complete", <<>>, Again(In("message_done")))
        \/ \E a \in answers :
             CASE a = 0 -> Callback("headers_complete", seen, Again(saved))
               [] a \in {1, 2} -> Callback("headers_complete", seen, Again(skipped(a)))
               [] OTHER -> Ends(Return(e, pos))
                             /\ called' = [cb |-> "headers_complete", data |-> seen]
                             /\ log' = Joined(log, "headers_complete", seen)
    <3>. HIDE DEF upgrade, seen
    <3>. QED
      BY DEF HeadersAlmostDone, q, saved, upgrade, seen
  <2>. HIDE DEF skipped, e, seen
  <2>2. ASSUME NEW a, CASE a = 0 -> Callback("headers_complete", seen, Again(saved))
                        [] a \in {1, 2} -> Callback("headers_complete", seen, Again(skipped(a)))
                        [] OTHER -> Ends(Return(e, pos))
                                      /\ called' = [cb |-> "headers_complete", data |-> seen]
                                      /\ log' = Joined(log, "headers_complete", seen)
        PROVE  \/ Callback("headers_complete", seen, Again(saved))
               \/ Callback("headers_complete", seen, Again(skipped(a)))
               \/ Ends(Return(e, pos))
    <3>1. ~(a = 0 /\ a \in {1, 2})
      OBVIOUS
    <3>. QED
      BY <2>2, <3>1
  <2>. QED
    BY <2>1, <2>2
<1>. HIDE DEF upgrade, seen
<1>3. Fit(q) /\ q.state = "headers_done"
  BY <1>1, InFit DEF Fit, ParserFields
<1>. HIDE DEF q
<1>4. Fit(saved) /\ saved.state = "headers_done"
  BY <1>1, <1>3 DEF InTurn, ParserInv, Keeps, Typed, Fit, ParserFields
<1>. HIDE DEF saved
<1>5. ASSUME NEW a PROVE Fit(skipped(a)) /\ skipped(a).state = "headers_done"
  BY <1>4 DEF Fit, ParserFields
<1>. HIDE DEF skipped
<1>6. Fit(In("message_done")) /\ In("message_done").state = "message_done"
  BY <1>1, InFit
<1>7. "headers_done" \in PlainStates /\ "message_done" \in PlainStates
  BY DEF PlainStates
<1>8. ASSUME NEW v, Fit(v), v.state \in {"headers_done", "message_done"}, NEW cb \in Callbacks, NEW data,
             Callback(cb, data, Again(v))
      PROVE  Kept
  <2>1. TextOf(parser.state) = "none" /\ Sound(v, call) /\ Later(parser.state, v.state)
    BY <1>1, <1>7, <1>8, PlainIsPlain, PlainSound, LaterStates
  <2>2. IsOutcome(Again(v)) /\ Good(Again(v)) /\ Again(v).parser.errno = "OK"
    BY <1>1, <1>8, <2>1, AgainGood
  <2>. QED
    BY <1>8, <2>2, CallbackKeeps DEF Kept
<1>9. CASE Ends(Return(e, pos))
  <2>. DEFINE o == Return(e, pos)
  <2>1. o.parser = [e EXCEPT !.nread = call.nread] /\ o.pos = pos /\ o.call = NoCall
    BY <1>1 DEF Return, Leave, AdvanceTo, InTurn, ParserInv, Keeps, Typed
  <2>2. ParserFields \subseteq DOMAIN e /\ e.errno = "CB_headers_complete" /\ e.content_length \in 0..UllongMax
    BY <1>3, ErrnoSet DEF Fit
  <2>. HIDE DEF o, e
  <2>3. Typed(o.parser, o.pos, o.call) /\ o.parser.errno = "CB_headers_complete"
    BY <1>1, <2>1, <2>2, NreadSet, NoCallFacts DEF InTurn, ParserInv, Keeps, Typed
  <2>4. Sound(o.parser, o.call)
    BY <2>3 DEF Sound
  <2>5. Good(o)
    BY <2>1, <2>3, <2>4, NoCallKeeps DEF Good, Turn
  <2>. QED
    BY <1>9, <2>5, EndsKeeps DEF Kept, o
<1>. QED
  BY <1>1, <1>2, <1>4, <1>5, <1>6, <1>8, <1>9, ErrorKept DEF Callbacks

LEMMA NewMessageFit ==
  ASSUME NEW q, Fit(q)
  PROVE  Fit(NewMessage(q)) /\ NewMessage(q).state \in PlainStates /\ NewMessage(q).upgrade = q.upgrade
<1>. DEFINE s == IF ~ShouldKeepAlive(q) THEN "dead"
                 ELSE IF q.type = "request" THEN "start_req" ELSE "start_res"
<1>1. NewMessage(q) = [q EXCEPT !.state = s]
  BY DEF NewMessage
<1>2. s \in PlainStates
  BY DEF PlainStates
<1>. HIDE DEF s
<1>. QED
  BY <1>1, <1>2 DEF Fit, ParserFields

\* A message ends with a byte.
LEMMA CompleteKept ==
  ASSUME InTurn, TextOf(parser.state) = "none", NEW o, IsOutcome(o), Fit(o.parser), o.pos = pos + 1,
         Typed(o.parser, o.pos, o.call), o.call.end = call.end, o.call.marks = call.marks, ~o.call.fetched,
         NEW leaves, leaves => o.parser.upgrade, Complete(o, leaves)
  PROVE  Kept
<1>. DEFINE next == [o EXCEPT !.parser = NewMessage(@)]
            q == NewMessage(o.parser)
            left == Leave(next)
<1>1. \/ Callback("message_complete", <<>>, next)
      \/ leaves /\ (Ends(left) \/ Interrupted(next, "message_complete"))
  BY DEF Complete, CallbackThen, Interrupted
<1>2. next.parser = q /\ next.pos = o.pos /\ next.call = o.call /\ IsOutcome(next)
  BY DEF IsOutcome
<1>3. Fit(q) /\ q.state \in PlainStates /\ q.upgrade = o.parser.upgrade
  BY NewMessageFit
<1>. HIDE DEF q, next
<1>4. Typed(q, o.pos, o.call)
  BY <1>3 DEF Typed, Fit
<1>5. Within(q, o.pos, o.call) /\ Turn(q, o.pos, o.call)
  BY <1>3 DEF InTurn, ParserInv, Keeps, Typed, Within, Turn, Running, Fit
<1>6. Sound(q, o.call)
  BY <1>3, PlainIsPlain, PlainSound
<1>7. Marking(q, o.pos, o.call)
  BY DEF InTurn, ParserInv, Keeps, Marking, DataCallbacks
<1>8. Good(next) /\ next.parser.errno = "OK"
  BY <1>2, <1>3, <1>4, <1>5, <1>6, <1>7 DEF Good, Keeps, Fit
<1>9. CASE Callback("message_complete", <<>>, next)
  BY <1>2, <1>8, <1>9, CallbackKeeps DEF Callbacks, Kept
<1>10. CASE Interrupted(next, "message_complete")
  BY <1>2, <1>4, <1>6, <1>8, <1>10, InterruptedKeeps DEF Callbacks, Kept
<1>11. CASE leaves /\ Ends(left)
  <2>1. left.parser = [q EXCEPT !.nread = o.call.nread] /\ left.pos = o.pos /\ left.call = NoCall
    BY <1>2 DEF Leave, IsOutcome
  <2>. HIDE DEF left
  <2>2. left.parser.upgrade = q.upgrade /\ left.parser.state = q.state
        /\ Typed(left.parser, left.pos, left.call)
    BY <1>3, <1>4, <2>1, NreadSet, NoCallFacts DEF Typed
  <2>3. Sound(left.parser, left.call)
    BY <1>3, <2>2, PlainIsPlain, PlainSound
  <2>4. Keeps(left.parser, left.pos, left.call)
    BY <2>1, <2>2, <2>3, NoCallKeeps
  <2>5. left.parser.upgrade /\ left.pos > pos
    BY <1>3, <1>11, <2>1, <2>2 DEF InTurn, ParserInv, Keeps, Typed
  <2>6. Good(left)
    BY <2>4, <2>5 DEF Good, Turn
  <2>. QED
    BY <1>11, <2>6, EndsKeeps DEF Kept
<1>. QED
  BY <1>1, <1>9, <1>10, <1>11

\* The counts of bytes begin anew, in the parser and in the call.
LEMMA UncountedFacts ==
  ASSUME InTurn, NEW q, Fit(q)
  PROVE  LET o == Uncounted(Advance(q))
             u == [q EXCEPT !.nread = 0]
         IN  /\ o.parser = u /\ o.pos = pos + 1 /\ IsOutcome(o) /\ Fit(u)
             /\ u.state = q.state /\ u.flags = q.flags /\ u.content_length = q.content_length
             /\ u.header_state = q.header_state /\ u.phase = q.phase /\ u.upgrade = q.upgrade /\ u.nread = 0
             /\ Typed(u, o.pos, o.call) /\ o.call.end = call.end /\ o.call.marks = call.marks
             /\ ~o.call.fetched /\ o.call.nread = 0
<1>. DEFINE o == Uncounted(Advance(q))
            u == [q EXCEPT !.nread = 0]
            c == [[call EXCEPT !.fetched = FALSE] EXCEPT !.nread = 0]
<1>1. o.parser = u /\ o.pos = pos + 1 /\ o.call = c /\ IsOutcome(o)
  BY DEF Uncounted, Advance, AdvanceTo, IsOutcome
<1>2. /\ Fit(u) /\ u.state = q.state /\ u.flags = q.flags /\ u.content_length = q.content_length
      /\ u.header_state = q.header_state /\ u.phase = q.phase /\ u.upgrade = q.upgrade /\ u.nread = 0
  BY DEF Fit, ParserFields
<1>3. /\ DOMAIN c = DOMAIN call /\ c.end = call.end /\ c.marks = call.marks /\ c.fetched = FALSE
      /\ c.nread = 0 /\ c.fetched \in BOOLEAN
  BY DEF InTurn, ParserInv, Keeps, Typed
<1>. HIDE DEF o, u, c
<1>4. Typed(u, pos + 1, c)
  <2>1. Typed(parser, pos, call)
    BY DEF InTurn, ParserInv, Keeps
  <2>. QED
    BY <1>2, <1>3, <2>1 DEF Typed, Fit
<1>. QED
  BY <1>1, <1>2, <1>3, <1>4 DEF o, u

LEMMA UncountedGood ==
  ASSUME InTurn, TextOf(parser.state) = "none", NEW q, Fit(q),
         q.state \in {"chunk_size_start", "chunk_size", "chunk_data"} => "CHUNKED" \in q.flags,
         q.state \in PlainStates \cup {"chunk_size_start", "chunk_data", "body_identity", "body_identity_eof"},
         q.state \in {"body_identity", "chunk_data"} => q.content_length \notin {0, UllongMax}
  PROVE  IsOutcome(Uncounted(Advance(q))) /\ Good(Uncounted(Advance(q)))
         /\ Uncounted(Advance(q)).parser.errno = "OK"
<1>. DEFINE o == Uncounted(Advance(q))
            u == [q EXCEPT !.nread = 0]
<1>1. /\ o.parser = u /\ o.pos = pos + 1 /\ IsOutcome(o) /\ Fit(u)
      /\ u.state = q.state /\ u.flags = q.flags /\ u.content_length = q.content_length
      /\ u.header_state = q.header_state /\ u.phase = q.phase /\ u.upgrade = q.upgrade /\ u.nread = 0
      /\ Typed(u, o.pos, o.call) /\ o.call.end = call.end /\ o.call.marks = call.marks
      /\ ~o.call.fetched /\ o.call.nread = 0
  BY UncountedFacts
<1>. HIDE DEF o, u
<1>2. Within(u, o.pos, o.call) /\ Turn(u, o.pos, o.call)
  BY <1>1 DEF InTurn, ParserInv, Keeps, Typed, Within, Turn, Running, Fit
<1>3. Marking(u, o.pos, o.call)
  BY <1>1 DEF InTurn, ParserInv, Keeps, Marking, DataCallbacks
<1>4. Sound(u, o.call)
  <2>1. u.state \in Special => u.state \in {"chunk_size_start", "chunk_data", "body_identity"}
    BY <1>1, PlainIsPlain DEF Special, ChunkStates
  <2>. QED
    BY <1>1, <2>1, PlainSound DEF Sound, ChunkStates
<1>. QED
  BY <1>1, <1>2, <1>3, <1>4 DEF Good, Keeps, Fit, o

LEMMA HeadersDoneKept == ASSUME ParserInv, HeadersDone PROVE Kept
<1>. DEFINE o == Uncounted(Advance(parser))
            on(state) == Uncounted(Advance(In(state)))
            bad == [Error("INVALID_TRANSFER_ENCODING") EXCEPT !.parser.nread = 0]
<1>1. InTurn /\ Fit(parser) /\ parser.state = "headers_done" /\ parser.state \in PlainStates
  <2>1. At({"headers_done"})
    BY DEF HeadersDone
  <2>. QED
    BY <2>1, InTurnFacts DEF PlainStates
<1>2. \/ Do(Error("STRICT"))
      \/ parser.upgrade /\ Complete(o, TRUE)
      \/ Complete(o, FALSE)
      \/ "CHUNKED" \in parser.flags /\ Do(on("chunk_size_start"))
      \/ Do(bad) \/ Do(on("body_identity_eof"))
      \/ parser.content_length \notin {0, UllongMax} /\ Do(on("body_identity"))
  <2>. HIDE DEF bad
  <2>. QED
    BY DEF HeadersDone, bad
<1>3. TextOf(parser.state) = "none"
  BY <1>1, PlainIsPlain
<1>4. ASSUME NEW leaves, leaves => parser.upgrade, Complete(o, leaves) PROVE Kept
  <2>1. /\ IsOutcome(o) /\ Fit(o.parser) /\ o.pos = pos + 1 /\ Typed(o.parser, o.pos, o.call)
        /\ o.call.end = call.end /\ o.call.marks = call.marks /\ ~o.call.fetched
        /\ o.parser.upgrade = parser.upgrade
    BY <1>1, UncountedFacts
  <2>. HIDE DEF o
  <2>. QED
    BY <1>1, <1>3, <1>4, <2>1, CompleteKept
<1>5. ASSUME NEW s \in {"chunk_size_start", "body_identity", "body_identity_eof"},
             s = "chunk_size_start" => "CHUNKED" \in parser.flags,
             s = "body_identity" => parser.content_length \notin {0, UllongMax},
             Do(on(s))
      PROVE  Kept
  <2>1. Fit(In(s)) /\ In(s).state = s /\ In(s).flags = parser.flags
        /\ In(s).content_length = parser.content_length
    BY <1>1, InFit
  <2>2. Good(on(s))
    BY <1>1, <1>3, <1>5, <2>1, UncountedGood
  <2>. QED
    BY <1>5, <2>2, DoKeeps DEF Kept
<1>6. CASE Do(bad)
  <2>. DEFINE x == Error("INVALID_TRANSFER_ENCODING")
  <2>1. Good(x) /\ x.parser.errno = "INVALID_TRANSFER_ENCODING" /\ x.call = NoCall /\ IsOutcome(x)
    <3>1. Good(x) /\ IsOutcome(x) /\ x.call = NoCall
      BY <1>1, ErrorGood DEF Error, Return, Leave, AdvanceTo
    <3>. DEFINE e == [parser EXCEPT !.errno = "INVALID_TRANSFER_ENCODING"]
    <3>2. ParserFields \subseteq DOMAIN e /\ e.errno = "INVALID_TRANSFER_ENCODING"
      BY <1>1, ErrnoSet DEF Fit
    <3>3. x.parser = [e EXCEPT !.nread = call.nread]
      BY <1>1 DEF Error, Return, Leave, AdvanceTo, InTurn, ParserInv, Keeps, Typed
    <3>. HIDE DEF x, e
    <3>. QED
      BY <3>1, <3>2, <3>3, NreadSet
  <2>2. bad.parser = [x.parser EXCEPT !.nread = 0] /\ bad.pos = x.pos /\ bad.call = NoCall
    BY <2>1 DEF IsOutcome
  <2>. HIDE DEF x, bad
  <2>3. Typed(x.parser, x.pos, x.call) /\ Turn(x.parser, x.pos, x.call)
    BY <2>1 DEF Good, Keeps
  <2>4. Typed(bad.parser, bad.pos, bad.call) /\ bad.parser.errno = "INVALID_TRANSFER_ENCODING"
    BY <2>1, <2>2, <2>3, NreadSet, NoCallFacts DEF Typed
  <2>5. Good(bad)
    BY <2>2, <2>4, NoCallKeeps DEF Good, Turn, Sound
  <2>. QED
    BY <1>6, <2>5, DoKeeps DEF Kept
<1>. HIDE DEF o, on, bad
<1>. QED
  BY <1>1, <1>2, <1>4, <1>5, <1>6, ErrorKept

LEMMA MessageDoneKept == ASSUME ParserInv, MessageDone PROVE Kept
<1>1. InTurn /\ Fit(parser) /\ parser.state = "message_done" /\ parser.state \in PlainStates
  <2>1. At({"message_done"})
    BY DEF MessageDone
  <2>. QED
    BY <2>1, InTurnFacts DEF PlainStates
<1>2. TextOf(parser.state) = "none" /\ Complete(Advance(parser), parser.upgrade)
  BY <1>1, PlainIsPlain DEF MessageDone
<1>. DEFINE o == Advance(parser)
            c == [call EXCEPT !.fetched = FALSE]
<1>3. o.parser = parser /\ o.pos = pos + 1 /\ o.call = c /\ IsOutcome(o)
  BY DEF Advance, AdvanceTo, IsOutcome
<1>4. Typed(parser, pos + 1, c) /\ c.end = call.end /\ c.marks = call.marks /\ c.fetched = FALSE
  BY <1>1 DEF InTurn, ParserInv, Keeps, Typed
<1>. HIDE DEF o, c
<1>. QED
  BY <1>1, <1>2, <1>3, <1>4, CompleteKept DEF o

-----------------------------------------------------------------------------
(* The cases of bodies. *)

LEMMA BodyStatesAreText ==
  /\ TextOf("body_identity") = "body" /\ TextOf("body_identity_eof") = "body"
  /\ TextOf("chunk_data") = "body" /\ TextOf("chunk_data_almost_done") = "body"
  /\ TextOf("chunk_size_start") = "none" /\ TextOf("chunk_size") = "none"
  /\ TextOf("chunk_parameters") = "none" /\ TextOf("chunk_size_almost_done") = "none"
  /\ TextOf("chunk_data_done") = "none" /\ "body" \in DataCallbacks
BY DEF TextOf, MarkOf, UrlStates, ServerStates, DataCallbacks

\* A body that is read to `to`, a mark of which is left only at the end of the buffer.
LEMMA BodyMarkedKept ==
  ASSUME InTurn, TextOf(parser.state) = "body", NEW q, Fit(q), TextOf(q.state) = "body",
         NEW to \in Nat, pos < to, to <= call.end + 1,
         q.state \in {"body_identity", "chunk_data"} => to > call.end,
         Sound(q, [call EXCEPT !.fetched = FALSE]), q.state # "chunk_size_start",
         Do(Marked(AdvanceTo(q, to), "body"))
  PROVE  Kept
<1>. DEFINE o == AdvanceTo(q, to)
            c == [call EXCEPT !.fetched = FALSE]
            d == [c EXCEPT !.marks["body"] = IF @ = 0 THEN pos ELSE @]
            marked == Marked(o, "body")
<1>1. o.parser = q /\ o.pos = to /\ o.call = c /\ IsOutcome(o)
  BY DEF AdvanceTo, IsOutcome
<1>2. marked.parser = q /\ marked.pos = to /\ marked.call = d
  BY <1>1 DEF Marked, IsOutcome
<1>3. Typed(q, to, c) /\ c.end = call.end /\ c.marks = call.marks /\ ~c.fetched /\ c.nread = call.nread
  BY DEF InTurn, ParserInv, Keeps, Typed, Fit
<1>4. Typed(q, to, d) /\ d.end = call.end /\ ~d.fetched
      /\ \A cb \in DataCallbacks : d.marks[cb] # 0 => cb = "body" \/ call.marks[cb] # 0
  BY <1>3 DEF Typed, InTurn, ParserInv, Keeps
<1>5. Sound(q, c)
  OBVIOUS
<1>. HIDE DEF c, d, o, marked
<1>6. \A cb \in DataCallbacks : d.marks[cb] # 0 => cb = "body"
  BY <1>4 DEF InTurn, ParserInv, Keeps, Marking
<1>7. Within(q, to, d) /\ Turn(q, to, d)
  BY <1>4 DEF InTurn, ParserInv, Keeps, Typed, Within, Turn, Running, Fit
<1>8. Marking(q, to, d)
  BY <1>4, <1>6 DEF Marking
<1>9. Sound(q, d)
  BY <1>5 DEF Sound
<1>. QED
  BY <1>2, <1>4, <1>7, <1>8, <1>9, DoKeeps DEF Good, Keeps, Kept, marked, o

LEMMA BodyIdentityKept == ASSUME ParserInv, BodyIdentity PROVE Kept
<1>. DEFINE n == ToRead
            q == [parser EXCEPT !.content_length = @ - n]
            m == [q EXCEPT !.state = "message_done"]
            last == [Again(m) EXCEPT !.pos = pos + n - 1]
            from == IF call.marks["body"] = 0 THEN pos ELSE call.marks["body"]
            data == SubSeq(stream.wire, from, pos + n - 1)
<1>1. InTurn /\ Fit(parser) /\ parser.state = "body_identity"
  <2>1. At({"body_identity"})
    BY DEF BodyIdentity
  <2>. QED
    BY <2>1, InTurnFacts
<1>2. \/ q.content_length = 0 /\ Callback("body", data, last)
      \/ q.content_length # 0 /\ Do(Marked(AdvanceTo(q, pos + n), "body"))
  BY DEF BodyIdentity
<1>3. /\ n \in Nat \ {0} /\ n <= parser.content_length /\ pos + n <= call.end + 1
      /\ n # parser.content_length => pos + n = call.end + 1
  BY <1>1 DEF ToRead, InTurn, ParserInv, Keeps, Typed, Within, Sound, Fit
<1>. HIDE DEF n
<1>4. Fit(q) /\ q.state = "body_identity" /\ q.content_length = parser.content_length - n
      /\ q.content_length # UllongMax
  BY <1>1, <1>3, ParserAssumption DEF Fit, ParserFields
<1>. HIDE DEF q
<1>5. CASE q.content_length = 0 /\ Callback("body", data, last)
  <2>1. Fit(m) /\ m.state = "message_done" /\ m.state \in PlainStates
    BY <1>4 DEF Fit, ParserFields, PlainStates
  <2>2. last.parser = m /\ last.pos = pos + n - 1 /\ last.call = call /\ IsOutcome(last)
    BY DEF Again, IsOutcome
  <2>. DEFINE to == pos + n - 1
  <2>3. to \in Nat \ {0} /\ to <= call.end /\ (to = pos \/ to > pos)
    BY <1>1, <1>3 DEF InTurn, ParserInv, Keeps, Typed
  <2>. HIDE DEF m, last, to
  <2>4. Typed(m, to, call) /\ Within(m, to, call)
    BY <1>1, <2>1, <2>3 DEF InTurn, ParserInv, Keeps, Typed, Within, Fit
  <2>5. Marking(m, to, call)
    <3>1. \A cb \in DataCallbacks : call.marks[cb] = 0
      BY <1>1 DEF InTurn, ParserInv, Keeps, Typed, Within, Marking
    <3>. QED
      BY <3>1 DEF Marking
  <2>6. Sound(m, call)
    BY <2>1, PlainIsPlain, PlainSound
  <2>7. Turn(m, to, call)
    BY <1>1, <2>1, <2>3, LaterStates DEF Turn, InTurn, Running
  <2>8. Good(last) /\ last.parser.errno = "OK"
    BY <2>1, <2>2, <2>4, <2>5, <2>6, <2>7 DEF Good, Keeps, Fit, to
  <2>. HIDE DEF data
  <2>. QED
    BY <1>5, <2>2, <2>8, CallbackKeeps DEF Kept, Callbacks, DataCallbacks
<1>6. CASE q.content_length # 0 /\ Do(Marked(AdvanceTo(q, pos + n), "body"))
  <2>. DEFINE to == pos + n
  <2>1. to \in Nat /\ pos < to /\ to <= call.end + 1 /\ to > call.end
    BY <1>1, <1>3, <1>4, <1>6 DEF InTurn, ParserInv, Keeps, Typed, Fit
  <2>2. Sound(q, [call EXCEPT !.fetched = FALSE])
    BY <1>4, <1>6 DEF Sound, ChunkStates
  <2>. HIDE DEF to
  <2>. QED
    BY <1>1, <1>4, <1>6, <2>1, <2>2, BodyMarkedKept, BodyStatesAreText DEF to
<1>. QED
  BY <1>2, <1>5, <1>6

LEMMA BodyIdentityEofKept == ASSUME ParserInv, BodyIdentityEof PROVE Kept
<1>1. InTurn /\ Fit(parser) /\ parser.state = "body_identity_eof"
  <2>1. At({"body_identity_eof"})
    BY DEF BodyIdentityEof
  <2>. QED
    BY <2>1, InTurnFacts
<1>2. Do(Marked(AdvanceTo(parser, call.end + 1), "body"))
  BY DEF BodyIdentityEof
<1>3. call.end + 1 \in Nat /\ pos < call.end + 1 /\ call.end + 1 <= call.end + 1
  BY <1>1 DEF InTurn, ParserInv, Keeps, Typed, Within
<1>4. Sound(parser, [call EXCEPT !.fetched = FALSE])
  BY <1>1, PlainSound DEF Special, ChunkStates
<1>. QED
  BY <1>1, <1>2, <1>3, <1>4, BodyMarkedKept, BodyStatesAreText

\* From outside any text to a state of a chunk.
LEMMA ChunkKept ==
  ASSUME InTurn, TextOf(parser.state) = "none", NEW q, Fit(q), q.state \in ChunkStates,
         q.state # "chunk_size_start", q.state # "chunk_data", q.state # "chunk_data_almost_done",
         "CHUNKED" \in q.flags, q.content_length # UllongMax, Do(Advance(q))
  PROVE  Kept
<1>1. Sound(q, [call EXCEPT !.fetched = FALSE])
  BY DEF Sound, ChunkStates
<1>. QED
  BY <1>1, AdvanceGood, DoKeeps DEF Kept, Fit

LEMMA ChunkSizeKept == ASSUME ParserInv, ChunkSize PROVE Kept
<1>. DEFINE length == IF parser.state = "chunk_size_start" THEN HexValue[ch]
                      ELSE DigitRead(parser.content_length, 16, HexValue[ch])
            q == [In("chunk_size") EXCEPT !.content_length = length]
<1>1. InTurn /\ Fit(parser) /\ parser.state \in {"chunk_size_start", "chunk_size"}
  <2>1. At({"chunk_size_start", "chunk_size"})
    BY DEF ChunkSize
  <2>. QED
    BY <2>1, InTurnFacts
<1>2. \/ parser.state # "chunk_size_start" /\ Do(Advance(In("chunk_size_almost_done")))
      \/ parser.state # "chunk_size_start" /\ Do(Advance(In("chunk_parameters")))
      \/ Do(Error("INVALID_CHUNK_SIZE")) \/ Do(Error("INVALID_CONTENT_LENGTH"))
      \/ ch \in Hex /\ length # UllongMax /\ Do(Advance(q))
  BY DEF ChunkSize
<1>3. ch \in Hex => length \in 0..UllongMax
  <2>. SUFFICES ASSUME ch \in Hex PROVE length \in 0..UllongMax
    OBVIOUS
  <2>1. HexValue[ch] \in 0..16 - 1 /\ HexValue[ch] \in 0..UllongMax /\ parser.content_length \in 0..UllongMax
    BY <1>1, CharacterAssumption, ParserAssumption DEF Fit
  <2>. QED
    BY <2>1, DigitReadFits
<1>4. "CHUNKED" \in parser.flags
      /\ (parser.state # "chunk_size_start" => parser.content_length # UllongMax)
  BY <1>1 DEF InTurn, ParserInv, Keeps, Sound, ChunkStates, Fit
<1>5. TextOf(parser.state) = "none"
  BY <1>1, BodyStatesAreText
<1>. HIDE DEF length
<1>6. ASSUME NEW s
      PROVE  Fit(In(s)) /\ In(s).state = s /\ In(s).flags = parser.flags
             /\ In(s).content_length = parser.content_length
  BY <1>1, InFit
<1>7. CASE ch \in Hex /\ length # UllongMax /\ Do(Advance(q))
  <2>. DEFINE r == In("chunk_size")
  <2>1. Fit(r) /\ r.state = "chunk_size" /\ r.flags = parser.flags
    BY <1>6
  <2>. HIDE DEF r
  <2>2. Fit(q) /\ q.state = "chunk_size" /\ q.flags = parser.flags /\ q.content_length = length
    BY <1>3, <1>7, <2>1 DEF Fit, ParserFields, r
  <2>. HIDE DEF q
  <2>. QED
    BY <1>1, <1>4, <1>5, <1>7, <2>2, ChunkKept DEF ChunkStates
<1>. QED
  BY <1>1, <1>2, <1>4, <1>5, <1>6, <1>7, ChunkKept, ErrorKept DEF ChunkStates

LEMMA ChunkParametersKept == ASSUME ParserInv, ChunkParameters PROVE Kept
<1>1. InTurn /\ Fit(parser) /\ parser.state = "chunk_parameters"
  <2>1. At({"chunk_parameters"})
    BY DEF ChunkParameters
  <2>. QED
    BY <2>1, InTurnFacts
<1>2. Do(Advance(In("chunk_size_almost_done"))) \/ Do(Advance(parser))
  BY DEF ChunkParameters
<1>3. "CHUNKED" \in parser.flags /\ parser.content_length # UllongMax
  BY <1>1 DEF InTurn, ParserInv, Keeps, Sound, ChunkStates, Fit
<1>4. LET q == In("chunk_size_almost_done")
      IN  Fit(q) /\ q.state = "chunk_size_almost_done" /\ q.flags = parser.flags
          /\ q.content_length = parser.content_length
  BY <1>1, InFit
<1>. QED
  BY <1>1, <1>2, <1>3, <1>4, ChunkKept, BodyStatesAreText DEF ChunkStates

LEMMA ChunkSizeAlmostDoneKept == ASSUME ParserInv, ChunkSizeAlmostDone PROVE Kept
<1>. DEFINE final == [In("header_field_start") EXCEPT !.flags = @ \cup {"TRAILING"}]
            more == In("chunk_data")
<1>1. InTurn /\ Fit(parser) /\ parser.state = "chunk_size_almost_done"
  <2>1. At({"chunk_size_almost_done"})
    BY DEF ChunkSizeAlmostDone
  <2>. QED
    BY <2>1, InTurnFacts
<1>2. \/ Do(Error("STRICT"))
      \/ Callback("chunk_header", <<>>, Uncounted(Advance(final)))
      \/ parser.content_length # 0 /\ Callback("chunk_header", <<>>, Uncounted(Advance(more)))
  BY DEF ChunkSizeAlmostDone
<1>3. "CHUNKED" \in parser.flags /\ parser.content_length # UllongMax
  BY <1>1 DEF InTurn, ParserInv, Keeps, Sound, ChunkStates, Fit
<1>4. TextOf(parser.state) = "none"
  BY <1>1, BodyStatesAreText
<1>5. Fit(final) /\ final.state = "header_field_start" /\ final.state \in PlainStates
  <2>. DEFINE r == In("header_field_start")
  <2>1. Fit(r) /\ r.state = "header_field_start"
    BY <1>1, InFit
  <2>. HIDE DEF r
  <2>. QED
    BY <2>1 DEF Fit, ParserFields, PlainStates, r
<1>6. Fit(more) /\ more.state = "chunk_data" /\ more.flags = parser.flags
      /\ more.content_length = parser.content_length
  BY <1>1, InFit
<1>. HIDE DEF final, more
<1>7. ASSUME NEW q, Good(Uncounted(Advance(q))), IsOutcome(Uncounted(Advance(q))),
             Uncounted(Advance(q)).parser.errno = "OK",
             Callback("chunk_header", <<>>, Uncounted(Advance(q)))
      PROVE  Kept
  BY <1>7, CallbackKeeps DEF Kept, Callbacks
<1>8. CASE Callback("chunk_header", <<>>, Uncounted(Advance(final)))
  <2>1. /\ Good(Uncounted(Advance(final))) /\ IsOutcome(Uncounted(Advance(final)))
        /\ Uncounted(Advance(final)).parser.errno = "OK"
    BY <1>1, <1>4, <1>5, UncountedGood
  <2>. QED
    BY <1>7, <1>8, <2>1
<1>9. CASE parser.content_length # 0 /\ Callback("chunk_header", <<>>, Uncounted(Advance(more)))
  <2>1. /\ Good(Uncounted(Advance(more))) /\ IsOutcome(Uncounted(Advance(more)))
        /\ Uncounted(Advance(more)).parser.errno = "OK"
    BY <1>1, <1>3, <1>4, <1>6, <1>9, UncountedGood
  <2>. QED
    BY <1>7, <1>9, <2>1
<1>. QED
  BY <1>1, <1>2, <1>8, <1>9, ErrorKept

LEMMA ChunkDataKept == ASSUME ParserInv, ChunkData PROVE Kept
<1>. DEFINE n == ToRead
            s == IF parser.content_length = n THEN "chunk_data_almost_done" ELSE parser.state
            q == [parser EXCEPT !.content_length = @ - n, !.state = s]
            to == pos + n
<1>1. InTurn /\ Fit(parser) /\ parser.state = "chunk_data"
  <2>1. At({"chunk_data"})
    BY DEF ChunkData
  <2>. QED
    BY <2>1, InTurnFacts
<1>2. Do(Marked(AdvanceTo(q, to), "body"))
  BY DEF ChunkData
<1>3. /\ n \in Nat \ {0} /\ n <= parser.content_length /\ pos + n <= call.end + 1
      /\ n # parser.content_length => pos + n = call.end + 1
  BY <1>1 DEF ToRead, InTurn, ParserInv, Keeps, Typed, Within, Sound, Fit
<1>4. "CHUNKED" \in parser.flags
  BY <1>1 DEF InTurn, ParserInv, Keeps, Sound, ChunkStates, Fit
<1>. HIDE DEF n
<1>5. s \in {"chunk_data", "chunk_data_almost_done"} /\ (s = "chunk_data" <=> parser.content_length # n)
  BY <1>1
<1>. HIDE DEF s
<1>6. Fit(q) /\ q.state = s /\ q.content_length = parser.content_length - n /\ q.flags = parser.flags
      /\ q.content_length # UllongMax
  BY <1>1, <1>3, ParserAssumption DEF Fit, ParserFields
<1>7. to \in Nat /\ pos < to /\ to <= call.end + 1 /\ (s = "chunk_data" => to > call.end)
  BY <1>1, <1>3, <1>5 DEF InTurn, ParserInv, Keeps, Typed, Fit
<1>. HIDE DEF q, to
<1>8. Sound(q, [call EXCEPT !.fetched = FALSE])
  BY <1>1, <1>3, <1>4, <1>5, <1>6 DEF Sound, Fit
<1>9. TextOf(parser.state) = "body" /\ TextOf(q.state) = "body"
  BY <1>1, <1>5, <1>6, BodyStatesAreText
<1>. QED
  BY <1>1, <1>2, <1>5, <1>6, <1>7, <1>8, <1>9, BodyMarkedKept

LEMMA ChunkDataAlmostDoneKept == ASSUME ParserInv, ChunkDataAlmostDone PROVE Kept
<1>1. InTurn /\ Fit(parser) /\ parser.state = "chunk_data_almost_done"
  <2>1. At({"chunk_data_almost_done"})
    BY DEF ChunkDataAlmostDone
  <2>. QED
    BY <2>1, InTurnFacts
<1>2. Do(Error("STRICT")) \/ Flush("body", pos - 1, Advance(In("chunk_data_done")))
  BY DEF ChunkDataAlmostDone
<1>3. "CHUNKED" \in parser.flags
  BY <1>1 DEF InTurn, ParserInv, Keeps, Sound, ChunkStates, Fit
<1>4. Fit(In("chunk_data_done")) /\ In("chunk_data_done").state = "chunk_data_done"
      /\ In("chunk_data_done").flags = parser.flags
  BY <1>1, InFit
<1>5. Sound(In("chunk_data_done"), [call EXCEPT !.fetched = FALSE])
  BY <1>3, <1>4 DEF Sound
<1>. QED
  BY <1>1, <1>2, <1>4, <1>5, FlushAdvance, BodyStatesAreText, ErrorKept

LEMMA ChunkDataDoneKept == ASSUME ParserInv, ChunkDataDone PROVE Kept
<1>. DEFINE o == Uncounted(Advance(In("chunk_size_start")))
<1>1. InTurn /\ Fit(parser) /\ parser.state = "chunk_data_done"
  <2>1. At({"chunk_data_done"})
    BY DEF ChunkDataDone
  <2>. QED
    BY <2>1, InTurnFacts
<1>2. Do(Error("STRICT")) \/ Callback("chunk_complete", <<>>, o)
  BY DEF ChunkDataDone
<1>3. "CHUNKED" \in parser.flags
  BY <1>1 DEF InTurn, ParserInv, Keeps, Sound, ChunkStates, Fit
<1>4. LET q == In("chunk_size_start")
      IN  Fit(q) /\ q.state = "chunk_size_start" /\ q.flags = parser.flags
  BY <1>1, InFit
<1>5. IsOutcome(o) /\ Good(o) /\ o.parser.errno = "OK"
  BY <1>1, <1>3, <1>4, UncountedGood, BodyStatesAreText
<1>. HIDE DEF o
<1>. QED
  BY <1>1, <1>2, <1>5, CallbackKeeps, ErrorKept DEF Kept, Callbacks

-----------------------------------------------------------------------------
(* A call begins and ends. *)

LEMMA InitKeeps ==
  ASSUME ParserInit
  PROVE  stream \in Streams /\ ParserInv
<1>1. stream \in Streams /\ parser = HttpParserInit(stream.type) /\ pos = 1 /\ call = NoCall
  BY DEF ParserInit
<1>2. /\ Fit(parser) /\ parser.state = StartState(stream.type)
  BY <1>1, ParserAssumption DEF HttpParserInit, Fit, ParserFields
<1>3. StartState(stream.type) \in PlainStates
  <2>1. stream.type \in {"request", "response", "both"}
    BY <1>1, StreamAssumption
  <2>. QED
    BY <2>1 DEF StartState, PlainStates
<1>4. Typed(parser, pos, call)
  BY <1>1, <1>2, NoCallTyped DEF Fit
<1>. QED
  BY <1>1, <1>2, <1>3, <1>4, PlainIsPlain, PlainSound, NoCallKeeps DEF ParserInv

LEMMA BeginKeeps ==
  ASSUME ParserInv, stream \in Streams, NEW size \in BufferSizes, Begin(size)
  PROVE  ParserInv'
<1>. DEFINE length == Len(stream.wire)
            end == IF pos + size > length THEN length ELSE pos + size - 1
            marks == [cb \in DataCallbacks |-> IF MarkOf(parser.state) = cb THEN pos ELSE 0]
            c == [end |-> end, nread |-> parser.nread, fetched |-> FALSE, marks |-> marks]
<1>1. ~Running /\ parser.errno = "OK" /\ pos <= length /\ call' = c /\ pos' = pos /\ parser' = parser
  BY DEF Begin
<1>2. length \in Nat
  BY StreamAssumption
<1>3. size \in Nat \ {0} /\ Fit(parser) /\ pos \in Nat \ {0}
  BY <1>1, ParserAssumption DEF ParserInv, Keeps, Typed, Fit
<1>. HIDE DEF length
<1>4. end \in Nat /\ pos <= end
  BY <1>1, <1>2, <1>3
<1>. HIDE DEF end
<1>5. \A cb \in DataCallbacks : marks[cb] # 0 => cb = MarkOf(parser.state)
  OBVIOUS
<1>6. marks \in [DataCallbacks -> Nat]
  BY <1>3
<1>. HIDE DEF marks
<1>7. DOMAIN c = {"end", "nread", "fetched", "marks"} /\ c.end = end /\ c.nread = parser.nread
      /\ c.fetched \in BOOLEAN /\ ~c.fetched /\ c.marks = marks
  OBVIOUS
<1>. HIDE DEF c
<1>8. Typed(parser, pos, c)
  BY <1>3, <1>4, <1>6, <1>7 DEF Typed, Fit
<1>9. Within(parser, pos, c)
  BY <1>1, <1>3, <1>4, <1>7 DEF Within
<1>10. Marking(parser, pos, c)
  BY <1>5, <1>7 DEF Marking, TextOf, MarkOf, UrlStates, ServerStates, DataCallbacks
<1>11. Sound(parser, c)
  BY <1>1, <1>7 DEF ParserInv, Keeps, Sound
<1>. QED
  BY <1>1, <1>8, <1>9, <1>10, <1>11 DEF ParserInv, Keeps, Typed, Within, Marking, Sound

LEMMA FetchKeeps == ASSUME ParserInv, Fetch PROVE ParserInv'
<1>. DEFINE c == [call EXCEPT !.fetched = TRUE]
            d == [c EXCEPT !.nread = @ + 1]
            o == [Again(parser) EXCEPT !.call.fetched = TRUE]
            counted == [o EXCEPT !.call.nread = @ + 1]
            over == Leave([counted EXCEPT !.parser.errno = "HEADER_OVERFLOW"])
            e == [parser EXCEPT !.errno = "HEADER_OVERFLOW"]
<1>1. Running /\ ~call.fetched /\ pos <= call.end
  BY DEF Fetch
<1>2. \/ parser.state \in BodyStates /\ Ends(o)
      \/ Ends(counted) \/ Ends(over)
  BY DEF Fetch, Do, Counted
<1>3. o.parser = parser /\ o.pos = pos /\ o.call = c /\ IsOutcome(o)
  BY DEF Again, IsOutcome
<1>. HIDE DEF o
<1>4. counted.parser = parser /\ counted.pos = pos /\ counted.call = d /\ IsOutcome(counted)
  BY <1>3 DEF IsOutcome
<1>. HIDE DEF counted
<1>5. over.parser = [e EXCEPT !.nread = d.nread] /\ over.pos = pos /\ over.call = NoCall
  BY <1>4 DEF IsOutcome, Leave
<1>. HIDE DEF over
<1>6. /\ Typed(parser, pos, c) /\ c.end = call.end /\ c.marks = call.marks /\ c.fetched
      /\ c.nread = call.nread
  BY DEF ParserInv, Keeps, Typed
<1>7. /\ Typed(parser, pos, d) /\ d.end = call.end /\ d.marks = call.marks /\ d.fetched
      /\ d.nread = call.nread + 1 /\ d.nread \in Nat
  BY <1>6 DEF ParserInv, Keeps, Typed
<1>. HIDE DEF c, d
<1>8. CASE parser.state \in BodyStates /\ Ends(o)
  <2>1. Within(parser, pos, c) /\ Marking(parser, pos, c) /\ Sound(parser, c)
    BY <1>1, <1>6, <1>8 DEF ParserInv, Keeps, Within, Marking, Sound, Running, BodyStates
  <2>. QED
    BY <1>3, <1>6, <1>8, <2>1 DEF Ends, ParserInv, Keeps, Typed, Within, Marking, Sound
<1>9. CASE Ends(counted)
  <2>1. Within(parser, pos, d) /\ Marking(parser, pos, d)
    BY <1>1, <1>7 DEF ParserInv, Keeps, Within, Marking, Running
  <2>2. Sound(parser, d)
    BY <1>1, <1>7 DEF ParserInv, Keeps, Sound, Running
  <2>. QED
    BY <1>4, <1>7, <1>9, <2>1, <2>2 DEF Ends, ParserInv, Keeps, Typed, Within, Marking, Sound
<1>10. CASE Ends(over)
  <2>1. ParserFields \subseteq DOMAIN e /\ e.errno = "HEADER_OVERFLOW" /\ e.content_length \in 0..UllongMax
    BY ErrnoSet DEF ParserInv, Keeps, Typed
  <2>. HIDE DEF e
  <2>2. Typed(over.parser, over.pos, over.call) /\ over.parser.errno = "HEADER_OVERFLOW"
    BY <1>5, <1>7, <2>1, NreadSet, NoCallFacts DEF ParserInv, Keeps, Typed
  <2>3. Keeps(over.parser, over.pos, over.call)
    BY <1>5, <2>2, NoCallKeeps DEF Sound
  <2>. QED
    BY <1>10, <2>3 DEF Ends, ParserInv, Keeps, Typed, Within, Marking, Sound
<1>. QED
  BY <1>2, <1>8, <1>9, <1>10

\* The end of a call that leaves the parser in its state.
LEMMA LeaveKeeps ==
  ASSUME ParserInv, NEW o, IsOutcome(o), o.parser = parser, Typed(parser, o.pos, o.call),
         parser.state = "chunk_size_start" => o.call.nread = 0, Ends(Leave(o))
  PROVE  ParserInv'
<1>. DEFINE q == [parser EXCEPT !.nread = o.call.nread]
            left == Leave(o)
<1>1. left.parser = q /\ left.pos = o.pos /\ left.call = NoCall
  BY DEF Leave, IsOutcome
<1>2. /\ ParserFields \subseteq DOMAIN q /\ q.nread = o.call.nread /\ q.errno = parser.errno
      /\ q.state = parser.state /\ q.header_state = parser.header_state /\ q.phase = parser.phase
      /\ q.flags = parser.flags /\ q.content_length = parser.content_length
  BY NreadSet DEF Typed
<1>. HIDE DEF q, left
<1>3. Typed(q, o.pos, NoCall)
  BY <1>2, NoCallTyped DEF Typed
<1>4. Sound(q, NoCall)
  BY <1>2, NoCallFacts DEF ParserInv, Keeps, Sound
<1>5. Keeps(left.parser, left.pos, left.call)
  BY <1>1, <1>3, <1>4, NoCallKeeps
<1>. QED
  BY <1>5 DEF left, Ends, ParserInv, Keeps, Typed, Within, Marking, Sound

LEMMA FinishKeeps == ASSUME ParserInv, Finish PROVE ParserInv'
<1>. DEFINE marked == {cb \in DataCallbacks : call.marks[cb] # 0}
            text == CHOOSE cb \in marked : TRUE
            o == AdvanceTo(parser, pos)
            c == [call EXCEPT !.fetched = FALSE]
<1>1. Running /\ ~call.fetched /\ pos > call.end
  BY DEF Finish
<1>2. \/ Ends(Leave(o))
      \/ marked # {} /\ FlushThen(text, call.end, o, Leave)
  BY DEF Finish, Do, Return
<1>3. o.parser = parser /\ o.pos = pos /\ o.call = c /\ IsOutcome(o)
  BY DEF AdvanceTo, IsOutcome
<1>4. Typed(parser, pos, c) /\ c.end = call.end /\ c.nread = call.nread
  BY DEF ParserInv, Keeps, Typed
<1>5. parser.errno = "OK" /\ (parser.state = "chunk_size_start" => call.nread = 0)
  BY <1>1 DEF ParserInv, Keeps, Within, Sound, Running
<1>6. CASE Ends(Leave(o))
  <2>. HIDE DEF o, c
  <2>. QED
    BY <1>3, <1>4, <1>5, <1>6, LeaveKeeps
<1>7. CASE marked # {} /\ FlushThen(text, call.end, o, Leave)
  <2>1. text \in marked
    <3>. HIDE DEF marked
    <3>. QED
      BY <1>7
  <2>2. text \in DataCallbacks /\ call.marks[text] # 0
    BY <2>1
  <2>. HIDE DEF text, marked
  <2>. DEFINE cleared == [o EXCEPT !.call.marks[text] = 0]
              d == [c EXCEPT !.marks[text] = 0]
  <2>3. Ends(Leave(cleared)) \/ Interrupted(cleared, text)
    BY <1>7, <2>2 DEF FlushThen, CallbackThen, Interrupted
  <2>4. cleared.parser = parser /\ cleared.pos = pos /\ cleared.call = d /\ IsOutcome(cleared)
    BY <1>3 DEF IsOutcome
  <2>5. Typed(parser, pos, d) /\ d.nread = call.nread /\ d.end = call.end /\ d.fetched = c.fetched
    BY <1>4 DEF Typed
  <2>6. ~c.fetched
    BY DEF ParserInv, Keeps, Typed
  <2>. HIDE DEF cleared, d, o, c
  <2>7. Sound(parser, d)
    BY <1>1, <2>5, <2>6 DEF ParserInv, Keeps, Sound
  <2>8. CASE Ends(Leave(cleared))
    BY <1>5, <2>4, <2>5, <2>8, LeaveKeeps
  <2>9. CASE Interrupted(cleared, text)
    BY <1>5, <2>2, <2>4, <2>5, <2>7, <2>9, InterruptedKeeps DEF Callbacks
  <2>. QED
    BY <2>3, <2>8, <2>9
<1>. QED
  BY <1>2, <1>6, <1>7

LEMMA EofKeeps == ASSUME ParserInv, Eof PROVE ParserInv'
<1>. DEFINE c == [NoCall EXCEPT !.nread = parser.nread]
            o == [parser |-> parser, pos |-> pos + 1, call |-> c]
            left == Leave(o)
            failed == [left EXCEPT !.parser.errno = "INVALID_EOF_STATE"]
<1>1. ~Running /\ parser.errno = "OK"
  BY DEF Eof
<1>2. Ends(left) \/ Interrupted(o, "message_complete") \/ Ends(failed)
  BY DEF Eof, CallbackThen, Interrupted, Do
<1>3. o.parser = parser /\ o.pos = pos + 1 /\ o.call = c /\ IsOutcome(o)
  BY DEF IsOutcome
<1>4. /\ DOMAIN c = DOMAIN NoCall /\ c.end = NoCall.end /\ c.nread = parser.nread
      /\ c.fetched = NoCall.fetched /\ c.marks = NoCall.marks
  BY NoCallFacts
<1>. HIDE DEF c
<1>5. Typed(parser, pos + 1, c)
  BY <1>4, NoCallFacts DEF ParserInv, Keeps, Typed
<1>6. Sound(parser, c)
  BY <1>4, NoCallFacts DEF ParserInv, Keeps, Sound
<1>7. parser.state = "chunk_size_start" => c.nread = 0
  BY <1>1, <1>4 DEF ParserInv, Keeps, Sound
<1>. HIDE DEF o
<1>8. CASE Ends(left)
  BY <1>3, <1>5, <1>7, <1>8, LeaveKeeps
<1>9. CASE Interrupted(o, "message_complete")
  BY <1>1, <1>3, <1>5, <1>6, <1>9, InterruptedKeeps DEF Callbacks
<1>10. CASE Ends(failed)
  <2>. DEFINE q == [parser EXCEPT !.nread = c.nread]
  <2>1. failed.parser = [q EXCEPT !.errno = "INVALID_EOF_STATE"] /\ failed.pos = pos + 1
        /\ failed.call = NoCall
    BY <1>3 DEF Leave, IsOutcome
  <2>2. ParserFields \subseteq DOMAIN q /\ q.nread \in Nat /\ q.content_length \in 0..UllongMax
    BY <1>5, NreadSet DEF Typed
  <2>. HIDE DEF q, failed
  <2>3. Typed(failed.parser, failed.pos, failed.call) /\ failed.parser.errno = "INVALID_EOF_STATE"
    BY <1>5, <2>1, <2>2, ErrnoSet, NoCallFacts DEF Typed
  <2>4. Keeps(failed.parser, failed.pos, failed.call)
    BY <2>1, <2>3, NoCallKeeps DEF Sound
  <2>. QED
    BY <1>10, <2>4 DEF Ends, ParserInv, Keeps, Typed, Within, Marking, Sound
<1>. QED
  BY <1>2, <1>8, <1>9, <1>10

LEMMA ResumeKeeps == ASSUME ParserInv, Resume PROVE ParserInv'
<1>. DEFINE q == [parser EXCEPT !.errno = "OK"]
<1>1. parser.errno = "PAUSED" /\ parser' = q /\ pos' = pos /\ call' = NoCall
  BY DEF Resume, Do, Ends
<1>2. /\ ParserFields \subseteq DOMAIN q /\ q.errno = "OK" /\ q.nread = parser.nread
      /\ q.state = parser.state /\ q.header_state = parser.header_state /\ q.phase = parser.phase
      /\ q.flags = parser.flags /\ q.content_length = parser.content_length
  BY ErrnoSet DEF ParserInv, Keeps, Typed
<1>. HIDE DEF q
<1>3. Typed(q, pos, NoCall)
  BY <1>2, NoCallTyped DEF ParserInv, Keeps, Typed
<1>4. Sound(q, NoCall)
  BY <1>1, <1>2, NoCallFacts DEF ParserInv, Keeps, Sound
<1>5. Keeps(q, pos, NoCall)
  BY <1>3, <1>4, NoCallKeeps
<1>. QED
  BY <1>1, <1>5 DEF ParserInv, Keeps, Typed, Within, Marking, Sound

-----------------------------------------------------------------------------
(* The theorems about the parser. *)

HeadersInv == stream \in Streams /\ ParserInv

LEMMA ExecuteKeeps ==
  ASSUME ParserInv, NEW answers, Execute(answers)
  PROVE  ParserInv' /\ stream' = stream /\ (Fetch \/ Finish \/ Kept)
<1>1. CASE Fetch
  BY <1>1, FetchKeeps DEF Fetch, Do, Ends
<1>2. CASE Finish
  <2>1. stream' = stream
    BY <1>2 DEF Finish, FlushThen, CallbackThen, Do, Ends
  <2>. QED
    BY <1>2, <2>1, FinishKeeps
<1>. DEFINE FirstLine ==
              \/ Dead \/ StartReqOrRes \/ ResOrRespH \/ StartRes \/ StrictLetter \/ Version
              \/ StatusCode \/ StatusStart \/ Status
              \/ StartReq \/ ReqMethod \/ SpacesBeforeUrl \/ Url \/ ReqHttpStart \/ ReqHttpEnd
              \/ ReqLineAlmostDone
            Headers ==
              \/ HeaderFieldStart \/ HeaderField \/ HeaderValueDiscardWs \/ HeaderValueStart
              \/ HeaderValue \/ HeaderAlmostDone \/ HeaderValueLws \/ HeaderValueDiscardLws
              \/ HeadersAlmostDone(answers) \/ HeadersDone
            Bodies ==
              \/ BodyIdentity \/ BodyIdentityEof \/ MessageDone
              \/ ChunkSize \/ ChunkParameters \/ ChunkSizeAlmostDone
              \/ ChunkData \/ ChunkDataAlmostDone \/ ChunkDataDone
<1>3. FirstLine => Kept
  BY DeadKept, StartReqOrResKept, ResOrRespHKept, StartResKept, StrictLetterKept, VersionKept,
     StatusCodeKept, StatusStartKept, StatusKept, StartReqKept, ReqMethodKept, SpacesBeforeUrlKept,
     UrlKept, ReqHttpStartKept, ReqHttpEndKept, ReqLineAlmostDoneKept
<1>4. Headers => Kept
  BY HeaderFieldStartKept, HeaderFieldKept, HeaderValueDiscardWsKept, HeaderValueStartKept,
     HeaderValueKept, HeaderAlmostDoneKept, HeaderValueLwsKept, HeaderValueDiscardLwsKept,
     HeadersAlmostDoneKept, HeadersDoneKept
<1>5. Bodies => Kept
  BY BodyIdentityKept, BodyIdentityEofKept, MessageDoneKept, ChunkSizeKept, ChunkParametersKept,
     ChunkSizeAlmostDoneKept, ChunkDataKept, ChunkDataAlmostDoneKept, ChunkDataDoneKept
<1>6. Fetch \/ Finish \/ FirstLine \/ Headers \/ Bodies
  BY DEF Execute
<1>7. FirstLine => stream' = stream
  BY DEF Dead, StartReqOrRes, ResOrRespH, StartRes, StrictLetter, Version, StatusCode, StatusStart,
         Status, StartReq, ReqMethod, SpacesBeforeUrl, Url, ReqHttpStart, ReqHttpEnd, ReqLineAlmostDone,
         Flush, FlushThen, Callback, CallbackThen, Do, Ends
<1>8. Headers => stream' = stream
  <2>1. ASSUME NEW o, Do(o) PROVE stream' = stream
    BY <2>1 DEF Do, Ends
  <2>2. ASSUME NEW cb, NEW data, NEW o, Callback(cb, data, o) PROVE stream' = stream
    BY <2>2 DEF Callback, CallbackThen, Ends
  <2>3. ASSUME NEW cb, NEW last, NEW o, Flush(cb, last, o) PROVE stream' = stream
    BY <2>3 DEF Flush, FlushThen, CallbackThen, Do, Ends
  <2>4. ASSUME NEW o, NEW leaves, Complete(o, leaves) PROVE stream' = stream
    BY <2>4 DEF Complete, Callback, CallbackThen, Ends
  <2>5. HeaderFieldStart \/ HeaderField \/ HeaderValueDiscardWs \/ HeaderValueStart => stream' = stream
    BY <2>1, <2>3 DEF HeaderFieldStart, HeaderField, HeaderValueDiscardWs, HeaderValueStart
  <2>6. HeaderValue => stream' = stream
    BY <2>1, <2>3, SMTT(30) DEF HeaderValue, FlushThen, CallbackThen, Do, Ends
  <2>7. HeaderAlmostDone \/ HeaderValueLws \/ HeaderValueDiscardLws => stream' = stream
    BY <2>1, <2>2 DEF HeaderAlmostDone, HeaderValueLws, HeaderValueDiscardLws
  <2>8. HeadersAlmostDone(answers) => stream' = stream
    BY <2>1, <2>2 DEF HeadersAlmostDone, Ends
  <2>9. HeadersDone => stream' = stream
    BY <2>1, <2>4 DEF HeadersDone
  <2>. QED
    BY <2>5, <2>6, <2>7, <2>8, <2>9
<1>9. Bodies => stream' = stream
  BY DEF BodyIdentity, BodyIdentityEof, MessageDone, ChunkSize, ChunkParameters, ChunkSizeAlmostDone,
         ChunkData, ChunkDataAlmostDone, ChunkDataDone,
         Complete, Flush, FlushThen, Callback, CallbackThen, Do, Ends
<1>. HIDE DEF FirstLine, Headers, Bodies
<1>. QED
  BY <1>1, <1>2, <1>3, <1>4, <1>5, <1>6, <1>7, <1>8, <1>9 DEF Kept

LEMMA NextKeeps ==
  ASSUME HeadersInv, [Next]_vars
  PROVE  HeadersInv'
<1>1. CASE UNCHANGED vars
  BY <1>1 DEF vars, parserVars, HeadersInv, ParserInv, Keeps, Typed, Within, Marking, Sound
<1>2. ASSUME NEW size \in BufferSizes, Begin(size) PROVE HeadersInv'
  BY <1>2, BeginKeeps DEF HeadersInv, Begin
<1>3. ASSUME NEW answers, Execute(answers) PROVE HeadersInv'
  BY <1>3, ExecuteKeeps DEF HeadersInv
<1>4. CASE Eof
  <2>1. stream' = stream
    BY <1>4 DEF Eof, CallbackThen, Do, Ends
  <2>. QED
    BY <1>4, <2>1, EofKeeps DEF HeadersInv
<1>5. CASE Resume
  BY <1>5, ResumeKeeps DEF HeadersInv, Resume, Do, Ends
<1>. QED
  BY <1>1, <1>2, <1>3, <1>4, <1>5 DEF Next, SocketNext, ReadIncomingData, SocketExecutes, ApplicationNext

LEMMA Invariance == Spec => []HeadersInv
<1>1. Init => HeadersInv
  BY InitKeeps DEF Init, HeadersInv
<1>2. HeadersInv /\ [Next]_vars => HeadersInv'
  BY NextKeeps
<1>. QED
  BY <1>1, <1>2, PTL DEF Spec

\* Whatever a connection carries, in whatever buffers, and whatever the
\* callbacks do, no assert of http_parser_execute fails.
THEOREM AssertsHoldHolds == Spec => []AssertsHold
<1>1. HeadersInv => AssertsHold
  <2>. SUFFICES ASSUME HeadersInv PROVE AssertsHold
    OBVIOUS
  <2>. DEFINE marked == {cb \in DataCallbacks : call.marks[cb] # 0}
              text == {TextOf(parser.state)}
  <2>1. Cardinality(marked) <= 1
    <3>1. marked \subseteq text
      BY DEF HeadersInv, ParserInv, Keeps, Marking
    <3>2. IsFiniteSet(text) /\ Cardinality(text) = 1
      BY FS_Singleton
    <3>3. Cardinality(marked) <= Cardinality(text)
      BY <3>1, <3>2, FS_Subset
    <3>. QED
      BY <3>2, <3>3
  <2>2. ASSUME NEW states, At(states)
        PROVE  parser.errno = "OK" /\ call.end # 0 /\ call.fetched /\ parser.state \in states
    BY <2>2 DEF At, Running, HeadersInv, ParserInv, Keeps, Within
  <2>3. ParserInv
    BY DEF HeadersInv
  <2>4. At({"header_value"}) => ~(parser.header_state \in ListKinds /\ parser.phase = "name")
    BY <2>2, <2>3 DEF ParserInv, Keeps, Sound
  <2>5. At({"body_identity", "chunk_data"}) => parser.content_length \notin {0, UllongMax}
    BY <2>2, <2>3 DEF ParserInv, Keeps, Sound
  <2>6. At({"chunk_data_almost_done"}) => parser.content_length = 0
    BY <2>2, <2>3 DEF ParserInv, Keeps, Sound
  <2>7. At({"chunk_size_start"}) => call.nread = 1
    BY <2>2, <2>3 DEF ParserInv, Keeps, Sound
  <2>8. At({"chunk_size_start", "chunk_size", "chunk_data", "chunk_data_done"}) =>
          "CHUNKED" \in parser.flags
    BY <2>2, <2>3 DEF ParserInv, Keeps, Sound, ChunkStates
  <2>. QED
    BY <2>1, <2>4, <2>5, <2>6, <2>7, <2>8 DEF AssertsHold
<1>. QED
  BY <1>1, Invariance, PTL

\* For every stream, every buffer and every callback, a turn of the loop of
\* http_parser_execute takes a byte or moves on in an order of states without
\* cycles, and a call that is over has read its buffer.
THEOREM EveryByteIsReadHolds == Spec => EveryByteIsRead
<1>. DEFINE Reads == Running /\ call.fetched =>
                       /\ \/ pos' > pos
                          \/ pos' = pos /\ Later(parser.state, parser'.state)
                          \/ parser'.errno # "OK"
                       /\ ~Running' => parser'.errno # "OK" \/ parser'.upgrade
<1>1. HeadersInv /\ [Next]_vars => [Reads]_parserVars
  <2>. SUFFICES ASSUME HeadersInv, Next, Running, call.fetched PROVE Reads
    BY DEF vars
  <2>1. Kept => Reads
    BY DEF Kept, Turn, Running
  <2>2. pos <= call.end /\ parser.errno = "OK"
    BY DEF HeadersInv, ParserInv, Keeps, Within
  <2>3. ASSUME NEW answers, Execute(answers) PROVE Reads
    <3>1. ~Fetch
      BY DEF Fetch
    <3>2. ~Finish
      BY <2>2 DEF Finish
    <3>. HIDE DEF Reads
    <3>. QED
      BY <2>1, <2>3, <3>1, <3>2, ExecuteKeeps DEF HeadersInv
  <2>4. \A size \in BufferSizes : ~Begin(size)
    BY DEF Begin
  <2>5. ~Eof
    BY DEF Eof
  <2>6. ~Resume
    BY <2>2 DEF Resume
  <2>. HIDE DEF Reads
  <2>. QED
    BY <2>3, <2>4, <2>5, <2>6 DEF Next, SocketNext, ReadIncomingData, SocketExecutes, ApplicationNext
<1>. QED
  BY <1>1, Invariance, PTL DEF Spec, EveryByteIsRead

-----------------------------------------------------------------------------
(* The headers that a log has. *)

\* The methods that a parser may find.
Methods == {MethodOf[c] : c \in DOMAIN MethodOf} \cup {t[4] : t \in MethodTurns}

\* An entry of the log.
Entry == [cb : Callbacks, data : Seq(AllChar \cup Methods)]

LastIs(l, cb) == l # <<>> /\ l[Len(l)].cb = cb

\* A message has begun.
Begun(l) == \E j \in 1..Len(l) : l[j].cb = "message_begin"

\* The positions of the names of the last message.
NamesAt(l) ==
  {k \in 1..Len(l) - 1 :
     /\ l[k].cb = "header_field" /\ l[k + 1].cb = "header_value"
     /\ \A j \in k..Len(l) : l[j].cb # "message_begin"
     /\ \E j \in 1..k : l[j].cb = "message_begin"}

NameAt(l, k) == Lower(l[k].data)

\* The last position of a name.
Latest(l, k) == k \in NamesAt(l) /\ \A j \in NamesAt(l) : NameAt(l, j) = NameAt(l, k) => j <= k

\* h has the headers of the last message.
AreSent(h, l) ==
  /\ h = [n \in DOMAIN h |-> h[n]]
  /\ DOMAIN h = {NameAt(l, k) : k \in NamesAt(l)}
  /\ \A k \in 1..Len(l) : Latest(l, k) => h[NameAt(l, k)] = l[k + 1].data

\* A set of numbers that is bounded and not empty has a greatest one.
LEMMA GreatestNatural ==
  ASSUME NEW bound \in Nat, NEW S \in SUBSET (0..bound), S # {}
  PROVE  \E n \in S : \A m \in S : m <= n
<1>. DEFINE T == {n \in Nat : \E m \in S : n = bound - m}
<1>1. T # {} /\ T \in SUBSET Nat
  <2>1. PICK m \in S : TRUE
    OBVIOUS
  <2>2. bound - m \in T
    BY <2>1
  <2>. QED
    BY <2>2
<1>. HIDE DEF T
<1>2. PICK n \in T : \A m \in T : n <= m
  BY <1>1, LeastNatural
<1>3. PICK s \in S : n = bound - s
  BY DEF T
<1>4. ASSUME NEW m \in S PROVE m <= s
  <2>1. bound - m \in T
    BY DEF T
  <2>2. n <= bound - m
    BY <1>2, <2>1
  <2>. QED
    BY <1>3, <2>2
<1>. QED
  BY <1>4

LEMMA SomeIsLatest ==
  ASSUME NEW l, Len(l) \in Nat, NEW k \in NamesAt(l)
  PROVE  \E i \in NamesAt(l) : NameAt(l, i) = NameAt(l, k) /\ Latest(l, i)
<1>. DEFINE S == {i \in NamesAt(l) : NameAt(l, i) = NameAt(l, k)}
<1>1. S \in SUBSET (0..Len(l)) /\ k \in S
  BY DEF NamesAt
<1>2. PICK n \in S : \A m \in S : m <= n
  <2>. HIDE DEF S
  <2>. QED
    BY <1>1, GreatestNatural
<1>. QED
  BY <1>2 DEF Latest

LEMMA SentUnique ==
  ASSUME NEW l, Len(l) \in Nat, NEW h, NEW g, AreSent(h, l), AreSent(g, l)
  PROVE  h = g
<1>1. DOMAIN h = DOMAIN g
  BY DEF AreSent
<1>2. ASSUME NEW n \in DOMAIN h PROVE h[n] = g[n]
  <2>1. PICK k \in NamesAt(l) : n = NameAt(l, k)
    BY DEF AreSent
  <2>2. PICK i \in NamesAt(l) : n = NameAt(l, i) /\ Latest(l, i)
    BY <2>1, SomeIsLatest
  <2>3. i \in 1..Len(l)
    BY DEF NamesAt
  <2>. QED
    BY <2>2, <2>3 DEF AreSent
<1>. QED
  BY <1>1, <1>2 DEF AreSent

\* The last message's part of the log.
LEMMA SinceIs ==
  ASSUME NEW l, l \in Seq(Entry), Begun(l)
  PROVE  \E b \in 1..Len(l) : /\ l[b].cb = "message_begin"
                              /\ \A j \in 1..Len(l) : l[j].cb = "message_begin" => j <= b
                              /\ Since(l, "message_begin") = SubSeq(l, b, Len(l))
<1>. DEFINE at == {i \in DOMAIN l : l[i].cb = "message_begin"}
            Last1(i) == \A j \in at : j <= i
            b == CHOOSE i \in at : Last1(i)
<1>1. DOMAIN l = 1..Len(l) /\ Len(l) \in Nat
  BY LenProperties
<1>2. at \in SUBSET (0..Len(l)) /\ at # {}
  BY <1>1 DEF Begun
<1>3. \E i \in at : Last1(i)
  <2>. HIDE DEF at
  <2>. QED
    BY <1>1, <1>2, GreatestNatural
<1>4. b \in at /\ Last1(b)
  <2>. HIDE DEF at, Last1
  <2>. QED
    BY <1>3
<1>5. Since(l, "message_begin") = SubSeq(l, b, Len(l))
  BY <1>2 DEF Since
<1>. HIDE DEF b
<1>. QED
  BY <1>1, <1>4, <1>5

LEMMA PairsAre ==
  ASSUME NEW l, l \in Seq(Entry), Begun(l)
  PROVE  \E b \in 1..Len(l) :
           Pairs(l) = {<<k - b + 1, NameAt(l, k), l[k + 1].data>> : k \in NamesAt(l)}
<1>1. PICK b \in 1..Len(l) : /\ l[b].cb = "message_begin"
                             /\ \A j \in 1..Len(l) : l[j].cb = "message_begin" => j <= b
                             /\ Since(l, "message_begin") = SubSeq(l, b, Len(l))
  BY SinceIs
<1>. DEFINE e == SubSeq(l, b, Len(l))
            Is(k) == e[k].cb = "header_field" /\ e[k + 1].cb = "header_value"
            Pair(i) == <<i, Lower(e[i].data), e[i + 1].data>>
            Other(k) == <<k - b + 1, NameAt(l, k), l[k + 1].data>>
<1>2. Len(l) \in Nat /\ \A i \in 1..Len(l) : l[i] \in Entry
  BY LenProperties, ElementOfSeq
<1>3. Len(e) = Len(l) - b + 1 /\ \A i \in 1..Len(l) - b + 1 : e[i] = l[b + i - 1]
  BY <1>2, SubSeqProperties
<1>4. Pairs(l) = {Pair(i) : i \in {k \in 1..Len(e) - 1 : Is(k)}}
  BY <1>1 DEF Pairs
<1>. HIDE DEF e
<1>5. ASSUME NEW i \in 1..Len(e) - 1, Is(i) PROVE b + i - 1 \in NamesAt(l) /\ Pair(i) = Other(b + i - 1)
  <2>1. /\ i \in 1..Len(l) - b + 1 /\ i + 1 \in 1..Len(l) - b + 1
        /\ b + i - 1 \in 1..Len(l) - 1 /\ b + (i + 1) - 1 = b + i - 1 + 1 /\ (b + i - 1) - b + 1 = i
    BY <1>2, <1>3
  <2>2. e[i] = l[b + i - 1] /\ e[i + 1] = l[b + i - 1 + 1]
    BY <1>3, <2>1
  <2>3. l[b + i - 1].cb # "message_begin" /\ b # b + i - 1
    BY <1>1, <1>5, <2>2
  <2>4. \A j \in b + i - 1..Len(l) : l[j].cb # "message_begin"
    BY <1>1, <1>2, <2>1, <2>3, SMTT(30)
  <2>5. b \in 1..b + i - 1
    BY <1>2
  <2>6. b + i - 1 \in NamesAt(l)
    BY <1>1, <1>5, <2>1, <2>2, <2>4, <2>5 DEF NamesAt
  <2>. QED
    BY <2>1, <2>2, <2>6 DEF NameAt
<1>6. ASSUME NEW k \in NamesAt(l) PROVE k - b + 1 \in 1..Len(e) - 1 /\ Is(k - b + 1) /\ Other(k) = Pair(k - b + 1)
  <2>1. /\ k \in 1..Len(l) - 1 /\ l[k].cb = "header_field" /\ l[k + 1].cb = "header_value"
        /\ (\A j \in k..Len(l) : l[j].cb # "message_begin")
    BY DEF NamesAt
  <2>2. b < k
    <3>1. b \notin k..Len(l)
      BY <1>1, <2>1
    <3>. QED
      BY <1>2, <2>1, <3>1
  <2>3. k - b + 1 \in 1..Len(l) - b + 1 /\ k - b + 1 + 1 \in 1..Len(l) - b + 1 /\ k - b + 1 \in 1..Len(e) - 1
        /\ b + (k - b + 1) - 1 = k /\ b + (k - b + 1 + 1) - 1 = k + 1
    BY <1>2, <1>3, <2>1, <2>2
  <2>4. e[k - b + 1] = l[k] /\ e[k - b + 1 + 1] = l[k + 1]
    <3>1. \A i \in 1..Len(l) - b + 1 : e[i] = l[b + i - 1]
      BY <1>3
    <3>2. e[k - b + 1] = l[b + (k - b + 1) - 1] /\ e[k - b + 1 + 1] = l[b + (k - b + 1 + 1) - 1]
      BY <2>3, <3>1, Zenon
    <3>. QED
      BY <2>3, <3>2, Zenon
  <2>. QED
    BY <2>1, <2>3, <2>4 DEF NameAt
<1>7. Pairs(l) = {Other(k) : k \in NamesAt(l)}
  <2>. HIDE DEF Is, Pair, Other
  <2>1. ASSUME NEW p \in Pairs(l) PROVE p \in {Other(k) : k \in NamesAt(l)}
    BY <1>4, <1>5
  <2>2. ASSUME NEW k \in NamesAt(l) PROVE Other(k) \in Pairs(l)
    BY <1>4, <1>6
  <2>. QED
    BY <2>1, <2>2
<1>. QED
  BY <1>7

LEMMA SentIs ==
  ASSUME NEW l, l \in Seq(Entry)
  PROVE  AreSent(Sent(l), l)
<1>. DEFINE Greatest(n, p) == p[2] = n /\ \A q \in Pairs(l) : q[2] = n => q[1] <= p[1]
            value(n) == (CHOOSE p \in Pairs(l) : Greatest(n, p))[3]
<1>1. Sent(l) = [n \in {p[2] : p \in Pairs(l)} |-> value(n)]
  BY Zenon DEF Sent
<1>2. CASE ~Begun(l)
  <2>1. Pairs(l) = {}
    <3>1. DOMAIN l = 1..Len(l)
      BY LenProperties
    <3>2. {i \in DOMAIN l : l[i].cb = "message_begin"} = {}
      BY <1>2, <3>1 DEF Begun
    <3>3. Since(l, "message_begin") = <<>>
      BY <3>2 DEF Since
    <3>4. 1..Len(<<>>) - 1 = {}
      OBVIOUS
    <3>. QED
      BY <3>3, <3>4 DEF Pairs
  <2>2. NamesAt(l) = {}
    <3>1. Len(l) \in Nat
      BY LenProperties
    <3>. QED
      BY <1>2, <3>1 DEF NamesAt, Begun
  <2>3. {p[2] : p \in Pairs(l)} = {} /\ {NameAt(l, k) : k \in NamesAt(l)} = {}
    BY <2>1, <2>2
  <2>. HIDE DEF value
  <2>4. Sent(l) = [n \in {} |-> value(n)]
    BY <1>1, <2>3
  <2>5. DOMAIN Sent(l) = {} /\ Sent(l) = [n \in DOMAIN Sent(l) |-> Sent(l)[n]]
    BY <2>4
  <2>. QED
    BY <2>2, <2>3, <2>5 DEF AreSent, Latest
<1>3. CASE Begun(l)
  <2>1. PICK b \in 1..Len(l) : Pairs(l) = {<<k - b + 1, NameAt(l, k), l[k + 1].data>> : k \in NamesAt(l)}
    BY <1>3, PairsAre
  <2>. DEFINE pair(k) == <<k - b + 1, NameAt(l, k), l[k + 1].data>>
  <2>2. Len(l) \in Nat /\ NamesAt(l) \subseteq 1..Len(l)
    BY LenProperties DEF NamesAt
  <2>3. {p[2] : p \in Pairs(l)} = {NameAt(l, k) : k \in NamesAt(l)}
    <3>1. \A k \in NamesAt(l) : pair(k)[2] = NameAt(l, k) /\ pair(k) \in Pairs(l)
      BY <2>1
    <3>2. \A p \in Pairs(l) : \E k \in NamesAt(l) : p = pair(k)
      BY <2>1
    <3>. HIDE DEF pair
    <3>3. ASSUME NEW n \in {p[2] : p \in Pairs(l)} PROVE n \in {NameAt(l, k) : k \in NamesAt(l)}
      <4>1. PICK p \in Pairs(l) : n = p[2]
        OBVIOUS
      <4>2. PICK k \in NamesAt(l) : p = pair(k)
        BY <3>2
      <4>. QED
        BY <3>1, <4>1, <4>2
    <3>4. ASSUME NEW n \in {NameAt(l, k) : k \in NamesAt(l)} PROVE n \in {p[2] : p \in Pairs(l)}
      BY <3>1
    <3>. QED
      BY <3>3, <3>4
  <2>4. ASSUME NEW k \in 1..Len(l), Latest(l, k) PROVE value(NameAt(l, k)) = l[k + 1].data
    <3>. DEFINE n == NameAt(l, k)
                p == CHOOSE p \in Pairs(l) : Greatest(n, p)
    <3>1. pair(k) \in Pairs(l)
      BY <2>1, <2>4 DEF Latest
    <3>2. ASSUME NEW q \in Pairs(l), q[2] = n PROVE q[1] <= k - b + 1
      <4>1. PICK j \in NamesAt(l) : q = pair(j)
        BY <2>1
      <4>2. j <= k
        BY <2>4, <3>2, <4>1 DEF Latest
      <4>. QED
        BY <2>2, <4>1, <4>2
    <3>3. Greatest(n, pair(k))
      BY <3>2
    <3>. HIDE DEF pair, Greatest
    <3>4. p \in Pairs(l) /\ Greatest(n, p)
      BY <3>1, <3>3
    <3>. HIDE DEF p
    <3>5. PICK j \in NamesAt(l) : p = pair(j)
      BY <2>1, <3>4 DEF pair
    <3>6. NameAt(l, j) = n /\ j <= k
      BY <2>4, <3>4, <3>5 DEF Greatest, pair, Latest
    <3>7. k - b + 1 <= j - b + 1
      BY <3>1, <3>4, <3>5 DEF Greatest, pair
    <3>8. j = k
      BY <2>2, <3>6, <3>7
    <3>9. value(n) = p[3]
      BY DEF p
    <3>. HIDE DEF value
    <3>. QED
      BY <3>5, <3>8, <3>9 DEF pair
  <2>. HIDE DEF value
  <2>5. DOMAIN Sent(l) = {NameAt(l, k) : k \in NamesAt(l)} /\ Sent(l) = [n \in DOMAIN Sent(l) |-> Sent(l)[n]]
        /\ \A n \in DOMAIN Sent(l) : Sent(l)[n] = value(n)
    BY <1>1, <2>3
  <2>. QED
    BY <2>4, <2>5 DEF AreSent, Latest
<1>. QED
  BY <1>2, <1>3

-----------------------------------------------------------------------------
(* What a callback adds to the log. *)

\* All but the last entry.
Before(l) == SubSeq(l, 1, Len(l) - 1)

LEMMA LogFacts ==
  ASSUME NEW l \in Seq(Entry)
  PROVE  /\ Len(l) \in Nat /\ DOMAIN l = 1..Len(l) /\ (l # <<>> <=> Len(l) > 0)
         /\ \A i \in 1..Len(l) : l[i] \in Entry /\ l[i].cb \in Callbacks /\ l[i].data \in Seq(AllChar \cup Methods)
<1>1. Len(l) \in Nat /\ DOMAIN l = 1..Len(l) /\ (l # <<>> <=> Len(l) > 0)
  BY LenProperties, EmptySeq
<1>2. \A i \in 1..Len(l) : l[i] \in Entry
  BY ElementOfSeq
<1>. QED
  BY <1>1, <1>2 DEF Entry

\* A piece of the text that the log ends with joins it.
LEMMA JoinedText ==
  ASSUME NEW l \in Seq(Entry), NEW cb \in DataCallbacks, LastIs(l, cb), NEW data \in Seq(AllChar \cup Methods)
  PROVE  LET m == Joined(l, cb, data)
         IN  /\ m \in Seq(Entry) /\ Len(m) = Len(l) /\ LastIs(m, cb)
             /\ m[Len(m)].data = l[Len(l)].data \o data
             /\ \A i \in 1..Len(l) : m[i].cb = l[i].cb
             /\ \A i \in 1..Len(l) - 1 : m[i] = l[i]
             /\ Before(m) = Before(l)
<1>. DEFINE m == [l EXCEPT ![Len(l)].data = @ \o data]
            last == [l[Len(l)] EXCEPT !.data = @ \o data]
<1>1. Len(l) \in Nat /\ DOMAIN l = 1..Len(l) /\ Len(l) \in 1..Len(l) /\ l[Len(l)].cb = cb
  BY LogFacts DEF LastIs
<1>2. Joined(l, cb, data) = m
  BY <1>1 DEF Joined, Last, LastIs
<1>3. l[Len(l)] \in Entry /\ l[Len(l)].data \in Seq(AllChar \cup Methods)
  BY <1>1, LogFacts
<1>4. last \in Entry /\ last.cb = cb /\ last.data = l[Len(l)].data \o data
  <2>1. l[Len(l)].data \o data \in Seq(AllChar \cup Methods)
    BY <1>3, ConcatProperties
  <2>. QED
    BY <1>1, <1>3, <2>1 DEF Entry
<1>. HIDE DEF last
<1>5. m = [l EXCEPT ![Len(l)] = last]
  BY DEF last
<1>6. m \in Seq(Entry) /\ Len(m) = Len(l) /\ m[Len(l)] = last /\ \A i \in 1..Len(l) - 1 : m[i] = l[i]
  <2>. DEFINE n == Len(l)
  <2>1. n \in 1..n /\ n \in Nat /\ DOMAIN l = 1..n
    BY <1>1
  <2>. HIDE DEF n
  <2>2. m = [l EXCEPT ![n] = last]
    BY <1>5 DEF n
  <2>3. m \in Seq(Entry)
    BY <1>4, <2>1, <2>2, ExceptSeq DEF n
  <2>4. Len(m) = Len(l) /\ m[n] = last /\ \A i \in 1..n : i # n => m[i] = l[i]
    BY <1>4, <2>1, <2>2, ExceptSeq DEF n
  <2>5. \A i \in 1..n - 1 : i \in 1..n /\ i # n
    BY <2>1
  <2>. QED
    BY <2>3, <2>4, <2>5 DEF n
<1>. HIDE DEF m
<1>7. \A i \in 1..Len(l) : m[i].cb = l[i].cb
  <2>1. \A n \in Nat : \A i \in 1..n : i \in 1..n - 1 \/ i = n
    OBVIOUS
  <2>. QED
    BY <1>1, <1>4, <1>6, <2>1
<1>8. Before(m) = Before(l)
  <2>1. /\ Before(m) \in Seq(Entry) /\ Len(Before(m)) = IF 1 <= Len(l) - 1 THEN Len(l) - 1 - 1 + 1 ELSE 0
        /\ \A i \in 1..Len(l) - 1 - 1 + 1 : Before(m)[i] = m[1 + i - 1]
    <3>1. \A i \in 1..Len(l) - 1 : m[i] \in Entry
      BY <1>1, <1>6, LogFacts
    <3>. QED
      BY <1>1, <1>6, <3>1, SubSeqProperties DEF Before
  <2>2. /\ Before(l) \in Seq(Entry) /\ Len(Before(l)) = IF 1 <= Len(l) - 1 THEN Len(l) - 1 - 1 + 1 ELSE 0
        /\ \A i \in 1..Len(l) - 1 - 1 + 1 : Before(l)[i] = l[1 + i - 1]
    <3>1. \A i \in 1..Len(l) - 1 : l[i] \in Entry
      BY <1>1, LogFacts
    <3>. QED
      BY <1>1, <3>1, SubSeqProperties DEF Before
  <2>3. \A i \in 1..Len(Before(m)) : Before(m)[i] = Before(l)[i]
    <3>1. Len(Before(m)) = Len(Before(l))
      BY <2>1, <2>2
    <3>. DEFINE n == Len(l)
                k == Len(Before(m))
    <3>3. n \in Nat /\ k = IF 1 <= n - 1 THEN n - 1 - 1 + 1 ELSE 0
      BY <1>1, <2>1
    <3>. HIDE DEF n, k
    <3>4. \A i \in 1..k : i \in 1..n - 1 /\ i \in 1..n - 1 - 1 + 1 /\ 1 + i - 1 = i
      BY <3>3
    <3>2. \A i \in 1..Len(Before(m)) : i \in 1..Len(l) - 1 /\ i \in 1..Len(l) - 1 - 1 + 1 /\ 1 + i - 1 = i
      BY <3>4 DEF n, k
    <3>. QED
      BY <1>6, <2>1, <2>2, <3>2
  <2>. QED
    BY <2>1, <2>2, <2>3, SeqEqual
<1>9. m # <<>>
  BY <1>1, <1>6, LogFacts
<1>. QED
  BY <1>1, <1>2, <1>4, <1>6, <1>7, <1>8, <1>9 DEF LastIs

\* Any other callback is another entry.
LEMMA JoinedEntry ==
  ASSUME NEW l \in Seq(Entry), NEW cb \in Callbacks, cb \notin DataCallbacks \/ ~LastIs(l, cb),
         NEW data \in Seq(AllChar \cup Methods)
  PROVE  LET m == Joined(l, cb, data)
         IN  /\ m \in Seq(Entry) /\ Len(m) = Len(l) + 1 /\ LastIs(m, cb)
             /\ m[Len(m)].data = data
             /\ \A i \in 1..Len(l) : m[i] = l[i]
             /\ Before(m) = l
<1>. DEFINE e == [cb |-> cb, data |-> data]
            m == Append(l, e)
<1>1. Joined(l, cb, data) = m
  BY DEF Joined, Last, LastIs
<1>2. e \in Entry /\ e.cb = cb /\ e.data = data
  BY DEF Entry
<1>3. Len(l) \in Nat
  BY LogFacts
<1>. HIDE DEF e
<1>4. /\ m \in Seq(Entry) /\ Len(m) = Len(l) + 1 /\ m[Len(l) + 1] = e
      /\ \A i \in 1..Len(l) : m[i] = l[i]
  BY <1>2, AppendProperties
<1>. HIDE DEF m
<1>5. Before(m) = l
  <2>1. /\ Before(m) \in Seq(Entry) /\ Len(Before(m)) = IF 1 <= Len(l) THEN Len(l) - 1 + 1 ELSE 0
        /\ \A i \in 1..Len(l) - 1 + 1 : Before(m)[i] = m[1 + i - 1]
    <3>1. \A i \in 1..Len(l) : m[i] \in Entry
      BY <1>4, LogFacts
    <3>2. Len(m) - 1 = Len(l) /\ Len(l) \in Int
      BY <1>3, <1>4
    <3>. QED
      BY <3>1, <3>2, SubSeqProperties DEF Before
  <2>2. Len(Before(m)) = Len(l) /\ \A i \in 1..Len(Before(m)) : Before(m)[i] = l[i]
    BY <1>3, <1>4, <2>1
  <2>. QED
    BY <2>1, <2>2, SeqEqual
<1>6. m # <<>>
  BY <1>3, <1>4, LogFacts
<1>. QED
  BY <1>1, <1>2, <1>3, <1>4, <1>5, <1>6 DEF LastIs

LEMMA NamesAreTheSame ==
  ASSUME NEW l \in Seq(Entry), NEW m \in Seq(Entry), NamesAt(m) = NamesAt(l),
         \A k \in NamesAt(l) : m[k].data = l[k].data /\ m[k + 1].data = l[k + 1].data
  PROVE  Sent(m) = Sent(l)
<1>1. Len(l) \in Nat /\ Len(m) \in Nat /\ AreSent(Sent(l), l) /\ AreSent(Sent(m), m)
  BY LogFacts, SentIs
<1>. DEFINE h == Sent(l)
<1>. HIDE DEF h
<1>2. \A k \in NamesAt(l) : NameAt(m, k) = NameAt(l, k)
  BY DEF NameAt
<1>3. h = [n \in DOMAIN h |-> h[n]] /\ DOMAIN h = {NameAt(l, k) : k \in NamesAt(l)}
      /\ \A k \in 1..Len(l) : Latest(l, k) => h[NameAt(l, k)] = l[k + 1].data
  BY <1>1 DEF AreSent, h
<1>4. {NameAt(l, k) : k \in NamesAt(l)} = {NameAt(m, k) : k \in NamesAt(m)}
  BY <1>2
<1>5. ASSUME NEW k \in 1..Len(m), Latest(m, k) PROVE h[NameAt(m, k)] = m[k + 1].data
  <2>1. k \in NamesAt(l) /\ k \in 1..Len(l)
    <3>1. k \in NamesAt(l)
      BY <1>5 DEF Latest
    <3>2. k \in 1..Len(l) - 1
      BY <3>1 DEF NamesAt
    <3>. QED
      BY <1>1, <3>1, <3>2
  <2>2. Latest(l, k)
    BY <1>2, <1>5, <2>1 DEF Latest
  <2>. QED
    BY <1>2, <1>3, <2>1, <2>2
<1>6. AreSent(h, m)
  BY <1>3, <1>4, <1>5 DEF AreSent
<1>. QED
  BY <1>1, <1>6, SentUnique DEF h

\* Callbacks that make no pair leave the headers as they are.
LEMMA SentSame ==
  ASSUME NEW l \in Seq(Entry), NEW cb \in Callbacks \ {"message_begin", "header_value"},
         NEW data \in Seq(AllChar \cup Methods)
  PROVE  Sent(Joined(l, cb, data)) = Sent(l) /\ (Begun(Joined(l, cb, data)) <=> Begun(l))
<1>. DEFINE m == Joined(l, cb, data)
            n == Len(l)
<1>1. n \in Nat /\ m \in Seq(Entry)
  BY LogFacts, JoinedText, JoinedEntry
<1>2. CASE cb \in DataCallbacks /\ LastIs(l, cb)
  <2>1. Len(m) = n /\ \A i \in 1..n : m[i].cb = l[i].cb
    BY <1>2, JoinedText
  <2>2. \A i \in 1..n - 1 : m[i] = l[i]
    BY <1>2, JoinedText
  <2>3. l[n].cb = cb
    BY <1>2 DEF LastIs
  <2>. HIDE DEF m, n
  <2>4. NamesAt(m) = NamesAt(l)
    <3>1. \A k \in 1..n - 1 : k \in 1..n /\ k + 1 \in 1..n /\ (\A j \in k..n : j \in 1..n) /\ \A j \in 1..k : j \in 1..n
      BY <1>1
    <3>2. ASSUME NEW k \in 1..n - 1
          PROVE  /\ m[k].cb = l[k].cb /\ m[k + 1].cb = l[k + 1].cb
                 /\ \A j \in k..n : m[j].cb = l[j].cb
                 /\ \A j \in 1..k : m[j].cb = l[j].cb
      BY <2>1, <3>1
    <3>3. \A k : k \in NamesAt(m) <=> k \in NamesAt(l)
      BY <2>1, <3>2 DEF NamesAt, n
    <3>. QED
      BY <3>3 DEF NamesAt
  <2>5. ASSUME NEW k \in NamesAt(l) PROVE m[k].data = l[k].data /\ m[k + 1].data = l[k + 1].data
    <3>1. k \in 1..n - 1 /\ l[k + 1].cb = "header_value"
      BY DEF NamesAt, n
    <3>2. k + 1 # n
      BY <2>3, <3>1
    <3>3. k + 1 \in 1..n - 1
      BY <1>1, <3>1, <3>2
    <3>. QED
      BY <2>2, <3>1, <3>3
  <2>6. Begun(m) <=> Begun(l)
    BY <2>1 DEF Begun, n
  <2>. QED
    BY <1>1, <2>4, <2>5, <2>6, NamesAreTheSame DEF m
<1>3. CASE ~(cb \in DataCallbacks /\ LastIs(l, cb))
  <2>1. Len(m) = n + 1 /\ \A i \in 1..n : m[i] = l[i]
    BY <1>3, JoinedEntry
  <2>2. m[n + 1].cb = cb
    BY <1>3, <2>1, JoinedEntry DEF LastIs
  <2>. HIDE DEF m, n
  <2>4. NamesAt(m) = NamesAt(l)
    <3>1. ASSUME NEW k \in NamesAt(m) PROVE k \in NamesAt(l)
      <4>1. k \in 1..n /\ m[k + 1].cb = "header_value"
        BY <1>1, <2>1 DEF NamesAt
      <4>2. k # n
        BY <2>2, <4>1
      <4>3. k \in 1..n - 1 /\ k \in 1..n /\ k + 1 \in 1..n /\ (\A j \in k..n : j \in 1..n /\ j \in k..n + 1) /\ \A j \in 1..k : j \in 1..n
        BY <1>1, <4>1, <4>2
      <4>4. m[k].cb = "header_field" /\ (\A j \in k..n + 1 : m[j].cb # "message_begin") /\ \E j \in 1..k : m[j].cb = "message_begin"
        BY <2>1 DEF NamesAt
      <4>. QED
        BY <2>1, <4>1, <4>3, <4>4 DEF NamesAt, n
    <3>2. ASSUME NEW k \in NamesAt(l) PROVE k \in NamesAt(m)
      <4>1. /\ k \in 1..n - 1 /\ l[k].cb = "header_field" /\ l[k + 1].cb = "header_value"
            /\ (\A j \in k..n : l[j].cb # "message_begin") /\ \E j \in 1..k : l[j].cb = "message_begin"
        BY DEF NamesAt, n
      <4>2. /\ k \in 1..n + 1 - 1 /\ k \in 1..n /\ k + 1 \in 1..n /\ (\A j \in 1..k : j \in 1..n)
            /\ \A j \in k..n + 1 : j = n + 1 \/ (j \in k..n /\ j \in 1..n)
        BY <1>1, <4>1
      <4>3. m[k].cb = "header_field" /\ m[k + 1].cb = "header_value" /\ \E j \in 1..k : m[j].cb = "message_begin"
        BY <2>1, <4>1, <4>2
      <4>4. \A j \in k..n + 1 : m[j].cb # "message_begin"
        BY <2>1, <2>2, <4>1, <4>2
      <4>5. k \in 1..Len(m) - 1 /\ \A j \in k..Len(m) : m[j].cb # "message_begin"
        BY <1>1, <2>1, <4>2, <4>4
      <4>. QED
        BY <4>3, <4>5 DEF NamesAt
    <3>. QED
      BY <3>1, <3>2
  <2>5. \A k \in NamesAt(l) : k \in 1..n /\ k + 1 \in 1..n
    BY <1>1 DEF NamesAt, n
  <2>6. Begun(m) <=> Begun(l)
    <3>1. \A i \in 1..n + 1 : i = n + 1 \/ i \in 1..n
      BY <1>1
    <3>2. \A i \in 1..n : i \in 1..n + 1
      BY <1>1
    <3>. QED
      BY <2>1, <2>2, <3>1, <3>2 DEF Begun, n
  <2>. QED
    BY <1>1, <2>1, <2>4, <2>5, <2>6, NamesAreTheSame DEF m
<1>. QED
  BY <1>2, <1>3

\* A message begins without headers.
LEMMA SentBegin ==
  ASSUME NEW l \in Seq(Entry), NEW data \in Seq(AllChar \cup Methods)
  PROVE  Sent(Joined(l, "message_begin", data)) = NoHeaders /\ Begun(Joined(l, "message_begin", data))
<1>. DEFINE m == Joined(l, "message_begin", data)
<1>1. "message_begin" \in Callbacks /\ "message_begin" \notin DataCallbacks
  BY DEF Callbacks, DataCallbacks
<1>2. m \in Seq(Entry) /\ Len(m) = Len(l) + 1 /\ LastIs(m, "message_begin") /\ Len(l) \in Nat
  BY <1>1, JoinedEntry, LogFacts
<1>. HIDE DEF m
<1>3. m[Len(m)].cb = "message_begin" /\ Len(m) \in 1..Len(m)
  BY <1>2 DEF LastIs
<1>4. NamesAt(m) = {}
  <2>1. \A k \in 1..Len(m) - 1 : Len(m) \in k..Len(m)
    BY <1>2
  <2>. QED
    BY <1>3, <2>1 DEF NamesAt
<1>5. AreSent(NoHeaders, m)
  <2>1. DOMAIN NoHeaders = {} /\ NoHeaders = [n \in DOMAIN NoHeaders |-> NoHeaders[n]]
    BY DEF NoHeaders
  <2>. QED
    BY <1>4, <2>1 DEF AreSent, Latest
<1>. QED
  BY <1>2, <1>3, <1>5, SentIs, SentUnique DEF Begun, m

\* h with the value v for the name n.
With(h, n, v) == [k \in DOMAIN h \cup {n} |-> IF k = n THEN v ELSE h[k]]

\* A value makes a pair with the name before it.
LEMMA SentPair ==
  ASSUME NEW l \in Seq(Entry), LastIs(l, "header_value"), Before(l) \in Seq(Entry),
         LastIs(Before(l), "header_field"), Begun(l)
  PROVE  Sent(l) = With(Sent(Before(l)), Lower(Before(l)[Len(Before(l))].data), l[Len(l)].data)
<1>. DEFINE b == Before(l)
            n == Len(l)
            name == Lower(b[Len(b)].data)
            h == Sent(b)
            g == With(h, name, l[n].data)
<1>1. n \in Nat /\ l[n].cb = "header_value" /\ n > 0
  BY LogFacts DEF LastIs
<1>2. /\ Len(b) = IF 1 <= n - 1 THEN n - 1 - 1 + 1 ELSE 0
      /\ \A i \in 1..n - 1 - 1 + 1 : b[i] = l[1 + i - 1]
  <2>1. \A i \in 1..n - 1 : l[i] \in Entry
    BY <1>1, LogFacts
  <2>. QED
    BY <1>1, <2>1, SubSeqProperties DEF Before
<1>3. b[Len(b)].cb = "header_field" /\ Len(b) > 0 /\ b \in Seq(Entry)
  BY LogFacts DEF LastIs
<1>. HIDE DEF b, n
<1>4. Len(b) = n - 1 /\ n > 1 /\ (\A i \in 1..n - 1 : b[i] = l[i]) /\ l[n - 1].cb = "header_field" /\ b[n - 1] = l[n - 1]
  <2>1. Len(b) = n - 1 /\ n > 1
    BY <1>1, <1>2, <1>3
  <2>2. \A i \in 1..n - 1 : i \in 1..n - 1 - 1 + 1 /\ 1 + i - 1 = i
    BY <1>1
  <2>3. n - 1 \in 1..n - 1
    BY <1>1, <2>1
  <2>. QED
    BY <1>2, <1>3, <2>1, <2>2, <2>3
<1>5. NamesAt(l) = NamesAt(b) \cup {n - 1}
  <2>1. ASSUME NEW k \in NamesAt(l) PROVE k \in NamesAt(b) \cup {n - 1}
    <3>1. /\ k \in 1..n - 1 /\ l[k].cb = "header_field" /\ l[k + 1].cb = "header_value"
          /\ (\A j \in k..n : l[j].cb # "message_begin") /\ \E j \in 1..k : l[j].cb = "message_begin"
      BY DEF NamesAt, n
    <3>2. k # n - 1 => /\ k \in 1..n - 1 - 1 /\ k + 1 \in 1..n - 1
                       /\ (\A j \in k..n - 1 : j \in k..n /\ j \in 1..n - 1) /\ \A j \in 1..k : j \in 1..n - 1
      BY <1>1, <3>1
    <3>. QED
      BY <1>4, <3>1, <3>2 DEF NamesAt
  <2>2. ASSUME NEW k \in NamesAt(b) PROVE k \in NamesAt(l)
    <3>1. /\ k \in 1..n - 1 - 1 /\ b[k].cb = "header_field" /\ b[k + 1].cb = "header_value"
          /\ (\A j \in k..n - 1 : b[j].cb # "message_begin") /\ \E j \in 1..k : b[j].cb = "message_begin"
      BY <1>4 DEF NamesAt
    <3>2. /\ k \in 1..n - 1 /\ k + 1 \in 1..n - 1 /\ (\A j \in 1..k : j \in 1..n - 1)
          /\ \A j \in k..n : j = n \/ (j \in k..n - 1 /\ j \in 1..n - 1)
      BY <1>1, <1>4, <3>1
    <3>. QED
      BY <1>1, <1>4, <3>1, <3>2 DEF NamesAt, n
  <2>3. n - 1 \in NamesAt(l)
    <3>1. PICK i \in 1..n : l[i].cb = "message_begin"
      BY DEF Begun, n
    <3>2. i # n /\ i # n - 1
      BY <1>1, <1>4, <3>1
    <3>3. i \in 1..n - 1 /\ n - 1 \in 1..n - 1 /\ n - 1 + 1 = n /\ \A j \in n - 1..n : j = n - 1 \/ j = n
      BY <1>1, <1>4, <3>2
    <3>. QED
      BY <1>1, <1>4, <3>1, <3>3 DEF NamesAt, n
  <2>. QED
    BY <2>1, <2>2, <2>3
<1>6. /\ NameAt(l, n - 1) = name
      /\ \A k \in NamesAt(b) : k \in 1..n - 1 - 1 /\ NameAt(l, k) = NameAt(b, k) /\ b[k + 1].data = l[k + 1].data
  <2>1. \A k \in NamesAt(b) : k \in 1..n - 1 - 1
    BY <1>4 DEF NamesAt
  <2>2. \A k \in 1..n - 1 - 1 : k \in 1..n - 1 /\ k + 1 \in 1..n - 1
    BY <1>1
  <2>. QED
    BY <1>4, <2>1, <2>2 DEF NameAt
<1>7. AreSent(h, b)
  BY <1>3, SentIs
<1>. HIDE DEF h, name
<1>8. DOMAIN h = {NameAt(b, k) : k \in NamesAt(b)} /\ \A k \in 1..Len(b) : Latest(b, k) => h[NameAt(b, k)] = b[k + 1].data
  BY <1>7 DEF AreSent
<1>9. DOMAIN g = DOMAIN h \cup {name} /\ g = [k \in DOMAIN g |-> g[k]] /\ g[name] = l[n].data
      /\ \A k \in DOMAIN h : k # name => g[k] = h[k]
  BY DEF With
<1>. HIDE DEF g
<1>10. DOMAIN g = {NameAt(l, k) : k \in NamesAt(l)}
  BY <1>5, <1>6, <1>8, <1>9
<1>11. ASSUME NEW k \in 1..Len(l), Latest(l, k) PROVE g[NameAt(l, k)] = l[k + 1].data
  <2>1. CASE k = n - 1
    <3>1. k + 1 = n
      BY <1>1, <2>1
    <3>. QED
      BY <1>6, <1>9, <2>1, <3>1
  <2>2. CASE k # n - 1
    <3>1. k \in NamesAt(b) /\ k \in 1..Len(b)
      <4>1. k \in NamesAt(b)
        BY <1>5, <1>11, <2>2 DEF Latest
      <4>2. k \in 1..n - 1 - 1
        BY <1>6, <4>1
      <4>3. k \in 1..n - 1
        BY <1>1, <4>2
      <4>. QED
        BY <1>4, <4>1, <4>3
    <3>2. NameAt(l, k) # name
      <4>1. NameAt(l, k) = name => n - 1 <= k
        BY <1>5, <1>6, <1>11 DEF Latest
      <4>2. k \in 1..n - 1 - 1
        BY <1>6, <3>1
      <4>. QED
        BY <1>1, <4>1, <4>2
    <3>3. Latest(b, k)
      BY <1>5, <1>6, <1>11, <3>1 DEF Latest
    <3>. QED
      BY <1>6, <1>8, <1>9, <3>1, <3>2, <3>3
  <2>. QED
    BY <2>1, <2>2
<1>12. AreSent(g, l)
  BY <1>9, <1>10, <1>11 DEF AreSent
<1>13. AreSent(Sent(l), l) /\ Len(l) \in Nat
  BY SentIs, LogFacts
<1>14. Sent(l) = g
  BY <1>12, <1>13, SentUnique
<1>. QED
  BY <1>14 DEF g, h, name, b, n

-----------------------------------------------------------------------------
(* The invariant of a socket that reads requests. *)

\* A header with an empty value, or a preflight.
Excused(l) == PreflightSent(l) \/ EmptyValueSent(l)

InHeader(l) == LastIs(l, "header_field") \/ LastIs(l, "header_value")
HasValue(l) == LastIs(l, "header_value") /\ l[Len(l)].data # <<>>

\* States outside headers.
LineStates == {"dead", "start_req", "req_method", "spaces_before_url", "req_http_start", "req_http_H", "req_http_HT",
               "req_http_HTT", "req_http_HTTP", "req_http_I", "req_http_IC", "req_http_major", "req_http_dot",
               "req_http_minor", "req_http_end", "req_line_almost_done"} \cup UrlStates
Outside == LineStates \cup {"headers_done", "body_identity", "message_done"}

\* States between headers, between a name and its value, and after a value.
Between == {"header_field_start", "headers_almost_done"}
Blank == {"header_value_discard_ws", "header_value_discard_ws_almost_done", "header_value_discard_lws"}
Ended == {"header_almost_done", "header_value_lws", "header_value_start"}

InHeaders == {"header_field", "header_value"} \cup Blank \cup Ended

\* Where the parser of a socket that reads w is, and what the log ends with.
Follows(w, q, n, c, l) ==
  /\ q.type = "request" /\ q.method \in Methods
  /\ q.state \in Outside \cup Between \cup InHeaders \cup ChunkStates
  /\ c.end <= Len(w)
  /\ q.state \notin {"dead", "start_req"} => Begun(l)
  /\ c.end # 0 /\ q.state \in {"header_field", "header_value"} => c.marks[q.state] \in 1..n
  /\ q.state \in Blank => LastIs(l, "header_field")
  /\ q.state \in Ended => HasValue(l)
  /\ q.state = "header_value" =>
       HasValue(l) \/ (LastIs(l, "header_field") /\ c.end # 0 /\ c.marks["header_value"] < n)

LengthName == Spell("content-length")

\* The parser has matched this name.
Named(q, name) ==
  /\ name # <<>>
  /\ IF q.header_state = "general" THEN \A rest \in Seq(AllChar \cup Methods) : Lower(name \o rest) # LengthName
     ELSE /\ q.phase = "name" /\ q.matched = Lower(name)
          /\ Lower(name) = LengthName => q.header_state = "content_length"

\* The name that the log ends with, and the part of it that has been read since.
Gathered(l) == IF LastIs(l, "header_field") THEN l[Len(l)].data ELSE <<>>
Pending(w, n, c) == IF c.end = 0 THEN <<>> ELSE SubSeq(w, c.marks["header_field"], n - 1)

\* A body in chunks has its encoding, and a length has been seen.
Flagged(q, l) ==
  /\ "TRAILING" \notin q.flags
  /\ "CHUNKED" \in q.flags => q.uses_transfer_encoding
  /\ LengthName \in DOMAIN Sent(l) => "CONTENTLENGTH" \in q.flags

\* How headers with values go on.
Regular(w, q, n, c, l) ==
  /\ q.state \notin ChunkStates
  /\ Flagged(q, l)
  /\ q.state = "headers_done" => "CHUNKED" \notin q.flags
  /\ q.state \in Outside => ~InHeader(l)
  /\ q.state \in Between => ~LastIs(l, "header_field")
  /\ q.state \in InHeaders /\ q.header_state = "transfer_encoding" => q.uses_transfer_encoding
  /\ q.state = "header_field" => Named(q, Gathered(l) \o Pending(w, n, c))
  /\ q.state \in Blank => Named(q, Gathered(l))
  /\ q.state = "header_value" /\ LastIs(l, "header_field") =>
       Gathered(l) # <<>> /\ (Lower(Gathered(l)) = LengthName => "CONTENTLENGTH" \in q.flags)

Meant(w, q, n, c, l) == Follows(w, q, n, c, l) /\ (~Excused(l) => Regular(w, q, n, c, l))

\* What the socket holds of the headers: all but the name and value it is at.
Collected(l, h, f, v) ==
  /\ LastIs(l, "header_field") => h = Sent(l) /\ f = Gathered(l) /\ v = <<>>
  /\ LastIs(l, "header_value") =>
       /\ LastIs(Before(l), "header_field") /\ h = Sent(Before(l))
       /\ f = Gathered(Before(l)) /\ f # <<>> /\ v = l[Len(l)].data /\ v # <<>>
  /\ ~InHeader(l) => h = Sent(l) /\ f = <<>> /\ v = <<>>

Collecting == Collected(log, m_requestHeaders, m_currentHeaderField, m_currentHeaderValue)

SocketInv ==
  /\ log \in Seq(Entry) /\ undefined \in BOOLEAN
  /\ PreflightSent(log) => device = "closed"
  /\ ~Excused(log) => ~undefined
  /\ parser.errno = "OK" => Meant(stream.wire, parser, pos, call, log) /\ (~Excused(log) => Collecting)

-----------------------------------------------------------------------------
(* What a callback adds to what is known of the log. *)

LEMMA PreflightStays ==
  ASSUME NEW l \in Seq(Entry), NEW cb \in Callbacks, NEW data \in Seq(AllChar \cup Methods)
  PROVE  /\ PreflightSent(l) => PreflightSent(Joined(l, cb, data))
         /\ PreflightSent(Joined(l, cb, data)) => PreflightSent(l) \/ (cb = "headers_complete" /\ data = <<"OPTIONS">>)
<1>. DEFINE m == Joined(l, cb, data)
            n == Len(l)
            Is(e) == e.cb = "headers_complete" /\ e.data = <<"OPTIONS">>
<1>1. /\ n \in Nat /\ DOMAIN l = 1..n /\ m \in Seq(Entry) /\ DOMAIN m = 1..Len(m)
      /\ (n \in 1..n \/ n = 0)
  BY LogFacts, JoinedText, JoinedEntry
<1>2. PreflightSent(l) <=> \E i \in 1..n : Is(l[i])
  BY <1>1 DEF PreflightSent
<1>3. PreflightSent(m) <=> \E i \in 1..Len(m) : Is(m[i])
  BY <1>1 DEF PreflightSent
<1>4. CASE cb \in DataCallbacks /\ LastIs(l, cb)
  <2>1. Len(m) = n /\ m[n].cb = cb /\ l[n].cb = cb /\ \A i \in 1..n - 1 : m[i] = l[i]
    BY <1>4, JoinedText DEF LastIs
  <2>2. cb # "headers_complete"
    BY <1>4 DEF DataCallbacks
  <2>3. \A i \in 1..n : i \in 1..n - 1 \/ i = n
    <3>. HIDE DEF n
    <3>1. n \in Nat
      BY <1>1
    <3>. QED
      BY <3>1
  <2>. HIDE DEF m, n
  <2>. QED
    BY <1>2, <1>3, <2>1, <2>2, <2>3 DEF m
<1>5. CASE ~(cb \in DataCallbacks /\ LastIs(l, cb))
  <2>1. Len(m) = n + 1 /\ m[n + 1].data = data /\ m[n + 1].cb = cb /\ \A i \in 1..n : m[i] = l[i]
    BY <1>5, JoinedEntry DEF LastIs
  <2>3. \A i \in 1..n + 1 : i \in 1..n \/ i = n + 1
    BY <1>1
  <2>4. \A i \in 1..n : i \in 1..n + 1
    BY <1>1
  <2>. HIDE DEF m, n
  <2>. QED
    BY <1>2, <1>3, <2>1, <2>3, <2>4 DEF m
<1>. QED
  BY <1>4, <1>5

\* A value that is empty stays so unless it is the one that goes on.
LEMMA ExcusedStays ==
  ASSUME NEW l \in Seq(Entry), NEW cb \in Callbacks, NEW data \in Seq(AllChar \cup Methods),
         cb = "header_value" => ~LastIs(l, "header_value") \/ HasValue(l)
  PROVE  Excused(l) => Excused(Joined(l, cb, data))
<1>. DEFINE m == Joined(l, cb, data)
            n == Len(l)
            Is(e) == e.cb = "header_value" /\ e.data = <<>>
<1>1. /\ n \in Nat /\ DOMAIN l = 1..n /\ m \in Seq(Entry) /\ DOMAIN m = 1..Len(m)
  BY LogFacts, JoinedText, JoinedEntry
<1>2. EmptyValueSent(l) <=> \E i \in 1..n : Is(l[i])
  BY <1>1 DEF EmptyValueSent
<1>3. EmptyValueSent(m) <=> \E i \in 1..Len(m) : Is(m[i])
  BY <1>1 DEF EmptyValueSent
<1>4. CASE cb \in DataCallbacks /\ LastIs(l, cb)
  <2>1. Len(m) = n /\ l[n].cb = cb /\ \A i \in 1..n - 1 : m[i] = l[i]
    BY <1>4, JoinedText DEF LastIs
  <2>2. ~Is(l[n])
    BY <1>4, <2>1 DEF HasValue
  <2>3. \A i \in 1..n : i \in 1..n - 1 \/ i = n
    <3>. HIDE DEF n
    <3>1. n \in Nat
      BY <1>1
    <3>. QED
      BY <3>1
  <2>4. \A i \in 1..n - 1 : i \in 1..n
    BY <1>1
  <2>. HIDE DEF m, n
  <2>5. EmptyValueSent(l) => EmptyValueSent(m)
    BY <1>2, <1>3, <2>1, <2>2, <2>3, <2>4
  <2>. QED
    BY <2>5, PreflightStays DEF Excused, m
<1>5. CASE ~(cb \in DataCallbacks /\ LastIs(l, cb))
  <2>1. Len(m) = n + 1 /\ \A i \in 1..n : m[i] = l[i]
    BY <1>5, JoinedEntry
  <2>2. \A i \in 1..n : i \in 1..n + 1
    BY <1>1
  <2>. HIDE DEF m, n
  <2>3. EmptyValueSent(l) => EmptyValueSent(m)
    BY <1>2, <1>3, <2>1, <2>2
  <2>. QED
    BY <2>3, PreflightStays DEF Excused, m
<1>. QED
  BY <1>4, <1>5

\* The log after a callback that is about no header.
LEMMA OutsideLog ==
  ASSUME NEW l \in Seq(Entry), NEW cb \in Callbacks \ {"header_field", "header_value"},
         NEW data \in Seq(AllChar \cup Methods)
  PROVE  LET m == Joined(l, cb, data)
         IN  /\ m \in Seq(Entry) /\ ~InHeader(m)
             /\ Begun(l) \/ cb = "message_begin" => Begun(m)
             /\ Sent(m) = IF cb = "message_begin" THEN NoHeaders ELSE Sent(l)
             /\ Excused(l) => Excused(m)
<1>1. LastIs(Joined(l, cb, data), cb) /\ Joined(l, cb, data) \in Seq(Entry)
  BY JoinedText, JoinedEntry
<1>2. ~InHeader(Joined(l, cb, data))
  BY <1>1 DEF InHeader, LastIs
<1>. QED
  BY <1>1, <1>2, SentSame, SentBegin, ExcusedStays

\* The log after a piece of a name.
LEMMA NameLog ==
  ASSUME NEW l \in Seq(Entry), NEW data \in Seq(AllChar \cup Methods)
  PROVE  LET m == Joined(l, "header_field", data)
         IN  /\ m \in Seq(Entry) /\ LastIs(m, "header_field") /\ ~LastIs(m, "header_value")
             /\ Begun(l) => Begun(m)
             /\ Sent(m) = Sent(l)
             /\ Gathered(m) = Gathered(l) \o data
             /\ Excused(l) => Excused(m)
<1>. DEFINE cb == "header_field"
            m == Joined(l, cb, data)
<1>1. cb \in Callbacks /\ cb \in DataCallbacks /\ cb \notin {"message_begin", "header_value"}
  BY DEF Callbacks, DataCallbacks
<1>2. LastIs(m, cb) /\ m \in Seq(Entry)
  BY <1>1, JoinedText, JoinedEntry
<1>3. ~LastIs(m, "header_value")
  BY <1>2 DEF LastIs
<1>4. Sent(m) = Sent(l) /\ (Begun(m) <=> Begun(l))
  BY <1>1, SentSame
<1>5. Excused(l) => Excused(m)
  BY <1>1, ExcusedStays
<1>6. Gathered(m) = Gathered(l) \o data
  <2>1. CASE LastIs(l, cb)
    BY <1>1, <1>2, <2>1, JoinedText DEF Gathered
  <2>2. CASE ~LastIs(l, cb)
    <3>1. m[Len(m)].data = data
      BY <1>1, <2>2, JoinedEntry
    <3>2. <<>> \o data = data
      BY ConcatEmptySeq
    <3>. QED
      BY <1>2, <2>2, <3>1, <3>2 DEF Gathered
  <2>. QED
    BY <2>1, <2>2
<1>. QED
  BY <1>2, <1>3, <1>4, <1>5, <1>6

\* The log after a piece of a value.
LEMMA ValueLog ==
  ASSUME NEW l \in Seq(Entry), NEW data \in Seq(AllChar \cup Methods),
         (LastIs(l, "header_field") /\ data # <<>>) \/ HasValue(l)
  PROVE  LET m == Joined(l, "header_value", data)
         IN  /\ m \in Seq(Entry) /\ HasValue(m) /\ ~LastIs(m, "header_field")
             /\ Begun(l) => Begun(m)
             /\ Before(m) = IF LastIs(l, "header_field") THEN l ELSE Before(l)
             /\ m[Len(m)].data = IF LastIs(l, "header_field") THEN data ELSE l[Len(l)].data \o data
             /\ Excused(l) => Excused(m)
<1>. DEFINE cb == "header_value"
            m == Joined(l, cb, data)
<1>1. cb \in Callbacks /\ cb \in DataCallbacks
  BY DEF Callbacks, DataCallbacks
<1>2. LastIs(m, cb) /\ m \in Seq(Entry) /\ ~LastIs(m, "header_field")
  BY <1>1, JoinedText, JoinedEntry DEF LastIs
<1>3. Excused(l) => Excused(m)
  BY <1>1, ExcusedStays DEF HasValue, LastIs
<1>4. CASE LastIs(l, "header_field")
  <2>1. ~LastIs(l, cb)
    BY <1>4 DEF LastIs
  <2>2. Len(m) = Len(l) + 1 /\ m[Len(m)].data = data /\ Before(m) = l /\ \A i \in 1..Len(l) : m[i] = l[i]
    BY <1>1, <2>1, JoinedEntry
  <2>3. Len(l) \in Nat /\ \A i \in 1..Len(l) : i \in 1..Len(l) + 1
    BY LogFacts
  <2>. HIDE DEF m
  <2>4. Begun(l) => Begun(m)
    BY <2>2, <2>3 DEF Begun
  <2>5. data # <<>>
    BY <2>1 DEF HasValue
  <2>. QED
    BY <1>2, <1>3, <1>4, <2>2, <2>4, <2>5 DEF HasValue, m
<1>5. CASE ~LastIs(l, "header_field")
  <2>1. LastIs(l, cb) /\ l[Len(l)].data # <<>>
    BY <1>5 DEF HasValue
  <2>2. Len(m) = Len(l) /\ m[Len(m)].data = l[Len(l)].data \o data /\ Before(m) = Before(l)
        /\ \A i \in 1..Len(l) : m[i].cb = l[i].cb
    BY <1>1, <2>1, JoinedText
  <2>3. l[Len(l)].data \o data # <<>>
    <3>. DEFINE first == l[Len(l)].data
    <3>1. Len(l) \in 1..Len(l)
      BY <2>1, LogFacts DEF LastIs
    <3>2. first \in Seq(AllChar \cup Methods) /\ first # <<>>
      BY <2>1, <3>1, LogFacts
    <3>. HIDE DEF first
    <3>3. Len(first \o data) = Len(first) + Len(data) /\ Len(first) \in Nat /\ Len(data) \in Nat /\ Len(first) > 0
      BY <3>2, ConcatProperties, LenProperties, EmptySeq
    <3>4. Len(first \o data) # 0
      BY <3>3
    <3>. QED
      BY <3>4, EmptySeq DEF first
  <2>. HIDE DEF m
  <2>4. Begun(l) => Begun(m)
    BY <2>2 DEF Begun
  <2>. QED
    BY <1>2, <1>3, <1>5, <2>2, <2>3, <2>4 DEF HasValue, m
<1>. QED
  BY <1>4, <1>5

\* The log after an empty value.
LEMMA EmptyValueLog ==
  ASSUME NEW l \in Seq(Entry), LastIs(l, "header_field")
  PROVE  LET m == Joined(l, "header_value", <<>>)
         IN  m \in Seq(Entry) /\ Excused(m) /\ (Begun(l) => Begun(m)) /\ (PreflightSent(m) => PreflightSent(l))
<1>. DEFINE cb == "header_value"
            m == Joined(l, cb, <<>>)
<1>1. cb \in Callbacks /\ cb \in DataCallbacks /\ ~LastIs(l, cb) /\ <<>> \in Seq(AllChar \cup Methods)
  BY EmptySeq DEF Callbacks, DataCallbacks, LastIs
<1>2. /\ m \in Seq(Entry) /\ LastIs(m, cb) /\ m[Len(m)].data = <<>> /\ Len(m) = Len(l) + 1
      /\ \A i \in 1..Len(l) : m[i] = l[i]
  BY <1>1, JoinedEntry, ZenonT(30)
<1>3. PreflightSent(m) => PreflightSent(l)
  BY <1>1, PreflightStays
<1>4. Len(l) \in Nat /\ \A i \in 1..Len(l) : i \in 1..Len(l) + 1
  BY LogFacts
<1>. HIDE DEF m
<1>5. Begun(l) => Begun(m)
  BY <1>2, <1>4 DEF Begun
<1>6. Len(m) \in DOMAIN m
  BY <1>2, LogFacts DEF LastIs
<1>7. EmptyValueSent(m)
  BY <1>2, <1>6 DEF EmptyValueSent, LastIs
<1>. QED
  BY <1>2, <1>3, <1>5, <1>7 DEF Excused, m

-----------------------------------------------------------------------------
(* What the socket's callbacks do with it. *)

LEMMA BeforeType ==
  ASSUME NEW l \in Seq(Entry)
  PROVE  Before(l) \in Seq(Entry)
<1>1. Len(l) \in Nat /\ \A i \in 1..Len(l) : l[i] \in Entry
  BY LogFacts
<1>. DEFINE n == Len(l)
<1>. HIDE DEF n
<1>2. \A i \in 1..n - 1 : i \in 1..n
  BY <1>1 DEF n
<1>3. \A i \in 1..n - 1 : l[i] \in Entry
  BY <1>1, <1>2 DEF n
<1>4. 1 \in Int /\ n - 1 \in Int
  BY <1>1 DEF n
<1>. QED
  BY <1>3, <1>4, SubSeqProperties DEF Before, n

LEMMA GatheredType ==
  ASSUME NEW l \in Seq(Entry)
  PROVE  Gathered(l) \in Seq(AllChar \cup Methods)
<1>1. CASE LastIs(l, "header_field")
  <2>1. Len(l) \in 1..Len(l)
    BY <1>1, LogFacts DEF LastIs
  <2>. QED
    BY <1>1, <2>1, LogFacts DEF Gathered
<1>2. CASE ~LastIs(l, "header_field")
  BY <1>2, EmptySeq DEF Gathered
<1>. QED
  BY <1>1, <1>2

\* With the pair that has been collected, if any, the socket has all headers.
LEMMA PairIs ==
  ASSUME log \in Seq(Entry), Begun(log), Collecting
  PROVE  WithPair = Sent(log) /\ (HavePair <=> LastIs(log, "header_value"))
<1>1. CASE LastIs(log, "header_value")
  <2>. DEFINE b == Before(log)
  <2>1. /\ LastIs(b, "header_field") /\ m_requestHeaders = Sent(b)
        /\ m_currentHeaderField = Gathered(b) /\ m_currentHeaderField # <<>>
        /\ m_currentHeaderValue = log[Len(log)].data /\ m_currentHeaderValue # <<>>
    BY <1>1 DEF Collecting, Collected
  <2>2. Sent(log) = With(Sent(b), Lower(b[Len(b)].data), log[Len(log)].data)
    BY <1>1, <2>1, SentPair, BeforeType
  <2>3. Gathered(b) = b[Len(b)].data
    BY <2>1 DEF Gathered
  <2>. HIDE DEF b
  <2>4. HavePair
    BY <2>1 DEF HavePair
  <2>5. WithPair = With(m_requestHeaders, Lower(m_currentHeaderField), m_currentHeaderValue)
    BY <2>4 DEF WithPair, With
  <2>. QED
    BY <1>1, <2>1, <2>2, <2>3, <2>4, <2>5
<1>2. CASE ~LastIs(log, "header_value")
  <2>1. m_requestHeaders = Sent(log) /\ m_currentHeaderValue = <<>>
    BY <1>2 DEF Collecting, Collected, InHeader
  <2>. QED
    BY <1>2, <2>1 DEF HavePair, WithPair
<1>. QED
  BY <1>1, <1>2

\* Nothing is called.
LEMMA QuietStep ==
  ASSUME SocketInv, parser.errno = "OK", called' = Silence, log' = log, Collect,
         stream' = stream, parser'.errno = "OK" => Meant(stream.wire, parser', pos', call', log)
  PROVE  SocketInv'
<1>1. UNCHANGED headerVars
  <2>1. called'.cb = "none"
    BY DEF Silence
  <2>. QED
    BY <2>1 DEF Collect, headerVars, SetCallbacks, SocketInv
<1>. QED
  BY <1>1 DEF SocketInv, headerVars, Collecting

\* A piece of a name.
LEMMA NameStep ==
  ASSUME SocketInv, parser.errno = "OK", Begun(log), NEW data \in Seq(AllChar \cup Methods),
         called' = [cb |-> "header_field", data |-> data], log' = Joined(log, "header_field", data), Collect,
         stream' = stream, parser'.errno = "OK" => Meant(stream.wire, parser', pos', call', log')
  PROVE  SocketInv'
<1>1. OnHeaderField /\ called'.data = data
  BY DEF Collect
<1>2. /\ log' \in Seq(Entry) /\ LastIs(log', "header_field") /\ ~LastIs(log', "header_value")
      /\ Sent(log') = Sent(log) /\ Gathered(log') = Gathered(log) \o data
      /\ Excused(log) => Excused(log')
  BY NameLog DEF SocketInv
<1>3. PreflightSent(log') => PreflightSent(log)
  BY PreflightStays DEF SocketInv, Callbacks, DataCallbacks
<1>4. ~Excused(log') => Collecting'
  <2>. SUFFICES ASSUME ~Excused(log') PROVE Collecting'
    OBVIOUS
  <2>1. Collecting /\ log \in Seq(Entry)
    BY <1>2 DEF SocketInv
  <2>2. WithPair = Sent(log) /\ (HavePair <=> LastIs(log, "header_value"))
    BY <2>1, PairIs
  <2>3. m_requestHeaders' = Sent(log')
    BY <1>1, <1>2, <2>2 DEF OnHeaderField
  <2>4. m_currentHeaderField' = Gathered(log) \o data /\ m_currentHeaderValue' = <<>>
    <3>1. CASE LastIs(log, "header_value")
      <4>1. Gathered(log) = <<>>
        BY <3>1 DEF Gathered, LastIs
      <4>. QED
        BY <1>1, <2>2, <3>1, <4>1 DEF OnHeaderField
    <3>2. CASE ~LastIs(log, "header_value")
      <4>1. m_currentHeaderField = Gathered(log) /\ m_currentHeaderValue = <<>>
        BY <2>1, <3>2 DEF Collecting, Collected, InHeader, Gathered
      <4>. QED
        BY <1>1, <2>2, <3>2, <4>1 DEF OnHeaderField
    <3>. QED
      BY <3>1, <3>2
  <2>. QED
    BY <1>2, <2>3, <2>4 DEF Collecting, Collected, InHeader
<1>. QED
  BY <1>1, <1>2, <1>3, <1>4 DEF SocketInv, OnHeaderField

\* A piece of a value.
LEMMA ValueStep ==
  ASSUME SocketInv, parser.errno = "OK", NEW data \in Seq(AllChar \cup Methods),
         (LastIs(log, "header_field") /\ data # <<>>) \/ HasValue(log),
         ~Excused(log) /\ LastIs(log, "header_field") => Gathered(log) # <<>>,
         called' = [cb |-> "header_value", data |-> data], log' = Joined(log, "header_value", data), Collect,
         stream' = stream, parser'.errno = "OK" => Meant(stream.wire, parser', pos', call', log')
  PROVE  SocketInv'
<1>1. OnHeaderValue /\ called'.data = data
  BY DEF Collect
<1>2. /\ log' \in Seq(Entry) /\ HasValue(log') /\ ~LastIs(log', "header_field")
      /\ Before(log') = IF LastIs(log, "header_field") THEN log ELSE Before(log)
      /\ log'[Len(log')].data = IF LastIs(log, "header_field") THEN data ELSE log[Len(log)].data \o data
      /\ Excused(log) => Excused(log')
  BY ValueLog DEF SocketInv
<1>3. PreflightSent(log') => PreflightSent(log)
  BY PreflightStays DEF SocketInv, Callbacks, DataCallbacks
<1>4. ~Excused(log') => Collecting'
  <2>. SUFFICES ASSUME ~Excused(log') PROVE Collecting'
    OBVIOUS
  <2>1. Collecting /\ m_requestHeaders' = m_requestHeaders /\ m_currentHeaderField' = m_currentHeaderField
        /\ m_currentHeaderValue' = m_currentHeaderValue \o data
    BY <1>1, <1>2 DEF SocketInv, OnHeaderValue
  <2>2. LastIs(log', "header_value") /\ log'[Len(log')].data # <<>>
    BY <1>2 DEF HasValue
  <2>3. CASE LastIs(log, "header_field")
    <3>1. m_requestHeaders = Sent(log) /\ m_currentHeaderField = Gathered(log) /\ m_currentHeaderValue = <<>>
          /\ Gathered(log) # <<>>
      BY <1>2, <2>1, <2>3 DEF Collecting, Collected
    <3>2. <<>> \o data = data
      BY ConcatEmptySeq
    <3>. QED
      BY <1>2, <2>1, <2>2, <2>3, <3>1, <3>2 DEF Collecting, Collected, InHeader
  <2>4. CASE ~LastIs(log, "header_field")
    <3>1. LastIs(log, "header_value")
      BY <2>4 DEF HasValue
    <3>2. /\ LastIs(Before(log), "header_field") /\ m_requestHeaders = Sent(Before(log))
          /\ m_currentHeaderField = Gathered(Before(log)) /\ m_currentHeaderField # <<>>
          /\ m_currentHeaderValue = log[Len(log)].data
      BY <2>1, <3>1 DEF Collecting, Collected
    <3>. QED
      BY <1>2, <2>1, <2>2, <2>4, <3>2 DEF Collecting, Collected, InHeader
  <2>. QED
    BY <2>3, <2>4
<1>. QED
  BY <1>1, <1>2, <1>3, <1>4 DEF SocketInv, OnHeaderValue

LEMMA EmptyValueStep ==
  ASSUME SocketInv, parser.errno = "OK", LastIs(log, "header_field"),
         called' = [cb |-> "header_value", data |-> <<>>], log' = Joined(log, "header_value", <<>>), Collect,
         stream' = stream, parser'.errno = "OK" => Meant(stream.wire, parser', pos', call', log')
  PROVE  SocketInv'
<1>1. OnHeaderValue
  BY DEF Collect
<1>2. log' \in Seq(Entry) /\ Excused(log') /\ (PreflightSent(log') => PreflightSent(log))
  BY EmptyValueLog DEF SocketInv
<1>. QED
  BY <1>1, <1>2 DEF SocketInv, OnHeaderValue

\* The end of the headers: the socket has them all, and answers a preflight.
LEMMA HeadersStep ==
  ASSUME SocketInv, parser.errno = "OK", Begun(log), parser.method \in Methods,
         ~Excused(log) => ~LastIs(log, "header_field"),
         called' = [cb |-> "headers_complete", data |-> <<parser.method>>],
         log' = Joined(log, "headers_complete", <<parser.method>>), Collect,
         stream' = stream, parser'.errno = "OK" => Meant(stream.wire, parser', pos', call', log')
  PROVE  SocketInv' /\ (~Excused(log) => WithPair = Sent(log'))
<1>. DEFINE data == <<parser.method>>
<1>1. OnHeadersComplete
  BY DEF Collect
<1>2. data \in Seq(AllChar \cup Methods) /\ "headers_complete" \in Callbacks \ {"header_field", "header_value", "message_begin"}
  BY DEF Callbacks, DataCallbacks
<1>. HIDE DEF data
<1>3. log' \in Seq(Entry) /\ ~InHeader(log') /\ Sent(log') = Sent(log) /\ (Excused(log) => Excused(log'))
  BY <1>2, OutsideLog DEF SocketInv, data
<1>4. PreflightSent(log') => PreflightSent(log) \/ parser.method = "OPTIONS"
  <2>1. PreflightSent(log') => PreflightSent(log) \/ data = <<"OPTIONS">>
    BY <1>2, PreflightStays DEF SocketInv, data
  <2>. QED
    BY <2>1 DEF data
<1>5. parser.method = "OPTIONS" => PreflightSent(log')
  <2>1. "headers_complete" \notin DataCallbacks
    BY DEF DataCallbacks
  <2>2. LastIs(log', "headers_complete") /\ log'[Len(log')].data = data
    BY <1>2, <2>1, JoinedEntry, ZenonT(30) DEF SocketInv, data
  <2>3. Len(log') \in DOMAIN log'
    BY <1>3, <2>2, LogFacts DEF LastIs
  <2>. QED
    BY <2>2, <2>3 DEF PreflightSent, LastIs, data
<1>6. device' = "closed" \/ (device' = device /\ parser.method # "OPTIONS")
  BY <1>1 DEF OnHeadersComplete, Respond
<1>7. ~Excused(log) => WithPair = Sent(log) /\ Collecting /\ (HavePair <=> LastIs(log, "header_value"))
  BY PairIs DEF SocketInv
<1>8. ~Excused(log') => Collecting'
  <2>. SUFFICES ASSUME ~Excused(log') PROVE Collecting'
    OBVIOUS
  <2>1. parser.method # "OPTIONS" /\ ~Excused(log)
    BY <1>3, <1>5 DEF Excused
  <2>2. /\ m_requestHeaders' = WithPair
        /\ HavePair => m_currentHeaderField' = <<>> /\ m_currentHeaderValue' = <<>>
        /\ ~HavePair => m_currentHeaderField' = m_currentHeaderField /\ m_currentHeaderValue' = m_currentHeaderValue
    BY <1>1, <2>1 DEF OnHeadersComplete
  <2>3. ~HavePair => m_currentHeaderField = <<>> /\ m_currentHeaderValue = <<>>
    BY <1>7, <2>1 DEF Collecting, Collected, InHeader
  <2>. QED
    BY <1>3, <1>7, <2>1, <2>2, <2>3 DEF Collecting, Collected, InHeader
<1>9. undefined' = undefined
  BY <1>1 DEF OnHeadersComplete
<1>. QED
  BY <1>3, <1>4, <1>6, <1>7, <1>8, <1>9 DEF SocketInv

\* Callbacks outside headers.
LEMMA OutsideStep ==
  ASSUME SocketInv, parser.errno = "OK", NEW cb \in {"message_begin", "url", "body", "message_complete"},
         NEW data \in Seq(AllChar \cup Methods), ~Excused(log) => ~InHeader(log),
         called' = [cb |-> cb, data |-> data], log' = Joined(log, cb, data), Collect,
         stream' = stream, parser'.errno = "OK" => Meant(stream.wire, parser', pos', call', log')
  PROVE  SocketInv'
<1>1. cb \in Callbacks \ {"header_field", "header_value"} /\ cb # "headers_complete"
  BY DEF Callbacks, DataCallbacks
<1>2. /\ log' \in Seq(Entry) /\ ~InHeader(log') /\ (Excused(log) => Excused(log'))
      /\ Sent(log') = IF cb = "message_begin" THEN NoHeaders ELSE Sent(log)
  BY <1>1, OutsideLog DEF SocketInv
<1>3. PreflightSent(log') => PreflightSent(log)
  BY <1>1, PreflightStays DEF SocketInv
<1>4. /\ undefined' = undefined /\ (device' = device \/ device' = "closed")
      /\ UNCHANGED <<m_currentHeaderField, m_currentHeaderValue>>
      /\ m_requestHeaders' = IF cb = "message_begin" THEN NoHeaders ELSE m_requestHeaders
  <2>1. CASE cb = "message_begin"
    <3>1. OnMessageBegin
      BY <2>1 DEF Collect
    <3>. QED
      BY <2>1, <3>1 DEF OnMessageBegin
  <2>2. CASE cb = "url"
    BY <2>2 DEF Collect, SetCallbacks, SocketInv
  <2>3. CASE cb = "body"
    <3>1. OnBody
      BY <2>3 DEF Collect
    <3>. QED
      BY <2>3, <3>1 DEF OnBody
  <2>4. CASE cb = "message_complete"
    <3>1. OnMessageComplete
      BY <2>4 DEF Collect
    <3>. QED
      BY <2>4, <3>1 DEF OnMessageComplete
  <2>. QED
    BY <2>1, <2>2, <2>3, <2>4
<1>5. ~Excused(log') => Collecting'
  BY <1>2, <1>4 DEF SocketInv, Collecting, Collected, InHeader
<1>. QED
  BY <1>2, <1>3, <1>4, <1>5 DEF SocketInv

\* Callbacks that the socket has not set.
LEMMA ChunkStep ==
  ASSUME SocketInv, parser.errno = "OK", NEW cb \in {"chunk_header", "chunk_complete"}, Excused(log),
         called' = [cb |-> cb, data |-> <<>>], log' = Joined(log, cb, <<>>), Collect,
         stream' = stream, parser'.errno = "OK" => Meant(stream.wire, parser', pos', call', log')
  PROVE  SocketInv'
<1>1. cb \in Callbacks \ {"header_field", "header_value"} /\ cb # "headers_complete" /\ <<>> \in Seq(AllChar \cup Methods)
  BY EmptySeq DEF Callbacks, DataCallbacks
<1>2. log' \in Seq(Entry) /\ Excused(log')
  BY <1>1, OutsideLog DEF SocketInv
<1>3. PreflightSent(log') => PreflightSent(log)
  BY <1>1, PreflightStays DEF SocketInv
<1>4. device' = device /\ undefined' \in BOOLEAN
  BY DEF Collect
<1>. QED
  BY <1>2, <1>3, <1>4 DEF SocketInv

-----------------------------------------------------------------------------
(* What a step of the parser leaves of the socket's invariant: first lines. *)

AtSocket == ParserInv /\ SocketInv /\ stream \in Streams /\ stream.reader = "socket"

\* The parser before a case of its switch.
LEMMA SocketTurn ==
  ASSUME AtSocket, NEW states, At(states)
  PROVE  /\ InTurn /\ Fit(parser) /\ parser.state \in states /\ pos \in Nat
         /\ stream.wire \in Seq(AllChar) /\ stream.interruptions = {}
         /\ log \in Seq(Entry) /\ Meant(stream.wire, parser, pos, call, log)
         /\ parser.errno = "OK" /\ call.end # 0
<1>1. InTurn /\ Fit(parser) /\ parser.state \in states /\ pos \in Nat
  BY InTurnFacts DEF AtSocket
<1>2. parser.errno = "OK" /\ call.end # 0
  BY <1>1 DEF Fit, InTurn, Running
<1>. QED
  BY <1>1, <1>2, StreamAssumption, SocketAssumption DEF AtSocket, SocketInv

LEMMA DoMeant ==
  ASSUME AtSocket, parser.errno = "OK", NEW o, Do(o), Collect,
         o.parser.errno = "OK" => Meant(stream.wire, o.parser, o.pos, o.call, log)
  PROVE  SocketInv'
BY QuietStep DEF AtSocket, Do, Ends

LEMMA ErrorMeant ==
  ASSUME AtSocket, Fit(parser), NEW errno, errno # "OK", Do(Error(errno)), Collect
  PROVE  SocketInv'
<1>. DEFINE q == [parser EXCEPT !.errno = errno]
            o == Error(errno)
<1>1. ParserFields \subseteq DOMAIN q /\ q.errno = errno
  BY ErrnoSet DEF Fit
<1>2. o.parser = [q EXCEPT !.nread = call.nread]
  BY DEF Error, Return, Leave, AdvanceTo, AtSocket, ParserInv, Keeps, Typed
<1>. HIDE DEF q
<1>3. o.parser.errno = errno
  BY <1>1, <1>2, NreadSet
<1>4. Do(o) /\ parser.errno = "OK"
  BY DEF Fit
<1>. HIDE DEF o
<1>. QED
  BY <1>3, <1>4, DoMeant

LEMMA CallbackEnds ==
  ASSUME stream.interruptions = {}, NEW cb, NEW data, NEW o, Callback(cb, data, o)
  PROVE  /\ called' = [cb |-> cb, data |-> data] /\ log' = Joined(log, cb, data)
         /\ parser' = o.parser /\ pos' = o.pos /\ call' = o.call /\ stream' = stream
BY DEF Callback, CallbackThen, Stay, Ends

LEMMA OutsideStates ==
  ASSUME NEW s \in Outside \cup Between
  PROVE  s \notin ChunkStates /\ s \notin InHeaders
<1>1. s \in UrlStates \/ s \notin UrlStates
  OBVIOUS
<1>. QED
  BY DEF Outside, LineStates, UrlStates, ServerStates, Between, ChunkStates, InHeaders, Blank, Ended

\* Between messages and headers.
LEMMA OutsideMeant ==
  ASSUME NEW w, NEW q, NEW n, NEW c, NEW l,
         q.type = "request", q.method \in Methods, c.end <= Len(w),
         q.state \in Outside \cup {"header_field_start"},
         q.state \notin {"dead", "start_req"} => Begun(l),
         ~Excused(l) => ~InHeader(l) /\ Flagged(q, l) /\ (q.state = "headers_done" => "CHUNKED" \notin q.flags)
  PROVE  Meant(w, q, n, c, l)
<1>1. q.state \in Outside \cup Between
  BY DEF Between
<1>2. /\ q.state \notin ChunkStates /\ q.state \notin InHeaders
      /\ q.state \notin {"header_field", "header_value"} /\ q.state \notin Blank /\ q.state \notin Ended
  BY <1>1, OutsideStates DEF InHeaders
<1>3. Follows(w, q, n, c, l)
  BY <1>1, <1>2 DEF Follows
<1>4. ~Excused(l) => Regular(w, q, n, c, l)
  BY <1>2 DEF Regular, InHeader
<1>. QED
  BY <1>3, <1>4 DEF Meant

\* The parser goes on in a message with this one.
Alike(q) ==
  /\ q.type = parser.type /\ q.method = parser.method /\ q.flags = parser.flags
  /\ q.uses_transfer_encoding = parser.uses_transfer_encoding

LEMMA InAlike == ASSUME Fit(parser), NEW s PROVE Alike(In(s))
BY InFit DEF Alike

\* What is known outside headers.
LEMMA OutsideFacts ==
  ASSUME Meant(stream.wire, parser, pos, call, log), parser.state \in Outside
  PROVE  /\ parser.type = "request" /\ parser.method \in Methods /\ call.end <= Len(stream.wire)
         /\ parser.state \notin {"dead", "start_req"} => Begun(log)
         /\ ~Excused(log) => ~InHeader(log) /\ Flagged(parser, log)
BY DEF Meant, Follows, Regular

LEMMA LineIsOutside == LineStates \subseteq Outside /\ "headers_done" \notin LineStates
BY DEF Outside, LineStates, UrlStates, ServerStates

\* A turn within a first line that calls nothing.
LEMMA LineDo ==
  ASSUME AtSocket, At(LineStates), NEW q, q.state \in LineStates \cup {"header_field_start"},
         q.type = parser.type, q.method \in Methods, q.flags = parser.flags,
         q.uses_transfer_encoding = parser.uses_transfer_encoding,
         parser.state \in {"dead", "start_req"} => q.state \in {"dead", "start_req"},
         NEW o, o.parser = q, o.call.end = call.end, Do(o), Collect
  PROVE  SocketInv'
<1>1. parser.state \in Outside /\ Meant(stream.wire, parser, pos, call, log) /\ parser.errno = "OK"
  BY SocketTurn, LineIsOutside
<1>2. /\ parser.type = "request" /\ call.end <= Len(stream.wire)
      /\ parser.state \notin {"dead", "start_req"} => Begun(log)
      /\ ~Excused(log) => ~InHeader(log) /\ Flagged(parser, log)
  BY <1>1, OutsideFacts
<1>3. ~Excused(log) => Flagged(q, log)
  BY <1>2 DEF Flagged
<1>4. q.state \in Outside \cup {"header_field_start"} /\ q.state # "headers_done"
  BY LineIsOutside
<1>5. Meant(stream.wire, o.parser, o.pos, o.call, log)
  BY <1>2, <1>3, <1>4, OutsideMeant
<1>. QED
  BY <1>1, <1>5, DoMeant

LEMMA AdvanceCall ==
  ASSUME ParserInv, NEW q
  PROVE  Advance(q).parser = q /\ Advance(q).pos = pos + 1 /\ Advance(q).call.end = call.end
         /\ Advance(q).call.marks = call.marks
BY DEF Advance, AdvanceTo, ParserInv, Keeps, Typed

LEMMA LineAdvance ==
  ASSUME AtSocket, At(LineStates), NEW q, q.state \in LineStates \cup {"header_field_start"},
         q.type = parser.type, q.method \in Methods, q.flags = parser.flags,
         q.uses_transfer_encoding = parser.uses_transfer_encoding,
         parser.state \in {"dead", "start_req"} => q.state \in {"dead", "start_req"},
         Do(Advance(q)), Collect
  PROVE  SocketInv'
<1>. DEFINE o == Advance(q)
<1>1. o.parser = q /\ o.call.end = call.end /\ Do(o)
  BY AdvanceCall DEF AtSocket
<1>. HIDE DEF o
<1>. QED
  BY <1>1, LineDo

\* At some of the states of first lines.
LEMMA LineTurn ==
  ASSUME AtSocket, NEW states, At(states), parser.state \in LineStates
  PROVE  /\ At(LineStates) /\ InTurn /\ Fit(parser) /\ parser.state \in states
         /\ parser.type = "request" /\ parser.method \in Methods
<1>1. InTurn /\ Fit(parser) /\ parser.state \in states /\ Meant(stream.wire, parser, pos, call, log)
  BY SocketTurn
<1>. QED
  BY <1>1 DEF At, Meant, Follows

LEMMA DeadMeant == ASSUME AtSocket, Dead, Collect PROVE SocketInv'
<1>1. At({"dead"}) /\ (Do(Advance(parser)) \/ Do(Error("CLOSED_CONNECTION")))
  BY DEF Dead
<1>2. parser.state = "dead" /\ parser.state \in LineStates
  BY <1>1 DEF At, LineStates
<1>. QED
  BY <1>1, <1>2, LineTurn, LineAdvance, ErrorMeant

\* States of responses are not those of a socket.
LEMMA NoResponses ==
  ASSUME AtSocket, NEW states, At(states)
  PROVE  parser.state \in Outside \cup Between \cup InHeaders \cup ChunkStates
BY SocketTurn DEF Meant, Follows

LEMMA ResponseStates ==
  ASSUME NEW s \in {"start_req_or_res", "res_or_resp_H", "start_res", "res_first_status_code", "res_status_code",
                    "res_status_start", "res_status", "res_H", "res_HT", "res_HTT", "res_HTTP",
                    "res_line_almost_done", "res_http_major", "res_http_dot", "res_http_minor", "res_http_end",
                    "body_identity_eof"}
  PROVE  s \notin Outside \cup Between \cup InHeaders \cup ChunkStates
BY DEF Outside, LineStates, UrlStates, ServerStates, Between, InHeaders, Blank, Ended, ChunkStates

LEMMA ResponseMeant ==
  ASSUME AtSocket, StartReqOrRes \/ ResOrRespH \/ StartRes \/ StatusCode \/ StatusStart \/ Status \/ BodyIdentityEof
  PROVE  FALSE
<1>1. PICK states \in SUBSET {"start_req_or_res", "res_or_resp_H", "start_res", "res_first_status_code",
                              "res_status_code", "res_status_start", "res_status", "body_identity_eof"} : At(states)
  BY DEF StartReqOrRes, ResOrRespH, StartRes, StatusCode, StatusStart, Status, BodyIdentityEof
<1>2. parser.state \in states
  BY <1>1 DEF At
<1>. QED
  BY <1>1, <1>2, NoResponses, ResponseStates

LEMMA ReqHttpStartMeant == ASSUME AtSocket, ReqHttpStart, Collect PROVE SocketInv'
<1>1. At({"req_http_start"})
  BY DEF ReqHttpStart
<1>2. Do(Advance(parser)) \/ Do(Advance(In("req_http_H"))) \/ Do(Advance(In("req_http_I")))
      \/ Do(Error("INVALID_CONSTANT"))
  BY DEF ReqHttpStart
<1>3. parser.state = "req_http_start" /\ {"req_http_start", "req_http_H", "req_http_I"} \subseteq LineStates
  BY <1>1 DEF At, LineStates
<1>4. Fit(parser) /\ At(LineStates) /\ parser.method \in Methods
  BY <1>1, <1>3, LineTurn
<1>5. \A s : In(s).state = s /\ Alike(In(s))
  BY <1>4, InFit, InAlike
<1>. QED
  BY <1>2, <1>3, <1>4, <1>5, LineAdvance, ErrorMeant DEF Alike

LEMMA ReqHttpEndMeant == ASSUME AtSocket, ReqHttpEnd, Collect PROVE SocketInv'
<1>1. At({"req_http_end"})
  BY DEF ReqHttpEnd
<1>2. Do(Advance(In("req_line_almost_done"))) \/ Do(Advance(In("header_field_start"))) \/ Do(Error("INVALID_VERSION"))
  BY DEF ReqHttpEnd
<1>3. parser.state = "req_http_end" /\ {"req_http_end", "req_line_almost_done"} \subseteq LineStates
  BY <1>1 DEF At, LineStates
<1>4. Fit(parser) /\ At(LineStates) /\ parser.method \in Methods
  BY <1>1, <1>3, LineTurn
<1>5. \A s : In(s).state = s /\ Alike(In(s))
  BY <1>4, InFit, InAlike
<1>. QED
  BY <1>2, <1>3, <1>4, <1>5, LineAdvance, ErrorMeant DEF Alike

LEMMA ReqLineAlmostDoneMeant == ASSUME AtSocket, ReqLineAlmostDone, Collect PROVE SocketInv'
<1>1. At({"req_line_almost_done"})
  BY DEF ReqLineAlmostDone
<1>2. Do(Advance(In("header_field_start"))) \/ Do(Error("LF_EXPECTED"))
  BY DEF ReqLineAlmostDone
<1>3. parser.state = "req_line_almost_done" /\ "req_line_almost_done" \in LineStates
  BY <1>1 DEF At, LineStates
<1>4. Fit(parser) /\ At(LineStates) /\ parser.method \in Methods
  BY <1>1, <1>3, LineTurn
<1>5. \A s : In(s).state = s /\ Alike(In(s))
  BY <1>4, InFit, InAlike
<1>. QED
  BY <1>2, <1>3, <1>4, <1>5, LineAdvance, ErrorMeant DEF Alike

LEMMA VersionMeant == ASSUME AtSocket, Version, Collect PROVE SocketInv'
<1>. DEFINE digit == DigitValue[ch]
            major == [In("req_http_dot") EXCEPT !.http_major = digit]
            minor == [In("req_http_end") EXCEPT !.http_minor = digit]
<1>1. At({"res_http_major", "res_http_dot", "res_http_minor", "res_http_end",
          "req_http_major", "req_http_dot", "req_http_minor"})
  BY DEF Version
<1>2. parser.state \in {"req_http_major", "req_http_dot", "req_http_minor"} /\ parser.state \in LineStates
  <2>1. parser.state \in {"res_http_major", "res_http_dot", "res_http_minor", "res_http_end"} \cup
                         {"req_http_major", "req_http_dot", "req_http_minor"}
    BY <1>1 DEF At
  <2>2. parser.state \notin {"res_http_major", "res_http_dot", "res_http_minor", "res_http_end"}
    BY <1>1, NoResponses, ResponseStates
  <2>. QED
    BY <2>1, <2>2 DEF LineStates
<1>3. Fit(parser) /\ At(LineStates) /\ parser.method \in Methods
  BY <1>1, <1>2, LineTurn
<1>4. Do(Advance(major)) \/ Do(Advance(In("req_http_minor"))) \/ Do(Advance(minor)) \/ Do(Error("INVALID_VERSION"))
  BY <1>2 DEF Version
<1>5. \A s : Fit(In(s)) /\ In(s).state = s /\ Alike(In(s))
  BY <1>3, InFit, InAlike
<1>6. major.state = "req_http_dot" /\ Alike(major) /\ minor.state = "req_http_end" /\ Alike(minor)
  BY <1>5 DEF Fit, ParserFields, Alike
<1>7. {"req_http_dot", "req_http_end", "req_http_minor"} \subseteq LineStates
  BY DEF LineStates
<1>. HIDE DEF major, minor
<1>. QED
  BY <1>2, <1>3, <1>4, <1>5, <1>6, <1>7, LineAdvance, ErrorMeant DEF Alike

\* Between a name and its value.
LEMMA BlankStates ==
  ASSUME NEW s \in Blank
  PROVE  /\ s \notin ChunkStates /\ s \notin Outside /\ s \notin Between /\ s \in InHeaders
         /\ s \notin {"header_field", "header_value", "headers_done", "dead", "start_req"} /\ s \notin Ended
<1>1. s \in InHeaders
  BY DEF InHeaders
<1>2. s \notin Outside \cup Between
  BY <1>1, OutsideStates
<1>. QED
  BY <1>1, <1>2 DEF Blank, Ended, ChunkStates, Outside, LineStates

\* What is known between a name and its value.
LEMMA BlankFacts ==
  ASSUME Meant(stream.wire, parser, pos, call, log), parser.state \in Blank
  PROVE  /\ parser.type = "request" /\ parser.method \in Methods /\ call.end <= Len(stream.wire)
         /\ Begun(log) /\ LastIs(log, "header_field")
         /\ ~Excused(log) =>
              /\ Flagged(parser, log) /\ Named(parser, Gathered(log))
              /\ parser.header_state = "transfer_encoding" => parser.uses_transfer_encoding
BY BlankStates DEF Meant, Follows, Regular

LEMMA BlankDo ==
  ASSUME AtSocket, At(Blank), NEW s \in Blank \cup {parser.state}, Do(Advance(In(s))) \/ Do(Advance(parser)), Collect
  PROVE  SocketInv'
<1>1. /\ parser.state \in Blank /\ Meant(stream.wire, parser, pos, call, log) /\ parser.errno = "OK"
      /\ Fit(parser)
  BY SocketTurn
<1>2. PICK q \in {parser, In(s)} : Do(Advance(q))
  OBVIOUS
<1>3. /\ q.state \in Blank /\ Alike(q) /\ q.header_state = parser.header_state /\ q.phase = parser.phase
      /\ q.matched = parser.matched
  BY <1>1, InFit, InAlike DEF Alike
<1>4. /\ q.state \notin ChunkStates /\ q.state \notin Outside /\ q.state \notin Between /\ q.state \in InHeaders
      /\ q.state \notin {"header_field", "header_value", "headers_done", "dead", "start_req"} /\ q.state \notin Ended
  BY <1>3, BlankStates
<1>. DEFINE o == Advance(q)
<1>5. o.parser = q /\ o.call.end = call.end /\ Do(o)
  BY <1>2, AdvanceCall DEF AtSocket
<1>. HIDE DEF o
<1>6. Follows(stream.wire, q, o.pos, o.call, log)
  BY <1>1, <1>3, <1>4, <1>5, BlankFacts DEF Follows, Alike
<1>7. ~Excused(log) => Named(q, Gathered(log)) /\ Flagged(q, log)
  BY <1>1, <1>3, BlankFacts DEF Named, Flagged, Alike
<1>8. ~Excused(log) => Regular(stream.wire, q, o.pos, o.call, log)
  BY <1>1, <1>3, <1>4, <1>7, BlankFacts DEF Regular, Alike
<1>. QED
  BY <1>1, <1>5, <1>6, <1>8, DoMeant DEF Meant

LEMMA StrictLetterMeant == ASSUME AtSocket, StrictLetter, Collect PROVE SocketInv'
<1>1. At(DOMAIN StrictMoves) /\ (Do(Advance(In(StrictMoves[parser.state][2]))) \/ Do(Error("STRICT")))
  BY DEF StrictLetter
<1>. DEFINE s == StrictMoves[parser.state][2]
<1>2. /\ parser.state \in DOMAIN StrictMoves
      /\ parser.state \notin {"res_H", "res_HT", "res_HTT", "res_HTTP", "res_line_almost_done"} /\ Fit(parser)
  BY <1>1, NoResponses, ResponseStates, SocketTurn
<1>3. \/ parser.state \in {"req_http_H", "req_http_HT", "req_http_HTT", "req_http_HTTP", "req_http_I", "req_http_IC"}
         /\ s \in {"req_http_HT", "req_http_HTT", "req_http_HTTP", "req_http_IC", "req_http_major"}
      \/ parser.state = "header_value_discard_ws_almost_done" /\ s = "header_value_discard_lws"
  BY <1>2 DEF StrictMoves
<1>. HIDE DEF s
<1>4. CASE Do(Error("STRICT"))
  BY <1>2, <1>4, ErrorMeant
<1>5. CASE Do(Advance(In(s)))
  <2>1. CASE parser.state \in {"req_http_H", "req_http_HT", "req_http_HTT", "req_http_HTTP", "req_http_I", "req_http_IC"}
    <3>1. parser.state \in LineStates /\ s \in LineStates /\ s # "header_field_start"
          /\ parser.state \notin {"dead", "start_req"}
      BY <1>3, <2>1 DEF LineStates
    <3>2. At(LineStates) /\ parser.method \in Methods
      BY <1>1, <3>1, LineTurn
    <3>3. In(s).state = s /\ Alike(In(s))
      BY <1>2, InFit, InAlike
    <3>. QED
      BY <1>5, <3>1, <3>2, <3>3, LineAdvance DEF Alike
  <2>2. CASE parser.state = "header_value_discard_ws_almost_done"
    <3>1. At(Blank) /\ s \in Blank
      BY <1>1, <1>3, <2>2 DEF At, Blank
    <3>. QED
      BY <1>5, <3>1, BlankDo
  <2>. QED
    BY <1>3, <2>1, <2>2
<1>. QED
  BY <1>1, <1>4, <1>5 DEF s

LEMMA ReqMethodMeant == ASSUME AtSocket, ReqMethod, Collect PROVE SocketInv'
<1>. DEFINE q == [parser EXCEPT !.index = parser.index + 1]
            turns == {t \in MethodTurns : t[1] = parser.method /\ t[2] = parser.index /\ t[3] = ch}
            turned(m) == [q EXCEPT !.method = m]
            over == [q EXCEPT !.state = "spaces_before_url"]
<1>1. At({"req_method"})
  BY DEF ReqMethod
<1>2. \/ Do(Advance(over)) \/ Do(Advance(q)) \/ Do(Error("INVALID_METHOD"))
      \/ turns # {} /\ Do(Advance(turned((CHOOSE t \in turns : TRUE)[4])))
  BY DEF ReqMethod
<1>3. turns # {} => (CHOOSE t \in turns : TRUE)[4] \in Methods
  <2>1. \A t \in turns : t[4] \in Methods
    BY DEF Methods
  <2>. HIDE DEF turns
  <2>. QED
    BY <2>1
<1>. HIDE DEF turns
<1>4. \/ Do(Advance(over)) \/ Do(Advance(q)) \/ Do(Error("INVALID_METHOD"))
      \/ \E m \in Methods : Do(Advance(turned(m)))
  BY <1>2, <1>3
<1>5. parser.state = "req_method" /\ parser.state \in LineStates /\ "spaces_before_url" \in LineStates
  BY <1>1 DEF At, LineStates
<1>6. Fit(parser) /\ At(LineStates) /\ parser.method \in Methods
  BY <1>1, <1>5, LineTurn
<1>7. Alike(q) /\ q.state = "req_method" /\ ParserFields \subseteq DOMAIN q
  BY <1>5, <1>6 DEF Alike, Fit, ParserFields
<1>. HIDE DEF q
<1>8. Alike(over) /\ over.state = "spaces_before_url"
  BY <1>7 DEF Alike, ParserFields
<1>9. ASSUME NEW m \in Methods
      PROVE  /\ turned(m).type = parser.type /\ turned(m).method = m /\ turned(m).flags = parser.flags
             /\ turned(m).uses_transfer_encoding = parser.uses_transfer_encoding /\ turned(m).state = "req_method"
  BY <1>7 DEF Alike, ParserFields
<1>. HIDE DEF over, turned
<1>10. CASE \E m \in Methods : Do(Advance(turned(m)))
  <2>1. PICK m \in Methods : Do(Advance(turned(m)))
    BY <1>10
  <2>. QED
    BY <1>5, <1>6, <1>9, <2>1, LineAdvance
<1>. QED
  BY <1>4, <1>5, <1>6, <1>7, <1>8, <1>10, LineAdvance, ErrorMeant DEF Alike

LEMMA SpacesBeforeUrlMeant == ASSUME AtSocket, SpacesBeforeUrl, Collect PROVE SocketInv'
<1>. DEFINE next == ParseUrlChar(IF parser.method = "CONNECT" THEN "server_start" ELSE parser.state, ch)
            o == Advance(In(next))
<1>1. At({"spaces_before_url"})
  BY DEF SpacesBeforeUrl
<1>2. Error("INVALID_URL").call = NoCall
  BY DEF Error, Return, Leave, AdvanceTo
<1>3. \/ Do(Advance(parser)) \/ Do(Error("INVALID_URL"))
      \/ next # "dead" /\ (Do(o) \/ Do(Marked(o, "url")))
  BY <1>2 DEF SpacesBeforeUrl, Target
<1>4. next \in UrlStates \cup {"dead"}
  BY TargetStates
<1>. HIDE DEF next
<1>5. parser.state = "spaces_before_url" /\ parser.state \in LineStates
  BY <1>1 DEF At, LineStates
<1>6. Fit(parser) /\ At(LineStates) /\ parser.method \in Methods
  BY <1>1, <1>5, LineTurn
<1>7. In(next).state = next /\ Alike(In(next))
  BY <1>6, InFit, InAlike
<1>8. o.parser = In(next) /\ o.call.end = call.end
  BY AdvanceCall DEF AtSocket
<1>9. Marked(o, "url").parser = In(next) /\ Marked(o, "url").call.end = call.end
  <2>1. DOMAIN o = {"parser", "pos", "call"} /\ DOMAIN o.call = {"end", "nread", "fetched", "marks"}
    BY DEF Advance, AdvanceTo, AtSocket, ParserInv, Keeps, Typed
  <2>. HIDE DEF o
  <2>. QED
    BY <1>8, <2>1 DEF Marked
<1>10. next # "dead" => next \in LineStates
  BY <1>4 DEF LineStates
<1>. HIDE DEF o
<1>11. CASE next # "dead" /\ (Do(o) \/ Do(Marked(o, "url")))
  BY <1>5, <1>6, <1>7, <1>8, <1>9, <1>10, <1>11, LineDo DEF Alike
<1>. QED
  BY <1>3, <1>5, <1>6, <1>11, LineAdvance, ErrorMeant

LEMMA StartReqMeant == ASSUME AtSocket, StartReq, Collect PROVE SocketInv'
<1>. DEFINE q(m) == [Fresh EXCEPT !.method = m, !.index = 1, !.state = "req_method"]
            o == Advance(q(MethodOf[ch]))
            m == Joined(log, "message_begin", <<>>)
<1>1. At({"start_req"})
  BY DEF StartReq
<1>2. \/ Do(Advance(parser)) \/ Do(Error("INVALID_METHOD"))
      \/ ch \in DOMAIN MethodOf /\ Callback("message_begin", <<>>, o)
  BY DEF StartReq
<1>3. parser.state = "start_req" /\ {"start_req", "req_method"} \subseteq LineStates
  BY <1>1 DEF At, LineStates
<1>4. Fit(parser) /\ At(LineStates) /\ parser.method \in Methods /\ parser.type = "request"
  BY <1>1, <1>3, LineTurn
<1>5. CASE ch \in DOMAIN MethodOf /\ Callback("message_begin", <<>>, o)
  <2>1. MethodOf[ch] \in Methods
    BY <1>5 DEF Methods
  <2>. DEFINE v == q(MethodOf[ch])
  <2>2. /\ v.state = "req_method" /\ v.type = "request" /\ v.method \in Methods /\ v.flags = {}
        /\ v.uses_transfer_encoding = FALSE
    BY <1>4, <2>1 DEF Fresh, Fit, ParserFields
  <2>. HIDE DEF q, v
  <2>3. o.parser = v /\ o.call.end = call.end
    BY AdvanceCall DEF AtSocket, v
  <2>. HIDE DEF o
  <2>4. /\ called' = [cb |-> "message_begin", data |-> <<>>] /\ log' = m
        /\ parser' = o.parser /\ pos' = o.pos /\ call' = o.call /\ stream' = stream
    BY <1>1, <1>5, SocketTurn, CallbackEnds
  <2>5. log \in Seq(Entry) /\ parser.errno = "OK" /\ Meant(stream.wire, parser, pos, call, log)
    BY <1>1, SocketTurn
  <2>6. <<>> \in Seq(AllChar \cup Methods) /\ "message_begin" \in Callbacks \ {"header_field", "header_value"}
    BY EmptySeq DEF Callbacks, DataCallbacks
  <2>7. m \in Seq(Entry) /\ ~InHeader(m) /\ Begun(m) /\ Sent(m) = NoHeaders /\ (Excused(log) => Excused(m))
    BY <2>5, <2>6, OutsideLog
  <2>8. Flagged(v, m)
    BY <2>2, <2>7 DEF Flagged, NoHeaders
  <2>9. /\ call.end <= Len(stream.wire)
        /\ ~Excused(log) => ~InHeader(log) /\ Flagged(parser, log)
    BY <1>3, <2>5, OutsideFacts, LineIsOutside
  <2>10. "req_method" \in Outside \cup {"header_field_start"}
    BY <1>3, LineIsOutside
  <2>. HIDE DEF m
  <2>11. Meant(stream.wire, o.parser, o.pos, o.call, m)
    BY <2>2, <2>3, <2>7, <2>8, <2>9, <2>10, OutsideMeant
  <2>. QED
    BY <2>4, <2>5, <2>6, <2>9, <2>11, OutsideStep DEF AtSocket, m
<1>. HIDE DEF o
<1>. QED
  BY <1>2, <1>3, <1>4, <1>5, LineAdvance, ErrorMeant

\* Bytes of the stream are text.
LEMMA BytesAreText ==
  ASSUME NEW w \in Seq(AllChar), NEW from \in Nat \ {0}, NEW to \in Int, to <= Len(w)
  PROVE  /\ SubSeq(w, from, to) \in Seq(AllChar)
         /\ SubSeq(w, from, to) \in Seq(AllChar \cup Methods)
         /\ Len(SubSeq(w, from, to)) = IF from <= to THEN to - from + 1 ELSE 0
         /\ \A i \in 1..to - from + 1 : SubSeq(w, from, to)[i] = w[from + i - 1]
<1>1. Len(w) \in Nat /\ \A i \in 1..Len(w) : w[i] \in AllChar
  BY LenProperties, ElementOfSeq
<1>2. \A i \in from..to : w[i] \in AllChar
  BY <1>1
<1>3. \A i \in from..to : w[i] \in AllChar \cup Methods
  BY <1>2
<1>. QED
  BY <1>2, <1>3, SubSeqProperties

LEMMA FlushEnds ==
  ASSUME stream.interruptions = {}, NEW cb, NEW last, NEW o, IsOutcome(o), Flush(cb, last, o)
  PROVE  LET data == SubSeq(stream.wire, call.marks[cb], last)
             c == [o.call EXCEPT !.marks[cb] = 0]
         IN  \/ call.marks[cb] = 0 /\ Do(o)
             \/ /\ call.marks[cb] # 0
                /\ called' = [cb |-> cb, data |-> data] /\ log' = Joined(log, cb, data)
                /\ parser' = o.parser /\ pos' = o.pos /\ call' = c /\ stream' = stream
<1>. DEFINE data == SubSeq(stream.wire, call.marks[cb], last)
            cleared == [o EXCEPT !.call.marks[cb] = 0]
            c == [o.call EXCEPT !.marks[cb] = 0]
<1>1. cleared.parser = o.parser /\ cleared.pos = o.pos /\ cleared.call = c
  BY DEF IsOutcome
<1>2. \/ call.marks[cb] = 0 /\ Do(o)
      \/ call.marks[cb] # 0 /\ Callback(cb, data, cleared)
  BY DEF Flush, FlushThen, Callback, Stay
<1>. HIDE DEF cleared, data, c
<1>3. CASE call.marks[cb] # 0 /\ Callback(cb, data, cleared)
  <2>1. /\ called' = [cb |-> cb, data |-> data] /\ log' = Joined(log, cb, data)
        /\ parser' = cleared.parser /\ pos' = cleared.pos /\ call' = cleared.call /\ stream' = stream
    BY <1>3, CallbackEnds
  <2>. QED
    BY <1>1, <1>3, <2>1 DEF data, c
<1>. QED
  BY <1>2, <1>3 DEF data, c

LEMMA UrlIsLine == UrlStates \subseteq LineStates /\ "dead" \notin UrlStates /\ "start_req" \notin UrlStates
BY DEF UrlStates, ServerStates, LineStates

\* A target ends.
LEMMA UrlFlush ==
  ASSUME AtSocket, At(UrlStates), NEW q, q.state \in {"req_http_start", "req_line_almost_done", "header_field_start"},
         Alike(q), Flush("url", pos - 1, Advance(q)), Collect
  PROVE  SocketInv'
<1>. DEFINE o == Advance(q)
            data == SubSeq(stream.wire, call.marks["url"], pos - 1)
            m == Joined(log, "url", data)
            c == [o.call EXCEPT !.marks["url"] = 0]
<1>1. /\ parser.state \in UrlStates /\ stream.wire \in Seq(AllChar) /\ stream.interruptions = {}
      /\ log \in Seq(Entry) /\ Meant(stream.wire, parser, pos, call, log) /\ parser.errno = "OK"
      /\ pos \in Nat \ {0} /\ pos <= call.end /\ InTurn /\ call.end \in Nat
  BY SocketTurn DEF InTurn, ParserInv, Keeps, Typed, Within
<1>2. /\ parser.state \in LineStates /\ parser.state \notin {"dead", "start_req"} /\ At(LineStates)
      /\ q.state \in LineStates \cup {"header_field_start"}
  BY <1>1, UrlIsLine DEF At, LineStates
<1>3. /\ parser.type = "request" /\ parser.method \in Methods /\ call.end <= Len(stream.wire)
      /\ Begun(log)
      /\ ~Excused(log) => ~InHeader(log) /\ Flagged(parser, log)
  BY <1>1, <1>2, OutsideFacts, LineIsOutside
<1>4. o.parser = q /\ o.call.end = call.end /\ o.call.marks = call.marks /\ IsOutcome(o)
  BY AdvanceCall DEF AtSocket, IsOutcome, Advance, AdvanceTo
<1>5. c.end = call.end
  BY DEF InTurn, AtSocket, ParserInv, Keeps, Typed, Advance, AdvanceTo
<1>. HIDE DEF o
<1>6. \/ Do(o)
      \/ /\ call.marks["url"] # 0 /\ called' = [cb |-> "url", data |-> data] /\ log' = m
         /\ parser' = o.parser /\ pos' = o.pos /\ call' = c /\ stream' = stream
  BY <1>1, <1>4, FlushEnds DEF o
<1>7. CASE Do(o)
  BY <1>2, <1>3, <1>4, <1>7, LineDo DEF Alike
<1>. HIDE DEF c
<1>8. CASE /\ call.marks["url"] # 0 /\ called' = [cb |-> "url", data |-> data] /\ log' = m
           /\ parser' = o.parser /\ pos' = o.pos /\ call' = c /\ stream' = stream
  <2>1. call.marks["url"] \in Nat \ {0} /\ pos - 1 \in Int /\ pos - 1 <= Len(stream.wire)
    <3>1. Len(stream.wire) \in Nat
      BY <1>1, LenProperties
    <3>. QED
      BY <1>1, <1>3, <1>8, <3>1 DEF InTurn, ParserInv, Keeps, Typed, DataCallbacks
  <2>2. data \in Seq(AllChar \cup Methods)
    BY <1>1, <2>1, BytesAreText
  <2>. HIDE DEF data
  <2>3. "url" \in Callbacks \ {"header_field", "header_value"}
    BY DEF Callbacks, DataCallbacks
  <2>4. m \in Seq(Entry) /\ ~InHeader(m) /\ Begun(m) /\ Sent(m) = Sent(log) /\ (Excused(log) => Excused(m))
    BY <1>1, <1>3, <2>2, <2>3, OutsideLog
  <2>. HIDE DEF m
  <2>5. ~Excused(m) => Flagged(q, m)
    BY <1>3, <2>4 DEF Flagged, Alike
  <2>6. q.state \in Outside \cup {"header_field_start"} /\ q.state # "headers_done"
    BY <1>2, LineIsOutside
  <2>7. Meant(stream.wire, o.parser, o.pos, c, m)
    BY <1>3, <1>4, <1>5, <2>4, <2>5, <2>6, OutsideMeant DEF Alike
  <2>. QED
    BY <1>1, <1>3, <1>8, <2>2, <2>7, OutsideStep DEF AtSocket, m
<1>. QED
  BY <1>6, <1>7, <1>8

LEMMA UrlMeant == ASSUME AtSocket, Url, Collect PROVE SocketInv'
<1>. DEFINE next == ParseUrlChar(parser.state, ch)
            after == IF ch = "CR" THEN "req_line_almost_done" ELSE "header_field_start"
            simple == [In(after) EXCEPT !.http_major = 0, !.http_minor = 9]
<1>1. At(UrlStates)
  BY DEF Url
<1>2. \/ Flush("url", pos - 1, Advance(In("req_http_start"))) \/ Flush("url", pos - 1, Advance(simple))
      \/ Do(Error("INVALID_URL"))
      \/ next # "dead" /\ Do(Advance(In(next)))
  <2>1. Target(parser.state) = IF next = "dead" THEN Error("INVALID_URL") ELSE Advance(In(next))
    BY DEF Target
  <2>. HIDE DEF next
  <2>2. \/ Flush("url", pos - 1, Advance(In("req_http_start"))) \/ Flush("url", pos - 1, Advance(simple))
        \/ Do(Target(parser.state))
    BY DEF Url
  <2>3. CASE next = "dead"
    BY <2>1, <2>2, <2>3
  <2>4. CASE next # "dead"
    BY <2>1, <2>2, <2>4
  <2>. QED
    BY <2>3, <2>4
<1>3. next \in UrlStates \cup {"dead"} /\ after \in {"req_line_almost_done", "header_field_start"}
  BY TargetStates
<1>. HIDE DEF next, after
<1>4. parser.state \in UrlStates /\ parser.state \in LineStates /\ parser.state \notin {"dead", "start_req"}
  BY <1>1, UrlIsLine DEF At
<1>5. Fit(parser) /\ At(LineStates) /\ parser.method \in Methods
  BY <1>1, <1>4, LineTurn
<1>6. \A s : Fit(In(s)) /\ In(s).state = s /\ Alike(In(s))
  BY <1>5, InFit, InAlike
<1>7. simple.state = after /\ Alike(simple)
  BY <1>6 DEF Fit, ParserFields, Alike
<1>. HIDE DEF simple
<1>8. CASE next # "dead" /\ Do(Advance(In(next)))
  <2>1. next \in LineStates
    BY <1>3, <1>8 DEF LineStates
  <2>. QED
    BY <1>4, <1>5, <1>6, <1>8, <2>1, LineAdvance DEF Alike
<1>. QED
  BY <1>1, <1>2, <1>3, <1>5, <1>6, <1>7, <1>8, UrlFlush, ErrorMeant

-----------------------------------------------------------------------------
(* Names in lower case, as far as they have been read. *)

LogText == AllChar \cup Methods
LowText == {LowerOf(c) : c \in LogText}

LEMMA LowerIs ==
  ASSUME NEW t \in Seq(LogText)
  PROVE  /\ Lower(t) \in Seq(LowText) /\ Len(Lower(t)) = Len(t) /\ Len(t) \in Nat
         /\ \A i \in 1..Len(t) : Lower(t)[i] = LowerOf(t[i])
<1>. DEFINE n == Len(t)
<1>1. n \in Nat /\ DOMAIN t = 1..n
  BY LenProperties
<1>2. \A i \in 1..n : t[i] \in LogText
  BY ElementOfSeq
<1>. HIDE DEF n
<1>3. Lower(t) = [i \in 1..n |-> LowerOf(t[i])]
  BY <1>1 DEF Lower
<1>4. \A i \in 1..n : LowerOf(t[i]) \in LowText
  BY <1>2 DEF LowText
<1>. HIDE DEF LowText
<1>5. Lower(t) \in [1..n -> LowText]
  BY <1>3, <1>4
<1>6. Lower(t) \in Seq(LowText)
  BY <1>1, <1>5, SeqDef
<1>7. Len(Lower(t)) = n
  <2>1. DOMAIN Lower(t) = 1..n /\ DOMAIN Lower(t) = 1..Len(Lower(t)) /\ Len(Lower(t)) \in Nat
    BY <1>5, <1>6, LenProperties
  <2>. QED
    BY <1>1, <2>1
<1>. QED
  BY <1>1, <1>3, <1>6, <1>7 DEF n

LEMMA LowerConcat ==
  ASSUME NEW s \in Seq(LogText), NEW t \in Seq(LogText)
  PROVE  Lower(s \o t) = Lower(s) \o Lower(t)
<1>1. /\ s \o t \in Seq(LogText) /\ Len(s \o t) = Len(s) + Len(t)
      /\ \A i \in 1..Len(s) + Len(t) : (s \o t)[i] = IF i <= Len(s) THEN s[i] ELSE t[i - Len(s)]
  BY ConcatProperties
<1>2. /\ Lower(s) \in Seq(LowText) /\ Len(Lower(s)) = Len(s) /\ Len(s) \in Nat
      /\ \A i \in 1..Len(s) : Lower(s)[i] = LowerOf(s[i])
  BY LowerIs
<1>3. /\ Lower(t) \in Seq(LowText) /\ Len(Lower(t)) = Len(t) /\ Len(t) \in Nat
      /\ \A i \in 1..Len(t) : Lower(t)[i] = LowerOf(t[i])
  BY LowerIs
<1>4. /\ Lower(s \o t) \in Seq(LowText) /\ Len(Lower(s \o t)) = Len(s) + Len(t)
      /\ \A i \in 1..Len(s) + Len(t) : Lower(s \o t)[i] = LowerOf((s \o t)[i])
  BY <1>1, LowerIs
<1>. DEFINE c == Lower(s) \o Lower(t)
<1>. HIDE DEF LowText
<1>5. /\ c \in Seq(LowText) /\ Len(c) = Len(s) + Len(t)
      /\ \A i \in 1..Len(s) + Len(t) : c[i] = IF i <= Len(s) THEN Lower(s)[i] ELSE Lower(t)[i - Len(s)]
  BY <1>2, <1>3, ConcatProperties
<1>. HIDE DEF c
<1>6. ASSUME NEW i \in 1..Len(s) + Len(t) PROVE Lower(s \o t)[i] = c[i]
  <2>1. CASE i <= Len(s)
    <3>1. i \in 1..Len(s)
      BY <1>2, <1>3, <2>1
    <3>. QED
      BY <1>1, <1>2, <1>4, <1>5, <2>1, <3>1
  <2>2. CASE ~(i <= Len(s))
    <3>1. i - Len(s) \in 1..Len(t)
      BY <1>2, <1>3, <2>2
    <3>. QED
      BY <1>1, <1>3, <1>4, <1>5, <2>2, <3>1
  <2>. QED
    BY <2>1, <2>2
<1>. QED
  BY <1>4, <1>5, <1>6, SeqEqual DEF c

LEMMA PrefixOfConcat ==
  ASSUME NEW S, NEW s \in Seq(S), NEW t \in Seq(S)
  PROVE  IsPrefix(s, s \o t)
<1>1. /\ s \o t \in Seq(S) /\ Len(s \o t) = Len(s) + Len(t) /\ Len(s) \in Nat /\ Len(t) \in Nat
      /\ \A i \in 1..Len(s) + Len(t) : (s \o t)[i] = IF i <= Len(s) THEN s[i] ELSE t[i - Len(s)]
  BY ConcatProperties, LenProperties
<1>. DEFINE n == Len(s)
            c == s \o t
<1>. HIDE DEF n, c
<1>2. \A i \in 1..n : i \in 1..Len(c) /\ c[i] = s[i]
  BY <1>1 DEF n, c
<1>3. n \in Nat /\ n <= Len(c)
  BY <1>1 DEF n, c
<1>4. \A i \in 1..n : s[i] \in S /\ c[i] \in S
  BY <1>2, ElementOfSeq DEF n
<1>. DEFINE a == SubSeq(s, 1, n)
            b == SubSeq(c, 1, n)
<1>5. /\ a \in Seq(S) /\ Len(a) = (IF 1 <= n THEN n - 1 + 1 ELSE 0)
      /\ \A i \in 1..n - 1 + 1 : a[i] = s[1 + i - 1]
  BY <1>3, <1>4, SubSeqProperties
<1>6. /\ b \in Seq(S) /\ Len(b) = (IF 1 <= n THEN n - 1 + 1 ELSE 0)
      /\ \A i \in 1..n - 1 + 1 : b[i] = c[1 + i - 1]
  BY <1>3, <1>4, SubSeqProperties
<1>. HIDE DEF a, b
<1>7. Len(a) = n /\ Len(b) = n /\ n - 1 + 1 = n /\ \A i \in 1..n : 1 + i - 1 = i
  BY <1>3, <1>5, <1>6
<1>8. \A i \in 1..n : a[i] = b[i]
  BY <1>2, <1>5, <1>6, <1>7
<1>9. a = b
  BY <1>5, <1>6, <1>7, <1>8, SeqEqual
<1>. QED
  BY <1>3, <1>9 DEF IsPrefix, n, c, a, b

\* More letters of a name.
LEMMA NameGrows ==
  ASSUME NEW q, Fit(q), NEW name \in Seq(LogText), NEW letters \in Seq(LogText), name \o letters # <<>>,
         IF q.header_state = "general" THEN \A rest \in Seq(LogText) : Lower(name \o rest) # LengthName
         ELSE q.matched = Lower(name)
  PROVE  /\ Named(NameRead(q, letters), name \o letters)
         /\ NameRead(q, letters).header_state = "transfer_encoding" => NameRead(q, letters).uses_transfer_encoding
<1>. DEFINE all == name \o letters
            low == Lower(all)
            begun == IsPrefix(Spell("transfer-encoding"), low)
            named == [q EXCEPT !.phase = "name", !.matched = low, !.uses_transfer_encoding = @ \/ begun]
            r == NameRead(q, letters)
<1>1. all \in Seq(LogText) /\ low = Lower(name) \o Lower(letters) /\ low \in Seq(LowText)
  BY ConcatProperties, LowerConcat, LowerIs
<1>2. CASE q.header_state = "general"
  <2>1. r = q
    BY <1>2 DEF NameRead
  <2>2. ASSUME NEW rest \in Seq(LogText) PROVE Lower(all \o rest) # LengthName
    <3>1. letters \o rest \in Seq(LogText)
      BY ConcatProperties
    <3>2. (name \o letters) \o rest = name \o (letters \o rest)
      BY ConcatAssociative, SMTT(30)
    <3>. QED
      BY <1>2, <3>1, <3>2
  <2>. HIDE DEF r, all
  <2>. QED
    BY <1>2, <2>1, <2>2 DEF Named, LogText, r, all
<1>3. CASE q.header_state # "general"
  <2>1. q.matched \o Lower(letters) = low
    BY <1>1, <1>3
  <2>2. r = IF low \in DOMAIN KindOf THEN [named EXCEPT !.header_state = KindOf[low]]
            ELSE IF \E n \in DOMAIN KindOf : IsPrefix(low, n) THEN [named EXCEPT !.header_state = "matching"]
            ELSE [named EXCEPT !.header_state = "general", !.matched = <<>>]
    BY <1>3, <2>1, Zenon DEF NameRead
  <2>3. LengthName \in DOMAIN KindOf
    BY DEF KindOf, LengthName
  <2>4. KindOf[LengthName] = "content_length"
    BY CharacterAssumption DEF LengthName
  <2>5. low \in DOMAIN KindOf => KindOf[low] # "general"
    BY DEF KindOf
  <2>6. low \in DOMAIN KindOf /\ KindOf[low] = "transfer_encoding" => low = Spell("transfer-encoding")
    BY DEF KindOf
  <2>7. IsPrefix(low, low)
    BY DEF IsPrefix
  <2>8. ASSUME NEW rest \in Seq(LogText), Lower(all \o rest) = LengthName PROVE IsPrefix(low, LengthName)
    <3>1. LengthName = low \o Lower(rest) /\ Lower(rest) \in Seq(LowText)
      BY <1>1, <2>8, LowerConcat, LowerIs
    <3>. HIDE DEF low, LowText
    <3>. QED
      BY <1>1, <3>1, PrefixOfConcat
  <2>9. /\ ParserFields \subseteq DOMAIN named /\ named.phase = "name" /\ named.matched = low
        /\ (named.uses_transfer_encoding <=> q.uses_transfer_encoding \/ begun)
    BY DEF Fit, ParserFields
  <2>. HIDE DEF named, r, low, begun, all
  <2>10. CASE low \in DOMAIN KindOf
    <3>1. r = [named EXCEPT !.header_state = KindOf[low]]
      BY <2>2, <2>10
    <3>2. /\ r.header_state = KindOf[low] /\ r.phase = "name" /\ r.matched = low
          /\ r.uses_transfer_encoding = named.uses_transfer_encoding
      BY <2>9, <3>1 DEF ParserFields
    <3>3. Named(r, all)
      BY <2>4, <2>5, <2>10, <3>2 DEF Named, low, all
    <3>4. r.header_state = "transfer_encoding" => begun
      BY <2>6, <2>7, <2>10, <3>2 DEF begun
    <3>. QED
      BY <2>9, <3>2, <3>3, <3>4 DEF r, all
  <2>11. CASE low \notin DOMAIN KindOf /\ \E n \in DOMAIN KindOf : IsPrefix(low, n)
    <3>1. r = [named EXCEPT !.header_state = "matching"]
      BY <2>2, <2>11
    <3>2. r.header_state = "matching" /\ r.phase = "name" /\ r.matched = low
      BY <2>9, <3>1 DEF ParserFields
    <3>3. Named(r, all)
      BY <2>3, <2>11, <3>2 DEF Named, low, all
    <3>. QED
      BY <3>2, <3>3 DEF r, all
  <2>12. CASE low \notin DOMAIN KindOf /\ ~\E n \in DOMAIN KindOf : IsPrefix(low, n)
    <3>1. r = [named EXCEPT !.header_state = "general", !.matched = <<>>]
      BY <2>2, <2>12
    <3>2. r.header_state = "general"
      BY <2>9, <3>1 DEF ParserFields
    <3>3. \A rest \in Seq(LogText) : Lower(all \o rest) # LengthName
      BY <2>3, <2>8, <2>12
    <3>4. Named(r, all)
      BY <3>2, <3>3 DEF Named, all, LogText
    <3>. QED
      BY <3>2, <3>4 DEF r, all
  <2>. QED
    BY <2>10, <2>11, <2>12
<1>. QED
  BY <1>2, <1>3

-----------------------------------------------------------------------------
(* What is known, and to be shown, at the states of headers. *)

LEMMA HeaderStates ==
  /\ \A s \in InHeaders : s \notin Outside /\ s \notin Between /\ s \notin ChunkStates
  /\ \A s \in Between : s \notin Outside /\ s \notin InHeaders /\ s \notin ChunkStates
  /\ \A s \in Ended : s \in InHeaders /\ s \notin Blank /\ s \notin {"header_field", "header_value"}
  /\ "header_field" \in InHeaders /\ "header_field" \notin Blank \cup Ended
  /\ "header_value" \in InHeaders /\ "header_value" \notin Blank \cup Ended
  /\ \A s \in Between \cup InHeaders : s \notin {"dead", "start_req", "headers_done"}
<1>1. \A s \in InHeaders : s \notin Outside \cup Between
  BY OutsideStates
<1>2. \A s \in InHeaders : s \notin ChunkStates
  BY DEF InHeaders, Blank, Ended, ChunkStates
<1>3. \A s \in Between : s \notin Outside /\ s \notin InHeaders /\ s \notin ChunkStates
  BY DEF Outside, LineStates, UrlStates, ServerStates, Between, ChunkStates, InHeaders, Blank, Ended
<1>. QED
  BY <1>1, <1>2, <1>3 DEF Blank, Ended, InHeaders, Between

LEMMA BetweenMeant ==
  ASSUME NEW w, NEW q, NEW n, NEW c, NEW l,
         q.type = "request", q.method \in Methods, c.end <= Len(w), q.state \in Between, Begun(l),
         ~Excused(l) => ~LastIs(l, "header_field") /\ Flagged(q, l)
  PROVE  Meant(w, q, n, c, l)
<1>1. /\ q.state \notin ChunkStates /\ q.state \notin InHeaders /\ q.state \notin Outside
      /\ q.state \notin {"header_field", "header_value", "headers_done"} /\ q.state \notin Blank /\ q.state \notin Ended
  BY HeaderStates DEF InHeaders
<1>. QED
  BY <1>1 DEF Meant, Follows, Regular

LEMMA BetweenFacts ==
  ASSUME Meant(stream.wire, parser, pos, call, log), parser.state \in Between
  PROVE  /\ parser.type = "request" /\ parser.method \in Methods /\ call.end <= Len(stream.wire)
         /\ Begun(log)
         /\ ~Excused(log) => ~LastIs(log, "header_field") /\ Flagged(parser, log)
BY HeaderStates DEF Meant, Follows, Regular

LEMMA FieldMeant ==
  ASSUME NEW w, NEW q, NEW n, NEW c, NEW l,
         q.type = "request", q.method \in Methods, c.end <= Len(w), q.state = "header_field", Begun(l),
         c.end # 0 => c.marks["header_field"] \in 1..n,
         ~Excused(l) =>
           /\ Flagged(q, l) /\ Named(q, Gathered(l) \o Pending(w, n, c))
           /\ q.header_state = "transfer_encoding" => q.uses_transfer_encoding
  PROVE  Meant(w, q, n, c, l)
BY HeaderStates DEF Meant, Follows, Regular

LEMMA FieldFacts ==
  ASSUME Meant(stream.wire, parser, pos, call, log), parser.state = "header_field"
  PROVE  /\ parser.type = "request" /\ parser.method \in Methods /\ call.end <= Len(stream.wire)
         /\ Begun(log)
         /\ call.end # 0 => call.marks["header_field"] \in 1..pos
         /\ ~Excused(log) =>
              /\ Flagged(parser, log) /\ Named(parser, Gathered(log) \o Pending(stream.wire, pos, call))
              /\ parser.header_state = "transfer_encoding" => parser.uses_transfer_encoding
BY HeaderStates DEF Meant, Follows, Regular

LEMMA BlankMeant ==
  ASSUME NEW w, NEW q, NEW n, NEW c, NEW l,
         q.type = "request", q.method \in Methods, c.end <= Len(w), q.state \in Blank, Begun(l),
         LastIs(l, "header_field"),
         ~Excused(l) =>
           /\ Flagged(q, l) /\ Named(q, Gathered(l))
           /\ q.header_state = "transfer_encoding" => q.uses_transfer_encoding
  PROVE  Meant(w, q, n, c, l)
BY BlankStates, HeaderStates DEF Meant, Follows, Regular

LEMMA ValueMeant ==
  ASSUME NEW w, NEW q, NEW n, NEW c, NEW l,
         q.type = "request", q.method \in Methods, c.end <= Len(w), q.state = "header_value", Begun(l),
         c.end # 0 => c.marks["header_value"] \in 1..n,
         HasValue(l) \/ (LastIs(l, "header_field") /\ c.end # 0 /\ c.marks["header_value"] < n),
         ~Excused(l) =>
           /\ Flagged(q, l)
           /\ q.header_state = "transfer_encoding" => q.uses_transfer_encoding
           /\ LastIs(l, "header_field") =>
                Gathered(l) # <<>> /\ (Lower(Gathered(l)) = LengthName => "CONTENTLENGTH" \in q.flags)
  PROVE  Meant(w, q, n, c, l)
BY HeaderStates DEF Meant, Follows, Regular

LEMMA ValueFacts ==
  ASSUME Meant(stream.wire, parser, pos, call, log), parser.state = "header_value"
  PROVE  /\ parser.type = "request" /\ parser.method \in Methods /\ call.end <= Len(stream.wire)
         /\ Begun(log)
         /\ call.end # 0 => call.marks["header_value"] \in 1..pos
         /\ HasValue(log) \/ (LastIs(log, "header_field") /\ call.end # 0 /\ call.marks["header_value"] < pos)
         /\ ~Excused(log) =>
              /\ Flagged(parser, log)
              /\ parser.header_state = "transfer_encoding" => parser.uses_transfer_encoding
              /\ LastIs(log, "header_field") =>
                   Gathered(log) # <<>> /\ (Lower(Gathered(log)) = LengthName => "CONTENTLENGTH" \in parser.flags)
BY HeaderStates DEF Meant, Follows, Regular

LEMMA EndedMeant ==
  ASSUME NEW w, NEW q, NEW n, NEW c, NEW l,
         q.type = "request", q.method \in Methods, c.end <= Len(w), q.state \in Ended, Begun(l),
         HasValue(l),
         ~Excused(l) => Flagged(q, l) /\ (q.header_state = "transfer_encoding" => q.uses_transfer_encoding)
  PROVE  Meant(w, q, n, c, l)
BY HeaderStates DEF Meant, Follows, Regular

LEMMA EndedFacts ==
  ASSUME Meant(stream.wire, parser, pos, call, log), parser.state \in Ended
  PROVE  /\ parser.type = "request" /\ parser.method \in Methods /\ call.end <= Len(stream.wire)
         /\ Begun(log) /\ HasValue(log) /\ ~LastIs(log, "header_field")
         /\ ~Excused(log) =>
              /\ Flagged(parser, log)
              /\ parser.header_state = "transfer_encoding" => parser.uses_transfer_encoding
BY HeaderStates DEF Meant, Follows, Regular, HasValue, LastIs

LEMMA AgainCall ==
  ASSUME NEW q
  PROVE  Again(q).parser = q /\ Again(q).pos = pos /\ Again(q).call = call
BY DEF Again

\* A mark that is set where a text begins.
LEMMA MarkedCall ==
  ASSUME InTurn, TextOf(parser.state) = "none", NEW q, NEW cb \in DataCallbacks
  PROVE  LET o == Marked(Advance(q), cb)
         IN  o.parser = q /\ o.pos = pos + 1 /\ o.call.end = call.end /\ o.call.marks[cb] = pos
<1>. DEFINE a == Advance(q)
            c == [a.call EXCEPT !.marks[cb] = IF @ = 0 THEN pos ELSE @]
<1>1. /\ a.parser = q /\ a.pos = pos + 1 /\ a.call = [call EXCEPT !.fetched = FALSE]
      /\ DOMAIN a = {"parser", "pos", "call"}
  BY DEF Advance, AdvanceTo
<1>2. /\ DOMAIN a.call = {"end", "nread", "fetched", "marks"} /\ a.call.end = call.end
      /\ a.call.marks = call.marks /\ call.marks \in [DataCallbacks -> Nat]
  BY <1>1 DEF InTurn, ParserInv, Keeps, Typed
<1>3. call.marks[cb] = 0
  BY DEF InTurn, ParserInv, Keeps, Marking, DataCallbacks
<1>. HIDE DEF a
<1>4. c.end = call.end /\ c.marks[cb] = pos
  BY <1>2, <1>3
<1>5. Marked(a, cb) = [a EXCEPT !.call = c]
  BY <1>1 DEF Marked
<1>. HIDE DEF c
<1>. QED
  BY <1>1, <1>4, <1>5 DEF a

-----------------------------------------------------------------------------
(* The names of headers. *)

\* A name leaves the rest of the parser as it is.
LEMMA NameBeside ==
  ASSUME NEW q, Fit(q), NEW letters, NEW l, Flagged(q, l)
  PROVE  Flagged(NameRead(q, letters), l)
BY NameReadFit DEF Flagged, Beside

LEMMA PendingIs ==
  ASSUME NEW w, NEW n, NEW c, NEW m \in Int, c.end # 0, n = m + 1
  PROVE  Pending(w, n, c) = SubSeq(w, c.marks["header_field"], m)
<1>1. n - 1 = m
  OBVIOUS
<1>. QED
  BY <1>1 DEF Pending

LEMMA HeaderFieldStartMeant == ASSUME AtSocket, HeaderFieldStart, Collect PROVE SocketInv'
<1>. DEFINE begun == [In("header_field") EXCEPT !.header_state = "matching", !.matched = <<>>]
            q == NameRead(begun, <<ch>>)
            a == In("headers_almost_done")
<1>1. /\ InTurn /\ Fit(parser) /\ parser.state = "header_field_start" /\ stream.wire \in Seq(AllChar)
      /\ log \in Seq(Entry) /\ Meant(stream.wire, parser, pos, call, log) /\ parser.errno = "OK" /\ call.end # 0
  <2>1. At({"header_field_start"})
    BY DEF HeaderFieldStart
  <2>. QED
    BY <2>1, SocketTurn
<1>2. \/ Do(Advance(a)) \/ Do(Again(a))
      \/ Do(Error("INVALID_HEADER_TOKEN"))
      \/ Do(Marked(Advance(q), "header_field"))
  BY DEF HeaderFieldStart
<1>3. /\ parser.type = "request" /\ parser.method \in Methods /\ call.end <= Len(stream.wire)
      /\ Begun(log)
      /\ ~Excused(log) => ~LastIs(log, "header_field") /\ Flagged(parser, log)
  BY <1>1, BetweenFacts DEF Between
<1>4. a.state = "headers_almost_done" /\ Alike(a)
  BY <1>1, InFit, InAlike
<1>5. /\ Fit(begun) /\ begun.state = "header_field" /\ begun.type = parser.type /\ begun.method = parser.method
      /\ begun.flags = parser.flags /\ begun.uses_transfer_encoding = parser.uses_transfer_encoding
      /\ begun.header_state = "matching" /\ begun.matched = <<>>
  BY <1>1, InFit DEF Fit, ParserFields
<1>. HIDE DEF begun, a
<1>6. ASSUME NEW o, Do(o), o.parser = a, o.call.end = call.end
      PROVE  SocketInv'
  <2>1. ~Excused(log) => Flagged(a, log)
    BY <1>3, <1>4 DEF Flagged, Alike
  <2>2. Meant(stream.wire, o.parser, o.pos, o.call, log)
    BY <1>3, <1>4, <1>6, <2>1, BetweenMeant DEF Alike, Between
  <2>. QED
    BY <1>1, <1>6, <2>2, DoMeant
<1>7. CASE Do(Advance(a)) \/ Do(Again(a))
  <2>1. /\ Advance(a).parser = a /\ Advance(a).call.end = call.end
        /\ Again(a).parser = a /\ Again(a).call.end = call.end
    BY AdvanceCall, AgainCall DEF AtSocket
  <2>. QED
    BY <1>6, <1>7, <2>1
<1>8. CASE Do(Marked(Advance(q), "header_field"))
  <2>. DEFINE o == Marked(Advance(q), "header_field")
              name == <<>> \o <<ch>>
  <2>1. pos \in 1..Len(stream.wire)
    <3>1. pos \in Nat \ {0} /\ pos <= call.end /\ call.end \in Nat /\ Len(stream.wire) \in Nat
      BY <1>1, LenProperties DEF InTurn, ParserInv, Keeps, Typed, Within
    <3>. QED
      BY <1>3, <3>1
  <2>2. ch \in AllChar /\ <<ch>> \in Seq(LogText) /\ <<>> \in Seq(LogText)
    BY <1>1, <2>1, ElementOfSeq, EmptySeq DEF ch, LogText
  <2>3. name = <<ch>>
    BY <2>2, ConcatEmptySeq
  <2>4. <<ch>> # <<>>
    OBVIOUS
  <2>5. Lower(<<>>) = <<>>
    BY DEF Lower
  <2>. HIDE DEF name
  <2>6. /\ Named(q, name)
        /\ q.header_state = "transfer_encoding" => q.uses_transfer_encoding
    BY <1>5, <2>2, <2>3, <2>4, <2>5, NameGrows DEF name
  <2>7. Fit(q) /\ q.state = "header_field" /\ q.type = "request" /\ q.method \in Methods
    BY <1>3, <1>5, NameReadFit DEF Beside
  <2>8. ~Excused(log) => Flagged(q, log)
    <3>1. Flagged(parser, log) => Flagged(begun, log)
      BY <1>5 DEF Flagged
    <3>. QED
      BY <1>3, <1>5, <3>1, NameBeside
  <2>. HIDE DEF q
  <2>9. o.parser = q /\ o.pos = pos + 1 /\ o.call.end = call.end /\ o.call.marks["header_field"] = pos
    <3>1. TextOf(parser.state) = "none"
      BY <1>1, PlainIsPlain DEF PlainStates
    <3>. QED
      BY <1>1, <3>1, MarkedCall, NameIsText
  <2>. HIDE DEF o
  <2>10. ~LastIs(log, "header_field") => Gathered(log) \o Pending(stream.wire, o.pos, o.call) = name
    <3>1. Pending(stream.wire, o.pos, o.call) = SubSeq(stream.wire, pos, pos)
      <4>1. o.call.end # 0 /\ o.pos = pos + 1
        BY <1>1, <2>9
      <4>2. pos \in Int
        BY <2>1
      <4>3. Pending(stream.wire, o.pos, o.call) = SubSeq(stream.wire, o.call.marks["header_field"], pos)
        BY <4>1, <4>2, PendingIs
      <4>4. o.call.marks["header_field"] = pos
        BY <2>9
      <4>. QED
        BY <4>3, <4>4
    <3>3. SubSeq(stream.wire, pos, pos) = <<ch>>
      <4>. DEFINE s == SubSeq(stream.wire, pos, pos)
      <4>1. s \in Seq(AllChar) /\ Len(s) = 1 /\ s[1] = stream.wire[pos]
        <5>1. pos \in Nat \ {0} /\ pos \in Int /\ pos <= Len(stream.wire) /\ pos - pos + 1 = 1 /\ 1 \in 1..1 /\ pos + 1 - 1 = pos
          BY <2>1
        <5>. QED
          BY <1>1, <5>1, BytesAreText
      <4>. HIDE DEF s
      <4>2. \A i \in 1..1 : s[i] = <<ch>>[i]
        BY <4>1 DEF ch
      <4>3. <<ch>> \in Seq(AllChar) /\ Len(<<ch>>) = 1
        BY <2>2
      <4>4. s = <<ch>>
        BY <4>1, <4>2, <4>3, SeqEqual
      <4>. QED
        BY <4>4 DEF s
    <3>. QED
      BY <3>1, <3>3 DEF Gathered, name
  <2>11. Meant(stream.wire, o.parser, o.pos, o.call, log)
    <3>1. pos \in 1..o.pos
      BY <2>1, <2>9
    <3>. QED
      BY <1>3, <2>6, <2>7, <2>8, <2>9, <2>10, <3>1, FieldMeant
  <2>. QED
    BY <1>1, <1>8, <2>11, DoMeant DEF o
<1>. QED
  BY <1>1, <1>2, <1>7, <1>8, ErrorMeant

\* The bytes of a name up to p.
LEMMA FieldText ==
  ASSUME AtSocket, At({"header_field"}), NEW p \in pos..call.end + 1
  PROVE  LET data == SubSeq(stream.wire, call.marks["header_field"], p - 1)
             q == NameRead(parser, SubSeq(stream.wire, pos, p - 1))
         IN  /\ call.marks["header_field"] \in 1..pos
             /\ data \in Seq(LogText)
             /\ Fit(q) /\ q.state = "header_field" /\ q.type = "request" /\ q.method \in Methods
             /\ ~Excused(log) =>
                  /\ Named(q, Gathered(log) \o data) /\ Flagged(q, log)
                  /\ q.header_state = "transfer_encoding" => q.uses_transfer_encoding
<1>. DEFINE mark == call.marks["header_field"]
            w == stream.wire
            letters == SubSeq(w, pos, p - 1)
            pending == SubSeq(w, mark, pos - 1)
            data == SubSeq(w, mark, p - 1)
            q == NameRead(parser, letters)
            g == Gathered(log)
<1>1. /\ InTurn /\ Fit(parser) /\ parser.state = "header_field" /\ w \in Seq(AllChar)
      /\ log \in Seq(Entry) /\ Meant(stream.wire, parser, pos, call, log) /\ call.end # 0
  BY SocketTurn
<1>2. /\ parser.type = "request" /\ parser.method \in Methods /\ call.end <= Len(w)
      /\ mark \in 1..pos
      /\ ~Excused(log) =>
           /\ Flagged(parser, log) /\ Named(parser, g \o Pending(w, pos, call))
           /\ parser.header_state = "transfer_encoding" => parser.uses_transfer_encoding
  BY <1>1, FieldFacts
<1>3. pos \in Nat \ {0} /\ pos <= call.end /\ call.end \in Nat /\ Len(w) \in Nat
  BY <1>1, LenProperties DEF InTurn, ParserInv, Keeps, Typed, Within
<1>. HIDE DEF mark, w
<1>4. /\ mark \in Nat \ {0} /\ p - 1 \in Int /\ p - 1 <= Len(w) /\ pos - 1 \in Int /\ pos - 1 <= Len(w)
      /\ mark \in 1..Len(w) + 1 /\ pos - 1 \in mark - 1..Len(w) /\ p - 1 \in pos - 1..Len(w) /\ pos - 1 + 1 = pos
  BY <1>2, <1>3
<1>5. letters \in Seq(LogText) /\ pending \in Seq(LogText) /\ data \in Seq(LogText)
  BY <1>1, <1>3, <1>4, BytesAreText DEF LogText, w
<1>6. pending \o letters = data
  <2>. HIDE DEF pending, letters
  <2>1. SubSeq(w, mark, pos - 1) \o SubSeq(w, pos - 1 + 1, p - 1) = SubSeq(w, mark, p - 1)
    BY <1>1, <1>4, ConcatAdjacentSubSeq DEF w
  <2>. QED
    BY <1>4, <2>1 DEF pending, letters
<1>7. Pending(w, pos, call) = pending
  BY <1>1 DEF Pending, mark, w
<1>8. g \in Seq(LogText)
  BY <1>1, GatheredType DEF LogText
<1>. HIDE DEF pending, letters, data, g
<1>9. (g \o pending) \o letters = g \o data /\ g \o pending \in Seq(LogText)
  <2>1. (g \o pending) \o letters = g \o (pending \o letters)
    BY <1>5, <1>8, ConcatAssociative
  <2>2. g \o pending \in Seq(LogText)
    BY <1>5, <1>8, ConcatProperties
  <2>. QED
    BY <1>6, <2>1, <2>2
<1>10. Fit(q) /\ q.state = "header_field" /\ q.type = "request" /\ q.method \in Methods
  BY <1>1, <1>2, NameReadFit DEF Beside
<1>11. ASSUME ~Excused(log)
       PROVE  /\ Named(q, g \o data) /\ Flagged(q, log)
              /\ q.header_state = "transfer_encoding" => q.uses_transfer_encoding
  <2>1. Named(parser, g \o pending)
    BY <1>2, <1>7, <1>11
  <2>2. IF parser.header_state = "general" THEN \A rest \in Seq(LogText) : Lower((g \o pending) \o rest) # LengthName
        ELSE parser.matched = Lower(g \o pending)
    BY <2>1 DEF Named, LogText
  <2>3. (g \o pending) \o letters # <<>>
    <3>1. g \o pending # <<>>
      BY <2>1 DEF Named
    <3>. QED
      BY <1>5, <1>9, <3>1, ConcatEqualIffEmpty
  <2>4. Flagged(q, log)
    BY <1>1, <1>2, <1>11, NameBeside
  <2>. QED
    BY <1>1, <1>5, <1>9, <2>2, <2>3, <2>4, NameGrows
<1>. QED
  BY <1>2, <1>5, <1>10, <1>11 DEF mark, w, letters, data, g

\* Bytes of a header are counted, or there are too many of them.
LEMMA CountedCall ==
  ASSUME InTurn, NEW q, Fit(q), q.state # "chunk_size_start", NEW to \in Nat \ {0}, NEW n \in Nat
  PROVE  LET d == Counted(AdvanceTo(q, to), n)
         IN  /\ IsOutcome(d) /\ d.pos = to
             /\ \/ d.call = NoCall /\ d.parser.errno = "HEADER_OVERFLOW"
                \/ d.parser = q /\ d.call.end = call.end /\ d.call.marks = call.marks /\ DOMAIN d.call = DOMAIN call
<1>. DEFINE o == AdvanceTo(q, to)
            c == [call EXCEPT !.fetched = FALSE]
<1>1. o.parser = q /\ o.pos = to /\ o.call = c /\ IsOutcome(o)
  BY DEF AdvanceTo, IsOutcome
<1>2. Typed(q, to, c) /\ c.end = call.end /\ c.marks = call.marks /\ DOMAIN c = DOMAIN call
      /\ DOMAIN c = {"end", "nread", "fetched", "marks"}
  BY DEF InTurn, ParserInv, Keeps, Typed, Fit
<1>. HIDE DEF o, c
<1>. DEFINE d == Counted(o, n)
<1>3. /\ IsOutcome(d) /\ d.pos = o.pos
      /\ \/ d.call = NoCall /\ d.parser.errno = "HEADER_OVERFLOW"
         \/ /\ d.parser = o.parser /\ d.call.end = o.call.end /\ d.call.marks = o.call.marks
            /\ Typed(d.parser, d.pos, d.call)
  BY <1>1, <1>2, CountedGood DEF Fit
<1>. HIDE DEF d
<1>. QED
  BY <1>1, <1>2, <1>3 DEF Typed, d, o

LEMMA HeaderFieldMeant == ASSUME AtSocket, HeaderField, Collect PROVE SocketInv'
<1>. DEFINE stops == [c \in AllChar |-> c \notin TokenChar]
            p == RunEnd(stops)
            q == NameRead(parser, SubSeq(stream.wire, pos, p - 1))
            at == [q EXCEPT !.state = "header_value_discard_ws"]
            data == SubSeq(stream.wire, call.marks["header_field"], p - 1)
            d == Counted(AdvanceTo(q, p), p - 1 - pos)
            o == Counted(AdvanceTo(at, p + 1), p - pos)
<1>1. /\ At({"header_field"}) /\ InTurn /\ Fit(parser) /\ stream.interruptions = {}
      /\ log \in Seq(Entry) /\ Meant(stream.wire, parser, pos, call, log) /\ parser.errno = "OK" /\ call.end # 0
      /\ parser.state = "header_field"
  <2>1. At({"header_field"})
    BY DEF HeaderField
  <2>. QED
    BY <2>1, SocketTurn
<1>2. \/ p > call.end /\ Do(d)
      \/ ~(p > call.end) /\ o.call = NoCall /\ Do(o)
      \/ Do(Error("INVALID_HEADER_TOKEN"))
      \/ ~(p > call.end) /\ o.call # NoCall /\ Flush("header_field", p - 1, o)
  BY DEF HeaderField
<1>3. p \in pos..call.end + 1 /\ pos \in Nat \ {0} /\ call.end \in Nat /\ pos <= call.end
  <2>. HIDE DEF stops
  <2>. QED
    BY <1>1, RunEndFacts DEF InTurn, ParserInv, Keeps, Typed, Within
<1>. HIDE DEF p
<1>4. /\ call.marks["header_field"] \in 1..pos
      /\ data \in Seq(LogText)
      /\ Fit(q) /\ q.state = "header_field" /\ q.type = "request" /\ q.method \in Methods
      /\ ~Excused(log) =>
           /\ Named(q, Gathered(log) \o data) /\ Flagged(q, log)
           /\ q.header_state = "transfer_encoding" => q.uses_transfer_encoding
  BY <1>1, <1>3, FieldText
<1>5. call.end <= Len(stream.wire) /\ Begun(log)
  BY <1>1, FieldFacts
<1>. HIDE DEF q
<1>6. CASE p > call.end /\ Do(d)
  <2>1. p \in Nat \ {0} /\ p - 1 - pos \in Nat /\ p \in Int /\ call.marks["header_field"] \in 1..p
    BY <1>3, <1>4, <1>6
  <2>2. /\ d.pos = p
        /\ \/ d.call = NoCall /\ d.parser.errno = "HEADER_OVERFLOW"
           \/ d.parser = q /\ d.call.end = call.end /\ d.call.marks = call.marks
    BY <1>1, <1>4, <2>1, CountedCall
  <2>. HIDE DEF d
  <2>3. ASSUME d.parser.errno = "OK" PROVE Meant(stream.wire, d.parser, d.pos, d.call, log)
    <3>1. d.parser = q /\ d.call.end = call.end /\ d.call.marks = call.marks /\ d.call.end # 0
      BY <1>1, <2>2, <2>3
    <3>2. Pending(stream.wire, d.pos, d.call) = SubSeq(stream.wire, d.call.marks["header_field"], p - 1)
      BY <2>2, <3>1 DEF Pending
    <3>3. Pending(stream.wire, d.pos, d.call) = data
      BY <3>1, <3>2
    <3>. HIDE DEF data
    <3>. QED
      BY <1>4, <1>5, <2>1, <2>2, <3>1, <3>3, FieldMeant
  <2>. QED
    BY <1>1, <1>6, <2>3, DoMeant
<1>. HIDE DEF d
<1>7. /\ at.state = "header_value_discard_ws" /\ at.type = "request" /\ at.method \in Methods /\ at.flags = q.flags
      /\ at.uses_transfer_encoding = q.uses_transfer_encoding /\ at.header_state = q.header_state
      /\ at.phase = q.phase /\ at.matched = q.matched /\ Fit(at)
  BY <1>4 DEF Fit, ParserFields
<1>. HIDE DEF at
<1>8. CASE ~(p > call.end) /\ ((o.call = NoCall /\ Do(o)) \/ (o.call # NoCall /\ Flush("header_field", p - 1, o)))
  <2>1. p + 1 \in Nat \ {0} /\ p - pos \in Nat
    BY <1>3, <1>8
  <2>2. /\ IsOutcome(o)
        /\ \/ o.call = NoCall /\ o.parser.errno = "HEADER_OVERFLOW"
           \/ o.parser = at /\ o.call.end = call.end /\ o.call.marks = call.marks /\ DOMAIN o.call = DOMAIN call
    BY <1>1, <1>7, <2>1, CountedCall
  <2>. HIDE DEF o
  <2>3. CASE o.call = NoCall /\ Do(o)
    <3>1. NoCall.end # call.end
      BY <1>1, NoCallFacts
    <3>2. o.parser.errno # "OK"
      BY <2>2, <2>3, <3>1
    <3>. QED
      BY <1>1, <2>3, <3>2, DoMeant
  <2>4. CASE o.call # NoCall /\ Flush("header_field", p - 1, o)
    <3>. DEFINE c == [o.call EXCEPT !.marks["header_field"] = 0]
                m == Joined(log, "header_field", data)
    <3>1. o.parser = at /\ o.call.end = call.end /\ DOMAIN o.call = DOMAIN call
      BY <2>2, <2>4
    <3>2. c.end = call.end
      <4>1. "end" \in DOMAIN call
        BY <1>1 DEF InTurn, ParserInv, Keeps, Typed
      <4>. QED
        BY <3>1, <4>1
    <3>3. call.marks["header_field"] # 0
      BY <1>3, <1>4
    <3>4. /\ called' = [cb |-> "header_field", data |-> data] /\ log' = m
          /\ parser' = o.parser /\ pos' = o.pos /\ call' = c /\ stream' = stream
      <4>1. \/ call.marks["header_field"] = 0 /\ Do(o)
            \/ /\ call.marks["header_field"] # 0
               /\ called' = [cb |-> "header_field", data |-> data] /\ log' = Joined(log, "header_field", data)
               /\ parser' = o.parser /\ pos' = o.pos /\ call' = c /\ stream' = stream
        <5>. HIDE DEF c, data, m
        <5>. QED
          BY <1>1, <2>2, <2>4, FlushEnds DEF c, data
      <4>. QED
        BY <3>3, <4>1
    <3>. HIDE DEF c, data
    <3>5. data \in Seq(AllChar \cup Methods)
      BY <1>4 DEF LogText
    <3>6. /\ LastIs(m, "header_field") /\ Begun(m) /\ Sent(m) = Sent(log)
          /\ Gathered(m) = Gathered(log) \o data /\ (Excused(log) => Excused(m))
      BY <1>1, <1>5, <3>5, NameLog
    <3>. HIDE DEF m
    <3>7. ~Excused(m) => Flagged(at, m) /\ Named(at, Gathered(m))
                         /\ (at.header_state = "transfer_encoding" => at.uses_transfer_encoding)
      BY <1>4, <1>7, <3>6 DEF Flagged, Named
    <3>8. Meant(stream.wire, o.parser, o.pos, c, m)
      BY <1>5, <1>7, <3>1, <3>2, <3>6, <3>7, BlankMeant DEF Blank
    <3>. QED
      BY <1>1, <1>5, <3>4, <3>5, <3>8, NameStep DEF AtSocket, m
  <2>. QED
    BY <1>8, <2>3, <2>4
<1>. QED
  BY <1>1, <1>2, <1>6, <1>8, ErrorMeant

-----------------------------------------------------------------------------
(* The values of headers. *)

\* A name that is one of a length has been matched as one.
LEMMA NamedLength ==
  ASSUME NEW q, NEW name \in Seq(LogText), Named(q, name), Lower(name) = LengthName
  PROVE  q.header_state = "content_length" /\ q.phase = "name"
<1>1. name \o <<>> = name /\ <<>> \in Seq(AllChar \cup Methods)
  BY EmptySeq, ConcatEmptySeq DEF LogText
<1>2. q.header_state # "general"
  BY <1>1 DEF Named
<1>. QED
  BY <1>2 DEF Named

\* The first byte of a value.
LEMMA ValueBegins ==
  ASSUME AtSocket, InTurn, Fit(parser), TextOf(parser.state) = "none",
         Meant(stream.wire, parser, pos, call, log), parser.state \in Blank \cup Ended,
         Do(IF ValueStart(ch).call = NoCall THEN ValueStart(ch) ELSE Marked(ValueStart(ch), "header_value")),
         Collect
  PROVE  SocketInv'
<1>. DEFINE s == ValueStart(ch)
<1>0. log \in Seq(Entry) /\ parser.errno = "OK"
  BY DEF AtSocket, SocketInv, Fit
<1>1. CASE s = Error("INVALID_CONTENT_LENGTH") \/ s = Error("UNEXPECTED_CONTENT_LENGTH")
  <2>1. s.call = NoCall
    BY <1>1 DEF Error, Return, Leave, AdvanceTo
  <2>2. Do(s)
    BY <2>1
  <2>. HIDE DEF s
  <2>. QED
    BY <1>1, <2>2, ErrorMeant
<1>2. CASE \E v : s = Advance(v) /\ ValueBegun(v)
  <2>1. PICK v : s = Advance(v) /\ ValueBegun(v)
    BY <1>2
  <2>. DEFINE o == Marked(Advance(v), "header_value")
  <2>2. s.call.end = call.end /\ call.end # 0
    BY <2>1, AdvanceCall DEF AtSocket, InTurn, Running
  <2>3. s.call # NoCall
    BY <2>2, NoCallFacts
  <2>4. Do(o)
    BY <2>1, <2>3
  <2>5. o.parser = v /\ o.pos = pos + 1 /\ o.call.end = call.end /\ o.call.marks["header_value"] = pos
    BY MarkedCall, NameIsText
  <2>. HIDE DEF o, s
  <2>6. /\ v.state = "header_value" /\ v.type = parser.type /\ v.method = parser.method
        /\ v.uses_transfer_encoding = parser.uses_transfer_encoding
        /\ v.header_state \in {parser.header_state, "general"}
        /\ parser.flags \subseteq v.flags /\ v.flags \subseteq parser.flags \cup {"UPGRADE", "CONTENTLENGTH"}
        /\ parser.header_state = "content_length" /\ parser.phase = "name" => "CONTENTLENGTH" \in v.flags
    BY <2>1 DEF ValueBegun
  <2>7. pos \in Nat \ {0} /\ pos \in 1..pos + 1 /\ pos < pos + 1
    BY DEF InTurn, ParserInv, Keeps, Typed
  <2>8. /\ parser.type = "request" /\ parser.method \in Methods /\ call.end <= Len(stream.wire) /\ Begun(log)
        /\ ~Excused(log) =>
             /\ Flagged(parser, log)
             /\ parser.header_state = "transfer_encoding" => parser.uses_transfer_encoding
        /\ HasValue(log) \/ LastIs(log, "header_field")
        /\ ~Excused(log) /\ LastIs(log, "header_field") => Named(parser, Gathered(log))
    BY BlankFacts, EndedFacts
  <2>9. ~Excused(log) => Flagged(v, log)
    BY <2>6, <2>8 DEF Flagged
  <2>10. ASSUME ~Excused(log), LastIs(log, "header_field")
         PROVE  Gathered(log) # <<>> /\ (Lower(Gathered(log)) = LengthName => "CONTENTLENGTH" \in v.flags)
    <3>1. Named(parser, Gathered(log)) /\ Gathered(log) \in Seq(LogText)
      BY <1>0, <2>8, <2>10, GatheredType DEF LogText
    <3>2. Gathered(log) # <<>>
      BY <3>1 DEF Named
    <3>. QED
      BY <2>6, <3>1, <3>2, NamedLength
  <2>11. Meant(stream.wire, o.parser, o.pos, o.call, log)
    BY <2>2, <2>5, <2>6, <2>7, <2>8, <2>9, <2>10, ValueMeant
  <2>. QED
    BY <1>0, <2>4, <2>11, DoMeant
<1>. QED
  BY <1>1, <1>2, ValueStartIs

LEMMA HeaderValueDiscardWsMeant == ASSUME AtSocket, HeaderValueDiscardWs, Collect PROVE SocketInv'
<1>. DEFINE o == ValueStart(ch)
            begun == IF o.call = NoCall THEN o ELSE Marked(o, "header_value")
<1>1. /\ At({"header_value_discard_ws"}) /\ InTurn /\ Fit(parser) /\ parser.state = "header_value_discard_ws"
      /\ Meant(stream.wire, parser, pos, call, log)
  <2>1. At({"header_value_discard_ws"})
    BY DEF HeaderValueDiscardWs
  <2>. QED
    BY <2>1, SocketTurn
<1>2. \/ Do(Advance(parser)) \/ Do(Advance(In("header_value_discard_ws_almost_done")))
      \/ Do(Advance(In("header_value_discard_lws"))) \/ Do(begun)
  BY DEF HeaderValueDiscardWs
<1>3. /\ parser.state \in Blank /\ At(Blank) /\ TextOf(parser.state) = "none"
      /\ {"header_value_discard_ws_almost_done", "header_value_discard_lws"} \subseteq Blank
  BY <1>1, PlainIsPlain DEF Blank, At, PlainStates
<1>. HIDE DEF begun
<1>4. CASE Do(begun)
  BY <1>1, <1>3, <1>4, ValueBegins DEF begun
<1>5. CASE \/ Do(Advance(parser)) \/ Do(Advance(In("header_value_discard_ws_almost_done")))
           \/ Do(Advance(In("header_value_discard_lws")))
  BY <1>3, <1>5, BlankDo
<1>. QED
  BY <1>2, <1>4, <1>5

LEMMA HeaderValueStartMeant == ASSUME AtSocket, HeaderValueStart, Collect PROVE SocketInv'
<1>1. At({"header_value_start"})
  BY DEF HeaderValueStart
<1>2. /\ InTurn /\ Fit(parser) /\ parser.state = "header_value_start"
      /\ Meant(stream.wire, parser, pos, call, log)
  BY <1>1, SocketTurn
<1>3. parser.state \in Ended /\ TextOf(parser.state) = "none"
  BY <1>2, PlainIsPlain DEF Ended, PlainStates
<1>. QED
  BY <1>2, <1>3, ValueBegins DEF HeaderValueStart

LEMMA HeaderAlmostDoneMeant == ASSUME AtSocket, HeaderAlmostDone, Collect PROVE SocketInv'
<1>. DEFINE q == In("header_value_lws")
            o == Advance(q)
<1>1. At({"header_almost_done"})
  BY DEF HeaderAlmostDone
<1>2. /\ InTurn /\ Fit(parser) /\ parser.state = "header_almost_done"
      /\ Meant(stream.wire, parser, pos, call, log) /\ parser.errno = "OK"
  BY <1>1, SocketTurn
<1>3. Do(o) \/ Do(Error("LF_EXPECTED"))
  BY DEF HeaderAlmostDone
<1>4. q.state = "header_value_lws" /\ Alike(q) /\ q.header_state = parser.header_state
  BY <1>2, InFit, InAlike
<1>. HIDE DEF q
<1>5. o.parser = q /\ o.call.end = call.end
  BY AdvanceCall DEF AtSocket
<1>. HIDE DEF o
<1>6. {"header_almost_done", "header_value_lws"} \subseteq Ended
  BY DEF Ended
<1>7. ~Excused(log) => Flagged(q, log)
  BY <1>2, <1>4, <1>6, EndedFacts DEF Flagged, Alike
<1>8. Meant(stream.wire, o.parser, o.pos, o.call, log)
  BY <1>2, <1>4, <1>5, <1>6, <1>7, EndedFacts, EndedMeant DEF Alike
<1>. QED
  BY <1>2, <1>3, <1>8, DoMeant, ErrorMeant

LEMMA HeaderValueLwsMeant == ASSUME AtSocket, HeaderValueLws, Collect PROVE SocketInv'
<1>. DEFINE folded == [In("header_value_start") EXCEPT
                         !.phase = IF parser.header_state = "content_length" /\ @ = "num" THEN "ws" ELSE @]
            ended == Finished(parser)
            next == [ended EXCEPT !.state = "header_field_start"]
<1>1. At({"header_value_lws"})
  BY DEF HeaderValueLws
<1>2. /\ InTurn /\ Fit(parser) /\ parser.state = "header_value_lws"
      /\ Meant(stream.wire, parser, pos, call, log) /\ parser.errno = "OK"
  BY <1>1, SocketTurn
<1>3. Do(Again(folded)) \/ Do(Again(next))
  BY DEF HeaderValueLws
<1>4. /\ parser.type = "request" /\ parser.method \in Methods /\ call.end <= Len(stream.wire)
      /\ Begun(log) /\ HasValue(log) /\ ~LastIs(log, "header_field")
      /\ ~Excused(log) =>
           /\ Flagged(parser, log)
           /\ parser.header_state = "transfer_encoding" => parser.uses_transfer_encoding
  BY <1>2, EndedFacts DEF Ended
<1>5. CASE Do(Again(folded))
  <2>1. folded.state = "header_value_start" /\ Alike(folded) /\ folded.header_state = parser.header_state
    BY <1>2, InFit DEF Alike, Fit, ParserFields
  <2>. HIDE DEF folded
  <2>2. ~Excused(log) => Flagged(folded, log)
    BY <1>4, <2>1 DEF Flagged, Alike
  <2>3. Meant(stream.wire, folded, pos, call, log)
    BY <1>4, <2>1, <2>2, EndedMeant DEF Alike, Ended
  <2>. QED
    BY <1>2, <1>5, <2>3, DoMeant, AgainCall
<1>6. CASE Do(Again(next))
  <2>1. /\ Fit(ended) /\ Beside(ended, parser)
        /\ "TRAILING" \in ended.flags => "TRAILING" \in parser.flags
        /\ "CHUNKED" \in ended.flags => "CHUNKED" \in parser.flags \/ parser.header_state = "transfer_encoding"
    BY <1>2, FinishedFit
  <2>. HIDE DEF ended
  <2>2. /\ next.state = "header_field_start" /\ next.type = ended.type /\ next.method = ended.method
        /\ next.flags = ended.flags /\ next.uses_transfer_encoding = ended.uses_transfer_encoding
    BY <2>1 DEF Fit, ParserFields
  <2>. HIDE DEF next
  <2>3. ~Excused(log) => Flagged(next, log)
    BY <1>4, <2>1, <2>2 DEF Flagged, Beside
  <2>4. Meant(stream.wire, next, pos, call, log)
    BY <1>4, <2>1, <2>2, <2>3, BetweenMeant DEF Beside, Between
  <2>. QED
    BY <1>2, <1>6, <2>4, DoMeant, AgainCall
<1>. QED
  BY <1>3, <1>5, <1>6

LEMMA HeaderValueDiscardLwsMeant == ASSUME AtSocket, HeaderValueDiscardLws, Collect PROVE SocketInv'
<1>. DEFINE ended == Finished(parser)
            next == [ended EXCEPT !.state = "header_field_start"]
            m == Joined(log, "header_value", <<>>)
<1>1. At({"header_value_discard_lws"})
  BY DEF HeaderValueDiscardLws
<1>2. /\ InTurn /\ Fit(parser) /\ parser.state = "header_value_discard_lws" /\ stream.interruptions = {}
      /\ Meant(stream.wire, parser, pos, call, log) /\ parser.errno = "OK" /\ log \in Seq(Entry)
  BY <1>1, SocketTurn
<1>3. Do(Advance(In("header_value_discard_ws"))) \/ Do(Error("INVALID_CONTENT_LENGTH"))
      \/ Callback("header_value", <<>>, Again(next))
  BY DEF HeaderValueDiscardLws
<1>4. /\ parser.type = "request" /\ parser.method \in Methods /\ call.end <= Len(stream.wire)
      /\ Begun(log) /\ LastIs(log, "header_field")
  BY <1>2, BlankFacts DEF Blank
<1>5. CASE Do(Advance(In("header_value_discard_ws")))
  <2>1. At(Blank) /\ "header_value_discard_ws" \in Blank
    BY <1>1 DEF At, Blank
  <2>. QED
    BY <1>5, <2>1, BlankDo
<1>6. CASE Callback("header_value", <<>>, Again(next))
  <2>1. Fit(ended) /\ Beside(ended, parser)
    BY <1>2, FinishedFit
  <2>. HIDE DEF ended
  <2>2. next.state = "header_field_start" /\ next.type = ended.type /\ next.method = ended.method
    BY <2>1 DEF Fit, ParserFields
  <2>. HIDE DEF next
  <2>3. /\ called' = [cb |-> "header_value", data |-> <<>>] /\ log' = m
        /\ parser' = next /\ pos' = pos /\ call' = call /\ stream' = stream
    BY <1>2, <1>6, CallbackEnds, AgainCall
  <2>4. Excused(m) /\ Begun(m)
    BY <1>2, <1>4, EmptyValueLog
  <2>. HIDE DEF m
  <2>5. Meant(stream.wire, next, pos, call, m)
    BY <1>4, <2>1, <2>2, <2>4, BetweenMeant DEF Beside, Between
  <2>. QED
    BY <1>2, <1>4, <2>3, <2>5, EmptyValueStep DEF AtSocket, m
<1>. QED
  BY <1>2, <1>3, <1>5, <1>6, ErrorMeant

\* A piece of a value adds the header of its name.
LEMMA ValueSent ==
  ASSUME AtSocket, parser.errno = "OK", parser.state = "header_value", NEW data \in Seq(LogText),
         (LastIs(log, "header_field") /\ data # <<>>) \/ HasValue(log)
  PROVE  LET m == Joined(log, "header_value", data)
         IN  /\ m \in Seq(Entry) /\ HasValue(m) /\ Begun(m) /\ (Excused(log) => Excused(m))
             /\ ~Excused(m) => (LengthName \in DOMAIN Sent(m) => "CONTENTLENGTH" \in parser.flags)
<1>. DEFINE m == Joined(log, "header_value", data)
<1>1. log \in Seq(Entry) /\ Meant(stream.wire, parser, pos, call, log)
  BY DEF AtSocket, SocketInv
<1>2. /\ Begun(log)
      /\ ~Excused(log) =>
           /\ Flagged(parser, log)
           /\ LastIs(log, "header_field") =>
                Gathered(log) # <<>> /\ (Lower(Gathered(log)) = LengthName => "CONTENTLENGTH" \in parser.flags)
  BY <1>1, ValueFacts
<1>3. data \in Seq(AllChar \cup Methods)
  BY DEF LogText
<1>4. /\ m \in Seq(Entry) /\ HasValue(m) /\ Begun(m)
      /\ Before(m) = IF LastIs(log, "header_field") THEN log ELSE Before(log)
      /\ Excused(log) => Excused(m)
  BY <1>1, <1>2, <1>3, ValueLog
<1>5. LastIs(m, "header_value")
  BY <1>4 DEF HasValue
<1>. HIDE DEF m
<1>6. ASSUME ~Excused(m), LengthName \in DOMAIN Sent(m) PROVE "CONTENTLENGTH" \in parser.flags
  <2>1. /\ Flagged(parser, log) /\ Collecting
    BY <1>1, <1>2, <1>4, <1>6 DEF AtSocket, SocketInv
  <2>2. CASE LastIs(log, "header_field")
    <3>1. Before(m) = log
      BY <1>4, <2>2
    <3>2. Sent(m) = With(Sent(log), Lower(log[Len(log)].data), m[Len(m)].data)
      BY <1>1, <1>4, <1>5, <2>2, <3>1, SentPair
    <3>3. LengthName \in DOMAIN Sent(log) \/ LengthName = Lower(log[Len(log)].data)
      BY <1>6, <3>2 DEF With
    <3>4. Gathered(log) = log[Len(log)].data
      BY <2>2 DEF Gathered
    <3>. QED
      BY <1>2, <1>4, <1>6, <2>1, <2>2, <3>3, <3>4 DEF Flagged
  <2>3. CASE ~LastIs(log, "header_field")
    <3>1. LastIs(log, "header_value") /\ Before(m) = Before(log)
      BY <1>4, <2>3 DEF HasValue
    <3>. DEFINE b == Before(log)
    <3>2. LastIs(b, "header_field") /\ b \in Seq(Entry)
      BY <1>1, <2>1, <3>1, BeforeType DEF Collecting, Collected
    <3>3. Sent(log) = With(Sent(b), Lower(b[Len(b)].data), log[Len(log)].data)
      BY <1>1, <1>2, <3>1, <3>2, SentPair
    <3>4. Sent(m) = With(Sent(b), Lower(b[Len(b)].data), m[Len(m)].data)
      BY <1>4, <1>5, <3>1, <3>2, SentPair
    <3>5. DOMAIN Sent(m) = DOMAIN Sent(log)
      BY <3>3, <3>4 DEF With
    <3>. QED
      BY <1>6, <2>1, <3>5 DEF Flagged
  <2>. QED
    BY <2>2, <2>3
<1>. QED
  BY <1>4, <1>6 DEF m

\* What the bytes of a value leave of the parser.
ValueGoesOn(q) ==
  /\ Fit(q) /\ q.type = "request" /\ q.method \in Methods
  /\ q.header_state = "transfer_encoding" => parser.header_state = "transfer_encoding"
  /\ parser.uses_transfer_encoding => q.uses_transfer_encoding
  /\ parser.flags \subseteq q.flags
  /\ \A flag \in {"TRAILING", "CHUNKED"} : flag \in q.flags => flag \in parser.flags

\* A value ends.
LEMMA ValueEnds ==
  ASSUME AtSocket, At({"header_value"}), NEW p \in pos..call.end,
         NEW data, data = SubSeq(stream.wire, call.marks["header_value"], p - 1),
         NEW q, ValueGoesOn(q), q.state = "header_almost_done",
         called' = [cb |-> "header_value", data |-> data], log' = Joined(log, "header_value", data), Collect,
         stream' = stream,
         parser'.errno = "OK" => parser' = q /\ call'.end = call.end
  PROVE  SocketInv'
<1>. DEFINE mark == call.marks["header_value"]
            m == Joined(log, "header_value", data)
<1>1. /\ InTurn /\ log \in Seq(Entry) /\ Meant(stream.wire, parser, pos, call, log) /\ parser.errno = "OK"
      /\ parser.state = "header_value" /\ call.end # 0 /\ stream.wire \in Seq(AllChar)
  BY SocketTurn
<1>2. /\ call.end <= Len(stream.wire) /\ Begun(log) /\ mark \in 1..pos
      /\ HasValue(log) \/ (LastIs(log, "header_field") /\ mark < pos)
      /\ ~Excused(log) =>
           /\ Flagged(parser, log)
           /\ parser.header_state = "transfer_encoding" => parser.uses_transfer_encoding
           /\ LastIs(log, "header_field") => Gathered(log) # <<>>
  BY <1>1, ValueFacts
<1>3. pos \in Nat \ {0} /\ call.end \in Nat /\ Len(stream.wire) \in Nat
  BY <1>1, LenProperties DEF InTurn, ParserInv, Keeps, Typed
<1>. HIDE DEF mark
<1>4. mark \in Nat \ {0} /\ p - 1 \in Int /\ p - 1 <= Len(stream.wire)
  BY <1>2, <1>3
<1>5. data \in Seq(LogText) /\ Len(data) = IF mark <= p - 1 THEN p - 1 - mark + 1 ELSE 0
  BY <1>1, <1>4, BytesAreText DEF mark, LogText
<1>6. (LastIs(log, "header_field") /\ data # <<>>) \/ HasValue(log)
  <2>1. CASE mark < pos
    <3>1. Len(data) # 0
      BY <1>2, <1>3, <1>5, <2>1
    <3>2. data # <<>>
      BY <1>5, <3>1, EmptySeq
    <3>. QED
      BY <1>2, <3>2
  <2>2. CASE ~(mark < pos)
    BY <1>2, <2>2
  <2>. QED
    BY <2>1, <2>2
<1>7. /\ m \in Seq(Entry) /\ HasValue(m) /\ Begun(m) /\ (Excused(log) => Excused(m))
      /\ ~Excused(m) => (LengthName \in DOMAIN Sent(m) => "CONTENTLENGTH" \in parser.flags)
  BY <1>1, <1>5, <1>6, ValueSent
<1>8. data \in Seq(AllChar \cup Methods) /\ log' = m
  BY <1>5 DEF LogText
<1>. HIDE DEF m
<1>9. ~Excused(m) => Flagged(q, m) /\ (q.header_state = "transfer_encoding" => q.uses_transfer_encoding)
  BY <1>2, <1>7 DEF Flagged, ValueGoesOn
<1>10. parser'.errno = "OK" => Meant(stream.wire, parser', pos', call', m)
  BY <1>2, <1>7, <1>9, EndedMeant DEF ValueGoesOn, Ended
<1>. QED
  BY <1>1, <1>2, <1>6, <1>8, <1>10, ValueStep DEF AtSocket

\* What a text's end that is counted after its callback comes to.
LEMMA FlushCounted ==
  ASSUME InTurn, stream.interruptions = {}, NEW cb \in DataCallbacks, call.marks[cb] # 0,
         NEW last, NEW n \in Nat, NEW q, Fit(q), q.state # "chunk_size_start", NEW to \in Nat \ {0},
         LET Count(o) == Counted(o, n) IN FlushThen(cb, last, AdvanceTo(q, to), Count)
  PROVE  LET data == SubSeq(stream.wire, call.marks[cb], last)
         IN  /\ called' = [cb |-> cb, data |-> data] /\ log' = Joined(log, cb, data) /\ stream' = stream
             /\ parser'.errno = "OK" => parser' = q /\ call'.end = call.end
<1>. DEFINE o == AdvanceTo(q, to)
            c == [call EXCEPT !.fetched = FALSE]
            data == SubSeq(stream.wire, call.marks[cb], last)
            cleared == [o EXCEPT !.call.marks[cb] = 0]
            d == [c EXCEPT !.marks[cb] = 0]
            counted == Counted(cleared, n)
<1>1. called' = [cb |-> cb, data |-> data] /\ log' = Joined(log, cb, data) /\ Ends(counted)
  BY DEF FlushThen, CallbackThen
<1>2. o.parser = q /\ o.pos = to /\ o.call = c /\ IsOutcome(o)
  BY DEF AdvanceTo, IsOutcome
<1>3. Typed(q, to, c) /\ c.end = call.end /\ c.marks = call.marks
  BY DEF InTurn, ParserInv, Keeps, Typed, Fit
<1>4. cleared.parser = q /\ cleared.pos = to /\ cleared.call = d /\ IsOutcome(cleared)
  BY <1>2 DEF IsOutcome
<1>5. Typed(q, to, d) /\ d.end = call.end
  BY <1>3 DEF Typed
<1>. HIDE DEF c, d, o, cleared
<1>6. \/ counted.call = NoCall /\ counted.parser.errno = "HEADER_OVERFLOW"
      \/ counted.parser = q /\ counted.call.end = call.end
  BY <1>4, <1>5, CountedGood DEF Fit
<1>. HIDE DEF counted
<1>. QED
  BY <1>1, <1>6 DEF Ends

LEMMA HeaderValueMeant == ASSUME AtSocket, HeaderValue, Collect PROVE SocketInv'
<1>. DEFINE stops == [c \in AllChar |-> c \in LineEnds]
            p == RunEnd(stops)
            bytes == SubSeq(stream.wire, pos, p - 1)
            q == ValueRead(parser, bytes)
            at == [q EXCEPT !.state = "header_almost_done"]
            n == p - pos
            again == [AdvanceTo(at, p) EXCEPT !.call.fetched = TRUE]
            lf == Counted(again, n)
            Count(o) == Counted(o, n)
            data == SubSeq(stream.wire, call.marks["header_value"], p - 1)
            d == Counted(AdvanceTo(q, p), p - 1 - pos)
<1>1. /\ At({"header_value"}) /\ InTurn /\ Fit(parser) /\ parser.state = "header_value"
      /\ stream.interruptions = {} /\ stream.wire \in Seq(AllChar) /\ call.end # 0
      /\ Meant(stream.wire, parser, pos, call, log) /\ parser.errno = "OK"
  <2>1. At({"header_value"})
    BY DEF HeaderValue
  <2>. QED
    BY <2>1, SocketTurn
<1>2. \/ q.errno # "OK" /\ Do(Error(q.errno))
      \/ q.errno = "OK" /\ p > call.end /\ Do(d)
      \/ q.errno = "OK" /\ ~(p > call.end) /\ FlushThen("header_value", p - 1, AdvanceTo(at, p + 1), Count)
      \/ q.errno = "OK" /\ ~(p > call.end) /\ lf.call = NoCall /\ Do(lf)
      \/ q.errno = "OK" /\ ~(p > call.end) /\ lf.call # NoCall /\ Flush("header_value", p - 1, lf)
  BY DEF HeaderValue
<1>3. p \in pos..call.end + 1 /\ pos \in Nat \ {0} /\ call.end \in Nat /\ pos <= call.end
  <2>. HIDE DEF stops
  <2>. QED
    BY <1>1, RunEndFacts DEF InTurn, ParserInv, Keeps, Typed, Within
<1>. HIDE DEF p
<1>4. InValue(q, parser)
  <2>1. Len(bytes) \in Nat
    BY <1>3
  <2>2. InValue(parser, parser)
    BY <1>1 DEF InValue, Beside, InTurn, ParserInv, Keeps, Sound, Fit
  <2>. HIDE DEF bytes
  <2>. QED
    BY <2>1, <2>2, ValueReadInValue
<1>. HIDE DEF q
<1>5. /\ parser.type = "request" /\ parser.method \in Methods /\ call.end <= Len(stream.wire) /\ Begun(log)
      /\ call.marks["header_value"] \in 1..pos
      /\ HasValue(log) \/ (LastIs(log, "header_field") /\ call.marks["header_value"] < pos)
      /\ ~Excused(log) =>
           /\ Flagged(parser, log)
           /\ parser.header_state = "transfer_encoding" => parser.uses_transfer_encoding
           /\ LastIs(log, "header_field") =>
                Gathered(log) # <<>> /\ (Lower(Gathered(log)) = LengthName => "CONTENTLENGTH" \in parser.flags)
  BY <1>1, ValueFacts
<1>6. ASSUME q.errno = "OK"
      PROVE  /\ q.state = "header_value" /\ ValueGoesOn(q)
             /\ at.state = "header_almost_done" /\ ValueGoesOn(at)
  <2>1. Fit(q) /\ q.state = "header_value" /\ ValueGoesOn(q)
    BY <1>1, <1>4, <1>5, <1>6, InTurnFacts DEF InValue, Beside, Fit, ValueGoesOn
  <2>2. at.state = "header_almost_done" /\ ValueGoesOn(at)
    BY <2>1 DEF Fit, ParserFields, ValueGoesOn
  <2>. QED
    BY <2>1, <2>2
<1>. HIDE DEF at
<1>7. CASE q.errno # "OK" /\ Do(Error(q.errno))
  BY <1>1, <1>7, ErrorMeant
<1>8. CASE q.errno = "OK" /\ p > call.end /\ Do(d)
  <2>1. p \in Nat \ {0} /\ p - 1 - pos \in Nat
    BY <1>3, <1>8
  <2>2. Fit(q) /\ q.state = "header_value" /\ ValueGoesOn(q)
    BY <1>6, <1>8 DEF ValueGoesOn
  <2>3. /\ d.pos = p
        /\ \/ d.call = NoCall /\ d.parser.errno = "HEADER_OVERFLOW"
           \/ d.parser = q /\ d.call.end = call.end /\ d.call.marks = call.marks
    BY <1>1, <2>1, <2>2, CountedCall
  <2>. HIDE DEF d
  <2>4. ASSUME d.parser.errno = "OK" PROVE Meant(stream.wire, d.parser, d.pos, d.call, log)
    <3>1. d.parser = q /\ d.call.end = call.end /\ d.call.marks = call.marks
      BY <2>3, <2>4
    <3>2. /\ d.call.marks["header_value"] \in 1..d.pos
          /\ call.marks["header_value"] < pos => d.call.marks["header_value"] < d.pos
      BY <1>3, <1>5, <2>1, <2>3, <3>1
    <3>3. ~Excused(log) => Flagged(q, log) /\ (q.header_state = "transfer_encoding" => q.uses_transfer_encoding)
      BY <1>5, <2>2 DEF Flagged, ValueGoesOn
    <3>4. ~Excused(log) /\ LastIs(log, "header_field") =>
            Gathered(log) # <<>> /\ (Lower(Gathered(log)) = LengthName => "CONTENTLENGTH" \in q.flags)
      BY <1>5, <2>2 DEF ValueGoesOn
    <3>. QED
      BY <1>1, <1>5, <2>2, <3>1, <3>2, <3>3, <3>4, ValueMeant DEF ValueGoesOn
  <2>. QED
    BY <1>1, <1>8, <2>4, DoMeant
<1>. HIDE DEF d
<1>9. ASSUME q.errno = "OK", ~(p > call.end)
      PROVE  /\ p \in pos..call.end /\ n \in Nat /\ p \in Nat \ {0} /\ p + 1 \in Nat \ {0}
             /\ "header_value" \in DataCallbacks /\ call.marks["header_value"] # 0
             /\ Fit(at) /\ at.state # "chunk_size_start" /\ at.state = "header_almost_done" /\ ValueGoesOn(at)
  BY <1>3, <1>5, <1>6, <1>9 DEF DataCallbacks, ValueGoesOn
<1>10. CASE q.errno = "OK" /\ ~(p > call.end) /\ FlushThen("header_value", p - 1, AdvanceTo(at, p + 1), Count)
  <2>1. /\ p \in pos..call.end /\ n \in Nat /\ p \in Nat \ {0} /\ p + 1 \in Nat \ {0}
        /\ "header_value" \in DataCallbacks /\ call.marks["header_value"] # 0
        /\ Fit(at) /\ at.state # "chunk_size_start" /\ at.state = "header_almost_done" /\ ValueGoesOn(at)
    BY <1>9, <1>10
  <2>. HIDE DEF n
  <2>2. /\ called' = [cb |-> "header_value", data |-> data] /\ log' = Joined(log, "header_value", data)
        /\ stream' = stream
        /\ parser'.errno = "OK" => parser' = at /\ call'.end = call.end
    BY <1>1, <1>10, <2>1, FlushCounted
  <2>. HIDE DEF data
  <2>. QED
    BY <1>1, <2>1, <2>2, ValueEnds DEF data
<1>11. CASE /\ q.errno = "OK" /\ ~(p > call.end)
            /\ \/ lf.call = NoCall /\ Do(lf)
               \/ lf.call # NoCall /\ Flush("header_value", p - 1, lf)
  <2>. DEFINE c == [[call EXCEPT !.fetched = FALSE] EXCEPT !.fetched = TRUE]
  <2>1. /\ p \in pos..call.end /\ n \in Nat /\ p \in Nat \ {0}
        /\ "header_value" \in DataCallbacks /\ call.marks["header_value"] # 0
        /\ Fit(at) /\ at.state # "chunk_size_start" /\ at.state = "header_almost_done" /\ ValueGoesOn(at)
    BY <1>9, <1>11
  <2>2. again.parser = at /\ again.pos = p /\ again.call = c /\ IsOutcome(again)
    BY DEF AdvanceTo, IsOutcome
  <2>3. Typed(at, p, c) /\ c.end = call.end
    BY <1>1, <2>1 DEF InTurn, ParserInv, Keeps, Typed, Fit
  <2>. HIDE DEF c, again, n
  <2>4. /\ IsOutcome(lf)
        /\ \/ lf.call = NoCall /\ lf.parser.errno = "HEADER_OVERFLOW"
           \/ lf.parser = at /\ lf.call.end = call.end /\ Typed(lf.parser, lf.pos, lf.call)
    BY <2>1, <2>2, <2>3, CountedGood DEF Fit
  <2>. HIDE DEF lf
  <2>5. CASE lf.call = NoCall /\ Do(lf)
    <3>1. NoCall.end # call.end
      BY <1>1, NoCallFacts
    <3>2. lf.parser.errno # "OK"
      BY <2>4, <2>5, <3>1
    <3>. QED
      BY <1>1, <2>5, <3>2, DoMeant
  <2>6. CASE lf.call # NoCall /\ Flush("header_value", p - 1, lf)
    <3>. DEFINE e == [lf.call EXCEPT !.marks["header_value"] = 0]
    <3>1. lf.parser = at /\ lf.call.end = call.end /\ Typed(lf.parser, lf.pos, lf.call)
      BY <2>4, <2>6
    <3>2. e.end = call.end
      BY <3>1 DEF Typed
    <3>3. /\ called' = [cb |-> "header_value", data |-> data] /\ log' = Joined(log, "header_value", data)
          /\ parser' = lf.parser /\ call' = e /\ stream' = stream
      <4>. HIDE DEF e, data
      <4>. QED
        BY <1>1, <2>1, <2>4, <2>6, FlushEnds DEF e, data
    <3>. HIDE DEF e, data
    <3>. QED
      BY <1>1, <2>1, <3>1, <3>2, <3>3, ValueEnds DEF data
  <2>. QED
    BY <1>11, <2>5, <2>6 DEF lf
<1>. QED
  BY <1>2, <1>7, <1>8, <1>10, <1>11

-----------------------------------------------------------------------------
(* The end of the headers. *)

\* What the callback that completes the headers leaves in the log.
LEMMA CompletedLog ==
  ASSUME NEW l \in Seq(Entry), NEW method \in Methods
  PROVE  LET m == Joined(l, "headers_complete", <<method>>)
         IN  /\ m \in Seq(Entry) /\ ~InHeader(m) /\ Sent(m) = Sent(l) /\ (Begun(l) => Begun(m))
             /\ Excused(l) => Excused(m)
             /\ PreflightSent(m) => PreflightSent(l) \/ method = "OPTIONS"
             /\ method = "OPTIONS" => PreflightSent(m)
<1>. DEFINE data == <<method>>
            cb == "headers_complete"
            m == Joined(l, cb, data)
<1>1. data \in Seq(AllChar \cup Methods) /\ cb \in Callbacks \ {"header_field", "header_value"}
      /\ cb # "message_begin" /\ cb \in Callbacks /\ cb \notin DataCallbacks
  BY DEF Callbacks, DataCallbacks
<1>. HIDE DEF data
<1>2. m \in Seq(Entry) /\ ~InHeader(m) /\ Sent(m) = Sent(l) /\ (Begun(l) => Begun(m)) /\ (Excused(l) => Excused(m))
  BY <1>1, OutsideLog
<1>3. PreflightSent(m) => PreflightSent(l) \/ data = <<"OPTIONS">>
  BY <1>1, PreflightStays
<1>4. LastIs(m, cb) /\ m[Len(m)].data = data
  BY <1>1, JoinedEntry
<1>. HIDE DEF m
<1>5. Len(m) \in DOMAIN m
  BY <1>2, <1>4, LogFacts DEF LastIs
<1>6. method = "OPTIONS" => PreflightSent(m)
  BY <1>4, <1>5 DEF PreflightSent, LastIs, data
<1>7. data = <<"OPTIONS">> => method = "OPTIONS"
  BY DEF data
<1>. QED
  BY <1>2, <1>3, <1>6, <1>7 DEF m, data

\* A request that the socket takes has the length that it requires.
LEMMA TakenHasLength ==
  ASSUME HeadersAnswer = 0, parser.method # "OPTIONS"
  PROVE  LengthName \in DOMAIN WithPair
<1>1. Refusal(parser.method, WithPair) = 0
  BY DEF HeadersAnswer
<1>2. RequiredHeaders \subseteq DOMAIN WithPair
  <2>. HIDE DEF WithPair
  <2>. QED
    BY <1>1 DEF Refusal
<1>. QED
  BY <1>2 DEF RequiredHeaders, LengthName

LEMMA HeadersAlmostDoneMeant ==
  ASSUME AtSocket, HeadersAlmostDone({HeadersAnswer}), Collect
  PROVE  /\ SocketInv'
         /\ called'.cb = "headers_complete" =>
              /\ parser.method \in Methods /\ log \in Seq(Entry)
              /\ log' = Joined(log, "headers_complete", <<parser.method>>)
              /\ ~Excused(log) => WithPair = Sent(log')
              /\ parser'.errno = IF HeadersAnswer = 0 THEN "OK" ELSE "CB_headers_complete"
<1>. DEFINE upgrade == Upgrades(parser)
            q == [In("headers_done") EXCEPT !.upgrade = upgrade]
            saved == [q EXCEPT !.nread = call.nread]
            e == [q EXCEPT !.errno = "CB_headers_complete"]
            seen == <<parser.method>>
            m == Joined(log, "headers_complete", seen)
            done == In("message_done")
            answer == HeadersAnswer
<1>1. /\ InTurn /\ Fit(parser) /\ parser.state = "headers_almost_done" /\ stream.interruptions = {}
      /\ log \in Seq(Entry) /\ Meant(stream.wire, parser, pos, call, log) /\ parser.errno = "OK" /\ call.end # 0
      /\ stream.wire \in Seq(AllChar)
  <2>1. At({"headers_almost_done"})
    BY DEF HeadersAlmostDone
  <2>. QED
    BY <2>1, SocketTurn
<1>2. /\ parser.type = "request" /\ parser.method \in Methods /\ call.end <= Len(stream.wire)
      /\ Begun(log)
      /\ ~Excused(log) => ~LastIs(log, "header_field") /\ Flagged(parser, log)
  BY <1>1, BetweenFacts DEF Between
<1>3. answer \in {0, -1}
  BY DEF HeadersAnswer
<1>4. \/ Do(Error("STRICT")) \/ Do(Error("UNEXPECTED_CONTENT_LENGTH"))
      \/ "TRAILING" \in parser.flags /\ Callback("chunk_complete", <<>>, Again(done))
      \/ /\ ~(parser.uses_transfer_encoding /\ "CONTENTLENGTH" \in parser.flags)
         /\ answer = 0 /\ Callback("headers_complete", seen, Again(saved))
      \/ /\ answer = -1 /\ Ends(Return(e, pos))
         /\ called' = [cb |-> "headers_complete", data |-> seen] /\ log' = m
  <2>. HIDE DEF upgrade, seen, done, answer
  <2>1. \/ Do(Error("STRICT")) \/ Do(Error("UNEXPECTED_CONTENT_LENGTH"))
        \/ "TRAILING" \in parser.flags /\ Callback("chunk_complete", <<>>, Again(done))
        \/ /\ ~(parser.uses_transfer_encoding /\ "CONTENTLENGTH" \in parser.flags)
           /\ \E a \in {answer} :
                CASE a = 0 -> Callback("headers_complete", seen, Again(saved))
                  [] a \in {1, 2} ->
                       Callback("headers_complete", seen,
                                Again([saved EXCEPT !.flags = @ \cup {"SKIPBODY"},
                                                    !.upgrade = @ \/ a = 2]))
                  [] OTHER -> /\ Ends(Return(e, pos))
                              /\ called' = [cb |-> "headers_complete", data |-> seen]
                              /\ log' = Joined(log, "headers_complete", seen)
    BY DEF HeadersAlmostDone, upgrade, seen, done, answer
  <2>. HIDE DEF q, saved, e, m
  <2>2. CASE answer = 0
    BY <2>1, <2>2
  <2>3. CASE answer = -1
    BY <2>1, <2>3 DEF m
  <2>. QED
    BY <1>3, <2>2, <2>3 DEF answer
<1>5. Fit(q) /\ q.state = "headers_done" /\ Alike(q)
  BY <1>1, InFit, InAlike DEF Fit, ParserFields, Alike
<1>. HIDE DEF q, upgrade
<1>6. saved.state = "headers_done" /\ Alike(saved) /\ saved.errno = "OK"
  BY <1>5 DEF Fit, ParserFields, Alike
<1>7. e.errno = "CB_headers_complete" /\ ParserFields \subseteq DOMAIN e
  BY <1>5 DEF Fit, ParserFields
<1>8. done.state = "message_done" /\ Alike(done)
  BY <1>1, InFit, InAlike
<1>. HIDE DEF saved, done
<1>9. CASE "TRAILING" \in parser.flags /\ Callback("chunk_complete", <<>>, Again(done))
  <2>1. Excused(log)
    BY <1>2, <1>9 DEF Flagged
  <2>. DEFINE t == Joined(log, "chunk_complete", <<>>)
  <2>2. /\ called' = [cb |-> "chunk_complete", data |-> <<>>] /\ log' = t
        /\ parser' = done /\ pos' = pos /\ call' = call /\ stream' = stream
    BY <1>1, <1>9, CallbackEnds, AgainCall
  <2>3. <<>> \in Seq(AllChar \cup Methods) /\ "chunk_complete" \in Callbacks \ {"header_field", "header_value"}
    BY EmptySeq DEF Callbacks, DataCallbacks
  <2>4. Excused(t) /\ Begun(t)
    BY <1>1, <1>2, <2>1, <2>3, OutsideLog
  <2>. HIDE DEF t
  <2>5. Meant(stream.wire, done, pos, call, t)
    BY <1>2, <1>8, <2>4, OutsideMeant DEF Alike, Outside
  <2>. QED
    BY <1>1, <2>1, <2>2, <2>5, ChunkStep DEF AtSocket, t
<1>10. /\ m \in Seq(Entry) /\ ~InHeader(m) /\ Sent(m) = Sent(log) /\ Begun(m)
       /\ Excused(log) => Excused(m)
       /\ parser.method = "OPTIONS" => PreflightSent(m)
  BY <1>1, <1>2, CompletedLog
<1>11. CASE /\ ~(parser.uses_transfer_encoding /\ "CONTENTLENGTH" \in parser.flags)
            /\ answer = 0 /\ Callback("headers_complete", seen, Again(saved))
  <2>1. /\ called' = [cb |-> "headers_complete", data |-> seen] /\ log' = m
        /\ parser' = saved /\ pos' = pos /\ call' = call /\ stream' = stream
    <3>. HIDE DEF seen, m
    <3>. QED
      BY <1>1, <1>11, CallbackEnds, AgainCall DEF m
  <2>2. ASSUME ~Excused(m) PROVE Flagged(saved, m) /\ "CHUNKED" \notin saved.flags
    <3>1. parser.method # "OPTIONS" /\ ~Excused(log)
      BY <1>10, <2>2 DEF Excused
    <3>2. LengthName \in DOMAIN WithPair
      BY <1>11, <3>1, TakenHasLength
    <3>3. WithPair = Sent(log)
      BY <1>1, <1>2, <3>1, PairIs DEF AtSocket, SocketInv
    <3>. QED
      BY <1>2, <1>6, <1>10, <1>11, <3>1, <3>2, <3>3 DEF Flagged, Alike
  <2>. HIDE DEF m
  <2>3. Meant(stream.wire, saved, pos, call, m)
    BY <1>2, <1>6, <1>10, <2>2, OutsideMeant DEF Alike, Outside
  <2>4. SocketInv' /\ (~Excused(log) => WithPair = Sent(log'))
    BY <1>1, <1>2, <2>1, <2>3, HeadersStep DEF AtSocket, m
  <2>. QED
    BY <1>1, <1>2, <1>6, <1>11, <2>1, <2>4 DEF m
<1>12. CASE /\ answer = -1 /\ Ends(Return(e, pos))
            /\ called' = [cb |-> "headers_complete", data |-> seen] /\ log' = m
  <2>1. Return(e, pos).parser = [e EXCEPT !.nread = call.nread]
    BY <1>1 DEF Return, Leave, AdvanceTo, InTurn, ParserInv, Keeps, Typed
  <2>2. parser'.errno = "CB_headers_complete" /\ stream' = stream
    <3>. HIDE DEF e, m, seen
    <3>. QED
      BY <1>7, <1>12, <2>1, NreadSet DEF Ends
  <2>3. SocketInv' /\ (~Excused(log) => WithPair = Sent(log'))
    <3>. HIDE DEF e
    <3>. QED
      BY <1>1, <1>2, <1>12, <2>2, HeadersStep DEF AtSocket
  <2>. QED
    BY <1>1, <1>2, <1>12, <2>2, <2>3
<1>13. CASE Do(Error("STRICT")) \/ Do(Error("UNEXPECTED_CONTENT_LENGTH"))
  <2>1. SocketInv'
    BY <1>1, <1>13, ErrorMeant
  <2>2. called'.cb # "headers_complete"
    BY <1>13 DEF Do, Silence
  <2>. QED
    BY <2>1, <2>2
<1>. QED
  BY <1>4, <1>9, <1>11, <1>12, <1>13

-----------------------------------------------------------------------------
(* Bodies and the ends of messages. *)

LEMMA ChunkMeant ==
  ASSUME NEW w, NEW q, NEW n, NEW c, NEW l,
         q.type = "request", q.method \in Methods, c.end <= Len(w), q.state \in ChunkStates, Begun(l), Excused(l)
  PROVE  Meant(w, q, n, c, l)
<1>1. /\ q.state \notin InHeaders /\ q.state \notin Outside /\ q.state \notin Between
      /\ q.state \notin {"header_field", "header_value"} /\ q.state \notin Blank /\ q.state \notin Ended
  BY HeaderStates, OutsideStates DEF InHeaders
<1>. QED
  BY <1>1 DEF Meant, Follows

LEMMA ChunkFacts ==
  ASSUME Meant(stream.wire, parser, pos, call, log), parser.state \in ChunkStates
  PROVE  /\ parser.type = "request" /\ parser.method \in Methods /\ call.end <= Len(stream.wire)
         /\ Begun(log) /\ Excused(log)
<1>1. parser.state \notin {"dead", "start_req"}
  BY DEF ChunkStates
<1>. QED
  BY <1>1 DEF Meant, Follows, Regular

LEMMA UncountedCall ==
  ASSUME InTurn, NEW q, Fit(q)
  PROVE  LET o == Uncounted(Advance(q))
         IN  /\ IsOutcome(o) /\ Fit(o.parser) /\ o.parser.state = q.state /\ o.parser.flags = q.flags
             /\ o.parser.type = q.type /\ o.parser.method = q.method
             /\ o.parser.uses_transfer_encoding = q.uses_transfer_encoding
             /\ o.call.end = call.end /\ DOMAIN o.call = {"end", "nread", "fetched", "marks"}
<1>. DEFINE o == Uncounted(Advance(q))
            u == [q EXCEPT !.nread = 0]
<1>1. o.parser = u /\ IsOutcome(o) /\ Fit(u) /\ o.call.end = call.end /\ Typed(u, o.pos, o.call)
  BY UncountedFacts
<1>2. /\ u.state = q.state /\ u.flags = q.flags /\ u.type = q.type /\ u.method = q.method
      /\ u.uses_transfer_encoding = q.uses_transfer_encoding
  BY DEF Fit, ParserFields
<1>. HIDE DEF o, u
<1>. QED
  BY <1>1, <1>2 DEF Typed, o

\* A message ends, and the next one is awaited.
LEMMA CompleteMeant ==
  ASSUME AtSocket, NEW states, At(states), parser.state \in Outside, parser.state \notin {"dead", "start_req"},
         NEW o, IsOutcome(o), Fit(o.parser), Alike(o.parser), o.call.end = call.end,
         DOMAIN o.call = {"end", "nread", "fetched", "marks"},
         NEW leaves, Complete(o, leaves), Collect
  PROVE  SocketInv'
<1>. DEFINE next == [o EXCEPT !.parser = NewMessage(@)]
            q == NewMessage(o.parser)
            left == Leave(next)
            m == Joined(log, "message_complete", <<>>)
            s == IF ~ShouldKeepAlive(o.parser) THEN "dead"
                 ELSE IF o.parser.type = "request" THEN "start_req" ELSE "start_res"
<1>1. /\ InTurn /\ stream.interruptions = {} /\ log \in Seq(Entry) /\ parser.errno = "OK"
      /\ Meant(stream.wire, parser, pos, call, log) /\ stream.wire \in Seq(AllChar)
  BY SocketTurn
<1>2. /\ parser.type = "request" /\ parser.method \in Methods /\ call.end <= Len(stream.wire)
      /\ Begun(log)
      /\ ~Excused(log) => ~InHeader(log) /\ Flagged(parser, log)
  BY <1>1, OutsideFacts
<1>3. /\ called' = [cb |-> "message_complete", data |-> <<>>] /\ log' = m
      /\ Ends(next) \/ Ends(left)
  BY <1>1 DEF Complete, Callback, CallbackThen, Stay
<1>4. next.parser = q /\ next.call = o.call /\ IsOutcome(next)
  BY DEF IsOutcome
<1>5. q = [o.parser EXCEPT !.state = s]
  BY DEF NewMessage
<1>6. s \in {"dead", "start_req"}
  BY <1>2 DEF Alike
<1>. HIDE DEF s, next, q
<1>7. /\ ParserFields \subseteq DOMAIN q /\ q.state \in {"dead", "start_req"} /\ q.type = "request" /\ q.method \in Methods
      /\ q.flags = parser.flags /\ q.uses_transfer_encoding = parser.uses_transfer_encoding
  BY <1>2, <1>5, <1>6 DEF Fit, ParserFields, Alike
<1>8. left.parser = [q EXCEPT !.nread = o.call.nread] /\ left.call = NoCall
  BY <1>4 DEF Leave, IsOutcome
<1>9. Len(stream.wire) \in Nat
  BY <1>1, LenProperties
<1>. HIDE DEF left
<1>10. /\ stream' = stream
       /\ parser'.state \in {"dead", "start_req"} /\ parser'.type = "request" /\ parser'.method \in Methods
       /\ parser'.flags = parser.flags /\ parser'.uses_transfer_encoding = parser.uses_transfer_encoding
       /\ call'.end <= Len(stream.wire)
  <2>1. CASE Ends(next)
    BY <1>2, <1>4, <1>7, <2>1 DEF Ends
  <2>2. CASE Ends(left)
    <3>1. parser' = [q EXCEPT !.nread = o.call.nread] /\ call' = NoCall /\ stream' = stream
      BY <1>8, <2>2 DEF Ends
    <3>2. NoCall.end <= Len(stream.wire)
      BY <1>9, NoCallFacts
    <3>. QED
      BY <1>7, <3>1, <3>2 DEF ParserFields
  <2>. QED
    BY <1>3, <2>1, <2>2
<1>11. <<>> \in Seq(AllChar \cup Methods) /\ "message_complete" \in Callbacks \ {"header_field", "header_value"}
  BY EmptySeq DEF Callbacks, DataCallbacks
<1>12. m \in Seq(Entry) /\ ~InHeader(m) /\ Begun(m) /\ Sent(m) = Sent(log) /\ (Excused(log) => Excused(m))
  BY <1>1, <1>2, <1>11, OutsideLog
<1>. HIDE DEF m
<1>13. ~Excused(m) => Flagged(parser', m)
  BY <1>2, <1>10, <1>12 DEF Flagged
<1>14. parser'.state \in Outside \cup {"header_field_start"} /\ parser'.state # "headers_done"
  BY <1>10, LineIsOutside DEF LineStates
<1>15. Meant(stream.wire, parser', pos', call', m)
  BY <1>10, <1>12, <1>13, <1>14, OutsideMeant
<1>. QED
  BY <1>1, <1>2, <1>3, <1>10, <1>11, <1>15, OutsideStep DEF AtSocket, m

LEMMA HeadersDoneMeant == ASSUME AtSocket, HeadersDone, Collect PROVE SocketInv'
<1>. DEFINE o == Uncounted(Advance(parser))
            on(state) == Uncounted(Advance(In(state)))
            bad == [Error("INVALID_TRANSFER_ENCODING") EXCEPT !.parser.nread = 0]
<1>1. /\ At({"headers_done"}) /\ InTurn /\ Fit(parser) /\ parser.state = "headers_done"
      /\ Meant(stream.wire, parser, pos, call, log) /\ parser.errno = "OK"
  <2>1. At({"headers_done"})
    BY DEF HeadersDone
  <2>. QED
    BY <2>1, SocketTurn
<1>2. parser.state \in Outside /\ parser.state \notin {"dead", "start_req"}
  BY <1>1 DEF Outside
<1>3. /\ parser.type = "request" /\ parser.method \in Methods /\ call.end <= Len(stream.wire)
      /\ Begun(log)
      /\ ~Excused(log) => ~InHeader(log) /\ Flagged(parser, log) /\ "CHUNKED" \notin parser.flags
  BY <1>1, <1>2, OutsideFacts DEF Meant, Regular
<1>4. \/ Do(Error("STRICT"))
      \/ Complete(o, TRUE) \/ Complete(o, FALSE)
      \/ "CHUNKED" \in parser.flags /\ Do(on("chunk_size_start"))
      \/ Do(bad)
      \/ Do(on("body_identity"))
  <2>. HIDE DEF bad, o, on
  <2>. QED
    BY <1>3 DEF HeadersDone, NeedsEof, bad, o, on
<1>5. ASSUME NEW leaves, Complete(o, leaves) PROVE SocketInv'
  <2>1. /\ IsOutcome(o) /\ Fit(o.parser) /\ Alike(o.parser) /\ o.call.end = call.end
        /\ DOMAIN o.call = {"end", "nread", "fetched", "marks"}
    BY <1>1, UncountedCall DEF Alike
  <2>. HIDE DEF o
  <2>. QED
    BY <1>1, <1>2, <1>5, <2>1, CompleteMeant
<1>6. ASSUME NEW s PROVE LET x == on(s) IN Alike(x.parser) /\ x.parser.state = s /\ x.call.end = call.end
  BY <1>1, InFit, InAlike, UncountedCall DEF Alike
<1>7. CASE "CHUNKED" \in parser.flags /\ Do(on("chunk_size_start"))
  <2>. DEFINE x == on("chunk_size_start")
  <2>1. Alike(x.parser) /\ x.parser.state = "chunk_size_start" /\ x.call.end = call.end /\ Do(x)
    BY <1>6, <1>7
  <2>. HIDE DEF x
  <2>2. Meant(stream.wire, x.parser, x.pos, x.call, log)
    BY <1>3, <1>7, <2>1, ChunkMeant DEF Alike, ChunkStates
  <2>. QED
    BY <1>1, <2>1, <2>2, DoMeant
<1>8. CASE Do(on("body_identity"))
  <2>. DEFINE x == on("body_identity")
  <2>1. Alike(x.parser) /\ x.parser.state = "body_identity" /\ x.call.end = call.end /\ Do(x)
    BY <1>6, <1>8
  <2>. HIDE DEF x
  <2>2. ~Excused(log) => Flagged(x.parser, log)
    BY <1>3, <2>1 DEF Flagged, Alike
  <2>3. Meant(stream.wire, x.parser, x.pos, x.call, log)
    BY <1>3, <2>1, <2>2, OutsideMeant DEF Alike, Outside
  <2>. QED
    BY <1>1, <2>1, <2>3, DoMeant
<1>9. CASE Do(bad)
  <2>. DEFINE x == Error("INVALID_TRANSFER_ENCODING")
              e == [parser EXCEPT !.errno = "INVALID_TRANSFER_ENCODING"]
  <2>1. ParserFields \subseteq DOMAIN e /\ e.errno = "INVALID_TRANSFER_ENCODING"
    BY <1>1, ErrnoSet DEF Fit
  <2>2. x.parser = [e EXCEPT !.nread = call.nread] /\ IsOutcome(x)
    BY <1>1 DEF Error, Return, Leave, AdvanceTo, InTurn, ParserInv, Keeps, Typed, IsOutcome
  <2>3. bad.parser = [x.parser EXCEPT !.nread = 0]
    BY <2>2 DEF IsOutcome
  <2>. HIDE DEF x, e, bad
  <2>4. bad.parser.errno # "OK"
    BY <2>1, <2>2, <2>3, NreadSet
  <2>. QED
    BY <1>1, <1>9, <2>4, DoMeant
<1>. HIDE DEF o, on, bad
<1>. QED
  BY <1>1, <1>4, <1>5, <1>7, <1>8, <1>9, ErrorMeant

LEMMA MessageDoneMeant == ASSUME AtSocket, MessageDone, Collect PROVE SocketInv'
<1>. DEFINE o == Advance(parser)
<1>1. /\ At({"message_done"}) /\ InTurn /\ Fit(parser) /\ parser.state = "message_done"
  <2>1. At({"message_done"})
    BY DEF MessageDone
  <2>. QED
    BY <2>1, SocketTurn
<1>2. parser.state \in Outside /\ parser.state \notin {"dead", "start_req"}
  BY <1>1 DEF Outside
<1>3. o.parser = parser /\ o.call.end = call.end /\ IsOutcome(o) /\ DOMAIN o.call = {"end", "nread", "fetched", "marks"}
  BY <1>1 DEF Advance, AdvanceTo, IsOutcome, InTurn, ParserInv, Keeps, Typed
<1>4. Complete(o, parser.upgrade)
  BY DEF MessageDone
<1>. HIDE DEF o
<1>. QED
  BY <1>1, <1>2, <1>3, <1>4, CompleteMeant DEF Alike

-----------------------------------------------------------------------------
(* What the parser reads of bodies. *)

LEMMA BodyMarked ==
  ASSUME InTurn, NEW q, NEW to
  PROVE  LET o == Marked(AdvanceTo(q, to), "body") IN o.parser = q /\ o.call.end = call.end
<1>. DEFINE o == AdvanceTo(q, to)
            c == [call EXCEPT !.fetched = FALSE]
            d == [c EXCEPT !.marks["body"] = IF @ = 0 THEN pos ELSE @]
<1>1. o.parser = q /\ o.call = c /\ IsOutcome(o)
  BY DEF AdvanceTo, IsOutcome
<1>2. DOMAIN c = {"end", "nread", "fetched", "marks"} /\ c.end = call.end
  BY DEF InTurn, ParserInv, Keeps, Typed
<1>. HIDE DEF c
<1>3. d.end = call.end
  BY <1>2
<1>. HIDE DEF o, d
<1>4. Marked(o, "body") = [o EXCEPT !.call = d]
  BY <1>1 DEF Marked, d, IsOutcome
<1>. QED
  BY <1>1, <1>3, <1>4 DEF o, IsOutcome

LEMMA BodyIdentityMeant == ASSUME AtSocket, BodyIdentity, Collect PROVE SocketInv'
<1>. DEFINE n == ToRead
            q == [parser EXCEPT !.content_length = @ - n]
            done == [q EXCEPT !.state = "message_done"]
            last == [Again(done) EXCEPT !.pos = pos + n - 1]
            from == IF call.marks["body"] = 0 THEN pos ELSE call.marks["body"]
            data == SubSeq(stream.wire, from, pos + n - 1)
            o == Marked(AdvanceTo(q, pos + n), "body")
            m == Joined(log, "body", data)
<1>1. /\ At({"body_identity"}) /\ InTurn /\ Fit(parser) /\ parser.state = "body_identity"
      /\ stream.wire \in Seq(AllChar) /\ stream.interruptions = {} /\ log \in Seq(Entry)
      /\ Meant(stream.wire, parser, pos, call, log) /\ parser.errno = "OK"
  <2>1. At({"body_identity"})
    BY DEF BodyIdentity
  <2>. QED
    BY <2>1, SocketTurn
<1>2. Callback("body", data, last) \/ Do(o)
  BY DEF BodyIdentity
<1>3. /\ parser.type = "request" /\ parser.method \in Methods /\ call.end <= Len(stream.wire)
      /\ Begun(log)
      /\ ~Excused(log) => ~InHeader(log) /\ Flagged(parser, log)
  BY <1>1, OutsideFacts DEF Outside
<1>4. /\ pos \in Nat \ {0} /\ call.end \in Nat /\ n \in Nat /\ pos + n <= call.end + 1
      /\ Len(stream.wire) \in Nat /\ call.marks["body"] \in Nat
  <2>1. n \in Nat /\ pos + n <= call.end + 1
    BY <1>1 DEF ToRead, InTurn, ParserInv, Keeps, Typed, Within, Sound, Fit
  <2>2. pos \in Nat \ {0} /\ call.end \in Nat /\ call.marks \in [DataCallbacks -> Nat]
    BY <1>1 DEF InTurn, ParserInv, Keeps, Typed
  <2>. QED
    BY <1>1, <2>1, <2>2, BodyStatesAreText, LenProperties
<1>5. from \in Nat \ {0} /\ pos + n - 1 \in Int /\ pos + n - 1 <= Len(stream.wire)
  <2>. HIDE DEF n
  <2>. QED
    BY <1>3, <1>4
<1>. HIDE DEF n, from
<1>6. data \in Seq(AllChar \cup Methods)
  BY <1>1, <1>5, BytesAreText
<1>7. q.state = "body_identity" /\ Alike(q) /\ ParserFields \subseteq DOMAIN q
  BY <1>1 DEF Fit, ParserFields, Alike
<1>. HIDE DEF q
<1>8. done.state = "message_done" /\ Alike(done)
  BY <1>7 DEF Fit, ParserFields, Alike
<1>. HIDE DEF done
<1>9. CASE Callback("body", data, last)
  <2>1. last.parser = done /\ last.call = call
    BY DEF Again
  <2>. HIDE DEF last, data
  <2>2. /\ called' = [cb |-> "body", data |-> data] /\ log' = m
        /\ parser' = last.parser /\ pos' = last.pos /\ call' = last.call /\ stream' = stream
    BY <1>1, <1>9, CallbackEnds
  <2>3. "body" \in Callbacks \ {"header_field", "header_value"}
    BY DEF Callbacks, DataCallbacks
  <2>4. m \in Seq(Entry) /\ ~InHeader(m) /\ Begun(m) /\ Sent(m) = Sent(log) /\ (Excused(log) => Excused(m))
    BY <1>1, <1>3, <1>6, <2>3, OutsideLog
  <2>. HIDE DEF m
  <2>5. ~Excused(m) => Flagged(done, m)
    BY <1>3, <1>8, <2>4 DEF Flagged, Alike
  <2>6. Meant(stream.wire, last.parser, last.pos, last.call, m)
    BY <1>3, <1>8, <2>1, <2>4, <2>5, OutsideMeant DEF Alike, Outside
  <2>. QED
    BY <1>1, <1>3, <1>6, <2>2, <2>6, OutsideStep DEF AtSocket, m
<1>10. CASE Do(o)
  <2>1. o.parser = q /\ o.call.end = call.end
    BY <1>1, BodyMarked
  <2>. HIDE DEF o
  <2>2. ~Excused(log) => Flagged(q, log)
    BY <1>3, <1>7 DEF Flagged, Alike
  <2>3. Meant(stream.wire, o.parser, o.pos, o.call, log)
    BY <1>3, <1>7, <2>1, <2>2, OutsideMeant DEF Alike, Outside
  <2>. QED
    BY <1>1, <1>10, <2>3, DoMeant
<1>. QED
  BY <1>2, <1>9, <1>10

\* A turn within a chunk that calls nothing.
LEMMA ChunkDo ==
  ASSUME AtSocket, NEW states, At(states), parser.state \in ChunkStates,
         NEW o, Alike(o.parser), o.parser.state \in ChunkStates, o.call.end = call.end, Do(o), Collect
  PROVE  SocketInv'
<1>1. Meant(stream.wire, parser, pos, call, log) /\ parser.errno = "OK"
  BY SocketTurn
<1>2. Meant(stream.wire, o.parser, o.pos, o.call, log)
  BY <1>1, ChunkFacts, ChunkMeant DEF Alike
<1>. QED
  BY <1>1, <1>2, DoMeant

LEMMA ChunkAdvance ==
  ASSUME AtSocket, NEW states, At(states), parser.state \in ChunkStates,
         NEW q, Alike(q), q.state \in ChunkStates, Do(Advance(q)), Collect
  PROVE  SocketInv'
<1>. DEFINE o == Advance(q)
<1>1. o.parser = q /\ o.call.end = call.end /\ Do(o)
  BY AdvanceCall DEF AtSocket
<1>. HIDE DEF o
<1>. QED
  BY <1>1, ChunkDo

\* A callback for a chunk, which the socket has not set.
LEMMA ChunkCalls ==
  ASSUME AtSocket, NEW states, At(states), parser.state \in ChunkStates,
         NEW cb \in {"chunk_header", "chunk_complete"}, NEW o, Callback(cb, <<>>, o),
         o.parser.type = parser.type, o.parser.method = parser.method,
         o.parser.state \in ChunkStates \cup {"header_field_start"}, o.call.end = call.end, Collect
  PROVE  SocketInv'
<1>. DEFINE m == Joined(log, cb, <<>>)
<1>1. /\ Meant(stream.wire, parser, pos, call, log) /\ parser.errno = "OK" /\ log \in Seq(Entry)
      /\ stream.interruptions = {}
  BY SocketTurn
<1>2. /\ parser.type = "request" /\ parser.method \in Methods /\ call.end <= Len(stream.wire)
      /\ Begun(log) /\ Excused(log)
  BY <1>1, ChunkFacts
<1>3. /\ called' = [cb |-> cb, data |-> <<>>] /\ log' = m
      /\ parser' = o.parser /\ pos' = o.pos /\ call' = o.call /\ stream' = stream
  BY <1>1, CallbackEnds
<1>4. <<>> \in Seq(AllChar \cup Methods) /\ cb \in Callbacks \ {"header_field", "header_value"}
  BY EmptySeq DEF Callbacks, DataCallbacks
<1>5. Begun(m) /\ Excused(m)
  BY <1>1, <1>2, <1>4, OutsideLog
<1>. HIDE DEF m
<1>6. Meant(stream.wire, o.parser, o.pos, o.call, m)
  BY <1>2, <1>5, ChunkMeant, BetweenMeant DEF Between
<1>. QED
  BY <1>1, <1>2, <1>3, <1>6, ChunkStep DEF AtSocket, m

LEMMA ChunkSizeMeant == ASSUME AtSocket, ChunkSize, Collect PROVE SocketInv'
<1>. DEFINE length == IF parser.state = "chunk_size_start" THEN HexValue[ch]
                      ELSE DigitRead(parser.content_length, 16, HexValue[ch])
            q == [In("chunk_size") EXCEPT !.content_length = length]
<1>1. At({"chunk_size_start", "chunk_size"})
  BY DEF ChunkSize
<1>2. Fit(parser) /\ parser.state \in ChunkStates
  BY <1>1, SocketTurn DEF ChunkStates
<1>3. \/ Do(Advance(In("chunk_size_almost_done"))) \/ Do(Advance(In("chunk_parameters")))
      \/ Do(Error("INVALID_CHUNK_SIZE")) \/ Do(Error("INVALID_CONTENT_LENGTH")) \/ Do(Advance(q))
  BY DEF ChunkSize
<1>. HIDE DEF length
<1>4. \A s : Fit(In(s)) /\ In(s).state = s /\ Alike(In(s))
  BY <1>2, InFit, InAlike
<1>5. q.state = "chunk_size" /\ Alike(q)
  BY <1>4 DEF Fit, ParserFields, Alike
<1>. HIDE DEF q
<1>. QED
  BY <1>1, <1>2, <1>3, <1>4, <1>5, ChunkAdvance, ErrorMeant DEF ChunkStates

LEMMA ChunkParametersMeant == ASSUME AtSocket, ChunkParameters, Collect PROVE SocketInv'
<1>1. At({"chunk_parameters"})
  BY DEF ChunkParameters
<1>2. Fit(parser) /\ parser.state \in ChunkStates
  BY <1>1, SocketTurn DEF ChunkStates
<1>3. Do(Advance(In("chunk_size_almost_done"))) \/ Do(Advance(parser))
  BY DEF ChunkParameters
<1>4. In("chunk_size_almost_done").state = "chunk_size_almost_done" /\ Alike(In("chunk_size_almost_done"))
  BY <1>2, InFit, InAlike
<1>5. Alike(parser) /\ "chunk_size_almost_done" \in ChunkStates
  BY DEF Alike, ChunkStates
<1>. QED
  BY <1>1, <1>2, <1>3, <1>4, <1>5, ChunkAdvance

LEMMA ChunkSizeAlmostDoneMeant == ASSUME AtSocket, ChunkSizeAlmostDone, Collect PROVE SocketInv'
<1>. DEFINE final == [In("header_field_start") EXCEPT !.flags = @ \cup {"TRAILING"}]
            more == In("chunk_data")
<1>1. At({"chunk_size_almost_done"})
  BY DEF ChunkSizeAlmostDone
<1>2. InTurn /\ Fit(parser) /\ parser.state \in ChunkStates
  BY <1>1, SocketTurn DEF ChunkStates
<1>3. \/ Do(Error("STRICT"))
      \/ Callback("chunk_header", <<>>, Uncounted(Advance(final)))
      \/ Callback("chunk_header", <<>>, Uncounted(Advance(more)))
  BY DEF ChunkSizeAlmostDone
<1>4. \A s : Fit(In(s)) /\ In(s).state = s /\ Alike(In(s))
  BY <1>2, InFit, InAlike
<1>5. Fit(final) /\ final.state = "header_field_start" /\ final.type = parser.type /\ final.method = parser.method
  BY <1>4 DEF Fit, ParserFields, Alike
<1>6. Fit(more) /\ more.state = "chunk_data" /\ more.type = parser.type /\ more.method = parser.method
  BY <1>4 DEF Alike
<1>. HIDE DEF final, more
<1>7. ASSUME NEW q \in {final, more}, Callback("chunk_header", <<>>, Uncounted(Advance(q))) PROVE SocketInv'
  <2>. DEFINE o == Uncounted(Advance(q))
  <2>1. /\ o.parser.type = parser.type /\ o.parser.method = parser.method
        /\ o.parser.state \in {"chunk_data", "header_field_start"} /\ o.call.end = call.end
    BY <1>2, <1>5, <1>6, UncountedCall
  <2>2. Callback("chunk_header", <<>>, o)
    BY <1>7
  <2>. HIDE DEF o
  <2>3. o.parser.state \in ChunkStates \cup {"header_field_start"}
    BY <2>1 DEF ChunkStates
  <2>. QED
    BY <1>1, <1>2, <2>1, <2>2, <2>3, ChunkCalls
<1>. QED
  BY <1>2, <1>3, <1>7, ErrorMeant

LEMMA ChunkDataMeant == ASSUME AtSocket, ChunkData, Collect PROVE SocketInv'
<1>. DEFINE n == ToRead
            s == IF parser.content_length = n THEN "chunk_data_almost_done" ELSE parser.state
            q == [parser EXCEPT !.content_length = @ - n, !.state = s]
            o == Marked(AdvanceTo(q, pos + n), "body")
<1>1. At({"chunk_data"})
  BY DEF ChunkData
<1>2. InTurn /\ Fit(parser) /\ parser.state = "chunk_data" /\ parser.state \in ChunkStates
  BY <1>1, SocketTurn DEF ChunkStates
<1>3. Do(o)
  BY DEF ChunkData
<1>. HIDE DEF n
<1>4. s \in ChunkStates
  BY <1>2 DEF ChunkStates
<1>. HIDE DEF s
<1>5. q.state = s /\ Alike(q)
  BY <1>2 DEF Fit, ParserFields, Alike
<1>. HIDE DEF q
<1>6. o.parser = q /\ o.call.end = call.end
  BY <1>2, BodyMarked
<1>. HIDE DEF o
<1>. QED
  BY <1>1, <1>2, <1>3, <1>4, <1>5, <1>6, ChunkDo

LEMMA ChunkDataAlmostDoneMeant == ASSUME AtSocket, ChunkDataAlmostDone, Collect PROVE SocketInv'
<1>. DEFINE q == In("chunk_data_done")
            o == Advance(q)
            data == SubSeq(stream.wire, call.marks["body"], pos - 1)
            m == Joined(log, "body", data)
            c == [o.call EXCEPT !.marks["body"] = 0]
<1>1. At({"chunk_data_almost_done"})
  BY DEF ChunkDataAlmostDone
<1>2. /\ InTurn /\ Fit(parser) /\ parser.state \in ChunkStates /\ stream.wire \in Seq(AllChar)
      /\ stream.interruptions = {} /\ log \in Seq(Entry) /\ Meant(stream.wire, parser, pos, call, log)
      /\ parser.errno = "OK"
  BY <1>1, SocketTurn DEF ChunkStates
<1>3. Do(Error("STRICT")) \/ Flush("body", pos - 1, o)
  BY DEF ChunkDataAlmostDone
<1>4. q.state = "chunk_data_done" /\ q.state \in ChunkStates /\ Alike(q)
  BY <1>2, InFit, InAlike DEF ChunkStates
<1>. HIDE DEF q
<1>5. o.parser = q /\ o.call.end = call.end /\ IsOutcome(o) /\ DOMAIN o.call = {"end", "nread", "fetched", "marks"}
  BY <1>2, AdvanceCall DEF AtSocket, IsOutcome, Advance, AdvanceTo, InTurn, ParserInv, Keeps, Typed
<1>. HIDE DEF o
<1>6. c.end = call.end
  BY <1>5
<1>. HIDE DEF c
<1>7. /\ parser.type = "request" /\ parser.method \in Methods /\ call.end <= Len(stream.wire)
      /\ Begun(log) /\ Excused(log)
  BY <1>2, ChunkFacts
<1>8. CASE Flush("body", pos - 1, o)
  <2>1. \/ Do(o)
        \/ /\ call.marks["body"] # 0 /\ called' = [cb |-> "body", data |-> data] /\ log' = m
           /\ parser' = o.parser /\ pos' = o.pos /\ call' = c /\ stream' = stream
    BY <1>2, <1>5, <1>8, FlushEnds DEF c
  <2>2. CASE Do(o)
    BY <1>1, <1>2, <1>4, <1>5, <2>2, ChunkDo
  <2>3. CASE /\ call.marks["body"] # 0 /\ called' = [cb |-> "body", data |-> data] /\ log' = m
             /\ parser' = o.parser /\ pos' = o.pos /\ call' = c /\ stream' = stream
    <3>1. call.marks["body"] \in Nat \ {0} /\ pos - 1 \in Int /\ pos - 1 <= Len(stream.wire)
      <4>1. Len(stream.wire) \in Nat
        BY <1>2, LenProperties
      <4>2. /\ pos \in Nat /\ call.end \in Nat /\ pos <= call.end
            /\ call.marks \in [DataCallbacks -> Nat] /\ "body" \in DataCallbacks
        BY <1>2 DEF InTurn, ParserInv, Keeps, Typed, Within, DataCallbacks
      <4>. QED
        BY <1>7, <2>3, <4>1, <4>2
    <3>2. data \in Seq(AllChar \cup Methods)
      BY <1>2, <3>1, BytesAreText
    <3>. HIDE DEF data
    <3>3. "body" \in Callbacks \ {"header_field", "header_value"}
      BY DEF Callbacks, DataCallbacks
    <3>4. Begun(m) /\ Excused(m)
      BY <1>2, <1>7, <3>2, <3>3, OutsideLog
    <3>. HIDE DEF m
    <3>5. Meant(stream.wire, o.parser, o.pos, c, m)
      BY <1>4, <1>5, <1>6, <1>7, <3>4, ChunkMeant DEF Alike
    <3>. QED
      BY <1>2, <1>7, <2>3, <3>2, <3>5, OutsideStep DEF AtSocket, m
  <2>. QED
    BY <2>1, <2>2, <2>3
<1>. QED
  BY <1>2, <1>3, <1>8, ErrorMeant

LEMMA ChunkDataDoneMeant == ASSUME AtSocket, ChunkDataDone, Collect PROVE SocketInv'
<1>. DEFINE q == In("chunk_size_start")
            o == Uncounted(Advance(q))
<1>1. At({"chunk_data_done"})
  BY DEF ChunkDataDone
<1>2. InTurn /\ Fit(parser) /\ parser.state \in ChunkStates
  BY <1>1, SocketTurn DEF ChunkStates
<1>3. Do(Error("STRICT")) \/ Callback("chunk_complete", <<>>, o)
  BY DEF ChunkDataDone
<1>4. Fit(q) /\ q.state = "chunk_size_start" /\ Alike(q)
  BY <1>2, InFit, InAlike
<1>. HIDE DEF q
<1>5. /\ o.parser.type = parser.type /\ o.parser.method = parser.method
      /\ o.parser.state = "chunk_size_start" /\ o.call.end = call.end
  BY <1>2, <1>4, UncountedCall DEF Alike
<1>. HIDE DEF o
<1>6. o.parser.state \in ChunkStates
  BY <1>5 DEF ChunkStates
<1>. QED
  BY <1>1, <1>2, <1>3, <1>5, <1>6, ChunkCalls, ErrorMeant

-----------------------------------------------------------------------------
(* A call begins and ends. *)

\* What is meant depends on the buffer and on what is marked in it.
LEMMA SameMeant ==
  ASSUME NEW w, NEW q, NEW n, NEW c, NEW l, Meant(w, q, n, c, l), NEW d, d.end = c.end, d.marks = c.marks
  PROVE  Meant(w, q, n, d, l)
BY DEF Meant, Follows, Regular, Pending

LEMMA NothingPending ==
  ASSUME NEW w \in Seq(AllChar), NEW n \in 1..Len(w) + 1
  PROVE  SubSeq(w, n, n - 1) = <<>>
<1>. DEFINE s == SubSeq(w, n, n - 1)
<1>1. n \in Nat \ {0} /\ n - 1 \in Int /\ n - 1 <= Len(w) /\ ~(n <= n - 1)
  BY LenProperties
<1>2. s \in Seq(AllChar) /\ Len(s) = 0
  BY <1>1, BytesAreText
<1>. HIDE DEF s
<1>. QED
  BY <1>2, EmptySeq DEF s

LEMMA BeginMeant ==
  ASSUME AtSocket, NEW size \in BufferSizes, Begin(size), UNCHANGED headerVars
  PROVE  SocketInv'
<1>. DEFINE w == stream.wire
            length == Len(w)
            end == IF pos + size > length THEN length ELSE pos + size - 1
            marks == [cb \in DataCallbacks |-> IF MarkOf(parser.state) = cb THEN pos ELSE 0]
            c == [end |-> end, nread |-> parser.nread, fetched |-> FALSE, marks |-> marks]
<1>1. /\ call.end = 0 /\ parser.errno = "OK" /\ pos <= length /\ call' = c /\ pos' = pos /\ parser' = parser
      /\ stream' = stream /\ log' = log
  BY DEF Begin, Running
<1>2. w \in Seq(AllChar) /\ length \in Nat
  BY StreamAssumption, LenProperties DEF AtSocket
<1>3. pos \in Nat \ {0} /\ pos \in 1..pos /\ pos \in 1..length + 1
  BY <1>1, <1>2 DEF AtSocket, ParserInv, Keeps, Typed
<1>4. end <= length
  <2>1. size \in Nat
    BY ParserAssumption
  <2>. HIDE DEF length
  <2>. QED
    BY <1>2, <1>3, <2>1
<1>5. Meant(w, parser, pos, call, log)
  BY <1>1 DEF AtSocket, SocketInv
<1>6. c.end = end /\ c.marks = marks
  OBVIOUS
<1>7. /\ parser.state = "header_field" => marks["header_field"] = pos
      /\ parser.state = "header_value" => marks["header_value"] = pos
  <2>1. MarkOf("header_field") = "header_field" /\ MarkOf("header_value") = "header_value"
    BY DEF MarkOf, UrlStates, ServerStates
  <2>2. \A cb \in DataCallbacks : marks[cb] = IF MarkOf(parser.state) = cb THEN pos ELSE 0
    OBVIOUS
  <2>. QED
    BY <2>1, <2>2, NameIsText
<1>8. SubSeq(w, pos, pos - 1) = <<>>
  BY <1>2, <1>3, NothingPending
<1>. HIDE DEF c, end, marks
<1>9. Follows(w, parser, pos, c, log)
  BY <1>1, <1>3, <1>4, <1>5, <1>6, <1>7 DEF Meant, Follows
<1>10. parser.state = "header_field" => Pending(w, pos, c) = <<>> /\ Pending(w, pos, call) = <<>>
  BY <1>1, <1>6, <1>7, <1>8 DEF Pending
<1>11. ~Excused(log) => Regular(w, parser, pos, c, log)
  BY <1>5, <1>10 DEF Meant, Regular
<1>. HIDE DEF w
<1>12. Meant(w, parser, pos, c, log)
  BY <1>9, <1>11 DEF Meant
<1>. QED
  BY <1>1, <1>12 DEF AtSocket, SocketInv, headerVars, Collecting, w

LEMMA FetchMeant == ASSUME AtSocket, Fetch, Collect PROVE SocketInv'
<1>. DEFINE c == [call EXCEPT !.fetched = TRUE]
            d == [c EXCEPT !.nread = @ + 1]
            o == [Again(parser) EXCEPT !.call.fetched = TRUE]
            counted == [o EXCEPT !.call.nread = @ + 1]
            over == Leave([counted EXCEPT !.parser.errno = "HEADER_OVERFLOW"])
            e == [parser EXCEPT !.errno = "HEADER_OVERFLOW"]
<1>1. parser.errno = "OK"
  BY DEF Fetch, AtSocket, ParserInv, Keeps, Within, Running
<1>2. Do(o) \/ Do(counted) \/ Do(over)
  BY DEF Fetch, Counted
<1>3. o.parser = parser /\ o.pos = pos /\ o.call = c /\ IsOutcome(o)
  BY DEF Again, IsOutcome
<1>. HIDE DEF o
<1>4. counted.parser = parser /\ counted.pos = pos /\ counted.call = d /\ IsOutcome(counted)
  BY <1>3 DEF IsOutcome
<1>. HIDE DEF counted
<1>5. over.parser = [e EXCEPT !.nread = d.nread]
  BY <1>4 DEF IsOutcome, Leave
<1>. HIDE DEF over
<1>6. /\ c.end = call.end /\ c.marks = call.marks /\ d.end = call.end /\ d.marks = call.marks
  BY DEF AtSocket, ParserInv, Keeps, Typed
<1>7. over.parser.errno # "OK"
  <2>1. ParserFields \subseteq DOMAIN e /\ e.errno = "HEADER_OVERFLOW"
    BY ErrnoSet DEF AtSocket, ParserInv, Keeps, Typed
  <2>. HIDE DEF e, d
  <2>. QED
    BY <1>5, <2>1, NreadSet
<1>. HIDE DEF c, d
<1>8. Meant(stream.wire, parser, pos, call, log)
  BY <1>1 DEF AtSocket, SocketInv
<1>9. Meant(stream.wire, parser, pos, c, log) /\ Meant(stream.wire, parser, pos, d, log)
  BY <1>6, <1>8, SameMeant
<1>. QED
  BY <1>1, <1>2, <1>3, <1>4, <1>7, <1>9, DoMeant

\* How a call ends whose buffer is used up.
LEMMA FinishEnds ==
  ASSUME AtSocket, Finish
  PROVE  LET q == [parser EXCEPT !.nread = call.nread]
             text == TextOf(parser.state)
             data == SubSeq(stream.wire, call.marks[text], call.end)
         IN  /\ call.end # 0 /\ parser.errno = "OK" /\ pos = call.end + 1
             /\ parser' = q /\ pos' = pos /\ call' = NoCall /\ stream' = stream
             /\ \/ called' = Silence /\ log' = log /\ \A cb \in DataCallbacks : call.marks[cb] = 0
                \/ /\ text \in DataCallbacks /\ call.marks[text] # 0
                   /\ called' = [cb |-> text, data |-> data] /\ log' = Joined(log, text, data)
<1>. DEFINE marked == {cb \in DataCallbacks : call.marks[cb] # 0}
            chosen == CHOOSE cb \in marked : TRUE
            o == AdvanceTo(parser, pos)
            c == [call EXCEPT !.fetched = FALSE]
            q == [parser EXCEPT !.nread = call.nread]
<1>1. call.end # 0 /\ pos > call.end
  BY DEF Finish, Running
<1>2. parser.errno = "OK" /\ pos = call.end + 1
  BY <1>1 DEF AtSocket, ParserInv, Keeps, Within, Typed
<1>3. \/ marked = {} /\ Do(Leave(o))
      \/ marked # {} /\ FlushThen(chosen, call.end, o, Leave)
  BY DEF Finish, Return
<1>4. o.parser = parser /\ o.pos = pos /\ o.call = c /\ IsOutcome(o)
  BY DEF AdvanceTo, IsOutcome
<1>5. DOMAIN c = {"end", "nread", "fetched", "marks"} /\ c.nread = call.nread
  BY DEF AtSocket, ParserInv, Keeps, Typed
<1>. HIDE DEF o, c
<1>6. CASE marked = {} /\ Do(Leave(o))
  <2>1. Leave(o).parser = q /\ Leave(o).pos = pos /\ Leave(o).call = NoCall
    BY <1>4, <1>5 DEF Leave, IsOutcome
  <2>2. \A cb \in DataCallbacks : call.marks[cb] = 0
    BY <1>6
  <2>. HIDE DEF q
  <2>. QED
    BY <1>1, <1>2, <1>6, <2>1, <2>2 DEF Do, Ends, q
<1>7. CASE marked # {} /\ FlushThen(chosen, call.end, o, Leave)
  <2>1. chosen \in marked
    <3>. HIDE DEF marked
    <3>. QED
      BY <1>7
  <2>2. chosen \in DataCallbacks /\ call.marks[chosen] # 0 /\ chosen = TextOf(parser.state)
    BY <2>1 DEF AtSocket, ParserInv, Keeps, Marking
  <2>. HIDE DEF chosen, marked
  <2>. DEFINE data == SubSeq(stream.wire, call.marks[chosen], call.end)
              cleared == [o EXCEPT !.call.marks[chosen] = 0]
              d == [c EXCEPT !.marks[chosen] = 0]
  <2>3. stream.interruptions = {}
    BY SocketAssumption DEF AtSocket
  <2>4. called' = [cb |-> chosen, data |-> data] /\ log' = Joined(log, chosen, data) /\ Ends(Leave(cleared))
    BY <1>7, <2>2, <2>3 DEF FlushThen, CallbackThen
  <2>5. cleared.parser = parser /\ cleared.pos = pos /\ cleared.call = d /\ IsOutcome(cleared)
    BY <1>4 DEF IsOutcome
  <2>6. d.nread = call.nread
    BY <1>5
  <2>. HIDE DEF cleared, d
  <2>7. Leave(cleared).parser = q /\ Leave(cleared).pos = pos /\ Leave(cleared).call = NoCall
    BY <2>5, <2>6 DEF Leave, IsOutcome
  <2>. HIDE DEF data, q
  <2>. QED
    BY <1>1, <1>2, <2>2, <2>4, <2>7 DEF Ends, data, q
<1>. QED
  BY <1>3, <1>6, <1>7

LEMMA TextStates ==
  ASSUME NEW s, TextOf(s) \in DataCallbacks
  PROVE  /\ TextOf(s) \in {"header_field", "header_value", "url", "body", "status"}
         /\ TextOf(s) = "header_field" => s = "header_field"
         /\ TextOf(s) = "header_value" => s = "header_value"
         /\ TextOf(s) = "url" => s \in UrlStates
         /\ TextOf(s) = "status" => s = "res_status"
         /\ TextOf(s) = "body" =>
              s \in {"body_identity", "body_identity_eof", "chunk_data", "chunk_data_almost_done"}
BY DEF TextOf, MarkOf, DataCallbacks

\* What is meant after a call that handed nothing over.
LEMMA QuietFinish ==
  ASSUME Meant(stream.wire, parser, pos, call, log), call.end # 0, \A cb \in DataCallbacks : call.marks[cb] = 0,
         Len(stream.wire) \in Nat,
         NEW q, Alike(q), q.state = parser.state, q.header_state = parser.header_state, q.phase = parser.phase,
         q.matched = parser.matched
  PROVE  Meant(stream.wire, q, pos, NoCall, log)
<1>1. NoCall.end = 0 /\ NoCall.end <= Len(stream.wire)
  BY NoCallFacts
<1>2. q.state # "header_field" /\ q.state # "header_value"
  BY NameIsText DEF Meant, Follows
<1>3. Follows(stream.wire, q, pos, NoCall, log)
  BY <1>1, <1>2 DEF Meant, Follows, Alike
<1>4. ~Excused(log) => Regular(stream.wire, q, pos, NoCall, log)
  BY <1>2 DEF Meant, Regular, Alike, Flagged, Named
<1>. QED
  BY <1>3, <1>4 DEF Meant

LEMMA FinishMeant == ASSUME AtSocket, Finish, Collect PROVE SocketInv'
<1>. DEFINE q == [parser EXCEPT !.nread = call.nread]
            w == stream.wire
            text == TextOf(parser.state)
            data == SubSeq(w, call.marks[text], call.end)
            m == Joined(log, text, data)
<1>1. /\ call.end # 0 /\ parser.errno = "OK" /\ pos = call.end + 1
      /\ parser' = q /\ pos' = pos /\ call' = NoCall /\ stream' = stream
      /\ \/ called' = Silence /\ log' = log /\ \A cb \in DataCallbacks : call.marks[cb] = 0
         \/ /\ text \in DataCallbacks /\ call.marks[text] # 0
            /\ called' = [cb |-> text, data |-> data] /\ log' = m
  BY FinishEnds
<1>2. /\ w \in Seq(AllChar) /\ Len(w) \in Nat /\ log \in Seq(Entry)
      /\ Meant(w, parser, pos, call, log)
  BY <1>1, StreamAssumption, LenProperties DEF AtSocket, SocketInv
<1>3. /\ Alike(q) /\ q.state = parser.state /\ q.header_state = parser.header_state /\ q.phase = parser.phase
      /\ q.matched = parser.matched /\ q.errno = "OK"
  BY <1>1 DEF AtSocket, ParserInv, Keeps, Typed, ParserFields, Alike
<1>4. /\ parser.type = "request" /\ parser.method \in Methods /\ call.end <= Len(w)
      /\ parser.state \in Outside \cup Between \cup InHeaders \cup ChunkStates
      /\ parser.state \notin {"dead", "start_req"} => Begun(log)
  BY <1>2 DEF Meant, Follows
<1>5. NoCall.end = 0 /\ NoCall.end <= Len(w)
  BY <1>2, NoCallFacts
<1>6. pos \in Nat \ {0} /\ call.end \in Nat /\ call.marks \in [DataCallbacks -> Nat]
  BY DEF AtSocket, ParserInv, Keeps, Typed
<1>. HIDE DEF q, w
<1>7. CASE called' = Silence /\ log' = log /\ \A cb \in DataCallbacks : call.marks[cb] = 0
  <2>1. Meant(w, q, pos, NoCall, log)
    BY <1>1, <1>2, <1>3, <1>7, QuietFinish DEF w
  <2>. QED
    BY <1>1, <1>7, <2>1, QuietStep DEF AtSocket, w
<1>8. CASE /\ text \in DataCallbacks /\ call.marks[text] # 0
           /\ called' = [cb |-> text, data |-> data] /\ log' = m
  <2>1. /\ text \in {"header_field", "header_value", "url", "body", "status"}
        /\ text = "header_field" => parser.state = "header_field"
        /\ text = "header_value" => parser.state = "header_value"
        /\ text = "url" => parser.state \in UrlStates
        /\ text = "status" => parser.state = "res_status"
        /\ text = "body" =>
             parser.state \in {"body_identity", "body_identity_eof", "chunk_data", "chunk_data_almost_done"}
    BY <1>8, TextStates
  <2>2. call.marks[text] \in Nat \ {0} /\ call.end \in Int
    BY <1>6, <1>8
  <2>3. /\ data \in Seq(AllChar \cup Methods) /\ data \in Seq(LogText)
        /\ Len(data) = IF call.marks[text] <= call.end THEN call.end - call.marks[text] + 1 ELSE 0
    BY <1>2, <1>4, <2>2, BytesAreText DEF LogText
  <2>4. text # "status" /\ parser.state # "body_identity_eof"
    BY <1>4, <2>1, ResponseStates
  <2>5. pos - 1 = call.end
    BY <1>1, <1>6
  <2>. HIDE DEF data
  <2>6. CASE text = "header_field"
    <3>1. parser.state = "header_field"
      BY <2>1, <2>6
    <3>2. /\ Begun(log)
          /\ ~Excused(log) =>
               /\ Flagged(parser, log) /\ Named(parser, Gathered(log) \o Pending(w, pos, call))
               /\ parser.header_state = "transfer_encoding" => parser.uses_transfer_encoding
      BY <1>2, <3>1, FieldFacts DEF w
    <3>3. Pending(w, pos, call) = data
      BY <1>1, <2>5, <2>6 DEF Pending, data
    <3>4. /\ m \in Seq(Entry) /\ Begun(m) /\ Sent(m) = Sent(log) /\ Gathered(m) = Gathered(log) \o data
          /\ Excused(log) => Excused(m)
      BY <1>2, <2>3, <2>6, <3>2, NameLog
    <3>5. Gathered(m) \o Pending(w, pos, NoCall) = Gathered(m)
      BY <1>5, <3>4, GatheredType, ConcatEmptySeq DEF Pending
    <3>. HIDE DEF m
    <3>6. ~Excused(m) =>
            /\ Flagged(q, m) /\ Named(q, Gathered(m) \o Pending(w, pos, NoCall))
            /\ q.header_state = "transfer_encoding" => q.uses_transfer_encoding
      BY <1>3, <3>2, <3>3, <3>4, <3>5 DEF Flagged, Named, Alike
    <3>7. Meant(w, q, pos, NoCall, m)
      BY <1>3, <1>4, <1>5, <3>1, <3>4, <3>6, FieldMeant DEF Alike
    <3>. QED
      BY <1>1, <1>8, <2>3, <2>6, <3>2, <3>7, NameStep DEF AtSocket, m, w
  <2>7. CASE text = "header_value"
    <3>1. parser.state = "header_value"
      BY <2>1, <2>7
    <3>2. /\ Begun(log)
          /\ HasValue(log) \/ (LastIs(log, "header_field") /\ call.marks["header_value"] < pos)
          /\ ~Excused(log) =>
               /\ Flagged(parser, log)
               /\ parser.header_state = "transfer_encoding" => parser.uses_transfer_encoding
               /\ LastIs(log, "header_field") => Gathered(log) # <<>>
      BY <1>2, <3>1, ValueFacts DEF w
    <3>3. (LastIs(log, "header_field") /\ data # <<>>) \/ HasValue(log)
      <4>1. CASE call.marks["header_value"] < pos
        <5>1. Len(data) # 0
          BY <1>1, <1>6, <2>2, <2>3, <2>7, <4>1
        <5>2. data # <<>>
          BY <2>3, <5>1, EmptySeq
        <5>. QED
          BY <3>2, <5>2
      <4>. QED
        BY <3>2, <4>1
    <3>4. /\ m \in Seq(Entry) /\ HasValue(m) /\ Begun(m) /\ (Excused(log) => Excused(m))
          /\ ~Excused(m) => (LengthName \in DOMAIN Sent(m) => "CONTENTLENGTH" \in parser.flags)
      BY <1>1, <2>3, <2>7, <3>1, <3>3, ValueSent
    <3>. HIDE DEF m
    <3>5. ~Excused(m) =>
            /\ Flagged(q, m)
            /\ q.header_state = "transfer_encoding" => q.uses_transfer_encoding
      BY <1>3, <3>2, <3>4 DEF Flagged, Alike
    <3>6. ~LastIs(m, "header_field")
      BY <3>4 DEF HasValue, LastIs
    <3>7. Meant(w, q, pos, NoCall, m)
      BY <1>3, <1>4, <1>5, <3>1, <3>4, <3>5, <3>6, ValueMeant DEF Alike
    <3>. QED
      BY <1>1, <1>8, <2>3, <2>7, <3>2, <3>3, <3>7, ValueStep DEF AtSocket, m, w
  <2>8. CASE text \in {"url", "body"}
    <3>1. parser.state \in Outside \cup ChunkStates /\ parser.state \notin {"dead", "start_req"}
      BY <2>1, <2>4, <2>8, UrlIsLine, LineIsOutside DEF Outside, ChunkStates
    <3>2. text \in Callbacks \ {"header_field", "header_value"} /\ Begun(log) /\ text # "message_begin"
      BY <1>4, <2>8, <3>1 DEF Callbacks, DataCallbacks
    <3>3. m \in Seq(Entry) /\ ~InHeader(m) /\ Begun(m) /\ Sent(m) = Sent(log) /\ (Excused(log) => Excused(m))
      BY <1>2, <2>3, <3>2, OutsideLog
    <3>. HIDE DEF m
    <3>4. /\ ~Excused(log) => ~InHeader(log)
          /\ Meant(w, q, pos, NoCall, m)
      <4>1. CASE parser.state \in Outside
        <5>1. ~Excused(log) => ~InHeader(log) /\ Flagged(parser, log)
          BY <1>2, <4>1, OutsideFacts DEF w
        <5>2. ~Excused(m) => Flagged(q, m)
          BY <1>3, <3>3, <5>1 DEF Flagged, Alike
        <5>3. parser.state # "headers_done"
          BY <2>1, <2>8, UrlIsLine, LineIsOutside
        <5>. QED
          BY <1>3, <1>4, <1>5, <3>1, <3>3, <4>1, <5>1, <5>2, <5>3, OutsideMeant DEF Alike
      <4>2. CASE parser.state \in ChunkStates
        <5>1. Excused(log)
          BY <1>2, <4>2, ChunkFacts DEF w
        <5>. QED
          BY <1>3, <1>4, <1>5, <3>3, <4>2, <5>1, ChunkMeant DEF Alike
      <4>. QED
        BY <3>1, <4>1, <4>2
    <3>5. text \in {"message_begin", "url", "body", "message_complete"}
      BY <2>8
    <3>. HIDE DEF text
    <3>. QED
      BY <1>1, <1>8, <2>3, <3>4, <3>5, OutsideStep DEF AtSocket, m, w
  <2>. QED
    BY <2>1, <2>4, <2>6, <2>7, <2>8
<1>. QED
  BY <1>1, <1>7, <1>8

-----------------------------------------------------------------------------
(* The theorems of a socket that reads requests. *)

LEMMA NothingSent ==
  /\ <<>> \in Seq(Entry) /\ ~Excused(<<>>) /\ ~InHeader(<<>>) /\ Sent(<<>>) = NoHeaders
<1>1. <<>> \in Seq(Entry) /\ Len(<<>>) = 0 /\ DOMAIN <<>> = 1..Len(<<>>)
  BY EmptySeq, LenProperties
<1>2. 1..0 = {} /\ 1..0 - 1 = {}
  OBVIOUS
<1>3. ~Excused(<<>>) /\ ~InHeader(<<>>)
  BY <1>1, <1>2 DEF Excused, PreflightSent, EmptyValueSent, InHeader, LastIs
<1>4. NamesAt(<<>>) = {}
  BY <1>1, <1>2 DEF NamesAt
<1>5. DOMAIN NoHeaders = {} /\ NoHeaders = [n \in DOMAIN NoHeaders |-> NoHeaders[n]]
  BY DEF NoHeaders
<1>6. AreSent(NoHeaders, <<>>)
  BY <1>1, <1>2, <1>4, <1>5 DEF AreSent
<1>7. AreSent(Sent(<<>>), <<>>)
  BY <1>1, SentIs
<1>. QED
  BY <1>1, <1>3, <1>6, <1>7, SentUnique

LEMMA SocketInitial == ASSUME Init, stream.reader = "socket" PROVE SocketInv
<1>1. /\ stream \in Streams /\ parser = HttpParserInit("request") /\ call = NoCall /\ log = <<>> /\ ~undefined
      /\ m_requestHeaders = NoHeaders /\ m_currentHeaderField = <<>> /\ m_currentHeaderValue = <<>>
  BY SocketAssumption DEF Init, ParserInit
<1>2. /\ parser.type = "request" /\ parser.method = "DELETE" /\ parser.state = "start_req" /\ parser.flags = {}
  BY <1>1 DEF HttpParserInit, StartState
<1>3. parser.method \in Methods /\ parser.state \in Outside
  <2>1. "D" \in DOMAIN MethodOf /\ MethodOf["D"] = "DELETE"
    BY DEF MethodOf
  <2>. QED
    BY <1>2, <2>1 DEF Methods, Outside, LineStates
<1>4. NoCall.end <= Len(stream.wire)
  <2>1. Len(stream.wire) \in Nat
    BY <1>1, StreamAssumption, LenProperties
  <2>. QED
    BY <2>1, NoCallFacts
<1>5. Flagged(parser, <<>>)
  BY <1>2, NothingSent DEF Flagged, NoHeaders
<1>6. Meant(stream.wire, parser, pos, NoCall, <<>>)
  BY <1>2, <1>3, <1>4, <1>5, NothingSent, OutsideMeant
<1>7. Collecting
  BY <1>1, NothingSent DEF Collecting, Collected, InHeader
<1>8. /\ log \in Seq(Entry) /\ undefined \in BOOLEAN /\ ~PreflightSent(log)
      /\ ~undefined /\ Meant(stream.wire, parser, pos, call, log)
  BY <1>1, <1>6, NothingSent DEF Init, Excused
<1>. QED
  BY <1>7, <1>8 DEF SocketInv

LEMMA ExecuteMeant ==
  ASSUME AtSocket, Execute({HeadersAnswer}), Collect
  PROVE  SocketInv'
<1>. DEFINE Response == StartReqOrRes \/ ResOrRespH \/ StartRes \/ StatusCode \/ StatusStart \/ Status \/ BodyIdentityEof
            FirstLine ==
              \/ Dead \/ StrictLetter \/ Version \/ StartReq \/ ReqMethod \/ SpacesBeforeUrl \/ Url
              \/ ReqHttpStart \/ ReqHttpEnd \/ ReqLineAlmostDone
            Headers ==
              \/ HeaderFieldStart \/ HeaderField \/ HeaderValueDiscardWs \/ HeaderValueStart
              \/ HeaderValue \/ HeaderAlmostDone \/ HeaderValueLws \/ HeaderValueDiscardLws
              \/ HeadersAlmostDone({HeadersAnswer}) \/ HeadersDone
            Bodies ==
              \/ BodyIdentity \/ MessageDone \/ ChunkSize \/ ChunkParameters \/ ChunkSizeAlmostDone
              \/ ChunkData \/ ChunkDataAlmostDone \/ ChunkDataDone
<1>1. Fetch \/ Finish => SocketInv'
  BY FetchMeant, FinishMeant
<1>2. ~Response
  BY ResponseMeant
<1>3. FirstLine => SocketInv'
  BY DeadMeant, StrictLetterMeant, VersionMeant, StartReqMeant, ReqMethodMeant, SpacesBeforeUrlMeant, UrlMeant,
     ReqHttpStartMeant, ReqHttpEndMeant, ReqLineAlmostDoneMeant
<1>4. Headers => SocketInv'
  BY HeaderFieldStartMeant, HeaderFieldMeant, HeaderValueDiscardWsMeant, HeaderValueStartMeant, HeaderValueMeant,
     HeaderAlmostDoneMeant, HeaderValueLwsMeant, HeaderValueDiscardLwsMeant, HeadersAlmostDoneMeant,
     HeadersDoneMeant
<1>5. Bodies => SocketInv'
  BY BodyIdentityMeant, MessageDoneMeant, ChunkSizeMeant, ChunkParametersMeant, ChunkSizeAlmostDoneMeant,
     ChunkDataMeant, ChunkDataAlmostDoneMeant, ChunkDataDoneMeant
<1>6. Fetch \/ Finish \/ Response \/ FirstLine \/ Headers \/ Bodies
  BY DEF Execute
<1>. HIDE DEF Response, FirstLine, Headers, Bodies
<1>. QED
  BY <1>1, <1>2, <1>3, <1>4, <1>5, <1>6

\* The headers are completed by one step only.
LEMMA OneCompletesHeaders ==
  ASSUME AtSocket, Execute({HeadersAnswer}), called'.cb = "headers_complete"
  PROVE  HeadersAlmostDone({HeadersAnswer})
<1>. DEFINE completes == called'.cb = "headers_complete"
            FirstLine ==
              \/ Dead \/ StartReqOrRes \/ ResOrRespH \/ StartRes \/ StrictLetter \/ Version
              \/ StatusCode \/ StatusStart \/ Status
              \/ StartReq \/ ReqMethod \/ SpacesBeforeUrl \/ Url \/ ReqHttpStart \/ ReqHttpEnd
              \/ ReqLineAlmostDone
            Headers ==
              \/ HeaderFieldStart \/ HeaderField \/ HeaderValueDiscardWs \/ HeaderValueStart
              \/ HeaderValue \/ HeaderAlmostDone \/ HeaderValueLws \/ HeaderValueDiscardLws
              \/ HeadersDone
            Bodies ==
              \/ BodyIdentity \/ BodyIdentityEof \/ MessageDone
              \/ ChunkSize \/ ChunkParameters \/ ChunkSizeAlmostDone
              \/ ChunkData \/ ChunkDataAlmostDone \/ ChunkDataDone
<1>1. ASSUME NEW o, Do(o) PROVE ~completes
  BY <1>1 DEF Do, Silence
<1>2. ASSUME NEW cb, cb # "headers_complete", NEW data, NEW o, Callback(cb, data, o) PROVE ~completes
  BY <1>2 DEF Callback, CallbackThen
<1>3. ASSUME NEW cb, cb # "headers_complete", NEW last, NEW o, Flush(cb, last, o) PROVE ~completes
  BY <1>1, <1>3 DEF Flush, FlushThen, CallbackThen, Stay
<1>4. ASSUME NEW o, NEW leaves, Complete(o, leaves) PROVE ~completes
  BY <1>4 DEF Complete, Callback, CallbackThen
<1>. HIDE DEF completes
<1>5. Fetch => ~completes
  BY <1>1 DEF Fetch
<1>6. Finish => ~completes
  <2>1. Finish => called'.cb \in {"none"} \cup DataCallbacks
    BY FinishEnds DEF Silence
  <2>. QED
    BY <2>1 DEF DataCallbacks, completes
<1>7. FirstLine => ~completes
  <2>1. Dead \/ StrictLetter => ~completes
    BY <1>1 DEF Dead, StrictLetter
  <2>6. Version \/ StatusCode \/ StatusStart => ~completes
    <3>1. Version => called' = Silence
      BY DEF Version, Do
    <3>2. StatusCode => called' = Silence
      BY DEF StatusCode, Do
    <3>3. StatusStart => called' = Silence
      BY DEF StatusStart, Do
    <3>. QED
      BY <3>1, <3>2, <3>3 DEF completes, Silence
  <2>4. ReqMethod \/ SpacesBeforeUrl => ~completes
    BY <1>1 DEF ReqMethod, SpacesBeforeUrl
  <2>5. ReqHttpStart \/ ReqHttpEnd \/ ReqLineAlmostDone => ~completes
    BY <1>1 DEF ReqHttpStart, ReqHttpEnd, ReqLineAlmostDone
  <2>2. StartReqOrRes \/ ResOrRespH \/ StartRes \/ StartReq => ~completes
    BY <1>1, <1>2 DEF StartReqOrRes, ResOrRespH, StartRes, StartReq
  <2>3. Status \/ Url => ~completes
    BY <1>1, <1>3 DEF Status, Url
  <2>. QED
    BY <2>1, <2>2, <2>3, <2>4, <2>5, <2>6
<1>8. Headers => ~completes
  <2>1. HeaderFieldStart \/ HeaderValueDiscardWs \/ HeaderValueStart => ~completes
    BY <1>1 DEF HeaderFieldStart, HeaderValueDiscardWs, HeaderValueStart
  <2>2. HeaderField => ~completes
    BY <1>1, <1>3 DEF HeaderField
  <2>3. HeaderValue => ~completes
    BY <1>1, <1>3 DEF HeaderValue, FlushThen, CallbackThen, completes
  <2>4. HeaderAlmostDone \/ HeaderValueLws \/ HeaderValueDiscardLws => ~completes
    BY <1>1, <1>2 DEF HeaderAlmostDone, HeaderValueLws, HeaderValueDiscardLws
  <2>5. HeadersDone => ~completes
    BY <1>1, <1>4 DEF HeadersDone
  <2>. QED
    BY <2>1, <2>2, <2>3, <2>4, <2>5
<1>9. Bodies => ~completes
  <2>1. BodyIdentity \/ ChunkSizeAlmostDone \/ ChunkDataDone => ~completes
    BY <1>1, <1>2 DEF BodyIdentity, ChunkSizeAlmostDone, ChunkDataDone
  <2>2. BodyIdentityEof \/ ChunkSize \/ ChunkParameters \/ ChunkData => ~completes
    BY <1>1 DEF BodyIdentityEof, ChunkSize, ChunkParameters, ChunkData
  <2>3. ChunkDataAlmostDone => ~completes
    BY <1>1, <1>3 DEF ChunkDataAlmostDone
  <2>4. MessageDone => ~completes
    BY <1>4 DEF MessageDone
  <2>. QED
    BY <2>1, <2>2, <2>3, <2>4
<1>10. Fetch \/ Finish \/ FirstLine \/ Headers \/ Bodies \/ HeadersAlmostDone({HeadersAnswer})
  BY DEF Execute
<1>11. completes
  BY DEF completes
<1>. HIDE DEF FirstLine, Headers, Bodies
<1>. QED
  BY <1>5, <1>6, <1>7, <1>8, <1>9, <1>10, <1>11

\* What holds of a stream, whoever reads it.
ReaderInv ==
  /\ HeadersInv
  /\ stream.reader = "socket" => SocketInv
  /\ stream.reader = "application" => ~undefined

LEMMA ReaderKeeps ==
  ASSUME ReaderInv, [Next]_vars
  PROVE  ReaderInv'
<1>1. HeadersInv'
  BY NextKeeps DEF ReaderInv
<1>2. CASE UNCHANGED vars
  <2>1. SocketInv => SocketInv'
    BY <1>2 DEF vars, parserVars, headerVars, SocketInv, Collecting
  <2>. QED
    BY <1>1, <1>2, <2>1 DEF vars, parserVars, headerVars, ReaderInv
<1>3. CASE stream.reader = "socket" /\ SocketNext
  <2>1. AtSocket
    BY <1>3 DEF AtSocket, ReaderInv, HeadersInv
  <2>2. ReadIncomingData => SocketInv' /\ stream' = stream
    BY <2>1, BeginMeant DEF ReadIncomingData, Begin
  <2>3. SocketExecutes => SocketInv' /\ stream' = stream
    BY <2>1, ExecuteMeant, ExecuteKeeps DEF SocketExecutes, AtSocket
  <2>. QED
    BY <1>1, <1>3, <2>2, <2>3 DEF SocketNext, ReaderInv
<1>4. CASE stream.reader = "application" /\ ApplicationNext /\ UNCHANGED headerVars
  <2>1. Execute({stream.answer}) => stream' = stream
    BY ExecuteKeeps DEF ReaderInv, HeadersInv
  <2>2. Eof => stream' = stream
    BY DEF Eof, CallbackThen, Do, Ends
  <2>3. stream' = stream
    BY <1>4, <2>1, <2>2 DEF ApplicationNext, Begin, Resume, Do, Ends
  <2>. QED
    BY <1>1, <1>4, <2>3 DEF ReaderInv, headerVars
<1>. QED
  BY <1>2, <1>3, <1>4 DEF Next

LEMMA ReaderInvariance == Spec => []ReaderInv
<1>1. Init => ReaderInv
  BY InitKeeps, SocketInitial DEF Init, ReaderInv, HeadersInv
<1>2. ReaderInv /\ [Next]_vars => ReaderInv'
  BY ReaderKeeps
<1>. QED
  BY <1>1, <1>2, PTL DEF Spec

\* Whatever a client sends, in whatever buffers, a socket calls through a pointer
\* that was never set only after a preflight or a header with an empty value.
THEOREM UnsetCallbacksNeedPreflightHolds == Spec => []UnsetCallbacksNeedPreflight
<1>1. ReaderInv => UnsetCallbacksNeedPreflight
  <2>1. ReaderInv => stream.reader \in {"socket", "application"}
    BY SocketAssumption DEF ReaderInv, HeadersInv
  <2>. QED
    BY <2>1 DEF ReaderInv, SocketInv, UnsetCallbacksNeedPreflight, Excused
<1>. QED
  BY <1>1, ReaderInvariance, PTL

\* Whatever the methods, names and values of its requests, and in whatever
\* pieces they come, a socket decides on a request by just the headers that were
\* sent with it.
THEOREM HeadersDecideRequestsHolds == Spec => HeadersDecideRequests
<1>. DEFINE Decides ==
              CompletesHeaders /\ parser.method # "OPTIONS" /\ ~EmptyValueSent(log') /\ device = "open" =>
                /\ m_requestHeaders' = Sent(log')
                /\ IF Refusal(parser.method, Sent(log')) = 0
                   THEN device' = "open" /\ parser'.errno = "OK"
                   ELSE /\ status' = Refusal(parser.method, Sent(log'))
                        /\ device' = "closed" /\ parser'.errno = "CB_headers_complete"
<1>1. ReaderInv /\ [Next]_vars => [Decides]_vars
  <2>. SUFFICES ASSUME ReaderInv, Next, CompletesHeaders, parser.method # "OPTIONS", ~EmptyValueSent(log'),
                       device = "open"
                PROVE  Decides
    OBVIOUS
  <2>1. AtSocket /\ SocketNext /\ called'.cb = "headers_complete"
    BY DEF CompletesHeaders, AtSocket, ReaderInv, HeadersInv, Next
  <2>2. ~ReadIncomingData
    BY <2>1 DEF ReadIncomingData, Begin, Silence
  <2>3. Execute({HeadersAnswer}) /\ Collect
    BY <2>1, <2>2 DEF SocketNext, SocketExecutes
  <2>4. /\ parser.method \in Methods /\ log \in Seq(Entry)
        /\ log' = Joined(log, "headers_complete", <<parser.method>>)
        /\ ~Excused(log) => WithPair = Sent(log')
        /\ parser'.errno = IF HeadersAnswer = 0 THEN "OK" ELSE "CB_headers_complete"
    BY <2>1, <2>3, OneCompletesHeaders, HeadersAlmostDoneMeant
  <2>5. ~Excused(log)
    <3>1. ~PreflightSent(log)
      BY <2>1 DEF AtSocket, SocketInv
    <3>2. <<parser.method>> \in Seq(AllChar \cup Methods) /\ <<parser.method>> # <<"OPTIONS">>
      BY <2>4
    <3>3. ~PreflightSent(log')
      BY <2>4, <3>1, <3>2, PreflightStays DEF Callbacks
    <3>4. Excused(log) => Excused(log')
      BY <2>4, <3>2, ExcusedStays DEF Callbacks
    <3>. QED
      BY <3>3, <3>4 DEF Excused
  <2>6. OnHeadersComplete
    BY <2>1, <2>3 DEF Collect
  <2>. DEFINE refusal == Refusal(parser.method, Sent(log'))
  <2>7. WithPair = Sent(log') /\ refusal = Refusal(parser.method, WithPair)
    BY <2>4, <2>5
  <2>8. HeadersAnswer = IF refusal = 0 THEN 0 ELSE -1
    BY <2>7 DEF HeadersAnswer
  <2>. HIDE DEF refusal
  <2>9. parser'.errno = IF refusal = 0 THEN "OK" ELSE "CB_headers_complete"
    BY <2>4, <2>8
  <2>10. /\ m_requestHeaders' = Sent(log')
         /\ IF refusal = 0 THEN device' = "open" ELSE status' = refusal /\ device' = "closed"
    BY <2>6, <2>7 DEF OnHeadersComplete, Respond
  <2>. QED
    BY <2>9, <2>10 DEF refusal
<1>. QED
  BY <1>1, ReaderInvariance, PTL DEF Spec, HeadersDecideRequests

-----------------------------------------------------------------------------
(* The fields of a URL.  http_parser_parse_url walks over the text twice, the  *)
(* second time over the host, and every step of a walk leaves the characters   *)
(* behind it cut into fields and delimiters.                                   *)

\* The names of fields.
FieldNames == {"schema", "userinfo", "host", "port", "path", "query", "fragment"}

\* The place of a field in a URL.
Rank(f) == IF f = "schema" THEN 1 ELSE IF f = "userinfo" THEN 2 ELSE IF f = "host" THEN 3
           ELSE IF f = "port" THEN 4 ELSE IF f = "path" THEN 5 ELSE IF f = "query" THEN 6 ELSE 7

\* The last field that may have begun in a state of the first walk.
Top(s) == IF s = "spaces_before_url" THEN 0
          ELSE IF s \in {"schema", "schema_slash", "schema_slash_slash", "server_start"} THEN 1
          ELSE IF s \in {"server", "server_with_at"} THEN 3
          ELSE IF s \in {"path", "query_string_start"} THEN 5
          ELSE IF s \in {"query_string", "fragment_start"} THEN 6 ELSE 7

\* The states that are entered with a character of a field.
InField(s) == s \in {"schema", "server_with_at", "server", "path", "query_string", "fragment"}

\* The states of the first walk, but for "dead".
UrlWalkStates == {"spaces_before_url", "schema", "schema_slash", "schema_slash_slash", "server_start", "server",
                  "server_with_at", "path", "query_string_start", "query_string", "fragment_start", "fragment"}

\* A move from s over c leads to t in the order of the fields.
UrlEdge(s, c, t) ==
  /\ s \in UrlWalkStates /\ t \in UrlWalkStates
  /\ Top(s) \in Int /\ Top(t) \in Int /\ Top(s) <= Top(t)
  /\ ~InField(t) => c \in UrlDelimiters
  /\ InField(t) => Rank(UrlFieldOf[t]) = Top(t) /\ (Top(s) < Top(t) \/ (InField(s) /\ UrlFieldOf[s] = UrlFieldOf[t]))

LEMMA FieldOfIs ==
  /\ DOMAIN UrlFieldOf = {"schema", "server_with_at", "server", "path", "query_string", "fragment"}
  /\ UrlFieldOf["schema"] = "schema" /\ UrlFieldOf["server_with_at"] = "host" /\ UrlFieldOf["server"] = "host"
  /\ UrlFieldOf["path"] = "path" /\ UrlFieldOf["query_string"] = "query" /\ UrlFieldOf["fragment"] = "fragment"
BY DEF UrlFieldOf

\* Each move of the first table keeps the order of the fields.
LEMMA UrlMovesAre ==
  ASSUME NEW s, NEW c, NEW m \in UrlMoves, s \in m[1], c \in m[2]
  PROVE  UrlEdge(s, c, m[3])
<1>. DEFINE t == m[3]
<1>1. \/ s = "spaces_before_url" /\ t = "path"
      \/ s \in {"spaces_before_url", "schema"} /\ t = "schema"
      \/ s = "schema" /\ t = "schema_slash" /\ c = ":"
      \/ s = "schema_slash" /\ t = "schema_slash_slash" /\ c = "/"
      \/ s = "schema_slash_slash" /\ t = "server_start" /\ c = "/"
      \/ s \in {"server_start", "server", "server_with_at"} /\ t = "path"
      \/ s \in {"server_start", "server", "server_with_at", "path"} /\ t = "query_string_start" /\ c = "?"
      \/ s \in {"server_start", "server"} /\ t = "server_with_at"
      \/ s \in {"server_start", "server", "server_with_at"} /\ t = "server"
      \/ s = "path" /\ t = "path"
      \/ s \in {"query_string_start", "query_string"} /\ t = "query_string"
      \/ s \in {"path", "query_string_start", "query_string", "fragment_start"} /\ t = "fragment_start" /\ c = "#"
      \/ s \in {"fragment_start", "fragment"} /\ t = "fragment"
  BY SMTT(60) DEF UrlMoves, ServerStates, QueryStates
<1>. HIDE DEF t
<1>2. s \in UrlWalkStates /\ t \in UrlWalkStates /\ (~InField(t) => c \in UrlDelimiters)
  BY <1>1 DEF InField, UrlWalkStates, UrlDelimiters
<1>3. Top(s) \in Int /\ Top(t) \in Int /\ Top(s) <= Top(t)
  BY <1>1 DEF Top
<1>4. ASSUME InField(t)
      PROVE  Rank(UrlFieldOf[t]) = Top(t) /\ (Top(s) < Top(t) \/ (InField(s) /\ UrlFieldOf[s] = UrlFieldOf[t]))
  <2>1. Rank(UrlFieldOf[t]) = Top(t)
    BY <1>4, FieldOfIs DEF InField, Rank, Top
  <2>2. Top(s) < Top(t) \/ (InField(s) /\ (s = t \/ (s \in {"server", "server_with_at"} /\ t \in {"server", "server_with_at"})))
    BY <1>1, <1>4 DEF InField, Top
  <2>. QED
    BY <2>1, <2>2, FieldOfIs
<1>. QED
  BY <1>2, <1>3, <1>4 DEF UrlEdge, t

LEMMA UrlCharIs ==
  ASSUME NEW s, NEW c, ParseUrlChar(s, c) # "dead"
  PROVE  UrlEdge(s, c, ParseUrlChar(s, c))
<1>. DEFINE Fits(m) == s \in m[1] /\ c \in m[2]
            move == CHOOSE m \in UrlMoves : Fits(m)
<1>1. \E m \in UrlMoves : Fits(m)
  BY DEF ParseUrlChar, Move
<1>2. ParseUrlChar(s, c) = move[3]
  BY <1>1 DEF ParseUrlChar, Move
<1>3. move \in UrlMoves /\ Fits(move)
  <2>. HIDE DEF Fits
  <2>. QED
    BY <1>1
<1>. HIDE DEF move
<1>. QED
  BY <1>2, <1>3, UrlMovesAre

\* Where a field ends, and the characters it has.
End(f, n) == f[n].off + f[n].len

Bytes(f, n) == f[n].off + 1 .. f[n].off + f[n].len

\* The fields are cut out of the text, but for the bytes after i and up to hi.
Cut(url, f, i, hi) ==
  /\ \A n \in DOMAIN f : n \in FieldNames /\ f[n] \in [off : Nat, len : Nat] /\ End(f, n) <= Len(url)
  /\ \A m, n \in DOMAIN f : Rank(m) < Rank(n) /\ f[m].len # 0 /\ f[n].len # 0 => End(f, m) <= f[n].off
  /\ \A k \in 1..Len(url) : (k <= i \/ hi < k) => url[k] \in UrlDelimiters \/ \E n \in DOMAIN f : k \in Bytes(f, n)

\* A field may begin with the character i.
Room(f, n, i) ==
  /\ n \in FieldNames
  /\ n \in DOMAIN f => f[n].len = 0
  /\ \A m \in DOMAIN f : f[m].len # 0 =>
       (Rank(m) < Rank(n) => End(f, m) <= i - 1) /\ (Rank(n) < Rank(m) => i <= f[m].off)

\* g is f with the field n made r.
Placed(g, f, n, r) ==
  DOMAIN g = DOMAIN f \cup {n} /\ g[n] = r /\ \A m \in DOMAIN f : m # n => g[m] = f[m]

\* No two fields have the same place.
LEMMA RankIs ==
  ASSUME NEW m \in FieldNames, NEW n \in FieldNames
  PROVE  Rank(m) \in 1..7 /\ Rank(n) \in 1..7 /\ (Rank(m) = Rank(n) => m = n)
BY SMTT(30) DEF FieldNames, Rank

\* What fits 16 bits is not cut off.
LEMMA Narrow ==
  ASSUME NEW n \in 0..FieldWidth - 1
  PROVE  n % FieldWidth = n
BY FieldWidthAssumption

\* Where a field ends that has grown.
LEMMA GrownEnd ==
  ASSUME NEW off \in Nat, NEW len \in Nat, NEW i \in Int, off + len = i - 1
  PROVE  len + 1 # 0 /\ off + (len + 1) = i
OBVIOUS

\* A delimiter is left out.
LEMMA DelimiterCut ==
  ASSUME NEW url, Len(url) \in Nat, NEW i \in 1..Len(url), NEW hi \in Int, NEW f,
         Cut(url, f, i - 1, hi),
         url[i] \in UrlDelimiters
  PROVE  Cut(url, f, i, hi)
<1>1. \A k \in 1..Len(url) : k <= i => k <= i - 1 \/ k = i
  OBVIOUS
<1>. QED
  BY <1>1 DEF Cut

\* A field begins with the character i.
LEMMA StartsCut ==
  ASSUME NEW url, Len(url) \in 0..FieldWidth - 1, NEW i \in 1..Len(url), NEW hi \in Int, NEW f,
         Cut(url, f, i - 1, hi),
         NEW n, Room(f, n, i)
  PROVE  Cut(url, Starts(f, n, i), i, hi) /\ Placed(Starts(f, n, i), f, n, [off |-> i - 1, len |-> 1])
<1>. DEFINE g == Starts(f, n, i)
<1>1. (i - 1) % FieldWidth = i - 1
  <2>1. i - 1 \in 0..FieldWidth - 1
    BY FieldWidthAssumption
  <2>. QED
    BY <2>1, Narrow
<1>2. DOMAIN g = DOMAIN f \cup {n} /\ g[n] = [off |-> i - 1, len |-> 1] /\ \A m \in DOMAIN f : m # n => g[m] = f[m]
  BY <1>1 DEF Starts
<1>. HIDE DEF g
<1>0. /\ n \in FieldNames
      /\ n \in DOMAIN f => f[n].len = 0
      /\ \A m \in DOMAIN f : f[m].len # 0 =>
           (Rank(m) < Rank(n) => End(f, m) <= i - 1) /\ (Rank(n) < Rank(m) => i <= f[m].off)
  BY DEF Room
<1>3. g[n].off = i - 1 /\ g[n].len = 1 /\ End(g, n) = i
  BY <1>2 DEF End
<1>4. \A m \in DOMAIN f : m # n => End(g, m) = End(f, m) /\ Bytes(g, m) = Bytes(f, m)
  BY <1>2 DEF End, Bytes
<1>5. \A m \in DOMAIN g : m \in FieldNames /\ g[m] \in [off : Nat, len : Nat] /\ End(g, m) <= Len(url)
  BY <1>0, <1>2, <1>3, <1>4 DEF Cut
<1>6. ASSUME NEW m \in DOMAIN g, NEW o \in DOMAIN g, Rank(m) < Rank(o), g[m].len # 0, g[o].len # 0
      PROVE  End(g, m) <= g[o].off
  <2>1. m # o
    BY <1>5, <1>6, RankIs
  <2>2. CASE m = n
    <3>1. o \in DOMAIN f /\ g[o] = f[o] /\ g[o].off \in Nat
      BY <1>2, <1>5, <2>1, <2>2
    <3>. QED
      BY <1>0, <1>3, <1>6, <2>2, <3>1
  <2>3. CASE o = n
    <3>1. m \in DOMAIN f /\ g[m] = f[m] /\ End(g, m) = End(f, m)
      BY <1>2, <1>4, <2>1, <2>3
    <3>. QED
      BY <1>0, <1>3, <1>6, <2>3, <3>1
  <2>4. CASE m # n /\ o # n
    <3>1. m \in DOMAIN f /\ o \in DOMAIN f /\ g[m] = f[m] /\ g[o] = f[o] /\ End(g, m) = End(f, m)
      BY <1>2, <1>4, <2>4
    <3>. QED
      BY <1>6, <3>1 DEF Cut
  <2>. QED
    BY <2>2, <2>3, <2>4
<1>7. ASSUME NEW k \in 1..Len(url), (k <= i \/ hi < k), url[k] \notin UrlDelimiters
      PROVE  \E m \in DOMAIN g : k \in Bytes(g, m)
  <2>1. CASE k = i
    BY <1>2, <1>3, <2>1 DEF Bytes
  <2>2. CASE k # i
    <3>1. PICK m \in DOMAIN f : k \in Bytes(f, m)
      BY <1>7, <2>2 DEF Cut
    <3>2. CASE m = n
      <4>1. Bytes(f, m) = {}
        <5>1. f[m].len = 0 /\ f[m].off \in Nat
          BY <1>0, <3>2 DEF Cut
        <5>. QED
          BY <5>1 DEF Bytes
      <4>. QED
        BY <3>1, <4>1
    <3>3. CASE m # n
      BY <1>2, <1>4, <3>1, <3>3
    <3>. QED
      BY <3>2, <3>3
  <2>. QED
    BY <2>1, <2>2
<1>8. Cut(url, g, i, hi)
  BY <1>5, <1>6, <1>7 DEF Cut
<1>. QED
  BY <1>2, <1>8 DEF g, Placed

\* The field that ends before the character i takes it in.
LEMMA GrowsCut ==
  ASSUME NEW url, Len(url) \in 0..FieldWidth - 1, NEW i \in 1..Len(url), NEW hi \in Int, NEW f,
         Cut(url, f, i - 1, hi),
         NEW n \in DOMAIN f, f[n].len # 0, End(f, n) = i - 1,
         \A m \in DOMAIN f : f[m].len # 0 /\ Rank(n) < Rank(m) => i <= f[m].off
  PROVE  Cut(url, Grows(f, n), i, hi) /\ Placed(Grows(f, n), f, n, [off |-> f[n].off, len |-> f[n].len + 1])
<1>. DEFINE g == Grows(f, n)
<1>1. f[n] \in [off : Nat, len : Nat] /\ f[n].off + f[n].len = i - 1
  BY DEF Cut, End
<1>2. f[n].len + 1 \in 0..FieldWidth - 1
  BY <1>1, FieldWidthAssumption
<1>3. (f[n].len + 1) % FieldWidth = f[n].len + 1
  BY <1>2, Narrow
<1>4. DOMAIN g = DOMAIN f /\ g[n] = [off |-> f[n].off, len |-> f[n].len + 1] /\ \A m \in DOMAIN f : m # n => g[m] = f[m]
  BY <1>1, <1>3 DEF Grows
<1>. HIDE DEF g
<1>5. g[n].off = f[n].off /\ g[n].len = f[n].len + 1 /\ End(g, n) = i /\ g[n] \in [off : Nat, len : Nat]
  BY <1>1, <1>4 DEF End
<1>6. \A m \in DOMAIN f : m # n => End(g, m) = End(f, m) /\ Bytes(g, m) = Bytes(f, m)
  BY <1>4 DEF End, Bytes
<1>7. \A m \in DOMAIN g : m \in FieldNames /\ g[m] \in [off : Nat, len : Nat] /\ End(g, m) <= Len(url)
  BY <1>4, <1>5, <1>6 DEF Cut
<1>8. ASSUME NEW m \in DOMAIN g, NEW o \in DOMAIN g, Rank(m) < Rank(o), g[m].len # 0, g[o].len # 0
      PROVE  End(g, m) <= g[o].off
  <2>1. m # o
    BY <1>7, <1>8, RankIs
  <2>2. CASE m = n
    <3>1. o \in DOMAIN f /\ g[o] = f[o]
      BY <1>4, <2>1, <2>2
    <3>. QED
      BY <1>5, <1>8, <2>2, <3>1
  <2>3. CASE o = n
    <3>1. m \in DOMAIN f /\ g[m] = f[m] /\ End(g, m) = End(f, m)
      BY <1>4, <1>6, <2>1, <2>3
    <3>2. End(f, m) <= f[n].off
      BY <1>8, <2>3, <3>1 DEF Cut
    <3>. QED
      BY <1>5, <2>3, <3>1, <3>2
  <2>4. CASE m # n /\ o # n
    <3>1. m \in DOMAIN f /\ o \in DOMAIN f /\ g[m] = f[m] /\ g[o] = f[o] /\ End(g, m) = End(f, m)
      BY <1>4, <1>6, <2>4
    <3>. QED
      BY <1>8, <3>1 DEF Cut
  <2>. QED
    BY <2>2, <2>3, <2>4
<1>9. ASSUME NEW k \in 1..Len(url), (k <= i \/ hi < k), url[k] \notin UrlDelimiters
      PROVE  \E m \in DOMAIN g : k \in Bytes(g, m)
  <2>1. CASE k = i
    <3>1. k \in Bytes(g, n)
      BY <1>1, <1>5, <2>1 DEF Bytes
    <3>. QED
      BY <1>4, <3>1
  <2>2. CASE k # i
    <3>1. PICK m \in DOMAIN f : k \in Bytes(f, m)
      BY <1>9, <2>2 DEF Cut
    <3>2. CASE m = n
      <4>1. k \in Bytes(g, n)
        BY <1>1, <1>5, <3>1, <3>2 DEF Bytes
      <4>. QED
        BY <1>4, <4>1
    <3>3. CASE m # n
      BY <1>4, <1>6, <3>1, <3>3
    <3>. QED
      BY <3>2, <3>3
  <2>. QED
    BY <2>1, <2>2
<1>10. Cut(url, g, i, hi)
  BY <1>7, <1>8, <1>9 DEF Cut
<1>. QED
  BY <1>4, <1>10 DEF g, Placed

\* The fields of the first walk.
UrlNames == {"schema", "host", "path", "query", "fragment"}

\* The first walk, after i characters of the text.
UrlWalked(url, u, i) ==
  /\ DOMAIN u = {"state", "field", "fields", "foundAt"}
  /\ u.state # "dead" =>
       /\ u.state \in UrlWalkStates
       /\ Cut(url, u.fields, i, Len(url))
       /\ \A n \in DOMAIN u.fields : /\ n \in UrlNames /\ u.fields[n].len # 0
                                     /\ End(u.fields, n) <= i /\ Rank(n) <= Top(u.state)
       /\ u.field = "none" \/ u.field \in DOMAIN u.fields
       /\ InField(u.state) => /\ u.field = UrlFieldOf[u.state] /\ u.field \in DOMAIN u.fields
                              /\ End(u.fields, u.field) = i

LEMMA DeadStaysDead == \A c : ParseUrlChar("dead", c) = "dead"
<1>. SUFFICES ASSUME NEW c, ParseUrlChar("dead", c) # "dead" PROVE FALSE
  OBVIOUS
<1>. QED
  BY UrlCharIs DEF UrlEdge, UrlWalkStates

\* One step of the first walk.
LEMMA UrlStepWalks ==
  ASSUME NEW url, Len(url) \in 0..FieldWidth - 1, NEW i \in 1..Len(url), NEW u, UrlWalked(url, u, i - 1)
  PROVE  UrlWalked(url, UrlStep(u, url[i], i), i)
<1>. DEFINE s == ParseUrlChar(u.state, url[i])
            moved == [u EXCEPT !.state = s, !.foundAt = @ \/ s = "server_with_at"]
            v == UrlStep(u, url[i], i)
            f == u.fields
            g == IF u.field = UrlFieldOf[s] THEN Grows(f, u.field) ELSE Starts(f, UrlFieldOf[s], i)
<1>1. DOMAIN u = {"state", "field", "fields", "foundAt"}
  BY DEF UrlWalked
<1>2. DOMAIN moved = DOMAIN u /\ moved.state = s /\ moved.field = u.field /\ moved.fields = f
  BY <1>1
<1>3. v = IF ~InField(s) THEN moved ELSE [moved EXCEPT !.field = UrlFieldOf[s], !.fields = g]
  <2>1. (s \notin DOMAIN UrlFieldOf) = ~InField(s)
    BY FieldOfIs DEF InField
  <2>2. v = IF s \notin DOMAIN UrlFieldOf THEN moved
            ELSE [moved EXCEPT !.field = UrlFieldOf[s],
                               !.fields = IF u.field = UrlFieldOf[s] THEN Grows(@, u.field)
                                          ELSE Starts(@, UrlFieldOf[s], i)]
    BY DEF UrlStep
  <2>. HIDE DEF moved, s, v
  <2>. QED
    BY <1>2, <2>1, <2>2
<1>. HIDE DEF moved, v
<1>4. DOMAIN v = DOMAIN u /\ v.state = s
  BY <1>1, <1>2, <1>3
<1>5. ASSUME s # "dead"
      PROVE  /\ s \in UrlWalkStates
             /\ Cut(url, v.fields, i, Len(url))
             /\ \A n \in DOMAIN v.fields : /\ n \in UrlNames /\ v.fields[n].len # 0
                                           /\ End(v.fields, n) <= i /\ Rank(n) <= Top(s)
             /\ v.field = "none" \/ v.field \in DOMAIN v.fields
             /\ InField(s) => /\ v.field = UrlFieldOf[s] /\ v.field \in DOMAIN v.fields
                              /\ End(v.fields, v.field) = i
  <2>1. u.state # "dead"
    BY <1>5, DeadStaysDead
  <2>2. UrlEdge(u.state, url[i], s)
    BY <1>5, UrlCharIs
  <2>3. /\ u.state \in UrlWalkStates
        /\ Cut(url, f, i - 1, Len(url))
        /\ \A n \in DOMAIN f : n \in UrlNames /\ f[n].len # 0 /\ End(f, n) <= i - 1 /\ Rank(n) <= Top(u.state)
        /\ u.field = "none" \/ u.field \in DOMAIN f
        /\ InField(u.state) => u.field = UrlFieldOf[u.state] /\ u.field \in DOMAIN f /\ End(f, u.field) = i - 1
    BY <2>1 DEF UrlWalked
  <2>. DEFINE t == u.state
  <2>. HIDE DEF s
  <2>4. /\ s \in UrlWalkStates /\ Top(t) \in Int /\ Top(s) \in Int /\ Top(t) <= Top(s)
        /\ ~InField(s) => url[i] \in UrlDelimiters
        /\ InField(s) => /\ Rank(UrlFieldOf[s]) = Top(s)
                         /\ Top(t) < Top(s) \/ (InField(t) /\ UrlFieldOf[t] = UrlFieldOf[s])
    BY <2>2 DEF UrlEdge
  <2>5. \A n \in DOMAIN f : n \in FieldNames /\ f[n] \in [off : Nat, len : Nat] /\ f[n].off \in Nat /\ f[n].len \in Nat
                            /\ End(f, n) \in Nat /\ Rank(n) \in Int
    <3>1. \A n \in DOMAIN f : n \in FieldNames /\ f[n] \in [off : Nat, len : Nat]
      BY <2>3 DEF Cut
    <3>. QED
      BY <3>1, RankIs DEF End
  <2>6. CASE ~InField(s)
    <3>1. v.fields = f /\ v.field = u.field
      BY <1>2, <1>3, <2>6
    <3>2. Cut(url, f, i, Len(url))
      BY <2>3, <2>4, <2>6, DelimiterCut
    <3>3. \A n \in DOMAIN f : End(f, n) <= i /\ Rank(n) <= Top(s)
      BY <2>3, <2>4, <2>5
    <3>. QED
      BY <2>3, <2>4, <2>6, <3>1, <3>2, <3>3
  <2>7. CASE InField(s)
    <3>. DEFINE n == UrlFieldOf[s]
    <3>1. v.fields = g /\ v.field = n
      BY <1>1, <1>2, <1>3, <2>7
    <3>2. n \in UrlNames /\ n \in FieldNames /\ n # "none"
      BY <2>7, FieldOfIs DEF InField, UrlNames, FieldNames
    <3>. HIDE DEF n
    <3>3. Rank(n) = Top(s)
      BY <2>4, <2>7 DEF n
    <3>4. \A m \in DOMAIN f : ~(Rank(n) < Rank(m))
      BY <2>3, <2>4, <2>5, <3>3
    <3>5. CASE u.field = n
      <4>1. n \in DOMAIN f
        BY <2>3, <3>2, <3>5
      <4>2. InField(t) /\ UrlFieldOf[t] = n
        <5>1. ~(Top(t) < Top(s))
          BY <2>3, <2>4, <2>5, <3>3, <4>1
        <5>. QED
          BY <2>4, <2>7, <5>1 DEF n
      <4>3. End(f, n) = i - 1
        BY <2>3, <3>5, <4>2
      <4>4. g = Grows(f, n)
        BY <3>5 DEF n
      <4>. HIDE DEF g
      <4>5. /\ Cut(url, g, i, Len(url)) /\ DOMAIN g = DOMAIN f
            /\ g[n] = [off |-> f[n].off, len |-> f[n].len + 1]
            /\ \A m \in DOMAIN f : m # n => g[m] = f[m]
        <5>1. f[n].len # 0 /\ \A m \in DOMAIN f : f[m].len # 0 /\ Rank(n) < Rank(m) => i <= f[m].off
          BY <2>3, <3>4, <4>1
        <5>2. Len(url) \in Int
          BY FieldWidthAssumption
        <5>. HIDE DEF f
        <5>3. Cut(url, Grows(f, n), i, Len(url)) /\ Placed(Grows(f, n), f, n, [off |-> f[n].off, len |-> f[n].len + 1])
          BY <2>3, <4>1, <4>3, <5>1, <5>2, GrowsCut
        <5>4. DOMAIN f \cup {n} = DOMAIN f
          BY <4>1
        <5>. QED
          BY <4>4, <5>3, <5>4 DEF Placed
      <4>6. g[n].len # 0 /\ End(g, n) = i
        <5>1. g[n].off = f[n].off /\ g[n].len = f[n].len + 1
          BY <4>5
        <5>2. f[n].off \in Nat /\ f[n].len \in Nat /\ f[n].off + f[n].len = i - 1
          BY <2>5, <4>1, <4>3 DEF End
        <5>3. i \in Int
          BY FieldWidthAssumption
        <5>4. f[n].len + 1 # 0 /\ f[n].off + (f[n].len + 1) = i
          <6>. DEFINE off == f[n].off
                      len == f[n].len
          <6>1. off \in Nat /\ len \in Nat /\ off + len = i - 1
            BY <5>2
          <6>. HIDE DEF off, len
          <6>2. len + 1 # 0 /\ off + (len + 1) = i
            BY <5>3, <6>1, GrownEnd
          <6>. QED
            BY <6>2 DEF off, len
        <5>5. g[n].len # 0 /\ g[n].off + g[n].len = i
          BY <5>1, <5>4
        <5>. QED
          BY <5>5 DEF End
      <4>7. \A m \in DOMAIN g : m \in UrlNames /\ g[m].len # 0 /\ End(g, m) <= i /\ Rank(m) <= Top(s)
        <5>. SUFFICES ASSUME NEW m \in DOMAIN g, m # n
                      PROVE  m \in UrlNames /\ g[m].len # 0 /\ End(g, m) <= i /\ Rank(m) <= Top(s)
          BY <2>4, <3>2, <3>3, <4>6
        <5>1. m \in DOMAIN f /\ g[m] = f[m] /\ End(g, m) = End(f, m)
          BY <4>5 DEF End
        <5>. QED
          BY <2>3, <2>4, <2>5, <5>1
      <4>. QED
        BY <2>4, <3>1, <4>1, <4>5, <4>6, <4>7 DEF n
    <3>6. CASE u.field # n
      <4>1. n \notin DOMAIN f
        <5>1. ~(InField(t) /\ UrlFieldOf[t] = n)
          BY <2>3, <3>6
        <5>2. Top(t) < Rank(n)
          BY <2>4, <2>7, <3>3, <5>1 DEF n
        <5>. QED
          BY <2>3, <2>4, <2>5, <3>3, <5>2
      <4>2. g = Starts(f, n, i)
        BY <3>6 DEF n
      <4>. HIDE DEF g
      <4>3. /\ Cut(url, g, i, Len(url)) /\ DOMAIN g = DOMAIN f \cup {n}
            /\ g[n] = [off |-> i - 1, len |-> 1]
            /\ \A m \in DOMAIN f : m # n => g[m] = f[m]
        <5>1. Room(f, n, i)
          BY <2>3, <3>2, <3>4, <4>1 DEF Room
        <5>2. Len(url) \in Int
          BY FieldWidthAssumption
        <5>. HIDE DEF f
        <5>3. Cut(url, Starts(f, n, i), i, Len(url)) /\ Placed(Starts(f, n, i), f, n, [off |-> i - 1, len |-> 1])
          BY <2>3, <5>1, <5>2, StartsCut
        <5>. QED
          BY <4>2, <5>3 DEF Placed
      <4>4. g[n].len # 0 /\ End(g, n) = i
        BY <4>3 DEF End
      <4>5. \A m \in DOMAIN g : m \in UrlNames /\ g[m].len # 0 /\ End(g, m) <= i /\ Rank(m) <= Top(s)
        <5>. SUFFICES ASSUME NEW m \in DOMAIN g, m # n
                      PROVE  m \in UrlNames /\ g[m].len # 0 /\ End(g, m) <= i /\ Rank(m) <= Top(s)
          BY <2>4, <3>2, <3>3, <4>4
        <5>1. m \in DOMAIN f /\ g[m] = f[m] /\ End(g, m) = End(f, m)
          BY <4>3 DEF End
        <5>. QED
          BY <2>3, <2>4, <2>5, <5>1
      <4>. QED
        BY <2>4, <3>1, <4>3, <4>4, <4>5 DEF n
    <3>. QED
      BY <3>5, <3>6
  <2>. QED
    BY <2>6, <2>7
<1>. QED
  <2>. HIDE DEF s
  <2>1. UrlWalked(url, v, i)
    BY <1>1, <1>4, <1>5 DEF UrlWalked
  <2>. QED
    BY <2>1 DEF v

\* Where the first walk starts.
UrlStart(isConnect) == [state |-> IF isConnect THEN "server_start" ELSE "spaces_before_url",
                        field |-> "none", fields |-> NoFields, foundAt |-> FALSE]

\* w is the first walk over the first n characters.
IsUrlWalk(w, url, isConnect, n) ==
  w = [i \in 0..n |-> IF i = 0 THEN UrlStart(isConnect) ELSE UrlStep(w[i - 1], url[i], i)]

UrlWalk(url, isConnect) == CHOOSE w : IsUrlWalk(w, url, isConnect, Len(url))

\* The first walk is a function: it is defined up to every length.
LEMMA UrlWalkExists ==
  ASSUME NEW url, NEW isConnect, Len(url) \in Nat
  PROVE  IsUrlWalk(UrlWalk(url, isConnect), url, isConnect, Len(url))
<1>. DEFINE Defined == {n \in Nat : \E w : IsUrlWalk(w, url, isConnect, n)}
<1>1. 0 \in Defined
  <2>1. IsUrlWalk([i \in 0..0 |-> UrlStart(isConnect)], url, isConnect, 0)
    BY DEF IsUrlWalk
  <2>. QED
    BY <2>1
<1>2. \A n \in Nat : n \in Defined => n + 1 \in Defined
  <2>. SUFFICES ASSUME NEW n \in Nat, NEW w, IsUrlWalk(w, url, isConnect, n)
                PROVE  \E next : IsUrlWalk(next, url, isConnect, n + 1)
    OBVIOUS
  <2>. DEFINE last == UrlStep(w[n], url[n + 1], n + 1)
              next == [i \in 0..n + 1 |-> IF i = n + 1 THEN last ELSE w[i]]
              rule(f, i) == IF i = 0 THEN UrlStart(isConnect) ELSE UrlStep(f[i - 1], url[i], i)
  <2>1. \A i \in 0..n : w[i] = rule(w, i)
    BY DEF IsUrlWalk
  <2>2. ASSUME NEW i \in 0..n + 1 PROVE next[i] = rule(next, i)
    <3>1. CASE i = n + 1
      <4>1. i # 0 /\ i - 1 = n /\ next[i - 1] = w[n] /\ next[i] = last
        BY <3>1
      <4>. HIDE DEF next
      <4>. QED
        BY <3>1, <4>1
    <3>2. CASE i # n + 1
      <4>1. i \in 0..n /\ next[i] = w[i] /\ (i # 0 => next[i - 1] = w[i - 1])
        BY <3>2
      <4>. HIDE DEF next
      <4>. QED
        BY <2>1, <4>1
    <3>. QED
      BY <3>1, <3>2
  <2>3. next = [i \in 0..n + 1 |-> rule(next, i)]
    BY <2>2
  <2>. HIDE DEF next
  <2>4. IsUrlWalk(next, url, isConnect, n + 1)
    BY <2>3 DEF IsUrlWalk
  <2>. QED
    BY <2>4
<1>. HIDE DEF Defined
<1>3. Len(url) \in Defined
  BY <1>1, <1>2, Induction
<1>4. \E w : IsUrlWalk(w, url, isConnect, Len(url))
  BY <1>3 DEF Defined
<1>. QED
  BY <1>4 DEF UrlWalk

LEMMA UrlStartWalked ==
  ASSUME NEW url, NEW isConnect
  PROVE  UrlWalked(url, UrlStart(isConnect), 0)
<1>. DEFINE u == UrlStart(isConnect)
<1>1. /\ DOMAIN u = {"state", "field", "fields", "foundAt"} /\ u.fields = NoFields /\ u.field = "none"
      /\ u.state \in {"server_start", "spaces_before_url"}
  BY DEF UrlStart
<1>. HIDE DEF u
<1>2. DOMAIN NoFields = {} /\ (\A k \in 1..Len(url) : ~(k <= 0))
  BY DEF NoFields
<1>3. u.state \in UrlWalkStates /\ ~InField(u.state)
  BY <1>1 DEF UrlWalkStates, InField
<1>4. Cut(url, NoFields, 0, Len(url))
  BY <1>2 DEF Cut
<1>5. UrlWalked(url, u, 0)
  BY <1>1, <1>2, <1>3, <1>4 DEF UrlWalked
<1>. QED
  BY <1>5 DEF u

\* The first walk, at the end of the text.
LEMMA UrlEndWalked ==
  ASSUME NEW url, Len(url) \in 0..FieldWidth - 1, NEW isConnect
  PROVE  UrlWalked(url, UrlWalk(url, isConnect)[Len(url)], Len(url))
<1>. DEFINE w == UrlWalk(url, isConnect)
            Walks == {n \in Nat : n <= Len(url) => UrlWalked(url, w[n], n)}
<1>0. Len(url) \in Nat
  BY FieldWidthAssumption
<1>1. \A i \in 0..Len(url) : w[i] = IF i = 0 THEN UrlStart(isConnect) ELSE UrlStep(w[i - 1], url[i], i)
  BY <1>0, UrlWalkExists DEF IsUrlWalk
<1>. HIDE DEF w
<1>2. 0 \in Walks
  BY <1>0, <1>1, UrlStartWalked
<1>3. \A n \in Nat : n \in Walks => n + 1 \in Walks
  <2>. SUFFICES ASSUME NEW n \in Nat, n \in Walks, n + 1 <= Len(url) PROVE UrlWalked(url, w[n + 1], n + 1)
    OBVIOUS
  <2>1. n + 1 \in 0..Len(url) /\ n + 1 \in 1..Len(url) /\ n + 1 # 0 /\ n + 1 - 1 = n /\ UrlWalked(url, w[n], n)
    BY <1>0
  <2>2. w[n + 1] = UrlStep(w[n], url[n + 1], n + 1)
    BY <1>1, <2>1
  <2>. QED
    BY <2>1, <2>2, UrlStepWalks
<1>4. Len(url) \in Walks
  <2>. HIDE DEF Walks
  <2>. QED
    BY <1>0, <1>2, <1>3, Induction
<1>. QED
  BY <1>0, <1>4 DEF w

\* The fields of the second walk.
HostNames == {"userinfo", "host", "port"}

\* The last field of a host that may have begun in a state of the second walk.
HostTop(s) == IF s = "userinfo_start" THEN 1
              ELSE IF s \in {"userinfo", "host_start", "host_v6_start"} THEN 2
              ELSE IF s = "host_port" THEN 4 ELSE 3

\* The states that are entered with a character of a field of the host.
InHost(s) == s \in {"host", "host_v6", "host_v6_zone_start", "host_v6_zone", "host_port", "userinfo"}

\* The move from s to t begins a field.
BeginsField(s, t) == t \in {"host", "host_v6", "host_port", "userinfo"} /\ t # s

\* The states of the second walk, but for "host_dead".
HostWalkStates == {"userinfo_start", "userinfo", "host_start", "host_v6_start", "host", "host_v6",
                   "host_v6_zone_start", "host_v6_zone", "host_v6_end", "host_port_start", "host_port"}

\* A move of the second walk from s over c leads to t in the order of the fields.
HostEdge(s, c, t) ==
  /\ s \in HostWalkStates /\ t \in HostWalkStates
  /\ HostTop(s) \in 1..4 /\ HostTop(t) \in 1..4 /\ HostTop(s) <= HostTop(t)
  /\ HostTop(t) >= 3 /\ ~InHost(t) => HostTop(s) >= 3
  /\ ~InHost(t) => c \in UrlDelimiters
  /\ InHost(t) => /\ Rank(HostFieldOf[t]) = HostTop(t)
                  /\ HostTop(t) = 4 => HostTop(s) >= 3
                  /\ BeginsField(s, t) => HostTop(s) < HostTop(t)
                  /\ ~BeginsField(s, t) => InHost(s) /\ HostFieldOf[s] = HostFieldOf[t]

LEMMA HostFieldIs ==
  /\ DOMAIN HostFieldOf = {"host", "host_v6", "host_v6_zone_start", "host_v6_zone", "host_port", "userinfo"}
  /\ HostFieldOf["host"] = "host" /\ HostFieldOf["host_v6"] = "host" /\ HostFieldOf["host_v6_zone_start"] = "host"
  /\ HostFieldOf["host_v6_zone"] = "host" /\ HostFieldOf["host_port"] = "port"
  /\ HostFieldOf["userinfo"] = "userinfo"
BY DEF HostFieldOf

\* Each move of the second table keeps the order of the fields.
LEMMA HostMovesAre ==
  ASSUME NEW s, NEW c, NEW m \in HostMoves, s \in m[1], c \in m[2]
  PROVE  HostEdge(s, c, m[3])
<1>. DEFINE t == m[3]
<1>1. \/ s \in {"userinfo_start", "userinfo"} /\ t = "host_start" /\ c = "@"
      \/ s \in {"userinfo_start", "userinfo"} /\ t = "userinfo"
      \/ s = "host_start" /\ t = "host_v6_start" /\ c = "["
      \/ s \in {"host_start", "host"} /\ t = "host"
      \/ s \in {"host", "host_v6_end"} /\ t = "host_port_start" /\ c = ":"
      \/ s \in {"host_v6", "host_v6_zone"} /\ t = "host_v6_end" /\ c = "]"
      \/ s \in {"host_v6_start", "host_v6"} /\ t = "host_v6"
      \/ s = "host_v6" /\ t = "host_v6_zone_start"
      \/ s \in {"host_v6_zone_start", "host_v6_zone"} /\ t = "host_v6_zone"
      \/ s \in {"host_port_start", "host_port"} /\ t = "host_port"
  BY SMTT(60) DEF HostMoves
<1>. HIDE DEF t
<1>2. s \in HostWalkStates /\ t \in HostWalkStates /\ (~InHost(t) => c \in UrlDelimiters)
  BY <1>1 DEF InHost, HostWalkStates, UrlDelimiters
<1>3. HostTop(s) \in 1..4 /\ HostTop(t) \in 1..4 /\ HostTop(s) <= HostTop(t)
  BY <1>1 DEF HostTop
<1>4. HostTop(t) >= 3 /\ ~InHost(t) => HostTop(s) >= 3
  BY <1>1 DEF HostTop, InHost
<1>5. ASSUME InHost(t)
      PROVE  /\ Rank(HostFieldOf[t]) = HostTop(t) /\ (HostTop(t) = 4 => HostTop(s) >= 3)
             /\ BeginsField(s, t) => HostTop(s) < HostTop(t)
             /\ ~BeginsField(s, t) => InHost(s) /\ HostFieldOf[s] = HostFieldOf[t]
  <2>1. Rank(HostFieldOf[t]) = HostTop(t)
    BY <1>5, HostFieldIs DEF InHost, Rank, HostTop
  <2>2. \/ s \in {"userinfo_start", "userinfo"} /\ t = "userinfo"
        \/ s \in {"host_start", "host"} /\ t = "host"
        \/ s \in {"host_v6_start", "host_v6"} /\ t = "host_v6"
        \/ s = "host_v6" /\ t = "host_v6_zone_start"
        \/ s \in {"host_v6_zone_start", "host_v6_zone"} /\ t = "host_v6_zone"
        \/ s \in {"host_port_start", "host_port"} /\ t = "host_port"
    BY <1>1, <1>5 DEF InHost
  <2>3. (HostTop(t) = 4 => HostTop(s) >= 3) /\ (BeginsField(s, t) => HostTop(s) < HostTop(t))
    BY <2>2 DEF HostTop, BeginsField
  <2>4. ~BeginsField(s, t) => InHost(s) /\ HostFieldOf[s] = HostFieldOf[t]
    BY <2>2, HostFieldIs DEF BeginsField, InHost
  <2>. QED
    BY <2>1, <2>3, <2>4
<1>6. HostEdge(s, c, t)
  BY <1>2, <1>3, <1>4, <1>5 DEF HostEdge
<1>. QED
  BY <1>6 DEF t

LEMMA HostCharIs ==
  ASSUME NEW s, NEW c, ParseHostChar(s, c) # "host_dead"
  PROVE  HostEdge(s, c, ParseHostChar(s, c))
<1>. DEFINE Fits(m) == s \in m[1] /\ c \in m[2]
            move == CHOOSE m \in HostMoves : Fits(m)
<1>1. \E m \in HostMoves : Fits(m)
  BY DEF ParseHostChar, Move
<1>2. ParseHostChar(s, c) = move[3]
  BY <1>1 DEF ParseHostChar, Move
<1>3. move \in HostMoves /\ Fits(move)
  <2>. HIDE DEF Fits
  <2>. QED
    BY <1>1
<1>. HIDE DEF move
<1>. QED
  BY <1>2, <1>3, HostMovesAre

LEMMA HostDeadStays == \A c : ParseHostChar("host_dead", c) = "host_dead"
<1>. SUFFICES ASSUME NEW c, ParseHostChar("host_dead", c) # "host_dead" PROVE FALSE
  OBVIOUS
<1>. QED
  BY HostCharIs DEF HostEdge, HostWalkStates

\* The fields of the first walk, the host of which lies between lo and hi.
Outer(url, f, lo, hi) ==
  /\ lo \in Nat /\ hi \in Nat /\ lo <= hi /\ hi <= Len(url)
  /\ "host" \in DOMAIN f
  /\ \A n \in DOMAIN f : /\ n \in UrlNames /\ f[n].len # 0
                         /\ n = "schema" => End(f, n) <= lo
                         /\ n \in {"path", "query", "fragment"} => hi <= f[n].off

\* The second walk, after the character i: f are the fields of the first one.
HostWalked(url, f, lo, hi, h, i) ==
  /\ DOMAIN h = {"state", "fields"}
  /\ h.state # "host_dead" =>
       /\ h.state \in HostWalkStates
       /\ Cut(url, h.fields, i, hi)
       /\ DOMAIN f \subseteq DOMAIN h.fields
       /\ \A n \in DOMAIN h.fields :
            /\ n \in HostNames /\ h.fields[n].len # 0 => End(h.fields, n) <= i /\ Rank(n) <= HostTop(h.state)
            /\ n \in {"userinfo", "port"} => h.fields[n].len # 0
            /\ n \notin HostNames => n \in DOMAIN f /\ h.fields[n] = f[n]
       /\ HostTop(h.state) >= 3 => h.fields["host"].len # 0
       /\ InHost(h.state) => LET n == HostFieldOf[h.state]
                             IN  n \in DOMAIN h.fields /\ h.fields[n].len # 0 /\ End(h.fields, n) = i

\* One step of the second walk.
LEMMA HostStepWalks ==
  ASSUME NEW url, Len(url) \in 0..FieldWidth - 1, NEW f, NEW lo, NEW hi, Outer(url, f, lo, hi),
         NEW i \in lo + 1..hi, NEW h, HostWalked(url, f, lo, hi, h, i - 1)
  PROVE  HostWalked(url, f, lo, hi, HostStep(url, h, i), i)
<1>. DEFINE s == ParseHostChar(h.state, url[i])
            n == HostFieldOf[s]
            e == h.fields
            g == IF BeginsField(h.state, s) THEN Starts(e, n, i) ELSE Grows(e, n)
            v == HostStep(url, h, i)
<1>0. /\ lo \in Nat /\ hi \in Int /\ i \in 1..Len(url) /\ i <= hi /\ lo <= i - 1
      /\ DOMAIN h = {"state", "fields"}
  BY FieldWidthAssumption DEF Outer, HostWalked
<1>1. v = IF ~InHost(s) THEN [h EXCEPT !.state = s] ELSE [state |-> s, fields |-> g]
  <2>1. (s \notin DOMAIN HostFieldOf) = ~InHost(s)
    BY HostFieldIs DEF InHost
  <2>2. v = IF s \notin DOMAIN HostFieldOf THEN [h EXCEPT !.state = s] ELSE [state |-> s, fields |-> g]
    BY DEF HostStep, BeginsField
  <2>. QED
    BY <2>1, <2>2
<1>. HIDE DEF v
<1>2. DOMAIN v = {"state", "fields"} /\ v.state = s /\ v.fields = IF InHost(s) THEN g ELSE e
  <2>. HIDE DEF s, g
  <2>. QED
    BY <1>0, <1>1
<1>3. ASSUME s # "host_dead"
      PROVE  /\ s \in HostWalkStates
             /\ Cut(url, v.fields, i, hi)
             /\ DOMAIN f \subseteq DOMAIN v.fields
             /\ \A m \in DOMAIN v.fields :
                  /\ m \in HostNames /\ v.fields[m].len # 0 => End(v.fields, m) <= i /\ Rank(m) <= HostTop(s)
                  /\ m \in {"userinfo", "port"} => v.fields[m].len # 0
                  /\ m \notin HostNames => m \in DOMAIN f /\ v.fields[m] = f[m]
             /\ HostTop(s) >= 3 => v.fields["host"].len # 0
             /\ InHost(s) => n \in DOMAIN v.fields /\ v.fields[n].len # 0 /\ End(v.fields, n) = i
  <2>. DEFINE t == h.state
  <2>1. t # "host_dead"
    BY <1>3, HostDeadStays
  <2>2. HostEdge(t, url[i], s)
    BY <1>3, HostCharIs
  <2>3. /\ Cut(url, e, i - 1, hi) /\ DOMAIN f \subseteq DOMAIN e
        /\ \A m \in DOMAIN e :
             /\ m \in HostNames /\ e[m].len # 0 => End(e, m) <= i - 1 /\ Rank(m) <= HostTop(t)
             /\ m \in {"userinfo", "port"} => e[m].len # 0
             /\ m \notin HostNames => m \in DOMAIN f /\ e[m] = f[m]
        /\ HostTop(t) >= 3 => e["host"].len # 0
        /\ InHost(t) => HostFieldOf[t] \in DOMAIN e /\ e[HostFieldOf[t]].len # 0 /\ End(e, HostFieldOf[t]) = i - 1
    BY <2>1 DEF HostWalked
  <2>. HIDE DEF s
  <2>4. /\ s \in HostWalkStates /\ HostTop(t) \in 1..4 /\ HostTop(s) \in 1..4 /\ HostTop(t) <= HostTop(s)
        /\ HostTop(s) >= 3 /\ ~InHost(s) => HostTop(t) >= 3
        /\ ~InHost(s) => url[i] \in UrlDelimiters
        /\ InHost(s) => /\ Rank(n) = HostTop(s)
                        /\ HostTop(s) = 4 => HostTop(t) >= 3
                        /\ BeginsField(t, s) => HostTop(t) < HostTop(s)
                        /\ ~BeginsField(t, s) => InHost(t) /\ HostFieldOf[t] = n
    BY <2>2 DEF HostEdge
  <2>5. \A m \in DOMAIN e : m \in FieldNames /\ e[m] \in [off : Nat, len : Nat] /\ e[m].off \in Nat /\ e[m].len \in Nat
                            /\ End(e, m) \in Nat /\ Rank(m) \in Int
    <3>1. \A m \in DOMAIN e : m \in FieldNames /\ e[m] \in [off : Nat, len : Nat]
      BY <2>3 DEF Cut
    <3>. QED
      BY <3>1, RankIs DEF End
  <2>6. CASE ~InHost(s)
    <3>1. v.fields = e
      BY <1>2, <2>6
    <3>2. Cut(url, e, i, hi)
      BY <1>0, <2>3, <2>4, <2>6, DelimiterCut
    <3>3. \A m \in DOMAIN e : m \in HostNames /\ e[m].len # 0 => End(e, m) <= i /\ Rank(m) <= HostTop(s)
      BY <1>0, <2>3, <2>4, <2>5, SMTT(30)
    <3>. QED
      BY <2>3, <2>4, <2>6, <3>1, <3>2, <3>3
  <2>7. CASE InHost(s)
    <3>1. v.fields = g
      BY <1>2, <2>7
    <3>2. n \in HostNames /\ n \in FieldNames /\ (n = "port" => Rank(n) = 4) /\ (n = "host" => Rank(n) = 3)
          /\ (n = "userinfo" => Rank(n) = 2)
      BY <2>7, HostFieldIs DEF InHost, HostNames, FieldNames, Rank
    <3>3. Rank(n) = HostTop(s) /\ Rank(n) \in 2..4
      BY <2>4, <2>7, <3>2 DEF HostNames
    <3>. HIDE DEF n
    <3>4. \A m \in DOMAIN e : e[m].len # 0 =>
            (Rank(m) < Rank(n) => End(e, m) <= i - 1) /\ (Rank(n) < Rank(m) => i <= e[m].off)
      <4>. SUFFICES ASSUME NEW m \in DOMAIN e, e[m].len # 0
                    PROVE  (Rank(m) < Rank(n) => End(e, m) <= i - 1) /\ (Rank(n) < Rank(m) => i <= e[m].off)
        OBVIOUS
      <4>1. CASE m \in HostNames
        BY <2>3, <2>4, <2>5, <3>3, <4>1
      <4>2. CASE m \notin HostNames
        <5>1. m \in DOMAIN f /\ e[m] = f[m] /\ End(e, m) = End(f, m)
          BY <2>3, <4>2 DEF End
        <5>2. m \in UrlNames /\ m # "host" /\ (m = "schema" => End(f, m) <= lo)
              /\ (m \in {"path", "query", "fragment"} => hi <= f[m].off)
          BY <4>2, <5>1 DEF Outer, HostNames
        <5>3. CASE m = "schema"
          <6>1. Rank(m) = 1 /\ End(e, m) <= lo
            BY <5>1, <5>2, <5>3 DEF Rank
          <6>. QED
            BY <1>0, <2>5, <3>3, <6>1
        <5>4. CASE m \in {"path", "query", "fragment"}
          <6>1. Rank(m) \in 5..7 /\ hi <= e[m].off
            BY <5>1, <5>2, <5>4 DEF Rank
          <6>2. i \in Int /\ hi \in Int /\ i <= hi /\ e[m].off \in Nat
            BY <1>0, <2>5
          <6>. QED
            BY <3>3, <6>1, <6>2
        <5>. QED
          BY <5>2, <5>3, <5>4 DEF UrlNames
      <4>. QED
        BY <4>1, <4>2
    <3>5. /\ Cut(url, g, i, hi) /\ DOMAIN g = DOMAIN e \cup {n}
          /\ g[n].len # 0 /\ End(g, n) = i
          /\ \A m \in DOMAIN e : m # n => g[m] = e[m] /\ End(g, m) = End(e, m)
      <4>1. CASE BeginsField(t, s)
        <5>1. n \in DOMAIN e => e[n].len = 0
          BY <2>3, <2>4, <2>5, <2>7, <3>2, <3>3, <4>1
        <5>2. Room(e, n, i)
          BY <3>2, <3>4, <5>1 DEF Room
        <5>3. g = Starts(e, n, i)
          BY <4>1
        <5>. HIDE DEF e, g
        <5>4. Cut(url, g, i, hi) /\ Placed(g, e, n, [off |-> i - 1, len |-> 1])
          BY <1>0, <2>3, <5>2, <5>3, StartsCut
        <5>. QED
          BY <1>0, <5>4 DEF Placed, End
      <4>2. CASE ~BeginsField(t, s)
        <5>1. n \in DOMAIN e /\ e[n].len # 0 /\ End(e, n) = i - 1
          BY <2>3, <2>4, <2>7, <4>2
        <5>2. \A m \in DOMAIN e : e[m].len # 0 /\ Rank(n) < Rank(m) => i <= e[m].off
          BY <3>4
        <5>3. g = Grows(e, n) /\ e[n].off \in Nat /\ e[n].len \in Nat
          BY <2>5, <4>2, <5>1
        <5>. HIDE DEF e, g
        <5>4. Cut(url, g, i, hi) /\ Placed(g, e, n, [off |-> e[n].off, len |-> e[n].len + 1])
          BY <1>0, <2>3, <5>1, <5>2, <5>3, GrowsCut
        <5>5. g[n].off = e[n].off /\ g[n].len = e[n].len + 1 /\ e[n].off + e[n].len = i - 1
          BY <5>1, <5>4 DEF Placed, End
        <5>6. e[n].len + 1 # 0 /\ e[n].off + (e[n].len + 1) = i
          <6>. DEFINE off == e[n].off
                      len == e[n].len
          <6>1. off \in Nat /\ len \in Nat /\ off + len = i - 1 /\ i \in Int
            BY <1>0, <5>3, <5>5
          <6>. HIDE DEF off, len
          <6>2. len + 1 # 0 /\ off + (len + 1) = i
            BY <6>1, GrownEnd
          <6>. QED
            BY <6>2 DEF off, len
        <5>7. g[n].len # 0 /\ g[n].off + g[n].len = i
          BY <5>5, <5>6
        <5>. QED
          BY <5>4, <5>7 DEF Placed, End
      <4>. QED
        BY <4>1, <4>2
    <3>. HIDE DEF g
    <3>6. ASSUME NEW m \in DOMAIN g
          PROVE  /\ m \in HostNames /\ g[m].len # 0 => End(g, m) <= i /\ Rank(m) <= HostTop(s)
                 /\ m \in {"userinfo", "port"} => g[m].len # 0
                 /\ m \notin HostNames => m \in DOMAIN f /\ g[m] = f[m]
      <4>1. CASE m = n
        BY <1>0, <2>4, <3>2, <3>3, <3>5, <4>1
      <4>2. CASE m # n
        <5>1. m \in DOMAIN e /\ g[m] = e[m] /\ End(g, m) = End(e, m)
          BY <3>5, <4>2
        <5>2. m \in HostNames /\ g[m].len # 0 => End(e, m) <= i - 1 /\ Rank(m) <= HostTop(t)
          BY <2>3, <5>1
        <5>3. HostTop(t) \in Int /\ HostTop(s) \in Int /\ HostTop(t) <= HostTop(s)
          BY <2>4
        <5>4. End(e, m) \in Nat /\ Rank(m) \in Int
          BY <2>5, <5>1
        <5>5. i \in Int
          BY <1>0
        <5>6. m \in HostNames /\ g[m].len # 0 => End(g, m) <= i /\ Rank(m) <= HostTop(s)
          BY <5>1, <5>2, <5>3, <5>4, <5>5
        <5>. QED
          BY <2>3, <5>1, <5>6
      <4>. QED
        BY <4>1, <4>2
    <3>7. HostTop(s) >= 3 => g["host"].len # 0
      <4>1. CASE n = "host"
        BY <3>5, <4>1
      <4>2. CASE n # "host" /\ HostTop(s) >= 3
        <5>1. n = "port" /\ HostTop(t) >= 3
          BY <2>4, <2>7, <3>2, <3>3, <4>2 DEF HostNames
        <5>2. "host" \in DOMAIN e /\ e["host"].len # 0
          BY <2>3, <5>1 DEF Outer
        <5>. QED
          BY <3>5, <4>2, <5>2
      <4>. QED
        BY <4>1, <4>2
    <3>. QED
      BY <2>3, <2>4, <2>7, <3>1, <3>5, <3>6, <3>7
  <2>. QED
    BY <2>6, <2>7
<1>. QED
  <2>. HIDE DEF s
  <2>1. HostWalked(url, f, lo, hi, v, i)
    BY <1>2, <1>3 DEF HostWalked, n
  <2>. QED
    BY <2>1 DEF v

\* Where the second walk starts.
HostStart(fields, foundAt) ==
  [state |-> IF foundAt THEN "userinfo_start" ELSE "host_start", fields |-> [fields EXCEPT !["host"].len = 0]]

\* w is the second walk, from the character `from` to the character n.
IsHostWalk(w, url, start, from, n) ==
  w = [i \in (from - 1)..n |-> IF i < from THEN start ELSE HostStep(url, w[i - 1], i)]

HostWalk(url, start, from, to) == CHOOSE w : IsHostWalk(w, url, start, from, to)

\* The second walk is a function.
LEMMA HostWalkExists ==
  ASSUME NEW url, NEW start, NEW from \in Nat \ {0}, NEW to \in Nat, from - 1 <= to
  PROVE  IsHostWalk(HostWalk(url, start, from, to), url, start, from, to)
<1>. DEFINE Defined == {k \in Nat : \E w : IsHostWalk(w, url, start, from, from - 1 + k)}
<1>1. 0 \in Defined
  <2>1. IsHostWalk([i \in (from - 1)..(from - 1 + 0) |-> start], url, start, from, from - 1 + 0)
    BY DEF IsHostWalk
  <2>. QED
    BY <2>1
<1>2. \A k \in Nat : k \in Defined => k + 1 \in Defined
  <2>. SUFFICES ASSUME NEW k \in Nat, NEW w, IsHostWalk(w, url, start, from, from - 1 + k)
                PROVE  \E next : IsHostWalk(next, url, start, from, from - 1 + (k + 1))
    OBVIOUS
  <2>. DEFINE n == from - 1 + k
              last == HostStep(url, w[n], n + 1)
              next == [i \in (from - 1)..(n + 1) |-> IF i = n + 1 THEN last ELSE w[i]]
              rule(f, i) == IF i < from THEN start ELSE HostStep(url, f[i - 1], i)
  <2>0. n \in Nat /\ n >= from - 1 /\ from - 1 + (k + 1) = n + 1
    OBVIOUS
  <2>1. \A i \in (from - 1)..n : w[i] = rule(w, i)
    BY DEF IsHostWalk
  <2>. HIDE DEF n
  <2>2. ASSUME NEW i \in (from - 1)..(n + 1) PROVE next[i] = rule(next, i)
    <3>1. CASE i = n + 1
      <4>1. ~(i < from) /\ i - 1 = n /\ next[i - 1] = w[n] /\ next[i] = last
        BY <2>0, <3>1
      <4>. HIDE DEF next
      <4>. QED
        BY <3>1, <4>1
    <3>2. CASE i # n + 1
      <4>1. i \in (from - 1)..n /\ next[i] = w[i] /\ (~(i < from) => next[i - 1] = w[i - 1])
        BY <2>0, <3>2
      <4>. HIDE DEF next
      <4>. QED
        BY <2>1, <4>1
    <3>. QED
      BY <3>1, <3>2
  <2>3. next = [i \in (from - 1)..(n + 1) |-> rule(next, i)]
    BY <2>2
  <2>. HIDE DEF next
  <2>4. IsHostWalk(next, url, start, from, n + 1)
    BY <2>3 DEF IsHostWalk
  <2>. QED
    BY <2>0, <2>4
<1>. HIDE DEF Defined
<1>3. to - (from - 1) \in Nat /\ from - 1 + (to - (from - 1)) = to
  OBVIOUS
<1>4. to - (from - 1) \in Defined
  BY <1>1, <1>2, <1>3, Induction
<1>5. \E w : IsHostWalk(w, url, start, from, to)
  BY <1>3, <1>4 DEF Defined
<1>. QED
  BY <1>5 DEF HostWalk

\* The fields of the first walk, with an empty host, start the second one.
LEMMA HostStartWalked ==
  ASSUME NEW url, NEW f, Cut(url, f, Len(url), Len(url)), NEW lo, NEW hi, Outer(url, f, lo, hi), Len(url) \in Nat,
         lo = f["host"].off, hi = End(f, "host"), NEW foundAt
  PROVE  HostWalked(url, f, lo, hi, HostStart(f, foundAt), lo)
<1>. DEFINE h == HostStart(f, foundAt)
            e == [f EXCEPT !["host"].len = 0]
<1>1. "host" \in DOMAIN f /\ f["host"] \in [off : Nat, len : Nat]
  BY DEF Outer, Cut
<1>2. DOMAIN e = DOMAIN f /\ e["host"] = [off |-> lo, len |-> 0] /\ \A n \in DOMAIN f : n # "host" => e[n] = f[n]
  BY <1>1
<1>3. DOMAIN h = {"state", "fields"} /\ h.fields = e /\ h.state \in {"userinfo_start", "host_start"}
  BY DEF HostStart
<1>. HIDE DEF e, h
<1>4. h.state \in HostWalkStates /\ ~InHost(h.state) /\ HostTop(h.state) \in 1..2
  BY <1>3 DEF HostWalkStates, InHost, HostTop
<1>5. e["host"].len = 0 /\ e["host"].off = lo /\ End(e, "host") = lo /\ lo \in Nat /\ lo <= hi /\ hi <= Len(url) /\ hi \in Nat
  BY <1>1, <1>2 DEF End, Outer
<1>6. \A n \in DOMAIN e : n # "host" => End(e, n) = End(f, n) /\ Bytes(e, n) = Bytes(f, n)
  BY <1>2 DEF End, Bytes
<1>7. \A n \in DOMAIN e : n \in FieldNames /\ e[n] \in [off : Nat, len : Nat] /\ End(e, n) <= Len(url)
  <2>. SUFFICES ASSUME NEW n \in DOMAIN e
                PROVE  n \in FieldNames /\ e[n] \in [off : Nat, len : Nat] /\ End(e, n) <= Len(url)
    OBVIOUS
  <2>1. CASE n = "host"
    BY <1>2, <1>5, <2>1 DEF FieldNames
  <2>2. CASE n # "host"
    BY <1>2, <1>6, <2>2 DEF Cut
  <2>. QED
    BY <2>1, <2>2
<1>8. \A m, n \in DOMAIN e : Rank(m) < Rank(n) /\ e[m].len # 0 /\ e[n].len # 0 => End(e, m) <= e[n].off
  <2>. SUFFICES ASSUME NEW m \in DOMAIN e, NEW n \in DOMAIN e, Rank(m) < Rank(n), e[m].len # 0, e[n].len # 0
                PROVE  End(e, m) <= e[n].off
    OBVIOUS
  <2>1. m # "host" /\ n # "host" /\ m \in DOMAIN f /\ n \in DOMAIN f
    BY <1>2, <1>5
  <2>2. e[m] = f[m] /\ e[n] = f[n] /\ End(e, m) = End(f, m)
    BY <1>2, <1>6, <2>1
  <2>. QED
    BY <2>1, <2>2 DEF Cut
<1>9. \A k \in 1..Len(url) : (k <= lo \/ hi < k) => url[k] \in UrlDelimiters \/ \E n \in DOMAIN e : k \in Bytes(e, n)
  <2>. SUFFICES ASSUME NEW k \in 1..Len(url), k <= lo \/ hi < k, url[k] \notin UrlDelimiters
                PROVE  \E n \in DOMAIN e : k \in Bytes(e, n)
    OBVIOUS
  <2>1. PICK n \in DOMAIN f : k \in Bytes(f, n)
    BY DEF Cut
  <2>2. n # "host"
    <3>1. Bytes(f, "host") = lo + 1..hi
      BY DEF Bytes, End
    <3>. QED
      BY <1>5, <2>1, <3>1
  <2>. QED
    BY <1>2, <1>6, <2>1, <2>2
<1>10. Cut(url, e, lo, hi)
  BY <1>7, <1>8, <1>9 DEF Cut
<1>11. \A n \in DOMAIN e :
         /\ n \in HostNames /\ e[n].len # 0 => End(e, n) <= lo /\ Rank(n) <= HostTop(h.state)
         /\ n \in {"userinfo", "port"} => e[n].len # 0
         /\ n \notin HostNames => n \in DOMAIN f /\ e[n] = f[n]
  <2>. SUFFICES ASSUME NEW n \in DOMAIN e
                PROVE  /\ n \in HostNames /\ e[n].len # 0 => End(e, n) <= lo /\ Rank(n) <= HostTop(h.state)
                       /\ n \in {"userinfo", "port"} => e[n].len # 0
                       /\ n \notin HostNames => n \in DOMAIN f /\ e[n] = f[n]
    OBVIOUS
  <2>1. n \in UrlNames
    BY <1>2 DEF Outer
  <2>2. n \notin {"userinfo", "port"} /\ (n \in HostNames => n = "host")
    BY <2>1 DEF UrlNames, HostNames
  <2>. QED
    BY <1>2, <1>5, <2>2 DEF HostNames
<1>12. HostWalked(url, f, lo, hi, h, lo)
  BY <1>2, <1>3, <1>4, <1>10, <1>11 DEF HostWalked
<1>. QED
  BY <1>12 DEF h

\* The second walk, at the end of the host.
LEMMA HostEndWalked ==
  ASSUME NEW url, Len(url) \in 0..FieldWidth - 1, NEW f, NEW lo, NEW hi, Outer(url, f, lo, hi), NEW start,
         HostWalked(url, f, lo, hi, start, lo)
  PROVE  HostWalked(url, f, lo, hi, HostWalk(url, start, lo + 1, hi)[hi], hi)
<1>. DEFINE w == HostWalk(url, start, lo + 1, hi)
            Walks == {k \in Nat : lo + k <= hi => HostWalked(url, f, lo, hi, w[lo + k], lo + k)}
<1>0. lo \in Nat /\ hi \in Nat /\ lo <= hi /\ lo + 1 \in Nat \ {0} /\ lo + 1 - 1 = lo
  BY DEF Outer
<1>1. \A i \in lo..hi : w[i] = IF i < lo + 1 THEN start ELSE HostStep(url, w[i - 1], i)
  <2>1. IsHostWalk(w, url, start, lo + 1, hi)
    BY <1>0, HostWalkExists
  <2>. QED
    BY <1>0, <2>1 DEF IsHostWalk
<1>. HIDE DEF w
<1>2. 0 \in Walks
  <2>1. lo + 0 = lo /\ lo \in lo..hi /\ lo < lo + 1
    BY <1>0
  <2>2. w[lo] = start
    BY <1>1, <2>1
  <2>. QED
    BY <2>1, <2>2
<1>3. \A k \in Nat : k \in Walks => k + 1 \in Walks
  <2>. SUFFICES ASSUME NEW k \in Nat, k \in Walks, lo + (k + 1) <= hi
                PROVE  HostWalked(url, f, lo, hi, w[lo + (k + 1)], lo + (k + 1))
    OBVIOUS
  <2>. DEFINE i == lo + (k + 1)
  <2>1. i \in lo + 1..hi /\ i \in lo..hi /\ ~(i < lo + 1) /\ i - 1 = lo + k /\ lo + k <= hi
    BY <1>0
  <2>2. HostWalked(url, f, lo, hi, w[lo + k], lo + k)
    BY <2>1
  <2>. HIDE DEF i
  <2>3. w[i] = HostStep(url, w[i - 1], i) /\ HostWalked(url, f, lo, hi, w[i - 1], i - 1)
    BY <1>1, <2>1, <2>2
  <2>4. HostWalked(url, f, lo, hi, w[i], i)
    BY <2>1, <2>3, HostStepWalks
  <2>. QED
    BY <2>4 DEF i
<1>4. hi - lo \in Nat /\ lo + (hi - lo) = hi
  BY <1>0
<1>5. hi - lo \in Walks
  <2>. HIDE DEF Walks
  <2>. QED
    BY <1>2, <1>3, <1>4, Induction
<1>. QED
  BY <1>0, <1>4, <1>5 DEF w

\* What the definition of ParseHost comes to.
LEMMA ParseHostIs ==
  ASSUME NEW url, NEW f, NEW foundAt
  PROVE  ParseHost(url, f, foundAt)
           = HostWalk(url, HostStart(f, foundAt), f["host"].off + 1, f["host"].off + f["host"].len)
               [f["host"].off + f["host"].len]
BY Zenon DEF ParseHost, HostWalk, IsHostWalk, HostStart

\* What the definition of ParseUrl comes to.
LEMMA ParseUrlIs ==
  ASSUME NEW url, NEW isConnect, ParseUrl(url, isConnect).ok,
         NEW end, end = UrlWalk(url, isConnect)[Len(url)],
         NEW host, host = ParseHost(url, end.fields, end.foundAt)
  PROVE  /\ end.state # "dead"
         /\ "schema" \in DOMAIN end.fields => "host" \in DOMAIN end.fields
         /\ IF "host" \in DOMAIN end.fields
            THEN host.state \in HostEnds /\ ParseUrl(url, isConnect) = UrlResult(url, host.fields, isConnect)
            ELSE ParseUrl(url, isConnect) = UrlResult(url, end.fields, isConnect)
<1>. DEFINE last == UrlWalk(url, isConnect)[Len(url)]
            second == ParseHost(url, last.fields, last.foundAt)
<1>0. ParseUrl(url, isConnect)
        = IF \/ url = <<>>
             \/ last.state = "dead"
             \/ "schema" \in DOMAIN last.fields /\ "host" \notin DOMAIN last.fields
          THEN BadUrl
          ELSE IF "host" \notin DOMAIN last.fields THEN UrlResult(url, last.fields, isConnect)
          ELSE IF second.state \notin HostEnds THEN BadUrl
          ELSE UrlResult(url, second.fields, isConnect)
  BY Zenon DEF ParseUrl, UrlWalk, IsUrlWalk, UrlStart
<1>. HIDE DEF last
<1>1. ParseUrl(url, isConnect)
        = IF \/ url = <<>>
             \/ end.state = "dead"
             \/ "schema" \in DOMAIN end.fields /\ "host" \notin DOMAIN end.fields
          THEN BadUrl
          ELSE IF "host" \notin DOMAIN end.fields THEN UrlResult(url, end.fields, isConnect)
          ELSE IF host.state \notin HostEnds THEN BadUrl
          ELSE UrlResult(url, host.fields, isConnect)
  <2>1. end = last
    BY DEF last
  <2>. QED
    BY <1>0, <2>1
<1>2. ~BadUrl.ok
  BY DEF BadUrl
<1>. QED
  BY <1>1, <1>2

\* What the definition of UrlResult comes to.
LEMMA UrlResultIs ==
  ASSUME NEW url, NEW f, NEW isConnect, UrlResult(url, f, isConnect).ok
  PROVE  /\ UrlResult(url, f, isConnect).fields = f
         /\ UrlResult(url, f, isConnect).port = IF "port" \in DOMAIN f THEN Decimal(Text(url, f, "port")) ELSE 0
<1>. DEFINE port == IF "port" \in DOMAIN f THEN Decimal(Text(url, f, "port")) ELSE 0
<1>1. UrlResult(url, f, isConnect)
        = IF \/ isConnect /\ DOMAIN f # {"host", "port"}
             \/ port > 65535
          THEN BadUrl
          ELSE [ok |-> TRUE, fields |-> f, port |-> port]
  BY DEF UrlResult
<1>2. ~BadUrl.ok
  BY DEF BadUrl
<1>. HIDE DEF port
<1>3. UrlResult(url, f, isConnect) = [ok |-> TRUE, fields |-> f, port |-> port]
  BY <1>1, <1>2
<1>. QED
  BY <1>3 DEF port

\* Of two pieces that come one after the other.
LEMMA Apart ==
  ASSUME NEW off \in Nat, NEW len \in Nat, NEW next \in Nat, NEW rest \in Nat, off + len <= next,
         NEW i \in off + 1 .. off + len, NEW j \in next + 1 .. next + rest
  PROVE  i < j
OBVIOUS

\* A text that is cut to its end is cut right.
LEMMA WholeUrlIsRight ==
  ASSUME NEW url, Len(url) \in Nat, NEW r, NEW hi, Cut(url, r.fields, hi, hi), hi \in Int,
         \A n \in DOMAIN r.fields : r.fields[n].len # 0,
         "schema" \in DOMAIN r.fields => "host" \in DOMAIN r.fields,
         r.port = IF "port" \in DOMAIN r.fields THEN Decimal(Text(url, r.fields, "port")) ELSE 0
  PROVE  FieldsAreRight(url, r)
<1>. DEFINE f == r.fields
            before(m, n) == \E i, j \in 1..7 : i < j /\ UrlFieldOrder[i] = m /\ UrlFieldOrder[j] = n
<1>1. \A n \in DOMAIN f : f[n].off \in Nat /\ f[n].len \in Nat \ {0} /\ f[n].off + f[n].len <= Len(url)
  BY DEF Cut, End
<1>0. \A m, n \in DOMAIN f : Rank(m) < Rank(n) => f[m].off + f[m].len <= f[n].off
  BY DEF Cut, End
<1>6. \A i \in 1..Len(url) : url[i] \in UrlDelimiters
                             \/ \E n \in DOMAIN f : i \in f[n].off + 1 .. f[n].off + f[n].len
  <2>1. \A i \in 1..Len(url) : i <= hi \/ hi < i
    OBVIOUS
  <2>2. \A i \in 1..Len(url) : (i <= hi \/ hi < i) => url[i] \in UrlDelimiters \/ \E n \in DOMAIN f : i \in Bytes(f, n)
    BY DEF Cut
  <2>. HIDE DEF f
  <2>. QED
    BY <2>1, <2>2 DEF Bytes
<1>2. \A m, n \in DOMAIN f : before(m, n) => Rank(m) < Rank(n)
  <2>. SUFFICES ASSUME NEW i \in 1..7, NEW j \in 1..7, i < j
                PROVE  Rank(UrlFieldOrder[i]) < Rank(UrlFieldOrder[j])
    OBVIOUS
  <2>1. \A k \in 1..7 : Rank(UrlFieldOrder[k]) = k
    BY SMTT(30) DEF UrlFieldOrder, Rank
  <2>. QED
    BY <2>1
<1>. HIDE DEF before, f
<1>3. \A n \in DOMAIN f : f[n].off + 1 .. f[n].off + f[n].len # {}
                          /\ f[n].off + 1 .. f[n].off + f[n].len \subseteq 1..Len(url)
  <2>. SUFFICES ASSUME NEW n \in DOMAIN f
                PROVE  f[n].off + 1 .. f[n].off + f[n].len # {}
                       /\ f[n].off + 1 .. f[n].off + f[n].len \subseteq 1..Len(url)
    OBVIOUS
  <2>. DEFINE off == f[n].off
              len == f[n].len
  <2>1. off \in Nat /\ len \in Nat \ {0} /\ off + len <= Len(url)
    BY <1>1
  <2>. HIDE DEF off, len
  <2>2. off + 1 \in off + 1 .. off + len /\ off + 1 .. off + len \subseteq 1..Len(url)
    BY <2>1
  <2>. QED
    BY <2>2 DEF off, len
<1>4. \A m, n \in DOMAIN f : before(m, n) =>
        \A i \in f[m].off + 1 .. f[m].off + f[m].len, j \in f[n].off + 1 .. f[n].off + f[n].len : i < j
  <2>. SUFFICES ASSUME NEW m \in DOMAIN f, NEW n \in DOMAIN f, before(m, n),
                       NEW i \in f[m].off + 1 .. f[m].off + f[m].len, NEW j \in f[n].off + 1 .. f[n].off + f[n].len
                PROVE  i < j
    OBVIOUS
  <2>. QED
    BY <1>0, <1>1, <1>2, Apart
<1>. QED
  BY <1>3, <1>4, <1>6 DEF FieldsAreRight, before, f

\* Whatever the text, if it is parsed then into the right fields.
LEMMA ParsedUrlIsRight ==
  ASSUME NEW url, Len(url) \in 0..FieldWidth - 1, NEW isConnect, ParseUrl(url, isConnect).ok
  PROVE  FieldsAreRight(url, ParseUrl(url, isConnect))
<1>. DEFINE r == ParseUrl(url, isConnect)
            end == UrlWalk(url, isConnect)[Len(url)]
            f == end.fields
            host == ParseHost(url, f, end.foundAt)
<1>1. /\ end.state # "dead"
      /\ "schema" \in DOMAIN f => "host" \in DOMAIN f
      /\ IF "host" \in DOMAIN f
         THEN host.state \in HostEnds /\ r = UrlResult(url, host.fields, isConnect)
         ELSE r = UrlResult(url, f, isConnect)
  BY ParseUrlIs
<1>2. UrlWalked(url, end, Len(url))
  BY UrlEndWalked
<1>3. Len(url) \in Nat
  BY FieldWidthAssumption
<1>. HIDE DEF end, r
<1>4. Cut(url, f, Len(url), Len(url)) /\ \A n \in DOMAIN f : n \in UrlNames /\ f[n].len # 0
  BY <1>1, <1>2 DEF UrlWalked
<1>5. CASE "host" \notin DOMAIN f
  <2>1. r = UrlResult(url, f, isConnect) /\ r.ok
    BY <1>1, <1>5 DEF r
  <2>2. r.fields = f /\ r.port = IF "port" \in DOMAIN f THEN Decimal(Text(url, f, "port")) ELSE 0
    BY <2>1, UrlResultIs
  <2>3. FieldsAreRight(url, r)
    <3>1. Len(url) \in Int /\ Cut(url, r.fields, Len(url), Len(url))
      BY <1>3, <1>4, <2>2
    <3>2. /\ \A n \in DOMAIN r.fields : r.fields[n].len # 0
          /\ "schema" \in DOMAIN r.fields => "host" \in DOMAIN r.fields
          /\ r.port = IF "port" \in DOMAIN r.fields THEN Decimal(Text(url, r.fields, "port")) ELSE 0
      BY <1>1, <1>4, <2>2
    <3>. HIDE DEF f
    <3>. QED
      BY <1>3, <3>1, <3>2, WholeUrlIsRight
  <2>. QED
    BY <2>3 DEF r
<1>6. CASE "host" \in DOMAIN f
  <2>. DEFINE lo == f["host"].off
              hi == lo + f["host"].len
              start == HostStart(f, end.foundAt)
  <2>1. /\ \A n \in DOMAIN f : n \in FieldNames /\ f[n] \in [off : Nat, len : Nat] /\ End(f, n) <= Len(url)
        /\ \A m, n \in DOMAIN f : Rank(m) < Rank(n) /\ f[m].len # 0 /\ f[n].len # 0 => End(f, m) <= f[n].off
    BY <1>4 DEF Cut
  <2>2. lo \in Nat /\ hi \in Nat /\ lo <= hi /\ hi <= Len(url) /\ hi = End(f, "host")
    BY <1>3, <1>6, <2>1 DEF End
  <2>3. \A n \in DOMAIN f : (n = "schema" => End(f, n) <= lo) /\ (n \in {"path", "query", "fragment"} => hi <= f[n].off)
    <3>. SUFFICES ASSUME NEW n \in DOMAIN f
                  PROVE  (n = "schema" => End(f, n) <= lo) /\ (n \in {"path", "query", "fragment"} => hi <= f[n].off)
      OBVIOUS
    <3>1. n = "schema" => Rank(n) < Rank("host")
      BY DEF Rank
    <3>2. n \in {"path", "query", "fragment"} => Rank("host") < Rank(n)
      BY DEF Rank
    <3>. QED
      BY <1>4, <1>6, <2>1, <2>2, <3>1, <3>2
  <2>4. Outer(url, f, lo, hi)
    BY <1>4, <1>6, <2>2, <2>3 DEF Outer
  <2>5. HostWalked(url, f, lo, hi, start, lo)
    BY <1>3, <1>4, <2>2, <2>4, HostStartWalked
  <2>6. host = HostWalk(url, start, lo + 1, hi)[hi]
    BY ParseHostIs
  <2>. HIDE DEF start, lo, hi, host
  <2>7. HostWalked(url, f, lo, hi, host, hi)
    BY <2>4, <2>5, <2>6, HostEndWalked
  <2>8. host.state \in HostEnds /\ r = UrlResult(url, host.fields, isConnect) /\ r.ok
    BY <1>1, <1>6 DEF r
  <2>9. host.state # "host_dead" /\ HostTop(host.state) >= 3
    BY <2>8 DEF HostEnds, HostTop
  <2>10. /\ Cut(url, host.fields, hi, hi) /\ DOMAIN f \subseteq DOMAIN host.fields
         /\ \A n \in DOMAIN host.fields :
              /\ n \in {"userinfo", "port"} => host.fields[n].len # 0
              /\ n \notin HostNames => n \in DOMAIN f /\ host.fields[n] = f[n]
         /\ host.fields["host"].len # 0
    BY <2>7, <2>9 DEF HostWalked
  <2>11. \A n \in DOMAIN host.fields : host.fields[n].len # 0
    BY <1>4, <2>10 DEF HostNames
  <2>12. r.fields = host.fields
         /\ r.port = IF "port" \in DOMAIN host.fields THEN Decimal(Text(url, host.fields, "port")) ELSE 0
    BY <2>8, UrlResultIs
  <2>13. "host" \in DOMAIN host.fields /\ hi \in Int
    BY <1>6, <2>2, <2>10
  <2>14. FieldsAreRight(url, r)
    <3>1. Cut(url, r.fields, hi, hi) /\ hi \in Int /\ \A n \in DOMAIN r.fields : r.fields[n].len # 0
      BY <2>10, <2>11, <2>12, <2>13
    <3>2. /\ "schema" \in DOMAIN r.fields => "host" \in DOMAIN r.fields
          /\ r.port = IF "port" \in DOMAIN r.fields THEN Decimal(Text(url, r.fields, "port")) ELSE 0
      BY <2>12, <2>13
    <3>. QED
      BY <1>3, <3>1, <3>2, WholeUrlIsRight
  <2>. QED
    BY <2>14 DEF r
<1>. QED
  BY <1>5, <1>6

\* Of every target that is shorter than 64 KB, whatever its characters, the
\* fields that http_parser_parse_url cuts are disjoint, in order, complete but
\* for delimiters, and have the port that is written.
THEOREM UrlFieldsAreRightHolds == Spec => []UrlFieldsAreRight
<1>1. UrlFieldsAreRight
  BY ParsedUrlIsRight DEF UrlFieldsAreRight
<1>. QED
  BY <1>1, PTL
=============================================================================
