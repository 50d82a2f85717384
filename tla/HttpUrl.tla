-------------------------------- MODULE HttpUrl --------------------------------
(***************************************************************************)
(* The URL parser of src/src/http-parser/http_parser.c: the automaton that *)
(* http_parser_execute runs over the target of a request, and              *)
(* http_parser_parse_url, which cuts a URL into fields with it.            *)
(*                                                                         *)
(* A text is a sequence of one-letter strings, and "CR", "LF", "HT",       *)
(* "NUL" and "DEL" are control characters.  Both automata are tables of    *)
(* moves <<from, characters, to>>.                                         *)
(***************************************************************************)
EXTENDS Integers, Sequences, SequencesExt

CONSTANT
  FieldWidth  \* 2^16: off and len of a field are of type uint16_t

ASSUME FieldWidthAssumption == FieldWidth \in Nat \ {0}

\* The characters of the string w.
Spell(w) == [i \in 1..Len(w) |-> SubSeq(w, i, i)]

Characters(w) == {SubSeq(w, i, i) : i \in 1..Len(w)}

Upper == Characters("ABCDEFGHIJKLMNOPQRSTUVWXYZ")
Alpha == Upper \cup Characters("abcdefghijklmnopqrstuvwxyz")
Num == Characters("0123456789")

DigitValue == [d \in Num |-> (CHOOSE n \in 1..10 : Spell("0123456789")[n] = d) - 1]

Hex == Num \cup Characters("abcdefABCDEF")
UserinfoChar == Alpha \cup Num \cup Characters("-_.!~*'()%;:&=+$,")
HostChar == Alpha \cup Num \cup {".", "-"}
UrlChar == UserinfoChar \cup Characters("/@[]{}<>|^\"\\")
ZoneChar == Alpha \cup Num \cup Characters("%.-_~")

-----------------------------------------------------------------------------
\* Where a table of moves leads from s over ch.
Move(moves, s, ch, otherwise) ==
  IF \E m \in moves : s \in m[1] /\ ch \in m[2]
  THEN (CHOOSE m \in moves : s \in m[1] /\ ch \in m[2])[3]
  ELSE otherwise

ServerStates == {"server_start", "server", "server_with_at"}
QueryStates == {"query_string_start", "query_string"}

UrlMoves ==
  {<<{"spaces_before_url"}, {"/", "*"}, "path">>,
   <<{"spaces_before_url", "schema"}, Alpha, "schema">>,
   <<{"schema"}, {":"}, "schema_slash">>,
   <<{"schema_slash"}, {"/"}, "schema_slash_slash">>,
   <<{"schema_slash_slash"}, {"/"}, "server_start">>,
   <<ServerStates, {"/"}, "path">>,
   <<ServerStates, {"?"}, "query_string_start">>,
   <<{"server_start", "server"}, {"@"}, "server_with_at">>,
   <<ServerStates, UserinfoChar \cup {"[", "]"}, "server">>,
   <<{"path"}, UrlChar, "path">>,
   <<{"path"}, {"?"}, "query_string_start">>,
   <<QueryStates, UrlChar \cup {"?"}, "query_string">>,
   <<{"path"} \cup QueryStates, {"#"}, "fragment_start">>,
   <<{"fragment_start"}, {"#"}, "fragment_start">>,
   <<{"fragment_start", "fragment"}, UrlChar \cup {"?"}, "fragment">>,
   <<{"fragment"}, {"#"}, "fragment">>}

\* parse_url_char
ParseUrlChar(s, ch) == Move(UrlMoves, s, ch, "dead")

HostMoves ==
  {<<{"userinfo_start", "userinfo"}, {"@"}, "host_start">>,
   <<{"userinfo_start", "userinfo"}, UserinfoChar, "userinfo">>,
   <<{"host_start"}, {"["}, "host_v6_start">>,
   <<{"host_start", "host"}, HostChar, "host">>,
   <<{"host", "host_v6_end"}, {":"}, "host_port_start">>,
   <<{"host_v6", "host_v6_zone"}, {"]"}, "host_v6_end">>,
   <<{"host_v6_start", "host_v6"}, Hex \cup {":", "."}, "host_v6">>,
   <<{"host_v6"}, {"%"}, "host_v6_zone_start">>,
   <<{"host_v6_zone_start", "host_v6_zone"}, ZoneChar, "host_v6_zone">>,
   <<{"host_port_start", "host_port"}, Num, "host_port">>}

\* http_parse_host_char
ParseHostChar(s, ch) == Move(HostMoves, s, ch, "host_dead")

-----------------------------------------------------------------------------
\* The bits of field_set with their field_data: off counts from 0.
NoFields == [f \in {} |-> [off |-> 0, len |-> 0]]

\* mutant: off counts from 1
StartsLate(fields, f, i) == [x \in DOMAIN fields \cup {f} |->
                               IF x = f THEN [off |-> i % FieldWidth, len |-> 1] ELSE fields[x]]

Starts(fields, f, i) == [x \in DOMAIN fields \cup {f} |->
                           IF x = f THEN [off |-> (i - 1) % FieldWidth, len |-> 1] ELSE fields[x]]

Grows(fields, f) == [fields EXCEPT ![f].len = (@ + 1) % FieldWidth]

\* The text of field f.
Text(url, fields, f) == SubSeq(url, fields[f].off + 1, fields[f].off + fields[f].len)

\* The field that a character of the host belongs to, by the state it leads to.
HostFieldOf == [host |-> "host", host_v6 |-> "host", host_v6_zone_start |-> "host",
                host_v6_zone |-> "host", host_port |-> "port", userinfo |-> "userinfo"]

\* Where http_parse_host may end.
HostEnds == {"host", "host_v6_end", "host_port"}

HostStep(url, h, i) ==
  LET s == ParseHostChar(h.state, url[i])
  IN  IF s \notin DOMAIN HostFieldOf THEN [h EXCEPT !.state = s]
      ELSE LET f == HostFieldOf[s]
               \* the states that set off when they are entered
               begins == s \in {"host", "host_v6", "host_port", "userinfo"} /\ s # h.state
           IN  [state |-> s,
                fields |-> IF begins THEN Starts(h.fields, f, i) ELSE Grows(h.fields, f)]

\* http_parse_host over url[from..to]: the fields, and the state it ends in.
ParseHost(url, fields, foundAt) ==
  LET from == fields["host"].off + 1
      to == fields["host"].off + fields["host"].len
      start == [state |-> IF foundAt THEN "userinfo_start" ELSE "host_start",
                fields |-> [fields EXCEPT !["host"].len = 0]]
      walk[i \in (from - 1)..to] ==
        IF i < from THEN start ELSE HostStep(url, walk[i - 1], i)
  IN  walk[to]

\* The field that a character of the URL belongs to, by the state it leads to.
UrlFieldOf == [schema |-> "schema", server_with_at |-> "host", server |-> "host",
               path |-> "path", query_string |-> "query", fragment |-> "fragment"]

UrlStep(u, ch, i) ==
  LET s == ParseUrlChar(u.state, ch)
      moved == [u EXCEPT !.state = s, !.foundAt = @ \/ s = "server_with_at"]
  IN  IF s \notin DOMAIN UrlFieldOf THEN moved
      ELSE [moved EXCEPT !.field = UrlFieldOf[s],
                         !.fields = IF u.field = UrlFieldOf[s] THEN Grows(@, u.field)
                                    ELSE Starts(@, UrlFieldOf[s], i)]

\* The number that the digits of text write.
Decimal(text) == FoldLeft(LAMBDA v, d : v * 10 + DigitValue[d], 0, text)

BadUrl == [ok |-> FALSE, fields |-> NoFields, port |-> 0]

UrlResult(url, fields, isConnect) ==
  LET port == IF "port" \in DOMAIN fields THEN Decimal(Text(url, fields, "port")) ELSE 0
  IN  IF \/ isConnect /\ DOMAIN fields # {"host", "port"}
         \/ port > 65535
      THEN BadUrl
      ELSE [ok |-> TRUE, fields |-> fields, port |-> port]

\* http_parser_parse_url
ParseUrl(url, isConnect) ==
  LET start == [state |-> IF isConnect THEN "server_start" ELSE "spaces_before_url",
                field |-> "none", fields |-> NoFields, foundAt |-> FALSE]
      walk[i \in 0..Len(url)] == IF i = 0 THEN start ELSE UrlStep(walk[i - 1], url[i], i)
      end == walk[Len(url)]
      host == ParseHost(url, end.fields, end.foundAt)
  IN  IF \/ url = <<>>
         \/ end.state = "dead"
         \/ "schema" \in DOMAIN end.fields /\ "host" \notin DOMAIN end.fields
      THEN BadUrl
      ELSE IF "host" \notin DOMAIN end.fields THEN UrlResult(url, end.fields, isConnect)
      ELSE IF host.state \notin HostEnds THEN BadUrl
      ELSE UrlResult(url, host.fields, isConnect)
================================================================================
