------------------------------ MODULE JsonParser ------------------------------
(***************************************************************************)
(* The parser of qjsonparser.cpp: it reads a text, a sequence of bytes,    *)
(* and writes the binary form of JsonLayout.  `p` is the Parser object:    *)
(* the text, the position of the next byte (json), the memory (mem) and    *)
(* its first free byte (current), the nesting level, the last error, and   *)
(* what the functions hand back through their arguments: the token that    *)
(* was read and the Value that was parsed.  Where in the text an error was *)
(* found is left out, and so are bytes of 128 or more after a backslash.   *)
(***************************************************************************)
EXTENDS JsonLayout

CONSTANT NestingLimit     \* 1024

ASSUME NestingAssumption == NestingLimit \in Nat

BeginArray == 91

BeginObject == 123

EndArray == 93

EndObject == 125

NameSeparator == 58

ValueSeparator == 44

Quote == 34

Backslash == 92

Spaces == {32, 9, 10, 13}

Digits == 48..57

NoError == "NoError"

NoToken == 0

-----------------------------------------------------------------------------
(* The text *)

ByteAt(text, i) == IF i <= Len(text) THEN text[i] ELSE 0

\* The first position from i on that holds no byte of S.
After(text, i, S) ==
    CHOOSE j \in i..(Len(text) + 1) :
        /\ j > Len(text) \/ text[j] \notin S
        /\ \A k \in i..(j - 1) : text[k] \in S

AtEnd(p) == p.json > Len(p.text)

EatSpace(p) == IF AtEnd(p) THEN p ELSE [p EXCEPT !.json = After(p.text, p.json, Spaces)]

EatBOM(p) ==
    IF Len(p.text) > 3 /\ SubSeq(p.text, 1, 3) = <<239, 187, 191>>
    THEN [p EXCEPT !.json = 4] ELSE p

Fail(p, error) == [p EXCEPT !.error = error]

Failed(p) == p.error # NoError

\* What the caller does next, unless p has failed: then it returns, too.
Then(p, Rest(_)) == IF Failed(p) THEN p ELSE Rest(p)

NextToken(p) ==
    LET q == EatSpace(p)
        c == ByteAt(q.text, q.json)
        structural == {BeginArray, BeginObject, NameSeparator, ValueSeparator, EndArray, EndObject}
        read == [q EXCEPT !.json = @ + 1]
    IN  CASE AtEnd(q) -> [q EXCEPT !.token = NoToken]
          [] ~AtEnd(q) /\ c \in structural -> [EatSpace(read) EXCEPT !.token = c]
          [] ~AtEnd(q) /\ c = Quote -> [read EXCEPT !.token = c]
          [] OTHER -> [read EXCEPT !.token = NoToken]

\* reserveSpace
Reserve(p, n) == [p EXCEPT !.current = @ + n]

Written(p, cells) == [p EXCEPT !.mem = cells @@ @]

-----------------------------------------------------------------------------
(* Strings *)

HexValue(c) ==
    CASE c \in Digits -> c - 48
      [] c \in 97..102 -> c - 87
      [] c \in 65..70 -> c - 55

IsHex(c) == c \in Digits \cup 97..102 \cup 65..70

NoChar == [ch |-> -1, json |-> 0]

Escapes == 98 :> 8 @@ 102 :> 12 @@ 110 :> 10 @@ 114 :> 13 @@ 116 :> 9

\* scanEscapeSequence, for the backslash at position i.  What is no escape of
\* JSON stands for the character itself.
ScanEscape(text, i) ==
    LET c == ByteAt(text, i + 1)
        digit(k) == text[i + 1 + k]
    IN  CASE i + 1 > Len(text) -> NoChar
          [] i + 1 <= Len(text) /\ c = 117 ->
                IF i + 5 <= Len(text) /\ \A k \in 1..4 : IsHex(digit(k))
                THEN [ch |-> 4096 * HexValue(digit(1)) + 256 * HexValue(digit(2))
                             + 16 * HexValue(digit(3)) + HexValue(digit(4)),
                      json |-> i + 6]
                ELSE NoChar
          [] OTHER -> [ch |-> IF c \in DOMAIN Escapes THEN Escapes[c] ELSE c, json |-> i + 2]

IsNonCharacter(u) == (u % 65536) \in {65534, 65535} \/ u \in 64976..64991

\* scanUtf8Char: a character of several bytes must have one more byte after it.
ScanUtf8(text, i) ==
    LET c == text[i]
        need == CASE c < 128 -> 0 [] c \in 192..223 -> 1 [] c \in 224..239 -> 2
                  [] c \in 240..247 -> 3 [] OTHER -> -1
        least == <<0, 128, 2048, 65536>>
        lead == <<c, c % 32, c % 16, c % 8>>
        tail(k) == text[i + k] % 64
        u == CASE need = 0 -> c
               [] need = 1 -> lead[2] * 64 + tail(1)
               [] need = 2 -> (lead[3] * 64 + tail(1)) * 64 + tail(2)
               [] need = 3 -> ((lead[4] * 64 + tail(1)) * 64 + tail(2)) * 64 + tail(3)
    IN  IF \/ need = 0
           \/ /\ need > 0 /\ i + need + 1 <= Len(text)
              /\ \A k \in 1..need : text[i + k] \in 128..191
              /\ ~IsNonCharacter(u) /\ u < 1114112 /\ u >= least[need + 1] /\ u \notin 55296..57343
        THEN [ch |-> u, json |-> i + need + 1] ELSE NoChar

Utf16(u) ==
    IF u >= 65536 THEN <<55296 + ((u - 65536) \div 1024), 56320 + ((u - 65536) % 1024)>> ELSE <<u>>

\* One pass over the characters of a string; the pass that writes Latin-1
\* gives up at a wide character and when the string grows too long.
RECURSIVE ScanChars(_, _, _, _, _)
Scanned(c, text, start, i, latin, units) ==
    CASE c = NoChar ->
            [error |-> IF text[i] = Backslash THEN "IllegalEscapeSequence" ELSE "IllegalUTF8String",
             json |-> i, wide |-> FALSE, units |-> units]
      [] c # NoChar /\ latin /\ (c.ch > 255 \/ c.json - start >= LatinLimit) ->
            [error |-> NoError, json |-> c.json + 1, wide |-> TRUE, units |-> units]
      [] OTHER -> ScanChars(text, start, c.json, latin, units \o Utf16(c.ch))

ScanChars(text, start, i, latin, units) ==
    IF i > Len(text) \/ text[i] = Quote
    THEN [error |-> NoError, json |-> i + 1, wide |-> FALSE, units |-> units]
    ELSE Scanned(IF text[i] = Backslash THEN ScanEscape(text, i) ELSE ScanUtf8(text, i),
                 text, start, i, latin, units)

\* The String that the last pass has read.
StringRead(p, s, latin) ==
    CASE s.error # NoError -> Fail(p, s.error)
      [] s.error = NoError /\ s.json > Len(p.text) -> Fail(p, "UnterminatedString")
      [] OTHER -> [Reserve(Written(p, StringCells(p.current, s.units, latin)), QStringSize(s.units, latin))
                     EXCEPT !.json = s.json, !.token = IF latin THEN 1 ELSE 0]

\* parseString, after the opening quote; the token says whether it is Latin-1.
ParseString(p) ==
    LET pass(latin) == ScanChars(p.text, p.json, p.json, latin, <<>>)
        again(first) == first.error = NoError /\ first.wide /\ first.json <= Len(p.text)
        read(first) == StringRead(p, IF again(first) THEN pass(FALSE) ELSE first, ~first.wide)
    IN  read(pass(TRUE))

-----------------------------------------------------------------------------
(* Numbers *)

RECURSIVE Decimal(_, _, _)
Decimal(text, i, j) ==
    IF i = j THEN 0 ELSE 10 * Decimal(text, i, j - 1) + text[j - 1] - 48

\* QByteArray::toDouble, in thousandths: the digits of the fraction and of the
\* whole number, times a power of ten.
RECURSIVE Scaled(_, _)
Scaled(n, power) ==
    CASE power = 0 -> n [] power > 0 -> Scaled(10 * n, power - 1)
      [] power < 0 -> Scaled(n \div 10, power + 1)

\* The number whose digits are at m up to i, then up to f behind a point.
NumberRead(p, base, sign, m, i, f) ==
    LET text == p.text
        hasFraction == f > i
        hasExponent == ByteAt(text, f) \in {69, 101}
        x == IF ByteAt(text, f + 1) \in {43, 45} THEN f + 2 ELSE f + 1
        e == IF hasExponent THEN After(text, x, Digits) ELSE f
        isInt == ~hasFraction /\ ~hasExponent
        power == IF ~hasExponent THEN 0
                 ELSE (IF ByteAt(text, f + 1) = 45 THEN -1 ELSE 1) * Decimal(text, x, e)
        fraction == IF hasFraction THEN Scaled(Decimal(text, i + 1, f), 3 - (f - i - 1)) ELSE 0
        n == sign * Scaled(Decimal(text, m, i) * Thousand + fraction, power)
        ok == (i > m \/ f > i + 1) /\ (hasExponent => e > x)
        next == [p EXCEPT !.json = e]
    IN  CASE e > Len(text) -> Fail(p, "TerminationByNumber")
          [] e <= Len(text) /\ ok /\ isInt /\ (n \div Thousand) \in (1 - IntLimit)..(IntLimit - 1) ->
                [next EXCEPT !.val = ValueCell("Double", TRUE, n \div Thousand)]
          [] e <= Len(text) /\ ~ok -> Fail(p, "IllegalNumber")
          [] e <= Len(text) /\ p.current + 8 - base >= MaxSize -> Fail(p, "DocumentTooLarge")
          [] OTHER -> [Reserve(Written(next, p.current :> n), 8)
                         EXCEPT !.val = ValueCell("Double", FALSE, p.current - base)]

ParseNumber(p, base) ==
    LET text == p.text
        m == IF ByteAt(text, p.json) = 45 THEN p.json + 1 ELSE p.json
        fraction(i) == IF ByteAt(text, i) = 46 THEN After(text, i + 1, Digits) ELSE i
        from(i) == NumberRead(p, base, IF m > p.json THEN -1 ELSE 1, m, i, fraction(i))
    IN  from(IF ByteAt(text, m) = 48 THEN m + 1 ELSE After(text, m, Digits))

-----------------------------------------------------------------------------
(* Arrays, objects and values *)

\* Entry::operator== of two Latin-1 keys goes to the end of a C string: where no
\* padding ends the keys, what follows them in memory decides (p.agrees).
SameKey(p, e, f) ==
    LET s == StringAt(p.mem, e + 4, p.mem[e].latinKey)
    IN  /\ s = StringAt(p.mem, f + 4, p.mem[f].latinKey)
        /\ p.mem[e].latinKey /\ p.mem[f].latinKey /\ (2 + Len(s)) % 4 = 0 => p.agrees

\* mutant: a member that is there already stays what it was.
KeepsFirst(p, base, offsets, off) ==
    LET key(o) == StringAt(p.mem, base + o + 4, p.mem[base + o].latinKey)
        n == Len(offsets)
        min == LowerBound([i \in 0..(n - 1) |-> key(offsets[i + 1])], key(off), 0, n)
    IN  IF min < n /\ SameKey(p, base + offsets[min + 1], base + off) THEN offsets
        ELSE SubSeq(offsets, 1, min) \o <<off>> \o SubSeq(offsets, min + 1, n)

\* ParsedObject::insert: the offsets of the entries, in the order of their keys.
InsertOffset(p, base, offsets, off) ==
    LET key(o) == StringAt(p.mem, base + o + 4, p.mem[base + o].latinKey)
        n == Len(offsets)
        min == LowerBound([i \in 0..(n - 1) |-> key(offsets[i + 1])], key(off), 0, n)
    IN  IF min < n /\ SameKey(p, base + offsets[min + 1], base + off)
        THEN [offsets EXCEPT ![min + 1] = off]
        ELSE SubSeq(offsets, 1, min) \o <<off>> \o SubSeq(offsets, min + 1, n)

\* The table and the head of an array or object, once its elements are there.
Finished(p, base, isObject, elements) ==
    LET n == Len(elements)
        table == p.current
        slots == [x \in {table + 4 * (i - 1) : i \in 1..n} |-> elements[((x - table) \div 4) + 1]]
        head == BaseCell(table + 4 * n - base, isObject, n, IF n = 0 THEN 0 ELSE table - base)
    IN  [Reserve(Written(p, slots @@ base :> head), 4 * n) EXCEPT !.nesting = @ - 1]

\* The start of an array or object: its Base is reserved at the old `current`.
Opened(p) ==
    LET q == [p EXCEPT !.nesting = @ + 1]
    IN  IF q.nesting > NestingLimit THEN Fail(q, "DeepNesting") ELSE Reserve(q, BaseSize)

\* The next token must be this one.
Expected(p, token, error) == IF p.token = token THEN p ELSE Fail(p, error)

RECURSIVE ParseValue(_, _)
ParseMember(p, base) ==
    Then(ParseString(Reserve(p, 4)), LAMBDA key :
        Then(Expected(NextToken(key), NameSeparator, "MissingNameSeparator"), LAMBDA colon :
            Then(ParseValue(colon, base), LAMBDA v :
                Written(v, p.current :> [v.val EXCEPT !.latinKey = (key.token = 1)]))))

RECURSIVE ParseMembers(_, _, _)
ParseMembers(p, base, offsets) ==
    CASE p.token = EndObject -> Finished(p, base, TRUE, offsets)
      [] p.token \notin {EndObject, Quote} -> Fail(p, "UnterminatedObject")
      [] OTHER -> Then(ParseMember(p, base), LAMBDA member :
            LET all == InsertOffset(member, base, offsets, p.current - base)
                next == NextToken(member)
                further == NextToken(next)
            IN  CASE next.token = EndObject -> Finished(next, base, TRUE, all)
                  [] next.token = ValueSeparator ->
                        IF further.token = EndObject THEN Fail(further, "MissingObject")
                        ELSE ParseMembers(further, base, all)
                  [] OTHER -> Fail(next, "UnterminatedObject"))

ParseObject(p) == Then(Opened(p), LAMBDA q : ParseMembers(NextToken(q), p.current, <<>>))

RECURSIVE ParseItems(_, _, _)
ParseItems(p, base, items) ==
    Then(ParseValue(p, base), LAMBDA v :
        LET all == Append(items, v.val)
            next == NextToken(v)
        IN  CASE next.token = EndArray -> Finished(next, base, FALSE, all)
              [] next.token = ValueSeparator -> ParseItems(next, base, all)
              [] OTHER -> Fail(next, IF AtEnd(EatSpace(next)) THEN "UnterminatedArray"
                                     ELSE "MissingValueSeparator"))

ParseArray(p) ==
    Then(Opened(p), LAMBDA opened :
        LET q == EatSpace(opened)
        IN  CASE AtEnd(q) -> Fail(q, "UnterminatedArray")
              [] ~AtEnd(q) /\ ByteAt(q.text, q.json) = EndArray ->
                    Finished(NextToken(q), p.current, FALSE, <<>>)
              [] OTHER -> ParseItems(q, p.current, <<>>))

\* The words of JSON.  What a word needs is counted from its second letter on,
\* so that one more byte must follow it.
Words == <<[text |-> <<110, 117, 108, 108>>, val |-> ValueCell("Null", FALSE, 0)],
           [text |-> <<116, 114, 117, 101>>, val |-> ValueCell("Bool", FALSE, 1)],
           [text |-> <<102, 97, 108, 115, 101>>, val |-> ValueCell("Bool", FALSE, 0)]>>

ParseWord(p, word) ==
    LET n == Len(word.text)
    IN  IF p.json + n <= Len(p.text) /\ SubSeq(p.text, p.json, p.json + n - 1) = word.text
        THEN [p EXCEPT !.json = @ + n, !.val = word.val]
        ELSE Fail(p, "IllegalValue")

ParseValue(p, base) ==
    LET c == ByteAt(p.text, p.json)
        words == {i \in DOMAIN Words : Words[i].text[1] = c}
        read == [p EXCEPT !.json = @ + 1]
        type == CASE c = Quote -> "String" [] c = BeginArray -> "Array" [] OTHER -> "Object"
    IN  CASE words # {} -> ParseWord(p, Words[CHOOSE i \in words : TRUE])
          [] c \in {Quote, BeginArray, BeginObject} ->
                IF p.current - base >= MaxSize THEN Fail(p, "DocumentTooLarge")
                ELSE Then(CASE c = Quote -> ParseString(read) [] c = BeginArray -> ParseArray(read)
                            [] OTHER -> ParseObject(read),
                          LAMBDA q :
                            [q EXCEPT !.val = ValueCell(type, c = Quote /\ q.token = 1, p.current - base)])
          [] c = EndArray -> Fail(p, "MissingObject")
          [] OTHER -> ParseNumber(p, base)

ParserOf(text, agrees) ==
    [text |-> text, agrees |-> agrees, json |-> 1, mem |-> <<>>, current |-> HeaderSize,
     nesting |-> 0, error |-> NoError, token |-> NoToken, val |-> ValueCell("Null", FALSE, 0)]

\* Nothing but white space may follow.
Ended(p) ==
    [error |-> IF Failed(p) \/ AtEnd(EatSpace(p)) THEN p.error ELSE "GarbageAtEnd",
     mem |-> p.mem, alloc |-> p.current]

\* Parser::parse: the memory of the document and how much of it is used, or why
\* there is none.
Parse(text, agrees) ==
    LET p == NextToken(EatBOM(ParserOf(text, agrees)))
    IN  Ended(CASE p.token = BeginArray -> ParseArray(p)
                [] p.token = BeginObject -> ParseObject(p)
                [] OTHER -> Fail(p, "IllegalValue"))

=============================================================================
