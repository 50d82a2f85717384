------------------------------- MODULE JsonText -------------------------------
(***************************************************************************)
(* What a text of JSON means, said without a parser: brackets, commas and  *)
(* colons count where they stand outside of strings and outside of inner   *)
(* brackets, and the pieces between them mean something by themselves.     *)
(* It is the JSON of RFC 4627, as the grammars in the parser's comments    *)
(* give it, with what those comments say besides: any character may stand  *)
(* behind a backslash, and non-characters are no text.  What the parser    *)
(* takes against its grammars is in Completed.                             *)
(***************************************************************************)
EXTENDS JsonLayout

LOCAL INSTANCE SequencesExt

NoMeaning == [type |-> "None"]

Blank == {9, 10, 13, 32}

Figures == 48..57

\* The text without the blanks around it.
Trim(t) ==
    LET solid == {i \in DOMAIN t : t[i] \notin Blank}
        first == CHOOSE i \in solid : \A j \in solid : i <= j
        last == CHOOSE i \in solid : \A j \in solid : i >= j
    IN  IF solid = {} THEN <<>> ELSE SubSeq(t, first, last)

\* At every position: is it in a string, is it escaped, and how deep is it.
Scan(t) ==
    LET s[i \in 0..Len(t)] ==
            IF i = 0 THEN [quoted |-> FALSE, escaped |-> FALSE, depth |-> 0]
            ELSE LET b == s[i - 1]
                 IN  [quoted |-> IF t[i] = 34 /\ ~b.escaped THEN ~b.quoted ELSE b.quoted,
                      escaped |-> b.quoted /\ t[i] = 92 /\ ~b.escaped,
                      depth |-> b.depth + CASE b.quoted -> 0
                                            [] ~b.quoted /\ t[i] \in {91, 123} -> 1
                                            [] ~b.quoted /\ t[i] \in {93, 125} -> -1
                                            [] OTHER -> 0]
    IN  s

\* How deep the brackets of a text are nested.
Depth(t) ==
    LET s == Scan(t) IN CHOOSE n \in 0..Len(t) : (n = 0 \/ \E i \in DOMAIN t : s[i].depth = n)
                                                /\ \A i \in DOMAIN t : s[i].depth <= n

\* The positions where the text can be split at character c.
Splits(t, c) ==
    LET s == Scan(t) IN {i \in DOMAIN t : t[i] = c /\ ~s[i - 1].quoted /\ s[i - 1].depth = 0}

RECURSIVE Pieces(_, _)
Pieces(t, c) ==
    LET at == Splits(t, c)
        i == CHOOSE x \in at : \A y \in at : x <= y
    IN  IF at = {} THEN <<t>> ELSE <<SubSeq(t, 1, i - 1)>> \o Pieces(SubSeq(t, i + 1, Len(t)), c)

Inside(t) == SubSeq(t, 2, Len(t) - 1)

-----------------------------------------------------------------------------
(* Strings and numbers *)

IsString(t) ==
    /\ Len(t) > 1 /\ t[1] = 34 /\ t[Len(t)] = 34
    /\ LET s == Scan(t) IN \A i \in 1..(Len(t) - 1) : s[i].quoted

\* What a letter after a backslash means; any other character means itself.
Escaped(c) ==
    CASE c = 98 -> 8 [] c = 102 -> 12 [] c = 110 -> 10 [] c = 114 -> 13 [] c = 116 -> 9
      [] OTHER -> c

HexOf(c) ==
    CASE c \in 48..57 -> c - 48 [] c \in 65..70 -> c - 55 [] c \in 97..102 -> c - 87 [] OTHER -> -1

Low6(u, places) == 128 + ((u \div 64 ^ places) % 64)

\* The bytes of a character in UTF-8, and what n bytes of a text may stand for.
Utf8(u) ==
    CASE u < 128 -> <<u>>
      [] u \in 128..2047 -> <<192 + (u \div 64), Low6(u, 0)>>
      [] u \in 2048..65535 -> <<224 + (u \div 4096), Low6(u, 1), Low6(u, 0)>>
      [] OTHER -> <<240 + (u \div 262144), Low6(u, 2), Low6(u, 1), Low6(u, 0)>>

Coded(t, n) ==
    LET f[i \in 1..n] == IF i = 1 THEN t[1] % (IF n = 1 THEN 128 ELSE 2 ^ (7 - n))
                         ELSE 64 * f[i - 1] + (t[i] % 64)
    IN  f[n]

IsCharacter(u) ==
    u \in 32..1114111 /\ u \notin 55296..57343 /\ u \notin 64976..64991
    /\ u % 65536 < 65534

Units(u) ==
    IF u < 65536 THEN <<u>>
    ELSE <<55296 + ((u - 65536) \div 1024), 56320 + ((u - 65536) % 1024)>>

\* The characters of a string without its quotes, or a -1 among them.
RECURSIVE Plain(_)
Plain(t) ==
    LET code(n) == SubSeq(t, n, Len(t))
        hex == [i \in 1..4 |-> HexOf(t[2 + i])]
        u == ((hex[1] * 16 + hex[2]) * 16 + hex[3]) * 16 + hex[4]
        lengths == {n \in 1..4 : /\ n <= Len(t) /\ IsCharacter(Coded(t, n))
                                 /\ Utf8(Coded(t, n)) = SubSeq(t, 1, n)}
        n == CHOOSE x \in lengths : TRUE
    IN  CASE t = <<>> -> <<>>
          [] t # <<>> /\ t[1] # 92 ->
                IF lengths = {} THEN <<-1>> ELSE Units(Coded(t, n)) \o Plain(code(n + 1))
          [] OTHER -> IF t[2] # 117 THEN <<Escaped(t[2])>> \o Plain(code(3))
                      ELSE IF Len(t) < 6 \/ \E i \in 1..4 : hex[i] < 0 THEN <<-1>>
                      ELSE <<u>> \o Plain(code(7))

IsPlain(s) == \A i \in DOMAIN s : s[i] >= 0

AllFigures(t) == \A i \in DOMAIN t : t[i] \in Figures

Unsigned(t, signs) == IF t # <<>> /\ t[1] \in signs THEN Tail(t) ELSE t

\* A number: an optional minus, figures that do not begin with a needless 0,
\* then an optional point with figures and an optional exponent with figures.
Mantissa(t) == LET e == {i \in DOMAIN t : t[i] \in {69, 101}}
               IN  IF e = {} THEN t ELSE SubSeq(t, 1, (CHOOSE i \in e : TRUE) - 1)

Exponent(t) == SubSeq(t, Len(Mantissa(t)) + 2, Len(t))

Whole(t) == LET p == {i \in DOMAIN t : t[i] = 46}
            IN  IF p = {} THEN t ELSE SubSeq(t, 1, (CHOOSE i \in p : TRUE) - 1)

Fraction(t) == SubSeq(t, Len(Whole(t)) + 2, Len(t))

IsNumber(t) ==
    LET m == Unsigned(Mantissa(t), {45})
        x == Unsigned(Exponent(t), {43, 45})
    IN  /\ AllFigures(Whole(m)) /\ AllFigures(Fraction(m)) /\ AllFigures(x)
        /\ Whole(m) # <<>> /\ (Len(Whole(m)) > 1 => Whole(m)[1] # 48)
        /\ Len(Whole(m)) < Len(m) => Fraction(m) # <<>>
        /\ Len(Mantissa(t)) < Len(t) => x # <<>>

Value10(t) == LET v[i \in 0..Len(t)] == IF i = 0 THEN 0 ELSE 10 * v[i - 1] + t[i] - 48 IN v[Len(t)]

\* In thousandths: the figures of mantissa and fraction, with the point moved.
NumberOf(t) ==
    LET m == Unsigned(Mantissa(t), {45})
        x == Unsigned(Exponent(t), {43, 45})
        shift == (IF Exponent(t) # <<>> /\ Exponent(t)[1] = 45 THEN -1 ELSE 1) * Value10(x)
                 - Len(Fraction(m)) + 3
        figures == Value10(Whole(m) \o Fraction(m))
    IN  (IF t[1] = 45 THEN -1 ELSE 1)
        * (IF shift >= 0 THEN figures * 10 ^ shift ELSE figures \div 10 ^ (-shift))

-----------------------------------------------------------------------------
(* Values *)

RECURSIVE ValueMeaning(_)
ArrayMeaning(t) ==
    LET parts == IF Trim(t) = <<>> THEN <<>> ELSE Pieces(t, 44)
        items == [i \in DOMAIN parts |-> ValueMeaning(Trim(parts[i]))]
    IN  IF \E i \in DOMAIN items : items[i] = NoMeaning THEN NoMeaning ELSE ArrayValue(items)

\* A member: the key, and what stands after the first colon.
KeyPart(t) == Trim(Pieces(t, 58)[1])

ValuePart(t) == Trim(SubSeq(t, Len(Pieces(t, 58)[1]) + 2, Len(t)))

IsMember(t) ==
    /\ Splits(t, 58) # {} /\ IsString(KeyPart(t)) /\ IsPlain(Plain(Inside(KeyPart(t))))
    /\ ValueMeaning(ValuePart(t)) # NoMeaning

\* Of two members with one key the last counts.
ObjectMeaning(t) ==
    LET parts == IF Trim(t) = <<>> THEN <<>> ELSE Pieces(t, 44)
        key(i) == Plain(Inside(KeyPart(parts[i])))
        last(k) == CHOOSE i \in DOMAIN parts :
                       key(i) = k /\ \A j \in DOMAIN parts : key(j) = k => j <= i
    IN  IF \E i \in DOMAIN parts : ~IsMember(parts[i]) THEN NoMeaning
        ELSE ObjectValue([k \in {key(i) : i \in DOMAIN parts} |-> ValueMeaning(ValuePart(parts[last(k)]))])

Bracketed(t, open, close) == Len(t) > 1 /\ t[1] = open /\ t[Len(t)] = close

ValueMeaning(t) ==
    CASE t = <<110, 117, 108, 108>> -> NullValue
      [] t = <<116, 114, 117, 101>> -> BoolValue(TRUE)
      [] t = <<102, 97, 108, 115, 101>> -> BoolValue(FALSE)
      [] IsString(t) -> IF IsPlain(Plain(Inside(t))) THEN StringValue(Plain(Inside(t))) ELSE NoMeaning
      [] Bracketed(t, 91, 93) -> ArrayMeaning(Inside(t))
      [] Bracketed(t, 123, 125) -> ObjectMeaning(Inside(t))
      [] t # <<>> /\ t[1] \in Figures \cup {45} ->
            IF IsNumber(t) THEN NumberValue(NumberOf(t)) ELSE NoMeaning
      [] OTHER -> NoMeaning

Marked(t) == Len(t) > 3 /\ SubSeq(t, 1, 3) = <<239, 187, 191>>

\* A document is an array or an object, after a byte order mark or none.
Meaning(t) ==
    LET v == ValueMeaning(Trim(IF Marked(t) THEN SubSeq(t, 4, Len(t)) ELSE t))
    IN  IF v.type \in {"Array", "Object"} THEN v ELSE NoMeaning

-----------------------------------------------------------------------------
(* What the grammars do not have *)

\* The points that have a figure on one side only.
HalfPoints(t) ==
    LET figure(i) == i \in DOMAIN t /\ t[i] \in Figures
    IN  {i \in DOMAIN t : t[i] = 46 /\ ~Scan(t)[i].quoted /\ figure(i - 1) # figure(i + 1)}

\* The control characters that stand in a string as they are.
Controls(t) == {i \in DOMAIN t : t[i] < 32 /\ Scan(t)[i].quoted /\ ~Scan(t)[i - 1].escaped}

\* The text, with a 0 at the points and with the control characters escaped.
Completed(t) ==
    LET points == HalfPoints(t)
        controls == Controls(t)
        digit(n) == IF n < 10 THEN 48 + n ELSE 87 + n
        whole(i) == CASE i \in points /\ i > 1 /\ t[i - 1] \in Figures -> <<46, 48>>
                      [] i \in points /\ ~(i > 1 /\ t[i - 1] \in Figures) -> <<48, 46>>
                      [] i \in controls -> <<92, 117, 48, 48, digit(t[i] \div 16), digit(t[i] % 16)>>
                      [] OTHER -> <<t[i]>>
    IN  IF points \cup controls = {} THEN t ELSE FlattenSeq([i \in DOMAIN t |-> whole(i)])

=============================================================================
