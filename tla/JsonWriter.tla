------------------------------ MODULE JsonWriter ------------------------------
(***************************************************************************)
(* The writer of qjsonwriter.cpp: the text, a sequence of bytes, of an     *)
(* array or object in the binary form of JsonLayout, compact or indented.  *)
(***************************************************************************)
EXTENDS JsonLayout

Spaced(n) == [i \in 1..n |-> 32]

HexDigit(u) == IF u < 10 THEN 48 + u ELSE 87 + u

\* The character that a letter after a backslash stands for.
ShortEscapes == 34 :> 34 @@ 92 :> 92 @@ 8 :> 98 @@ 12 :> 102 @@ 10 :> 110 @@ 13 :> 114 @@ 9 :> 116

Tail6(u, shift) == 128 + ((u \div shift) % 64)

\* mutant: nothing is escaped.
AsBytes(u) ==
    CASE u \in 0..127 -> <<u>>
      [] u \in 128..2047 -> <<192 + (u \div 64), Tail6(u, 1)>>
      [] u \in 2048..65535 -> <<224 + (u \div 4096), Tail6(u, 64), Tail6(u, 1)>>
      [] OTHER -> <<240 + (u \div 262144), Tail6(u, 4096), Tail6(u, 64), Tail6(u, 1)>>

\* The bytes of one character that is no surrogate; a question mark stands for
\* what is no character.
EscapedChar(u) ==
    CASE u \in DOMAIN ShortEscapes -> <<92, ShortEscapes[u]>>
      [] u < 32 /\ u \notin DOMAIN ShortEscapes ->
            <<92, 117, 48, 48, HexDigit(u \div 16), HexDigit(u % 16)>>
      [] u \in 32..127 \ DOMAIN ShortEscapes -> <<u>>
      [] u \in 128..2047 -> <<192 + (u \div 64), Tail6(u, 1)>>
      [] u >= 2048 /\ (u % 65536 \in {65534, 65535} \/ u \in 64976..64991) -> <<63>>
      [] u \in 2048..65535 -> <<224 + (u \div 4096), Tail6(u, 64), Tail6(u, 1)>>
      [] OTHER -> <<240 + (u \div 262144), Tail6(u, 4096), Tail6(u, 64), Tail6(u, 1)>>

HighSurrogates == 55296..56319

LowSurrogates == 56320..57343

\* escapedString, from character i on, with the high surrogate before it (or
\* -1).  The question mark for a surrogate without its other half is put where
\* the next byte then goes, so that nothing of it is left.  How the buffer of the
\* text grows meanwhile is left out.
RECURSIVE EscapedFrom(_, _, _)
EscapedFrom(s, i, high) ==
    CASE i > Len(s) -> <<>>
      [] i <= Len(s) /\ high >= 0 /\ s[i] \in LowSurrogates ->
            EscapedChar(65536 + (high - 55296) * 1024 + s[i] - 56320) \o EscapedFrom(s, i + 1, -1)
      [] i <= Len(s) /\ high >= 0 /\ s[i] \notin LowSurrogates -> EscapedFrom(s, i + 1, -1)
      [] i <= Len(s) /\ high < 0 /\ s[i] \in LowSurrogates -> EscapedFrom(s, i + 1, -1)
      [] i <= Len(s) /\ high < 0 /\ s[i] \in HighSurrogates -> EscapedFrom(s, i + 1, s[i])
      [] OTHER -> EscapedChar(s[i]) \o EscapedFrom(s, i + 1, -1)

Quoted(s) == <<34>> \o EscapedFrom(s, 1, -1) \o <<34>>

RECURSIVE DigitsOf(_)
DigitsOf(n) == IF n < 10 THEN <<48 + n>> ELSE Append(DigitsOf(n \div 10), 48 + (n % 10))

\* QByteArray::number of so many thousandths.
NumberText(n) ==
    LET a == IF n < 0 THEN -n ELSE n
        f == a % Thousand
        digits == <<48 + (f \div 100), 48 + ((f \div 10) % 10), 48 + (f % 10)>>
        kept == CASE f = 0 -> 0 [] f % 100 = 0 -> 1 [] f % 100 # 0 /\ f % 10 = 0 -> 2 [] OTHER -> 3
    IN  (IF n < 0 THEN <<45>> ELSE <<>>) \o DigitsOf(a \div Thousand)
        \o (IF kept = 0 THEN <<>> ELSE <<46>> \o SubSeq(digits, 1, kept))

\* One per line and indented, or all together.
RECURSIVE ElementsFrom(_, _, _, _, _, _)
ElementsText(mem, base, isObject, indent, compact) ==
    IF mem[base].length = 0 THEN <<>> ELSE ElementsFrom(mem, base, isObject, 0, indent, compact)

Bracketed(mem, base, isObject, indent, compact) ==
    (IF isObject THEN <<123>> ELSE <<91>>) \o (IF compact THEN <<>> ELSE <<10>>)
    \o ElementsText(mem, base, isObject, IF compact THEN indent ELSE indent + 1, compact)
    \o Spaced(4 * indent) \o (IF isObject THEN <<125>> ELSE <<93>>)

ValueText(mem, base, v, indent, compact) ==
    CASE v.type = "Bool" -> IF v.value = 1 THEN <<116, 114, 117, 101>>
                            ELSE <<102, 97, 108, 115, 101>>
      [] v.type = "Double" ->
            NumberText(IF v.latinOrIntValue THEN v.value * Thousand ELSE mem[base + v.value])
      [] v.type = "String" -> Quoted(StringAt(mem, base + v.value, v.latinOrIntValue))
      [] v.type \in {"Array", "Object"} ->
            Bracketed(mem, base + v.value, v.type = "Object", indent, compact)
      [] OTHER -> <<110, 117, 108, 108>>

ElementsFrom(mem, base, isObject, i, indent, compact) ==
    LET e == EntryAt(mem, base, i)
        key == Quoted(StringAt(mem, e + 4, mem[e].latinKey)) \o (IF compact THEN <<58>> ELSE <<58, 32>>)
        text == Spaced(4 * indent)
                \o (IF isObject THEN key \o ValueText(mem, base, mem[e], indent, compact)
                    ELSE ValueText(mem, base, mem[TableAt(mem, base, i)], indent, compact))
    IN  CASE i + 1 = mem[base].length -> text \o (IF compact THEN <<>> ELSE <<10>>)
          [] OTHER -> text \o (IF compact THEN <<44>> ELSE <<44, 10>>)
                      \o ElementsFrom(mem, base, isObject, i + 1, indent, compact)

\* QJsonDocument::toJson
ToJson(mem, compact) ==
    Bracketed(mem, Root, mem[Root].is_object, 0, compact) \o (IF compact THEN <<>> ELSE <<10>>)

=============================================================================
