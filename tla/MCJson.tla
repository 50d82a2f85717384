-------------------------------- MODULE MCJson --------------------------------
(* JsonDocuments on a few texts, keys and values. *)
EXTENDS JsonDocuments, SequencesExt

Ascii == " !\"#$%&'()*+,-./0123456789:;<=>?@ABCDEFGHIJKLMNOPQRSTUVWXYZ[\\]^_"

Lower == "abcdefghijklmnopqrstuvwxyz{|}~"

CodeOf(c) ==
    IF \E i \in 1..Len(Lower) : SubSeq(Lower, i, i) = c
    THEN 96 + CHOOSE i \in 1..Len(Lower) : SubSeq(Lower, i, i) = c
    ELSE 31 + CHOOSE i \in 1..Len(Ascii) : SubSeq(Ascii, i, i) = c

\* The bytes of a text; an apostrophe stands for a quote.
Bytes(s) ==
    SubSeq([i \in 1..Len(s) |-> IF SubSeq(s, i, i) = "'" THEN 34 ELSE CodeOf(SubSeq(s, i, i))],
           1, Len(s))

\* All sequences of at most n pieces.
RECURSIVE Sequences(_, _)
Sequences(pieces, n) ==
    IF n = 0 THEN {<<>>}
    ELSE LET shorter == Sequences(pieces, n - 1)
         IN  shorter \cup {s \o t : s \in shorter, t \in pieces}

Texts1 == Sequences({Bytes(s) : s \in {"{", "}", "[", "]", ":", ",", "'a'", "1", " "}}, 4)

\* Characters: plain, escaped, cut short, in one to four bytes of UTF-8, too
\* long, surrogates in pairs, alone and swapped, and a character that is none.
Characters ==
    {Bytes(s) : s \in {"a", "\\n", "\\/", "\\'", "\\u00e4", "\\u0101", "\\ud834", "\\udd1e", "\\u00g",
                      "\\u0019", "\\uffff", "\\q"}}
    \cup {<<9>>, <<195, 164>>, <<226, 130, 172>>, <<240, 157, 132, 158>>, <<192, 128>>, <<164>>,
          <<239, 191, 191>>, <<237, 160, 128>>}

StringTexts == {<<91, 34>> \o s \o <<34, 93>> : s \in Sequences(Characters, 2)}
               \cup {<<123, 34>> \o s \o <<34, 58, 48, 125>> : s \in Sequences(Characters, 2)}

NumberTexts ==
    {<<91>> \o s \o <<93>> :
        s \in Sequences({Bytes(d) : d \in {"0", "1", "2", "-", ".", "e", "+"}}, 3)
              \cup {Bytes(d) : d \in {"-0.5", "1e+1", "1.5e1", "1e-1", "-1.e0", "-01", "1e+", ".5e1",
                                      "100e-2", "1.25", "-.125e2", "true", "false", "null", "nul",
                                      "truer", "-4", "3", "7", "8", "2e", "1.e+1", "1.e", "-.", "1.5.",
                                      "01.", "1..5"}}}

\* Members, with keys that come again and keys of two and six characters.
MemberTexts ==
    {<<123>> \o s \o <<125>> :
        s \in Sequences({Bytes(m) : m \in {",", "'a':1,", "'b':{},", "'a':[]", "'ab':1", "'ab':2",
                                           "'abcdef':.5"}}, 4)}

OtherTexts == {Bytes(s) : s \in {"[[[1]]]", "[[[[]]]]", "[{'a':[]}]", "{'a':[{}]}", "{'a':{'b':{}}}"}}
              \cup {Bytes("[") \o FlattenSeq([i \in 1..n |-> Bytes(s)]) \o Bytes("1]") :
                       n \in 17..19, s \in {"9,", "[],", "'s',"}}
              \cup {<<239, 187, 191>> \o Bytes("[1]"), <<239, 187, 191>>}

Wide == <<34, 196, 128, 196, 128, 196, 128, 34>>

DeepText == Bytes("{'a':{'b':[1]},'b':9}")

SeedTexts ==
    {DeepText, Bytes("[{'a':1,'b':'s'},[9]]"), Bytes("[1,'st',[0.5],{}]"),
     Bytes("{'a':[1],'b':'s',") \o Wide \o Bytes(":0.5,'c':{}}")}

CallBounds == [text \in SeedTexts |-> IF text = DeepText THEN 3 ELSE 2]

AllTexts == SeedTexts \cup Texts1 \cup StringTexts \cup NumberTexts \cup MemberTexts \cup OtherTexts

ShortKeys == {Bytes("a"), Bytes("b")}

PlainValues == {NumberValue(9000), StringValue(Bytes("st"))}

\* Half a number, a control character in a string, and a key that comes again,
\* before data that tells the two apart.
DisputedText == LET key == <<34, 97, 9, 34>>
                IN  Bytes("{") \o key \o Bytes(":.1,") \o key \o Bytes(":.2}")

\* TLC works out a definition of this module once, but the value of a constant
\* each time that it is used: so these name what is worked out already.
MCMaxCalls == CallBounds

MCInputs == AllTexts

MCNoCalls == <<>>

MCDisputed == {DisputedText}

MCKeys == ShortKeys

MCScalars == PlainValues

\* All but the last call.
View == <<blocks, handle, defects, input, calls, value>>

Symmetry == Permutations(Objects)

=============================================================================
