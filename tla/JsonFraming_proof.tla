------------------------- MODULE JsonFraming_proof -------------------------
(***************************************************************************)
(* Proof that the loop of QJsonRpcSocket implements the queue of documents *)
(* (module DocumentQueue), for every set of texts and every way their      *)
(* bytes arrive.                                                           *)
(***************************************************************************)
EXTENDS JsonFraming, FiniteSetTheorems, SequenceTheorems, WellFoundedInduction, TLAPS

-----------------------------------------------------------------------------
(* Induction, over sets of numbers. *)

\* A set of numbers that is not empty has a least one.
LEMMA LeastNatural ==
  ASSUME NEW S \in SUBSET Nat, S # {}
  PROVE  \E n \in S : \A m \in S : n <= m
<1>. DEFINE R == OpToRel(<, Nat)
<1>1. IsWellFoundedOn(R, Nat)
  BY NatLessThanWellFounded
<1>2. \A m, n \in Nat : m < n => <<m, n>> \in R
  BY DEF OpToRel
<1>. HIDE DEF R
<1>3. \E x \in S : \A y \in S : ~(<<y, x>> \in R)
  BY <1>1, WFMin, Zenon
<1>4. PICK x \in S : \A y \in S : ~(<<y, x>> \in R)
  BY <1>3
<1>5. \A y \in S : ~(y < x)
  BY <1>2, <1>4
<1>6. \A y \in S : x <= y
  BY <1>5
<1>. QED
  BY <1>6

\* A set that holds 0, and with a number the next one, holds all of them.
LEMMA Induction ==
  ASSUME NEW S, 0 \in S, \A n \in Nat : n \in S => n + 1 \in S
  PROVE  Nat \subseteq S
<1>1. SUFFICES ASSUME Nat \ S # {} PROVE FALSE
  OBVIOUS
<1>2. PICK n \in Nat \ S : \A m \in Nat \ S : n <= m
  BY <1>1, LeastNatural
<1>3. n - 1 \in Nat /\ ~(n <= n - 1)
  BY <1>2
<1>4. n - 1 \in S
  BY <1>2, <1>3
<1>5. n - 1 + 1 = n
  BY <1>2
<1>. QED
  BY <1>2, <1>3, <1>4, <1>5

-----------------------------------------------------------------------------
(* The scan. *)

\* The one value that Scanned has for the value that before has.
Turned(before, byte) == CHOOSE s \in {Scanned(t, byte) : t \in {before}} : TRUE

LEMMA TurnedIsScanned ==
  ASSUME NEW before, NEW byte
  PROVE  Turned(before, byte) = Scanned(before, byte)
<1>. DEFINE value == Scanned(before, byte)
<1>1. {Scanned(t, byte) : t \in {before}} = {value}
  OBVIOUS
<1>. HIDE DEF value
<1>2. Turned(before, byte) = CHOOSE s \in {value} : TRUE
  BY <1>1 DEF Turned
<1>. QED
  BY <1>2 DEF value

\* The function that Scan defines, on the first n bytes.
IsScan(after, bytes, n) ==
  after = [i \in 0..n |-> IF i = 0 THEN Start ELSE Turned(after[i - 1], bytes[i])]

LEMMA ScanIsChosen ==
  ASSUME NEW bytes
  PROVE  Scan(bytes) = CHOOSE after : IsScan(after, bytes, Len(bytes))
BY DEF Scan, IsScan, Turned

\* It is defined on every sequence of bytes.
LEMMA ScanExists ==
  ASSUME NEW bytes, Len(bytes) \in Nat
  PROVE  IsScan(Scan(bytes), bytes, Len(bytes))
<1>. DEFINE Defined == {n \in Nat : \E after : IsScan(after, bytes, n)}
<1>1. 0 \in Defined
  <2>1. IsScan([i \in 0..0 |-> Start], bytes, 0)
    BY DEF IsScan
  <2>. QED
    BY <2>1
<1>2. \A n \in Nat : n \in Defined => n + 1 \in Defined
  <2>. SUFFICES ASSUME NEW n \in Nat, NEW after, IsScan(after, bytes, n)
                PROVE  \E next : IsScan(next, bytes, n + 1)
    OBVIOUS
  <2>. DEFINE last == Turned(after[n], bytes[n + 1])
              next == [i \in 0..n + 1 |-> IF i = n + 1 THEN last ELSE after[i]]
              rule(f, i) == IF i = 0 THEN Start ELSE Turned(f[i - 1], bytes[i])
  <2>1. \A i \in 0..n : after[i] = rule(after, i)
    BY DEF IsScan
  <2>2. ASSUME NEW i \in 0..n + 1 PROVE next[i] = rule(next, i)
    <3>1. CASE i = n + 1
      <4>1. i # 0 /\ i - 1 = n /\ next[i - 1] = after[n] /\ next[i] = last
        BY <3>1
      <4>. HIDE DEF next
      <4>. QED
        BY <3>1, <4>1
    <3>2. CASE i # n + 1
      <4>1. i \in 0..n /\ next[i] = after[i] /\ (i # 0 => next[i - 1] = after[i - 1])
        BY <3>2
      <4>. HIDE DEF next
      <4>. QED
        BY <2>1, <4>1
    <3>. QED
      BY <3>1, <3>2
  <2>3. next = [i \in 0..n + 1 |-> rule(next, i)]
    BY <2>2
  <2>. HIDE DEF next
  <2>4. IsScan(next, bytes, n + 1)
    BY <2>3 DEF IsScan
  <2>. QED
    BY <2>4
<1>. HIDE DEF Defined
<1>3. Len(bytes) \in Defined
  BY <1>1, <1>2, Induction
<1>4. \E after : IsScan(after, bytes, Len(bytes))
  BY <1>3 DEF Defined
<1>. QED
  BY <1>4, ScanIsChosen

\* The locals after each byte.
LEMMA ScanSteps ==
  ASSUME NEW bytes, Len(bytes) \in Nat
  PROVE  /\ Scan(bytes)[0] = Start
         /\ \A i \in 1..Len(bytes) : Scan(bytes)[i] = Scanned(Scan(bytes)[i - 1], bytes[i])
<1>1. IsScan(Scan(bytes), bytes, Len(bytes))
  BY ScanExists
<1>2. \A i \in 0..Len(bytes) :
        Scan(bytes)[i] = IF i = 0 THEN Start ELSE Turned(Scan(bytes)[i - 1], bytes[i])
  BY <1>1 DEF IsScan
<1>3. ASSUME NEW i \in 1..Len(bytes) PROVE Scan(bytes)[i] = Scanned(Scan(bytes)[i - 1], bytes[i])
  <2>1. i \in 0..Len(bytes) /\ i # 0
    OBVIOUS
  <2>2. Scan(bytes)[i] = Turned(Scan(bytes)[i - 1], bytes[i])
    BY <1>2, <2>1
  <2>. QED
    BY <2>2, TurnedIsScanned
<1>. QED
  BY <1>2, <1>3

-----------------------------------------------------------------------------
(* What stands in a text. *)

\* Whether a byte is escaped can be told from the byte before it.
LEMMA EscapedStep ==
  ASSUME NEW text \in Seq(Bytes), NEW i \in 1..Len(text)
  PROVE  Escaped(text, i + 1) <=> text[i] = "backslash" /\ ~Escaped(text, i)
<1>1. ASSUME Escaped(text, i + 1) PROVE text[i] = "backslash" /\ ~Escaped(text, i)
  <2>1. PICK n \in 1..i : /\ n % 2 = 1
                          /\ \A j \in i + 1 - n..i : text[j] = "backslash"
                          /\ i + 1 - n = 1 \/ text[i + 1 - n - 1] # "backslash"
    BY <1>1 DEF Escaped
  <2>2. text[i] = "backslash"
    BY <2>1
  <2>3. ASSUME Escaped(text, i) PROVE FALSE
    <3>1. PICK m \in 1..i - 1 : /\ m % 2 = 1
                                /\ \A j \in i - m..i - 1 : text[j] = "backslash"
                                /\ i - m = 1 \/ text[i - m - 1] # "backslash"
      BY <2>3 DEF Escaped
    <3>2. CASE m + 1 < n
      <4>1. i - m - 1 \in i + 1 - n..i /\ i - m # 1
        BY <3>2
      <4>. QED
        BY <2>1, <3>1, <4>1
    <3>3. CASE n < m + 1
      <4>1. i + 1 - n - 1 \in i - m..i - 1 /\ i + 1 - n # 1
        BY <3>3
      <4>. QED
        BY <2>1, <3>1, <4>1
    <3>4. CASE n = m + 1
      BY <2>1, <3>1, <3>4
    <3>. QED
      BY <3>2, <3>3, <3>4
  <2>. QED
    BY <2>2, <2>3
<1>2. ASSUME text[i] = "backslash", ~Escaped(text, i) PROVE Escaped(text, i + 1)
  <2>. DEFINE Ends == {n \in Nat : n <= i - 1 /\ (n = i - 1 \/ text[i - n - 1] # "backslash")}
  <2>1. i - 1 \in Ends
    OBVIOUS
  <2>2. PICK n \in Ends : \A m \in Ends : n <= m
    BY <2>1, LeastNatural
  <2>3. n \in Nat /\ n <= i - 1 /\ (n = i - 1 \/ text[i - n - 1] # "backslash")
    OBVIOUS
  <2>4. \A j \in i - n..i - 1 : text[j] = "backslash"
    <3>. SUFFICES ASSUME NEW j \in i - n..i - 1, text[j] # "backslash" PROVE FALSE
      OBVIOUS
    <3>1. i - 1 - j \in Nat /\ i - 1 - j < n /\ i - (i - 1 - j) - 1 = j /\ i - 1 - j <= i - 1
      BY <2>3
    <3>2. i - 1 - j \in Ends
      BY <3>1
    <3>. QED
      BY <2>2, <3>1, <3>2
  <2>. HIDE DEF Ends
  <2>5. n % 2 # 1
    <3>. SUFFICES ASSUME n % 2 = 1 PROVE FALSE
      OBVIOUS
    <3>1. n \in 1..i - 1 /\ (i - n = 1 \/ text[i - n - 1] # "backslash")
      BY <2>3
    <3>. QED
      BY <1>2, <2>4, <3>1 DEF Escaped
  <2>6. /\ n + 1 \in 1..i + 1 - 1
        /\ (n + 1) % 2 = 1
        /\ \A j \in i + 1 - (n + 1)..i + 1 - 1 : text[j] = "backslash"
        /\ i + 1 - (n + 1) = 1 \/ text[i + 1 - (n + 1) - 1] # "backslash"
    <3>1. n + 1 \in 1..i + 1 - 1 /\ (n + 1) % 2 = 1
      BY <2>3, <2>5
    <3>2. \A j \in i + 1 - (n + 1)..i + 1 - 1 : text[j] = "backslash"
      BY <1>2, <2>3, <2>4
    <3>3. i + 1 - (n + 1) = 1 \/ text[i + 1 - (n + 1) - 1] # "backslash"
      BY <2>3
    <3>. QED
      BY <3>1, <3>2, <3>3
  <2>. QED
    BY <2>6 DEF Escaped
<1>. QED
  BY <1>1, <1>2

\* Whether a byte is in a string can be told from the byte before it.
LEMMA InStringStep ==
  ASSUME NEW text \in Seq(Bytes), NEW i \in 1..Len(text)
  PROVE  InString(text, i + 1) <=>
           IF text[i] = "quote" /\ ~Escaped(text, i) THEN ~InString(text, i) ELSE InString(text, i)
<1>1. Quotes(text, i + 1) = IF text[i] = "quote" /\ ~Escaped(text, i)
                            THEN Quotes(text, i) \cup {i} ELSE Quotes(text, i)
  <2>1. 1..i + 1 - 1 = (1..i - 1) \cup {i}
    OBVIOUS
  <2>. QED
    BY <2>1 DEF Quotes
<1>2. IsFiniteSet(Quotes(text, i)) /\ i \notin Quotes(text, i)
  <2>1. Quotes(text, i) \in SUBSET (1..i - 1) /\ IsFiniteSet(1..i - 1) /\ i \notin 1..i - 1
    BY FS_Interval DEF Quotes
  <2>. QED
    BY <2>1, FS_Subset
<1>3. Cardinality(Quotes(text, i)) \in Nat
  BY <1>2, FS_CardinalityType
<1>4. CASE text[i] = "quote" /\ ~Escaped(text, i)
  <2>1. Cardinality(Quotes(text, i + 1)) = Cardinality(Quotes(text, i)) + 1
    BY <1>1, <1>2, <1>4, FS_AddElement
  <2>. QED
    BY <1>3, <1>4, <2>1 DEF InString
<1>5. CASE ~(text[i] = "quote" /\ ~Escaped(text, i))
  BY <1>1, <1>5 DEF InString
<1>. QED
  BY <1>4, <1>5

\* How often a byte stands outside strings.
LEMMA CountStep ==
  ASSUME NEW text \in Seq(Bytes), NEW byte, NEW n \in 0..Len(text) - 1
  PROVE  /\ Count(text, byte, n) \in Nat
         /\ Count(text, byte, n + 1) =
              IF text[n + 1] = byte /\ ~InString(text, n + 1) /\ ~Escaped(text, n + 1)
              THEN Count(text, byte, n) + 1 ELSE Count(text, byte, n)
<1>. DEFINE counts == text[n + 1] = byte /\ ~InString(text, n + 1) /\ ~Escaped(text, n + 1)
<1>1. Outside(text, byte, n + 1) = IF counts THEN Outside(text, byte, n) \cup {n + 1}
                                   ELSE Outside(text, byte, n)
  <2>1. 1..n + 1 = (1..n) \cup {n + 1}
    OBVIOUS
  <2>. QED
    BY <2>1 DEF Outside
<1>2. IsFiniteSet(Outside(text, byte, n)) /\ n + 1 \notin Outside(text, byte, n)
  <2>1. Outside(text, byte, n) \in SUBSET (1..n) /\ IsFiniteSet(1..n) /\ n + 1 \notin 1..n
    BY FS_Interval DEF Outside
  <2>. QED
    BY <2>1, FS_Subset
<1>3. Count(text, byte, n) \in Nat
  BY <1>2, FS_CardinalityType DEF Count
<1>4. CASE counts
  BY <1>1, <1>2, <1>3, <1>4, FS_AddElement DEF Count
<1>5. CASE ~counts
  BY <1>1, <1>3, <1>5 DEF Count
<1>. QED
  BY <1>3, <1>4, <1>5

\* Nothing stands before the first byte.
LEMMA NothingBefore ==
  ASSUME NEW text \in Seq(Bytes), NEW byte
  PROVE  ~Escaped(text, 1) /\ ~InString(text, 1) /\ Count(text, byte, 0) = 0
<1>1. Quotes(text, 1) = {} /\ Outside(text, byte, 0) = {}
  BY DEF Quotes, Outside
<1>2. Cardinality({}) = 0
  BY FS_EmptySet
<1>3. ~Escaped(text, 1)
  BY DEF Escaped
<1>4. ~(0 % 2 = 1)
  OBVIOUS
<1>5. ~InString(text, 1) /\ Count(text, byte, 0) = 0
  BY <1>1, <1>2, <1>4 DEF InString, Count
<1>. QED
  BY <1>3, <1>5

-----------------------------------------------------------------------------
(* The scan finds the bracket that closes a text. *)

Locals == [opener : Bytes \cup {"none"}, depth : Nat, inString : BOOLEAN, skip : BOOLEAN]

\* The locals of the scan say what the text holds.
Tells(s, text, n) ==
  /\ s \in Locals
  /\ s.opener = text[1]
  /\ s.depth + Count(text, Closer(text[1]), n) = Count(text, text[1], n)
  /\ s.inString <=> InString(text, n + 1)
  /\ s.skip <=> Escaped(text, n + 1)

\* The brackets that a document can begin with.
LEMMA Brackets ==
  ASSUME NEW byte \in {"{", "["}
  PROVE  /\ byte \in Bytes
         /\ byte # Closer(byte)
         /\ byte \notin {"none", "space", "quote", "backslash"}
         /\ Closer(byte) \notin {"none", "space", "quote", "backslash"}
BY DEF Bytes, Closer

LEMMA OpeningByte ==
  ASSUME NEW byte \in {"{", "["}
  PROVE  Scanned(Start, byte) = [opener |-> byte, depth |-> 1, inString |-> FALSE, skip |-> FALSE]
<1>1. Start.opener = "none"
  BY DEF Start
<1>2. Scanned(Start, byte) = [Start EXCEPT !.opener = byte, !.depth = 1]
  BY <1>1 DEF Scanned, Ended
<1>. QED
  BY <1>2 DEF Start

LEMMA FirstByteScanned ==
  ASSUME NEW text \in Seq(Bytes), Len(text) > 0, Enclosed(text)
  PROVE  Tells(Scan(text)[1], text, 1)
<1>1. text[1] \in {"{", "["}
  BY DEF Enclosed
<1>2. 1 \in 1..Len(text) /\ 0 \in 0..Len(text) - 1 /\ 0 + 1 = 1 /\ 1 + 1 = 2 /\ 1 - 1 = 0
  OBVIOUS
<1>3. Scan(text)[1] = [opener |-> text[1], depth |-> 1, inString |-> FALSE, skip |-> FALSE]
  <2>1. Scan(text)[1] = Scanned(Start, text[1])
    BY <1>2, ScanSteps
  <2>. QED
    BY <1>1, <2>1, OpeningByte
<1>4. Scan(text)[1] \in Locals
  <2>1. text[1] \in Bytes
    BY <1>1, Brackets
  <2>. QED
    BY <1>3, <2>1 DEF Locals
<1>5. ~InString(text, 2) /\ ~Escaped(text, 2)
  <2>1. text[1] # "quote" /\ text[1] # "backslash"
    BY <1>1, Brackets
  <2>2. ~Escaped(text, 1) /\ ~InString(text, 1)
    BY NothingBefore
  <2>3. Escaped(text, 2) <=> text[1] = "backslash" /\ ~Escaped(text, 1)
    BY <1>2, EscapedStep
  <2>4. InString(text, 2) <=> IF text[1] = "quote" /\ ~Escaped(text, 1) THEN ~InString(text, 1) ELSE InString(text, 1)
    BY <1>2, InStringStep
  <2>. QED
    BY <2>1, <2>2, <2>3, <2>4
<1>6. Count(text, text[1], 1) = 1 /\ Count(text, Closer(text[1]), 1) = 0
  <2>1. text[1] # Closer(text[1])
    BY <1>1, Brackets
  <2>2. ASSUME NEW byte PROVE Count(text, byte, 1) = IF text[1] = byte THEN 1 ELSE 0
    <3>1. Count(text, byte, 0) = 0 /\ ~InString(text, 1) /\ ~Escaped(text, 1)
      BY NothingBefore
    <3>2. Count(text, byte, 1) = IF text[1] = byte /\ ~InString(text, 1) /\ ~Escaped(text, 1)
                                 THEN Count(text, byte, 0) + 1 ELSE Count(text, byte, 0)
      BY <1>2, CountStep
    <3>. QED
      BY <3>1, <3>2
  <2>. QED
    BY <2>1, <2>2
<1>. QED
  BY <1>2, <1>3, <1>4, <1>5, <1>6 DEF Tells

LEMMA NextByteScanned ==
  ASSUME NEW text \in Seq(Bytes), Enclosed(text), NEW n \in 1..Len(text) - 1,
         Tells(Scan(text)[n], text, n)
  PROVE  Tells(Scan(text)[n + 1], text, n + 1)
<1>. DEFINE s == Scan(text)[n]
            byte == text[n + 1]
            opener == text[1]
<1>1. n + 1 \in 1..Len(text) /\ n \in 0..Len(text) - 1 /\ n + 1 - 1 = n /\ byte \in Bytes
  OBVIOUS
<1>2. opener \in {"{", "["}
  BY DEF Enclosed
<1>3. s \in Locals /\ s.opener = opener /\ (s.inString <=> InString(text, n + 1)) /\ (s.skip <=> Escaped(text, n + 1))
  BY DEF Tells
<1>4. s.depth \in Nat /\ s.depth > 0
  <2>1. n \in 1..Len(text) /\ n < Len(text)
    OBVIOUS
  <2>2. Count(text, opener, n) > Count(text, Closer(opener), n)
    BY <2>1 DEF Enclosed
  <2>3. Count(text, opener, n) \in Nat /\ Count(text, Closer(opener), n) \in Nat
    BY <1>1, CountStep
  <2>4. s.depth \in Nat
    BY <1>3 DEF Locals
  <2>5. s.depth + Count(text, Closer(opener), n) = Count(text, opener, n)
    BY DEF Tells
  <2>. QED
    BY <2>2, <2>3, <2>4, <2>5
<1>5. s.opener # "none" /\ ~Ended(s)
  <2>1. opener # "none"
    BY <1>2, Brackets
  <2>. QED
    BY <1>3, <1>4, <2>1 DEF Ended
<1>6. Scan(text)[n + 1] = Scanned(s, byte)
  BY <1>1, ScanSteps
<1>7. Scanned(s, byte) =
        IF s.skip THEN [s EXCEPT !.skip = FALSE]
        ELSE IF byte = "backslash" THEN [s EXCEPT !.skip = TRUE]
        ELSE IF byte = "quote" THEN [s EXCEPT !.inString = ~@]
        ELSE IF ~s.inString /\ byte = opener THEN [s EXCEPT !.depth = @ + 1]
        ELSE IF ~s.inString /\ byte = Closer(opener) THEN [s EXCEPT !.depth = @ - 1]
        ELSE s
  BY <1>3, <1>5 DEF Scanned, Counted
<1>. DEFINE t == Scanned(s, byte)
<1>8. t \in Locals /\ t.opener = opener
  <2>1. s.depth - 1 \in Nat /\ s.depth + 1 \in Nat
    BY <1>4
  <2>. HIDE DEF opener, byte
  <2>. QED
    BY <1>3, <1>7, <2>1 DEF Locals
<1>9. t.skip <=> Escaped(text, n + 2)
  <2>1. Escaped(text, n + 1 + 1) <=> byte = "backslash" /\ ~Escaped(text, n + 1)
    BY <1>1, EscapedStep
  <2>2. n + 1 + 1 = n + 2
    OBVIOUS
  <2>3. t.skip <=> byte = "backslash" /\ ~s.skip
    BY <1>3, <1>7 DEF Locals
  <2>. QED
    BY <1>3, <2>1, <2>2, <2>3
<1>10. t.inString <=> InString(text, n + 2)
  <2>1. InString(text, n + 1 + 1) <=>
          IF byte = "quote" /\ ~Escaped(text, n + 1) THEN ~InString(text, n + 1) ELSE InString(text, n + 1)
    BY <1>1, InStringStep
  <2>2. n + 1 + 1 = n + 2
    OBVIOUS
  <2>3. t.inString <=> IF byte = "quote" /\ ~s.skip THEN ~s.inString ELSE s.inString
    BY <1>3, <1>7 DEF Locals
  <2>. QED
    BY <1>3, <2>1, <2>2, <2>3
<1>11. t.depth + Count(text, Closer(opener), n + 1) = Count(text, opener, n + 1)
  <2>1. \A b : /\ Count(text, b, n) \in Nat
               /\ Count(text, b, n + 1) = IF byte = b /\ ~s.inString /\ ~s.skip
                                          THEN Count(text, b, n) + 1 ELSE Count(text, b, n)
    BY <1>1, <1>3, CountStep
  <2>2. opener # Closer(opener) /\ opener \notin {"quote", "backslash"} /\ Closer(opener) \notin {"quote", "backslash"}
    BY <1>2, Brackets
  <2>3. t.depth = IF byte = opener /\ ~s.inString /\ ~s.skip THEN s.depth + 1
                  ELSE IF byte = Closer(opener) /\ ~s.inString /\ ~s.skip THEN s.depth - 1
                  ELSE s.depth
    BY <1>3, <1>7, <2>2 DEF Locals
  <2>4. s.depth + Count(text, Closer(opener), n) = Count(text, opener, n)
    BY DEF Tells
  <2>. HIDE DEF t, s, byte, opener
  <2>. QED
    BY <1>4, <2>1, <2>2, <2>3, <2>4
<1>12. n + 1 + 1 = n + 2
  OBVIOUS
<1>. QED
  BY <1>6, <1>8, <1>9, <1>10, <1>11, <1>12 DEF Tells

\* An enclosed text ends where the scan says, and nowhere before.
LEMMA EnclosedIsScanned ==
  ASSUME NEW text \in Seq(Bytes), Len(text) > 0, Enclosed(text)
  PROVE  \A n \in 1..Len(text) : Ended(Scan(text)[n]) <=> n = Len(text)
<1>. DEFINE Told == {i \in Nat : i + 1 <= Len(text) => Tells(Scan(text)[i + 1], text, i + 1)}
<1>1. 0 \in Told
  BY FirstByteScanned
<1>2. \A i \in Nat : i \in Told => i + 1 \in Told
  <2>. SUFFICES ASSUME NEW i \in Nat, i \in Told, i + 2 <= Len(text)
                PROVE  Tells(Scan(text)[i + 2], text, i + 2)
    OBVIOUS
  <2>1. i + 1 \in 1..Len(text) - 1 /\ i + 1 + 1 = i + 2 /\ Tells(Scan(text)[i + 1], text, i + 1)
    OBVIOUS
  <2>. HIDE DEF Told
  <2>. QED
    BY <2>1, NextByteScanned
<1>. HIDE DEF Told
<1>3. Nat \subseteq Told
  BY <1>1, <1>2, Induction
<1>4. ASSUME NEW n \in 1..Len(text) PROVE Ended(Scan(text)[n]) <=> n = Len(text)
  <2>. DEFINE s == Scan(text)[n]
  <2>1. n - 1 \in Told /\ n - 1 + 1 = n
    BY <1>3
  <2>2. Tells(s, text, n)
    BY <2>1 DEF Told
  <2>3. s \in Locals /\ s.opener = text[1] /\ s.depth + Count(text, Closer(text[1]), n) = Count(text, text[1], n)
    BY <2>2 DEF Tells
  <2>4. text[1] # "none" /\ (Count(text, text[1], n) > Count(text, Closer(text[1]), n) <=> n < Len(text))
    BY DEF Enclosed
  <2>5. n - 1 \in 0..Len(text) - 1 /\ n - 1 + 1 = n
    OBVIOUS
  <2>6. Count(text, text[1], n) \in Nat /\ Count(text, Closer(text[1]), n) \in Nat
    BY <2>5, CountStep
  <2>7. s.depth \in Nat /\ (Ended(s) <=> s.depth = 0)
    BY <2>3, <2>4 DEF Locals, Ended
  <2>. QED
    BY <2>3, <2>4, <2>6, <2>7
<1>. QED
  BY <1>4

\* White space before a text changes nothing.
LEMMA SpaceScanned == Scanned(Start, "space") = Start
<1>1. Start.opener = "none"
  BY DEF Start
<1>. QED
  BY <1>1 DEF Scanned, Ended

\* Where the same bytes stand, the same locals come out.
LEMMA SameBytes ==
  ASSUME NEW bytes \in Seq(Bytes), NEW text \in Seq(Bytes), NEW at \in Nat, NEW n \in Nat,
         at + n <= Len(bytes), n <= Len(text),
         \A i \in 1..n : bytes[at + i] = text[i],
         Scan(bytes)[at] = Start
  PROVE  \A i \in 0..n : Scan(bytes)[at + i] = Scan(text)[i]
<1>. DEFINE Same == {i \in Nat : i <= n => Scan(bytes)[at + i] = Scan(text)[i]}
<1>1. 0 \in Same
  <2>1. at + 0 = at
    OBVIOUS
  <2>2. Scan(text)[0] = Start
    BY ScanSteps
  <2>. QED
    BY <2>1, <2>2
<1>2. \A i \in Nat : i \in Same => i + 1 \in Same
  <2>. SUFFICES ASSUME NEW i \in Nat, i \in Same, i + 1 <= n
                PROVE  Scan(bytes)[at + (i + 1)] = Scan(text)[i + 1]
    OBVIOUS
  <2>1. at + (i + 1) \in 1..Len(bytes) /\ at + (i + 1) - 1 = at + i /\ i + 1 \in 1..Len(text) /\ i + 1 - 1 = i
    OBVIOUS
  <2>2. Scan(bytes)[at + (i + 1)] = Scanned(Scan(bytes)[at + i], bytes[at + (i + 1)])
    BY <2>1, ScanSteps
  <2>3. Scan(text)[i + 1] = Scanned(Scan(text)[i], text[i + 1])
    <3>. HIDE DEF Same
    <3>1. Len(text) \in Nat
      OBVIOUS
    <3>2. \A k \in 1..Len(text) : Scan(text)[k] = Scanned(Scan(text)[k - 1], text[k])
      BY <3>1, ScanSteps
    <3>. QED
      BY <2>1, <3>2
  <2>4. bytes[at + (i + 1)] = text[i + 1]
    OBVIOUS
  <2>. QED
    BY <2>2, <2>3, <2>4
<1>. HIDE DEF Same
<1>3. Nat \subseteq Same
  BY <1>1, <1>2, Induction
<1>. QED
  BY <1>3 DEF Same

-----------------------------------------------------------------------------
(* Where a document ends. *)

\* The bytes begin with the text, with or without white space before it, so far
\* as they have come: skipped is the number of bytes before it.
Leads(bytes, skipped, text) ==
  /\ skipped \in {0, 1}
  /\ skipped = 1 /\ Len(bytes) > 0 => bytes[1] = "space"
  /\ \A i \in 1..Len(text) : skipped + i <= Len(bytes) => bytes[skipped + i] = text[i]

\* The locals of a scan of bytes that an enclosed text leads.
LEMMA LeadingTextScanned ==
  ASSUME NEW bytes \in Seq(Bytes), NEW text \in Seq(Bytes), Len(text) > 0, Enclosed(text),
         NEW skipped, Leads(bytes, skipped, text),
         NEW n \in 1..Len(bytes), n <= skipped + Len(text)
  PROVE  Ended(Scan(bytes)[n]) <=> n = skipped + Len(text)
<1>1. ~Ended(Start)
  BY DEF Ended, Start
<1>2. skipped \in {0, 1} /\ skipped \in Nat
  BY DEF Leads
<1>3. skipped <= Len(bytes) => Scan(bytes)[skipped] = Start
  <2>1. CASE skipped = 0
    BY <2>1, ScanSteps
  <2>2. CASE skipped = 1
    <3>1. 1 \in 1..Len(bytes) /\ 1 - 1 = 0
      OBVIOUS
    <3>2. bytes[1] = "space"
      BY <2>2, <3>1 DEF Leads
    <3>3. Scan(bytes)[1] = Scanned(Scan(bytes)[0], bytes[1]) /\ Scan(bytes)[0] = Start
      BY <3>1, ScanSteps
    <3>. QED
      BY <2>2, <3>2, <3>3, SpaceScanned
  <2>. QED
    BY <1>2, <2>1, <2>2
<1>4. CASE n <= skipped
  <2>1. n = skipped
    BY <1>2, <1>4
  <2>. QED
    BY <1>1, <1>2, <1>3, <2>1
<1>5. CASE n > skipped
  <2>. DEFINE m == n - skipped
  <2>1. m \in Nat /\ m \in 1..Len(text) /\ skipped + m = n /\ skipped + m <= Len(bytes) /\ m <= Len(text) /\ skipped <= Len(bytes)
    BY <1>2, <1>5
  <2>. HIDE DEF m
  <2>2. \A i \in 1..m : bytes[skipped + i] = text[i]
    <3>. SUFFICES ASSUME NEW i \in 1..m PROVE bytes[skipped + i] = text[i]
      OBVIOUS
    <3>1. i \in 1..Len(text) /\ skipped + i <= Len(bytes)
      BY <1>2, <2>1
    <3>. QED
      BY <3>1 DEF Leads
  <2>3. \A i \in 0..m : Scan(bytes)[skipped + i] = Scan(text)[i]
    BY <1>2, <1>3, <2>1, <2>2, SameBytes
  <2>4. Scan(bytes)[n] = Scan(text)[m]
    BY <2>1, <2>3
  <2>5. Ended(Scan(text)[m]) <=> m = Len(text)
    BY <2>1, EnclosedIsScanned
  <2>. QED
    BY <1>2, <2>1, <2>4, <2>5
<1>. QED
  BY <1>2, <1>4, <1>5

\* findJsonDocumentEnd finds an object or an array that bytes begin with when
\* the last byte of it has come, and ends it there, whatever brackets its
\* strings hold.
THEOREM EndOfDocument ==
  ASSUME NEW bytes \in Seq(Bytes), NEW text \in Seq(Bytes), Len(text) > 0, Enclosed(text),
         NEW skipped, Leads(bytes, skipped, text)
  PROVE  DocumentEnd(bytes) = IF skipped + Len(text) <= Len(bytes) THEN skipped + Len(text) ELSE 0
<1>. DEFINE ends == {i \in 1..Len(bytes) : Ended(Scan(bytes)[i])}
            end == skipped + Len(text)
            first == CHOOSE i \in ends : \A j \in ends : i <= j
<1>1. end \in Nat /\ end > 0
  BY DEF Leads
<1>2. \A i \in 1..Len(bytes) : i <= end => (i \in ends <=> i = end)
  BY LeadingTextScanned
<1>3. DocumentEnd(bytes) = IF ends = {} THEN 0 ELSE first
  BY DEF DocumentEnd
<1>4. ends \subseteq 1..Len(bytes)
  OBVIOUS
<1>. HIDE DEF ends, first
<1>5. CASE end <= Len(bytes)
  <2>1. end \in ends /\ \A j \in ends : end <= j
    BY <1>1, <1>2, <1>4, <1>5
  <2>2. \A i \in ends : (\A j \in ends : i <= j) => i = end
    BY <1>1, <1>4, <2>1
  <2>. HIDE DEF end
  <2>3. first = end
    BY <2>1, <2>2 DEF first
  <2>. QED
    BY <1>3, <1>5, <2>1, <2>3 DEF end
<1>6. CASE ~(end <= Len(bytes))
  <2>1. ends = {}
    BY <1>1, <1>2, <1>4, <1>6
  <2>. QED
    BY <1>3, <1>6, <2>1
<1>. QED
  BY <1>5, <1>6

\* A text without the white space before it.
LEMMA StrippedText ==
  ASSUME NEW bytes \in Seq(Bytes), NEW text \in Seq(Bytes), Len(text) > 0, text[1] # "space",
         NEW skipped, Leads(bytes, skipped, text), NEW n \in 1..Len(bytes)
  PROVE  Stripped(SubSeq(bytes, 1, n)) = IF n > skipped THEN SubSeq(bytes, skipped + 1, n) ELSE <<>>
<1>. DEFINE sub == SubSeq(bytes, 1, n)
            rest == {i \in DOMAIN sub : sub[i] # "space"}
            first == CHOOSE i \in rest : \A j \in rest : i <= j
<1>1. skipped \in {0, 1} /\ skipped \in Nat
  BY DEF Leads
<1>2. sub \in Seq(Bytes) /\ Len(sub) = n /\ DOMAIN sub = 1..n /\ \A i \in 1..n : sub[i] = bytes[i]
  OBVIOUS
<1>3. Stripped(sub) = IF rest = {} THEN <<>> ELSE SubSeq(sub, first, Len(sub))
  BY DEF Stripped
<1>. HIDE DEF first
<1>4. skipped = 1 => 1 \notin rest
  BY <1>2 DEF Leads
<1>5. rest \subseteq 1..n
  BY <1>2
<1>6. CASE n > skipped
  <2>1. bytes[skipped + 1] = text[1]
    <3>1. 1 \in 1..Len(text) /\ skipped + 1 <= Len(bytes)
      BY <1>1, <1>6
    <3>. QED
      BY <3>1 DEF Leads
  <2>2. skipped + 1 \in rest
    BY <1>1, <1>2, <1>6, <2>1
  <2>. HIDE DEF rest
  <2>3. \A i \in rest : skipped + 1 <= i
    BY <1>1, <1>4, <1>5
  <2>4. \A i \in rest : (\A j \in rest : i <= j) => i = skipped + 1
    BY <1>1, <1>5, <2>2, <2>3
  <2>5. first = skipped + 1
    BY <2>2, <2>3, <2>4 DEF first
  <2>6. Stripped(sub) = SubSeq(sub, skipped + 1, n)
    BY <1>2, <1>3, <2>2, <2>5
  <2>. HIDE DEF sub
  <2>7. SubSeq(sub, skipped + 1, n) = SubSeq(bytes, skipped + 1, n)
    <3>. DEFINE lower == skipped + 1
    <3>1. lower \in Nat /\ 1 <= lower /\ lower <= n /\ n <= Len(bytes)
      BY <1>1, <1>6
    <3>. HIDE DEF lower
    <3>2. \A i \in 1..(n - lower + 1) : lower + i - 1 \in 1..n
      BY <3>1
    <3>3. \A i \in 1..(n - lower + 1) : sub[lower + i - 1] = bytes[lower + i - 1]
      BY <1>2, <3>2
    <3>4. SubSeq(sub, lower, n) = [i \in 1..(n - lower + 1) |-> sub[lower + i - 1]]
      BY <1>2, <3>1
    <3>5. SubSeq(bytes, lower, n) = [i \in 1..(n - lower + 1) |-> bytes[lower + i - 1]]
      BY <3>1
    <3>6. SubSeq(sub, lower, n) = SubSeq(bytes, lower, n)
      BY <3>3, <3>4, <3>5
    <3>. QED
      BY <3>6 DEF lower
  <2>. QED
    BY <1>6, <2>6, <2>7 DEF sub
<1>7. CASE ~(n > skipped)
  <2>1. n = 1 /\ skipped = 1
    BY <1>1, <1>7
  <2>2. rest = {}
    BY <1>4, <1>5, <2>1
  <2>. HIDE DEF rest
  <2>. QED
    BY <1>3, <1>7, <2>2
<1>. QED
  BY <1>6, <1>7

\* What the loop takes of bytes that a document leads is that document ...
LEMMA DocumentIsTaken ==
  ASSUME NEW bytes \in Seq(Bytes), NEW text \in WellFormed, NEW skipped, Leads(bytes, skipped, text),
         DocumentEnd(bytes) > 0
  PROVE  /\ DocumentEnd(bytes) = skipped + Len(text)
         /\ DocumentEnd(bytes) <= Len(bytes)
         /\ Stripped(SubSeq(bytes, 1, DocumentEnd(bytes))) = text
<1>1. text \in Seq(Bytes) /\ Len(text) > 0 /\ Enclosed(text)
  BY FramingAssumption
<1>2. skipped \in {0, 1} /\ skipped \in Nat
  BY DEF Leads
<1>. DEFINE end == DocumentEnd(bytes)
<1>3. end = skipped + Len(text) /\ end <= Len(bytes)
  BY <1>1, EndOfDocument
<1>4. text[1] # "space"
  <2>1. text[1] \in {"{", "["}
    BY <1>1 DEF Enclosed
  <2>. QED
    BY <2>1, Brackets
<1>. HIDE DEF end
<1>5. Stripped(SubSeq(bytes, 1, end)) = SubSeq(bytes, skipped + 1, end)
  <2>1. end \in 1..Len(bytes) /\ end > skipped
    BY <1>1, <1>2, <1>3
  <2>. QED
    BY <1>1, <1>4, <2>1, StrippedText
<1>6. SubSeq(bytes, skipped + 1, end) = text
  <2>. DEFINE sub == SubSeq(bytes, skipped + 1, end)
  <2>1. sub \in Seq(Bytes) /\ Len(sub) = Len(text) /\ \A i \in 1..Len(text) : sub[i] = bytes[skipped + i]
    BY <1>1, <1>2, <1>3
  <2>2. \A i \in 1..Len(text) : bytes[skipped + i] = text[i]
    BY <1>1, <1>2, <1>3 DEF Leads
  <2>. HIDE DEF sub
  <2>3. sub \in Seq(Bytes) /\ Len(sub) = Len(text) /\ \A i \in 1..Len(sub) : sub[i] = text[i]
    BY <2>1, <2>2
  <2>4. sub = text
    BY <1>1, <2>3, SeqEqual
  <2>. QED
    BY <2>4 DEF sub
<1>. QED
  BY <1>3, <1>5, <1>6 DEF end

\* ... and nothing that it takes of bytes that a malformed text leads parses.
LEMMA MalformedIsNotTaken ==
  ASSUME NEW bytes \in Seq(Bytes), NEW text \in Malformed, NEW skipped, Leads(bytes, skipped, text),
         NEW n \in 1..Len(bytes)
  PROVE  ~Parses(SubSeq(bytes, 1, n))
<1>1. text \in Seq(Bytes) /\ Len(text) > 0 /\ text[1] # "space"
  BY FramingAssumption
<1>2. skipped \in {0, 1} /\ skipped \in Nat
  BY DEF Leads
<1>3. <<>> \notin WellFormed
  BY FramingAssumption
<1>4. CASE n > skipped
  <2>. DEFINE other == SubSeq(bytes, skipped + 1, n)
  <2>1. Stripped(SubSeq(bytes, 1, n)) = other
    BY <1>1, <1>4, StrippedText
  <2>2. other \in Seq(Bytes) /\ Len(other) = n - skipped /\ \A i \in 1..Len(other) : other[i] = bytes[skipped + i]
    BY <1>2, <1>4
  <2>3. \A i \in 1..Len(text) : i <= Len(other) => other[i] = text[i]
    <3>. SUFFICES ASSUME NEW i \in 1..Len(text), i <= Len(other) PROVE other[i] = text[i]
      OBVIOUS
    <3>. HIDE DEF other
    <3>1. i \in 1..Len(other) /\ skipped + i <= Len(bytes)
      BY <1>2, <2>2
    <3>2. bytes[skipped + i] = text[i]
      BY <3>1 DEF Leads
    <3>. QED
      BY <2>2, <3>1, <3>2
  <2>. HIDE DEF other
  <2>4. Begins(text, other) \/ Begins(other, text)
    <3>1. Len(text) \in Nat /\ Len(other) \in Nat
      BY <1>1, <2>2
    <3>2. CASE Len(text) <= Len(other)
      BY <2>3, <3>1, <3>2 DEF Begins
    <3>3. CASE Len(other) <= Len(text)
      BY <2>3, <3>1, <3>3 DEF Begins
    <3>. QED
      BY <3>1, <3>2, <3>3
  <2>5. other \notin WellFormed
    BY <2>4, FramingAssumption
  <2>. QED
    BY <2>1, <2>5 DEF Parses
<1>5. CASE ~(n > skipped)
  <2>1. Stripped(SubSeq(bytes, 1, n)) = <<>>
    BY <1>1, <1>5, StrippedText
  <2>. QED
    BY <1>3, <2>1 DEF Parses
<1>. QED
  BY <1>4, <1>5

-----------------------------------------------------------------------------
(* Where the texts stand in what has not been taken out of the buffer. *)

\* The bytes in the buffer and on the way behind it.
Sent == [k \in 1..Len(buffer) + Len(wire) |->
           IF k <= Len(buffer) THEN buffer[k] ELSE wire[k - Len(buffer)]]

\* The texts after the first n stand one after the other, each up to ends[i],
\* with or without white space before it; ends[n] is where the bytes begin.
Placed(ends, texts, n, bytes, length) ==
  /\ ends \in [n..Len(texts) -> Nat]
  /\ \A i, j \in n..Len(texts) : i <= j => ends[i] <= ends[j]
  /\ ends[Len(texts)] = ends[n] + length
  /\ \A i \in n + 1..Len(texts) :
       /\ \/ ends[i] = ends[i - 1] + Len(texts[i])
          \/ ends[i] = ends[i - 1] + Len(texts[i]) + 1 /\ bytes[ends[i - 1] - ends[n] + 1] = "space"
       /\ \A j \in 1..Len(texts[i]) : bytes[ends[i] - ends[n] - Len(texts[i]) + j] = texts[i][j]

\* The bytes of a text, and of the white space before it, are among those there
\* are: a is where they begin, p where the texts after the first do.
LEMMA Within ==
  ASSUME NEW a \in Nat, NEW p \in Nat, NEW b \in Nat, NEW c \in Nat, NEW size \in Nat, NEW length \in Nat,
         a <= p, p <= b, c <= a + length, c = b + size \/ c = b + size + 1
  PROVE  /\ c = b + size + 1 => /\ b - a + 1 \in 1..length
                               /\ b - p + 1 \in 1..length - (p - a)
                               /\ b - p + 1 + (p - a) = b - a + 1
         /\ \A j \in 1..size : /\ c - a - size + j \in 1..length
                               /\ c - p - size + j \in 1..length - (p - a)
                               /\ c - p - size + j + (p - a) = c - a - size + j
OBVIOUS

\* It stays so when another text is written ...
LEMMA PlacedBehind ==
  ASSUME NEW texts \in Seq(Seq(Bytes)), NEW n \in 0..Len(texts), NEW bytes, NEW length \in Nat,
         NEW ends, Placed(ends, texts, n, bytes, length),
         NEW text \in Seq(Bytes), NEW separator \in {0, 1}, NEW more,
         \A k \in 1..length : more[k] = bytes[k],
         separator = 1 => more[length + 1] = "space",
         \A j \in 1..Len(text) : more[length + separator + j] = text[j]
  PROVE  \E new : Placed(new, Append(texts, text), n, more, length + separator + Len(text))
<1>. DEFINE w == Len(texts)
            all == Append(texts, text)
            size == length + separator + Len(text)
            new == [i \in n..w + 1 |-> IF i = w + 1 THEN ends[n] + size ELSE ends[i]]
<1>1. /\ w \in Nat /\ Len(text) \in Nat /\ size \in Nat /\ size >= length
      /\ Len(all) = w + 1 /\ all[w + 1] = text /\ \A i \in 1..w : all[i] = texts[i]
  OBVIOUS
<1>2. /\ ends \in [n..w -> Nat]
      /\ \A i, j \in n..w : i <= j => ends[i] <= ends[j]
      /\ ends[w] = ends[n] + length
  BY DEF Placed
<1>3. \A i \in n + 1..w :
        /\ \/ ends[i] = ends[i - 1] + Len(texts[i])
           \/ ends[i] = ends[i - 1] + Len(texts[i]) + 1 /\ bytes[ends[i - 1] - ends[n] + 1] = "space"
        /\ \A j \in 1..Len(texts[i]) : bytes[ends[i] - ends[n] - Len(texts[i]) + j] = texts[i][j]
  BY DEF Placed
<1>. HIDE DEF size
<1>4. new \in [n..w + 1 -> Nat]
  BY <1>1, <1>2
<1>5. /\ \A i \in n..w : new[i] = ends[i]
      /\ new[w + 1] = ends[n] + size
      /\ n \in n..w /\ w \in n..w /\ new[n] = ends[n]
  BY <1>1
<1>. HIDE DEF new
<1>6. \A i, j \in n..w + 1 : i <= j => new[i] <= new[j]
  <2>. SUFFICES ASSUME NEW i \in n..w + 1, NEW j \in n..w + 1, i <= j PROVE new[i] <= new[j]
    OBVIOUS
  <2>1. CASE j = w + 1 /\ i # w + 1
    <3>1. i \in n..w /\ i <= w
      BY <1>1, <2>1
    <3>2. ends[i] \in Nat /\ ends[n] \in Nat /\ ends[i] <= ends[n] + length
      BY <1>2, <1>5, <3>1
    <3>. QED
      BY <1>1, <1>5, <2>1, <3>1, <3>2
  <2>2. CASE j = w + 1 /\ i = w + 1
    <3>1. new[i] \in Nat /\ new[j] = new[i]
      BY <1>4, <2>2
    <3>. QED
      BY <3>1
  <2>3. CASE j # w + 1
    <3>1. i \in n..w /\ j \in n..w
      BY <1>1, <2>3
    <3>. QED
      BY <1>2, <1>5, <3>1
  <2>. QED
    BY <2>1, <2>2, <2>3
<1>7. ASSUME NEW i \in n + 1..w + 1
      PROVE  /\ \/ new[i] = new[i - 1] + Len(all[i])
                \/ new[i] = new[i - 1] + Len(all[i]) + 1 /\ more[new[i - 1] - new[n] + 1] = "space"
             /\ \A j \in 1..Len(all[i]) : more[new[i] - new[n] - Len(all[i]) + j] = all[i][j]
  <2>1. CASE i = w + 1
    <3>1. i - 1 = w /\ new[i - 1] = ends[n] + length /\ new[i] = ends[n] + size /\ all[i] = text /\ ends[n] \in Nat
      <4>1. i - 1 = w /\ w \in n..w
        BY <1>1, <1>5, <2>1
      <4>2. ends[n] \in Nat
        BY <1>2, <1>5
      <4>. QED
        BY <1>1, <1>2, <1>5, <2>1, <4>1, <4>2
    <3>2. new[i - 1] - new[n] + 1 = length + 1 /\ new[i] - new[n] - Len(all[i]) = length + separator
      BY <1>1, <1>5, <3>1 DEF size
    <3>3. new[i] = new[i - 1] + Len(all[i]) + separator
      BY <1>1, <3>1 DEF size
    <3>4. \A j \in 1..Len(all[i]) : more[new[i] - new[n] - Len(all[i]) + j] = all[i][j]
      BY <3>1, <3>2
    <3>5. CASE separator = 0
      <4>1. new[i - 1] + Len(all[i]) + separator = new[i - 1] + Len(all[i])
        BY <1>1, <3>1, <3>5
      <4>2. new[i] = new[i - 1] + Len(all[i])
        BY <3>3, <4>1
      <4>. QED
        BY <3>4, <4>2
    <3>6. CASE separator = 1
      BY <3>2, <3>3, <3>4, <3>6
    <3>. QED
      BY <3>5, <3>6
  <2>2. CASE i # w + 1
    <3>1. i \in n + 1..w /\ i \in n..w /\ i - 1 \in n..w /\ i \in 1..w /\ i <= w /\ n <= i - 1
      BY <1>1, <2>2
    <3>2. new[i] = ends[i] /\ new[i - 1] = ends[i - 1] /\ all[i] = texts[i]
      BY <1>1, <1>5, <3>1
    <3>3. /\ ends[i] \in Nat /\ ends[i - 1] \in Nat /\ ends[n] \in Nat
          /\ ends[n] <= ends[i - 1] /\ ends[i] <= ends[n] + length
      BY <1>2, <1>5, <3>1
    <3>4. texts[i] \in Seq(Bytes) /\ Len(texts[i]) \in Nat
      BY <3>1
    <3>5. \/ ends[i] = ends[i - 1] + Len(texts[i])
          \/ ends[i] = ends[i - 1] + Len(texts[i]) + 1 /\ bytes[ends[i - 1] - ends[n] + 1] = "space"
      BY <1>3, <3>1
    <3>. DEFINE first == ends[n]
                before == ends[i - 1]
                here == ends[i]
                len == Len(texts[i])
    <3>6. /\ first \in Nat /\ before \in Nat /\ here \in Nat /\ len \in Nat
          /\ first <= first /\ first <= before /\ here <= first + length
          /\ here = before + len \/ here = before + len + 1
      BY <3>3, <3>4, <3>5
    <3>. HIDE DEF first, before, here, len
    <3>7. /\ here = before + len + 1 => before - first + 1 \in 1..length
          /\ \A j \in 1..len : here - first - len + j \in 1..length
      BY <3>6, Within
    <3>. USE DEF first, before, here, len
    <3>8. \A j \in 1..Len(texts[i]) : more[ends[i] - ends[n] - Len(texts[i]) + j] = texts[i][j]
      <4>1. \A j \in 1..Len(texts[i]) : more[ends[i] - ends[n] - Len(texts[i]) + j] = bytes[ends[i] - ends[n] - Len(texts[i]) + j]
        BY <3>7
      <4>. QED
        BY <1>3, <3>1, <4>1
    <3>9. ends[i] = ends[i - 1] + Len(texts[i]) + 1 => more[ends[i - 1] - ends[n] + 1] = bytes[ends[i - 1] - ends[n] + 1]
      BY <3>7
    <3>10. /\ \/ ends[i] = ends[i - 1] + Len(texts[i])
              \/ ends[i] = ends[i - 1] + Len(texts[i]) + 1 /\ more[ends[i - 1] - ends[n] + 1] = "space"
           /\ \A j \in 1..Len(texts[i]) : more[ends[i] - ends[n] - Len(texts[i]) + j] = texts[i][j]
      <4>1. CASE ends[i] = ends[i - 1] + Len(texts[i])
        BY <3>8, <4>1
      <4>2. CASE ends[i] = ends[i - 1] + Len(texts[i]) + 1 /\ bytes[ends[i - 1] - ends[n] + 1] = "space"
        BY <3>8, <3>9, <4>2
      <4>. QED
        BY <3>5, <4>1, <4>2
    <3>. QED
      BY <1>5, <3>2, <3>10, Zenon
  <2>. QED
    BY <2>1, <2>2
<1>8. Placed(new, all, n, more, size)
  BY <1>1, <1>4, <1>5, <1>6, <1>7 DEF Placed
<1>. QED
  BY <1>8 DEF size

\* ... and when the first one has been taken.
LEMMA PlacedBefore ==
  ASSUME NEW texts \in Seq(Seq(Bytes)), NEW n \in 0..Len(texts) - 1, NEW bytes, NEW length \in Nat,
         NEW ends, Placed(ends, texts, n, bytes, length),
         NEW rest, \A k \in 1..length - (ends[n + 1] - ends[n]) : rest[k] = bytes[k + (ends[n + 1] - ends[n])]
  PROVE  \E new : Placed(new, texts, n + 1, rest, length - (ends[n + 1] - ends[n]))
<1>. DEFINE w == Len(texts)
            taken == ends[n + 1] - ends[n]
            new == [i \in n + 1..w |-> ends[i]]
<1>1. /\ ends \in [n..w -> Nat]
      /\ \A i, j \in n..w : i <= j => ends[i] <= ends[j]
      /\ ends[w] = ends[n] + length
  BY DEF Placed
<1>2. \A i \in n + 1..w :
        /\ \/ ends[i] = ends[i - 1] + Len(texts[i])
           \/ ends[i] = ends[i - 1] + Len(texts[i]) + 1 /\ bytes[ends[i - 1] - ends[n] + 1] = "space"
        /\ \A j \in 1..Len(texts[i]) : bytes[ends[i] - ends[n] - Len(texts[i]) + j] = texts[i][j]
  BY DEF Placed
<1>3. w \in Nat /\ n + 1 \in n..w /\ n \in n..w /\ w \in n..w /\ n + 1 \in n + 1..w /\ w \in n + 1..w
  OBVIOUS
<1>4. ends[n] \in Nat /\ ends[n + 1] \in Nat /\ ends[w] \in Nat /\ ends[n] <= ends[n + 1]
  BY <1>1, <1>3
<1>5. new \in [n + 1..w -> Nat] /\ \A i \in n + 1..w : new[i] = ends[i] /\ i \in n..w
  BY <1>1
<1>. HIDE DEF new
<1>6. \A i, j \in n + 1..w : i <= j => new[i] <= new[j]
  BY <1>1, <1>5
<1>7. new[w] = new[n + 1] + (length - taken)
  BY <1>1, <1>3, <1>4, <1>5
<1>8. ASSUME NEW i \in n + 1 + 1..w
      PROVE  /\ \/ new[i] = new[i - 1] + Len(texts[i])
                \/ new[i] = new[i - 1] + Len(texts[i]) + 1 /\ rest[new[i - 1] - new[n + 1] + 1] = "space"
             /\ \A j \in 1..Len(texts[i]) : rest[new[i] - new[n + 1] - Len(texts[i]) + j] = texts[i][j]
  <2>1. i \in n + 1..w /\ i - 1 \in n + 1..w /\ i \in n..w /\ i - 1 \in n..w /\ i \in 1..w /\ i <= w /\ n + 1 <= i - 1
    BY <1>3
  <2>2. new[i] = ends[i] /\ new[i - 1] = ends[i - 1] /\ new[n + 1] = ends[n + 1]
    BY <1>3, <1>5, <2>1
  <2>3. ends[i] \in Nat /\ ends[i - 1] \in Nat /\ ends[n + 1] <= ends[i - 1] /\ ends[i] <= ends[n] + length
    BY <1>1, <1>3, <2>1
  <2>4. texts[i] \in Seq(Bytes) /\ Len(texts[i]) \in Nat
    BY <2>1
  <2>5. \/ ends[i] = ends[i - 1] + Len(texts[i])
        \/ ends[i] = ends[i - 1] + Len(texts[i]) + 1 /\ bytes[ends[i - 1] - ends[n] + 1] = "space"
    BY <1>2, <2>1
  <2>6. \A k \in 1..length - taken : rest[k] = bytes[k + taken]
    OBVIOUS
  <2>. DEFINE first == ends[n]
              next == ends[n + 1]
              before == ends[i - 1]
              here == ends[i]
              len == Len(texts[i])
  <2>7. /\ first \in Nat /\ next \in Nat /\ before \in Nat /\ here \in Nat /\ len \in Nat
        /\ first <= next /\ next <= before /\ here <= first + length
        /\ here = before + len \/ here = before + len + 1
    BY <1>4, <2>3, <2>4, <2>5
  <2>. HIDE DEF first, next, before, here, len
  <2>8. /\ here = before + len + 1 => /\ before - next + 1 \in 1..length - (next - first)
                                     /\ before - next + 1 + (next - first) = before - first + 1
        /\ \A j \in 1..len : /\ here - next - len + j \in 1..length - (next - first)
                             /\ here - next - len + j + (next - first) = here - first - len + j
    BY <2>7, Within
  <2>. USE DEF first, next, before, here, len
  <2>9. \A j \in 1..Len(texts[i]) : bytes[ends[i] - ends[n] - Len(texts[i]) + j] = texts[i][j]
    BY <1>2, <2>1
  <2>10. \A j \in 1..Len(texts[i]) : rest[ends[i] - ends[n + 1] - Len(texts[i]) + j] = texts[i][j]
    <3>. SUFFICES ASSUME NEW j \in 1..Len(texts[i]) PROVE rest[ends[i] - ends[n + 1] - Len(texts[i]) + j] = texts[i][j]
      OBVIOUS
    <3>. DEFINE k == ends[i] - ends[n + 1] - Len(texts[i]) + j
    <3>1. k \in 1..length - taken /\ k + taken = ends[i] - ends[n] - Len(texts[i]) + j
      BY <2>8, Zenon
    <3>2. bytes[ends[i] - ends[n] - Len(texts[i]) + j] = texts[i][j]
      BY <2>9
    <3>. HIDE DEF k
    <3>3. rest[k] = texts[i][j]
      BY <2>6, <3>1, <3>2
    <3>. QED
      BY <3>3 DEF k
  <2>11. /\ \/ ends[i] = ends[i - 1] + Len(texts[i])
            \/ ends[i] = ends[i - 1] + Len(texts[i]) + 1 /\ rest[ends[i - 1] - ends[n + 1] + 1] = "space"
    <3>1. CASE ends[i] = ends[i - 1] + Len(texts[i]) + 1 /\ bytes[ends[i - 1] - ends[n] + 1] = "space"
      <4>1. rest[ends[i - 1] - ends[n + 1] + 1] = bytes[ends[i - 1] - ends[n] + 1]
        BY <2>6, <2>8, <3>1
      <4>. QED
        BY <3>1, <4>1
    <3>. QED
      BY <2>5, <3>1
  <2>. QED
    BY <2>2, <2>10, <2>11, Zenon
<1>9. Placed(new, texts, n + 1, rest, length - taken)
  BY <1>5, <1>6, <1>7, <1>8 DEF Placed
<1>. QED
  BY <1>9

-----------------------------------------------------------------------------
(* The invariant. *)

TypeOK ==
  /\ written \in Seq(WellFormed \cup Malformed)
  /\ wire \in Seq(Bytes)
  /\ buffer \in Seq(Bytes)
  /\ receiving \in BOOLEAN
  /\ documents \in Seq(WellFormed)
  /\ Len(documents) <= Len(written)

\* What has not been taken is the texts that follow those that have been.
StreamInv ==
  \E ends : Placed(ends, written, Len(documents), Sent, Len(buffer) + Len(wire))

FramingInv == TypeOK /\ StreamInv

LEMMA TextsAreBytes ==
  ASSUME NEW texts \in Seq(WellFormed \cup Malformed)
  PROVE  texts \in Seq(Seq(Bytes))
<1>1. WellFormed \cup Malformed \subseteq Seq(Bytes)
  BY FramingAssumption
<1>. QED
  BY <1>1, SeqMonotonic

LEMMA InitInv == Init => FramingInv
<1>. SUFFICES ASSUME Init PROVE FramingInv
  OBVIOUS
<1>2. written = <<>> /\ documents = <<>> /\ buffer = <<>> /\ wire = <<>> /\ receiving = FALSE
  BY DEF Init
<1>3. Len(written) = 0 /\ Len(documents) = 0 /\ Len(buffer) + Len(wire) = 0
  BY <1>2
<1>9. TypeOK
  <2>1. written \in Seq(WellFormed \cup Malformed) /\ wire \in Seq(Bytes) /\ buffer \in Seq(Bytes) /\ documents \in Seq(WellFormed)
    BY <1>2, EmptySeq
  <2>2. Len(documents) <= Len(written)
    BY <1>3
  <2>3. receiving \in BOOLEAN
    BY <1>2
  <2>. QED
    BY <2>1, <2>2, <2>3 DEF TypeOK
<1>4. Placed([i \in 0..0 |-> 0], written, 0, Sent, 0)
  <2>. DEFINE ends == [i \in 0..0 |-> 0]
  <2>1. ends \in [0..0 -> Nat] /\ (\A i, j \in 0..0 : i <= j => ends[i] <= ends[j]) /\ ends[0] = 0 /\ 0 + 0 = 0
    OBVIOUS
  <2>2. 0 + 1..0 = {}
    OBVIOUS
  <2>. HIDE DEF ends
  <2>3. Placed(ends, written, 0, Sent, 0)
    BY <1>3, <2>1, <2>2 DEF Placed
  <2>. QED
    BY <2>3 DEF ends
<1>5. StreamInv
  BY <1>3, <1>4 DEF StreamInv
<1>. QED
  BY <1>5, <1>9 DEF FramingInv

LEMMA PeerWritesInv ==
  ASSUME FramingInv, NEW text \in WellFormed \cup Malformed, PeerWrites(text)
  PROVE  FramingInv'
<1>1. text \in Seq(Bytes) /\ Len(text) \in Nat
  BY FramingAssumption
<1>2. PICK separator \in {<<>>, <<"space">>} : wire' = wire \o separator \o text
  BY DEF PeerWrites
<1>3. written' = Append(written, text) /\ buffer' = buffer /\ receiving' = receiving /\ documents' = documents
  BY DEF PeerWrites
<1>4. /\ written \in Seq(WellFormed \cup Malformed) /\ wire \in Seq(Bytes) /\ buffer \in Seq(Bytes)
      /\ documents \in Seq(WellFormed) /\ Len(documents) <= Len(written) /\ receiving \in BOOLEAN
  BY DEF FramingInv, TypeOK
<1>. DEFINE length == Len(buffer) + Len(wire)
<1>5. separator \in Seq(Bytes) /\ Len(separator) \in {0, 1} /\ (Len(separator) = 1 => separator[1] = "space")
  <2>1. "space" \in Bytes
    BY DEF Bytes
  <2>2. CASE separator = <<>>
    BY <2>2
  <2>3. CASE separator = <<"space">>
    BY <2>1, <2>3
  <2>. QED
    BY <2>2, <2>3
<1>6. /\ wire' \in Seq(Bytes)
      /\ Len(wire') = Len(wire) + Len(separator) + Len(text)
      /\ \A k \in 1..Len(wire) : wire'[k] = wire[k]
      /\ \A k \in 1..Len(separator) : wire'[Len(wire) + k] = separator[k]
      /\ \A k \in 1..Len(text) : wire'[Len(wire) + Len(separator) + k] = text[k]
  <2>1. /\ wire \o separator \in Seq(Bytes)
        /\ Len(wire \o separator) = Len(wire) + Len(separator)
        /\ \A k \in 1..Len(wire) + Len(separator) :
             (wire \o separator)[k] = IF k <= Len(wire) THEN wire[k] ELSE separator[k - Len(wire)]
    BY <1>4, <1>5
  <2>. DEFINE front == wire \o separator
  <2>2. front \in Seq(Bytes) /\ Len(front) = Len(wire) + Len(separator)
    BY <2>1
  <2>. HIDE DEF front
  <2>3. /\ front \o text \in Seq(Bytes)
        /\ Len(front \o text) = Len(front) + Len(text)
        /\ \A k \in 1..Len(front) + Len(text) :
             (front \o text)[k] = IF k <= Len(front) THEN front[k] ELSE text[k - Len(front)]
    BY <1>1, <2>2
  <2>4. wire' = front \o text
    BY <1>2 DEF front
  <2>5. \A k \in 1..Len(front) : wire'[k] = front[k]
    BY <1>1, <2>2, <2>3, <2>4
  <2>6. \A k \in 1..Len(text) : wire'[Len(front) + k] = text[k]
    BY <1>1, <2>2, <2>3, <2>4
  <2>7. Len(wire) \in Nat /\ Len(separator) \in Nat
    BY <1>4, <1>5
  <2>8. \A k \in 1..Len(wire) : front[k] = wire[k]
    BY <2>1, <2>7 DEF front
  <2>9. \A k \in 1..Len(separator) : front[Len(wire) + k] = separator[k]
    BY <2>1, <2>7 DEF front
  <2>10. /\ \A k \in 1..Len(wire) : wire'[k] = wire[k]
         /\ \A k \in 1..Len(separator) : wire'[Len(wire) + k] = separator[k]
    BY <2>2, <2>5, <2>7, <2>8, <2>9
  <2>. QED
    BY <2>2, <2>3, <2>4, <2>6, <2>10
<1>7. length \in Nat /\ Len(buffer) \in Nat /\ Len(wire) \in Nat /\ Len(separator) \in Nat
  BY <1>4, <1>5
<1>8. Len(buffer') + Len(wire') = length + Len(separator) + Len(text)
  BY <1>1, <1>3, <1>6, <1>7
<1>9. \A k \in 1..Len(buffer) + Len(wire) + Len(separator) + Len(text) :
        Sent'[k] = IF k <= Len(buffer) THEN buffer[k] ELSE wire'[k - Len(buffer)]
  <2>1. Len(buffer) + Len(wire) + Len(separator) + Len(text) = Len(buffer') + Len(wire')
    BY <1>8
  <2>. QED
    BY <1>3, <2>1 DEF Sent
<1>10. \A k \in 1..length : Sent'[k] = Sent[k]
  <2>. SUFFICES ASSUME NEW k \in 1..length PROVE Sent'[k] = Sent[k]
    OBVIOUS
  <2>1. Sent'[k] = IF k <= Len(buffer) THEN buffer[k] ELSE wire'[k - Len(buffer)]
    BY <1>1, <1>7, <1>9
  <2>2. Sent[k] = IF k <= Len(buffer) THEN buffer[k] ELSE wire[k - Len(buffer)]
    BY DEF Sent
  <2>3. ~(k <= Len(buffer)) => k - Len(buffer) \in 1..Len(wire)
    BY <1>7
  <2>. QED
    BY <1>6, <2>1, <2>2, <2>3
<1>11. Len(separator) = 1 => Sent'[length + 1] = "space"
  <2>. SUFFICES ASSUME Len(separator) = 1 PROVE Sent'[length + 1] = "space"
    OBVIOUS
  <2>1. /\ length + 1 \in 1..Len(buffer) + Len(wire) + Len(separator) + Len(text)
        /\ ~(length + 1 <= Len(buffer)) /\ length + 1 - Len(buffer) = Len(wire) + 1
    BY <1>1, <1>7
  <2>2. wire'[Len(wire) + 1] = "space"
    BY <1>5, <1>6
  <2>. QED
    BY <1>9, <2>1, <2>2
<1>12. \A j \in 1..Len(text) : Sent'[length + Len(separator) + j] = text[j]
  <2>. SUFFICES ASSUME NEW j \in 1..Len(text) PROVE Sent'[length + Len(separator) + j] = text[j]
    OBVIOUS
  <2>1. /\ length + Len(separator) + j \in 1..Len(buffer) + Len(wire) + Len(separator) + Len(text)
        /\ ~(length + Len(separator) + j <= Len(buffer))
        /\ length + Len(separator) + j - Len(buffer) = Len(wire) + Len(separator) + j
    BY <1>1, <1>7
  <2>. QED
    BY <1>6, <1>9, <2>1
<1>13. PICK ends : Placed(ends, written, Len(documents), Sent, length)
  BY DEF FramingInv, StreamInv
<1>14. written \in Seq(Seq(Bytes)) /\ Len(documents) \in 0..Len(written)
  BY <1>4, TextsAreBytes
<1>15. \E new : Placed(new, Append(written, text), Len(documents), Sent', length + Len(separator) + Len(text))
  <2>. HIDE DEF length
  <2>. QED
    BY ZenonT(60), <1>1, <1>5, <1>7, <1>10, <1>11, <1>12, <1>13, <1>14, PlacedBehind
<1>16. StreamInv'
  BY <1>3, <1>8, <1>15 DEF StreamInv
<1>17. TypeOK'
  <2>1. written' \in Seq(WellFormed \cup Malformed) /\ Len(written') = Len(written) + 1
    BY <1>3, <1>4
  <2>. QED
    BY <1>3, <1>4, <1>6, <2>1 DEF TypeOK
<1>. QED
  BY <1>16, <1>17 DEF FramingInv

LEMMA ReadyReadInv ==
  ASSUME FramingInv, ReadyRead
  PROVE  FramingInv'
<1>1. PICK n \in 1..Len(wire) : /\ buffer' = buffer \o SubSeq(wire, 1, n)
                                /\ wire' = SubSeq(wire, n + 1, Len(wire))
  BY DEF ReadyRead
<1>2. written' = written /\ documents' = documents /\ receiving' = TRUE
  BY DEF ReadyRead
<1>3. /\ written \in Seq(WellFormed \cup Malformed) /\ wire \in Seq(Bytes) /\ buffer \in Seq(Bytes)
      /\ documents \in Seq(WellFormed) /\ Len(documents) <= Len(written)
  BY DEF FramingInv, TypeOK
<1>4. Len(wire) \in Nat /\ Len(buffer) \in Nat
  BY <1>3
<1>. DEFINE come == SubSeq(wire, 1, n)
<1>5. come \in Seq(Bytes) /\ Len(come) = n /\ \A k \in 1..n : come[k] = wire[k]
  BY <1>3
<1>6. /\ wire' \in Seq(Bytes) /\ Len(wire') = Len(wire) - n
      /\ \A k \in 1..Len(wire) - n : wire'[k] = wire[k + n]
  BY <1>1, <1>3
<1>. HIDE DEF come
<1>7. /\ buffer' \in Seq(Bytes) /\ Len(buffer') = Len(buffer) + n
      /\ \A k \in 1..Len(buffer) + n : buffer'[k] = IF k <= Len(buffer) THEN buffer[k] ELSE come[k - Len(buffer)]
  <2>1. buffer' = buffer \o come
    BY <1>1 DEF come
  <2>. QED
    BY <1>3, <1>5, <2>1, ConcatProperties
<1>8. Len(buffer') + Len(wire') = Len(buffer) + Len(wire)
  BY <1>4, <1>6, <1>7
<1>9. ASSUME NEW k \in 1..Len(buffer) + Len(wire)
      PROVE  (IF k <= Len(buffer') THEN buffer'[k] ELSE wire'[k - Len(buffer')])
               = IF k <= Len(buffer) THEN buffer[k] ELSE wire[k - Len(buffer)]
  <2>1. CASE k <= Len(buffer)
    BY <1>4, <1>7, <2>1
  <2>2. CASE ~(k <= Len(buffer)) /\ k <= Len(buffer) + n
    <3>1. k \in 1..Len(buffer) + n /\ k - Len(buffer) \in 1..n
      BY <1>4, <2>2
    <3>. QED
      BY <1>5, <1>7, <2>2, <3>1
  <2>3. CASE ~(k <= Len(buffer) + n)
    <3>1. k - (Len(buffer) + n) \in 1..Len(wire) - n /\ k - (Len(buffer) + n) + n = k - Len(buffer) /\ ~(k <= Len(buffer))
      BY <1>4, <2>3
    <3>. QED
      BY <1>6, <1>7, <2>3, <3>1
  <2>. QED
    BY <2>1, <2>2, <2>3
<1>10. Sent' = Sent
  BY <1>8, <1>9 DEF Sent
<1>11. StreamInv'
  BY <1>2, <1>8, <1>10 DEF FramingInv, StreamInv
<1>12. TypeOK'
  BY <1>2, <1>3, <1>6, <1>7 DEF TypeOK
<1>. QED
  BY <1>11, <1>12 DEF FramingInv

\* The text that the bytes in the buffer begin with.
LEMMA HeadLeads ==
  ASSUME FramingInv, NEW ends, Len(documents) < Len(written),
         Placed(ends, written, Len(documents), Sent, Len(buffer) + Len(wire))
  PROVE  LET n == Len(documents)
             text == written[n + 1]
         IN  \E skipped \in {0, 1} : /\ ends[n + 1] - ends[n] = skipped + Len(text)
                                     /\ Leads(buffer, skipped, text)
<1>1. /\ written \in Seq(WellFormed \cup Malformed) /\ wire \in Seq(Bytes) /\ buffer \in Seq(Bytes)
      /\ documents \in Seq(WellFormed)
  BY DEF FramingInv, TypeOK
<1>. DEFINE n == Len(documents)
            text == written[n + 1]
<1>2. n \in Nat /\ Len(written) \in Nat /\ Len(buffer) \in Nat /\ Len(wire) \in Nat
  BY <1>1
<1>3. n + 1 \in n + 1..Len(written) /\ n \in n..Len(written) /\ n + 1 \in n..Len(written) /\ n + 1 - 1 = n
  BY <1>2
<1>4. written \in Seq(Seq(Bytes)) /\ text \in Seq(Bytes) /\ Len(text) \in Nat
  BY <1>1, <1>2, TextsAreBytes
<1>. HIDE DEF n, text
<1>5. ends[n] \in Nat /\ ends[n + 1] \in Nat
  BY <1>3 DEF Placed, n
<1>6. /\ \/ ends[n + 1] = ends[n] + Len(text)
         \/ ends[n + 1] = ends[n] + Len(text) + 1 /\ Sent[ends[n] - ends[n] + 1] = "space"
      /\ \A j \in 1..Len(text) : Sent[ends[n + 1] - ends[n] - Len(text) + j] = text[j]
  BY <1>3 DEF Placed, n, text
<1>7. \A k \in 1..Len(buffer) : Sent[k] = buffer[k]
  BY <1>2 DEF Sent
<1>. DEFINE skipped == ends[n + 1] - ends[n] - Len(text)
<1>8. /\ skipped \in {0, 1}
      /\ ends[n + 1] - ends[n] = skipped + Len(text)
      /\ skipped = 1 => Sent[1] = "space"
  <2>1. ends[n] - ends[n] + 1 = 1
    BY <1>5
  <2>2. CASE ends[n + 1] = ends[n] + Len(text)
    BY <1>4, <1>5, <2>2
  <2>3. CASE ends[n + 1] = ends[n] + Len(text) + 1 /\ Sent[ends[n] - ends[n] + 1] = "space"
    BY SMTT(20), <1>4, <1>5, <2>1, <2>3
  <2>. QED
    BY <1>6, <2>2, <2>3
<1>9. \A j \in 1..Len(text) : Sent[skipped + j] = text[j]
  BY <1>6
<1>. HIDE DEF skipped
<1>10. Leads(buffer, skipped, text)
  <2>1. skipped = 1 /\ Len(buffer) > 0 => buffer[1] = "space"
    <3>1. Len(buffer) > 0 => 1 \in 1..Len(buffer)
      BY <1>2
    <3>. QED
      BY <1>7, <1>8, <3>1
  <2>2. \A i \in 1..Len(text) : skipped + i <= Len(buffer) => buffer[skipped + i] = text[i]
    <3>. SUFFICES ASSUME NEW i \in 1..Len(text), skipped + i <= Len(buffer) PROVE buffer[skipped + i] = text[i]
      OBVIOUS
    <3>1. skipped + i \in 1..Len(buffer)
      BY <1>2, <1>4, <1>8
    <3>. QED
      BY <1>7, <1>9, <3>1
  <2>. QED
    BY <1>8, <2>1, <2>2 DEF Leads
<1>. QED
  BY <1>8, <1>10 DEF n, text

\* A turn of the loop that takes a document takes the one that is next.
LEMMA NextIsTaken ==
  ASSUME FramingInv, DocumentEnd(buffer) > 0, Parses(SubSeq(buffer, 1, DocumentEnd(buffer))),
         NEW ends, Placed(ends, written, Len(documents), Sent, Len(buffer) + Len(wire))
  PROVE  LET n == Len(documents)
             end == DocumentEnd(buffer)
         IN  /\ n < Len(written)
             /\ written[n + 1] \in WellFormed
             /\ Stripped(SubSeq(buffer, 1, end)) = written[n + 1]
             /\ end = ends[n + 1] - ends[n]
             /\ end \in 1..Len(buffer)
<1>1. /\ written \in Seq(WellFormed \cup Malformed) /\ wire \in Seq(Bytes) /\ buffer \in Seq(Bytes)
      /\ documents \in Seq(WellFormed) /\ Len(documents) <= Len(written)
  BY DEF FramingInv, TypeOK
<1>. DEFINE n == Len(documents)
            end == DocumentEnd(buffer)
            text == written[n + 1]
<1>2. n \in Nat /\ Len(written) \in Nat /\ Len(buffer) \in Nat /\ Len(wire) \in Nat
  BY <1>1
<1>3. end \in 1..Len(buffer)
  <2>. DEFINE found == {i \in 1..Len(buffer) : Ended(Scan(buffer)[i])}
              first == CHOOSE i \in found : \A j \in found : i <= j
  <2>1. end = IF found = {} THEN 0 ELSE first
    BY DEF DocumentEnd
  <2>. HIDE DEF first
  <2>2. found # {}
    BY <2>1
  <2>3. found \in SUBSET Nat
    OBVIOUS
  <2>4. found \subseteq 1..Len(buffer)
    OBVIOUS
  <2>. HIDE DEF found, end
  <2>5. \E i \in found : \A j \in found : i <= j
    BY <2>2, <2>3, LeastNatural
  <2>6. first \in found
    BY <2>5 DEF first
  <2>. QED
    BY <2>1, <2>2, <2>4, <2>6
<1>4. n < Len(written)
  <2>. SUFFICES ASSUME n = Len(written) PROVE FALSE
    BY <1>1, <1>2
  <2>1. ends[Len(written)] = ends[n] + (Len(buffer) + Len(wire)) /\ ends[n] \in Nat
    <3>1. n \in n..Len(written)
      BY <1>2
    <3>. QED
      BY <3>1 DEF Placed
  <2>2. Len(buffer) = 0
    BY <1>2, <2>1
  <2>. QED
    BY <1>3, <2>2
<1>5. PICK skipped \in {0, 1} : ends[n + 1] - ends[n] = skipped + Len(text) /\ Leads(buffer, skipped, text)
  BY <1>4, HeadLeads
<1>6. text \in WellFormed \cup Malformed
  BY <1>1, <1>2, <1>4
<1>. HIDE DEF text, end
<1>7. text \in WellFormed
  <2>. SUFFICES ASSUME text \in Malformed PROVE FALSE
    BY <1>6
  <2>1. ~Parses(SubSeq(buffer, 1, end))
    BY <1>1, <1>3, <1>5, MalformedIsNotTaken
  <2>. QED
    BY <2>1 DEF end
<1>8. end > 0
  BY DEF end
<1>9. end = skipped + Len(text) /\ Stripped(SubSeq(buffer, 1, end)) = text
  BY <1>1, <1>5, <1>7, <1>8, DocumentIsTaken DEF end
<1>. QED
  BY <1>3, <1>4, <1>5, <1>7, <1>9 DEF end, text

LEMMA TakeDocumentCases ==
  ASSUME TakeDocument
  PROVE  /\ UNCHANGED <<written, wire>>
         /\ \/ /\ DocumentEnd(buffer) > 0
               /\ Parses(SubSeq(buffer, 1, DocumentEnd(buffer)))
               /\ documents' = Append(documents, Stripped(SubSeq(buffer, 1, DocumentEnd(buffer))))
               /\ buffer' = SubSeq(buffer, DocumentEnd(buffer) + 1, Len(buffer))
               /\ receiving' = receiving
            \/ receiving' = FALSE /\ UNCHANGED <<buffer, documents>>
BY DEF TakeDocument, Again

LEMMA TakeDocumentInv ==
  ASSUME FramingInv, TakeDocument
  PROVE  FramingInv'
<1>1. /\ written \in Seq(WellFormed \cup Malformed) /\ wire \in Seq(Bytes) /\ buffer \in Seq(Bytes)
      /\ documents \in Seq(WellFormed) /\ Len(documents) <= Len(written) /\ receiving \in BOOLEAN
  BY DEF FramingInv, TypeOK
<1>2. written' = written /\ wire' = wire
  BY TakeDocumentCases
<1>. DEFINE end == DocumentEnd(buffer)
            n == Len(documents)
<1>3. ASSUME end > 0, Parses(SubSeq(buffer, 1, end)),
             documents' = Append(documents, Stripped(SubSeq(buffer, 1, end))),
             buffer' = SubSeq(buffer, end + 1, Len(buffer)),
             receiving' = receiving
      PROVE  FramingInv'
  <2>1. PICK ends : Placed(ends, written, n, Sent, Len(buffer) + Len(wire))
    BY DEF FramingInv, StreamInv
  <2>2. /\ n < Len(written) /\ written[n + 1] \in WellFormed
        /\ Stripped(SubSeq(buffer, 1, end)) = written[n + 1]
        /\ end = ends[n + 1] - ends[n] /\ end \in 1..Len(buffer)
    BY <1>3, <2>1, NextIsTaken
  <2>. HIDE DEF end
  <2>3. n \in Nat /\ Len(written) \in Nat /\ Len(buffer) \in Nat /\ Len(wire) \in Nat
    BY <1>1
  <2>4. documents' \in Seq(WellFormed) /\ Len(documents') = n + 1
    BY <1>1, <1>3, <2>2
  <2>5. /\ buffer' \in Seq(Bytes) /\ Len(buffer') = Len(buffer) - end
        /\ \A k \in 1..Len(buffer) - end : buffer'[k] = buffer[k + end]
    <3>1. end + 1 \in 1..Len(buffer) + 1 /\ Len(buffer) \in end + 1 - 1..Len(buffer)
      BY <2>2, <2>3
    <3>2. /\ buffer' \in Seq(Bytes) /\ Len(buffer') = Len(buffer) - (end + 1) + 1
          /\ \A k \in 1..Len(buffer) - (end + 1) + 1 : buffer'[k] = buffer[end + 1 + k - 1]
      BY <1>1, <1>3, <3>1, SubSeqProperties
    <3>3. Len(buffer) - (end + 1) + 1 = Len(buffer) - end
      BY <2>2, <2>3
    <3>4. \A k \in 1..Len(buffer) - end : end + 1 + k - 1 = k + end
      BY <2>2, <2>3
    <3>. QED
      BY <3>2, <3>3, <3>4
  <2>6. TypeOK'
    BY <1>1, <1>2, <1>3, <2>2, <2>3, <2>4, <2>5 DEF TypeOK
  <2>7. Len(buffer') + Len(wire') = (Len(buffer) + Len(wire)) - end
    BY <1>2, <2>2, <2>3, <2>5
  <2>8. \A k \in 1..(Len(buffer) + Len(wire)) - end : Sent'[k] = Sent[k + end]
    <3>. SUFFICES ASSUME NEW k \in 1..(Len(buffer) + Len(wire)) - end PROVE Sent'[k] = Sent[k + end]
      OBVIOUS
    <3>1. Sent'[k] = IF k <= Len(buffer') THEN buffer'[k] ELSE wire'[k - Len(buffer')]
      BY <2>7 DEF Sent
    <3>2. k + end \in 1..Len(buffer) + Len(wire)
      BY <2>2, <2>3
    <3>3. Sent[k + end] = IF k + end <= Len(buffer) THEN buffer[k + end] ELSE wire[(k + end) - Len(buffer)]
      <4>1. \A m \in 1..Len(buffer) + Len(wire) :
              Sent[m] = IF m <= Len(buffer) THEN buffer[m] ELSE wire[m - Len(buffer)]
        BY DEF Sent
      <4>. DEFINE m == k + end
      <4>2. m \in 1..Len(buffer) + Len(wire)
        BY <3>2
      <4>. HIDE DEF m
      <4>3. Sent[m] = IF m <= Len(buffer) THEN buffer[m] ELSE wire[m - Len(buffer)]
        BY <4>1, <4>2
      <4>. QED
        BY <4>3 DEF m
    <3>4. CASE k + end <= Len(buffer)
      <4>1. k \in 1..Len(buffer) - end /\ k <= Len(buffer')
        BY <2>2, <2>3, <2>5, <3>4
      <4>. QED
        BY <2>5, <3>1, <3>3, <3>4, <4>1
    <3>5. CASE ~(k + end <= Len(buffer))
      <4>1. ~(k <= Len(buffer')) /\ k - Len(buffer') = (k + end) - Len(buffer)
        BY SMTT(20), <2>2, <2>3, <2>5, <3>5
      <4>. QED
        BY <1>2, <3>1, <3>3, <3>5, <4>1
    <3>. QED
      BY <3>4, <3>5
  <2>9. \E new : Placed(new, written, n + 1, Sent', (Len(buffer) + Len(wire)) - end)
    <3>1. n \in 0..Len(written) - 1 /\ Len(buffer) + Len(wire) \in Nat /\ written \in Seq(Seq(Bytes))
      BY <1>1, <2>2, <2>3, TextsAreBytes
    <3>2. \A k \in 1..(Len(buffer) + Len(wire)) - (ends[n + 1] - ends[n]) : Sent'[k] = Sent[k + (ends[n + 1] - ends[n])]
      BY <2>2, <2>8
    <3>. DEFINE length == Len(buffer) + Len(wire)
                rest == Sent'
    <3>3. /\ n \in 0..Len(written) - 1 /\ length \in Nat /\ written \in Seq(Seq(Bytes))
          /\ Placed(ends, written, n, Sent, length)
          /\ \A k \in 1..length - (ends[n + 1] - ends[n]) : rest[k] = Sent[k + (ends[n + 1] - ends[n])]
      BY <2>1, <3>1, <3>2
    <3>. HIDE DEF n, length, rest
    <3>4. \E new : Placed(new, written, n + 1, rest, length - (ends[n + 1] - ends[n]))
      BY <3>3, PlacedBefore
    <3>. QED
      BY <2>2, <3>4 DEF length, rest
  <2>10. StreamInv'
    BY <1>2, <2>4, <2>7, <2>9 DEF StreamInv
  <2>. QED
    BY <2>6, <2>10 DEF FramingInv
<1>4. ASSUME receiving' = FALSE, UNCHANGED <<buffer, documents>>
      PROVE  FramingInv'
  BY <1>1, <1>2, <1>4 DEF FramingInv, TypeOK, StreamInv, Sent
<1>. QED
  BY <1>3, <1>4, TakeDocumentCases

LEMMA NextInv == FramingInv /\ [Next]_vars => FramingInv'
<1>. SUFFICES ASSUME FramingInv, [Next]_vars PROVE FramingInv'
  OBVIOUS
<1>1. CASE \E text \in WellFormed \cup Malformed : PeerWrites(text)
  BY <1>1, PeerWritesInv
<1>2. CASE ReadyRead
  BY <1>2, ReadyReadInv
<1>3. CASE TakeDocument
  BY <1>3, TakeDocumentInv
<1>4. CASE UNCHANGED vars
  BY <1>4 DEF FramingInv, TypeOK, StreamInv, Sent, vars
<1>. QED
  BY <1>1, <1>2, <1>3, <1>4 DEF Next

-----------------------------------------------------------------------------
(* The theorems. *)

\* The variables of the receive loop keep their types, and what has not been
\* taken out of the buffer is the texts that follow those that have been: the
\* loop of _q_processIncomingData never takes more or less than a document.
THEOREM FramingInvHolds == Spec => []FramingInv
<1>. QED
  BY InitInv, NextInv, PTL DEF Spec

\* The loop of _q_processIncomingData implements a queue of documents, for all
\* texts, whatever the pieces they arrive in.
THEOREM LoopImplementsQueue == Spec => ImplementsDocumentQueue
<1>1. Init => Queue!Init
  BY DEF Init, Queue!Init
<1>2. FramingInv /\ [Next]_vars => [Queue!Next]_<<written, documents>>
  <2>. SUFFICES ASSUME FramingInv, [Next]_vars PROVE [Queue!Next]_<<written, documents>>
    OBVIOUS
  <2>1. ASSUME NEW text \in WellFormed \cup Malformed, PeerWrites(text) PROVE Queue!Next
    BY <2>1 DEF PeerWrites, Queue!Next, Queue!Write
  <2>2. CASE ReadyRead
    BY <2>2 DEF ReadyRead
  <2>3. CASE TakeDocument
    <3>1. written' = written
      BY <2>3, TakeDocumentCases
    <3>2. ASSUME DocumentEnd(buffer) > 0, Parses(SubSeq(buffer, 1, DocumentEnd(buffer))),
                 documents' = Append(documents, Stripped(SubSeq(buffer, 1, DocumentEnd(buffer))))
          PROVE  Queue!Next
      <4>1. PICK ends : Placed(ends, written, Len(documents), Sent, Len(buffer) + Len(wire))
        BY DEF FramingInv, StreamInv
      <4>2. /\ Len(documents) < Len(written)
            /\ written[Len(documents) + 1] \in WellFormed
            /\ Stripped(SubSeq(buffer, 1, DocumentEnd(buffer))) = written[Len(documents) + 1]
        BY <3>2, <4>1, NextIsTaken
      <4>. QED
        BY <3>1, <3>2, <4>2 DEF Queue!Next, Queue!Deliver
    <3>. QED
      BY <2>3, <3>1, <3>2, TakeDocumentCases
  <2>4. CASE UNCHANGED vars
    BY <2>4 DEF vars
  <2>. QED
    BY <2>1, <2>2, <2>3, <2>4 DEF Next
<1>. QED
  BY <1>1, <1>2, FramingInvHolds, PTL DEF Spec, ImplementsDocumentQueue, Queue!Spec
=============================================================================
