----------------------- MODULE ServiceDispatch_proof -----------------------
(***************************************************************************)
(* Proofs about the methods that requests choose and call, for all         *)
(* services, requests and numbers of times a service is added.             *)
(***************************************************************************)
EXTENDS ServiceDispatch, FiniteSetTheorems, SequenceTheorems, WellFoundedInduction, TLAPS

-----------------------------------------------------------------------------
(* Induction, over sets of numbers. *)

\* A set of numbers that is not empty has a least one.
LEMMA LeastNatural ==
  ASSUME NEW S \in SUBSET Nat, S # {}
  PROVE  \E n \in S : \A m \in S : n <= m
<1>. DEFINE R == OpToRel(<, Nat)
<1>1. IsWellFoundedOn(R, Nat)
  BY NatLessThanWellFounded
<1>2. \A m, n \in Nat : m < n => <<m, n>> \in R
  BY DEF OpToRel
<1>. HIDE DEF R
<1>3. \E x \in S : \A y \in S : ~(<<y, x>> \in R)
  BY <1>1, WFMin, Zenon
<1>4. PICK x \in S : \A y \in S : ~(<<y, x>> \in R)
  BY <1>3
<1>5. \A y \in S : ~(y < x)
  BY <1>2, <1>4
<1>6. \A y \in S : x <= y
  BY <1>5
<1>. QED
  BY <1>6

\* A set that holds 0, and with a number the next one, holds all of them.
LEMMA Induction ==
  ASSUME NEW S, 0 \in S, \A n \in Nat : n \in S => n + 1 \in S
  PROVE  Nat \subseteq S
<1>1. SUFFICES ASSUME Nat \ S # {} PROVE FALSE
  OBVIOUS
<1>2. PICK n \in Nat \ S : \A m \in Nat \ S : n <= m
  BY <1>1, LeastNatural
<1>3. n - 1 \in Nat /\ ~(n <= n - 1)
  BY <1>2
<1>4. n - 1 \in S
  BY <1>2, <1>3
<1>5. n - 1 + 1 = n
  BY <1>2
<1>. QED
  BY <1>2, <1>3, <1>4, <1>5

-----------------------------------------------------------------------------
(* The table. *)

\* One turn of the loop of cacheInvokableInfo.
Cached(table, idx) ==
  IF service[idx].invokable /\ ValidInfo(service[idx]) THEN InsertIndex(table, idx) ELSE table

\* The function that CacheInvokableInfo defines, for the first n methods.
IsCached(after, table, n) ==
  after = [idx \in 0..n |->
             CASE idx = 0 -> table
               [] idx > 0 /\ service[idx].invokable /\ ValidInfo(service[idx]) ->
                    InsertIndex(after[idx - 1], idx)
               [] OTHER -> after[idx - 1]]

LEMMA CacheIsChosen ==
  ASSUME NEW table
  PROVE  CacheInvokableInfo(table) = (CHOOSE after : IsCached(after, table, Len(service)))[Len(service)]
BY DEF CacheInvokableInfo, IsCached

\* It is what the turns make of the table, one after the other.
LEMMA CacheTurns ==
  ASSUME NEW after, NEW table, NEW n \in Nat
  PROVE  IsCached(after, table, n) <=>
           /\ after = [idx \in 0..n |-> after[idx]]
           /\ after[0] = table
           /\ \A idx \in 1..n : after[idx] = Cached(after[idx - 1], idx)
<1>. DEFINE turn(idx) == CASE idx = 0 -> table
                           [] idx > 0 /\ service[idx].invokable /\ ValidInfo(service[idx]) ->
                                InsertIndex(after[idx - 1], idx)
                           [] OTHER -> after[idx - 1]
<1>1. turn(0) = table
  OBVIOUS
<1>2. \A idx \in 1..n : turn(idx) = Cached(after[idx - 1], idx)
  BY DEF Cached
<1>3. IsCached(after, table, n) <=> after = [idx \in 0..n |-> turn(idx)]
  BY DEF IsCached
<1>. HIDE DEF turn
<1>4. ASSUME after = [idx \in 0..n |-> turn(idx)]
      PROVE  /\ after = [idx \in 0..n |-> after[idx]]
             /\ \A idx \in 0..n : after[idx] = turn(idx)
  BY <1>4
<1>5. ASSUME after = [idx \in 0..n |-> after[idx]], \A idx \in 0..n : after[idx] = turn(idx)
      PROVE  after = [idx \in 0..n |-> turn(idx)]
  BY <1>5
<1>6. 0 \in 0..n /\ (\A idx \in 1..n : idx \in 0..n) /\ (\A idx \in 0..n : idx = 0 \/ idx \in 1..n)
  OBVIOUS
<1>7. (\A idx \in 0..n : after[idx] = turn(idx)) <=>
        after[0] = table /\ \A idx \in 1..n : after[idx] = Cached(after[idx - 1], idx)
  BY <1>1, <1>2, <1>6
<1>. QED
  BY <1>3, <1>4, <1>5, <1>7

LEMMA CacheExists ==
  ASSUME NEW table, Len(service) \in Nat
  PROVE  \E after : IsCached(after, table, Len(service))
<1>. DEFINE Defined == {n \in Nat : \E after : IsCached(after, table, n)}
<1>1. 0 \in Defined
  <2>. DEFINE after == [idx \in 0..0 |-> table]
  <2>1. after = [idx \in 0..0 |-> after[idx]] /\ after[0] = table /\ 1..0 = {}
    OBVIOUS
  <2>. HIDE DEF after
  <2>2. IsCached(after, table, 0)
    BY <2>1, CacheTurns
  <2>. QED
    BY <2>2
<1>2. \A n \in Nat : n \in Defined => n + 1 \in Defined
  <2>. SUFFICES ASSUME NEW n \in Nat, NEW after, IsCached(after, table, n)
                PROVE  \E next : IsCached(next, table, n + 1)
    OBVIOUS
  <2>1. after[0] = table /\ \A idx \in 1..n : after[idx] = Cached(after[idx - 1], idx)
    BY CacheTurns
  <2>. DEFINE next == [idx \in 0..n + 1 |-> IF idx = n + 1 THEN Cached(after[n], n + 1) ELSE after[idx]]
  <2>2. next = [idx \in 0..n + 1 |-> next[idx]] /\ next[0] = table
    BY <2>1
  <2>3. ASSUME NEW idx \in 1..n + 1 PROVE next[idx] = Cached(next[idx - 1], idx)
    <3>1. CASE idx = n + 1
      <4>1. next[idx] = Cached(after[n], n + 1) /\ idx - 1 = n /\ next[idx - 1] = after[n]
        BY <3>1
      <4>. HIDE DEF next
      <4>. QED
        BY <3>1, <4>1
    <3>2. CASE idx # n + 1
      <4>1. idx \in 1..n /\ next[idx] = after[idx] /\ next[idx - 1] = after[idx - 1]
        BY <3>2
      <4>. HIDE DEF next
      <4>. QED
        BY <2>1, <4>1
    <3>. QED
      BY <3>1, <3>2
  <2>. HIDE DEF next
  <2>4. n + 1 \in Nat
    OBVIOUS
  <2>5. IsCached(next, table, n + 1)
    BY <2>2, <2>3, <2>4, CacheTurns, Zenon
  <2>. QED
    BY <2>5
<1>. HIDE DEF Defined
<1>3. Nat \subseteq Defined
  BY <1>1, <1>2, Induction
<1>. QED
  BY <1>3 DEF Defined

-----------------------------------------------------------------------------
(* What the table holds. *)

\* The methods that are entered in it.
Known == {idx \in DOMAIN service : service[idx].invokable /\ ValidInfo(service[idx])}

Variant(idx) == MentionsVariant(service[idx])

\* Each known method among the first n is in the table; before any method with
\* QVariants, and any that was declared earlier, if it has none itself; and
\* methods with QVariants stand in their order when they first occur.
TableInv(table, n) ==
  /\ table \in Seq(Known)
  /\ \A i \in Known : i <= n => \E k \in 1..Len(table) : table[k] = i
  /\ \A i \in Known, k \in 1..Len(table) :
       i <= n /\ ~Variant(i) /\ (Variant(table[k]) \/ table[k] < i) => \E l \in 1..k - 1 : table[l] = i
  /\ \A i \in Known, k \in 1..Len(table) :
       Variant(i) /\ Variant(table[k]) /\ i < table[k] => \E l \in 1..k - 1 : table[l] = i

LEMMA CachedInv ==
  ASSUME service \in Seq(Methods), NEW n \in Nat, n + 1 \in DOMAIN service,
         NEW table, TableInv(table, n)
  PROVE  TableInv(Cached(table, n + 1), n + 1)
<1>. DEFINE idx == n + 1
            next == Cached(table, n + 1)
<1>1. Known \subseteq Nat
  BY DEF Known
<1>2. table \in Seq(Known) /\ Len(table) \in Nat /\ \A k \in 1..Len(table) : table[k] \in Known
  BY DEF TableInv
<1>3. \A i \in Known : i <= n => \E k \in 1..Len(table) : table[k] = i
  BY DEF TableInv
<1>4. \A i \in Known, k \in 1..Len(table) :
        i <= n /\ ~Variant(i) /\ (Variant(table[k]) \/ table[k] < i) => \E l \in 1..k - 1 : table[l] = i
  BY DEF TableInv
<1>5. \A i \in Known, k \in 1..Len(table) :
        Variant(i) /\ Variant(table[k]) /\ i < table[k] => \E l \in 1..k - 1 : table[l] = i
  BY DEF TableInv
<1>6. idx \in Nat /\ \A i \in Known : i <= idx <=> i <= n \/ i = idx
  BY <1>1
<1>7. CASE idx \notin Known
  <2>1. next = table
    BY <1>7 DEF Cached, Known
  <2>2. \A i \in Known : i <= idx => i <= n
    BY <1>6, <1>7
  <2>. QED
    BY <1>2, <1>3, <1>4, <1>5, <2>1, <2>2 DEF TableInv
<1>8. CASE idx \in Known /\ Variant(idx)
  <2>1. next = Append(table, idx)
    BY <1>8 DEF Cached, Known, InsertIndex, Variant
  <2>2. /\ next \in Seq(Known) /\ Len(next) = Len(table) + 1 /\ next[Len(table) + 1] = idx
        /\ \A k \in 1..Len(table) : next[k] = table[k]
    <3>1. idx \in Known
      BY <1>8
    <3>. HIDE DEF next, idx
    <3>. QED
      BY <1>2, <2>1, <3>1, AppendProperties
  <2>. HIDE DEF next, idx
  <2>3. \A i \in Known : i <= idx => \E k \in 1..Len(next) : next[k] = i
    <3>. SUFFICES ASSUME NEW i \in Known, i <= idx PROVE \E k \in 1..Len(next) : next[k] = i
      OBVIOUS
    <3>1. CASE i <= n
      <4>1. PICK k \in 1..Len(table) : table[k] = i
        BY <1>3, <3>1
      <4>2. k \in 1..Len(next)
        BY <1>2, <2>2
      <4>. QED
        BY <2>2, <4>1, <4>2
    <3>2. CASE i = idx
      <4>1. Len(table) + 1 \in 1..Len(next)
        BY <1>2, <2>2
      <4>. QED
        BY <2>2, <3>2, <4>1
    <3>. QED
      BY <1>6, <3>1, <3>2
  <2>4. ASSUME NEW i \in Known, NEW k \in 1..Len(next), i <= idx, ~Variant(i), Variant(next[k]) \/ next[k] < i
        PROVE  \E l \in 1..k - 1 : next[l] = i
    <3>1. i <= n
      BY <1>6, <1>8, <2>4
    <3>2. CASE k \in 1..Len(table)
      <4>1. next[k] = table[k]
        BY <2>2, <3>2
      <4>2. PICK l \in 1..k - 1 : table[l] = i
        BY <1>4, <2>4, <3>1, <3>2, <4>1
      <4>3. l \in 1..Len(table)
        BY <1>2, <3>2
      <4>. QED
        BY <2>2, <4>2, <4>3
    <3>3. CASE k = Len(table) + 1
      <4>1. PICK l \in 1..Len(table) : table[l] = i
        BY <1>3, <3>1
      <4>2. l \in 1..k - 1
        BY <1>2, <3>3
      <4>. QED
        BY <2>2, <4>1, <4>2
    <3>. QED
      BY <1>2, <2>2, <3>2, <3>3
  <2>5. ASSUME NEW i \in Known, NEW k \in 1..Len(next), Variant(i), Variant(next[k]), i < next[k]
        PROVE  \E l \in 1..k - 1 : next[l] = i
    <3>2. CASE k \in 1..Len(table)
      <4>1. next[k] = table[k]
        BY <2>2, <3>2
      <4>2. PICK l \in 1..k - 1 : table[l] = i
        BY <1>5, <2>5, <3>2, <4>1
      <4>3. l \in 1..Len(table)
        BY <1>2, <3>2
      <4>. QED
        BY <2>2, <4>2, <4>3
    <3>3. CASE k = Len(table) + 1
      <4>1. i <= n
        BY <1>1, <2>2, <2>5, <3>3 DEF idx
      <4>2. PICK l \in 1..Len(table) : table[l] = i
        BY <1>3, <4>1
      <4>3. l \in 1..k - 1
        BY <1>2, <3>3
      <4>. QED
        BY <2>2, <4>2, <4>3
    <3>. QED
      BY <1>2, <2>2, <3>2, <3>3
  <2>6. TableInv(next, idx)
    BY <2>2, <2>3, <2>4, <2>5 DEF TableInv
  <2>. QED
    BY <2>6 DEF next, idx
<1>9. CASE idx \in Known /\ ~Variant(idx)
  <2>1. next = <<idx>> \o table
    BY <1>9 DEF Cached, Known, InsertIndex, Variant
  <2>2. /\ next \in Seq(Known) /\ Len(next) = Len(table) + 1 /\ next[1] = idx
        /\ \A k \in 1..Len(table) : next[k + 1] = table[k]
    <3>1. <<idx>> \in Seq(Known) /\ Len(<<idx>>) = 1 /\ <<idx>>[1] = idx
      BY <1>9
    <3>2. /\ next \in Seq(Known) /\ Len(next) = 1 + Len(table)
          /\ \A k \in 1..1 + Len(table) : next[k] = IF k <= 1 THEN <<idx>>[k] ELSE table[k - 1]
      <4>. DEFINE first == <<idx>>
      <4>1. first \in Seq(Known) /\ Len(first) = 1 /\ next = first \o table
        BY <2>1, <3>1
      <4>. HIDE DEF next, first
      <4>2. /\ next \in Seq(Known) /\ Len(next) = 1 + Len(table)
            /\ \A k \in 1..1 + Len(table) : next[k] = IF k <= 1 THEN first[k] ELSE table[k - 1]
        <5>1. table \in Seq(Known) /\ Len(table) \in Nat
          BY <1>2
        <5>2. /\ first \o table \in Seq(Known)
              /\ Len(first \o table) = Len(first) + Len(table)
              /\ \A k \in 1..Len(first) + Len(table) :
                   (first \o table)[k] = IF k <= Len(first) THEN first[k]
                                         ELSE table[k - Len(first)]
          BY <4>1, <5>1, ConcatProperties, Zenon
        <5>. QED
          BY <4>1, <5>1, <5>2
      <4>. QED
        BY <4>2 DEF first
    <3>. HIDE DEF next, idx
    <3>3. \A k \in 1..Len(table) : k + 1 \in 1..1 + Len(table) /\ ~(k + 1 <= 1) /\ k + 1 - 1 = k
      BY <1>2
    <3>4. \A k \in 1..Len(table) : next[k + 1] = table[k]
      BY <3>2, <3>3
    <3>5. 1 \in 1..1 + Len(table) /\ 1 <= 1 /\ 1 + Len(table) = Len(table) + 1
      BY <1>2
    <3>. QED
      BY <3>1, <3>2, <3>4, <3>5
  <2>. HIDE DEF next, idx
  <2>3. \A i \in Known : i <= idx => \E k \in 1..Len(next) : next[k] = i
    <3>. SUFFICES ASSUME NEW i \in Known, i <= idx PROVE \E k \in 1..Len(next) : next[k] = i
      OBVIOUS
    <3>1. CASE i <= n
      <4>1. PICK k \in 1..Len(table) : table[k] = i
        BY <1>3, <3>1
      <4>2. k + 1 \in 1..Len(next)
        BY <1>2, <2>2
      <4>. QED
        BY <2>2, <4>1, <4>2
    <3>2. CASE i = idx
      <4>1. 1 \in 1..Len(next)
        BY <1>2, <2>2
      <4>. QED
        BY <2>2, <3>2, <4>1
    <3>. QED
      BY <1>6, <3>1, <3>2
  <2>4. ASSUME NEW i \in Known, NEW k \in 1..Len(next), i <= idx, ~Variant(i), Variant(next[k]) \/ next[k] < i
        PROVE  \E l \in 1..k - 1 : next[l] = i
    <3>1. k # 1
      <4>1. ~Variant(next[1]) /\ ~(next[1] < i)
        BY <1>1, <1>6, <1>9, <2>2, <2>4
      <4>. QED
        BY <2>4, <4>1
    <3>. DEFINE m == k - 1
    <3>2. m \in 1..Len(table) /\ m + 1 = k /\ 1 \in 1..k - 1
      BY <1>2, <2>2, <3>1
    <3>. HIDE DEF m
    <3>3. next[k] = table[m]
      BY <2>2, <3>2
    <3>4. CASE i = idx
      BY <2>2, <3>2, <3>4
    <3>5. CASE i <= n
      <4>1. PICK l \in 1..m - 1 : table[l] = i
        BY <1>4, <2>4, <3>2, <3>3, <3>5
      <4>2. l \in 1..Len(table) /\ l + 1 \in 1..k - 1
        BY <1>2, <3>2
      <4>. QED
        BY <2>2, <4>1, <4>2
    <3>. QED
      BY <1>6, <2>4, <3>4, <3>5
  <2>5. ASSUME NEW i \in Known, NEW k \in 1..Len(next), Variant(i), Variant(next[k]), i < next[k]
        PROVE  \E l \in 1..k - 1 : next[l] = i
    <3>1. k # 1
      BY <1>9, <2>2, <2>5
    <3>. DEFINE m == k - 1
    <3>2. m \in 1..Len(table) /\ m + 1 = k
      BY <1>2, <2>2, <3>1
    <3>. HIDE DEF m
    <3>3. next[k] = table[m]
      BY <2>2, <3>2
    <3>4. PICK l \in 1..m - 1 : table[l] = i
      BY <1>5, <2>5, <3>2, <3>3
    <3>5. l \in 1..Len(table) /\ l + 1 \in 1..k - 1
      BY <1>2, <3>2
    <3>. QED
      BY <2>2, <3>4, <3>5
  <2>6. TableInv(next, idx)
    BY <2>2, <2>3, <2>4, <2>5 DEF TableInv
  <2>. QED
    BY <2>6 DEF next, idx
<1>. QED
  BY <1>7, <1>8, <1>9

\* What holds of no method holds of the table another time.
LEMMA CacheInv ==
  ASSUME service \in Seq(Methods), NEW table, TableInv(table, 0)
  PROVE  TableInv(CacheInvokableInfo(table), Len(service))
<1>1. Len(service) \in Nat /\ DOMAIN service = 1..Len(service)
  OBVIOUS
<1>. DEFINE after == CHOOSE f : IsCached(f, table, Len(service))
<1>2. CacheInvokableInfo(table) = after[Len(service)]
  BY CacheIsChosen
<1>3. IsCached(after, table, Len(service))
  BY <1>1, CacheExists
<1>. HIDE DEF after
<1>4. after[0] = table /\ \A idx \in 1..Len(service) : after[idx] = Cached(after[idx - 1], idx)
  BY <1>1, <1>3, CacheTurns
<1>. DEFINE Held == {n \in Nat : n <= Len(service) => TableInv(after[n], n)}
<1>5. 0 \in Held
  BY <1>4
<1>6. \A n \in Nat : n \in Held => n + 1 \in Held
  <2>. SUFFICES ASSUME NEW n \in Nat, n \in Held, n + 1 <= Len(service) PROVE TableInv(after[n + 1], n + 1)
    OBVIOUS
  <2>1. TableInv(after[n], n) /\ n + 1 \in 1..Len(service) /\ n + 1 - 1 = n
    BY <1>1
  <2>2. after[n + 1] = Cached(after[n], n + 1)
    BY <1>4, <2>1
  <2>3. n + 1 \in DOMAIN service
    BY <1>1, <2>1
  <2>. QED
    BY <2>1, <2>2, <2>3, CachedInv
<1>. HIDE DEF Held
<1>7. Len(service) \in Held
  BY <1>1, <1>5, <1>6, Induction
<1>. QED
  BY <1>1, <1>2, <1>7 DEF Held

LEMMA TableInvWeaker ==
  ASSUME NEW table, NEW n, TableInv(table, n), service \in Seq(Methods)
  PROVE  TableInv(table, 0)
<1>1. \A i \in Known : i \in Nat /\ ~(i <= 0)
  BY DEF Known
<1>. QED
  BY <1>1 DEF TableInv

-----------------------------------------------------------------------------
(* Which arguments parameters take. *)

\* The one value that AfterParameter has for the value that before has.
Turned(before, parameter, args) == CHOOSE j \in {AfterParameter(k, parameter, args) : k \in {before}} : TRUE

LEMMA TurnedIsAfter ==
  ASSUME NEW before, NEW parameter, NEW args
  PROVE  Turned(before, parameter, args) = AfterParameter(before, parameter, args)
<1>. DEFINE value == AfterParameter(before, parameter, args)
<1>1. {AfterParameter(k, parameter, args) : k \in {before}} = {value}
  OBVIOUS
<1>. HIDE DEF value
<1>2. Turned(before, parameter, args) = CHOOSE j \in {value} : TRUE
  BY <1>1 DEF Turned
<1>. QED
  BY <1>2 DEF value

\* The function that FirstLeft defines.
IsLeft(after, params, args, n) ==
  after = [i \in 0..n |-> IF i = 0 THEN 1 ELSE Turned(after[i - 1], params[i], args)]

LEMMA LeftIsChosen ==
  ASSUME NEW params, NEW args
  PROVE  FirstLeft(params, args) = (CHOOSE after : IsLeft(after, params, args, Len(params)))[Len(params)]
BY DEF FirstLeft, IsLeft, Turned

LEMMA LeftExists ==
  ASSUME NEW params, NEW args, Len(params) \in Nat
  PROVE  \E after : IsLeft(after, params, args, Len(params))
<1>. DEFINE Defined == {n \in Nat : \E after : IsLeft(after, params, args, n)}
<1>1. 0 \in Defined
  <2>1. IsLeft([i \in 0..0 |-> 1], params, args, 0)
    BY DEF IsLeft
  <2>. QED
    BY <2>1
<1>2. \A n \in Nat : n \in Defined => n + 1 \in Defined
  <2>. SUFFICES ASSUME NEW n \in Nat, NEW after, IsLeft(after, params, args, n)
                PROVE  \E next : IsLeft(next, params, args, n + 1)
    OBVIOUS
  <2>. DEFINE latest == Turned(after[n], params[n + 1], args)
              next == [i \in 0..n + 1 |-> IF i = n + 1 THEN latest ELSE after[i]]
              rule(f, i) == IF i = 0 THEN 1 ELSE Turned(f[i - 1], params[i], args)
  <2>1. \A i \in 0..n : after[i] = rule(after, i)
    BY DEF IsLeft
  <2>2. ASSUME NEW i \in 0..n + 1 PROVE next[i] = rule(next, i)
    <3>1. CASE i = n + 1
      <4>1. i # 0 /\ i - 1 = n /\ next[i - 1] = after[n] /\ next[i] = latest
        BY <3>1
      <4>. HIDE DEF next
      <4>. QED
        BY <3>1, <4>1
    <3>2. CASE i # n + 1
      <4>1. i \in 0..n /\ next[i] = after[i] /\ (i # 0 => next[i - 1] = after[i - 1])
        BY <3>2
      <4>. HIDE DEF next
      <4>. QED
        BY <2>1, <4>1
    <3>. QED
      BY <3>1, <3>2
  <2>3. next = [i \in 0..n + 1 |-> rule(next, i)]
    BY <2>2
  <2>. HIDE DEF next
  <2>4. IsLeft(next, params, args, n + 1)
    BY <2>3 DEF IsLeft
  <2>. QED
    BY <2>4
<1>. HIDE DEF Defined
<1>3. Len(params) \in Defined
  BY <1>1, <1>2, Induction
<1>. QED
  BY <1>3 DEF Defined

\* What FirstLeft counts, one parameter after the other.
LEMMA LeftSteps ==
  ASSUME NEW params, NEW args, Len(params) \in Nat
  PROVE  \E after : /\ after[0] = 1
                    /\ \A i \in 1..Len(params) : after[i] = AfterParameter(after[i - 1], params[i], args)
                    /\ after[Len(params)] = FirstLeft(params, args)
<1>. DEFINE after == CHOOSE f : IsLeft(f, params, args, Len(params))
<1>1. IsLeft(after, params, args, Len(params))
  BY LeftExists
<1>2. after[Len(params)] = FirstLeft(params, args)
  BY LeftIsChosen
<1>. HIDE DEF after
<1>3. \A i \in 0..Len(params) :
        after[i] = IF i = 0 THEN 1 ELSE Turned(after[i - 1], params[i], args)
  BY <1>1 DEF IsLeft
<1>4. ASSUME NEW i \in 1..Len(params) PROVE after[i] = AfterParameter(after[i - 1], params[i], args)
  <2>1. i \in 0..Len(params) /\ i # 0
    OBVIOUS
  <2>2. after[i] = Turned(after[i - 1], params[i], args)
    BY <1>3, <2>1
  <2>. QED
    BY <2>2, TurnedIsAfter
<1>. QED
  BY <1>2, <1>3, <1>4

\* How many of the parameters that take an argument stand before the i-th.
Before(takers, i) == Cardinality({k \in takers : k < i})

LEMMA BeforeSteps ==
  ASSUME NEW n \in Nat, NEW takers \in SUBSET (1..n)
  PROVE  /\ Before(takers, 1) = 0
         /\ Before(takers, n + 1) = Cardinality(takers)
         /\ Cardinality(takers) \in Nat
         /\ \A i \in 1..n : /\ Before(takers, i) \in Nat
                            /\ i \in takers => Before(takers, i + 1) = Before(takers, i) + 1
                            /\ i \notin takers => Before(takers, i + 1) = Before(takers, i)
                            /\ Before(takers, i + 1) <= Cardinality(takers)
<1>1. IsFiniteSet(takers) /\ Cardinality(takers) \in Nat
  <2>1. IsFiniteSet(1..n)
    BY FS_Interval
  <2>2. IsFiniteSet(takers)
    BY <2>1, FS_Subset
  <2>. QED
    BY <2>2, FS_CardinalityType
<1>5. \A k \in takers : k \in Nat /\ 1 <= k /\ k <= n
  OBVIOUS
<1>2. Before(takers, 1) = 0
  <2>1. \A k \in takers : ~(k < 1)
    BY <1>5
  <2>2. {k \in takers : k < 1} = {}
    BY <2>1
  <2>. QED
    BY <2>2, FS_EmptySet DEF Before
<1>3. Before(takers, n + 1) = Cardinality(takers)
  <2>1. \A k \in takers : k < n + 1
    BY <1>5
  <2>2. {k \in takers : k < n + 1} = takers
    BY <2>1
  <2>. QED
    BY <2>2 DEF Before
<1>4. ASSUME NEW i \in 1..n
      PROVE  /\ Before(takers, i) \in Nat
             /\ i \in takers => Before(takers, i + 1) = Before(takers, i) + 1
             /\ i \notin takers => Before(takers, i + 1) = Before(takers, i)
             /\ Before(takers, i + 1) <= Cardinality(takers)
  <2>. DEFINE early == {k \in takers : k < i}
              next == {k \in takers : k < i + 1}
  <2>1. next = IF i \in takers THEN early \cup {i} ELSE early
    <3>1. \A k \in takers : k < i + 1 <=> k < i \/ k = i
      BY <1>5
    <3>. QED
      BY <3>1
  <2>2. i \notin early /\ early \subseteq takers /\ next \subseteq takers
    OBVIOUS
  <2>. HIDE DEF early, next
  <2>3. IsFiniteSet(early) /\ Cardinality(early) \in Nat /\ Cardinality(next) <= Cardinality(takers)
    BY <1>1, <2>2, FS_Subset, FS_CardinalityType
  <2>4. Cardinality(next) = IF i \in takers THEN Cardinality(early) + 1 ELSE Cardinality(early)
    BY <2>1, <2>2, <2>3, FS_AddElement
  <2>. QED
    BY <2>3, <2>4 DEF Before, early, next
<1>. QED
  BY <1>1, <1>2, <1>3, <1>4

\* The loop of jsParameterCompare accepts the lists that belong to parameters.
THEOREM ListFitsIsBelongs ==
  ASSUME NEW params, NEW args, Len(params) \in Nat, Len(args) \in Nat,
         DOMAIN params = 1..Len(params), DOMAIN args = 1..Len(args)
  PROVE  ListFits(params, args) <=> ListBelongs(params, args)
<1>. DEFINE n == Len(params)
            m == Len(args)
<1>1. PICK after : /\ after[0] = 1
                   /\ \A i \in 1..n : after[i] = AfterParameter(after[i - 1], params[i], args)
                   /\ after[n] = FirstLeft(params, args)
  BY LeftSteps
<1>2. ListBelongs(params, args) <=>
        \E takers \in SUBSET (1..n) :
          /\ Cardinality(takers) = m
          /\ \A i \in takers : Takes(params[i], args[Before(takers, i) + 1])
          /\ \A i \in 1..n \ takers :
               Before(takers, i) < m => params[i].out /\ ~Takes(params[i], args[Before(takers, i) + 1])
  BY DEF ListBelongs, Before
<1>3. ListFits(params, args) <=> after[n] = m + 1
  BY <1>1 DEF ListFits
<1>4. ASSUME NEW j \in Nat, NEW parameter
      PROVE  AfterParameter(j, parameter, args) =
               IF j = 0 \/ j > m THEN j
               ELSE IF Takes(parameter, args[j]) THEN j + 1
               ELSE IF parameter.out THEN j ELSE 0
  <2>1. j \in DOMAIN args <=> ~(j = 0 \/ j > m)
    OBVIOUS
  <2>. QED
    BY <2>1 DEF AfterParameter
<1>5. ASSUME NEW takers \in SUBSET (1..n),
             Cardinality(takers) = m,
             \A i \in takers : Takes(params[i], args[Before(takers, i) + 1]),
             \A i \in 1..n \ takers :
               Before(takers, i) < m => params[i].out /\ ~Takes(params[i], args[Before(takers, i) + 1])
      PROVE  after[n] = m + 1
  <2>. DEFINE Counted == {i \in Nat : i <= n => after[i] = Before(takers, i + 1) + 1}
  <2>1. 0 \in Counted
    BY <1>1, BeforeSteps
  <2>2. \A i \in Nat : i \in Counted => i + 1 \in Counted
    <3>. SUFFICES ASSUME NEW i \in Nat, i \in Counted, i + 1 <= n
                  PROVE  after[i + 1] = Before(takers, i + 1 + 1) + 1
      OBVIOUS
    <3>. DEFINE k == i + 1
                j == Before(takers, k) + 1
    <3>1. k \in 1..n /\ k - 1 = i /\ after[i] = j
      OBVIOUS
    <3>2. /\ j \in Nat /\ j # 0 /\ Before(takers, k) \in Nat
          /\ Before(takers, k + 1) = IF k \in takers THEN j ELSE j - 1
          /\ Before(takers, k + 1) <= m
      <4>1. /\ Before(takers, k) \in Nat
            /\ Before(takers, k + 1) = IF k \in takers THEN Before(takers, k) + 1 ELSE Before(takers, k)
            /\ Before(takers, k + 1) <= Cardinality(takers)
        <5>. HIDE DEF k, j, Counted
        <5>. QED
          BY <3>1, BeforeSteps
      <4>. QED
        BY <1>5, <4>1
    <3>. HIDE DEF Counted, k
    <3>3. after[k] = AfterParameter(j, params[k], args)
      BY <1>1, <3>1
    <3>4. after[k] = Before(takers, k + 1) + 1
      <4>1. CASE k \in takers
        <5>1. j <= m /\ Takes(params[k], args[j])
          BY <1>5, <3>2, <4>1
        <5>2. after[k] = j + 1
          BY <1>4, <3>2, <3>3, <5>1
        <5>. QED
          BY <3>2, <4>1, <5>2
      <4>2. CASE k \notin takers /\ j <= m
        <5>1. params[k].out /\ ~Takes(params[k], args[j])
          BY <1>5, <3>1, <3>2, <4>2
        <5>2. after[k] = j
          BY <1>4, <3>2, <3>3, <5>1
        <5>. QED
          BY <3>2, <4>2, <5>2
      <4>3. CASE k \notin takers /\ ~(j <= m)
        <5>1. after[k] = j
          BY <1>4, <3>2, <3>3, <4>3
        <5>. QED
          BY <3>2, <4>3, <5>1
      <4>. QED
        BY <4>1, <4>2, <4>3
    <3>. QED
      BY <3>4 DEF k
  <2>. HIDE DEF Counted
  <2>3. n \in Counted
    BY <2>1, <2>2, Induction
  <2>. QED
    BY <1>5, <2>3, BeforeSteps DEF Counted
<1>6. ASSUME after[n] = m + 1
      PROVE  \E takers \in SUBSET (1..n) :
               /\ Cardinality(takers) = m
               /\ \A i \in takers : Takes(params[i], args[Before(takers, i) + 1])
               /\ \A i \in 1..n \ takers :
                    Before(takers, i) < m => params[i].out /\ ~Takes(params[i], args[Before(takers, i) + 1])
  <2>. DEFINE takers == {i \in 1..n : after[i - 1] <= m /\ Takes(params[i], args[after[i - 1]])}
              Numbers == {i \in Nat : i <= n => after[i] \in Nat}
              Misfits == {i \in Nat : i <= n => (after[n - i] # 0)}
              Counted == {i \in Nat : i <= n => after[i] = Before(takers, i + 1) + 1}
  <2>1. 0 \in Numbers
    BY <1>1
  <2>2. \A i \in Nat : i \in Numbers => i + 1 \in Numbers
    <3>. SUFFICES ASSUME NEW i \in Nat, i \in Numbers, i + 1 <= n PROVE after[i + 1] \in Nat
      OBVIOUS
    <3>1. i + 1 \in 1..n /\ i + 1 - 1 = i /\ after[i] \in Nat
      OBVIOUS
    <3>2. after[i + 1] = AfterParameter(after[i], params[i + 1], args)
      BY <1>1, <3>1
    <3>. QED
      BY <1>4, <3>1, <3>2
  <2>3. \A i \in 0..n : after[i] \in Nat
    <3>. HIDE DEF Numbers
    <3>1. Nat \subseteq Numbers
      BY <2>1, <2>2, Induction
    <3>. QED
      BY <3>1 DEF Numbers
  <2>4. \A i \in 1..n : after[i] # 0 => after[i - 1] # 0
    <3>. SUFFICES ASSUME NEW i \in 1..n, after[i - 1] = 0 PROVE after[i] = 0
      OBVIOUS
    <3>1. after[i] = AfterParameter(0, params[i], args)
      BY <1>1
    <3>. QED
      BY <1>4, <3>1
  <2>5. \A i \in 0..n : after[i] # 0
    <3>1. 0 \in Misfits
      BY <1>6
    <3>2. \A i \in Nat : i \in Misfits => i + 1 \in Misfits
      <4>. SUFFICES ASSUME NEW i \in Nat, i \in Misfits, i + 1 <= n PROVE after[n - (i + 1)] # 0
        OBVIOUS
      <4>1. n - i \in 1..n /\ (n - i) - 1 = n - (i + 1) /\ after[n - i] # 0
        OBVIOUS
      <4>. QED
        BY <2>4, <4>1
    <3>. HIDE DEF Misfits
    <3>3. Nat \subseteq Misfits
      BY <3>1, <3>2, Induction
    <3>4. ASSUME NEW i \in 0..n PROVE after[i] # 0
      <4>1. n - i \in Nat /\ n - i <= n /\ n - (n - i) = i
        OBVIOUS
      <4>. QED
        BY <3>3, <4>1 DEF Misfits
    <3>. QED
      BY <3>4
  <2>6. takers \in SUBSET (1..n)
    OBVIOUS
  <2>7. \A i \in 1..n : i \in takers <=> after[i - 1] <= m /\ Takes(params[i], args[after[i - 1]])
    OBVIOUS
  <2>. HIDE DEF takers
  <2>8. 0 \in Counted
    <3>1. Before(takers, 1) = 0
      BY <2>6, BeforeSteps
    <3>. QED
      BY <1>1, <3>1
  <2>9. \A i \in Nat : i \in Counted => i + 1 \in Counted
    <3>. SUFFICES ASSUME NEW i \in Nat, i \in Counted, i + 1 <= n
                  PROVE  after[i + 1] = Before(takers, i + 1 + 1) + 1
      OBVIOUS
    <3>. DEFINE k == i + 1
                j == after[i]
    <3>1. k \in 1..n /\ k - 1 = i /\ j = Before(takers, k) + 1 /\ i \in 0..n
      OBVIOUS
    <3>2. after[k] = AfterParameter(j, params[k], args) /\ after[k] # 0 /\ j \in Nat /\ j # 0
      <4>1. k \in 0..n
        BY <3>1
      <4>. QED
        BY <1>1, <2>3, <2>5, <3>1, <4>1
    <3>3. k \in takers <=> j <= m /\ Takes(params[k], args[j])
      BY <2>7, <3>1
    <3>. HIDE DEF k, j, Counted
    <3>5. Before(takers, k) \in Nat
      BY <2>6, <3>1, BeforeSteps
    <3>4. Before(takers, k + 1) = IF k \in takers THEN Before(takers, k) + 1 ELSE Before(takers, k)
      BY <2>6, <3>1, <3>5, BeforeSteps
    <3>6. after[k] = IF k \in takers THEN j + 1 ELSE j
      BY <1>4, <3>2, <3>3
    <3>7. after[k] = Before(takers, k + 1) + 1
      BY <3>1, <3>4, <3>5, <3>6
    <3>. QED
      BY <3>7 DEF k
  <2>10. \A i \in 0..n : after[i] = Before(takers, i + 1) + 1
    <3>. HIDE DEF Counted
    <3>1. Nat \subseteq Counted
      BY <2>8, <2>9, Induction
    <3>. QED
      BY <3>1 DEF Counted
  <2>11. Cardinality(takers) = m
    <3>1. n \in 0..n
      OBVIOUS
    <3>. QED
      BY <1>6, <2>6, <2>10, <3>1, BeforeSteps
  <2>12. ASSUME NEW i \in 1..n
         PROVE  /\ after[i - 1] = Before(takers, i) + 1 /\ Before(takers, i) \in Nat
                /\ i \in takers => Takes(params[i], args[after[i - 1]])
                /\ i \notin takers /\ Before(takers, i) < m => params[i].out /\ ~Takes(params[i], args[after[i - 1]])
    <3>1. i - 1 \in 0..n /\ i \in 0..n /\ i - 1 + 1 = i
      OBVIOUS
    <3>2. after[i - 1] = Before(takers, i) + 1 /\ Before(takers, i) \in Nat
      BY <2>6, <2>10, <3>1, BeforeSteps
    <3>3. after[i] = AfterParameter(after[i - 1], params[i], args) /\ after[i] # 0 /\ after[i - 1] \in Nat
      BY <1>1, <2>3, <2>5, <3>1
    <3>4. ASSUME i \notin takers, Before(takers, i) < m
          PROVE  params[i].out /\ ~Takes(params[i], args[after[i - 1]])
      <4>1. after[i - 1] <= m /\ after[i - 1] # 0 /\ ~Takes(params[i], args[after[i - 1]])
        BY <2>7, <3>2, <3>4
      <4>. QED
        BY <1>4, <3>3, <4>1
    <3>. QED
      BY <2>7, <3>2, <3>4
  <2>13. /\ \A i \in takers : Takes(params[i], args[Before(takers, i) + 1])
         /\ \A i \in 1..n \ takers :
              Before(takers, i) < m => params[i].out /\ ~Takes(params[i], args[Before(takers, i) + 1])
    BY <2>6, <2>12
  <2>. QED
    BY <2>6, <2>11, <2>13
<1>. QED
  BY <1>2, <1>3, <1>5, <1>6

-----------------------------------------------------------------------------
(* The overload that is chosen. *)

LEMMA MethodTypes ==
  ASSUME service \in Seq(Methods), NEW idx \in DOMAIN service
  PROVE  /\ idx \in 1..Len(service)
         /\ Len(service[idx].params) \in Nat
         /\ DOMAIN service[idx].params = 1..Len(service[idx].params)
<1>1. DOMAIN service = 1..Len(service) /\ service[idx] \in Methods
  OBVIOUS
<1>2. service[idx].params \in Seq([name : STRING, type : STRING, out : BOOLEAN])
  BY <1>1 DEF Methods
<1>. QED
  BY <1>1, <1>2

LEMMA FitsIsBelongs ==
  ASSUME service \in Seq(Methods), NEW request \in Requests, NEW idx \in Known
  PROVE  Fits(idx, request) <=> Belongs(idx, request)
<1>. DEFINE params == service[idx].params
<1>1. Len(params) \in Nat /\ DOMAIN params = 1..Len(params)
  BY MethodTypes DEF Known
<1>2. service[idx].invokable /\ ValidInfo(service[idx])
  BY DEF Known
<1>3. CASE request.byName
  BY <1>2, <1>3 DEF Fits, Belongs
<1>4. CASE ~request.byName
  <2>1. Len(request.args) \in Nat /\ DOMAIN request.args = 1..Len(request.args)
    BY <1>4, DispatchAssumption
  <2>2. ListFits(params, request.args) <=> ListBelongs(params, request.args)
    BY <1>1, <2>1, ListFitsIsBelongs
  <2>. QED
    BY <1>2, <1>4, <2>2 DEF Fits, Belongs
<1>. QED
  BY <1>3, <1>4

\* Of the methods in the table that fit a request, dispatch takes the one that
\* is meant.
LEMMA ChosenIsMeant ==
  ASSUME service \in Seq(Methods), NEW request \in Requests, TableInv(indexes, Len(service))
  PROVE  Chosen(request) = Meant(request)
<1>. DEFINE places == {k \in DOMAIN indexes : Fits(indexes[k], request)}
            fitting == {idx \in DOMAIN service : Belongs(idx, request)}
            typed == {idx \in fitting : ~MentionsVariant(service[idx])}
            place == CHOOSE k \in places : \A l \in places : k <= l
            latest == CHOOSE idx \in typed : \A i \in typed : i <= idx
            earliest == CHOOSE idx \in fitting : \A i \in fitting : idx <= i
<1>1. /\ indexes \in Seq(Known) /\ DOMAIN indexes = 1..Len(indexes) /\ Len(indexes) \in Nat
      /\ \A k \in 1..Len(indexes) : indexes[k] \in Known
  BY DEF TableInv
<1>2. \A i \in Known : i \in Nat /\ i <= Len(service) /\ i \in DOMAIN service
  BY MethodTypes DEF Known
<1>3. \A i \in fitting : i \in Known /\ Fits(i, request)
  <2>1. \A i \in fitting : i \in Known
    BY DEF Belongs, Known
  <2>. QED
    BY <2>1, FitsIsBelongs
<1>4. \A k \in places : k \in 1..Len(indexes) /\ indexes[k] \in fitting
  BY <1>1, <1>2, FitsIsBelongs
<1>5. \A k \in 1..Len(indexes) : indexes[k] \in fitting => k \in places
  BY <1>1, <1>3
<1>6. Chosen(request) = IF places = {} THEN NoMethod ELSE indexes[place]
  BY DEF Chosen, FirstFitting
<1>7. Meant(request) = CASE typed # {} -> latest
                         [] typed = {} /\ fitting # {} -> earliest
                         [] OTHER -> NoMethod
  BY DEF Meant
<1>8. \A i \in typed : i \in fitting /\ ~Variant(i)
  BY DEF Variant
<1>9. \A i \in fitting : i \notin typed => Variant(i)
  BY DEF Variant
<1>10. typed \subseteq fitting
  OBVIOUS
<1>. HIDE DEF places, fitting, typed, place, latest, earliest
<1>11. CASE places = {}
  <2>1. fitting = {}
    <3>. SUFFICES ASSUME NEW i \in fitting PROVE FALSE
      OBVIOUS
    <3>1. i \in Known /\ i <= Len(service)
      BY <1>2, <1>3
    <3>2. PICK k \in 1..Len(indexes) : indexes[k] = i
      BY <3>1 DEF TableInv
    <3>. QED
      BY <1>5, <1>11, <3>2
  <2>. QED
    BY <1>6, <1>7, <1>10, <1>11, <2>1
<1>12. CASE places # {}
  <2>1. places \in SUBSET Nat
    BY <1>4
  <2>2. PICK first \in places : \A l \in places : first <= l
    BY <1>12, <2>1, LeastNatural
  <2>3. \A k \in places : (\A l \in places : k <= l) => k = first
    BY <2>1, <2>2
  <2>4. place = first
    BY <2>2, <2>3 DEF place
  <2>. DEFINE chosen == indexes[first]
  <2>5. Chosen(request) = chosen /\ first \in 1..Len(indexes) /\ chosen \in fitting /\ chosen \in Known
    BY <1>1, <1>4, <1>6, <1>12, <2>2, <2>4
  <2>. HIDE DEF chosen
  <2>6. ASSUME NEW i \in fitting, NEW l \in 1..first - 1, indexes[l] = i PROVE FALSE
    <3>1. l \in 1..Len(indexes) /\ ~(first <= l)
      BY <1>1, <2>5, <2>6
    <3>. QED
      BY <1>5, <2>2, <2>6, <3>1
  <2>7. ASSUME NEW i \in typed PROVE ~Variant(chosen) /\ i <= chosen
    <3>1. i \in Known /\ i \in fitting /\ ~Variant(i) /\ i <= Len(service)
      BY <1>2, <1>3, <1>8
    <3>2. ~(Variant(chosen) \/ chosen < i)
      <4>. SUFFICES ASSUME Variant(indexes[first]) \/ indexes[first] < i PROVE FALSE
        BY DEF chosen
      <4>1. \E l \in 1..first - 1 : indexes[l] = i
        BY <2>5, <3>1 DEF TableInv
      <4>. QED
        BY <2>6, <3>1, <4>1
    <3>. QED
      BY <1>2, <2>5, <3>1, <3>2
  <2>8. CASE typed # {}
    <3>1. chosen \in typed
      BY <1>9, <2>5, <2>7, <2>8
    <3>2. \A idx \in typed : (\A i \in typed : i <= idx) => idx = chosen
      BY <1>2, <1>3, <1>8, <2>7, <3>1
    <3>3. latest = chosen
      BY <2>7, <3>1, <3>2 DEF latest
    <3>. QED
      BY <1>7, <2>5, <2>8, <3>3
  <2>9. CASE typed = {}
    <3>1. \A i \in fitting : chosen <= i
      <4>. SUFFICES ASSUME NEW i \in fitting, ~(chosen <= i) PROVE FALSE
        OBVIOUS
      <4>1. Variant(i) /\ Variant(indexes[first]) /\ i \in Known
        BY <1>3, <1>9, <2>5, <2>9 DEF chosen
      <4>2. i < indexes[first]
        BY <1>2, <2>5, <4>1 DEF chosen
      <4>3. \E l \in 1..first - 1 : indexes[l] = i
        BY <2>5, <4>1, <4>2 DEF TableInv
      <4>. QED
        BY <2>6, <4>3
    <3>2. \A idx \in fitting : (\A i \in fitting : idx <= i) => idx = chosen
      BY <1>2, <1>3, <2>5, <3>1
    <3>3. earliest = chosen
      BY <2>5, <3>1, <3>2 DEF earliest
    <3>. QED
      BY <1>7, <2>5, <2>9, <3>3
  <2>. QED
    BY <2>8, <2>9
<1>. QED
  BY <1>11, <1>12

\* What dispatch chooses is in the table.
LEMMA ChosenIsKnown ==
  ASSUME NEW request, indexes \in Seq(Known), Chosen(request) # NoMethod
  PROVE  Chosen(request) \in Known
<1>. DEFINE places == {k \in DOMAIN indexes : Fits(indexes[k], request)}
            place == CHOOSE k \in places : \A l \in places : k <= l
<1>1. Chosen(request) = IF places = {} THEN NoMethod ELSE indexes[place]
  BY DEF Chosen, FirstFitting
<1>2. \A k \in places : k \in Nat /\ indexes[k] \in Known
  OBVIOUS
<1>. HIDE DEF places, place
<1>3. places # {} /\ Chosen(request) = indexes[place]
  BY <1>1
<1>4. places \in SUBSET Nat
  BY <1>2
<1>5. \E k \in places : \A l \in places : k <= l
  BY <1>3, <1>4, LeastNatural
<1>6. place \in places
  BY <1>5 DEF place
<1>. QED
  BY <1>2, <1>3, <1>6

-----------------------------------------------------------------------------
(* What is called. *)

\* In a service with QML's methods only, each with its own number of
\* parameters, Qt derives from the number of arguments the method with so many.
LEMMA CalledIsOnly ==
  ASSUME service \in Seq(Methods),
         NEW chosen \in DOMAIN service,
         \A i \in DOMAIN service : QmlMethod(service[i]),
         \A i, j \in DOMAIN service : Len(service[i].params) = Len(service[j].params) => i = j
  PROVE  Called(Len(service[chosen].params)) = chosen
<1>. DEFINE n == Len(service[chosen].params)
            asked == {idx \in DOMAIN service :
                        /\ Len(service[idx].params) = n
                        /\ \A i \in 1..n : service[idx].params[i].type = "variant" /\ ~service[idx].params[i].out}
            derived == CHOOSE idx \in asked : \A i \in asked : i <= idx
<1>1. Called(n) = IF asked # {} /\ service[derived].returns = "variant" THEN derived ELSE NoMethod
  BY DEF Called
<1>2. chosen \in asked
  <2>1. DOMAIN service[chosen].params = 1..n
    BY MethodTypes
  <2>2. \A i \in DOMAIN service[chosen].params :
          service[chosen].params[i].type = "variant" /\ ~service[chosen].params[i].out
    BY DEF QmlMethod
  <2>. QED
    BY <2>1, <2>2
<1>3. \A idx \in asked : idx = chosen
  OBVIOUS
<1>4. chosen <= chosen
  BY MethodTypes
<1>5. service[chosen].returns = "variant"
  BY DEF QmlMethod
<1>. HIDE DEF n, asked, derived
<1>6. asked = {chosen}
  BY <1>2, <1>3
<1>7. derived = chosen
  BY <1>4, <1>6 DEF derived
<1>8. Called(n) = chosen
  BY <1>1, <1>2, <1>5, <1>7
<1>. QED
  BY <1>8 DEF n

-----------------------------------------------------------------------------
(* The invariant. *)

\* What the last request has led to, of which only the choice depends on the
\* table.
LastInv ==
  Dispatched =>
    /\ last.request \in Requests
    /\ last.chosen = Meant(last.request)
    /\ last.chosen # NoMethod => last.chosen \in Known
    /\ last.called = CalledFor(last.chosen, last.request)
    /\ last.answer = IF last.called = NoMethod THEN "error" ELSE AnswerOf(service[last.chosen])

DispatchInv ==
  /\ service \in Seq(Methods)
  /\ adds \in 0..MaxAdds
  /\ TableInv(indexes, IF adds = 0 THEN 0 ELSE Len(service))
  /\ LastInv

LEMMA InitDispatchInv == Init => DispatchInv
<1>. SUFFICES ASSUME Init PROVE DispatchInv
  OBVIOUS
<1>1. service \in Seq(Methods) /\ adds = 0 /\ adds \in 0..MaxAdds
  BY DispatchAssumption DEF Init
<1>2. \A i \in Known : i \in Nat /\ ~(i <= 0)
  BY <1>1 DEF Known
<1>3. indexes = <<>>
  BY DEF Init
<1>4. TableInv(indexes, 0)
  BY <1>2, <1>3 DEF TableInv
<1>5. ~Dispatched
  BY DEF Init, NothingYet, Dispatched
<1>. QED
  BY <1>1, <1>4, <1>5 DEF DispatchInv, LastInv

\* What depends on nothing but the service.
LEMMA ServiceOnly ==
  ASSUME service' = service, NEW CONSTANT idx, NEW CONSTANT request
  PROVE  /\ Known' = Known
         /\ Variant(idx)' = Variant(idx)
         /\ Meant(request)' = Meant(request)
         /\ CalledFor(idx, request)' = CalledFor(idx, request)
<1>1. Known' = Known
  BY DEF Known
<1>2. Variant(idx)' = Variant(idx)
  BY DEF Variant
<1>3. Meant(request)' = Meant(request)
  BY DEF Meant, Belongs
<1>4. CalledFor(idx, request)' = CalledFor(idx, request)
  BY DEF CalledFor, Called, Passed
<1>. QED
  BY <1>1, <1>2, <1>3, <1>4

LEMMA NextDispatchInv == DispatchInv /\ [Next]_vars => DispatchInv'
<1>. SUFFICES ASSUME DispatchInv, [Next]_vars PROVE DispatchInv'
  OBVIOUS
<1>1. service \in Seq(Methods) /\ adds \in 0..MaxAdds
  BY DEF DispatchInv
<1>2. CASE AddService
  <2>1. adds' \in 0..MaxAdds /\ adds' # 0
    BY <1>1, <1>2, DispatchAssumption DEF AddService
  <2>2. TableInv(indexes, 0)
    BY <1>1, TableInvWeaker DEF DispatchInv
  <2>3. TableInv(CacheInvokableInfo(indexes), Len(service))
    BY <1>1, <2>2, CacheInv
  <2>4. indexes' = CacheInvokableInfo(indexes) /\ service' = service /\ last' = last
    BY <1>2 DEF AddService
  <2>5. TableInv(indexes, Len(service))'
    BY <2>3, <2>4 DEF TableInv, Known, Variant
  <2>6. LastInv'
    <3>1. \A idx, request : Meant(request)' = Meant(request) /\ CalledFor(idx, request)' = CalledFor(idx, request)
      BY <2>4, ServiceOnly
    <3>2. Known' = Known
      BY <2>4, ServiceOnly
    <3>. QED
      BY <2>4, <3>1, <3>2 DEF DispatchInv, LastInv, Dispatched
  <2>. QED
    BY <1>1, <2>1, <2>4, <2>5, <2>6 DEF DispatchInv
<1>3. ASSUME NEW request \in Requests, Dispatch(request) PROVE DispatchInv'
  <2>1. adds # 0 /\ service' = service /\ adds' = adds /\ indexes' = indexes
    BY <1>1, <1>3 DEF Dispatch
  <2>2. TableInv(indexes, Len(service))
    BY <2>1 DEF DispatchInv
  <2>3. Chosen(request) = Meant(request)
    BY <1>1, <2>2, ChosenIsMeant
  <2>4. Chosen(request) # NoMethod => Chosen(request) \in Known
    BY <2>2, ChosenIsKnown DEF TableInv
  <2>5. /\ last'.request = request /\ last'.chosen = Chosen(request)
        /\ last'.called = CalledFor(last'.chosen, request)
        /\ last'.answer = IF last'.called = NoMethod THEN "error" ELSE AnswerOf(service[last'.chosen])
    BY <1>3 DEF Dispatch
  <2>6. LastInv'
    <3>1. \A idx, r : Meant(r)' = Meant(r) /\ CalledFor(idx, r)' = CalledFor(idx, r)
      BY <2>1, ServiceOnly
    <3>2. Known' = Known
      BY <2>1, ServiceOnly
    <3>. QED
      BY <2>1, <2>3, <2>4, <2>5, <3>1, <3>2 DEF LastInv
  <2>7. TableInv(indexes, Len(service))'
    BY <2>1, <2>2 DEF TableInv, Known, Variant
  <2>. QED
    BY <1>1, <2>1, <2>6, <2>7 DEF DispatchInv
<1>4. CASE UNCHANGED vars
  <2>1. service' = service /\ adds' = adds /\ indexes' = indexes /\ last' = last
    BY <1>4 DEF vars
  <2>2. \A idx, request : Meant(request)' = Meant(request) /\ CalledFor(idx, request)' = CalledFor(idx, request)
    BY <2>1, ServiceOnly
  <2>3. LastInv'
    <3>1. Known' = Known
      BY <2>1, ServiceOnly
    <3>. QED
      BY <2>1, <2>2, <3>1 DEF DispatchInv, LastInv, Dispatched
  <2>4. TableInv(indexes, IF adds = 0 THEN 0 ELSE Len(service))'
    BY <2>1 DEF DispatchInv, TableInv, Known, Variant
  <2>. QED
    BY <1>1, <2>1, <2>3, <2>4 DEF DispatchInv
<1>. QED
  BY <1>2, <1>3, <1>4 DEF Next

LEMMA DispatchInvHolds == Spec => []DispatchInv
BY InitDispatchInv, NextDispatchInv, PTL DEF Spec

\* dispatch chooses the overload that a request means, however often the
\* service was added on top of the table of the last time.
THEOREM OverloadIsMeantHolds == Spec => []OverloadIsMeant
<1>1. DispatchInv => OverloadIsMeant
  BY DEF DispatchInv, LastInv, OverloadIsMeant
<1>. QED
  BY <1>1, DispatchInvHolds, PTL

\* A service with QML's methods only, each with its own number of parameters,
\* answers a request with the result of the method that was chosen for it, up
\* to ten parameters.
THEOREM ChosenIsCalledHolds == Spec => []ChosenIsCalled
<1>1. ASSUME DispatchInv PROVE ChosenIsCalled
  <2>. DEFINE chosen == last.chosen
              method == service[chosen]
  <2>. SUFFICES ASSUME Dispatched, chosen # NoMethod,
                       \A i \in DOMAIN service : QmlMethod(service[i]),
                       \A i, j \in DOMAIN service : Len(service[i].params) = Len(service[j].params) => i = j,
                       ~(Len(method.params) > MaxPassed)
                PROVE  last.called = chosen /\ last.answer = "result"
    BY DEF ChosenIsCalled
  <2>1. service \in Seq(Methods) /\ chosen \in DOMAIN service
    BY <1>1 DEF DispatchInv, LastInv, Known
  <2>2. /\ last.called = CalledFor(chosen, last.request)
        /\ last.answer = IF last.called = NoMethod THEN "error" ELSE AnswerOf(method)
    BY <1>1 DEF DispatchInv, LastInv
  <2>3. /\ method.returns = "variant"
        /\ \A i \in DOMAIN method.params : method.params[i].type = "variant" /\ ~method.params[i].out
    BY <2>1 DEF QmlMethod
  <2>4. Converted(method.params, last.request)
    BY <2>3, DispatchAssumption DEF Converted
  <2>5. Passed(chosen, last.request) = Len(method.params)
    BY DEF Passed
  <2>6. Called(Len(method.params)) = chosen
    BY <2>1, CalledIsOnly
  <2>7. last.called = chosen
    BY <2>2, <2>4, <2>5, <2>6 DEF CalledFor
  <2>8. AnswerOf(method) = "result"
    BY <2>3 DEF AnswerOf, HasOut
  <2>. QED
    BY <2>2, <2>7, <2>8
<1>. QED
  BY <1>1, DispatchInvHolds, PTL
=============================================================================
