------------------------------ MODULE JsonLayout ------------------------------
(***************************************************************************)
(* The binary form of a JSON document: what qjson_p.h lays out in memory   *)
(* and qjson.cpp reads and rearranges.  A memory is a function from the    *)
(* byte offsets at which something begins to what begins there:            *)
(*   - a Base (12 bytes) heads an array or an object,                      *)
(*   - a Value (4 bytes) stands in the table of an array, or begins the    *)
(*     Entry of an object, whose key follows it,                           *)
(*   - an offset (4 bytes) stands in the table of an object,               *)
(*   - a length, of 2 or 4 bytes, begins a string, whose characters, of 1  *)
(*     or 2 bytes, follow it,                                              *)
(*   - a double (8 bytes).                                                 *)
(* The offsets in a Value or in a table are counted from their Base.       *)
(* Strings are sequences of UTF-16 code units.  A double is a number of    *)
(* thousandths: that is as fine as the numbers of the model are.           *)
(***************************************************************************)
EXTENDS Integers, Sequences, TLC

CONSTANTS
    IntLimit,     \* 2^25: the parser stores smaller integers in the Value
    LatinLimit,   \* 0x8000: strings shorter than this may be stored as Latin-1
    MaxSize       \* 2^27 - 1: the largest offset that a Value can hold

ASSUME LayoutAssumption == IntLimit \in Nat /\ LatinLimit \in Nat /\ MaxSize \in Nat

HeaderSize == 8

BaseSize == 12

Root == HeaderSize

Thousand == 1000

-----------------------------------------------------------------------------
(* What a piece of memory means: the values of JSON *)

NullValue == [type |-> "Null"]

BoolValue(b) == [type |-> "Bool", bool |-> b]

NumberValue(n) == [type |-> "Double", number |-> n]

StringValue(s) == [type |-> "String", text |-> s]

ArrayValue(items) == [type |-> "Array", items |-> items]

ObjectValue(members) == [type |-> "Object", members |-> members]

-----------------------------------------------------------------------------
(* What stands in memory *)

BaseCell(size, isObject, length, tableOffset) ==
    [size |-> size, is_object |-> isObject, length |-> length, tableOffset |-> tableOffset]

ValueCell(type, latinOrInt, value) ==
    [type |-> type, latinOrIntValue |-> latinOrInt, latinKey |-> FALSE, value |-> value]

AlignedSize(n) == ((n + 3) \div 4) * 4

UseCompressed(s) == Len(s) < LatinLimit /\ \A i \in DOMAIN s : s[i] <= 255

QStringSize(s, compress) == AlignedSize((2 + Len(s)) * (IF compress THEN 1 ELSE 2))

\* compressedNumber: zero and everything between -1 and 1 stays a double.
Compressible(n) == n % Thousand = 0 /\ (n \div Thousand) \in (1 - 2 * IntLimit)..(2 * IntLimit - 1) \ {0}

CharAt(off, i, latin) == off + (IF latin THEN 1 + i ELSE 2 + 2 * i)

\* copyString
StringCells(off, s, latin) ==
    LET places == {CharAt(off, i, latin) : i \in DOMAIN s}
    IN  [x \in places \cup {off} |->
            IF x = off THEN Len(s) ELSE s[CHOOSE i \in DOMAIN s : CharAt(off, i, latin) = x]]

StringAt(mem, off, latin) == [i \in 1..mem[off] |-> mem[CharAt(off, i, latin)]]

\* memcpy: the n bytes from offset `from` of mem, to stand at offset `to`.
Slice(mem, from, n, to) ==
    [x \in {y - from + to : y \in DOMAIN mem \cap from..(from + n - 1)} |-> mem[x - to + from]]

\* The n bytes at offset `to` of mem are overwritten with cells.
Overlay(mem, to, n, cells) ==
    cells @@ [x \in DOMAIN mem \ (to..(to + n - 1)) |-> mem[x]]

\* memmove; what is left behind is never read and does not stay.
Relocate(mem, from, n, to) ==
    Overlay(Overlay(mem, from, n, <<>>), to, n, Slice(mem, from, n, to))

TableAt(mem, base, i) == base + mem[base].tableOffset + 4 * i

EntryAt(mem, base, i) == base + mem[TableAt(mem, base, i)]

KeyAt(mem, base, i) ==
    LET e == EntryAt(mem, base, i) IN StringAt(mem, e + 4, mem[e].latinKey)

\* Entry::size counts one byte for each character of a key, also of a wide one.
EntrySize(mem, e) ==
    AlignedSize(4 + IF mem[e].latinKey THEN 2 + mem[e + 4] ELSE 4 + mem[e + 4])

UsedStorage(mem, base, v) ==
    CASE v.type = "Double" /\ ~v.latinOrIntValue -> 8
      [] v.type = "String" ->
            AlignedSize(IF v.latinOrIntValue THEN 2 + mem[base + v.value]
                                             ELSE 4 + 2 * mem[base + v.value])
      [] v.type \in {"Array", "Object"} -> AlignedSize(mem[base + v.value].size)
      [] OTHER -> 0

-----------------------------------------------------------------------------
(* Data: what a new one holds, and what compact() leaves of it *)

NewData(isObject) == Root :> BaseCell(BaseSize, isObject, 0, BaseSize)

\* The Value and the bytes of one element, placed at offset `off` of the new
\* root; an Entry has its key before them.
PackedValue(old, base, v, off) ==
    LET n == UsedStorage(old, base, v)
    IN  [value |-> IF n > 0 THEN [v EXCEPT !.value = off] ELSE v,
         cells |-> IF n > 0 THEN Slice(old, base + v.value, n, Root + off) ELSE <<>>,
         size  |-> n]

RECURSIVE Packed(_, _, _, _, _)
Packed(old, base, i, new, off) ==
    IF i = old[base].length THEN new
    ELSE LET slot == TableAt(new, Root, i)
             e == EntryAt(old, base, i)
             key == EntrySize(old, e)
             v == IF old[base].is_object THEN PackedValue(old, base, old[e], off + key)
                  ELSE PackedValue(old, base, old[TableAt(old, base, i)], off)
             entry == Overlay(new, Root + off, key, Slice(old, e, key, Root + off))
         IN  IF old[base].is_object
             THEN Packed(old, base, i + 1,
                         Overlay(entry, Root + off + key, v.size,
                                 v.cells @@ (Root + off) :> v.value @@ slot :> off),
                         off + key + v.size)
             ELSE Packed(old, base, i + 1,
                         Overlay(new, Root + off, v.size, v.cells @@ slot :> v.value),
                         off + v.size)

RECURSIVE Reserved(_, _, _)
Reserved(mem, base, i) ==
    IF i = mem[base].length THEN 0
    ELSE Reserved(mem, base, i + 1) +
         IF mem[base].is_object
         THEN LET e == EntryAt(mem, base, i) IN EntrySize(mem, e) + UsedStorage(mem, base, mem[e])
         ELSE UsedStorage(mem, base, mem[TableAt(mem, base, i)])

\* Data::compact: only what the root still refers to stays.
Compacted(mem) ==
    LET b == mem[Root]
        reserve == Reserved(mem, Root, 0)
    IN  Packed(mem, Root, 0,
               Root :> BaseCell(BaseSize + reserve + 4 * b.length, b.is_object, b.length,
                                BaseSize + reserve),
               BaseSize)

\* Data::clone: the element at base alone, as the root of a block of its own.
Cloned(mem, base) == Slice(mem, base, mem[base].size, Root)

-----------------------------------------------------------------------------
(* The table of an array or an object *)

TooLarge(mem, base, dataSize) == mem[base].size + dataSize >= MaxSize

\* mutant: the new place in the table is not counted in the size.
SizeWithoutSlot(mem, base, dataSize, pos, replace) ==
    LET b == mem[base]
        t == base + b.tableOffset
        moved == IF replace THEN Relocate(mem, t, 4 * b.length, t + dataSize)
                 ELSE Relocate(Relocate(mem, t + 4 * pos, 4 * (b.length - pos),
                                        t + 4 * (pos + 1) + dataSize),
                               t, 4 * pos, t + dataSize)
    IN  (t + dataSize + 4 * pos) :> b.tableOffset
        @@ base :> BaseCell(b.size + dataSize, b.is_object, b.length + IF replace THEN 0 ELSE 1,
                            b.tableOffset + dataSize)
        @@ moved

\* Base::reserveSpace: room for the data of an element before the table, which
\* moves up, and (unless it replaces one) a place in the table at pos.
WithSpace(mem, base, dataSize, pos, replace) ==
    LET b == mem[base]
        t == base + b.tableOffset
        items == IF replace THEN 0 ELSE 1
        moved == IF replace THEN Relocate(mem, t, 4 * b.length, t + dataSize)
                 ELSE Relocate(Relocate(mem, t + 4 * pos, 4 * (b.length - pos),
                                        t + 4 * (pos + 1) + dataSize),
                               t, 4 * pos, t + dataSize)
        head == BaseCell(b.size + dataSize + 4 * items, b.is_object, b.length + items,
                         b.tableOffset + dataSize)
    IN  (t + dataSize + 4 * pos) :> b.tableOffset @@ base :> head @@ moved

\* Base::removeItems, for one item: its data stays where it is.
WithoutItem(mem, base, pos) ==
    LET t == base + mem[base].tableOffset
        n == mem[base].length
    IN  base :> [mem[base] EXCEPT !.length = n - 1]
        @@ Relocate(Overlay(mem, t + 4 * pos, 4, <<>>), t + 4 * (pos + 1), 4 * (n - pos - 1),
                    t + 4 * pos)

Precedes(s, u) ==
    \E n \in 0..Len(s) :
        /\ n <= Len(u) /\ SubSeq(s, 1, n) = SubSeq(u, 1, n)
        /\ IF n = Len(s) THEN n < Len(u) ELSE n < Len(u) /\ s[n + 1] < u[n + 1]

\* The binary search of Object::indexOf and ParsedObject::insert among the n
\* keys after the first min ones: the first that does not precede key.
RECURSIVE LowerBound(_, _, _, _)
LowerBound(keys, key, min, n) ==
    LET half == n \div 2
    IN  CASE n = 0 -> min
          [] n > 0 /\ ~Precedes(keys[min + half], key) -> LowerBound(keys, key, min, half)
          [] OTHER -> LowerBound(keys, key, min + half + 1, n - half - 1)

KeysOf(mem, base) == [i \in 0..(mem[base].length - 1) |-> KeyAt(mem, base, i)]

IndexOf(mem, base, key) == LowerBound(KeysOf(mem, base), key, 0, mem[base].length)

HasKey(mem, base, key) ==
    LET i == IndexOf(mem, base, key) IN i < mem[base].length /\ KeyAt(mem, base, i) = key

-----------------------------------------------------------------------------
(* Data::valid *)

RECURSIVE ValidBase(_, _, _)
ValidValue(mem, base, v) ==
    LET off == IF v.type \in {"Null", "Bool"} \/ (v.type = "Double" /\ v.latinOrIntValue) THEN 0
               ELSE v.value
    IN  off > 0 =>
            /\ off + 4 <= mem[base].tableOffset
            /\ off + UsedStorage(mem, base, v) <= mem[base].tableOffset
            /\ v.type \in {"Array", "Object"} => ValidBase(mem, base + off, v.type = "Object")

ValidBase(mem, base, isObject) ==
    LET b == mem[base]
    IN  /\ b.tableOffset + 4 * b.length <= b.size
        /\ \A i \in 0..(b.length - 1) :
               IF isObject
               THEN LET e == mem[TableAt(mem, base, i)]
                    IN  /\ e + 4 < b.tableOffset
                        /\ e + EntrySize(mem, base + e) <= b.tableOffset
                        /\ ValidValue(mem, base, mem[base + e])
               ELSE ValidValue(mem, base, mem[TableAt(mem, base, i)])

Valid(mem) == ValidBase(mem, Root, mem[Root].is_object)

-----------------------------------------------------------------------------
(* Reading: QJsonValue(d, base, v), at(i), value(key), keys(), toVariant() *)

RECURSIVE ReadValue(_, _, _)
ReadArray(mem, base) ==
    [i \in 1..mem[base].length |-> ReadValue(mem, base, mem[TableAt(mem, base, i - 1)])]

ReadObject(mem, base) ==
    LET keys == KeysOf(mem, base)
    IN  [k \in {keys[i] : i \in DOMAIN keys} |->
            ReadValue(mem, base, mem[EntryAt(mem, base, IndexOf(mem, base, k))])]

ReadValue(mem, base, v) ==
    CASE v.type = "Null"   -> NullValue
      [] v.type = "Bool"   -> BoolValue(v.value = 1)
      [] v.type = "Double" -> NumberValue(IF v.latinOrIntValue THEN v.value * Thousand
                                                               ELSE mem[base + v.value])
      [] v.type = "String" -> StringValue(StringAt(mem, base + v.value, v.latinOrIntValue))
      [] v.type = "Array"  -> ArrayValue(ReadArray(mem, base + v.value))
      [] v.type = "Object" -> ObjectValue(ReadObject(mem, base + v.value))

=============================================================================
