---------------------------- MODULE JsonDocuments ----------------------------
(***************************************************************************)
(* QJsonObject, QJsonArray, QJsonValue and QJsonDocument over the binary   *)
(* form of JsonLayout.  A handle (an object, an array or a document of the *)
(* program) points to a block of memory, QJsonPrivate::Data, and to the    *)
(* Base in it that it stands for; several handles share a block, which     *)
(* counts them, and the last one deletes it.  A handle that is changed     *)
(* first detaches: it goes to a block of its own unless it has one.        *)
(*                                                                         *)
(* Every action is one call of the program, with the temporary values that *)
(* it makes and drops.  `defects` names what went wrong in a way that the  *)
(* code is known to get wrong; nothing happens after that, since from then *)
(* on the memory holds anything.                                           *)
(***************************************************************************)
EXTENDS JsonParser, JsonWriter, FiniteSets

CONSTANTS
    Objects, Arrays, Documents,   \* the handles, by their class
    Keys, Scalars,                \* the keys and the plain values of the program
    Inputs,                       \* the texts that are parsed at the start
    MaxCalls,                     \* those of them that the program then works on, each with
                                  \* the bound on its calls
    CompactAfter,                 \* 32: changes that go without compaction
    MinReserve,                   \* 128: the least that a block grows by
    KeysAgree                     \* whether a key that comes again may be found, missed, or both

Seeds == DOMAIN MaxCalls

ASSUME DocumentsAssumption ==
    /\ Objects \cap Arrays = {} /\ Objects \cap Documents = {} /\ Arrays \cap Documents = {}
    /\ Seeds \subseteq Inputs /\ MaxCalls \in [Seeds -> Nat]
    /\ CompactAfter \in Nat /\ MinReserve \in Nat /\ KeysAgree \subseteq BOOLEAN

VARIABLES
    blocks,    \* the blocks in memory, by a number
    handle,    \* what every handle points to
    defects,   \* the known defects that were met
    input,     \* the text of the start, and what its parsing said
    calls,     \* the calls made since
    value,     \* what every handle reads as
    call       \* the last call, with its arguments

vars == <<blocks, handle, defects, input, calls, value, call>>

Handles == Objects \cup Arrays \cup Documents

NoBlock == 0

Nothing == [d |-> NoBlock, at |-> Root]

Unread == "Unread"

-----------------------------------------------------------------------------
(* Blocks *)

Larger(m, n) == IF m > n THEN m ELSE n

Block(alloc, counter, mem) ==
    [ref |-> 1, alloc |-> alloc, compactionCounter |-> counter, mem |-> mem]

NewBlock(isObject, reserve) ==
    Block(HeaderSize + BaseSize + reserve + 4, 0, NewData(isObject))

\* mutant: whoever else holds the block.
StaysShared(b, at, reserve) ==
    reserve = 0 \/ (at = Root /\ b.alloc >= HeaderSize + b.mem[at].size + reserve)

\* Data::clone keeps the block where it is big enough and nobody else's.
Stays(b, at, reserve) ==
    b.ref = 1 /\ (reserve = 0 \/ (at = Root /\ b.alloc >= HeaderSize + b.mem[at].size + reserve))

Clone(b, at, reserve) ==
    LET size == HeaderSize + b.mem[at].size
    IN  Block(IF reserve = 0 THEN size ELSE Larger(size + Larger(reserve, MinReserve), 2 * size),
              IF at = Root THEN b.compactionCounter ELSE 0,
              Cloned(b.mem, at))

CompactBlock(b) ==
    IF b.compactionCounter = 0 THEN b
    ELSE LET mem == Compacted(b.mem)
         IN  [b EXCEPT !.mem = mem, !.alloc = HeaderSize + mem[Root].size, !.compactionCounter = 0]

\* What compaction gets wrong: it takes the root for the handle's Base; it goes
\* by the root's is_object, which the copy of an object without data has not
\* set; and it cuts keys of three and more wide characters.
CutsKeys(mem) ==
    mem[Root].is_object /\ \E i \in 0..(mem[Root].length - 1) :
        LET e == EntryAt(mem, Root, i)
        IN  EntrySize(mem, e) < 4 + QStringSize(KeyAt(mem, Root, i), mem[e].latinKey)

CompactionDefects(mem, at, isObject) ==
    (IF at # Root THEN {"ParentCompacted"} ELSE {})
    \cup (IF at = Root /\ mem[Root].is_object # isObject THEN {"EmptyObjectIsArray"} ELSE {})
    \cup (IF at = Root /\ CutsKeys(mem) THEN {"KeyCut"} ELSE {})

-----------------------------------------------------------------------------
(* The memory of the program: s is a record of blocks, handle and defects *)

State == [blocks |-> blocks, handle |-> handle, defects |-> defects]

Ref(s, d) == IF d = NoBlock THEN s ELSE [s EXCEPT !.blocks[d].ref = @ + 1]

Deref(s, d) ==
    CASE d = NoBlock -> s
      [] d # NoBlock /\ s.blocks[d].ref > 1 -> [s EXCEPT !.blocks[d].ref = @ - 1]
      [] OTHER -> [s EXCEPT !.blocks = [x \in DOMAIN @ \ {d} |-> @[x]]]

BlockOf(s, h) == s.blocks[s.handle[h].d]

\* operator=: the new block gains a reference and the old one loses it.
Assigned(s, h, d, at) ==
    Deref([Ref(s, d) EXCEPT !.handle[h] = [d |-> d, at |-> at]], s.handle[h].d)

\* A handle gets a block of its own, in place of its reference to another.
Given(s, h, block) ==
    LET d == CHOOSE x \in 1..(Cardinality(DOMAIN s.blocks) + 1) : x \notin DOMAIN s.blocks
    IN  Deref([s EXCEPT !.blocks = d :> block @@ @, !.handle[h] = [d |-> d, at |-> Root]],
              s.handle[h].d)

Detached(s, h, reserve) ==
    LET x == s.handle[h]
    IN  CASE x.d = NoBlock -> Given(s, h, NewBlock(h \in Objects, reserve))
          [] x.d # NoBlock /\ Stays(BlockOf(s, h), x.at, reserve) -> s
          [] OTHER -> Given(s, h, Clone(BlockOf(s, h), x.at, reserve))

CompactOwn(s, h) ==
    LET b == BlockOf(s, h)
        wrong == CompactionDefects(b.mem, s.handle[h].at, h \in Objects)
    IN  CASE b.compactionCounter = 0 -> s
          [] b.compactionCounter > 0 /\ wrong # {} -> [s EXCEPT !.defects = @ \cup wrong]
          [] OTHER -> [s EXCEPT !.blocks[s.handle[h].d] = CompactBlock(b)]

\* compact() of an object or array
CompactHandle(s, h) ==
    IF s.handle[h].d = NoBlock \/ BlockOf(s, h).compactionCounter = 0 THEN s
    ELSE CompactOwn(Detached(s, h, 0), h)

\* What every change of an object or array ends with.
Trimmed(s, h) ==
    LET b == BlockOf(s, h)
    IN  IF b.compactionCounter > CompactAfter
           /\ b.compactionCounter >= b.mem[s.handle[h].at].length \div 2
        THEN CompactHandle(s, h) ELSE s

Counted(s, h) == [s EXCEPT !.blocks[s.handle[h].d].compactionCounter = @ + 1]

WithMemory(s, h, mem) == [s EXCEPT !.blocks[s.handle[h].d].mem = mem]

-----------------------------------------------------------------------------
(* QJsonValue: one of Scalars, or the object or array of a handle *)

HandleValue(h) == [type |-> IF h \in Objects THEN "Object" ELSE "Array", from |-> h]

IsContainer(v) == v.type \in {"Array", "Object"}

BlockHeld(s, v) == IF IsContainer(v) THEN s.handle[v.from].d ELSE NoBlock

\* emptyArray and emptyObject, for a handle without data, say nothing of a kind.
EmptyBase == Root :> BaseCell(BaseSize, FALSE, 0, 0)

\* The container that is copied: compacted first if it is a root that changed.
Source(s, v) ==
    LET x == IF IsContainer(v) THEN s.handle[v.from] ELSE Nothing
    IN  IF x.d = NoBlock THEN EmptyBase ELSE CompactBlock(Clone(s.blocks[x.d], x.at, 0)).mem

\* Value::requiredStorage
Compressed(v) ==
    CASE v.type = "Double" -> Compressible(v.number)
      [] v.type = "String" -> UseCompressed(v.text)
      [] OTHER -> FALSE

RequiredStorage(v, source) ==
    CASE v.type = "Double" -> IF Compressed(v) THEN 0 ELSE 8
      [] v.type = "String" -> QStringSize(v.text, Compressed(v))
      [] IsContainer(v) -> source[Root].size
      [] OTHER -> 0

\* Value::valueToStore, for data at offset `to` of the Base
ValueToStore(v, to) ==
    ValueCell(IF v.type = "Undefined" THEN "Null" ELSE v.type, Compressed(v),
              CASE v.type \in {"Undefined", "Null"} -> 0
                [] v.type = "Bool" -> IF v.bool THEN 1 ELSE 0
                [] v.type = "Double" /\ Compressed(v) -> v.number \div Thousand
                [] OTHER -> to)

\* Value::copyData, to the place dest
CopyData(v, source, dest) ==
    CASE v.type = "Double" /\ ~Compressed(v) -> dest :> v.number
      [] v.type = "String" -> StringCells(dest, v.text, Compressed(v))
      [] IsContainer(v) -> Slice(source, Root, source[Root].size, dest)
      [] OTHER -> <<>>

\* A container that must be compacted before it is copied, and cannot be.
StoringDefects(s, v) ==
    LET x == s.handle[v.from]
        b == s.blocks[x.d]
    IN  IF BlockHeld(s, v) = NoBlock \/ b.compactionCounter = 0 \/ x.at # Root THEN {}
        ELSE CompactionDefects(b.mem, Root, v.type = "Object")

\* The tableOffset of an empty array or object is set before it is filled.
WithTable(mem, at) ==
    IF mem[at].length = 0 THEN [mem EXCEPT ![at].tableOffset = BaseSize] ELSE mem

-----------------------------------------------------------------------------
(* QJsonObject *)

RemovedAt(s, h, i) ==
    LET t == Detached(s, h, 0)
        mem == WithoutItem(BlockOf(t, h).mem, t.handle[h].at, i)
    IN  Trimmed(Counted(WithMemory(t, h, mem), h), h)

Has(s, h, key) ==
    s.handle[h].d # NoBlock /\ HasKey(BlockOf(s, h).mem, s.handle[h].at, key)

IndexIn(s, h, key) == IndexOf(BlockOf(s, h).mem, s.handle[h].at, key)

Removed(s, h, key) == IF Has(s, h, key) THEN RemovedAt(s, h, IndexIn(s, h, key)) ELSE s

EntrySpace(key, v, source) ==
    4 + QStringSize(key, UseCompressed(key)) + RequiredStorage(v, source)

\* The memory of an object, at the root, in which a member is put.
MemberPut(memory, key, v, source) ==
    LET mem == WithTable(memory, Root)
        latinKey == UseCompressed(key)
        off == mem[Root].tableOffset
        data == off + 4 + QStringSize(key, latinKey)
        entry == (Root + off) :> [ValueToStore(v, data) EXCEPT !.latinKey = latinKey]
    IN  IF TooLarge(mem, Root, EntrySpace(key, v, source)) THEN mem
        ELSE Overlay(WithSpace(mem, Root, EntrySpace(key, v, source), IndexOf(mem, Root, key),
                          HasKey(mem, Root, key)),
                Root + off, EntrySpace(key, v, source),
                entry @@ StringCells(Root + off + 4, key, latinKey)
                      @@ CopyData(v, source, Root + data))

\* A handle, detached, is given a member.
MemberAdded(s, h, key, v, source) ==
    LET mem == BlockOf(s, h).mem
        put == WithMemory(IF HasKey(mem, Root, key) THEN Counted(s, h) ELSE s, h,
                          MemberPut(mem, key, v, source))
    IN  IF TooLarge(mem, Root, EntrySpace(key, v, source)) THEN put ELSE Trimmed(put, h)

\* The value's own reference makes the handle detach from a block that it shares
\* with the value.
InsertedFrom(s, h, key, v, source) ==
    Deref(MemberAdded(Detached(Ref(s, BlockHeld(s, v)), h, EntrySpace(key, v, source) + 4),
                      h, key, v, source),
          BlockHeld(s, v))

\* insert()
Inserted(s, h, key, v) ==
    CASE v.type = "Undefined" -> Removed(s, h, key)
      [] v.type # "Undefined" /\ StoringDefects(s, v) # {} ->
            [s EXCEPT !.defects = @ \cup StoringDefects(s, v)]
      [] OTHER -> InsertedFrom(s, h, key, v, Source(s, v))

\* operator[] of a key: an index, after a null value was put where it is missing.
Indexed(s, h, key) == IF Has(s, h, key) THEN s ELSE Inserted(s, h, key, NullValue)

-----------------------------------------------------------------------------
(* QJsonArray *)

LengthOf(s, h) ==
    IF s.handle[h].d = NoBlock THEN 0 ELSE BlockOf(s, h).mem[s.handle[h].at].length

\* The memory of an array, at offset `at`, in which an item is put.
ItemPut(memory, at, i, v, source, replace) ==
    LET mem == WithTable(memory, at)
        off == mem[at].tableOffset
        size == RequiredStorage(v, source)
        spaced == WithSpace(mem, at, size, i, replace)
    IN  IF TooLarge(mem, at, size) THEN mem
        ELSE TableAt(spaced, at, i) :> ValueToStore(v, off)
             @@ Overlay(spaced, at + off, size, CopyData(v, source, at + off))

\* A handle, detached, is given an item.
ItemAdded(s, h, i, v, source, replace) ==
    LET at == s.handle[h].at
        mem == BlockOf(s, h).mem
        put == WithMemory(s, h, ItemPut(mem, at, i, v, source, replace))
    IN  IF replace /\ ~TooLarge(mem, at, RequiredStorage(v, source)) THEN Trimmed(Counted(put, h), h)
        ELSE put

ItemAddedFrom(s, h, i, v, source, replace) ==
    Deref(ItemAdded(Detached(Ref(s, BlockHeld(s, v)), h,
                             RequiredStorage(v, source) + IF replace THEN 0 ELSE 4),
                    h, i, v, source, replace),
          BlockHeld(s, v))

\* insert() and replace() of an array
PutItem(s, h, i, v, replace) ==
    IF StoringDefects(s, v) # {} THEN [s EXCEPT !.defects = @ \cup StoringDefects(s, v)]
    ELSE ItemAddedFrom(s, h, i, v, Source(s, v), replace)

-----------------------------------------------------------------------------
(* From one handle to another *)

ElementAt(s, h, i) ==
    LET mem == BlockOf(s, h).mem
    IN  IF h \in Objects THEN mem[EntryAt(mem, s.handle[h].at, i)]
        ELSE mem[TableAt(mem, s.handle[h].at, i)]

\* toObject() or toArray() of an element, for a handle t: what it points to.
Target(s, h, v, t) ==
    IF v.type = (IF t \in Objects THEN "Object" ELSE "Array")
    THEN [d |-> s.handle[h].d, at |-> s.handle[h].at + v.value] ELSE Nothing

\* t = h.value(key).toObject(), t = h.at(i).toArray(), ...
Extracted(s, h, i, t) ==
    LET x == Target(s, h, ElementAt(s, h, i), t) IN Assigned(s, t, x.d, x.at)

\* t = h.take(key).toObject(): a container that is taken holds the block, so
\* that the handle leaves it.
Taken(s, h, i, t) ==
    LET v == ElementAt(s, h, i)
        held == IF IsContainer(v) THEN s.handle[h].d ELSE NoBlock
        x == Target(s, h, v, t)
    IN  Deref(Assigned(RemovedAt(Ref(s, held), h, i), t, x.d, x.at), held)

-----------------------------------------------------------------------------
(* QJsonDocument *)

\* setObject and setArray: a root that did not change is shared, anything else
\* is copied.
SetFrom(s, doc, h) ==
    LET x == s.handle[h]
        b == BlockOf(s, h)
        shared == x.at = Root /\ b.compactionCounter = 0
        isObject == h \in Objects
        wrong == (IF b.mem[x.at].is_object # isObject THEN {"EmptyObjectIsArray"} ELSE {})
                 \cup (IF x.at = Root /\ ~shared THEN CompactionDefects(b.mem, Root, isObject)
                       ELSE {})
    IN  CASE x.d = NoBlock -> Given(s, doc, NewBlock(isObject, 0))
          [] x.d # NoBlock /\ wrong # {} -> [s EXCEPT !.defects = @ \cup wrong]
          [] OTHER -> IF shared THEN Assigned(s, doc, x.d, Root)
                      ELSE Given(s, doc, CompactBlock(Clone(b, x.at, 0)))

\* object() and array(): nothing if the document holds the other.
RootFor(s, doc, t) ==
    IF s.handle[doc].d # NoBlock /\ BlockOf(s, doc).mem[Root].is_object = (t \in Objects)
    THEN Assigned(s, t, s.handle[doc].d, Root) ELSE Assigned(s, t, NoBlock, Root)

\* fromBinaryData(toBinaryData()): the bytes of the root, if they pass valid().
Rebinarized(s, doc, other) ==
    LET b == BlockOf(s, doc)
        copy == Block(HeaderSize + b.mem[Root].size, 0, Cloned(b.mem, Root))
    IN  IF s.handle[doc].d = NoBlock \/ ~Valid(copy.mem) THEN Assigned(s, other, NoBlock, Root)
        ELSE Given(s, other, copy)

\* detach() in the first insertion makes the block, in a later one lets it grow.
Grown(b, isObject, reserve) ==
    CASE b.mem[Root].length = 0 -> NewBlock(isObject, reserve)
      [] b.mem[Root].length > 0 /\ Stays(b, Root, reserve) -> b
      [] OTHER -> Clone(b, Root, reserve)

FirstKey(keys) == CHOOSE k \in keys : \A l \in keys \ {k} : Precedes(k, l)

\* fromVariantMap and fromVariantList put in one value after the other.
RECURSIVE BuiltObject(_, _, _), BuiltArray(_, _, _)
BuiltSource(v) ==
    CASE v.type = "Object" /\ DOMAIN v.members # {} ->
            BuiltObject(v.members, DOMAIN v.members, NewBlock(TRUE, 0)).mem
      [] v.type = "Array" /\ v.items # <<>> -> BuiltArray(v.items, 1, NewBlock(FALSE, 0)).mem
      [] OTHER -> EmptyBase

BuiltObject(members, keys, b) ==
    IF keys = {} THEN b
    ELSE LET k == FirstKey(keys)
             v == members[k]
             g == Grown(b, TRUE, EntrySpace(k, v, BuiltSource(v)) + 4)
         IN  BuiltObject(members, keys \ {k},
                         [g EXCEPT !.mem = MemberPut(@, k, v, BuiltSource(v))])

BuiltArray(items, i, b) ==
    IF i > Len(items) THEN b
    ELSE LET v == items[i]
             g == Grown(b, FALSE, RequiredStorage(v, BuiltSource(v)) + 4)
         IN  BuiltArray(items, i + 1,
                        [g EXCEPT !.mem = ItemPut(@, Root, i - 1, v, BuiltSource(v), FALSE)])

\* fromVariant(toVariant())
Rebuilt(s, doc, other) ==
    LET mem == BlockOf(s, doc).mem
        new == NewBlock(mem[Root].is_object, 0)
    IN  CASE s.handle[doc].d = NoBlock -> Assigned(s, other, NoBlock, Root)
          [] s.handle[doc].d # NoBlock /\ mem[Root].is_object ->
                LET m == ReadObject(mem, Root) IN Given(s, other, BuiltObject(m, DOMAIN m, new))
          [] OTHER -> Given(s, other, BuiltArray(ReadArray(mem, Root), 1, new))

-----------------------------------------------------------------------------
(* The program *)

\* isObject() and isArray(), object() and array(), and all that they hold.
ValueIn(s, h) ==
    LET x == s.handle[h]
        mem == BlockOf(s, h).mem
    IN  CASE x.d = NoBlock ->
                IF h \in Objects THEN ObjectValue(<<>>)
                ELSE IF h \in Arrays THEN ArrayValue(<<>>) ELSE NullValue
          [] x.d # NoBlock /\ (h \in Objects \/ (h \in Documents /\ mem[Root].is_object)) ->
                ObjectValue(ReadObject(mem, x.at))
          [] OTHER -> ArrayValue(ReadArray(mem, x.at))

Init ==
    /\ blocks = <<>>
    /\ handle = [h \in Handles |-> Nothing]
    /\ defects = {}
    /\ input \in [text : Inputs, agrees : KeysAgree, error : {Unread}]
    /\ calls = 0
    /\ value = [h \in Handles |-> ValueIn(State, h)]
    /\ call = <<"none">>

Becomes(s) ==
    /\ blocks' = s.blocks
    /\ handle' = s.handle
    /\ defects' = s.defects
    /\ value' = IF s.defects = {} THEN [h \in Handles |-> ValueIn(s, h)] ELSE value

\* fromJson, for a document, or for its object or array at once: the document
\* is then dropped.
Taking(s, h, block) ==
    IF h \notin Documents /\ block.mem[Root].is_object # (h \in Objects) THEN s
    ELSE Given(s, h, block)

ReadText(h) ==
    /\ input.error = Unread /\ (h \in Documents \/ input.text \in Seeds)
    /\ \E p \in {Parse(input.text, input.agrees)} :
          LET twice == ~input.agrees /\ p.alloc # Parse(input.text, TRUE).alloc
          IN  /\ Becomes([IF p.error = NoError THEN Taking(State, h, Block(p.alloc, 0, p.mem))
                          ELSE State EXCEPT !.defects = IF twice THEN {"KeyTwice"} ELSE {}])
              /\ input' = [input EXCEPT !.error = p.error, !.agrees = TRUE]
    /\ call' = <<"read", h, input.text>>
    /\ UNCHANGED calls

\* The text has been read, and nothing has gone wrong yet.
GoesOn ==
    /\ input.error # Unread /\ defects = {}
    /\ input.text \in Seeds /\ calls < MaxCalls[input.text]

Call(c, s) ==
    /\ GoesOn
    /\ call' = c
    /\ calls' = calls + 1
    /\ Becomes(s)
    /\ UNCHANGED input

Containers == Objects \cup Arrays

Values == Scalars \cup {HandleValue(h) : h \in Containers}

InsertMember(h, key, v) == Call(<<"insert", h, key, v>>, Inserted(State, h, key, v))

RemoveMember(h, key) == Call(<<"remove", h, key>>, Removed(State, h, key))

TakeMember(h, key, t) ==
    Call(<<"take", h, key, t>>, IF Has(State, h, key) THEN Taken(State, h, IndexIn(State, h, key), t)
         ELSE Assigned(State, t, NoBlock, Root))

MemberOf(h, key, t) ==
    Call(<<"value", h, key, t>>, IF Has(State, h, key) THEN Extracted(State, h, IndexIn(State, h, key), t)
         ELSE Assigned(State, t, NoBlock, Root))

\* The index that the side worked out first gives is stale once the other side
\* puts in a member before it, and no index at all where there is no room for
\* the member.
AssignedMember(first, both, h, key, other, leftFirst) ==
    LET i == IndexIn(IF leftFirst THEN first ELSE both, h, key)
        j == IndexIn(IF leftFirst THEN both ELSE first, h, other)
        wrong == IF ~Has(both, h, key) \/ ~Has(both, h, other) THEN {"NoIndex"}
                 ELSE IF i # IndexIn(both, h, key) \/ j # IndexIn(both, h, other) THEN {"StaleIndex"}
                 ELSE {}
        x == both.handle[h]
        mem == BlockOf(both, h).mem
    IN  IF wrong # {} THEN [both EXCEPT !.defects = @ \cup wrong]
        ELSE Inserted(both, h, KeyAt(mem, x.at, i), ReadValue(mem, x.at, ElementAt(both, h, j)))

\* h[key] = h[other], where either side may be worked out first.
AssignMember(h, key, other, leftFirst) ==
    /\ GoesOn
    /\ Has(State, h, other) => ~IsContainer(ElementAt(State, h, IndexIn(State, h, other)))
    /\ \E first \in {Indexed(State, h, IF leftFirst THEN key ELSE other)} :
          \E both \in {Indexed(first, h, IF leftFirst THEN other ELSE key)} :
             Call(<<"assign", h, key, other>>, AssignedMember(first, both, h, key, other, leftFirst))

InsertItem(h, i, v) == i <= LengthOf(State, h) /\ Call(<<"insertAt", h, i, v>>, PutItem(State, h, i, v, FALSE))

ReplaceItem(h, i, v) == i < LengthOf(State, h) /\ Call(<<"replace", h, i, v>>, PutItem(State, h, i, v, TRUE))

RemoveItem(h, i) == i < LengthOf(State, h) /\ Call(<<"removeAt", h, i>>, RemovedAt(State, h, i))

TakeItem(h, i, t) == i < LengthOf(State, h) /\ Call(<<"takeAt", h, i, t>>, Taken(State, h, i, t))

ItemOf(h, i, t) == i < LengthOf(State, h) /\ Call(<<"at", h, i, t>>, Extracted(State, h, i, t))

Copy(h, t) == Call(<<"copy", h, t>>, Assigned(State, t, handle[h].d, handle[h].at))

Clear(h) == Call(<<"clear", h>>, Assigned(State, h, NoBlock, Root))

SetRoot(doc, h) == Call(<<"copy", h, doc>>, SetFrom(State, doc, h))

RootOf(doc, t) == Call(<<"copy", doc, t>>, RootFor(State, doc, t))

CopyBinary(doc, other) == Call(<<"copy", doc, other>>, Rebinarized(State, doc, other))

CopyVariant(doc, other) == Call(<<"copy", doc, other>>, Rebuilt(State, doc, other))

Places == 0..3

Next ==
    \/ \E h \in Handles : ReadText(h)
    \/ \E h \in Objects, key \in Keys :
          \/ \E v \in Values : InsertMember(h, key, v)
          \/ RemoveMember(h, key)
          \/ \E t \in Containers : TakeMember(h, key, t) \/ MemberOf(h, key, t)
          \/ \E other \in Keys \ {key}, leftFirst \in BOOLEAN : AssignMember(h, key, other, leftFirst)
    \/ \E h \in Arrays, i \in Places :
          \/ \E v \in Values : InsertItem(h, i, v) \/ ReplaceItem(h, i, v)
          \/ RemoveItem(h, i)
          \/ \E t \in Containers : TakeItem(h, i, t) \/ ItemOf(h, i, t)
    \/ \E S \in {Objects, Arrays, Documents} : \E h \in S : \E t \in S \ {h} : Copy(h, t)
    \/ \E h \in Handles : Clear(h)
    \/ \E doc \in Documents :
          \/ \E h \in Containers : SetRoot(doc, h) \/ RootOf(doc, h)
          \/ \E other \in Documents : CopyBinary(doc, other) \/ CopyVariant(doc, other)

Spec == Init /\ [][Next]_vars

-----------------------------------------------------------------------------
(* Properties *)

Text == INSTANCE JsonText

\* The parser takes a text if and only if the text means something and is not
\* nested too deep or too large, and then the document holds what the text means: the binary
\* form is written in one pass, with tables behind the data that they list, and
\* read back through the offsets.  Two things that the grammar does not have are
\* read for what they are short for: a number without figures at one side of its
\* point (a test has 1.e+308), and a control character in a string.  That they
\* are read at all is against TextsAreReadAsSaid.
ParsedAsMeant ==
    input.error # Unread /\ calls = 0 /\ defects = {} =>
        LET meaning == Text!Meaning(Text!Completed(input.text))
        IN  IF input.error = NoError
            THEN \A h \in Handles : handle[h].d # NoBlock => value[h] = meaning
            ELSE \/ meaning = Text!NoMeaning \/ Text!Depth(input.text) > NestingLimit
                 \/ input.error = "DocumentTooLarge" /\ 8 * Len(input.text) > MaxSize

\* A block counts the handles that point to it, is there as long as one does, and
\* no longer; and nothing lies beyond the memory that it has, however it was made
\* and however often it was written in place.
BlocksAreOwned ==
    /\ \A h \in Handles : handle[h].d \in DOMAIN blocks \cup {NoBlock}
    /\ \A d \in DOMAIN blocks :
           /\ blocks[d].ref = Cardinality({h \in Handles : handle[h].d = d})
           /\ blocks[d].ref > 0
           /\ HeaderSize + blocks[d].mem[Root].size <= blocks[d].alloc
           /\ \A x \in DOMAIN blocks[d].mem : x < blocks[d].alloc

RECURSIVE KeysOrdered(_, _, _)
KeysOrdered(mem, base, isObject) ==
    LET n == mem[base].length
        element(i) == IF isObject THEN mem[EntryAt(mem, base, i)] ELSE mem[TableAt(mem, base, i)]
    IN  /\ isObject => \A i \in 1..(n - 1) :
                           Precedes(KeyAt(mem, base, i - 1), KeyAt(mem, base, i))
        /\ \A i \in 0..(n - 1) : IsContainer(element(i)) =>
               KeysOrdered(mem, base + element(i).value, element(i).type = "Object")

\* What every handle points to passes the validation that binary data from
\* outside must pass, and its keys are in order and different, as the binary
\* search for them needs it.
DataIsValid ==
    defects = {} => \A h \in Handles :
        LET x == handle[h]
            mem == blocks[x.d].mem
            isObject == IF h \in Documents THEN mem[Root].is_object ELSE h \in Objects
        IN  x.d # NoBlock => ValidBase(mem, x.at, isObject) /\ KeysOrdered(mem, x.at, isObject)

\* A text that is taken is one of the grammar that the parser's comments give:
\* figures on both sides of a point, and no control characters in strings; and
\* its object has a key once, however often the text has it, as the test of
\* duplicate keys says.
TextsAreReadAsSaid ==
    input.error = NoError /\ calls = 0 =>
        /\ Text!HalfPoints(input.text) = {}
        /\ Text!Controls(input.text) = {}
        /\ \A d \in DOMAIN blocks : KeysOrdered(blocks[d].mem, Root, blocks[d].mem[Root].is_object)

\* After any calls on handles that share blocks, each of which may move data
\* and tables in place, clone a block or compact it, no block is lost, freed
\* too early or overrun, and all data can still be read.
MemoryIsSound == BlocksAreOwned /\ DataIsValid

\* A string that the writer can write: surrogates in pairs, no non-characters.
IsWritable(s) ==
    \A i \in DOMAIN s :
        /\ s[i] \in HighSurrogates => i < Len(s) /\ s[i + 1] \in LowSurrogates
        /\ s[i] \in LowSurrogates => i > 1 /\ s[i - 1] \in HighSurrogates
        /\ ~IsNonCharacter(s[i])

RECURSIVE AllWritable(_)
AllWritable(v) ==
    CASE v.type = "String" -> IsWritable(v.text)
      [] v.type = "Array" -> \A i \in DOMAIN v.items : AllWritable(v.items[i])
      [] v.type = "Object" -> \A k \in DOMAIN v.members : IsWritable(k) /\ AllWritable(v.members[k])
      [] OTHER -> TRUE

\* A text, read as p, stands for the value v.
ReadsAs(text, p, v) ==
    /\ p.error # NoError => Text!Depth(text) > NestingLimit \/ 8 * Len(text) > MaxSize
    /\ p.error = NoError =>
           v = IF p.mem[Root].is_object THEN ObjectValue(ReadObject(p.mem, Root))
               ELSE ArrayValue(ReadArray(p.mem, Root))

\* The text that a document is written as, compact or indented, is one that the
\* parser reads to the same document again, whatever calls made the document,
\* unless it is nested deeper or larger than the parser takes it.
WrittenTextReadsBack ==
    defects = {} => \A doc \in Documents, compact \in BOOLEAN :
        handle[doc].d # NoBlock /\ AllWritable(value[doc]) =>
            \A text \in {ToJson(blocks[handle[doc].d].mem, compact)} :
               ReadsAs(text, Parse(text, TRUE), value[doc])

Meaning == [text \in Seeds |-> Text!Meaning(text)]

Abstract == INSTANCE JsonValues

\* The handle's block has no room for so much more.
IsFull(h, space) ==
    /\ handle'[h].d # NoBlock
    /\ TooLarge(blocks'[handle'[h].d].mem, handle'[h].at, space)

\* A call that changes nothing, since what it puts in finds no room.
IsRefused ==
    /\ value' = value
    /\ CASE call'[1] = "insert" ->
              IsFull(call'[2], EntrySpace(call'[3], call'[4], Source(State, call'[4])))
         [] call'[1] \in {"insertAt", "replace"} ->
              IsFull(call'[2], RequiredStorage(call'[4], Source(State, call'[4])))
         [] call'[1] = "assign" ->
              IsFull(call'[2], EntrySpace(call'[3], value[call'[2]].members[call'[4]], EmptyBase))
         [] OTHER -> FALSE

\* The sharing does not show: each object, array and document of the program
\* behaves as a value by itself, which only the calls on it change, and they do
\* to it what they say, until a defect is met.  Only what is too large is refused,
\* and then nothing changes.
HandlesAreValues ==
    /\ Abstract!Init
    /\ [][defects' = {} /\ input.text \in Seeds =>
              Abstract!Next \/ IsRefused]_vars

=============================================================================
