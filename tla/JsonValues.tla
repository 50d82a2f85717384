------------------------------ MODULE JsonValues ------------------------------
(***************************************************************************)
(* What the program may think of its objects, arrays and documents: each   *)
(* variable of it is a value of JSON by itself, and a call changes the     *)
(* variable that it names, as it says, and no other.  `call` is the call   *)
(* that was made last: its name, the variable that it was made on, and its *)
(* arguments.                                                              *)
(***************************************************************************)
EXTENDS JsonLayout

CONSTANTS
    Objects, Arrays, Documents,   \* the variables of the program, by their class
    Keys, Scalars, Places,        \* keys, plain values, and indices of items
    Meaning                       \* what the texts that are read mean

VARIABLES value, call

Containers == Objects \cup Arrays

Variables == Containers \cup Documents

Default(t) ==
    CASE t \in Objects -> ObjectValue(<<>>) [] t \in Arrays -> ArrayValue(<<>>) [] OTHER -> NullValue

NoCall == <<"none">>

Init == value = [h \in Variables |-> Default(h)] /\ call = NoCall

\* A value, as a variable of the class of t takes it.
As(t, v) == IF t \in Documents \/ v.type = Default(t).type THEN v ELSE Default(t)

\* The value of an argument, which may be a variable itself.
Argument(v) == IF v \in Scalars THEN v ELSE value[v.from]

Arguments == Scalars \cup {[type |-> Default(h).type, from |-> h] : h \in Containers}

Undefined == [type |-> "Undefined"]

Stored(v) == IF v = Undefined THEN NullValue ELSE v

Is(c) == call' = c

Becomes(h, v) == value' = [value EXCEPT ![h] = v]

BothBecome(h, v, t, w) == value' = [value EXCEPT ![h] = v, ![t] = w]

Read(h, text) == Is(<<"read", h, text>>) /\ Becomes(h, As(h, Meaning[text]))

-----------------------------------------------------------------------------
(* Objects *)

Members(h) == value[h].members

With(members, key, v) == (key :> v) @@ members

Without(members, key) == [k \in DOMAIN members \ {key} |-> members[k]]

Member(h, key) == IF key \in DOMAIN Members(h) THEN Members(h)[key] ELSE Undefined

Insert(h, key, v) ==
    /\ Is(<<"insert", h, key, v>>)
    /\ Becomes(h, ObjectValue(IF v = Undefined THEN Without(Members(h), key)
                              ELSE With(Members(h), key, Argument(v))))

Remove(h, key) == Is(<<"remove", h, key>>) /\ Becomes(h, ObjectValue(Without(Members(h), key)))

Take(h, key, t) ==
    /\ Is(<<"take", h, key, t>>)
    /\ BothBecome(h, ObjectValue(Without(Members(h), key)), t, As(t, Member(h, key)))

Extract(h, key, t) == Is(<<"value", h, key, t>>) /\ Becomes(t, As(t, Member(h, key)))

\* h[key] = h[other] makes a member of what is missing.
Assign(h, key, other) ==
    LET v == Stored(Member(h, other))
    IN  /\ Is(<<"assign", h, key, other>>)
        /\ Becomes(h, ObjectValue(With(With(Members(h), other, v), key, v)))

-----------------------------------------------------------------------------
(* Arrays *)

Items(h) == value[h].items

InsertAt(h, i, v) ==
    /\ Is(<<"insertAt", h, i, v>>) /\ i <= Len(Items(h))
    /\ Becomes(h, ArrayValue(SubSeq(Items(h), 1, i) \o <<Stored(Argument(v))>>
                              \o SubSeq(Items(h), i + 1, Len(Items(h)))))

Replace(h, i, v) ==
    /\ Is(<<"replace", h, i, v>>) /\ i < Len(Items(h))
    /\ Becomes(h, ArrayValue([Items(h) EXCEPT ![i + 1] = Stored(Argument(v))]))

Cut(items, i) == SubSeq(items, 1, i) \o SubSeq(items, i + 2, Len(items))

TakeAt(h, i, t) ==
    /\ Is(<<"takeAt", h, i, t>>) /\ i < Len(Items(h))
    /\ BothBecome(h, ArrayValue(Cut(Items(h), i)), t, As(t, Items(h)[i + 1]))

RemoveAt(h, i) ==
    Is(<<"removeAt", h, i>>) /\ i < Len(Items(h)) /\ Becomes(h, ArrayValue(Cut(Items(h), i)))

ExtractAt(h, i, t) ==
    Is(<<"at", h, i, t>>) /\ i < Len(Items(h)) /\ Becomes(t, As(t, Items(h)[i + 1]))

-----------------------------------------------------------------------------

\* operator=, and what a document or its root is made of.
Copy(h, t) == Is(<<"copy", h, t>>) /\ Becomes(t, As(t, value[h]))

Clear(h) == Is(<<"clear", h>>) /\ Becomes(h, Default(h))

Next ==
    \/ \E h \in Variables, text \in DOMAIN Meaning : Read(h, text)
    \/ \E h \in Objects, key \in Keys :
          \/ \E v \in Arguments : Insert(h, key, v)
          \/ Remove(h, key)
          \/ \E t \in Containers : Take(h, key, t) \/ Extract(h, key, t)
          \/ \E other \in Keys \ {key} : Assign(h, key, other)
    \/ \E h \in Arrays, i \in Places :
          \/ \E v \in Arguments : InsertAt(h, i, v) \/ Replace(h, i, v)
          \/ RemoveAt(h, i)
          \/ \E t \in Containers : TakeAt(h, i, t) \/ ExtractAt(h, i, t)
    \/ \E h, t \in Variables : Copy(h, t)
    \/ \E h \in Variables : Clear(h)

Spec == Init /\ [][Next]_<<value, call>>

=============================================================================
