---------------------------- MODULE JsonContainer ----------------------------
(***************************************************************************)
(* A variable of type json (json.hpp) and a program that changes it in     *)
(* every way the library offers for elements and members: assignment,      *)
(* element access, modifiers and iterators.                                *)
(***************************************************************************)
EXTENDS JsonElements

CONSTANTS
    Samples,        \* values the variable starts with
    Items,          \* values assigned to it and put into containers
    Names,          \* member names
    MaxIndex,       \* the largest index asked for (a bound)
    InBounds(_)     \* the values that are not too large (a bound)

\* An array holds a sequence, an object finitely many members under names of
\* bytes, a string bytes.
IsSequence(s) == Len(s) \in Nat /\ s = [i \in 1 .. Len(s) |-> s[i]]
Shaped(v) ==
    /\ IsArray(v)  => IsSequence(v[2])
    /\ IsObject(v) => IsFiniteSet(DOMAIN v[2]) /\ DOMAIN v[2] \subseteq Seq(Byte)
    /\ IsString(v) => v[2] \in Seq(Byte)

ASSUME MaxIndexAssumption == MaxIndex \in Nat
ASSUME NamesAssumption == Names \subseteq Seq(Byte)
ASSUME ItemsAssumption ==
    \A x \in Samples \cup Items :
        Shaped(x) /\ (IsArray(x) => \A i \in DOMAIN x[2] : Shaped(x[2][i]))

VARIABLES
    doc,        \* the variable
    outcome     \* the operation last made, its exception and its result

docVars == <<doc, outcome>>

Outcome(op, error, result) == [op |-> op, error |-> error, result |-> result]

Here(at) == <<"doc", at>>

DocInit == doc \in Samples /\ outcome = Outcome("none", 0, 0)

\* What an operation leaves, unless it makes the value too large.
Change(op, r) ==
    /\ InBounds(r.value)
    /\ doc' = r.value
    /\ outcome' = Outcome(op, r.error, r.result)

-----------------------------------------------------------------------------
SetTo(x)          == doc' = x /\ outcome' = Outcome("change", 0, 0)
SetToList(list)   == Change("change", Done(FromList(list), 0))
SetToTyped(list)  ==
    \E r \in {AsArray(list), AsObject(list)} :
        Change("change", IF r.error # 0 THEN Refused(doc, r.error) ELSE Done(r.value, 0))
SetToRange(first, last) ==
    LET r == FromRange(doc, first, last)
    IN Change("change", IF r.error # 0 THEN Refused(doc, r.error) ELSE Done(r.value, 0))

SetIndex(i, x)    == Change("change", AssignIndex(doc, i, x))
SetKey(k, x)      == Change("change", AssignKey(doc, k, x))

Push(x)           == Change("change", PushBack(doc, x))
PushMember(k, x)  == Change("change", PushBackMember(doc, k, x))
PushList(list)    == Change("change", PushBackList(doc, list))
EmplaceLast(x)    == Change("change", EmplaceBack(doc, x))
EmplaceMember(k, x) == Change("emplace", Emplace(doc, k, x))

Erase(pos)          == Change("erase", EraseAt(doc, "doc", pos))
EraseFromTo(first, last) == Change("erase", EraseRange(doc, "doc", first, last))
EraseName(k)        == Change("change", EraseKey(doc, k))
EraseNumber(i)      == Change("change", EraseIndex(doc, i))
ClearAll            == Change("change", Done(Clear(doc), 0))

InsertElement(pos, x)   == Change("insert", InsertOne(doc, "doc", pos, x))
InsertElements(pos, n, x) == Change("insert", InsertCopies(doc, "doc", pos, n, x))
InsertAll(pos, list)    == Change("insert", InsertList(doc, "doc", pos, list))
InsertFrom(pos, other, first, last) ==
    Change("insert", InsertRange(doc, "doc", pos, other, first, last))

\* Swapping what the value holds with an array, an object or a string.
SwapHeld(x) == Change("change", SwapWith(doc, x[1], x[2]))

\* Iterators that may be dereferenced, and those that may be inserted before.
Elsewhere == <<"other", 0>>
Elements  == {Here(at) : at \in 0 .. End(doc) - 1} \cup {Elsewhere}
Positions == {Here(at) : at \in 0 .. End(doc)} \cup {Elsewhere}
Ranges    == {r \in Positions \X Positions : r[1][2] <= r[2][2]}

ElementsNext ==
    \/ \E x \in Items :
         \/ SetTo(x) \/ Push(x) \/ EmplaceLast(x)
         \/ \E i \in 0 .. MaxIndex : SetIndex(i, x)
         \/ \E k \in Names : SetKey(k, x) \/ PushMember(k, x) \/ EmplaceMember(k, x)
         \/ \E k \in Names :
              LET pair == <<Str(k), x>>
              IN SetToList(<<Arr(pair)>>) \/ SetToTyped(<<Arr(pair), x>>) \/ PushList(pair)
         \/ \E pos \in Positions :
              \/ InsertElement(pos, x) \/ InsertElements(pos, 2, x) \/ InsertAll(pos, <<x, Null>>)
         \/ IsStructured(x) /\ SwapHeld(x)
         \/ \E pos \in Positions, first \in {Here(0), Elsewhere} :
              IsArray(x) /\ InsertFrom(pos, x, first, <<"other", Size(x)>>)
    \/ \E pos \in IF Primitive(doc) THEN Positions ELSE Elements : Erase(pos)
    \/ \E r \in Ranges : EraseFromTo(r[1], r[2]) \/ (r[1][1] = "doc" /\ SetToRange(r[1], r[2]))
    \/ \E k \in Names : EraseName(k)
    \/ \E i \in 0 .. MaxIndex : EraseNumber(i)
    \/ ClearAll

ElementsSpec == DocInit /\ [][ElementsNext]_docVars

-----------------------------------------------------------------------------
(* Properties.                                                             *)

\* Iterators, at, operator[], find, value, front and back find the same elements, by
\* index or name, from either end, and what is nowhere is found by none of them.
ElementsAgree ==
    /\ Len(Forward(doc)) = Size(doc) /\ Backward(doc) = Reverse(Forward(doc))
    /\ ~Empty(doc) =>
         FrontOf(doc) = Ok(Head(Forward(doc))) /\ BackOf(doc) = Ok(Last(Forward(doc)))
    /\ \A i \in 1 .. Size(doc) :
         /\ IsArray(doc) =>
              /\ At(doc, i - 1) = Ok(Forward(doc)[i])
              /\ DerefOffset(doc, 0, i - 1) = At(doc, Distance(doc, 0, i - 1).value)
         /\ IsObject(doc) =>
              LET k == IteratorKey(doc, i - 1).value
              IN /\ AtKey(doc, k) = Ok(Forward(doc)[i]) /\ Find(doc, k) = i - 1
                 /\ ValueOr(doc, k, Discarded) = AtKey(doc, k)
    /\ \A k \in Names : (Find(doc, k) = End(doc)) = (Count(doc, k) = 0)

\* An operation on elements that throws leaves the value as it was.
FailureChangesNothing == [][outcome'.error # 0 => doc' = doc]_docVars

\* w holds the elements of v in their order, but for some from place at on.
Without(v, w, at) ==
    LET old == Forward(v)
        new == Forward(w)
    IN  /\ at \in 0 .. End(w)
        /\ SubSeq(new, 1, at) = SubSeq(old, 1, at)
        /\ SubSeq(new, at + 1, Len(new)) = SubSeq(old, at + 1 + Len(old) - Len(new), Len(old))

\* Erasing gives the iterator to what followed (from a primitive value, which
\* becomes null, its end), inserting the one to the first new element; what stood
\* before and behind stays in its order.  Emplacing gives the iterator to a member,
\* and tells whether there is one more now.
EraseAndInsertTellWhere ==
    [][LET at == outcome'.result
       IN  outcome'.error = 0 =>
             /\ outcome'.op = "erase" =>
                  IF IsNull(doc') THEN at = End(doc') ELSE Without(doc, doc', at)
             /\ outcome'.op = "insert" => Without(doc', doc, at)
             /\ outcome'.op = "emplace" =>
                  /\ at[1] \in 0 .. End(doc') - 1
                  /\ at[2] = (Len(Forward(doc')) > Len(Forward(doc)))]_docVars
=============================================================================
