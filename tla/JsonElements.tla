---------------------------- MODULE JsonElements ----------------------------
(***************************************************************************)
(* Iterators, element access and modifiers of json.hpp.                    *)
(*                                                                         *)
(* An iterator is <<owner, at>>: the variable it belongs to and a number,  *)
(* counted from 0, of an element of an array, of a member of an object in  *)
(* the order of keys, or of the one value of any other type, which is at 0 *)
(* and ends at 1.  What the code leaves undefined (dereferencing an end,   *)
(* moving outside a container) is for the caller to avoid.                 *)
(*                                                                         *)
(* An operation that changes a value gives back the value it leaves, the   *)
(* number of its exception, 0 for none, and its result.                    *)
(***************************************************************************)
EXTENDS JsonValue

Done(v, result) == [error |-> 0, value |-> v, result |-> result]
Refused(v, id)  == [error |-> id, value |-> v, result |-> 0]

(* -- Capacity and iterators --------------------------------------------- *)

Size(v) ==
  CASE IsNull(v)   -> 0
    [] IsArray(v)  -> Len(v[2])
    [] IsObject(v) -> Cardinality(DOMAIN v[2])
    [] OTHER       -> 1
Empty(v) == Size(v) = 0
Primitive(v) == ~IsStructured(v) /\ ~IsNull(v) /\ v # Discarded

\* Null begins at its end.
Begin(v) == IF IsNull(v) THEN 1 ELSE 0
End(v)   == IF IsStructured(v) THEN Size(v) ELSE 1

KeyAt(v, at) == Keys(v[2])[at + 1]

Deref(v, at) ==
  CASE IsArray(v)  -> Ok(v[2][at + 1])
    [] IsObject(v) -> Ok(v[2][KeyAt(v, at)])
    [] ~IsStructured(v) /\ ~IsNull(v) /\ at = 0 -> Ok(v)
    [] OTHER       -> Throw(214)

\* operator[] of an iterator: of a primitive value it asks for the offset
\* that leads back to its beginning.
DerefOffset(v, at, n) ==
  CASE IsObject(v) -> Throw(208)
    [] IsArray(v)  -> Deref(v, at + n)
    [] ~IsStructured(v) /\ ~IsNull(v) /\ at = -n -> Ok(v)
    [] OTHER       -> Throw(214)

IteratorKey(v, at) == IF IsObject(v) THEN Ok(KeyAt(v, at)) ELSE Throw(207)

Advance(v, at, n)   == IF IsObject(v) THEN Throw(209) ELSE Ok(at + n)
Distance(v, at, to) == IF IsObject(v) THEN Throw(209) ELSE Ok(to - at)

SameIterator(i, j) == IF i[1] # j[1] THEN Throw(212) ELSE Ok(i[2] = j[2])
Before(v, i, j) ==
  CASE i[1] # j[1] -> Throw(212)
    [] i[1] = j[1] /\ IsObject(v) -> Throw(213)
    [] OTHER       -> Ok(i[2] < j[2])

\* The elements in order, and in the order of the reverse iterators, each of
\* which shows the element before its base.
Forward(v)  == [i \in 1 .. End(v) - Begin(v) |-> Deref(v, Begin(v) + i - 1).value]
Backward(v) == [i \in 1 .. End(v) - Begin(v) |-> Deref(v, End(v) - i).value]

(* -- Construction ------------------------------------------------------- *)

\* A brace list: an object when every element is a pair that starts with a
\* string, the first of two equal keys staying.
IsPair(e) == IsArray(e) /\ Len(e[2]) = 2 /\ IsString(e[2][1])
FromList(list) ==
  IF \A i \in DOMAIN list : IsPair(list[i])
  THEN Obj([k \in {list[i][2][1][2] : i \in DOMAIN list} |->
              list[CHOOSE i \in DOMAIN list :
                     /\ list[i][2][1][2] = k
                     /\ \A j \in 1 .. i - 1 : list[j][2][1][2] # k][2][2]])
  ELSE Arr(list)
AsArray(list)  == Ok(Arr(list))
AsObject(list) ==
  IF \A i \in DOMAIN list : IsPair(list[i]) THEN Ok(FromList(list)) ELSE Throw(301)

\* A value from the range between two iterators of v.
FromRange(v, first, last) ==
  IF first[1] # last[1] THEN Throw(201)
  ELSE CASE IsArray(v)  -> Ok(Arr(SubSeq(v[2], first[2] + 1, last[2])))
         [] IsObject(v) ->
              Ok(Obj([k \in {KeyAt(v, i) : i \in first[2] .. last[2] - 1} |-> v[2][k]]))
         [] Primitive(v) -> IF first[2] = 0 /\ last[2] = 1 THEN Ok(v) ELSE Throw(204)
         [] OTHER       -> Throw(206)

(* -- Element access ----------------------------------------------------- *)

At(v, i) ==
  CASE ~IsArray(v) -> Throw(304)
    [] IsArray(v) /\ i >= Len(v[2]) -> Throw(401)
    [] OTHER       -> Ok(v[2][i + 1])

AtKey(v, k) ==
  CASE ~IsObject(v) -> Throw(304)
    [] IsObject(v) /\ k \notin DOMAIN v[2] -> Throw(403)
    [] OTHER        -> Ok(v[2][k])

\* operator[] of a value that is not constant makes a container of null and
\* the element asked for; what is assigned to it replaces it.
GrownAnew(s, i) == IF i < Len(s) THEN s ELSE [j \in 1 .. i + 1 |-> Null]    \* faulty
Grown(s, i) == IF i < Len(s) THEN s ELSE s \o [j \in 1 .. i + 1 - Len(s) |-> Null]
AssignIndex(v, i, new) ==
  IF IsNull(v) \/ IsArray(v)
  THEN Done(Arr([Grown(IF IsNull(v) THEN <<>> ELSE v[2], i) EXCEPT ![i + 1] = new]), 0)
  ELSE Refused(v, 305)

\* The members, none of null, and those with another one.
MembersOf(v) == IF IsNull(v) THEN EmptyFunction ELSE v[2]
WithMember(f, k, x) == [j \in DOMAIN f \cup {k} |-> IF j = k THEN x ELSE f[j]]

AssignKey(v, k, new) ==
  IF IsNull(v) \/ IsObject(v)
  THEN Done(Obj(WithMember(MembersOf(v), k, new)), 0)
  ELSE Refused(v, 305)

Find(v, k) ==
  IF IsObject(v) /\ k \in DOMAIN v[2]
  THEN CHOOSE i \in 0 .. Size(v) - 1 : KeyAt(v, i) = k
  ELSE End(v)
Count(v, k) == IF IsObject(v) /\ k \in DOMAIN v[2] THEN 1 ELSE 0

ValueOr(v, k, default) ==
  CASE ~IsObject(v) -> Throw(306)
    [] IsObject(v) /\ Find(v, k) # End(v) -> Deref(v, Find(v, k))
    [] OTHER        -> Ok(default)

FrontOf(v) == Deref(v, Begin(v))
BackOf(v)  == Deref(v, End(v) - 1)

(* -- Modifiers ---------------------------------------------------------- *)

Cut(s, from, to) == SubSeq(s, 1, from) \o SubSeq(s, to + 1, Len(s))
Splice(s, at, t) == SubSeq(s, 1, at) \o t \o SubSeq(s, at + 1, Len(s))

\* Erasing what an iterator points to gives the iterator behind it; a
\* primitive value becomes null.  The end of the value is taken before.
EraseAt(v, me, pos) ==
  IF pos[1] # me THEN Refused(v, 202)
  ELSE CASE Primitive(v) -> IF pos[2] = 0 THEN Done(Null, End(v)) ELSE Refused(v, 205)
         [] IsObject(v) ->
              Done(Obj([k \in DOMAIN v[2] \ {KeyAt(v, pos[2])} |-> v[2][k]]), pos[2])
         [] IsArray(v)  -> Done(Arr(Cut(v[2], pos[2], pos[2] + 1)), pos[2])
         [] OTHER       -> Refused(v, 307)

EraseRange(v, me, first, last) ==
  IF first[1] # me \/ last[1] # me THEN Refused(v, 203)
  ELSE CASE Primitive(v) -> IF first[2] = 0 /\ last[2] = 1 THEN Done(Null, End(v))
                            ELSE Refused(v, 204)
         [] IsObject(v) ->
              LET gone == {KeyAt(v, i) : i \in first[2] .. last[2] - 1}
              IN Done(Obj([k \in DOMAIN v[2] \ gone |-> v[2][k]]), first[2])
         [] IsArray(v)  -> Done(Arr(Cut(v[2], first[2], last[2])), first[2])
         [] OTHER       -> Refused(v, 307)

EraseKey(v, k) ==
  IF IsObject(v)
  THEN Done(Obj([j \in DOMAIN v[2] \ {k} |-> v[2][j]]), Count(v, k))
  ELSE Refused(v, 307)

EraseIndex(v, i) ==
  CASE ~IsArray(v) -> Refused(v, 307)
    [] IsArray(v) /\ i >= Size(v) -> Refused(v, 401)
    [] OTHER       -> Done(Arr(Cut(v[2], i, i + 1)), 0)

Clear(v) == IF IsNull(v) \/ v = Discarded THEN v ELSE OfType(v[1])

PushBack(v, x) ==
  IF IsNull(v) \/ IsArray(v)
  THEN Done(Arr(Append(IF IsNull(v) THEN <<>> ELSE v[2], x)), 0)
  ELSE Refused(v, 308)

\* A member is inserted only under a new key.
PushBackMember(v, k, x) ==
  IF IsNull(v) \/ IsObject(v)
  THEN LET f == MembersOf(v)
       IN Done(Obj(IF k \in DOMAIN f THEN f ELSE WithMember(f, k, x)), 0)
  ELSE Refused(v, 308)

\* A brace list of a string and a value is a member to an object.
PushBackList(v, list) ==
  IF IsObject(v) /\ Len(list) = 2 /\ IsString(list[1])
  THEN PushBackMember(v, list[1][2], list[2])
  ELSE PushBack(v, FromList(list))

EmplaceBack(v, x) ==
  IF IsNull(v) \/ IsArray(v) THEN PushBack(v, x) ELSE Refused(v, 311)

\* The iterator to the member under the key, and whether it is new.
Emplace(v, k, x) ==
  IF IsNull(v) \/ IsObject(v)
  THEN LET r == PushBackMember(v, k, x)
       IN Done(r.value, <<Find(r.value, k), Count(v, k) = 0>>)
  ELSE Refused(v, 311)

\* Faulty variant: the iterator points behind what was inserted.
InsertListBehind(v, me, pos, list) ==
  CASE ~IsArray(v) -> Refused(v, 309)
    [] IsArray(v) /\ pos[1] # me -> Refused(v, 202)
    [] OTHER       -> Done(Arr(Splice(v[2], pos[2], list)), pos[2] + Len(list))

InsertList(v, me, pos, list) ==
  CASE ~IsArray(v) -> Refused(v, 309)
    [] IsArray(v) /\ pos[1] # me -> Refused(v, 202)
    [] OTHER       -> Done(Arr(Splice(v[2], pos[2], list)), pos[2])

InsertOne(v, me, pos, x)       == InsertList(v, me, pos, <<x>>)
InsertCopies(v, me, pos, n, x) == InsertList(v, me, pos, [i \in 1 .. n |-> x])

\* The range is one of the array other.
InsertRange(v, me, pos, other, first, last) ==
  IF ~IsArray(v) \/ pos[1] # me THEN Refused(v, IF IsArray(v) THEN 202 ELSE 309)
  ELSE CASE first[1] # last[1] -> Refused(v, 210)
         [] first[1] = last[1] /\ first[1] = me -> Refused(v, 211)
         [] OTHER ->
              Done(Arr(Splice(v[2], pos[2], SubSeq(other[2], first[2] + 1, last[2]))), pos[2])

\* Exchanging what a value holds with a container of the type t; the result
\* is what the container holds then.
SwapWith(v, t, held) ==
  IF v[1] = t THEN Done(<<t, held>>, v[2]) ELSE Refused(v, 310)
=============================================================================
