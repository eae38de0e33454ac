---------------------------- MODULE JsonPointer ----------------------------
(***************************************************************************)
(* JSON pointers, flattening, patches and differences of json.hpp.  A      *)
(* pointer is the sequence of its reference tokens, each a sequence of     *)
(* bytes.                                                                  *)
(***************************************************************************)
EXTENDS JsonElements, JsonNumbers

Slash == 47
Tilde == 126
Dash  == <<45>>
ZeroToken == <<48>>

\* Exceptions of the standard library that the library lets through: stoi
\* without digits or with too many, insert of more elements than fit.
NoNumber == 901
NoInt    == 902
TooLong  == 903

(* -- Reference tokens --------------------------------------------------- *)

Escape(s) ==
  FlattenSeq([i \in DOMAIN s |-> CASE s[i] = Tilde -> <<Tilde, 48>>
                                   [] s[i] = Slash -> <<Tilde, 49>>
                                   [] OTHER        -> <<s[i]>>])

\* s.find and s.replace from left to right, of two bytes by one.
RECURSIVE ReplacePair(_, _, _)
ReplacePair(s, pair, c) ==
  CASE Len(s) < 2            -> s
    [] SubSeq(s, 1, 2) = pair -> <<c>> \o ReplacePair(SubSeq(s, 3, Len(s)), pair, c)
    [] OTHER                 -> <<Head(s)>> \o ReplacePair(Tail(s), pair, c)

\* Faulty variant: the other way round.
UnescapeTildeFirst(s) ==
  ReplacePair(ReplacePair(s, <<Tilde, 48>>, Tilde), <<Tilde, 49>>, Slash)

\* First ~1, then ~0, so that ~01 gives ~1.
Unescape(s) == ReplacePair(ReplacePair(s, <<Tilde, 49>>, Slash), <<Tilde, 48>>, Tilde)

WellEscaped(s) ==
  \A i \in DOMAIN s : s[i] = Tilde => i < Len(s) /\ s[i + 1] \in {48, 49}

\* The parts between slashes.
RECURSIVE Parts(_)
Parts(s) ==
  LET slashes == {i \in DOMAIN s : s[i] = Slash}
  IN IF slashes = {} THEN <<s>>
     ELSE LET i == CHOOSE i \in slashes : \A j \in slashes : i <= j
          IN <<SubSeq(s, 1, i - 1)>> \o Parts(SubSeq(s, i + 1, Len(s)))

Split(s) ==
  CASE s = <<>>        -> Ok(<<>>)
    [] Head(s) # Slash -> Throw(107)
    [] OTHER -> With(Parts(Tail(s)), LAMBDA tokens :
                  IF \E i \in DOMAIN tokens : ~WellEscaped(tokens[i]) THEN Throw(108)
                  ELSE Ok([i \in DOMAIN tokens |-> Unescape(tokens[i])]))

PointerText(path) == FlattenSeq([i \in DOMAIN path |-> <<Slash>> \o Escape(path[i])])

\* What is behind the first bytes, all in a set, and these bytes.
Behind(s, cs) ==
  With(SelectInSeq(s, LAMBDA c : c \notin cs),
       LAMBDA i : IF i = 0 THEN <<>> ELSE SubSeq(s, i, Len(s)))
UpToOther(s, cs) == SubSeq(s, 1, Len(s) - Len(Behind(s, cs)))
IntOf(ds, sign) ==
  CASE ds = <<>>   -> Throw(NoNumber)
    [] Len(ds) > 9 -> Throw(NoInt)
    [] OTHER       -> Ok(sign * FoldLeft(LAMBDA x, c : 10 * x + c - 48, 0, ds))
\* stoi: blanks and a sign are skipped, what follows the digits is ignored.
Stoi(s) ==
  With(Behind(s, {9, 10, 11, 12, 13, 32}), LAMBDA text :
    CASE text # <<>> /\ Head(text) = 43 -> IntOf(UpToOther(Tail(text), 48 .. 57), 1)
      [] text # <<>> /\ Head(text) = 45 -> IntOf(UpToOther(Tail(text), 48 .. 57), -1)
      [] OTHER -> IntOf(UpToOther(text, 48 .. 57), 1))

(* -- Access by pointer -------------------------------------------------- *)

LeadingZero(t) == Len(t) > 1 /\ Head(t) = 48
Digital(t)     == \A i \in DOMAIN t : t[i] \in 48 .. 57

\* The index a token names, for the code that looks for one.
IndexOfToken(t) ==
  With(Stoi(t), LAMBDA n : IF n.error = NoNumber THEN Throw(109) ELSE n)

\* at of an array under a token, which stoi turns into an index first; a
\* negative one is beyond every end.
AtToken(v, t) ==
  CASE t = Dash       -> Throw(402)
    [] LeadingZero(t) -> Throw(106)
    [] OTHER -> Then(IndexOfToken(t), LAMBDA n :
                  IF n.value < 0 THEN Throw(401) ELSE At(v, n.value))

\* get_checked, of constant and other values.
RECURSIVE GetChecked(_, _)
GetChecked(v, path) ==
  IF path = <<>> THEN Ok(v)
  ELSE Then(CASE IsObject(v) -> AtKey(v, Head(path))
              [] IsArray(v)  -> AtToken(v, Head(path))
              [] OTHER       -> Throw(404),
            LAMBDA r : GetChecked(r.value, Tail(path)))

\* get_unchecked of a constant value is the same but for the bounds, which
\* nobody checks: defined only where get_checked finds something or fails
\* before.
ConstAccess(v, path) == GetChecked(v, path)
ConstDefined(v, path) == GetChecked(v, path).error \notin {401, 403}

ValueAt(v, path, default) ==
  IF ~IsObject(v) THEN Throw(306)
  ELSE With(GetChecked(v, path),
            LAMBDA r : IF IsOutOfRange(r.error) THEN Ok(default) ELSE r)

\* The value once new stands where get_checked finds one.
RECURSIVE Put(_, _, _)
Put(v, path, new) ==
  CASE path = <<>>  -> new
    [] IsObject(v) -> Obj([v[2] EXCEPT ![Head(path)] = Put(@, Tail(path), new)])
    [] OTHER -> Arr([v[2] EXCEPT ![Stoi(Head(path)).value + 1] = Put(@, Tail(path), new)])

\* Assigning through get_unchecked: null becomes an array or an object on the
\* way, missing elements appear, and what happened before an exception stays.
RECURSIVE AssignAt(_, _, _)
AssignBelow(s, i, path, new) ==
  [AssignAt(s[i + 1], Tail(path), new) EXCEPT !.value = Arr(ReplaceAt(s, i + 1, @))]
AssignElement(v, n, path, new) ==
  CASE n.error # 0 -> Refused(v, n.error)
    [] n.value < 0 -> Refused(v, TooLong)
    [] OTHER       -> AssignBelow(Grown(v[2], n.value), n.value, path, new)
AssignStep(v, t, path, new) ==
  CASE IsObject(v) -> [AssignAt(IF t \in DOMAIN v[2] THEN v[2][t] ELSE Null, Tail(path), new)
                         EXCEPT !.value = Obj((t :> @) @@ v[2])]
    [] ~IsArray(v)    -> Refused(v, 404)
    [] LeadingZero(t) -> Refused(v, 106)
    [] OTHER -> AssignElement(v, IF t = Dash THEN Ok(Size(v)) ELSE IndexOfToken(t), path, new)
AssignAt(v, path, new) ==
  IF path = <<>> THEN Done(new, 0)
  ELSE AssignStep(
         CASE ~IsNull(v) -> v
           [] Digital(Head(path)) \/ Head(path) = Dash -> Arr(<<>>)
           [] OTHER -> OfType("object"),
         Head(path), path, new)

\* get_and_create of unflatten: "0" starts an array, anything else an object.
RECURSIVE Create(_, _, _)
CreateBelow(s, i, path, new) ==
  [Create(s[i + 1], Tail(path), new) EXCEPT !.value = Arr(ReplaceAt(s, i + 1, @))]
CreateElement(v, n, path, new) ==
  CASE n.error # 0 -> Refused(v, n.error)
    [] n.value < 0 -> Refused(v, TooLong)
    [] OTHER       -> CreateBelow(Grown(v[2], n.value), n.value, path, new)
CreateStep(v, t, path, new) ==
  CASE IsObject(v) -> [Create(IF t \in DOMAIN v[2] THEN v[2][t] ELSE Null, Tail(path), new)
                         EXCEPT !.value = Obj((t :> @) @@ v[2])]
    [] ~IsArray(v) -> Refused(v, 313)
    [] OTHER       -> CreateElement(v, IndexOfToken(t), path, new)
Create(v, path, new) ==
  IF path = <<>> THEN Done(new, 0)
  ELSE CreateStep(
         CASE ~IsNull(v) -> v
           [] Head(path) = ZeroToken -> Arr(<<>>)
           [] OTHER -> OfType("object"),
         Head(path), path, new)

(* -- Flattening --------------------------------------------------------- *)

IndexText(i) ==
  LET ds == DigitsOf(Word(i)) IN IF i = 0 THEN ZeroToken ELSE [j \in DOMAIN ds |-> 48 + ds[j]]

\* One member for every primitive value, named by the pointer to it; empty
\* containers become null.
RECURSIVE FlattenTo(_, _)

FlattenTo(name, v) ==
  CASE IsArray(v) /\ v[2] # <<>> ->
         FoldFunction(LAMBDA f, g : f @@ g, EmptyFunction,
           [i \in DOMAIN v[2] |-> FlattenTo(name \o <<Slash>> \o IndexText(i - 1), v[2][i])])
    [] IsObject(v) /\ DOMAIN v[2] # {} ->
         FoldFunction(LAMBDA f, g : f @@ g, EmptyFunction,
           [k \in DOMAIN v[2] |-> FlattenTo(name \o <<Slash>> \o Escape(k), v[2][k])])
    [] IsStructured(v) -> name :> Null
    [] OTHER           -> name :> v
Flatten(v) == Obj(FlattenTo(<<>>, v))

\* The members are created in the order of their names.
RECURSIVE UnflattenFrom(_, _, _)
UnflattenFrom(f, keys, v) ==
  CASE keys = <<>> -> Ok(v)
    [] IsStructured(f[Head(keys)]) -> Throw(315)
    [] OTHER -> Then(Split(Head(keys)), LAMBDA path :
                  Then(Create(v, path.value, f[Head(keys)]), LAMBDA r :
                    UnflattenFrom(f, Tail(keys), r.value)))
Unflatten(v) ==
  IF IsObject(v) THEN UnflattenFrom(v[2], Keys(v[2]), Null) ELSE Throw(314)

(* -- Patches ------------------------------------------------------------ *)

\* The names a patch uses.
opKey    == <<111, 112>>
pathKey  == <<112, 97, 116, 104>>
fromKey  == <<102, 114, 111, 109>>
valueKey == <<118, 97, 108, 117, 101>>
addOp     == <<97, 100, 100>>
removeOp  == <<114, 101, 109, 111, 118, 101>>
replaceOp == <<114, 101, 112, 108, 97, 99, 101>>
moveOp    == <<109, 111, 118, 101>>
copyOp    == <<99, 111, 112, 121>>
testOp    == <<116, 101, 115, 116>>

\* A member of a patch operation.
GetValue(operation, member, string) ==
  CASE member \notin DOMAIN operation -> Throw(105)
    [] string /\ ~IsString(operation[member]) -> Throw(105)
    [] OTHER -> Ok(operation[member])

\* The parent with the element or member added; into a value that is no
\* container nothing is added (an assertion of debug builds).
AddedTo(parent, last, new) ==
  CASE IsNull(parent) \/ IsObject(parent) -> AssignKey(parent, last, new)
    [] ~IsArray(parent) -> Ok(parent)
    [] last = Dash      -> PushBack(parent, new)
    [] OTHER -> Then(Stoi(last), LAMBDA n :
                  IF n.value \notin 0 .. Size(parent) THEN Throw(401)
                  ELSE Ok(Arr(Splice(parent[2], n.value, <<new>>))))

HeldAt(v, path) ==
  With(GetChecked(v, path), LAMBDA r : IF r.error = 0 THEN r.value ELSE Null)

\* "add": the first step of the pointer must exist, the others are made; an
\* element is inserted before the index, a member replaced.
OperationAdd(v, path, new) ==
  IF path = <<>> THEN Ok(new)
  ELSE Then(IF Len(path) > 1 THEN GetChecked(v, <<Head(path)>>) ELSE Ok(v), LAMBDA top :
       Then(AssignAt(v, Front(path), Null), LAMBDA made :
       Then(AddedTo(HeldAt(v, Front(path)), Last(path), new), LAMBDA parent :
         Ok(AssignAt(v, Front(path), parent.value).value))))

\* "remove": from a value that is no container nothing is removed.
RemovedFrom(parent, last) ==
  CASE IsObject(parent) ->
         IF last \in DOMAIN parent[2] THEN EraseKey(parent, last) ELSE Throw(403)
    [] ~IsArray(parent) -> Ok(parent)
    [] OTHER -> Then(Stoi(last), LAMBDA n :
                  IF n.value < 0 THEN Throw(401) ELSE EraseIndex(parent, n.value))
OperationRemove(v, path) ==
  IF path = <<>> THEN Throw(405)
  ELSE Then(GetChecked(v, Front(path)), LAMBDA parent :
       Then(RemovedFrom(parent.value, Last(path)), LAMBDA left :
         Ok(Put(v, Front(path), left.value))))

OperationTest(v, path, new) ==
  With(GetChecked(v, path), LAMBDA here :
    CASE IsOutOfRange(here.error) -> Throw(501)
      [] here.error # 0 -> here
      [] OTHER -> Then(new, LAMBDA x : IF Eq(here.value, x.value) THEN Ok(v) ELSE Throw(501)))

\* "copy" overwrites its target where "add" would insert.
OperationMove(v, from, path, there) ==
  Then(OperationRemove(v, from), LAMBDA left : OperationAdd(left.value, path, there))
OperationCopy(v, path, there) ==
  Then(AssignAt(v, path, there), LAMBDA laid : Ok(laid.value))
Transfer(v, f, kind, path) ==
  Then(GetValue(f, fromKey, TRUE), LAMBDA text :
  Then(Split(text.value[2]), LAMBDA from :
  Then(GetChecked(v, from.value), LAMBDA there :
    IF kind = moveOp THEN OperationMove(v, from.value, path, there.value)
    ELSE OperationCopy(v, path, there.value))))

\* One operation on the working copy.
Operate(v, f, kind, path) ==
  LET value == GetValue(f, valueKey, FALSE)
  IN CASE kind = addOp     -> Then(value, LAMBDA x : OperationAdd(v, path, x.value))
       [] kind = removeOp  -> OperationRemove(v, path)
       [] kind = replaceOp -> Then(value, LAMBDA x : Then(GetChecked(v, path), LAMBDA here :
                                Ok(Put(v, path, x.value))))
       [] kind = testOp    -> OperationTest(v, path, value)
       [] kind \in {moveOp, copyOp} -> Transfer(v, f, kind, path)
       [] OTHER            -> Throw(105)
PatchStep(v, operation) ==
  IF ~IsObject(operation) THEN Throw(104)
  ELSE Then(GetValue(operation[2], opKey, TRUE), LAMBDA op :
       Then(GetValue(operation[2], pathKey, TRUE), LAMBDA text :
       Then(Split(text.value[2]), LAMBDA path :
         Operate(v, operation[2], op.value[2], path.value))))

\* patch: the operations in turn on a copy, which an exception throws away.
RECURSIVE PatchFrom(_, _)
PatchFrom(r, operations) ==
  IF r.error # 0 \/ operations = <<>> THEN r
  ELSE PatchFrom(PatchStep(r.value, Head(operations)), Tail(operations))
Patch(v, patch) == IF IsArray(patch) THEN PatchFrom(Ok(v), patch[2]) ELSE Throw(104)

(* -- Differences -------------------------------------------------------- *)

Operation(op, path) == (opKey :> Str(op)) @@ (pathKey :> Str(path))
Replacing(path, new) == Obj(Operation(replaceOp, path) @@ (valueKey :> new))
Adding(path, new)    == Obj(Operation(addOp, path) @@ (valueKey :> new))
Removing(path)       == Obj(Operation(removeOp, path))

RECURSIVE Difference(_, _, _)

\* Faulty variant: the others are removed from the first one on.
ArrayDifferenceUpwards(s, t, path) ==
  LET common == IF Len(s) <= Len(t) THEN Len(s) ELSE Len(t)
      at(i)  == path \o <<Slash>> \o IndexText(i - 1)
  IN FlattenSeq([i \in 1 .. common |-> Difference(s[i], t[i], at(i))])
     \o [j \in 1 .. Len(s) - common |-> Removing(at(common + j))]
     \o [j \in 1 .. Len(t) - common |-> Adding(at(common + j), t[common + j])]

\* Common elements, then the removal of the others from the last one on, or
\* the additional ones.
ArrayDifference(s, t, path) ==
  LET common == IF Len(s) <= Len(t) THEN Len(s) ELSE Len(t)
      at(i)  == path \o <<Slash>> \o IndexText(i - 1)
  IN FlattenSeq([i \in 1 .. common |-> Difference(s[i], t[i], at(i))])
     \o [j \in 1 .. Len(s) - common |-> Removing(at(Len(s) + 1 - j))]
     \o [j \in 1 .. Len(t) - common |-> Adding(at(common + j), t[common + j])]

ObjectDifference(f, g, path) ==
  LET at(k) == path \o <<Slash>> \o Escape(k)
      ks    == Keys(f)
      new   == Keys([k \in DOMAIN g \ DOMAIN f |-> g[k]])
  IN FlattenSeq([i \in DOMAIN ks |->
                   IF ks[i] \in DOMAIN g THEN Difference(f[ks[i]], g[ks[i]], at(ks[i]))
                   ELSE <<Removing(at(ks[i]))>>])
     \o [i \in DOMAIN new |-> Adding(at(new[i]), g[new[i]])]

Difference(s, t, path) ==
  CASE Eq(s, t)        -> <<>>
    [] s[1] # t[1]     -> <<Replacing(path, t)>>
    [] IsArray(s)      -> ArrayDifference(s[2], t[2], path)
    [] IsObject(s)     -> ObjectDifference(s[2], t[2], path)
    [] OTHER           -> <<Replacing(path, t)>>
Diff(s, t) == Arr(Difference(s, t, <<>>))
=============================================================================
