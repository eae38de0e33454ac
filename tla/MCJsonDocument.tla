--------------------------- MODULE MCJsonDocument ---------------------------
(***************************************************************************)
(* Instances of JsonDocument for TLC.                                      *)
(***************************************************************************)
EXTENDS JsonDocument

\* The parts of a value, and the bound on them.
RECURSIVE Weight(_)
Weight(v) ==
  CASE IsArray(v)  -> FoldLeft(LAMBDA n, e : n + Weight(e), 1, v[2])
    [] IsObject(v) -> FoldFunction(LAMBDA e, n : n + Weight(e), 1, v[2])
    [] OTHER       -> 1
ThreeParts(v) == Weight(v) <= 3

Text(n)   == [i \in 1 .. n |-> 97]
Member(k, x) == k :> x
SignedOf(n)  == Integer(IF n < 0 THEN Negated(Word(-n)) ELSE Word(n))
UnsignedOf(n) == Unsigned(Word(n))
DoubleOf(neg, digits, point) == Float(Normal(neg, digits, point))
a     == <<97>>
slash == <<126, 49, 47>>   \* a name with a tilde and a slash

\* Numbers around the limits of the binary formats, in both types.
Edges == {0, 23, 24, 31, 32, 127, 128, 255, 256, 32767, 32768, 65535, 65536, 2147483647}
SomeSamples ==
  {SignedOf(n) : n \in Edges} \cup {UnsignedOf(n) : n \in Edges}
  \cup {Integer(Complement(Word(n))) : n \in Edges}
  \cup {Unsigned([i \in 1 .. 8 |-> 255]), Unsigned(<<0, 0, 0, 1, 0, 0, 0, 0>>),
        Integer(<<128, 0, 0, 0, 0, 0, 0, 0>>), Integer(<<255, 255, 255, 255, 127, 255, 255, 255>>)}
  \cup {DoubleOf(FALSE, <<1, 5>>, 1), DoubleOf(TRUE, <<6, 2, 5>>, -1), DoubleOf(FALSE, <<1>>, 16), Float(Zero)}
  \cup {Str(Text(n)) : n \in {0, 23, 24, 31, 32, 255, 256}}
  \cup {Arr([i \in 1 .. n |-> Null]) : n \in {15, 16, 24}}
  \cup {Null, Bool(TRUE), Bool(FALSE), Arr(<<>>)}
  \cup {Arr(<<Obj((a :> Null) @@ (slash :> Arr(<<UnsignedOf(1), Str(a)>>))), Null>>),
        Obj((a :> Arr(<<Arr(<<Str(a), Null>>), UnsignedOf(1)>>)) @@ (<<>> :> Bool(TRUE))),
        Obj((ZeroToken :> Arr(<<Null, Null>>)) @@ (slash :> Obj(slash :> Str(slash))))}

SomeItems == {UnsignedOf(1), Str(a), Arr(<<UnsignedOf(1)>>), OfType("object")}
SomeNames == {a, ZeroToken, slash}

\* Pointers to members, elements, the end, through both, and malformed ones.
SomePointers ==
  {<<>>, <<47, 97>>, <<47, 48>>, <<47, 49>>, <<47, 45>>, <<47, 97, 47, 48>>, <<47, 48, 47, 97>>,
   <<47, 126, 48, 49, 126, 49>>, <<47, 48, 49>>, <<97>>, <<47, 126>>, <<47, 45, 49>>,
   <<47, 49, 47, 48, 49>>}

Op(o, path, rest) == Obj(Operation(o, path) @@ rest)
Plain == {<<47, 97>>, <<47, 48>>, <<47, 45>>, <<47, 97, 47, 48>>}
SomeEdits ==
  {Arr(<<Op(addOp, p, valueKey :> Str(a))>>) : p \in Plain \cup {<<>>}}
  \cup {Arr(<<Op(removeOp, p, EmptyFunction)>>) : p \in Plain \cup {<<>>}}
  \cup {Arr(<<Op(replaceOp, p, valueKey :> Null)>>) : p \in Plain}
  \cup {Arr(<<Op(o, p, fromKey :> Str(q))>>) : o \in {moveOp, copyOp}, p \in Plain, q \in Plain}
  \cup {Arr(<<Op(testOp, p, valueKey :> UnsignedOf(1)), Op(removeOp, p, EmptyFunction)>>) : p \in Plain}
  \cup {Null, Arr(<<Null>>), Arr(<<Op(a, <<>>, EmptyFunction)>>), Arr(<<Op(addOp, a, EmptyFunction)>>),
        Arr(<<Op(addOp, <<>>, EmptyFunction)>>), Arr(<<OfType("object")>>)}

SomeTargets ==
  SomeItems \cup {Null, SignedOf(-1), DoubleOf(FALSE, <<5>>, 0), Bool(FALSE), Arr(<<Str(a), Null, UnsignedOf(1)>>),
    Arr(<<Obj(a :> Null)>>), Obj((a :> Arr(<<Null>>)) @@ (slash :> UnsignedOf(1))),
    Obj((ZeroToken :> Null) @@ (a :> OfType("object")))}
=============================================================================
