---------------------------- MODULE JsonNumbers ----------------------------
(***************************************************************************)
(* Numbers of json.hpp: 64-bit words, doubles and their conversions, and   *)
(* the equality and the order of all values.                               *)
(***************************************************************************)
EXTENDS JsonOrder

\* The bytes of an integer of so many bytes.
BytesOf(n, size) ==
  [i \in 1 .. size |-> (n \div 256^(size - i)) % 256]
Word(n)       == [i \in 1 .. 8 |-> IF i <= 4 THEN 0 ELSE BytesOf(n, 4)[i - 4]]
Complement(w) == [i \in DOMAIN w |-> 255 - w[i]]

\* w + d, and 10 w + d, with the carry out of the first byte.
RECURSIVE TimesPlus(_, _, _)
TimesPlus(w, m, d) ==
  IF w = <<>> THEN <<<<>>, d>>
  ELSE LET x == m * Last(w) + d
       IN With(TimesPlus(Front(w), m, x \div 256), LAMBDA r : <<Append(r[1], x % 256), r[2]>>)

Negated(w) == TimesPlus(Complement(w), 1, 1)[1]

\* The number of a sequence of decimal digits, with its carry.
RECURSIVE WordOfDigits(_)
WordOfDigits(ds) ==
  IF ds = <<>> THEN <<ZeroWord, 0>>
  ELSE With(WordOfDigits(Front(ds)), LAMBDA r :
         With(TimesPlus(r[1], 10, Last(ds)), LAMBDA s : <<s[1], r[2] + s[2]>>))

\* The quotient and remainder of a word by ten.
RECURSIVE DivTen(_, _)
DivTen(w, r) ==
  IF w = <<>> THEN <<<<>>, r>>
  ELSE LET x == 256 * r + Head(w)
       IN With(DivTen(Tail(w), x % 10), LAMBDA q : <<<<x \div 10>> \o q[1], q[2]>>)

\* dump_integer: a word's decimal digits, the last one first in the code.
RECURSIVE DigitsOf(_)
DigitsOf(w) ==
  IF w = ZeroWord THEN <<>>
  ELSE With(DivTen(w, 0), LAMBDA q : Append(DigitsOf(q[1]), q[2]))

(* -- Doubles ------------------------------------------------------------ *)

\* A decimal number without zeros at its ends.
RECURSIVE Normal(_, _, _)
Normal(neg, digits, point) ==
  IF digits = <<>> THEN [Zero EXCEPT !.neg = neg]
  ELSE IF Head(digits) = 0 THEN Normal(neg, Tail(digits), point - 1)
  ELSE IF Last(digits) = 0 THEN Normal(neg, Front(digits), point)
  ELSE IF point > 309
  THEN [kind |-> "infinity", neg |-> neg, digits |-> <<1>>, point |-> 999]
  ELSE [kind |-> "finite", neg |-> neg, digits |-> digits, point |-> point]

NotANumber == [kind |-> "nan", neg |-> FALSE, digits |-> <<>>, point |-> 0]

\* The double of a word and a sign, and static_cast<double> of a number.
OfWord(neg, w) == With(DigitsOf(w), LAMBDA ds : Normal(neg, ds, Len(ds)))
AsFloat(v) ==
  LET neg == v[1] = "integer" /\ IsNegative(v[2])
  IN IF v[1] = "float" THEN v[2] ELSE OfWord(neg, IF neg THEN Negated(v[2]) ELSE v[2])

(* -- Equality and order ------------------------------------------------- *)

\* A double and an integer are compared as doubles.
Mixed(a, b) == IsNumber(a) /\ IsNumber(b) /\ (a[1] = "float") # (b[1] = "float")

\* operator==.
RECURSIVE Eq(_, _)
Eq(a, b) ==
  CASE IsArray(a) /\ IsArray(b) ->
         /\ Len(a[2]) = Len(b[2])
         /\ \A i \in DOMAIN a[2] : Eq(a[2][i], b[2][i])
    [] IsObject(a) /\ IsObject(b) ->
         /\ DOMAIN a[2] = DOMAIN b[2]
         /\ \A k \in DOMAIN a[2] : Eq(a[2][k], b[2][k])
    [] Mixed(a, b) -> FloatEq(AsFloat(a), AsFloat(b))
    [] OTHER       -> ScalarEq(a, b)

\* operator<: arrays and objects in lexicographic order.
RECURSIVE Less(_, _)
RECURSIVE LexLess(_, _)
LexLess(s, t) ==
  /\ t # <<>>
  /\ \/ s = <<>>
     \/ Less(Head(s), Head(t))
     \/ ~Less(Head(t), Head(s)) /\ LexLess(Tail(s), Tail(t))

Members(f) ==
  FlattenSeq([i \in 1 .. Cardinality(DOMAIN f) |->
                <<Str(Keys(f)[i]), f[Keys(f)[i]]>>])

Less(a, b) ==
  CASE IsArray(a) /\ IsArray(b)   -> LexLess(a[2], b[2])
    [] IsObject(a) /\ IsObject(b) -> LexLess(Members(a[2]), Members(b[2]))
    [] Mixed(a, b) -> FloatLess(AsFloat(a), AsFloat(b))
    [] OTHER       -> ScalarLess(a, b)
=============================================================================
