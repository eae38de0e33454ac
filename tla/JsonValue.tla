----------------------------- MODULE JsonValue -----------------------------
(***************************************************************************)
(* The values of the vendored JSON library (json.hpp) and their types, and *)
(* the order of the names in an object.                                    *)
(*                                                                         *)
(* A value is a tuple that starts with its type.  A string is a sequence   *)
(* of bytes, an object a function from such sequences to values.  What a   *)
(* number is, JsonNumbers tells.                                           *)
(***************************************************************************)
EXTENDS Integers, Sequences, SequencesExt, FiniteSets, TLC

Byte == 0 .. 255

(* -- Values ------------------------------------------------------------- *)

Null        == <<"null">>
Discarded   == <<"discarded">>
Bool(b)     == <<"boolean", b>>
Str(bytes)  == <<"string", bytes>>
Arr(s)      == <<"array", s>>
Obj(f)      == <<"object", f>>
Integer(w)  == <<"integer", w>>
Unsigned(w) == <<"unsigned", w>>
Float(d)    == <<"float", d>>

IsNull(v)   == v[1] = "null"
IsObject(v) == v[1] = "object"
IsArray(v)  == v[1] = "array"
IsString(v) == v[1] = "string"
IsNumber(v) == v[1] \in {"integer", "unsigned", "float"}
IsStructured(v) == v[1] \in {"array", "object"}

EmptyFunction == [k \in {} |-> Null]
ZeroWord == [i \in 1 .. 8 |-> 0]
Zero     == [kind |-> "finite", neg |-> FALSE, digits |-> <<>>, point |-> 0]

\* A value made from a type alone.
OfType(t) ==
  CASE t = "object"   -> Obj(EmptyFunction)
    [] t = "array"    -> Arr(<<>>)
    [] t = "string"   -> Str(<<>>)
    [] t = "boolean"  -> Bool(FALSE)
    [] t = "integer"  -> Integer(ZeroWord)
    [] t = "unsigned" -> Unsigned(ZeroWord)
    [] t = "float"    -> Float(Zero)
    [] OTHER          -> <<t>>

\* The order between types, for values that cannot be compared.
Rank ==
  [null |-> 0, boolean |-> 1, integer |-> 2, unsigned |-> 2, float |-> 2,
   object |-> 3, array |-> 4, string |-> 5]
TypeLess(s, t) == s \in DOMAIN Rank /\ t \in DOMAIN Rank /\ Rank[s] < Rank[t]

\* What an operation gives: a value, or the number of the exception thrown,
\* whose hundreds tell its class.
Ok(v)     == [error |-> 0, value |-> v]
Throw(id) == [error |-> id, value |-> Null]
IsOutOfRange(id) == id \div 100 = 4
IsTypeError(id)  == id \div 100 = 3

\* What follows a step that has not failed, and an expression with a name.
Then(r, Op(_)) == IF r.error # 0 THEN r ELSE Op(r)
With(x, Op(_)) == Op(x)

(* -- Bytes and 64-bit words --------------------------------------------- *)

\* Lexicographic order of byte sequences: of strings, keys and words.
BytesLess(a, b) ==
  \E n \in 0 .. Len(a) :
     /\ \A i \in 1 .. n : i <= Len(b) /\ a[i] = b[i]
     /\ n < Len(b)
     /\ n < Len(a) => a[n + 1] < b[n + 1]

\* The names of an object in their order.
Keys(f) ==
  [i \in 1 .. Cardinality(DOMAIN f) |->
     CHOOSE k \in DOMAIN f :
       Cardinality({j \in DOMAIN f : BytesLess(j, k)}) = i - 1]

(* -- Conversions -------------------------------------------------------- *)

\* The implicit conversion to std::string.
AsString(v) == IF IsString(v) THEN Ok(v[2]) ELSE Throw(302)
=============================================================================
