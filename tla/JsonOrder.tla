----------------------------- MODULE JsonOrder -----------------------------
(***************************************************************************)
(* operator== and operator< of json.hpp between values without elements.   *)
(* A 64-bit number is its 8 bytes, most significant first, in two's        *)
(* complement for "integer"; a double is a decimal number with its sign,   *)
(* its significant digits and the power of ten of the point before the     *)
(* first of them.                                                          *)
(***************************************************************************)
EXTENDS JsonValue

IsNegative(w) == w[1] >= 128

\* Faulty variant: the words are compared as if they were unsigned.
SignedLessUnsigned(a, b) == BytesLess(a, b)

SignedLess(a, b) ==
  \/ IsNegative(a) /\ ~IsNegative(b)
  \/ IsNegative(a) = IsNegative(b) /\ BytesLess(a, b)

FloatEq(x, y) ==
  /\ x.kind # "nan" /\ y.kind # "nan"
  /\ x.digits = y.digits /\ x.point = y.point
  /\ x.neg = y.neg \/ x.digits = <<>>

SmallerMagnitude(x, y) ==
  \/ x.digits = <<>> /\ y.digits # <<>>
  \/ x.digits # <<>> /\ y.digits # <<>> /\ x.point < y.point
  \/ x.digits # <<>> /\ x.point = y.point /\ BytesLess(x.digits, y.digits)

FloatLess(x, y) ==
  /\ x.kind # "nan" /\ y.kind # "nan" /\ ~FloatEq(x, y)
  /\ \/ x.neg /\ ~y.neg
     \/ ~x.neg /\ ~y.neg /\ SmallerMagnitude(x, y)
     \/ x.neg /\ y.neg /\ SmallerMagnitude(y, x)

Integral(v) == v[1] \in {"integer", "unsigned"}

\* A signed and an unsigned number are compared as signed ones, and a discarded
\* value equals nothing.
ScalarEq(a, b) ==
  \/ Integral(a) /\ Integral(b) /\ a[2] = b[2]
  \/ a[1] = "float" /\ b[1] = "float" /\ FloatEq(a[2], b[2])
  \/ a = b /\ a # Discarded /\ ~IsNumber(a)

\* Values of types that cannot be compared are in the order of the types.
ScalarLess(a, b) ==
  \/ IsString(a) /\ IsString(b) /\ BytesLess(a[2], b[2])
  \/ a[1] = "boolean" /\ b[1] = "boolean" /\ ~a[2] /\ b[2]
  \/ a[1] = "unsigned" /\ b[1] = "unsigned" /\ BytesLess(a[2], b[2])
  \/ Integral(a) /\ Integral(b) /\ "integer" \in {a[1], b[1]} /\ SignedLess(a[2], b[2])
  \/ a[1] = "float" /\ b[1] = "float" /\ FloatLess(a[2], b[2])
  \/ TypeLess(a[1], b[1])
=============================================================================
