--------------------------- MODULE JsonSerializer ---------------------------
(***************************************************************************)
(* dump of json.hpp: a value as text, compact or over several lines.       *)
(***************************************************************************)
EXTENDS JsonNumbers, JsonEscape

\* Room is reserved for the bytes that escaping adds, and then written to.
ExtraSpace(s) == FoldLeft(LAMBDA n, c : n + Extra(c), 0, s)
DumpEscaped(s) ==
  With(ExtraSpace(s), LAMBDA space :
    IF space = 0 THEN s ELSE FoldLeft(Written, Writing(Len(s) + space), s).result)

Shown(ds) == [i \in DOMAIN ds |-> 48 + ds[i]]

DumpInteger(v) ==
  CASE v[2] = ZeroWord -> <<48>>
    [] v[1] = "integer" /\ IsNegative(v[2]) -> <<45>> \o Shown(DigitsOf(Negated(v[2])))
    [] OTHER -> Shown(DigitsOf(v[2]))

\* Fifteen significant digits, rounded.
RECURSIVE Increment(_)
Increment(ds) ==
  CASE ds = <<>>     -> <<1>>
    [] Last(ds) < 9  -> Append(Front(ds), Last(ds) + 1)
    [] OTHER         -> Append(Increment(Front(ds)), 0)
Rounded(d) ==
  LET ds == SubSeq(d.digits, 1, 15)
      up == Increment(ds)
  IN IF Len(d.digits) <= 15 THEN d
     ELSE IF d.digits[16] < 5 THEN Normal(d.neg, ds, d.point)
     ELSE Normal(d.neg, up, d.point + Len(up) - 15)

Zeros(n) == [i \in 1 .. n |-> 0]

\* snprintf("%g") of a finite double that is not zero, with all its digits.
PrintG(d) ==
  LET ds    == d.digits
      power == d.point - 1
      abs   == IF power < 0 THEN -power ELSE power
      sign  == IF d.neg THEN <<45>> ELSE <<>>
      two   == IF abs < 10 THEN <<0, abs>> ELSE IF abs < 100 THEN <<abs \div 10, abs % 10>>
               ELSE <<abs \div 100, (abs \div 10) % 10, abs % 10>>
      dot(s, n) == Shown(SubSeq(s, 1, n))
                     \o (IF n < Len(s) THEN <<46>> \o Shown(SubSeq(s, n + 1, Len(s)))
                         ELSE <<>>)
  IN sign \o
     CASE power < -4 \/ power >= 15 ->
            dot(ds, 1) \o <<101, IF power < 0 THEN 45 ELSE 43>> \o Shown(two)
       [] d.point <= 0 -> dot(<<0>> \o Zeros(-d.point) \o ds, 1)
       [] d.point >= Len(ds) -> Shown(ds \o Zeros(d.point - Len(ds)))
       [] OTHER -> dot(ds, d.point)

NullText == <<110, 117, 108, 108>>

\* A double without a point or an exponent gets ".0", so that it is read
\* again as a double.
DumpFloat(x) ==
  CASE x.kind # "finite" -> NullText
    [] x.digits = <<>>   -> (IF x.neg THEN <<45>> ELSE <<>>) \o <<48, 46, 48>>
    [] OTHER ->
         With(PrintG(Rounded(x)), LAMBDA t :
           IF Range(t) \cap {46, 101} = {} THEN t \o <<46, 48>> ELSE t)

DiscardedText == <<60, 100, 105, 115, 99, 97, 114, 100, 101, 100, 62>>

\* Parts between brackets, on lines of their own when there is a step.
Enclosed(open, parts, close, step, indent) ==
  LET blank(n) == [i \in 1 .. n |-> 32]
      break(n) == IF step < 0 THEN <<>> ELSE <<10>> \o blank(n)
      comma    == <<44>>
  IN IF parts = <<>> THEN <<open, close>>
     ELSE <<open>>
          \o FlattenSeq([i \in DOMAIN parts |->
               (IF i = 1 THEN <<>> ELSE comma) \o break(indent + step) \o parts[i]])
          \o break(indent) \o <<close>>

RECURSIVE Dump(_, _, _)
DumpObject(f, step, indent) ==
  LET ks == Keys(f)
  IN Enclosed(123,
       [i \in DOMAIN ks |->
          <<34>> \o DumpEscaped(ks[i]) \o <<34, 58>> \o (IF step < 0 THEN <<>> ELSE <<32>>)
            \o Dump(f[ks[i]], step, indent + step)],
       125, step, indent)

DumpArray(s, step, indent) ==
  Enclosed(91, [i \in DOMAIN s |-> Dump(s[i], step, indent + step)], 93, step, indent)

\* step: the spaces a level is indented by, negative to stay on one line.
Dump(v, step, indent) ==
  CASE IsObject(v) -> DumpObject(v[2], step, indent)
    [] IsArray(v)  -> DumpArray(v[2], step, indent)
    [] IsString(v) -> <<34>> \o DumpEscaped(v[2]) \o <<34>>
    [] v[1] = "boolean" -> IF v[2] THEN <<116, 114, 117, 101>> ELSE <<102, 97, 108, 115, 101>>
    [] v[1] \in {"integer", "unsigned"} -> DumpInteger(v)
    [] v[1] = "float" -> DumpFloat(v[2])
    [] IsNull(v) -> NullText
    [] OTHER -> DiscardedText

\* dump(indent): on one line when indent is negative.
DumpText(v, indent) == Dump(v, indent, 0)
=============================================================================
