----------------------------- MODULE JsonLexer -----------------------------
(***************************************************************************)
(* The lexer of json.hpp: the longest token its scanner finds, and the     *)
(* values of string and number tokens.  A failure is an exception with the *)
(* number the library gives it.                                            *)
(***************************************************************************)
EXTENDS JsonNumbers, JsonEscape

(* -- Tokens ------------------------------------------------------------- *)

\* The longest token from a state on: where no move is left, the scanner
\* goes back to the last state that ended a token.
RECURSIVE Run(_)
Run(sc) ==
  With(Prepared(sc), LAMBDA p : IF Stuck(p) THEN Stop(p) ELSE Run(Moved(p)))

RECURSIVE Scan(_)
Scan(lx) ==
  With(Run(Scanning(lx)), LAMBDA r : IF r.token = "blank" THEN Scan(r) ELSE r)

(* -- The value of a string token ---------------------------------------- *)

RECURSIVE Unescaped(_, _)
Unescaped(lx, rd) ==
  IF ~ReadingEnds(rd, lx.length)
  THEN With(TookNext(lx.buffer, rd), LAMBDA next : Unescaped(lx, next))
  ELSE IF rd.error = 0 THEN Ok(rd.value) ELSE Throw(rd.error)

GetString(lx) == Unescaped(lx, Reading)

(* -- The value of a number token ---------------------------------------- *)

Small(ds) ==     \* an exponent, cut where it no longer matters
  IF Len(ds) > 4 THEN 9999 ELSE FoldLeft(LAMBDA n, d : 10 * n + d, 0, ds)

DigitsIn(s) ==
  With(SelectSeq(s, LAMBDA c : c \in Digits), LAMBDA cs : [i \in DOMAIN cs |-> cs[i] - 48])
UpTo(s, cs) ==
  With(SelectInSeq(s, LAMBDA c : c \in cs),
       LAMBDA i : IF i = 0 THEN s ELSE SubSeq(s, 1, i - 1))
Exponent(s) ==
  IF s # <<>> /\ Head(s) = 45 THEN -Small(DigitsIn(s)) ELSE Small(DigitsIn(s))

\* strtod of a number of the grammar, given as a sign and the rest.
StrToD(neg, text) ==
  With(UpTo(text, {69, 101}), LAMBDA mantissa :
    Normal(neg, DigitsIn(mantissa),
           Len(UpTo(mantissa, {46})) + Exponent(SubSeq(text, Len(mantissa) + 2, Len(text)))))

Finite(x) == IF x.kind = "infinity" THEN Throw(406) ELSE Ok(Float(x))

\* An integer that does not fit in 64 bits becomes a double, a double that
\* does not fit is refused.
NumberOf(token, neg, text, r) ==
  CASE token = "value_unsigned" /\ r[2] = 0 -> Ok(Unsigned(r[1]))
    [] /\ token = "value_integer" /\ r[2] = 0
       /\ ~IsNegative(r[1]) \/ Negated(r[1]) = r[1] -> Ok(Integer(Negated(r[1])))
    [] OTHER -> Finite(StrToD(neg, text))
GetNumber(lx) ==
  LET neg == lx.buffer[1] = 45
  IN With(SubSeq(lx.buffer, IF neg THEN 2 ELSE 1, lx.length),
          LAMBDA text : NumberOf(lx.token, neg, text, WordOfDigits(DigitsIn(text))))
=============================================================================
