---------------------------- MODULE JsonGrammar ----------------------------
(***************************************************************************)
(* What a JSON text is (RFC 7159), without a lexer or a parser: a value    *)
(* that starts at a position of a text ends at one of a set of positions.  *)
(* The reference the parsers of json.hpp and json_vc11.hpp are held to.    *)
(***************************************************************************)
EXTENDS Utf8, SequencesExt, FiniteSets

Decimal == 48 .. 57
Hex     == Decimal \cup 65 .. 70 \cup 97 .. 102
White   == {9, 10, 13, 32}

IsDigits(s) == s # <<>> /\ Range(s) \subseteq Decimal

(* -- Characters and strings --------------------------------------------- *)

RECURSIVE AllUtf8(_)
AllUtf8(s) ==
  \/ s = <<>>
  \/ \E n \in 1 .. 4 : /\ n <= Len(s) /\ IsUtf8(SubSeq(s, 1, n))
                       /\ AllUtf8(SubSeq(s, n + 1, Len(s)))

\* \uXXXX, and whether its number lies in D800-DBFF or in DC00-DFFF.
IsUnicodeEscape(u) ==
  Len(u) = 6 /\ u[1] = 92 /\ u[2] = 117 /\ \A i \in 3 .. 6 : u[i] \in Hex
IsHigh(u) == u[3] \in {68, 100} /\ u[4] \in {56, 57, 65, 66, 97, 98}
IsLow(u)  == u[3] \in {68, 100} /\ u[4] \in {67, 68, 69, 70, 99, 100, 101, 102}

\* One character of a string: plain, escaped, or a pair of surrogates.
IsCharacter(u) ==
  \/ IsUtf8(u) /\ u[1] >= 32 /\ u[1] \notin {34, 92}
  \/ Len(u) = 2 /\ u[1] = 92 /\ u[2] \in {34, 47, 92, 98, 102, 110, 114, 116}
  \/ IsUnicodeEscape(u) /\ ~IsHigh(u) /\ ~IsLow(u)
  \/ /\ Len(u) = 12
     /\ IsUnicodeEscape(SubSeq(u, 1, 6)) /\ IsHigh(SubSeq(u, 1, 6))
     /\ IsUnicodeEscape(SubSeq(u, 7, 12)) /\ IsLow(SubSeq(u, 7, 12))

RECURSIVE IsCharacters(_)
IsCharacters(s) ==
  \/ s = <<>>
  \/ \E n \in {1, 2, 3, 4, 6, 12} :
        /\ n <= Len(s) /\ IsCharacter(SubSeq(s, 1, n))
        /\ IsCharacters(SubSeq(s, n + 1, Len(s)))

(* -- Numbers ------------------------------------------------------------ *)

IsWhole(s) == IsDigits(s) /\ (Head(s) = 48 => Len(s) = 1)
IsFraction(s) == s = <<>> \/ (Head(s) = 46 /\ IsDigits(Tail(s)))
IsExponent(s) ==
  \/ s = <<>>
  \/ /\ Head(s) \in {69, 101} /\ Len(s) > 1
     /\ IsDigits(Tail(s)) \/ (s[2] \in {43, 45} /\ IsDigits(SubSeq(s, 3, Len(s))))
IsNumberText(s) ==
  \E sign \in 0 .. 1, whole \in 1 .. Len(s) : \E frac \in whole .. Len(s) :
     /\ sign = 1 => Head(s) = 45
     /\ IsWhole(SubSeq(s, sign + 1, whole))
     /\ IsFraction(SubSeq(s, whole + 1, frac))
     /\ IsExponent(SubSeq(s, frac + 1, Len(s)))

(* -- Values ------------------------------------------------------------- *)

\* The positions behind what starts behind position i of a text.
Literal(t, i, s) ==
  IF i + Len(s) <= Len(t) /\ SubSeq(t, i + 1, i + Len(s)) = s THEN {i + Len(s)} ELSE {}
AfterBlanks(t, i) ==
  CHOOSE j \in i .. Len(t) : /\ \A k \in i + 1 .. j : t[k] \in White
                             /\ j < Len(t) => t[j + 1] \notin White
Sign(t, i, c) == Literal(t, AfterBlanks(t, i), <<c>>)

StringEnds(t, i) ==
  {j \in i + 2 .. Len(t) : /\ t[i + 1] = 34 /\ t[j] = 34
                           /\ IsCharacters(SubSeq(t, i + 2, j - 1))}
NumberEnds(t, i) == {j \in i + 1 .. Len(t) : IsNumberText(SubSeq(t, i + 1, j))}

RECURSIVE ValueEnds(_, _), ElementEnds(_, _), MemberEnds(_, _)
ElementEnds(t, i) ==
  UNION {{j} \cup UNION {ElementEnds(t, k) : k \in Sign(t, j, 44)} : j \in ValueEnds(t, i)}
MemberEnds(t, i) ==
  UNION {{j} \cup UNION {MemberEnds(t, k) : k \in Sign(t, j, 44)} :
           j \in UNION {ValueEnds(t, k) :
                          k \in UNION {Sign(t, m, 58) : m \in StringEnds(t, AfterBlanks(t, i))}}}

Between(t, i, open, Ends(_, _), close) ==
  UNION {Sign(t, j, close) \cup UNION {Sign(t, k, close) : k \in Ends(t, j)} :
           j \in Literal(t, i, <<open>>)}

ValueEnds(t, i) ==
  LET at == AfterBlanks(t, i)
      starts(S) == at < Len(t) /\ t[at + 1] \in S
  IN CASE starts({34})  -> StringEnds(t, at)
       [] starts({91})  -> Between(t, at, 91, ElementEnds, 93)
       [] starts({123}) -> Between(t, at, 123, MemberEnds, 125)
       [] starts(Decimal \cup {45}) -> NumberEnds(t, at)
       [] OTHER -> Literal(t, at, <<110, 117, 108, 108>>)
                     \cup Literal(t, at, <<116, 114, 117, 101>>)
                     \cup Literal(t, at, <<102, 97, 108, 115, 101>>)

\* A text is one value with blanks around it.
IsJson(t) == \E j \in ValueEnds(t, 0) : AfterBlanks(t, j) = Len(t)
=============================================================================
