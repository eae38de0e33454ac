-------------------------------- MODULE Utf8 --------------------------------
(***************************************************************************)
(* What UTF-8 is (RFC 3629): a reference, of no code.                      *)
(***************************************************************************)
EXTENDS Integers, Sequences

\* The number that two, three or four bytes stand for, without their marks.
Number2(u) == (u[1] - 192) * 64 + u[2] - 128
Number3(u) == (u[1] - 224) * 4096 + (u[2] - 128) * 64 + u[3] - 128
Number4(u) == (u[1] - 240) * 262144 + (u[2] - 128) * 4096 + (u[3] - 128) * 64 + u[4] - 128

\* One character: a number that needs as many bytes, and is no surrogate.
Trailing(u, n) == \A i \in 2 .. n : u[i] \in 128 .. 191
IsUtf8(u) ==
  \/ Len(u) = 1 /\ u[1] < 128
  \/ Len(u) = 2 /\ u[1] \in 192 .. 223 /\ Trailing(u, 2) /\ Number2(u) >= 128
  \/ /\ Len(u) = 3 /\ u[1] \in 224 .. 239 /\ Trailing(u, 3)
     /\ Number3(u) >= 2048 /\ (Number3(u) < 55296 \/ 57343 < Number3(u))
  \/ /\ Len(u) = 4 /\ u[1] \in 240 .. 247 /\ Trailing(u, 4)
     /\ 65536 <= Number4(u) /\ Number4(u) <= 1114111

\* Characters one after the other: they begin and end at some borders.
Borders(s, borders) ==
  /\ borders \subseteq 0 .. Len(s) /\ 0 \in borders /\ Len(s) \in borders
  /\ \A i \in borders \ {Len(s)} :
        \E n \in 1 .. 4 : i + n \in borders /\ IsUtf8(SubSeq(s, i + 1, i + n))
AreUtf8(s) == \E borders \in SUBSET (0 .. Len(s)) : Borders(s, borders)
=============================================================================
