----------------------------- MODULE JsonEscape -----------------------------
(***************************************************************************)
(* Strings of json.hpp as JSON writes them: the bytes that dump_escaped    *)
(* puts between the quotes, one byte of the string after the other, and    *)
(* the bytes that get_string makes of them, one escape after the other.    *)
(***************************************************************************)
EXTENDS JsonValue, JsonScanner

(* -- Writing ------------------------------------------------------------ *)

\* What a control byte becomes; the other bytes stay as they are, even those
\* that are no UTF-8.
Hexify(n) == IF n < 10 THEN 48 + n ELSE 87 + n
Short ==
  [c \in {8, 9, 10, 12, 13, 34, 92} |->
     CASE c = 8 -> 98 [] c = 9 -> 116 [] c = 10 -> 110 [] c = 12 -> 102
       [] c = 13 -> 114 [] c \in {34, 92} -> c]
Long == (0 .. 31) \ DOMAIN Short
EscapedByte(c) ==
  CASE c \in DOMAIN Short -> <<92, Short[c]>>
    [] c \in Long -> <<92, 117, 48, 48, Hexify(c \div 16), Hexify(c % 16)>>
    [] OTHER      -> <<c>>

\* Faulty variant: the long escapes are forgotten.
ExtraShort(c) == IF c \in DOMAIN Short THEN 1 ELSE 0

\* The bytes that escaping adds to a byte, for which the code reserves room.
Extra(c) == CASE c \in DOMAIN Short -> 1 [] c \in Long -> 5 [] OTHER -> 0

\* The result, full of backslashes, and the position up to which it is written.
Writing(n) == [result |-> [k \in 1 .. n |-> 92], pos |-> 0]

\* The next byte of the string is written; what does not fit is lost.
Written(w, c) ==
  LET e    == EscapedByte(c)
      here == w.pos + 1 .. w.pos + Len(e)
  IN [result |-> [k \in DOMAIN w.result |-> IF k \in here THEN e[k - w.pos] ELSE w.result[k]],
      pos    |-> w.pos + Len(e)]

(* -- Reading ------------------------------------------------------------ *)

\* UTF-8 of one code point, or of a pair of surrogates.
High(c) == 55296 <= c /\ c <= 56319
Low(c)  == 56320 <= c /\ c <= 57343
Utf8Of(c) ==
  LET more(n) == 128 + ((c \div n) % 64)
  IN CASE c < 128                    -> Ok(<<c>>)
       [] 128 <= c /\ c <= 2047      -> Ok(<<192 + c \div 64, more(1)>>)
       [] 2048 <= c /\ c <= 65535    -> Ok(<<224 + c \div 4096, more(64), more(1)>>)
       [] 65536 <= c /\ c <= 1114111 ->
            Ok(<<240 + c \div 262144, more(4096), more(64), more(1)>>)
       [] c > 1114111                -> Throw(103)
ToUnicode(c1, c2) ==
  IF ~High(c1) THEN Utf8Of(c1)
  ELSE IF Low(c2) THEN Utf8Of(c1 * 1024 + c2 - 56613888) ELSE Throw(102)

HexDigit(c) == IF c \in Digits THEN c - 48 ELSE IF c <= 70 THEN c - 55 ELSE c - 87
Hex4(b, i) ==
  4096 * HexDigit(b[i]) + 256 * HexDigit(b[i + 1])
    + 16 * HexDigit(b[i + 2]) + HexDigit(b[i + 3])

Escapes ==
  [c \in {34, 47, 92, 98, 102, 110, 114, 116} |->
     CASE c = 98 -> 8 [] c = 102 -> 12 [] c = 110 -> 10 [] c = 114 -> 13
       [] c = 116 -> 9 [] c \in {34, 47, 92} -> c]

\* A string token being read: the position in the buffer behind its quote on,
\* the bytes of the string so far, and the exception thrown.
Reading == [at |-> 2, value |-> <<>>, error |-> 0]

\* n bytes of the token have become some bytes of the string, or an exception.
Took(rd, n, r) ==
  IF r.error # 0 THEN [rd EXCEPT !.error = r.error]
  ELSE [at |-> rd.at + n, value |-> rd.value \o r.value, error |-> 0]

\* The escape \u of a high surrogate takes the one behind it along.
TookUnicode(b, rd) ==
  LET c    == Hex4(b, rd.at + 2)
      lone == \/ High(c) /\ (rd.at + 6 >= Len(b) \/ b[rd.at + 6] # 92 \/ b[rd.at + 7] # 117)
              \/ Low(c)
  IN CASE lone              -> Took(rd, 0, Throw(102))
       [] ~lone /\ High(c)  -> Took(rd, 12, ToUnicode(c, Hex4(b, rd.at + 8)))
       [] ~lone /\ ~High(c) -> Took(rd, 6, ToUnicode(c, 0))

\* The next byte of the token, or the next escape.
TookNext(b, rd) ==
  CASE b[rd.at] # 92 -> Took(rd, 1, Ok(<<b[rd.at]>>))
    [] b[rd.at] = 92 /\ b[rd.at + 1] # 117 -> Took(rd, 2, Ok(<<Escapes[b[rd.at + 1]]>>))
    [] b[rd.at] = 92 /\ b[rd.at + 1] = 117 -> TookUnicode(b, rd)

\* The closing quote is reached, or an exception thrown.
ReadingEnds(rd, length) == rd.error # 0 \/ rd.at >= length
=============================================================================
