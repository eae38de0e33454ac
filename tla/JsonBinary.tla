----------------------------- MODULE JsonBinary -----------------------------
(***************************************************************************)
(* CBOR and MessagePack of json.hpp.  A text is a sequence of bytes; what  *)
(* reading one gives is a value and the position behind it, or the number  *)
(* of an exception: 110 for bytes that are missing, 112 for a byte that    *)
(* starts nothing, 113 for a key that is no string.                        *)
(***************************************************************************)
EXTENDS JsonNumbers

Got(v, at)  == [error |-> 0, value |-> v, at |-> at]
Failed(id)  == [error |-> id, value |-> Null, at |-> 0]

(* -- Doubles as bytes (the memory of a double) -------------------------- *)

\* d times a digit, and d doubled or halved so often, as decimal numbers.
RECURSIVE TimesDigits(_, _, _), Scaled(_, _)
TimesDigits(ds, m, carry) ==
  IF ds = <<>> THEN IF carry = 0 THEN <<>> ELSE <<carry>>
  ELSE Append(TimesDigits(Front(ds), m, (m * Last(ds) + carry) \div 10),
              (m * Last(ds) + carry) % 10)
Times(d, m, tenths) ==
  With(TimesDigits(d.digits, m, 0),
       LAMBDA ds : Normal(d.neg, ds, d.point + Len(ds) - Len(d.digits) - tenths))
Scaled(d, power) ==
  CASE power = 0 \/ d.digits = <<>> -> d
    [] power > 0 -> Scaled(Times(d, 2, 0), power - 1)
    [] OTHER     -> Scaled(Times(d, 5, 1), power + 1)

\* A double whose digits are exact in binary, as sign, exponent and the 52
\* bits behind the first: the decimal is doubled until it is whole, the word
\* until its first bit is where it belongs.
RECURSIVE WholeFrom(_, _), LeadingBit(_)
WholeFrom(d, power) ==
  IF d.point >= Len(d.digits)
  THEN <<WordOfDigits(d.digits \o [i \in 1 .. d.point - Len(d.digits) |-> 0])[1], power>>
  ELSE WholeFrom(Scaled(d, 1), power - 1)
LeadingBit(p) ==
  IF p[1][2] >= 16 THEN p ELSE LeadingBit(<<TimesPlus(p[1], 2, 0)[1], p[2] - 1>>)

\* The exponent field and the bits behind, of the word w times 2^power.
Fields(d, lead) ==
  LET zeros(first) == <<first>> \o [i \in 1 .. 6 |-> 0]
  IN CASE d.kind = "nan"      -> <<2047, zeros(8)>>
       [] d.kind = "infinity" -> <<2047, zeros(0)>>
       [] d.digits = <<>>     -> <<0, zeros(0)>>
       [] OTHER -> With(lead, LAMBDA p :
            <<p[2] + 1075, <<p[1][2] - 16>> \o SubSeq(p[1], 3, 8)>>)
DoubleBytes(d) ==
  With(Fields(d, LeadingBit(WholeFrom(d, 0))), LAMBDA p :
    <<(IF d.neg THEN 128 ELSE 0) + p[1] \div 16, (p[1] % 16) * 16 + p[2][1]>> \o Tail(p[2]))

\* The number of sign, exponent field and mantissa, for a format whose field
\* has the greatest value top and whose units of the last place are 2^-bias.
FromBits(neg, field, top, first, others, hidden, bias) ==
  LET word(c) == [i \in 1 .. 8 - Len(others) |-> IF i = 8 - Len(others) THEN c ELSE 0] \o others
  IN CASE field = top /\ word(first) = ZeroWord ->
            [kind |-> "infinity", neg |-> neg, digits |-> <<1>>, point |-> 999]
       [] field = top -> NotANumber
       [] OTHER -> Scaled(OfWord(neg, word(IF field = 0 THEN first ELSE first + hidden)),
                          (IF field = 0 THEN 1 ELSE field) - bias)

\* The number of the bytes of a half, single or double.
FloatOf(b) ==
  LET high == b[1] % 128
      bits(field, top, at, hidden, bias) ==
        FromBits(b[1] >= 128, field, top, b[at] % hidden, SubSeq(b, at + 1, Len(b)), hidden, bias)
  IN CASE Len(b) = 8 -> bits(high * 16 + b[2] \div 16, 2047, 2, 16, 1075)
       [] Len(b) = 4 -> bits(high * 2 + b[2] \div 128, 255, 2, 128, 150)
       [] OTHER      -> bits(high \div 4, 31, 1, 4, 25)

(* -- Writing ------------------------------------------------------------ *)

\* The word fits in so many bytes, as an unsigned and as a signed number.
Fits(w, n)       == \A i \in 1 .. 8 - n : w[i] = 0
FitsSigned(w, n) == Fits(w, n) /\ w[9 - n] < 128
Below(w, n)      == Fits(w, 1) /\ w[8] < n

\* add_to_vector: the last n bytes of a word.
LastBytes(w, n) == SubSeq(w, 9 - n, 8)

\* A major type of CBOR with its argument, in as few bytes as hold it.
CborHead(major, w) ==
  LET head(info, n) == <<32 * major + info>> \o LastBytes(w, n)
  IN CASE Below(w, 24) -> <<32 * major + w[8]>>
       [] Fits(w, 1)   -> head(24, 1)
       [] Fits(w, 2)   -> head(25, 2)
       [] Fits(w, 4)   -> head(26, 4)
       [] OTHER        -> head(27, 8)

RECURSIVE ToCbor(_)
ToCbor(v) ==
  CASE IsNull(v) -> <<246>>
    [] v[1] = "boolean" -> <<IF v[2] THEN 245 ELSE 244>>
    [] v[1] = "integer" /\ IsNegative(v[2]) -> CborHead(1, Complement(v[2]))
    [] v[1] \in {"integer", "unsigned"} -> CborHead(0, v[2])
    [] v[1] = "float" -> <<251>> \o DoubleBytes(v[2])
    [] IsString(v) -> CborHead(3, Word(Len(v[2]))) \o v[2]
    [] IsArray(v)  -> CborHead(4, Word(Len(v[2])))
                        \o FlattenSeq([i \in DOMAIN v[2] |-> ToCbor(v[2][i])])
    [] IsObject(v) ->
         LET ks == Keys(v[2])
         IN CborHead(5, Word(Len(ks)))
              \o FlattenSeq([i \in DOMAIN ks |-> ToCbor(Str(ks[i])) \o ToCbor(v[2][ks[i]])])
    [] OTHER -> <<>>

\* A container or a string of MessagePack: up to n elements in the first
\* byte, else in 1 (strings alone), 2 or 4 bytes.
PackHead(fix, n, wide, one, w) ==
  CASE Below(w, n)         -> <<fix + w[8]>>
    [] one /\ Fits(w, 1)   -> <<wide>> \o LastBytes(w, 1)
    [] Fits(w, 2)          -> <<IF one THEN wide + 1 ELSE wide>> \o LastBytes(w, 2)
    [] OTHER               -> <<IF one THEN wide + 2 ELSE wide + 1>> \o LastBytes(w, 4)

PackUnsigned(w) ==
  CASE Below(w, 128) -> <<w[8]>>
    [] Fits(w, 1)    -> <<204>> \o LastBytes(w, 1)
    [] Fits(w, 2)    -> <<205>> \o LastBytes(w, 2)
    [] Fits(w, 4)    -> <<206>> \o LastBytes(w, 4)
    [] OTHER         -> <<207>> \o w

PackNegative(w) ==
  LET c == Complement(w)
  IN CASE Below(c, 32)      -> <<w[8]>>
       [] FitsSigned(c, 1)  -> <<208>> \o LastBytes(w, 1)
       [] FitsSigned(c, 2)  -> <<209>> \o LastBytes(w, 2)
       [] FitsSigned(c, 4)  -> <<210>> \o LastBytes(w, 4)
       [] OTHER             -> <<211>> \o w

RECURSIVE ToMsgpack(_)
ToMsgpack(v) ==
  CASE IsNull(v) -> <<192>>
    [] v[1] = "boolean" -> <<IF v[2] THEN 195 ELSE 194>>
    [] v[1] = "integer" /\ IsNegative(v[2]) -> PackNegative(v[2])
    [] v[1] \in {"integer", "unsigned"} -> PackUnsigned(v[2])
    [] v[1] = "float" -> <<203>> \o DoubleBytes(v[2])
    [] IsString(v) -> PackHead(160, 32, 217, TRUE, Word(Len(v[2]))) \o v[2]
    [] IsArray(v)  -> PackHead(144, 16, 220, FALSE, Word(Len(v[2])))
                        \o FlattenSeq([i \in DOMAIN v[2] |-> ToMsgpack(v[2][i])])
    [] IsObject(v) ->
         LET ks == Keys(v[2])
         IN PackHead(128, 16, 222, FALSE, Word(Len(ks)))
              \o FlattenSeq([i \in DOMAIN ks |->
                               ToMsgpack(Str(ks[i])) \o ToMsgpack(v[2][ks[i]])])
    [] OTHER -> <<>>

(* -- Reading ------------------------------------------------------------ *)

\* The bytes from a position on are there: check_length.
HasBytes(b, n, at) == n + at <= Len(b)
Part(b, at, n)     == SubSeq(b, at + 1, at + n)

\* get_from_vector: the n bytes behind a position as a word.
WordAt(b, at, n) == [i \in 1 .. 8 |-> IF i <= 8 - n THEN 0 ELSE b[at + i - 8 + n]]

\* A length; one that no text has is cut.
Endless == 2^24
LengthOf(w) ==
  IF \E i \in 1 .. 5 : w[i] # 0 THEN Endless
  ELSE w[6] * 65536 + w[7] * 256 + w[8]

RECURSIVE FromBinary(_, _, _)

\* A key must start as a string does.
ExpectString(format, b, at) ==
  IF ~HasBytes(b, 1, at) THEN 110
  ELSE LET starts == IF format = "cbor" THEN 96 .. 123 \cup {127}
                     ELSE 160 .. 191 \cup 217 .. 219
       IN IF b[at + 1] \in starts THEN 0 ELSE 113

StringAt(b, at, n) ==
  IF HasBytes(b, n, at) THEN Got(Str(Part(b, at, n)), at + n) ELSE Failed(110)

\* n items, or as many as stand before a break: of an array, of an object
\* (the last of equal keys stays), of a string in pieces.
More(b, at, n) == IF n >= 0 THEN n > 0 ELSE ~HasBytes(b, 1, at) \/ b[at + 1] # 255
Closing(n)     == IF n = -1 THEN 1 ELSE 0
Less1(n)       == IF n = -1 THEN -1 ELSE n - 1
NoBreak(n, b, at) == n = -1 /\ ~HasBytes(b, 1, at)

RECURSIVE ItemsFrom(_, _, _, _, _), PairsFrom(_, _, _, _, _), PiecesFrom(_, _, _)
ItemsFrom(format, b, at, n, array) ==
  IF NoBreak(n, b, at) THEN Failed(110)
  ELSE IF ~More(b, at, n) THEN Got(Arr(array), at + Closing(n))
  ELSE Then(FromBinary(format, b, at), LAMBDA r :
         ItemsFrom(format, b, r.at, Less1(n), Append(array, r.value)))

PairsFrom(format, b, at, n, object) ==
  IF NoBreak(n, b, at) THEN Failed(110)
  ELSE IF ~More(b, at, n) THEN Got(Obj(object), at + Closing(n))
  ELSE IF ExpectString(format, b, at) # 0 THEN Failed(ExpectString(format, b, at))
  ELSE Then(FromBinary(format, b, at), LAMBDA key :
       Then(FromBinary(format, b, key.at), LAMBDA value :
         PairsFrom(format, b, value.at, Less1(n), (key.value[2] :> value.value) @@ object)))

\* The pieces are any items that convert to strings.
PiecesFrom(b, at, string) ==
  IF NoBreak(-1, b, at) THEN Failed(110)
  ELSE IF ~More(b, at, -1) THEN Got(Str(string), at + 1)
  ELSE Then(FromBinary("cbor", b, at), LAMBDA r :
         IF AsString(r.value).error # 0 THEN Failed(302)
         ELSE PiecesFrom(b, r.at, string \o r.value[2]))

\* The argument of a CBOR item: in its first byte, or in the bytes behind.
FromCbor(b, at) ==
  LET head  == b[at + 1]
      major == head \div 32
      info  == head % 32
      size  == CASE info = 24 -> 1 [] info = 25 -> 2 [] info = 26 -> 4
                 [] info = 27 -> 8 [] OTHER -> 0
      arg   == IF size = 0 THEN Word(info) ELSE WordAt(b, at + 1, size)
      next  == at + 1 + size
      n     == IF info = 31 THEN -1 ELSE LengthOf(arg)
      float(s) == IF HasBytes(b, s, at + 1)
                  THEN Got(Float(FloatOf(Part(b, at + 1, s))), at + 1 + s)
                  ELSE Failed(110)
  IN CASE ~HasBytes(b, 1, at) -> Failed(110)
       [] major = 7 ->
            CASE head = 244 -> Got(Bool(FALSE), next)
              [] head = 245 -> Got(Bool(TRUE), next)
              [] head = 246 -> Got(Null, next)
              [] head \in 249 .. 251 -> float(size)
              [] OTHER      -> Failed(112)
       [] major \in {2, 6} \/ info \in 28 .. 30 -> Failed(112)
       [] info = 31 /\ major \in {0, 1} -> Failed(112)
       [] size > 0 /\ ~HasBytes(b, size, at + 1) -> Failed(110)
       [] major = 0 -> Got(Unsigned(arg), next)
       [] major = 1 -> Got(Integer(Complement(arg)), next)
       [] head = 127 -> PiecesFrom(b, next, <<>>)
       [] major = 3 -> StringAt(b, next, n)
       [] major = 4 -> ItemsFrom("cbor", b, next, n, <<>>)
       [] OTHER     -> PairsFrom("cbor", b, next, n, EmptyFunction)

FromMsgpack(b, at) ==
  LET head   == b[at + 1]
      behind == at + 1
      sizes  == (202 :> 4) @@ (203 :> 8) @@ (204 :> 1) @@ (205 :> 2) @@ (206 :> 4)
                  @@ (207 :> 8) @@ (208 :> 1) @@ (209 :> 2) @@ (210 :> 4) @@ (211 :> 8)
                  @@ (217 :> 1) @@ (218 :> 2) @@ (219 :> 4) @@ (220 :> 2) @@ (221 :> 4)
                  @@ (222 :> 2) @@ (223 :> 4)
      size   == sizes[head]
      word   == WordAt(b, behind, size)
      next   == behind + size
      signed == [i \in 1 .. 8 |-> IF i <= 8 - size
                                  THEN IF word[9 - size] >= 128 THEN 255 ELSE 0
                                  ELSE word[i]]
      n      == LengthOf(word)
  IN CASE ~HasBytes(b, 1, at)  -> Failed(110)
       [] head <= 127 -> Got(Unsigned(Word(head)), behind)
       [] head <= 143 -> PairsFrom("msgpack", b, behind, head - 128, EmptyFunction)
       [] head <= 159 -> ItemsFrom("msgpack", b, behind, head - 144, <<>>)
       [] head <= 191 -> StringAt(b, behind, head - 160)
       [] head >= 224 -> Got(Integer([i \in 1 .. 8 |-> IF i < 8 THEN 255 ELSE head]), behind)
       [] head = 192  -> Got(Null, behind)
       [] head \in {194, 195} -> Got(Bool(head = 195), behind)
       [] head \notin DOMAIN sizes -> Failed(112)
       [] ~HasBytes(b, size, behind) -> Failed(110)
       [] head <= 203 -> Got(Float(FloatOf(Part(b, behind, size))), next)
       [] head <= 207 -> Got(Unsigned(word), next)
       [] head <= 211 -> Got(Integer(signed), next)
       [] head <= 219 -> StringAt(b, next, n)
       [] head <= 221 -> ItemsFrom("msgpack", b, next, n, <<>>)
       [] OTHER       -> PairsFrom("msgpack", b, next, n, EmptyFunction)

FromBinary(format, b, at) ==
  IF format = "cbor" THEN FromCbor(b, at) ELSE FromMsgpack(b, at)

\* from_cbor and from_msgpack: what stands behind the value is ignored.
Decoded(format, b) ==
  With(FromBinary(format, b, 0),
       LAMBDA r : IF r.error # 0 THEN Throw(r.error) ELSE Ok(r.value))
Encoded(format, v) == IF format = "cbor" THEN ToCbor(v) ELSE ToMsgpack(v)
=============================================================================
