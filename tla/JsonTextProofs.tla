--------------------------- MODULE JsonTextProofs ---------------------------
(***************************************************************************)
(* What json.hpp does with texts, byte by byte: the scanner stays in its   *)
(* buffer, for any text, and for any stream whatever its lines; strings    *)
(* are written into the room reserved for them and read back, and what is  *)
(* read of a string token is UTF-8 whatever the token is made of.          *)
(***************************************************************************)
EXTENDS JsonSteps, Utf8, FiniteSetTheorems, SequenceTheorems, TLAPS

-----------------------------------------------------------------------------
(* The tokens: the automaton.                                              *)

\* The states that have no moves.
Finals ==
    {"eof", "comma", "colon", "array", "arrayEnd", "object", "objectEnd", "quote",
     "null", "true", "false"}

\* The most bytes that are read from a state on before the scanner refills its
\* buffer again.
Need(s) ==
    CASE s = "start" -> 5
      [] s \in {"f", "minus"} -> 4
      [] s \in {"int", "negInt", "fraction", "zero", "negZero", "fa", "n", "t"} -> 3
      [] s \in {"point", "e", "fal", "nu", "tr"} -> 2
      [] OTHER -> 1

\* A move leads to a state without moves, to one that refills, or to one that
\* needs less; and only blanks go on behind the end of a line.
Allowed(s, bytes, t) ==
    /\ s \notin Finals /\ t # "start"
    /\ 10 \in bytes => t = "space"
    /\ t \in Finals \/ Lookahead(t) > 0 \/ Need(t) < Need(s)

MoveOK(m) == Allowed(m[1], m[2], m[3])

\* Rows of single tokens, blanks and literals are allowed; so are those of numbers and
\* of strings.
LEMMA TokenMovesOK ==
    \A m \in UNION {StartTable, SpaceTable, LiteralHeads, LiteralTails} : MoveOK(m)
  <1>1. /\ Allowed("start", {0}, "eof")    /\ Allowed("start", Blanks, "space")
        /\ Allowed("start", {34}, "open")  /\ Allowed("start", {44}, "comma")
        /\ Allowed("start", {45}, "minus") /\ Allowed("start", {48}, "zero")
        /\ Allowed("start", 49 .. 57, "int") /\ Allowed("start", {58}, "colon")
        /\ Allowed("start", {91}, "array") /\ Allowed("start", {93}, "arrayEnd")
        /\ Allowed("start", {123}, "object") /\ Allowed("start", {125}, "objectEnd")
        /\ Allowed("start", {102}, "f") /\ Allowed("start", {110}, "n")
        /\ Allowed("start", {116}, "t") /\ Allowed("space", Blanks, "space")
    BY DEF Allowed, Finals, Lookahead, Need, Blanks
  <1>2. /\ Allowed("n", {117}, "nu") /\ Allowed("nu", {108}, "nul")
        /\ Allowed("t", {114}, "tr") /\ Allowed("tr", {117}, "tru")
        /\ Allowed("f", {97}, "fa")  /\ Allowed("fa", {108}, "fal")
        /\ Allowed("nul", {108}, "null") /\ Allowed("tru", {101}, "true")
        /\ Allowed("fal", {115}, "fals") /\ Allowed("fals", {101}, "false")
    BY DEF Allowed, Finals, Lookahead, Need
  <1>3. \A m \in StartTable : MoveOK(m)
    <2> DEFINE eof       == <<"start", {0}, "eof">>
               blank     == <<"start", Blanks, "space">>
               open      == <<"start", {34}, "open">>
               comma     == <<"start", {44}, "comma">>
               minus     == <<"start", {45}, "minus">>
               zero      == <<"start", {48}, "zero">>
               int       == <<"start", 49 .. 57, "int">>
               colon     == <<"start", {58}, "colon">>
               array     == <<"start", {91}, "array">>
               arrayEnd  == <<"start", {93}, "arrayEnd">>
               object    == <<"start", {123}, "object">>
               objectEnd == <<"start", {125}, "objectEnd">>
               f         == <<"start", {102}, "f">>
               n         == <<"start", {110}, "n">>
               t         == <<"start", {116}, "t">>
    <2>1. MoveOK(eof) /\ MoveOK(blank) /\ MoveOK(open)
      BY <1>1 DEF MoveOK
    <2>2. MoveOK(comma) /\ MoveOK(minus) /\ MoveOK(zero)
      BY <1>1 DEF MoveOK
    <2>3. MoveOK(int) /\ MoveOK(colon) /\ MoveOK(array)
      BY <1>1 DEF MoveOK
    <2>4. MoveOK(arrayEnd) /\ MoveOK(object) /\ MoveOK(objectEnd)
      BY <1>1 DEF MoveOK
    <2>5. MoveOK(f) /\ MoveOK(n) /\ MoveOK(t)
      BY <1>1 DEF MoveOK
    <2>6. StartTable = {eof, blank, open, comma, minus, zero, int, colon,
                        array, arrayEnd, object, objectEnd, f, n, t}
      BY Zenon DEF StartTable
    <2> HIDE DEF eof, blank, open, comma, minus, zero, int, colon,
                 array, arrayEnd, object, objectEnd, f, n, t
    <2> QED
      BY <2>1, <2>2, <2>3, <2>4, <2>5, <2>6
  <1>4. \A m \in LiteralHeads \cup LiteralTails : MoveOK(m)
    BY <1>2 DEF LiteralHeads, LiteralTails, MoveOK
  <1>5. \A m \in SpaceTable : MoveOK(m)
    BY <1>1 DEF SpaceTable, MoveOK
  <1> QED
    BY <1>3, <1>4, <1>5

LEMMA NumberMovesOK ==
    \A m \in UNION {IntegerTable, NegativeTable, FractionTable, ExponentTable} : MoveOK(m)
  <1>1. /\ Allowed("minus", {48}, "negZero") /\ Allowed("minus", 49 .. 57, "negInt")
        /\ Allowed("int", Digits, "int") /\ Allowed("zero", Digits, "badZero")
        /\ \A s \in {"zero", "int"} : Allowed(s, {46}, "point") /\ Allowed(s, {69, 101}, "e")
    BY DEF Allowed, Finals, Lookahead, Need, Digits
  <1>2. /\ Allowed("negInt", Digits, "negInt") /\ Allowed("negZero", Digits, "badZero")
        /\ \A s \in {"negZero", "negInt"} : Allowed(s, {46}, "point") /\ Allowed(s, {69, 101}, "e")
    BY DEF Allowed, Finals, Lookahead, Need, Digits
  <1>3. /\ Allowed("badZero", Digits, "badZero") /\ Allowed("point", Digits, "fraction")
        /\ Allowed("e", {43, 45}, "sign") /\ Allowed("e", Digits, "exponent")
        /\ Allowed("fraction", Digits, "fraction") /\ Allowed("fraction", {69, 101}, "e")
        /\ Allowed("sign", Digits, "exponent") /\ Allowed("exponent", Digits, "exponent")
    BY DEF Allowed, Finals, Lookahead, Need, Digits
  <1>4. \A m \in IntegerTable : MoveOK(m)
    BY <1>1 DEF IntegerTable, MoveOK
  <1>5. \A m \in NegativeTable : MoveOK(m)
    BY <1>2 DEF NegativeTable, MoveOK
  <1>6. \A m \in FractionTable \cup ExponentTable : MoveOK(m)
    BY <1>3 DEF FractionTable, ExponentTable, MoveOK
  <1> QED
    BY <1>4, <1>5, <1>6

LEMMA StringMovesOK ==
    \A m \in UNION {StringTable, EscapeTable, Utf8Table, FirstHex, OtherHex} : MoveOK(m)
  <1>1. \A s \in {"open", "string"} :
           /\ Allowed(s, (32 .. 127) \ {34, 92}, "string") /\ Allowed(s, {34}, "quote")
           /\ Allowed(s, {92}, "escape")  /\ Allowed(s, 194 .. 223, "tail1")
           /\ Allowed(s, {224}, "e0")     /\ Allowed(s, (225 .. 239) \ {237}, "tail2")
           /\ Allowed(s, {237}, "ed")     /\ Allowed(s, {240}, "f0")
           /\ Allowed(s, 241 .. 243, "tail3") /\ Allowed(s, {244}, "f4")
    BY DEF Allowed, Finals, Lookahead, Need
  <1>2. /\ Allowed("escape", {34, 47, 92, 98, 102, 110, 114, 116}, "string")
        /\ Allowed("escape", {117}, "hex4")
        /\ Allowed("tail1", Continuation, "string") /\ Allowed("tail2", Continuation, "tail1")
        /\ Allowed("tail3", Continuation, "tail2")  /\ Allowed("e0", 160 .. 191, "tail1")
        /\ Allowed("ed", 128 .. 159, "tail1") /\ Allowed("f0", 144 .. 191, "tail2")
        /\ Allowed("f4", 128 .. 143, "tail2")
    BY DEF Allowed, Finals, Lookahead, Need, Continuation
  <1>3. /\ Allowed("hex4", HexDigits, "hex3") /\ Allowed("hex3", HexDigits, "hex2")
        /\ Allowed("hex2", HexDigits, "hex1") /\ Allowed("hex1", HexDigits, "string")
    BY DEF Allowed, Finals, Lookahead, Need, Digits, HexDigits
  <1>4. ASSUME NEW s \in {"open", "string"}
        PROVE  \A m \in StringRows(s) \cup FirstRows(s) : MoveOK(m)
    <2>1. /\ Allowed(s, (32 .. 127) \ {34, 92}, "string") /\ Allowed(s, {34}, "quote")
          /\ Allowed(s, {92}, "escape")
      BY <1>1
    <2>2. \A m \in StringRows(s) : MoveOK(m)
      BY <2>1 DEF StringRows, MoveOK
    <2>3. \A m \in FirstRows(s) : MoveOK(m)
      <3> DEFINE two    == <<s, 194 .. 223, "tail1">>
                 e0     == <<s, {224}, "e0">>
                 three  == <<s, (225 .. 239) \ {237}, "tail2">>
                 ed     == <<s, {237}, "ed">>
                 f0     == <<s, {240}, "f0">>
                 four   == <<s, 241 .. 243, "tail3">>
                 f4     == <<s, {244}, "f4">>
      <3>1. MoveOK(two) /\ MoveOK(e0) /\ MoveOK(three)
        BY <1>1 DEF MoveOK
      <3>2. MoveOK(ed) /\ MoveOK(f0) /\ MoveOK(four) /\ MoveOK(f4)
        BY <1>1 DEF MoveOK
      <3>3. FirstRows(s) = {two, e0, three, ed, f0, four, f4}
        BY Zenon DEF FirstRows
      <3> HIDE DEF two, e0, three, ed, f0, four, f4
      <3> QED
        BY <3>1, <3>2, <3>3
    <2> QED
      BY <2>2, <2>3
  <1>5. \A m \in EscapeTable \cup Utf8Table : MoveOK(m)
    <2> DEFINE short == <<"escape", {34, 47, 92, 98, 102, 110, 114, 116}, "string">>
               long  == <<"escape", {117}, "hex4">>
               tail1 == <<"tail1", Continuation, "string">>
               tail2 == <<"tail2", Continuation, "tail1">>
               tail3 == <<"tail3", Continuation, "tail2">>
               e0    == <<"e0", 160 .. 191, "tail1">>
               ed    == <<"ed", 128 .. 159, "tail1">>
               f0    == <<"f0", 144 .. 191, "tail2">>
               f4    == <<"f4", 128 .. 143, "tail2">>
    <2>1. MoveOK(short) /\ MoveOK(long)
      BY <1>2 DEF MoveOK
    <2>2. MoveOK(tail1) /\ MoveOK(tail2) /\ MoveOK(tail3)
      BY <1>2 DEF MoveOK
    <2>3. MoveOK(e0) /\ MoveOK(ed)
      BY <1>2 DEF MoveOK
    <2>4. MoveOK(f0) /\ MoveOK(f4)
      BY <1>2 DEF MoveOK
    <2>5. EscapeTable = {short, long}
      BY Zenon DEF EscapeTable
    <2>6. Utf8Table = {tail1, tail2, tail3, e0, ed, f0, f4}
      BY Zenon DEF Utf8Table
    <2> HIDE DEF short, long, tail1, tail2, tail3, e0, ed, f0, f4
    <2> QED
      BY <2>1, <2>2, <2>3, <2>4, <2>5, <2>6
  <1>6. \A m \in FirstHex \cup OtherHex : MoveOK(m)
    BY <1>3 DEF FirstHex, OtherHex, MoveOK
  <1>7. \A m \in StringTable : MoveOK(m)
    BY <1>4 DEF StringTable
  <1> QED
    BY <1>5, <1>6, <1>7

\* Every row of the tables does.
LEMMA MovesOK == \A m \in Moves : MoveOK(m)
  BY ONLY TokenMovesOK, NumberMovesOK, StringMovesOK DEF Moves

\* What Delta says is one of the moves.
LEMMA DeltaIsMoves ==
    /\ "start" \in DOMAIN Delta
    /\ \A s \in DOMAIN Delta : s \notin Finals
    /\ \A s \in DOMAIN Delta, c \in Byte :
          Delta[s][c] # "stuck" => Allowed(s, {c}, Delta[s][c])
  <1>1. DOMAIN Delta = {m[1] : m \in Moves}
    BY DEF Delta, Table
  <1>2. <<"start", {0}, "eof">> \in Moves
    BY DEF Moves, StartTable
  <1>3. \A s \in DOMAIN Delta : s \notin Finals
    BY <1>1, MovesOK DEF MoveOK, Allowed
  <1>4. ASSUME NEW s \in DOMAIN Delta, NEW c \in Byte, Delta[s][c] # "stuck"
        PROVE  Allowed(s, {c}, Delta[s][c])
    <2> DEFINE ms == {m \in Moves : m[1] = s}
    <2>1. Delta[s][c] = IF \E m \in ms : c \in m[2]
                        THEN (CHOOSE m \in ms : c \in m[2])[3] ELSE "stuck"
      BY <1>1, <1>4 DEF Delta, Table, Byte
    <2>2. PICK m \in ms : c \in m[2] /\ Delta[s][c] = m[3]
      <3>1. \E m \in ms : c \in m[2]
        BY <1>4, <2>1
      <3> QED
        BY <2>1, <3>1
    <2>3. MoveOK(m) /\ m[1] = s
      BY <2>2, MovesOK
    <2> QED
      BY <2>2, <2>3 DEF MoveOK, Allowed
  <1>5. "start" \in DOMAIN Delta
    <2> DEFINE row == <<"start", {0}, "eof">>
    <2>1. row[1] = "start"
      OBVIOUS
    <2>2. row \in Moves
      BY <1>2
    <2> HIDE DEF row
    <2> QED
      BY <1>1, <2>1, <2>2, Zenon
  <1> QED
    BY <1>3, <1>4, <1>5, Zenon

\* Where the scanner refills, it asks for as much as it needs.
LEMMA AsksForNeed == \A s : Need(s) \in 1 .. 5 /\ (Lookahead(s) > 0 => Lookahead(s) >= Need(s))
  BY DEF Need, Lookahead

\* It asks for a number of bytes.
LEMMA LookaheadType == \A s : Lookahead(s) \in Nat
  BY DEF Lookahead
\* No token ends where it starts.
LEMMA NothingAccepted == "start" \notin DOMAIN Accepted
  BY DEF Accepted

-----------------------------------------------------------------------------
(* The tokens: the buffer.                                                 *)

\* A lexer that has read nothing behind its buffer, and thrown nothing.
LexerOK(lx) ==
    lx \in [buffer : Seq(Byte), length : Nat, token : {lx.token}, stream : BOOLEAN,
            lines : Seq(Seq(Byte)), past : {FALSE}, error : {0}]

\* There are n bytes from position at on, or some, of which the last ends a line.
Enough(bytes, at, n) ==
    Len(bytes) - at >= n \/ (Len(bytes) > at /\ bytes[Len(bytes)] = 10)

\* Another line goes behind what the buffer holds.
LEMMA GettingLine ==
    ASSUME NEW lx, LexerOK(lx), lx.lines # <<>>
    PROVE  /\ LexerOK(GetLine(lx))
           /\ Len(GetLine(lx).buffer) > Len(lx.buffer)
           /\ GetLine(lx).buffer[Len(GetLine(lx).buffer)] = 10
           /\ \A i \in 1 .. Len(lx.buffer) : GetLine(lx).buffer[i] = lx.buffer[i]
  <1> DEFINE line == Head(lx.lines)
             new == lx.buffer \o line \o <<10>>
  <1>1. line \in Seq(Byte) /\ Tail(lx.lines) \in Seq(Seq(Byte)) /\ lx.buffer \in Seq(Byte)
    BY DEF LexerOK
  <1>2. <<10>> \in Seq(Byte)
    BY DEF Byte
  <1> HIDE DEF line
  <1>3. /\ new \in Seq(Byte) /\ Len(new) = Len(lx.buffer) + Len(line) + 1
        /\ new[Len(new)] = 10
        /\ \A i \in 1 .. Len(lx.buffer) : new[i] = lx.buffer[i]
    BY <1>1, <1>2
  <1>4. GetLine(lx) = [lx EXCEPT !.buffer = new, !.lines = Tail(lx.lines)]
    BY DEF GetLine, line
  <1> HIDE DEF new
  <1>5. LexerOK(GetLine(lx)) /\ GetLine(lx).buffer = new
    BY <1>1, <1>3, <1>4 DEF LexerOK
  <1> QED
    BY <1>1, <1>3, <1>5

\* A refilling keeps what the buffer holds, and gives enough of what is asked for.
LEMMA Refilling ==
    ASSUME NEW lx, LexerOK(lx), NEW at \in 0 .. Len(lx.buffer), NEW n \in Nat
    PROVE  LET r == Refilled(lx, at, n)
           IN  /\ LexerOK(r)
               /\ Len(r.buffer) >= Len(lx.buffer)
               /\ \A i \in 1 .. Len(lx.buffer) : r.buffer[i] = lx.buffer[i]
               /\ n > 0 => Enough(r.buffer, at, n)
               /\ n = 0 => r = lx
  <1>1. lx.buffer \in Seq(Byte) /\ Len(lx.buffer) \in Nat
    BY DEF LexerOK
  <1>2. CASE Len(lx.buffer) - at >= n
    BY <1>1, <1>2 DEF Refilled, Enough
  <1>3. CASE Len(lx.buffer) - at < n /\ lx.lines # <<>>
    BY <1>1, <1>3, GettingLine DEF Refilled, FillLineBuffer, Enough
  <1>4. CASE Len(lx.buffer) - at < n /\ lx.lines = <<>>
    <2> DEFINE ones == [i \in 1 .. n - 1 |-> 1]
               new == lx.buffer \o <<0>> \o ones
    <2>1. n > 0
      BY <1>1, <1>4
    <2>2. ones \in Seq(Byte) /\ Len(ones) = n - 1
      BY <2>1 DEF Byte
    <2>3. <<0>> \in Seq(Byte)
      BY DEF Byte
    <2>4. FillLineBuffer(lx, n) = [lx EXCEPT !.buffer = new]
      BY <1>4 DEF FillLineBuffer
    <2> HIDE DEF ones
    <2>5. /\ new \in Seq(Byte) /\ Len(new) = Len(lx.buffer) + n
          /\ \A i \in 1 .. Len(lx.buffer) : new[i] = lx.buffer[i]
      <3> DEFINE half == lx.buffer \o <<0>>
      <3>1. /\ half \in Seq(Byte) /\ Len(half) = Len(lx.buffer) + 1
            /\ \A i \in 1 .. Len(lx.buffer) : half[i] = lx.buffer[i]
        BY <1>1, <2>3
      <3> HIDE DEF half
      <3>2. new = half \o ones
        BY DEF half
      <3> HIDE DEF new
      <3>3. /\ new \in Seq(Byte) /\ Len(new) = Len(half) + Len(ones)
            /\ \A i \in 1 .. Len(half) + Len(ones) :
                  new[i] = IF i <= Len(half) THEN half[i] ELSE ones[i - Len(half)]
        BY <2>2, <3>1, <3>2, ConcatProperties, Zenon
      <3>4. Len(new) = Len(lx.buffer) + n
        BY <1>1, <2>2, <3>1, <3>3
      <3>5. ASSUME NEW i \in 1 .. Len(lx.buffer)
            PROVE  new[i] = lx.buffer[i]
        <4>1. i \in 1 .. Len(half) + Len(ones) /\ i <= Len(half)
          BY <1>1, <2>1, <2>2, <3>1
        <4>2. new[i] = half[i]
          BY <3>3, <4>1, Zenon
        <4> QED
          BY <3>1, <4>2, Zenon
      <3> QED
        BY <3>3, <3>4, <3>5, Zenon
    <2> HIDE DEF new
    <2>6. LexerOK(FillLineBuffer(lx, n)) /\ FillLineBuffer(lx, n).buffer = new
      BY <2>4, <2>5 DEF LexerOK
    <2> QED
      BY <1>1, <1>4, <2>1, <2>5, <2>6 DEF Refilled, Enough
  <1> QED
    BY <1>1, <1>2, <1>3, <1>4

\* The lexers that scanning starts with.
LEMMA FirstLexers == \A lx \in Lexers : LexerOK(lx) /\ lx.length <= Len(lx.buffer)
  <1>1. ASSUME NEW text \in Seq(Byte)
        PROVE  LexerOK(OfText(text)) /\ OfText(text).length = 0 /\ OfText(text).buffer = text
    BY DEF OfText, LexerOK
  <1>2. ASSUME NEW lines \in Seq(Seq(Byte)) \ {<<>>}
        PROVE  LexerOK(OfStream(TRUE, lines)) /\ OfStream(TRUE, lines).length = 0
    <2> DEFINE empty == OfText(<<>>)
               none == [empty EXCEPT !.lines = lines, !.stream = TRUE]
               lx == GetLine(none)
    <2>1. LexerOK(none) /\ none.lines = lines /\ none.length = 0
      <3>1. <<>> \in Seq(Byte)
        OBVIOUS
      <3>2. LexerOK(empty) /\ empty.length = 0
        BY <1>1, <3>1
      <3> HIDE DEF empty
      <3> QED
        BY <3>2 DEF LexerOK
    <2>2. OfStream(TRUE, lines) =
            IF IsPrefix(<<239, 187, 191>>, lx.buffer)
            THEN [lx EXCEPT !.buffer = <<32, 32, 32>> \o SubSeq(@, 4, Len(@))] ELSE lx
      BY DEF OfStream
    <2> HIDE DEF none
    <2>3. LexerOK(lx) /\ lx.length = 0
      <3>1. LexerOK(lx)
        BY <2>1, GettingLine
      <3>2. lx.length = 0
        BY <2>1 DEF GetLine, LexerOK
      <3> QED
        BY <3>1, <3>2
    <2> HIDE DEF lx
    <2>4. CASE ~IsPrefix(<<239, 187, 191>>, lx.buffer)
      BY <2>2, <2>3, <2>4
    <2>5. CASE IsPrefix(<<239, 187, 191>>, lx.buffer)
      <3> DEFINE rest == SubSeq(lx.buffer, 4, Len(lx.buffer))
                 new == <<32, 32, 32>> \o rest
      <3>1. lx.buffer \in Seq(Byte)
        BY <2>3 DEF LexerOK
      <3>2. rest \in Seq(Byte)
        <4>1. \A i \in 4 .. Len(lx.buffer) : lx.buffer[i] \in Byte
          BY <3>1
        <4> QED
          BY <3>1, <4>1, SubSeqProperties
      <3> HIDE DEF rest
      <3>3. <<32, 32, 32>> \in Seq(Byte)
        BY DEF Byte
      <3>4. new \in Seq(Byte)
        BY <3>2, <3>3
      <3>5. OfStream(TRUE, lines) = [lx EXCEPT !.buffer = new]
        BY <2>2, <2>5 DEF rest
      <3> HIDE DEF new
      <3> QED
        BY <2>3, <3>4, <3>5 DEF LexerOK
    <2> QED
      BY <2>4, <2>5
  <1>3. \A lx \in Lexers : LexerOK(lx) /\ lx.length = 0
    BY <1>1, <1>2 DEF Lexers
  <1>4. \A lx : LexerOK(lx) => Len(lx.buffer) \in Nat
    BY DEF LexerOK
  <1> QED
    BY <1>3, <1>4

-----------------------------------------------------------------------------
(* The tokens: scanning.                                                   *)

\* The bytes read and the mark are in the buffer (m_start <= m_cursor <= m_limit,
\* m_marker <= m_limit).
ScannerOK(sc) ==
    /\ LexerOK(sc.lexer)
    /\ sc = [lexer |-> sc.lexer, state |-> sc.state, at |-> sc.at,
             mark |-> <<sc.mark[1], sc.mark[2]>>]
    /\ sc.at \in 0 .. Len(sc.lexer.buffer)
    /\ sc.state # "start" => sc.at > 0
    /\ sc.mark[1] \in 1 .. sc.at \cup {1}

\* The buffer holds what the state needs.
Supplied(sc) == Enough(sc.lexer.buffer, sc.at, Need(sc.state))

\* In a state that does not refill, it does so already.
Inside(sc) ==
    /\ ScannerOK(sc)
    /\ sc.state \in DOMAIN Delta /\ Lookahead(sc.state) = 0 => Supplied(sc)

\* What the scanner looks at is a byte.
LEMMA BufferType ==
    ASSUME NEW lx, LexerOK(lx)
    PROVE  lx.buffer \in Seq(Byte) /\ Len(lx.buffer) \in Nat /\ lx.past = FALSE
  <1>1. lx.buffer \in Seq(Byte) /\ lx.past \in {FALSE}
    BY DEF LexerOK
  <1>2. Len(lx.buffer) \in Nat
    BY <1>1, LenProperties
  <1> QED
    BY <1>1, <1>2

LEMMA ScannerType ==
    ASSUME NEW sc, ScannerOK(sc)
    PROVE  /\ LexerOK(sc.lexer) /\ sc.lexer.buffer \in Seq(Byte)
           /\ Len(sc.lexer.buffer) \in Nat
           /\ sc.at \in Nat /\ sc.at <= Len(sc.lexer.buffer)
  <1>1. LexerOK(sc.lexer)
    BY DEF ScannerOK
  <1>2. sc.lexer.buffer \in Seq(Byte) /\ Len(sc.lexer.buffer) \in Nat
    BY <1>1, BufferType
  <1>3. sc.at \in 0 .. Len(sc.lexer.buffer)
    BY DEF ScannerOK
  <1>4. sc.at \in Nat /\ sc.at <= Len(sc.lexer.buffer)
    BY <1>2, <1>3
  <1> QED
    BY <1>1, <1>2, <1>4

LEMMA ScanningOK ==
    ASSUME NEW lx, LexerOK(lx), lx.length <= Len(lx.buffer)
    PROVE  Inside(Scanning(lx))
  <1> DEFINE rest == SubSeq(lx.buffer, lx.length + 1, Len(lx.buffer))
             new == [lx EXCEPT !.buffer = rest, !.length = 0]
  <1>1. lx.length \in Nat /\ lx.buffer \in Seq(Byte) /\ Len(lx.buffer) \in Nat
    BY BufferType DEF LexerOK
  <1>2. rest \in Seq(Byte)
    BY <1>1
  <1>3. Scanning(lx) = [lexer |-> new, state |-> "start", at |-> 0, mark |-> <<1, "parse_error">>]
    BY DEF Scanning
  <1> HIDE DEF rest
  <1>4. LexerOK(new)
    BY <1>2 DEF LexerOK
  <1> HIDE DEF new
  <1>5. ScannerOK(Scanning(lx))
    BY <1>3, <1>4, BufferType DEF ScannerOK
  <1>6. Lookahead("start") # 0
    BY DEF Lookahead
  <1> QED
    BY <1>3, <1>5, <1>6 DEF Inside

\* What the scanner does before it looks at a byte gives every state what it needs.
LEMMA PreparedOK ==
    ASSUME NEW sc, Inside(sc)
    PROVE  LET p == Prepared(sc)
           IN  /\ ScannerOK(p) /\ p.state = sc.state /\ p.at = sc.at
               /\ p.state \in DOMAIN Delta => Supplied(p)
  <1> DEFINE lx == Refilled(sc.lexer, sc.at, Lookahead(sc.state))
             mark == IF sc.state \in DOMAIN Accepted
                     THEN <<sc.at, Accepted[sc.state]>> ELSE sc.mark
             p == Prepared(sc)
  <1>1. LexerOK(sc.lexer) /\ sc.at \in 0 .. Len(sc.lexer.buffer) /\ ScannerOK(sc)
    BY DEF Inside, ScannerOK
  <1>2. /\ LexerOK(lx) /\ Len(lx.buffer) >= Len(sc.lexer.buffer)
        /\ Lookahead(sc.state) > 0 => Enough(lx.buffer, sc.at, Lookahead(sc.state))
        /\ Lookahead(sc.state) = 0 => lx = sc.lexer
    BY <1>1, Refilling, LookaheadType
  <1>3. p = [sc EXCEPT !.lexer = lx, !.mark = mark]
    BY DEF Prepared
  <1> HIDE DEF lx
  <1>4. mark = <<mark[1], mark[2]>> /\ mark[1] \in 1 .. sc.at \cup {1}
    BY <1>1, NothingAccepted, BufferType DEF ScannerOK
  <1> HIDE DEF mark, p
  <1>5. p = [lexer |-> lx, state |-> sc.state, at |-> sc.at, mark |-> mark]
    BY <1>1, <1>3 DEF ScannerOK
  <1>6. ScannerOK(p) /\ p.state = sc.state /\ p.at = sc.at /\ p.lexer = lx
    BY <1>1, <1>2, <1>4, <1>5, BufferType DEF ScannerOK
  <1>7. ASSUME p.state \in DOMAIN Delta PROVE Supplied(p)
    <2>1. CASE Lookahead(sc.state) = 0
      BY <1>2, <1>6, <1>7, <2>1 DEF Inside, Supplied
    <2>2. CASE Lookahead(sc.state) > 0
      BY <1>1, <1>2, <1>6, <2>2, AsksForNeed, LookaheadType, BufferType DEF Supplied, Enough
    <2> QED
      BY <2>1, <2>2, LookaheadType
  <1> QED
    BY <1>6, <1>7 DEF p

\* So the next byte is in the buffer.
LEMMA NextByte ==
    ASSUME NEW p, ScannerOK(p), p.state \in DOMAIN Delta, Supplied(p)
    PROVE  /\ p.at < Len(p.lexer.buffer) /\ ~LooksBehind(p)
           /\ p.lexer.buffer[p.at + 1] \in Byte
  <1>1. p.at \in Nat /\ p.lexer.buffer \in Seq(Byte) /\ Len(p.lexer.buffer) \in Nat
    BY ScannerType
  <1>2. p.at < Len(p.lexer.buffer)
    BY <1>1, AsksForNeed DEF Supplied, Enough
  <1> QED
    BY <1>1, <1>2 DEF LooksBehind

\* A move to a state that does not refill needs less, and only blanks go on
\* behind the end of a line.
LEMMA MovedOK ==
    ASSUME NEW p, ScannerOK(p), p.state \in DOMAIN Delta, Supplied(p), ~Stuck(p)
    PROVE  Inside(Moved(p))
  <1> DEFINE b == p.lexer.buffer
             c == b[p.at + 1]
             t == Delta[p.state][c]
             q == Moved(p)
  <1>1. p.at < Len(b) /\ c \in Byte /\ t # "stuck"
    BY NextByte DEF Stuck
  <1>2. Allowed(p.state, {c}, t)
    BY <1>1, DeltaIsMoves
  <1>3. q = [p EXCEPT !.state = t, !.at = p.at + 1]
    BY DEF Moved
  <1> HIDE DEF t, q
  <1>4. q = [lexer |-> p.lexer, state |-> t, at |-> p.at + 1, mark |-> <<p.mark[1], p.mark[2]>>]
    <2> DEFINE m == <<p.mark[1], p.mark[2]>>
               lx == p.lexer
               s == p.state
               n == p.at
               next == p.at + 1
    <2>1. p = [lexer |-> lx, state |-> s, at |-> n, mark |-> m]
      BY DEF ScannerOK
    <2>2. q = [p EXCEPT !.state = t, !.at = next]
      BY <1>3
    <2> HIDE DEF m, lx, s, n, next
    <2>3. q = [lexer |-> lx, state |-> t, at |-> next, mark |-> m]
      BY <2>1, <2>2
    <2> QED
      BY <2>3 DEF m, lx, next
  <1>5. ScannerOK(q)
    BY <1>1, <1>4, BufferType DEF ScannerOK
  <1>6. ASSUME t \in DOMAIN Delta, Lookahead(t) = 0
        PROVE  Enough(b, p.at + 1, Need(t))
    <2>1. Need(t) < Need(p.state) /\ c # 10
      <3>1. Lookahead("space") # 0
        BY DEF Lookahead
      <3> QED
        BY <1>2, <1>6, <3>1, DeltaIsMoves DEF Allowed
    <2>2. b \in Seq(Byte) /\ Len(b) \in Nat /\ p.at \in Nat
      BY ScannerType
    <2>3. CASE Len(b) - p.at >= Need(p.state)
      <3>1. Need(t) \in Int /\ Need(p.state) \in Int
        BY AsksForNeed
      <3>2. Len(b) - (p.at + 1) >= Need(t)
        BY <2>1, <2>2, <2>3, <3>1
      <3> QED
        BY <3>2 DEF Enough
    <2>4. CASE Len(b) > p.at /\ b[Len(b)] = 10
      BY <2>1, <2>2, <2>4 DEF Enough
    <2> QED
      BY <2>3, <2>4 DEF Supplied, Enough
  <1>7. q.state = t /\ q.lexer.buffer = b /\ q.at = p.at + 1
    BY <1>4
  <1> QED
    BY <1>5, <1>6, <1>7 DEF Inside, Supplied, q

\* The scanner takes at least one byte and only bytes of its buffer.
TokenOK(lx) == LexerOK(lx) /\ lx.length \in 1 .. Len(lx.buffer)

LEMMA StopOK ==
    ASSUME NEW p, ScannerOK(p), p.state \in DOMAIN Delta => Supplied(p)
    PROVE  ~LooksBehind(p) /\ TokenOK(Stop(p))
  <1>1. ~LooksBehind(p)
    BY NextByte DEF LooksBehind
  <1>2. p.mark[1] \in 1 .. Len(p.lexer.buffer)
    <2>1. Len(p.lexer.buffer) \in Nat /\ p.at \in 0 .. Len(p.lexer.buffer)
      BY BufferType DEF ScannerOK
    <2>2. Len(p.lexer.buffer) > 0
      <3>1. CASE p.state = "start"
        BY <2>1, <3>1, NextByte, DeltaIsMoves
      <3>2. CASE p.state # "start"
        BY <2>1, <3>2 DEF ScannerOK
      <3> QED
        BY <3>1, <3>2
    <2> QED
      BY <2>1, <2>2 DEF ScannerOK
  <1>3. Stop(p) = [p.lexer EXCEPT !.length = p.mark[1], !.token = p.mark[2], !.past = @ \/ FALSE]
    BY <1>1 DEF Stop
  <1>4. LexerOK(p.lexer)
    BY DEF ScannerOK
  <1>5. Stop(p) = [p.lexer EXCEPT !.length = p.mark[1], !.token = p.mark[2], !.past = FALSE]
    <2>1. p.lexer.past = FALSE
      BY <1>4, BufferType
    <2> QED
      BY <1>3, <2>1
  <1>6. LexerOK(Stop(p)) /\ Stop(p).length = p.mark[1] /\ Stop(p).buffer = p.lexer.buffer
    <2> DEFINE lx == p.lexer
               n == p.mark[1]
               token == p.mark[2]
    <2>1. n \in Nat
      BY <1>2
    <2>2. Stop(p) = [lx EXCEPT !.length = n, !.token = token, !.past = FALSE] /\ LexerOK(lx)
      BY <1>4, <1>5
    <2> HIDE DEF lx, n, token
    <2>3. LexerOK(Stop(p)) /\ Stop(p).length = n /\ Stop(p).buffer = lx.buffer
      BY <2>1, <2>2 DEF LexerOK
    <2> QED
      BY <2>3 DEF lx, n
  <1> QED
    BY <1>1, <1>2, <1>6 DEF TokenOK

LEMMA InsideInvariant == ScanSpec => []Inside(scanner)
  <1>1. ASSUME ScanInit
        PROVE  Inside(scanner)
    BY <1>1, FirstLexers, ScanningOK DEF ScanInit
  <1>2. ASSUME Inside(scanner), [ScanNext]_scanner
        PROVE  Inside(scanner)'
    <2> DEFINE p == Prepared(scanner)
    <2>1. ScannerOK(p) /\ (p.state \in DOMAIN Delta => Supplied(p))
      BY <1>2, PreparedOK
    <2>2. CASE scanner' = scanner
      BY <1>2, <2>2
    <2>3. CASE Stuck(p) /\ scanner' = Scanning(Stop(p))
      <3>1. TokenOK(Stop(p))
        BY <2>1, StopOK
      <3> HIDE DEF p
      <3>2. LexerOK(Stop(p)) /\ Stop(p).length <= Len(Stop(p).buffer)
        BY <3>1, BufferType DEF TokenOK
      <3> QED
        BY <2>3, <3>2, ScanningOK
    <2>4. CASE ~Stuck(p) /\ scanner' = Moved(p)
      BY <2>1, <2>4, MovedOK DEF Stuck
    <2> QED
      BY <1>2, <2>2, <2>3, <2>4 DEF ScanNext
  <1> QED
    BY <1>1, <1>2, PTL DEF ScanSpec

-----------------------------------------------------------------------------
(* The tokens: what follows.                                               *)

\* Before it looks at a byte the scanner has it: of no text and of no stream
\* does it read a byte behind its buffer (*m_cursor below m_limit).
StaysInside == ~scanner.lexer.past /\ ~LooksBehind(Prepared(scanner))

\* Every token takes bytes of the buffer, and at least one: scanning goes on, and
\* the token's text (m_start to m_cursor) is there.
TakesBytes ==
    Stuck(Prepared(scanner)) =>
        LET token == Stop(Prepared(scanner))
        IN  token.length \in 1 .. Len(token.buffer)

\* A refilling moves no byte of the token being scanned.
KeepsBytes ==
    \A i \in 1 .. scanner.at : Prepared(scanner).lexer.buffer[i] = scanner.lexer.buffer[i]

\* Whatever the bytes, from memory or line by line from a stream, the scanner
\* stays in its buffer, and every token is made of bytes that are there: lexer::scan.
THEOREM ScannerStaysInside == ScanSpec => [](StaysInside /\ TakesBytes /\ KeepsBytes)
  <1>1. ASSUME Inside(scanner)
        PROVE  StaysInside /\ TakesBytes
    <2>1. ScannerOK(scanner) /\ ~scanner.lexer.past
      BY <1>1, BufferType DEF Inside, ScannerOK
    <2> QED
      BY <1>1, <2>1, PreparedOK, StopOK DEF StaysInside, TakesBytes, TokenOK
  <1>2. ASSUME Inside(scanner)
        PROVE  KeepsBytes
    <2> DEFINE lx == Refilled(scanner.lexer, scanner.at, Lookahead(scanner.state))
    <2>1. LexerOK(scanner.lexer) /\ scanner.at \in 0 .. Len(scanner.lexer.buffer) /\ ScannerOK(scanner)
      BY <1>2 DEF Inside, ScannerOK
    <2>2. \A i \in 1 .. Len(scanner.lexer.buffer) : lx.buffer[i] = scanner.lexer.buffer[i]
      BY <2>1, Refilling, LookaheadType
    <2>3. Prepared(scanner).lexer = lx
      BY <2>1 DEF Prepared, ScannerOK
    <2> HIDE DEF lx
    <2> QED
      BY <2>1, <2>2, <2>3, BufferType DEF KeepsBytes
  <1> QED
    BY <1>1, <1>2, InsideInvariant, PTL

-----------------------------------------------------------------------------
(* Strings: the places of the escapes.                                     *)

ShortUpTo(s, k) == {j \in 1 .. k : s[j] \in DOMAIN Short}
LongUpTo(s, k)  == {j \in 1 .. k : s[j] \in Long}

\* The bytes that the first k bytes of a string become.
Place(s, k) == k + Cardinality(ShortUpTo(s, k)) + 5 * Cardinality(LongUpTo(s, k))

\* The byte the serializer writes behind the backslash, for each byte it escapes in short.
LEMMA ShortValues ==
    /\ DOMAIN Short = {8, 9, 10, 12, 13, 34, 92}
    /\ Short[8] = 98 /\ Short[9] = 116 /\ Short[10] = 110 /\ Short[12] = 102
    /\ Short[13] = 114 /\ Short[34] = 34 /\ Short[92] = 92
  <1>1. DOMAIN Short = {8, 9, 10, 12, 13, 34, 92}
    BY DEF Short
  <1>2. Short[8] = 98 /\ Short[9] = 116
    BY DEF Short
  <1>3. Short[10] = 110 /\ Short[12] = 102
    BY DEF Short
  <1>4. Short[13] = 114
    BY DEF Short
  <1>5. Short[34] = 34 /\ Short[92] = 92
    BY DEF Short
  <1> QED
    BY <1>1, <1>2, <1>3, <1>4, <1>5, Zenon

\* The byte the reader makes of each of them.
LEMMA EscapesValues ==
    /\ DOMAIN Escapes = {34, 47, 92, 98, 102, 110, 114, 116}
    /\ Escapes[98] = 8 /\ Escapes[116] = 9 /\ Escapes[110] = 10 /\ Escapes[102] = 12
    /\ Escapes[114] = 13 /\ Escapes[34] = 34 /\ Escapes[92] = 92
  <1>1. DOMAIN Escapes = {34, 47, 92, 98, 102, 110, 114, 116}
    BY DEF Escapes
  <1>2. Escapes[98] = 8 /\ Escapes[116] = 9
    BY DEF Escapes
  <1>3. Escapes[110] = 10 /\ Escapes[102] = 12
    BY DEF Escapes
  <1>4. Escapes[114] = 13
    BY DEF Escapes
  <1>5. Escapes[34] = 34 /\ Escapes[92] = 92
    BY DEF Escapes
  <1> QED
    BY <1>1, <1>2, <1>3, <1>4, <1>5, Zenon

\* What a short escape is written as is an escape that is read as the byte.
LEMMA ShortEscapes ==
    ASSUME NEW c \in DOMAIN Short
    PROVE  /\ Short[c] \in Byte /\ Short[c] # 117
           /\ Short[c] \in DOMAIN Escapes /\ Escapes[Short[c]] = c
  <1>1. Short[c] \in {98, 116, 110, 102, 114, 34, 92} /\ Escapes[Short[c]] = c
    BY ShortValues, EscapesValues
  <1>2. Short[c] \in DOMAIN Escapes
    BY <1>1, EscapesValues
  <1>3. Short[c] \in Byte /\ Short[c] # 117
    BY <1>1 DEF Byte
  <1> QED
    BY <1>1, <1>2, <1>3

\* A byte and what it becomes.
LEMMA EscapedByteType ==
    ASSUME NEW c \in Byte
    PROVE  /\ EscapedByte(c) \in Seq(Byte)
           /\ Len(EscapedByte(c)) = 1 + Extra(c)
           /\ Extra(c) \in {0, 1, 5}
           /\ Extra(c) = 0 => EscapedByte(c) = <<c>>
           /\ Extra(c) = 1 <=> c \in DOMAIN Short
           /\ Extra(c) = 5 <=> c \in Long
  <1>1. CASE c \in DOMAIN Short
    <2>1. EscapedByte(c) = <<92, Short[c]>> /\ Extra(c) = 1 /\ c \notin Long
      BY <1>1 DEF EscapedByte, Extra, Long
    <2>2. Short[c] \in Byte
      BY <1>1, ShortEscapes
    <2>3. 92 \in Byte
      BY DEF Byte
    <2> QED
      BY <1>1, <2>1, <2>2, <2>3
  <1>2. CASE c \in Long
    <2>1. c \notin DOMAIN Short /\ c \in 0 .. 31
      BY <1>2 DEF Long
    <2> DEFINE a == Hexify(c \div 16)
               b == Hexify(c % 16)
    <2>2. EscapedByte(c) = <<92, 117, 48, 48, a, b>> /\ Extra(c) = 5
      BY <1>2, <2>1 DEF EscapedByte, Extra
    <2>3. a \in Byte /\ b \in Byte
      BY <2>1 DEF Hexify, Byte
    <2> HIDE DEF a, b
    <2>4. 92 \in Byte /\ 117 \in Byte /\ 48 \in Byte
      BY DEF Byte
    <2> QED
      BY <1>2, <2>1, <2>2, <2>3, <2>4
  <1>3. CASE c \notin DOMAIN Short /\ c \notin Long
    BY <1>3 DEF EscapedByte, Extra
  <1> QED
    BY <1>1, <1>2, <1>3

\* Nothing becomes nothing.
LEMMA PlaceZero == \A s : Place(s, 0) = 0
  <1> TAKE s
  <1>1. ShortUpTo(s, 0) = {} /\ LongUpTo(s, 0) = {}
    BY DEF ShortUpTo, LongUpTo
  <1> QED
    BY <1>1, FS_EmptySet DEF Place

\* The places of escapes can be counted.
LEMMA UpToFinite ==
    ASSUME NEW s, NEW k \in Nat
    PROVE  /\ IsFiniteSet(ShortUpTo(s, k)) /\ Cardinality(ShortUpTo(s, k)) \in Nat
           /\ IsFiniteSet(LongUpTo(s, k)) /\ Cardinality(LongUpTo(s, k)) \in Nat
  <1>1. IsFiniteSet(1 .. k)
    BY FS_Interval
  <1>2. ShortUpTo(s, k) \in SUBSET (1 .. k) /\ LongUpTo(s, k) \in SUBSET (1 .. k)
    BY DEF ShortUpTo, LongUpTo
  <1>3. IsFiniteSet(ShortUpTo(s, k)) /\ IsFiniteSet(LongUpTo(s, k))
    BY <1>1, <1>2, FS_Subset
  <1> QED
    BY <1>3, FS_CardinalityType

\* What the next byte becomes goes behind what the bytes before it become.
LEMMA PlaceNext ==
    ASSUME NEW s \in Seq(Byte), NEW k \in 0 .. Len(s) - 1
    PROVE  /\ Place(s, k) \in Nat
           /\ Place(s, k + 1) = Place(s, k) + 1 + Extra(s[k + 1])
           /\ Place(s, k + 1) = Place(s, k) + Len(EscapedByte(s[k + 1]))
  <1> DEFINE c == s[k + 1]
  <1>1. c \in Byte /\ k \in Nat /\ k + 1 \in Nat
    OBVIOUS
  <1>2. /\ IsFiniteSet(ShortUpTo(s, k)) /\ Cardinality(ShortUpTo(s, k)) \in Nat
        /\ IsFiniteSet(LongUpTo(s, k)) /\ Cardinality(LongUpTo(s, k)) \in Nat
    BY <1>1, UpToFinite
  <1>3. k + 1 \notin ShortUpTo(s, k) /\ k + 1 \notin LongUpTo(s, k)
    BY <1>1 DEF ShortUpTo, LongUpTo
  <1>4. Cardinality(ShortUpTo(s, k + 1)) = Cardinality(ShortUpTo(s, k)) + (IF c \in DOMAIN Short THEN 1 ELSE 0)
    <2>1. Cardinality(ShortUpTo(s, k) \cup {k + 1}) = Cardinality(ShortUpTo(s, k)) + 1
      BY <1>2, <1>3, FS_AddElement
    <2>2. CASE c \in DOMAIN Short
      <3>1. ShortUpTo(s, k + 1) = ShortUpTo(s, k) \cup {k + 1}
        BY <1>1, <2>2 DEF ShortUpTo
      <3> QED
        BY <2>1, <2>2, <3>1
    <2>3. CASE c \notin DOMAIN Short
      <3>1. ShortUpTo(s, k + 1) = ShortUpTo(s, k)
        BY <1>1, <2>3 DEF ShortUpTo
      <3> QED
        BY <1>2, <2>3, <3>1
    <2> QED
      BY <2>2, <2>3
  <1>5. Cardinality(LongUpTo(s, k + 1)) = Cardinality(LongUpTo(s, k)) + (IF c \in Long THEN 1 ELSE 0)
    <2>1. Cardinality(LongUpTo(s, k) \cup {k + 1}) = Cardinality(LongUpTo(s, k)) + 1
      BY <1>2, <1>3, FS_AddElement
    <2>2. CASE c \in Long
      <3>1. LongUpTo(s, k + 1) = LongUpTo(s, k) \cup {k + 1}
        BY <1>1, <2>2 DEF LongUpTo
      <3> QED
        BY <2>1, <2>2, <3>1
    <2>3. CASE c \notin Long
      <3>1. LongUpTo(s, k + 1) = LongUpTo(s, k)
        BY <1>1, <2>3 DEF LongUpTo
      <3> QED
        BY <1>2, <2>3, <3>1
    <2> QED
      BY <2>2, <2>3
  <1>6. /\ Extra(c) \in {0, 1, 5} /\ Len(EscapedByte(c)) = 1 + Extra(c)
        /\ Extra(c) = 1 <=> c \in DOMAIN Short
        /\ Extra(c) = 5 <=> c \in Long
    BY <1>1, EscapedByteType
  <1> HIDE DEF c
  <1>7. Place(s, k) \in Nat
    BY <1>1, <1>2 DEF Place
  <1>8. Place(s, k + 1) = Place(s, k) + 1 + Extra(c)
    <2> DEFINE short == IF c \in DOMAIN Short THEN 1 ELSE 0
               long  == IF c \in Long THEN 1 ELSE 0
    <2>1. short \in Nat /\ long \in Nat /\ Extra(c) = short + 5 * long
      BY <1>6
    <2>2. /\ Cardinality(ShortUpTo(s, k + 1)) = Cardinality(ShortUpTo(s, k)) + short
          /\ Cardinality(LongUpTo(s, k + 1)) = Cardinality(LongUpTo(s, k)) + long
      BY <1>4, <1>5
    <2> DEFINE shorts == Cardinality(ShortUpTo(s, k))
               longs  == Cardinality(LongUpTo(s, k))
    <2>3. /\ Place(s, k) = k + shorts + 5 * longs
          /\ Place(s, k + 1) = (k + 1) + (shorts + short) + 5 * (longs + long)
      BY <2>2 DEF Place
    <2>4. shorts \in Nat /\ longs \in Nat
      BY <1>2
    <2> HIDE DEF short, long, shorts, longs
    <2> QED
      BY <1>1, <2>1, <2>3, <2>4
  <1> QED
    BY <1>6, <1>7, <1>8 DEF c

\* What the bytes become lies one behind the other.
LEMMA PlaceMonotone ==
    ASSUME NEW s \in Seq(Byte), NEW k \in 0 .. Len(s), NEW m \in k .. Len(s)
    PROVE  Place(s, k) \in Nat /\ Place(s, m) \in Nat /\ Place(s, m) - m >= Place(s, k) - k /\ Place(s, k) >= k
  <1>1. k \in Nat /\ m \in Nat /\ k <= m
    OBVIOUS
  <1>2. /\ IsFiniteSet(ShortUpTo(s, m)) /\ Cardinality(ShortUpTo(s, m)) \in Nat
        /\ IsFiniteSet(LongUpTo(s, m)) /\ Cardinality(LongUpTo(s, m)) \in Nat
        /\ Cardinality(ShortUpTo(s, k)) \in Nat /\ Cardinality(LongUpTo(s, k)) \in Nat
    BY <1>1, UpToFinite
  <1>3. ShortUpTo(s, k) \in SUBSET ShortUpTo(s, m) /\ LongUpTo(s, k) \in SUBSET LongUpTo(s, m)
    BY <1>1 DEF ShortUpTo, LongUpTo
  <1>4. /\ Cardinality(ShortUpTo(s, k)) <= Cardinality(ShortUpTo(s, m))
        /\ Cardinality(LongUpTo(s, k)) <= Cardinality(LongUpTo(s, m))
    BY <1>2, <1>3, FS_Subset
  <1> DEFINE sk == Cardinality(ShortUpTo(s, k))
             sm == Cardinality(ShortUpTo(s, m))
             lk == Cardinality(LongUpTo(s, k))
             lm == Cardinality(LongUpTo(s, m))
  <1>5. Place(s, k) = k + sk + 5 * lk /\ Place(s, m) = m + sm + 5 * lm
    BY DEF Place
  <1>6. sk \in Nat /\ sm \in Nat /\ lk \in Nat /\ lm \in Nat /\ sk <= sm /\ lk <= lm
    BY <1>2, <1>4
  <1> HIDE DEF sk, sm, lk, lm
  <1> QED
    BY <1>1, <1>5, <1>6

\* Where nothing is escaped each byte stays where it is.
LEMMA NothingToEscape ==
    ASSUME NEW s \in Seq(Byte), Place(s, Len(s)) = Len(s)
    PROVE  \A k \in 1 .. Len(s) : Place(s, k) = k /\ EscapedByte(s[k]) = <<s[k]>>
  <1> TAKE k \in 1 .. Len(s)
  <1>1. Place(s, k) = k
    BY PlaceMonotone
  <1>2. Place(s, k - 1) = k - 1
    BY PlaceMonotone
  <1>3. Extra(s[k]) = 0
    <2>1. k - 1 \in 0 .. Len(s) - 1 /\ (k - 1) + 1 = k
      OBVIOUS
    <2>2. Place(s, k) = Place(s, k - 1) + 1 + Extra(s[k])
      BY <2>1, PlaceNext
    <2>3. Extra(s[k]) \in {0, 1, 5}
      BY EscapedByteType
    <2> QED
      BY <1>1, <1>2, <2>2, <2>3
  <1> QED
    BY <1>1, <1>3, EscapedByteType

-----------------------------------------------------------------------------
(* Strings: writing.                                                       *)

\* What the first m bytes become stands in r behind the first shift bytes.
Escaped(s, m, r, shift) ==
    \A k \in 1 .. m : \A j \in 1 .. Len(EscapedByte(s[k])) :
        r[shift + Place(s, k - 1) + j] = EscapedByte(s[k])[j]

\* The result is as long as the room reserved.
LEMMA WritingStarts ==
    ASSUME NEW n \in Nat
    PROVE  /\ Writing(n) = [result |-> Writing(n).result, pos |-> 0]
           /\ Writing(n).result \in Seq(Byte) /\ Len(Writing(n).result) = n
  <1>1. 92 \in Byte
    BY DEF Byte
  <1> QED
    BY <1>1 DEF Writing

\* The next byte goes behind the ones before, into the room reserved.
LEMMA WritingGoesOn ==
    ASSUME NEW s \in Seq(Byte), NEW m \in 0 .. Len(s) - 1, NEW r \in Seq(Byte),
           Len(r) = Place(s, Len(s)), Escaped(s, m, r, 0),
           NEW w, w = [result |-> r, pos |-> Place(s, m)]
    PROVE  LET v == Written(w, s[m + 1])
           IN  /\ Place(s, m) + Len(EscapedByte(s[m + 1])) <= Len(r)
               /\ v = [result |-> v.result, pos |-> Place(s, m + 1)]
               /\ v.result \in Seq(Byte) /\ Len(v.result) = Len(r)
               /\ Escaped(s, m + 1, v.result, 0)
  <1> DEFINE c == s[m + 1]
             e == EscapedByte(c)
             p == Place(s, m)
             n == Len(r)
             q == [k \in 1 .. n |-> IF k \in p + 1 .. p + Len(e) THEN e[k - p] ELSE r[k]]
  <1>1. c \in Byte /\ m \in Nat /\ m + 1 \in 0 .. Len(s)
    OBVIOUS
  <1>2. e \in Seq(Byte) /\ Len(e) \in Nat
    BY <1>1, EscapedByteType
  <1>3. p \in Nat /\ Place(s, m + 1) = p + Len(e)
    BY PlaceNext
  <1>4. Place(s, m + 1) <= n /\ Place(s, m + 1) \in Nat /\ n \in Nat
    <2>1. Len(s) \in m + 1 .. Len(s)
      OBVIOUS
    <2>2. Place(s, Len(s)) - Len(s) >= Place(s, m + 1) - (m + 1)
      BY <1>1, <2>1, PlaceMonotone
    <2>3. Place(s, Len(s)) \in Nat /\ Place(s, m + 1) \in Nat
      BY <1>1, <2>1, PlaceMonotone
    <2> QED
      BY <2>2, <2>3
  <1>5. Written(w, c) = [result |-> q, pos |-> p + Len(e)]
    <2>1. DOMAIN r = 1 .. n
      OBVIOUS
    <2> QED
      BY <2>1 DEF Written
  <1>6. q \in Seq(Byte) /\ Len(q) = n
    <2> HIDE DEF e, p
    <2>1. \A k \in 1 .. n : q[k] \in Byte
      BY <1>2, <1>3
    <2> QED
      BY <2>1
  <1>7. ASSUME NEW k \in 1 .. m + 1, NEW j \in 1 .. Len(EscapedByte(s[k]))
        PROVE  q[Place(s, k - 1) + j] = EscapedByte(s[k])[j]
    <2>1. CASE k = m + 1
      <3>1. k - 1 = m /\ s[k] = c
        BY <1>1, <2>1
      <3>2. p + j \in 1 .. n /\ p + j \in p + 1 .. p + Len(e) /\ (p + j) - p = j
        <4>1. j \in 1 .. Len(e)
          BY <3>1
        <4> HIDE DEF e, p, n
        <4>2. j \in Nat /\ j >= 1 /\ j <= Len(e)
          BY <1>2, <4>1
        <4> QED
          BY <1>2, <1>3, <1>4, <4>2
      <3> QED
        BY <3>1, <3>2
    <2>2. CASE k # m + 1
      <3>1. k \in 1 .. m /\ k - 1 \in 0 .. Len(s) - 1 /\ (k - 1) + 1 = k /\ k \in 0 .. Len(s)
        BY <1>1, <2>2
      <3>2. Place(s, k - 1) \in Nat /\ Place(s, k) = Place(s, k - 1) + Len(EscapedByte(s[k]))
        BY <3>1, PlaceNext
      <3>3. Place(s, k) <= p /\ Place(s, k) \in Nat
        <4>1. m \in k .. Len(s) /\ k <= m
          BY <1>1, <3>1
        <4>2. p - m >= Place(s, k) - k /\ Place(s, k) \in Nat /\ p \in Nat
          BY <3>1, <4>1, PlaceMonotone
        <4> QED
          BY <4>1, <4>2
      <3>4. Len(EscapedByte(s[k])) \in Nat
        BY <3>1, EscapedByteType
      <3> DEFINE i == Place(s, k - 1) + j
      <3>5. i \in 1 .. n /\ i <= p
        <4> DEFINE back == Place(s, k - 1)
                   len  == Len(EscapedByte(s[k]))
        <4>1. back \in Nat /\ len \in Nat /\ j \in 1 .. len /\ i = back + j
          BY <3>2, <3>4
        <4>2. back + len <= p
          BY <3>2, <3>3
        <4>3. p \in Nat /\ n \in Nat /\ p <= n
          <5> HIDE DEF p, n, e
          <5> QED
            BY <1>2, <1>3, <1>4
        <4> HIDE DEF back, len, i, p, n
        <4> QED
          BY <4>1, <4>2, <4>3
      <3>6. r[i] = EscapedByte(s[k])[j]
        <4>1. r[0 + Place(s, k - 1) + j] = EscapedByte(s[k])[j]
          BY <3>1 DEF Escaped
        <4> QED
          BY <3>2, <4>1
      <3>7. q[i] = r[i]
        <4> HIDE DEF i, e, p, n
        <4>1. i \in 1 .. n /\ ~(i \in p + 1 .. p + Len(e))
          BY <1>2, <1>3, <3>5
        <4> QED
          BY <4>1
      <3> QED
        BY <3>6, <3>7
    <2> QED
      BY <2>1, <2>2
  <1>8. Escaped(s, m + 1, q, 0)
    <2>1. ASSUME NEW k \in 1 .. m + 1, NEW j \in 1 .. Len(EscapedByte(s[k]))
          PROVE  q[0 + Place(s, k - 1) + j] = EscapedByte(s[k])[j]
      <3>1. k - 1 \in 0 .. Len(s) - 1
        BY <1>1
      <3>2. 0 + Place(s, k - 1) + j = Place(s, k - 1) + j
        BY <3>1, PlaceNext
      <3> QED
        BY <1>7, <3>2
    <2> HIDE DEF q
    <2> QED
      BY <2>1 DEF Escaped
  <1> HIDE DEF q
  <1> QED
    BY <1>3, <1>4, <1>5, <1>6, <1>8

\* The bytes of one text behind another.
LEMMA Joined ==
    ASSUME NEW s \in Seq(Byte), NEW t \in Seq(Byte)
    PROVE  /\ s \o t \in Seq(Byte) /\ Len(s \o t) = Len(s) + Len(t)
           /\ Len(s) \in Nat /\ Len(t) \in Nat
           /\ \A i \in 1 .. Len(s) : (s \o t)[i] = s[i]
           /\ \A i \in 1 .. Len(t) : (s \o t)[Len(s) + i] = t[i]
  OBVIOUS

\* Between its quotes the text is what is escaped.
LEMMA Finishing ==
    ASSUME NEW s \in Seq(Byte), NEW r \in Seq(Byte), Len(r) = Place(s, Len(s)),
           Escaped(s, Len(s), r, 0), NEW rest \in Seq(Byte)
    PROVE  LET b == Quote \o r \o Quote \o rest
           IN  /\ b \in Seq(Byte) /\ Len(b) >= Len(r) + 2
               /\ b[1] = 34 /\ b[Len(r) + 2] = 34
               /\ Escaped(s, Len(s), b, 1)
  <1> DEFINE b == Quote \o r \o Quote \o rest
  <1>1. Quote \in Seq(Byte) /\ Len(Quote) = 1 /\ Quote[1] = 34
    BY DEF Quote, Byte
  <1> HIDE DEF Quote
  <1>2. /\ b \in Seq(Byte) /\ Len(b) = Len(r) + 2 + Len(rest)
        /\ b[1] = 34 /\ b[Len(r) + 2] = 34
        /\ \A i \in 1 .. Len(r) : b[1 + i] = r[i]
    <2> DEFINE x == Quote \o r
               y == x \o Quote
    <2>1. /\ x \in Seq(Byte) /\ Len(x) = Len(r) + 1 /\ x[1] = 34
          /\ \A i \in 1 .. Len(r) : x[1 + i] = r[i]
      <3>0. Quote \in Seq(Byte)
        BY <1>1
      <3>1. /\ x \in Seq(Byte) /\ Len(x) = Len(Quote) + Len(r)
            /\ \A i \in 1 .. Len(Quote) : x[i] = Quote[i]
            /\ \A i \in 1 .. Len(r) : x[Len(Quote) + i] = r[i]
        BY <3>0, Joined, Zenon
      <3> HIDE DEF x
      <3> QED
        BY <1>1, <3>1
    <2> HIDE DEF x
    <2>2. /\ y \in Seq(Byte) /\ Len(y) = Len(r) + 2 /\ y[1] = 34 /\ y[Len(r) + 2] = 34
          /\ \A i \in 1 .. Len(r) : y[1 + i] = r[i]
      <3>1. /\ y \in Seq(Byte) /\ Len(y) = Len(x) + Len(Quote)
            /\ \A i \in 1 .. Len(x) : y[i] = x[i]
            /\ \A i \in 1 .. Len(Quote) : y[Len(x) + i] = Quote[i]
        <4>1. x \in Seq(Byte) /\ Quote \in Seq(Byte)
          BY <1>1, <2>1
        <4> QED
          BY <4>1, Joined, Zenon
      <3> HIDE DEF y
      <3>2. Len(y) = Len(r) + 2
        BY <1>1, <2>1, <3>1
      <3>3. y[1] = 34 /\ \A i \in 1 .. Len(r) : y[1 + i] = r[i]
        BY <2>1, <3>1
      <3>4. y[Len(r) + 2] = 34
        <4>1. y[Len(x) + 1] = Quote[1]
          BY <1>1, <3>1
        <4>2. Len(x) + 1 = Len(r) + 2
          BY <2>1
        <4> QED
          BY <1>1, <4>1, <4>2
      <3> QED
        BY <3>1, <3>2, <3>3, <3>4
    <2> HIDE DEF y
    <2>3. b = y \o rest
      BY DEF x, y
    <2> HIDE DEF b
    <2>4. b \in Seq(Byte) /\ Len(b) = Len(y) + Len(rest) /\ \A i \in 1 .. Len(y) : b[i] = y[i]
      <3>1. y \in Seq(Byte)
        BY <2>2
      <3> QED
        BY <2>3, <3>1, Joined, Zenon
    <2>5. /\ 1 \in 1 .. Len(y) /\ Len(r) + 2 \in 1 .. Len(y)
          /\ \A i \in 1 .. Len(r) : 1 + i \in 1 .. Len(y)
      BY <2>2
    <2> QED
      BY <2>2, <2>4, <2>5
  <1> HIDE DEF b
  <1>3. ASSUME NEW k \in 1 .. Len(s), NEW j \in 1 .. Len(EscapedByte(s[k]))
        PROVE  b[1 + Place(s, k - 1) + j] = EscapedByte(s[k])[j]
    <2>1. k - 1 \in 0 .. Len(s) - 1 /\ (k - 1) + 1 = k /\ k \in 0 .. Len(s) /\ Len(s) \in k .. Len(s)
      OBVIOUS
    <2>2. Place(s, k - 1) \in Nat /\ Place(s, k) = Place(s, k - 1) + Len(EscapedByte(s[k]))
      BY <2>1, PlaceNext
    <2>3. Place(s, k) \in Nat /\ Place(s, k) <= Place(s, Len(s)) /\ Place(s, Len(s)) \in Nat
      <3>1. /\ Place(s, Len(s)) - Len(s) >= Place(s, k) - k
            /\ Place(s, k) \in Nat /\ Place(s, Len(s)) \in Nat
        BY <2>1, PlaceMonotone
      <3> QED
        BY <3>1
    <2>4. Len(EscapedByte(s[k])) \in Nat
      BY EscapedByteType
    <2> DEFINE i == Place(s, k - 1) + j
    <2>5. i \in 1 .. Len(r) /\ 1 + Place(s, k - 1) + j = 1 + i
      <3> DEFINE back == Place(s, k - 1)
                 len  == Len(EscapedByte(s[k]))
      <3>1. back \in Nat /\ len \in Nat /\ j \in 1 .. len /\ i = back + j
        BY <2>2, <2>4
      <3>2. back + len <= Len(r) /\ Len(r) \in Nat
        BY <2>2, <2>3
      <3>3. 1 + Place(s, k - 1) + j = 1 + back + j
        OBVIOUS
      <3> HIDE DEF back, len, i
      <3> QED
        BY <3>1, <3>2, <3>3
    <2>6. r[0 + Place(s, k - 1) + j] = EscapedByte(s[k])[j] /\ 0 + Place(s, k - 1) + j = i
      BY <2>2 DEF Escaped
    <2> HIDE DEF i
    <2> QED
      BY <1>2, <2>5, <2>6
  <1>4. Len(b) >= Len(r) + 2
    BY <1>2
  <1>5. Escaped(s, Len(s), b, 1)
    BY <1>3 DEF Escaped
  <1> QED
    BY <1>2, <1>4, <1>5 DEF b

\* A string without escapes is its own text.
LEMMA FinishingPlain ==
    ASSUME NEW s \in Seq(Byte), Place(s, Len(s)) = Len(s)
    PROVE  Escaped(s, Len(s), s, 0)
  <1>1. ASSUME NEW k \in 1 .. Len(s), NEW j \in 1 .. Len(EscapedByte(s[k]))
        PROVE  s[0 + Place(s, k - 1) + j] = EscapedByte(s[k])[j]
    <2>1. EscapedByte(s[k]) = <<s[k]>>
      BY NothingToEscape
    <2>2. j = 1
      BY <2>1
    <2>3. Place(s, k - 1) = k - 1
      <3>1. k - 1 \in 0 .. Len(s) /\ Len(s) \in k - 1 .. Len(s)
        OBVIOUS
      <3>2. /\ Place(s, Len(s)) - Len(s) >= Place(s, k - 1) - (k - 1)
            /\ Place(s, k - 1) \in Nat /\ Place(s, k - 1) >= k - 1
        BY <3>1, PlaceMonotone
      <3> QED
        BY <3>1, <3>2
    <2>4. 0 + Place(s, k - 1) + j = k
      BY <2>2, <2>3
    <2> QED
      BY <2>1, <2>2, <2>4
  <1> QED
    BY <1>1 DEF Escaped

-----------------------------------------------------------------------------
(* Strings: the automaton between the quotes.                              *)

\* The states between the bytes of a string, of which some expect the further bytes
\* of a character, and those inside an escape.
Plain   == {"open", "string"}
Tails   == {"tail1", "tail2", "tail3", "e0", "ed", "f0", "f4"}
Hexes   == {"hex4", "hex3", "hex2", "hex1"}
Between == Plain \cup Tails

Rows == UNION {StringTable, EscapeTable, Utf8Table, FirstHex, OtherHex}

\* No other table has a row for these states.
LEMMA RowsOfStrings ==
    \A m \in Moves : m[1] \in Between \cup Hexes \cup {"escape"} => m \in Rows
  <1> DEFINE S == Between \cup Hexes \cup {"escape"}
  <1>1. \A m \in StartTable : m[1] \notin S
    <2>1. "start" \notin S
      BY DEF Between, Plain, Tails, Hexes
    <2> HIDE DEF S
    <2> QED
      BY <2>1 DEF StartTable
  <1>2. \A m \in SpaceTable \cup LiteralHeads \cup LiteralTails : m[1] \notin S
    <2>1. S \cap {"space", "n", "nu", "t", "tr", "f", "fa", "nul", "tru", "fal", "fals"} = {}
      BY DEF Between, Plain, Tails, Hexes
    <2> HIDE DEF S
    <2> QED
      BY <2>1 DEF SpaceTable, LiteralHeads, LiteralTails
  <1>3. \A m \in IntegerTable \cup NegativeTable : m[1] \notin S
    <2>1. S \cap {"minus", "int", "zero", "negInt", "negZero"} = {}
      BY DEF Between, Plain, Tails, Hexes
    <2> HIDE DEF S
    <2> QED
      BY <2>1 DEF IntegerTable, NegativeTable
  <1>4. \A m \in FractionTable \cup ExponentTable : m[1] \notin S
    <2>1. S \cap {"badZero", "point", "e", "fraction", "sign", "exponent"} = {}
      BY DEF Between, Plain, Tails, Hexes
    <2> HIDE DEF S
    <2> QED
      BY <2>1 DEF FractionTable, ExponentTable
  <1> HIDE DEF S
  <1>5. \A m \in Moves : m[1] \in S => m \in Rows
    BY <1>1, <1>2, <1>3, <1>4 DEF Moves, Rows
  <1> QED
    BY <1>5 DEF S

\* What Delta says where the rows of a state leave one next state to a byte, or none.
LEMMA DeltaOfRow ==
    ASSUME NEW s, NEW c \in Byte, NEW row \in Moves, row[1] = s, c \in row[2],
           \A m \in Moves : m[1] = s /\ c \in m[2] => m[3] = row[3]
    PROVE  s \in DOMAIN Delta /\ Delta[s][c] = row[3]
  <1> DEFINE ms == {m \in Moves : m[1] = s}
  <1>1. s \in {m[1] : m \in Moves}
    OBVIOUS
  <1>2. Delta[s][c] = IF \E m \in ms : c \in m[2]
                      THEN (CHOOSE m \in ms : c \in m[2])[3] ELSE "stuck"
    BY <1>1 DEF Delta, Table, Byte
  <1>3. row \in ms
    OBVIOUS
  <1>4. \E m \in ms : c \in m[2]
    BY <1>3
  <1>5. PICK m \in ms : c \in m[2] /\ Delta[s][c] = m[3]
    BY <1>2, <1>4
  <1>6. m[3] = row[3]
    BY <1>5
  <1>7. DOMAIN Delta = {n[1] : n \in Moves}
    BY DEF Delta, Table
  <1> QED
    BY <1>1, <1>5, <1>6, <1>7

\* No row, no next state.
LEMMA DeltaOfNoRow ==
    ASSUME NEW s \in DOMAIN Delta, NEW c \in Byte, \A m \in Moves : m[1] = s => c \notin m[2]
    PROVE  Delta[s][c] = "stuck"
  <1> DEFINE ms == {m \in Moves : m[1] = s}
  <1>1. s \in {m[1] : m \in Moves}
    BY DEF Delta, Table
  <1>2. Delta[s][c] = IF \E m \in ms : c \in m[2]
                      THEN (CHOOSE m \in ms : c \in m[2])[3] ELSE "stuck"
    BY <1>1 DEF Delta, Table, Byte
  <1> QED
    BY <1>2

\* The rows of the states where a character may begin.
LEMMA PlainRows ==
    ASSUME NEW s \in Plain, NEW m \in Moves, m[1] = s
    PROVE  m \in StringRows(s) \cup FirstRows(s)
  <1>1. m \in Rows
    BY RowsOfStrings DEF Between
  <1>2. m \notin EscapeTable \cup Utf8Table \cup FirstHex \cup OtherHex
    <2>1. s \notin {"escape", "tail1", "tail2", "tail3", "e0", "ed", "f0", "f4", "hex4", "hex3", "hex2", "hex1"}
      BY DEF Plain
    <2> QED
      BY <2>1 DEF EscapeTable, Utf8Table, FirstHex, OtherHex
  <1>3. PICK t \in Plain : m \in StringRows(t) \cup FirstRows(t)
    BY <1>1, <1>2 DEF Rows, StringTable, Plain
  <1>4. m[1] = t
    BY <1>3 DEF StringRows, FirstRows
  <1> QED
    BY <1>3, <1>4

\* What a byte of a string leads to where a character may begin.
After(c) ==
    CASE c \in (32 .. 127) \ {34, 92} -> "string" [] c = 34 -> "quote" [] c = 92 -> "escape"
      [] c \in 194 .. 223 -> "tail1" [] c = 224 -> "e0" [] c = 237 -> "ed"
      [] c \in (225 .. 239) \ {237} -> "tail2" [] c = 240 -> "f0"
      [] c \in 241 .. 243 -> "tail3" [] c = 244 -> "f4" [] OTHER -> "stuck"

\* In both of them Delta is After.
LEMMA PlainDelta ==
    ASSUME NEW s \in Plain, NEW c \in Byte
    PROVE  s \in DOMAIN Delta /\ Delta[s][c] = After(c)
  <1>1. \A m \in StringRows(s) \cup FirstRows(s) : m \in Moves /\ m[1] = s
    <2>1. \A m \in StringRows(s) \cup FirstRows(s) : m[1] = s
      BY DEF StringRows, FirstRows
    <2>2. StringRows(s) \cup FirstRows(s) \subseteq Moves
      BY DEF Plain, Moves, StringTable
    <2> QED
      BY <2>1, <2>2
  <1>2. \A m \in StringRows(s) \cup FirstRows(s) : c \in m[2] => m[3] = After(c) /\ After(c) # "stuck"
    <2>1. \A m \in StringRows(s) : c \in m[2] => m[3] = After(c) /\ After(c) # "stuck"
      BY DEF StringRows, After
    <2>2. \A m \in FirstRows(s) : c \in m[2] => m[3] = After(c) /\ After(c) # "stuck"
      BY DEF FirstRows, After
    <2> QED
      BY <2>1, <2>2
  <1>3. \A m \in Moves : m[1] = s => m \in StringRows(s) \cup FirstRows(s)
    BY PlainRows
  <1>4. CASE \E m \in StringRows(s) \cup FirstRows(s) : c \in m[2]
    <2>1. PICK m \in StringRows(s) \cup FirstRows(s) : c \in m[2]
      BY <1>4
    <2>2. m[3] = After(c) /\ m \in Moves /\ m[1] = s
      BY <1>1, <1>2, <2>1
    <2>3. \A n \in Moves : n[1] = s /\ c \in n[2] => n[3] = m[3]
      BY <1>2, <1>3, <2>2
    <2> QED
      BY <2>1, <2>2, <2>3, DeltaOfRow
  <1>5. CASE ~\E m \in StringRows(s) \cup FirstRows(s) : c \in m[2]
    <2>1. s \in DOMAIN Delta
      <3>1. <<s, {34}, "quote">> \in StringRows(s)
        BY DEF StringRows
      <3>2. <<s, {34}, "quote">> \in Moves /\ <<s, {34}, "quote">>[1] = s
        BY <1>1, <3>1
      <3>3. DOMAIN Delta = {m[1] : m \in Moves}
        BY DEF Delta, Table
      <3> QED
        BY <3>2, <3>3
    <2>2. Delta[s][c] = "stuck"
      BY <1>3, <1>5, <2>1, DeltaOfNoRow
    <2>3. After(c) = "stuck"
      <3>1. /\ <<s, (32 .. 127) \ {34, 92}, "string">> \in StringRows(s) /\ <<s, {34}, "quote">> \in StringRows(s)
            /\ <<s, {92}, "escape">> \in StringRows(s)
        BY DEF StringRows
      <3>2. /\ <<s, 194 .. 223, "tail1">> \in FirstRows(s) /\ <<s, {224}, "e0">> \in FirstRows(s)
            /\ <<s, (225 .. 239) \ {237}, "tail2">> \in FirstRows(s) /\ <<s, {237}, "ed">> \in FirstRows(s)
            /\ <<s, {240}, "f0">> \in FirstRows(s) /\ <<s, 241 .. 243, "tail3">> \in FirstRows(s)
            /\ <<s, {244}, "f4">> \in FirstRows(s)
        BY DEF FirstRows
      <3>3. \A S, t : <<s, S, t>> \in StringRows(s) \cup FirstRows(s) => c \notin S
        BY <1>5
      <3>4. c \notin (32 .. 127) \ {34, 92} /\ c \notin {34} /\ c \notin {92}
        BY <3>1, <3>3
      <3>5. /\ c \notin 194 .. 223 /\ c \notin {224} /\ c \notin (225 .. 239) \ {237} /\ c \notin {237}
            /\ c \notin {240} /\ c \notin 241 .. 243 /\ c \notin {244}
        BY <3>2, <3>3
      <3> QED
        BY <3>4, <3>5 DEF After
    <2> QED
      BY <2>1, <2>2, <2>3
  <1> QED
    BY <1>4, <1>5

\* A state with one row goes where the row says.
LEMMA OneRow ==
    ASSUME NEW s, NEW S, NEW t, <<s, S, t>> \in Moves, NEW c \in Byte,
           \A m \in Moves : m[1] = s => m = <<s, S, t>>
    PROVE  s \in DOMAIN Delta /\ Delta[s][c] = IF c \in S THEN t ELSE "stuck"
  <1> DEFINE row == <<s, S, t>>
  <1>1. row \in Moves /\ row[1] = s /\ row[2] = S /\ row[3] = t
    OBVIOUS
  <1>2. \A m \in Moves : m[1] = s => m = row
    OBVIOUS
  <1> HIDE DEF row
  <1>3. CASE c \in S
    <2>1. \A m \in Moves : m[1] = s /\ c \in m[2] => m[3] = row[3]
      BY <1>2
    <2>2. c \in row[2]
      BY <1>1, <1>3
    <2> QED
      BY <1>1, <1>3, <2>1, <2>2, DeltaOfRow
  <1>4. CASE c \notin S
    <2>1. \A m \in Moves : m[1] = s => c \notin m[2]
      BY <1>1, <1>2, <1>4
    <2>2. s \in DOMAIN Delta
      <3>1. DOMAIN Delta = {m[1] : m \in Moves}
        BY DEF Delta, Table
      <3> QED
        BY <1>1, <3>1
    <2> QED
      BY <1>4, <2>1, <2>2, DeltaOfNoRow
  <1> QED
    BY <1>3, <1>4

\* The further bytes that a state expects, and the state behind the first of them.
Tail1(s) ==
    CASE s \in {"tail1", "tail2", "tail3"} -> Continuation
      [] s = "e0" -> 160 .. 191 [] s = "ed" -> 128 .. 159
      [] s = "f0" -> 144 .. 191 [] s = "f4" -> 128 .. 143
Behind(s) ==
    CASE s = "tail1" -> "string" [] s \in {"tail2", "e0", "ed"} -> "tail1"
      [] s \in {"tail3", "f0", "f4"} -> "tail2"

\* The rows inside a character: one for each state.
LEMMA TailRows ==
    ASSUME NEW s \in Tails
    PROVE  /\ <<s, Tail1(s), Behind(s)>> \in Moves
           /\ \A m \in Moves : m[1] = s => m = <<s, Tail1(s), Behind(s)>>
  <1>1. \A m \in Utf8Table : m = <<m[1], Tail1(m[1]), Behind(m[1])>>
    BY DEF Utf8Table, Tail1, Behind
  <1>2. <<s, Tail1(s), Behind(s)>> \in Utf8Table
    BY DEF Utf8Table, Tail1, Behind, Tails
  <1>3. ASSUME NEW m \in Moves, m[1] = s
        PROVE  m = <<s, Tail1(s), Behind(s)>>
    <2>1. m \in Rows
      BY <1>3, RowsOfStrings DEF Between
    <2>2. m \notin StringTable \cup EscapeTable \cup FirstHex \cup OtherHex
      <3>1. s \notin {"open", "string", "escape", "hex4", "hex3", "hex2", "hex1"}
        BY DEF Tails
      <3>2. m \notin StringTable
        BY <1>3, <3>1 DEF StringTable, StringRows, FirstRows
      <3> QED
        BY <1>3, <3>1, <3>2 DEF EscapeTable, FirstHex, OtherHex
    <2> QED
      BY <1>1, <1>3, <2>1, <2>2 DEF Rows
  <1> QED
    BY <1>2, <1>3 DEF Moves

\* Inside a character Delta takes the further bytes that the rows name.
LEMMA TailDelta ==
    ASSUME NEW s \in Tails, NEW c \in Byte
    PROVE  s \in DOMAIN Delta /\ Delta[s][c] = IF c \in Tail1(s) THEN Behind(s) ELSE "stuck"
  <1>1. <<s, Tail1(s), Behind(s)>> \in Moves
    BY TailRows
  <1>2. \A m \in Moves : m[1] = s => m = <<s, Tail1(s), Behind(s)>>
    BY TailRows
  <1> QED
    BY <1>1, <1>2, OneRow

HexBehind(s) ==
    CASE s = "hex4" -> "hex3" [] s = "hex3" -> "hex2" [] s = "hex2" -> "hex1" [] s = "hex1" -> "string"

\* In the digits of an escape it takes digits.
LEMMA HexDelta ==
    ASSUME NEW s \in Hexes, NEW c \in Byte
    PROVE  s \in DOMAIN Delta /\ Delta[s][c] = IF c \in HexDigits THEN HexBehind(s) ELSE "stuck"
  <1>1. \A m \in FirstHex \cup OtherHex : m = <<m[1], HexDigits, HexBehind(m[1])>>
    BY DEF FirstHex, OtherHex, HexBehind
  <1>2. <<s, HexDigits, HexBehind(s)>> \in FirstHex \cup OtherHex
    BY DEF FirstHex, OtherHex, HexBehind, Hexes
  <1>3. ASSUME NEW m \in Moves, m[1] = s
        PROVE  m = <<s, HexDigits, HexBehind(s)>>
    <2>1. m \in Rows
      BY <1>3, RowsOfStrings
    <2>2. m \notin StringTable \cup EscapeTable \cup Utf8Table
      <3>1. s \notin {"open", "string", "escape", "tail1", "tail2", "tail3", "e0", "ed", "f0", "f4"}
        BY DEF Hexes
      <3>2. m \notin StringTable
        BY <1>3, <3>1 DEF StringTable, StringRows, FirstRows
      <3> QED
        BY <1>3, <3>1, <3>2 DEF EscapeTable, Utf8Table
    <2> QED
      BY <1>1, <1>3, <2>1, <2>2 DEF Rows
  <1>4. <<s, HexDigits, HexBehind(s)>> \in Moves
    BY <1>2 DEF Moves
  <1> QED
    BY <1>3, <1>4, OneRow

\* Behind a backslash it takes what may be escaped.
LEMMA EscapeDelta ==
    ASSUME NEW c \in Byte
    PROVE  /\ "escape" \in DOMAIN Delta
           /\ Delta["escape"][c] = IF c \in DOMAIN Escapes THEN "string"
                                   ELSE IF c = 117 THEN "hex4" ELSE "stuck"
  <1> DEFINE S == {34, 47, 92, 98, 102, 110, 114, 116}
             row1 == <<"escape", S, "string">>
             row2 == <<"escape", {117}, "hex4">>
  <1>1. row1 \in Moves /\ row2 \in Moves
    BY DEF Moves, EscapeTable
  <1>2. ASSUME NEW m \in Moves, m[1] = "escape"
        PROVE  m \in {row1, row2}
    <2>1. m \in Rows
      BY <1>2, RowsOfStrings
    <2>2. m \notin StringTable
      BY <1>2 DEF StringTable, StringRows, FirstRows
    <2>3. m \notin Utf8Table \cup FirstHex \cup OtherHex
      BY <1>2 DEF Utf8Table, FirstHex, OtherHex
    <2> QED
      BY <2>1, <2>2, <2>3 DEF Rows, EscapeTable
  <1>3. DOMAIN Escapes = S
    BY DEF Escapes
  <1>4. /\ row1[1] = "escape" /\ row1[2] = S /\ row1[3] = "string"
        /\ row2[1] = "escape" /\ row2[2] = {117} /\ row2[3] = "hex4"
    OBVIOUS
  <1>5. 117 \notin S
    OBVIOUS
  <1>6. "escape" \in DOMAIN Delta
    <2>1. DOMAIN Delta = {m[1] : m \in Moves}
      BY DEF Delta, Table
    <2> QED
      BY <1>1, <1>4, <2>1
  <1> HIDE DEF S, row1, row2
  <1>7. CASE c \in S
    <2>1. \A m \in Moves : m[1] = "escape" /\ c \in m[2] => m[3] = row1[3]
      BY <1>2, <1>4, <1>5, <1>7
    <2>2. Delta["escape"][c] = row1[3]
      BY <1>1, <1>4, <1>7, <2>1, DeltaOfRow
    <2> QED
      BY <1>3, <1>4, <1>6, <1>7, <2>2
  <1>8. CASE c = 117
    <2>1. \A m \in Moves : m[1] = "escape" /\ c \in m[2] => m[3] = row2[3]
      BY <1>2, <1>4, <1>5, <1>8
    <2>2. Delta["escape"][c] = row2[3]
      BY <1>1, <1>4, <1>8, <2>1, DeltaOfRow
    <2> QED
      BY <1>3, <1>4, <1>5, <1>6, <1>8, <2>2
  <1>9. CASE c \notin S /\ c # 117
    <2>1. \A m \in Moves : m[1] = "escape" => c \notin m[2]
      BY <1>2, <1>4, <1>9
    <2> QED
      BY <1>3, <1>6, <1>9, <2>1, DeltaOfNoRow
  <1> QED
    BY <1>7, <1>8, <1>9

\* A token begins with a quote where a string does; nothing goes on behind one.
LEMMA OpenDelta ==
    /\ "start" \in DOMAIN Delta
    /\ \A c \in Byte : Delta["start"][c] \in Between \cup Hexes \cup {"escape", "quote"} => c = 34
    /\ Delta["start"][34] = "open"
  <1>1. ASSUME NEW m \in Moves, m[1] = "start"
        PROVE  m \in StartTable
    <2>1. m \notin SpaceTable \cup LiteralHeads \cup LiteralTails
      BY <1>1 DEF SpaceTable, LiteralHeads, LiteralTails
    <2>2. m \notin IntegerTable \cup NegativeTable
      BY <1>1 DEF IntegerTable, NegativeTable
    <2>3. m \notin FractionTable \cup ExponentTable
      BY <1>1 DEF FractionTable, ExponentTable
    <2>4. m \notin StringTable
      BY <1>1 DEF StringTable, StringRows, FirstRows
    <2>5. m \notin EscapeTable \cup Utf8Table \cup FirstHex \cup OtherHex
      BY <1>1 DEF EscapeTable, Utf8Table, FirstHex, OtherHex
    <2> QED
      BY <2>1, <2>2, <2>3, <2>4, <2>5 DEF Moves
  <1>2. \A m \in StartTable : m[3] \in Between \cup Hexes \cup {"escape", "quote"} => m[2] = {34}
    BY DEF StartTable, Between, Plain, Tails, Hexes
  <1>3. \A m \in StartTable : 34 \in m[2] => m[3] = "open"
    BY DEF StartTable, Blanks
  <1>4. <<"start", {34}, "open">> \in Moves
    BY DEF StartTable, Moves
  <1>5. "start" \in DOMAIN Delta /\ Delta["start"][34] = "open"
    <2> DEFINE row == <<"start", {34}, "open">>
    <2>1. row \in Moves /\ row[1] = "start" /\ 34 \in row[2] /\ row[3] = "open"
      BY <1>4
    <2>2. \A m \in Moves : m[1] = "start" /\ 34 \in m[2] => m[3] = row[3]
      BY <1>1, <1>3, <2>1
    <2>3. 34 \in Byte
      BY DEF Byte
    <2> HIDE DEF row
    <2> QED
      BY <2>1, <2>2, <2>3, DeltaOfRow
  <1>6. ASSUME NEW c \in Byte, Delta["start"][c] \in Between \cup Hexes \cup {"escape", "quote"}
        PROVE  c = 34
    <2> DEFINE ms == {m \in Moves : m[1] = "start"}
    <2>1. "start" \in {m[1] : m \in Moves}
      BY <1>4
    <2>2. Delta["start"][c] = IF \E m \in ms : c \in m[2]
                              THEN (CHOOSE m \in ms : c \in m[2])[3] ELSE "stuck"
      BY <2>1 DEF Delta, Table, Byte
    <2>3. "stuck" \notin Between \cup Hexes \cup {"escape", "quote"}
      BY DEF Between, Plain, Tails, Hexes
    <2>4. PICK m \in ms : c \in m[2] /\ Delta["start"][c] = m[3]
      <3>1. \E m \in ms : c \in m[2]
        BY <1>6, <2>2, <2>3
      <3> QED
        BY <2>2, <3>1
    <2>5. m \in StartTable
      BY <1>1, <2>4
    <2>6. m[2] = {34}
      BY <1>2, <1>6, <2>4, <2>5
    <2> QED
      BY <2>4, <2>6
  <1> QED
    BY <1>5, <1>6

-----------------------------------------------------------------------------
(* Strings: UTF-8.                                                         *)

\* Which characters of three and of four bytes are overlong, surrogates or too large
\* shows in their first two bytes.
LEMMA ThreeBytes ==
    ASSUME NEW a \in Int, NEW b \in Int, NEW d \in Int,
           224 <= a, a <= 239, 128 <= b, b <= 191, 128 <= d, d <= 191,
           NEW n \in Int, n = (a - 224) * 4096 + (b - 128) * 64 + d - 128
    PROVE  /\ n >= 2048 <=> (a = 224 => b >= 160)
           /\ n < 55296 \/ 57343 < n <=> (a = 237 => b <= 159)
  OBVIOUS

\* The same of four bytes.
LEMMA FourBytes ==
    ASSUME NEW a \in Int, NEW b \in Int, NEW d \in Int, NEW e \in Int,
           240 <= a, a <= 247, 128 <= b, b <= 191, 128 <= d, d <= 191, 128 <= e, e <= 191,
           NEW n \in Int, n = (a - 240) * 262144 + (b - 128) * 4096 + (d - 128) * 64 + e - 128
    PROVE  /\ n >= 65536 <=> (a = 240 => b >= 144)
           /\ n <= 1114111 <=> a <= 244 /\ (a = 244 => b <= 143)
  OBVIOUS

\* Bytes are small numbers.
LEMMA BytesAreIntegers == \A c \in Byte : c \in Int /\ 0 <= c /\ c <= 255
  BY DEF Byte

\* What IsUtf8 says of each length.
LEMMA Utf8OfTwo ==
    ASSUME NEW u, Len(u) = 2, NEW a \in Int, NEW b \in Int, u[1] = a, u[2] = b
    PROVE  IsUtf8(u) <=> 194 <= a /\ a <= 223 /\ 128 <= b /\ b <= 191
  <1>1. IsUtf8(u) <=> u[1] \in 192 .. 223 /\ Trailing(u, 2) /\ Number2(u) >= 128
    BY DEF IsUtf8
  <1>2. Trailing(u, 2) <=> 128 <= b /\ b <= 191
    BY DEF Trailing
  <1>3. Number2(u) = (a - 192) * 64 + b - 128
    BY DEF Number2
  <1> QED
    BY <1>1, <1>2, <1>3

\* Three bytes for those of the next plane up to U+FFFF.
LEMMA Utf8OfThree ==
    ASSUME NEW u, Len(u) = 3, NEW a \in Int, NEW b \in Int, NEW d \in Int,
           u[1] = a, u[2] = b, u[3] = d
    PROVE  IsUtf8(u) <=> /\ 224 <= a /\ a <= 239 /\ 128 <= b /\ b <= 191 /\ 128 <= d /\ d <= 191
                         /\ a = 224 => b >= 160
                         /\ a = 237 => b <= 159
  <1> DEFINE n == (a - 224) * 4096 + (b - 128) * 64 + d - 128
  <1>1. IsUtf8(u) <=> /\ u[1] \in 224 .. 239 /\ Trailing(u, 3)
                      /\ Number3(u) >= 2048 /\ (Number3(u) < 55296 \/ 57343 < Number3(u))
    BY DEF IsUtf8
  <1>2. Trailing(u, 3) <=> 128 <= b /\ b <= 191 /\ 128 <= d /\ d <= 191
    <2>1. Trailing(u, 3) <=> u[2] \in 128 .. 191 /\ u[3] \in 128 .. 191
      BY DEF Trailing
    <2> QED
      BY <2>1
  <1>3. Number3(u) = n /\ n \in Int
    BY DEF Number3
  <1>4. u[1] \in 224 .. 239 <=> 224 <= a /\ a <= 239
    OBVIOUS
  <1> HIDE DEF n
  <1>5. IsUtf8(u) <=> /\ 224 <= a /\ a <= 239 /\ 128 <= b /\ b <= 191 /\ 128 <= d /\ d <= 191
                      /\ n >= 2048 /\ (n < 55296 \/ 57343 < n)
    BY <1>1, <1>2, <1>3, <1>4
  <1>6. ASSUME 224 <= a, a <= 239, 128 <= b, b <= 191, 128 <= d, d <= 191
        PROVE  /\ n >= 2048 <=> (a = 224 => b >= 160)
               /\ n < 55296 \/ 57343 < n <=> (a = 237 => b <= 159)
    BY <1>3, <1>6, ThreeBytes DEF n
  <1> QED
    BY <1>5, <1>6

\* Four bytes for the others.
LEMMA Utf8OfFour ==
    ASSUME NEW u, Len(u) = 4, NEW a \in Int, NEW b \in Int, NEW d \in Int, NEW e \in Int,
           u[1] = a, u[2] = b, u[3] = d, u[4] = e
    PROVE  IsUtf8(u) <=> /\ 240 <= a /\ a <= 244 /\ 128 <= b /\ b <= 191
                         /\ 128 <= d /\ d <= 191 /\ 128 <= e /\ e <= 191
                         /\ a = 240 => b >= 144
                         /\ a = 244 => b <= 143
  <1> DEFINE n == (a - 240) * 262144 + (b - 128) * 4096 + (d - 128) * 64 + e - 128
  <1>1. IsUtf8(u) <=> /\ u[1] \in 240 .. 247 /\ Trailing(u, 4)
                      /\ 65536 <= Number4(u) /\ Number4(u) <= 1114111
    BY DEF IsUtf8
  <1>2. Trailing(u, 4) <=> /\ 128 <= b /\ b <= 191 /\ 128 <= d /\ d <= 191
                           /\ 128 <= e /\ e <= 191
    <2>1. Trailing(u, 4) <=> u[2] \in 128 .. 191 /\ u[3] \in 128 .. 191 /\ u[4] \in 128 .. 191
      BY DEF Trailing
    <2> QED
      BY <2>1
  <1>3. Number4(u) = n /\ n \in Int
    BY DEF Number4
  <1>4. u[1] \in 240 .. 247 <=> 240 <= a /\ a <= 247
    OBVIOUS
  <1> HIDE DEF n
  <1>5. IsUtf8(u) <=> /\ 240 <= a /\ a <= 247 /\ 128 <= b /\ b <= 191
                      /\ 128 <= d /\ d <= 191 /\ 128 <= e /\ e <= 191
                      /\ 65536 <= n /\ n <= 1114111
    BY <1>1, <1>2, <1>3, <1>4
  <1>6. ASSUME 240 <= a, a <= 247, 128 <= b, b <= 191, 128 <= d, d <= 191, 128 <= e, e <= 191
        PROVE  /\ n >= 65536 <=> (a = 240 => b >= 144)
               /\ n <= 1114111 <=> a <= 244 /\ (a = 244 => b <= 143)
    BY <1>3, <1>6, FourBytes DEF n
  <1>7. 65536 <= n <=> n >= 65536
    BY <1>3
  <1> QED
    BY <1>5, <1>6, <1>7

\* How many further bytes the scanner waits for in a state, and which make a whole
\* character.
Wait(s) ==
    CASE s \in Plain -> 0 [] s = "tail1" -> 1 [] s \in {"tail2", "e0", "ed"} -> 2
      [] s \in {"tail3", "f0", "f4"} -> 3
IsRest(s, r) ==
    /\ r \in Seq(Byte) /\ Len(r) = Wait(s)
    /\ Wait(s) > 0 => r[1] \in Tail1(s)
    /\ \A i \in 2 .. Len(r) : r[i] \in Continuation

\* What each state inside a character waits for.
LEMMA Waits ==
    ASSUME NEW s \in Tails
    PROVE  /\ Wait(s) \in 1 .. 3 /\ Wait(Behind(s)) = Wait(s) - 1
           /\ Behind(s) \in Between
           /\ Wait(Behind(s)) > 0 => Tail1(Behind(s)) = Continuation
           /\ Tail1(s) \subseteq Continuation
  <1>1. CASE s = "tail1"
    BY <1>1 DEF Wait, Behind, Tail1, Between, Plain
  <1>2. CASE s \in {"tail2", "e0", "ed"}
    <2>1. Behind(s) = "tail1" /\ Wait(s) = 2
      BY <1>2 DEF Behind, Wait, Plain
    <2>2. Wait("tail1") = 1 /\ Tail1("tail1") = Continuation /\ "tail1" \in Between
      BY DEF Wait, Plain, Tail1, Between, Tails
    <2>3. Tail1(s) \subseteq Continuation
      BY <1>2 DEF Tail1, Continuation
    <2> QED
      BY <2>1, <2>2, <2>3
  <1>3. CASE s \in {"tail3", "f0", "f4"}
    <2>1. Behind(s) = "tail2" /\ Wait(s) = 3
      BY <1>3 DEF Behind, Wait, Plain
    <2>2. Wait("tail2") = 2 /\ Tail1("tail2") = Continuation /\ "tail2" \in Between
      BY DEF Wait, Plain, Tail1, Between, Tails
    <2>3. Tail1(s) \subseteq Continuation
      BY <1>3 DEF Tail1, Continuation
    <2> QED
      BY <2>1, <2>2, <2>3
  <1> QED
    BY <1>1, <1>2, <1>3 DEF Tails

\* The further bytes of a character are above ASCII.
LEMMA ContinuationBytes ==
    \A c : c \in Continuation <=> c \in Int /\ 128 <= c /\ c <= 191
  BY DEF Continuation

\* A byte in front of a text, and the first byte taken off.
LEMMA Pushed ==
    ASSUME NEW c \in Byte, NEW r \in Seq(Byte), NEW q, q = <<c>> \o r
    PROVE  /\ q \in Seq(Byte) /\ Len(q) = Len(r) + 1 /\ Len(r) \in Nat
           /\ q[1] = c /\ \A i \in 2 .. Len(q) : i - 1 \in 1 .. Len(r) /\ q[i] = r[i - 1]
  OBVIOUS

\* A text is its first byte and the rest.
LEMMA Popped ==
    ASSUME NEW r \in Seq(Byte), Len(r) > 0, NEW q, q = Tail(r)
    PROVE  /\ q \in Seq(Byte) /\ Len(q) = Len(r) - 1 /\ Len(r) \in Nat
           /\ \A i \in 1 .. Len(q) : i + 1 \in 2 .. Len(r) /\ q[i] = r[i + 1]
  OBVIOUS

\* What the state behind waits for, with the byte in front, is what the state waits for.
LEMMA RestGrows ==
    ASSUME NEW s \in Tails, NEW c \in Tail1(s), NEW r, IsRest(Behind(s), r)
    PROVE  c \in Byte /\ IsRest(s, <<c>> \o r)
  <1> DEFINE q == <<c>> \o r
  <1>1. c \in Byte
    <2>1. c \in Continuation
      BY Waits
    <2> QED
      BY <2>1 DEF Continuation, Byte
  <1>2. r \in Seq(Byte) /\ Len(r) = Wait(Behind(s))
    BY DEF IsRest
  <1>3. /\ q \in Seq(Byte) /\ Len(q) = Len(r) + 1 /\ Len(r) \in Nat
        /\ q[1] = c /\ \A i \in 2 .. Len(q) : i - 1 \in 1 .. Len(r) /\ q[i] = r[i - 1]
    BY <1>1, <1>2, Pushed
  <1> HIDE DEF q
  <1>4. \A i \in 1 .. Len(r) : r[i] \in Continuation
    <2> TAKE i \in 1 .. Len(r)
    <2>1. CASE i = 1
      <3>1. Wait(Behind(s)) > 0
        BY <1>2, <1>3
      <3>2. r[1] \in Tail1(Behind(s))
        BY <3>1 DEF IsRest
      <3>3. Tail1(Behind(s)) = Continuation
        BY <3>1, Waits
      <3> QED
        BY <2>1, <3>2, <3>3
    <2>2. CASE i # 1
      <3>1. i \in 2 .. Len(r)
        BY <1>3, <2>2
      <3> QED
        BY <3>1 DEF IsRest
    <2> QED
      BY <2>1, <2>2
  <1>5. Len(q) = Wait(s)
    <2>1. Wait(s) \in 1 .. 3 /\ Wait(Behind(s)) = Wait(s) - 1
      BY Waits
    <2> QED
      BY <1>2, <1>3, <2>1
  <1>6. \A i \in 2 .. Len(q) : q[i] \in Continuation
    BY <1>3, <1>4
  <1>7. IsRest(s, q)
    BY <1>3, <1>5, <1>6 DEF IsRest
  <1> QED
    BY <1>1, <1>7 DEF q

\* The first of the bytes expected, and those behind it.
LEMMA RestShrinks ==
    ASSUME NEW s \in Tails, NEW r, IsRest(s, r)
    PROVE  /\ r \in Seq(Byte) /\ Len(r) > 0 /\ r[1] \in Tail1(s) /\ IsRest(Behind(s), Tail(r))
  <1> DEFINE q == Tail(r)
  <1>1. r \in Seq(Byte) /\ Len(r) = Wait(s)
    BY DEF IsRest
  <1>2. Wait(s) \in 1 .. 3 /\ Wait(Behind(s)) = Wait(s) - 1
    BY Waits
  <1>3. Wait(s) > 0 /\ Len(r) > 0
    BY <1>1, <1>2
  <1>4. r[1] \in Tail1(s)
    BY <1>3 DEF IsRest
  <1>5. /\ q \in Seq(Byte) /\ Len(q) = Len(r) - 1 /\ Len(r) \in Nat
        /\ \A i \in 1 .. Len(q) : i + 1 \in 2 .. Len(r) /\ q[i] = r[i + 1]
    BY <1>1, <1>3, Popped
  <1> HIDE DEF q
  <1>6. \A i \in 1 .. Len(q) : q[i] \in Continuation
    <2>1. \A i \in 2 .. Len(r) : r[i] \in Continuation
      BY DEF IsRest
    <2> QED
      BY <1>5, <2>1
  <1>7. Len(q) = Wait(Behind(s))
    BY <1>1, <1>2, <1>5
  <1>8. Wait(Behind(s)) > 0 => q[1] \in Tail1(Behind(s))
    <2>1. SUFFICES ASSUME Wait(Behind(s)) > 0
                   PROVE  q[1] \in Tail1(Behind(s))
      OBVIOUS
    <2>2. 1 \in 1 .. Len(q)
      BY <1>7, <2>1, <1>2
    <2> QED
      BY <1>6, <2>1, <2>2, Waits
  <1>9. \A i \in 2 .. Len(q) : q[i] \in Continuation
    <2>1. \A i \in 2 .. Len(q) : i \in 1 .. Len(q)
      BY <1>5
    <2> QED
      BY <1>6, <2>1
  <1>10. IsRest(Behind(s), q)
    BY <1>5, <1>7, <1>8, <1>9 DEF IsRest
  <1> QED
    BY <1>1, <1>3, <1>4, <1>10 DEF q

\* Where a character of two, three or four bytes begins.
LEMMA FirstOfTwo ==
    ASSUME NEW c \in Int, 194 <= c, c <= 223
    PROVE  /\ After(c) = "tail1" /\ After(c) \in Tails /\ Wait(After(c)) = 1
           /\ \A b : b \in Tail1(After(c)) <=> b \in Int /\ 128 <= b /\ b <= 191
  <1>1. After(c) = "tail1"
    BY DEF After
  <1>2. "tail1" \in Tails /\ Wait("tail1") = 1 /\ Tail1("tail1") = Continuation
    BY DEF Tails, Wait, Plain, Tail1
  <1> QED
    BY <1>1, <1>2, ContinuationBytes

\* The same of three bytes.
LEMMA FirstOfThree ==
    ASSUME NEW c \in Int, 224 <= c, c <= 239
    PROVE  /\ After(c) \in Tails /\ Wait(After(c)) = 2
           /\ \A b : b \in Tail1(After(c)) <=> /\ b \in Int /\ 128 <= b /\ b <= 191
                                               /\ c = 224 => b >= 160
                                               /\ c = 237 => b <= 159
  <1>1. CASE c = 224
    <2>1. After(c) = "e0"
      BY <1>1 DEF After
    <2>2. "e0" \in Tails /\ Wait("e0") = 2 /\ Tail1("e0") = 160 .. 191
      BY DEF Tails, Wait, Plain, Tail1
    <2> QED
      BY <1>1, <2>1, <2>2
  <1>2. CASE c = 237
    <2>1. After(c) = "ed"
      BY <1>2 DEF After
    <2>2. "ed" \in Tails /\ Wait("ed") = 2 /\ Tail1("ed") = 128 .. 159
      BY DEF Tails, Wait, Plain, Tail1
    <2> QED
      BY <1>2, <2>1, <2>2
  <1>3. CASE c # 224 /\ c # 237
    <2>1. After(c) = "tail2"
      BY <1>3 DEF After
    <2>2. "tail2" \in Tails /\ Wait("tail2") = 2 /\ Tail1("tail2") = Continuation
      BY DEF Tails, Wait, Plain, Tail1
    <2> QED
      BY <1>3, <2>1, <2>2, ContinuationBytes
  <1> QED
    BY <1>1, <1>2, <1>3

\* The same of four bytes.
LEMMA FirstOfFour ==
    ASSUME NEW c \in Int, 240 <= c, c <= 244
    PROVE  /\ After(c) \in Tails /\ Wait(After(c)) = 3
           /\ \A b : b \in Tail1(After(c)) <=> /\ b \in Int /\ 128 <= b /\ b <= 191
                                               /\ c = 240 => b >= 144
                                               /\ c = 244 => b <= 143
  <1>1. CASE c = 240
    <2>1. After(c) = "f0"
      BY <1>1 DEF After
    <2>2. "f0" \in Tails /\ Wait("f0") = 3 /\ Tail1("f0") = 144 .. 191
      BY DEF Tails, Wait, Plain, Tail1
    <2> QED
      BY <1>1, <2>1, <2>2
  <1>2. CASE c = 244
    <2>1. After(c) = "f4"
      BY <1>2 DEF After
    <2>2. "f4" \in Tails /\ Wait("f4") = 3 /\ Tail1("f4") = 128 .. 143
      BY DEF Tails, Wait, Plain, Tail1
    <2> QED
      BY <1>2, <2>1, <2>2
  <1>3. CASE c # 240 /\ c # 244
    <2>1. After(c) = "tail3"
      BY <1>3 DEF After
    <2>2. "tail3" \in Tails /\ Wait("tail3") = 3 /\ Tail1("tail3") = Continuation
      BY DEF Tails, Wait, Plain, Tail1
    <2> QED
      BY <1>3, <2>1, <2>2, ContinuationBytes
  <1> QED
    BY <1>1, <1>2, <1>3

\* A first byte and what the scanner lets follow it are a character.
LEMMA CharacterOf ==
    ASSUME NEW c \in Byte, After(c) \in Between, NEW r, IsRest(After(c), r)
    PROVE  <<c>> \o r \in Seq(Byte) /\ IsUtf8(<<c>> \o r)
  <1>1. r \in Seq(Byte) /\ Len(r) = Wait(After(c))
    BY DEF IsRest
  <1> DEFINE q == <<c>> \o r
  <1>2. /\ q \in Seq(Byte) /\ Len(q) = Len(r) + 1 /\ Len(r) \in Nat
        /\ q[1] = c /\ \A i \in 2 .. Len(q) : i - 1 \in 1 .. Len(r) /\ q[i] = r[i - 1]
    BY <1>1, Pushed
  <1>3. c \in Int
    BY BytesAreIntegers
  <1> HIDE DEF q
  <1>4. \A i \in 2 .. Len(r) : r[i] \in Int /\ 128 <= r[i] /\ r[i] <= 191
    BY ContinuationBytes DEF IsRest
  <1>5. Wait(After(c)) > 0 => r[1] \in Tail1(After(c))
    BY DEF IsRest
  <1>6. ASSUME c < 128
        PROVE  IsUtf8(q)
    <2>1. After(c) = "string"
      BY <1>3, <1>6 DEF After, Between, Plain, Tails
    <2>2. Wait("string") = 0
      BY DEF Wait, Plain
    <2>3. Len(q) = 1
      BY <1>1, <1>2, <2>1, <2>2
    <2>4. q[1] < 128
      BY <1>2, <1>6
    <2> QED
      BY <2>3, <2>4 DEF IsUtf8
  <1>7. ASSUME 194 <= c, c <= 223
        PROVE  IsUtf8(q)
    <2>1. /\ Wait(After(c)) = 1
          /\ \A b : b \in Tail1(After(c)) <=> b \in Int /\ 128 <= b /\ b <= 191
      BY <1>3, <1>7, FirstOfTwo
    <2>2. r[1] \in Int /\ 128 <= r[1] /\ r[1] <= 191
      BY <1>5, <2>1
    <2>3. Len(q) = 2
      BY <1>1, <1>2, <2>1
    <2>4. q[2] = r[1]
      <3>1. 2 \in 2 .. Len(q) /\ 2 - 1 = 1
        BY <2>3
      <3> QED
        BY <1>2, <3>1
    <2> QED
      BY <1>2, <1>3, <1>7, <2>2, <2>3, <2>4, Utf8OfTwo
  <1>8. ASSUME 224 <= c, c <= 239
        PROVE  IsUtf8(q)
    <2>1. /\ Wait(After(c)) = 2
          /\ \A b : b \in Tail1(After(c)) <=> /\ b \in Int /\ 128 <= b /\ b <= 191
                                              /\ c = 224 => b >= 160
                                              /\ c = 237 => b <= 159
      BY <1>3, <1>8, FirstOfThree
    <2>2. /\ r[1] \in Int /\ 128 <= r[1] /\ r[1] <= 191
          /\ c = 224 => r[1] >= 160
          /\ c = 237 => r[1] <= 159
      BY <1>5, <2>1
    <2>3. Len(q) = 3 /\ Len(r) = 2
      BY <1>1, <1>2, <2>1
    <2>4. q[2] = r[1] /\ q[3] = r[2]
      BY <1>2, <2>3
    <2>5. r[2] \in Int /\ 128 <= r[2] /\ r[2] <= 191
      BY <1>4, <2>3
    <2> QED
      BY <1>2, <1>3, <1>8, <2>2, <2>3, <2>4, <2>5, Utf8OfThree
  <1>9. ASSUME 240 <= c, c <= 244
        PROVE  IsUtf8(q)
    <2>1. /\ Wait(After(c)) = 3
          /\ \A b : b \in Tail1(After(c)) <=> /\ b \in Int /\ 128 <= b /\ b <= 191
                                              /\ c = 240 => b >= 144
                                              /\ c = 244 => b <= 143
      BY <1>3, <1>9, FirstOfFour
    <2>2. /\ r[1] \in Int /\ 128 <= r[1] /\ r[1] <= 191
          /\ c = 240 => r[1] >= 144
          /\ c = 244 => r[1] <= 143
      BY <1>5, <2>1
    <2>3. Len(q) = 4 /\ Len(r) = 3
      BY <1>1, <1>2, <2>1
    <2>4. q[2] = r[1] /\ q[3] = r[2] /\ q[4] = r[3]
      BY <1>2, <2>3
    <2>5. /\ r[2] \in Int /\ 128 <= r[2] /\ r[2] <= 191
          /\ r[3] \in Int /\ 128 <= r[3] /\ r[3] <= 191
      BY <1>4, <2>3
    <2> QED
      BY <1>2, <1>3, <1>9, <2>2, <2>3, <2>4, <2>5, Utf8OfFour
  <1>10. \/ c < 128 \/ (194 <= c /\ c <= 223) \/ (224 <= c /\ c <= 239) \/ (240 <= c /\ c <= 244)
    BY <1>3 DEF After, Between, Plain, Tails
  <1> QED
    BY <1>2, <1>6, <1>7, <1>8, <1>9, <1>10 DEF q

\* Every longer character is made so.
LEMMA CharacterIs ==
    ASSUME NEW u \in Seq(Byte), IsUtf8(u)
    PROVE  /\ Len(u) \in 1 .. 4
           /\ Len(u) = 1 => u[1] < 128
           /\ Len(u) > 1 => u[1] > 127 /\ After(u[1]) \in Tails /\ IsRest(After(u[1]), Tail(u))
  <1>1. Len(u) \in 1 .. 4
    BY DEF IsUtf8
  <1>2. Len(u) = 1 => u[1] < 128
    BY DEF IsUtf8
  <1>3. ASSUME Len(u) > 1
        PROVE  u[1] > 127 /\ After(u[1]) \in Tails /\ IsRest(After(u[1]), Tail(u))
    <2> DEFINE r == Tail(u)
               a == u[1]
    <2>1. /\ r \in Seq(Byte) /\ Len(r) = Len(u) - 1 /\ Len(u) \in Nat
          /\ \A i \in 1 .. Len(r) : i + 1 \in 2 .. Len(u) /\ r[i] = u[i + 1]
      BY <1>3, Popped
    <2>2. \A i \in 1 .. Len(u) : u[i] \in Int
      BY BytesAreIntegers
    <2>3. a \in Int
      BY <1>1, <2>2
    <2> HIDE DEF a, r
    <2>4. CASE Len(u) = 2
      <3>1. u[2] \in Int
        BY <2>2, <2>4
      <3>2. 194 <= a /\ a <= 223 /\ 128 <= u[2] /\ u[2] <= 191
        BY <2>3, <2>4, <3>1, Utf8OfTwo DEF a
      <3>3. After(a) \in Tails /\ Wait(After(a)) = 1 /\ u[2] \in Tail1(After(a))
        BY <2>3, <3>1, <3>2, FirstOfTwo
      <3>4. Len(r) = 1 /\ r[1] = u[2]
        BY <2>1, <2>4
      <3>5. \A i \in 2 .. Len(r) : r[i] \in Continuation
        BY <3>4
      <3>6. IsRest(After(a), r)
        BY <2>1, <3>3, <3>4, <3>5 DEF IsRest
      <3> QED
        BY <2>3, <3>2, <3>3, <3>6 DEF a, r
    <2>5. CASE Len(u) = 3
      <3>1. u[2] \in Int /\ u[3] \in Int
        BY <2>2, <2>5
      <3>2. /\ 224 <= a /\ a <= 239 /\ 128 <= u[2] /\ u[2] <= 191 /\ 128 <= u[3] /\ u[3] <= 191
            /\ a = 224 => u[2] >= 160
            /\ a = 237 => u[2] <= 159
        BY <2>3, <2>5, <3>1, Utf8OfThree DEF a
      <3>3. After(a) \in Tails /\ Wait(After(a)) = 2 /\ u[2] \in Tail1(After(a))
        BY <2>3, <3>1, <3>2, FirstOfThree
      <3>4. Len(r) = 2 /\ r[1] = u[2] /\ r[2] = u[3]
        BY <2>1, <2>5
      <3>5. r[2] \in Continuation
        BY <3>1, <3>2, <3>4, ContinuationBytes
      <3>6. \A i \in 2 .. Len(r) : r[i] \in Continuation
        BY <3>4, <3>5
      <3>7. IsRest(After(a), r)
        BY <2>1, <3>3, <3>4, <3>6 DEF IsRest
      <3> QED
        BY <2>3, <3>2, <3>3, <3>7 DEF a, r
    <2>6. CASE Len(u) = 4
      <3>1. u[2] \in Int /\ u[3] \in Int /\ u[4] \in Int
        BY <2>2, <2>6
      <3>2. /\ 240 <= a /\ a <= 244 /\ 128 <= u[2] /\ u[2] <= 191
            /\ 128 <= u[3] /\ u[3] <= 191 /\ 128 <= u[4] /\ u[4] <= 191
            /\ a = 240 => u[2] >= 144
            /\ a = 244 => u[2] <= 143
        <4> DEFINE b == u[2]
                   d == u[3]
                   e == u[4]
        <4>1. /\ a \in Int /\ b \in Int /\ d \in Int /\ e \in Int
              /\ u[1] = a /\ u[2] = b /\ u[3] = d /\ u[4] = e
          BY <2>3, <3>1 DEF a
        <4>2. IsUtf8(u)
          OBVIOUS
        <4> HIDE DEF b, d, e
        <4>3. /\ 240 <= a /\ a <= 244 /\ 128 <= b /\ b <= 191
              /\ 128 <= d /\ d <= 191 /\ 128 <= e /\ e <= 191
              /\ a = 240 => b >= 144
              /\ a = 244 => b <= 143
          BY ONLY <2>6, <4>1, <4>2, Utf8OfFour
        <4> QED
          BY <4>1, <4>3
      <3>3. After(a) \in Tails /\ Wait(After(a)) = 3 /\ u[2] \in Tail1(After(a))
        BY <2>3, <3>1, <3>2, FirstOfFour
      <3>4. Len(r) = 3 /\ r[1] = u[2] /\ r[2] = u[3] /\ r[3] = u[4]
        BY <2>1, <2>6
      <3>5. r[2] \in Continuation /\ r[3] \in Continuation
        BY <3>1, <3>2, <3>4, ContinuationBytes
      <3>6. \A i \in 2 .. Len(r) : r[i] \in Continuation
        BY <3>4, <3>5
      <3>7. IsRest(After(a), r)
        BY <2>1, <3>3, <3>4, <3>6 DEF IsRest
      <3> QED
        BY <2>3, <3>2, <3>3, <3>7 DEF a, r
    <2>7. Len(u) = 2 \/ Len(u) = 3 \/ Len(u) = 4
      <3>1. Len(u) = 1 \/ Len(u) = 2 \/ Len(u) = 3 \/ Len(u) = 4
        BY DEF IsUtf8
      <3>2. Len(u) # 1
        <4>1. ~(1 > 1)
          OBVIOUS
        <4> QED
          BY <1>3, <4>1, Zenon
      <3> QED
        BY <3>1, <3>2
    <2> QED
      BY <2>4, <2>5, <2>6, <2>7
  <1> QED
    BY <1>1, <1>2, <1>3

\* Parts of two sequences one behind the other.
LEMMA Parts ==
    ASSUME NEW v \in Seq(Byte), NEW u \in Seq(Byte)
    PROVE  /\ \A a \in 1 .. Len(v) + 1, b \in 0 .. Len(v) : SubSeq(v \o u, a, b) = SubSeq(v, a, b)
           /\ SubSeq(v \o u, Len(v) + 1, Len(v) + Len(u)) = u
  <1>1. ASSUME NEW a \in 1 .. Len(v) + 1, NEW b \in 0 .. Len(v)
        PROVE  SubSeq(v \o u, a, b) = SubSeq(v, a, b)
    OBVIOUS
  <1>2. SubSeq(v \o u, Len(v) + 1, Len(v) + Len(u)) = u
    OBVIOUS
  <1> QED
    BY <1>1, <1>2

\* No character is UTF-8.
LEMMA NoCharacters == AreUtf8(<<>>)
  <1>1. Borders(<<>>, {0})
    BY DEF Borders
  <1> QED
    BY <1>1 DEF AreUtf8

\* UTF-8 and one more character is UTF-8.
LEMMA CharacterAppended ==
    ASSUME NEW v \in Seq(Byte), AreUtf8(v), NEW u \in Seq(Byte), IsUtf8(u)
    PROVE  AreUtf8(v \o u)
  <1> DEFINE w == v \o u
             k == Len(v)
             n == Len(u)
  <1>1. n \in 1 .. 4 /\ k \in Nat
    BY CharacterIs
  <1>2. /\ Len(w) = k + n /\ SubSeq(w, k + 1, k + n) = u
        /\ \A a \in 1 .. k + 1, b \in 0 .. k : SubSeq(w, a, b) = SubSeq(v, a, b)
    BY Parts
  <1>3. PICK E \in SUBSET (0 .. k) : Borders(v, E)
    BY DEF AreUtf8
  <1>4. /\ E \subseteq 0 .. k /\ 0 \in E /\ k \in E
        /\ \A i \in E \ {k} : \E m \in 1 .. 4 : i + m \in E /\ IsUtf8(SubSeq(v, i + 1, i + m))
    BY <1>3 DEF Borders
  <1> HIDE DEF w, k, n
  <1> DEFINE F == E \cup {k + n}
  <1>5. F \subseteq 0 .. k + n /\ 0 \in F /\ k + n \in F
    BY <1>1, <1>4
  <1>6. ASSUME NEW i \in F \ {k + n}
        PROVE  \E m \in 1 .. 4 : i + m \in F /\ IsUtf8(SubSeq(w, i + 1, i + m))
    <2>1. i \in E /\ i \in 0 .. k
      BY <1>4
    <2>2. CASE i = k
      BY <1>1, <1>2, <2>2
    <2>3. CASE i # k
      <3>1. PICK m \in 1 .. 4 : i + m \in E /\ IsUtf8(SubSeq(v, i + 1, i + m))
        BY <1>4, <2>1, <2>3
      <3>2. i + 1 \in 1 .. k + 1 /\ i + m \in 0 .. k
        BY <1>1, <1>4, <2>1, <3>1
      <3>3. SubSeq(w, i + 1, i + m) = SubSeq(v, i + 1, i + m)
        BY <1>2, <3>2
      <3> QED
        BY <3>1, <3>3
    <2> QED
      BY <2>2, <2>3
  <1>7. Borders(w, F)
    BY <1>2, <1>5, <1>6 DEF Borders
  <1>8. F \in SUBSET (0 .. Len(w))
    BY <1>2, <1>5
  <1> QED
    BY <1>7, <1>8 DEF AreUtf8, w

\* The digits of a number to the base 64.
LEMMA Divided ==
    ASSUME NEW c \in Int, c >= 0
    PROVE  /\ c \div 64 \in Int /\ c \div 64 >= 0 /\ c % 64 \in Int /\ 0 <= c % 64 /\ c % 64 <= 63
           /\ c = 64 * (c \div 64) + (c % 64)
  <1>1. c \div 64 \in Int /\ c % 64 \in Int
    OBVIOUS
  <1>2. 0 <= c % 64 /\ c % 64 <= 63
    OBVIOUS
  <1>3. c = 64 * (c \div 64) + (c % 64)
    OBVIOUS
  <1> QED
    BY <1>1, <1>2, <1>3

\* Dividing in two steps is dividing at once.
LEMMA DividedTwice ==
    ASSUME NEW c \in Int, c >= 0
    PROVE  c \div 4096 = (c \div 64) \div 64 /\ c \div 1 = c
  OBVIOUS

\* So it is in three.
LEMMA DividedThrice ==
    ASSUME NEW c \in Int, c >= 0
    PROVE  c \div 262144 = (c \div 4096) \div 64
  OBVIOUS

\* What to_unicode makes of a code point that is no surrogate.
LEMMA CodePoint ==
    ASSUME NEW c \in Int, 0 <= c, c <= 1114111, ~High(c), ~Low(c)
    PROVE  /\ Utf8Of(c).error = 0 /\ Utf8Of(c).value \in Seq(Byte) /\ IsUtf8(Utf8Of(c).value)
           /\ c < 128 => Utf8Of(c).value = <<c>>
  <1> DEFINE q1 == c \div 64
             q2 == q1 \div 64
             q3 == q2 \div 64
             r0 == c % 64
             r1 == q1 % 64
             r2 == q2 % 64
  <1>1. /\ q1 \in Int /\ q1 >= 0 /\ r0 \in Int /\ 0 <= r0 /\ r0 <= 63 /\ c = 64 * q1 + r0
    BY Divided
  <1>2. /\ q2 \in Int /\ q2 >= 0 /\ r1 \in Int /\ 0 <= r1 /\ r1 <= 63 /\ q1 = 64 * q2 + r1
    BY <1>1, Divided
  <1>3. /\ q3 \in Int /\ q3 >= 0 /\ r2 \in Int /\ 0 <= r2 /\ r2 <= 63 /\ q2 = 64 * q3 + r2
    BY <1>2, Divided
  <1>4. c \div 1 = c /\ c \div 4096 = q2 /\ c \div 262144 = q3
    BY <1>1, DividedTwice, DividedThrice
  <1>5. /\ c < 128 => Utf8Of(c) = Ok(<<c>>)
        /\ 128 <= c /\ c <= 2047 => Utf8Of(c) = Ok(<<192 + q1, 128 + r0>>)
        /\ 2048 <= c /\ c <= 65535 => Utf8Of(c) = Ok(<<224 + q2, 128 + r1, 128 + r0>>)
        /\ 65536 <= c => Utf8Of(c) = Ok(<<240 + q3, 128 + r2, 128 + r1, 128 + r0>>)
    BY <1>4 DEF Utf8Of
  <1> HIDE DEF q1, q2, q3, r0, r1, r2
  <1>6. CASE c < 128
    <2>1. IsUtf8(<<c>>) /\ <<c>> \in Seq(Byte)
      <3>1. c \in Byte
        BY <1>6 DEF Byte
      <3>2. IsUtf8(<<c>>)
        BY <1>6 DEF IsUtf8
      <3> QED
        BY <3>1, <3>2
    <2>2. Utf8Of(c).error = 0 /\ Utf8Of(c).value = <<c>>
      BY <1>5, <1>6 DEF Ok
    <2> QED
      BY <2>1, <2>2
  <1>7. CASE 128 <= c /\ c <= 2047
    <2> DEFINE a == 192 + q1
               b == 128 + r0
    <2>1. /\ a \in Int /\ b \in Int /\ 194 <= a /\ a <= 223 /\ 128 <= b /\ b <= 191
      BY <1>1, <1>7
    <2>2. a \in Byte /\ b \in Byte
      BY <2>1 DEF Byte
    <2>3. Utf8Of(c) = Ok(<<a, b>>)
      BY <1>5, <1>7
    <2> HIDE DEF a, b
    <2>4. IsUtf8(<<a, b>>)
      BY <2>1, Utf8OfTwo
    <2> QED
      BY <1>7, <2>2, <2>3, <2>4 DEF Ok
  <1>8. CASE 2048 <= c /\ c <= 65535
    <2> DEFINE a == 224 + q2
               b == 128 + r1
               d == 128 + r0
    <2>1. /\ a \in Int /\ b \in Int /\ d \in Int /\ 224 <= a /\ a <= 239
          /\ 128 <= b /\ b <= 191 /\ 128 <= d /\ d <= 191
      BY <1>1, <1>2, <1>8
    <2>2. (a = 224 => b >= 160) /\ (a = 237 => b <= 159)
      BY <1>1, <1>2, <1>8 DEF High, Low
    <2>3. a \in Byte /\ b \in Byte /\ d \in Byte
      BY <2>1 DEF Byte
    <2>4. Utf8Of(c) = Ok(<<a, b, d>>)
      BY <1>5, <1>8
    <2> HIDE DEF a, b, d
    <2>5. IsUtf8(<<a, b, d>>)
      BY <2>1, <2>2, Utf8OfThree
    <2> QED
      BY <1>8, <2>3, <2>4, <2>5 DEF Ok
  <1>9. CASE 65536 <= c
    <2> DEFINE a == 240 + q3
               b == 128 + r2
               d == 128 + r1
               e == 128 + r0
    <2>1. /\ a \in Int /\ b \in Int /\ d \in Int /\ e \in Int /\ 240 <= a /\ a <= 244
          /\ 128 <= b /\ b <= 191 /\ 128 <= d /\ d <= 191 /\ 128 <= e /\ e <= 191
      BY <1>1, <1>2, <1>3, <1>9
    <2>2. (a = 240 => b >= 144) /\ (a = 244 => b <= 143)
      BY <1>1, <1>2, <1>3, <1>9
    <2>3. a \in Byte /\ b \in Byte /\ d \in Byte /\ e \in Byte
      BY <2>1 DEF Byte
    <2>4. Utf8Of(c) = Ok(<<a, b, d, e>>)
      BY <1>5, <1>9
    <2> HIDE DEF a, b, d, e
    <2>5. IsUtf8(<<a, b, d, e>>)
      BY <2>1, <2>2, Utf8OfFour
    <2> QED
      BY <1>9, <2>3, <2>4, <2>5 DEF Ok
  <1> QED
    BY <1>6, <1>7, <1>8, <1>9

\* What to_unicode makes of an escape, or of a pair of escapes: UTF-8, or an exception.
LEMMA UnicodeIsUtf8 ==
    ASSUME NEW c1 \in Int, 0 <= c1, c1 <= 65535, ~Low(c1), NEW c2 \in Int
    PROVE  LET r == ToUnicode(c1, c2)
           IN  r.error = 102 \/ (r.error = 0 /\ r.value \in Seq(Byte) /\ IsUtf8(r.value))
  <1>1. CASE ~High(c1)
    BY <1>1, CodePoint DEF ToUnicode
  <1>2. CASE High(c1) /\ Low(c2)
    <2> DEFINE c == c1 * 1024 + c2 - 56613888
    <2>1. c \in Int /\ 65536 <= c /\ c <= 1114111
      BY <1>2 DEF High, Low
    <2>2. ToUnicode(c1, c2) = Utf8Of(c)
      BY <1>2 DEF ToUnicode
    <2> HIDE DEF c
    <2>3. ~High(c) /\ ~Low(c)
      BY <2>1 DEF High, Low
    <2> QED
      BY <2>1, <2>2, <2>3, CodePoint
  <1>3. CASE High(c1) /\ ~Low(c2)
    BY <1>3 DEF ToUnicode, Throw
  <1> QED
    BY <1>1, <1>2, <1>3

-----------------------------------------------------------------------------
(* Strings: escapes read.                                                  *)

\* A digit stands for one of sixteen numbers.
LEMMA HexDigitType == \A c \in HexDigits : HexDigit(c) \in Int /\ 0 <= HexDigit(c) /\ HexDigit(c) <= 15
  BY DEF HexDigits, Digits, HexDigit

\* Four hexadecimal digits.
LEMMA Hex4Type ==
    ASSUME NEW b, NEW i \in Int,
           b[i] \in HexDigits, b[i + 1] \in HexDigits, b[i + 2] \in HexDigits, b[i + 3] \in HexDigits
    PROVE  Hex4(b, i) \in Int /\ 0 <= Hex4(b, i) /\ Hex4(b, i) <= 65535
  <1> DEFINE x == HexDigit(b[i])
             y == HexDigit(b[i + 1])
             z == HexDigit(b[i + 2])
             w == HexDigit(b[i + 3])
  <1>1. /\ x \in Int /\ 0 <= x /\ x <= 15 /\ y \in Int /\ 0 <= y /\ y <= 15
        /\ z \in Int /\ 0 <= z /\ z <= 15 /\ w \in Int /\ 0 <= w /\ w <= 15
    BY HexDigitType
  <1>2. Hex4(b, i) = 4096 * x + 256 * y + 16 * z + w
    BY DEF Hex4
  <1> HIDE DEF x, y, z, w
  <1> QED
    BY <1>1, <1>2

\* What is written as a digit is read as the number.
LEMMA HexifyReadsBack ==
    ASSUME NEW n \in Int, 0 <= n, n <= 15
    PROVE  Hexify(n) \in HexDigits /\ HexDigit(Hexify(n)) = n
  <1>1. CASE n < 10
    BY <1>1 DEF Hexify, HexDigit, HexDigits, Digits
  <1>2. CASE n >= 10
    <2>1. Hexify(n) = 87 + n
      BY <1>2 DEF Hexify
    <2>2. ~(87 + n \in Digits) /\ ~(87 + n <= 70) /\ 87 + n \in HexDigits
      BY <1>2 DEF Digits, HexDigits
    <2> QED
      BY <2>1, <2>2 DEF HexDigit
  <1> QED
    BY <1>1, <1>2

\* The digits that an escaped control byte has are those of its code.
LEMMA LongReadsBack ==
    ASSUME NEW c \in Long, NEW b, NEW i \in Int,
           b[i] = 48, b[i + 1] = 48, b[i + 2] = Hexify(c \div 16), b[i + 3] = Hexify(c % 16)
    PROVE  Hex4(b, i) = c /\ c \in Int /\ 0 <= c /\ c <= 31
  <1>1. c \in Int /\ 0 <= c /\ c <= 31
    BY DEF Long
  <1> DEFINE q == c \div 16
             r == c % 16
  <1>2. q \in Int /\ r \in Int /\ 0 <= r /\ r <= 15 /\ c = 16 * q + r
    BY <1>1
  <1> HIDE DEF q, r
  <1>3. 0 <= q /\ q <= 15
    BY <1>1, <1>2
  <1>4. HexDigit(Hexify(q)) = q /\ HexDigit(Hexify(r)) = r
    BY <1>2, <1>3, HexifyReadsBack
  <1>5. HexDigit(48) = 0
    BY DEF HexDigit, Digits
  <1>6. Hex4(b, i) = 4096 * 0 + 256 * 0 + 16 * q + r
    <2>1. b[i + 2] = Hexify(q) /\ b[i + 3] = Hexify(r)
      BY DEF q, r
    <2> QED
      BY <1>4, <1>5, <2>1 DEF Hex4
  <1> QED
    BY <1>1, <1>2, <1>6

\* get_string takes a byte back from what dump_escaped made of it.
LEMMA ShortEscapeReadsBack ==
    ASSUME NEW c \in DOMAIN Short, NEW b, NEW at \in Int, NEW rd, rd.at = at,
           b[at] = 92, b[at + 1] = Short[c]
    PROVE  TookNext(b, rd) = Took(rd, 2, Ok(<<c>>))
  <1>1. Short[c] # 117 /\ Escapes[Short[c]] = c
    BY ShortEscapes
  <1>2. TookNext(b, rd) = Took(rd, 2, Ok(<<Escapes[b[at + 1]]>>))
    BY <1>1 DEF TookNext
  <1> QED
    BY <1>1, <1>2

\* A control byte that has no escape of its own is read back from its number.
LEMMA LongEscapeReadsBack ==
    ASSUME NEW c \in Long, NEW b, NEW at \in Int, NEW rd, rd.at = at,
           b[at] = 92, b[at + 1] = 117, b[at + 2] = 48, b[at + 3] = 48,
           b[at + 4] = Hexify(c \div 16), b[at + 5] = Hexify(c % 16)
    PROVE  TookNext(b, rd) = Took(rd, 6, Ok(<<c>>))
  <1>1. Hex4(b, at + 2) = c /\ c \in Int /\ 0 <= c /\ c <= 31
    <2>1. /\ at + 2 + 1 = at + 3 /\ at + 2 + 2 = at + 4 /\ at + 2 + 3 = at + 5 /\ at + 2 \in Int
      OBVIOUS
    <2> QED
      BY <2>1, LongReadsBack
  <1>2. ~High(c) /\ ~Low(c)
    BY <1>1 DEF High, Low
  <1>3. TookUnicode(b, rd) = Took(rd, 6, ToUnicode(c, 0))
    BY <1>1, <1>2 DEF TookUnicode
  <1>4. ToUnicode(c, 0) = Ok(<<c>>)
    <2>1. ToUnicode(c, 0) = Utf8Of(c)
      BY <1>2 DEF ToUnicode
    <2>2. Utf8Of(c) = Ok(<<c>>)
      BY <1>1 DEF Utf8Of
    <2> QED
      BY <2>1, <2>2
  <1>5. TookNext(b, rd) = TookUnicode(b, rd)
    BY DEF TookNext
  <1> QED
    BY <1>3, <1>4, <1>5

\* Any other byte but a backslash is read as it is.
LEMMA PlainReadsBack ==
    ASSUME NEW b, NEW rd, b[rd.at] # 92
    PROVE  TookNext(b, rd) = Took(rd, 1, Ok(<<b[rd.at]>>))
  BY DEF TookNext

\* What a byte is escaped to, byte by byte.
LEMMA EscapedBytes ==
    ASSUME NEW c
    PROVE  LET e == EscapedByte(c)
           IN  /\ c \in DOMAIN Short => Len(e) = 2 /\ e[1] = 92 /\ e[2] = Short[c]
               /\ c \in Long => /\ Len(e) = 6 /\ e[1] = 92 /\ e[2] = 117 /\ e[3] = 48 /\ e[4] = 48
                                /\ e[5] = Hexify(c \div 16) /\ e[6] = Hexify(c % 16)
               /\ c \notin DOMAIN Short /\ c \notin Long => Len(e) = 1 /\ e[1] = c /\ c # 92
  <1>1. ASSUME c \in DOMAIN Short
        PROVE  EscapedByte(c) = <<92, Short[c]>>
    <2>1. c \notin Long
      BY <1>1 DEF Long
    <2> QED
      BY <1>1, <2>1 DEF EscapedByte
  <1>2. ASSUME c \in Long
        PROVE  EscapedByte(c) = <<92, 117, 48, 48, Hexify(c \div 16), Hexify(c % 16)>>
    <2>1. c \notin DOMAIN Short
      BY <1>2 DEF Long
    <2> QED
      BY <1>2, <2>1 DEF EscapedByte
  <1>3. ASSUME c \notin DOMAIN Short, c \notin Long
        PROVE  EscapedByte(c) = <<c>> /\ c # 92
    <2>1. c # 92
      BY <1>3 DEF Short
    <2> QED
      BY <1>3, <2>1 DEF EscapedByte
  <1> QED
    BY <1>1, <1>2, <1>3

\* A text stands in a buffer from a position on.
Stands(b, at, e) == \A j \in 1 .. Len(e) : b[at - 1 + j] = e[j]

\* Whatever a byte is escaped to is read back as the byte.
LEMMA EscapeReadsBack ==
    ASSUME NEW c, NEW b, NEW at \in Int, NEW v, NEW rd,
           rd = [at |-> at, value |-> v, error |-> 0],
           Stands(b, at, EscapedByte(c))
    PROVE  TookNext(b, rd) = [at |-> at + Len(EscapedByte(c)), value |-> v \o <<c>>, error |-> 0]
  <1> DEFINE e == EscapedByte(c)
  <1>1. rd.at = at
    OBVIOUS
  <1>2. \A n : Took(rd, n, Ok(<<c>>)) = [at |-> at + n, value |-> v \o <<c>>, error |-> 0]
    BY DEF Took, Ok
  <1>3. /\ c \in DOMAIN Short => Len(e) = 2 /\ e[1] = 92 /\ e[2] = Short[c]
        /\ c \in Long => /\ Len(e) = 6 /\ e[1] = 92 /\ e[2] = 117 /\ e[3] = 48 /\ e[4] = 48
                         /\ e[5] = Hexify(c \div 16) /\ e[6] = Hexify(c % 16)
        /\ c \notin DOMAIN Short /\ c \notin Long => Len(e) = 1 /\ e[1] = c /\ c # 92
    BY EscapedBytes
  <1> HIDE DEF e
  <1>4. \A j \in 1 .. Len(e) : b[at - 1 + j] = e[j]
    BY DEF e, Stands
  <1>5. /\ at - 1 + 1 = at /\ at - 1 + 2 = at + 1 /\ at - 1 + 3 = at + 2
        /\ at - 1 + 4 = at + 3 /\ at - 1 + 5 = at + 4 /\ at - 1 + 6 = at + 5
    OBVIOUS
  <1> DEFINE Back == TookNext(b, rd) = [at |-> at + Len(e), value |-> v \o <<c>>, error |-> 0]
  <1>6. ASSUME c \in DOMAIN Short
        PROVE  Back
    <2>1. b[at] = 92 /\ b[at + 1] = Short[c]
      <3>0. 1 \in 1 .. Len(e) /\ 2 \in 1 .. Len(e)
        <4>1. Len(e) = 2
          BY <1>3, <1>6, Zenon
        <4> QED
          BY <4>1
      <3>1. b[at - 1 + 1] = e[1] /\ b[at - 1 + 2] = e[2]
        BY <1>4, <3>0, Zenon
      <3> QED
        BY <1>3, <1>5, <1>6, <3>1
    <2>2. TookNext(b, rd) = Took(rd, 2, Ok(<<c>>))
      BY <1>1, <1>6, <2>1, ShortEscapeReadsBack
    <2>3. TookNext(b, rd) = [at |-> at + 2, value |-> v \o <<c>>, error |-> 0] /\ Len(e) = 2
      BY <1>2, <1>3, <1>6, <2>2, Zenon
    <2> QED
      BY <2>3, Zenon
  <1>7. ASSUME c \in Long
        PROVE  Back
    <2>1. /\ b[at] = 92 /\ b[at + 1] = 117 /\ b[at + 2] = 48 /\ b[at + 3] = 48
          /\ b[at + 4] = Hexify(c \div 16) /\ b[at + 5] = Hexify(c % 16)
      <3>1. /\ b[at - 1 + 1] = e[1] /\ b[at - 1 + 2] = e[2] /\ b[at - 1 + 3] = e[3]
            /\ b[at - 1 + 4] = e[4] /\ b[at - 1 + 5] = e[5] /\ b[at - 1 + 6] = e[6]
        <4>1. /\ 1 \in 1 .. Len(e) /\ 2 \in 1 .. Len(e) /\ 3 \in 1 .. Len(e)
              /\ 4 \in 1 .. Len(e) /\ 5 \in 1 .. Len(e) /\ 6 \in 1 .. Len(e)
          <5>1. Len(e) = 6
            BY <1>3, <1>7, Zenon
          <5> QED
            BY <5>1
        <4> QED
          BY <1>4, <4>1, Zenon
      <3>2. /\ e[1] = 92 /\ e[2] = 117 /\ e[3] = 48 /\ e[4] = 48
            /\ e[5] = Hexify(c \div 16) /\ e[6] = Hexify(c % 16)
        BY <1>3, <1>7, Zenon
      <3>3. b[at] = 92 /\ b[at + 1] = 117
        BY <1>5, <3>1, <3>2, Zenon
      <3>4. b[at + 2] = 48 /\ b[at + 3] = 48
        BY <1>5, <3>1, <3>2, Zenon
      <3>5. b[at + 4] = Hexify(c \div 16) /\ b[at + 5] = Hexify(c % 16)
        BY <1>5, <3>1, <3>2, Zenon
      <3> QED
        BY <3>3, <3>4, <3>5, Zenon
    <2>2. TookNext(b, rd) = Took(rd, 6, Ok(<<c>>))
      BY <1>1, <1>7, <2>1, LongEscapeReadsBack
    <2>3. TookNext(b, rd) = [at |-> at + 6, value |-> v \o <<c>>, error |-> 0] /\ Len(e) = 6
      BY <1>2, <1>3, <1>7, <2>2, Zenon
    <2> QED
      BY <2>3, Zenon
  <1>8. ASSUME c \notin DOMAIN Short, c \notin Long
        PROVE  Back
    <2>1. b[at] = c /\ c # 92
      <3>0. 1 \in 1 .. Len(e)
        BY <1>3, <1>8
      <3>1. b[at - 1 + 1] = e[1]
        BY <1>4, <3>0, Zenon
      <3> QED
        BY <1>3, <1>5, <1>8, <3>1
    <2>2. TookNext(b, rd) = Took(rd, 1, Ok(<<c>>))
      BY <1>1, <2>1, PlainReadsBack
    <2>3. TookNext(b, rd) = [at |-> at + 1, value |-> v \o <<c>>, error |-> 0] /\ Len(e) = 1
      BY <1>2, <1>3, <1>8, <2>2, Zenon
    <2> QED
      BY <2>3, Zenon
  <1>9. Back
    BY <1>6, <1>7, <1>8
  <1> QED
    BY <1>9 DEF e

-----------------------------------------------------------------------------
(* Strings: the scanner in one.                                            *)

StringStates == Between \cup Hexes \cup {"escape"}

\* Other bytes than a quote and a backslash lead on between the bytes of the string.
LEMMA AfterPlain ==
    ASSUME NEW c \in Int, After(c) # "stuck", c # 34, c # 92
    PROVE  After(c) \in Between
  BY DEF After, Between, Plain, Tails

\* A quote ends the token, a backslash begins an escape.
LEMMA AfterQuote == After(34) = "quote" /\ After(92) = "escape"
  BY DEF After

\* What the next byte is where the scanner is between the bytes of a string.
LEMMA BetweenStep ==
    ASSUME NEW s \in Between, NEW c \in Byte, Delta[s][c] # "stuck"
    PROVE  \/ s \in Plain /\ c = 92 /\ Delta[s][c] = "escape"
           \/ s \in Plain /\ c = 34 /\ Delta[s][c] = "quote"
           \/ s \in Plain /\ c # 34 /\ c # 92 /\ Delta[s][c] = After(c) /\ After(c) \in Between
           \/ /\ s \in Tails /\ c \in Tail1(s) /\ c \in Int /\ c >= 128
              /\ Delta[s][c] = Behind(s) /\ Behind(s) \in Between
  <1>1. CASE s \in Plain
    <2>1. Delta[s][c] = After(c)
      BY <1>1, PlainDelta
    <2>2. c \in Int
      BY BytesAreIntegers
    <2>3. c # 34 /\ c # 92 => After(c) \in Between
      BY <2>1, <2>2, AfterPlain
    <2> QED
      BY <1>1, <2>1, <2>3, AfterQuote
  <1>2. CASE s \in Tails
    <2>1. Delta[s][c] = IF c \in Tail1(s) THEN Behind(s) ELSE "stuck"
      BY <1>2, TailDelta
    <2>2. c \in Tail1(s) /\ Delta[s][c] = Behind(s)
      BY <2>1
    <2>3. c \in Continuation /\ Behind(s) \in Between
      BY <1>2, <2>2, Waits
    <2>4. c \in Int /\ c >= 128
      BY <2>3, ContinuationBytes
    <2> QED
      BY <1>2, <2>2, <2>3, <2>4
  <1> QED
    BY <1>1, <1>2 DEF Between

\* In a string the scanner stays in it, ends it, or is stuck.
LEMMA NextState ==
    ASSUME NEW s \in StringStates, NEW c \in Byte
    PROVE  s \in DOMAIN Delta /\ Delta[s][c] \in StringStates \cup {"quote", "stuck"}
  <1>1. CASE s \in Plain
    <2>1. s \in DOMAIN Delta
      BY <1>1, PlainDelta
    <2>2. s \in Between
      BY <1>1 DEF Between
    <2> QED
      BY <2>1, <2>2, BetweenStep DEF StringStates
  <1>2. CASE s \in Tails
    <2>1. s \in DOMAIN Delta
      BY <1>2, TailDelta
    <2>2. s \in Between
      BY <1>2 DEF Between
    <2> QED
      BY <2>1, <2>2, BetweenStep DEF StringStates
  <1>3. CASE s \in Hexes
    <2>1. s \in DOMAIN Delta /\ Delta[s][c] \in {HexBehind(s), "stuck"}
      BY <1>3, HexDelta
    <2>2. HexBehind(s) \in StringStates
      BY <1>3 DEF Hexes, HexBehind, StringStates, Between, Plain
    <2> QED
      BY <2>1, <2>2
  <1>4. CASE s = "escape"
    <2>1. "escape" \in DOMAIN Delta /\ Delta["escape"][c] \in {"string", "hex4", "stuck"}
      BY EscapeDelta
    <2>2. "string" \in StringStates /\ "hex4" \in StringStates
      BY DEF StringStates, Between, Plain, Hexes
    <2> QED
      BY <1>4, <2>1, <2>2
  <1> QED
    BY <1>1, <1>2, <1>3, <1>4 DEF StringStates, Between

\* The states that a text has led the scanner through, from its first byte on.
Runs(b, st) ==
    /\ b \in Seq(Byte) /\ b # <<>> /\ b[1] = 34
    /\ Len(st) \in Nat \ {0} /\ st[1] = "start" /\ Len(st) - 1 <= Len(b)
    /\ \A i \in 2 .. Len(st) - 1 : st[i] \in StringStates
    /\ Len(st) > 1 => st[Len(st)] \in StringStates \cup {"quote"}
    /\ \A i \in 1 .. Len(st) - 1 : st[i + 1] = Delta[st[i]][b[i]]

\* The state before a byte of a string token.
LEMMA InString ==
    ASSUME NEW b, NEW st, Runs(b, st), st[Len(st)] = "quote",
           NEW i \in 2 .. Len(st), st[i] # "quote"
    PROVE  /\ i \in Int /\ i <= Len(st) - 1 /\ i + 1 \in 2 .. Len(st)
           /\ b[i] \in Byte /\ st[i] \in StringStates
           /\ st[i + 1] = Delta[st[i]][b[i]] /\ st[i + 1] # "stuck"
  <1>1. Len(st) \in Nat
    BY DEF Runs
  <1>2. i # Len(st) /\ i \in 2 .. Len(st) - 1 /\ i \in 1 .. Len(st) - 1 /\ i + 1 \in 2 .. Len(st)
    BY <1>1
  <1>3. st[i] \in StringStates /\ st[i + 1] = Delta[st[i]][b[i]]
    BY <1>2 DEF Runs
  <1>4. b[i] \in Byte
    <2>1. b \in Seq(Byte) /\ Len(st) - 1 <= Len(b)
      BY DEF Runs
    <2>2. i \in 1 .. Len(b)
      BY <1>1, <1>2, <2>1
    <2> QED
      BY <2>1, <2>2
  <1>5. st[i + 1] # "stuck"
    <2>1. "stuck" \notin StringStates \cup {"quote"}
      BY DEF StringStates, Between, Plain, Tails, Hexes
    <2>2. i + 1 \in 2 .. Len(st) - 1 \/ i + 1 = Len(st)
      BY <1>1, <1>2
    <2>3. st[i + 1] \in StringStates \cup {"quote"}
      BY <2>2 DEF Runs
    <2> QED
      BY <2>1, <2>3
  <1> QED
    BY <1>2, <1>3, <1>4, <1>5

\* Four digits follow in the token where they must.
LEMMA HexWalk ==
    ASSUME NEW b, NEW st, Runs(b, st), st[Len(st)] = "quote", NEW i \in 2 .. Len(st), st[i] = "hex4"
    PROVE  /\ i + 4 \in 2 .. Len(st) - 1 /\ st[i + 4] = "string"
           /\ b[i] \in HexDigits /\ b[i + 1] \in HexDigits
           /\ b[i + 2] \in HexDigits /\ b[i + 3] \in HexDigits
  <1>1. ASSUME NEW j \in 2 .. Len(st), st[j] \in Hexes
        PROVE  j + 1 \in 2 .. Len(st) /\ st[j + 1] = HexBehind(st[j]) /\ b[j] \in HexDigits
    <2>1. st[j] # "quote"
      BY <1>1 DEF Hexes
    <2>2. /\ j + 1 \in 2 .. Len(st) /\ b[j] \in Byte
          /\ st[j + 1] = Delta[st[j]][b[j]] /\ st[j + 1] # "stuck"
      BY <2>1, InString
    <2>3. Delta[st[j]][b[j]] = IF b[j] \in HexDigits THEN HexBehind(st[j]) ELSE "stuck"
      BY <1>1, <2>2, HexDelta
    <2> QED
      BY <2>2, <2>3
  <1>2. "hex4" \in Hexes /\ "hex3" \in Hexes /\ "hex2" \in Hexes /\ "hex1" \in Hexes
    BY DEF Hexes
  <1>3. /\ HexBehind("hex4") = "hex3" /\ HexBehind("hex3") = "hex2"
        /\ HexBehind("hex2") = "hex1" /\ HexBehind("hex1") = "string"
    BY DEF HexBehind
  <1>4. i + 1 \in 2 .. Len(st) /\ st[i + 1] = "hex3" /\ b[i] \in HexDigits
    BY <1>1, <1>2, <1>3
  <1>5. i + 2 \in 2 .. Len(st) /\ st[i + 2] = "hex2" /\ b[i + 1] \in HexDigits
    <2>1. (i + 1) + 1 = i + 2
      OBVIOUS
    <2> QED
      BY <1>1, <1>2, <1>3, <1>4, <2>1
  <1>6. i + 3 \in 2 .. Len(st) /\ st[i + 3] = "hex1" /\ b[i + 2] \in HexDigits
    <2>1. (i + 2) + 1 = i + 3
      OBVIOUS
    <2> QED
      BY <1>1, <1>2, <1>3, <1>5, <2>1
  <1>7. i + 4 \in 2 .. Len(st) /\ st[i + 4] = "string" /\ b[i + 3] \in HexDigits
    <2>1. (i + 3) + 1 = i + 4
      OBVIOUS
    <2> QED
      BY <1>1, <1>2, <1>3, <1>6, <2>1
  <1>8. i + 4 \in 2 .. Len(st) - 1
    BY <1>7, InString
  <1> QED
    BY <1>4, <1>5, <1>6, <1>7, <1>8

\* What follows a backslash in the token.
IsEscape(b, st, i) ==
    \/ b[i + 1] \in DOMAIN Escapes /\ i + 2 \in 2 .. Len(st) - 1 /\ st[i + 2] = "string"
    \/ /\ b[i + 1] = 117 /\ i + 6 \in 2 .. Len(st) - 1 /\ st[i + 6] = "string"
       /\ b[i + 2] \in HexDigits /\ b[i + 3] \in HexDigits
       /\ b[i + 4] \in HexDigits /\ b[i + 5] \in HexDigits

\* A backslash in the token begins an escape that is whole before the closing quote.
LEMMA EscapeWalk ==
    ASSUME NEW b, NEW st, Runs(b, st), st[Len(st)] = "quote", NEW i \in 2 .. Len(st) - 1,
           st[i] \in Between, b[i] = 92
    PROVE  st[i] \in Plain /\ IsEscape(b, st, i)
  <1>0. Len(st) \in Nat /\ i \in 2 .. Len(st) /\ i \in Int
    BY DEF Runs
  <1>1. /\ i + 1 \in 2 .. Len(st) /\ b[i] \in Byte
        /\ st[i + 1] = Delta[st[i]][b[i]] /\ st[i + 1] # "stuck"
    <2>1. st[i] # "quote"
      BY DEF Between, Plain, Tails
    <2> QED
      BY <1>0, <2>1, InString
  <1>2. st[i] \in Plain /\ st[i + 1] = "escape"
    BY <1>1, BetweenStep
  <1>3. /\ i + 1 \in 2 .. Len(st) - 1 /\ i + 2 \in 2 .. Len(st) /\ b[i + 1] \in Byte
        /\ st[i + 2] = Delta["escape"][b[i + 1]] /\ st[i + 2] # "stuck"
    <2>1. st[i + 1] # "quote" /\ (i + 1) + 1 = i + 2
      BY <1>0, <1>2
    <2>2. /\ i + 1 \in Int /\ i + 1 <= Len(st) - 1 /\ (i + 1) + 1 \in 2 .. Len(st)
          /\ b[i + 1] \in Byte
          /\ st[(i + 1) + 1] = Delta[st[i + 1]][b[i + 1]] /\ st[(i + 1) + 1] # "stuck"
      BY <1>1, <2>1, InString
    <2> QED
      BY <1>0, <1>1, <1>2, <2>1, <2>2
  <1>4. Delta["escape"][b[i + 1]] = IF b[i + 1] \in DOMAIN Escapes THEN "string"
                                    ELSE IF b[i + 1] = 117 THEN "hex4" ELSE "stuck"
    BY <1>3, EscapeDelta
  <1>5. CASE b[i + 1] \in DOMAIN Escapes
    <2>1. st[i + 2] = "string"
      BY <1>3, <1>4, <1>5
    <2>2. i + 2 \in Int /\ i + 2 <= Len(st) - 1
      BY <1>3, <2>1, InString
    <2>3. i + 2 \in 2 .. Len(st) - 1
      BY <1>0, <2>2
    <2>4. IsEscape(b, st, i)
      BY <1>5, <2>1, <2>3, Zenon DEF IsEscape
    <2> QED
      BY <1>2, <2>4
  <1>6. CASE b[i + 1] = 117 /\ b[i + 1] \notin DOMAIN Escapes
    <2>1. st[i + 2] = "hex4"
      BY <1>3, <1>4, <1>6
    <2>2. /\ (i + 2) + 4 \in 2 .. Len(st) - 1 /\ st[(i + 2) + 4] = "string"
          /\ b[i + 2] \in HexDigits /\ b[(i + 2) + 1] \in HexDigits
          /\ b[(i + 2) + 2] \in HexDigits /\ b[(i + 2) + 3] \in HexDigits
      BY <1>3, <2>1, HexWalk
    <2>3. (i + 2) + 4 = i + 6 /\ (i + 2) + 1 = i + 3 /\ (i + 2) + 2 = i + 4 /\ (i + 2) + 3 = i + 5
      BY <1>0
    <2>4. IsEscape(b, st, i)
      BY <1>6, <2>2, <2>3, Zenon DEF IsEscape
    <2> QED
      BY <1>2, <2>4
  <1>7. b[i + 1] \in DOMAIN Escapes \/ (b[i + 1] = 117 /\ b[i + 1] \notin DOMAIN Escapes)
    BY <1>3, <1>4
  <1> QED
    BY <1>2, <1>5, <1>6, <1>7

\* A short escape stands for a character of ASCII.
LEMMA EscapesType == \A c \in DOMAIN Escapes : Escapes[c] \in Byte /\ IsUtf8(<<Escapes[c]>>)
  <1> TAKE c \in DOMAIN Escapes
  <1>1. Escapes[c] \in Int /\ 0 <= Escapes[c] /\ Escapes[c] <= 92
    BY DEF Escapes
  <1> DEFINE d == Escapes[c]
  <1> HIDE DEF d
  <1>2. d \in Byte /\ d < 128
    BY <1>1 DEF Byte, d
  <1>3. IsUtf8(<<d>>)
    BY <1>2 DEF IsUtf8
  <1> QED
    BY <1>2, <1>3 DEF d

-----------------------------------------------------------------------------
(* Strings: a token read.                                                  *)

\* What get_string has made of a token so far: UTF-8, with what must follow of a
\* character begun; it looks at bytes of the token only.
Reads(st, rd) ==
    /\ rd.error \in {0, 102}
    /\ rd.error = 0 =>
         /\ rd = [at |-> rd.at, value |-> rd.value, error |-> 0]
         /\ rd.at \in 2 .. Len(st) - 1 /\ st[rd.at] \in Between
         /\ rd.value \in Seq(Byte)
         /\ \A r : IsRest(st[rd.at], r) => AreUtf8(rd.value \o r)

\* Where a character may begin nothing is waited for.
LEMMA PlainRest == \A s \in Plain : \A r : IsRest(s, r) <=> r = <<>>
  <1> TAKE s \in Plain
  <1> TAKE r
  <1>1. Wait(s) = 0
    BY DEF Wait, Plain
  <1>2. ASSUME IsRest(s, r)
        PROVE  r = <<>>
    <2>1. r \in Seq(Byte) /\ Len(r) = 0
      BY <1>1, <1>2 DEF IsRest
    <2> QED
      BY <2>1
  <1>3. IsRest(s, <<>>)
    <2>1. <<>> \in Seq(Byte) /\ Len(<<>>) = 0 /\ ~(0 > 0)
      OBVIOUS
    <2>2. \A i \in 2 .. Len(<<>>) : <<>>[i] \in Continuation
      OBVIOUS
    <2> QED
      BY <1>1, <2>1, <2>2 DEF IsRest
  <1> QED
    BY <1>2, <1>3

\* Nothing behind a text.
LEMMA Empty == \A v \in Seq(Byte) : v \o <<>> = v
  OBVIOUS

\* Behind a whole character comes whole characters.
LEMMA Whole ==
    ASSUME NEW st, NEW rd, Reads(st, rd), rd.error = 0, st[rd.at] \in Plain
    PROVE  rd.value \in Seq(Byte) /\ AreUtf8(rd.value)
  <1>1. rd.value \in Seq(Byte) /\ \A r : IsRest(st[rd.at], r) => AreUtf8(rd.value \o r)
    BY DEF Reads
  <1>2. IsRest(st[rd.at], <<>>)
    BY PlainRest
  <1>3. AreUtf8(rd.value \o <<>>)
    BY <1>1, <1>2
  <1> QED
    BY <1>1, <1>3, Empty

\* A character or an exception is taken, and the token goes on behind it.
LEMMA TookCharacter ==
    ASSUME NEW st, NEW rd, Reads(st, rd), rd.error = 0, st[rd.at] \in Plain,
           NEW n \in Nat, rd.at + n \in 2 .. Len(st) - 1, st[rd.at + n] = "string",
           NEW r, r.error = 102 \/ (r.error = 0 /\ r.value \in Seq(Byte) /\ IsUtf8(r.value))
    PROVE  Reads(st, Took(rd, n, r))
  <1>1. CASE r.error = 102
    <2>1. Took(rd, n, r) = [rd EXCEPT !.error = 102]
      BY <1>1 DEF Took
    <2>2. rd = [at |-> rd.at, value |-> rd.value, error |-> 0]
      BY DEF Reads
    <2>3. Took(rd, n, r).error = 102
      BY <2>1, <2>2
    <2> QED
      BY <2>3 DEF Reads
  <1>2. CASE r.error = 0 /\ r.value \in Seq(Byte) /\ IsUtf8(r.value)
    <2> DEFINE v == rd.value \o r.value
    <2>1. Took(rd, n, r) = [at |-> rd.at + n, value |-> v, error |-> 0]
      BY <1>2 DEF Took
    <2>2. rd.value \in Seq(Byte) /\ AreUtf8(rd.value)
      BY Whole
    <2>3. v \in Seq(Byte) /\ AreUtf8(v)
      BY <1>2, <2>2, CharacterAppended
    <2> HIDE DEF v
    <2>4. "string" \in Plain /\ "string" \in Between
      BY DEF Plain, Between
    <2>5. \A x : IsRest("string", x) => AreUtf8(v \o x)
      BY <2>3, <2>4, PlainRest, Empty
    <2> QED
      BY <2>1, <2>3, <2>4, <2>5 DEF Reads
  <1> QED
    BY <1>1, <1>2

\* Sums that the steps of get_string are made of.
LEMMA Offsets ==
    ASSUME NEW i \in Int
    PROVE  /\ i + 2 \in Int /\ i + 2 + 1 = i + 3 /\ i + 2 + 2 = i + 4 /\ i + 2 + 3 = i + 5
           /\ i + 6 + 1 = i + 7 /\ i + 6 + 2 = i + 8 /\ i + 6 + 3 = i + 9
           /\ i + 6 + 4 = i + 10 /\ i + 6 + 5 = i + 11 /\ i + 6 + 6 = i + 12
           /\ i + 8 \in Int /\ i + 8 + 1 = i + 9 /\ i + 8 + 2 = i + 10 /\ i + 8 + 3 = i + 11
  OBVIOUS

\* A number above 1 that is not 2 leaves room before it.
LEMMA AtLeastThree == \A n \in Nat : n > 1 /\ n # 2 => 2 \in 2 .. n - 1
  OBVIOUS

\* Joining texts is associative.
LEMMA Associates ==
    \A x \in Seq(Byte), y \in Seq(Byte), z \in Seq(Byte) : (x \o y) \o z = x \o (y \o z)
  BY ConcatAssociative

\* The next byte, if it is no backslash, goes on with a character or begins one.
LEMMA TookByte ==
    ASSUME NEW b, NEW st, Runs(b, st), st[Len(st)] = "quote",
           NEW rd, Reads(st, rd), rd.error = 0, rd.at < Len(st) - 1, b[rd.at] # 92
    PROVE  Reads(st, Took(rd, 1, Ok(<<b[rd.at]>>)))
  <1> DEFINE at == rd.at
             v == rd.value
             c == b[at]
             s == st[at]
             t == st[at + 1]
             w == v \o <<c>>
  <1>1. /\ at \in 2 .. Len(st) - 1 /\ s \in Between /\ v \in Seq(Byte) /\ Len(st) \in Nat
        /\ \A r : IsRest(s, r) => AreUtf8(v \o r)
    BY DEF Reads, Runs
  <1>2. c \in Byte /\ t = Delta[s][c] /\ t # "stuck" /\ t \in StringStates
    <2>1. s # "quote" /\ at \in 2 .. Len(st)
      BY <1>1 DEF Between, Plain, Tails
    <2>2. c \in Byte /\ t = Delta[s][c] /\ t # "stuck"
      BY <2>1, InString
    <2>3. at + 1 \in 2 .. Len(st) - 1
      BY <1>1
    <2>4. t \in StringStates
      BY <2>3 DEF Runs
    <2> QED
      BY <2>2, <2>4
  <1>3. /\ t \in Between
        /\ \/ s \in Plain /\ t = After(c)
           \/ s \in Tails /\ c \in Tail1(s) /\ t = Behind(s)
    <2>1. t # "quote"
      BY <1>2 DEF StringStates, Between, Plain, Tails, Hexes
    <2> QED
      BY <1>1, <1>2, <2>1, BetweenStep
  <1>4. Took(rd, 1, Ok(<<c>>)) = [at |-> at + 1, value |-> w, error |-> 0]
    BY DEF Took, Ok
  <1>5. w \in Seq(Byte)
    BY <1>1, <1>2
  <1>6. ASSUME NEW r, IsRest(t, r)
        PROVE  AreUtf8(w \o r)
    <2>1. r \in Seq(Byte)
      BY <1>6 DEF IsRest
    <2>2. w \o r = v \o (<<c>> \o r)
      <3>1. <<c>> \in Seq(Byte)
        BY <1>2
      <3>2. v \in Seq(Byte)
        BY <1>1
      <3> QED
        BY <2>1, <3>1, <3>2, Associates, Zenon
    <2>3. CASE s \in Plain /\ t = After(c)
      <3>1. AreUtf8(v)
        BY <2>3, Whole
      <3>2. <<c>> \o r \in Seq(Byte) /\ IsUtf8(<<c>> \o r)
        BY <1>2, <1>3, <1>6, <2>3, CharacterOf
      <3> QED
        BY <1>1, <2>2, <3>1, <3>2, CharacterAppended
    <2>4. CASE s \in Tails /\ c \in Tail1(s) /\ t = Behind(s)
      <3>1. IsRest(s, <<c>> \o r)
        BY <1>6, <2>4, RestGrows
      <3> QED
        BY <1>1, <2>2, <3>1
    <2> QED
      BY <1>3, <2>3, <2>4
  <1>7. at + 1 \in 2 .. Len(st) - 1
    BY <1>1
  <1> HIDE DEF at, v, w, t
  <1>8. Reads(st, [at |-> at + 1, value |-> w, error |-> 0])
    BY <1>3, <1>5, <1>6, <1>7 DEF Reads, t
  <1> QED
    BY <1>4, <1>8 DEF at

\* Every step of get_string.
LEMMA ReadStep ==
    ASSUME NEW b, NEW st, Runs(b, st), st[Len(st)] = "quote",
           NEW rd, Reads(st, rd), rd.error = 0, rd.at < Len(st) - 1
    PROVE  Reads(st, TookNext(b, rd))
  <1> DEFINE at == rd.at
  <1>1. at \in 2 .. Len(st) - 1 /\ at \in Int /\ st[at] \in Between /\ Len(st) \in Nat
    BY DEF Reads, Runs
  <1>2. CASE b[at] # 92
    BY <1>2, TookByte DEF TookNext
  <1>3. CASE b[at] = 92
    <2>1. st[at] \in Plain
      BY <1>1, <1>3, EscapeWalk
    <2>2. CASE b[at + 1] # 117
      <3>1. b[at + 1] \in DOMAIN Escapes /\ at + 2 \in 2 .. Len(st) - 1 /\ st[at + 2] = "string"
        <4>1. IsEscape(b, st, at)
          BY <1>1, <1>3, EscapeWalk
        <4> QED
          BY <2>2, <4>1, Zenon DEF IsEscape
      <3>2. TookNext(b, rd) = Took(rd, 2, Ok(<<Escapes[b[at + 1]]>>))
        BY <1>3, <2>2 DEF TookNext
      <3> DEFINE r == Ok(<<Escapes[b[at + 1]]>>)
      <3>3. r.error = 0 /\ r.value \in Seq(Byte) /\ IsUtf8(r.value)
        BY <3>1, EscapesType DEF Ok
      <3> HIDE DEF r
      <3>4. Reads(st, Took(rd, 2, r))
        BY <2>1, <3>1, <3>3, TookCharacter
      <3> QED
        BY <3>2, <3>4 DEF r
    <2>3. CASE b[at + 1] = 117
      <3> DEFINE c == Hex4(b, at + 2)
                 lone == \/ High(c) /\ (at + 6 >= Len(b) \/ b[at + 6] # 92 \/ b[at + 7] # 117)
                         \/ Low(c)
      <3>1. /\ at + 6 \in 2 .. Len(st) - 1 /\ st[at + 6] = "string"
            /\ b[at + 2] \in HexDigits /\ b[at + 3] \in HexDigits
            /\ b[at + 4] \in HexDigits /\ b[at + 5] \in HexDigits
        <4>1. 117 \notin DOMAIN Escapes
          BY DEF Escapes
        <4>2. IsEscape(b, st, at)
          BY <1>1, <1>3, EscapeWalk
        <4> QED
          BY <2>3, <4>1, <4>2, Zenon DEF IsEscape
      <3>2. c \in Int /\ 0 <= c /\ c <= 65535
        <4>1. at + 2 \in Int /\ at + 2 + 1 = at + 3 /\ at + 2 + 2 = at + 4 /\ at + 2 + 3 = at + 5
          BY <1>1, Offsets, Zenon
        <4> QED
          BY <3>1, <4>1, Hex4Type
      <3>3. TookNext(b, rd) = TookUnicode(b, rd)
        BY <1>3, <2>3 DEF TookNext
      <3>4. /\ lone => TookUnicode(b, rd) = Took(rd, 0, Throw(102))
            /\ ~lone /\ High(c) => TookUnicode(b, rd) = Took(rd, 12, ToUnicode(c, Hex4(b, at + 8)))
            /\ ~lone /\ ~High(c) => TookUnicode(b, rd) = Took(rd, 6, ToUnicode(c, 0))
        BY DEF TookUnicode
      <3> HIDE DEF c
      <3>5. CASE lone
        <4>1. Throw(102).error = 102
          BY DEF Throw
        <4>2. Took(rd, 0, Throw(102)) = [rd EXCEPT !.error = 102]
          BY <4>1 DEF Took
        <4>3. rd = [at |-> rd.at, value |-> rd.value, error |-> 0]
          BY DEF Reads
        <4>4. [rd EXCEPT !.error = 102].error = 102
          BY <4>3
        <4> QED
          BY <3>3, <3>4, <3>5, <4>2, <4>4 DEF Reads
      <3>6. CASE ~lone /\ High(c)
        <4>1. b[at + 6] = 92 /\ b[at + 7] = 117 /\ ~Low(c)
          BY <3>6
        <4>2. /\ at + 12 \in 2 .. Len(st) - 1 /\ st[at + 12] = "string"
              /\ b[at + 8] \in HexDigits /\ b[at + 9] \in HexDigits
              /\ b[at + 10] \in HexDigits /\ b[at + 11] \in HexDigits
          <5>1. 117 \notin DOMAIN Escapes /\ st[at + 6] \in Between
            BY <3>1 DEF Escapes, Between, Plain
          <5>2. /\ (at + 6) + 1 = at + 7 /\ (at + 6) + 2 = at + 8 /\ (at + 6) + 3 = at + 9
                /\ (at + 6) + 4 = at + 10 /\ (at + 6) + 5 = at + 11 /\ (at + 6) + 6 = at + 12
            BY <1>1, Offsets, Zenon
          <5>3. IsEscape(b, st, at + 6)
            BY <3>1, <4>1, <5>1, EscapeWalk
          <5> QED
            BY <4>1, <5>1, <5>2, <5>3, Zenon DEF IsEscape
        <4> DEFINE d == Hex4(b, at + 8)
        <4>3. d \in Int
          <5>1. at + 8 \in Int /\ at + 8 + 1 = at + 9 /\ at + 8 + 2 = at + 10 /\ at + 8 + 3 = at + 11
            BY <1>1, Offsets, Zenon
          <5> QED
            BY <4>2, <5>1, Hex4Type
        <4> HIDE DEF d
        <4> DEFINE r == ToUnicode(c, d)
        <4>4. r.error = 102 \/ (r.error = 0 /\ r.value \in Seq(Byte) /\ IsUtf8(r.value))
          BY <3>2, <4>1, <4>3, UnicodeIsUtf8
        <4> HIDE DEF r
        <4>5. Reads(st, Took(rd, 12, r))
          BY <2>1, <4>2, <4>4, TookCharacter
        <4> QED
          BY <3>3, <3>4, <3>6, <4>5 DEF d, r
      <3>7. CASE ~lone /\ ~High(c)
        <4> DEFINE r == ToUnicode(c, 0)
        <4>1. r.error = 102 \/ (r.error = 0 /\ r.value \in Seq(Byte) /\ IsUtf8(r.value))
          BY <3>2, <3>7, UnicodeIsUtf8
        <4> HIDE DEF r
        <4>2. Reads(st, Took(rd, 6, r))
          BY <2>1, <3>1, <4>1, TookCharacter
        <4> QED
          BY <3>3, <3>4, <3>7, <4>2 DEF r
      <3> QED
        BY <3>5, <3>6, <3>7
    <2> QED
      BY <2>2, <2>3
  <1> QED
    BY <1>2, <1>3

\* The token begins behind its quote.
LEMMA ReadStart ==
    ASSUME NEW b, NEW st, Runs(b, st), st[Len(st)] = "quote"
    PROVE  Reads(st, Reading)
  <1>1. Len(st) \in Nat /\ Len(st) > 1
    BY DEF Runs
  <1>2. st[2] = "open"
    <2>1. 1 \in 1 .. Len(st) - 1 /\ 1 + 1 = 2
      BY <1>1
    <2>2. st[2] = Delta["start"][34]
      BY <2>1 DEF Runs
    <2> QED
      BY <2>2, OpenDelta
  <1>3. 2 \in 2 .. Len(st) - 1
    <2>1. Len(st) # 2
      BY <1>2
    <2> QED
      BY <1>1, <2>1, AtLeastThree, Zenon
  <1>4. "open" \in Plain /\ "open" \in Between
    BY DEF Plain, Between
  <1>5. \A r : IsRest("open", r) => AreUtf8(<<>> \o r)
    <2>1. <<>> \o <<>> = <<>>
      OBVIOUS
    <2> QED
      BY <1>4, <2>1, PlainRest, NoCharacters
  <1> QED
    BY <1>2, <1>3, <1>4, <1>5 DEF Reads, Reading

\* At the closing quote all characters are whole.
LEMMA ReadEnd ==
    ASSUME NEW b, NEW st, Runs(b, st), st[Len(st)] = "quote",
           NEW rd, Reads(st, rd), rd.error = 0, rd.at >= Len(st) - 1
    PROVE  AreUtf8(rd.value)
  <1> DEFINE at == rd.at
  <1>1. at \in 2 .. Len(st) - 1 /\ st[at] \in Between /\ Len(st) \in Nat
    BY DEF Reads, Runs
  <1>2. at + 1 = Len(st) /\ at \in 2 .. Len(st) /\ st[at] # "quote"
    BY <1>1 DEF Between, Plain, Tails
  <1>3. b[at] \in Byte /\ Delta[st[at]][b[at]] = "quote"
    <2>1. b[at] \in Byte /\ st[at + 1] = Delta[st[at]][b[at]]
      BY <1>2, InString
    <2> QED
      BY <1>2, <2>1
  <1>4. st[at] \in Plain
    <2>1. "quote" \notin Between
      BY DEF Between, Plain, Tails
    <2> QED
      BY <1>1, <1>3, <2>1, BetweenStep
  <1> QED
    BY <1>4, Whole

-----------------------------------------------------------------------------
(* Strings: the scanner in one that was written.                           *)

\* The buffer holds a string between quotes as it is escaped.
IsText(s, b) ==
    /\ b \in Seq(Byte) /\ Len(b) >= Place(s, Len(s)) + 2
    /\ b[1] = 34 /\ b[Place(s, Len(s)) + 2] = 34
    /\ Escaped(s, Len(s), b, 1)

\* The states of the scanner inside an escape.
Path == <<"escape", "hex4", "hex3", "hex2", "hex1">>

\* The scanner goes on in an escape that was written, to the end of it.
LEMMA EscapeStep ==
    ASSUME NEW c \in Byte, NEW j \in 1 .. Len(EscapedByte(c)) - 1
    PROVE  LET e == EscapedByte(c)
               next == Delta[Path[j]][e[j + 1]]
           IN  /\ Path[j] \in DOMAIN Delta /\ e[1] = 92
               /\ j + 1 = Len(e) => next = "string"
               /\ j + 1 # Len(e) => j + 1 \in 1 .. Len(e) - 1 /\ next = Path[j + 1]
  <1> DEFINE e == EscapedByte(c)
  <1>1. /\ c \in DOMAIN Short => Len(e) = 2 /\ e[1] = 92 /\ e[2] = Short[c]
        /\ c \in Long => /\ Len(e) = 6 /\ e[1] = 92 /\ e[2] = 117 /\ e[3] = 48 /\ e[4] = 48
                         /\ e[5] = Hexify(c \div 16) /\ e[6] = Hexify(c % 16)
        /\ c \notin DOMAIN Short /\ c \notin Long => Len(e) = 1
    BY EscapedBytes
  <1> HIDE DEF e
  <1>2. j \in 1 .. Len(e) - 1
    BY DEF e
  <1>3. /\ Path[1] = "escape" /\ Path[2] = "hex4" /\ Path[3] = "hex3"
        /\ Path[4] = "hex2" /\ Path[5] = "hex1"
    BY DEF Path
  <1>4. CASE c \in DOMAIN Short
    <2>1. Len(e) = 2 /\ e[1] = 92 /\ e[2] = Short[c]
      BY <1>1, <1>4, Zenon
    <2>2. j = 1
      BY <1>2, <2>1
    <2>3. Short[c] \in Byte /\ Short[c] \in DOMAIN Escapes
      BY <1>4, ShortEscapes
    <2>4. "escape" \in DOMAIN Delta /\ Delta["escape"][Short[c]] = "string"
      BY <2>3, EscapeDelta
    <2> QED
      BY <1>3, <2>1, <2>2, <2>4 DEF e
  <1>5. CASE c \in Long
    <2>1. /\ Len(e) = 6 /\ e[1] = 92 /\ e[2] = 117 /\ e[3] = 48 /\ e[4] = 48
          /\ e[5] = Hexify(c \div 16) /\ e[6] = Hexify(c % 16)
      BY <1>1, <1>5, Zenon
    <2>2. /\ Hexify(c \div 16) \in HexDigits /\ Hexify(c % 16) \in HexDigits
      <3>1. c \in Int /\ 0 <= c /\ c <= 31
        BY <1>5 DEF Long
      <3>2. c \div 16 \in Int /\ 0 <= c \div 16 /\ c \div 16 <= 15
        BY <3>1
      <3>3. c % 16 \in Int /\ 0 <= c % 16 /\ c % 16 <= 15
        BY <3>1
      <3> QED
        BY <3>2, <3>3, HexifyReadsBack
    <2>3. 48 \in HexDigits /\ HexDigits \subseteq Byte /\ 117 \in Byte /\ 117 \notin DOMAIN Escapes
      BY DEF HexDigits, Digits, Byte, Escapes
    <2>4. "escape" \in DOMAIN Delta /\ Delta["escape"][117] = "hex4"
      BY <2>3, EscapeDelta
    <2>5. \A h \in Hexes, d \in HexDigits : h \in DOMAIN Delta /\ Delta[h][d] = HexBehind(h)
      BY <2>3, HexDelta
    <2>6. /\ HexBehind("hex4") = "hex3" /\ HexBehind("hex3") = "hex2"
          /\ HexBehind("hex2") = "hex1" /\ HexBehind("hex1") = "string"
      BY DEF HexBehind
    <2>7. /\ "hex4" \in Hexes /\ "hex3" \in Hexes /\ "hex2" \in Hexes /\ "hex1" \in Hexes
      BY DEF Hexes
    <2>8. j = 1 \/ j = 2 \/ j = 3 \/ j = 4 \/ j = 5
      BY <1>2, <2>1
    <2> DEFINE Goal(i) == /\ Path[i] \in DOMAIN Delta
                          /\ i + 1 = 6 => Delta[Path[i]][e[i + 1]] = "string"
                          /\ i + 1 # 6 => i + 1 \in 1 .. 5 /\ Delta[Path[i]][e[i + 1]] = Path[i + 1]
    <2>9. Goal(1)
      BY <1>3, <2>1, <2>4
    <2>10. Goal(2)
      BY <1>3, <2>1, <2>3, <2>5, <2>6, <2>7
    <2>11. Goal(3)
      BY <1>3, <2>1, <2>3, <2>5, <2>6, <2>7
    <2>12. Goal(4)
      <3>1. Delta["hex2"][e[5]] = "hex1" /\ "hex2" \in DOMAIN Delta
        BY <2>1, <2>2, <2>5, <2>6, <2>7
      <3> QED
        BY <1>3, <3>1
    <2>13. Goal(5)
      <3>1. Delta["hex1"][e[6]] = "string" /\ "hex1" \in DOMAIN Delta
        BY <2>1, <2>2, <2>5, <2>6, <2>7
      <3> QED
        BY <1>3, <3>1
    <2>14. Goal(j)
      BY <2>8, <2>9, <2>10, <2>11, <2>12, <2>13
    <2> QED
      BY <2>1, <2>14 DEF e
  <1>6. c \in DOMAIN Short \/ c \in Long
    <2>1. ASSUME Len(e) = 1
          PROVE  FALSE
      <3>1. j \in 1 .. 1 - 1
        BY <1>2, <2>1, Zenon
      <3>2. \A i : i \notin 1 .. 1 - 1
        OBVIOUS
      <3> QED
        BY <3>1, <3>2, Zenon
    <2> QED
      BY <1>1, <2>1, Zenon
  <1> QED
    BY <1>4, <1>5, <1>6

\* The first byte of what a byte is escaped to, between the bytes of the string.
LEMMA FirstStep ==
    ASSUME NEW c \in Byte, NEW state \in Between
    PROVE  LET e == EscapedByte(c)
               next == Delta[state][e[1]]
           IN  /\ state \in DOMAIN Delta /\ e[1] \in Byte
               /\ \/ next = "stuck"
                  \/ Len(e) = 1 /\ next \in Between
                  \/ Len(e) > 1 /\ next = "escape"
  <1> DEFINE e == EscapedByte(c)
             d == e[1]
  <1>1. \/ Len(e) = 1 /\ d = c /\ c # 92 /\ c # 34
        \/ Len(e) > 1 /\ d = 92
    <2>1. c = 34 => c \in DOMAIN Short
      BY DEF Short
    <2> QED
      BY <2>1, EscapedBytes
  <1>2. d \in Byte
    <2>1. 92 \in Byte
      BY DEF Byte
    <2> QED
      BY <1>1, <2>1
  <1> HIDE DEF e, d
  <1>3. state \in DOMAIN Delta
    BY <1>2, NextState DEF StringStates
  <1>4. ASSUME Delta[state][d] # "stuck"
        PROVE  \/ Len(e) = 1 /\ Delta[state][d] \in Between
               \/ Len(e) > 1 /\ Delta[state][d] = "escape"
    <2>1. \/ d = 92 /\ Delta[state][d] = "escape"
          \/ d = 34
          \/ d # 92 /\ Delta[state][d] \in Between
      <3>1. \A t : t \in Tails => 92 \notin Tail1(t)
        <4>1. 92 \notin Continuation
          BY DEF Continuation
        <4> QED
          BY <4>1, Waits
      <3> QED
        BY <1>2, <1>4, <3>1, BetweenStep
    <2> QED
      BY <1>1, <2>1
  <1> QED
    BY <1>2, <1>3, <1>4 DEF d, e

\* Where a byte of the string stands in the buffer.
LEMMA TextByte ==
    ASSUME NEW s \in Seq(Byte), NEW b, IsText(s, b), NEW k \in 1 .. Len(s)
    PROVE  /\ Place(s, k - 1) \in Nat /\ Len(EscapedByte(s[k])) \in Nat \ {0}
           /\ Place(s, k) = Place(s, k - 1) + Len(EscapedByte(s[k]))
           /\ \A j \in 1 .. Len(EscapedByte(s[k])) :
                 /\ 1 + Place(s, k - 1) + j <= Len(b)
                 /\ b[1 + Place(s, k - 1) + j] = EscapedByte(s[k])[j]
  <1> DEFINE e == EscapedByte(s[k])
             n == Len(s)
  <1>1. k - 1 \in 0 .. n - 1 /\ (k - 1) + 1 = k /\ k \in 0 .. n /\ n \in k .. n /\ n \in Nat
    OBVIOUS
  <1>2. Place(s, k - 1) \in Nat /\ Place(s, k) = Place(s, k - 1) + Len(e)
    BY <1>1, PlaceNext
  <1>3. Len(e) \in Nat \ {0}
    <2>1. s[k] \in Byte
      OBVIOUS
    <2>2. Len(e) = 1 + Extra(s[k]) /\ Extra(s[k]) \in {0, 1, 5}
      BY <2>1, EscapedByteType
    <2> QED
      BY <2>2
  <1>4. Place(s, k) \in Nat /\ Place(s, n) \in Nat /\ Place(s, k) <= Place(s, n)
    <2>1. /\ Place(s, k) \in Nat /\ Place(s, n) \in Nat
          /\ Place(s, n) - n >= Place(s, k) - k
      BY <1>1, PlaceMonotone
    <2>2. k \in Nat /\ k <= n
      BY <1>1
    <2> QED
      BY <1>1, <2>1, <2>2
  <1>5. Len(b) \in Nat /\ Len(b) >= Place(s, n) + 2 /\ Escaped(s, n, b, 1)
    BY DEF IsText
  <1> HIDE DEF e, n
  <1>6. ASSUME NEW j \in 1 .. Len(e)
        PROVE  1 + Place(s, k - 1) + j <= Len(b) /\ b[1 + Place(s, k - 1) + j] = e[j]
    <2>1. 1 + Place(s, k - 1) + j <= Len(b)
      <3> DEFINE p == Place(s, k - 1)
                 q == Place(s, k)
                 r == Place(s, n)
                 l == Len(e)
                 m == Len(b)
      <3>1. /\ p \in Nat /\ q \in Nat /\ r \in Nat /\ l \in Nat /\ m \in Nat
            /\ q = p + l /\ q <= r /\ m >= r + 2 /\ j \in 1 .. l
        BY <1>2, <1>3, <1>4, <1>5
      <3> HIDE DEF p, q, r, l, m
      <3>2. 1 + p + j <= m
        BY <3>1
      <3> QED
        BY <3>2 DEF p, m
    <2>2. b[1 + Place(s, k - 1) + j] = e[j]
      BY <1>5 DEF Escaped, e, n
    <2> QED
      BY <2>1, <2>2
  <1> QED
    BY <1>2, <1>3, <1>6 DEF e

\* How far the scanner is: between two bytes of the string, or inside an escape.
AtByte(s, k, at, state) == at = 1 + Place(s, k) /\ state \in Between
InEscape(s, k, at, state) ==
    \E j \in 1 .. Len(EscapedByte(s[k])) - 1 : at = 1 + Place(s, k - 1) + j /\ state = Path[j]
Sync(s, at, state) ==
    \/ at = 0 /\ state = "start"
    \/ \E k \in 0 .. Len(s) : AtByte(s, k, at, state)
    \/ \E k \in 1 .. Len(s) : InEscape(s, k, at, state)
    \/ at = Place(s, Len(s)) + 2 /\ state = "quote"

\* A byte of the string is begun.
LEMMA AtByteStep ==
    ASSUME NEW s \in Seq(Byte), NEW b, IsText(s, b), NEW k \in 0 .. Len(s) - 1,
           NEW at, NEW state, AtByte(s, k, at, state)
    PROVE  LET next == Delta[state][b[at + 1]]
               c    == s[k + 1]
           IN  /\ at + 1 <= Len(b) /\ state \in DOMAIN Delta /\ b[at + 1] = EscapedByte(c)[1]
               /\ \/ next = "stuck"
                  \/ Len(EscapedByte(c)) = 1 /\ next \in Between /\ AtByte(s, k + 1, at + 1, next)
                  \/ Len(EscapedByte(c)) > 1 /\ InEscape(s, k + 1, at + 1, next)
  <1> DEFINE e == EscapedByte(s[k + 1])
             p == Place(s, k)
             next == Delta[state][b[at + 1]]
  <1>1. k + 1 \in 1 .. Len(s) /\ (k + 1) - 1 = k /\ s[k + 1] \in Byte
    OBVIOUS
  <1>2. at = 1 + p /\ state \in Between
    BY DEF AtByte
  <1>3. /\ p \in Nat /\ Len(e) \in Nat \ {0} /\ Place(s, k + 1) = p + Len(e)
        /\ \A j \in 1 .. Len(e) : 1 + p + j <= Len(b) /\ b[1 + p + j] = e[j]
    <2>1. /\ Place(s, (k + 1) - 1) \in Nat /\ Len(e) \in Nat \ {0}
          /\ Place(s, k + 1) = Place(s, (k + 1) - 1) + Len(e)
          /\ \A j \in 1 .. Len(e) :
                /\ 1 + Place(s, (k + 1) - 1) + j <= Len(b)
                /\ b[1 + Place(s, (k + 1) - 1) + j] = e[j]
      BY <1>1, TextByte
    <2> QED
      BY <1>1, <2>1
  <1>4. /\ state \in DOMAIN Delta
        /\ \/ Delta[state][e[1]] = "stuck"
           \/ Len(e) = 1 /\ Delta[state][e[1]] \in Between
           \/ Len(e) > 1 /\ Delta[state][e[1]] = "escape"
    BY <1>1, <1>2, FirstStep
  <1> HIDE DEF e, p
  <1>5. at + 1 = 1 + p + 1 /\ 1 \in 1 .. Len(e)
    BY <1>2, <1>3
  <1>6. at + 1 <= Len(b) /\ b[at + 1] = e[1]
    BY <1>3, <1>5
  <1>7. Len(e) = 1 /\ next \in Between => AtByte(s, k + 1, at + 1, next)
    BY <1>2, <1>3 DEF AtByte
  <1>8. Len(e) > 1 /\ next = "escape" => InEscape(s, k + 1, at + 1, next)
    <2>1. Path[1] = "escape"
      BY DEF Path
    <2>2. Len(e) > 1 => 1 \in 1 .. Len(e) - 1
      BY <1>3
    <2> QED
      BY <1>1, <1>5, <2>1, <2>2 DEF InEscape, e, p
  <1> QED
    BY <1>4, <1>6, <1>7, <1>8 DEF e

\* An escape goes on.
LEMMA InEscapeStep ==
    ASSUME NEW s \in Seq(Byte), NEW b, IsText(s, b), NEW k \in 1 .. Len(s),
           NEW at, NEW state, InEscape(s, k, at, state)
    PROVE  LET next == Delta[state][b[at + 1]]
           IN  /\ at + 1 <= Len(b) /\ state \in DOMAIN Delta
               /\ \/ AtByte(s, k, at + 1, next) /\ next = "string"
                  \/ InEscape(s, k, at + 1, next)
  <1> DEFINE e == EscapedByte(s[k])
             p == Place(s, k - 1)
             next == Delta[state][b[at + 1]]
  <1>1. s[k] \in Byte
    OBVIOUS
  <1>2. /\ p \in Nat /\ Len(e) \in Nat \ {0} /\ Place(s, k) = p + Len(e)
        /\ \A j \in 1 .. Len(e) : 1 + p + j <= Len(b) /\ b[1 + p + j] = e[j]
    <2>1. /\ Place(s, k - 1) \in Nat /\ Len(EscapedByte(s[k])) \in Nat \ {0}
          /\ Place(s, k) = Place(s, k - 1) + Len(EscapedByte(s[k]))
          /\ \A j \in 1 .. Len(EscapedByte(s[k])) :
                /\ 1 + Place(s, k - 1) + j <= Len(b)
                /\ b[1 + Place(s, k - 1) + j] = EscapedByte(s[k])[j]
      BY TextByte
    <2> QED
      BY <2>1
  <1>3. PICK j \in 1 .. Len(e) - 1 : at = 1 + p + j /\ state = Path[j]
    BY DEF InEscape
  <1>4. /\ Path[j] \in DOMAIN Delta
        /\ j + 1 = Len(e) => Delta[Path[j]][e[j + 1]] = "string"
        /\ j + 1 # Len(e) => j + 1 \in 1 .. Len(e) - 1 /\ Delta[Path[j]][e[j + 1]] = Path[j + 1]
    BY <1>1, EscapeStep
  <1> HIDE DEF e, p
  <1>5. j + 1 \in 1 .. Len(e) /\ at + 1 = 1 + p + (j + 1)
    <2>1. p \in Nat /\ Len(e) \in Nat /\ j \in 1 .. Len(e) - 1 /\ at = 1 + p + j
      BY <1>2, <1>3
    <2> DEFINE l == Len(e)
    <2> HIDE DEF l
    <2>2. j \in Nat /\ j + 1 \in 1 .. l
      BY <2>1 DEF l
    <2>3. at + 1 = 1 + p + (j + 1)
      BY <2>1, <2>2
    <2> QED
      BY <2>2, <2>3 DEF l
  <1>6. at + 1 <= Len(b) /\ b[at + 1] = e[j + 1]
    BY <1>2, <1>5
  <1>7. CASE j + 1 = Len(e)
    <2>1. next = "string"
      BY <1>3, <1>4, <1>6, <1>7
    <2>2. at + 1 = 1 + Place(s, k)
      BY <1>2, <1>5, <1>7
    <2>3. "string" \in Between
      BY DEF Between, Plain
    <2> QED
      BY <1>3, <1>4, <1>6, <2>1, <2>2, <2>3 DEF AtByte
  <1>8. CASE j + 1 # Len(e)
    <2>1. next = Path[j + 1] /\ j + 1 \in 1 .. Len(e) - 1
      BY <1>3, <1>4, <1>6, <1>8
    <2>2. InEscape(s, k, at + 1, next)
      BY <1>5, <2>1 DEF InEscape, e, p
    <2> QED
      BY <1>3, <1>4, <1>6, <2>2
  <1> QED
    BY <1>7, <1>8

\* The closing quote is next.
LEMMA AtEndStep ==
    ASSUME NEW s \in Seq(Byte), NEW b, IsText(s, b), NEW at, NEW state,
           AtByte(s, Len(s), at, state)
    PROVE  LET next == Delta[state][b[at + 1]]
           IN  /\ at + 1 <= Len(b) /\ state \in DOMAIN Delta /\ at + 1 = Place(s, Len(s)) + 2
               /\ next # "stuck" => next = "quote"
               /\ state \in Plain => next = "quote"
  <1>1. at = 1 + Place(s, Len(s)) /\ state \in Between
    BY DEF AtByte
  <1>2. Place(s, Len(s)) \in Nat
    <2>1. Len(s) \in 0 .. Len(s) /\ Len(s) \in Len(s) .. Len(s)
      OBVIOUS
    <2> QED
      BY <2>1, PlaceMonotone
  <1>3. at + 1 = Place(s, Len(s)) + 2
    BY <1>1, <1>2
  <1>4. Len(b) >= Place(s, Len(s)) + 2 /\ b[at + 1] = 34 /\ Len(b) \in Nat
    BY <1>3 DEF IsText
  <1>5. at + 1 <= Len(b)
    BY <1>2, <1>3, <1>4
  <1>6. 34 \in Byte
    BY DEF Byte
  <1>7. state \in DOMAIN Delta
    BY <1>1, <1>6, NextState DEF StringStates
  <1>8. Delta[state][34] # "stuck" => Delta[state][34] = "quote"
    <2>1. 34 \notin Continuation
      BY DEF Continuation
    <2>2. \A t \in Tails : 34 \notin Tail1(t)
      BY <2>1, Waits
    <2> QED
      BY <1>1, <1>6, <2>2, BetweenStep
  <1>9. state \in Plain => Delta[state][34] = "quote"
    BY <1>6, PlainDelta, AfterQuote
  <1> QED
    BY <1>3, <1>4, <1>5, <1>7, <1>8, <1>9

\* The scanner of a string that was written does not lose it.
LEMMA SyncStep ==
    ASSUME NEW s \in Seq(Byte), NEW b, IsText(s, b), NEW at, NEW state,
           Sync(s, at, state), state # "quote"
    PROVE  LET next == Delta[state][b[at + 1]]
           IN  /\ at + 1 <= Len(b) /\ state \in DOMAIN Delta
               /\ next # "stuck" => Sync(s, at + 1, next)
  <1> DEFINE next == Delta[state][b[at + 1]]
  <1>1. CASE at = 0 /\ state = "start"
    <2>1. Place(s, 0) = 0 /\ Place(s, Len(s)) \in Nat
      <3>1. Len(s) \in 0 .. Len(s) /\ Len(s) \in Len(s) .. Len(s)
        OBVIOUS
      <3> QED
        BY <3>1, PlaceZero, PlaceMonotone
    <2>2. b[at + 1] = 34 /\ at + 1 = 1 + Place(s, 0)
      BY <1>1, <2>1 DEF IsText
    <2>3. at + 1 <= Len(b)
      BY <1>1, <2>1 DEF IsText
    <2>4. "open" \in Between
      BY DEF Between, Plain
    <2>5. state \in DOMAIN Delta /\ next = "open"
      BY <1>1, <2>2, OpenDelta
    <2>6. AtByte(s, 0, at + 1, next)
      BY <2>2, <2>4, <2>5 DEF AtByte
    <2>7. 0 \in 0 .. Len(s)
      OBVIOUS
    <2> QED
      BY <2>3, <2>5, <2>6, <2>7 DEF Sync
  <1>2. CASE \E k \in 0 .. Len(s) : AtByte(s, k, at, state)
    <2>1. PICK k \in 0 .. Len(s) : AtByte(s, k, at, state)
      BY <1>2
    <2>2. CASE k = Len(s)
      <3>1. /\ at + 1 <= Len(b) /\ state \in DOMAIN Delta /\ at + 1 = Place(s, Len(s)) + 2
            /\ next # "stuck" => next = "quote"
        BY <2>1, <2>2, AtEndStep
      <3> QED
        BY <3>1 DEF Sync
    <2>3. CASE k # Len(s)
      <3>1. k \in 0 .. Len(s) - 1 /\ k + 1 \in 0 .. Len(s) /\ k + 1 \in 1 .. Len(s)
        BY <2>3
      <3>2. /\ at + 1 <= Len(b) /\ state \in DOMAIN Delta
            /\ \/ next = "stuck" \/ AtByte(s, k + 1, at + 1, next)
               \/ InEscape(s, k + 1, at + 1, next)
        BY <2>1, <3>1, AtByteStep
      <3> QED
        BY <3>1, <3>2 DEF Sync
    <2> QED
      BY <2>2, <2>3
  <1>3. CASE \E k \in 1 .. Len(s) : InEscape(s, k, at, state)
    <2>1. PICK k \in 1 .. Len(s) : InEscape(s, k, at, state)
      BY <1>3
    <2>2. /\ at + 1 <= Len(b) /\ state \in DOMAIN Delta
          /\ AtByte(s, k, at + 1, next) \/ InEscape(s, k, at + 1, next)
      BY <2>1, InEscapeStep
    <2>3. k \in 0 .. Len(s)
      OBVIOUS
    <2> QED
      BY <2>2, <2>3 DEF Sync
  <1> QED
    BY <1>1, <1>2, <1>3 DEF Sync

-----------------------------------------------------------------------------
(* Strings: the scanner in UTF-8 that was written.                         *)

\* A character of ASCII that needs no escape leads to the next.
LEMMA AfterAscii ==
    ASSUME NEW c \in Int, 32 <= c, c < 128, c # 34, c # 92
    PROVE  After(c) = "string"
  BY DEF After

\* A byte stays one byte that is no control byte, quote or backslash; or it is of ASCII and
\* becomes an escape.
LEMMA Escapables ==
    ASSUME NEW c \in Byte
    PROVE  /\ c \in Int
           /\ \/ Len(EscapedByte(c)) = 1 /\ EscapedByte(c)[1] = c /\ c >= 32 /\ c # 34 /\ c # 92
              \/ Len(EscapedByte(c)) > 1 /\ EscapedByte(c)[1] = 92 /\ c < 128
  <1>1. c \in Int /\ 0 <= c
    BY BytesAreIntegers
  <1>2. CASE c \in DOMAIN Short
    <2>1. c < 128
      BY <1>2 DEF Short
    <2> QED
      BY <1>1, <1>2, <2>1, EscapedBytes
  <1>3. CASE c \in Long
    <2>1. c < 128
      BY <1>3 DEF Long
    <2> QED
      BY <1>1, <1>3, <2>1, EscapedBytes
  <1>4. CASE c \notin DOMAIN Short /\ c \notin Long
    <2>1. c >= 32 /\ c # 34
      BY <1>1, <1>4 DEF Long, Short
    <2> QED
      BY <1>1, <1>4, <2>1, EscapedBytes
  <1> QED
    BY <1>2, <1>3, <1>4

\* The bytes of a string from one on.
LEMMA Rest ==
    ASSUME NEW s \in Seq(Byte), NEW k \in 0 .. Len(s) - 1, NEW l \in k .. Len(s)
    PROVE  LET u == SubSeq(s, k + 1, l)
           IN  /\ u \in Seq(Byte) /\ Len(u) = l - k
               /\ l > k => u[1] = s[k + 1] /\ Tail(u) = SubSeq(s, k + 2, l)
  <1> DEFINE m == k + 1
             u == SubSeq(s, m, l)
             n == Len(s)
  <1>1. k \in Int /\ l \in Int /\ m \in Int /\ n \in Nat /\ k >= 0 /\ l <= n /\ l >= k /\ m = k + 1
    OBVIOUS
  <1>2. \A i \in m .. l : s[i] \in Byte
    <2>1. \A i \in 1 .. n : s[i] \in Byte
      OBVIOUS
    <2> HIDE DEF m, n
    <2>2. \A i \in m .. l : i \in 1 .. n
      BY <1>1
    <2> QED
      BY <2>1, <2>2
  <1> HIDE DEF m, n
  <1>3. u \in Seq(Byte) /\ Len(u) = IF m <= l THEN l - m + 1 ELSE 0
    BY <1>1, <1>2, SubSeqProperties
  <1>4. Len(u) = l - k
    BY <1>1, <1>3
  <1>5. ASSUME l > k
        PROVE  u[1] = s[m] /\ Tail(u) = SubSeq(s, k + 2, l)
    <2>1. m \in 1 .. Len(s) /\ l \in m .. Len(s)
      <3>1. m \in 1 .. n /\ l \in m .. n
        BY <1>1, <1>5
      <3> QED
        BY <3>1 DEF n
    <2>2. Head(u) = s[m] /\ Tail(u) = SubSeq(s, m + 1, l)
      BY <2>1, HeadTailOfSubSeq
    <2>3. m + 1 = k + 2
      BY <1>1
    <2> HIDE DEF u
    <2>4. Head(u) = u[1]
      BY <1>3
    <2> QED
      BY <2>2, <2>3, <2>4
  <1> QED
    BY <1>3, <1>4, <1>5 DEF m

\* What the first byte of a character of the string, or a further one, leads to.
LEMMA CharStep ==
    ASSUME NEW s \in Seq(Byte), NEW E, Borders(s, E), NEW k \in 0 .. Len(s) - 1,
           NEW state \in Between, NEW l \in E, l >= k, IsRest(state, SubSeq(s, k + 1, l))
    PROVE  LET e == EscapedByte(s[k + 1])
               next == Delta[state][e[1]]
           IN  \/ Len(e) > 1 /\ next = "escape" /\ k + 1 \in E
               \/ /\ Len(e) = 1 /\ next \in Between
                  /\ \E m \in E : m >= k + 1 /\ IsRest(next, SubSeq(s, k + 2, m))
  <1> DEFINE n == Len(s)
             c == s[k + 1]
             e == EscapedByte(c)
             next == Delta[state][e[1]]
             r == SubSeq(s, k + 1, l)
  <1>1. c \in Byte /\ n \in Nat /\ k \in Nat
    OBVIOUS
  <1>2. /\ c \in Int
        /\ \/ Len(e) = 1 /\ e[1] = c /\ c >= 32 /\ c # 34 /\ c # 92
           \/ Len(e) > 1 /\ e[1] = 92 /\ c < 128
    BY <1>1, Escapables
  <1>3. E \subseteq 0 .. n /\ l \in k .. n
    BY DEF Borders
  <1>4. r \in Seq(Byte) /\ Len(r) = l - k /\ (l > k => r[1] = c /\ Tail(r) = SubSeq(s, k + 2, l))
    BY <1>3, Rest
  <1> HIDE DEF c, e, r, n
  <1>5. CASE state \in Plain
    <2>1. l = k
      <3>1. r = <<>>
        BY <1>5, PlainRest DEF r
      <3>2. l - k = 0
        BY <1>4, <3>1
      <3> QED
        BY <1>1, <1>3, <3>2
    <2>2. k # n
      BY <1>1 DEF n
    <2>3. PICK m \in 1 .. 4 : k + m \in E /\ IsUtf8(SubSeq(s, k + 1, k + m))
      BY <2>1, <2>2 DEF Borders, n
    <2> DEFINE u == SubSeq(s, k + 1, k + m)
    <2>4. k + m \in k .. n /\ k + m > k
      BY <1>1, <1>3, <2>3
    <2>5. u \in Seq(Byte) /\ Len(u) = m /\ u[1] = c /\ Tail(u) = SubSeq(s, k + 2, k + m)
      <3>1. k + m \in k .. Len(s)
        BY <2>4 DEF n
      <3>2. u \in Seq(Byte) /\ Len(u) = (k + m) - k /\ u[1] = c /\ Tail(u) = SubSeq(s, k + 2, k + m)
        BY <2>4, <3>1, Rest DEF c
      <3>3. (k + m) - k = m
        BY <1>1
      <3> QED
        BY <3>2, <3>3
    <2> HIDE DEF u
    <2>6. /\ m = 1 => c < 128
          /\ m > 1 => c > 127 /\ After(c) \in Tails /\ IsRest(After(c), Tail(u))
      BY <2>3, <2>5, CharacterIs DEF u
    <2>7. Delta[state][c] = After(c) /\ Delta[state][92] = "escape"
      <3>1. 92 \in Byte
        BY DEF Byte
      <3> QED
        BY <1>1, <1>5, <3>1, PlainDelta, AfterQuote
    <2>8. CASE Len(e) > 1 /\ e[1] = 92 /\ c < 128
      <3>1. m = 1
        BY <1>2, <2>6, <2>8
      <3> QED
        BY <2>3, <2>7, <2>8, <3>1 DEF e, c
    <2>9. CASE Len(e) = 1 /\ e[1] = c /\ c >= 32 /\ c # 34 /\ c # 92
      <3>1. CASE m = 1
        <4>1. c < 128
          BY <2>6, <3>1
        <4>2. After(c) = "string"
          BY <1>2, <2>9, <4>1, AfterAscii
        <4>3. SubSeq(s, k + 2, k + 1) = <<>>
          <5>1. k + 2 \in Int /\ k + 1 \in Int /\ k + 1 < k + 2
            BY <1>1
          <5> QED
            BY <5>1, SubSeqEmpty
        <4>4. "string" \in Plain /\ "string" \in Between
          BY DEF Plain, Between
        <4>5. IsRest("string", SubSeq(s, k + 2, k + 1))
          BY <4>3, <4>4, PlainRest
        <4>6. k + 1 \in E /\ k + 1 >= k + 1
          BY <1>1, <2>3, <3>1
        <4>7. next = "string"
          BY <2>7, <2>9, <4>2
        <4> QED
          BY <2>9, <4>4, <4>5, <4>6, <4>7 DEF e, c
      <3>2. CASE m > 1
        <4>1. next = After(c) /\ After(c) \in Tails /\ IsRest(After(c), SubSeq(s, k + 2, k + m))
          BY <2>5, <2>6, <2>7, <2>9, <3>2
        <4>2. k + m \in E /\ k + m >= k + 1
          BY <1>1, <2>3
        <4>3. next \in Between
          BY <4>1 DEF Between
        <4> QED
          BY <2>9, <4>1, <4>2, <4>3 DEF e, c
      <3>3. m = 1 \/ m > 1
        OBVIOUS
      <3> QED
        BY <3>1, <3>2, <3>3
    <2> QED
      BY <1>2, <2>8, <2>9
  <1>6. CASE state \in Tails
    <2>1. /\ r \in Seq(Byte) /\ Len(r) > 0 /\ r[1] \in Tail1(state) /\ IsRest(Behind(state), Tail(r))
      BY <1>6, RestShrinks DEF r
    <2>2. l > k /\ l >= k + 1
      <3>1. l - k > 0
        BY <1>4, <2>1
      <3> QED
        BY <1>1, <1>3, <3>1
    <2>3. c \in Tail1(state) /\ IsRest(Behind(state), SubSeq(s, k + 2, l))
      BY <1>4, <2>1, <2>2
    <2>4. c >= 128 /\ Behind(state) \in Between
      <3>1. c \in Continuation /\ Behind(state) \in Between
        BY <1>6, <2>3, Waits
      <3> QED
        BY <3>1, ContinuationBytes
    <2>5. Len(e) = 1 /\ e[1] = c
      BY <1>2, <2>4
    <2>6. next = Behind(state)
      BY <1>1, <1>6, <2>3, <2>5, TailDelta
    <2> QED
      BY <2>2, <2>3, <2>4, <2>5, <2>6 DEF e, c
  <1> QED
    BY <1>5, <1>6 DEF Between

\* How far the scanner is in a string of characters with these borders: it waits for what
\* is left of a character, and escapes stand for whole characters.
Apace(s, E, at, state) ==
    \/ at = 0 /\ state = "start"
    \/ \E k \in 0 .. Len(s) :
          /\ AtByte(s, k, at, state)
          /\ \E l \in E : l >= k /\ IsRest(state, SubSeq(s, k + 1, l))
    \/ \E k \in 1 .. Len(s) : k \in E /\ InEscape(s, k, at, state)
    \/ at = Place(s, Len(s)) + 2 /\ state = "quote"

\* The scanner of UTF-8 that was written goes on.
LEMMA ApaceStep ==
    ASSUME NEW s \in Seq(Byte), NEW b, IsText(s, b), NEW E, Borders(s, E), NEW at, NEW state,
           Apace(s, E, at, state), state # "quote"
    PROVE  LET next == Delta[state][b[at + 1]]
           IN  /\ at + 1 <= Len(b) /\ state \in DOMAIN Delta
               /\ next # "stuck" /\ Apace(s, E, at + 1, next)
  <1> DEFINE next == Delta[state][b[at + 1]]
  <1>0. Len(s) \in Nat /\ E \subseteq 0 .. Len(s) /\ 0 \in E /\ Len(s) \in E
    BY DEF Borders
  <1>1. CASE at = 0 /\ state = "start"
    <2>1. Place(s, 0) = 0 /\ Place(s, Len(s)) \in Nat
      <3>1. Len(s) \in 0 .. Len(s) /\ Len(s) \in Len(s) .. Len(s)
        OBVIOUS
      <3> QED
        BY <3>1, PlaceZero, PlaceMonotone
    <2>2. b[at + 1] = 34 /\ at + 1 = 1 + Place(s, 0)
      BY <1>1, <2>1 DEF IsText
    <2>3. at + 1 <= Len(b)
      BY <1>1, <2>1 DEF IsText
    <2>4. "open" \in Between /\ "open" \in Plain
      BY DEF Between, Plain
    <2>5. state \in DOMAIN Delta /\ next = "open"
      BY <1>1, <2>2, OpenDelta
    <2>6. AtByte(s, 0, at + 1, next)
      BY <2>2, <2>4, <2>5 DEF AtByte
    <2>7. 0 \in 0 .. Len(s) /\ 0 >= 0
      BY <1>0
    <2>8. IsRest(next, SubSeq(s, 0 + 1, 0))
      <3>1. SubSeq(s, 0 + 1, 0) = <<>>
        OBVIOUS
      <3> QED
        BY <2>4, <2>5, <3>1, PlainRest
    <2>9. Apace(s, E, at + 1, next)
      BY <1>0, <2>6, <2>7, <2>8 DEF Apace
    <2> QED
      BY <2>3, <2>5, <2>9
  <1>2. CASE \E k \in 0 .. Len(s) :
                /\ AtByte(s, k, at, state)
                /\ \E l \in E : l >= k /\ IsRest(state, SubSeq(s, k + 1, l))
    <2>1. PICK k \in 0 .. Len(s) :
             /\ AtByte(s, k, at, state)
             /\ \E l \in E : l >= k /\ IsRest(state, SubSeq(s, k + 1, l))
      BY <1>2
    <2>2. PICK l \in E : l >= k /\ IsRest(state, SubSeq(s, k + 1, l))
      BY <2>1
    <2>3. state \in Between
      BY <2>1 DEF AtByte
    <2>4. CASE k = Len(s)
      <3>1. state \in Plain
        <4>1. l = Len(s)
          BY <1>0, <2>2, <2>4
        <4>2. SubSeq(s, k + 1, l) = <<>>
          <5>1. k + 1 \in Int /\ l \in Int /\ l < k + 1
            BY <1>0, <2>4, <4>1
          <5> QED
            BY <5>1, SubSeqEmpty
        <4>3. state \notin Tails
          <5>1. Len(<<>>) = 0 /\ ~(0 > 0)
            OBVIOUS
          <5> QED
            BY <2>2, <4>2, <5>1, RestShrinks
        <4> QED
          BY <2>3, <4>3 DEF Between
      <3>2. /\ at + 1 <= Len(b) /\ state \in DOMAIN Delta /\ at + 1 = Place(s, Len(s)) + 2
            /\ next = "quote"
        BY <2>1, <2>4, <3>1, AtEndStep
      <3> QED
        BY <3>2 DEF Apace
    <2>5. CASE k # Len(s)
      <3> DEFINE e == EscapedByte(s[k + 1])
      <3>1. k \in 0 .. Len(s) - 1 /\ k + 1 \in 0 .. Len(s) /\ k + 1 \in 1 .. Len(s)
        BY <2>5
      <3>2. /\ at + 1 <= Len(b) /\ state \in DOMAIN Delta /\ b[at + 1] = e[1]
            /\ \/ next = "stuck"
               \/ Len(e) = 1 /\ next \in Between /\ AtByte(s, k + 1, at + 1, next)
               \/ Len(e) > 1 /\ InEscape(s, k + 1, at + 1, next)
        BY <2>1, <3>1, AtByteStep
      <3>3. \/ Len(e) > 1 /\ Delta[state][e[1]] = "escape" /\ k + 1 \in E
            \/ /\ Len(e) = 1 /\ Delta[state][e[1]] \in Between
               /\ \E m \in E : m >= k + 1 /\ IsRest(Delta[state][e[1]], SubSeq(s, k + 2, m))
        BY <2>2, <2>3, <3>1, CharStep
      <3>4. (k + 1) + 1 = k + 2
        OBVIOUS
      <3>5. next # "stuck"
        BY <3>2, <3>3 DEF Between, Plain, Tails
      <3>6. \/ k + 1 \in E /\ InEscape(s, k + 1, at + 1, next)
            \/ /\ AtByte(s, k + 1, at + 1, next)
               /\ \E m \in E : m >= k + 1 /\ IsRest(next, SubSeq(s, (k + 1) + 1, m))
        <4>1. ~(1 > 1)
          OBVIOUS
        <4>2. next = Delta[state][e[1]]
          BY <3>2
        <4> HIDE DEF next, e
        <4> QED
          BY <3>2, <3>3, <3>4, <3>5, <4>1, <4>2
      <3>7. Apace(s, E, at + 1, next)
        <4> HIDE DEF next
        <4> QED
          BY <3>1, <3>6 DEF Apace
      <3> QED
        BY <3>2, <3>5, <3>7
    <2> QED
      BY <2>4, <2>5
  <1>3. CASE \E k \in 1 .. Len(s) : k \in E /\ InEscape(s, k, at, state)
    <2>1. PICK k \in 1 .. Len(s) : k \in E /\ InEscape(s, k, at, state)
      BY <1>3
    <2>2. /\ at + 1 <= Len(b) /\ state \in DOMAIN Delta
          /\ \/ AtByte(s, k, at + 1, next) /\ next = "string"
             \/ InEscape(s, k, at + 1, next)
      BY <2>1, InEscapeStep
    <2>3. CASE AtByte(s, k, at + 1, next) /\ next = "string"
      <3>1. "string" \in Plain
        BY DEF Plain
      <3>2. SubSeq(s, k + 1, k) = <<>>
        <4>1. k + 1 \in Int /\ k \in Int /\ k < k + 1
          OBVIOUS
        <4> QED
          BY <4>1, SubSeqEmpty
      <3>3. IsRest(next, SubSeq(s, k + 1, k)) /\ k >= k /\ k \in 0 .. Len(s)
        <4>1. IsRest("string", <<>>)
          BY <3>1, PlainRest
        <4>2. k >= k /\ k \in 0 .. Len(s)
          OBVIOUS
        <4> QED
          BY <2>3, <3>2, <4>1, <4>2, Zenon
      <3>4. Apace(s, E, at + 1, next)
        BY <2>1, <2>3, <3>3 DEF Apace
      <3> QED
        BY <2>2, <2>3, <3>4
    <2>4. CASE InEscape(s, k, at + 1, next)
      <3>1. Apace(s, E, at + 1, next)
        BY <2>1, <2>4 DEF Apace
      <3>2. next # "stuck"
        <4>1. PICK j \in 1 .. Len(EscapedByte(s[k])) - 1 : next = Path[j]
          BY <2>4 DEF InEscape
        <4>2. s[k] \in Byte
          OBVIOUS
        <4>3. j \in 1 .. 5
          <5>1. Len(EscapedByte(s[k])) = 1 + Extra(s[k]) /\ Extra(s[k]) \in {0, 1, 5}
            BY <4>2, EscapedByteType
          <5> QED
            BY <5>1
        <4>4. \A i \in 1 .. 5 : Path[i] # "stuck"
          BY DEF Path
        <4> QED
          BY <4>1, <4>3, <4>4
      <3> QED
        BY <2>2, <3>1, <3>2
    <2> QED
      BY <2>2, <2>3, <2>4
  <1> QED
    BY <1>1, <1>2, <1>3 DEF Apace

-----------------------------------------------------------------------------
(* Strings: scanning and reading on.                                       *)

\* A text with an element more.
LEMMA Appended ==
    ASSUME NEW T, NEW st \in Seq(T), NEW t \in T
    PROVE  /\ Append(st, t) \in Seq(T) /\ Len(Append(st, t)) = Len(st) + 1
           /\ \A i \in 1 .. Len(st) : Append(st, t)[i] = st[i]
           /\ Append(st, t)[Len(st) + 1] = t
  OBVIOUS

TokenStates == StringStates \cup {"start", "quote"}

\* The scanner takes another byte of a string token.
LEMMA RunsOn ==
    ASSUME NEW b, NEW st, Runs(b, st), st \in Seq(TokenStates),
           Len(st) <= Len(b), st[Len(st)] # "quote",
           NEW t, t = Delta[st[Len(st)]][b[Len(st)]], t # "stuck"
    PROVE  t \in TokenStates /\ Runs(b, Append(st, t)) /\ Append(st, t) \in Seq(TokenStates)
  <1> DEFINE n == Len(st)
             u == Append(st, t)
  <1>1. /\ b \in Seq(Byte) /\ b # <<>> /\ b[1] = 34
        /\ n \in Nat \ {0} /\ st[1] = "start" /\ n - 1 <= Len(b)
        /\ \A i \in 2 .. n - 1 : st[i] \in StringStates
        /\ n > 1 => st[n] \in StringStates \cup {"quote"}
        /\ \A i \in 1 .. n - 1 : st[i + 1] = Delta[st[i]][b[i]]
    BY DEF Runs
  <1>2. b[n] \in Byte
    <2>1. n \in 1 .. Len(b)
      BY <1>1
    <2> QED
      BY <1>1, <2>1
  <1>3. t \in StringStates \cup {"quote"}
    <2>1. CASE n = 1
      <3>1. t = "open"
        BY <1>1, <2>1, OpenDelta
      <3> QED
        BY <3>1 DEF StringStates, Between, Plain
    <2>2. CASE n > 1
      <3>1. st[n] \in StringStates
        BY <1>1, <2>2
      <3> QED
        BY <1>2, <3>1, NextState
    <2>3. n = 1 \/ n > 1
      <3> HIDE DEF n
      <3> QED
        BY <1>1
    <2> QED
      BY <2>1, <2>2, <2>3
  <1>4. t \in TokenStates
    BY <1>3 DEF TokenStates
  <1>5. /\ Append(st, t) \in Seq(TokenStates) /\ Len(Append(st, t)) = Len(st) + 1
        /\ \A i \in 1 .. Len(st) : Append(st, t)[i] = st[i]
        /\ Append(st, t)[Len(st) + 1] = t
    BY <1>4, Appended
  <1>6. /\ Len(u) = n + 1 /\ (\A i \in 1 .. n : u[i] = st[i]) /\ u[n + 1] = t
        /\ u \in Seq(TokenStates)
    BY <1>5, Zenon
  <1> HIDE DEF u
  <1>7. \A i \in 2 .. n : u[i] \in StringStates
    <2> TAKE i \in 2 .. n
    <2>1. u[i] = st[i]
      <3>1. i \in 1 .. n
        <4> HIDE DEF n
        <4> QED
          BY <1>1
      <3> QED
        BY <1>6, <3>1
    <2>2. CASE i = n
      BY <1>1, <2>1, <2>2
    <2>3. CASE i # n
      <3>1. i \in 2 .. n - 1
        BY <1>1, <2>3
      <3> QED
        BY <1>1, <2>1, <3>1
    <2> QED
      BY <2>2, <2>3
  <1>8. \A i \in 1 .. n : u[i + 1] = Delta[u[i]][b[i]]
    <2> TAKE i \in 1 .. n
    <2>1. u[i] = st[i]
      BY <1>6
    <2>2. CASE i = n
      BY <1>6, <2>1, <2>2
    <2>3. CASE i # n
      <3>1. i \in 1 .. n - 1 /\ i + 1 \in 1 .. n
        BY <1>1, <2>3
      <3>2. u[i + 1] = st[i + 1]
        BY <1>6, <3>1
      <3> QED
        BY <1>1, <2>1, <3>1, <3>2
    <2> QED
      BY <2>2, <2>3
  <1>9. Len(u) - 1 = n /\ Len(u) \in Nat \ {0} /\ u[1] = "start"
    BY <1>1, <1>6
  <1>10. Runs(b, u)
    BY <1>1, <1>3, <1>6, <1>7, <1>8, <1>9 DEF Runs
  <1> QED
    BY <1>4, <1>6, <1>10 DEF u

\* What has been read of a string that was written is the string up to a byte.
Back(s, m, rd) == rd = [at |-> 2 + Place(s, m), value |-> SubSeq(s, 1, m), error |-> 0]

\* At first nothing has been read.
LEMMA BackStarts == \A s : Back(s, 0, Reading)
  <1> TAKE s
  <1>1. SubSeq(s, 1, 0) = <<>>
    BY SubSeqEmpty
  <1> QED
    BY <1>1, PlaceZero DEF Back, Reading

\* The next byte, or the next escape, gives the next byte of the string.
LEMMA BackStep ==
    ASSUME NEW s \in Seq(Byte), NEW b, IsText(s, b), NEW m \in 0 .. Len(s) - 1,
           NEW rd, Back(s, m, rd)
    PROVE  Back(s, m + 1, TookNext(b, rd))
  <1> DEFINE c == s[m + 1]
             e == EscapedByte(c)
             at == 2 + Place(s, m)
             v == SubSeq(s, 1, m)
  <1>1. m + 1 \in 1 .. Len(s) /\ (m + 1) - 1 = m /\ c \in Byte
    OBVIOUS
  <1>2. /\ Place(s, m) \in Nat /\ Place(s, m + 1) = Place(s, m) + Len(e)
        /\ \A j \in 1 .. Len(e) : b[1 + Place(s, m) + j] = e[j]
    <2>1. /\ Place(s, (m + 1) - 1) \in Nat /\ Len(e) \in Nat \ {0}
          /\ Place(s, m + 1) = Place(s, (m + 1) - 1) + Len(e)
          /\ \A j \in 1 .. Len(e) :
                /\ 1 + Place(s, (m + 1) - 1) + j <= Len(b)
                /\ b[1 + Place(s, (m + 1) - 1) + j] = e[j]
      BY <1>1, TextByte
    <2> QED
      BY <1>1, <2>1
  <1>3. at \in Int /\ at - 1 = 1 + Place(s, m)
    BY <1>2
  <1>4. Stands(b, at, e)
    <2> HIDE DEF at, e
    <2> QED
      BY <1>2, <1>3, Zenon DEF Stands
  <1>5. rd = [at |-> at, value |-> v, error |-> 0]
    BY DEF Back
  <1>6. TookNext(b, rd) = [at |-> at + Len(e), value |-> v \o <<c>>, error |-> 0]
    <2>1. TookNext(b, rd) = [at |-> at + Len(EscapedByte(c)), value |-> v \o <<c>>, error |-> 0]
      <3> HIDE DEF at, v, c
      <3> QED
        BY <1>3, <1>4, <1>5, EscapeReadsBack DEF e
    <2> QED
      BY <2>1
  <1>7. at + Len(e) = 2 + Place(s, m + 1)
    <2>1. Len(e) \in Int
      BY <1>1, EscapedByteType
    <2> HIDE DEF e
    <2> QED
      BY <1>2, <2>1
  <1>8. SubSeq(s, 1, m + 1) = v \o <<c>>
    <2>1. 1 \in 1 .. Len(s) /\ m + 1 \in 1 .. Len(s)
      OBVIOUS
    <2>2. SubSeq(s, 1, m + 1) = SubSeq(s, 1, (m + 1) - 1) \o <<s[m + 1]>>
      BY <2>1, SubSeqRecursiveSecond
    <2> QED
      BY <1>1, <2>2
  <1> HIDE DEF at, v, c, e
  <1> QED
    BY <1>6, <1>7, <1>8 DEF Back

-----------------------------------------------------------------------------
(* Strings: the inductive invariant.                                       *)

Types ==
    /\ string \in Seq(Byte) /\ written \in BOOLEAN
    /\ stage \in {"count", "write", "scan", "read", "done", "other"}

\* What has been counted is what the escapes add.
Counts ==
    stage = "count" =>
        /\ written /\ done \in 0 .. Len(string) /\ Place(string, done) = done + space
        /\ space \in Nat

\* The escapes stand one behind the other in the room reserved.
Writes ==
    stage = "write" =>
        /\ written /\ done \in 0 .. Len(string)
        /\ space \in Nat /\ Place(string, Len(string)) = Len(string) + space
        /\ writer = [result |-> writer.result, pos |-> Place(string, done)]
        /\ writer.result \in Seq(Byte) /\ Len(writer.result) = Len(string) + space
        /\ Escaped(string, done, writer.result, 0)

Unscanned == stage \in {"count", "write"} => states = <<"start">>

\* The scanner has been led through the states of a string token, of the string that was
\* written if one was; of UTF-8 it does not get stuck in the middle.
Scans ==
    stage \notin {"count", "write"} =>
        /\ Runs(buffer, states) /\ states \in Seq(TokenStates)
        /\ written => IsText(string, buffer) /\ Sync(string, Len(states) - 1, State)
        /\ written => \A E : Borders(string, E) =>
                         Apace(string, E, Len(states) - 1, State) /\ stage # "other"

Unread == stage \in {"count", "write", "scan"} => reader = Reading

\* The token is read, as far as it is, to UTF-8 and to the string that was written.
ReadsOn ==
    stage \in {"read", "done"} =>
        /\ State = "quote" /\ Reads(states, reader)
        /\ written => \E m \in 0 .. Len(string) : Back(string, m, reader)

Ended == stage = "done" => ReadingEnds(reader, Length)

Strings == Types /\ Counts /\ Writes /\ Unscanned /\ Scans /\ Unread /\ ReadsOn /\ Ended

\* The scanner starts at the quote.
LEMMA StartRuns ==
    ASSUME NEW b \in Seq(Byte), Len(b) > 0, b[1] = 34
    PROVE  Runs(b, <<"start">>) /\ <<"start">> \in Seq(TokenStates)
  <1>1. /\ Len(<<"start">>) = 1 /\ <<"start">>[1] = "start"
        /\ \A i \in 2 .. 1 - 1 : <<"start">>[i] \in StringStates
        /\ \A i \in 1 .. 1 - 1 : <<"start">>[i + 1] = Delta[<<"start">>[i]][b[i]]
    OBVIOUS
  <1>2. b # <<>> /\ 1 - 1 <= Len(b) /\ ~(1 > 1) /\ 1 \in Nat \ {0}
    OBVIOUS
  <1>3. <<"start">> \in Seq(TokenStates)
    BY DEF TokenStates
  <1> QED
    BY <1>1, <1>2, <1>3 DEF Runs

\* The quote is the first byte.
LEMMA QuoteFirst ==
    ASSUME NEW text \in Seq(Byte)
    PROVE  Quote \o text \in Seq(Byte) /\ Len(Quote \o text) > 0 /\ (Quote \o text)[1] = 34
  <1>1. Quote \in Seq(Byte) /\ Len(Quote) = 1 /\ Quote[1] = 34
    BY DEF Quote, Byte
  <1> HIDE DEF Quote
  <1>2. /\ Quote \o text \in Seq(Byte) /\ Len(Quote \o text) = Len(Quote) + Len(text)
        /\ Len(text) \in Nat /\ \A i \in 1 .. Len(Quote) : (Quote \o text)[i] = Quote[i]
    <2>1. Quote \in Seq(Byte)
      BY <1>1
    <2> QED
      BY <2>1, Joined, Zenon
  <1>3. 1 \in 1 .. Len(Quote)
    BY <1>1
  <1> QED
    BY <1>1, <1>2, <1>3

\* It holds at first.
LEMMA StringsInit == StringInit => Strings
  <1> SUFFICES ASSUME StringInit PROVE Strings
    OBVIOUS
  <1> USE DEF StringInit
  <1>1. Types
    BY DEF Types
  <1>2. Counts
    <2>1. 0 \in 0 .. Len(string) /\ 0 = 0 + 0 /\ 0 \in Nat
      OBVIOUS
    <2> QED
      BY <2>1, PlaceZero DEF Counts
  <1>3. Writes
    BY DEF Writes
  <1>4. Unscanned /\ Unread /\ ReadsOn /\ Ended
    BY DEF Unscanned, Unread, ReadsOn, Ended
  <1>5. Scans
    <2>1. CASE written /\ stage = "count"
      BY <2>1 DEF Scans
    <2>2. CASE ~written /\ \E text \in Seq(Byte) : buffer = Quote \o text
      <3>1. buffer \in Seq(Byte) /\ Len(buffer) > 0 /\ buffer[1] = 34
        BY <2>2, QuoteFirst
      <3>2. Runs(buffer, states) /\ states \in Seq(TokenStates)
        BY <3>1, StartRuns
      <3> QED
        BY <2>2, <3>2 DEF Scans
    <2> QED
      BY <2>1, <2>2
  <1> QED
    BY <1>1, <1>2, <1>3, <1>4, <1>5 DEF Strings

\* One byte more is counted.
LEMMA CountOn ==
    ASSUME Strings, CountByte
    PROVE  Strings'
  <1> USE DEF CountByte
  <1>0. /\ string \in Seq(Byte) /\ written /\ done \in 0 .. Len(string) /\ done < Len(string)
        /\ Place(string, done) = done + space /\ space \in Nat /\ stage = "count"
    BY DEF Strings, Types, Counts
  <1>1. Types'
    BY DEF Strings, Types
  <1>2. Counts'
    <2>1. done \in 0 .. Len(string) - 1 /\ done + 1 \in 0 .. Len(string) /\ done \in Nat
      BY <1>0
    <2>2. Place(string, done + 1) = Place(string, done) + 1 + Extra(string[done + 1])
      BY <1>0, <2>1, PlaceNext
    <2>3. Extra(string[done + 1]) \in {0, 1, 5}
      <3>1. string[done + 1] \in Byte
        BY <1>0, <2>1
      <3> QED
        BY <3>1, EscapedByteType
    <2> DEFINE x == Extra(string[done + 1])
    <2>4. done' = done + 1 /\ space' = space + x /\ string' = string /\ written' = written
      OBVIOUS
    <2> HIDE DEF x
    <2>5. Place(string, done + 1) = (done + 1) + (space + x) /\ space + x \in Nat
      <3>1. x \in Nat
        BY <2>3 DEF x
      <3>2. Place(string, done + 1) = Place(string, done) + 1 + x
        BY <2>2 DEF x
      <3> QED
        BY <1>0, <2>1, <3>1, <3>2
    <2> QED
      BY <1>0, <2>1, <2>4, <2>5 DEF Counts
  <1>3. Writes' /\ Unscanned' /\ Scans' /\ Unread' /\ ReadsOn' /\ Ended'
    BY <1>0 DEF Strings, Writes, Unscanned, Scans, Unread, ReadsOn, Ended
  <1> QED
    BY <1>1, <1>2, <1>3 DEF Strings

\* The text is put between its quotes.
LEMMA TextReady ==
    ASSUME Strings, written, stage \in {"count", "write"}, NEW text \in Seq(Byte),
           Len(text) = Place(string, Len(string)), Escaped(string, Len(string), text, 0),
           Finish(text)
    PROVE  Strings'
  <1> USE DEF Finish
  <1>0. /\ stage' = "scan" /\ string' = string /\ written' = written /\ states' = states
        /\ reader' = reader /\ string \in Seq(Byte)
        /\ states = <<"start">> /\ reader = Reading
    BY DEF Strings, Types, Unscanned, Unread
  <1>1. PICK rest \in Seq(Byte) : buffer' = Quote \o text \o Quote \o rest
    OBVIOUS
  <1> DEFINE b == buffer'
  <1>2. /\ b \in Seq(Byte) /\ Len(b) >= Len(text) + 2 /\ b[1] = 34 /\ b[Len(text) + 2] = 34
        /\ Escaped(string, Len(string), b, 1)
    <2>1. LET c == Quote \o text \o Quote \o rest
          IN  /\ c \in Seq(Byte) /\ Len(c) >= Len(text) + 2
              /\ c[1] = 34 /\ c[Len(text) + 2] = 34
              /\ Escaped(string, Len(string), c, 1)
      BY <1>0, Finishing
    <2> QED
      BY <1>1, <2>1, Zenon
  <1> HIDE DEF b
  <1>3. IsText(string, b)
    BY <1>2 DEF IsText
  <1>4. Runs(b, <<"start">>) /\ <<"start">> \in Seq(TokenStates)
    <2>1. Len(b) > 0
      BY <1>2
    <2> QED
      BY <1>2, <2>1, StartRuns
  <1>5. Types'
    BY <1>0 DEF Strings, Types
  <1>6. Scans'
    <2>1. states' = <<"start">> /\ Len(states') - 1 = 0 /\ State' = "start"
      BY <1>0 DEF State
    <2>2. Sync(string, 0, "start") /\ \A E : Apace(string, E, 0, "start")
      BY DEF Sync, Apace
    <2> QED
      BY <1>0, <1>3, <1>4, <2>1, <2>2 DEF Scans, b
  <1>7. Counts' /\ Writes' /\ Unscanned' /\ Unread' /\ ReadsOn' /\ Ended'
    BY <1>0 DEF Counts, Writes, Unscanned, Unread, ReadsOn, Ended
  <1> QED
    BY <1>5, <1>6, <1>7 DEF Strings

\* The room for the escapes is reserved, or none is needed.
LEMMA CountEndsOn ==
    ASSUME Strings, CountEnds
    PROVE  Strings'
  <1>0. /\ string \in Seq(Byte) /\ written /\ Len(string) \in Nat
        /\ Place(string, Len(string)) = Len(string) + space /\ space \in Nat /\ stage = "count"
    BY DEF Strings, Types, Counts, CountEnds
  <1>1. CASE space = 0
    <2>1. Finish(string)
      BY <1>1 DEF CountEnds
    <2>2. Place(string, Len(string)) = Len(string)
      BY <1>0, <1>1
    <2>3. Escaped(string, Len(string), string, 0)
      BY <1>0, <2>2, FinishingPlain
    <2> QED
      BY <1>0, <2>1, <2>2, <2>3, TextReady
  <1>2. CASE space # 0
    <2>1. /\ stage' = "write" /\ done' = 0 /\ writer' = Writing(Len(string) + space)
          /\ UNCHANGED <<string, written, space, buffer, states, reader>>
      BY <1>2 DEF CountEnds
    <2>2. Len(string) + space \in Nat
      BY <1>0
    <2>3. /\ writer' = [result |-> writer'.result, pos |-> 0]
          /\ writer'.result \in Seq(Byte) /\ Len(writer'.result) = Len(string) + space
      BY <2>1, <2>2, WritingStarts
    <2>4. Writes'
      <3>1. 0 \in 0 .. Len(string)
        BY <1>0
      <3>2. Escaped(string, 0, writer'.result, 0)
        BY DEF Escaped
      <3> QED
        BY <1>0, <2>1, <2>3, <3>1, <3>2, PlaceZero DEF Writes
    <2>5. Types' /\ Counts' /\ Unscanned' /\ Scans' /\ Unread' /\ ReadsOn' /\ Ended'
      BY <1>0, <2>1 DEF Strings, Types, Counts, Unscanned, Scans, Unread, ReadsOn, Ended
    <2> QED
      BY <2>4, <2>5 DEF Strings
  <1> QED
    BY <1>1, <1>2

\* One byte more is written.
LEMMA WriteOn ==
    ASSUME Strings, WriteByte
    PROVE  Strings'
  <1> USE DEF WriteByte
  <1>0. /\ string \in Seq(Byte) /\ written /\ stage = "write"
        /\ done \in 0 .. Len(string) - 1 /\ done + 1 \in 0 .. Len(string)
        /\ space \in Nat /\ Place(string, Len(string)) = Len(string) + space
        /\ writer = [result |-> writer.result, pos |-> Place(string, done)]
        /\ writer.result \in Seq(Byte) /\ Len(writer.result) = Len(string) + space
        /\ Escaped(string, done, writer.result, 0)
    BY DEF Strings, Types, Writes
  <1>1. /\ writer' = [result |-> writer'.result, pos |-> Place(string, done + 1)]
        /\ writer'.result \in Seq(Byte) /\ Len(writer'.result) = Len(writer.result)
        /\ Escaped(string, done + 1, writer'.result, 0)
    <2>1. Len(writer.result) = Place(string, Len(string))
      BY <1>0
    <2>2. writer' = Written(writer, string[done + 1])
      OBVIOUS
    <2> QED
      BY <1>0, <2>1, <2>2, WritingGoesOn
  <1>2. Writes'
    BY <1>0, <1>1 DEF Writes
  <1>3. Types' /\ Counts' /\ Unscanned' /\ Scans' /\ Unread' /\ ReadsOn' /\ Ended'
    BY <1>0 DEF Strings, Types, Counts, Unscanned, Scans, Unread, ReadsOn, Ended
  <1> QED
    BY <1>2, <1>3 DEF Strings

\* The result is put between the quotes.
LEMMA WriteEndsOn ==
    ASSUME Strings, WriteEnds
    PROVE  Strings'
  <1>1. /\ written /\ stage = "write" /\ done = Len(string) /\ Finish(writer.result)
        /\ writer.result \in Seq(Byte) /\ Len(writer.result) = Place(string, Len(string))
        /\ Escaped(string, Len(string), writer.result, 0)
    BY DEF Strings, Writes, WriteEnds
  <1> QED
    BY <1>1, TextReady

\* The token of a string that was written ends with the string.
LEMMA TokenEnds ==
    ASSUME NEW s \in Seq(Byte), NEW at, Sync(s, at, "quote")
    PROVE  at = Place(s, Len(s)) + 2
  <1>1. ASSUME NEW k, AtByte(s, k, at, "quote")
        PROVE  FALSE
    BY <1>1 DEF AtByte, Between, Plain, Tails
  <1>2. ASSUME NEW k \in 1 .. Len(s), InEscape(s, k, at, "quote")
        PROVE  FALSE
    <2>1. PICK j \in 1 .. Len(EscapedByte(s[k])) - 1 : "quote" = Path[j]
      BY <1>2 DEF InEscape
    <2>2. s[k] \in Byte
      OBVIOUS
    <2>3. j \in 1 .. 5
      <3>1. Len(EscapedByte(s[k])) = 1 + Extra(s[k]) /\ Extra(s[k]) \in {0, 1, 5}
        BY <2>2, EscapedByteType
      <3> QED
        BY <3>1
    <2>4. \A i \in 1 .. 5 : Path[i] # "quote"
      BY DEF Path
    <2> QED
      BY <2>1, <2>3, <2>4
  <1> QED
    BY <1>1, <1>2 DEF Sync

\* The scanner takes a byte, or finds that there is no string.
LEMMA ScanOn ==
    ASSUME Strings, ScanByte
    PROVE  Strings'
  <1> DEFINE at == Len(states) - 1
  <1>0. /\ stage = "scan" /\ State # "quote" /\ string \in Seq(Byte) /\ reader = Reading
        /\ Runs(buffer, states) /\ states \in Seq(TokenStates)
        /\ written => IsText(string, buffer) /\ Sync(string, at, State)
        /\ written => \A E : Borders(string, E) => Apace(string, E, at, State)
    BY DEF Strings, Types, Scans, Unread, ScanByte
  <1>1. /\ Len(states) \in Nat \ {0} /\ at + 1 = Len(states)
    <2>1. Len(states) \in Nat \ {0}
      BY <1>0 DEF Runs
    <2> QED
      BY <2>1
  <1>2. /\ UNCHANGED <<string, written, done, space, writer, buffer, reader>>
        /\ \/ Ahead # "stuck" /\ states' = Append(states, Ahead) /\ stage' = stage
           \/ Ahead = "stuck" /\ stage' = "other" /\ states' = states
    BY DEF ScanByte
  <1>3. Types' /\ Counts' /\ Writes' /\ Unscanned' /\ Unread' /\ ReadsOn' /\ Ended'
    BY <1>0, <1>2 DEF Strings, Types, Counts, Writes, Unscanned, Unread, ReadsOn, Ended
  <1>4. CASE Ahead # "stuck"
    <2>1. /\ Len(states) <= Len(buffer) /\ State \in DOMAIN Delta
          /\ Ahead = Delta[State][buffer[Len(states)]]
      BY <1>4 DEF Ahead
    <2>2. Ahead \in TokenStates /\ Runs(buffer, states') /\ states' \in Seq(TokenStates)
      <3>1. /\ Ahead \in TokenStates
            /\ Runs(buffer, Append(states, Ahead)) /\ Append(states, Ahead) \in Seq(TokenStates)
        BY <1>0, <1>4, <2>1, RunsOn DEF State
      <3> QED
        BY <1>2, <1>4, <3>1
    <2>3. Len(states') - 1 = at + 1 /\ State' = Ahead
      <3>2. Len(Append(states, Ahead)) = Len(states) + 1 /\ Append(states, Ahead)[Len(states) + 1] = Ahead
        BY <1>0, <2>2, Appended
      <3>3. Len(states') = Len(states) + 1
        BY <1>2, <1>4, <3>2
      <3>4. State' = Ahead
        BY <1>2, <1>4, <3>2, <3>3 DEF State
      <3> QED
        BY <1>1, <3>3, <3>4
    <2>4. ASSUME written
          PROVE  Sync(string, at + 1, Ahead)
      <3>1. LET next == Delta[State][buffer[at + 1]]
            IN  next # "stuck" => Sync(string, at + 1, next)
        BY <1>0, <2>4, SyncStep
      <3> QED
        BY <1>1, <1>4, <2>1, <3>1
    <2>5. ASSUME written, NEW E, Borders(string, E)
          PROVE  Apace(string, E, at + 1, Ahead)
      <3>1. LET next == Delta[State][buffer[at + 1]]
            IN  next # "stuck" /\ Apace(string, E, at + 1, next)
        BY <1>0, <2>5, ApaceStep
      <3> QED
        BY <1>1, <2>1, <3>1
    <2>6. Scans'
      <3>1. stage' = "scan"
        BY <1>0, <1>2, <1>4
      <3> HIDE DEF at
      <3> QED
        BY <1>0, <1>2, <2>2, <2>3, <2>4, <2>5, <3>1 DEF Scans
    <2> QED
      BY <1>3, <2>6 DEF Strings
  <1>5. CASE Ahead = "stuck"
    <2>1. ASSUME written, NEW E, Borders(string, E)
          PROVE  FALSE
      <3>1. LET next == Delta[State][buffer[at + 1]]
            IN  /\ at + 1 <= Len(buffer) /\ State \in DOMAIN Delta
                /\ next # "stuck" /\ Apace(string, E, at + 1, next)
        BY <1>0, <2>1, ApaceStep
      <3> QED
        BY <1>1, <1>5, <3>1 DEF Ahead
    <2>2. states' = states /\ State' = State /\ stage' = "other"
      BY <1>2, <1>5 DEF State
    <2>3. Scans'
      <3> HIDE DEF at
      <3> QED
        BY <1>0, <1>2, <2>1, <2>2 DEF Scans, at
    <2> QED
      BY <1>3, <2>3 DEF Strings
  <1> QED
    BY <1>4, <1>5

\* The token is read from its start.
LEMMA ScanEndsOn ==
    ASSUME Strings, ScanEnds
    PROVE  Strings'
  <1> USE DEF ScanEnds
  <1>0. /\ string \in Seq(Byte) /\ reader = Reading /\ Runs(buffer, states) /\ State = "quote"
        /\ stage' = "read" /\ states' = states /\ reader' = reader /\ string' = string
        /\ written' = written /\ buffer' = buffer /\ State' = State
    BY DEF Strings, Types, Scans, Unread, State
  <1>1. Reads(states, reader)
    BY <1>0, ReadStart DEF State
  <1>2. \E m \in 0 .. Len(string) : Back(string, m, reader)
    <2>1. 0 \in 0 .. Len(string)
      BY <1>0
    <2> QED
      BY <1>0, <2>1, BackStarts
  <1>3. ReadsOn'
    BY <1>0, <1>1, <1>2 DEF ReadsOn
  <1>4. Types' /\ Counts' /\ Writes' /\ Unscanned' /\ Unread' /\ Ended'
    BY <1>0 DEF Strings, Types, Counts, Writes, Unscanned, Unread, Ended
  <1>5. Scans'
    <2>1. stage \notin {"count", "write"} /\ stage' \notin {"count", "write"} /\ stage' # "other"
      BY <1>0
    <2> QED
      BY <1>0, <2>1 DEF Strings, Scans
  <1> QED
    BY <1>3, <1>4, <1>5 DEF Strings

\* Before the closing quote a byte of the string that was written is left.
LEMMA BackGoesOn ==
    ASSUME NEW s \in Seq(Byte), NEW m \in 0 .. Len(s), NEW rd, Back(s, m, rd),
           rd.at < Place(s, Len(s)) + 2
    PROVE  m \in 0 .. Len(s) - 1
  <1>1. rd.at = 2 + Place(s, m)
    BY DEF Back
  <1>2. Place(s, m) \in Nat /\ Place(s, Len(s)) \in Nat
    <2>1. Len(s) \in m .. Len(s)
      OBVIOUS
    <2> QED
      BY <2>1, PlaceMonotone
  <1>3. m # Len(s)
    BY <1>1, <1>2
  <1> QED
    BY <1>3

\* At the closing quote none is.
LEMMA BackEnds ==
    ASSUME NEW s \in Seq(Byte), NEW m \in 0 .. Len(s), NEW rd, Back(s, m, rd),
           rd.at >= Place(s, Len(s)) + 2
    PROVE  rd.value = s
  <1>1. rd.at = 2 + Place(s, m) /\ rd.value = SubSeq(s, 1, m)
    BY DEF Back
  <1>2. /\ Place(s, m) \in Nat /\ Place(s, Len(s)) \in Nat
        /\ Place(s, Len(s)) - Len(s) >= Place(s, m) - m
    <2>1. Len(s) \in m .. Len(s)
      OBVIOUS
    <2> QED
      BY <2>1, PlaceMonotone
  <1>3. m = Len(s)
    <2> DEFINE n == Len(s)
    <2>1. n \in Nat /\ m \in Nat /\ m <= n /\ 2 + Place(s, m) >= Place(s, n) + 2
      BY <1>1
    <2> HIDE DEF n
    <2>2. m = n
      BY <1>2, <2>1 DEF n
    <2> QED
      BY <2>2 DEF n
  <1> QED
    BY <1>1, <1>3, SubSeqFull

\* A byte or an escape is read.
LEMMA ReadOn ==
    ASSUME Strings, ReadPiece
    PROVE  Strings'
  <1> USE DEF ReadPiece
  <1>0. /\ stage = "read" /\ string \in Seq(Byte)
        /\ Runs(buffer, states) /\ State = "quote" /\ Reads(states, reader)
        /\ written => IsText(string, buffer) /\ Sync(string, Len(states) - 1, "quote")
        /\ written => \E m \in 0 .. Len(string) : Back(string, m, reader)
        /\ reader' = TookNext(buffer, reader)
        /\ UNCHANGED <<string, written, stage, done, space, writer, buffer, states>>
    BY DEF Strings, Types, Scans, ReadsOn
  <1>1. reader.error = 0 /\ reader.at < Len(states) - 1
    <2>1. reader.error = 0 /\ ~(reader.at >= Len(states) - 1)
      BY DEF ReadingEnds, Length
    <2>2. reader.at \in 2 .. Len(states) - 1
      BY <1>0, <2>1 DEF Reads
    <2>3. Len(states) \in Nat
      BY <1>0 DEF Runs
    <2> QED
      BY <2>1, <2>2, <2>3
  <1>2. Reads(states, TookNext(buffer, reader))
    BY <1>0, <1>1, ReadStep DEF State
  <1>3. ASSUME written
        PROVE  \E m \in 0 .. Len(string) : Back(string, m, TookNext(buffer, reader))
    <2>1. PICK m \in 0 .. Len(string) : Back(string, m, reader)
      BY <1>0, <1>3
    <2>2. Len(states) - 1 = Place(string, Len(string)) + 2
      BY <1>0, <1>3, TokenEnds
    <2>3. m \in 0 .. Len(string) - 1
      BY <1>0, <1>1, <2>1, <2>2, BackGoesOn
    <2>4. Back(string, m + 1, TookNext(buffer, reader))
      BY <1>0, <1>3, <2>1, <2>3, BackStep
    <2>5. m + 1 \in 0 .. Len(string)
      BY <2>3
    <2> QED
      BY <2>4, <2>5
  <1>4. State' = State
    BY <1>0 DEF State
  <1>5. ReadsOn'
    BY <1>0, <1>2, <1>3, <1>4 DEF ReadsOn
  <1>6. Scans'
    BY <1>0, <1>4 DEF Strings, Scans
  <1>7. Types' /\ Counts' /\ Writes' /\ Unscanned' /\ Unread' /\ Ended'
    BY <1>0 DEF Strings, Types, Counts, Writes, Unscanned, Unread, Ended
  <1> QED
    BY <1>5, <1>6, <1>7 DEF Strings

\* The token has been read.
LEMMA ReadEndsOn ==
    ASSUME Strings, ReadEnds
    PROVE  Strings'
  <1> USE DEF ReadEnds
  <1>0. /\ stage = "read" /\ stage' = "done" /\ ReadingEnds(reader, Length)
        /\ UNCHANGED <<string, written, done, space, writer, buffer, states, reader>>
    OBVIOUS
  <1>1. State' = State /\ Length' = Length
    BY <1>0 DEF State, Length
  <1>2. Scans' /\ ReadsOn' /\ Ended'
    BY <1>0, <1>1 DEF Strings, Scans, ReadsOn, Ended
  <1>3. Types' /\ Counts' /\ Writes' /\ Unscanned' /\ Unread'
    BY <1>0 DEF Strings, Types, Counts, Writes, Unscanned, Unread
  <1> QED
    BY <1>2, <1>3 DEF Strings

\* Every step preserves it.
LEMMA StringsStep == Strings /\ [StringNext]_stringVars => Strings'
  <1> SUFFICES ASSUME Strings, [StringNext]_stringVars PROVE Strings'
    OBVIOUS
  <1>1. CASE UNCHANGED stringVars
    <2>1. /\ UNCHANGED <<string, written, stage, done, space, writer, buffer, states, reader>>
          /\ State' = State /\ Length' = Length
      BY <1>1 DEF stringVars, State, Length
    <2>2. Types' /\ Counts' /\ Writes' /\ Unscanned'
      BY <2>1 DEF Strings, Types, Counts, Writes, Unscanned
    <2>3. Scans' /\ Unread' /\ ReadsOn' /\ Ended'
      BY <2>1 DEF Strings, Scans, Unread, ReadsOn, Ended
    <2> QED
      BY <2>2, <2>3 DEF Strings
  <1> QED
    BY <1>1, CountOn, CountEndsOn, WriteOn, WriteEndsOn, ScanOn, ScanEndsOn, ReadOn, ReadEndsOn
       DEF StringNext

\* It holds always.
LEMMA StringsInvariant == StringSpec => []Strings
  BY StringsInit, StringsStep, PTL DEF StringSpec

-----------------------------------------------------------------------------
(* Strings: the theorems.                                                  *)

\* extra_space reserves what dump_escaped writes: no byte is written behind the
\* result, and it is full at the end (the assertion at the end of dump_escaped).
EscapesFit ==
    stage = "write" =>
        /\ done < Len(string) =>
             writer.pos + Len(EscapedByte(string[done + 1])) <= Len(writer.result)
        /\ done = Len(string) => writer.pos = Len(writer.result)

\* So it is for every string: basic_json::serializer::dump_escaped.
THEOREM EscapesFitTheirRoom == StringSpec => []EscapesFit
  <1>1. Strings => EscapesFit
    <2> SUFFICES ASSUME Strings, stage = "write" PROVE EscapesFit
      BY DEF EscapesFit
    <2>1. /\ string \in Seq(Byte) /\ done \in 0 .. Len(string)
          /\ space \in Nat /\ Place(string, Len(string)) = Len(string) + space
          /\ writer = [result |-> writer.result, pos |-> Place(string, done)]
          /\ writer.result \in Seq(Byte) /\ Len(writer.result) = Len(string) + space
          /\ Escaped(string, done, writer.result, 0)
      BY DEF Strings, Types, Writes
    <2>2. ASSUME done < Len(string)
          PROVE  writer.pos + Len(EscapedByte(string[done + 1])) <= Len(writer.result)
      <3>1. done \in 0 .. Len(string) - 1
        BY <2>1, <2>2
      <3>2. Len(writer.result) = Place(string, Len(string))
        BY <2>1
      <3>3. Place(string, done) + Len(EscapedByte(string[done + 1])) <= Len(writer.result)
        BY <2>1, <3>1, <3>2, WritingGoesOn
      <3>4. writer.pos = Place(string, done)
        BY <2>1
      <3> QED
        BY <3>3, <3>4
    <2>3. ASSUME done = Len(string)
          PROVE  writer.pos = Len(writer.result)
      BY <2>1, <2>3
    <2> QED
      BY <2>2, <2>3 DEF EscapesFit
  <1> QED
    BY <1>1, StringsInvariant, PTL

\* A string that was written is read back byte for byte, without an exception; only one
\* that is no UTF-8 may be refused by the scanner.
WrittenIsRead ==
    written =>
        /\ stage = "done" => reader.error = 0 /\ reader.value = string
        /\ stage = "other" => ~AreUtf8(string)

\* So it is for every string, whatever follows it: dump_escaped, lexer::scan, get_string.
THEOREM StringsReadBack == StringSpec => []WrittenIsRead
  <1>1. Strings => WrittenIsRead
    <2> SUFFICES ASSUME Strings, written PROVE WrittenIsRead
      BY DEF WrittenIsRead
    <2>1. ASSUME stage = "other"
          PROVE  ~AreUtf8(string)
      <3>1. \A E : ~Borders(string, E)
        BY <2>1 DEF Strings, Scans
      <3> QED
        BY <3>1 DEF AreUtf8
    <2>2. ASSUME stage = "done"
          PROVE  reader.error = 0 /\ reader.value = string
      <3>1. /\ string \in Seq(Byte) /\ Sync(string, Len(states) - 1, "quote")
            /\ \E m \in 0 .. Len(string) : Back(string, m, reader)
            /\ ReadingEnds(reader, Len(states) - 1)
        BY <2>2 DEF Strings, Types, Scans, ReadsOn, Ended, Length
      <3>2. PICK m \in 0 .. Len(string) : Back(string, m, reader)
        BY <3>1
      <3>3. reader.error = 0
        BY <3>2 DEF Back
      <3>4. reader.at >= Place(string, Len(string)) + 2
        <4>1. Len(states) - 1 = Place(string, Len(string)) + 2
          BY <3>1, TokenEnds
        <4> QED
          BY <3>1, <3>3, <4>1 DEF ReadingEnds
      <3> QED
        BY <3>1, <3>2, <3>3, <3>4, BackEnds
    <2> QED
      BY <2>1, <2>2 DEF WrittenIsRead
  <1> QED
    BY <1>1, StringsInvariant, PTL

\* Whatever bytes a string token is made of, get_string makes UTF-8 of it, surrogates put
\* together, or throws 102; it goes on within the token only.
TokenGivesUtf8 ==
    stage \in {"read", "done"} =>
        /\ reader.error \in {0, 102}
        /\ reader.error = 0 => 2 <= reader.at /\ reader.at <= Length
        /\ stage = "done" /\ reader.error = 0 => AreUtf8(reader.value)

\* So it is for every text that begins with a quote: lexer::scan, get_string, to_unicode.
THEOREM StringsReadAreUtf8 == StringSpec => []TokenGivesUtf8
  <1>1. Strings => TokenGivesUtf8
    <2> SUFFICES ASSUME Strings, stage \in {"read", "done"} PROVE TokenGivesUtf8
      BY DEF TokenGivesUtf8
    <2>1. Runs(buffer, states) /\ states[Len(states)] = "quote" /\ Reads(states, reader)
      BY DEF Strings, Scans, ReadsOn, State
    <2>2. reader.error \in {0, 102}
      BY <2>1 DEF Reads
    <2>3. ASSUME reader.error = 0
          PROVE  2 <= reader.at /\ reader.at <= Length
      BY <2>1, <2>3 DEF Reads, Length, Runs
    <2>4. ASSUME stage = "done", reader.error = 0
          PROVE  AreUtf8(reader.value)
      <3>1. reader.at >= Len(states) - 1
        BY <2>4 DEF Strings, Ended, ReadingEnds, Length
      <3> QED
        BY <2>1, <2>4, <3>1, ReadEnd
    <2> QED
      BY <2>2, <2>3, <2>4 DEF TokenGivesUtf8
  <1> QED
    BY <1>1, StringsInvariant, PTL
=============================================================================
