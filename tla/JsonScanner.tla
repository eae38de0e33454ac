---------------------------- MODULE JsonScanner ----------------------------
(***************************************************************************)
(* The scanner of json.hpp: its automaton as tables of <<state, bytes,     *)
(* next state>>, and the refilling of its buffer from a text or from the   *)
(* lines of a stream.  Bytes are numbers; a text is a sequence of bytes.   *)
(***************************************************************************)
EXTENDS Integers, Sequences, SequencesExt

Digits    == 48 .. 57
HexDigits == Digits \cup 65 .. 70 \cup 97 .. 102
Blanks    == {9, 10, 13, 32}
Continuation == 128 .. 191      \* the further bytes of a character

(* -- The automaton ------------------------------------------------------ *)

\* The first byte of a token; NUL ends the input wherever it stands.
StartTable ==
  { <<"start", {0}, "eof">>,      <<"start", Blanks, "space">>,
    <<"start", {34}, "open">>,    <<"start", {44}, "comma">>,
    <<"start", {45}, "minus">>,   <<"start", {48}, "zero">>,
    <<"start", 49 .. 57, "int">>, <<"start", {58}, "colon">>,
    <<"start", {91}, "array">>,   <<"start", {93}, "arrayEnd">>,
    <<"start", {123}, "object">>, <<"start", {125}, "objectEnd">>,
    <<"start", {102}, "f">>, <<"start", {110}, "n">>, <<"start", {116}, "t">> }

SpaceTable == { <<"space", Blanks, "space">> }

\* A number's first digits; one that starts with 0 has no second digit.
IntegerTable ==
  { <<"minus", {48}, "negZero">>, <<"minus", 49 .. 57, "negInt">>,
    <<"int", Digits, "int">> }
  \cup {<<s, {46}, "point">> : s \in {"zero", "int"}}
  \cup {<<s, {69, 101}, "e">> : s \in {"zero", "int"}}
  \cup {<<"zero", Digits, "badZero">>}

\* Faulty variant: a zero after the minus sign may be followed by digits.
NegativeTableOctal ==
  { <<"negInt", Digits, "negInt">>, <<"negZero", Digits, "negInt">> }
  \cup {<<s, {46}, "point">> : s \in {"negZero", "negInt"}}
  \cup {<<s, {69, 101}, "e">> : s \in {"negZero", "negInt"}}

\* The same after a minus sign.
NegativeTable ==
  { <<"negInt", Digits, "negInt">>, <<"negZero", Digits, "badZero">> }
  \cup {<<s, {46}, "point">> : s \in {"negZero", "negInt"}}
  \cup {<<s, {69, 101}, "e">> : s \in {"negZero", "negInt"}}

FractionTable ==
  { <<"badZero", Digits, "badZero">>, <<"point", Digits, "fraction">>,
    <<"e", {43, 45}, "sign">>, <<"e", Digits, "exponent">> }

ExponentTable ==
  { <<"fraction", Digits, "fraction">>, <<"fraction", {69, 101}, "e">>,
    <<"sign", Digits, "exponent">>, <<"exponent", Digits, "exponent">> }

\* The bytes of a string, after its opening quote as well: of one byte each, and
\* the first ones of longer characters.
StringRows(s) ==
  { <<s, (32 .. 127) \ {34, 92}, "string">>, <<s, {34}, "quote">>, <<s, {92}, "escape">> }
FirstRows(s) ==
  { <<s, 194 .. 223, "tail1">>,
    <<s, {224}, "e0">>,     <<s, (225 .. 239) \ {237}, "tail2">>,
    <<s, {237}, "ed">>,     <<s, {240}, "f0">>,
    <<s, 241 .. 243, "tail3">>, <<s, {244}, "f4">> }
StringTable == UNION {StringRows(s) \cup FirstRows(s) : s \in {"open", "string"}}

EscapeTable ==
  { <<"escape", {34, 47, 92, 98, 102, 110, 114, 116}, "string">>,
    <<"escape", {117}, "hex4">> }

\* The further bytes of a character: no overlong form, no surrogate,
\* nothing above U+10FFFF.
Utf8Table ==
  { <<"tail1", Continuation, "string">>,    <<"tail2", Continuation, "tail1">>,
    <<"tail3", Continuation, "tail2">>,     <<"e0", 160 .. 191, "tail1">>,
    <<"ed", 128 .. 159, "tail1">>,  <<"f0", 144 .. 191, "tail2">>,
    <<"f4", 128 .. 143, "tail2">> }

LiteralHeads ==
  { <<"n", {117}, "nu">>, <<"nu", {108}, "nul">>,
    <<"t", {114}, "tr">>, <<"tr", {117}, "tru">>,
    <<"f", {97}, "fa">>,  <<"fa", {108}, "fal">> }

LiteralTails ==
  { <<"nul", {108}, "null">>, <<"tru", {101}, "true">>,
    <<"fal", {115}, "fals">>, <<"fals", {101}, "false">> }

FirstHex == { <<"hex4", HexDigits, "hex3">> }

OtherHex ==
  { <<"hex3", HexDigits, "hex2">>, <<"hex2", HexDigits, "hex1">>,
    <<"hex1", HexDigits, "string">> }

Moves == UNION { StartTable, SpaceTable, IntegerTable, NegativeTable,
                 FractionTable, ExponentTable, StringTable, EscapeTable,
                 Utf8Table, LiteralHeads, LiteralTails, FirstHex, OtherHex }

\* The next state of every state that has any, on every byte, "stuck" when
\* there is none.
Table(moves) ==
  [s \in {m[1] : m \in moves} |->
     LET ms == {m \in moves : m[1] = s}
     IN [c \in 0 .. 255 |->
           IF \E m \in ms : c \in m[2]
           THEN (CHOOSE m \in ms : c \in m[2])[3]
           ELSE "stuck"]]
Delta == Table(Moves)

\* The token of a state that may end one.  A token that gets stuck before
\* its first such state is a parse error one byte long.
Accepted ==
  [ eof |-> "end_of_input", space |-> "blank", comma |-> "value_separator",
    colon |-> "name_separator", array |-> "begin_array",
    arrayEnd |-> "end_array", object |-> "begin_object",
    objectEnd |-> "end_object", zero |-> "value_unsigned",
    int |-> "value_unsigned", fraction |-> "value_float",
    exponent |-> "value_float", badZero |-> "parse_error",
    quote |-> "value_string", null |-> "literal_null",
    true |-> "literal_true", false |-> "literal_false",
    negZero |-> "value_integer", negInt |-> "value_integer" ]

\* Faulty variant: a token is taken for at most four bytes long.
LookaheadShort(s) ==
  CASE s = "start" -> 4
    [] s \in {"int", "negInt", "fraction"} -> 3
    [] s \in {"space", "string", "escape", "badZero", "exponent", "e0", "ed",
              "f0", "f4", "tail1", "tail2", "tail3", "hex4", "hex3", "hex2",
              "hex1"} -> 1
    [] OTHER -> 0

\* The bytes the scanner makes sure to have before it reads on in a state.
Lookahead(s) ==
  CASE s = "start" -> 5
    [] s \in {"int", "negInt", "fraction"} -> 3
    [] s \in {"space", "string", "escape", "badZero", "exponent", "e0", "ed",
              "f0", "f4", "tail1", "tail2", "tail3", "hex4", "hex3", "hex2",
              "hex1"} -> 1
    [] OTHER -> 0

(* -- The buffer --------------------------------------------------------- *)

\* buffer: the bytes from the start of the current token on, length of which
\* are its own; lines: what a stream still holds; stream: there is one;
\* past: a byte behind the buffer was read; error: the exception, 0 for none.
OfText(text) ==
  [buffer |-> text, length |-> 0, token |-> "uninitialized",
   stream |-> FALSE, lines |-> <<>>, past |-> FALSE, error |-> 0]

\* Reading the next line; the end of the stream shows with the last one.
GetLine(lx) ==
  [lx EXCEPT !.buffer = @ \o Head(lx.lines) \o <<10>>, !.lines = Tail(@)]

FillLineBuffer(lx, n) ==
  IF lx.lines = <<>>
  THEN [lx EXCEPT !.buffer = @ \o <<0>> \o [i \in 1 .. n - 1 |-> 1]]
  ELSE GetLine(lx)

\* The lexer of a stream refuses a bad one, reads a first line and blanks a
\* byte-order mark at its start.
OfStream(good, lines) ==
  IF ~good THEN [OfText(<<>>) EXCEPT !.error = 111]
  ELSE LET lx == GetLine([OfText(<<>>) EXCEPT !.lines = lines, !.stream = TRUE])
       IN IF IsPrefix(<<239, 187, 191>>, lx.buffer)
          THEN [lx EXCEPT !.buffer = <<32, 32, 32>> \o SubSeq(@, 4, Len(@))]
          ELSE lx

(* -- Scanning ----------------------------------------------------------- *)

\* A token being scanned: the lexer, the state of the automaton, how many bytes
\* it has read, and the last state that ended a token, with the bytes before it.
Scanning(lx) ==
  [lexer |-> [lx EXCEPT !.buffer = SubSeq(@, lx.length + 1, Len(@)), !.length = 0],
   state |-> "start", at |-> 0, mark |-> <<1, "parse_error">>]

Refilled(lx, at, n) ==
  IF Len(lx.buffer) - at < n THEN FillLineBuffer(lx, n) ELSE lx

\* What the scanner does in a state before it looks at the next byte.
Prepared(sc) ==
  [sc EXCEPT !.lexer = Refilled(@, sc.at, Lookahead(sc.state)),
             !.mark = IF sc.state \in DOMAIN Accepted THEN <<sc.at, Accepted[sc.state]>> ELSE @]

\* The next byte is looked at, and it is not in the buffer.
LooksBehind(sc) == sc.state \in DOMAIN Delta /\ sc.at >= Len(sc.lexer.buffer)

\* No move is left.
Stuck(sc) ==
  \/ sc.state \notin DOMAIN Delta
  \/ LooksBehind(sc)
  \/ Delta[sc.state][sc.lexer.buffer[sc.at + 1]] = "stuck"

Moved(sc) ==
  [sc EXCEPT !.state = Delta[@][sc.lexer.buffer[sc.at + 1]], !.at = @ + 1]

\* The scanner goes back to the token it has marked.
Stop(sc) ==
  [sc.lexer EXCEPT !.length = sc.mark[1], !.token = sc.mark[2], !.past = @ \/ LooksBehind(sc)]
=============================================================================
