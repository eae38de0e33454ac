---------------------------- MODULE MCJsonClient ----------------------------
(***************************************************************************)
(* Instances of JsonClient for TLC.                                        *)
(***************************************************************************)
EXTENDS JsonClient

\* Text as bytes; the character behind the underscore is not used.
Ascii ==
  " !\"#$%&'()*+,-./0123456789:;<=>?@ABCDEFGHIJKLMNOPQRSTUVWXYZ[\\]^__abcdefghijklmnopqrstuvwxyz{|}~"
Bytes(s) ==
  [i \in 1 .. Len(s) |->
     31 + CHOOSE n \in 1 .. Len(Ascii) :
            /\ SubSeq(Ascii, n, n) = SubSeq(s, i, i)
            /\ \A k \in 1 .. n - 1 : SubSeq(Ascii, k, k) # SubSeq(s, i, i)]

\* Whole responses, their parts, and bytes of every kind.
SomeChunks ==
  {Bytes(s) : s \in {
     "{\"id\":\"x\",\"vmid\":\"\\u00e9\"}", "{\"id\":\"x\",", "\"vmid\":\"\\ud83d\\uDE00\"",
     "{\"code\":\"c\",\"message\":{\"value\":\"m\"", "{\"code\":1", "}", "[", "]",
     "[1,{\"a\":[true,null],\"b\":-2.5E+3}", ",", "-0", "1e400", "18446744073709551616",
     "\"\\", "u12", "null", "fals", "\"\\ud83d"}}
  \cup {<<34>>, <<10>>, <<0>>, ByteOrderMark, <<34, 195, 169>>, <<34, 237, 160, 128, 34>>,
        <<34, 240, 159, 152, 128, 34>>, <<128>>}
  
\* Plain, empty, with what has to be escaped, and with a character of two bytes.
SomeStrings == {Bytes("t.o-k"), <<>>, <<34, 92, 47>>, <<0, 10, 31, 127>>, <<1, 97>>, <<195, 169>>}

\* Events of a kind, at the depths a text of MaxChunks pieces reaches and beyond.
AtEveryDepth(events) == events \X (-9 .. 9)

SomeRefusals ==
  {{<<"key", 1>>}, {<<"value", 1>>}, {<<"value", 2>>, <<"object_end", 1>>},
   {<<"array_end", 2>>}, {<<"object_end", 0>>, <<"array_end", 0>>, <<"value", 0>>},
   AtEveryDepth({"object_start"}), AtEveryDepth({"array_start", "value"})}

\* Objects within an array, and numbers there.
NestedRefusals == {{<<"object_start", 1>>, <<"value", 1>>}}
NestedChunks == {Bytes(s) : s \in {"[", "{}", "{\"a\":1}", ",", "1", "]"}}
=============================================================================
