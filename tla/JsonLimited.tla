---------------------------- MODULE JsonLimited ----------------------------
(***************************************************************************)
(* json_vc11.hpp: the library as this repository cut it down for Visual    *)
(* C++ 2012 and 2013.  Its values are null, objects, strings and discarded *)
(* ones; its automaton, its lexer's buffer and its string tokens are those *)
(* of json.hpp.  Numbers, booleans and arrays are read and thrown away.    *)
(***************************************************************************)
EXTENDS JsonParser, JsonSerializer

\* A value is kept only when it is a string or null; a number is never
\* converted, so it cannot overflow.
LimitedValueOf(lx) ==
  CASE lx.token = "value_string" -> Then(GetString(lx), LAMBDA r : Ok(Str(r.value)))
    [] lx.token = "literal_null" -> Ok(Null)
    [] lx.token \in {"literal_true", "literal_false", "value_unsigned",
                     "value_integer", "value_float"} -> Ok(Discarded)
    [] OTHER -> Throw(101)

RECURSIVE LimitedParse(_, _), LimitedMembers(_, _, _), LimitedElements(_, _)

LimitedMember(p, key, keep) ==
  IF key.error # 0 THEN [p EXCEPT !.error = key.error]
  ELSE Then(GetToken(Expect(GetToken(IF keep THEN Asked(p, "key") ELSE p), "name_separator")),
            LAMBDA q : LimitedParse(q, keep))
LimitedNext(p, object, keep) ==
  IF Token(p) = "value_separator" THEN LimitedMembers(p, object, keep)
  ELSE [p EXCEPT !.value = object]
LimitedMembers(p, object, keep) ==
  Then(Expect(AfterComma(p), "value_string"), LAMBDA named :
    With(GetString(named.lx), LAMBDA key :
      Then(LimitedMember(named, key, keep), LAMBDA parsed :
        LimitedNext(parsed,
          IF keep /\ Keeps(named, "key") /\ parsed.value # Discarded
          THEN Obj((key.value :> parsed.value) @@ object[2]) ELSE object,
          keep))))

LimitedParts(opened, kept) ==
  IF Token(opened) = "end_object" THEN opened
  ELSE Expect(Then(Unexpect(opened, "value_separator"),
                   LAMBDA q : LimitedMembers(q, q.value, kept)), "end_object")
LimitedObject(p, keep) ==
  LET kept == keep /\ Keeps(p, "object_start")
  IN Then(GetToken(LimitedParts(GetToken(Opened(p, "object_start", OfType("object"), keep)), kept)),
          LAMBDA q : IF kept THEN Closed(q, "object_end") ELSE q)

LimitedElements(p, keep) ==
  Then(LimitedParse(AfterComma(p), keep), LAMBDA q :
    IF Token(q) = "value_separator" THEN LimitedElements(q, keep) ELSE q)

\* An array stays discarded; the callback hears of its end, never of its
\* start.
LimitedArrayParts(opened, keep) ==
  IF Token(opened) = "end_array" THEN opened
  ELSE Expect(Then(Unexpect(opened, "value_separator"),
                   LAMBDA q : LimitedElements(q, keep)), "end_array")
LimitedArray(p, keep) ==
  With(GetToken(p), LAMBDA opened :
    Then([GetToken(LimitedArrayParts(opened, keep)) EXCEPT !.value = Discarded], LAMBDA q :
      IF keep \/ Token(opened) = "end_array" THEN Closed(q, "array_end") ELSE q))

LimitedParse(p, keep) ==
  CASE Token(p) = "begin_object" -> LimitedObject(p, keep)
    [] Token(p) = "begin_array"  -> LimitedArray(p, keep)
    [] OTHER                     -> Scalar(p, LimitedValueOf(p.lx), keep)

LimitedParseWith(lx, refused) ==
  Finished(Expect(Then(GetToken(ParserOf(lx, refused)),
                       LAMBDA q : LimitedParse(q, TRUE)), "end_of_input"))

(* -- Access ------------------------------------------------------------- *)

LimitedAt(v, key) ==
  CASE ~IsObject(v)         -> Throw(304)
    [] key \notin DOMAIN v[2] -> Throw(403)
    [] OTHER                -> Ok(v[2][key])

\* operator[] of a value that is not constant: the value it leaves, with a
\* null member under a new key, before anything is assigned to that member.
LimitedIndex(v, key) ==
  LET o == IF IsNull(v) THEN OfType("object") ELSE v
  IN IF IsObject(o) THEN Ok(Obj(o[2] @@ (key :> Null))) ELSE Throw(305)

LimitedAssign(v, key, new) ==
  LET r == LimitedIndex(v, key)
  IN IF r.error # 0 THEN r ELSE Ok(Obj([r.value[2] EXCEPT ![key] = new]))

(* -- Text --------------------------------------------------------------- *)

RECURSIVE LimitedDump(_, _, _)
LimitedDump(v, step, indent) ==
  LET ks == Keys(v[2])
  IN CASE IsObject(v) ->
            Enclosed(123,
              [i \in DOMAIN ks |->
                 <<34>> \o DumpEscaped(ks[i]) \o <<34, 58>>
                   \o (IF step < 0 THEN <<>> ELSE <<32>>)
                   \o LimitedDump(v[2][ks[i]], step, indent + step)],
              125, step, indent)
       [] IsString(v) -> <<34>> \o DumpEscaped(v[2]) \o <<34>>
       [] IsNull(v)   -> NullText
       [] OTHER       -> DiscardedText
=============================================================================
