----------------------------- MODULE JsonParser -----------------------------
(***************************************************************************)
(* The recursive-descent parser of json.hpp and its callback.              *)
(*                                                                         *)
(* A parser is a record: its lexer lx with the last token read, the events *)
(* the callback answers with false (a set of <<event, depth>>, empty when  *)
(* there is no callback: the two cannot be told apart), the depth it is    *)
(* told, the calls made of it, the value of the part just parsed and the   *)
(* number of the exception thrown, 0 for none.                             *)
(***************************************************************************)
EXTENDS JsonLexer

\* The parser of a lexer, before its first token.
ParserOf(lx, refused) ==
  [lx |-> lx, refused |-> refused, depth |-> 0, calls |-> <<>>,
   value |-> Discarded, error |-> lx.error]

GetToken(p)  == IF p.error # 0 THEN p ELSE [p EXCEPT !.lx = Scan(@)]
Token(p)     == p.lx.token
Expect(p, t) ==
  IF p.error # 0 \/ Token(p) = t THEN p ELSE [p EXCEPT !.error = 101]
Unexpect(p, t) ==
  IF p.error # 0 \/ Token(p) # t THEN p ELSE [p EXCEPT !.error = 101]

\* The callback's answer to an event, and the parser that has asked for it.
Keeps(p, event)  == <<event, p.depth>> \notin p.refused
Asked(p, event)  == [p EXCEPT !.calls = Append(@, <<event, p.depth>>)]

\* An object or an array begins: the callback is asked, at a depth that the
\* question itself increases, only when what is around it is kept.
Opened(p, event, empty, keep) ==
  IF ~keep THEN [p EXCEPT !.value = Discarded]
  ELSE [Asked(p, event) EXCEPT
          !.depth = @ + 1,
          !.value = IF Keeps(p, event) THEN empty ELSE Discarded]

Answered(p, event) ==
  [Asked(p, event) EXCEPT !.value = IF Keeps(p, event) THEN @ ELSE Discarded]

\* Faulty variant: the callback is asked at the depth of the parts.
ClosedInside(p, event) == [Answered(p, event) EXCEPT !.depth = @ - 1]

\* It ends.
Closed(p, event) == Answered([p EXCEPT !.depth = @ - 1], event)

\* A value without parts: what its token stands for, and the parser behind it.
ValueOf(lx) ==
  CASE lx.token = "value_string"  -> Then(GetString(lx), LAMBDA r : Ok(Str(r.value)))
    [] lx.token \in {"value_unsigned", "value_integer", "value_float"} -> GetNumber(lx)
    [] lx.token = "literal_null"  -> Ok(Null)
    [] lx.token = "literal_true"  -> Ok(Bool(TRUE))
    [] lx.token = "literal_false" -> Ok(Bool(FALSE))
    [] OTHER                      -> Throw(101)
Scalar(p, r, keep) ==
  Then(IF r.error # 0 THEN [p EXCEPT !.error = r.error]
       ELSE [GetToken(p) EXCEPT !.value = r.value],
       LAMBDA q : IF keep THEN Answered(q, "value") ELSE q)

RECURSIVE ParseInternal(_, _), MembersFrom(_, _, _), ElementsFrom(_, _, _)

AfterComma(p) == IF Token(p) = "value_separator" THEN GetToken(p) ELSE p

\* Key, colon, value, as long as commas follow; the last member of a name
\* stays.
MemberValue(p, key, keep) ==
  IF key.error # 0 THEN [p EXCEPT !.error = key.error]
  ELSE Then(GetToken(Expect(GetToken(IF keep THEN Asked(p, "key") ELSE p), "name_separator")),
            LAMBDA q : ParseInternal(q, keep))
NextMember(p, object, keep) ==
  IF Token(p) = "value_separator" THEN MembersFrom(p, object, keep)
  ELSE [p EXCEPT !.value = object]
MembersFrom(p, object, keep) ==
  Then(Expect(AfterComma(p), "value_string"), LAMBDA named :
    With(GetString(named.lx), LAMBDA key :
      Then(MemberValue(named, key, keep), LAMBDA parsed :
        NextMember(parsed,
          IF keep /\ Keeps(named, "key") /\ parsed.value # Discarded
          THEN Obj((key.value :> parsed.value) @@ object[2]) ELSE object,
          keep))))

ObjectParts(opened, kept) ==
  IF Token(opened) = "end_object" THEN opened
  ELSE Expect(Then(Unexpect(opened, "value_separator"),
                   LAMBDA q : MembersFrom(q, q.value, kept)), "end_object")
ParseObject(p, keep) ==
  LET kept == keep /\ Keeps(p, "object_start")
  IN Then(GetToken(ObjectParts(GetToken(Opened(p, "object_start", OfType("object"), keep)), kept)),
          LAMBDA q : IF kept THEN Closed(q, "object_end") ELSE q)

NextElement(p, array, keep) ==
  IF Token(p) = "value_separator" THEN ElementsFrom(p, array, keep)
  ELSE [p EXCEPT !.value = array]
ElementsFrom(p, array, keep) ==
  Then(ParseInternal(AfterComma(p), keep), LAMBDA parsed :
    NextElement(parsed,
      IF keep /\ parsed.value # Discarded THEN Arr(Append(array[2], parsed.value)) ELSE array,
      keep))

\* An empty array asks the callback at its end even when it is not kept.
ArrayParts(opened, kept) ==
  IF Token(opened) = "end_array" THEN opened
  ELSE Expect(Then(Unexpect(opened, "value_separator"),
                   LAMBDA q : ElementsFrom(q, q.value, kept)), "end_array")
ParseArray(p, keep) ==
  LET kept == keep /\ Keeps(p, "array_start")
  IN With(GetToken(Opened(p, "array_start", OfType("array"), keep)), LAMBDA opened :
       Then(GetToken(ArrayParts(opened, kept)), LAMBDA q :
         IF kept \/ Token(opened) = "end_array" THEN Closed(q, "array_end") ELSE q))

ParseInternal(p, keep) ==
  CASE Token(p) = "begin_object" -> ParseObject(p, keep)
    [] Token(p) = "begin_array"  -> ParseArray(p, keep)
    [] OTHER                     -> Scalar(p, ValueOf(p.lx), keep)

\* The whole text is one value; a discarded one becomes null.
Finished(p) ==
  [p EXCEPT !.value = IF @ = Discarded \/ p.error # 0 THEN Null ELSE @]
ParseWith(lx, refused) ==
  Finished(Expect(Then(GetToken(ParserOf(lx, refused)),
                       LAMBDA q : ParseInternal(q, TRUE)), "end_of_input"))

\* parse of a range in memory, of a stream, and of a C string, which its first
\* NUL ends.
ParseText(text)          == ParseWith(OfText(text), {})
ParseStream(good, lines) == ParseWith(OfStream(good, lines), {})
CString(text) ==
  CHOOSE s \in Prefixes(text) :
    0 \notin Range(s) /\ (s = text \/ text[Len(s) + 1] = 0)
=============================================================================
