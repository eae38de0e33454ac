----------------------------- MODULE JsonClient -----------------------------
(***************************************************************************)
(* What SoftwareEntitlementClient.cpp does with JSON in one exchange: the  *)
(* body it posts, the response it collects in the pieces libcurl hands to  *)
(* its callback, and the Entitlement or the exception it makes of it.      *)
(* Which of the two headers is compiled in depends on the compiler.        *)
(***************************************************************************)
EXTENDS JsonLimited, JsonGrammar

CONSTANTS
    Headers,        \* the headers the client is built with
    Strings,        \* the tokens and application ids callers pass
    Chunks,         \* the pieces of bytes a server's response comes in
    MaxChunks,      \* how many of them (a bound)
    Statuses,       \* the HTTP status codes
    Refusals        \* sets of <<event, depth>> a parser callback refuses

ASSUME HeadersAssumption == Headers \subseteq {"json.hpp", "json_vc11.hpp"}

VARIABLES
    header,     \* the header of this build
    phase,      \* "idle", "sending" or "receiving"
    call,       \* the arguments of the call whose body is being sent
    body,       \* what libcurl has to send
    response,   \* Curl::_response
    chunks,     \* how many pieces it came in
    answer      \* what the last call returned or threw

textVars == <<header, phase, call, body, response, chunks, answer>>

NoCall   == [token |-> <<>>, application |-> <<>>]
NoAnswer == [kind |-> "none", status |-> 0, texts |-> <<>>]

(* -- The names of members ----------------------------------------------- *)

tokenName   == <<116, 111, 107, 101, 110>>
applicationName ==
    <<97, 112, 112, 108, 105, 99, 97, 116, 105, 111, 110, 73, 100>>
idName      == <<105, 100>>
vmidName    == <<118, 109, 105, 100>>
messageName == <<109, 101, 115, 115, 97, 103, 101>>
valueName   == <<118, 97, 108, 117, 101>>
codeName    == <<99, 111, 100, 101>>

(* -- Both headers ------------------------------------------------------- *)

ParsedBy(h, text, refused) ==
    IF h = "json.hpp" THEN ParseWith(OfText(text), refused)
    ELSE LimitedParseWith(OfText(text), refused)

Read(h, text) ==
    With(ParsedBy(h, CString(text), {}),
         LAMBDA p : IF p.error # 0 THEN Throw(p.error) ELSE Ok(p.value))

\* The member of a value, as a string.
Member(r, key) == Then(r, LAMBDA x : LimitedAt(x.value, key))
Text(r)        == Then(r, LAMBDA x : AsString(x.value))

(* -- The client --------------------------------------------------------- *)

\* The body of a request: two members, added to a value that is null.
Body(h, args) ==
    LET j == LimitedAssign(LimitedAssign(Null, tokenName, Str(args.token)).value,
                           applicationName, Str(args.application)).value
    IN IF h = "json.hpp" THEN DumpText(j, -1) ELSE LimitedDump(j, -1, 0)

ExtractValue(h, text, key) == Text(Member(Read(h, text), key))

\* Two texts of the client's own, which no response holds.
UnknownError == <<-1>>
Unexpected   == <<-2>>

\* Faulty variant: only a response that is no JSON is handled.
DetailedErrorMessageOfJson(h, text) ==
    With(Read(h, text), LAMBDA r :
      LET value == Text(Member(Member(r, messageName), valueName))
          code  == Text(Member(r, codeName))
      IN CASE value.error = 0 -> value
           [] code.error = 0  -> code
           [] code.error \div 100 = 1 -> Ok(UnknownError)
           [] OTHER           -> code)

\* The message's value, else the code, else a text of the client's own.
DetailedErrorMessage(h, text) ==
    With(Read(h, text), LAMBDA r :
      LET value == Text(Member(Member(r, messageName), valueName))
          code  == Text(Member(r, codeName))
      IN CASE value.error = 0 -> value
           [] code.error = 0  -> code
           [] OTHER           -> Ok(UnknownError))

ErrorMessage(h, status, text) ==
    IF status \in {400, 403} THEN DetailedErrorMessage(h, text) ELSE Ok(Unexpected)

\* An entitlement holds both its id and its VM, or there is none.
Entitled(id, vmid) == Then(id, LAMBDA x : Then(vmid, LAMBDA y : Ok(<<x.value, y.value>>)))
Answer(kind, status, texts) == [kind |-> kind, status |-> status, texts |-> texts]

\* Curl::GetEntitlement and the constructor of Entitlement.
GetEntitlement(h, status, text) ==
    With(IF status # 200 THEN ErrorMessage(h, status, text)
         ELSE Entitled(ExtractValue(h, text, idName), ExtractValue(h, text, vmidName)),
         LAMBDA r : CASE r.error # 0  -> Answer("json exception", status, <<>>)
                      [] status = 200 -> Answer("Entitlement", status, r.value)
                      [] OTHER        -> Answer("Exception", status, <<r.value>>))

-----------------------------------------------------------------------------
TextInit ==
    /\ header \in Headers
    /\ phase = "idle" /\ call = NoCall /\ body = <<>>
    /\ response = <<>> /\ chunks = 0 /\ answer = NoAnswer

\* A new Curl object posts the request.
PostBody(args) ==
    /\ phase = "idle"
    /\ phase' = "sending"
    /\ call' = args
    /\ body' = Body(header, args)
    /\ answer' = NoAnswer
    /\ UNCHANGED <<header, response, chunks>>

\* libcurl has sent the body.
Sent ==
    /\ phase = "sending"
    /\ phase' = "receiving"
    /\ call' = NoCall /\ body' = <<>>
    /\ UNCHANGED <<header, response, chunks, answer>>

\* Curl::WriteCallback.
WriteCallback(chunk) ==
    /\ phase = "receiving" /\ chunks < MaxChunks
    /\ response' = response \o chunk
    /\ chunks' = chunks + 1
    /\ UNCHANGED <<header, phase, call, body, answer>>

\* The call ends, and with it the Curl object and its response.
EndCall(a) ==
    /\ phase' = "idle" /\ call' = NoCall /\ body' = <<>>
    /\ response' = <<>> /\ chunks' = 0
    /\ answer' = a
    /\ UNCHANGED header

\* curl_easy_perform fails: the connection breaks, or the callback has no memory.
Break == phase \in {"sending", "receiving"} /\ EndCall(Answer("Exception", 0, <<>>))

Return(status) ==
    phase = "receiving" /\ EndCall(GetEntitlement(header, status, response))

TextNext ==
    \/ \E token \in Strings, application \in Strings :
          PostBody([token |-> token, application |-> application])
    \/ Sent
    \/ \E chunk \in Chunks : WriteCallback(chunk)
    \/ \E status \in Statuses : Return(status)
    \/ Break

TextSpec == TextInit /\ [][TextNext]_textVars

-----------------------------------------------------------------------------
(* Properties.  Those of texts are about a response as it comes in, read   *)
(* by one client; json.hpp and json_vc11.hpp are compared in it.           *)

AtText == phase = "receiving" /\ header = "json.hpp"

\* std::getline gives a text line by line; behind a line break at its end there is
\* an empty line more, with which the stream shows its end.
Lines(text) ==
    LET breaks == SelectSeq([i \in 1 .. Len(text) |-> i], LAMBDA i : text[i] = 10)
        ends   == Append(breaks, Len(text) + 1)
    IN [n \in DOMAIN ends |->
          SubSeq(text, IF n = 1 THEN 1 ELSE ends[n - 1] + 1, ends[n] - 1)]

\* A text read line by line from a stream gives what it gives from memory,
\* but for a byte-order mark, which only a stream may start with.
ByteOrderMark == <<239, 187, 191>>
ReadSame(p, q) ==
    /\ ~p.lx.past /\ ~q.lx.past
    /\ ~IsPrefix(ByteOrderMark, response) => p.error = q.error /\ p.value = q.value

\* The scanner asks for as many bytes as it may look at before it has to ask
\* again (YYFILL, fill_line_buffer): it reads nothing behind its buffer, and
\* where the buffer ends, at a line or at the whole text, changes no result.
BufferUnseen ==
    AtText => ReadSame(ParseText(response), ParseStream(TRUE, Lines(response)))

\* Of JSON the parser refuses what holds a number no double can hold.  (NUL
\* ends a text.)
Overflow == 406
JsonIsAccepted ==
    AtText => With(CString(response), LAMBDA text :
                ParseText(text).error \in (IF IsJson(text) THEN {0, Overflow} ELSE Nat \ {0}))

\* Strings and names that are read are UTF-8, however they were escaped.
RECURSIVE StringsOf(_)
StringsOf(v) ==
    CASE IsString(v) -> {v[2]}
      [] IsArray(v)  -> UNION {StringsOf(v[2][i]) : i \in DOMAIN v[2]}
      [] IsObject(v) -> DOMAIN v[2] \cup UNION {StringsOf(v[2][k]) : k \in DOMAIN v[2]}
      [] OTHER       -> {}
StringsAreUtf8 ==
    AtText => \A s \in StringsOf(ParseText(response).value) : AllUtf8(s)

\* The parser (lexer::scan, get_string, get_number, parse_internal) accepts the
\* texts of the grammar of JSON and no other; every string it makes of one is
\* UTF-8, surrogates put together, whatever bytes and escapes it was made of.
AcceptsJustJson == JsonIsAccepted /\ StringsAreUtf8

\* What is read and written, on one line or on several, reads as the same
\* value again (doubles of more than 15 digits, which dump rounds, aside).
RECURSIVE ShortDoubles(_)
ShortDoubles(v) ==
    CASE v[1] = "float" -> Len(v[2].digits) <= 15
      [] IsStructured(v) -> \A i \in DOMAIN v[2] : ShortDoubles(v[2][i])
      [] OTHER -> TRUE
SameText(p, v) == p.error = 0 /\ Eq(p.value, v)
DumpReadsBack ==
    AtText => With(ParseText(response).value, LAMBDA v :
                ShortDoubles(v) =>
                    \A indent \in {-1, 0, 2} : SameText(ParseText(DumpText(v, indent)), v))

\* A name that occurs twice in an object shows in the calls of the callback.
RECURSIVE MembersIn(_)
MembersIn(v) ==
    CASE IsArray(v)  -> FoldLeft(LAMBDA n, e : n + MembersIn(e), 0, v[2])
      [] IsObject(v) -> FoldFunction(LAMBDA e, n : n + 1 + MembersIn(e), 0, v[2])
      [] OTHER       -> 0
NamesDiffer(p) == Len(SelectSeq(p.calls, LAMBDA c : c[1] = "key")) = MembersIn(p.value)

\* json_vc11.hpp reads the objects, strings and nulls that json.hpp reads, and
\* drops the rest; it refuses the same texts, but takes the numbers that are
\* too large.  (A name that occurs twice is another matter.)
RECURSIVE WithoutOthers(_)
WithoutOthers(v) ==
    CASE IsObject(v) ->
           Obj([k \in {k \in DOMAIN v[2] : WithoutOthers(v[2][k]) # Discarded} |->
                  WithoutOthers(v[2][k])])
      [] IsString(v) \/ IsNull(v) -> v
      [] OTHER -> Discarded
OrNull(v) == IF v = Discarded THEN Null ELSE v
LimitedReadsSame(f, l) ==
    /\ f.error \in {l.error, Overflow}
    /\ f.error = 0 /\ NamesDiffer(f) => l.value = OrNull(WithoutOthers(f.value))

\* The parts a callback refuses are as if they had not been in the text: names
\* with their values, values, containers as they start or end, at their depth.
RECURSIVE Kept(_, _, _)
Kept(v, refused, depth) ==
    LET kept(e)  == Kept(e, refused, depth + 1)
        keeps(events) == \A event \in events : <<event, depth>> \notin refused
    IN CASE IsObject(v) /\ keeps({"object_start", "object_end"}) ->
              Obj([k \in {k \in DOMAIN v[2] : /\ <<"key", depth + 1>> \notin refused
                                              /\ kept(v[2][k]) # Discarded} |-> kept(v[2][k])])
         [] IsArray(v) /\ keeps({"array_start", "array_end"}) ->
              Arr(SelectSeq([i \in DOMAIN v[2] |-> kept(v[2][i])], LAMBDA e : e # Discarded))
         [] ~IsStructured(v) /\ keeps({"value"}) -> v
         [] OTHER -> Discarded
RefusedAsUnread(f, p, refused) ==
    /\ p.error = f.error
    /\ f.error = 0 /\ NamesDiffer(f) => p.value = OrNull(Kept(f.value, refused, 0))

\* "The parser will behave as if the discarded value was never read"
\* (json.hpp:2077), at the depths of the table above that line.
RefusalsAsUnread ==
    AtText => With(ParseText(response), LAMBDA f :
                \A refused \in Refusals :
                   RefusedAsUnread(f, ParseWith(OfText(response), refused), refused))

\* Parts that are dropped while a text is parsed, by json_vc11.hpp because it
\* keeps no arrays, numbers and Booleans, by json.hpp because a callback refused
\* them, leave the rest of the value as it would be without them, at its depth,
\* and the same texts are refused.  Exception: a callback that refuses the start of
\* an object or array has to do so whatever the depth is, and to look at the depth of
\* nothing else, for the parser counts such a start and not its end; a run of
\* RefusalsAsUnread has one that does not.
DroppedAsUnread ==
    /\ AtText => LimitedReadsSame(ParseText(response), LimitedParseWith(OfText(response), {}))
    /\ RefusalsAsUnread

\* A server reads of the body the token and the application the caller gave,
\* whatever characters they hold, and nothing else, from either build.
RequestReadsBack ==
    phase = "sending" =>
        SameText(ParseText(CString(body)),
                 Obj((tokenName :> Str(call.token)) @@ (applicationName :> Str(call.application))))

\* What either header writes (dump, and the body of Curl::Post) is JSON that
\* holds the values and strings it was written from, control characters, quotes
\* and bytes above 127 included: extra_space reserves what dump_escaped writes.
WrittenReadsBack == DumpReadsBack /\ RequestReadsBack

\* Without the brace at its end, or more, a response is no JSON to this build.
Whole(text) ==
    \A n \in 0 .. Len(text) - 1 :
        (\E i \in n + 1 .. Len(text) : text[i] \notin White)
        => Read(header, SubSeq(text, 1, n)).error # 0

HasCode(r) ==
    r.error = 0 /\ IsObject(r.value) /\ codeName \in DOMAIN r.value[2]
    /\ IsString(r.value[2][codeName])

\* The answer of a call fits its response: an Entitlement is made only of one
\* that has come in whole (Curl::GetEntitlement); any status but 200 ends in an
\* Exception, be the response JSON or not, and not in the text for unknown
\* errors when a response of 400 or 403 holds a code (GetDetailedErrorMessage).
AnswersFitResponses ==
    [][phase = "receiving" /\ phase' = "idle" =>
         /\ answer'.kind = "Entitlement" => Whole(CString(response))
         /\ answer'.status \notin {0, 200} =>
              /\ answer'.kind = "Exception"
              /\ answer'.texts = <<UnknownError>> => ~HasCode(Read(header, response))]_textVars
=============================================================================
