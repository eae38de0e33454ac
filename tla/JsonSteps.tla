------------------------------ MODULE JsonSteps ------------------------------
(***************************************************************************)
(* The loops of json.hpp over a text, a byte at a time: the scanner in a   *)
(* text or a stream; and a string that is escaped, found by the scanner as *)
(* a token and unescaped, or a string token that comes from elsewhere.     *)
(***************************************************************************)
EXTENDS JsonEscape

-----------------------------------------------------------------------------
(* The scanner.                                                            *)

VARIABLE scanner    \* the token being scanned

\* The lexers of texts, and of streams that are good.  std::getline gives a stream
\* at least one line, which may be empty.
Lexers ==
    {OfText(text) : text \in Seq(Byte)}
    \cup {OfStream(TRUE, lines) : lines \in Seq(Seq(Byte)) \ {<<>>}}

ScanInit == \E lx \in Lexers : scanner = Scanning(lx)

\* The scanner takes another byte, or begins with the next token.
ScanNext ==
    LET p == Prepared(scanner)
    IN  scanner' = IF Stuck(p) THEN Scanning(Stop(p)) ELSE Moved(p)

ScanSpec == ScanInit /\ [][ScanNext]_scanner

-----------------------------------------------------------------------------
(* A string.                                                               *)

VARIABLES
    string,     \* the bytes that are written
    written,    \* whether they are, or another token is read
    stage,      \* what is being done
    done,       \* the bytes counted or written so far
    space,      \* what escaping adds
    writer,     \* the result of dump_escaped
    buffer,     \* what is scanned
    states,     \* the states of the scanner so far
    reader      \* the token being read

stringVars == <<string, written, stage, done, space, writer, buffer, states, reader>>

Quote == <<34>>

\* A string is written and read back, or what begins with a quote is read.
StringInit ==
    /\ string \in Seq(Byte)
    /\ done = 0 /\ space = 0 /\ writer = Writing(0)
    /\ states = <<"start">> /\ reader = Reading
    /\ \/ written /\ stage = "count" /\ buffer = <<>>
       \/ ~written /\ stage = "scan" /\ \E text \in Seq(Byte) : buffer = Quote \o text
    /\ written \in BOOLEAN

\* extra_space looks at the next byte.
CountByte ==
    /\ stage = "count" /\ done < Len(string)
    /\ space' = space + Extra(string[done + 1])
    /\ done' = done + 1
    /\ UNCHANGED <<string, written, stage, writer, buffer, states, reader>>

\* The text between the quotes is ready; behind it anything may follow.
Finish(text) ==
    /\ stage' = "scan"
    /\ \E rest \in Seq(Byte) : buffer' = Quote \o text \o Quote \o rest
    /\ UNCHANGED <<string, written, done, space, writer, states, reader>>

\* A string without escapes is written as it is.
CountEnds ==
    /\ stage = "count" /\ done = Len(string)
    /\ IF space = 0 THEN Finish(string)
       ELSE /\ stage' = "write" /\ done' = 0
            /\ writer' = Writing(Len(string) + space)
            /\ UNCHANGED <<string, written, space, buffer, states, reader>>

\* dump_escaped writes the next byte.
WriteByte ==
    /\ stage = "write" /\ done < Len(string)
    /\ writer' = Written(writer, string[done + 1])
    /\ done' = done + 1
    /\ UNCHANGED <<string, written, stage, space, buffer, states, reader>>

WriteEnds == stage = "write" /\ done = Len(string) /\ Finish(writer.result)

\* The state of the scanner, and the one the next byte leads to.  (Behind the buffer
\* there is NUL, or what refilling puts there: no byte of a string.)
State == states[Len(states)]
Ahead ==
    IF Len(states) <= Len(buffer) /\ State \in DOMAIN Delta
    THEN Delta[State][buffer[Len(states)]] ELSE "stuck"

\* The scanner takes the next byte of a string, or finds no string.
ScanByte ==
    /\ stage = "scan" /\ State # "quote"
    /\ IF Ahead # "stuck" THEN states' = Append(states, Ahead) /\ UNCHANGED stage
       ELSE stage' = "other" /\ UNCHANGED states
    /\ UNCHANGED <<string, written, done, space, writer, buffer, reader>>

ScanEnds ==
    /\ stage = "scan" /\ State = "quote" /\ stage' = "read"
    /\ UNCHANGED <<string, written, done, space, writer, buffer, states, reader>>

\* The bytes of the token.
Length == Len(states) - 1

\* get_string takes the next byte or escape.
ReadPiece ==
    /\ stage = "read" /\ ~ReadingEnds(reader, Length)
    /\ reader' = TookNext(buffer, reader)
    /\ UNCHANGED <<string, written, stage, done, space, writer, buffer, states>>

ReadEnds ==
    /\ stage = "read" /\ ReadingEnds(reader, Length) /\ stage' = "done"
    /\ UNCHANGED <<string, written, done, space, writer, buffer, states, reader>>

StringNext ==
    \/ CountByte \/ CountEnds \/ WriteByte \/ WriteEnds
    \/ ScanByte \/ ScanEnds \/ ReadPiece \/ ReadEnds

StringSpec == StringInit /\ [][StringNext]_stringVars
=============================================================================
