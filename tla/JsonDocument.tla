---------------------------- MODULE JsonDocument ----------------------------
(***************************************************************************)
(* The variable of JsonContainer, which a program changes by JSON pointers *)
(* and patches as well.                                                    *)
(***************************************************************************)
EXTENDS JsonContainer, JsonPointer, JsonBinary

CONSTANTS
    PointerTexts,   \* JSON pointers as text
    Edits,          \* patches
    Targets         \* values a difference is taken to

SetPointer(text, x) ==
    LET path == Split(text)
    IN Change("change", IF path.error # 0 THEN Refused(doc, path.error)
                         ELSE AssignAt(doc, path.value, x))

ApplyPatch(p) ==
    LET r == Patch(doc, p)
    IN Change("change", IF r.error # 0 THEN Refused(doc, r.error) ELSE Done(r.value, 0))

Rebuild ==
    LET r == Unflatten(doc)
    IN Change("change", IF r.error # 0 THEN Refused(doc, r.error) ELSE Done(r.value, 0))

DocNext ==
    \/ ElementsNext
    \/ \E text \in PointerTexts, x \in Items : SetPointer(text, x)
    \/ \E p \in Edits : ApplyPatch(p)
    \/ Rebuild

DocSpec == DocInit /\ [][DocNext]_docVars

-----------------------------------------------------------------------------
(* Properties.                                                             *)

\* The patch from the variable to a value gives a value that equals this one.
DiffLeadsThere ==
    \A t \in Targets :
        LET r == Patch(doc, Diff(doc, t)) IN r.error = 0 /\ Eq(r.value, t)

\* A value that is written reads as an equal one, also with bytes behind it.
EncodedReadsBack ==
    \A format \in {"cbor", "msgpack"} :
        LET r == Decoded(format, Encoded(format, doc) \o <<0>>)
        IN r.error = 0 /\ Eq(r.value, doc)

\* A text of either format that is cut off is refused for the bytes it lacks:
\* no length in it makes the reader take what is not there.
CutTextRefused ==
    \A format \in {"cbor", "msgpack"} :
        LET b == Encoded(format, doc)
        IN \A n \in 0 .. Len(b) - 1 : Decoded(format, SubSeq(b, 1, n)).error = 110

\* to_cbor, from_cbor, to_msgpack, from_msgpack: numbers, strings and containers
\* of every size are read as they were written, and no part of a text passes for
\* the whole of it.
BinaryReadsBack == EncodedReadsBack /\ CutTextRefused

\* The paths to all parts of a value, as reference tokens.
RECURSIVE Paths(_)
Paths(v) ==
    {<<>>} \cup
    CASE IsArray(v)  -> UNION {{<<IndexText(i - 1)>> \o p : p \in Paths(v[2][i])} : i \in DOMAIN v[2]}
      [] IsObject(v) -> UNION {{<<k>> \o p : p \in Paths(v[2][k])} : k \in DOMAIN v[2]}
      [] OTHER       -> {}
RECURSIVE PartOf(_, _)
PartOf(v, path) ==
    CASE path = <<>> -> v
      [] IsObject(v) -> PartOf(v[2][Head(path)], Tail(path))
      [] OTHER -> PartOf(v[2][1 + FoldLeft(LAMBDA n, c : 10 * n + c - 48, 0, Head(path))], Tail(path))

\* A JSON pointer to a part of the variable finds this part after it has been
\* written and read: names with slashes and tildes are escaped and unescaped.
PointersFindParts ==
    \A path \in Paths(doc) :
        LET read == Split(PointerText(path))
        IN /\ read = Ok(path)
           /\ GetChecked(doc, read.value) = Ok(PartOf(doc, path))
           /\ ConstDefined(doc, path)

\* flatten and unflatten give the value back when no container in it is empty
\* and no object has a member "0", which unflatten takes for an index.
RECURSIVE Flattens(_)
Flattens(v) ==
    CASE IsArray(v)  -> v[2] # <<>> /\ \A i \in DOMAIN v[2] : Flattens(v[2][i])
      [] IsObject(v) -> /\ DOMAIN v[2] # {} /\ ZeroToken \notin DOMAIN v[2]
                        /\ \A k \in DOMAIN v[2] : Flattens(v[2][k])
      [] OTHER       -> TRUE
FlattenReadsBack ==
    Flattens(doc) =>
        LET r == Unflatten(Flatten(doc)) IN r.error = 0 /\ r.value = doc

\* "remove" takes back what "add" has done, elements behind it included, where
\* "add" has not replaced a member or made containers on the way.
AddThenRemove ==
    \A text \in PointerTexts, x \in Items :
        LET path   == Split(text)
            parent == GetChecked(doc, Front(path.value))
            added  == OperationAdd(doc, path.value, x)
            back   == OperationRemove(added.value, path.value)
        IN  /\ path.error = 0 /\ path.value # <<>>
            /\ parent.error = 0 /\ IsStructured(parent.value)
            /\ Last(path.value) # Dash /\ ~LeadingZero(Last(path.value))
            /\ IsObject(parent.value) => Last(path.value) \notin DOMAIN parent.value[2]
            /\ added.error = 0
            => /\ GetChecked(added.value, path.value) = Ok(x)
               /\ back = Ok(doc)

\* patch and diff: an array's surplus elements are removed from the end, so that
\* no removal shifts a later one, and each operation works on what the earlier
\* ones have left; "remove" undoes "add".
PatchesLeadThere == DiffLeadsThere /\ AddThenRemove

\* A pointer of one token finds the element that index or name finds.
TokensFindElements ==
    \A i \in 1 .. Size(doc) :
        /\ IsArray(doc) => GetChecked(doc, <<IndexText(i - 1)>>) = At(doc, i - 1)
        /\ IsObject(doc) => LET k == IteratorKey(doc, i - 1).value
                            IN ValueAt(doc, <<k>>, Discarded) = AtKey(doc, k)

\* The ways to an element (iterators, at, find, value, front, back, JSON pointers
\* with names escaped, the flattened value) lead to the same one, at every depth.
AccessAgrees == ElementsAgree /\ TokensFindElements /\ PointersFindParts /\ FlattenReadsBack

\* Values are ordered (operator==, operator<): of two values one is less, or
\* they are equal, and what is less than a value, or equals it, is less than all
\* that are greater.  (NaN aside, and unsigned numbers of 2^63 and more, which ==
\* and < convert to negative ones next to a signed one.)
RECURSIVE Ordered(_)
Ordered(v) ==
    CASE v[1] = "unsigned" -> ~IsNegative(v[2])
      [] v[1] = "float"    -> v[2].kind # "nan"
      [] IsStructured(v)   -> \A i \in DOMAIN v[2] : Ordered(v[2][i])
      [] OTHER             -> TRUE
OrderIsTotal ==
    Ordered(doc) =>
        \A x \in Targets :
            Ordered(x) =>
                /\ Cardinality({r \in {"less", "equal", "greater"} :
                                  CASE r = "less"  -> Less(doc, x)
                                    [] r = "equal" -> Eq(doc, x)
                                    [] OTHER       -> Less(x, doc)}) = 1
                /\ \A y \in Targets :
                     Ordered(y) /\ (Less(doc, x) \/ Eq(doc, x)) /\ Less(x, y) => Less(doc, y)

\* An assignment through a pointer that ends in an exception may leave
\* containers and nulls it made on its way; it changes nothing that was there.
Holds(new, old, path) ==
    LET r == GetChecked(new, path)
        part == PartOf(old, path)
    IN  r.error = 0 /\ (IsStructured(part) \/ IsNull(part) \/ r.value = part)
FailureKeepsParts ==
    [][outcome'.error # 0 => \A path \in Paths(doc) : Holds(doc', doc, path)]_docVars
=============================================================================
