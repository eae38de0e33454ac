-------------------------------- MODULE Results ---------------------------------
(***************************************************************************)
(* Result, ErrorSet and the query operators of ResultExtensions: a value,  *)
(* or the set of everything that is wrong.  Combining results keeps the    *)
(* errors of both, so that a user learns all that is wrong at once.        *)
(***************************************************************************)

Ok(value) == [isOk |-> TRUE, value |-> value]
Error(errors) == [isOk |-> FALSE, errors |-> errors]

ErrorsOf(result) == IF result.isOk THEN {} ELSE result.errors

\* Result<value of Values, set of members of Faults>
ResultsOf(Values, Faults) ==
    [isOk : {TRUE}, value : Values] \cup [isOk : {FALSE}, errors : SUBSET Faults]

\* With: both values, or the errors of both.
With(first, second) ==
    IF first.isOk /\ second.isOk
    THEN Ok(<<first.value, second.value>>)
    ELSE Error(ErrorsOf(first) \cup ErrorsOf(second))

\* OnOk and SelectMany: what is next uses the value and is reached only with one.
OnOk(result, next) == IF result.isOk THEN next ELSE result

\* Faulty variant: the query is a chain of "from", which ends at the first error.
QueryFirstError(results) ==
    IF \A name \in DOMAIN results : results[name].isOk
    THEN Ok([name \in DOMAIN results |-> results[name].value])
    ELSE results[CHOOSE name \in DOMAIN results : ~results[name].isOk]

\* "from a in .. join b in .. join c in .. select ..": the values of all clauses,
\* or the errors of all of them.
Query(results) ==
    IF \A name \in DOMAIN results : results[name].isOk
    THEN Ok([name \in DOMAIN results |-> results[name].value])
    ELSE Error(UNION {ErrorsOf(results[name]) : name \in DOMAIN results})

\* Faulty variant: what cannot be parsed is left out.
ReduceOks(results) == Ok({result.value : result \in {r \in results : r.isOk}})

\* Reduce, for results whose order does not matter.
Reduce(results) ==
    IF \A result \in results : result.isOk
    THEN Ok({result.value : result \in results})
    ELSE Error(UNION {ErrorsOf(result) : result \in results})

-----------------------------------------------------------------------------

\* One more value in the record.
AddField(values, name, value) ==
    [n \in DOMAIN values \cup {name} |-> IF n = name THEN value ELSE values[n]]

\* Join, whose keys are always equal: one more "join name in result".
Joined(results, name, result) ==
    LET both == With(Query(results), result)
    IN  OnOk(both, Ok(AddField(both.value[1], name, both.value[2])))
=============================================================================
