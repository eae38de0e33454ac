------------------------------- MODULE MCEndToEnd -------------------------------
(***************************************************************************)
(* Instances of EndToEnd for TLC.                                          *)
(***************************************************************************)
EXTENDS EndToEnd, TLC

CONSTANTS t1, t2, v1, nobody

Host == [https |-> TRUE, query |-> FALSE, path |-> <<"host">>, namespace |-> "ns"]
Get(token) == [op |-> "get", url |-> Host, token |-> token, retries |-> 1]

AllTokens == {Get(token) : token \in {"good", "noVmid", "refused", "missing"}}
NoAdds == {}

ShippedCerts == <<[thumbprint |-> "shipped", name |-> "ca", namespace |-> ""]>>
TestChain == {<<[thumbprint |-> "shipped", name |-> "ca"]>>}

\* Posts of every version to the collection, and requests that Renew or Release
\* accepts, or nothing does.
Visits ==
    {[method |-> "POST", path |-> "collection", version |-> version] : version \in Versions}
    \cup {[method |-> method, path |-> path, version |-> version] :
            method \in {"POST", "DELETE"}, path \in {"item"}, version \in {Missing, 1, Latest}}
    \cup {[method |-> "DELETE", path |-> "collection", version |-> Latest]}
=============================================================================
