----------------------------- MODULE MCNativeClient -----------------------------
(***************************************************************************)
(* Instances of NativeClient for TLC.                                      *)
(***************************************************************************)
EXTENDS NativeClient, TLC

CONSTANTS t1, t2, nobody

Url(https, query, path) == [https |-> https, query |-> query, path |-> path, namespace |-> "ns"]
Get(url, retries) == [op |-> "get", url |-> url, token |-> "good", retries |-> retries]
Add(wellFormed, cert) == [op |-> "add", wellFormed |-> wellFormed, cert |-> cert]
Info(thumbprint, name, namespace) ==
    [thumbprint |-> thumbprint, name |-> name, namespace |-> namespace]
Cert(thumbprint, name) == [thumbprint |-> thumbprint, name |-> name]

Host == Url(TRUE, FALSE, <<"host">>)

\* One certificate for any URL and one for a namespace that is not in the URL.
ShippedCerts == <<Info("shipped", "ca", ""), Info("abroad", "caAbroad", "elsewhere")>>

\* A URL that works, with and without retries, and one of every other shape.
SomeGets ==
    {Get(Host, 0), Get(Host, 2)} \cup
    {Get(url, 0) : url \in
        {Url(FALSE, FALSE, <<"host">>), Url(TRUE, TRUE, <<"host">>),
         Url(TRUE, FALSE, <<"host", "/">>), Url(TRUE, FALSE, <<"host", "/", "path">>),
         Url(TRUE, FALSE, <<"host", "/", "path", "/">>), Url(TRUE, FALSE, <<"host", "/", "/">>),
         Url(TRUE, FALSE, <<"host", "/", "path", "/", "more">>)}}
SomeAdds == {Add(TRUE, Info("own", "me", "")), Add(FALSE, Info("own", "me", ""))}

\* Chains with a shipped certificate, the own one, a name that differs, the one
\* for another namespace, and an unknown certificate.
SomeChains ==
    {<<Cert("leaf", "server"), Cert("shipped", "ca")>>, <<Cert("own", "me")>>,
     <<Cert("own", "you"), Cert("shipped", "ca")>>, <<Cert("abroad", "caAbroad")>>,
     <<Cert("leaf", "server")>>}
=============================================================================
