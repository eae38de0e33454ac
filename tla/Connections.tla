------------------------------ MODULE Connections -------------------------------
(***************************************************************************)
(* The HTTPS exchanges between clients and the server.  This is the code   *)
(* of libcurl and Kestrel, seen from how SoftwareEntitlementClient.cpp and *)
(* SoftwareEntitlementServer.cs use it: a client has at most one exchange  *)
(* at a time, an exchange carries one request and at most one response.    *)
(***************************************************************************)
EXTENDS Integers, Sequences, FiniteSets

CONSTANT Clients

VARIABLE wire       \* the exchange of every client

(* The phases of an exchange: the request is on its way to an action of    *)
(* the controller, the action is running, it has returned a response that  *)
(* is not written yet, the client can read the response, or the exchange   *)
(* ended with an error.                                                    *)
Phases == {"none", "posted", "handling", "replying", "answered", "failed"}

\* What curl_easy_perform can end with, other than CURLE_OK.
TimedOut == "CURLE_OPERATION_TIMEDOUT"      \* of the connection phase only
Untrusted == "CURLE_SSL_CACERT"
Refused == "CURLE_COULDNT_CONNECT"
Reset == "CURLE_RECV_ERROR"
Errors == {TimedOut, Untrusted, Refused, Reset}

NoRequest == [method |-> "none"]

\* An exchange: its phase, the request, the action that handles it, the status
\* and the content of the response, and the error it ended with.
Exchange(phase, request) ==
    [phase |-> phase, request |-> request, action |-> "none", status |-> 0,
     body |-> "none", error |-> "none"]
NoExchange == Exchange("none", NoRequest)

\* The contents of a response that somebody looks at: "vmid" when it has both the
\* members id and vmid, "id" when it has only the first, "other" for anything else.
Bodies == {"vmid", "id", "other"}

WireInit == wire = [c \in Clients |-> NoExchange]

\* The connection is up and the request is sent.
Post(c, request) == wire' = [wire EXCEPT ![c] = Exchange("posted", request)]

\* The server has a response, which is not written yet.
Respond(c, status, body) ==
    wire' = [wire EXCEPT ![c].phase = "replying", ![c].status = status, ![c].body = body]

\* The exchange ends with an error; the request may or may not have arrived.
Fail(c, error) == wire' = [wire EXCEPT ![c].phase = "failed", ![c].error = error]

\* The client is done with the exchange.
Hangup(c) == wire' = [wire EXCEPT ![c] = NoExchange]

InPhase(phases) == {c \in Clients : wire[c].phase \in phases}
=============================================================================
