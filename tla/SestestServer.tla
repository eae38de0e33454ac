----------------------------- MODULE SestestServer ------------------------------
(***************************************************************************)
(* The process "sestest server": the web host that                         *)
(* SoftwareEntitlementServer.Run starts, the actions of                    *)
(* SoftwareEntitlementsController that route a request by its api-version, *)
(* and the end of the process after a request.  The entitlement operations *)
(* themselves are the subject of EntitlementServer: here only the response *)
(* a request ends with counts.                                             *)
(***************************************************************************)
EXTENDS Connections

CONSTANTS
    ExitAfterRequest,   \* the flag of the command line
    OperatorStops       \* whether somebody may press Ctrl-C

ASSUME FlagAssumption == ExitAfterRequest \in BOOLEAN /\ OperatorStops \in BOOLEAN

VARIABLES
    host,       \* the life of the web host
    exitCode,   \* what the process returned
    handled     \* history: whose requests HandleRequest of this process has handled

serverVars == <<host, exitCode, handled>>

-----------------------------------------------------------------------------
(* Routing.                                                                *)

\* ValidApiVersions in ordinal order; a version is known by its position.
ValidApiVersions ==
    <<"2017-05-01.5.0", "2017-06-01.5.1", "2017-09-01.6.0", "2018-03-01.6.1",
      "2018-08-01.7.0", "9999-09-09.99.99">>
June012017 == 2
Sept012017 == 3
August012018 == 5
Latest == 6

\* The api-version of a request: not there, not one of the valid ones, or valid.
Missing == 0
Invalid == -1
Versions == {Missing, Invalid} \cup DOMAIN ValidApiVersions
HttpRequest == [method : {"POST", "DELETE"}, path : {"collection", "item"}, version : Versions]

IsValid(version) == version \in DOMAIN ValidApiVersions

\* Faulty variant: the upper end is not part of the range.
InRangeExclusive(version, min, max) == IsValid(version) /\ min <= version /\ version < max

\* VersionRangeConstraint; an end that is not given is the end of the list.
InRange(version, min, max) == IsValid(version) /\ min <= version /\ version <= max

VersionErrors == {"MissingApiVersion", "InvalidApiVersion"}
HandlerActions == {"ApproveV1", "ApproveV2", "Acquire", "Renew", "Release"}

\* The actions whose route template, method and constraints accept a request.
Candidates(req) ==
    LET Matches(method, path) == req.method = method /\ req.path = path
    IN  {a \in VersionErrors \cup HandlerActions :
            CASE a = "MissingApiVersion" -> Matches("POST", "collection") /\ req.version = Missing
              [] a = "InvalidApiVersion" -> Matches("POST", "collection") /\ req.version = Invalid
              [] a = "ApproveV1" -> Matches("POST", "collection") /\ InRange(req.version, 1, June012017)
              [] a = "ApproveV2" -> Matches("POST", "collection")
                                    /\ InRange(req.version, Sept012017, August012018)
              [] a = "Acquire" -> Matches("POST", "collection") /\ InRange(req.version, Latest, Latest)
              [] a = "Renew" -> Matches("POST", "item") /\ InRange(req.version, Latest, Latest)
              [] a = "Release" -> Matches("DELETE", "item") /\ InRange(req.version, Latest, Latest)}

Statuses == {200, 204, 400, 403, 404, 409, 500}

\* The responses an action can end with; 500 stands for an exception, too.
Responses(a) ==
    CASE a \in VersionErrors -> {400}
      [] a \in {"ApproveV1", "ApproveV2"} -> {200, 400, 403}
      [] a = "Acquire" -> {200, 400, 403, 500}
      [] a = "Renew" -> {200, 400, 404, 409, 500}
      [] a = "Release" -> {204, 404, 500}

\* ApproveV1 answers with the vmid of the token, when the token has one; the
\* later versions never send a vmid, and a renewal has no id.
Contents(a, status) ==
    CASE status = 200 /\ a = "ApproveV1" -> {"vmid", "id"}
      [] status = 200 /\ a \in {"ApproveV2", "Acquire"} -> {"id"}
      [] OTHER -> {"other"}

-----------------------------------------------------------------------------
ServerInit ==
    /\ host = "starting"
    /\ exitCode = "none"
    /\ handled = {}

\* The host listens, or Kestrel cannot and Run ends with an exception that
\* RunCommand turns into an exit code.
Start ==
    /\ host = "starting"
    /\ \/ host' = "listening" /\ UNCHANGED exitCode
       \/ host' = "stopped" /\ exitCode' = "InternalError"
    /\ UNCHANGED <<wire, handled>>

\* MVC selects the action of a request.  The one request of a connection that
\* is closing may still be read.  None accepts it: 404, from the framework.
Dispatch(c) ==
    /\ wire[c].phase = "posted"
    /\ host \in {"listening", "told", "stopping"}
    /\ IF Candidates(wire[c].request) = {}
       THEN Respond(c, 404, "other")
       ELSE \E a \in Candidates(wire[c].request) :
               wire' = [wire EXCEPT ![c].phase = "handling", ![c].action = a]
    /\ UNCHANGED serverVars

\* HandleApiVersionError.
RefuseVersion(c) ==
    /\ wire[c].phase = "handling" /\ wire[c].action \in VersionErrors
    /\ Respond(c, 400, "other")
    /\ UNCHANGED serverVars

\* Faulty variant: the host is stopped by a request that is handled, not by one
\* that ends with an exception (no finally).
HandleRequestNoFinally(c, status) ==
    /\ wire[c].phase = "handling" /\ wire[c].action \in HandlerActions
    /\ status \in Responses(wire[c].action)
    /\ \E body \in Contents(wire[c].action, status) : Respond(c, status, body)
    /\ handled' = handled \cup {c}
    /\ host' = IF ExitAfterRequest /\ host = "listening" /\ status # 500 THEN "told" ELSE host
    /\ UNCHANGED exitCode

\* Faulty variant: the finally clause ends the process itself (Environment.Exit)
\* and does not tell the host to stop.
HandleRequestExits(c, status) ==
    /\ wire[c].phase = "handling" /\ wire[c].action \in HandlerActions
    /\ status \in Responses(wire[c].action)
    /\ \E body \in Contents(wire[c].action, status) :
          IF ExitAfterRequest
          THEN /\ host' = "stopped" /\ exitCode' = "Success"
               /\ wire' = [wire EXCEPT ![c].phase = "failed", ![c].status = status,
                                      ![c].body = body, ![c].error = Reset]
          ELSE Respond(c, status, body) /\ UNCHANGED <<host, exitCode>>
    /\ handled' = handled \cup {c}

\* HandleRequest: the handler runs and, whatever it ends with, the host is told
\* to stop before the response is written.
HandleRequest(c, status) ==
    /\ wire[c].phase = "handling" /\ wire[c].action \in HandlerActions
    /\ status \in Responses(wire[c].action)
    /\ \E body \in Contents(wire[c].action, status) : Respond(c, status, body)
    /\ handled' = handled \cup {c}
    /\ host' = IF ExitAfterRequest /\ host = "listening" THEN "told" ELSE host
    /\ UNCHANGED exitCode

\* The response is written.
Write(c) ==
    /\ wire[c].phase = "replying"
    /\ wire' = [wire EXCEPT ![c].phase = "answered"]
    /\ UNCHANGED serverVars

\* Ctrl-C.
Interrupt ==
    /\ OperatorStops /\ host = "listening"
    /\ host' = "told"
    /\ UNCHANGED <<wire, exitCode, handled>>

\* The host notices that it was told to stop and closes its listeners.
BeginStop ==
    /\ host = "told"
    /\ host' = "stopping"
    /\ UNCHANGED <<wire, exitCode, handled>>

\* Every exchange that is not over is broken.
BreakExchanges ==
    wire' = [c \in Clients |->
               IF c \in InPhase({"posted", "handling", "replying"})
               THEN [wire[c] EXCEPT !.phase = "failed", !.error = Reset] ELSE wire[c]]

\* The host ends: connections whose request has not been read are closed, and so
\* is one whose action still runs or whose response is not written when the
\* shutdown timeout is over, how long ever that is.
EndStop ==
    /\ host = "stopping"
    /\ host' = "stopped" /\ exitCode' = "Success"
    /\ BreakExchanges
    /\ UNCHANGED handled

ServerNext ==
    \/ Start \/ Interrupt \/ BeginStop \/ EndStop
    \/ \E c \in Clients :
          \/ Dispatch(c) \/ RefuseVersion(c) \/ Write(c)
          \/ \E status \in Statuses : HandleRequest(c, status)

\* The host and the threads that run the actions are scheduled.
ServerFairness ==
    /\ WF_<<wire, serverVars>>(Start) /\ WF_<<wire, serverVars>>(BeginStop)
    /\ WF_<<wire, serverVars>>(EndStop)
    /\ \A c \in Clients :
          /\ WF_<<wire, serverVars>>(Dispatch(c)) /\ WF_<<wire, serverVars>>(Write(c))
          /\ WF_<<wire, serverVars>>(RefuseVersion(c))
          /\ WF_<<wire, serverVars>>(\E status \in Statuses : HandleRequest(c, status))

-----------------------------------------------------------------------------
(* The server alone: every client sends any requests, one after another.   *)

\* A client connects while the host listens and posts a request.
Send(c, request) ==
    /\ wire[c].phase = "none" /\ host \in {"listening", "told"}
    /\ Post(c, request)
    /\ UNCHANGED serverVars

\* A client has seen how its exchange ended.
Collect(c) ==
    /\ wire[c].phase \in {"answered", "failed"}
    /\ Hangup(c)
    /\ UNCHANGED serverVars

Idle == host = "stopped" /\ InPhase({"none"}) = Clients /\ UNCHANGED <<wire, serverVars>>

ServerWithAnyClients ==
    \/ ServerNext
    \/ \E c \in Clients : Collect(c) \/ \E request \in HttpRequest : Send(c, request)
    \/ Idle

ServerStart == WireInit /\ ServerInit

ServerSpec == ServerStart /\ [][ServerWithAnyClients]_<<wire, serverVars>>
FairServerSpec == ServerSpec /\ ServerFairness

-----------------------------------------------------------------------------
(* Properties.                                                             *)

\* The types of the variables; what an exchange carries depends on its phase.
ServerTypeOK ==
    /\ host \in {"starting", "listening", "told", "stopping", "stopped"}
    /\ exitCode \in {"none", "Success", "InternalError"}
    /\ exitCode = "none" <=> host # "stopped"
    /\ handled \subseteq Clients
    /\ \A c \in Clients :
          /\ wire[c].phase \in Phases
          /\ wire[c].phase = "handling" => wire[c].action \in VersionErrors \cup HandlerActions
          /\ wire[c].phase \in {"replying", "answered"} =>
                wire[c].status \in Statuses /\ wire[c].body \in Bodies
          /\ wire[c].phase = "failed" => wire[c].error \in Errors

\* Every POST to /softwareEntitlements is answered by the controller, whatever
\* its api-version is, and no request is claimed by two actions (MVC throws an
\* AmbiguousActionException then).
EveryRequestRouted ==
    \A c \in Clients :
        wire[c].phase # "none" =>
            LET req == wire[c].request
            IN  /\ Cardinality(Candidates(req)) <= 1
                /\ req.method = "POST" /\ req.path = "collection" => Candidates(req) # {}

\* With --exit-after-request the process ends once a request was handled, also
\* when its handler threw, and it ends with exit code 0.  (A process that is killed
\* is followed by one that has not handled anything.)
ExitsAfterHandledRequest ==
    (ExitAfterRequest /\ handled # {}) ~>
        (handled = {} \/ (host = "stopped" /\ exitCode = "Success"))

\* "Server will automatically exit after processing one request"
\* (ServerCommandLine.cs:36): no second request is handled.
OneRequestOnly == ExitAfterRequest => Cardinality(handled) <= 1
=============================================================================
