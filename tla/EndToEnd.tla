-------------------------------- MODULE EndToEnd --------------------------------
(***************************************************************************)
(* An application with the native library and the test server of sestest,  *)
(* with other HTTP clients besides.  Connections to a host that does not   *)
(* listen are refused, connections to one that does may still time out;    *)
(* the server may be killed at any moment and started again.               *)
(***************************************************************************)
EXTENDS NativeClient, SestestServer

CONSTANTS
    Visitors,           \* the other clients
    VisitorRequests,    \* what they send
    MaxCrashes          \* how often the server is killed (a bound)

ASSUME VisitorsAssumption ==
    /\ Clients = Threads \cup Visitors /\ Threads \cap Visitors = {}
    /\ VisitorRequests \subseteq HttpRequest /\ MaxCrashes \in Nat

ASSUME TokensAssumption ==
    \A args \in GetCalls : args.token \in {"good", "noVmid", "refused", "missing"}

VARIABLES
    crashes,    \* how often the server was killed
    delivered,  \* history: the requests of the present call the server has read
    cut         \* history: the threads whose request was read and then cut off

vars == <<wire, clientVars, serverVars, crashes, delivered, cut>>

Init ==
    /\ WireInit /\ ClientInit /\ ServerInit
    /\ crashes = 0
    /\ delivered = [t \in Threads |-> 0]
    /\ cut = {}

\* Faulty variant: the token is taken apart but not verified.
VerdictUnverified(token) ==
    CASE token = "noVmid" -> [status |-> 200, body |-> "id"]
      [] token = "missing" -> [status |-> 400, body |-> "other"]
      [] OTHER -> [status |-> 200, body |-> "vmid"]

\* What the server makes of the token of a request (ApproveV1RequestHandler).
Verdict(token) ==
    CASE token = "good" -> [status |-> 200, body |-> "vmid"]
      [] token = "noVmid" -> [status |-> 200, body |-> "id"]
      [] token = "refused" -> [status |-> 403, body |-> "other"]
      [] token = "missing" -> [status |-> 400, body |-> "other"]

CallStep(t) ==
    /\ \E args \in GetCalls \cup AddCalls : Call(t, args)
    /\ delivered' = [delivered EXCEPT ![t] = 0]
    /\ cut' = cut \ {t}
    /\ UNCHANGED <<serverVars, crashes>>

ThreadStep(t) ==
    /\ Step(t)
    /\ wire'[t].phase = "posted" => host \in {"listening", "told"}
    /\ wire'[t].phase = "failed" /\ wire'[t].error = Refused => host \notin {"listening", "told"}
    /\ UNCHANGED <<serverVars, crashes, delivered, cut>>

VisitorStep(v) ==
    /\ Collect(v) \/ \E request \in VisitorRequests : Send(v, request)
    /\ UNCHANGED <<clientVars, crashes, delivered, cut>>

\* The server reads a request.
ReadRequest(c) ==
    /\ Dispatch(c)
    /\ delivered' = IF c \in Threads THEN [delivered EXCEPT ![c] = @ + 1] ELSE delivered
    /\ UNCHANGED <<clientVars, crashes, cut>>

\* The server handles a request, that of a thread according to its token.
Process(c) ==
    /\ \E status \in Statuses : HandleRequest(c, status)
    /\ c \in Threads =>
          LET verdict == Verdict(wire[c].request.token)
          IN  wire'[c].status = verdict.status /\ wire'[c].body = verdict.body
    /\ UNCHANGED <<clientVars, crashes, delivered, cut>>

HostStep(step) == step /\ UNCHANGED <<clientVars, crashes, delivered, cut>>

\* The process ends while it handles the requests of these threads, or before it
\* has written the responses.
CutOff == cut' = cut \cup (Threads \cap InPhase({"handling", "replying"}))

\* The host is stopped, when its shutdown timeout is over at the latest.
Shutdown == EndStop /\ CutOff /\ UNCHANGED <<clientVars, crashes, delivered>>

Hosting ==
    \/ HostStep(Start) \/ HostStep(Interrupt) \/ HostStep(BeginStop) \/ Shutdown
    \/ \E c \in Clients : HostStep(RefuseVersion(c)) \/ HostStep(Write(c))

\* The process is killed; somebody starts it again.
Crash ==
    /\ crashes < MaxCrashes /\ crashes' = crashes + 1
    /\ host' = "starting" /\ exitCode' = "none"
    /\ BreakExchanges /\ CutOff
    /\ handled' = {}
    /\ UNCHANGED <<clientVars, delivered>>

AllDone ==
    /\ \A t \in Threads : pc[t] = "idle" /\ made[t] = MaxCalls
    /\ UNCHANGED vars

Next ==
    \/ \E t \in Threads : CallStep(t) \/ ThreadStep(t)
    \/ \E v \in Visitors : VisitorStep(v)
    \/ \E c \in Clients : ReadRequest(c) \/ Process(c)
    \/ Hosting \/ Crash \/ AllDone

Spec == Init /\ [][Next]_vars

\* The threads of both processes are scheduled; nothing has to crash.
Fairness ==
    /\ WF_vars(HostStep(Start)) /\ WF_vars(HostStep(BeginStop)) /\ WF_vars(Shutdown)
    /\ \A t \in Threads : WF_vars(ThreadStep(t))
    /\ \A c \in Clients :
          /\ WF_vars(ReadRequest(c)) /\ WF_vars(Process(c))
          /\ WF_vars(HostStep(RefuseVersion(c))) /\ WF_vars(HostStep(Write(c)))

FairSpec == Spec /\ Fairness

-----------------------------------------------------------------------------
(* Properties.                                                             *)

\* A call has its token verified at most once: only attempts whose connection did
\* not come up are repeated, even when the server is killed in between.
DeliveredOnce == \A t \in Threads : delivered[t] <= 1

\* A server that ends after a request still tells the caller its verdict: a call
\* whose request it has read does not end with an error of the connection, unless
\* the process was killed, or its shutdown timeout was over, before the answer.
CallerLearnsVerdict ==
    \A t \in Threads :
        delivered[t] > 0 /\ t \notin cut => result[t].reason \notin Errors

\* A call returns an entitlement only when the server granted it: not without a
\* request that was read once and a token that is good.
EntitledByServer ==
    \A t \in Threads :
        result[t].kind = "entitlement" => delivered[t] = 1 /\ call[t].token = "good"

\* "throws an Exception providing details of entitlement validation failure"
\* (SoftwareEntitlementClient.h:51): whatever goes wrong, an Exception is thrown.
FailuresAreExceptions == \A t \in Threads : result[t].kind # "std::exception"
=============================================================================
