----------------------------- MODULE EndToEndProofs -----------------------------
(***************************************************************************)
(* Proofs about EndToEnd: what a caller of the library learns from the     *)
(* server, for any number of threads and other clients, any calls, and any *)
(* number of crashes at any moment.                                        *)
(***************************************************************************)
EXTENDS EndToEnd, TLAPS

TokenKinds == {"good", "noVmid", "refused", "missing"}

ThreadRequest ==
    [method : {"POST"}, version : {1}, token : TokenKinds, path : {"collection", "unknown"}]

ExchangeType ==
    [phase : Phases, request : {NoRequest} \cup HttpRequest \cup ThreadRequest,
     action : VersionErrors \cup HandlerActions \cup {"none"}, status : Int,
     body : Bodies \cup {"none"}, error : Errors \cup {"none"}]

\* The steps of a call before its last request can have been sent.
NotSent == {"blocked", "get", "add", "connect", "sleep", "roots"}

Types ==
    /\ wire \in [Clients -> ExchangeType]
    /\ pc \in [Threads -> {"idle", "transfer"} \cup NotSent]
    /\ call \in [Threads -> GetCalls \cup AddCalls \cup {NoCall}]
    /\ DOMAIN result = Threads
    /\ delivered \in [Threads -> {0, 1}]

\* Only a call that transfers has an exchange, and that one carries its token.
ExchangeOfCall(t) ==
    /\ pc[t] \in {"blocked"} => call[t] \in GetCalls \cup AddCalls
    /\ pc[t] \in InGet => call[t] \in GetCalls
    /\ pc[t] = "transfer" <=> wire[t].phase # "none"
    /\ wire[t].phase \in {"posted", "handling"} =>
          /\ wire[t].request \in ThreadRequest
          /\ wire[t].request.token = call[t].token
    /\ wire[t].phase \in {"replying", "answered"} /\ wire[t].body = "vmid" =>
          call[t].token = "good"

\* The server has read the request of an exchange once it handles it; errors but
\* Reset come before that, and Reset after it means that it was cut off.
ReadOnce(t) ==
    /\ pc[t] \in NotSent \/ wire[t].phase = "posted" => delivered[t] = 0
    /\ wire[t].phase \in {"handling", "replying", "answered"} => delivered[t] = 1
    /\ wire[t].phase = "failed" =>
          /\ wire[t].error \in Errors
          /\ wire[t].error # Reset => delivered[t] = 0
          /\ delivered[t] = 1 => t \in cut

OutcomeOK(t) ==
    /\ pc[t] # "idle" => result[t] = Result("none", "none")
    /\ result[t].kind = "entitlement" => delivered[t] = 1 /\ call[t].token = "good"
    /\ delivered[t] = 1 /\ t \notin cut => result[t].reason \notin Errors

ThreadInv(t) == ExchangeOfCall(t) /\ ReadOnce(t) /\ OutcomeOK(t)
Inv == Types /\ \A t \in Threads : ThreadInv(t)

-----------------------------------------------------------------------------
(* Exchanges.                                                              *)

LEMMA CandidateActions == \A req : Candidates(req) \subseteq VersionErrors \cup HandlerActions
  BY DEF Candidates

LEMMA ContentTypes ==
    ASSUME NEW a, NEW status
    PROVE  Contents(a, status) \subseteq Bodies
  BY DEF Contents, Bodies

LEMMA ExchangeChanges ==
    ASSUME NEW e \in ExchangeType, NEW status \in Int, NEW body \in Bodies,
           NEW action \in VersionErrors \cup HandlerActions, NEW error \in Errors
    PROVE  /\ [e EXCEPT !.phase = "replying", !.status = status, !.body = body] \in ExchangeType
           /\ [e EXCEPT !.phase = "handling", !.action = action] \in ExchangeType
           /\ [e EXCEPT !.phase = "answered"] \in ExchangeType
           /\ [e EXCEPT !.phase = "failed", !.error = error] \in ExchangeType
  <1>1. {"replying", "handling", "answered", "failed"} \subseteq Phases
    BY DEF Phases
  <1>2. [e EXCEPT !.phase = "replying", !.status = status, !.body = body] \in ExchangeType
    BY <1>1 DEF ExchangeType
  <1>3. [e EXCEPT !.phase = "handling", !.action = action] \in ExchangeType
    BY <1>1 DEF ExchangeType
  <1>4. [e EXCEPT !.phase = "answered"] \in ExchangeType
    BY <1>1 DEF ExchangeType
  <1>5. [e EXCEPT !.phase = "failed", !.error = error] \in ExchangeType
    BY <1>1 DEF ExchangeType
  <1> QED
    BY <1>2, <1>3, <1>4, <1>5

\* The fields that change, and those that do not.
LEMMA ExchangeFields ==
    ASSUME NEW e \in ExchangeType, NEW status, NEW body, NEW action, NEW error
    PROVE  /\ LET f == [e EXCEPT !.phase = "replying", !.status = status, !.body = body]
              IN f.phase = "replying" /\ f.body = body /\ f.status = status
           /\ LET f == [e EXCEPT !.phase = "handling", !.action = action]
              IN f.phase = "handling" /\ f.request = e.request
           /\ LET f == [e EXCEPT !.phase = "answered"]
              IN f.phase = "answered" /\ f.body = e.body
           /\ LET f == [e EXCEPT !.phase = "failed", !.error = error]
              IN f.phase = "failed" /\ f.error = error
  BY DEF ExchangeType

LEMMA NewExchanges ==
    /\ NoExchange \in ExchangeType /\ NoExchange.phase = "none"
    /\ \A req \in HttpRequest \cup ThreadRequest :
          Exchange("posted", req) \in ExchangeType
    /\ \A req : Exchange("posted", req).phase = "posted" /\ Exchange("posted", req).request = req
  BY DEF NoExchange, Exchange, ExchangeType, Phases

\* A thread and its exchange stay as they are while others move.
LEMMA Untouched ==
    ASSUME NEW u \in Threads, ThreadInv(u), u \in cut => u \in cut',
           wire'[u] = wire[u], pc'[u] = pc[u], call'[u] = call[u], result'[u] = result[u],
           delivered'[u] = delivered[u]
    PROVE  ThreadInv(u)'
  BY DEF ThreadInv, ExchangeOfCall, ReadOnce, OutcomeOK

LEMMA WireStep ==
    ASSUME Types, NEW c \in Clients, NEW e \in ExchangeType, wire' = [wire EXCEPT ![c] = e]
    PROVE  /\ wire' \in [Clients -> ExchangeType]
           /\ wire'[c] = e
           /\ \A d \in Clients \ {c} : wire'[d] = wire[d]
  BY DEF Types

\* What is left to show of a step of one thread.
LEMMA OneThreadMoves ==
    ASSUME Inv, NEW t \in Threads, Types', ThreadInv(t)',
           \A u \in Threads \ {t} :
              /\ u \in cut => u \in cut'
              /\ wire'[u] = wire[u] /\ pc'[u] = pc[u] /\ call'[u] = call[u]
              /\ result'[u] = result[u] /\ delivered'[u] = delivered[u]
    PROVE  Inv'
  BY Untouched DEF Inv, Types

-----------------------------------------------------------------------------
(* The steps of the library.                                               *)

LEMMA InvInit == Init => Inv
  <1> SUFFICES ASSUME Init
               PROVE  Inv
    OBVIOUS
  <1> USE DEF Init, WireInit, ClientInit
  <1>1. Types
    BY NewExchanges DEF Types
  <1>2. \A t \in Threads : wire[t] = NoExchange
    BY ThreadsAssumption
  <1>3. ASSUME NEW t \in Threads
        PROVE  ThreadInv(t)
    BY <1>2, <1>3, NewExchanges
       DEF ThreadInv, ExchangeOfCall, ReadOnce, OutcomeOK, InGet, Result
  <1> QED
    BY <1>1, <1>3 DEF Inv

LEMMA CallKeeps ==
    ASSUME Inv, NEW t \in Threads, CallStep(t)
    PROVE  Inv'
  <1>1. PICK args \in GetCalls \cup AddCalls : Call(t, args)
    BY DEF CallStep
  <1> USE DEF CallStep, Call, Go, Types
  <1>2. Types'
    BY <1>1 DEF Inv, NotSent, serverVars
  <1>3. ThreadInv(t)'
    BY <1>1 DEF Inv, ThreadInv, ExchangeOfCall, ReadOnce, OutcomeOK, InGet, NotSent, Result
  <1> QED
    BY <1>1, <1>2, <1>3, OneThreadMoves DEF Inv

\* A step of a call without an exchange: it goes on, or ends without an entitlement.
LEMMA SilentStep ==
    ASSUME Inv, NEW t \in Threads, pc[t] \in NotSent,
           UNCHANGED <<wire, call, delivered, cut>>,
           \/ /\ UNCHANGED result
              /\ \E step \in NotSent \ {"blocked"} :
                    Go(t, step) /\ (step \in InGet => call[t] \in GetCalls)
           \/ \E kind, reason : kind # "entitlement" /\ Return(t, kind, reason)
    PROVE  Inv'
  <1>1. Types'
    BY DEF Inv, Types, Go, Return, NotSent
  <1>2. wire[t].phase = "none" /\ delivered[t] = 0
    BY DEF Inv, Types, ThreadInv, ExchangeOfCall, ReadOnce, NotSent, ExchangeType
  <1>3. CASE /\ UNCHANGED result
             /\ \E step \in NotSent \ {"blocked"} :
                   Go(t, step) /\ (step \in InGet => call[t] \in GetCalls)
    <2>1. PICK step \in NotSent \ {"blocked"} :
             Go(t, step) /\ (step \in InGet => call[t] \in GetCalls)
      BY <1>3
    <2>2. ThreadInv(t)'
      BY <1>2, <1>3, <2>1
         DEF Inv, Types, Go, ThreadInv, ExchangeOfCall, ReadOnce, OutcomeOK, NotSent
    <2> QED
      BY <1>1, <1>3, <2>1, <2>2, OneThreadMoves DEF Go, Inv, Types
  <1>4. CASE \E kind, reason : kind # "entitlement" /\ Return(t, kind, reason)
    <2>1. PICK kind, reason : kind # "entitlement" /\ Return(t, kind, reason)
      BY <1>4
    <2>2. ThreadInv(t)'
      BY <1>2, <2>1
         DEF Inv, Types, Return, Go, Result, ThreadInv, ExchangeOfCall, ReadOnce, OutcomeOK, NotSent, InGet
    <2> QED
      BY <1>1, <2>1, <2>2, OneThreadMoves DEF Return, Go, Inv, Types
  <1> QED
    BY <1>3, <1>4

LEMMA RequestType ==
    ASSUME NEW args \in GetCalls
    PROVE  /\ RequestTo(args.url, args.token) \in ThreadRequest
           /\ RequestTo(args.url, args.token).token = args.token
  BY TokensAssumption DEF RequestTo, ThreadRequest, TokenKinds

\* Connect sends the request, or fails before the server can have read it.
LEMMA ConnectKeeps ==
    ASSUME Inv, NEW t \in Threads, Connect(t), UNCHANGED <<delivered, cut>>
    PROVE  Inv'
  <1>1. /\ pc[t] = "connect" /\ call[t] \in GetCalls /\ delivered[t] = 0
        /\ wire[t] \in ExchangeType /\ t \in Clients
    BY ThreadsAssumption DEF Connect, Inv, Types, ThreadInv, ExchangeOfCall, ReadOnce, InGet, NotSent
  <1>2. PICK e \in ExchangeType :
           /\ wire' = [wire EXCEPT ![t] = e]
           /\ \/ /\ e.phase = "posted" /\ e.request \in ThreadRequest
                 /\ e.request.token = call[t].token
              \/ e.phase = "failed" /\ e.error \in Errors \ {Reset}
    <2>1. CASE Post(t, RequestTo(call[t].url, call[t].token))
      <3> DEFINE req == RequestTo(call[t].url, call[t].token)
                 e == Exchange("posted", req)
      <3>1. req \in ThreadRequest /\ req.token = call[t].token
        BY <1>1, RequestType
      <3>2. wire' = [wire EXCEPT ![t] = e]
        BY <2>1 DEF Post
      <3> HIDE DEF req
      <3>3. e \in ExchangeType /\ e.phase = "posted" /\ e.request = req
        BY <3>1, NewExchanges
      <3> QED
        BY <3>1, <3>2, <3>3
    <2>2. ASSUME NEW error \in {TimedOut, Untrusted, Refused}, Fail(t, error)
          PROVE  \E e \in ExchangeType :
                    wire' = [wire EXCEPT ![t] = e] /\ e.phase = "failed" /\ e.error \in Errors \ {Reset}
      <3> DEFINE e == [wire[t] EXCEPT !.phase = "failed", !.error = error]
      <3>1. error \in Errors \ {Reset}
        BY DEF Errors, TimedOut, Untrusted, Refused, Reset
      <3>2. wire' = [wire EXCEPT ![t] = e]
        BY <2>2, Zenon DEF Fail
      <3>3. e \in ExchangeType /\ e.phase = "failed" /\ e.error = error
        <4>1. 0 \in Int /\ Bodies # {} /\ VersionErrors # {}
          BY DEF Bodies, VersionErrors
        <4>2. e \in ExchangeType
          BY <1>1, <3>1, <4>1, ExchangeChanges
        <4>3. e.phase = "failed" /\ e.error = error
          BY <1>1, ExchangeFields
        <4> QED
          BY <4>2, <4>3
      <3> QED
        BY <3>1, <3>2, <3>3
    <2> QED
      BY <2>1, <2>2 DEF Connect
  <1>3. /\ wire' \in [Clients -> ExchangeType] /\ wire'[t] = e
        /\ \A d \in Clients \ {t} : wire'[d] = wire[d]
    BY <1>1, <1>2, WireStep DEF Inv
  <1>4. Types'
    BY <1>3 DEF Inv, Types, Connect, Go
  <1>5. ThreadInv(t)'
    BY <1>1, <1>2, <1>3
       DEF Inv, Types, Connect, Go, ThreadInv, ExchangeOfCall, ReadOnce, OutcomeOK, InGet, NotSent
  <1> QED
    BY <1>3, <1>4, <1>5, OneThreadMoves, ThreadsAssumption DEF Connect, Go, Inv, Types

LEMMA HangupFacts ==
    ASSUME Types, NEW t \in Threads, Hangup(t)
    PROVE  /\ wire' \in [Clients -> ExchangeType] /\ wire'[t].phase = "none"
           /\ \A d \in Clients \ {t} : wire'[d] = wire[d]
  BY NewExchanges, WireStep, ThreadsAssumption DEF Hangup

\* An exchange that failed is repeated only if the server has not read it.
LEMMA FailedKeeps ==
    ASSUME Inv, NEW t \in Threads, TransferFailed(t), UNCHANGED <<delivered, cut>>
    PROVE  Inv'
  <1>1. /\ pc[t] = "transfer" /\ wire[t].phase = "failed" /\ call[t] \in GetCalls
        /\ wire[t].error # Reset => delivered[t] = 0
        /\ delivered[t] = 1 => t \in cut
    BY DEF TransferFailed, Inv, ThreadInv, ExchangeOfCall, ReadOnce, InGet
  <1>2. /\ wire' \in [Clients -> ExchangeType] /\ wire'[t].phase = "none"
        /\ \A d \in Clients \ {t} : wire'[d] = wire[d]
    BY HangupFacts DEF TransferFailed, Inv
  <1>3. \/ /\ \E step \in {"roots", "sleep"} : Go(t, step)
           /\ UNCHANGED result /\ delivered[t] = 0
        \/ Return(t, "Exception", wire[t].error)
    BY <1>1 DEF TransferFailed, WorthRetrying, TimedOut, Untrusted, Reset
  <1>4. Types'
    BY <1>2, <1>3 DEF Inv, Types, TransferFailed, Go, Return, NotSent
  <1>5. ThreadInv(t)'
    BY <1>1, <1>2, <1>3
       DEF Inv, Types, TransferFailed, Go, Return, Result, ThreadInv, ExchangeOfCall, ReadOnce,
           OutcomeOK, InGet, NotSent
  <1>6. \A u \in Threads \ {t} : pc'[u] = pc[u] /\ result'[u] = result[u]
    BY <1>3 DEF Go, Return, Inv, Types
  <1> QED
    BY <1>2, <1>4, <1>5, <1>6, OneThreadMoves, ThreadsAssumption DEF TransferFailed

\* An entitlement is returned for a response that has a vmid.
LEMMA DoneKeeps ==
    ASSUME Inv, NEW t \in Threads, TransferDone(t), UNCHANGED <<delivered, cut>>
    PROVE  Inv'
  <1>1. /\ pc[t] = "transfer" /\ delivered[t] = 1
        /\ wire[t].body = "vmid" => call[t].token = "good"
    BY DEF TransferDone, Inv, ThreadInv, ExchangeOfCall, ReadOnce
  <1>2. /\ wire' \in [Clients -> ExchangeType] /\ wire'[t].phase = "none"
        /\ \A d \in Clients \ {t} : wire'[d] = wire[d]
    BY HangupFacts DEF TransferDone, Inv
  <1>3. \E kind, reason :
           /\ Return(t, kind, reason)
           /\ reason \in {"chain", "status", "json", "none"}
           /\ kind = "entitlement" => wire[t].body = "vmid"
    BY DEF TransferDone
  <1>4. Types'
    BY <1>2, <1>3 DEF Inv, Types, TransferDone, Go, Return
  <1>5. ThreadInv(t)'
    BY <1>1, <1>2, <1>3
       DEF Inv, Types, TransferDone, Go, Return, Result, ThreadInv, ExchangeOfCall, ReadOnce,
           OutcomeOK, InGet, NotSent, Errors, TimedOut, Untrusted, Refused, Reset
  <1>6. \A u \in Threads \ {t} : pc'[u] = pc[u] /\ result'[u] = result[u]
    BY <1>3 DEF Go, Return, Inv, Types
  <1> QED
    BY <1>2, <1>4, <1>5, <1>6, OneThreadMoves, ThreadsAssumption DEF TransferDone

LEMMA ThreadKeeps ==
    ASSUME Inv, NEW t \in Threads, ThreadStep(t)
    PROVE  Inv'
  <1>1. UNCHANGED <<delivered, cut>> /\ Step(t)
    BY DEF ThreadStep
  <1>2. CASE Lock(t)
    <2>1. call[t] \in GetCalls \cup AddCalls
      BY <1>2 DEF Lock, Inv, ThreadInv, ExchangeOfCall
    <2>2. \E step \in {"get", "add"} : Go(t, step) /\ (step = "get" => call[t] \in GetCalls)
      BY <1>2, <2>1, CallsAssumption DEF Lock
    <2> QED
      BY <1>1, <1>2, <2>2, SilentStep DEF Lock, NotSent, InGet
  <1>3. CASE AddSslCertificate(t)
    BY <1>1, <1>3, SilentStep DEF AddSslCertificate, NotSent
  <1>4. CASE CheckUrl(t)
    <2>1. call[t] \in GetCalls
      BY <1>4 DEF CheckUrl, Inv, ThreadInv, ExchangeOfCall, InGet
    <2> QED
      BY <1>1, <1>4, <2>1, SilentStep DEF CheckUrl, NotSent
  <1>5. CASE Connect(t)
    BY <1>1, <1>5, ConnectKeeps
  <1>6. CASE TransferFailed(t)
    BY <1>1, <1>6, FailedKeeps
  <1>7. CASE Sleep(t)
    <2>1. call[t] \in GetCalls
      BY <1>7 DEF Sleep, Inv, ThreadInv, ExchangeOfCall, InGet
    <2> QED
      BY <1>1, <1>7, <2>1, SilentStep DEF Sleep, NextRound, NotSent
  <1>8. CASE PopulateRoots(t)
    <2>1. call[t] \in GetCalls
      BY <1>8 DEF PopulateRoots, Inv, ThreadInv, ExchangeOfCall, InGet
    <2> QED
      BY <1>1, <1>8, <2>1, SilentStep DEF PopulateRoots, NextRound, NotSent
  <1>9. CASE TransferDone(t)
    BY <1>1, <1>9, DoneKeeps
  <1> QED
    BY <1>1, <1>2, <1>3, <1>4, <1>5, <1>6, <1>7, <1>8, <1>9 DEF Step

-----------------------------------------------------------------------------
(* The steps of the server and of the other clients.                       *)

\* What is left to show of a step that changes one exchange.
LEMMA OneExchangeMoves ==
    ASSUME Inv, NEW c \in Clients, NEW e \in ExchangeType, wire' = [wire EXCEPT ![c] = e],
           UNCHANGED <<clientVars, cut>>,
           \/ delivered' = delivered
           \/ c \in Threads /\ delivered' = [delivered EXCEPT ![c] = 1],
           c \in Threads => ThreadInv(c)'
    PROVE  Inv'
  <1>1. /\ wire' \in [Clients -> ExchangeType]
        /\ \A d \in Clients \ {c} : wire'[d] = wire[d]
    BY WireStep DEF Inv
  <1>2. Types'
    BY <1>1 DEF Inv, Types, clientVars
  <1>3. ASSUME NEW u \in Threads, u # c
        PROVE  ThreadInv(u)'
    BY <1>1, <1>3, Untouched, ThreadsAssumption DEF Inv, Types, clientVars
  <1> QED
    BY <1>2, <1>3 DEF Inv

LEMMA RespondFacts ==
    ASSUME Types, NEW c \in Clients, NEW status \in Int, NEW body \in Bodies,
           Respond(c, status, body)
    PROVE  \E e \in ExchangeType :
              wire' = [wire EXCEPT ![c] = e] /\ e.phase = "replying" /\ e.body = body
  <1> DEFINE e == [wire[c] EXCEPT !.phase = "replying", !.status = status, !.body = body]
  <1>1. wire' = [wire EXCEPT ![c] = e]
    BY Zenon DEF Respond
  <1>2. wire[c] \in ExchangeType /\ VersionErrors # {} /\ Errors # {}
    BY DEF Types, VersionErrors, Errors
  <1>3. e \in ExchangeType
    BY <1>2, ExchangeChanges
  <1>4. e.phase = "replying" /\ e.body = body
    BY <1>2, ExchangeFields
  <1> QED
    BY <1>1, <1>3, <1>4

LEMMA VisitorKeeps ==
    ASSUME Inv, NEW v \in Visitors, VisitorStep(v)
    PROVE  Inv'
  <1>1. v \in Clients /\ v \notin Threads
    BY VisitorsAssumption
  <1>2. \E e \in ExchangeType : wire' = [wire EXCEPT ![v] = e]
    <2>1. CASE Collect(v)
      BY <2>1, NewExchanges DEF Collect, Hangup
    <2>2. CASE \E request \in VisitorRequests : Send(v, request)
      BY <2>2, NewExchanges, VisitorsAssumption DEF Send, Post
    <2> QED
      BY <2>1, <2>2 DEF VisitorStep
  <1> QED
    BY <1>1, <1>2, OneExchangeMoves DEF VisitorStep

\* The server reads a request once: after that it is not "posted" any more.
LEMMA ReadKeeps ==
    ASSUME Inv, NEW c \in Clients, ReadRequest(c)
    PROVE  Inv'
  <1> USE DEF Inv
  <1>1. wire[c].phase = "posted" /\ wire[c] \in ExchangeType
    BY DEF ReadRequest, Dispatch, Types
  <1>2. PICK e \in ExchangeType :
           /\ wire' = [wire EXCEPT ![c] = e]
           /\ \/ e.phase = "replying" /\ e.body = "other"
              \/ e.phase = "handling" /\ e.request = wire[c].request
    <2>1. CASE Respond(c, 404, "other")
      BY <2>1, RespondFacts DEF Bodies
    <2>2. ASSUME NEW a \in Candidates(wire[c].request),
                 wire' = [wire EXCEPT ![c].phase = "handling", ![c].action = a]
          PROVE  \E e \in ExchangeType :
                    wire' = [wire EXCEPT ![c] = e] /\ e.phase = "handling"
                    /\ e.request = wire[c].request
      <3> DEFINE e == [wire[c] EXCEPT !.phase = "handling", !.action = a]
      <3>1. wire' = [wire EXCEPT ![c] = e]
        BY <2>2, Zenon
      <3>2. a \in VersionErrors \cup HandlerActions /\ Bodies # {} /\ Errors # {} /\ 0 \in Int
        BY CandidateActions DEF Bodies, Errors
      <3>3. e \in ExchangeType
        BY <1>1, <3>2, ExchangeChanges
      <3>4. e.phase = "handling" /\ e.request = wire[c].request
        BY <1>1, ExchangeFields
      <3> QED
        BY <3>1, <3>3, <3>4
    <2> QED
      BY <2>1, <2>2 DEF ReadRequest, Dispatch
  <1>3. ASSUME c \in Threads
        PROVE  delivered' = [delivered EXCEPT ![c] = 1] /\ ThreadInv(c)'
    <2>1. delivered[c] = 0
      BY <1>1, <1>3 DEF ThreadInv, ReadOnce
    <2>2. delivered' = [delivered EXCEPT ![c] = 1]
      BY <1>3, <2>1 DEF ReadRequest
    <2>3. wire'[c] = e
      BY <1>2, WireStep
    <2>4. /\ UNCHANGED <<pc, call, result, cut>>
          /\ pc[c] = "transfer" /\ delivered'[c] = 1
      BY <1>1, <1>3, <2>2 DEF ReadRequest, clientVars, Types, ThreadInv, ExchangeOfCall
    <2>5. ExchangeOfCall(c)'
      BY <1>1, <1>2, <1>3, <2>3, <2>4 DEF ThreadInv, ExchangeOfCall
    <2>6. ReadOnce(c)'
      BY <1>2, <2>3, <2>4 DEF ReadOnce, NotSent
    <2>7. OutcomeOK(c)'
      <3>1. result[c] = Result("none", "none")
        BY <1>3, <2>4 DEF ThreadInv, OutcomeOK
      <3> QED
        BY <2>4, <3>1 DEF OutcomeOK, Result, Errors, TimedOut, Untrusted, Refused, Reset
    <2>8. ThreadInv(c)'
      BY <2>5, <2>6, <2>7 DEF ThreadInv
    <2> QED
      BY <2>2, <2>8
  <1> QED
    BY <1>2, <1>3, OneExchangeMoves DEF ReadRequest

\* A response in place of a request that is handled.
LEMMA AnswerKeeps ==
    ASSUME Inv, NEW c \in Clients, NEW status \in Int, NEW body \in Bodies,
           Respond(c, status, body), wire[c].phase = "handling",
           c \in Threads /\ body = "vmid" => wire[c].request.token = "good",
           UNCHANGED <<clientVars, delivered, cut>>
    PROVE  Inv'
  <1>1. PICK e \in ExchangeType :
           wire' = [wire EXCEPT ![c] = e] /\ e.phase = "replying" /\ e.body = body
    BY RespondFacts DEF Inv
  <1>2. wire'[c] = e
    BY <1>1, WireStep DEF Inv
  <1>3. ASSUME c \in Threads
        PROVE  ThreadInv(c)'
    BY <1>1, <1>2, <1>3
       DEF Inv, clientVars, Types, ThreadInv, ExchangeOfCall, ReadOnce, OutcomeOK, NotSent, InGet
  <1> QED
    BY <1>1, <1>3, OneExchangeMoves

\* Only a good token is answered with a vmid.
LEMMA ProcessKeeps ==
    ASSUME Inv, NEW c \in Clients, Process(c)
    PROVE  Inv'
  <1>1. PICK status \in Statuses : HandleRequest(c, status)
    BY DEF Process
  <1>2. PICK body \in Contents(wire[c].action, status) : Respond(c, status, body)
    BY <1>1 DEF HandleRequest
  <1>3. status \in Int /\ body \in Bodies /\ wire[c].phase = "handling"
    BY <1>1, ContentTypes DEF HandleRequest, Statuses
  <1>4. ASSUME c \in Threads, body = "vmid"
        PROVE  wire[c].request.token = "good"
    <2>1. wire[c].request.token \in TokenKinds
      BY <1>3, <1>4 DEF Inv, ThreadInv, ExchangeOfCall, ThreadRequest
    <2>2. wire'[c].body = body
      BY <1>2, <1>3, RespondFacts, WireStep DEF Inv
    <2>3. Verdict(wire[c].request.token).body = "vmid"
      BY <1>4, <2>2 DEF Process
    <2> QED
      BY <2>1, <2>3 DEF Verdict, TokenKinds
  <1> QED
    BY <1>2, <1>3, <1>4, AnswerKeeps DEF Process

LEMMA WriteKeeps ==
    ASSUME Inv, NEW c \in Clients, Write(c), UNCHANGED <<clientVars, delivered, cut>>
    PROVE  Inv'
  <1> DEFINE e == [wire[c] EXCEPT !.phase = "answered"]
  <1>1. wire[c] \in ExchangeType /\ wire[c].phase = "replying"
    BY DEF Write, Inv, Types
  <1>2. wire' = [wire EXCEPT ![c] = e]
    BY Zenon DEF Write
  <1>3. 0 \in Int /\ Bodies # {} /\ VersionErrors # {} /\ Errors # {}
    BY DEF Bodies, VersionErrors, Errors
  <1>4. e \in ExchangeType
    BY <1>1, <1>3, ExchangeChanges
  <1>5. e.phase = "answered" /\ e.body = wire[c].body
    BY <1>1, ExchangeFields
  <1> HIDE DEF e
  <1>6. wire'[c] = e
    BY <1>2, <1>4, WireStep DEF Inv
  <1>7. ASSUME c \in Threads
        PROVE  ThreadInv(c)'
    BY <1>1, <1>5, <1>6, <1>7
       DEF Inv, clientVars, Types, ThreadInv, ExchangeOfCall, ReadOnce, OutcomeOK, NotSent, InGet
  <1> QED
    BY <1>2, <1>4, <1>7, OneExchangeMoves

\* Connections are broken when the host stops and when it crashes.
Open == {"posted", "handling", "replying"}
Broken(c) == [wire[c] EXCEPT !.phase = "failed", !.error = Reset]

LEMMA BrokenExchange ==
    ASSUME Inv, NEW c \in Clients
    PROVE  Broken(c) \in ExchangeType /\ Broken(c).phase = "failed" /\ Broken(c).error = Reset
  <1>1. wire[c] \in ExchangeType
    BY DEF Inv, Types
  <1>2. "failed" \in Phases /\ Reset \in Errors
    BY DEF Phases, Errors
  <1>3. ASSUME NEW e \in ExchangeType
        PROVE  LET f == [e EXCEPT !.phase = "failed", !.error = Reset]
               IN  f \in ExchangeType /\ f.phase = "failed" /\ f.error = Reset
    BY <1>2 DEF ExchangeType
  <1> QED
    BY <1>1, <1>3 DEF Broken

LEMMA BrokenWire ==
    ASSUME Inv, BreakExchanges
    PROVE  /\ wire' \in [Clients -> ExchangeType]
           /\ \A c \in Clients : wire[c].phase \in Open => wire'[c] = Broken(c)
           /\ \A c \in Clients : wire[c].phase \notin Open => wire'[c] = wire[c]
  <1>1. \A c \in Clients : wire[c] \in ExchangeType /\ Broken(c) \in ExchangeType
    BY BrokenExchange DEF Inv, Types
  <1>2. wire' = [c \in Clients |-> IF wire[c].phase \in Open THEN Broken(c) ELSE wire[c]]
    BY DEF BreakExchanges, InPhase, Open, Broken
  <1> QED
    BY <1>1, <1>2

\* Who has been read and is broken is cut off.
LEMMA BreakKeeps ==
    ASSUME Inv, BreakExchanges, CutOff, UNCHANGED <<clientVars, delivered>>
    PROVE  Inv'
  <1>1. wire' \in [Clients -> ExchangeType]
    BY BrokenWire
  <1>2. UNCHANGED <<pc, call, result, delivered>>
    BY DEF clientVars
  <1>3. Types'
    BY <1>1, <1>2 DEF Inv, Types
  <1>4. ASSUME NEW t \in Threads, wire[t].phase \in Open
        PROVE  ThreadInv(t)'
    <2>1. wire'[t].phase = "failed" /\ wire'[t].error = Reset /\ Reset \in Errors
      BY <1>4, ThreadsAssumption, BrokenWire, BrokenExchange DEF Errors
    <2>2. wire[t].phase = "posted" => delivered[t] = 0
      BY DEF Inv, ThreadInv, ReadOnce
    <2>3. delivered[t] = 1 => t \in cut'
      BY <1>4, <2>2, ThreadsAssumption DEF CutOff, InPhase, Open
    <2>4. wire[t].phase \notin {"none", "answered", "failed"}
      BY <1>4 DEF Open
    <2>5. pc[t] = "transfer" /\ result[t] = Result("none", "none")
      BY <2>4 DEF Inv, ThreadInv, ExchangeOfCall, OutcomeOK
    <2>6. ExchangeOfCall(t)'
      BY <1>2, <2>1, <2>5 DEF Inv, ThreadInv, ExchangeOfCall
    <2>7. ReadOnce(t)'
      BY <1>2, <2>1, <2>3, <2>5 DEF Inv, ThreadInv, ReadOnce, NotSent
    <2>8. OutcomeOK(t)'
      BY <1>2, <2>5 DEF OutcomeOK, Result, Errors, TimedOut, Untrusted, Refused, Reset
    <2> QED
      BY <2>6, <2>7, <2>8 DEF ThreadInv
  <1>5. ASSUME NEW t \in Threads, wire[t].phase \notin Open
        PROVE  ThreadInv(t)'
    <2>1. wire'[t] = wire[t] /\ (t \in cut => t \in cut')
      BY <1>5, ThreadsAssumption, BrokenWire DEF CutOff
    <2> QED
      BY <1>2, <2>1, Untouched DEF Inv, Types
  <1> QED
    BY <1>3, <1>4, <1>5 DEF Inv

LEMMA UnchangedKeeps ==
    ASSUME Inv, UNCHANGED <<wire, clientVars, delivered, cut>>
    PROVE  Inv'
  <1>1. Types'
    BY DEF Inv, Types, clientVars
  <1>2. ASSUME NEW t \in Threads
        PROVE  ThreadInv(t)'
    BY Untouched DEF Inv, Types, clientVars
  <1> QED
    BY <1>1, <1>2 DEF Inv

LEMMA HostKeeps ==
    ASSUME Inv, Hosting
    PROVE  Inv'
  <1>1. CASE HostStep(Start) \/ HostStep(Interrupt) \/ HostStep(BeginStop)
    BY <1>1, UnchangedKeeps DEF HostStep, Start, Interrupt, BeginStop
  <1>2. CASE Shutdown
    BY <1>2, BreakKeeps DEF Shutdown, EndStop
  <1>3. ASSUME NEW c \in Clients, HostStep(RefuseVersion(c))
        PROVE  Inv'
    BY <1>3, AnswerKeeps DEF HostStep, RefuseVersion, Bodies
  <1>4. ASSUME NEW c \in Clients, HostStep(Write(c))
        PROVE  Inv'
    BY <1>4, WriteKeeps DEF HostStep
  <1> QED
    BY <1>1, <1>2, <1>3, <1>4 DEF Hosting

LEMMA CrashKeeps ==
    ASSUME Inv, Crash
    PROVE  Inv'
  BY BreakKeeps DEF Crash

-----------------------------------------------------------------------------
LEMMA InvStep == Inv /\ [Next]_vars => Inv'
  <1> SUFFICES ASSUME Inv, [Next]_vars
               PROVE  Inv'
    OBVIOUS
  <1>1. ASSUME NEW t \in Threads, CallStep(t) \/ ThreadStep(t)
        PROVE  Inv'
    BY <1>1, CallKeeps, ThreadKeeps
  <1>2. ASSUME NEW v \in Visitors, VisitorStep(v)
        PROVE  Inv'
    BY <1>2, VisitorKeeps
  <1>3. ASSUME NEW c \in Clients, ReadRequest(c) \/ Process(c)
        PROVE  Inv'
    BY <1>3, ReadKeeps, ProcessKeeps
  <1>4. CASE AllDone \/ UNCHANGED vars
    BY <1>4, UnchangedKeeps DEF AllDone, vars
  <1> QED
    BY <1>1, <1>2, <1>3, <1>4, HostKeeps, CrashKeeps DEF Next

\* The invariant holds in every state of an application with its server.
THEOREM InvHolds == Spec => []Inv
  BY InvInit, InvStep, PTL DEF Spec

\* The server reads the token of a call at most once, however often connections
\* fail and the server is killed (the loop of Curl::GetEntitlement's caller
\* repeats only what cannot have arrived).
THEOREM ReadAtMostOnce == Spec => []DeliveredOnce
  <1>1. Inv => DeliveredOnce
    BY DEF Inv, Types, DeliveredOnce
  <1> QED
    BY <1>1, InvHolds, PTL

\* An Entitlement is returned only for a token that is good and that the server
\* has read in this very call.
THEOREM EntitlementsAreGranted == Spec => []EntitledByServer
  <1>1. Inv => EntitledByServer
    BY DEF Inv, ThreadInv, OutcomeOK, EntitledByServer
  <1> QED
    BY <1>1, InvHolds, PTL

\* A server that has read the request gets its verdict to the caller, also when it
\* stops after this request, unless it is killed or out of time before the answer.
THEOREM VerdictsArrive == Spec => []CallerLearnsVerdict
  <1>1. Inv => CallerLearnsVerdict
    BY DEF Inv, Types, ThreadInv, OutcomeOK, CallerLearnsVerdict
  <1> QED
    BY <1>1, InvHolds, PTL
=============================================================================
