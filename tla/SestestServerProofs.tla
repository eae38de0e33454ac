-------------------------- MODULE SestestServerProofs ---------------------------
(***************************************************************************)
(* Proofs about SestestServer, for any set of clients that send any        *)
(* requests, with or without --exit-after-request.                         *)
(***************************************************************************)
EXTENDS SestestServer, FiniteSetTheorems, TLAPS

Actions == VersionErrors \cup HandlerActions

\* An exchange at any moment; its request came with it when it was posted.
ExchangeType ==
    [phase : Phases, request : HttpRequest \cup {NoRequest}, action : Actions \cup {"none"},
     status : Statuses \cup {0}, body : Bodies \cup {"none"}, error : Errors \cup {"none"}]
WireOK ==
    /\ wire \in [Clients -> ExchangeType]
    /\ \A c \in Clients : wire[c].phase # "none" => wire[c].request \in HttpRequest

ServerInv == ServerTypeOK /\ WireOK

-----------------------------------------------------------------------------
(* Routing.                                                                *)

LEMMA AtMostOneElement ==
    ASSUME NEW S, \A a, b \in S : a = b
    PROVE  Cardinality(S) <= 1
  <1>1. CASE S = {}
    BY <1>1, FS_EmptySet
  <1>2. CASE S # {}
    <2>1. PICK a \in S : TRUE
      BY <1>2
    <2>2. S = {a}
      BY <2>1
    <2> QED
      BY <2>2, FS_Singleton
  <1> QED
    BY <1>1, <1>2

LEMMA CandidatesAre ==
    ASSUME NEW req \in HttpRequest, NEW a
    PROVE  a \in Candidates(req) <=>
             \/ a = "MissingApiVersion" /\ req.method = "POST" /\ req.path = "collection"
                  /\ req.version = 0
             \/ a = "InvalidApiVersion" /\ req.method = "POST" /\ req.path = "collection"
                  /\ req.version = -1
             \/ a = "ApproveV1" /\ req.method = "POST" /\ req.path = "collection"
                  /\ req.version \in 1 .. 2
             \/ a = "ApproveV2" /\ req.method = "POST" /\ req.path = "collection"
                  /\ req.version \in 3 .. 5
             \/ a = "Acquire" /\ req.method = "POST" /\ req.path = "collection"
                  /\ req.version = 6
             \/ a = "Renew" /\ req.method = "POST" /\ req.path = "item" /\ req.version = 6
             \/ a = "Release" /\ req.method = "DELETE" /\ req.path = "item" /\ req.version = 6
  <1>1. DOMAIN ValidApiVersions = 1 .. 6
    BY DEF ValidApiVersions
  <1>2. req.version \in -1 .. 6
    BY <1>1 DEF HttpRequest, Versions, Missing, Invalid
  <1>3. \A min, max \in 1 .. 6 :
           InRange(req.version, min, max) <=> req.version \in min .. max
    BY <1>1, <1>2 DEF InRange, IsValid
  <1>4. /\ InRange(req.version, 1, June012017) <=> req.version \in 1 .. 2
        /\ InRange(req.version, Sept012017, August012018) <=> req.version \in 3 .. 5
        /\ InRange(req.version, Latest, Latest) <=> req.version = 6
    BY <1>2, <1>3 DEF June012017, Sept012017, August012018, Latest
  <1> QED
    BY <1>4 DEF Candidates, VersionErrors, HandlerActions, Missing, Invalid

\* Every request finds at most one action, every POST to the collection one.
LEMMA RoutedOnce ==
    ASSUME NEW req \in HttpRequest
    PROVE  /\ Cardinality(Candidates(req)) <= 1
           /\ req.method = "POST" /\ req.path = "collection" => Candidates(req) # {}
  <1>1. \A a, b \in Candidates(req) : a = b
    BY CandidatesAre
  <1>2. ASSUME req.method = "POST", req.path = "collection"
        PROVE  Candidates(req) # {}
    <2>1. req.version \in -1 .. 6
      BY DEF HttpRequest, Versions, Missing, Invalid, ValidApiVersions
    <2>2. \E a : a \in Candidates(req)
      BY <2>1, <1>2, CandidatesAre
    <2> QED
      BY <2>2
  <1> QED
    BY <1>1, <1>2, AtMostOneElement

-----------------------------------------------------------------------------
(* The invariant.                                                          *)

LEMMA InvInit == ServerStart => ServerInv
  BY DEF ServerStart, WireInit, ServerInit, ServerInv, ServerTypeOK, WireOK, ExchangeType,
         NoExchange, Exchange, NoRequest, Phases, Statuses

LEMMA ResponseTypes ==
    ASSUME NEW a \in Actions, NEW status \in Responses(a), NEW body \in Contents(a, status)
    PROVE  status \in Statuses /\ body \in Bodies
  BY DEF Actions, Responses, Contents, VersionErrors, HandlerActions, Statuses, Bodies

\* An exchange that gets its response, and one that is broken.
LEMMA ExchangeChanges ==
    ASSUME NEW e \in ExchangeType, NEW status \in Statuses, NEW body \in Bodies,
           NEW error \in Errors
    PROVE  /\ [e EXCEPT !.phase = "replying", !.status = status, !.body = body] \in ExchangeType
           /\ [e EXCEPT !.phase = "failed", !.error = error] \in ExchangeType
  <1>1. {"replying", "failed"} \subseteq Phases
    BY DEF Phases
  <1>2. [e EXCEPT !.phase = "replying", !.status = status, !.body = body] \in ExchangeType
    BY <1>1 DEF ExchangeType
  <1>3. [e EXCEPT !.phase = "failed", !.error = error] \in ExchangeType
    BY <1>1 DEF ExchangeType
  <1> QED
    BY <1>2, <1>3

LEMMA ResponseOnWire ==
    ASSUME WireOK, NEW c \in Clients, NEW status \in Statuses, NEW body \in Bodies,
           Respond(c, status, body), wire[c].phase # "none"
    PROVE  WireOK'
  <1> DEFINE e == [wire[c] EXCEPT !.phase = "replying", !.status = status, !.body = body]
  <1>1. wire' = [wire EXCEPT ![c] = e]
    BY Zenon DEF Respond
  <1>2. e \in ExchangeType
    <2>1. wire[c] \in ExchangeType /\ Errors # {}
      BY DEF WireOK, Errors
    <2> QED
      BY <2>1, ExchangeChanges
  <1>3. e.request = wire[c].request
    BY DEF WireOK, ExchangeType
  <1> HIDE DEF e
  <1> QED
    BY <1>1, <1>2, <1>3 DEF WireOK

LEMMA InvStep == ServerInv /\ [ServerWithAnyClients]_<<wire, serverVars>> => ServerInv'
  <1> SUFFICES ASSUME ServerInv, [ServerWithAnyClients]_<<wire, serverVars>>
               PROVE  ServerInv'
    OBVIOUS
  <1> USE DEF ServerInv, WireOK
  <1>1. CASE Start
    BY <1>1 DEF Start, ServerTypeOK
  <1>2. CASE Interrupt
    BY <1>2 DEF Interrupt, ServerTypeOK
  <1>3. CASE BeginStop
    BY <1>3 DEF BeginStop, ServerTypeOK
  <1>4. CASE EndStop
    <2>1. WireOK'
      <3>1. \A c \in Clients : [wire[c] EXCEPT !.phase = "failed", !.error = Reset] \in ExchangeType
        <4>1. \A c \in Clients : wire[c] \in ExchangeType
          OBVIOUS
        <4>2. Reset \in Errors /\ Statuses # {} /\ Bodies # {}
          BY DEF Errors, Statuses, Bodies
        <4> QED
          BY <4>1, <4>2, ExchangeChanges
      <3>2. \A c \in Clients : wire'[c] \in ExchangeType /\ wire'[c].request = wire[c].request
                                /\ (wire'[c].phase # "none" => wire[c].phase # "none")
        <4>1. ASSUME NEW c \in Clients, c \in InPhase({"posted", "handling", "replying"})
              PROVE  /\ wire'[c] = [wire[c] EXCEPT !.phase = "failed", !.error = Reset]
                     /\ wire[c].phase # "none"
          BY <1>4, <4>1 DEF EndStop, BreakExchanges, InPhase
        <4>2. ASSUME NEW c \in Clients, c \notin InPhase({"posted", "handling", "replying"})
              PROVE  wire'[c] = wire[c]
          BY <1>4, <4>2 DEF EndStop, BreakExchanges
        <4>3. \A c \in Clients :
                 [wire[c] EXCEPT !.phase = "failed", !.error = Reset].request = wire[c].request
          BY DEF ExchangeType
        <4> QED
          BY <3>1, <4>1, <4>2, <4>3
      <3>3. wire' = [c \in Clients |-> wire'[c]]
        BY <1>4 DEF EndStop, BreakExchanges
      <3> QED
        BY <3>2, <3>3
    <2>2. ServerTypeOK'
      BY <1>4 DEF EndStop, BreakExchanges, ServerTypeOK, ExchangeType, Phases, Errors, Reset
    <2> QED
      BY <2>1, <2>2
  <1>5. ASSUME NEW c \in Clients, Dispatch(c)
        PROVE  ServerInv'
    <2>1. CASE Candidates(wire[c].request) = {}
      <3>1. WireOK'
        BY <1>5, <2>1, ResponseOnWire DEF Dispatch, Statuses, Bodies
      <3>2. ServerTypeOK'
        BY <1>5, <2>1 DEF Dispatch, Respond, ServerTypeOK, serverVars, ExchangeType, Phases,
                          Statuses, Bodies
      <3> QED
        BY <3>1, <3>2
    <2>2. CASE Candidates(wire[c].request) # {}
      <3>1. PICK a \in Candidates(wire[c].request) :
               wire' = [wire EXCEPT ![c].phase = "handling", ![c].action = a]
        BY <1>5, <2>2 DEF Dispatch
      <3>2. a \in Actions
        BY <1>5, CandidatesAre DEF Dispatch, Actions, VersionErrors, HandlerActions
      <3>3. [wire[c] EXCEPT !.phase = "handling", !.action = a] \in ExchangeType
        BY <3>2 DEF ExchangeType, Phases
      <3>4. WireOK'
        <4>1. wire'[c] = [wire[c] EXCEPT !.phase = "handling", !.action = a]
          BY <3>1, Zenon
        <4>2. \A d \in Clients : wire'[d].request = wire[d].request
                                  /\ (d # c => wire'[d] = wire[d])
          BY <3>1 DEF ExchangeType
        <4>3. wire' = [d \in Clients |-> wire'[d]] /\ wire[c].phase # "none"
          BY <1>5, <3>1 DEF Dispatch
        <4>4. \A d \in Clients : wire'[d] \in ExchangeType
          BY <3>3, <4>1, <4>2
        <4>5. wire' \in [Clients -> ExchangeType]
          BY <4>3, <4>4
        <4>6. \A d \in Clients : wire'[d].phase # "none" => wire[d].phase # "none"
          BY <4>2, <4>3
        <4> QED
          BY <4>2, <4>5, <4>6
      <3>5. ServerTypeOK'
        <4>1. wire'[c].phase = "handling" /\ wire'[c].action = a
          BY <3>1 DEF ExchangeType
        <4>2. \A d \in Clients : d # c => wire'[d] = wire[d]
          BY <3>1
        <4>3. UNCHANGED <<host, exitCode, handled>>
          BY <1>5 DEF Dispatch, serverVars
        <4> QED
          BY <3>2, <4>1, <4>2, <4>3 DEF ServerTypeOK, Phases, Actions
      <3> QED
        BY <3>4, <3>5
    <2> QED
      BY <2>1, <2>2
  <1>6. ASSUME NEW c \in Clients, RefuseVersion(c)
        PROVE  ServerInv'
    <2>1. WireOK'
      BY <1>6, ResponseOnWire DEF RefuseVersion, Statuses, Bodies
    <2>2. ServerTypeOK'
      BY <1>6 DEF RefuseVersion, Respond, serverVars, ServerTypeOK, ExchangeType, Phases, Statuses, Bodies
    <2> QED
      BY <2>1, <2>2
  <1>7. ASSUME NEW c \in Clients, NEW status \in Statuses, HandleRequest(c, status)
        PROVE  ServerInv'
    <2>1. PICK body \in Contents(wire[c].action, status) : Respond(c, status, body)
      BY <1>7 DEF HandleRequest
    <2>2. body \in Bodies
      BY <1>7, ResponseTypes DEF HandleRequest, Actions
    <2>3. WireOK'
      BY <1>7, <2>1, <2>2, ResponseOnWire DEF HandleRequest
    <2>4. ServerTypeOK'
      BY <1>7, <2>1, <2>2 DEF HandleRequest, Respond, ServerTypeOK, ExchangeType, Phases
    <2> QED
      BY <2>3, <2>4
  <1>8. ASSUME NEW c \in Clients, Write(c)
        PROVE  ServerInv'
    BY <1>8 DEF Write, ServerTypeOK, serverVars, ExchangeType, Phases
  <1>9. ASSUME NEW c \in Clients, Collect(c)
        PROVE  ServerInv'
    BY <1>9 DEF Collect, Hangup, NoExchange, Exchange, NoRequest, ServerTypeOK, serverVars,
                ExchangeType, Phases, Statuses
  <1>10. ASSUME NEW c \in Clients, NEW request \in HttpRequest, Send(c, request)
         PROVE  ServerInv'
    BY <1>10 DEF Send, Post, Exchange, ServerTypeOK, serverVars, ExchangeType, Phases, Statuses
  <1>11. CASE Idle
    BY <1>11 DEF Idle, ServerTypeOK, serverVars
  <1>12. CASE UNCHANGED <<wire, serverVars>>
    BY <1>12 DEF ServerTypeOK, serverVars
  <1> QED
    BY <1>1, <1>2, <1>3, <1>4, <1>5, <1>6, <1>7, <1>8, <1>9, <1>10, <1>11, <1>12
       DEF ServerWithAnyClients, ServerNext

\* The invariant holds in every state of the server with any clients.
THEOREM InvHolds == ServerSpec => []ServerInv
  BY InvInit, InvStep, PTL DEF ServerSpec

\* The variables of the server process and of the exchanges keep their types;
\* the exit code is there exactly when the host has stopped.
THEOREM ServerTypeCorrect == ServerSpec => []ServerTypeOK
  BY InvHolds, PTL DEF ServerInv

\* The routes by api-version (VersionRangeConstraint and the attributes of the
\* controller) are disjoint and leave no POST to the collection unanswered.
THEOREM RequestsRouted == ServerSpec => []EveryRequestRouted
  <1>1. ServerInv => EveryRequestRouted
    BY RoutedOnce DEF ServerInv, WireOK, EveryRequestRouted
  <1> QED
    BY <1>1, InvHolds, PTL
=============================================================================
