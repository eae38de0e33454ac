------------------------------ MODULE NativeClient ------------------------------
(***************************************************************************)
(* SoftwareEntitlementClient.cpp: the library an application links to.     *)
(* The threads of the application call GetEntitlement and                  *)
(* AddSslCertificate, which serialise themselves with the mutex s_lock;    *)
(* GetEntitlement holds it over all its attempts and the pauses between    *)
(* them.  Init runs before any of the threads exists, as the header        *)
(* demands, and so makes the initial state.                                *)
(***************************************************************************)
EXTENDS Connections

CONSTANTS
    Threads,        \* the threads of the application
    BuiltinCerts,   \* s_microsoftIntermediateCerts
    GetCalls,       \* the arguments GetEntitlement is called with
    AddCalls,       \* the arguments AddSslCertificate is called with
    Chains,         \* the certificate chains servers present
    Windows,        \* whether _WIN32 is defined
    MaxUInt,        \* the largest unsigned int
    MaxCalls,       \* how many calls a thread makes (a bound)
    Nobody

ASSUME ThreadsAssumption == Threads \subseteq Clients /\ Nobody \notin Threads

ASSUME CallsAssumption ==
    /\ MaxCalls \in Nat /\ MaxUInt \in Nat \ {0} /\ Windows \in BOOLEAN
    /\ \A call \in GetCalls : call.op = "get" /\ call.retries \in 0 .. MaxUInt
    /\ \A call \in AddCalls : call.op = "add" /\ call.wellFormed \in BOOLEAN

\* What follows "https://" in a URL is cut at its slashes, so that no two names are
\* next to each other.
IsPath(path) ==
    /\ path \in Seq({path[i] : i \in DOMAIN path})
    /\ \A i \in 1 .. Len(path) - 1 : "/" \in {path[i], path[i + 1]}

ASSUME PathsAssumption == \A args \in GetCalls : IsPath(args.url.path)

\* The list of certificates is a sequence.
ASSUME CertificatesAssumption ==
    BuiltinCerts \in Seq({BuiltinCerts[i] : i \in DOMAIN BuiltinCerts})

VARIABLES
    holder,     \* the thread that holds s_lock
    certs,      \* s_sslCerts
    pc,         \* how far the call of a thread has come
    call,       \* its arguments
    retry,      \* the loop counter, an unsigned int
    result,     \* what the last call returned or threw, and why
    made,       \* the number of calls a thread has made
    failures    \* history: the errors of the call's attempts, and the pauses after them

clientVars == <<holder, certs, pc, call, retry, result, made, failures>>

NoCall == [op |-> "none"]
Result(kind, reason) == [kind |-> kind, reason |-> reason]

ClientInit ==
    /\ holder = Nobody
    /\ certs = BuiltinCerts
    /\ pc = [t \in Threads |-> "idle"]
    /\ call = [t \in Threads |-> NoCall]
    /\ retry = [t \in Threads |-> 0]
    /\ result = [t \in Threads |-> Result("none", "none")]
    /\ made = [t \in Threads |-> 0]
    /\ failures = [t \in Threads |-> <<>>]

-----------------------------------------------------------------------------
(* The URL.  What follows "https://" is a sequence of names and slashes.   *)

\* A path below the host is allowed, a path below that is not.
TooDeep(path) == Cardinality({i \in 1 .. Len(path) - 1 : path[i] = "/"}) >= 2

\* Faulty variant: the slash is added without a look at the URL.
WithAnotherSlash(path) == Append(path, "/")

WithTrailingSlash(path) ==
    IF path # <<>> /\ path[Len(path)] = "/" THEN path ELSE Append(path, "/")

UrlAccepted(url) == url.https /\ ~url.query /\ ~TooDeep(url.path)

DoubleSlash(path) == \E i \in 1 .. Len(path) - 1 : path[i] = "/" /\ path[i + 1] = "/"

\* The request that is posted.  A double slash in the URL hides the resource.
RequestTo(url, token) ==
    [method |-> "POST", version |-> 1, token |-> token,
     path |-> IF DoubleSlash(WithTrailingSlash(url.path)) THEN "unknown" ELSE "collection"]

(* The certificates: an entry of s_sslCerts fits a certificate of the      *)
(* chain when it has the same thumbprint; the pairs are tried in order, a  *)
(* fitting entry with another name ends the search with an error, and one  *)
(* whose DNS namespace is not in the URL is passed over.                   *)

Decisive(chain, url) ==
    {p \in (DOMAIN chain) \X (DOMAIN certs) :
        LET cert == chain[p[1]]
            info == certs[p[2]]
        IN  /\ cert.thumbprint = info.thumbprint
            /\ \/ cert.name # info.name
               \/ info.namespace \in {"", url.namespace}}

\* The pair the loops meet first.
Earliest(pairs) ==
    CHOOSE p \in pairs : \A q \in pairs : p[1] < q[1] \/ (p[1] = q[1] /\ p[2] <= q[2])

VerifyIntermediateCertificate(chain, url) ==
    /\ Decisive(chain, url) # {}
    /\ LET p == Earliest(Decisive(chain, url)) IN chain[p[1]].name = certs[p[2]].name

-----------------------------------------------------------------------------
Go(t, step) == pc' = [pc EXCEPT ![t] = step]

\* Faulty variant: an error leaves the function past an unlock at its end.
ReturnLocked(t, kind, reason) ==
    /\ Go(t, "idle")
    /\ holder' = IF kind \in {"entitlement", "added"} THEN Nobody ELSE holder
    /\ result' = [result EXCEPT ![t] = Result(kind, reason)]

\* The function returns or throws, and the lock_guard releases the mutex.
Return(t, kind, reason) ==
    /\ Go(t, "idle")
    /\ holder' = Nobody
    /\ result' = [result EXCEPT ![t] = Result(kind, reason)]

Call(t, args) ==
    /\ pc[t] = "idle" /\ made[t] < MaxCalls
    /\ Go(t, "blocked")
    /\ call' = [call EXCEPT ![t] = args]
    /\ result' = [result EXCEPT ![t] = Result("none", "none")]
    /\ made' = [made EXCEPT ![t] = @ + 1]
    /\ failures' = [failures EXCEPT ![t] = <<>>]
    /\ UNCHANGED <<wire, holder, certs, retry>>

\* Faulty variant: AddSslCertificate does not take the lock.
MayEnterToAdd(t) == holder = Nobody \/ call[t].op = "add"

MayEnter(t) == holder = Nobody

\* std::lock_guard<std::mutex> lock(s_lock)
Lock(t) ==
    /\ pc[t] = "blocked" /\ MayEnter(t)
    /\ holder' = t
    /\ Go(t, call[t].op)
    /\ UNCHANGED <<wire, certs, call, retry, result, made, failures>>

WithCert(list, cert) == Append(list, cert)

\* A thumbprint that does not have 40 digits is refused.
AddSslCertificate(t) ==
    /\ pc[t] = "add"
    /\ IF call[t].wellFormed
       THEN certs' = WithCert(certs, call[t].cert) /\ Return(t, "added", "none")
       ELSE UNCHANGED certs /\ Return(t, "Exception", "thumbprint")
    /\ UNCHANGED <<wire, call, retry, made, failures>>

\* The beginning of GetEntitlement.
CheckUrl(t) ==
    /\ pc[t] = "get"
    /\ IF UrlAccepted(call[t].url)
       THEN Go(t, "connect") /\ retry' = [retry EXCEPT ![t] = 1] /\ UNCHANGED <<holder, result>>
       ELSE Return(t, "Exception", "url") /\ UNCHANGED retry
    /\ UNCHANGED <<wire, certs, call, made, failures>>

\* Curl::Post up to the point where the server has the request: the connection
\* comes up, or it does not.
Connect(t) ==
    /\ pc[t] = "connect"
    /\ Go(t, "transfer")
    /\ \/ Post(t, RequestTo(call[t].url, call[t].token))
       \/ \E error \in {TimedOut, Untrusted, Refused} : Fail(t, error)
    /\ UNCHANGED <<holder, certs, call, retry, result, made, failures>>

\* Faulty variant: a broken connection is retried, too.
WorthRetryingAlways(error) == error \in {TimedOut, Reset}

WorthRetrying(error) == error = TimedOut \/ (Windows /\ error = Untrusted)

\* Faulty variant: the loop ends one round early.
InLoopShort(t) == retry[t] < call[t].retries

InLoop(t) == retry[t] <= call[t].retries

Failure(error) == [error |-> error, pause |-> 0]

\* The catch clause of the loop, and the last attempt, which is outside of it.
TransferFailed(t) ==
    /\ pc[t] = "transfer" /\ wire[t].phase = "failed"
    /\ IF InLoop(t) /\ WorthRetrying(wire[t].error)
       THEN /\ Go(t, IF wire[t].error = Untrusted THEN "roots" ELSE "sleep")
            /\ UNCHANGED <<holder, result>>
       ELSE Return(t, "Exception", wire[t].error)
    /\ failures' = [failures EXCEPT ![t] = Append(@, Failure(wire[t].error))]
    /\ Hangup(t)
    /\ UNCHANGED <<certs, call, retry, made>>

NextRound(t) ==
    /\ retry' = [retry EXCEPT ![t] = (@ + 1) % (MaxUInt + 1)]
    /\ Go(t, "connect")

\* sleep_for(seconds(retry))
Sleep(t) ==
    /\ pc[t] = "sleep"
    /\ failures' = [failures EXCEPT ![t][Len(failures[t])].pause = retry[t]]
    /\ NextRound(t)
    /\ UNCHANGED <<wire, holder, certs, call, result, made>>

\* EnsureRootCertsArePopulated, which throws a std::system_error when it fails.
PopulateRoots(t) ==
    /\ pc[t] = "roots"
    /\ \/ NextRound(t) /\ UNCHANGED <<holder, result>>
       \/ Return(t, "std::exception", "win32") /\ UNCHANGED retry
    /\ UNCHANGED <<wire, certs, call, made, failures>>

\* The certificates are verified, then the response is looked at.  A member that
\* is missing from a 200 makes the JSON library throw its own exception.
TransferDone(t) ==
    /\ pc[t] = "transfer" /\ wire[t].phase = "answered"
    /\ \E chain \in Chains :
          IF ~VerifyIntermediateCertificate(chain, call[t].url) THEN Return(t, "Exception", "chain")
          ELSE IF wire[t].status # 200 THEN Return(t, "Exception", "status")
          ELSE IF wire[t].body # "vmid" THEN Return(t, "std::exception", "json")
          ELSE Return(t, "entitlement", "none")
    /\ Hangup(t)
    /\ UNCHANGED <<certs, call, retry, made, failures>>

Step(t) ==
    \/ Lock(t) \/ AddSslCertificate(t) \/ CheckUrl(t) \/ Connect(t)
    \/ TransferFailed(t) \/ Sleep(t) \/ PopulateRoots(t) \/ TransferDone(t)

ClientNext == \E t \in Threads : Step(t) \/ \E args \in GetCalls \cup AddCalls : Call(t, args)

\* A thread that is in a call is scheduled.  The mutex need not be fair: a thread
\* makes finitely many calls, so it is free in the end.
ClientFairness == \A t \in Threads : WF_<<wire, clientVars>>(Step(t))

Finished ==
    /\ \A t \in Threads : pc[t] = "idle" /\ made[t] = MaxCalls
    /\ UNCHANGED <<wire, clientVars>>

-----------------------------------------------------------------------------
(* The library with any server at all: one that has the request answers it *)
(* or breaks the connection.                                               *)

Answer(t, status, body) ==
    wire' = [wire EXCEPT ![t] = [@ EXCEPT !.phase = "answered", !.status = status, !.body = body]]

AnyServer(t) ==
    /\ wire[t].phase = "posted"
    /\ \/ \E status \in {200, 400, 403, 500}, body \in Bodies :
             /\ status # 200 => body = "other"
             /\ Answer(t, status, body)
       \/ Fail(t, Reset)
    /\ UNCHANGED clientVars

ClientWithAnyServer == ClientNext \/ (\E t \in Threads : AnyServer(t)) \/ Finished

ClientStart == WireInit /\ ClientInit

ClientSpec == ClientStart /\ [][ClientWithAnyServer]_<<wire, clientVars>>

\* Nothing but the server ends a transfer once the connection is up: the library
\* sets a timeout for the connection phase only.
FairClientSpec ==
    /\ ClientSpec /\ ClientFairness
    /\ \A t \in Threads : WF_<<wire, clientVars>>(AnyServer(t))

-----------------------------------------------------------------------------
(* Properties.                                                             *)

\* The steps of a GetEntitlement that holds the lock.
InGet == {"get", "connect", "transfer", "sleep", "roots"}

\* The types of the variables; s_sslCerts keeps the certificates Init put there.
ClientTypeOK ==
    /\ holder \in Threads \cup {Nobody}
    /\ Len(BuiltinCerts) <= Len(certs)
    /\ SubSeq(certs, 1, Len(BuiltinCerts)) = BuiltinCerts
    /\ pc \in [Threads -> {"idle", "blocked", "add"} \cup InGet]
    /\ call \in [Threads -> GetCalls \cup AddCalls \cup {NoCall}]
    /\ retry \in [Threads -> 0 .. MaxUInt]
    /\ made \in [Threads -> 0 .. MaxCalls]

\* The list of accepted certificates does not change under a GetEntitlement: the
\* chain is verified against the list as it was when the call took the lock.
CertsStableDuringGet ==
    [][(\E t \in Threads : pc[t] \in InGet /\ pc'[t] \in InGet) => certs' = certs]_<<pc, certs>>

\* One transfer at a time, pauses included: while a call waits for its next
\* attempt no other call is on the wire.
OneGetAtATime == Cardinality({t \in Threads : pc[t] \in InGet}) <= 1

\* A call that gives up because of timeouts has made all the attempts it was asked
\* for, one more than retries, with a pause of i seconds after the i-th if it timed
\* out, and none after the last.
GivesUpLast ==
    \A t \in Threads :
        result[t] = Result("Exception", TimedOut) =>
            /\ Len(failures[t]) = call[t].retries + 1
            /\ \A i \in 1 .. call[t].retries :
                  failures[t][i].pause = IF failures[t][i].error = TimedOut THEN i ELSE 0
            /\ failures[t][call[t].retries + 1] = Failure(TimedOut)

\* A URL is posted to only when it starts with https, has no query and at most one
\* name after the host; with or without a slash at its end it reaches the resource.
UrlsReachServer ==
    \A t \in Threads :
        wire[t].phase = "posted" =>
            LET url == call[t].url
            IN  /\ url.https /\ ~url.query
                /\ Cardinality({i \in DOMAIN url.path : url.path[i] # "/"}) <= 2
                /\ ~DoubleSlash(url.path) => wire[t].request.path = "collection"

\* Every call returns or throws, also with the mutex held by calls of others.
EveryCallReturns == \A t \in Threads : pc[t] # "idle" ~> pc[t] = "idle"
=============================================================================
