--------------------------- MODULE NativeClientProofs ---------------------------
(***************************************************************************)
(* Proofs about NativeClient, for any number of threads, any calls, chains *)
(* and lists of certificates, and any server.                              *)
(***************************************************************************)
EXTENDS NativeClient, FiniteSetTheorems, SequenceTheorems, TLAPS

Certificates == {BuiltinCerts[i] : i \in DOMAIN BuiltinCerts} \cup {c.cert : c \in AddCalls}

\* The steps of a call that holds the mutex.
Inside == {"add"} \cup InGet

\* The mutex belongs to the thread that is inside a call, and to no other.
LockOK ==
    /\ \A t \in Threads : pc[t] \in Inside <=> holder = t
    /\ \A t \in Threads : pc[t] # "idle" => call[t] \in GetCalls \cup AddCalls
    /\ \A t \in Threads : pc[t] = "add" => call[t] \in AddCalls
    /\ \A t \in Threads : pc[t] \in InGet => call[t] \in GetCalls

ClientInv == ClientTypeOK /\ certs \in Seq(Certificates) /\ LockOK

-----------------------------------------------------------------------------
LEMMA InvInit == ClientStart => ClientInv
  <1> SUFFICES ASSUME ClientStart
               PROVE  ClientInv
    OBVIOUS
  <1> USE DEF ClientStart, ClientInit
  <1>1. BuiltinCerts \in Seq(Certificates)
    BY CertificatesAssumption DEF Certificates
  <1>2. SubSeq(BuiltinCerts, 1, Len(BuiltinCerts)) = BuiltinCerts
    BY <1>1
  <1>3. ClientTypeOK
    BY <1>1, <1>2, CallsAssumption DEF ClientTypeOK
  <1>4. LockOK
    BY ThreadsAssumption DEF LockOK, Inside, InGet
  <1> QED
    BY <1>1, <1>3, <1>4 DEF ClientInv

\* A thread that goes on inside its call, or leaves it.
LEMMA GoOn ==
    ASSUME LockOK, pc \in [Threads -> {"idle", "blocked", "add"} \cup InGet],
           NEW t \in Threads, NEW step \in InGet, pc[t] \in InGet, Go(t, step),
           UNCHANGED <<holder, call>>
    PROVE  LockOK' /\ pc' \in [Threads -> {"idle", "blocked", "add"} \cup InGet]
  BY DEF LockOK, Inside, InGet, Go

LEMMA GoOut ==
    ASSUME LockOK, pc \in [Threads -> {"idle", "blocked", "add"} \cup InGet],
           NEW t \in Threads, NEW kind, NEW reason, pc[t] \in Inside, Return(t, kind, reason),
           UNCHANGED call
    PROVE  LockOK' /\ pc' \in [Threads -> {"idle", "blocked", "add"} \cup InGet] /\ holder' = Nobody
  BY ThreadsAssumption DEF LockOK, Inside, InGet, Return, Go

LEMMA InvStep == ClientInv /\ [ClientWithAnyServer]_<<wire, clientVars>> => ClientInv'
  <1> SUFFICES ASSUME ClientInv, [ClientWithAnyServer]_<<wire, clientVars>>
               PROVE  ClientInv'
    OBVIOUS
  <1> USE DEF ClientInv
  <1>1. ASSUME NEW t \in Threads, NEW args \in GetCalls \cup AddCalls, Call(t, args)
        PROVE  ClientInv'
    <2>1. LockOK'
      BY <1>1 DEF Call, Go, LockOK, ClientTypeOK, Inside, InGet
    <2>2. ClientTypeOK'
      BY <1>1, CallsAssumption DEF Call, Go, ClientTypeOK
    <2> QED
      BY <1>1, <2>1, <2>2 DEF Call
  <1>2. ASSUME NEW t \in Threads, Lock(t)
        PROVE  ClientInv'
    <2>1. /\ call[t] \in GetCalls \cup AddCalls /\ call[t].op \in {"get", "add"}
          /\ call[t].op = "add" => call[t] \in AddCalls
          /\ call[t].op = "get" => call[t] \in GetCalls
      BY <1>2, CallsAssumption DEF Lock, LockOK
    <2>2. LockOK'
      BY <1>2, <2>1, ThreadsAssumption DEF Lock, MayEnter, Go, LockOK, ClientTypeOK, Inside, InGet
    <2>3. ClientTypeOK'
      BY <1>2, <2>1 DEF Lock, Go, ClientTypeOK, InGet
    <2> QED
      BY <1>2, <2>2, <2>3 DEF Lock
  <1>3. ASSUME NEW t \in Threads, AddSslCertificate(t)
        PROVE  ClientInv'
    <2>1. PICK kind, reason : Return(t, kind, reason)
      BY <1>3 DEF AddSslCertificate
    <2>2. LockOK' /\ pc' \in [Threads -> {"idle", "blocked", "add"} \cup InGet] /\ holder' = Nobody
      BY <1>3, <2>1, GoOut DEF AddSslCertificate, ClientTypeOK, Inside
    <2>3. certs' = certs \/ \E c \in Certificates : certs' = Append(certs, c)
      BY <1>3 DEF AddSslCertificate, WithCert, LockOK, Certificates
    <2>4. /\ certs' \in Seq(Certificates) /\ Len(BuiltinCerts) <= Len(certs')
          /\ SubSeq(certs', 1, Len(BuiltinCerts)) = BuiltinCerts
      <3>1. BuiltinCerts \in Seq(Certificates)
        BY CertificatesAssumption DEF Certificates
      <3>2. CASE certs' = certs
        BY <3>2 DEF ClientTypeOK
      <3>3. ASSUME NEW c \in Certificates, certs' = Append(certs, c)
            PROVE  /\ certs' \in Seq(Certificates) /\ Len(BuiltinCerts) <= Len(certs')
                   /\ SubSeq(certs', 1, Len(BuiltinCerts)) = BuiltinCerts
        <4>1. /\ certs' \in Seq(Certificates) /\ Len(certs') = Len(certs) + 1
              /\ \A i \in 1 .. Len(certs) : certs'[i] = certs[i]
          BY <3>3
        <4>2. /\ Len(BuiltinCerts) \in Nat /\ Len(certs) \in Nat
              /\ Len(BuiltinCerts) <= Len(certs)
              /\ SubSeq(certs, 1, Len(BuiltinCerts)) = BuiltinCerts
          BY <3>1 DEF ClientTypeOK
        <4>3. SubSeq(certs', 1, Len(BuiltinCerts)) = SubSeq(certs, 1, Len(BuiltinCerts))
          BY <4>1, <4>2
        <4> QED
          BY <4>1, <4>2, <4>3
      <3> QED
        BY <2>3, <3>2, <3>3
    <2>5. ClientTypeOK'
      BY <1>3, <2>2, <2>4 DEF AddSslCertificate, ClientTypeOK
    <2> QED
      BY <2>2, <2>4, <2>5
  <1>4. ASSUME NEW t \in Threads, CheckUrl(t)
        PROVE  ClientInv'
    <2>1. CASE UrlAccepted(call[t].url)
      <3>1. Go(t, "connect") /\ "connect" \in InGet
        BY <1>4, <2>1 DEF CheckUrl, InGet
      <3>2. LockOK' /\ pc' \in [Threads -> {"idle", "blocked", "add"} \cup InGet]
        BY <1>4, <2>1, <3>1, GoOn DEF CheckUrl, ClientTypeOK, InGet
      <3>3. retry' \in [Threads -> 0 .. MaxUInt]
        <4>1. 1 \in 0 .. MaxUInt
          BY CallsAssumption
        <4>2. retry' = [retry EXCEPT ![t] = 1] /\ retry \in [Threads -> 0 .. MaxUInt]
          BY <1>4, <2>1 DEF CheckUrl, ClientTypeOK
        <4> QED
          BY <4>1, <4>2
      <3> QED
        BY <1>4, <2>1, <3>2, <3>3 DEF CheckUrl, ClientTypeOK
    <2>2. CASE ~UrlAccepted(call[t].url)
      BY <1>4, <2>2, GoOut DEF CheckUrl, ClientTypeOK, Inside, InGet
    <2> QED
      BY <2>1, <2>2
  <1>5. ASSUME NEW t \in Threads, Connect(t)
        PROVE  ClientInv'
    BY <1>5, GoOn DEF Connect, ClientTypeOK, InGet
  <1>6. ASSUME NEW t \in Threads, TransferFailed(t)
        PROVE  ClientInv'
    <2>1. \/ (\E step \in InGet : Go(t, step)) /\ UNCHANGED holder
          \/ \E reason : Return(t, "Exception", reason)
      BY <1>6 DEF TransferFailed, InGet
    <2>2. LockOK' /\ pc' \in [Threads -> {"idle", "blocked", "add"} \cup InGet]
          /\ holder' \in {holder, Nobody}
      BY <1>6, <2>1, GoOn, GoOut DEF TransferFailed, ClientTypeOK, Inside, InGet
    <2> QED
      BY <1>6, <2>2 DEF TransferFailed, ClientTypeOK
  <1>7. ASSUME NEW t \in Threads, Sleep(t)
        PROVE  ClientInv'
    <2>1. LockOK' /\ pc' \in [Threads -> {"idle", "blocked", "add"} \cup InGet]
      BY <1>7, GoOn DEF Sleep, NextRound, ClientTypeOK, InGet
    <2>2. retry' \in [Threads -> 0 .. MaxUInt]
      <3>1. retry[t] \in Nat /\ MaxUInt \in Nat
        BY CallsAssumption DEF ClientTypeOK
      <3>2. (retry[t] + 1) % (MaxUInt + 1) \in 0 .. MaxUInt
        BY <3>1
      <3> QED
        BY <1>7, <3>2 DEF Sleep, NextRound, ClientTypeOK
    <2> QED
      BY <1>7, <2>1, <2>2 DEF Sleep, ClientTypeOK
  <1>8. ASSUME NEW t \in Threads, PopulateRoots(t)
        PROVE  ClientInv'
    <2>1. CASE NextRound(t) /\ UNCHANGED <<holder, result>>
      <3>1. LockOK' /\ pc' \in [Threads -> {"idle", "blocked", "add"} \cup InGet]
        BY <1>8, <2>1, GoOn DEF PopulateRoots, NextRound, ClientTypeOK, InGet
      <3>2. retry' \in [Threads -> 0 .. MaxUInt]
        BY <2>1, CallsAssumption DEF NextRound, ClientTypeOK
      <3> QED
        BY <1>8, <2>1, <3>1, <3>2 DEF PopulateRoots, ClientTypeOK
    <2>2. CASE Return(t, "std::exception", "win32") /\ UNCHANGED retry
      BY <1>8, <2>2, GoOut DEF PopulateRoots, ClientTypeOK, Inside, InGet
    <2> QED
      BY <1>8, <2>1, <2>2 DEF PopulateRoots
  <1>9. ASSUME NEW t \in Threads, TransferDone(t)
        PROVE  ClientInv'
    <2>1. PICK kind, reason : Return(t, kind, reason)
      BY <1>9 DEF TransferDone
    <2> QED
      BY <1>9, <2>1, GoOut DEF TransferDone, ClientTypeOK, Inside, InGet
  <1>10. CASE UNCHANGED clientVars
    BY <1>10 DEF clientVars, ClientTypeOK, LockOK
  <1> QED
    BY <1>1, <1>2, <1>3, <1>4, <1>5, <1>6, <1>7, <1>8, <1>9, <1>10
       DEF ClientWithAnyServer, ClientNext, Step, AnyServer, Finished

\* The invariant holds in every state of the library with any server.
THEOREM InvHolds == ClientSpec => []ClientInv
  BY InvInit, InvStep, PTL DEF ClientSpec

\* The variables of the library keep their types: the loop counter stays an
\* unsigned int, and s_sslCerts begins with what Init put there.
THEOREM ClientTypeCorrect == ClientSpec => []ClientTypeOK
  BY InvHolds, PTL DEF ClientInv

\* With s_lock held from the first line of GetEntitlement to its end, by
\* whatever exception it ends, one thread at most is in it.
THEOREM GetsAreSerialised == ClientSpec => []OneGetAtATime
  <1>1. ClientInv => OneGetAtATime
    <2> SUFFICES ASSUME ClientInv
                 PROVE  OneGetAtATime
      OBVIOUS
    <2> DEFINE S == {t \in Threads : pc[t] \in InGet}
    <2>1. \A t, u \in S : t = u
      BY DEF ClientInv, LockOK, Inside
    <2>2. CASE S = {}
      BY <2>2, FS_EmptySet DEF OneGetAtATime
    <2>3. CASE S # {}
      <3>1. PICK t \in S : S = {t}
        BY <2>1, <2>3
      <3> HIDE DEF S
      <3>2. Cardinality(S) = 1
        BY <3>1, FS_Singleton
      <3> QED
        BY <3>2 DEF OneGetAtATime, S
    <2> QED
      BY <2>2, <2>3
  <1> QED
    BY <1>1, InvHolds, PTL

\* AddSslCertificate cannot change the list under a GetEntitlement of another
\* thread, its pauses between two attempts included.
THEOREM CertsAreStable == ClientSpec => CertsStableDuringGet
  <1> DEFINE Stable == (\E t \in Threads : pc[t] \in InGet /\ pc'[t] \in InGet) => certs' = certs
  <1>1. ClientInv /\ [ClientWithAnyServer]_<<wire, clientVars>> => [Stable]_<<pc, certs>>
    <2> SUFFICES ASSUME ClientInv, [ClientWithAnyServer]_<<wire, clientVars>>
                 PROVE  Stable
      OBVIOUS
    <2>1. ASSUME NEW t \in Threads, AddSslCertificate(t), NEW u \in Threads, pc[u] \in InGet
          PROVE  FALSE
      BY <2>1 DEF AddSslCertificate, ClientInv, LockOK, Inside, InGet
    <2>2. ASSUME NEW t \in Threads, \E args \in GetCalls \cup AddCalls : Call(t, args)
          PROVE  certs' = certs
      BY <2>2 DEF Call
    <2>3. ASSUME NEW t \in Threads, Step(t)
          PROVE  AddSslCertificate(t) \/ certs' = certs
      BY <2>3 DEF Step, Lock, CheckUrl, Connect, TransferFailed, Sleep, PopulateRoots, TransferDone
    <2> QED
      BY <2>1, <2>2, <2>3 DEF ClientWithAnyServer, ClientNext, AnyServer, Finished, clientVars
  <1> QED
    BY <1>1, InvHolds, PTL DEF ClientSpec, CertsStableDuringGet

-----------------------------------------------------------------------------
(* The attempts of a call, and what is on the wire.                        *)

\* The steps of a GetEntitlement whose URL was accepted.
Looping == InGet \ {"get"}

Transfers(requests) ==
    [phase : {"posted", "answered", "failed"}, request : requests, action : {"none"},
     status : {0, 200, 400, 403, 500}, body : Bodies \cup {"none"}, error : Errors \cup {"none"}]

\* A thread has an exchange during a transfer only, with its own request.
ExchangeOK(t) ==
    LET request == RequestTo(call[t].url, call[t].token)
    IN  /\ pc[t] # "transfer" => wire[t] = NoExchange
        /\ pc[t] = "transfer" =>
              /\ wire[t] \in Transfers({NoRequest, request})
              /\ wire[t].phase = "posted" => wire[t].request = request
              /\ wire[t].phase = "failed" => wire[t].error \in Errors

Failed == [error : Errors, pause : 0 .. MaxUInt]

FailuresType ==
    /\ failures \in [Threads -> Seq(Failed)]
    /\ \A t \in Threads : pc[t] \in {"blocked", "get"} => failures[t] = <<>>

\* The first n attempts were followed by the pauses they ask for.
PausedAfter(t, n) ==
    \A i \in 1 .. n : failures[t][i].pause = IF failures[t][i].error = TimedOut THEN i ELSE 0

\* A call in its n-th round has failed n - 1 times, and once more when it is about to
\* go into the next round.
RoundOK(t) ==
    LET n == retry[t]
        last == failures[t][Len(failures[t])]
    IN  /\ n \in 1 .. call[t].retries + 1
        /\ PausedAfter(t, n - 1)
        /\ pc[t] \in {"connect", "transfer"} => Len(failures[t]) = n - 1
        /\ pc[t] \in {"sleep", "roots"} => n <= call[t].retries /\ Len(failures[t]) = n
        /\ pc[t] = "sleep" => last = Failure(TimedOut)
        /\ pc[t] = "roots" => last = Failure(Untrusted)

\* A call that gave up on a timeout has used its rounds.
GaveUp(t) ==
    /\ Len(failures[t]) = call[t].retries + 1
    /\ PausedAfter(t, call[t].retries)
    /\ failures[t][call[t].retries + 1] = Failure(TimedOut)

\* With UINT_MAX retries the counter wraps around, and a timeout never ends the call.
AttemptsOK(t) ==
    /\ pc[t] # "idle" => result[t] = Result("none", "none")
    /\ pc[t] \in Looping => UrlAccepted(call[t].url) /\ (call[t].retries = MaxUInt \/ RoundOK(t))
    /\ result[t] = Result("Exception", TimedOut) => GaveUp(t)

AttemptInv ==
    /\ wire = [c \in Clients |-> wire[c]]
    /\ result = [t \in Threads |-> result[t]]
    /\ FailuresType
    /\ \A t \in Threads : ExchangeOK(t) /\ AttemptsOK(t)

\* The state of a thread.
View(t) == <<wire[t], pc[t], call[t], retry[t], result[t], failures[t]>>

\* A step of one thread leaves the invariant of the others alone.
LEMMA OneThread ==
    ASSUME AttemptInv, NEW t \in Threads,
           wire' = [c \in Clients |-> wire'[c]],
           result' = [u \in Threads |-> result'[u]],
           FailuresType',
           \A u \in Threads \ {t} : View(u)' = View(u),
           ExchangeOK(t)', AttemptsOK(t)'
    PROVE  AttemptInv'
  <1>1. ASSUME NEW u \in Threads, u # t
        PROVE  ExchangeOK(u)' /\ AttemptsOK(u)'
    <2>1. /\ wire'[u] = wire[u] /\ pc'[u] = pc[u] /\ call'[u] = call[u]
          /\ retry'[u] = retry[u] /\ result'[u] = result[u] /\ failures'[u] = failures[u]
      BY <1>1 DEF View
    <2>2. ExchangeOK(u) /\ AttemptsOK(u)
      BY DEF AttemptInv
    <2>3. ExchangeOK(u)'
      BY <2>1, <2>2 DEF ExchangeOK
    <2>4. AttemptsOK(u)'
      BY <2>1, <2>2 DEF AttemptsOK, RoundOK, PausedAfter, GaveUp
    <2> QED
      BY <2>3, <2>4
  <1> QED
    BY <1>1 DEF AttemptInv

LEMMA AttemptInit == ClientStart => AttemptInv
  <1> SUFFICES ASSUME ClientStart
               PROVE  AttemptInv
    OBVIOUS
  <1> USE DEF ClientStart, ClientInit, WireInit
  <1>1. FailuresType
    BY DEF FailuresType
  <1>2. ASSUME NEW t \in Threads
        PROVE  ExchangeOK(t) /\ AttemptsOK(t)
    BY ThreadsAssumption DEF ExchangeOK, AttemptsOK, Looping, InGet, Result
  <1> QED
    BY <1>1, <1>2 DEF AttemptInv

\* An element of a sequence is replaced.
LEMMA ChangedAt ==
    ASSUME NEW S, NEW s \in Seq(S), NEW n, NEW x, n \in 1 .. Len(s) => x \in S
    PROVE  LET r == [s EXCEPT ![n] = x]
           IN  /\ r \in Seq(S) /\ Len(r) = Len(s)
               /\ \A i \in 1 .. Len(s) : r[i] = IF i = n THEN x ELSE s[i]
  <1>1. CASE n \in 1 .. Len(s)
    BY <1>1, ExceptSeq
  <1>2. CASE n \notin 1 .. Len(s)
    <2>1. s = [i \in 1 .. Len(s) |-> s[i]] /\ DOMAIN s = 1 .. Len(s)
      OBVIOUS
    <2>2. [s EXCEPT ![n] = x] = s
      BY <1>2, <2>1
    <2> QED
      BY <1>2, <2>2
  <1> QED
    BY <1>1, <1>2

\* A step that changes the failures of one thread.
LEMMA FailuresOfOne ==
    ASSUME FailuresType, NEW t \in Threads, NEW s \in Seq(Failed),
           failures' = [failures EXCEPT ![t] = s],
           \A u \in Threads \ {t} : pc'[u] = pc[u],
           pc'[t] \in {"blocked", "get"} => s = <<>>
    PROVE  FailuresType' /\ failures'[t] = s /\ \A u \in Threads \ {t} : failures'[u] = failures[u]
  BY DEF FailuresType

\* The rest of a state in which a thread is outside of its loop.
LEMMA OutsideLoop ==
    ASSUME NEW t \in Threads, ClientInv', pc'[t] \notin Looping, wire'[t] = NoExchange,
           pc'[t] # "idle" => result'[t] = Result("none", "none"),
           result'[t] # Result("Exception", TimedOut)
    PROVE  ExchangeOK(t)' /\ AttemptsOK(t)'
  BY DEF ExchangeOK, AttemptsOK, Looping, InGet

\* The loop counter counts on, as long as it does not wrap around.
LEMMA NextOne == ASSUME NEW n \in Nat, n < MaxUInt
                 PROVE  (n + 1) % (MaxUInt + 1) = n + 1
  BY CallsAssumption

\* A thread that begins another round.
LEMMA AnotherRound ==
    ASSUME ClientInv, AttemptInv, NEW t \in Threads, NextRound(t), pc[t] \in {"sleep", "roots"},
           UNCHANGED <<wire, call, result>>,
           FailuresType', Len(failures[t])' = Len(failures[t]),
           NEW n, n = retry[t], RoundOK(t) => PausedAfter(t, n)'
    PROVE  ExchangeOK(t)' /\ AttemptsOK(t)'
  <1>1. pc'[t] = "connect" /\ retry'[t] = (retry[t] + 1) % (MaxUInt + 1)
    BY DEF NextRound, Go, ClientInv, ClientTypeOK
  <1>2. ExchangeOK(t) /\ AttemptsOK(t) /\ pc[t] \in Looping
    BY DEF AttemptInv, Looping, InGet
  <1>3. ExchangeOK(t)'
    BY <1>1, <1>2 DEF ExchangeOK
  <1>4. ASSUME RoundOK(t), call[t].retries # MaxUInt
        PROVE  RoundOK(t)'
    <2>1. retry[t] \in Nat /\ retry[t] >= 1 /\ retry[t] <= call[t].retries /\ Len(failures[t]) = retry[t]
      BY <1>4, CallsAssumption DEF RoundOK, ClientInv, ClientTypeOK
    <2>2. call[t] \in GetCalls /\ call[t].retries \in 0 .. MaxUInt
      BY CallsAssumption DEF ClientInv, LockOK, InGet
    <2>3. n \in Nat /\ n < MaxUInt
      BY <1>4, <2>1, <2>2, CallsAssumption
    <2>4. retry'[t] = n + 1 /\ PausedAfter(t, n)' /\ call'[t] = call[t] /\ Len(failures'[t]) = n
      BY <1>1, <1>4, <2>1, <2>3, NextOne
    <2>5. retry'[t] - 1 = n /\ retry'[t] \in 1 .. call'[t].retries + 1
      BY <2>1, <2>2, <2>3, <2>4
    <2>6. PausedAfter(t, retry[t] - 1)'
      BY <2>4, <2>5 DEF PausedAfter
    <2> QED
      BY <1>1, <2>3, <2>4, <2>5, <2>6 DEF RoundOK
  <1> QED
    BY <1>1, <1>2, <1>3, <1>4 DEF AttemptsOK, Looping, InGet, Result

\* A thread that gives up: it was not in a pause, and its last failure is the reason.
LEMMA GivingUp ==
    ASSUME ClientInv, AttemptInv, NEW t \in Threads, TransferFailed(t), wire[t].error = TimedOut,
           ~InLoop(t)
    PROVE  GaveUp(t)'
  <1>1. AttemptsOK(t) /\ ExchangeOK(t) /\ pc[t] \in Looping
    BY DEF AttemptInv, TransferFailed, Looping, InGet
  <1>2. call[t].retries \in 0 .. MaxUInt /\ retry[t] \in 0 .. MaxUInt /\ call'[t] = call[t]
    BY CallsAssumption DEF TransferFailed, ClientInv, ClientTypeOK, LockOK, InGet
  <1>3. retry[t] = call[t].retries + 1 /\ RoundOK(t)
    BY <1>1, <1>2, CallsAssumption DEF InLoop, AttemptsOK, RoundOK
  <1>4. /\ failures[t] \in Seq(Failed)
        /\ Len(failures[t]) = call[t].retries /\ PausedAfter(t, call[t].retries)
    <2>1. Len(failures[t]) = retry[t] - 1 /\ PausedAfter(t, retry[t] - 1)
      BY <1>3 DEF TransferFailed, RoundOK
    <2>2. retry[t] - 1 = call[t].retries
      BY <1>2, <1>3
    <2> QED
      BY <2>1, <2>2 DEF AttemptInv, FailuresType
  <1>5. failures'[t] = Append(failures[t], Failure(TimedOut))
    BY DEF TransferFailed, AttemptInv, FailuresType
  <1>6. /\ Len(failures'[t]) = call[t].retries + 1
        /\ failures'[t][call[t].retries + 1] = Failure(TimedOut)
        /\ \A i \in 1 .. call[t].retries : failures'[t][i] = failures[t][i]
    BY <1>4, <1>5
  <1> QED
    BY <1>2, <1>4, <1>6 DEF GaveUp, PausedAfter

\* An attempt that failed, after which the call goes on.
LEMMA GoingOn ==
    ASSUME ClientInv, AttemptInv, NEW t \in Threads, TransferFailed(t), InLoop(t),
           WorthRetrying(wire[t].error)
    PROVE  AttemptsOK(t)'
  <1>1. AttemptsOK(t) /\ ExchangeOK(t) /\ pc[t] \in Looping
    BY DEF AttemptInv, TransferFailed, Looping, InGet
  <1>2. call[t].retries \in 0 .. MaxUInt /\ retry[t] \in 0 .. MaxUInt /\ call'[t] = call[t]
        /\ retry'[t] = retry[t] /\ result' = result
    BY CallsAssumption DEF TransferFailed, ClientInv, ClientTypeOK, LockOK, InGet
  <1>3. /\ pc'[t] = IF wire[t].error = Untrusted THEN "roots" ELSE "sleep"
        /\ wire[t].error \in {TimedOut, Untrusted} /\ TimedOut # Untrusted
        /\ failures'[t] = Append(failures[t], Failure(wire[t].error))
    BY DEF TransferFailed, WorthRetrying, Go, ClientInv, ClientTypeOK, AttemptInv, FailuresType,
           TimedOut, Untrusted
  <1>4. ASSUME RoundOK(t)
        PROVE  RoundOK(t)'
    <2> DEFINE n == retry[t]
    <2>1. /\ failures[t] \in Seq(Failed)
          /\ n \in Nat \ {0} /\ n <= call[t].retries /\ Len(failures[t]) = n - 1 /\ PausedAfter(t, n - 1)
      <3>1. failures[t] \in Seq(Failed)
        BY DEF AttemptInv, FailuresType
      <3>2. n \in 1 .. call[t].retries + 1 /\ n <= call[t].retries
        BY <1>4 DEF RoundOK, InLoop
      <3>3. Len(failures[t]) = n - 1 /\ PausedAfter(t, n - 1)
        BY <1>4 DEF RoundOK, TransferFailed
      <3> QED
        BY <1>2, <3>1, <3>2, <3>3
    <2>2. /\ Len(failures'[t]) = n /\ failures'[t][n] = Failure(wire[t].error)
          /\ \A i \in 1 .. n - 1 : failures'[t][i] = failures[t][i]
      BY <1>3, <2>1
    <2>3. PausedAfter(t, retry[t] - 1)'
      BY <1>2, <2>1, <2>2 DEF PausedAfter
    <2> QED
      BY <1>2, <1>3, <2>1, <2>2, <2>3 DEF RoundOK
  <1> QED
    BY <1>1, <1>2, <1>3, <1>4 DEF AttemptsOK, Looping, InGet, Result

LEMMA AttemptStep ==
    ClientInv /\ ClientInv' /\ AttemptInv /\ [ClientWithAnyServer]_<<wire, clientVars>> => AttemptInv'
  <1> SUFFICES ASSUME ClientInv, ClientInv', AttemptInv, [ClientWithAnyServer]_<<wire, clientVars>>
               PROVE  AttemptInv'
    OBVIOUS
  <1> USE ThreadsAssumption
  <1>0. /\ pc = [t \in Threads |-> pc[t]] /\ call = [t \in Threads |-> call[t]]
        /\ retry = [t \in Threads |-> retry[t]] /\ failures = [t \in Threads |-> failures[t]]
        /\ wire = [c \in Clients |-> wire[c]] /\ result = [t \in Threads |-> result[t]]
    BY DEF ClientInv, ClientTypeOK, AttemptInv, FailuresType
  <1>1. ASSUME NEW t \in Threads, NEW args \in GetCalls \cup AddCalls, Call(t, args)
        PROVE  AttemptInv'
    <2>1. FailuresType' /\ \A u \in Threads \ {t} : View(u)' = View(u)
      <3>1. \A u \in Threads \ {t} : pc'[u] = pc[u]
        BY <1>0, <1>1 DEF Call, Go
      <3>2. <<>> \in Seq(Failed)
        OBVIOUS
      <3>3. FailuresType' /\ \A u \in Threads \ {t} : failures'[u] = failures[u]
        BY <1>1, <3>1, <3>2, FailuresOfOne DEF Call, AttemptInv
      <3> QED
        BY <1>0, <1>1, <3>1, <3>3 DEF Call, View
    <2>2. ExchangeOK(t)' /\ AttemptsOK(t)'
      <3>1. /\ pc'[t] = "blocked" /\ result'[t] = Result("none", "none")
            /\ wire'[t] = NoExchange
        BY <1>0, <1>1 DEF Call, Go, AttemptInv, ExchangeOK
      <3> QED
        BY <3>1, OutsideLoop DEF Looping, InGet, Result
    <2> QED
      BY <1>0, <1>1, <2>1, <2>2, OneThread DEF Call
  <1>2. ASSUME NEW t \in Threads, Lock(t)
        PROVE  AttemptInv'
    <2>0. call[t].op \in {"get", "add"}
      BY <1>2, CallsAssumption DEF Lock, ClientInv, LockOK
    <2>1. FailuresType' /\ \A u \in Threads \ {t} : View(u)' = View(u)
      BY <1>0, <1>2, <2>0 DEF Lock, Go, View, FailuresType, AttemptInv
    <2>2. ExchangeOK(t)' /\ AttemptsOK(t)'
      <3>1. /\ pc'[t] \in {"get", "add"} /\ result'[t] = Result("none", "none")
            /\ wire'[t] = NoExchange
        BY <1>0, <1>2, <2>0 DEF Lock, Go, AttemptInv, ExchangeOK, AttemptsOK
      <3> QED
        BY <3>1, OutsideLoop DEF Looping, InGet, Result
    <2> QED
      BY <1>0, <1>2, <2>1, <2>2, OneThread DEF Lock
  <1>3. ASSUME NEW t \in Threads, AddSslCertificate(t)
        PROVE  AttemptInv'
    <2>1. FailuresType' /\ \A u \in Threads \ {t} : View(u)' = View(u)
      BY <1>0, <1>3 DEF AddSslCertificate, Return, Go, View, FailuresType, AttemptInv
    <2>2. ExchangeOK(t)' /\ AttemptsOK(t)'
      <3>1. /\ pc'[t] = "idle" /\ result'[t] \in {Result("added", "none"), Result("Exception", "thumbprint")}
            /\ wire'[t] = NoExchange
        BY <1>0, <1>3 DEF AddSslCertificate, Return, Go, AttemptInv, ExchangeOK
      <3> QED
        BY <3>1, OutsideLoop DEF Looping, InGet, Result, TimedOut
    <2> QED
      BY <1>0, <1>3, <2>1, <2>2, OneThread DEF AddSslCertificate, Return
  <1>4. ASSUME NEW t \in Threads, CheckUrl(t)
        PROVE  AttemptInv'
    <2>1. FailuresType' /\ \A u \in Threads \ {t} : View(u)' = View(u)
      BY <1>0, <1>4 DEF CheckUrl, Return, Go, View, FailuresType, AttemptInv
    <2>2. wire'[t] = NoExchange /\ failures[t] = <<>>
      BY <1>4 DEF CheckUrl, AttemptInv, ExchangeOK, FailuresType
    <2>3. CASE UrlAccepted(call[t].url)
      <3>1. /\ pc'[t] = "connect" /\ retry'[t] = 1 /\ result'[t] = Result("none", "none")
            /\ call' = call /\ failures'[t] = <<>>
        BY <1>0, <1>4, <2>2, <2>3 DEF CheckUrl, Go, AttemptInv, AttemptsOK
      <3>2. call[t].retries \in 0 .. MaxUInt
        BY <1>4, CallsAssumption DEF CheckUrl, ClientInv, LockOK, InGet
      <3>3. RoundOK(t)'
        BY <3>1, <3>2, CallsAssumption DEF RoundOK, PausedAfter
      <3>4. ExchangeOK(t)'
        BY <2>2, <3>1 DEF ExchangeOK
      <3>5. AttemptsOK(t)'
        BY <2>3, <3>1, <3>3 DEF AttemptsOK, Looping, InGet, Result
      <3> QED
        BY <1>0, <1>4, <2>1, <2>3, <3>4, <3>5, OneThread DEF CheckUrl
    <2>4. CASE ~UrlAccepted(call[t].url)
      <3>1. pc'[t] = "idle" /\ result'[t] = Result("Exception", "url")
        BY <1>0, <1>4, <2>4 DEF CheckUrl, Return, Go
      <3>2. ExchangeOK(t)' /\ AttemptsOK(t)'
        BY <2>2, <3>1, OutsideLoop DEF Looping, InGet, Result, TimedOut
      <3> QED
        BY <1>0, <1>4, <2>1, <2>4, <3>2, OneThread DEF CheckUrl, Return
    <2> QED
      BY <2>3, <2>4
  <1>5. ASSUME NEW t \in Threads, Connect(t)
        PROVE  AttemptInv'
    <2>1. FailuresType' /\ \A u \in Threads \ {t} : View(u)' = View(u)
      BY <1>0, <1>5 DEF Connect, Post, Fail, Go, View, FailuresType, AttemptInv
    <2>2. /\ wire[t] = NoExchange /\ AttemptsOK(t) /\ pc'[t] = "transfer"
          /\ call'[t] = call[t] /\ retry'[t] = retry[t] /\ result'[t] = result[t]
          /\ failures'[t] = failures[t]
      BY <1>0, <1>5 DEF Connect, Go, AttemptInv, ExchangeOK
    <2>3. AttemptsOK(t)'
      BY <1>5, <2>2 DEF Connect, AttemptsOK, Looping, InGet, RoundOK, PausedAfter, Result
    <2>4. ExchangeOK(t)'
      <3> DEFINE request == RequestTo(call[t].url, call[t].token)
      <3>1. CASE Post(t, request)
        <4>1. wire'[t] = Exchange("posted", request)
          BY <1>0, <3>1 DEF Post
        <4> HIDE DEF request
        <4>2. RequestTo(call'[t].url, call'[t].token) = request
          BY <2>2 DEF request
        <4> QED
          BY <2>2, <4>1, <4>2 DEF ExchangeOK, Transfers, Exchange
      <3>2. ASSUME NEW error \in {TimedOut, Untrusted, Refused}, Fail(t, error)
            PROVE  ExchangeOK(t)'
        <4>1. wire'[t] = [NoExchange EXCEPT !.phase = "failed", !.error = error]
          BY <1>0, <2>2, <3>2 DEF Fail
        <4>2. error \in Errors
          BY DEF Errors
        <4>3. wire'[t] = [phase |-> "failed", request |-> NoRequest, action |-> "none",
                          status |-> 0, body |-> "none", error |-> error]
          <5>1. NoExchange = [phase |-> "none", request |-> NoRequest, action |-> "none",
                              status |-> 0, body |-> "none", error |-> "none"]
            BY DEF NoExchange, Exchange
          <5> QED
            BY <4>1, <5>1
        <4>4. wire'[t] \in Transfers({NoRequest, RequestTo(call'[t].url, call'[t].token)})
          BY <4>3, <4>2 DEF Transfers
        <4>5. wire'[t].phase = "failed" /\ wire'[t].error \in Errors
          BY <4>3, <4>2
        <4> QED
          BY <2>2, <4>4, <4>5 DEF ExchangeOK
      <3> QED
        BY <1>5, <3>1, <3>2 DEF Connect
    <2> QED
      BY <1>0, <1>5, <2>1, <2>3, <2>4, OneThread DEF Connect, Post, Fail
  <1>6. ASSUME NEW t \in Threads, TransferFailed(t)
        PROVE  AttemptInv'
    <2>0. wire[t].error \in Errors /\ 0 \in 0 .. MaxUInt
      <3>1. pc[t] = "transfer" /\ wire[t].phase = "failed"
        BY <1>6 DEF TransferFailed
      <3>2. ExchangeOK(t)
        BY DEF AttemptInv
      <3> QED
        BY <3>1, <3>2, CallsAssumption DEF ExchangeOK
    <2>1. pc'[t] \notin {"blocked", "get"} /\ pc' = [pc EXCEPT ![t] = pc'[t]]
      BY <1>0, <1>6 DEF TransferFailed, Return, Go
    <2>2. FailuresType'
      <3>1. Failure(wire[t].error) \in Failed
        BY <2>0 DEF Failure, Failed
      <3>2. failures' = [failures EXCEPT ![t] = Append(@, Failure(wire[t].error))]
        BY <1>6 DEF TransferFailed
      <3> QED
        <4>1. failures' = [failures EXCEPT ![t] = Append(failures[t], Failure(wire[t].error))]
          BY <3>2
        <4>2. Append(failures[t], Failure(wire[t].error)) \in Seq(Failed)
          BY <3>1 DEF FailuresType, AttemptInv
        <4> QED
          BY <1>0, <2>1, <4>1, <4>2, FailuresOfOne DEF AttemptInv
    <2>3. \A u \in Threads \ {t} : View(u)' = View(u)
      BY <1>0, <1>6 DEF TransferFailed, Return, Go, Hangup, View
    <2>4. wire'[t] = NoExchange /\ pc'[t] # "transfer"
      BY <1>0, <1>6 DEF TransferFailed, Return, Go, Hangup
    <2>5. ExchangeOK(t)'
      BY <2>4 DEF ExchangeOK
    <2>6. AttemptsOK(t)'
      <3>1. CASE InLoop(t) /\ WorthRetrying(wire[t].error)
        BY <1>6, <3>1, GoingOn
      <3>2. CASE ~(InLoop(t) /\ WorthRetrying(wire[t].error))
        <4>1. pc'[t] = "idle" /\ result'[t] = Result("Exception", wire[t].error)
          BY <1>0, <1>6, <3>2 DEF TransferFailed, Return, Go
        <4>2. ASSUME result'[t] = Result("Exception", TimedOut)
              PROVE  GaveUp(t)'
          BY <1>6, <3>2, <4>1, <4>2, GivingUp DEF Result, WorthRetrying
        <4> QED
          BY <4>1, <4>2 DEF AttemptsOK, Looping, InGet
      <3> QED
        BY <3>1, <3>2
    <2> QED
      BY <1>0, <1>6, <2>2, <2>3, <2>5, <2>6, OneThread DEF TransferFailed, Return, Hangup
  <1>7. ASSUME NEW t \in Threads, Sleep(t)
        PROVE  AttemptInv'
    <2> DEFINE last == Len(failures[t])
    <2>1. /\ failures[t] \in Seq(Failed)
          /\ retry[t] \in 0 .. MaxUInt
      BY DEF AttemptInv, FailuresType, ClientInv, ClientTypeOK
    <2>2. failures'[t] = [failures[t] EXCEPT ![last] = [failures[t][last] EXCEPT !.pause = retry[t]]]
      BY <1>0, <1>7 DEF Sleep
    <2>3. /\ failures'[t] \in Seq(Failed)
          /\ Len(failures'[t]) = last
          /\ \A i \in 1 .. last : /\ i # last => failures'[t][i] = failures[t][i]
                                  /\ i = last => failures'[t][i] = [failures[t][i] EXCEPT !.pause = retry[t]]
      <3>1. ASSUME NEW i \in 1 .. last
            PROVE  [failures[t][i] EXCEPT !.pause = retry[t]] \in Failed
        <4>1. failures[t][i] \in Failed
          BY <2>1
        <4> QED
          BY <2>1, <4>1 DEF Failed
      <3> QED
        BY <2>1, <2>2, <3>1, ChangedAt
    <2>4. FailuresType' /\ \A u \in Threads \ {t} : View(u)' = View(u)
      <3>1. pc'[t] = "connect" /\ \A u \in Threads \ {t} : pc'[u] = pc[u]
        BY <1>0, <1>7 DEF Sleep, NextRound, Go
      <3>2. failures' = [failures EXCEPT ![t] = failures'[t]]
        BY <1>0, <1>7 DEF Sleep
      <3>3. FailuresType' /\ \A u \in Threads \ {t} : failures'[u] = failures[u]
        BY <2>3, <3>1, <3>2, FailuresOfOne DEF AttemptInv
      <3> QED
        BY <1>0, <1>7, <3>1, <3>3 DEF Sleep, NextRound, View
    <2>5. ASSUME RoundOK(t), NEW n, n = retry[t]
          PROVE  PausedAfter(t, n)'
      <3>1. /\ n \in Nat \ {0} /\ last = n /\ PausedAfter(t, n - 1)
            /\ failures[t][n] = Failure(TimedOut)
        BY <1>7, <2>1, <2>5 DEF RoundOK, Sleep
      <3>2. ASSUME NEW i \in 1 .. n
            PROVE  failures'[t][i].pause = IF failures'[t][i].error = TimedOut THEN i ELSE 0
        <4>1. CASE i = n
          <5>1. failures'[t][i] = [failures[t][i] EXCEPT !.pause = n]
            BY <2>3, <2>5, <3>1, <4>1
          <5> QED
            BY <3>1, <4>1, <5>1 DEF Failure
        <4>2. CASE i # n
          <5>1. i \in 1 .. n - 1 /\ i \in 1 .. last /\ i # last
            BY <3>1, <4>2
          <5>2. failures'[t][i] = failures[t][i]
            BY <2>3, <5>1
          <5> QED
            BY <3>1, <5>1, <5>2 DEF PausedAfter
        <4> QED
          BY <4>1, <4>2
      <3> QED
        BY <3>2 DEF PausedAfter
    <2>6. ExchangeOK(t)' /\ AttemptsOK(t)'
      BY <1>7, <2>3, <2>4, <2>5, AnotherRound DEF Sleep
    <2> QED
      BY <1>0, <1>7, <2>4, <2>6, OneThread DEF Sleep
  <1>8. ASSUME NEW t \in Threads, PopulateRoots(t)
        PROVE  AttemptInv'
    <2>1. FailuresType' /\ \A u \in Threads \ {t} : View(u)' = View(u)
      BY <1>0, <1>8 DEF PopulateRoots, NextRound, Return, Go, View, FailuresType, AttemptInv
    <2>2. CASE NextRound(t) /\ UNCHANGED <<holder, result>>
      <3>1. ASSUME RoundOK(t), NEW n, n = retry[t]
            PROVE  PausedAfter(t, n)'
        <4>1. /\ n \in 1 .. n /\ \A i \in 1 .. n : i = n \/ i \in 1 .. n - 1
              /\ PausedAfter(t, n - 1) /\ failures[t][n] = Failure(Untrusted)
              /\ failures' = failures
          BY <1>8, <3>1 DEF RoundOK, PopulateRoots, ClientInv, ClientTypeOK
        <4> QED
          BY <4>1 DEF PausedAfter, Failure, TimedOut, Untrusted
      <3>2. ExchangeOK(t)' /\ AttemptsOK(t)'
        BY <1>8, <2>1, <2>2, <3>1, AnotherRound DEF PopulateRoots
      <3> QED
        BY <1>0, <1>8, <2>1, <2>2, <3>2, OneThread DEF PopulateRoots
    <2>3. CASE Return(t, "std::exception", "win32") /\ UNCHANGED retry
      <3>1. /\ pc'[t] = "idle" /\ result'[t] = Result("std::exception", "win32")
            /\ wire'[t] = NoExchange
        BY <1>0, <1>8, <2>3 DEF PopulateRoots, Return, Go, AttemptInv, ExchangeOK
      <3>2. ExchangeOK(t)' /\ AttemptsOK(t)'
        BY <3>1, OutsideLoop DEF Looping, InGet, Result, TimedOut
      <3> QED
        BY <1>0, <1>8, <2>1, <2>3, <3>2, OneThread DEF PopulateRoots, Return
    <2> QED
      BY <1>8, <2>2, <2>3 DEF PopulateRoots
  <1>9. ASSUME NEW t \in Threads, TransferDone(t)
        PROVE  AttemptInv'
    <2>1. PICK kind, reason : Return(t, kind, reason) /\ reason \in {"chain", "status", "json", "none"}
      BY <1>9 DEF TransferDone
    <2>2. FailuresType' /\ \A u \in Threads \ {t} : View(u)' = View(u)
      BY <1>0, <1>9, <2>1 DEF TransferDone, Return, Go, Hangup, View, FailuresType, AttemptInv
    <2>3. pc'[t] = "idle" /\ result'[t] = Result(kind, reason) /\ wire'[t] = NoExchange
      BY <1>0, <1>9, <2>1 DEF TransferDone, Return, Go, Hangup
    <2>4. ExchangeOK(t)' /\ AttemptsOK(t)'
      BY <2>1, <2>3, OutsideLoop DEF Looping, InGet, Result, TimedOut
    <2> QED
      BY <1>0, <1>9, <2>1, <2>2, <2>4, OneThread DEF TransferDone, Return, Hangup
  <1>10. ASSUME NEW t \in Threads, AnyServer(t)
         PROVE  AttemptInv'
    <2>0. wire' = [wire EXCEPT ![t] = wire'[t]]
      <3>1. ASSUME NEW status, NEW body, Answer(t, status, body)
            PROVE  wire' = [wire EXCEPT ![t] = wire'[t]]
        BY <1>0, <3>1 DEF Answer
      <3>2. CASE Fail(t, Reset)
        BY <1>0, <3>2 DEF Fail
      <3> QED
        BY <1>10, <3>1, <3>2 DEF AnyServer
    <2>1. FailuresType' /\ \A u \in Threads \ {t} : View(u)' = View(u)
      <3>1. FailuresType'
        BY <1>10 DEF AnyServer, clientVars, FailuresType, AttemptInv
      <3>2. \A u \in Threads \ {t} : wire'[u] = wire[u]
        BY <1>0, <2>0
      <3> QED
        BY <1>10, <3>1, <3>2 DEF AnyServer, clientVars, View
    <2>2. pc[t] = "transfer" /\ wire[t].phase = "posted" /\ UNCHANGED clientVars
      <3>1. wire[t].phase = "posted" /\ UNCHANGED clientVars
        BY <1>10 DEF AnyServer
      <3>2. pc[t] # "transfer" => wire[t] = NoExchange
        BY DEF AttemptInv, ExchangeOK
      <3> QED
        BY <3>1, <3>2 DEF NoExchange, Exchange
    <2>3. AttemptsOK(t)'
      BY <2>2 DEF clientVars, AttemptInv, AttemptsOK, RoundOK, PausedAfter, GaveUp
    <2>4. ExchangeOK(t)'
      <3> DEFINE request == RequestTo(call[t].url, call[t].token)
      <3> DEFINE P == {"posted", "answered", "failed"}
                 S == {0, 200, 400, 403, 500}
                 B == Bodies \cup {"none"}
                 E == Errors \cup {"none"}
                 Q == {NoRequest, request}
                 A == {"none"}
                 Records == [phase : P, request : Q, action : A, status : S, body : B, error : E]
      <3>1. wire[t] \in Records
        BY <2>2 DEF AttemptInv, ExchangeOK, Transfers
      <3>2. RequestTo(call'[t].url, call'[t].token) = request /\ pc'[t] = "transfer"
        BY <2>2 DEF clientVars
      <3> HIDE DEF request
      <3>3. ASSUME NEW status \in {200, 400, 403, 500}, NEW body \in Bodies, Answer(t, status, body)
            PROVE  ExchangeOK(t)'
        <4>1. wire'[t] = [wire[t] EXCEPT !.phase = "answered", !.status = status, !.body = body]
          BY <1>0, <3>3 DEF Answer
        <4>2. "answered" \in P /\ status \in S /\ body \in B
          OBVIOUS
        <4>3. wire'[t] \in Records /\ wire'[t].phase = "answered"
          <5> HIDE DEF P, S, B, E, Q, A
          <5>1. [wire[t] EXCEPT !.phase = "answered", !.status = status, !.body = body] \in Records
            BY <3>1, <4>2
          <5>2. [wire[t] EXCEPT !.phase = "answered", !.status = status, !.body = body].phase = "answered"
            BY <3>1
          <5> QED
            BY <4>1, <5>1, <5>2
        <4> QED
          BY <3>2, <4>3 DEF ExchangeOK, Transfers
      <3>4. CASE Fail(t, Reset)
        <4>1. wire'[t] = [wire[t] EXCEPT !.phase = "failed", !.error = Reset]
          BY <1>0, <3>4 DEF Fail
        <4>2. "failed" \in P /\ Reset \in E /\ Reset \in Errors
          BY DEF Errors
        <4>3. wire'[t] \in Records /\ wire'[t].phase = "failed" /\ wire'[t].error = Reset
          <5> HIDE DEF P, S, B, E, Q, A
          <5> QED
            BY <3>1, <4>1, <4>2
        <4> QED
          BY <3>2, <4>2, <4>3 DEF ExchangeOK, Transfers
      <3> QED
        BY <1>10, <3>3, <3>4 DEF AnyServer
    <2> QED
      BY <1>0, <2>0, <2>1, <2>2, <2>3, <2>4, OneThread DEF clientVars
  <1>11. CASE UNCHANGED <<wire, clientVars>>
    <2>1. \A t \in Threads : ExchangeOK(t)' = ExchangeOK(t) /\ AttemptsOK(t)' = AttemptsOK(t)
      BY <1>11 DEF clientVars, ExchangeOK, AttemptsOK, RoundOK, PausedAfter, GaveUp
    <2> QED
      BY <1>11, <2>1 DEF clientVars, AttemptInv, FailuresType
  <1> QED
    BY <1>1, <1>2, <1>3, <1>4, <1>5, <1>6, <1>7, <1>8, <1>9, <1>10, <1>11
       DEF ClientWithAnyServer, ClientNext, Step, Finished

LEMMA AttemptInvHolds == ClientSpec => []AttemptInv
  BY InvHolds, AttemptInit, AttemptStep, PTL DEF ClientSpec

\* The loop of GetEntitlement and the attempt behind it: a call that gives up on a
\* timeout has failed retries + 1 times and paused after each that timed out.
THEOREM GivesUpAfterAllAttempts == ClientSpec => []GivesUpLast
  <1>1. ClientInv /\ AttemptInv => GivesUpLast
    BY DEF ClientInv, AttemptInv, AttemptsOK, GaveUp, PausedAfter, GivesUpLast
  <1> QED
    BY <1>1, InvHolds, AttemptInvHolds, PTL

\* The slashes of a path without its last character are at least as many as its
\* names after the first: each follows a slash.
LEMMA FewNames ==
    ASSUME NEW path, IsPath(path), ~TooDeep(path)
    PROVE  Cardinality({i \in DOMAIN path : path[i] # "/"}) <= 2
  <1> DEFINE Names == {i \in 1 .. Len(path) : path[i] # "/"}
             Later == Names \ {1}
             Slashes == {i \in 1 .. Len(path) - 1 : path[i] = "/"}
             f == [i \in Later |-> i - 1]
  <1>1. Len(path) \in Nat /\ DOMAIN path = 1 .. Len(path)
    BY DEF IsPath
  <1>2. IsFiniteSet(Slashes) /\ IsFiniteSet(Names)
    <2>1. IsFiniteSet(1 .. Len(path)) /\ IsFiniteSet(1 .. Len(path) - 1)
      BY <1>1, FS_Interval
    <2> QED
      BY <2>1, FS_Subset
  <1>3. Cardinality(Slashes) \in Nat /\ Cardinality(Slashes) <= 1
    BY <1>2, FS_CardinalityType DEF TooDeep
  <1>4. f \in Injection(Later, Slashes)
    <2>1. ASSUME NEW i \in Later
          PROVE  i - 1 \in Slashes
      BY <1>1 DEF IsPath
    <2>2. \A i, j \in Later : i - 1 = j - 1 => i = j
      BY <1>1
    <2> QED
      BY <2>1, <2>2 DEF Injection, IsInjective
  <1>5. IsFiniteSet(Later) /\ Cardinality(Later) \in Nat /\ Cardinality(Later) <= 1
    <2> HIDE DEF f, Slashes, Later
    <2>1. IsFiniteSet(Later)
      BY <1>2, FS_Subset DEF Later
    <2>2. Cardinality(Later) <= Cardinality(Slashes)
      BY <1>2, <1>4, FS_Injection DEF ExistsInjection
    <2> QED
      BY <1>3, <2>1, <2>2, FS_CardinalityType
  <1>6. Cardinality(Names) <= 2
    <2>1. Cardinality(Later \cup {1}) <= 2
      <3> HIDE DEF Later
      <3> QED
        BY <1>5, FS_AddElement
    <2>2. Names \subseteq Later \cup {1} /\ IsFiniteSet(Later \cup {1})
      <3> HIDE DEF Names
      <3> QED
        BY <1>5, FS_AddElement
    <2>3. Cardinality(Names) <= Cardinality(Later \cup {1})
      <3> HIDE DEF Names, Later
      <3> QED
        BY <2>2, FS_Subset
    <2> QED
      <3> HIDE DEF Names, Later
      <3> QED
        BY <1>2, <1>5, <2>1, <2>2, <2>3, FS_CardinalityType
  <1> QED
    BY <1>1, <1>6

\* The slash is added only where there is none.
LEMMA OneSlash ==
    ASSUME NEW path, IsPath(path), ~DoubleSlash(path)
    PROVE  ~DoubleSlash(WithTrailingSlash(path))
  <1>1. CASE path # <<>> /\ path[Len(path)] = "/"
    BY <1>1 DEF WithTrailingSlash
  <1>2. CASE ~(path # <<>> /\ path[Len(path)] = "/")
    <2> DEFINE more == Append(path, "/")
    <2>1. /\ Len(path) \in Nat /\ Len(more) = Len(path) + 1
          /\ \A i \in 1 .. Len(path) : more[i] = path[i]
          /\ Len(path) = 0 => path = <<>>
      BY DEF IsPath
    <2>2. ASSUME NEW i \in 1 .. Len(more) - 1, more[i] = "/", more[i + 1] = "/"
          PROVE  FALSE
      <3> HIDE DEF more
      <3>1. i \in 1 .. Len(path) /\ path[i] = "/"
        BY <2>1, <2>2
      <3>2. CASE i = Len(path)
        BY <1>2, <2>1, <3>1, <3>2
      <3>3. CASE i # Len(path)
        <4>1. i \in 1 .. Len(path) - 1 /\ i + 1 \in 1 .. Len(path)
          BY <2>1, <3>1, <3>3
        <4>2. path[i + 1] = "/"
          BY <2>1, <2>2, <4>1
        <4> QED
          BY <3>1, <4>1, <4>2 DEF DoubleSlash
      <3> QED
        BY <3>2, <3>3
    <2> QED
      BY <1>2, <2>2 DEF WithTrailingSlash, DoubleSlash
  <1> QED
    BY <1>1, <1>2

\* What GetEntitlement does with a URL before it posts to it: the search for the
\* slashes lets one name after the host pass, and the resource is found under it.
THEOREM AcceptedUrlsReachServer == ClientSpec => []UrlsReachServer
  <1>1. ClientInv /\ AttemptInv => UrlsReachServer
    <2> SUFFICES ASSUME ClientInv, AttemptInv, NEW t \in Threads, wire[t].phase = "posted"
                 PROVE  LET url == call[t].url
                        IN  /\ url.https /\ ~url.query
                            /\ Cardinality({i \in DOMAIN url.path : url.path[i] # "/"}) <= 2
                            /\ ~DoubleSlash(url.path) => wire[t].request.path = "collection"
      BY DEF UrlsReachServer
    <2>1. ExchangeOK(t) /\ AttemptsOK(t)
      BY DEF AttemptInv
    <2>2. pc[t] = "transfer" /\ wire[t].request = RequestTo(call[t].url, call[t].token)
      BY <2>1 DEF ExchangeOK, NoExchange, Exchange
    <2>3. UrlAccepted(call[t].url) /\ IsPath(call[t].url.path)
      BY <2>1, <2>2, PathsAssumption DEF AttemptsOK, Looping, InGet, ClientInv, LockOK
    <2>4. ~DoubleSlash(call[t].url.path) => wire[t].request.path = "collection"
      BY <2>2, <2>3, OneSlash DEF RequestTo
    <2> QED
      BY <2>3, <2>4, FewNames DEF UrlAccepted
  <1> QED
    BY <1>1, InvHolds, AttemptInvHolds, PTL
=============================================================================
