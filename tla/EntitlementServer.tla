---------------------------- MODULE EntitlementServer ---------------------------
(***************************************************************************)
(* The leased-entitlement operations of the server, run concurrently: each *)
(* HTTP request is handled on a thread of its own, every handler is a      *)
(* chain of steps (AcquireRequestHandler, RenewRequestHandler,             *)
(* ReleaseRequestHandler) and the only state the threads share is the      *)
(* singleton EntitlementStore.  A step here is one access to shared state  *)
(* (the store or the clock) with the local computation around it.          *)
(***************************************************************************)
EXTENDS EntitlementStore, FiniteSets

CONSTANTS
    Requests,            \* the requests a behaviour may contain (a bound)
    AcquireInputs,       \* bodies sent to POST /softwareEntitlements
    RenewInputs,         \* bodies sent to POST /softwareEntitlements/{id}
    Unissued,            \* an identifier the server never generated
    StartTime, EndTime,  \* the clock runs between these (a bound)
    LastTime             \* DateTimeOffset.MaxValue; 0 is its MinValue

\* What XmlConvert.ToTimeSpan makes of the duration text of a body.
Duration == [form : {"missing", "malformed", "overflow", "span"}, span : Int]

ASSUME InputsAssumption ==
    /\ \A in \in AcquireInputs :
          /\ in.op = "acquire" /\ in.body \in BOOLEAN /\ in.duration \in Duration
          /\ in.complete \in BOOLEAN /\ in.entitled \in BOOLEAN
    /\ \A in \in RenewInputs :
          in.op = "renew" /\ in.body \in BOOLEAN /\ in.duration \in Duration

ASSUME RequestsAssumption == IsFiniteSet(Requests)

ASSUME UnissuedAssumption == Unissued \notin EntitlementIds

ASSUME ClockAssumption ==
    /\ StartTime \in Nat /\ EndTime \in Nat /\ LastTime \in Nat
    /\ StartTime <= EndTime /\ EndTime <= LastTime

VARIABLES
    clock,      \* DateTimeOffset.UtcNow
    pc,         \* how far the handler of a request has come
    input,      \* the request as it was bound by the controller
    target,     \* the handler's entitlementId
    time,       \* acquisitionTime, renewalTime or releaseTime
    seen,       \* currentEntitlementProperties of TryUpdate
    answer,     \* the response
    before      \* history: the requests already answered when this one arrived

vars == <<store, clock, pc, input, target, time, seen, answer, before>>

ReleaseInput == [op |-> "release"]
NoInput == [op |-> "none"]

Inputs == AcquireInputs \cup RenewInputs \cup {ReleaseInput}

Statuses == {"Ok", "NoContent", "BadRequest", "Denied", "NotFound",
             "AlreadyReleased", "InternalError", "Exception"}
NoAnswer == [status |-> "none", expiry |-> NoTime]

\* DateTimeOffset.Add throws ArgumentOutOfRangeException outside the calendar.
InCalendar(t) == t \in 0 .. LastTime

-----------------------------------------------------------------------------
Init ==
    /\ StoreInit
    /\ clock = StartTime
    /\ pc = [r \in Requests |-> "idle"]
    /\ input = [r \in Requests |-> NoInput]
    /\ target = [r \in Requests |-> Unissued]
    /\ time = [r \in Requests |-> 0]
    /\ seen = [r \in Requests |-> NullEntitlement]
    /\ answer = [r \in Requests |-> NoAnswer]
    /\ before = [r \in Requests |-> {}]

Answered == {r \in Requests : pc[r] = "answered"}
Succeeded(r) == answer[r].status \in {"Ok", "NoContent"}

\* The identifiers clients have been told of.
Issued == {target[q] : q \in {r \in Requests : input[r].op = "acquire" /\ Succeeded(r)}}

\* Guid.NewGuid never repeats a value.
FreshIds == EntitlementIds \ (DOMAIN store \cup {target[q] : q \in Requests})

\* A bound: no more acquisitions than there are identifiers to give out.
MayAcquire ==
    Cardinality({q \in Requests : input[q].op = "acquire"}) < Cardinality(EntitlementIds)

Receive(r, in, id) ==
    /\ pc[r] = "idle"
    /\ IF in.op = "acquire" THEN id = Unissued /\ MayAcquire
                            ELSE id \in Issued \cup {Unissued}
    /\ pc' = [pc EXCEPT ![r] = "received"]
    /\ input' = [input EXCEPT ![r] = in]
    /\ target' = [target EXCEPT ![r] = id]
    /\ before' = [before EXCEPT ![r] = Answered]
    /\ UNCHANGED <<store, clock, time, seen, answer>>

At(r, op, step) == pc[r] = step /\ input[r].op = op

Proceed(r, step) ==
    /\ pc' = [pc EXCEPT ![r] = step]
    /\ UNCHANGED answer

Reply(r, status, expiry) ==
    /\ pc' = [pc EXCEPT ![r] = "answered"]
    /\ answer' = [answer EXCEPT ![r] = [status |-> status, expiry |-> expiry]]

\* renewalTime.Add(duration) and acquisitionTime.Add(duration).
Expiry(r, from) == from + input[r].duration.span

\* The outcome of ParseDuration on a body, "none" when it yields a TimeSpan: a
\* null body is dereferenced, and only a FormatException is caught.
DurationRefusal(in) ==
    IF ~in.body \/ in.duration.form = "overflow" THEN "Exception"
    ELSE IF in.duration.form \in {"missing", "malformed"} THEN "BadRequest"
    ELSE "none"

-----------------------------------------------------------------------------
(* Acquire                                                                 *)

\* ParseDuration, ExtractVerificationRequest and Verify, in this order.
AcquireRefusal(in) ==
    IF DurationRefusal(in) # "none" THEN DurationRefusal(in)
    ELSE IF ~in.complete THEN "BadRequest"
    ELSE IF ~in.entitled THEN "Denied"
    ELSE "none"

RefuseAcquire(r) ==
    /\ At(r, "acquire", "received")
    /\ AcquireRefusal(input[r]) # "none"
    /\ Reply(r, AcquireRefusal(input[r]), NoTime)
    /\ UNCHANGED <<store, clock, input, target, time, seen, before>>

\* The identifier is drawn, the clock read and the expiry computed.
PrepareAcquire(r) ==
    /\ At(r, "acquire", "received")
    /\ AcquireRefusal(input[r]) = "none"
    /\ \E id \in FreshIds : target' = [target EXCEPT ![r] = id]
    /\ time' = [time EXCEPT ![r] = clock]
    /\ IF InCalendar(Expiry(r, clock)) THEN Proceed(r, "timed")
                                       ELSE Reply(r, "Exception", NoTime)
    /\ UNCHANGED <<store, clock, input, seen, before>>

StoreAcquire(r) ==
    /\ At(r, "acquire", "timed")
    /\ StoreEntitlement(target[r], time[r])
    /\ Reply(r, "Ok", Expiry(r, time[r]))
    /\ UNCHANGED <<clock, input, target, time, seen, before>>

-----------------------------------------------------------------------------
(* Renew                                                                   *)

\* Faulty variant: the entitlement that was found is not checked for release.
RenewRefusalUnchecked(in, id) ==
    IF DurationRefusal(in) # "none" THEN DurationRefusal(in)
    ELSE IF ~IsStored(id) THEN "NotFound"
    ELSE "none"

\* Faulty variant: a released entitlement is taken for one that is not there.
RenewRefusalForgets(in, id) ==
    IF DurationRefusal(in) # "none" THEN DurationRefusal(in)
    ELSE IF ~IsStored(id) \/ IsReleased(store[id]) THEN "NotFound"
    ELSE "none"

\* ParseDuration, FindEntitlement and NotReleased: one read of the store.
RenewRefusal(in, id) ==
    IF DurationRefusal(in) # "none" THEN DurationRefusal(in)
    ELSE IF ~IsStored(id) THEN "NotFound"
    ELSE IF IsReleased(store[id]) THEN "AlreadyReleased"
    ELSE "none"

RefuseRenew(r) ==
    /\ At(r, "renew", "received")
    /\ RenewRefusal(input[r], target[r]) # "none"
    /\ Reply(r, RenewRefusal(input[r], target[r]), NoTime)
    /\ UNCHANGED <<store, clock, input, target, time, seen, before>>

FindForRenew(r) ==
    /\ At(r, "renew", "received")
    /\ RenewRefusal(input[r], target[r]) = "none"
    /\ Proceed(r, "found")
    /\ UNCHANGED <<store, clock, input, target, time, seen, before>>

TimeRenewal(r) ==
    /\ At(r, "renew", "found")
    /\ time' = [time EXCEPT ![r] = clock]
    /\ IF InCalendar(Expiry(r, clock)) THEN Proceed(r, "timed")
                                       ELSE Reply(r, "Exception", NoTime)
    /\ UNCHANGED <<store, clock, input, target, seen, before>>

-----------------------------------------------------------------------------
(* Release                                                                 *)

FindForRelease(r) ==
    /\ At(r, "release", "received")
    /\ IF IsStored(target[r]) THEN Proceed(r, "found")
                              ELSE Reply(r, "NotFound", NoTime)
    /\ UNCHANGED <<store, clock, input, target, time, seen, before>>

TimeRelease(r) ==
    /\ At(r, "release", "found")
    /\ time' = [time EXCEPT ![r] = clock]
    /\ Proceed(r, "timed")
    /\ UNCHANGED <<store, clock, input, target, seen, before>>

-----------------------------------------------------------------------------
(* EntitlementStore.TryUpdate, for a renewal or a release.                 *)

ReadCurrent(r) ==
    /\ pc[r] = "timed" /\ input[r].op \in {"renew", "release"}
    /\ IF IsStored(target[r])
       THEN seen' = [seen EXCEPT ![r] = store[target[r]]] /\ Proceed(r, "read")
       ELSE UNCHANGED seen /\ Reply(r, "InternalError", NoTime)
    /\ UNCHANGED <<store, clock, input, target, time, before>>

Updated(r) ==
    IF input[r].op = "renew" THEN WithRenewal(seen[r], time[r])
                             ELSE WithRelease(seen[r], time[r])

\* Faulty variant: the expiry is computed again, from the present time.
SuccessReplyLate(r) ==
    IF input[r].op = "renew" THEN Reply(r, "Ok", Expiry(r, clock))
                             ELSE Reply(r, "NoContent", NoTime)

SuccessReply(r) ==
    IF input[r].op = "renew" THEN Reply(r, "Ok", Expiry(r, time[r]))
                             ELSE Reply(r, "NoContent", NoTime)

\* Faulty variant: the updater waits for its own snapshot to come back.
SpinOnConflict(r) ==
    /\ pc[r] = "read"
    /\ SameObject(seen[r], store[target[r]])
    /\ Publish(target[r], Updated(r))
    /\ SuccessReply(r)
    /\ UNCHANGED <<clock, input, target, time, seen, before>>

\* Faulty variant: a failed exchange is reported as a success.
IgnoreConflict(r) ==
    /\ pc[r] = "read"
    /\ IF SameObject(seen[r], store[target[r]]) THEN Publish(target[r], Updated(r))
                                                ELSE UNCHANGED store
    /\ SuccessReply(r)
    /\ UNCHANGED <<clock, input, target, time, seen, before>>

TryUpdate(r) ==
    /\ pc[r] = "read"
    /\ IF SameObject(seen[r], store[target[r]])
       THEN Publish(target[r], Updated(r)) /\ SuccessReply(r)
       ELSE UNCHANGED store /\ Reply(r, "InternalError", NoTime)
    /\ UNCHANGED <<clock, input, target, time, seen, before>>

-----------------------------------------------------------------------------
Tick ==
    /\ clock < EndTime
    /\ clock' = clock + 1
    /\ UNCHANGED <<store, pc, input, target, time, seen, answer, before>>

\* One step of the handler of request r.
Handle(r) ==
    \/ RefuseAcquire(r) \/ PrepareAcquire(r) \/ StoreAcquire(r)
    \/ RefuseRenew(r) \/ FindForRenew(r) \/ TimeRenewal(r)
    \/ FindForRelease(r) \/ TimeRelease(r)
    \/ ReadCurrent(r) \/ TryUpdate(r)

\* The server idles for ever once every request of the behaviour is answered.
Quiet == Answered = Requests /\ UNCHANGED vars

Next ==
    \/ \E r \in Requests, in \in Inputs, id \in EntitlementIds \cup {Unissued} :
          Receive(r, in, id)
    \/ \E r \in Requests : Handle(r)
    \/ Tick
    \/ Quiet

Spec == Init /\ [][Next]_vars

\* A thread-pool thread that runs a handler is scheduled again and again.
Fairness == \A r \in Requests : WF_vars(Handle(r))

FairSpec == Spec /\ Fairness

-----------------------------------------------------------------------------
(* Properties.                                                             *)

\* The types of the variables.  An expiry that is sent is a date of the
\* calendar (DateTimeOffset.Add throws otherwise).
TypeOK ==
    /\ StoreType
    /\ clock \in StartTime .. EndTime
    /\ pc \in [Requests -> {"idle", "received", "found", "timed", "read", "answered"}]
    /\ input \in [Requests -> Inputs \cup {NoInput}]
    /\ target \in [Requests -> EntitlementIds \cup {Unissued}]
    /\ time \in [Requests -> Times]
    /\ seen \in [Requests -> Entitlement \cup {NullEntitlement}]
    /\ answer \in [Requests -> [status : Statuses \cup {"none"}, expiry : 0 .. LastTime \cup {NoTime}]]
    /\ before \in [Requests -> SUBSET Requests]

SuccessesOf(op, id) ==
    {r \in Requests : input[r].op = op /\ target[r] = id /\ Succeeded(r)}

\* The store and the answers agree: an entitlement holds one renewal for every
\* Renew answered 200 and no other, it has been replaced once for every Renew or
\* Release that was answered with success, and by no request that failed.
EveryAnswerAccounted ==
    \A id \in DOMAIN store :
        /\ Cardinality(SuccessesOf("acquire", id)) = 1
        /\ Len(store[id].renewals) = Cardinality(SuccessesOf("renew", id))
        /\ store[id].object - 1 = Cardinality(SuccessesOf("renew", id))
                                  + Cardinality(SuccessesOf("release", id))

\* The expiry a client is told is a recorded time of its entitlement, of the
\* acquisition or of a renewal, plus the duration it asked for, whatever the other
\* threads did: the time is not lost when another update comes in between.
ExpiryMatchesRecord ==
    \A r \in Requests :
        Succeeded(r) /\ input[r].op \in {"acquire", "renew"} =>
            LET recorded == store[target[r]]
                events == IF input[r].op = "acquire" THEN {recorded.acquired}
                          ELSE {recorded.renewals[i] : i \in DOMAIN recorded.renewals}
            IN  \E t \in events : answer[r].expiry = Expiry(r, t)

\* A Release that was answered 204 is never undone, not even by a renewal that
\* read the entitlement before it was released.
ReleaseSticks ==
    \A r \in Requests :
        input[r].op = "release" /\ Succeeded(r) =>
            IsStored(target[r]) /\ IsReleased(store[target[r]])

\* Entitlements are not removed, their acquisition does not change, renewals are
\* only appended, and a released entitlement stays released.
HistoryOnlyGrows ==
    [][\A id \in DOMAIN store :
          /\ id \in DOMAIN store'
          /\ store'[id].acquired = store[id].acquired
          /\ \/ store'[id].renewals = store[id].renewals
             \/ \E t \in StartTime .. EndTime : store'[id].renewals = Append(store[id].renewals, t)
          /\ IsReleased(store[id]) => IsReleased(store'[id])]_store

\* An update is refused with 500 only because another request replaced the very
\* object this one had read: some updater always gets through.
ConflictHasWinner ==
    \A r \in Requests :
        answer[r].status = "InternalError" =>
            \E q \in Requests \ {r} :
                /\ input[q].op \in {"renew", "release"} /\ Succeeded(q)
                /\ target[q] = target[r] /\ seen[q] = seen[r]

\* A Renew that arrives after a Release of the same entitlement was answered 204
\* is never answered 200.
LateRenewalRefused ==
    \A r \in Requests : \A q \in before[r] :
        /\ input[r].op = "renew" /\ input[q].op = "release"
        /\ target[r] = target[q] /\ Succeeded(q)
        => ~Succeeded(r)

\* An identifier that an Acquire handed out is always found afterwards: 404 is
\* the answer only to identifiers the server never issued.
IssuedIsFound ==
    \A r \in Requests : answer[r].status = "NotFound" => target[r] = Unissued

\* Every request that arrives is answered, whatever the other requests do:
\* TryUpdate gives up instead of waiting for the other thread.
EveryRequestAnswered ==
    \A r \in Requests : pc[r] = "received" ~> pc[r] = "answered"

\* What "already released" (RequestHandlerBase.cs:48) says of an entitlement: a
\* released entitlement is not renewed.
NoRenewalAfterRelease ==
    [][\A id \in DOMAIN store :
          IsReleased(store[id]) => store'[id].renewals = store[id].renewals]_store

-----------------------------------------------------------------------------
(* The detailed server implements the ledger that changes in one step per  *)
(* request: the step in which the store is accessed for the last time.     *)

Ledger == INSTANCE EntitlementLedger WITH
    Dates <- StartTime .. EndTime,
    ledger <- [id \in DOMAIN store |->
                 [acquired |-> store[id].acquired, renewals |-> store[id].renewals,
                  released |-> store[id].released]],
    outcome <- [r \in Requests |-> answer[r].status]

\* The server implements the ledger.
ImplementsLedger == Ledger!Spec
=============================================================================
