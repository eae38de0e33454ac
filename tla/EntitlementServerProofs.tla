------------------------ MODULE EntitlementServerProofs -------------------------
(***************************************************************************)
(* Proofs about EntitlementServer, for every set of requests, identifiers  *)
(* and inputs and every calendar.                                          *)
(***************************************************************************)
EXTENDS EntitlementServer, FiniteSetTheorems, TLAPS

\* What the locals of a handler are worth at each of its steps.
LocalsOK ==
    \A r \in Requests :
        /\ pc[r] \in {"found", "read"} => input[r].op \in {"renew", "release"}
        /\ pc[r] = "timed" => input[r].op \in {"acquire", "renew", "release"}
        /\ At(r, "acquire", "timed") => target[r] \in EntitlementIds
        /\ pc[r] \in {"timed", "read"} /\ input[r].op \in {"acquire", "renew"}
              => InCalendar(Expiry(r, time[r]))
        /\ pc[r] \in {"timed", "read"} => time[r] \in StartTime .. EndTime
        /\ pc[r] = "read" => IsStored(target[r]) /\ seen[r] \in Entitlement
        /\ pc[r] # "answered" => answer[r] = NoAnswer

TypeInv == TypeOK /\ LocalsOK

-----------------------------------------------------------------------------
(* Facts about the inputs and about the objects of the store.              *)

LEMMA InputFacts ==
    ASSUME NEW in \in Inputs
    PROVE  /\ in.op \in {"acquire", "renew", "release"}
           /\ in.op # "release" => in.duration.span \in Int
  <1>1. CASE in \in AcquireInputs
    BY <1>1, InputsAssumption DEF Duration
  <1>2. CASE in \in RenewInputs
    BY <1>2, InputsAssumption DEF Duration
  <1>3. CASE in = ReleaseInput
    BY <1>3 DEF ReleaseInput
  <1> QED
    BY <1>1, <1>2, <1>3 DEF Inputs

LEMMA UpdateFacts ==
    ASSUME NEW props \in Entitlement, NEW t \in Times
    PROVE  /\ WithRenewal(props, t) \in Entitlement
           /\ WithRenewal(props, t).object = props.object + 1
           /\ WithRenewal(props, t).acquired = props.acquired
           /\ WithRenewal(props, t).renewals = Append(props.renewals, t)
           /\ WithRenewal(props, t).released = props.released
           /\ WithRelease(props, t) \in Entitlement
           /\ WithRelease(props, t).object = props.object + 1
           /\ WithRelease(props, t).acquired = props.acquired
           /\ WithRelease(props, t).renewals = props.renewals
           /\ WithRelease(props, t).released = t
  <1>1. /\ props.object + 1 \in Nat \ {0}
        /\ props.acquired \in Times /\ props.released \in Times \cup {NoTime}
        /\ props.renewals \in Seq(Times) /\ Append(props.renewals, t) \in Seq(Times)
    BY DEF Entitlement
  <1> QED
    BY <1>1 DEF WithRenewal, WithRelease, Entitlement

LEMMA CreateNewType == \A t \in Times : CreateNew(t) \in Entitlement
  BY DEF CreateNew, Entitlement, Times

LEMMA StoreStep ==
    ASSUME StoreType, NEW id \in EntitlementIds, NEW t \in Times, StoreEntitlement(id, t)
    PROVE  StoreType'
  <1> PICK S \in SUBSET EntitlementIds : store \in [S -> Entitlement]
    BY DEF StoreType
  <1>1. store' \in [S \cup {id} -> Entitlement]
    BY CreateNewType DEF StoreEntitlement
  <1> QED
    BY <1>1 DEF StoreType

LEMMA PublishStep ==
    ASSUME StoreType, NEW id, IsStored(id), NEW props \in Entitlement, Publish(id, props)
    PROVE  /\ StoreType'
           /\ DOMAIN store' = DOMAIN store
           /\ store'[id] = props
           /\ \A x \in DOMAIN store : x # id => store'[x] = store[x]
  BY DEF StoreType, IsStored, Publish

-----------------------------------------------------------------------------
(* Type correctness.                                                       *)

LEMMA InitTypeInv == Init => TypeInv
  <1> SUFFICES ASSUME Init PROVE TypeInv
    OBVIOUS
  <1>1. StoreType
    <2>1. store \in [{} -> Entitlement]
      BY DEF Init, StoreInit
    <2> QED
      BY <2>1 DEF StoreType
  <1>2. TypeOK
    BY <1>1, ClockAssumption
    DEF Init, TypeOK, NoAnswer, Times
  <1>3. LocalsOK
    BY DEF Init, LocalsOK, At
  <1> QED
    BY <1>2, <1>3 DEF TypeInv

LEMMA RefusalTypes ==
    ASSUME NEW in, NEW id
    PROVE  /\ AcquireRefusal(in) \in Statuses \cup {"none"}
           /\ RenewRefusal(in, id) \in Statuses \cup {"none"}
  BY DEF AcquireRefusal, RenewRefusal, DurationRefusal, Statuses

\* A reply keeps the types when its status and its expiry are in range.
LEMMA ReplyTypes ==
    ASSUME TypeOK, NEW r \in Requests, NEW status \in Statuses,
           NEW expiry \in 0 .. LastTime \cup {NoTime}, Reply(r, status, expiry)
    PROVE  /\ pc' \in [Requests -> {"idle", "received", "found", "timed", "read", "answered"}]
           /\ answer' \in [Requests -> [status : Statuses \cup {"none"},
                                        expiry : 0 .. LastTime \cup {NoTime}]]
           /\ pc'[r] = "answered"
           /\ answer'[r] = [status |-> status, expiry |-> expiry]
           /\ \A q \in Requests : q # r => pc'[q] = pc[q] /\ answer'[q] = answer[q]
  BY DEF Reply, TypeOK

LEMMA ProceedTypes ==
    ASSUME TypeOK, NEW r \in Requests, NEW step \in {"found", "timed", "read"}, Proceed(r, step)
    PROVE  /\ pc' \in [Requests -> {"idle", "received", "found", "timed", "read", "answered"}]
           /\ answer' = answer
           /\ pc'[r] = step
           /\ \A q \in Requests : q # r => pc'[q] = pc[q]
  BY DEF Proceed, TypeOK

LEMMA ReceiveTypeInv ==
    ASSUME TypeInv, NEW r \in Requests, NEW in \in Inputs,
           NEW id \in EntitlementIds \cup {Unissued}, Receive(r, in, id)
    PROVE  TypeInv'
  <1>1. TypeOK'
    BY DEF TypeInv, TypeOK, StoreType, Receive, Answered
  <1>2. LocalsOK'
    BY DEF TypeInv, TypeOK, LocalsOK, Receive, At, Expiry, IsStored
  <1> QED
    BY <1>1, <1>2 DEF TypeInv

LEMMA RefuseTypeInv ==
    ASSUME TypeInv, NEW r \in Requests, RefuseAcquire(r) \/ RefuseRenew(r)
    PROVE  TypeInv'
  <1> PICK status \in Statuses : Reply(r, status, NoTime)
    BY RefusalTypes DEF RefuseAcquire, RefuseRenew
  <1>1. UNCHANGED <<store, clock, input, target, time, seen, before>>
    BY DEF RefuseAcquire, RefuseRenew
  <1>2. TypeOK'
    BY <1>1, ReplyTypes DEF TypeInv, TypeOK, StoreType
  <1>3. LocalsOK'
    BY <1>1, ReplyTypes DEF TypeInv, LocalsOK, At, Expiry, IsStored
  <1> QED
    BY <1>2, <1>3 DEF TypeInv

LEMMA PrepareAcquireTypeInv ==
    ASSUME TypeInv, NEW r \in Requests, PrepareAcquire(r)
    PROVE  TypeInv'
  <1> USE DEF TypeInv
  <1>1. UNCHANGED <<store, clock, input, seen, before>> /\ At(r, "acquire", "received")
    BY DEF PrepareAcquire
  <1>2. /\ target' \in [Requests -> EntitlementIds \cup {Unissued}]
        /\ target'[r] \in EntitlementIds
        /\ \A q \in Requests : q # r => target'[q] = target[q]
    BY DEF PrepareAcquire, TypeOK, FreshIds
  <1>3. /\ time' \in [Requests -> Times]
        /\ time'[r] = clock
        /\ \A q \in Requests : q # r => time'[q] = time[q]
    BY ClockAssumption DEF PrepareAcquire, TypeOK, Times
  <1>4. CASE InCalendar(Expiry(r, clock)) /\ Proceed(r, "timed")
    <2>1. TypeOK'
      BY <1>1, <1>2, <1>3, <1>4, ProceedTypes DEF TypeOK, StoreType
    <2>2. LocalsOK'
      <3>1. /\ pc'[r] = "timed" /\ answer' = answer
            /\ \A q \in Requests : q # r => pc'[q] = pc[q]
        BY <1>4, ProceedTypes
      <3>2. clock \in StartTime .. EndTime
        BY DEF TypeOK
      <3> QED
        BY <1>1, <1>2, <1>3, <1>4, <3>1, <3>2 DEF LocalsOK, At, Expiry, IsStored
    <2> QED
      BY <2>1, <2>2
  <1>5. CASE Reply(r, "Exception", NoTime)
    <2>1. "Exception" \in Statuses
      BY DEF Statuses
    <2>2. TypeOK'
      BY <1>1, <1>2, <1>3, <1>5, <2>1, ReplyTypes DEF TypeOK, StoreType
    <2>3. LocalsOK'
      <3>1. /\ pc'[r] = "answered"
            /\ \A q \in Requests : q # r => pc'[q] = pc[q] /\ answer'[q] = answer[q]
        BY <1>5, <2>1, ReplyTypes
      <3>2. SUFFICES ASSUME NEW q \in Requests, q # r
                     PROVE  LocalsOK!(q)'
        BY <3>1 DEF LocalsOK, At
      <3>3. LocalsOK!(q)
        BY DEF LocalsOK
      <3>4. pc'[q] = pc[q] /\ answer'[q] = answer[q] /\ target'[q] = target[q] /\ time'[q] = time[q]
        BY <1>2, <1>3, <3>1, <3>2
      <3> QED
        BY <1>1, <3>3, <3>4 DEF At, Expiry, IsStored
    <2> QED
      BY <2>2, <2>3
  <1> QED
    BY <1>4, <1>5 DEF PrepareAcquire

LEMMA StoreAcquireTypeInv ==
    ASSUME TypeInv, NEW r \in Requests, StoreAcquire(r)
    PROVE  TypeInv'
  <1> USE DEF TypeInv
  <1>1. /\ UNCHANGED <<clock, input, target, time, seen, before>>
        /\ At(r, "acquire", "timed")
        /\ StoreEntitlement(target[r], time[r])
        /\ Reply(r, "Ok", Expiry(r, time[r]))
    BY DEF StoreAcquire
  <1>2. /\ target[r] \in EntitlementIds /\ time[r] \in Times
        /\ Expiry(r, time[r]) \in 0 .. LastTime
    BY <1>1 DEF TypeOK, LocalsOK, At, InCalendar
  <1>3. StoreType'
    BY <1>1, <1>2, StoreStep DEF TypeOK
  <1>4. \A id : IsStored(id) => IsStored(id)'
    BY <1>1 DEF StoreEntitlement, IsStored
  <1>5. "Ok" \in Statuses
    BY DEF Statuses
  <1>6. TypeOK'
    BY <1>1, <1>2, <1>3, <1>5, ReplyTypes DEF TypeOK
  <1>7. LocalsOK'
    BY <1>1, <1>2, <1>4, <1>5, ReplyTypes DEF LocalsOK, At, Expiry
  <1> QED
    BY <1>6, <1>7

LEMMA FindTypeInv ==
    ASSUME TypeInv, NEW r \in Requests, FindForRenew(r) \/ FindForRelease(r)
    PROVE  TypeInv'
  <1> USE DEF TypeInv
  <1>1. /\ UNCHANGED <<store, clock, input, target, time, seen, before>>
        /\ input[r].op \in {"renew", "release"} /\ pc[r] = "received"
    BY DEF FindForRenew, FindForRelease, At
  <1>2. CASE Proceed(r, "found")
    <2>1. TypeOK'
      BY <1>1, <1>2, ProceedTypes DEF TypeOK, StoreType
    <2>2. LocalsOK'
      BY <1>1, <1>2, ProceedTypes DEF LocalsOK, At, Expiry, IsStored
    <2> QED
      BY <2>1, <2>2
  <1>3. CASE Reply(r, "NotFound", NoTime)
    <2>1. "NotFound" \in Statuses
      BY DEF Statuses
    <2>2. TypeOK'
      BY <1>1, <1>3, <2>1, ReplyTypes DEF TypeOK, StoreType
    <2>3. LocalsOK'
      BY <1>1, <1>3, <2>1, ReplyTypes DEF LocalsOK, At, Expiry, IsStored
    <2> QED
      BY <2>2, <2>3
  <1> QED
    BY <1>2, <1>3 DEF FindForRenew, FindForRelease

LEMMA TimeTypeInv ==
    ASSUME TypeInv, NEW r \in Requests, TimeRenewal(r) \/ TimeRelease(r)
    PROVE  TypeInv'
  <1> USE DEF TypeInv
  <1>1. /\ UNCHANGED <<store, clock, input, target, seen, before>>
        /\ input[r].op \in {"renew", "release"}
    BY DEF TimeRenewal, TimeRelease, At
  <1>2. /\ time' \in [Requests -> Times]
        /\ time'[r] = clock
        /\ \A q \in Requests : q # r => time'[q] = time[q]
    BY ClockAssumption DEF TimeRenewal, TimeRelease, TypeOK, Times
  <1>3. CASE /\ Proceed(r, "timed")
             /\ input[r].op = "renew" => InCalendar(Expiry(r, clock))
    <2>1. TypeOK'
      BY <1>1, <1>2, <1>3, ProceedTypes DEF TypeOK, StoreType
    <2>2. /\ pc'[r] = "timed" /\ answer' = answer
          /\ \A q \in Requests : q # r => pc'[q] = pc[q]
      BY <1>3, ProceedTypes
    <2>3. pc[r] # "answered" /\ clock \in StartTime .. EndTime
      BY DEF TimeRenewal, TimeRelease, At, TypeOK
    <2>4. LocalsOK'
      BY <1>1, <1>2, <1>3, <2>2, <2>3 DEF LocalsOK, At, Expiry, IsStored
    <2> QED
      BY <2>1, <2>4
  <1>4. CASE Reply(r, "Exception", NoTime)
    <2>1. "Exception" \in Statuses
      BY DEF Statuses
    <2>2. TypeOK'
      BY <1>1, <1>2, <1>4, <2>1, ReplyTypes DEF TypeOK, StoreType
    <2>3. LocalsOK'
      BY <1>1, <1>2, <1>4, <2>1, ReplyTypes DEF LocalsOK, At, Expiry, IsStored
    <2> QED
      BY <2>2, <2>3
  <1> QED
    BY <1>3, <1>4 DEF TimeRenewal, TimeRelease, At

LEMMA ReadCurrentTypeInv ==
    ASSUME TypeInv, NEW r \in Requests, ReadCurrent(r)
    PROVE  TypeInv'
  <1> USE DEF TypeInv
  <1>1. /\ UNCHANGED <<store, clock, input, target, time, before>>
        /\ pc[r] = "timed" /\ input[r].op \in {"renew", "release"}
    BY DEF ReadCurrent
  <1>2. CASE IsStored(target[r])
    <2>1. seen' = [seen EXCEPT ![r] = store[target[r]]] /\ Proceed(r, "read")
      BY <1>2 DEF ReadCurrent
    <2>2. store[target[r]] \in Entitlement
      BY <1>2 DEF TypeOK, StoreType, IsStored
    <2>3. TypeOK'
      BY <1>1, <2>1, <2>2, ProceedTypes DEF TypeOK, StoreType
    <2>4. LocalsOK'
      BY <1>1, <1>2, <2>1, <2>2, ProceedTypes DEF TypeOK, LocalsOK, At, Expiry, IsStored
    <2> QED
      BY <2>3, <2>4
  <1>3. CASE ~IsStored(target[r])
    <2>1. UNCHANGED seen /\ Reply(r, "InternalError", NoTime) /\ "InternalError" \in Statuses
      BY <1>3 DEF ReadCurrent, Statuses
    <2>2. TypeOK'
      BY <1>1, <2>1, ReplyTypes DEF TypeOK, StoreType
    <2>3. LocalsOK'
      BY <1>1, <2>1, ReplyTypes DEF LocalsOK, At, Expiry, IsStored
    <2> QED
      BY <2>2, <2>3
  <1> QED
    BY <1>2, <1>3

\* The two outcomes of TryUpdate, with the type of what is written and answered.
LEMMA TryUpdateCases ==
    ASSUME TypeInv, NEW r \in Requests, TryUpdate(r)
    PROVE  /\ UNCHANGED <<clock, input, target, time, seen, before>>
           /\ pc[r] = "read" /\ input[r].op \in {"renew", "release"} /\ IsStored(target[r])
           /\ seen[r] \in Entitlement /\ time[r] \in Times
           /\ \/ /\ SameObject(seen[r], store[target[r]])
                 /\ Updated(r) \in Entitlement
                 /\ Publish(target[r], Updated(r))
                 /\ \/ /\ input[r].op = "renew"
                       /\ Reply(r, "Ok", Expiry(r, time[r]))
                       /\ Expiry(r, time[r]) \in 0 .. LastTime
                    \/ /\ input[r].op = "release"
                       /\ Reply(r, "NoContent", NoTime)
              \/ /\ ~SameObject(seen[r], store[target[r]])
                 /\ UNCHANGED store
                 /\ Reply(r, "InternalError", NoTime)
  <1>1. /\ UNCHANGED <<clock, input, target, time, seen, before>>
        /\ pc[r] = "read"
    BY DEF TryUpdate
  <1>2. /\ input[r].op \in {"renew", "release"} /\ IsStored(target[r])
        /\ seen[r] \in Entitlement /\ time[r] \in Times
        /\ input[r].op = "renew" => Expiry(r, time[r]) \in 0 .. LastTime
    BY <1>1 DEF TypeInv, TypeOK, LocalsOK, InCalendar
  <1>3. Updated(r) \in Entitlement
    BY <1>2, UpdateFacts DEF Updated
  <1> QED
    BY <1>1, <1>2, <1>3 DEF TryUpdate, SuccessReply

LEMMA TryUpdateTypeInv ==
    ASSUME TypeInv, NEW r \in Requests, TryUpdate(r)
    PROVE  TypeInv'
  <1> USE DEF TypeInv
  <1>1. /\ UNCHANGED <<clock, input, target, time, seen, before>>
        /\ StoreType' /\ DOMAIN store' = DOMAIN store
    BY TryUpdateCases, PublishStep DEF TypeOK, StoreType
  <1>2. PICK status \in Statuses, expiry \in 0 .. LastTime \cup {NoTime} :
           Reply(r, status, expiry)
    BY TryUpdateCases DEF Statuses
  <1>3. TypeOK'
    BY <1>1, <1>2, ReplyTypes DEF TypeOK
  <1>4. LocalsOK'
    BY <1>1, <1>2, ReplyTypes DEF LocalsOK, At, Expiry, IsStored
  <1> QED
    BY <1>3, <1>4

LEMMA IdleTypeInv ==
    ASSUME TypeInv, Tick \/ UNCHANGED vars
    PROVE  TypeInv'
  <1>1. TypeOK'
    BY ClockAssumption DEF TypeInv, TypeOK, StoreType, Tick, vars
  <1>2. LocalsOK'
    BY DEF TypeInv, LocalsOK, At, Expiry, IsStored, Tick, vars
  <1> QED
    BY <1>1, <1>2 DEF TypeInv

LEMMA NextTypeInv == TypeInv /\ [Next]_vars => TypeInv'
  <1> SUFFICES ASSUME TypeInv, [Next]_vars PROVE TypeInv'
    OBVIOUS
  <1>1. CASE \E r \in Requests, in \in Inputs, id \in EntitlementIds \cup {Unissued} :
                Receive(r, in, id)
    BY <1>1, ReceiveTypeInv
  <1>2. ASSUME NEW r \in Requests, Handle(r) PROVE TypeInv'
    BY <1>2, RefuseTypeInv, PrepareAcquireTypeInv, StoreAcquireTypeInv, FindTypeInv,
       TimeTypeInv, ReadCurrentTypeInv, TryUpdateTypeInv DEF Handle
  <1>3. CASE Tick \/ UNCHANGED vars
    BY <1>3, IdleTypeInv
  <1> QED
    BY <1>1, <1>2, <1>3 DEF Next, Quiet

LEMMA TypeInvariant == Spec => []TypeInv
  BY InitTypeInv, NextTypeInv, PTL DEF Spec

\* The variables always have their types: in particular an expiry that is sent
\* is a date of the calendar, and the locals of a handler are set when it uses
\* them.
THEOREM TypeCorrect == Spec => []TypeOK
  <1>1. TypeInv => TypeOK
    BY DEF TypeInv
  <1> QED
    BY <1>1, TypeInvariant, PTL

-----------------------------------------------------------------------------
(* What each kind of step does to the store, the answers and the locals.   *)

\* The steps that neither write the store nor take a snapshot of it.
LocalStep(r) ==
    \/ RefuseAcquire(r) \/ PrepareAcquire(r) \/ RefuseRenew(r) \/ FindForRenew(r)
    \/ TimeRenewal(r) \/ FindForRelease(r) \/ TimeRelease(r)

\* An update: a request that has arrived and is not an acquisition.
Updates(r) == input[r].op \in {"renew", "release"}

LEMMA LocalStepFacts ==
    ASSUME TypeInv, NEW r \in Requests, LocalStep(r)
    PROVE  /\ UNCHANGED <<store, clock, input, seen, before>>
           /\ pc[r] \in {"received", "found"}
           /\ \A q \in Requests : q # r => /\ pc'[q] = pc[q] /\ answer'[q] = answer[q]
                                         /\ target'[q] = target[q] /\ time'[q] = time[q]
           /\ input[r].op # "acquire" => target'[r] = target[r]
           /\ \/ pc'[r] = "answered" /\ answer'[r].status \in {"BadRequest", "Denied",
                                              "NotFound", "AlreadyReleased", "Exception"}
              \/ pc'[r] \in {"found", "timed"} /\ answer'[r] = answer[r]
           /\ pc'[r] = "found" => IsStored(target[r]) /\ Updates(r)
           /\ pc'[r] = "found" /\ input[r].op = "renew" => ~IsReleased(store[target[r]])
           /\ pc'[r] = "timed" /\ Updates(r) => pc[r] = "found"
           /\ answer'[r].status = "NotFound" => Updates(r) /\ ~IsStored(target[r])
           /\ answer'[r].status = "AlreadyReleased" =>
                  IsStored(target[r]) /\ IsReleased(store[target[r]])
  <1> USE DEF TypeInv, TypeOK, LocalsOK, NoAnswer, Statuses, At, Reply, Proceed, Updates
  <1>1. CASE RefuseAcquire(r)
    BY <1>1 DEF RefuseAcquire, AcquireRefusal, DurationRefusal
  <1>2. CASE PrepareAcquire(r)
    BY <1>2 DEF PrepareAcquire
  <1>3. CASE RefuseRenew(r)
    BY <1>3 DEF RefuseRenew, RenewRefusal, DurationRefusal
  <1>4. CASE FindForRenew(r)
    BY <1>4 DEF FindForRenew, RenewRefusal
  <1>5. CASE TimeRenewal(r)
    BY <1>5 DEF TimeRenewal
  <1>6. CASE FindForRelease(r)
    BY <1>6 DEF FindForRelease
  <1>7. CASE TimeRelease(r)
    BY <1>7 DEF TimeRelease
  <1> QED
    BY <1>1, <1>2, <1>3, <1>4, <1>5, <1>6, <1>7 DEF LocalStep

LEMMA ReadCurrentFacts ==
    ASSUME TypeInv, NEW r \in Requests, ReadCurrent(r)
    PROVE  /\ UNCHANGED <<store, clock, input, target, time, before>>
           /\ pc[r] = "timed" /\ Updates(r)
           /\ \A q \in Requests : q # r => /\ pc'[q] = pc[q] /\ answer'[q] = answer[q]
                                         /\ seen'[q] = seen[q]
           /\ IsStored(target[r]) =>
                 /\ pc'[r] = "read" /\ answer'[r] = answer[r]
                 /\ seen'[r] = store[target[r]]
           /\ ~IsStored(target[r]) =>
                 /\ pc'[r] = "answered" /\ answer'[r].status = "InternalError"
                 /\ seen' = seen
  BY DEF TypeInv, TypeOK, ReadCurrent, Reply, Proceed, Updates

LEMMA StoreAcquireFacts ==
    ASSUME TypeInv, NEW r \in Requests, StoreAcquire(r)
    PROVE  /\ UNCHANGED <<clock, input, target, time, seen, before>>
           /\ pc[r] = "timed" /\ input[r].op = "acquire"
           /\ \A q \in Requests : q # r => pc'[q] = pc[q] /\ answer'[q] = answer[q]
           /\ pc'[r] = "answered" /\ answer'[r].status = "Ok"
           /\ DOMAIN store' = DOMAIN store \cup {target[r]}
           /\ \A id \in DOMAIN store : store'[id] = store[id]
           /\ ~IsStored(target[r]) => store'[target[r]] = CreateNew(time[r])
  BY DEF TypeInv, TypeOK, StoreAcquire, StoreEntitlement, Reply, At, IsStored

LEMMA TryUpdateFacts ==
    ASSUME TypeInv, NEW r \in Requests, TryUpdate(r)
    PROVE  /\ UNCHANGED <<clock, input, target, time, seen, before>>
           /\ pc[r] = "read" /\ Updates(r) /\ IsStored(target[r])
           /\ seen[r] \in Entitlement /\ time[r] \in Times
           /\ \A q \in Requests : q # r => pc'[q] = pc[q] /\ answer'[q] = answer[q]
           /\ pc'[r] = "answered"
           /\ DOMAIN store' = DOMAIN store
           /\ \A id \in DOMAIN store : id # target[r] => store'[id] = store[id]
           /\ \/ /\ seen[r].object = store[target[r]].object
                 /\ store'[target[r]] = Updated(r)
                 /\ input[r].op = "renew" => answer'[r].status = "Ok"
                 /\ input[r].op = "release" => answer'[r].status = "NoContent"
              \/ /\ seen[r].object # store[target[r]].object
                 /\ store' = store
                 /\ answer'[r].status = "InternalError"
  <1>1. \A q \in Requests : q # r => pc'[q] = pc[q] /\ answer'[q] = answer[q]
    BY TryUpdateCases DEF TypeInv, TypeOK, Reply
  <1>2. pc'[r] = "answered"
    BY TryUpdateCases DEF TypeInv, TypeOK, Reply
  <1>3. CASE SameObject(seen[r], store[target[r]])
    <2>1. /\ Publish(target[r], Updated(r)) /\ Updated(r) \in Entitlement
          /\ \/ input[r].op = "renew" /\ Reply(r, "Ok", Expiry(r, time[r]))
             \/ input[r].op = "release" /\ Reply(r, "NoContent", NoTime)
      BY <1>3, TryUpdateCases
    <2>2. /\ input[r].op = "renew" => answer'[r].status = "Ok"
          /\ input[r].op = "release" => answer'[r].status = "NoContent"
      BY <2>1 DEF TypeInv, TypeOK, Reply
    <2> QED
      BY <1>1, <1>2, <1>3, <2>1, <2>2, TryUpdateCases, PublishStep
      DEF TypeInv, TypeOK, SameObject, Updates
  <1>4. CASE ~SameObject(seen[r], store[target[r]])
    <2>1. store' = store /\ Reply(r, "InternalError", NoTime)
      BY <1>4, TryUpdateCases
    <2>2. answer'[r].status = "InternalError"
      BY <2>1 DEF TypeInv, TypeOK, Reply
    <2> QED
      BY <1>1, <1>2, <1>4, <2>1, <2>2, TryUpdateCases DEF SameObject, Updates
  <1> QED
    BY <1>3, <1>4

LEMMA HandleCases ==
    ASSUME NEW r \in Requests, Handle(r)
    PROVE  LocalStep(r) \/ StoreAcquire(r) \/ ReadCurrent(r) \/ TryUpdate(r)
  BY DEF Handle, LocalStep

\* A step leaves a request alone unless it is a step of that request.
Untouched(q) ==
    /\ pc'[q] = pc[q] /\ input'[q] = input[q] /\ target'[q] = target[q]
    /\ time'[q] = time[q] /\ seen'[q] = seen[q] /\ answer'[q] = answer[q]
    /\ before'[q] = before[q]

Arrives(q) == \E in \in Inputs, id \in EntitlementIds \cup {Unissued} : Receive(q, in, id)

LEMMA ReceiveFacts ==
    ASSUME TypeInv, NEW r \in Requests, Arrives(r)
    PROVE  /\ UNCHANGED <<store, clock, time, seen, answer>>
           /\ pc[r] = "idle" /\ pc'[r] = "received"
           /\ before'[r] = Answered
           /\ input'[r] \in Inputs
           /\ target'[r] # Unissued => target'[r] \in Issued /\ input'[r].op # "acquire"
           /\ \A q \in Requests : q # r => Untouched(q)
  BY DEF Arrives, Receive, TypeInv, TypeOK, Untouched

LEMMA RequestStep ==
    ASSUME TypeInv, [Next]_vars, NEW q \in Requests
    PROVE  \/ Untouched(q) \/ Arrives(q)
           \/ LocalStep(q) \/ StoreAcquire(q) \/ ReadCurrent(q) \/ TryUpdate(q)
  <1>1. CASE \E r \in Requests : Arrives(r)
    BY <1>1, ReceiveFacts
  <1>2. ASSUME NEW r \in Requests, Handle(r), r # q
        PROVE  Untouched(q)
    <2>1. CASE LocalStep(r)
      BY <1>2, <2>1, LocalStepFacts DEF Untouched
    <2>2. CASE StoreAcquire(r)
      BY <1>2, <2>2, StoreAcquireFacts DEF Untouched
    <2>3. CASE TryUpdate(r)
      BY <1>2, <2>3, TryUpdateFacts DEF Untouched
    <2>4. CASE ReadCurrent(r)
      BY <1>2, <2>4, ReadCurrentFacts DEF Untouched
    <2> QED
      BY <1>2, <2>1, <2>2, <2>3, <2>4, HandleCases
  <1>3. CASE Tick \/ UNCHANGED vars
    BY <1>3 DEF Tick, vars, Untouched
  <1> QED
    BY <1>1, <1>2, <1>3, HandleCases DEF Next, Quiet, Arrives

-----------------------------------------------------------------------------
(* Releases are never undone.  The heart of it is that comparing references*)
(* is comparing contents: objects are immutable and never published twice, *)
(* so the object a handler has read is either the present one, unchanged,  *)
(* or an older one.                                                        *)

SnapshotsOld ==
    \A r \in Requests : pc[r] = "read" =>
        /\ seen[r].object <= store[target[r]].object
        /\ seen[r].object = store[target[r]].object => seen[r] = store[target[r]]

StoreInv == TypeInv /\ SnapshotsOld /\ ReleaseSticks

LEMMA EntitlementStep ==
    ASSUME StoreInv, [Next]_vars, NEW id \in DOMAIN store
    PROVE  /\ id \in DOMAIN store'
           /\ store[id] \in Entitlement
           /\ \/ store'[id] = store[id]
              \/ \E r \in Requests :
                    /\ time[r] \in StartTime .. EndTime
                    /\ store'[id] \in {WithRenewal(store[id], time[r]),
                                       WithRelease(store[id], time[r])}
  <1>1. store[id] \in Entitlement
    BY DEF StoreInv, TypeInv, TypeOK, StoreType
  <1>2. ASSUME NEW r \in Requests, NEW in \in Inputs, NEW x \in EntitlementIds \cup {Unissued},
               Receive(r, in, x)
        PROVE  UNCHANGED store
    BY <1>2 DEF Receive
  <1>3. ASSUME NEW r \in Requests, LocalStep(r) \/ ReadCurrent(r) PROVE UNCHANGED store
    BY <1>3, LocalStepFacts, ReadCurrentFacts DEF StoreInv
  <1>4. ASSUME NEW r \in Requests, StoreAcquire(r)
        PROVE  id \in DOMAIN store' /\ store'[id] = store[id]
    BY <1>4, StoreAcquireFacts DEF StoreInv
  <1>5. ASSUME NEW r \in Requests, TryUpdate(r)
        PROVE  /\ id \in DOMAIN store' /\ time[r] \in StartTime .. EndTime
               /\ \/ store'[id] = store[id]
                  \/ store'[id] \in {WithRenewal(store[id], time[r]),
                                     WithRelease(store[id], time[r])}
    <2>1. seen[r].object = store[target[r]].object => seen[r] = store[target[r]]
      BY <1>5, TryUpdateFacts DEF StoreInv, SnapshotsOld
    <2>2. time[r] \in StartTime .. EndTime
      BY <1>5, TryUpdateFacts DEF StoreInv, TypeInv, LocalsOK
    <2> QED
      BY <1>5, <2>1, <2>2, TryUpdateFacts DEF StoreInv, Updated
  <1>6. CASE Tick \/ UNCHANGED vars
    BY <1>1, <1>6 DEF Tick, vars
  <1> QED
    BY <1>1, <1>2, <1>3, <1>4, <1>5, <1>6, HandleCases DEF Next, Quiet

LEMMA InitStoreInv == Init => StoreInv
  BY InitTypeInv DEF Init, StoreInv, SnapshotsOld, ReleaseSticks, Succeeded, NoAnswer, NoInput

LEMMA StoreInvReleases ==
    ASSUME StoreInv, [Next]_vars, NEW id, IsStored(id), IsReleased(store[id])
    PROVE  IsStored(id)' /\ IsReleased(store'[id])
  <1>1. CASE store'[id] = store[id]
    BY <1>1, EntitlementStep DEF IsStored
  <1>2. CASE store'[id] # store[id]
    <2>1. PICK t \in StartTime .. EndTime :
             store'[id] \in {WithRenewal(store[id], t), WithRelease(store[id], t)}
      BY <1>2, EntitlementStep DEF IsStored
    <2>2. t \in Times /\ store[id] \in Entitlement
      BY ClockAssumption, EntitlementStep DEF Times, IsStored
    <2>3. /\ WithRenewal(store[id], t).released = store[id].released
          /\ WithRelease(store[id], t).released = t
      BY <2>2, UpdateFacts
    <2>4. t # NoTime
      BY <2>2 DEF Times, NoTime
    <2>5. store'[id].released # NoTime
      BY <2>1, <2>3, <2>4 DEF IsReleased
    <2> QED
      BY <2>5, EntitlementStep DEF IsStored, IsReleased
  <1> QED
    BY <1>1, <1>2

LEMMA NextStoreInv == StoreInv /\ [Next]_vars => StoreInv'
  <1> SUFFICES ASSUME StoreInv, [Next]_vars PROVE StoreInv'
    OBVIOUS
  <1> USE DEF StoreInv
  <1>1. TypeInv'
    BY NextTypeInv
  <1>2. SnapshotsOld'
    <2> SUFFICES ASSUME NEW q \in Requests, pc'[q] = "read"
                 PROVE  /\ seen'[q].object <= store'[target'[q]].object
                        /\ seen'[q].object = store'[target'[q]].object
                              => seen'[q] = store'[target'[q]]
      BY DEF SnapshotsOld
    <2>1. CASE pc[q] # "read"
      <3>1. ReadCurrent(q)
        BY <2>1, RequestStep, ReceiveFacts, LocalStepFacts, StoreAcquireFacts, TryUpdateFacts
        DEF Untouched
      <3>2. IsStored(target[q]) /\ seen'[q] = store[target[q]] /\ UNCHANGED <<store, target>>
        BY <3>1, ReadCurrentFacts
      <3>3. store[target[q]] \in Entitlement
        BY <3>2 DEF TypeInv, TypeOK, StoreType, IsStored
      <3> QED
        BY <3>2, <3>3 DEF Entitlement
    <2>2. CASE pc[q] = "read"
      <3>1. /\ IsStored(target[q]) /\ seen[q] \in Entitlement
            /\ seen[q].object <= store[target[q]].object
            /\ seen[q].object = store[target[q]].object => seen[q] = store[target[q]]
        BY <2>2 DEF TypeInv, LocalsOK, SnapshotsOld
      <3>2. target'[q] = target[q] /\ seen'[q] = seen[q]
        BY <2>2, RequestStep, ReceiveFacts, LocalStepFacts, StoreAcquireFacts, ReadCurrentFacts,
           TryUpdateFacts DEF Untouched
      <3>3. /\ store[target[q]] \in Entitlement
            /\ \/ store'[target[q]] = store[target[q]]
               \/ store'[target[q]].object = store[target[q]].object + 1
        <4>1. StartTime .. EndTime \subseteq Times
          BY ClockAssumption DEF Times
        <4> QED
          BY <3>1, <4>1, EntitlementStep, UpdateFacts DEF IsStored
      <3> QED
        BY <3>1, <3>2, <3>3 DEF Entitlement
    <2> QED
      BY <2>1, <2>2
  <1>3. ReleaseSticks'
    <2> SUFFICES ASSUME NEW q \in Requests, input'[q].op = "release",
                        answer'[q].status \in {"Ok", "NoContent"}
                 PROVE  target'[q] \in DOMAIN store' /\ IsReleased(store'[target'[q]])
      BY DEF ReleaseSticks, Succeeded, IsStored, IsReleased
    <2>1. CASE Untouched(q)
      BY <2>1, StoreInvReleases DEF ReleaseSticks, Succeeded, Untouched, IsStored
    <2>2. CASE TryUpdate(q)
      <3>1. /\ store'[target[q]] = WithRelease(seen[q], time[q])
            /\ target[q] \in DOMAIN store' /\ target'[q] = target[q]
            /\ time[q] \in Times /\ seen[q] \in Entitlement
        BY <2>2, TryUpdateFacts DEF Updated, IsStored, Updates
      <3>2. WithRelease(seen[q], time[q]).released = time[q]
        BY <3>1, UpdateFacts
      <3>3. time[q] # NoTime
        BY <3>1 DEF Times, NoTime
      <3> QED
        BY <3>1, <3>2, <3>3 DEF IsReleased
    <2>3. pc[q] # "answered" => answer[q] = NoAnswer
      BY DEF TypeInv, LocalsOK
    <2>4. ~Arrives(q)
      BY <2>3, ReceiveFacts DEF NoAnswer
    <2>5. ~LocalStep(q)
      BY <2>3, LocalStepFacts DEF NoAnswer
    <2>6. ~StoreAcquire(q)
      BY StoreAcquireFacts
    <2>7. ~ReadCurrent(q)
      BY <2>3, ReadCurrentFacts DEF NoAnswer
    <2> QED
      BY <2>1, <2>2, <2>4, <2>5, <2>6, <2>7, RequestStep
  <1> QED
    BY <1>1, <1>2, <1>3

LEMMA StoreInvariant == Spec => []StoreInv
  BY InitStoreInv, NextStoreInv, PTL DEF Spec

\* A release that was answered 204 stays in the store for ever, whatever
\* renewals and releases run beside it.
THEOREM ReleasesStick == Spec => []ReleaseSticks
  <1>1. StoreInv => ReleaseSticks
    BY DEF StoreInv
  <1> QED
    BY <1>1, StoreInvariant, PTL

\* What a step does to the record of an entitlement.
LEMMA RecordGrows ==
    ASSUME StoreInv, [Next]_vars, NEW id \in DOMAIN store
    PROVE  /\ id \in DOMAIN store'
           /\ store'[id].acquired = store[id].acquired
           /\ \/ store'[id].renewals = store[id].renewals
              \/ \E t \in StartTime .. EndTime :
                    store'[id].renewals = Append(store[id].renewals, t)
           /\ IsReleased(store[id]) => IsReleased(store'[id])
  <1>1. id \in DOMAIN store' /\ store[id] \in Entitlement
    BY EntitlementStep
  <1>2. IsReleased(store[id]) => IsReleased(store'[id])
    BY StoreInvReleases DEF IsStored
  <1>3. CASE store'[id] = store[id]
    BY <1>1, <1>3
  <1>4. CASE store'[id] # store[id]
    <2>1. PICK t \in StartTime .. EndTime :
             store'[id] \in {WithRenewal(store[id], t), WithRelease(store[id], t)}
      BY <1>4, EntitlementStep
    <2>2. t \in Times
      BY ClockAssumption DEF Times
    <2>3. CASE store'[id] = WithRenewal(store[id], t)
      <3>1. /\ store'[id].acquired = store[id].acquired
            /\ store'[id].renewals = Append(store[id].renewals, t)
        BY <1>1, <2>2, <2>3, UpdateFacts
      <3> QED
        BY <1>1, <1>2, <3>1
    <2>4. CASE store'[id] = WithRelease(store[id], t)
      <3>1. /\ store'[id].acquired = store[id].acquired
            /\ store'[id].renewals = store[id].renewals
        BY <1>1, <2>2, <2>4, UpdateFacts
      <3> QED
        BY <1>1, <1>2, <3>1
    <2> QED
      BY <2>1, <2>3, <2>4
  <1> QED
    BY <1>3, <1>4

\* The record of an entitlement is never shortened or rewritten: a step keeps
\* its acquisition, appends at most one renewal and does not take back a release.
THEOREM HistoryGrows == Spec => HistoryOnlyGrows
  <1> DEFINE Grows ==
        \A id \in DOMAIN store :
          /\ id \in DOMAIN store'
          /\ store'[id].acquired = store[id].acquired
          /\ \/ store'[id].renewals = store[id].renewals
             \/ \E t \in StartTime .. EndTime : store'[id].renewals = Append(store[id].renewals, t)
          /\ IsReleased(store[id]) => IsReleased(store'[id])
  <1>1. ASSUME StoreInv, [Next]_vars PROVE [Grows]_store
    BY <1>1, RecordGrows
  <1> QED
    BY <1>1, StoreInvariant, PTL DEF Spec, HistoryOnlyGrows

-----------------------------------------------------------------------------
(* Identifiers that were handed out are found, and TryUpdate never misses. *)

TargetsStored ==
    \A r \in Requests :
        /\ input[r].op = "acquire" /\ Succeeded(r) => IsStored(target[r])
        /\ Updates(r) /\ target[r] # Unissued => IsStored(target[r])
        /\ Updates(r) /\ pc[r] \in {"found", "timed", "read"} => IsStored(target[r])

ReachInv == StoreInv /\ TargetsStored /\ IssuedIsFound

LEMMA InitReachInv == Init => ReachInv
  BY InitStoreInv DEF Init, ReachInv, TargetsStored, IssuedIsFound, Updates, Succeeded,
     NoAnswer, NoInput

LEMMA StoredStays ==
    ASSUME StoreInv, [Next]_vars, NEW id, id \in DOMAIN store
    PROVE  id \in DOMAIN store'
  BY EntitlementStep

LEMMA NextReachInv == ReachInv /\ [Next]_vars => ReachInv'
  <1> SUFFICES ASSUME ReachInv, [Next]_vars PROVE ReachInv'
    OBVIOUS
  <1>1. StoreInv' /\ StoreInv /\ TypeInv
    BY NextStoreInv DEF ReachInv, StoreInv
  <1>2. ASSUME NEW q \in Requests
        PROVE  /\ input'[q].op = "acquire" /\ answer'[q].status \in {"Ok", "NoContent"}
                     => target'[q] \in DOMAIN store'
               /\ input'[q].op \in {"renew", "release"} /\ target'[q] # Unissued
                     => target'[q] \in DOMAIN store'
               /\ input'[q].op \in {"renew", "release"} /\ pc'[q] \in {"found", "timed", "read"}
                     => target'[q] \in DOMAIN store'
               /\ answer'[q].status = "NotFound" => target'[q] = Unissued
    <2>1. /\ input[q].op = "acquire" /\ answer[q].status \in {"Ok", "NoContent"}
                => target[q] \in DOMAIN store
          /\ Updates(q) /\ target[q] # Unissued => target[q] \in DOMAIN store
          /\ Updates(q) /\ pc[q] \in {"found", "timed", "read"} => target[q] \in DOMAIN store
          /\ answer[q].status = "NotFound" => target[q] = Unissued
          /\ pc[q] # "answered" => answer[q].status = "none"
          /\ \A id \in DOMAIN store : id \in DOMAIN store'
      BY <1>1, StoredStays
      DEF ReachInv, TargetsStored, IssuedIsFound, Succeeded, IsStored, TypeInv, LocalsOK, NoAnswer
    <2>2. CASE Untouched(q)
      BY <2>1, <2>2 DEF Untouched, Updates
    <2>3. CASE Arrives(q)
      <3>1. ASSUME target'[q] # Unissued
            PROVE  target'[q] \in DOMAIN store
        BY <1>1, <2>3, <3>1, ReceiveFacts DEF Issued, ReachInv, TargetsStored, IsStored
      <3> QED
        BY <1>1, <2>1, <2>3, <3>1, ReceiveFacts
    <2>4. CASE LocalStep(q)
      BY <1>1, <2>1, <2>4, LocalStepFacts DEF IsStored, Updates
    <2>5. CASE StoreAcquire(q)
      BY <1>1, <2>1, <2>5, StoreAcquireFacts
    <2>6. CASE ReadCurrent(q)
      BY <1>1, <2>1, <2>6, ReadCurrentFacts DEF IsStored, Updates
    <2>7. CASE TryUpdate(q)
      BY <1>1, <2>1, <2>7, TryUpdateFacts DEF IsStored, Updates
    <2> QED
      BY <1>1, <2>2, <2>3, <2>4, <2>5, <2>6, <2>7, RequestStep
  <1> QED
    BY <1>1, <1>2 DEF ReachInv, TargetsStored, IssuedIsFound, Succeeded, IsStored, Updates

LEMMA ReachInvariant == Spec => []ReachInv
  BY InitReachInv, NextReachInv, PTL DEF Spec

\* An identifier that was handed out by an Acquire is never answered 404.
THEOREM IssuedAlwaysFound == Spec => []IssuedIsFound
  <1>1. ReachInv => IssuedIsFound
    BY DEF ReachInv
  <1> QED
    BY <1>1, ReachInvariant, PTL

-----------------------------------------------------------------------------
(* A renewal that arrives after a release was answered is refused.         *)

\* q released the entitlement that r is to renew, and r arrived afterwards.
ReleasedBefore(q, r) ==
    /\ q \in before[r] /\ input[r].op = "renew" /\ input[q].op = "release"
    /\ target[r] = target[q] /\ Succeeded(q)

OrderInv ==
    /\ StoreInv
    /\ \A r \in Requests : \A q \in before[r] : pc[q] = "answered"
    /\ \A r, q \in Requests :
          ReleasedBefore(q, r) => pc[r] \in {"received", "answered"} /\ ~Succeeded(r)

LEMMA InitOrderInv == Init => OrderInv
  BY InitStoreInv DEF Init, OrderInv, ReleasedBefore

LEMMA AnsweredStays ==
    ASSUME TypeInv, [Next]_vars, NEW q \in Requests, pc[q] = "answered"
    PROVE  Untouched(q)
  BY RequestStep, ReceiveFacts, LocalStepFacts, StoreAcquireFacts, ReadCurrentFacts, TryUpdateFacts

LEMMA NextOrderInv == OrderInv /\ [Next]_vars => OrderInv'
  <1> SUFFICES ASSUME OrderInv, [Next]_vars PROVE OrderInv'
    OBVIOUS
  <1>1. StoreInv' /\ StoreInv /\ TypeInv /\ before \in [Requests -> SUBSET Requests]
    BY NextStoreInv DEF OrderInv, StoreInv, TypeInv, TypeOK
  <1>2. ASSUME NEW r \in Requests
        PROVE  before'[r] = before[r] \/ (Arrives(r) /\ before'[r] = Answered)
    BY <1>1, <1>2, RequestStep, ReceiveFacts, LocalStepFacts, StoreAcquireFacts,
       ReadCurrentFacts, TryUpdateFacts DEF Untouched
  <1>3. ASSUME NEW r \in Requests, NEW q \in before'[r]
        PROVE  q \in Requests /\ pc[q] = "answered" /\ Untouched(q)
    BY <1>1, <1>2, <1>3, AnsweredStays DEF OrderInv, Answered
  <1>4. ASSUME NEW r \in Requests, NEW q \in before'[r], input'[r].op = "renew",
               input'[q].op = "release", target'[r] = target'[q],
               answer'[q].status \in {"Ok", "NoContent"}
        PROVE  /\ pc'[r] \in {"received", "answered"}
               /\ answer'[r].status \notin {"Ok", "NoContent"}
    <2>1. /\ q \in Requests /\ input[q].op = "release" /\ Succeeded(q)
          /\ target'[r] = target[q]
      BY <1>3, <1>4 DEF Untouched, Succeeded
    <2>2. IsStored(target[q]) /\ IsReleased(store[target[q]])
      BY <1>1, <2>1 DEF StoreInv, ReleaseSticks
    <2>3. pc[r] # "answered" => answer[r].status = "none"
      BY <1>1 DEF TypeInv, LocalsOK, NoAnswer
    <2>4. CASE Arrives(r)
      BY <1>1, <2>3, <2>4, ReceiveFacts
    <2>5. CASE ~Arrives(r)
      <3>1. before'[r] = before[r]
        BY <1>2, <2>5
      <3>2. input[r].op = "renew" /\ target'[r] = target[r]
        BY <1>1, <1>4, <2>5, RequestStep, LocalStepFacts, StoreAcquireFacts, ReadCurrentFacts,
           TryUpdateFacts DEF Untouched
      <3>3. pc[r] \in {"received", "answered"} /\ ~Succeeded(r)
        BY <1>4, <2>1, <3>1, <3>2 DEF OrderInv, ReleasedBefore
      <3>4. Untouched(r) \/ LocalStep(r)
        BY <1>1, <2>5, <3>2, <3>3, RequestStep, StoreAcquireFacts, ReadCurrentFacts, TryUpdateFacts
      <3>5. CASE Untouched(r)
        BY <3>3, <3>5 DEF Untouched, Succeeded
      <3>6. CASE LocalStep(r)
        BY <1>1, <2>1, <2>2, <3>2, <3>3, <3>6, LocalStepFacts DEF Updates
      <3> QED
        BY <3>4, <3>5, <3>6
    <2> QED
      BY <2>4, <2>5
  <1> QED
    BY <1>1, <1>3, <1>4 DEF OrderInv, ReleasedBefore, Succeeded, Untouched

LEMMA OrderInvariant == Spec => []OrderInv
  BY InitOrderInv, NextOrderInv, PTL DEF Spec

\* A Renew that arrives after the answer to a Release of the same entitlement
\* is never answered 200: the check for release may be overtaken by a release,
\* but only by one that runs at the same time.
THEOREM LateRenewalsRefused == Spec => []LateRenewalRefused
  <1>1. OrderInv => LateRenewalRefused
    BY DEF OrderInv, StoreInv, TypeInv, TypeOK, LateRenewalRefused, ReleasedBefore
  <1> QED
    BY <1>1, OrderInvariant, PTL

-----------------------------------------------------------------------------
(* A conflict always has a winner.                                         *)

\* Another update has replaced the object that r read.
Overtaken(r) ==
    \E q \in Requests \ {r} :
        /\ input[q].op \in {"renew", "release"} /\ Succeeded(q)
        /\ target[q] = target[r] /\ seen[q] = seen[r]

WinnerInv ==
    /\ ReachInv
    /\ ConflictHasWinner
    /\ \A r \in Requests :
          pc[r] = "read" /\ seen[r] # store[target[r]] => Overtaken(r)

LEMMA InitWinnerInv == Init => WinnerInv
  BY InitReachInv DEF Init, WinnerInv, ConflictHasWinner, NoAnswer

\* Only a successful TryUpdate changes an entitlement that is stored.
LEMMA ChangedByUpdate ==
    ASSUME StoreInv, [Next]_vars, NEW id \in DOMAIN store, store'[id] # store[id]
    PROVE  \E q \in Requests :
              /\ TryUpdate(q) /\ target[q] = id /\ seen[q] = store[id]
              /\ answer'[q].status \in {"Ok", "NoContent"}
  <1> USE DEF StoreInv
  <1>1. ASSUME NEW q \in Requests, Arrives(q) PROVE FALSE
    BY <1>1, ReceiveFacts
  <1>2. ASSUME NEW q \in Requests, LocalStep(q) \/ ReadCurrent(q) \/ StoreAcquire(q) PROVE FALSE
    BY <1>2, LocalStepFacts, ReadCurrentFacts, StoreAcquireFacts
  <1>3. ASSUME NEW q \in Requests, TryUpdate(q)
        PROVE  /\ target[q] = id /\ seen[q] = store[id]
               /\ answer'[q].status \in {"Ok", "NoContent"}
    BY <1>3, TryUpdateFacts DEF SnapshotsOld, Updates
  <1>4. ~Tick /\ ~UNCHANGED vars
    BY DEF Tick, vars
  <1> QED
    BY <1>1, <1>2, <1>3, <1>4, HandleCases DEF Next, Arrives, Quiet

\* Who was overtaken stays so: the winner is answered.
LEMMA OvertakenStays ==
    ASSUME TypeInv, [Next]_vars, NEW r \in Requests, Overtaken(r),
           seen'[r] = seen[r], target'[r] = target[r]
    PROVE  Overtaken(r)'
  <1> PICK q \in Requests \ {r} :
         /\ input[q].op \in {"renew", "release"} /\ Succeeded(q)
         /\ target[q] = target[r] /\ seen[q] = seen[r]
    BY DEF Overtaken
  <1>1. pc[q] = "answered"
    BY DEF TypeInv, LocalsOK, NoAnswer, Succeeded
  <1>2. Untouched(q)
    BY <1>1, AnsweredStays
  <1> QED
    BY <1>2 DEF Untouched, Overtaken, Succeeded

LEMMA NextWinnerInv == WinnerInv /\ [Next]_vars => WinnerInv'
  <1> SUFFICES ASSUME WinnerInv, [Next]_vars PROVE WinnerInv'
    OBVIOUS
  <1>1. ReachInv' /\ ReachInv /\ StoreInv /\ TypeInv
    BY NextReachInv DEF WinnerInv, ReachInv, StoreInv
  <1>2. ASSUME NEW r \in Requests, answer'[r].status = "InternalError"
        PROVE  Overtaken(r)'
    <2>1. CASE Untouched(r)
      BY <1>1, <1>2, <2>1, OvertakenStays DEF WinnerInv, ConflictHasWinner, Overtaken, Untouched
    <2>2. CASE TryUpdate(r)
      <3>1. seen[r].object # store[target[r]].object /\ UNCHANGED <<seen, target>> /\ pc[r] = "read"
        BY <1>1, <1>2, <2>2, TryUpdateFacts DEF Updates
      <3>2. Overtaken(r)
        BY <3>1 DEF WinnerInv
      <3> QED
        BY <1>1, <3>1, <3>2, OvertakenStays
    <2>3. pc[r] # "answered" => answer[r].status = "none"
      BY <1>1 DEF TypeInv, LocalsOK, NoAnswer
    <2>4. ~Arrives(r) /\ ~LocalStep(r) /\ ~StoreAcquire(r)
      BY <1>1, <1>2, <2>3, ReceiveFacts, LocalStepFacts, StoreAcquireFacts
    <2>5. ~ReadCurrent(r)
      BY <1>1, <1>2, <2>3, ReadCurrentFacts DEF ReachInv, TargetsStored
    <2> QED
      BY <1>1, <2>1, <2>2, <2>4, <2>5, RequestStep
  <1>3. ASSUME NEW r \in Requests, pc'[r] = "read", seen'[r] # store'[target'[r]]
        PROVE  Overtaken(r)'
    <2>1. ~ReadCurrent(r)
      BY <1>1, <1>3, ReadCurrentFacts DEF ReachInv, TargetsStored
    <2>2. Untouched(r)
      BY <1>1, <1>3, <2>1, RequestStep, ReceiveFacts, LocalStepFacts, StoreAcquireFacts,
         TryUpdateFacts
    <2>3. CASE seen[r] # store[target[r]]
      BY <1>1, <1>3, <2>2, <2>3, OvertakenStays DEF WinnerInv, Untouched
    <2>4. CASE seen[r] = store[target[r]]
      <3>1. target[r] \in DOMAIN store /\ store'[target[r]] # store[target[r]]
        BY <1>1, <1>3, <2>2, <2>4 DEF Untouched, TypeInv, LocalsOK, IsStored
      <3>2. PICK q \in Requests :
               /\ TryUpdate(q) /\ target[q] = target[r] /\ seen[q] = store[target[r]]
               /\ answer'[q].status \in {"Ok", "NoContent"}
        BY <1>1, <3>1, ChangedByUpdate
      <3>3. /\ UNCHANGED <<input, target, seen>> /\ Updates(q)
            /\ pc'[q] = "answered"
        BY <1>1, <3>2, TryUpdateFacts
      <3>4. q # r
        BY <1>3, <3>3
      <3> QED
        BY <2>4, <3>2, <3>3, <3>4 DEF Overtaken, Updates, Succeeded
    <2> QED
      BY <2>3, <2>4
  <1> QED
    BY <1>1, <1>2, <1>3 DEF WinnerInv, ConflictHasWinner, Overtaken

LEMMA WinnerInvariant == Spec => []WinnerInv
  BY InitWinnerInv, NextWinnerInv, PTL DEF Spec

\* No update is refused for nothing: when one gives up with 500, another one has
\* replaced the very object it had read, and succeeded.
THEOREM ConflictsHaveWinners == Spec => []ConflictHasWinner
  <1>1. WinnerInv => ConflictHasWinner
    BY DEF WinnerInv
  <1> QED
    BY <1>1, WinnerInvariant, PTL

-----------------------------------------------------------------------------
(* The server implements the ledger.                                       *)

\* The identifiers drawn by acquisitions that are not stored yet are unused.
FreshInv ==
    /\ StoreInv
    /\ \A r \in Requests : At(r, "acquire", "timed") => ~IsStored(target[r])
    /\ \A r, q \in Requests :
          r # q /\ At(r, "acquire", "timed") /\ At(q, "acquire", "timed")
             => target[r] # target[q]

LEMMA InitFreshInv == Init => FreshInv
  BY InitStoreInv DEF Init, FreshInv, At

LEMMA NextFreshInv == FreshInv /\ [Next]_vars => FreshInv'
  <1> SUFFICES ASSUME FreshInv, [Next]_vars PROVE FreshInv'
    OBVIOUS
  <1>1. StoreInv' /\ StoreInv /\ TypeInv
    BY NextStoreInv DEF FreshInv, StoreInv
  <1>2. ASSUME NEW r \in Requests, pc'[r] = "timed", input'[r].op = "acquire"
        PROVE  \/ Untouched(r)
               \/ PrepareAcquire(r) /\ target'[r] \in FreshIds
    <2>1. CASE LocalStep(r)
      <3>1. input[r].op = "acquire"
        BY <1>1, <1>2, <2>1, LocalStepFacts
      <3>2. PrepareAcquire(r)
        BY <1>1, <1>2, <2>1, <3>1
        DEF LocalStep, RefuseAcquire, RefuseRenew, FindForRenew, TimeRenewal, FindForRelease,
            TimeRelease, At, Reply, TypeInv, TypeOK
      <3> QED
        BY <1>1, <3>2 DEF PrepareAcquire, TypeInv, TypeOK
    <2> QED
      BY <1>1, <1>2, <2>1, RequestStep, ReceiveFacts, StoreAcquireFacts, ReadCurrentFacts,
         TryUpdateFacts
  <1>3. ASSUME NEW r \in Requests, PrepareAcquire(r), NEW q \in Requests, q # r
        PROVE  Untouched(q) /\ UNCHANGED store
    BY <1>1, <1>3, LocalStepFacts DEF LocalStep, Untouched
  <1>4. ASSUME NEW r \in Requests, pc'[r] = "timed", input'[r].op = "acquire"
        PROVE  target'[r] \notin DOMAIN store'
    <2>1. CASE PrepareAcquire(r) /\ target'[r] \in FreshIds
      BY <1>1, <2>1, LocalStepFacts DEF LocalStep, FreshIds
    <2>2. CASE Untouched(r)
      <3>1. At(r, "acquire", "timed") /\ target[r] \notin DOMAIN store /\ target'[r] = target[r]
        BY <1>4, <2>2 DEF Untouched, At, FreshInv, IsStored
      <3>2. ASSUME NEW q \in Requests, StoreAcquire(q) PROVE target[r] # target[q]
        <4>1. q # r
          BY <1>1, <1>4, <3>2, StoreAcquireFacts
        <4>2. At(q, "acquire", "timed")
          BY <3>2 DEF StoreAcquire
        <4> QED
          BY <3>1, <4>1, <4>2 DEF FreshInv
      <3>3. CASE \E q \in Requests : StoreAcquire(q)
        BY <1>1, <3>1, <3>2, <3>3, StoreAcquireFacts
      <3>4. CASE ~\E q \in Requests : StoreAcquire(q)
        <4>1. DOMAIN store' = DOMAIN store
          BY <1>1, <3>4, HandleCases, ReceiveFacts, LocalStepFacts, ReadCurrentFacts, TryUpdateFacts
          DEF Next, Arrives, Tick, Quiet, vars
        <4> QED
          BY <3>1, <4>1
      <3> QED
        BY <3>3, <3>4
    <2> QED
      BY <1>2, <1>4, <2>1, <2>2
  <1>5. ASSUME NEW r \in Requests, pc'[r] = "timed", input'[r].op = "acquire",
               NEW q \in Requests, pc'[q] = "timed", input'[q].op = "acquire", r # q
        PROVE  target'[r] # target'[q]
    <2>1. CASE PrepareAcquire(r) /\ target'[r] \in FreshIds
      BY <1>3, <1>5, <2>1 DEF FreshIds, Untouched
    <2>2. CASE PrepareAcquire(q) /\ target'[q] \in FreshIds
      BY <1>3, <1>5, <2>2 DEF FreshIds, Untouched
    <2>3. CASE Untouched(r) /\ Untouched(q)
      BY <1>5, <2>3 DEF Untouched, At, FreshInv
    <2> QED
      BY <1>2, <1>5, <2>1, <2>2, <2>3
  <1> QED
    BY <1>1, <1>4, <1>5 DEF FreshInv, At, IsStored

LEMMA FreshInvariant == Spec => []FreshInv
  BY InitFreshInv, NextFreshInv, PTL DEF Spec

Book == [id \in DOMAIN store |->
            [acquired |-> store[id].acquired, renewals |-> store[id].renewals,
             released |-> store[id].released]]
Outcome == [r \in Requests |-> answer[r].status]

LEMMA LedgerInit == Init => Ledger!Init
  BY DEF Init, StoreInit, Ledger!Init, NoAnswer

\* A request whose answer is the only one to change settles in the ledger.
LEMMA SettleStep ==
    ASSUME TypeInv, TypeInv', NEW r \in Requests, pc[r] # "answered",
           NEW status, answer'[r].status = status,
           \A q \in Requests : q # r => answer'[q] = answer[q]
    PROVE  Ledger!Settle(r, status)
  <1>1. Outcome[r] = "none"
    BY DEF TypeInv, LocalsOK, NoAnswer, Outcome
  <1>2. Outcome' = [Outcome EXCEPT ![r] = status]
    BY DEF Outcome
  <1> QED
    BY <1>1, <1>2 DEF Ledger!Settle, Outcome

LEMMA LedgerLocalStep ==
    ASSUME FreshInv, FreshInv', NEW r \in Requests, LocalStep(r)
    PROVE  Ledger!Next \/ UNCHANGED <<Book, Outcome>>
  <1>1. TypeInv /\ TypeInv' /\ UNCHANGED store
    BY LocalStepFacts DEF FreshInv, StoreInv
  <1>2. UNCHANGED Book
    BY <1>1 DEF Book
  <1>3. CASE answer'[r] = answer[r]
    BY <1>1, <1>2, <1>3, LocalStepFacts DEF Outcome
  <1>4. CASE answer'[r] # answer[r]
    <2>1. /\ pc[r] # "answered"
          /\ \A q \in Requests : q # r => answer'[q] = answer[q]
      BY <1>1, LocalStepFacts
    <2>2. CASE answer'[r].status = "AlreadyReleased"
      <3>1. target[r] \in DOMAIN store /\ store[target[r]].released # NoTime
        BY <1>1, <2>2, LocalStepFacts DEF IsStored, IsReleased
      <3>2. target[r] \in EntitlementIds
        BY <1>1, <3>1 DEF TypeInv, TypeOK, StoreType
      <3>3. target[r] \in DOMAIN Book /\ Book[target[r]].released # NoTime
        BY <3>1 DEF Book
      <3>4. Ledger!Settle(r, "AlreadyReleased")
        BY <1>1, <2>1, <2>2, SettleStep
      <3>5. Ledger!RefuseReleased(r, target[r])
        BY <1>2, <3>3, <3>4 DEF Ledger!RefuseReleased, Ledger!NotReleased, NoTime, Book
      <3> QED
        BY <3>2, <3>5 DEF Ledger!Next
    <2>3. CASE answer'[r].status # "AlreadyReleased"
      <3>1. answer'[r].status \in {"BadRequest", "Denied", "NotFound", "InternalError", "Exception"}
        BY <1>1, <1>4, <2>3, LocalStepFacts
      <3>2. PICK status \in {"BadRequest", "Denied", "NotFound", "InternalError", "Exception"} :
               answer'[r].status = status
        BY <3>1
      <3>3. Ledger!Settle(r, status)
        BY <1>1, <2>1, <3>2, SettleStep
      <3>4. Ledger!Refuse(r, status)
        BY <1>2, <3>3 DEF Ledger!Refuse, Book
      <3> QED
        BY <3>4 DEF Ledger!Next
    <2> QED
      BY <2>2, <2>3
  <1> QED
    BY <1>3, <1>4

LEMMA LedgerStoreAcquire ==
    ASSUME FreshInv, FreshInv', NEW r \in Requests, StoreAcquire(r)
    PROVE  Ledger!Next
  <1>1. TypeInv /\ TypeInv' /\ At(r, "acquire", "timed")
    BY DEF FreshInv, StoreInv, StoreAcquire
  <1>2. PICK id \in EntitlementIds, date \in StartTime .. EndTime :
           id = target[r] /\ id \notin DOMAIN store /\ date = time[r]
    BY <1>1 DEF FreshInv, TypeInv, LocalsOK, At, IsStored
  <1>3. Ledger!Settle(r, "Ok")
    <2>1. /\ pc[r] # "answered" /\ answer'[r].status = "Ok"
          /\ \A q \in Requests : q # r => answer'[q] = answer[q]
      BY <1>1, StoreAcquireFacts
    <2> QED
      BY <1>1, <2>1, SettleStep
  <1>4. Book' = [x \in DOMAIN Book \cup {id} |->
                   IF x = id THEN [acquired |-> date, renewals |-> <<>>, released |-> -1]
                   ELSE Book[x]]
    <2>1. /\ DOMAIN store' = DOMAIN store \cup {id}
          /\ \A x \in DOMAIN store : store'[x] = store[x]
          /\ store'[id] = CreateNew(date)
      BY <1>1, <1>2, StoreAcquireFacts DEF IsStored
    <2>2. /\ store'[id].acquired = date /\ store'[id].renewals = <<>>
          /\ store'[id].released = -1
      BY <2>1 DEF CreateNew, NoTime
    <2> QED
      BY <1>2, <2>1, <2>2 DEF Book
  <1>5. id \notin DOMAIN Book
    BY <1>2 DEF Book
  <1>6. Ledger!Grant(r, id, date)
    BY <1>3, <1>4, <1>5 DEF Ledger!Grant, Ledger!NotReleased, Book
  <1> QED
    BY <1>6 DEF Ledger!Next

\* How the book changes when one entitlement is replaced.
LEMMA BookReplace ==
    ASSUME NEW id \in DOMAIN store, NEW props,
           DOMAIN store' = DOMAIN store, store'[id] = props,
           \A x \in DOMAIN store : x # id => store'[x] = store[x]
    PROVE  /\ id \in DOMAIN Book
           /\ Book[id] = [acquired |-> store[id].acquired, renewals |-> store[id].renewals,
                          released |-> store[id].released]
           /\ Book' = [Book EXCEPT ![id] =
                         [acquired |-> props.acquired, renewals |-> props.renewals,
                          released |-> props.released]]
  BY DEF Book

LEMMA LedgerTryUpdate ==
    ASSUME FreshInv, FreshInv', NEW r \in Requests, TryUpdate(r)
    PROVE  Ledger!Next
  <1>1. TypeInv /\ TypeInv' /\ SnapshotsOld
    BY DEF FreshInv, StoreInv
  <1>2. /\ pc[r] # "answered"
        /\ \A q \in Requests : q # r => answer'[q] = answer[q]
    BY <1>1, TryUpdateFacts
  <1>3. CASE seen[r].object # store[target[r]].object
    <2>1. store' = store /\ answer'[r].status = "InternalError"
      BY <1>1, <1>3, TryUpdateFacts
    <2>2. Ledger!Settle(r, "InternalError") /\ UNCHANGED Book
      BY <1>1, <1>2, <2>1, SettleStep DEF Book
    <2>3. Ledger!Refuse(r, "InternalError")
      BY <2>2 DEF Ledger!Refuse, Book
    <2> QED
      BY <2>3 DEF Ledger!Next
  <1>4. CASE seen[r].object = store[target[r]].object
    <2>1. PICK id \in EntitlementIds, date \in StartTime .. EndTime, props \in Entitlement :
             /\ id = target[r] /\ id \in DOMAIN store
             /\ props = store[id] /\ seen[r] = props
             /\ date = time[r] /\ date \in Times
      <3>1. /\ target[r] \in DOMAIN store /\ target[r] \in EntitlementIds
            /\ store[target[r]] \in Entitlement
        BY <1>1, TryUpdateFacts DEF TypeInv, TypeOK, StoreType, IsStored
      <3>2. time[r] \in StartTime .. EndTime /\ time[r] \in Times
        BY <1>1, TryUpdateFacts DEF TypeInv, LocalsOK
      <3>3. seen[r] = store[target[r]]
        BY <1>1, <1>4, TryUpdateFacts DEF SnapshotsOld
      <3> QED
        BY <3>1, <3>2, <3>3
    <2>2. /\ DOMAIN store' = DOMAIN store
          /\ store'[id] = Updated(r)
          /\ \A x \in DOMAIN store : x # id => store'[x] = store[x]
          /\ input[r].op = "renew" => answer'[r].status = "Ok"
          /\ input[r].op = "release" => answer'[r].status = "NoContent"
      BY <1>1, <1>4, <2>1, TryUpdateFacts
    <2>3. CASE input[r].op = "renew"
      <3>1. store'[id] = WithRenewal(props, date)
        BY <2>1, <2>2, <2>3 DEF Updated
      <3>2. /\ id \in DOMAIN Book
            /\ Book' = [Book EXCEPT ![id].renewals = Append(@, date)]
        <4>1. /\ store'[id].acquired = props.acquired
              /\ store'[id].renewals = Append(props.renewals, date)
              /\ store'[id].released = props.released
          BY <2>1, <3>1 DEF WithRenewal
        <4>2. /\ id \in DOMAIN Book
              /\ Book[id] = [acquired |-> props.acquired, renewals |-> props.renewals,
                             released |-> props.released]
              /\ Book' = [Book EXCEPT ![id] =
                            [acquired |-> store'[id].acquired, renewals |-> store'[id].renewals,
                             released |-> store'[id].released]]
          BY <2>1, <2>2, BookReplace
        <4>3. [Book[id] EXCEPT !.renewals = Append(@, date)] =
                 [acquired |-> props.acquired, renewals |-> Append(props.renewals, date),
                  released |-> props.released]
          <5>1. Book[id].renewals = props.renewals
            BY <4>2
          <5> DEFINE longer == Append(props.renewals, date)
          <5>2. PICK s : s = longer
            OBVIOUS
          <5>3. [Book[id] EXCEPT !.renewals = s] =
                   [acquired |-> props.acquired, renewals |-> s, released |-> props.released]
            <6> HIDE DEF longer
            <6> QED
              BY <4>2
          <5> QED
            BY <5>1, <5>2, <5>3
        <4>4. Book' = [Book EXCEPT ![id] = [Book[id] EXCEPT !.renewals = Append(@, date)]]
          BY <4>1, <4>2, <4>3
        <4> QED
          BY <4>2, <4>4
      <3>3. Ledger!Settle(r, "Ok")
        BY <1>1, <1>2, <2>2, <2>3, SettleStep
      <3>4. Ledger!Extend(r, id, date)
        BY <3>2, <3>3 DEF Ledger!Extend, Book
      <3> QED
        BY <3>4 DEF Ledger!Next
    <2>4. CASE input[r].op = "release"
      <3>1. store'[id] = WithRelease(props, date)
        BY <2>1, <2>2, <2>4 DEF Updated
      <3>2. /\ id \in DOMAIN Book
            /\ Book' = [Book EXCEPT ![id].released = date]
        <4>1. /\ store'[id].acquired = props.acquired
              /\ store'[id].renewals = props.renewals
              /\ store'[id].released = date
          BY <2>1, <3>1 DEF WithRelease
        <4>2. /\ id \in DOMAIN Book
              /\ Book[id] = [acquired |-> props.acquired, renewals |-> props.renewals,
                             released |-> props.released]
              /\ Book' = [Book EXCEPT ![id] =
                            [acquired |-> store'[id].acquired, renewals |-> store'[id].renewals,
                             released |-> store'[id].released]]
          BY <2>1, <2>2, BookReplace
        <4>3. [Book[id] EXCEPT !.released = date] =
                 [acquired |-> props.acquired, renewals |-> props.renewals,
                  released |-> date]
          BY <4>2
        <4>4. Book' = [Book EXCEPT ![id] = [Book[id] EXCEPT !.released = date]]
          BY <4>1, <4>2, <4>3
        <4> QED
          BY <4>2, <4>4
      <3>3. Ledger!Settle(r, "NoContent")
        BY <1>1, <1>2, <2>2, <2>4, SettleStep
      <3>4. Ledger!Close(r, id, date)
        BY <3>2, <3>3 DEF Ledger!Close, Book
      <3> QED
        BY <3>4 DEF Ledger!Next
    <2> QED
      BY <1>1, <2>3, <2>4, TryUpdateFacts DEF Updates
  <1> QED
    BY <1>3, <1>4

LEMMA LedgerReadCurrent ==
    ASSUME FreshInv, FreshInv', NEW r \in Requests, ReadCurrent(r)
    PROVE  Ledger!Next \/ UNCHANGED <<Book, Outcome>>
  <1>1. TypeInv /\ TypeInv' /\ UNCHANGED store
    BY ReadCurrentFacts DEF FreshInv, StoreInv
  <1>2. CASE IsStored(target[r])
    BY <1>1, <1>2, ReadCurrentFacts DEF Book, Outcome
  <1>3. CASE ~IsStored(target[r])
    <2>1. /\ pc[r] # "answered" /\ answer'[r].status = "InternalError"
          /\ \A q \in Requests : q # r => answer'[q] = answer[q]
      BY <1>1, <1>3, ReadCurrentFacts
    <2>2. Ledger!Settle(r, "InternalError") /\ UNCHANGED Book
      BY <1>1, <2>1, SettleStep DEF Book
    <2>3. Ledger!Refuse(r, "InternalError")
      BY <2>2 DEF Ledger!Refuse, Book
    <2> QED
      BY <2>3 DEF Ledger!Next
  <1> QED
    BY <1>2, <1>3

LEMMA LedgerNext ==
    FreshInv /\ FreshInv' /\ [Next]_vars => [Ledger!Next]_<<Book, Outcome>>
  <1> SUFFICES ASSUME FreshInv, FreshInv', [Next]_vars
               PROVE  Ledger!Next \/ UNCHANGED <<Book, Outcome>>
    OBVIOUS
  <1>1. TypeInv
    BY DEF FreshInv, StoreInv
  <1>2. CASE \E r \in Requests : Arrives(r)
    BY <1>1, <1>2, ReceiveFacts DEF Book, Outcome
  <1>3. CASE \E r \in Requests : Handle(r)
    BY <1>3, HandleCases, LedgerLocalStep, LedgerStoreAcquire, LedgerTryUpdate, LedgerReadCurrent
  <1>4. CASE Tick \/ UNCHANGED vars
    BY <1>4 DEF Tick, vars, Book, Outcome
  <1> QED
    BY <1>2, <1>3, <1>4 DEF Next, Arrives, Quiet

\* The handlers, which take several steps each, implement the ledger, in which a
\* request takes effect at once: every answer is the answer of a single step.
THEOREM ServerImplementsLedger == Spec => ImplementsLedger
  <1>1. Ledger!Init /\ [][Ledger!Next]_<<Book, Outcome>> => ImplementsLedger
    BY DEF ImplementsLedger, Ledger!Spec, Book, Outcome
  <1> QED
    BY <1>1, LedgerInit, LedgerNext, FreshInvariant, PTL DEF Spec

-----------------------------------------------------------------------------
(* The answers agree with the record.                                      *)

\* The steps with which a request succeeds.
Succeeds(q) ==
    StoreAcquire(q) \/ (TryUpdate(q) /\ seen[q].object = store[target[q]].object)

LEMMA SuccessStep ==
    ASSUME TypeInv, TypeInv', [Next]_vars, NEW q \in Requests
    PROVE  /\ Succeeded(q) => Untouched(q)
           /\ Succeeded(q)' => Untouched(q) \/ Succeeds(q)
  <1>1. Succeeded(q) => pc[q] = "answered"
    BY DEF TypeInv, LocalsOK, NoAnswer, Succeeded
  <1>2. Succeeded(q)' => pc'[q] = "answered"
    BY DEF TypeInv, LocalsOK, NoAnswer, Succeeded
  <1>3. Arrives(q) => pc'[q] = "received"
    BY ReceiveFacts
  <1>4. LocalStep(q) \/ ReadCurrent(q) => ~Succeeded(q)'
    <2>1. ASSUME LocalStep(q)
          PROVE  ~Succeeded(q)'
      BY <1>2, <2>1, LocalStepFacts DEF Succeeded
    <2>2. ASSUME ReadCurrent(q)
          PROVE  ~Succeeded(q)'
      BY <1>2, <2>2, ReadCurrentFacts DEF Succeeded
    <2> QED
      BY <2>1, <2>2
  <1>5. TryUpdate(q) /\ Succeeded(q)' => Succeeds(q)
    BY TryUpdateFacts DEF Succeeded, Succeeds
  <1> QED
    BY <1>1, <1>2, <1>3, <1>4, <1>5, AnsweredStays, RequestStep DEF Succeeds

\* What a client was told of its acquisition or renewal.
Recorded(r) ==
    /\ input[r].op = "acquire" =>
          /\ IsStored(target[r])
          /\ answer[r].expiry = Expiry(r, store[target[r]].acquired)
    /\ input[r].op = "renew" =>
          /\ IsStored(target[r])
          /\ \E i \in DOMAIN store[target[r]].renewals :
                answer[r].expiry = Expiry(r, store[target[r]].renewals[i])

RecordInv == FreshInv /\ \A r \in Requests : Succeeded(r) => Recorded(r)

LEMMA InitRecordInv == Init => RecordInv
  BY InitFreshInv DEF Init, RecordInv, Succeeded, NoAnswer

LEMMA NextRecordInv == RecordInv /\ [Next]_vars => RecordInv'
  <1> SUFFICES ASSUME RecordInv, [Next]_vars
               PROVE  RecordInv'
    OBVIOUS
  <1>1. FreshInv /\ FreshInv' /\ StoreInv /\ TypeInv /\ TypeInv'
    BY NextFreshInv DEF RecordInv, FreshInv, StoreInv
  <1> SUFFICES ASSUME NEW r \in Requests, Succeeded(r)'
               PROVE  Recorded(r)'
    BY <1>1 DEF RecordInv
  <1>2. CASE Untouched(r)
    <2>1. /\ Recorded(r) /\ input'[r] = input[r] /\ target'[r] = target[r]
          /\ answer'[r] = answer[r]
      BY <1>2 DEF Untouched, RecordInv, Succeeded
    <2>2. \A id \in DOMAIN store :
             /\ id \in DOMAIN store' /\ store'[id].acquired = store[id].acquired
             /\ \A i \in DOMAIN store[id].renewals :
                   i \in DOMAIN store'[id].renewals /\ store'[id].renewals[i] = store[id].renewals[i]
      <3> SUFFICES ASSUME NEW id \in DOMAIN store
                   PROVE  /\ id \in DOMAIN store' /\ store'[id].acquired = store[id].acquired
                          /\ \A i \in DOMAIN store[id].renewals :
                                /\ i \in DOMAIN store'[id].renewals
                                /\ store'[id].renewals[i] = store[id].renewals[i]
        OBVIOUS
      <3>1. store[id].renewals \in Seq(Times)
        BY <1>1, EntitlementStep DEF Entitlement
      <3>2. \/ store'[id].renewals = store[id].renewals
            \/ \E t \in StartTime .. EndTime : store'[id].renewals = Append(store[id].renewals, t)
        BY <1>1, RecordGrows
      <3>3. \A t \in StartTime .. EndTime : t \in Times
        BY ClockAssumption DEF Times
      <3> QED
        BY <1>1, <3>1, <3>2, <3>3, RecordGrows
    <2> QED
      BY <2>1, <2>2 DEF Recorded, IsStored, Expiry
  <1>3. CASE StoreAcquire(r)
    <2>1. /\ input' = input /\ target' = target /\ input[r].op = "acquire"
          /\ target[r] \in DOMAIN store' /\ store'[target[r]] = CreateNew(time[r])
      BY <1>1, <1>3, StoreAcquireFacts DEF StoreAcquire, FreshInv, IsStored
    <2>2. answer'[r].expiry = Expiry(r, time[r])
      BY <1>1, <1>3 DEF StoreAcquire, Reply, TypeInv, TypeOK
    <2> QED
      BY <2>1, <2>2 DEF Recorded, IsStored, Expiry, CreateNew
  <1>4. CASE TryUpdate(r) /\ seen[r].object = store[target[r]].object
    <2>1. /\ input' = input /\ target' = target /\ Updates(r)
          /\ target[r] \in DOMAIN store' /\ store'[target[r]] = Updated(r)
          /\ seen[r] \in Entitlement /\ time[r] \in Times
      BY <1>1, <1>4, TryUpdateFacts DEF IsStored
    <2>2. ASSUME input[r].op = "renew"
          PROVE  \E i \in DOMAIN store'[target[r]].renewals :
                    answer'[r].expiry = Expiry(r, store'[target[r]].renewals[i])
      <3>1. answer'[r].expiry = Expiry(r, time[r])
        BY <1>1, <1>4, <2>2 DEF TryUpdate, SameObject, SuccessReply, Reply, TypeInv, TypeOK
      <3>2. store'[target[r]].renewals = Append(seen[r].renewals, time[r])
        BY <2>1, <2>2, UpdateFacts DEF Updated
      <3>3. seen[r].renewals \in Seq(Times)
        BY <2>1 DEF Entitlement
      <3>4. /\ Len(seen[r].renewals) + 1 \in DOMAIN store'[target[r]].renewals
            /\ store'[target[r]].renewals[Len(seen[r].renewals) + 1] = time[r]
        BY <2>1, <3>2, <3>3
      <3> QED
        BY <3>1, <3>4
    <2> QED
      BY <2>1, <2>2 DEF Recorded, IsStored, Expiry, Updates
  <1> QED
    BY <1>1, <1>2, <1>3, <1>4, SuccessStep DEF Succeeds

LEMMA RecordInvariant == Spec => []RecordInv
  BY InitRecordInv, NextRecordInv, PTL DEF Spec

\* The expiry in an answer is computed from a time that the record keeps, also when
\* others renew and release between the reading of the clock and the update.
THEOREM ExpiriesAreRecorded == Spec => []ExpiryMatchesRecord
  <1>1. RecordInv => ExpiryMatchesRecord
    BY DEF RecordInv, Recorded, ExpiryMatchesRecord
  <1> QED
    BY <1>1, RecordInvariant, PTL

-----------------------------------------------------------------------------
(* Every answer is accounted for: with each success the record changes     *)
(* once, and without one it does not change.                               *)

AccountInv == RecordInv /\ EveryAnswerAccounted

\* Who succeeded has an entitlement in the store.
LEMMA SuccessStored ==
    ASSUME RecordInv, NEW op \in {"acquire", "renew", "release"}, NEW id, ~IsStored(id)
    PROVE  SuccessesOf(op, id) = {}
  BY DEF RecordInv, Recorded, FreshInv, StoreInv, ReleaseSticks, SuccessesOf

\* The successes after a step in which q succeeds.
LEMMA OneSuccess ==
    ASSUME TypeInv, TypeInv', [Next]_vars, NEW q \in Requests, Succeeds(q), NEW op, NEW id
    PROVE  /\ q \notin SuccessesOf(op, id)
           /\ SuccessesOf(op, id)' = IF input[q].op = op /\ target[q] = id
                                     THEN SuccessesOf(op, id) \cup {q} ELSE SuccessesOf(op, id)
  <1>1. /\ input' = input /\ target' = target /\ ~Succeeded(q) /\ Succeeded(q)'
        /\ \A p \in Requests : p # q => answer'[p] = answer[p]
    <2>1. pc[q] # "answered" => ~Succeeded(q)
      BY DEF TypeInv, LocalsOK, NoAnswer, Succeeded
    <2>2. CASE StoreAcquire(q)
      BY <2>1, <2>2, StoreAcquireFacts DEF Succeeded
    <2>3. CASE TryUpdate(q) /\ seen[q].object = store[target[q]].object
      BY <2>1, <2>3, TryUpdateFacts DEF Succeeded, Updates
    <2> QED
      BY <2>2, <2>3 DEF Succeeds
  <1> QED
    BY <1>1 DEF SuccessesOf, Succeeded

LEMMA NoSuccess ==
    ASSUME TypeInv, TypeInv', [Next]_vars, \A q \in Requests : ~Succeeds(q)
    PROVE  store' = store /\ \A op, id : SuccessesOf(op, id)' = SuccessesOf(op, id)
  <1>1. store' = store
    BY HandleCases, ReceiveFacts, LocalStepFacts, ReadCurrentFacts, TryUpdateFacts
       DEF Next, Arrives, Tick, Quiet, vars, Succeeds
  <1>2. \A q \in Requests : Succeeded(q) \/ Succeeded(q)' => Untouched(q)
    BY SuccessStep
  <1>3. \A op, id : \A q \in Requests : q \in SuccessesOf(op, id)' <=> q \in SuccessesOf(op, id)
    BY <1>2 DEF SuccessesOf, Succeeded, Untouched
  <1>4. \A op, id : SuccessesOf(op, id) \subseteq Requests /\ SuccessesOf(op, id)' \subseteq Requests
    BY DEF SuccessesOf
  <1> QED
    BY <1>1, <1>3, <1>4

\* Requests are finitely many, so their successes can be counted.
LEMMA SuccessesCount ==
    ASSUME NEW op, NEW id
    PROVE  /\ IsFiniteSet(SuccessesOf(op, id)) /\ Cardinality(SuccessesOf(op, id)) \in Nat
           /\ \A q : q \notin SuccessesOf(op, id) =>
                 Cardinality(SuccessesOf(op, id) \cup {q}) = Cardinality(SuccessesOf(op, id)) + 1
  <1>1. SuccessesOf(op, id) \subseteq Requests
    BY DEF SuccessesOf
  <1>2. IsFiniteSet(SuccessesOf(op, id))
    BY <1>1, RequestsAssumption, FS_Subset
  <1> QED
    BY <1>2, FS_CardinalityType, FS_AddElement

LEMMA InitAccountInv == Init => AccountInv
  BY InitRecordInv DEF Init, StoreInit, AccountInv, EveryAnswerAccounted

LEMMA NextAccountInv == AccountInv /\ [Next]_vars => AccountInv'
  <1> SUFFICES ASSUME AccountInv, [Next]_vars
               PROVE  AccountInv'
    OBVIOUS
  <1>1. /\ RecordInv /\ RecordInv' /\ FreshInv /\ StoreInv /\ TypeInv /\ TypeInv'
    BY NextRecordInv DEF AccountInv, RecordInv, FreshInv, StoreInv
  <1> DEFINE N(op, id) == Cardinality(SuccessesOf(op, id))
  <1>2. \A id \in DOMAIN store :
           /\ N("acquire", id) = 1 /\ Len(store[id].renewals) = N("renew", id)
           /\ store[id].object - 1 = N("renew", id) + N("release", id)
           /\ N("renew", id) \in Nat /\ N("release", id) \in Nat
    BY SuccessesCount DEF AccountInv, EveryAnswerAccounted
  <1> SUFFICES ASSUME NEW id \in DOMAIN store'
               PROVE  /\ N("acquire", id)' = 1 /\ Len(store'[id].renewals) = N("renew", id)'
                      /\ store'[id].object - 1 = N("renew", id)' + N("release", id)'
    BY <1>1 DEF AccountInv, EveryAnswerAccounted
  <1>3. CASE \A q \in Requests : ~Succeeds(q)
    BY <1>1, <1>2, <1>3, NoSuccess
  <1>4. ASSUME NEW q \in Requests, Succeeds(q), id # target[q]
        PROVE  /\ id \in DOMAIN store /\ store'[id] = store[id]
               /\ \A op : SuccessesOf(op, id)' = SuccessesOf(op, id)
    <2>1. ASSUME NEW op
          PROVE  SuccessesOf(op, id)' = SuccessesOf(op, id)
      BY <1>1, <1>4, OneSuccess
    <2>2. id \in DOMAIN store /\ store'[id] = store[id]
      BY <1>1, <1>4, StoreAcquireFacts, TryUpdateFacts DEF Succeeds
    <2> QED
      BY <2>1, <2>2
  <1>5. ASSUME NEW q \in Requests, StoreAcquire(q), id = target[q]
        PROVE  /\ N("acquire", id)' = 1 /\ Len(store'[id].renewals) = N("renew", id)'
               /\ store'[id].object - 1 = N("renew", id)' + N("release", id)'
    <2>1. input[q].op = "acquire" /\ ~IsStored(id) /\ store'[id] = CreateNew(time[q])
      BY <1>1, <1>5, StoreAcquireFacts DEF FreshInv, StoreAcquire
    <2>2. \A op \in {"acquire", "renew", "release"} :
             SuccessesOf(op, id)' = IF op = "acquire" THEN {q} ELSE {}
      <3> SUFFICES ASSUME NEW op \in {"acquire", "renew", "release"}
                   PROVE  SuccessesOf(op, id)' = IF op = "acquire" THEN {q} ELSE {}
        OBVIOUS
      <3>1. SuccessesOf(op, id) = {}
        BY <1>1, <2>1, SuccessStored
      <3>2. SuccessesOf(op, id)' = IF input[q].op = op /\ target[q] = id
                                   THEN SuccessesOf(op, id) \cup {q} ELSE SuccessesOf(op, id)
        BY <1>1, <1>5, OneSuccess DEF Succeeds
      <3> QED
        BY <1>5, <2>1, <3>1, <3>2
    <2>3. N("acquire", id)' = 1 /\ N("renew", id)' = 0 /\ N("release", id)' = 0
      BY <2>2, FS_Singleton, FS_EmptySet
    <2>4. store'[id].object = 1 /\ store'[id].renewals = <<>>
      BY <2>1 DEF CreateNew
    <2> HIDE DEF N
    <2> QED
      BY <2>3, <2>4
  <1>6. ASSUME NEW q \in Requests, TryUpdate(q), Succeeds(q), id = target[q]
        PROVE  /\ N("acquire", id)' = 1 /\ Len(store'[id].renewals) = N("renew", id)'
               /\ store'[id].object - 1 = N("renew", id)' + N("release", id)'
    <2>1. seen[q].object = store[target[q]].object
      BY <1>1, <1>6, StoreAcquireFacts, TryUpdateFacts DEF Succeeds
    <2>2. /\ Updates(q) /\ id \in DOMAIN store /\ store'[id] = Updated(q) /\ time[q] \in Times
          /\ store[id] \in Entitlement /\ seen[q] = store[id]
      BY <1>1, <1>6, <2>1, TryUpdateFacts, EntitlementStep DEF IsStored, StoreInv, SnapshotsOld
    <2>3. /\ store'[id].object = store[id].object + 1 /\ store[id].object \in Nat
          /\ Len(store'[id].renewals) = Len(store[id].renewals)
                                        + (IF input[q].op = "renew" THEN 1 ELSE 0)
      <3>1. store[id].renewals \in Seq(Times) /\ store[id].object \in Nat
        BY <2>2 DEF Entitlement
      <3>2. Len(Append(store[id].renewals, time[q])) = Len(store[id].renewals) + 1
            /\ Len(store[id].renewals) \in Nat
        BY <2>2, <3>1
      <3>3. CASE input[q].op = "renew"
        BY <2>2, <3>1, <3>2, <3>3, UpdateFacts DEF Updated
      <3>4. CASE input[q].op = "release"
        BY <2>2, <3>1, <3>2, <3>4, UpdateFacts DEF Updated
      <3> QED
        BY <2>2, <3>3, <3>4 DEF Updates
    <2>4. ASSUME NEW op
          PROVE  N(op, id)' = N(op, id) + (IF input[q].op = op THEN 1 ELSE 0)
      BY <1>1, <1>6, OneSuccess, SuccessesCount
    <2> HIDE DEF N
    <2>5. /\ N("acquire", id) = 1 /\ Len(store[id].renewals) = N("renew", id)
          /\ store[id].object - 1 = N("renew", id) + N("release", id)
          /\ N("renew", id) \in Nat /\ N("release", id) \in Nat
      BY <1>2, <2>2
    <2>6. CASE input[q].op = "renew"
      <3>1. /\ N("acquire", id)' = N("acquire", id) + 0 /\ N("renew", id)' = N("renew", id) + 1
            /\ N("release", id)' = N("release", id) + 0
        BY <2>4, <2>6
      <3>2. Len(store'[id].renewals) = Len(store[id].renewals) + 1
        BY <2>3, <2>6
      <3>3. Len(store'[id].renewals) = N("renew", id)'
        BY <2>5, <3>1, <3>2
      <3>4. store'[id].object - 1 = N("renew", id)' + N("release", id)'
        <4>1. store'[id].object = store[id].object + 1 /\ store[id].object \in Nat
          BY <2>3
        <4>2. /\ store[id].object - 1 = N("renew", id) + N("release", id)
              /\ N("renew", id) \in Nat /\ N("release", id) \in Nat
          BY <2>5
        <4>3. N("renew", id)' = N("renew", id) + 1 /\ N("release", id)' = N("release", id) + 0
          BY <3>1
        <4> QED
          BY ONLY <4>1, <4>2, <4>3
      <3> QED
        BY <2>5, <3>1, <3>3, <3>4
    <2>7. CASE input[q].op = "release"
      <3>1. /\ N("acquire", id)' = N("acquire", id) + 0 /\ N("renew", id)' = N("renew", id) + 0
            /\ N("release", id)' = N("release", id) + 1
        BY <2>4, <2>7
      <3>2. Len(store'[id].renewals) = Len(store[id].renewals) + 0
        BY <2>3, <2>7
      <3> QED
        BY <2>3, <2>5, <3>1, <3>2
    <2> QED
      BY <2>2, <2>6, <2>7 DEF Updates
  <1> QED
    BY <1>2, <1>3, <1>4, <1>5, <1>6 DEF Succeeds

\* The record is the sum of the answers: one acquisition, as many renewals as were
\* answered 200, as many objects as updates that succeeded, whatever the
\* interleaving.  No update is lost and none is invented.
THEOREM AnswersAreAccounted == Spec => []EveryAnswerAccounted
  <1>1. AccountInv => EveryAnswerAccounted
    BY DEF AccountInv
  <1> QED
    BY <1>1, InitAccountInv, NextAccountInv, PTL DEF Spec
=============================================================================
