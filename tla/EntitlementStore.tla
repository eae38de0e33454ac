---------------------------- MODULE EntitlementStore ----------------------------
(***************************************************************************)
(* The in-memory store of software entitlements (EntitlementStore.cs) and  *)
(* the immutable objects it keeps (EntitlementProperties.cs).              *)
(*                                                                         *)
(* The dictionary is a partial function: an identifier is in the domain of *)
(* store when an entitlement is stored under it.  The dictionary compares  *)
(* EntitlementProperties objects by reference, so every object carries an  *)
(* identity: the field object counts the objects published under the same  *)
(* identifier.  Two updaters may build an object with the same number, but *)
(* only one of the two is ever published, and only published objects are   *)
(* compared.  The token's own properties are stored but never read again,  *)
(* and are left out.                                                       *)
(***************************************************************************)
EXTENDS Integers, Sequences

CONSTANT EntitlementIds       \* the identifiers that can be generated

VARIABLE store                \* _entitlements

Times == Nat
NoTime == -1                  \* the null of a DateTimeOffset?

Entitlement ==
    [object : Nat \ {0}, acquired : Times, renewals : Seq(Times),
     released : Times \cup {NoTime}]

\* A local that no object has been assigned to yet.
NullEntitlement ==
    [object |-> 0, acquired |-> 0, renewals |-> <<>>, released |-> NoTime]

StoreType == \E S \in SUBSET EntitlementIds : store \in [S -> Entitlement]

StoreInit == store = [id \in {} |-> NullEntitlement]

-----------------------------------------------------------------------------
(* EntitlementProperties: every update is a new object.                    *)

CreateNew(time) ==
    [object |-> 1, acquired |-> time, renewals |-> <<>>, released |-> NoTime]

\* Faulty variant: the renewal is recorded as the only one.
WithRenewalAlone(props, time) ==
    [object |-> props.object + 1, acquired |-> props.acquired,
     renewals |-> <<time>>, released |-> props.released]

\* Faulty variant: the renewed entitlement is valid again.
WithRenewalReopened(props, time) ==
    [object |-> props.object + 1, acquired |-> props.acquired,
     renewals |-> Append(props.renewals, time), released |-> NoTime]

WithRenewal(props, time) ==
    [object |-> props.object + 1, acquired |-> props.acquired,
     renewals |-> Append(props.renewals, time), released |-> props.released]

WithRelease(props, time) ==
    [object |-> props.object + 1, acquired |-> props.acquired,
     renewals |-> props.renewals, released |-> time]

IsReleased(props) == props.released # NoTime

-----------------------------------------------------------------------------
(* EntitlementStore.                                                       *)

\* TryGetValue finds a value.
IsStored(id) == id \in DOMAIN store

\* AddOrUpdate with (e, props) => props: a value that is already there stays.
StoreEntitlement(id, time) ==
    store' = [x \in DOMAIN store \cup {id} |->
                 IF x \in DOMAIN store THEN store[x] ELSE CreateNew(time)]

\* Faulty variant: the two objects have the same contents so far.
SameAcquisition(props, current) == props.acquired = current.acquired

\* Faulty variant: the updated object is compared instead of the one that was read.
SameAsUpdated(props, current) == props.object + 1 = current.object

\* The dictionary's comparison of the object read earlier with the present one.
SameObject(props, current) == props.object = current.object

\* ConcurrentDictionary.TryUpdate replaces the value that was read by a new one.
Publish(id, props) == store' = [store EXCEPT ![id] = props]
=============================================================================
