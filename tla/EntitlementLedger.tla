---------------------------- MODULE EntitlementLedger ---------------------------
(***************************************************************************)
(* What the leased-entitlement operations promise, with each request taking*)
(* effect in a single step: a ledger of entitlements in which a request    *)
(* records exactly one event and succeeds, or records nothing and fails.   *)
(***************************************************************************)
EXTENDS Integers, Sequences

CONSTANTS Requests, EntitlementIds, Dates

VARIABLES
    ledger,     \* the recorded events of every entitlement
    outcome     \* how each request was answered, "none" before

NotReleased == -1

Init ==
    /\ ledger = [id \in {} |-> <<>>]
    /\ outcome = [r \in Requests |-> "none"]

Settle(r, status) ==
    /\ outcome[r] = "none"
    /\ outcome' = [outcome EXCEPT ![r] = status]

\* A new entitlement under an identifier not used before.
Grant(r, id, date) ==
    /\ Settle(r, "Ok")
    /\ id \notin DOMAIN ledger
    /\ ledger' = [x \in DOMAIN ledger \cup {id} |->
                    IF x = id THEN [acquired |-> date, renewals |-> <<>>, released |-> NotReleased]
                    ELSE ledger[x]]

\* A renewal is appended to what is recorded at that moment.  Nothing here
\* forbids one after the release: the server does not, either.
Extend(r, id, date) ==
    /\ Settle(r, "Ok")
    /\ id \in DOMAIN ledger
    /\ ledger' = [ledger EXCEPT ![id].renewals = Append(@, date)]

\* The last of several releases is the one that is remembered.
Close(r, id, date) ==
    /\ Settle(r, "NoContent")
    /\ id \in DOMAIN ledger
    /\ ledger' = [ledger EXCEPT ![id].released = date]

\* A renewal that is refused because the entitlement is released.
RefuseReleased(r, id) ==
    /\ Settle(r, "AlreadyReleased")
    /\ id \in DOMAIN ledger /\ ledger[id].released # NotReleased
    /\ UNCHANGED ledger

\* Any other failure records nothing.
Refuse(r, status) ==
    /\ Settle(r, status)
    /\ UNCHANGED ledger

Next ==
    \E r \in Requests :
        \/ \E id \in EntitlementIds :
              \/ \E date \in Dates :
                    Grant(r, id, date) \/ Extend(r, id, date) \/ Close(r, id, date)
              \/ RefuseReleased(r, id)
        \/ \E status \in {"BadRequest", "Denied", "NotFound", "InternalError", "Exception"} :
              Refuse(r, status)

Spec == Init /\ [][Next]_<<ledger, outcome>>
=============================================================================
