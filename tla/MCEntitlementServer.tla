-------------------------- MODULE MCEntitlementServer ---------------------------
(***************************************************************************)
(* Instances of EntitlementServer for TLC.                                 *)
(***************************************************************************)
EXTENDS EntitlementServer

CONSTANTS r1, r2, r3, e1, e2, none

Span(n) == [form |-> "span", span |-> n]
NoSpan(form) == [form |-> form, span |-> 0]

Acquire(body, duration, complete, entitled) ==
    [op |-> "acquire", body |-> body, duration |-> duration,
     complete |-> complete, entitled |-> entitled]
Renew(body, duration) == [op |-> "renew", body |-> body, duration |-> duration]

GoodAcquire == Acquire(TRUE, Span(1), TRUE, TRUE)

\* Only requests that the server can honour.
HonouredAcquires == {GoodAcquire}
HonouredRenews == {Renew(TRUE, Span(1))}

\* Requests that are honoured, every way a body can be refused, in combinations
\* that show the order of the checks, and durations that leave the calendar at its
\* beginning, or at its end when the clock has moved.
SomeAcquires ==
    {Acquire(TRUE, Span(2), TRUE, TRUE), Acquire(TRUE, Span(-2), TRUE, TRUE),
     Acquire(FALSE, NoSpan("missing"), FALSE, FALSE),
     Acquire(TRUE, NoSpan("missing"), FALSE, TRUE),
     Acquire(TRUE, NoSpan("overflow"), FALSE, TRUE), Acquire(TRUE, Span(1), FALSE, FALSE),
     Acquire(TRUE, Span(1), TRUE, FALSE)}
SomeRenews ==
    {Renew(TRUE, Span(2)), Renew(TRUE, Span(-2)),
     Renew(FALSE, NoSpan("missing")), Renew(TRUE, NoSpan("malformed"))}
=============================================================================
