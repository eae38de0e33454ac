SPECIFICATION FairSpec
CONSTANTS
    r1 = r1  r2 = r2  r3 = r3
    e1 = e1  e2 = e2  none = none
    Requests = {r1, r2, r3}
    EntitlementIds = {e1, e2}
    Unissued = none
    AcquireInputs <- SomeAcquires
    RenewInputs <- SomeRenews
    StartTime = 1
    EndTime = 2
    LastTime = 3
INVARIANT TypeOK
INVARIANT ExpiryMatchesRecord
INVARIANT IssuedIsFound
INVARIANT EveryAnswerAccounted
INVARIANT ReleaseSticks
INVARIANT ConflictHasWinner
INVARIANT LateRenewalRefused
PROPERTY HistoryOnlyGrows
PROPERTY ImplementsLedger
PROPERTY EveryRequestAnswered
