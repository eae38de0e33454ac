SPECIFICATION Spec
CONSTANTS
    r1 = r1  r2 = r2  r3 = r3
    e1 = e1  e2 = e2  none = none
    Requests = {r1, r2, r3}
    EntitlementIds = {e1}
    Unissued = none
    AcquireInputs <- HonouredAcquires
    RenewInputs <- HonouredRenews
    StartTime = 1
    EndTime = 1
    LastTime = 3
PROPERTY NoRenewalAfterRelease
