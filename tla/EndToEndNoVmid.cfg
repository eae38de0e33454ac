SPECIFICATION Spec
CONSTANTS
    t1 = t1  t2 = t2  v1 = v1  nobody = nobody
    Clients = {t1}
    Threads = {t1}
    Visitors = {}
    BuiltinCerts <- ShippedCerts
    GetCalls <- AllTokens
    AddCalls <- NoAdds
    Chains <- TestChain
    Windows = FALSE
    MaxUInt = 7
    MaxCalls = 1
    Nobody = nobody
    ExitAfterRequest = FALSE
    OperatorStops = FALSE
    VisitorRequests <- Visits
    MaxCrashes = 0
INVARIANT FailuresAreExceptions
