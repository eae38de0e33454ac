SPECIFICATION FairSpec
CONSTANTS
    t1 = t1  t2 = t2  v1 = v1  nobody = nobody
    Clients = {t1, v1}
    Threads = {t1}
    Visitors = {v1}
    BuiltinCerts <- ShippedCerts
    GetCalls <- AllTokens
    AddCalls <- NoAdds
    Chains <- TestChain
    Windows = FALSE
    MaxUInt = 7
    MaxCalls = 2
    Nobody = nobody
    ExitAfterRequest = TRUE
    OperatorStops = TRUE
    VisitorRequests <- Visits
    MaxCrashes = 1
INVARIANT EveryRequestRouted
INVARIANT DeliveredOnce
INVARIANT CallerLearnsVerdict
INVARIANT EntitledByServer
PROPERTY EveryCallReturns
PROPERTY ExitsAfterHandledRequest
