SPECIFICATION FairClientSpec
CONSTANTS
    t1 = t1  t2 = t2  nobody = nobody
    Clients = {t1, t2}
    Threads = {t1, t2}
    BuiltinCerts <- ShippedCerts
    GetCalls <- SomeGets
    AddCalls <- SomeAdds
    Chains <- SomeChains
    Windows = TRUE
    MaxUInt = 7
    MaxCalls = 2
    Nobody = nobody
INVARIANT OneGetAtATime
INVARIANT GivesUpLast
INVARIANT UrlsReachServer
PROPERTY CertsStableDuringGet
PROPERTY EveryCallReturns
