SPECIFICATION Spec
CONSTANTS
    Orders <- SomeOrders
    ForeignTokens <- SomeForeignTokens
    Servers <- SomeServers
    Bodies <- SomeBodies
    MachineAddresses = {"near", "home"}
    RemoteAddresses = {"near", "far"}
    Certificates = {"c1", "c2", "keyless"}
    PrivateKeys = {"c1", "c2"}
    ClockSkew = 1
    SevenDays = 2
    Horizon = 4
    MaxTokens = 1
INVARIANT ProtectedTokensOnly
