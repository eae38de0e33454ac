SPECIFICATION ServerSpec
CONSTANTS
    c1 = c1  c2 = c2
    Clients = {c1, c2}
    ExitAfterRequest = TRUE
    OperatorStops = FALSE
INVARIANT OneRequestOnly
