CONSTANTS
    NetObjs = {n1}
    Clients = {c1, c2}
    Requests = {r1}
    Lifespan = Lifespan
    None = None
    DelayMax = 4
    Inputs <- Anything
SPECIFICATION Spec
INVARIANT ReconnectPending
