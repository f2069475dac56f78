CONSTANTS
    NetObjs = {n1}
    Clients = {c1, c2}
    Requests = {r1, r2}
    Lifespan = Lifespan
    None = None
    DelayMax = 4
    Inputs <- NoOutage
SPECIFICATION Spec
INVARIANT AtMostOneConnection
