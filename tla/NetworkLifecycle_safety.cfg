CONSTANTS
    NetObjs = {n1, n2}
    Clients = {c1, c2, c3}
    Requests = {r1, r2}
    Lifespan = Lifespan
    None = None
    DelayMax = 2
    Inputs <- NoOutage
SPECIFICATION Spec
SYMMETRY Identities
INVARIANT TypeOK
INVARIANT ConnectingIsBacked
INVARIANT ConnectedIsBacked
INVARIANT BackoffReset
INVARIANT Ownership
INVARIANT ReconnectPending
INVARIANT LoopHasReason
