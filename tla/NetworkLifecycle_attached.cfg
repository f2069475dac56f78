CONSTANTS
    NetObjs = {n1, n2}
    Clients = {c1, c2, c3}
    Requests = {r1, r2}
    Lifespan = Lifespan
    None = None
    DelayMax = 4
    Inputs <- NoManualConnect
SPECIFICATION Spec
INVARIANT EveryConnectionIsAttached
INVARIANT AtMostOneConnection
INVARIANT ConnectedIsSavedAsAuto
PROPERTY ImplementsView
