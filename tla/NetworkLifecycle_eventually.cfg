CONSTANTS
    NetObjs = {n1}
    Clients = {c1, c2, c3}
    Requests = {r1, r2}
    Lifespan = Lifespan
    None = None
    DelayMax = 2
    Inputs <- NoOutage
SPECIFICATION FairSpec
PROPERTY RequestsFinish
PROPERTY ReconnectEventually
