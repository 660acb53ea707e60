SPECIFICATION Spec
CONSTANTS
    Local = {gw, ns, peer}
    Strangers = {peer}
    Targets = {far}
    Router = gw
    Server = ns
    Home = home
    Leases = {lease}
    None = None
    ArpSize = 2
    PingSlots = 2
    Routers = {None, peer}
    MaxSeq = 2
    MaxAsk = 2
    MaxStray = 1
INVARIANTS NetSound HeardIsFound AnswersMatch SlotsAccounted
