SPECIFICATION FairSpec
CONSTANTS
    Local = {gw, ns, peer}
    Strangers = {peer}
    Targets = {far}
    Router = gw
    Server = ns
    Home = home
    Leases = {lease}
    None = None
    ArpSize = 2
    PingSlots = 2
    Routers = {None, peer}
    MaxSeq = 1
    MaxAsk = 1
    MaxStray = 0
PROPERTY WaitsBriefly
