\* One caller whose Send may fail or be overtaken by Shutdown.
CONSTANTS
    c1 = c1
    c2 = c2
    a1 = a1
    a2 = a2
    NoReq = NoReq
    Callers <- MCOneCaller
    Calls = 1
    IdWidth = 1
    Addrs <- MCAddrs
    ServerShapes <- MCShapes
    MaxUnsolicited = 0
    MaxTransportErrors = 0

SPECIFICATION Spec

INVARIANT NoLeak
