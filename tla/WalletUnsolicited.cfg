\* One caller; the server may send one push or one frame that is not JSON.
CONSTANTS
    c1 = c1
    c2 = c2
    a1 = a1
    a2 = a2
    NoReq = NoReq
    Callers <- MCOneCaller
    Calls = 1
    IdWidth = 1
    Addrs <- MCAddrs
    ServerShapes <- MCShapes
    MaxUnsolicited = 1
    MaxTransportErrors = 0

SPECIFICATION Spec

INVARIANT ResponseMatches
