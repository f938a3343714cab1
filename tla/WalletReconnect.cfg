\* One caller; Shutdown may run before Connect.
CONSTANTS
    c1 = c1
    c2 = c2
    a1 = a1
    a2 = a2
    NoReq = NoReq
    Callers <- MCOneCaller
    Calls = 1
    IdWidth = 1
    Addrs <- MCAddrs
    ServerShapes <- MCOkShape
    MaxUnsolicited = 0
    MaxTransportErrors = 0

SPECIFICATION Spec

PROPERTY TerminatedFinal
