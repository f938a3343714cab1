\* One caller goroutine issuing its requests one after the other.
CONSTANTS
    c1 = c1
    c2 = c2
    a1 = a1
    a2 = a2
    NoReq = NoReq
    Callers <- MCOneCaller
    Calls = 2
    IdWidth = 1
    Addrs <- MCAddrs
    ServerShapes <- MCShapes
    MaxUnsolicited = 0
    MaxTransportErrors = 1

SPECIFICATION Spec

INVARIANT TypeOK
INVARIANT ResponseMatches
PROPERTY ShutdownCompletes
PROPERTY RequestsTerminate
