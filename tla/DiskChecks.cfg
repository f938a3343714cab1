\* A Put, two Gets and a Delete with one I/O fault: the throttle counter.
CONSTANTS
    p1 = p1
    p2 = p2
    g1 = g1
    g2 = g2
    d1 = d1
    d2 = d2
    OldBlob = OldBlob
    OldTmp = OldTmp
    NoFile = NoFile
    Puts <- MCOnePut
    Gets <- MCTwoGets
    Deletes <- MCOneDelete
    MaxChecks = 1
    MaxFaults = 1
SPECIFICATION Spec
INVARIANT TypeOK
INVARIANT ChecksAccurate
\* Every call returns: the run ends when all goroutines are done.
CHECK_DEADLOCK FALSE
