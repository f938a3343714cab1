\* A Put and a Get: a stored blob deleted by Get as broken.
CONSTANTS
    p1 = p1
    p2 = p2
    g1 = g1
    g2 = g2
    d1 = d1
    d2 = d2
    OldBlob = OldBlob
    OldTmp = OldTmp
    NoFile = NoFile
    Puts <- MCOnePut
    Gets <- MCOneGet
    Deletes <- MCNone
    MaxChecks = 1
    MaxFaults = 0
SPECIFICATION Spec
INVARIANT BlobStored
\* Every call returns: the run ends when all goroutines are done.
CHECK_DEADLOCK FALSE
