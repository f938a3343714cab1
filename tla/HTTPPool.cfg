\* Three concurrent Gets sharing the buffer pool.
CONSTANTS
    g1 = g1
    g2 = g2
    g3 = g3
    b1 = b1
    b2 = b2
    b3 = b3
    NoBuf = NoBuf
    Gets <- MCGets
    Bufs <- MCBufs

SPECIFICATION Spec

INVARIANT BlobIntact
INVARIANT BufferExclusive

\* Every Get returns: the run ends when all of them are done.
CHECK_DEADLOCK FALSE
