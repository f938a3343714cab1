----------------------------- MODULE MCDiskStore -----------------------------
(***************************************************************************)
(* Small instances of DiskStore for TLC: goroutines are model values.     *)
(***************************************************************************)
EXTENDS DiskStore

CONSTANTS p1, p2, g1, g2, d1, d2

MCNone == {}
MCOnePut == {p1}
MCTwoPuts == {p1, p2}
MCOneGet == {g1}
MCTwoGets == {g1, g2}
MCOneDelete == {d1}
MCTwoDeletes == {d1, d2}
=============================================================================
