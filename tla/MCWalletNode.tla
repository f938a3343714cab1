---------------------------- MODULE MCWalletNode ----------------------------
(* Small instances of WalletNode for TLC.                                  *)
EXTENDS WalletNode

CONSTANTS c1, c2, a1, a2

MCOneCaller == {c1}
MCTwoCallers == {c1, c2}
MCAddrs == {a1, a2}
MCShapes == {"ok", "errA", "errB"}
MCOkShape == {"ok"}
=============================================================================
