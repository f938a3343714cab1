----------------------------- MODULE MCHTTPStore -----------------------------
(***************************************************************************)
(* A small instance of HTTPStore for TLC: Gets and buffers are model      *)
(* values; there are as many buffers as Gets, so New can always supply    *)
(* one when the pool is empty.                                             *)
(***************************************************************************)
EXTENDS HTTPStore

CONSTANTS g1, g2, g3, b1, b2, b3

MCGets == {g1, g2, g3}
MCBufs == {b1, b2, b3}
=============================================================================
