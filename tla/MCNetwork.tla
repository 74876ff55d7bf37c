----------------------------- MODULE MCNetwork -----------------------------
(* Instance of Network for TLC. *)
EXTENDS Network, TLC

CONSTANTS u1, u2, p1, p2, v1, v2, v3
=============================================================================
