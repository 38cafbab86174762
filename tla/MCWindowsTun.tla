----------------------------- MODULE MCWindowsTun ----------------------------
(* Small instances of WindowsTun for TLC. *)
EXTENDS WindowsTun

CONSTANTS t1, t2, d1, d2, a1, a2, s1, s2, e1, e2, b1, b2
=============================================================================
