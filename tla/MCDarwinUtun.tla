---------------------------- MODULE MCDarwinUtun -----------------------------
(* Small instances of DarwinUtun for TLC. *)
EXTENDS DarwinUtun, TLC

CONSTANTS t1, t2, d1, d2, f1, f2, a1, l1

\* Threads, objects and descriptor numbers are interchangeable: no action or
\* property names or orders them.
Symmetric == Permutations(Threads) \cup Permutations(Devices) \cup Permutations(Fds)
=============================================================================
