----------------------------- MODULE MCLinuxTun ------------------------------
(* Small instances of LinuxTun for TLC. *)
EXTENDS LinuxTun, TLC

CONSTANTS t1, t2, d1, d2, n1, n2, a1, a2, l1

\* Threads, objects and names are interchangeable: every set of actions
\* quantifies over them, and no property names one.
Symmetric == Permutations(Threads) \cup Permutations(Devices) \cup Permutations(Names)
=============================================================================
