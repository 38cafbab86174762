--------------------------- MODULE MCPolledReader ----------------------------
(* A small instance of PolledReader for TLC: thread t1 owns d1, t2 owns d2. *)
EXTENDS PolledReader, TLC

CONSTANTS t1, t2, d1, d2, n1, n2

MCOwned == t1 :> d1 @@ t2 :> d2
=============================================================================
