--------------------------- MODULE TunLeaseProofs ----------------------------
(* Proofs about the contract TunLease, for every set of objects and names. *)
EXTENDS TunLease, TLAPS

LeaseType == /\ lease \in [Devices -> Names \cup {NULL}]
             /\ iface \in [Names -> {"none", "private", "shared"}]
             /\ kept \in SUBSET Names

LeaseInv == LeaseType /\ Exclusive /\ NoGhost

\* The invariant is kept by every action.
LEMMA LeaseStep ==
  ASSUME NULL \notin Names, LeaseInv, [Next]_vars
  PROVE  LeaseInv'
<1> USE DEF LeaseInv
<1>1. ASSUME NEW n \in Names, Vanish(n) PROVE LeaseInv'
  <2>1. LeaseType'
    BY <1>1 DEF Vanish, LeaseType
  <2>2. Exclusive' /\ NoGhost'
    BY <1>1, <2>1 DEF Vanish, LeaseType, Exclusive, NoGhost, Holders
  <2> QED BY <2>1, <2>2
<1>2. ASSUME NEW n \in Names, NEW d \in Devices, Acquire(d, n) PROVE LeaseInv'
  <2>1. LeaseType'
    BY <1>2 DEF Acquire, LeaseType
  <2>2. Exclusive'
    BY <1>2, <2>1 DEF Acquire, LeaseType, Exclusive, NoGhost, Holders
  <2>3. NoGhost'
    BY <1>2, <2>1 DEF Acquire, LeaseType, NoGhost, Holders
  <2> QED BY <2>1, <2>2, <2>3
<1>3. ASSUME NEW n \in Names, NEW d \in Devices, Release(d, n) PROVE LeaseInv'
  <2>1. LeaseType'
    BY <1>3 DEF Release, LeaseType
  <2>2. Exclusive'
    BY <1>3, <2>1 DEF Release, LeaseType, Exclusive, Holders
  <2>3. NoGhost'
    BY <1>3, <2>1 DEF Release, LeaseType, NoGhost, Holders
  <2> QED BY <2>1, <2>2, <2>3
<1>4. ASSUME NEW n \in Names, NEW d \in Devices, NEW flag \in BOOLEAN, Keep(d, n, flag)
      PROVE LeaseInv'
  <2>1. LeaseType'
    BY <1>4 DEF Keep, LeaseType
  <2>2. Exclusive'
    BY <1>4 DEF Keep, Exclusive, Holders
  <2>3. NoGhost'
    BY <1>4, <2>1 DEF Keep, LeaseType, NoGhost, Holders
  <2> QED BY <2>1, <2>2, <2>3
<1>5. ASSUME NEW n \in Names, NEW new \in Names, Rename(n, new) PROVE LeaseInv'
  <2>1. LeaseType' /\ n # new
    BY <1>5 DEF Rename, LeaseType
  <2>2. Holders(new) = {} /\ new \notin kept
    BY <1>5 DEF Rename, NoGhost
  <2>3. /\ Holders(new)' = Holders(n) /\ Holders(n)' = {}
        /\ \A k \in Names \ {n, new} : Holders(k)' = Holders(k)
    BY <1>5, <2>1, <2>2 DEF Rename, LeaseType, Holders
  <2>4. Exclusive'
    BY <1>5, <2>1, <2>3 DEF Rename, LeaseType, Exclusive
  <2>5. NoGhost'
    BY <1>5, <2>1, <2>2, <2>3 DEF Rename, LeaseType, NoGhost
  <2> QED BY <2>1, <2>4, <2>5
<1>6. CASE UNCHANGED vars
  BY <1>6 DEF vars, LeaseType, Exclusive, NoGhost, Holders
<1> QED BY <1>1, <1>2, <1>3, <1>4, <1>5, <1>6 DEF Next

\* The contract of __init__, close and persist implies that a private interface
\* has at most one holder, and that an interface exists just as long as an object
\* holds it or persist() keeps it.
THEOREM LeaseSafe ==
  ASSUME NULL \notin Names
  PROVE  Spec => [](Exclusive /\ NoGhost)
<1>1. Init => LeaseInv
  BY DEF Init, LeaseInv, LeaseType, Exclusive, NoGhost, Holders
<1>2. LeaseInv /\ [Next]_vars => LeaseInv'
  BY LeaseStep
<1>3. LeaseInv => Exclusive /\ NoGhost
  BY DEF LeaseInv
<1> QED BY <1>1, <1>2, <1>3, PTL DEF Spec
=============================================================================
