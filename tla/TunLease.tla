------------------------------ MODULE TunLease -------------------------------
(***************************************************************************)
(* What a TunTapDevice promises about network interfaces, whatever the     *)
(* platform: an open object holds at most one interface; a private one is  *)
(* held by one object at a time, a shared (multi-queue) one by several;    *)
(* an interface leaves the host with its last holder unless it is kept     *)
(* (persist), and the host may delete or rename it under its holders at any *)
(* time.  No object loses or gains an interface in any other way.          *)
(***************************************************************************)
CONSTANTS Devices, Names, NULL

VARIABLES
  lease,   \* lease[d]: the interface object d holds, or NULL
  iface,   \* iface[n]: "none", or how the interface n may be held
  kept     \* the interfaces that outlive their holders

Holders(n) == {d \in Devices : lease[d] = n}

Init == /\ lease = [d \in Devices |-> NULL]
        /\ iface = [n \in Names |-> "none"]
        /\ kept = {}

\* __init__
Acquire(d, n) ==
  /\ lease[d] = NULL
  /\ lease' = [lease EXCEPT ![d] = n]
  /\ \/ /\ iface[n] = "none"
        /\ \E how \in {"private", "shared"} : iface' = [iface EXCEPT ![n] = how]
     \/ /\ iface[n] = "private" /\ Holders(n) = {}
        /\ UNCHANGED iface
     \/ /\ iface[n] = "shared"
        /\ UNCHANGED iface
  /\ UNCHANGED kept

\* close, deallocation
Release(d, n) ==
  /\ lease[d] = n
  /\ lease' = [lease EXCEPT ![d] = NULL]
  /\ iface' = IF Holders(n) = {d} /\ n \notin kept
              THEN [iface EXCEPT ![n] = "none"] ELSE iface
  /\ UNCHANGED kept

\* persist(flag)
Keep(d, n, flag) ==
  /\ lease[d] = n
  /\ kept' = IF flag THEN kept \cup {n} ELSE kept \ {n}
  /\ UNCHANGED <<lease, iface>>

\* The host's administrator deletes the interface.
Vanish(n) ==
  /\ iface[n] # "none"
  /\ lease' = [d \in Devices |-> IF lease[d] = n THEN NULL ELSE lease[d]]
  /\ iface' = [iface EXCEPT ![n] = "none"]
  /\ kept' = kept \ {n}

\* He gives it a name that is free: whoever held it holds it still.
Rename(n, new) ==
  /\ iface[n] # "none" /\ iface[new] = "none"
  /\ lease' = [d \in Devices |-> IF lease[d] = n THEN new ELSE lease[d]]
  /\ iface' = [iface EXCEPT ![new] = iface[n], ![n] = "none"]
  /\ kept' = IF n \in kept THEN (kept \ {n}) \cup {new} ELSE kept

vars == <<lease, iface, kept>>

Next == /\ vars' # vars
        /\ \E n \in Names :
             \/ Vanish(n)
             \/ \E new \in Names : Rename(n, new)
             \/ \E d \in Devices : \/ Acquire(d, n) \/ Release(d, n)
                                   \/ \E flag \in BOOLEAN : Keep(d, n, flag)

Spec == Init /\ [][Next]_vars

(* What follows from the contract. *)

\* A private interface has at most one holder.
Exclusive == \A n \in Names : iface[n] = "private" =>
               \A d, e \in Holders(n) : d = e

\* The interfaces there are, are exactly those held or kept.
NoGhost == \A n \in Names : iface[n] # "none" <=> Holders(n) # {} \/ n \in kept
=============================================================================
