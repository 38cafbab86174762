---------------------------- MODULE PolledReader -----------------------------
(***************************************************************************)
(* Threads of one process that use the Linux backend the way its echo test *)
(* does (tests/test_tunnel_linux.py:39-52 and 87-125): each makes an object *)
(* of its own, brings it up, and until a deadline passes polls the         *)
(* descriptor with select() and reads when it is ready; then it closes, and *)
(* the object goes with the test's last reference to it.                   *)
(* select() releases the GIL, read() does not: a read() that finds no       *)
(* packet stops the whole interpreter, deadline or not.                    *)
(***************************************************************************)
EXTENDS LinuxTun

CONSTANT Owned   \* Owned[t]: the object of thread t

ASSUME OwnedAssumption == /\ Owned \in [Threads -> Devices]
                          /\ \A t, u \in Threads : Owned[t] = Owned[u] => t = u

VARIABLES
  pc,     \* pc[t]: where thread t is in the test
  late    \* late[t]: its deadline has passed

pvars == <<vars, pc, late>>

goto(t, label) == pc' = [pc EXCEPT ![t] = label] /\ UNCHANGED late

\* A file of the driver whose interface was deleted: read() fails at once.
Detached(m) == fdt[m].kind = "tun" /\ fdt[m].link = NULL

\* select() reports a packet, and the error state of a detached file.
Ready(m) == fdt[m].rx > 0 \/ Detached(m)

-----------------------------------------------------------------------------
PInit == /\ Init
         /\ pc = [t \in Threads |-> "new"]
         /\ late = [t \in Threads |-> FALSE]

\* dev = TunTapDevice(name=tun_name); a failure ends the test before its try, with
\* an object that has nothing for its deallocation to close.
Make(t) ==
  \/ pc[t] = "new"  /\ InitBegin(t, Owned[t]) /\ goto(t, "make")
  \/ pc[t] = "make" /\ InitOpen(t) /\ UNCHANGED <<pc, late>>
  \/ /\ pc[t] = "make"
     /\ \E req \in Names \cup {NULL}, mq \in MqModes : InitAttach(t, req, mq)
     /\ goto(t, "up")
  \/ /\ pc[t] = "make"
     /\ InitError(t) \/ InitAttachError(t)
     /\ goto(t, "done")

\* dev.up() raises when no interface has the name any more.
Up(t) ==
  LET gone == ~Exists(obj[Owned[t]].ifname)
  IN  /\ pc[t] = "up"
      /\ \/ FlagsGet(t, Owned[t], TRUE) /\ UNCHANGED <<pc, late>>
         \/ FlagsSet(t) /\ goto(t, IF gone THEN "close" ELSE "select")
         \/ Runs(t) /\ gone /\ goto(t, "close") /\ UNCHANGED vars

\* One round of the loop; a select() that times out changes nothing.
Select(t) ==
  /\ pc[t] = "select" /\ Runs(t)
  /\ \/ late[t] /\ goto(t, "close")
     \/ ~late[t] /\ Ready(obj[Owned[t]].fd) /\ goto(t, "read")
  /\ UNCHANGED vars

\* The frame is the echo request or another packet.
Read(t) ==
  /\ pc[t] = "read"
  /\ \/ ReadBegin(t, Owned[t]) /\ UNCHANGED <<pc, late>>
     \/ ReadEnd(t) /\ \E label \in {"select", "reply"} : goto(t, label)
     \/ Detached(obj[Owned[t]].fd) /\ ReadError(t) /\ goto(t, "close")

\* dev.write(reply), which returns or raises.
Reply(t) == pc[t] = "reply" /\ Runs(t) /\ goto(t, "close") /\ UNCHANGED vars

\* An error of close() is caught and passed over.
Finally(t) == /\ pc[t] = "close"
              /\ Close(t, Owned[t]) \/ CloseError(t, Owned[t])
              /\ goto(t, "drop")

\* The test returns: its object is deallocated, which closes once more what close()
\* did not report closed.
Drop(t) == pc[t] = "drop" /\ Dealloc(t, Owned[t]) /\ goto(t, "done")

Client(t) == \/ Make(t) \/ Up(t) \/ Select(t) \/ Read(t) \/ Reply(t)
             \/ Finally(t) \/ Drop(t)

\* The time set when the loop began is over.
Deadline(t) == /\ pc[t] \in {"select", "read"}
               /\ ~late[t] /\ late' = [late EXCEPT ![t] = TRUE]
               /\ UNCHANGED <<vars, pc>>

PNext == \/ \E t \in Threads : Client(t) \/ Deadline(t)
         \/ Environment /\ UNCHANGED <<pc, late>>

\* A thread that can go on does; time passes.  The rest of the host owes nothing:
\* no packet need ever come.
PSpec == /\ PInit /\ [][PNext]_pvars
         /\ \A t \in Threads : WF_pvars(Client(t)) /\ WF_pvars(Deadline(t))

-----------------------------------------------------------------------------
(* Properties *)

\* A read() that select() announced finds a packet or an error: between the two
\* nobody takes the packet.  This is what keeps the GIL-holding read from
\* stopping the interpreter (linux_backend.c:164).  Needs ~CloseErrs: after an error
\* of close(2) the deallocation closes the number a second time, under whoever has it.
ReadNeverBlocks ==
  \A t \in Threads : call[t].at = "read" => Ready(call[t].fd)

\* Whoever holds the GIL inside a system call gives it back.
GilReturned == \A t \in Threads : HoldsGil(t) ~> ~HoldsGil(t)

\* Every thread gets through its test, with or without a packet, and leaves no
\* file of its object behind: no wait outlives the deadline by another thread's
\* read.
AllEnd ==
  \A t \in Threads :
    <>[](pc[t] = "done" /\ \A m \in Fds : fdt[m].by # Owned[t])
=============================================================================
