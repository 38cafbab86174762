-------------------------- MODULE PolledReaderProofs --------------------------
(***************************************************************************)
(* Proofs about PolledReader for every set of threads and objects.  Every  *)
(* step of the test is one of LinuxTun, so what is proved there holds here; *)
(* what the test adds is that nobody comes between a thread's select() and *)
(* its read().                                                             *)
(***************************************************************************)
EXTENDS PolledReader, LinuxTunProofs

-----------------------------------------------------------------------------
(* The test is a program of the extension *)

LEMMA OwnedFacts == /\ \A t \in Threads : Owned[t] \in Devices
                    /\ \A t, u \in Threads : Owned[t] = Owned[u] => t = u
BY OwnedAssumption

LEMMA ClientExtension ==
  ASSUME NEW t \in Threads, Client(t)
  PROVE  Extension(t) \/ UNCHANGED vars
<1>1. Owned[t] \in Devices /\ TRUE \in BOOLEAN
  BY OwnedFacts
<1>2. CASE Make(t)
  BY <1>1, <1>2 DEF Make, Extension
<1>3. CASE Up(t)
  BY <1>1, <1>3 DEF Up, Extension
<1>4. CASE Select(t) \/ Reply(t)
  BY <1>4 DEF Select, Reply
<1>5. CASE Read(t)
  BY <1>1, <1>5 DEF Read, Extension
<1>6. CASE Finally(t)
  BY <1>1, <1>6 DEF Finally, Extension
<1>7. CASE Drop(t)
  BY <1>1, <1>7 DEF Drop, Extension
<1> QED BY <1>2, <1>3, <1>4, <1>5, <1>6, <1>7 DEF Client

LEMMA StepIsLinux == [PNext]_pvars => [Next]_vars
<1>1. ASSUME NEW t \in Threads, Client(t) PROVE [Next]_vars
  BY <1>1, ClientExtension DEF Next
<1> QED BY <1>1 DEF PNext, pvars, Deadline, Next

\* Every behaviour of the test is one of the extension and its host.
THEOREM TestIsLinux == PSpec => Spec
BY StepIsLinux, PTL DEF PSpec, PInit, Spec

-----------------------------------------------------------------------------
(* Nobody comes between select() and read() *)

Labels == {"new", "make", "up", "select", "read", "reply", "close", "drop", "done"}

\* Between __init__ and close() a thread has its object to itself.
Live(t) == pc[t] \in {"up", "select", "read", "reply", "close"}

PollTypes == pc \in [Threads -> Labels] /\ late \in [Threads -> BOOLEAN]

\* A thread calls its own object only, and is where the call says.
CallsOwn ==
  \A t \in Threads :
    /\ call[t].at # "idle" => call[t].dev = Owned[t]
    /\ call[t].at = "read" => pc[t] = "read"

\* Its object is open on the file it opened.
LiveOwn ==
  \A t \in Threads : Live(t) =>
    /\ ensure_open(Owned[t]) /\ obj[Owned[t]].fd \in Fds
    /\ fdt[obj[Owned[t]].fd].kind = "tun" /\ fdt[obj[Owned[t]].fd].by = Owned[t]

\* What is left for the deallocation is closed.
Dropped == \A t \in Threads : pc[t] = "drop" => ~ensure_open(Owned[t])

\* What select() announced is still there when the thread reads.
ReadReady == \A t \in Threads : pc[t] = "read" => Ready(obj[Owned[t]].fd)

PollInv == CoreInv /\ PollTypes /\ CallsOwn /\ LiveOwn /\ Dropped /\ ReadReady

\* A step of another thread leaves a thread's object alone.
LEMMA OthersObject ==
  ASSUME PollInv, NEW t \in Threads, NEW u \in Threads, u # t, Client(u)
  PROVE  obj'[Owned[t]] = obj[Owned[t]]
<1> USE DEF PollInv, CoreInv, TypeOK
<1>1. Owned[t] \in Devices /\ Owned[u] \in Devices /\ Owned[t] # Owned[u]
  BY OwnedFacts
<1>2. CASE Make(u)
  <2>1. ASSUME NEW req \in Names \cup {NULL}, NEW mq \in MqModes, InitAttach(u, req, mq)
        PROVE  obj'[Owned[t]] = obj[Owned[t]]
    <3>1. call[u].dev = Owned[u]
      BY <2>1 DEF InitAttach, CallsOwn
    <3> QED BY <1>1, <2>1, <3>1 DEF InitAttach
  <2> QED BY <1>1, <1>2, <2>1 DEF Make, InitBegin, InitOpen, InitAttachError, InitError
<1>3. CASE Up(u) \/ Select(u) \/ Read(u) \/ Reply(u)
  BY <1>3 DEF Up, Select, Read, Reply, FlagsGet, FlagsSet, ReadBegin, ReadEnd, ReadError, vars
<1>4. CASE Finally(u) \/ Drop(u)
  BY <1>1, <1>4 DEF Finally, Drop, Close, CloseError, Dealloc
<1> QED BY <1>2, <1>3, <1>4 DEF Client

\* It leaves a live thread's file alone, too.  (After an error of close(2) it does not:
\* the deallocation then closes a number that may be the live thread's by now.)
LEMMA OthersLeaveAlone ==
  ASSUME PollInv, NEW t \in Threads, Live(t), NEW u \in Threads, u # t, Client(u)
  PROVE  /\ obj'[Owned[t]] = obj[Owned[t]]
         /\ fdt'[obj[Owned[t]].fd] = fdt[obj[Owned[t]].fd]
<1> DEFINE Goal == /\ obj'[Owned[t]] = obj[Owned[t]]
                   /\ fdt'[obj[Owned[t]].fd] = fdt[obj[Owned[t]].fd]
<1> SUFFICES Goal
  OBVIOUS
<1> USE DEF PollInv, CoreInv, TypeOK
<1>0. PICK m \in Fds : m = obj[Owned[t]].fd /\ fdt[m].kind = "tun" /\ fdt[m].by = Owned[t]
  BY DEF LiveOwn
<1>1. Owned[t] \in Devices /\ Owned[u] \in Devices /\ Owned[t] # Owned[u]
  BY OwnedFacts
<1>2. CASE Make(u)
  <2>1. CASE InitBegin(u, Owned[u])
    BY <1>1, <2>1 DEF InitBegin
  <2>2. CASE InitOpen(u)
    BY <1>0, <2>2 DEF InitOpen, LowestFree
  <2>3. ASSUME NEW req \in Names \cup {NULL}, NEW mq \in MqModes, InitAttach(u, req, mq)
        PROVE  Goal
    <3>1. PICK n \in Names : Attaching(u, n)
      BY <2>3, InitAttachStep
    <3>2. call[u].dev = Owned[u] /\ fdt[call[u].fd].by = Owned[u]
      BY <3>1 DEF Attaching, AttachOK, CallsOwn
    <3> QED BY <1>0, <1>1, <3>1, <3>2 DEF Attaching
  <2>4. CASE InitAttachError(u)
    <3>1. fdt[call[u].fd].by = Owned[u] /\ fdt' = [fdt EXCEPT ![call[u].fd] = NoFile]
      BY <2>4 DEF InitAttachError, CloseFile, AttachOK, CallsOwn
    <3> QED BY <1>0, <1>1, <2>4, <3>1 DEF InitAttachError
  <2>5. CASE InitError(u)
    BY <2>5 DEF InitError
  <2> QED BY <1>2, <2>1, <2>2, <2>3, <2>4, <2>5 DEF Make
<1>3. CASE Up(u)
  BY <1>3 DEF Up, FlagsGet, FlagsSet, vars
<1>4. CASE Select(u) \/ Reply(u)
  BY <1>4 DEF Select, Reply, vars
<1>5. CASE Read(u)
  <2>1. CASE ReadEnd(u)
    <3>1. call[u].fd = obj[Owned[u]].fd /\ pc[u] = "read"
      BY <2>1 DEF ReadEnd, ReaderKeepsDevice, CallsOwn
    <3>2. fdt[call[u].fd].by = Owned[u]
      BY <3>1 DEF LiveOwn, Live
    <3> QED BY <1>0, <1>1, <2>1, <3>2 DEF ReadEnd
  <2> QED BY <1>5, <2>1 DEF Read, ReadBegin, ReadError
<1>6. CASE Finally(u)
  <2>1. CloseFile(obj[Owned[u]].fd) /\ fdt[obj[Owned[u]].fd].by = Owned[u]
    BY <1>6 DEF Finally, Close, CloseError, LiveOwn, Live
  <2> QED BY <1>0, <1>1, <2>1, OthersObject DEF CloseFile
<1>7. CASE Drop(u)
  <2>1. UNCHANGED fdt
    BY <1>7 DEF Drop, Dealloc, Dropped
  <2> QED BY <2>1, OthersObject
<1> HIDE DEF Goal
<1> QED BY <1>2, <1>3, <1>4, <1>5, <1>6, <1>7 DEF Client

\* The rest of the host leaves its file open and does not take its packet.
LEMMA HostLeavesReady ==
  ASSUME PollInv, NEW m \in Fds, fdt[m].kind = "tun", Environment
  PROVE  /\ fdt'[m].kind = "tun" /\ fdt'[m].by = fdt[m].by
         /\ Ready(m) => Ready(m)'
<1> DEFINE Goal == /\ fdt'[m].kind = "tun" /\ fdt'[m].by = fdt[m].by
                   /\ Ready(m) => Ready(m)'
<1> SUFFICES Goal
  OBVIOUS
<1> USE DEF PollInv, CoreInv, TypeOK, Detached
<1>1. ASSUME NEW k \in Fds, PacketIn(k) PROVE Goal
  <2>1. fdt[m].rx \in Nat
    BY MaxRxAssumption DEF Files
  <2> QED BY <1>1, <2>1 DEF PacketIn, Files, Ready
<1>2. ASSUME NEW k \in Fds, OtherClose(k) PROVE Goal
  BY <1>2 DEF OtherClose, Ready
<1>3. ASSUME NEW n \in Names, LinkDelete(n) PROVE Goal
  BY <1>3 DEF LinkDelete, Ready, Files
<1>4. CASE OtherOpen
  BY <1>4 DEF OtherOpen, LowestFree, Ready
<1>5. CASE UNCHANGED fdt
  BY <1>5 DEF Ready
<1>6. ASSUME NEW n \in Names, NEW new \in Names, LinkRename(n, new) PROVE Goal
  <2>1. n # NULL
    BY NullAssumption
  <2> QED BY <1>6, <2>1, RenameFacts DEF Ready
<1>7. UNCHANGED fdt \/ OtherOpen \/ (\E k \in Fds : PacketIn(k) \/ OtherClose(k))
        \/ (\E n \in Names : LinkDelete(n)) \/ \E n, new \in Names : LinkRename(n, new)
  BY DEF Environment, LinkAdd, LinkFlags, Autoconf
<1> HIDE DEF Goal
<1> QED BY <1>1, <1>2, <1>3, <1>4, <1>5, <1>6, <1>7

\* The invariant, of one thread.
ThreadOK(t) ==
  /\ call[t].at # "idle" => call[t].dev = Owned[t]
  /\ call[t].at = "read" => pc[t] = "read"
  /\ Live(t) => /\ ensure_open(Owned[t]) /\ obj[Owned[t]].fd \in Fds
                /\ fdt[obj[Owned[t]].fd].kind = "tun" /\ fdt[obj[Owned[t]].fd].by = Owned[t]
  /\ pc[t] = "drop" => ~ensure_open(Owned[t])
  /\ pc[t] = "read" => Ready(obj[Owned[t]].fd)

LEMMA AllThreadsOK ==
  (CallsOwn /\ LiveOwn /\ Dropped /\ ReadReady) <=> \A u \in Threads : ThreadOK(u)
BY DEF CallsOwn, LiveOwn, Dropped, ReadReady, ThreadOK

LEMMA IdleFields == Idle.at = "idle"
BY DEF Idle

\* Its own steps keep it.
LEMMA OwnStepOK ==
  ASSUME ~CloseErrs, PollInv, NEW t \in Threads, Client(t)
  PROVE  ThreadOK(t)' /\ PollTypes'
<1> DEFINE Goal == ThreadOK(t)' /\ PollTypes'
<1> SUFFICES Goal
  OBVIOUS
<1> USE DEF PollInv, CoreInv, TypeOK
<1>0. Owned[t] \in Devices /\ ThreadOK(t) /\ PollTypes
  BY OwnedFacts, AllThreadsOK
<1>1. CASE Make(t)
  <2>1. ASSUME pc[t] = "new", InitBegin(t, Owned[t]), goto(t, "make") PROVE Goal
    <3>1. call'[t].dev = Owned[t] /\ call'[t].at = "init"
      BY <2>1 DEF InitBegin, Idle
    <3>2. pc'[t] = "make" /\ PollTypes'
      BY <2>1, <1>0 DEF goto, PollTypes, Labels
    <3> QED BY <3>1, <3>2 DEF ThreadOK, Live
  <2>2. ASSUME pc[t] = "make", InitOpen(t), UNCHANGED <<pc, late>> PROVE Goal
    <3>1. call'[t].dev = call[t].dev /\ call'[t].at = "attach" /\ call[t].at = "init"
      BY <2>2 DEF InitOpen, Calls
    <3> QED BY <2>2, <1>0, <3>1 DEF ThreadOK, Live, PollTypes
  <2>3. ASSUME NEW req \in Names \cup {NULL}, NEW mq \in MqModes, InitAttach(t, req, mq),
               pc[t] = "make", goto(t, "up")
        PROVE  Goal
    <3>1. PICK n \in Names : Attaching(t, n)
      BY <2>3, InitAttachStep
    <3>2. call[t].dev = Owned[t] /\ call'[t].at = "idle"
      BY <2>3, <3>1, <1>0, IdleFields DEF Attaching, ThreadOK, InitAttach
    <3>3. pc'[t] = "up" /\ PollTypes'
      BY <2>3, <1>0 DEF goto, PollTypes, Labels
    <3>4. /\ ensure_open(Owned[t])' /\ obj'[Owned[t]].fd \in Fds
          /\ fdt'[obj'[Owned[t]].fd].kind = "tun" /\ fdt'[obj'[Owned[t]].fd].by = Owned[t]
      BY <3>1, <3>2 DEF Attaching, ensure_open
    <3> QED BY <3>2, <3>3, <3>4 DEF ThreadOK
  <2>4. ASSUME pc[t] = "make", InitError(t) \/ InitAttachError(t), goto(t, "done") PROVE Goal
    <3>1. call'[t].at = "idle"
      BY <2>4, IdleFields DEF InitError, InitAttachError
    <3>2. pc'[t] = "done" /\ PollTypes'
      BY <2>4, <1>0 DEF goto, PollTypes, Labels
    <3> QED BY <3>1, <3>2 DEF ThreadOK, Live
  <2> HIDE DEF Goal
  <2> QED BY <1>1, <2>1, <2>2, <2>3, <2>4 DEF Make
<1>2. ASSUME Live(t), UNCHANGED <<obj, fdt>>,
             NEW label \in {"up", "select", "reply", "close"},
             pc' = [pc EXCEPT ![t] = label], UNCHANGED late,
             call'[t].at = "idle" \/ (call'[t].at = "flags" /\ call'[t].dev = Owned[t])
      PROVE  Goal
  <2>1. pc'[t] = label /\ PollTypes'
    BY <1>2, <1>0 DEF PollTypes, Labels
  <2> QED BY <1>2, <1>0, <2>1 DEF ThreadOK, ensure_open
<1>3. CASE Up(t)
  <2>1. pc[t] = "up" /\ Live(t) /\ pc = [pc EXCEPT ![t] = "up"]
    BY <1>3, <1>0 DEF Up, Live, PollTypes
  <2>2. ASSUME FlagsGet(t, Owned[t], TRUE), UNCHANGED <<pc, late>> PROVE Goal
    <3>1. call'[t].at = "flags" /\ call'[t].dev = Owned[t] /\ UNCHANGED <<obj, fdt>>
      BY <2>2 DEF FlagsGet, Idle
    <3> QED BY <2>1, <2>2, <3>1, <1>2
  <2>3. ASSUME FlagsSet(t), NEW label \in {"close", "select"}, goto(t, label) PROVE Goal
    <3>1. call'[t].at = "idle" /\ UNCHANGED <<obj, fdt>>
      BY <2>3, IdleFields DEF FlagsSet
    <3> QED BY <2>1, <2>3, <3>1, <1>2 DEF goto
  <2>4. ASSUME Runs(t), goto(t, "close"), UNCHANGED vars PROVE Goal
    BY <2>1, <2>4, <1>2 DEF goto, vars, Runs
  <2> HIDE DEF Goal
  <2> QED BY <1>3, <2>2, <2>3, <2>4 DEF Up
<1>4. CASE Select(t)
  <2>1. pc[t] = "select" /\ Live(t) /\ call[t].at = "idle" /\ UNCHANGED vars
    BY <1>4 DEF Select, Live, Runs
  <2>2. ASSUME goto(t, "close") PROVE Goal
    BY <2>1, <2>2, <1>2 DEF goto, vars
  <2>3. ASSUME Ready(obj[Owned[t]].fd), goto(t, "read") PROVE Goal
    <3>1. pc'[t] = "read" /\ PollTypes'
      BY <2>3, <1>0 DEF goto, PollTypes, Labels
    <3> QED BY <2>1, <2>3, <3>1, <1>0 DEF ThreadOK, vars, ensure_open, Ready, Detached, Live
  <2> HIDE DEF Goal
  <2> QED BY <1>4, <2>2, <2>3 DEF Select
<1>5. CASE Read(t)
  <2>1. pc[t] = "read" /\ Live(t)
    BY <1>5 DEF Read, Live
  <2>2. ASSUME ReadBegin(t, Owned[t]), UNCHANGED <<pc, late>> PROVE Goal
    <3>1. call'[t].at = "read" /\ call'[t].dev = Owned[t] /\ UNCHANGED <<obj, fdt>>
      BY <2>2 DEF ReadBegin, Idle
    <3> QED BY <2>1, <2>2, <3>1, <1>0 DEF ThreadOK, PollTypes, Live, ensure_open, Ready, Detached
  <2>3. ASSUME ReadEnd(t), NEW label \in {"select", "reply"}, goto(t, label) PROVE Goal
    <3>1. call'[t].at = "idle" /\ UNCHANGED obj
      BY <2>3, IdleFields DEF ReadEnd
    <3>2. \A m \in Fds : SameFile(m)
      BY <2>3, QueueingKeepsFiles DEF Queueing
    <3>3. pc'[t] = label /\ PollTypes'
      BY <2>3, <1>0 DEF goto, PollTypes, Labels
    <3> QED BY <2>1, <3>1, <3>2, <3>3, <1>0 DEF ThreadOK, ensure_open, SameFile
  <2>4. ASSUME ReadError(t), goto(t, "close") PROVE Goal
    <3>1. call'[t].at = "idle" /\ UNCHANGED <<obj, fdt>>
      BY <2>4, IdleFields DEF ReadError
    <3> QED BY <2>1, <2>4, <3>1, <1>2 DEF goto
  <2> HIDE DEF Goal
  <2> QED BY <1>5, <2>2, <2>3, <2>4 DEF Read
<1>6. CASE Reply(t)
  <2>1. pc[t] = "reply" /\ Live(t) /\ call[t].at = "idle" /\ UNCHANGED vars /\ goto(t, "close")
    BY <1>6 DEF Reply, Live, Runs
  <2> QED BY <2>1, <1>2 DEF goto, vars
<1>7. CASE Finally(t)
  <2>1. Live(t) /\ Close(t, Owned[t])
    BY <1>7, <1>0 DEF Finally, CloseError, Live, ThreadOK
  <2>2. UNCHANGED call /\ call[t].at = "idle" /\ ~ensure_open(Owned[t])'
    BY <2>1, <1>0 DEF Close, Runs, ensure_open, Objects
  <2>3. pc'[t] = "drop" /\ PollTypes'
    BY <1>7, <1>0 DEF Finally, goto, PollTypes, Labels
  <2> QED BY <2>2, <2>3 DEF ThreadOK, Live
<1>8. CASE Drop(t)
  <2>1. UNCHANGED call /\ call[t].at = "idle"
    BY <1>8 DEF Drop, Dealloc, Runs
  <2>2. pc'[t] = "done" /\ PollTypes'
    BY <1>8, <1>0 DEF Drop, goto, PollTypes, Labels
  <2> QED BY <2>1, <2>2 DEF ThreadOK, Live
<1> HIDE DEF Goal
<1> QED BY <1>1, <1>3, <1>4, <1>5, <1>6, <1>7, <1>8 DEF Client

LEMMA PollStep ==
  ASSUME ~CloseErrs
  PROVE  PollInv /\ [PNext]_pvars => PollInv'
<1> SUFFICES ASSUME PollInv, [PNext]_pvars PROVE PollInv'
  OBVIOUS
<1>0. CoreInv' /\ PollTypes /\ TypeOK /\ \A t \in Threads : ThreadOK(t)
  BY StepIsLinux, CoreStep, AllThreadsOK DEF PollInv, CoreInv
<1>1. ASSUME NEW t \in Threads, Client(t) PROVE PollInv'
  <2>1. ThreadOK(t)' /\ PollTypes'
    BY <1>1, OwnStepOK
  <2>2. ASSUME NEW u \in Threads, u # t PROVE ThreadOK(u)'
    <3>1. call'[u] = call[u]
      BY <1>0, <1>1, <2>2, ClientExtension, ExtensionFrame DEF vars
    <3>2. pc'[u] = pc[u]
      BY <1>0, <1>1, <2>2 DEF Client, Make, Up, Select, Read, Reply, Finally, Drop, goto,
         PollTypes
    <3>3. CASE Live(u)
      <4>1. /\ obj'[Owned[u]] = obj[Owned[u]]
            /\ fdt'[obj[Owned[u]].fd] = fdt[obj[Owned[u]].fd]
        BY <1>1, <2>2, <3>3, OthersLeaveAlone
      <4> QED BY <1>0, <3>1, <3>2, <3>3, <4>1 DEF ThreadOK, Live, ensure_open, Ready, Detached
    <3>4. CASE ~Live(u)
      <4>1. obj'[Owned[u]] = obj[Owned[u]]
        BY <1>1, <2>2, OthersObject
      <4> QED BY <1>0, <3>1, <3>2, <3>4, <4>1 DEF ThreadOK, Live, ensure_open
    <3> QED BY <3>3, <3>4
  <2>3. (\A u \in Threads : ThreadOK(u))'
    BY <2>1, <2>2
  <2>4. CallsOwn' /\ LiveOwn' /\ Dropped' /\ ReadReady'
    BY <2>3 DEF CallsOwn, LiveOwn, Dropped, ReadReady, ThreadOK, Live, ensure_open, Ready, Detached
  <2> QED BY <1>0, <2>1, <2>4 DEF PollInv
<1>2. ASSUME UNCHANGED <<vars, pc>>, PollTypes' PROVE PollInv'
  BY <1>0, <1>2 DEF PollInv, CallsOwn, LiveOwn, Dropped, ReadReady, Live, ensure_open, Ready,
     Detached, vars
<1>3. CASE Environment /\ UNCHANGED <<pc, late>>
  <2>1. UNCHANGED <<obj, call>>
    BY <1>3, EnvironmentFrame
  <2>2. ASSUME NEW t \in Threads, Live(t)
        PROVE  /\ fdt'[obj[Owned[t]].fd].kind = "tun"
               /\ fdt'[obj[Owned[t]].fd].by = fdt[obj[Owned[t]].fd].by
               /\ Ready(obj[Owned[t]].fd) => Ready(obj[Owned[t]].fd)'
    BY <1>0, <2>1, <1>3, <2>2, HostLeavesReady DEF ThreadOK
  <2>3. (\A u \in Threads : ThreadOK(u))'
    BY <1>0, <1>3, <2>1, <2>2 DEF ThreadOK, Live, ensure_open
  <2>4. CallsOwn' /\ LiveOwn' /\ Dropped' /\ ReadReady'
    BY <2>3 DEF CallsOwn, LiveOwn, Dropped, ReadReady, ThreadOK, Live, ensure_open, Ready, Detached
  <2> QED BY <1>0, <1>3, <2>4 DEF PollInv, PollTypes
<1>4. ASSUME NEW t \in Threads, Deadline(t) PROVE PollInv'
  BY <1>0, <1>2, <1>4 DEF Deadline, PollTypes
<1>5. CASE UNCHANGED pvars
  BY <1>0, <1>2, <1>5 DEF pvars, PollTypes
<1> QED BY <1>1, <1>3, <1>4, <1>5 DEF PNext

\* The inductive invariant of the test: a thread calls its own object only, and between
\* __init__ and close() has it open on its own file, where a packet stays until it reads.
THEOREM PollInvariant ==
  ASSUME ~CloseErrs
  PROVE  PSpec => []PollInv
<1>1. PInit => PollInv
  <2> SUFFICES ASSUME PInit PROVE PollInv
    OBVIOUS
  <2>1. CoreInv
    BY InitCore DEF PInit
  <2>2. PollTypes /\ CallsOwn /\ LiveOwn /\ Dropped /\ ReadReady
    BY IdleFields DEF PInit, Init, PollTypes, Labels, CallsOwn, LiveOwn, Dropped, ReadReady, Live
  <2> QED BY <2>1, <2>2 DEF PollInv
<1> QED BY <1>1, PollStep, PTL DEF PSpec

\* Unless close(2) reports errors, no read() of the test holds the interpreter lock waiting for
\* a packet: with any number of threads and objects, closed and deallocated, with deletions
\* and descriptor numbers that other code takes, what select() announced is there when the
\* thread comes to read.  With such errors it need not be: see OthersLeaveAlone.
THEOREM ReadsFindSomething ==
  ASSUME ~CloseErrs
  PROVE  PSpec => []ReadNeverBlocks
<1>1. PollInv => ReadNeverBlocks
  <2> SUFFICES ASSUME PollInv, NEW t \in Threads, call[t].at = "read"
               PROVE  Ready(call[t].fd)
    BY DEF ReadNeverBlocks
  <2>1. call[t].fd = obj[Owned[t]].fd /\ pc[t] = "read"
    BY DEF PollInv, CoreInv, ReaderKeepsDevice, CallsOwn
  <2> QED BY <2>1 DEF PollInv, ReadReady
<1> QED BY <1>1, PollInvariant, PTL

\* The test leaks no descriptor, whatever fails on the way.
THEOREM TestLeaksNone ==
  ASSUME ~ReinitOpen
  PROVE  PSpec => []NoOrphan
BY TestIsLinux, NoLeak, PTL
=============================================================================
