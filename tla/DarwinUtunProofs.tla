-------------------------- MODULE DarwinUtunProofs ---------------------------
(***************************************************************************)
(* Proofs about DarwinUtun for every set of threads, objects, descriptor   *)
(* numbers, units, addresses and MTUs.                                     *)
(***************************************************************************)
EXTENDS DarwinUtun, SequenceTheorems, TLAPS

(* Facts about the values the state is built from. *)

LEMMA Values ==
  /\ Fresh \in Objects
  /\ Idle \in Calls
  /\ NoFile \in Files /\ OtherFile \in Files
  /\ \A d \in Devices : Socket(d) \in Files
  /\ NoUtun \in Utuns
  /\ \A who \in {"own", "other"} : NewUtun(who) \in Utuns
<1>1. Fresh \in Objects
  BY DEF Fresh, Objects
<1>2. Idle \in Calls
  BY DEF Idle, Calls, Stages, NoCmd
<1>3. NoFile \in Files
  BY DEF NoFile, Files
<1>4. OtherFile \in Files /\ \A d \in Devices : Socket(d) \in Files
  BY <1>3 DEF OtherFile, Socket, Files
<1>5. NoUtun \in Utuns
  BY DataAssumption DEF NoUtun, Utuns
<1>6. \A who \in {"own", "other"} : NewUtun(who) \in Utuns
  BY <1>5 DEF NewUtun, Utuns
<1> QED BY <1>1, <1>2, <1>3, <1>4, <1>5, <1>6

\* The fields of the records made from another one.
LEMMA Fields ==
  /\ \A d : Socket(d).kind = "utun" /\ Socket(d).by = d /\ Socket(d).unit = NULL
  /\ OtherFile.kind = "other" /\ OtherFile.by = NULL /\ OtherFile.unit = NULL
  /\ NoFile.kind = "free" /\ NoFile.by = NULL /\ NoFile.unit = NULL
  /\ NoUtun.owner = "none" /\ \A who : NewUtun(who).owner = who
<1>1. \A d : Socket(d).kind = "utun" /\ Socket(d).by = d /\ Socket(d).unit = NULL
  BY DEF Socket, NoFile
<1>2. OtherFile.kind = "other" /\ OtherFile.by = NULL /\ OtherFile.unit = NULL
  BY DEF OtherFile, NoFile
<1>3. NoFile.kind = "free" /\ NoFile.by = NULL /\ NoFile.unit = NULL
  BY DEF NoFile
<1>4. NoUtun.owner = "none" /\ \A who : NewUtun(who).owner = who
  BY DEF NewUtun, NoUtun
<1> QED BY <1>1, <1>2, <1>3, <1>4

\* WithAddr and Configured keep the types, and an interface its owner.
LEMMA WithAddrType ==
  ASSUME NEW as \in Seq(Addrs), NEW a \in Addrs
  PROVE  WithAddr(as, a) \in Seq(Addrs)
BY AppendProperties DEF WithAddr

LEMMA ConfiguredType ==
  ASSUME NEW link \in Utuns, NEW cmd \in StateCmds \cup ByName \cup {NoCmd}
  PROVE  Configured(link, cmd) \in Utuns /\ Configured(link, cmd).owner = link.owner
<1>1. cmd[1] = "mtu" => cmd[2] \in Nat
  <2>1. CASE cmd \in {"mtu"} \X {v \in Mtus : v > 0}
    <3>1. cmd[2] \in Mtus /\ cmd[2] > 0
      BY <2>1
    <3>2. \A v \in Mtus : v > 0 => v \in Nat
      BY DataAssumption
    <3> QED BY <3>1, <3>2
  <2>2. CASE cmd \in {"inet6"} \X Addrs
    BY <2>2
  <2>3. CASE cmd \in StateCmds \cup {NoCmd}
    BY <2>3 DEF StateCmds, NoCmd
  <2> QED BY <2>1, <2>2, <2>3 DEF ByName
<1>2. cmd[1] = "inet6" => cmd[2] \in Addrs
  <2>1. CASE cmd \in {"mtu"} \X {v \in Mtus : v > 0}
    BY <2>1
  <2>2. CASE cmd \in {"inet6"} \X Addrs
    BY <2>2
  <2>3. CASE cmd \in StateCmds \cup {NoCmd}
    BY <2>3 DEF StateCmds, NoCmd
  <2> QED BY <2>1, <2>2, <2>3 DEF ByName
<1>3. link.addrs \in Seq(Addrs)
  BY DEF Utuns
<1>4. (cmd[1] = "inet6" => WithAddr(link.addrs, cmd[2]) \in Seq(Addrs))
  BY <1>2, <1>3, WithAddrType
<1>5. (IF cmd \in StateCmds THEN cmd[1] = "up" ELSE link.up) \in BOOLEAN
  BY DEF Utuns
<1> QED BY <1>1, <1>3, <1>4, <1>5 DEF Configured, Utuns

-----------------------------------------------------------------------------
(* The parts of the inductive invariant *)

Initing    == {"init", "connect", "name"}
Attaching  == {"connect", "name"}

\* The locals of a call have values once they are used, and a setting goes by the
\* name of its object.
LocalsOK(t) ==
  /\ call[t].at # "idle" => call[t].dev \in Devices
  /\ call[t].at \in Attaching => call[t].fd \in Fds
  /\ call[t].at = "connect" /\ call[t].auto => call[t].unit \in Units
  /\ call[t].at = "ifconfig" =>
       /\ call[t].unit = obj[call[t].dev].ifname
       /\ call[t].cmd \in StateCmds => ensure_open(call[t].dev)

CallOK == \A t \in Threads : LocalsOK(t)

\* One thread at a time is in a call that keeps the GIL.
OneHolder == \A t, u \in Threads : HoldsGil(t) /\ HoldsGil(u) => t = u

\* An object under construction is closed and has one constructor.
InitOK == \A t \in Threads : call[t].at \in Initing =>
            /\ ~ensure_open(call[t].dev)
            /\ \A u \in Threads : call[u].at \in Initing /\ call[u].dev = call[t].dev => u = t

\* A file is of an object only if it is a utun socket; a socket with a unit has the
\* interface of this unit for its own.
FileOK ==
  \A m \in Fds : /\ fdt[m].kind = "utun" => fdt[m].by \in Devices
                 /\ fdt[m].kind # "utun" => fdt[m].by = NULL /\ fdt[m].unit = NULL
                 /\ fdt[m].unit # NULL =>
                      /\ utun[fdt[m].unit].owner = "own"
                      /\ \A n \in Fds : fdt[n].unit = fdt[m].unit => n = m

\* An interface of the process has a socket.
UnitUsed == \A u \in Units : utun[u].owner = "own" => \E m \in Fds : fdt[m].unit = u

\* __init__ has the socket it opened in its hands; it has a unit once connected.
AttachOK ==
  \A t \in Threads : call[t].at \in Attaching =>
    /\ fdt[call[t].fd].kind = "utun" /\ fdt[call[t].fd].by = call[t].dev
    /\ call[t].at = "name" <=> fdt[call[t].fd].unit # NULL

\* The socket of an open object has a unit, and the object its name.
SocketNamed == \A d \in Devices : HasSocket(d) =>
                 fdt[obj[d].fd].unit # NULL /\ fdt[obj[d].fd].unit = obj[d].ifname

\* The units a loop may still take are free, and not below the one it is at.
LoopOK == \A t \in Threads : call[t].at = "connect" =>
            /\ \A u \in call[t].free : ~Exists(u)
            /\ call[t].auto => \A u \in call[t].free : u >= call[t].unit

\* What holds however the program calls the extension.
CoreInv == /\ TypeOK /\ CallOK /\ OneHolder /\ FileOK /\ UnitUsed /\ AttachOK /\ LoopOK

\* What holds besides as long as __init__ is called on no object that is open or
\* under construction.
OwnInv == CoreInv /\ InitOK /\ SocketNamed /\ NoOrphan

-----------------------------------------------------------------------------
(* Steps *)

\* What the environment and the calls on files leave alone.
LEMMA CloseFileType ==
  ASSUME TypeOK, NEW m \in Fds, CloseFile(m)
  PROVE  fdt' \in [Fds -> Files] /\ utun' \in [Units -> Utuns]
BY Values DEF TypeOK, CloseFile

LEMMA OpenFd ==
  ASSUME TypeOK, NEW d \in Devices, ensure_open(d)
  PROVE  obj[d].fd \in Fds
BY DEF TypeOK, ensure_open, Objects

\* The calls of a thread that starts one.
LEMMA Started ==
  ASSUME TypeOK, NEW d \in Devices
  PROVE  /\ [Idle EXCEPT !.at = "init", !.dev = d] \in Calls
         /\ ensure_open(d) => [Idle EXCEPT !.at = "read", !.dev = d, !.fd = obj[d].fd] \in Calls
         /\ \A cmd \in StateCmds \cup ByName :
              [Idle EXCEPT !.at = "ifconfig", !.dev = d, !.unit = obj[d].ifname, !.cmd = cmd] \in Calls
<1>1. Idle \in Calls /\ "init" \in Stages /\ "read" \in Stages /\ "ifconfig" \in Stages
  BY Values DEF Stages
<1>2. [Idle EXCEPT !.at = "init", !.dev = d] \in Calls
  BY <1>1 DEF Calls
<1>3. ensure_open(d) => [Idle EXCEPT !.at = "read", !.dev = d, !.fd = obj[d].fd] \in Calls
  BY <1>1, OpenFd DEF Calls
<1>4. ASSUME NEW cmd \in StateCmds \cup ByName
      PROVE  [Idle EXCEPT !.at = "ifconfig", !.dev = d, !.unit = obj[d].ifname, !.cmd = cmd] \in Calls
  <2>1. obj[d].ifname \in Units \cup {NULL}
    BY DEF TypeOK, Objects
  <2> QED BY <1>1, <2>1 DEF Calls
<1> QED BY <1>2, <1>3, <1>4

LEMMA TypeStep == CoreInv /\ [Next]_vars => TypeOK'
<1> SUFFICES ASSUME TypeOK, CallOK, FileOK, [Next]_vars PROVE TypeOK'
  BY DEF CoreInv
<1> USE Values DEF TypeOK
<1>1. CASE UNCHANGED vars
  BY <1>1 DEF vars
<1>2. CASE Environment
  <2>1. ASSUME NEW u \in Units, OtherUp(u) PROVE TypeOK'
    <3>1. \A t \in Threads : [call[t] EXCEPT !.free = @ \ {u}] \in Calls
      BY DEF Calls
    <3> QED BY <2>1, <3>1 DEF OtherUp
  <2>2. ASSUME NEW u \in Units, OtherDown(u) PROVE TypeOK'
    BY <2>2 DEF OtherDown
  <2>3. ASSUME NEW u \in Units, NEW a \in LinkLocal, Autoconf(u, a) PROVE TypeOK'
    <3>1. a \in Addrs
      BY DataAssumption
    <3>2. [utun[u] EXCEPT !.addrs = WithAddr(@, a)] \in Utuns
      BY <3>1, WithAddrType DEF Utuns
    <3> QED BY <2>3, <3>2 DEF Autoconf
  <2>4. ASSUME NEW m \in Fds, OtherOpen(m) \/ OtherClose(m) PROVE TypeOK'
    BY <2>4 DEF OtherOpen, OtherClose
  <2> QED BY <1>2, <2>1, <2>2, <2>3, <2>4 DEF Environment
<1>3. ASSUME NEW t \in Threads, Extension(t) PROVE TypeOK'
  <2>1. ASSUME NEW d \in Devices, InitBegin(t, d) PROVE TypeOK'
    BY <2>1, Started DEF InitBegin
  <2>2. ASSUME NEW d \in Devices, Close(t, d) PROVE TypeOK'
    <3>1. obj' \in [Devices -> Objects]
      BY <2>2 DEF Close, Objects
    <3> QED BY <2>2, <3>1, OpenFd, CloseFileType DEF Close
  <2>3. ASSUME NEW d \in Devices, CloseError(t, d) PROVE TypeOK'
    BY <2>3, OpenFd, CloseFileType DEF CloseError
  <2>4. ASSUME NEW d \in Devices, Dealloc(t, d) PROVE TypeOK'
    BY <2>4, OpenFd, CloseFileType DEF Dealloc
  <2>5. ASSUME NEW d \in Devices, ReadBegin(t, d) PROVE TypeOK'
    BY <2>5, Started DEF ReadBegin
  <2>6. ASSUME NEW d \in Devices, NEW cmd \in StateCmds \cup ByName, Ifconfig(t, d, cmd)
        PROVE  TypeOK'
    BY <2>6, Started DEF Ifconfig
  <2>7. CASE InitError(t) \/ ReadEnd(t) \/ IfconfigFails(t)
    BY <2>7 DEF InitError, ReadEnd, IfconfigFails
  <2>8. ASSUME NEW num \in Preferred \cup {-1}, InitSocket(t, num) PROVE TypeOK'
    <3>1. call[t].dev \in Devices
      BY <2>8 DEF InitSocket, CallOK, LocalsOK
    <3>2. (IF num < 0 THEN 1 ELSE num + 1) \in Units \cup {p + 1 : p \in Preferred} \cup {NULL}
      <4>1. CASE num \in Preferred
        BY <4>1, UnitAssumption
      <4>2. CASE num = -1
        BY <4>2, UnitAssumption DEF Units
      <4> QED BY <4>1, <4>2
    <3>3. PICK m \in Fds :
            /\ fdt' = [fdt EXCEPT ![m] = Socket(call[t].dev)]
            /\ call' = [call EXCEPT ![t].at = "connect", ![t].fd = m, ![t].auto = num < 0,
                               ![t].unit = IF num < 0 THEN 1 ELSE num + 1,
                               ![t].free = {u \in Units : ~Exists(u)}]
      BY <2>8 DEF InitSocket
    <3>4. [call[t] EXCEPT !.at = "connect", !.fd = m, !.auto = num < 0,
                          !.unit = IF num < 0 THEN 1 ELSE num + 1,
                          !.free = {u \in Units : ~Exists(u)}] \in Calls
      <4>1. "connect" \in Stages /\ (num < 0) \in BOOLEAN
        BY DEF Stages
      <4> DEFINE un == IF num < 0 THEN 1 ELSE num + 1
                 fr == {u \in Units : ~Exists(u)}
      <4>2. un \in Units \cup {p + 1 : p \in Preferred} \cup {NULL} /\ fr \in SUBSET Units
        BY <3>2
      <4> HIDE DEF un, fr
      <4>3. [call[t] EXCEPT !.at = "connect", !.fd = m, !.auto = num < 0, !.unit = un, !.free = fr] \in Calls
        BY <4>1, <4>2 DEF Calls
      <4> QED BY <4>3 DEF un, fr
    <3> QED BY <2>8, <3>1, <3>3, <3>4 DEF InitSocket
  <2>9. CASE InitConnect(t)
    <3>1. [call[t] EXCEPT !.at = "name"] \in Calls
      BY DEF Calls, Stages
    <3>2. [fdt[call[t].fd] EXCEPT !.unit = call[t].unit] \in Files
      BY <2>9 DEF InitConnect, CallOK, LocalsOK, Attaching, Files
    <3> QED BY <2>9, <3>1, <3>2 DEF InitConnect
  <2>10. CASE InitNextUnit(t)
    <3>1. call[t].unit + 1 \in Units
      BY <2>10, UnitAssumption DEF InitNextUnit, Exists, Units
    <3>2. [call[t] EXCEPT !.unit = @ + 1] \in Calls
      BY <3>1 DEF Calls
    <3> QED BY <2>10, <3>2 DEF InitNextUnit
  <2>11. CASE InitNoUnit(t) \/ InitRefused(t)
    <3>1. call[t].fd \in Fds
      BY <2>11 DEF InitNoUnit, InitRefused, CallOK, LocalsOK, Attaching
    <3> QED BY <2>11, <3>1, CloseFileType DEF InitNoUnit, InitRefused
  <2>12. CASE InitNamed(t)
    <3>1. [fd |-> call[t].fd, is_closed |-> FALSE, ifname |-> fdt[call[t].fd].unit] \in Objects
      BY <2>12 DEF InitNamed, CallOK, LocalsOK, Attaching, Files, Objects
    <3> QED BY <2>12, <3>1 DEF InitNamed
  <2>13. CASE IfconfigOk(t)
    <3>1. Configured(utun[call[t].unit], call[t].cmd) \in Utuns
      BY <2>13, ConfiguredType DEF IfconfigOk, Exists, Calls
    <3> QED BY <2>13, <3>1 DEF IfconfigOk
  <2> QED BY <1>3, <2>1, <2>2, <2>3, <2>4, <2>5, <2>6, <2>7, <2>8, <2>9, <2>10, <2>11,
             <2>12, <2>13 DEF Extension
<1> QED BY <1>1, <1>2, <1>3 DEF Next

(* The interpreter lock *)

\* While a thread keeps the GIL, no other goes on in the extension.
LEMMA GilBlocks ==
  ASSUME OneHolder, NEW t \in Threads, NEW u \in Threads, HoldsGil(u), Extension(t)
  PROVE  t = u
<1>1. HoldsGil(t) \/ Running
  BY DEF Extension, InitBegin, Close, CloseError, Dealloc, ReadBegin, Ifconfig, Runs, InitError,
     InitSocket, InitConnect, InitNextUnit, InitNoUnit, InitRefused, InitNamed, ReadEnd,
     IfconfigOk, IfconfigFails, HoldsGil
<1> QED BY <1>1 DEF OneHolder, Running

LEMMA ExtensionFrame ==
  ASSUME TypeOK, NEW t \in Threads, Extension(t)
  PROVE  /\ \A u \in Threads : u # t => call'[u] = call[u]
         /\ HoldsGil(t)' => HoldsGil(t) \/ Running
<1>1. \A u \in Threads : u # t => call'[u] = call[u]
  BY DEF TypeOK, Extension, InitBegin, Close, CloseError, Dealloc, ReadBegin, Ifconfig, InitError,
     InitSocket, InitConnect, InitNextUnit, InitNoUnit, InitRefused, InitNamed, ReadEnd,
     IfconfigOk, IfconfigFails
<1>2. HoldsGil(t) \/ Running
  BY DEF Extension, InitBegin, Close, CloseError, Dealloc, ReadBegin, Ifconfig, Runs, InitError,
     InitSocket, InitConnect, InitNextUnit, InitNoUnit, InitRefused, InitNamed, ReadEnd,
     IfconfigOk, IfconfigFails, HoldsGil
<1> QED BY <1>1, <1>2

\* Other programs and other code of the process leave the objects alone, and of
\* the calls all but the units a loop counts on.
LEMMA EnvironmentFrame ==
  ASSUME TypeOK, Environment
  PROVE  /\ UNCHANGED obj
         /\ \A t \in Threads :
              /\ call'[t].at = call[t].at /\ call'[t].dev = call[t].dev /\ call'[t].fd = call[t].fd
              /\ call'[t].unit = call[t].unit /\ call'[t].auto = call[t].auto
              /\ call'[t].cmd = call[t].cmd
<1>1. ASSUME NEW u \in Units, OtherUp(u)
      PROVE  \A t \in Threads :
              /\ call'[t].at = call[t].at /\ call'[t].dev = call[t].dev /\ call'[t].fd = call[t].fd
              /\ call'[t].unit = call[t].unit /\ call'[t].auto = call[t].auto
              /\ call'[t].cmd = call[t].cmd
  BY <1>1 DEF OtherUp, TypeOK, Calls
<1>2. UNCHANGED obj /\ (UNCHANGED call \/ \E u \in Units : OtherUp(u))
  BY DEF Environment, OtherUp, OtherDown, Autoconf, OtherOpen, OtherClose
<1> QED BY <1>1, <1>2

LEMMA OneHolderStep == CoreInv /\ [Next]_vars => OneHolder'
<1> SUFFICES ASSUME TypeOK, OneHolder, [Next]_vars PROVE OneHolder'
  BY DEF CoreInv
<1>1. CASE UNCHANGED vars \/ Environment
  <2>1. \A t \in Threads : call'[t].at = call[t].at
    BY <1>1, EnvironmentFrame DEF vars
  <2> QED BY <2>1 DEF OneHolder, HoldsGil
<1>2. ASSUME NEW t \in Threads, Extension(t) PROVE OneHolder'
  <2>1. \A u \in Threads : u # t => (HoldsGil(u)' <=> HoldsGil(u))
    BY <1>2, ExtensionFrame DEF HoldsGil
  <2>2. HoldsGil(t)' => HoldsGil(t) \/ Running
    BY <1>2, ExtensionFrame
  <2> QED BY <2>1, <2>2 DEF OneHolder, Running
<1> QED BY <1>1, <1>2 DEF Next

LEMMA CallStep == CoreInv /\ [Next]_vars => CallOK'
<1> SUFFICES ASSUME TypeOK, CallOK, OneHolder, [Next]_vars PROVE CallOK'
  BY DEF CoreInv
<1>1. CASE UNCHANGED vars
  BY <1>1 DEF vars, CallOK, LocalsOK, ensure_open
<1>2. CASE Environment
  BY <1>2, EnvironmentFrame DEF CallOK, LocalsOK, ensure_open
<1>3. ASSUME NEW t \in Threads, Extension(t) PROVE CallOK'
  <2>a. ASSUME NEW u \in Threads, u # t PROVE LocalsOK(u)'
    <3>1. call'[u] = call[u]
      BY <1>3, <2>a, ExtensionFrame
    <3>2. call[u].at \in {"idle", "init"}
      BY <1>3, <2>a, GilBlocks DEF HoldsGil
    <3>3. LocalsOK(u)
      BY DEF CallOK
    <3> QED BY <3>1, <3>2, <3>3 DEF LocalsOK, Attaching
  <2>1. ASSUME NEW d \in Devices, Close(t, d) \/ CloseError(t, d) \/ Dealloc(t, d)
        PROVE  LocalsOK(t)'
    <3>1. call'[t].at = "idle"
      BY <2>1 DEF Close, CloseError, Dealloc, Runs
    <3> QED BY <3>1 DEF LocalsOK, Attaching
  <2>2. ASSUME call' = [call EXCEPT ![t] = Idle] PROVE LocalsOK(t)'
    <3>1. call'[t].at = "idle"
      BY <2>2 DEF Idle, TypeOK
    <3> QED BY <3>1 DEF LocalsOK, Attaching
  <2>3. ASSUME NEW d \in Devices, InitBegin(t, d) PROVE LocalsOK(t)'
    <3>1. call'[t].at = "init" /\ call'[t].dev = d
      BY <2>3 DEF InitBegin, Idle, TypeOK
    <3> QED BY <3>1 DEF LocalsOK, Attaching
  <2>4. ASSUME NEW d \in Devices, ReadBegin(t, d) PROVE LocalsOK(t)'
    <3>1. call'[t].at = "read" /\ call'[t].dev = d
      BY <2>4 DEF ReadBegin, Idle, TypeOK
    <3> QED BY <3>1 DEF LocalsOK, Attaching
  <2>5. ASSUME NEW d \in Devices, NEW cmd \in StateCmds \cup ByName, Ifconfig(t, d, cmd)
        PROVE  LocalsOK(t)'
    <3>1. /\ call'[t].at = "ifconfig" /\ call'[t].dev = d /\ call'[t].unit = obj[d].ifname
          /\ call'[t].cmd = cmd
      BY <2>5 DEF Ifconfig, Idle, TypeOK
    <3>2. UNCHANGED obj /\ (cmd \in StateCmds => ensure_open(d))
      BY <2>5 DEF Ifconfig
    <3> QED BY <3>1, <3>2 DEF LocalsOK, Attaching, ensure_open
  <2>6. ASSUME NEW num \in Preferred \cup {-1}, InitSocket(t, num) PROVE LocalsOK(t)'
    <3>1. PICK m \in Fds :
            call' = [call EXCEPT ![t].at = "connect", ![t].fd = m, ![t].auto = num < 0,
                               ![t].unit = IF num < 0 THEN 1 ELSE num + 1,
                               ![t].free = {u \in Units : ~Exists(u)}]
      BY <2>6 DEF InitSocket
    <3>2. /\ call'[t].at = "connect" /\ call'[t].fd = m /\ call'[t].auto = (num < 0)
          /\ call'[t].unit = (IF num < 0 THEN 1 ELSE num + 1) /\ call'[t].dev = call[t].dev
      BY <3>1 DEF TypeOK, Calls
    <3>3. call[t].dev \in Devices
      BY <2>6 DEF InitSocket, CallOK, LocalsOK
    <3>4. num < 0 => 1 \in Units
      BY UnitAssumption DEF Units
    <3> QED BY <3>2, <3>3, <3>4 DEF LocalsOK
  <2>7. ASSUME InitConnect(t) PROVE LocalsOK(t)'
    <3>1. call'[t].at = "name" /\ call'[t].dev = call[t].dev /\ call'[t].fd = call[t].fd
      BY <2>7 DEF InitConnect, TypeOK, Calls
    <3> QED BY <2>7, <3>1 DEF InitConnect, CallOK, LocalsOK, Attaching
  <2>8. ASSUME InitNextUnit(t) PROVE LocalsOK(t)'
    <3>1. call[t].unit + 1 \in Units
      BY <2>8, UnitAssumption DEF InitNextUnit, Exists, Units
    <3>2. /\ call'[t].at = "connect" /\ call'[t].unit = call[t].unit + 1
          /\ call'[t].dev = call[t].dev /\ call'[t].fd = call[t].fd
      BY <2>8 DEF InitNextUnit, TypeOK, Calls
    <3> QED BY <2>8, <3>1, <3>2 DEF InitNextUnit, CallOK, LocalsOK, Attaching
  <2>9. LocalsOK(t)'
    BY <1>3, <2>1, <2>2, <2>3, <2>4, <2>5, <2>6, <2>7, <2>8
       DEF Extension, InitError, InitNoUnit, InitRefused, InitNamed, ReadEnd, IfconfigOk,
           IfconfigFails
  <2> QED BY <2>a, <2>9 DEF CallOK
<1> QED BY <1>1, <1>2, <1>3 DEF Next

LEMMA InitStep ==
  ASSUME ~ReinitOpen
  PROVE  OwnInv /\ [Next]_vars => InitOK'
<1> SUFFICES ASSUME TypeOK, CallOK, InitOK, [Next]_vars PROVE InitOK'
  BY DEF CoreInv, OwnInv
<1>1. CASE UNCHANGED vars
  BY <1>1 DEF vars, InitOK, ensure_open
<1>2. CASE Environment
  BY <1>2, EnvironmentFrame DEF InitOK, ensure_open
<1>3. ASSUME NEW t \in Threads, Extension(t) PROVE InitOK'
  <2>1. \A u \in Threads : u # t => call'[u] = call[u]
    BY <1>3, ExtensionFrame
  <2>2. ASSUME NEW d \in Devices, InitBegin(t, d) PROVE InitOK'
    <3>1. /\ ~ensure_open(d)' /\ \A e \in Devices : e # d => obj'[e] = obj[e]
          /\ call'[t].dev = d /\ \A u \in Threads : call[u].dev # d
      BY <2>2 DEF InitBegin, InCall, Fresh, Idle, ensure_open, TypeOK
    <3> QED BY <2>1, <3>1 DEF InitOK, ensure_open, CallOK, LocalsOK, Initing
  <2>3. ASSUME \A e \in Devices : ensure_open(e)' => ensure_open(e),
               call'[t].at \in Initing => call[t].at \in Initing /\ call'[t].dev = call[t].dev
        PROVE  InitOK'
    BY <2>1, <2>3 DEF InitOK, CallOK, LocalsOK, Initing
  <2>4. CASE InitNamed(t)
    <3>1. call'[t].at = "idle" /\ call[t].at = "name"
      BY <2>4 DEF InitNamed, Idle, TypeOK
    <3>2. \A e \in Devices : e # call[t].dev => obj'[e] = obj[e]
      BY <2>4 DEF InitNamed, TypeOK
    <3> QED BY <2>1, <3>1, <3>2 DEF InitOK, ensure_open, CallOK, LocalsOK, Initing
  <2>5. ASSUME NEW d \in Devices, Close(t, d) \/ CloseError(t, d) \/ Dealloc(t, d) PROVE InitOK'
    <3>1. UNCHANGED call /\ \A e \in Devices : ensure_open(e)' => ensure_open(e)
      BY <2>5 DEF Close, CloseError, Dealloc, Fresh, ensure_open, TypeOK, Objects
    <3> QED BY <2>3, <3>1
  <2>6. ASSUME NEW d \in Devices,
               ReadBegin(t, d) \/ \E cmd \in StateCmds \cup ByName : Ifconfig(t, d, cmd)
        PROVE  InitOK'
    <3>1. UNCHANGED obj /\ call'[t].at \in {"read", "ifconfig"}
      BY <2>6 DEF ReadBegin, Ifconfig, Idle, TypeOK
    <3> QED BY <2>3, <3>1 DEF ensure_open, Initing
  <2>7. CASE \/ InitError(t) \/ InitNoUnit(t) \/ InitRefused(t) \/ ReadEnd(t)
             \/ IfconfigOk(t) \/ IfconfigFails(t)
    <3>1. UNCHANGED obj /\ call'[t].at = "idle"
      BY <2>7 DEF InitError, InitNoUnit, InitRefused, ReadEnd, IfconfigOk, IfconfigFails, Idle, TypeOK
    <3> QED BY <2>3, <3>1 DEF ensure_open, Initing
  <2>8. CASE InitConnect(t) \/ InitNextUnit(t)
    <3>1. UNCHANGED obj /\ call[t].at \in Initing /\ call'[t].dev = call[t].dev
      BY <2>8 DEF InitConnect, InitNextUnit, Initing, TypeOK, Calls
    <3> QED BY <2>3, <3>1 DEF ensure_open
  <2>9. ASSUME NEW num \in Preferred \cup {-1}, InitSocket(t, num) PROVE InitOK'
    <3>1. UNCHANGED obj /\ call[t].at \in Initing /\ call'[t].dev = call[t].dev
      BY <2>9 DEF InitSocket, Initing, TypeOK, Calls
    <3> QED BY <2>3, <3>1 DEF ensure_open
  <2> QED BY <1>3, <2>2, <2>4, <2>5, <2>6, <2>7, <2>8, <2>9 DEF Extension
<1> QED BY <1>1, <1>2, <1>3 DEF Next

-----------------------------------------------------------------------------
(* Files and interfaces *)

\* What close(2) changes.
LEMMA CloseFrame ==
  ASSUME TypeOK, NEW m \in Fds, CloseFile(m)
  PROVE  /\ fdt'[m] = NoFile /\ \A n \in Fds : n # m => fdt'[n] = fdt[n]
         /\ \A u \in Units : u # fdt[m].unit => utun'[u] = utun[u]
         /\ \A u \in Units : u = fdt[m].unit => utun'[u] = NoUtun
<1>1. fdt[m].unit \in Units \cup {NULL} /\ NULL \notin Units
  BY NullAssumption DEF TypeOK, Files
<1> QED BY <1>1 DEF TypeOK, CloseFile

FilesOK == FileOK /\ UnitUsed

LEMMA CloseKeepsFiles ==
  ASSUME TypeOK, FilesOK, NEW m \in Fds, CloseFile(m)
  PROVE  FilesOK'
<1>1. \A n \in Fds : fdt[n].unit \in Units \cup {NULL}
  BY DEF TypeOK, Files
<1>2. FileOK'
  BY <1>1, CloseFrame, Fields DEF FilesOK, FileOK
<1>3. UnitUsed'
  <2> SUFFICES ASSUME NEW u \in Units, utun'[u].owner = "own"
               PROVE  \E n \in Fds : fdt'[n].unit = u
    BY DEF UnitUsed
  <2>1. u # fdt[m].unit /\ utun'[u] = utun[u]
    BY CloseFrame, Fields
  <2> QED BY <2>1, CloseFrame DEF FilesOK, UnitUsed
<1> QED BY <1>2, <1>3 DEF FilesOK

\* Where neither a file's object and unit nor an interface's owner changes.
LEMMA SameOwnersKeepFiles ==
  ASSUME FilesOK, UNCHANGED fdt, \A u \in Units : utun'[u].owner = utun[u].owner, TypeOK
  PROVE  FilesOK'
<1>1. \A n \in Fds : fdt[n].unit # NULL => fdt[n].unit \in Units
  BY DEF TypeOK, Files
<1> QED BY <1>1 DEF FilesOK, FileOK, UnitUsed

\* An ifconfig command leaves an interface its owner.
LEMMA IfconfigOwner ==
  ASSUME TypeOK, NEW t \in Threads, IfconfigOk(t)
  PROVE  \A u \in Units : utun'[u].owner = utun[u].owner
<1>1. /\ call[t].unit \in Units /\ call[t].cmd \in StateCmds \cup ByName \cup {NoCmd}
      /\ utun' = [utun EXCEPT ![call[t].unit] = Configured(utun[call[t].unit], call[t].cmd)]
  BY DEF IfconfigOk, Exists, TypeOK, Calls
<1>2. Configured(utun[call[t].unit], call[t].cmd).owner = utun[call[t].unit].owner
  BY <1>1, ConfiguredType DEF TypeOK
<1> QED BY <1>1, <1>2 DEF TypeOK

LEMMA FilesStep == CoreInv /\ [Next]_vars => FilesOK'
<1> SUFFICES ASSUME TypeOK, CallOK, AttachOK, FilesOK, [Next]_vars PROVE FilesOK'
  BY DEF CoreInv, FilesOK
<1>0. \A n \in Fds : fdt[n].unit # NULL => fdt[n].unit \in Units
  BY DEF TypeOK, Files
<1>1. CASE UNCHANGED vars
  BY <1>1, SameOwnersKeepFiles DEF vars
<1>2. CASE Environment
  <2>1. ASSUME NEW u \in Units, OtherUp(u) PROVE FilesOK'
    <3>1. /\ UNCHANGED fdt /\ utun'[u].owner = "other" /\ utun[u].owner = "none"
          /\ \A v \in Units : v # u => utun'[v] = utun[v]
      BY <2>1, Fields DEF OtherUp, Exists, TypeOK
    <3> QED BY <1>0, <3>1 DEF FilesOK, FileOK, UnitUsed
  <2>2. ASSUME NEW u \in Units, OtherDown(u) PROVE FilesOK'
    <3>1. /\ UNCHANGED fdt /\ utun'[u].owner = "none" /\ utun[u].owner = "other"
          /\ \A v \in Units : v # u => utun'[v] = utun[v]
      BY <2>2, Fields DEF OtherDown, TypeOK
    <3> QED BY <1>0, <3>1 DEF FilesOK, FileOK, UnitUsed
  <2>3. ASSUME NEW u \in Units, NEW a \in LinkLocal, Autoconf(u, a) PROVE FilesOK'
    <3>1. UNCHANGED fdt /\ \A v \in Units : utun'[v].owner = utun[v].owner
      BY <2>3 DEF Autoconf, TypeOK, Utuns
    <3> QED BY <3>1, SameOwnersKeepFiles
  <2>4. ASSUME NEW m \in Fds, OtherOpen(m) \/ OtherClose(m) PROVE FilesOK'
    <3>1. /\ UNCHANGED utun /\ fdt[m].kind # "utun" /\ fdt'[m].kind # "utun"
          /\ fdt'[m].by = NULL /\ fdt'[m].unit = NULL
          /\ \A n \in Fds : n # m => fdt'[n] = fdt[n]
      BY <2>4, Fields DEF OtherOpen, OtherClose, TypeOK
    <3>2. fdt[m].unit = NULL /\ NULL \notin Units
      BY <3>1, NullAssumption DEF FilesOK, FileOK
    <3> QED BY <1>0, <3>1, <3>2 DEF FilesOK, FileOK, UnitUsed
  <2> QED BY <1>2, <2>1, <2>2, <2>3, <2>4 DEF Environment
<1>3. ASSUME NEW t \in Threads, Extension(t) PROVE FilesOK'
  <2>1. ASSUME UNCHANGED <<fdt, utun>> PROVE FilesOK'
    BY <2>1, SameOwnersKeepFiles
  <2>2. ASSUME NEW num \in Preferred \cup {-1}, InitSocket(t, num) PROVE FilesOK'
    <3>1. PICK m \in Fds : fdt[m].kind = "free" /\ fdt' = [fdt EXCEPT ![m] = Socket(call[t].dev)]
      BY <2>2 DEF InitSocket
    <3>2. /\ UNCHANGED utun /\ fdt'[m].kind = "utun" /\ fdt'[m].by \in Devices
          /\ fdt'[m].unit = NULL /\ \A n \in Fds : n # m => fdt'[n] = fdt[n]
      BY <2>2, <3>1, Fields DEF InitSocket, CallOK, LocalsOK, TypeOK
    <3>3. fdt[m].unit = NULL /\ NULL \notin Units
      BY <3>1, NullAssumption DEF FilesOK, FileOK
    <3> QED BY <1>0, <3>2, <3>3 DEF FilesOK, FileOK, UnitUsed
  <2>3. CASE InitConnect(t)
    <3> DEFINE m == call[t].fd
               u == call[t].unit
    <3>1. /\ m \in Fds /\ u \in Units /\ utun[u].owner = "none"
          /\ fdt[m].kind = "utun" /\ fdt[m].by \in Devices /\ fdt[m].unit = NULL
      BY <2>3 DEF InitConnect, Exists, CallOK, LocalsOK, Attaching, AttachOK
    <3>2. /\ fdt'[m].kind = "utun" /\ fdt'[m].by \in Devices /\ fdt'[m].unit = u
          /\ \A n \in Fds : n # m => fdt'[n] = fdt[n]
      BY <2>3, <3>1 DEF InitConnect, TypeOK, Files
    <3>3. utun'[u].owner = "own" /\ \A v \in Units : v # u => utun'[v] = utun[v]
      BY <2>3, <3>1, Fields DEF InitConnect, TypeOK
    <3>5. u # NULL
      BY <3>1, NullAssumption
    <3> HIDE DEF m, u
    <3>4. \A n \in Fds : fdt[n].unit # u
      BY <3>1, <3>5 DEF FilesOK, FileOK
    <3>6. FileOK'
      BY <1>0, <3>1, <3>2, <3>3, <3>4, <3>5 DEF FilesOK, FileOK
    <3>7. UnitUsed'
      BY <3>1, <3>2, <3>3, NullAssumption DEF FilesOK, UnitUsed
    <3> QED BY <3>6, <3>7 DEF FilesOK
  <2>4. CASE InitNoUnit(t) \/ InitRefused(t)
    <3>1. call[t].fd \in Fds /\ CloseFile(call[t].fd)
      BY <2>4 DEF InitNoUnit, InitRefused, CallOK, LocalsOK, Attaching
    <3> QED BY <3>1, CloseKeepsFiles
  <2>5. ASSUME NEW d \in Devices, Close(t, d) \/ CloseError(t, d) \/ Dealloc(t, d)
        PROVE  FilesOK'
    <3>1. CASE Close(t, d) \/ CloseError(t, d)
      <4>1. ensure_open(d) /\ CloseFile(obj[d].fd)
        BY <3>1 DEF Close, CloseError
      <4> QED BY <4>1, OpenFd, CloseKeepsFiles
    <3>2. CASE Dealloc(t, d)
      <4>1. CASE ensure_open(d)
        <5>1. CloseFile(obj[d].fd)
          BY <3>2, <4>1 DEF Dealloc
        <5> QED BY <4>1, <5>1, OpenFd, CloseKeepsFiles
      <4>2. CASE ~ensure_open(d)
        BY <2>1, <3>2, <4>2 DEF Dealloc
      <4> QED BY <4>1, <4>2
    <3> QED BY <2>5, <3>1, <3>2
  <2>6. CASE IfconfigOk(t)
    <3>1. UNCHANGED fdt
      BY <2>6 DEF IfconfigOk
    <3> QED BY <2>6, <3>1, IfconfigOwner, SameOwnersKeepFiles
  <2> QED BY <1>3, <2>1, <2>2, <2>3, <2>4, <2>5, <2>6
          DEF Extension, InitBegin, ReadBegin, Ifconfig, InitError, InitNextUnit, InitNamed,
              ReadEnd, IfconfigFails
<1> QED BY <1>1, <1>2, <1>3 DEF Next

-----------------------------------------------------------------------------
(* Sockets, objects and the loop of __init__ *)

\* An extension step is not taken while another thread is attaching.
LEMMA AttachingAlone ==
  ASSUME OneHolder, NEW t \in Threads, NEW u \in Threads, u # t, Extension(t)
  PROVE  call[u].at \in {"idle", "init"}
BY GilBlocks DEF HoldsGil

\* The three ways an object is closed, or its close() fails.
Closing(t, d) == Close(t, d) \/ CloseError(t, d) \/ Dealloc(t, d)

LEMMA ClosingStep ==
  ASSUME TypeOK, NEW t \in Threads, NEW d \in Devices, Closing(t, d)
  PROVE  /\ UNCHANGED call /\ call[t].at = "idle"
         /\ \A e \in Devices : e # d => obj'[e] = obj[e]
         /\ \A e \in Devices : ensure_open(e)' => obj'[e] = obj[e]
         /\ ensure_open(d) => obj[d].fd \in Fds /\ CloseFile(obj[d].fd)
         /\ ~ensure_open(d) => UNCHANGED <<fdt, utun>>
<1>1. CASE Close(t, d)
  <2>1. obj'[d].is_closed = TRUE
    BY <1>1 DEF Close, TypeOK, Objects
  <2> QED BY <1>1, <2>1, OpenFd DEF Close, Runs, ensure_open, TypeOK
<1>2. CASE CloseError(t, d)
  BY <1>2, OpenFd DEF CloseError, Runs, TypeOK
<1>3. CASE Dealloc(t, d)
  <2>1. obj'[d].is_closed = TRUE
    BY <1>3 DEF Dealloc, TypeOK, Fresh
  <2> QED BY <1>3, <2>1, OpenFd DEF Dealloc, Runs, ensure_open, TypeOK
<1> QED BY <1>1, <1>2, <1>3 DEF Closing

\* What the start of an __init__ does to its object.
LEMMA InitBeginStep ==
  ASSUME TypeOK, NEW t \in Threads, NEW d \in Devices, InitBegin(t, d)
  PROVE  /\ UNCHANGED <<fdt, utun>> /\ call[t].at = "idle" /\ call'[t].at = "init"
         /\ ~ensure_open(d)'
         /\ \A e \in Devices : e # d => obj'[e] = obj[e]
         /\ ~ReinitOpen => ~ensure_open(d)
BY DEF InitBegin, Runs, Fresh, Idle, ensure_open, TypeOK

\* What the socket() of an __init__ does, with the descriptor number it gets.
SocketAt(t, m) ==
  /\ UNCHANGED <<obj, utun>> /\ call[t].at = "init" /\ call[t].dev \in Devices
  /\ fdt[m].kind = "free" /\ fdt'[m] = Socket(call[t].dev)
  /\ \A n \in Fds : n # m => fdt'[n] = fdt[n]
  /\ call'[t].at = "connect" /\ call'[t].fd = m /\ call'[t].dev = call[t].dev
  /\ call'[t].free = {u \in Units : ~Exists(u)} /\ (call'[t].auto => call'[t].unit = 1)

LEMMA InitSocketStep ==
  ASSUME TypeOK, CallOK, NEW t \in Threads, NEW num \in Preferred \cup {-1}, InitSocket(t, num)
  PROVE  \E m \in Fds : SocketAt(t, m)
<1>1. PICK m \in Fds :
         /\ fdt[m].kind = "free"
         /\ fdt' = [fdt EXCEPT ![m] = Socket(call[t].dev)]
         /\ call' = [call EXCEPT ![t].at = "connect", ![t].fd = m, ![t].auto = num < 0,
                                 ![t].unit = IF num < 0 THEN 1 ELSE num + 1,
                                 ![t].free = {u \in Units : ~Exists(u)}]
  BY DEF InitSocket
<1> DEFINE free == {u \in Units : ~Exists(u)}
           unit == IF num < 0 THEN 1 ELSE num + 1
<1>2. call' = [call EXCEPT ![t].at = "connect", ![t].fd = m, ![t].auto = num < 0,
                           ![t].unit = unit, ![t].free = free]
  BY <1>1
<1>3. unit = (IF num < 0 THEN 1 ELSE num + 1)
  OBVIOUS
<1> HIDE DEF free, unit
<1>4. /\ call'[t].at = "connect" /\ call'[t].fd = m /\ call'[t].dev = call[t].dev
      /\ call'[t].free = free /\ call'[t].auto = (num < 0) /\ call'[t].unit = unit
  BY <1>2 DEF TypeOK, Calls
<1>5. /\ UNCHANGED <<obj, utun>> /\ call[t].at = "init" /\ call[t].dev \in Devices
      /\ fdt'[m] = Socket(call[t].dev) /\ \A n \in Fds : n # m => fdt'[n] = fdt[n]
  BY <1>1 DEF InitSocket, CallOK, LocalsOK, TypeOK
<1>6. call'[t].auto => call'[t].unit = 1
  BY <1>3, <1>4
<1> QED BY <1>1, <1>4, <1>5, <1>6 DEF SocketAt, free

\* What its connect() does.
LEMMA InitConnectStep ==
  ASSUME TypeOK, CallOK, AttachOK, NEW t \in Threads, InitConnect(t)
  PROVE  /\ UNCHANGED obj /\ call[t].dev \in Devices /\ call[t].fd \in Fds
         /\ call[t].unit \in Units /\ utun[call[t].unit].owner = "none"
         /\ fdt[call[t].fd].kind = "utun" /\ fdt[call[t].fd].by = call[t].dev
         /\ fdt[call[t].fd].unit = NULL
         /\ fdt'[call[t].fd].kind = "utun" /\ fdt'[call[t].fd].by = call[t].dev
         /\ fdt'[call[t].fd].unit = call[t].unit
         /\ \A n \in Fds : n # call[t].fd => fdt'[n] = fdt[n]
         /\ utun'[call[t].unit].owner = "own"
         /\ \A v \in Units : v # call[t].unit => utun'[v] = utun[v]
         /\ call[t].at = "connect" /\ call'[t].at = "name"
         /\ call'[t].dev = call[t].dev /\ call'[t].fd = call[t].fd
<1>1. /\ call[t].dev \in Devices /\ call[t].fd \in Fds
      /\ call[t].unit \in Units /\ utun[call[t].unit].owner = "none"
      /\ fdt[call[t].fd].kind = "utun" /\ fdt[call[t].fd].by = call[t].dev
      /\ fdt[call[t].fd].unit = NULL
  BY DEF InitConnect, Exists, CallOK, LocalsOK, Attaching, AttachOK
<1>2. /\ fdt'[call[t].fd].kind = "utun" /\ fdt'[call[t].fd].by = call[t].dev
      /\ fdt'[call[t].fd].unit = call[t].unit
      /\ \A n \in Fds : n # call[t].fd => fdt'[n] = fdt[n]
  BY <1>1 DEF InitConnect, TypeOK, Files
<1>3. /\ utun'[call[t].unit].owner = "own"
      /\ \A v \in Units : v # call[t].unit => utun'[v] = utun[v]
  BY <1>1, Fields DEF InitConnect, TypeOK
<1>4. /\ call'[t].at = "name" /\ call'[t].dev = call[t].dev /\ call'[t].fd = call[t].fd
  BY DEF InitConnect, TypeOK, Calls
<1> QED BY <1>1, <1>2, <1>3, <1>4 DEF InitConnect

\* What the end of an __init__ that succeeds does.
LEMMA InitNamedStep ==
  ASSUME TypeOK, CallOK, NEW t \in Threads, InitNamed(t)
  PROVE  /\ UNCHANGED <<fdt, utun>> /\ call[t].at = "name" /\ call'[t].at = "idle"
         /\ call[t].dev \in Devices /\ call[t].fd \in Fds
         /\ \A e \in Devices : e # call[t].dev => obj'[e] = obj[e]
         /\ obj'[call[t].dev].fd = call[t].fd /\ ~obj'[call[t].dev].is_closed
         /\ call[t].fd # NULL
         /\ obj'[call[t].dev].ifname = fdt[call[t].fd].unit
<1>1. call[t].dev \in Devices /\ call[t].fd \in Fds /\ call[t].fd # NULL
  BY NullAssumption DEF InitNamed, CallOK, LocalsOK, Attaching
<1>2. obj'[call[t].dev] = [fd |-> call[t].fd, is_closed |-> FALSE, ifname |-> fdt[call[t].fd].unit]
  BY <1>1 DEF InitNamed, TypeOK
<1>3. \A e \in Devices : e # call[t].dev => obj'[e] = obj[e]
  BY DEF InitNamed, TypeOK
<1>4. call'[t].at = "idle"
  BY DEF InitNamed, TypeOK, Idle
<1> QED BY <1>1, <1>2, <1>3, <1>4 DEF InitNamed

\* What its failure after the socket() does.
LEMMA InitFailedStep ==
  ASSUME TypeOK, CallOK, NEW t \in Threads, InitNoUnit(t) \/ InitRefused(t)
  PROVE  /\ UNCHANGED obj /\ call[t].at \in Attaching /\ call'[t].at = "idle"
         /\ call[t].dev \in Devices /\ call[t].fd \in Fds /\ CloseFile(call[t].fd)
BY DEF InitNoUnit, InitRefused, CallOK, LocalsOK, Attaching, Idle, TypeOK

\* The steps that change neither an object nor a file.
Quiet(t) ==
  \/ \E d \in Devices : ReadBegin(t, d) \/ \E cmd \in StateCmds \cup ByName : Ifconfig(t, d, cmd)
  \/ InitError(t) \/ ReadEnd(t) \/ IfconfigOk(t) \/ IfconfigFails(t)

LEMMA QuietStep ==
  ASSUME TypeOK, NEW t \in Threads, Quiet(t)
  PROVE  UNCHANGED <<obj, fdt>> /\ call[t].at \notin Attaching /\ call'[t].at \notin Attaching
<1>1. ASSUME NEW d \in Devices, ReadBegin(t, d)
      PROVE UNCHANGED <<obj, fdt>> /\ call[t].at \notin Attaching /\ call'[t].at \notin Attaching
  BY <1>1 DEF ReadBegin, Runs, Idle, Attaching, TypeOK
<1>2. ASSUME NEW d \in Devices, NEW cmd \in StateCmds \cup ByName, Ifconfig(t, d, cmd)
      PROVE UNCHANGED <<obj, fdt>> /\ call[t].at \notin Attaching /\ call'[t].at \notin Attaching
  BY <1>2 DEF Ifconfig, Runs, Idle, Attaching, TypeOK
<1>3. CASE InitError(t) \/ ReadEnd(t) \/ IfconfigOk(t) \/ IfconfigFails(t)
  BY <1>3 DEF InitError, ReadEnd, IfconfigOk, IfconfigFails, Idle, Attaching, TypeOK
<1> QED BY <1>1, <1>2, <1>3 DEF Quiet

LEMMA QuietOwners ==
  ASSUME TypeOK, NEW t \in Threads, Quiet(t)
  PROVE  \A u \in Units : utun'[u].owner = utun[u].owner
BY IfconfigOwner DEF Quiet, ReadBegin, Ifconfig, InitError, ReadEnd, IfconfigFails

\* The kinds of step a thread takes.
LEMMA ExtensionCases ==
  ASSUME NEW t \in Threads, Extension(t)
  PROVE  \/ \E d \in Devices : InitBegin(t, d)
         \/ \E d \in Devices : Closing(t, d)
         \/ \E num \in Preferred \cup {-1} : InitSocket(t, num)
         \/ InitConnect(t) \/ InitNextUnit(t) \/ InitNoUnit(t) \/ InitRefused(t)
         \/ InitNamed(t) \/ Quiet(t)
BY DEF Extension, Closing, Quiet

\* The environment touches no utun socket.
LEMMA EnvironmentFiles ==
  ASSUME TypeOK, Environment
  PROVE  \A m \in Fds : fdt'[m] = fdt[m] \/ (/\ fdt[m].kind # "utun" /\ fdt'[m].kind # "utun"
                                            /\ fdt'[m].by = NULL)
<1>1. ASSUME NEW n \in Fds, OtherOpen(n) \/ OtherClose(n)
      PROVE  \A m \in Fds : fdt'[m] = fdt[m] \/ (/\ fdt[m].kind # "utun" /\ fdt'[m].kind # "utun"
                                               /\ fdt'[m].by = NULL)
  BY <1>1, Fields DEF OtherOpen, OtherClose, TypeOK
<1>2. UNCHANGED fdt \/ \E n \in Fds : OtherOpen(n) \/ OtherClose(n)
  BY DEF Environment, OtherUp, OtherDown, Autoconf
<1> QED BY <1>1, <1>2

LEMMA AttachStep == CoreInv /\ [Next]_vars => AttachOK'
<1> SUFFICES ASSUME TypeOK, CallOK, OneHolder, AttachOK, [Next]_vars PROVE AttachOK'
  BY DEF CoreInv
<1>1. CASE UNCHANGED vars
  BY <1>1 DEF vars, AttachOK
<1>2. CASE Environment
  BY <1>2, EnvironmentFrame, EnvironmentFiles DEF AttachOK, CallOK, LocalsOK
<1>3. ASSUME NEW t \in Threads, Extension(t) PROVE AttachOK'
  <2>1. \A u \in Threads : u # t => call'[u].at \notin Attaching
    BY <1>3, AttachingAlone, ExtensionFrame DEF Attaching
  <2>2. ASSUME call'[t].at \notin Attaching PROVE AttachOK'
    BY <2>1, <2>2 DEF AttachOK
  <2>3. ASSUME NEW d \in Devices, InitBegin(t, d) \/ Closing(t, d) PROVE AttachOK'
    <3>1. call'[t].at \notin Attaching
      BY <2>3, InitBeginStep, ClosingStep DEF Attaching
    <3> QED BY <2>2, <3>1
  <2>4. ASSUME NEW num \in Preferred \cup {-1}, InitSocket(t, num) PROVE AttachOK'
    <3>1. PICK m \in Fds : SocketAt(t, m)
      BY <2>4, InitSocketStep
    <3> QED BY <2>1, <3>1, Fields DEF SocketAt, AttachOK
  <2>5. CASE InitConnect(t)
    <3>1. call[t].unit # NULL
      BY <2>5, InitConnectStep, NullAssumption
    <3> QED BY <2>1, <2>5, <3>1, InitConnectStep DEF AttachOK
  <2>6. CASE InitNextUnit(t)
    <3>1. /\ UNCHANGED fdt /\ call[t].at = "connect" /\ call'[t].at = "connect"
          /\ call'[t].dev = call[t].dev /\ call'[t].fd = call[t].fd
      BY <2>6 DEF InitNextUnit, TypeOK, Calls
    <3> QED BY <2>1, <3>1 DEF AttachOK, Attaching
  <2>7. CASE InitNoUnit(t) \/ InitRefused(t) \/ InitNamed(t) \/ Quiet(t)
    <3>1. call'[t].at \notin Attaching
      BY <2>7, InitFailedStep, InitNamedStep, QuietStep DEF Attaching
    <3> QED BY <2>2, <3>1
  <2> QED BY <1>3, <2>3, <2>4, <2>5, <2>6, <2>7, ExtensionCases
<1> QED BY <1>1, <1>2, <1>3 DEF Next

\* An object whose number is that of a socket of its own keeps it, and has the
\* name it had, wherever neither the object nor the file changes.
LEMMA SocketNamedStep == OwnInv /\ [Next]_vars => SocketNamed'
<1> SUFFICES ASSUME TypeOK, CallOK, InitOK, AttachOK, SocketNamed, [Next]_vars,
                    NEW d \in Devices, HasSocket(d)'
             PROVE  fdt'[obj'[d].fd].unit # NULL /\ fdt'[obj'[d].fd].unit = obj'[d].ifname
  BY DEF CoreInv, OwnInv, SocketNamed
<1>0. ASSUME obj'[d] = obj[d], fdt'[obj[d].fd] = fdt[obj[d].fd]
      PROVE  fdt'[obj'[d].fd].unit # NULL /\ fdt'[obj'[d].fd].unit = obj'[d].ifname
  BY <1>0 DEF HasSocket, ensure_open, SocketNamed
<1>a. ensure_open(d) => obj[d].fd \in Fds
  BY OpenFd
<1>b. fdt'[obj'[d].fd].by # NULL
  BY NullAssumption DEF HasSocket
<1>1. CASE UNCHANGED vars
  BY <1>0, <1>1 DEF vars
<1>2. CASE Environment
  <2>1. obj'[d] = obj[d] /\ ensure_open(d)
    BY <1>2, EnvironmentFrame DEF HasSocket, ensure_open
  <2> QED BY <1>0, <1>2, <1>a, <1>b, <2>1, EnvironmentFiles
<1>3. ASSUME NEW t \in Threads, Extension(t)
      PROVE  fdt'[obj'[d].fd].unit # NULL /\ fdt'[obj'[d].fd].unit = obj'[d].ifname
  <2>1. ASSUME NEW e \in Devices, InitBegin(t, e) PROVE obj'[d] = obj[d] /\ UNCHANGED fdt
    BY <2>1, InitBeginStep DEF HasSocket
  <2>2. ASSUME NEW m \in Fds, CloseFile(m), obj'[d] = obj[d]
        PROVE  fdt'[obj[d].fd] = fdt[obj[d].fd]
    BY <1>a, <1>b, <2>2, CloseFrame, Fields DEF HasSocket, ensure_open
  <2>3. ASSUME NEW e \in Devices, Closing(t, e)
        PROVE  obj'[d] = obj[d] /\ fdt'[obj[d].fd] = fdt[obj[d].fd]
    <3>1. obj'[d] = obj[d]
      BY <2>3, ClosingStep DEF HasSocket
    <3> QED BY <2>2, <2>3, <3>1, ClosingStep
  <2>4. ASSUME NEW num \in Preferred \cup {-1}, InitSocket(t, num)
        PROVE  obj'[d] = obj[d] /\ fdt'[obj[d].fd] = fdt[obj[d].fd]
    <3>1. PICK m \in Fds : SocketAt(t, m)
      BY <2>4, InitSocketStep
    <3>2. ensure_open(d)
      BY <3>1 DEF SocketAt, HasSocket, ensure_open
    <3>3. call[t].dev # d
      BY <3>1, <3>2 DEF SocketAt, InitOK, Initing
    <3> QED BY <1>a, <3>1, <3>2, <3>3, Fields DEF SocketAt, HasSocket
  <2>5. CASE InitConnect(t)
    <3>1. UNCHANGED obj /\ ensure_open(d)
      BY <2>5, InitConnectStep DEF HasSocket, ensure_open
    <3>2. call[t].dev # d
      BY <2>5, <3>1, InitConnectStep DEF InitOK, Initing
    <3> QED BY <1>0, <1>a, <2>5, <3>1, <3>2, InitConnectStep DEF HasSocket
  <2>6. CASE InitNextUnit(t)
    BY <1>0, <2>6 DEF InitNextUnit
  <2>7. CASE InitNoUnit(t) \/ InitRefused(t)
    BY <1>0, <2>2, <2>7, InitFailedStep
  <2>8. CASE InitNamed(t)
    <3>1. CASE d = call[t].dev
      BY <2>8, <3>1, InitNamedStep DEF AttachOK, Attaching
    <3>2. CASE d # call[t].dev
      BY <1>0, <2>8, <3>2, InitNamedStep
    <3> QED BY <3>1, <3>2
  <2>9. CASE Quiet(t)
    BY <1>0, <2>9, QuietStep
  <2> QED BY <1>0, <1>3, <2>1, <2>3, <2>4, <2>5, <2>6, <2>7, <2>8, <2>9, ExtensionCases
<1> QED BY <1>1, <1>2, <1>3 DEF Next

LEMMA LoopStep == CoreInv /\ [Next]_vars => LoopOK'
<1> SUFFICES ASSUME TypeOK, CallOK, OneHolder, AttachOK, LoopOK, [Next]_vars PROVE LoopOK'
  BY DEF CoreInv
<1>0. \A t \in Threads : call[t].free \subseteq Units
  BY DEF TypeOK, Calls
<1>1. CASE UNCHANGED vars
  BY <1>1 DEF vars, LoopOK, Exists
<1>2. CASE Environment
  <2>1. ASSUME NEW v \in Units, OtherUp(v) PROVE LoopOK'
    <3>1. \A t \in Threads :
            /\ call'[t].at = call[t].at /\ call'[t].free = call[t].free \ {v}
            /\ call'[t].auto = call[t].auto /\ call'[t].unit = call[t].unit
      BY <2>1 DEF OtherUp, TypeOK, Calls
    <3>2. \A u \in Units : u # v => utun'[u] = utun[u]
      BY <2>1 DEF OtherUp, TypeOK
    <3> QED BY <1>0, <3>1, <3>2 DEF LoopOK, Exists
  <2>2. ASSUME NEW v \in Units, OtherDown(v) PROVE LoopOK'
    <3>1. UNCHANGED call /\ \A u \in Units : utun'[u] = utun[u] \/ utun'[u].owner = "none"
      BY <2>2, Fields DEF OtherDown, TypeOK
    <3> QED BY <1>0, <3>1 DEF LoopOK, Exists
  <2>3. ASSUME NEW v \in Units, NEW a \in LinkLocal, Autoconf(v, a) PROVE LoopOK'
    <3>1. UNCHANGED call /\ \A u \in Units : utun'[u].owner = utun[u].owner
      BY <2>3 DEF Autoconf, TypeOK, Utuns
    <3> QED BY <1>0, <3>1 DEF LoopOK, Exists
  <2>4. ASSUME NEW m \in Fds, OtherOpen(m) \/ OtherClose(m) PROVE LoopOK'
    BY <2>4 DEF OtherOpen, OtherClose, LoopOK, Exists
  <2> QED BY <1>2, <2>1, <2>2, <2>3, <2>4 DEF Environment
<1>3. ASSUME NEW t \in Threads, Extension(t) PROVE LoopOK'
  <2>1. \A u \in Threads : u # t => call'[u].at # "connect"
    BY <1>3, AttachingAlone, ExtensionFrame
  <2>2. ASSUME call'[t].at # "connect" PROVE LoopOK'
    BY <2>1, <2>2 DEF LoopOK
  <2>3. ASSUME NEW d \in Devices, InitBegin(t, d) \/ Closing(t, d) PROVE LoopOK'
    BY <2>2, <2>3, InitBeginStep, ClosingStep
  <2>4. ASSUME NEW num \in Preferred \cup {-1}, InitSocket(t, num) PROVE LoopOK'
    <3>1. PICK m \in Fds : SocketAt(t, m)
      BY <2>4, InitSocketStep
    <3>2. \A u \in Units : u >= 1
      BY UnitAssumption DEF Units
    <3>3. call'[t].free \subseteq Units /\ \A u \in call'[t].free : ~Exists(u)
      BY <3>1 DEF SocketAt
    <3> QED BY <2>1, <3>1, <3>2, <3>3 DEF SocketAt, LoopOK, Exists
  <2>5. CASE InitNextUnit(t)
    <3>1. /\ UNCHANGED utun /\ call'[t].free = call[t].free /\ call'[t].unit = call[t].unit + 1
          /\ call'[t].auto = call[t].auto /\ call[t].at = "connect" /\ call[t].auto
      BY <2>5 DEF InitNextUnit, TypeOK, Calls
    <3>2. call[t].unit \in Units /\ call[t].unit \notin call[t].free
      BY <2>5, <3>1 DEF InitNextUnit, Exists, LoopOK
    <3>3. \A u \in call[t].free : ~Exists(u) /\ u >= call[t].unit
      BY <3>1 DEF LoopOK
    <3>4. \A u \in call[t].free : u >= call[t].unit + 1
      BY <1>0, <3>2, <3>3, UnitAssumption DEF Units
    <3> QED BY <2>1, <3>1, <3>3, <3>4 DEF LoopOK, Exists
  <2>6. CASE InitConnect(t) \/ InitNoUnit(t) \/ InitRefused(t) \/ InitNamed(t) \/ Quiet(t)
    BY <2>2, <2>6, InitConnectStep, InitFailedStep, InitNamedStep, QuietStep DEF Attaching
  <2> QED BY <1>3, <2>3, <2>4, <2>5, <2>6, ExtensionCases
<1> QED BY <1>1, <1>2, <1>3 DEF Next

\* Socket m has somebody to close it.
Owned(m) ==
  \/ HasSocket(fdt[m].by) /\ obj[fdt[m].by].fd = m
  \/ \E t \in Threads : call[t].at \in Attaching /\ call[t].fd = m

\* It keeps its object, or its constructor, wherever they are left alone.
LEMMA StaysOwned ==
  ASSUME NEW m \in Fds, fdt'[m] = fdt[m], obj'[fdt[m].by] = obj[fdt[m].by], Owned(m),
         \A u \in Threads : call[u].at \in Attaching /\ call[u].fd = m =>
                            call'[u].at \in Attaching /\ call'[u].fd = m
  PROVE  Owned(m)'
<1>1. CASE HasSocket(fdt[m].by) /\ obj[fdt[m].by].fd = m
  BY <1>1 DEF Owned, HasSocket, ensure_open
<1>2. CASE \E t \in Threads : call[t].at \in Attaching /\ call[t].fd = m
  BY <1>2 DEF Owned
<1> QED BY <1>1, <1>2 DEF Owned

LEMMA NoOrphanStep ==
  ASSUME ~ReinitOpen
  PROVE  OwnInv /\ [Next]_vars => NoOrphan'
<1> SUFFICES ASSUME TypeOK, CallOK, OneHolder, InitOK, FileOK, AttachOK, NoOrphan, [Next]_vars,
                    NEW m \in Fds, fdt'[m].kind = "utun"
             PROVE  Owned(m)'
  BY DEF CoreInv, OwnInv, NoOrphan, Owned, Attaching
<1> DEFINE d == fdt[m].by
<1>a. fdt[m].kind = "utun" => Owned(m) /\ d \in Devices
  BY DEF NoOrphan, FileOK, Owned, Attaching
<1>1. CASE UNCHANGED vars
  BY <1>a, <1>1, StaysOwned DEF vars
<1>2. CASE Environment
  BY <1>a, <1>2, EnvironmentFrame, EnvironmentFiles, StaysOwned
<1>3. ASSUME NEW t \in Threads, Extension(t) PROVE Owned(m)'
  <2>0. \A u \in Threads : u # t => call'[u] = call[u]
    BY <1>3, ExtensionFrame
  <2>1. ASSUME NEW e \in Devices, InitBegin(t, e) PROVE Owned(m)'
    <3>1. /\ UNCHANGED fdt /\ call[t].at = "idle" /\ ~ensure_open(e)
          /\ \A x \in Devices : x # e => obj'[x] = obj[x]
      BY <2>1, InitBeginStep
    <3>2. CASE d = e
      <4>1. PICK u \in Threads : call[u].at \in Attaching /\ call[u].fd = m
        BY <1>a, <3>1, <3>2 DEF Owned, HasSocket
      <4>2. call'[u] = call[u]
        BY <2>0, <3>1, <4>1 DEF Attaching
      <4> QED BY <4>1, <4>2 DEF Owned
    <3>3. CASE d # e
      BY <1>a, <2>0, <3>1, <3>3, StaysOwned DEF Attaching
    <3> QED BY <3>2, <3>3
  <2>2. ASSUME NEW e \in Devices, Closing(t, e) PROVE Owned(m)'
    <3>1. /\ UNCHANGED call /\ \A x \in Devices : x # e => obj'[x] = obj[x]
          /\ ensure_open(e) => obj[e].fd \in Fds /\ CloseFile(obj[e].fd)
          /\ ~ensure_open(e) => UNCHANGED fdt
      BY <2>2, ClosingStep
    <3>2. fdt'[m] = fdt[m] /\ (ensure_open(e) => m # obj[e].fd)
      BY <3>1, CloseFrame, Fields
    <3>3. CASE d = e
      <4>1. PICK u \in Threads : call[u].at \in Attaching /\ call[u].fd = m
        BY <1>a, <3>2, <3>3 DEF Owned, HasSocket
      <4> QED BY <3>1, <4>1 DEF Owned
    <3>4. CASE d # e
      BY <1>a, <3>1, <3>2, <3>4, StaysOwned
    <3> QED BY <3>3, <3>4
  <2>3. ASSUME NEW num \in Preferred \cup {-1}, InitSocket(t, num) PROVE Owned(m)'
    <3>1. PICK n \in Fds : SocketAt(t, n)
      BY <2>3, InitSocketStep
    <3>2. CASE m = n
      BY <3>1, <3>2 DEF SocketAt, Owned, Attaching
    <3>3. CASE m # n
      BY <1>a, <2>0, <3>1, <3>3, StaysOwned DEF SocketAt, Attaching
    <3> QED BY <3>2, <3>3
  <2>4. CASE InitConnect(t)
    <3>1. CASE m = call[t].fd
      BY <2>4, <3>1, InitConnectStep DEF Owned, Attaching
    <3>2. CASE m # call[t].fd
      BY <1>a, <2>0, <2>4, <3>2, InitConnectStep, StaysOwned
    <3> QED BY <3>1, <3>2
  <2>5. CASE InitNextUnit(t)
    <3>1. /\ UNCHANGED <<obj, fdt>> /\ call'[t].at = "connect" /\ call'[t].fd = call[t].fd
      BY <2>5 DEF InitNextUnit, TypeOK, Calls
    <3> QED BY <1>a, <2>0, <3>1, StaysOwned DEF Attaching
  <2>6. CASE InitNoUnit(t) \/ InitRefused(t)
    <3>1. m # call[t].fd /\ fdt'[m] = fdt[m] /\ UNCHANGED obj
      BY <2>6, InitFailedStep, CloseFrame, Fields
    <3> QED BY <1>a, <2>0, <3>1, StaysOwned
  <2>7. CASE InitNamed(t)
    <3>0. call[t].at \in Attaching
      BY <2>7, InitNamedStep DEF Attaching
    <3>1. CASE m = call[t].fd
      <4>1. d = call[t].dev /\ fdt'[m].by = d
        BY <2>7, <3>0, <3>1, InitNamedStep DEF AttachOK
      <4> QED BY <2>7, <3>1, <4>1, InitNamedStep DEF Owned, HasSocket, ensure_open
    <3>2. CASE m # call[t].fd /\ d # call[t].dev
      BY <1>a, <2>0, <2>7, <3>2, InitNamedStep, StaysOwned
    <3>3. CASE m # call[t].fd /\ d = call[t].dev
      <4>1. fdt'[m] = fdt[m] /\ ~ensure_open(call[t].dev)
        BY <2>7, <3>0, InitNamedStep DEF InitOK, Initing, Attaching
      <4>2. PICK u \in Threads : call[u].at \in Attaching /\ call[u].fd = m
        BY <1>a, <3>3, <4>1 DEF Owned, HasSocket
      <4> QED BY <2>0, <3>3, <4>2 DEF Owned
    <3> QED BY <3>1, <3>2, <3>3
  <2>8. CASE Quiet(t)
    BY <1>a, <2>0, <2>8, QuietStep, StaysOwned
  <2> QED BY <1>3, <2>1, <2>2, <2>3, <2>4, <2>5, <2>6, <2>7, <2>8, ExtensionCases
<1> QED BY <1>1, <1>2, <1>3 DEF Next

-----------------------------------------------------------------------------
(* The invariant and what follows from it *)

LEMMA CoreInit == Init => OwnInv
<1> SUFFICES ASSUME Init PROVE OwnInv
  OBVIOUS
<1>1. TypeOK
  BY Values DEF Init, TypeOK
<1>2. /\ \A d \in Devices : ~ensure_open(d)
      /\ \A t \in Threads : call[t].at = "idle"
      /\ \A m \in Fds : fdt[m] = NoFile
      /\ \A u \in Units : utun[u].owner = "none"
  BY Fields DEF Init, ensure_open, Fresh, Idle
<1>3. CallOK /\ OneHolder /\ InitOK /\ AttachOK /\ LoopOK
  BY <1>2 DEF CallOK, LocalsOK, OneHolder, HoldsGil, InitOK, Initing, AttachOK, Attaching, LoopOK
<1>4. FileOK /\ UnitUsed /\ SocketNamed /\ NoOrphan
  BY <1>2, Fields DEF FileOK, UnitUsed, SocketNamed, NoOrphan, HasSocket
<1> QED BY <1>1, <1>3, <1>4 DEF CoreInv, OwnInv

\* The inductive invariant: the GIL, the locals of the calls and the tables of files and
\* interfaces fit together in every state the extension reaches.
THEOREM CoreInvariant == Spec => []CoreInv
<1>1. CoreInv /\ [Next]_vars => CoreInv'
  BY TypeStep, CallStep, OneHolderStep, FilesStep, AttachStep, LoopStep DEF CoreInv, FilesOK
<1>2. Init => CoreInv
  BY CoreInit DEF OwnInv
<1> QED BY <1>1, <1>2, PTL DEF Spec

\* What it gains if the program calls __init__ on no object that is open or under
\* construction: the sockets fit the objects, too.
THEOREM OwnInvariant ==
  ASSUME ~ReinitOpen
  PROVE  Spec => []OwnInv
<1>1. CoreInv /\ [Next]_vars => CoreInv'
  BY TypeStep, CallStep, OneHolderStep, FilesStep, AttachStep, LoopStep DEF CoreInv, FilesOK
<1>2. OwnInv /\ [Next]_vars => OwnInv'
  BY <1>1, InitStep, SocketNamedStep, NoOrphanStep DEF OwnInv
<1> QED BY <1>2, CoreInit, PTL DEF Spec

\* Every state has the types the records and tables of darwin_backend.c have.
THEOREM TypeCorrect == Spec => []TypeOK
BY CoreInvariant, PTL DEF CoreInv

\* No call of close(), of the deallocator, or of __init__ on an object that is neither open
\* nor under construction, failing or not, loses a utun socket.
THEOREM NoSocketLost ==
  ASSUME ~ReinitOpen
  PROVE  Spec => []NoOrphan
BY OwnInvariant, PTL DEF OwnInv

\* The interface name that up(), down(), addr and mtu configure by is that of the socket
\* read() and write() use, and the interface is there, if __init__ is called on no object
\* that is open or under construction.
THEOREM NameKept ==
  ASSUME ~ReinitOpen
  PROVE  Spec => []NameIsUnit
<1>1. OwnInv => NameIsUnit
  BY OpenFd DEF CoreInv, OwnInv, SocketNamed, FileOK, NameIsUnit, HasSocket
<1> QED BY <1>1, OwnInvariant, PTL

\* __init__ without a preferred unit gives up only if every unit was taken at some time
\* since it began, and takes a unit only if every lower one was.
THEOREM LoopTakesLowest == Spec => LoopMissesNone
<1>1. ASSUME CoreInv, NEW t \in Threads, call[t].at = "connect", call[t].auto, InitNoUnit(t)
      PROVE  call[t].free = {}
  <2>1. call[t].unit \in Units /\ Exists(call[t].unit) /\ call[t].unit = LastUnit
    BY <1>1 DEF InitNoUnit, CoreInv, CallOK, LocalsOK
  <2>2. \A u \in call[t].free : ~Exists(u) /\ u >= LastUnit /\ u \in 1 .. LastUnit
    BY <1>1, <2>1 DEF CoreInv, LoopOK, TypeOK, Calls, Units
  <2>3. \A u \in call[t].free : u = LastUnit
    BY <2>2, UnitAssumption
  <2> QED BY <2>1, <2>2, <2>3
<1>2. ASSUME CoreInv, NEW t \in Threads, call[t].at = "connect", call[t].auto
      PROVE  \A u \in call[t].free : u >= call[t].unit
  BY <1>2 DEF CoreInv, LoopOK
<1>3. CoreInv /\ [Next]_vars =>
        [\A t \in Threads : call[t].at = "connect" /\ call[t].auto =>
           /\ InitNoUnit(t) => call[t].free = {}
           /\ InitConnect(t) => \A u \in call[t].free : u >= call[t].unit]_vars
  BY <1>1, <1>2
<1> QED BY <1>3, CoreInvariant, PTL DEF Spec, LoopMissesNone

\* The ifconfig command of an object that has its socket changes that socket's interface
\* and no other, although it goes by name and other threads ran before it; again if __init__
\* is called on no object that is open or under construction.
THEOREM SettingsReachOwnUnit ==
  ASSUME ~ReinitOpen
  PROVE  Spec => SettingsHitOwnUnit
<1> DEFINE A == \A t \in Threads, u \in Units :
                  utun'[u] # utun[u] /\ IfconfigOk(t) =>
                    IF HasSocket(call[t].dev) THEN u = Held(call[t].dev)
                    ELSE call[t].cmd \in StateCmds => ensure_open(call[t].dev)
<1>1. ASSUME OwnInv, NEW t \in Threads, NEW u \in Units, utun'[u] # utun[u], IfconfigOk(t)
      PROVE  IF HasSocket(call[t].dev) THEN u = Held(call[t].dev)
             ELSE call[t].cmd \in StateCmds => ensure_open(call[t].dev)
  <2>1. u = call[t].unit
    BY <1>1 DEF IfconfigOk, OwnInv, CoreInv, TypeOK
  <2>2. /\ call[t].dev \in Devices /\ call[t].unit = obj[call[t].dev].ifname
        /\ call[t].cmd \in StateCmds => ensure_open(call[t].dev)
    BY <1>1 DEF IfconfigOk, OwnInv, CoreInv, CallOK, LocalsOK
  <2>3. HasSocket(call[t].dev) => fdt[obj[call[t].dev].fd].unit = obj[call[t].dev].ifname
    BY <1>1, <2>2 DEF OwnInv, SocketNamed
  <2> QED BY <2>1, <2>2, <2>3 DEF Held
<1>2. OwnInv => A
  BY <1>1
<1>3. OwnInv /\ [Next]_vars => [A]_vars
  BY <1>2
<1> QED BY <1>3, OwnInvariant, PTL DEF Spec, SettingsHitOwnUnit

AllLocal(as) == \A i \in DOMAIN as : as[i] \in LinkLocal

\* c is s with one more element, e, at its end.
Longer(c, s, e) ==
  \E n \in Nat : /\ DOMAIN c = 1 .. n /\ n \in 1 .. n /\ c[n] = e
                 /\ \A i \in 1 .. n : i # n => i \in DOMAIN s /\ c[i] = s[i]

\* What Append does, as a fact without the operator itself in it.
LEMMA Appended ==
  ASSUME NEW S, NEW s \in Seq(S), NEW e \in S
  PROVE  Longer(Append(s, e), s, e)
<1> DEFINE c == Append(s, e)
<1>1. /\ c \in Seq(S) /\ Len(c) = Len(s) + 1 /\ c[Len(s) + 1] = e
      /\ \A i \in 1 .. Len(s) : c[i] = s[i]
  BY AppendProperties
<1>2. Len(s) \in Nat /\ DOMAIN s = 1 .. Len(s)
  BY LenProperties
<1> HIDE DEF c
<1>3. Len(s) + 1 \in Nat /\ DOMAIN c = 1 .. Len(s) + 1
  BY <1>1, <1>2, LenProperties
<1>4. PICK n \in Nat : n = Len(s) + 1
  BY <1>3
<1>5. \A i \in 1 .. n : i # n => i \in 1 .. Len(s)
  BY <1>2, <1>4
<1>6. n \in 1 .. n
  BY <1>2, <1>4
<1>7. Longer(c, s, e)
  BY <1>1, <1>2, <1>3, <1>4, <1>5, <1>6 DEF Longer
<1> QED BY <1>7 DEF c

\* Behind link-local addresses, the index of another one is the only one of its kind.
LEMMA OneGlobal ==
  ASSUME NEW as \in Seq(Addrs), AllLocal(as), NEW a \in Addrs, a \notin LinkLocal
  PROVE  \E n \in Nat : /\ Append(as, a)[n] = a
                        /\ {i \in DOMAIN Append(as, a) : ~is_link_local_v6(Append(as, a)[i])} = {n}
<1> DEFINE list == Append(as, a)
<1>0. Longer(list, as, a)
  BY Appended
<1> HIDE DEF list
<1>1. PICK n \in Nat : /\ DOMAIN list = 1 .. n /\ n \in 1 .. n /\ list[n] = a
                       /\ \A i \in 1 .. n : i # n => i \in DOMAIN as /\ list[i] = as[i]
  BY <1>0 DEF Longer
<1>2. \A i \in 1 .. n : i # n => list[i] \in LinkLocal
  BY <1>1 DEF AllLocal
<1>3. {i \in DOMAIN list : ~is_link_local_v6(list[i])} = {n}
  BY <1>1, <1>2 DEF is_link_local_v6
<1> QED BY <1>1, <1>3 DEF list

\* A global address behind link-local ones is the one the getter takes.
LEMMA OnlyGlobalIsTaken ==
  ASSUME NEW as \in Seq(Addrs), AllLocal(as), NEW a \in Addrs, a \notin LinkLocal
  PROVE  FirstGlobal(WithAddr(as, a)) = a
<1> DEFINE list == Append(as, a)
           global == {i \in DOMAIN list : ~is_link_local_v6(list[i])}
           first == CHOOSE i \in global : \A j \in global : i <= j
<1>1. WithAddr(as, a) = list
  BY DEF WithAddr, AllLocal
<1>2. PICK n \in Nat : list[n] = a /\ global = {n}
  BY OneGlobal
<1>3. FirstGlobal(list) = IF global # {} THEN list[first]
                          ELSE IF list # <<>> THEN Head(list) ELSE NULL
  BY DEF FirstGlobal
<1> HIDE DEF list, global
<1>4. first \in global
  BY <1>2
<1> HIDE DEF first
<1> QED BY <1>1, <1>2, <1>3, <1>4

\* The first global address an interface gets is what the getter returns after the setter,
\* for any number of link-local addresses before it.
THEOREM FirstAddrIsRead == Spec => FirstAddrReadsBack
<1> DEFINE Setter(t, d) ==
             /\ IfconfigOk(t) /\ call[t].dev = d /\ call[t].cmd[1] = "inet6"
             /\ \A i \in DOMAIN utun[call[t].unit].addrs :
                  utun[call[t].unit].addrs[i] \in LinkLocal
             /\ call[t].cmd[2] \notin LinkLocal
           A == \A t \in Threads, d \in Devices :
                  Setter(t, d) => get_addr(d)' = call[t].cmd[2]
<1>1. ASSUME CoreInv, NEW t \in Threads, NEW d \in Devices, Setter(t, d)
      PROVE  get_addr(d)' = call[t].cmd[2]
  <2> DEFINE u == obj[d].ifname
             as == utun[u].addrs
             a == call[t].cmd[2]
  <2>1. u = call[t].unit /\ u \in Units /\ Exists(u) /\ utun[u] \in Utuns
    BY <1>1 DEF IfconfigOk, Exists, CoreInv, TypeOK, CallOK, LocalsOK
  <2>2. call[t].cmd \in {"inet6"} \X Addrs /\ a \in Addrs
    <3>1. call[t].cmd \in StateCmds \cup ByName \cup {NoCmd}
      BY <1>1 DEF CoreInv, TypeOK, Calls
    <3>2. call[t].cmd[1] = "inet6"
      BY <1>1
    <3>3. call[t].cmd \in {"inet6"} \X Addrs
      BY <3>1, <3>2 DEF StateCmds, ByName, NoCmd
    <3> QED BY <3>3
  <2>3. as \in Seq(Addrs)
    BY <2>1 DEF Utuns
  <2>4. utun' = [utun EXCEPT ![u] = Configured(utun[u], call[t].cmd)] /\ obj' = obj
    BY <1>1, <2>1 DEF IfconfigOk
  <2>5. utun'[u] = Configured(utun[u], call[t].cmd)
    BY <1>1, <2>1, <2>4 DEF CoreInv, TypeOK
  <2>6. utun'[u].addrs = WithAddr(as, a) /\ utun'[u].owner = utun[u].owner
    BY <1>1, <2>1, <2>5 DEF Configured, Utuns
  <2>7. get_addr(d)' = FirstGlobal(utun'[u].addrs)
    BY <2>1, <2>4, <2>6 DEF get_addr, Exists
  <2>8. AllLocal(as) /\ a \notin LinkLocal
    BY <1>1, <2>1 DEF AllLocal
  <2> HIDE DEF u, as, a
  <2>9. FirstGlobal(WithAddr(as, a)) = a
    BY <2>2, <2>3, <2>8, OnlyGlobalIsTaken
  <2> QED BY <2>6, <2>7, <2>9 DEF a
<1>2. CoreInv /\ [Next]_vars => [A]_vars
  BY <1>1
<1> QED BY <1>2, CoreInvariant, PTL DEF Spec, FirstAddrReadsBack

-----------------------------------------------------------------------------
(* The backend implements the contract of TunLease *)

\* What an object holds is what the table of files says.
HoldsUnit(d, u) == \E m \in Fds : fdt[m].by = d /\ fdt[m].unit = u

HeldByFile == \A d \in Devices : /\ Held(d) \in Units \cup {NULL}
                                 /\ \A u \in Units : Held(d) = u <=> HoldsUnit(d, u)

LEMMA HeldFile == OwnInv => HeldByFile
<1> SUFFICES ASSUME OwnInv, NEW d \in Devices
             PROVE  /\ Held(d) \in Units \cup {NULL}
                    /\ \A u \in Units : Held(d) = u <=> HoldsUnit(d, u)
  BY DEF HeldByFile
<1> USE DEF CoreInv, OwnInv
<1> DEFINE naming == {t \in Threads : call[t].at = "name" /\ call[t].dev = d}
<1>0. NULL \notin Devices /\ NULL \notin Units
  BY NullAssumption
<1>1. ASSUME NEW m \in Fds, NEW u \in Units, fdt[m].by = d, fdt[m].unit = u PROVE Held(d) = u
  <2>1. fdt[m].kind = "utun"
    BY <1>0, <1>1 DEF FileOK
  <2>2. CASE HasSocket(d) /\ obj[d].fd = m
    BY <1>1, <2>2 DEF Held
  <2>3. ASSUME NEW t \in Threads, call[t].at \in Attaching, call[t].fd = m PROVE Held(d) = u
    <3>1. call[t].dev = d /\ call[t].at = "name"
      BY <1>0, <1>1, <2>3 DEF AttachOK
    <3>2. ~HasSocket(d) /\ naming = {t}
      BY <3>1 DEF InitOK, Initing, HasSocket
    <3>3. (CHOOSE x \in naming : TRUE) = t
      BY <3>2
    <3> QED BY <1>1, <2>3, <3>2, <3>3 DEF Held
  <2> QED BY <1>1, <2>1, <2>2, <2>3 DEF NoOrphan, Attaching
<1>2. ASSUME Held(d) # NULL PROVE Held(d) \in Units /\ HoldsUnit(d, Held(d))
  <2>0. \A m \in Fds : fdt[m].unit # NULL => fdt[m].unit \in Units
    BY DEF TypeOK, Files
  <2>1. CASE HasSocket(d)
    <3>1. Held(d) = fdt[obj[d].fd].unit /\ obj[d].fd \in Fds /\ fdt[obj[d].fd].by = d
      BY <2>1, OpenFd DEF Held, HasSocket
    <3> QED BY <1>2, <2>0, <3>1 DEF HoldsUnit
  <2>2. CASE ~HasSocket(d)
    <3>1. naming # {} /\ Held(d) = fdt[call[CHOOSE t \in naming : TRUE].fd].unit
      BY <1>2, <2>2 DEF Held
    <3>2. PICK t \in naming : t = (CHOOSE x \in naming : TRUE)
      BY <3>1
    <3>3. call[t].fd \in Fds /\ fdt[call[t].fd].by = d
      BY <3>2 DEF CallOK, LocalsOK, AttachOK, Attaching
    <3> QED BY <1>2, <2>0, <3>1, <3>2, <3>3 DEF HoldsUnit
  <2> QED BY <2>1, <2>2
<1> QED BY <1>0, <1>1, <1>2 DEF HoldsUnit

LEMMA HeldFileNext == OwnInv' => HeldByFile'
BY HeldFile, PTL

Leases == [d \in Devices |-> Held(d)]
Ifaces == [u \in Units |-> IF utun[u].owner = "own" THEN "private" ELSE "none"]

LEMMA LeaseStutter ==
  ASSUME HeldByFile, HeldByFile',
         \A d \in Devices, u \in Units : HoldsUnit(d, u)' <=> HoldsUnit(d, u),
         \A u \in Units : utun'[u].owner = "own" <=> utun[u].owner = "own"
  PROVE  [Lease!Next]_(Lease!vars)
<1>1. \A d \in Devices : Held(d)' = Held(d)
  BY NullAssumption DEF HeldByFile
<1>2. Leases' = Leases
  BY <1>1 DEF Leases
<1>3. Ifaces' = Ifaces
  BY DEF Ifaces
<1> QED BY <1>2, <1>3 DEF Lease!vars, Leases, Ifaces

\* A file that gets a free unit is an acquisition.
LEMMA LeaseAcquire ==
  ASSUME HeldByFile, HeldByFile', NEW d \in Devices, NEW m \in Fds, NEW u \in Units,
         Held(d) = NULL, fdt[m].by = d, fdt'[m].by = d, fdt'[m].unit = u,
         \A n \in Fds : n # m => fdt'[n] = fdt[n],
         utun[u].owner = "none", utun'[u].owner = "own",
         \A v \in Units : v # u => utun'[v] = utun[v]
  PROVE  [Lease!Next]_(Lease!vars)
<1>1. Held(d)' = u
  BY DEF HeldByFile, HoldsUnit
<1>2. ASSUME NEW e \in Devices, e # d PROVE Held(e)' = Held(e)
  <2>1. \A v \in Units : HoldsUnit(e, v)' <=> HoldsUnit(e, v)
    BY <1>2 DEF HoldsUnit
  <2> QED BY <2>1, NullAssumption DEF HeldByFile
<1>3. Leases' = [Leases EXCEPT ![d] = u]
  BY <1>1, <1>2 DEF Leases
<1>4. Ifaces[u] = "none" /\ Ifaces' = [Ifaces EXCEPT ![u] = "private"]
  BY DEF Ifaces
<1>5. Lease!Acquire(d, u)
  BY <1>3, <1>4 DEF Lease!Acquire, Leases, Ifaces
<1> QED BY <1>5 DEF Lease!Next, Lease!vars

\* To close the file of a unit is to release it, by whatever number it was closed.
LEMMA LeaseRelease ==
  ASSUME FileOK, HeldByFile, HeldByFile', NEW m \in Fds, NEW d \in Devices, NEW u \in Units,
         fdt[m].by = d, fdt[m].unit = u, fdt'[m] = NoFile,
         \A n \in Fds : n # m => fdt'[n] = fdt[n], utun'[u] = NoUtun,
         \A v \in Units : v # u => utun'[v] = utun[v]
  PROVE  [Lease!Next]_(Lease!vars)
<1>0. NULL \notin Units /\ NULL \notin Devices
  BY NullAssumption
<1>1. Held(d) = u
  BY DEF HeldByFile, HoldsUnit
<1>2. \A n \in Fds : fdt[n].unit = u => n = m
  BY <1>0 DEF FileOK
<1>3. Held(d)' = NULL
  <2>1. ASSUME NEW v \in Units, HoldsUnit(d, v)' PROVE FALSE
    <3>1. PICK n \in Fds : fdt'[n].by = d /\ fdt'[n].unit = v
      BY <2>1 DEF HoldsUnit
    <3>2. n # m
      BY <1>0, <3>1, Fields
    <3>3. HoldsUnit(d, v)
      BY <3>1, <3>2 DEF HoldsUnit
    <3>4. v = u
      BY <1>1, <3>3 DEF HeldByFile
    <3> QED BY <1>2, <3>1, <3>2, <3>4
  <2> QED BY <2>1 DEF HeldByFile
<1>4. ASSUME NEW e \in Devices, e # d PROVE Held(e)' = Held(e)
  <2>1. \A v \in Units : HoldsUnit(e, v)' <=> HoldsUnit(e, v)
    BY <1>0, <1>4, Fields DEF HoldsUnit
  <2> QED BY <1>0, <2>1 DEF HeldByFile
<1>5. Leases[d] = u /\ Leases' = [Leases EXCEPT ![d] = NULL]
  BY <1>1, <1>3, <1>4 DEF Leases
<1>6. Ifaces' = [Ifaces EXCEPT ![u] = "none"]
  BY Fields DEF Ifaces
<1>7. {e \in Devices : Leases[e] = u} = {d}
  BY <1>1, <1>2 DEF Leases, HeldByFile, HoldsUnit
<1>8. Lease!Release(d, u)
  BY <1>5, <1>6, <1>7 DEF Lease!Release, Lease!Holders, Leases, Ifaces
<1> QED BY <1>8 DEF Lease!Next, Lease!vars

LEMMA LeaseClose ==
  ASSUME TypeOK, FileOK, HeldByFile, HeldByFile', NEW m \in Fds, CloseFile(m)
  PROVE  [Lease!Next]_(Lease!vars)
<1>0. fdt[m].unit \in Units \cup {NULL} /\ NULL \notin Units
  BY NullAssumption DEF TypeOK, Files
<1>1. CASE fdt[m].unit = NULL
  <2>1. UNCHANGED utun
    BY <1>1 DEF CloseFile
  <2>2. \A d \in Devices, u \in Units : HoldsUnit(d, u)' <=> HoldsUnit(d, u)
    BY <1>0, <1>1, CloseFrame, Fields DEF HoldsUnit
  <2> QED BY <2>1, <2>2, LeaseStutter
<1>2. CASE fdt[m].unit # NULL
  <2>1. fdt[m].by \in Devices
    BY <1>2 DEF FileOK
  <2> QED BY <1>0, <1>2, <2>1, CloseFrame, LeaseRelease
<1> QED BY <1>1, <1>2

LEMMA LeaseStep == OwnInv /\ OwnInv' /\ [Next]_vars => [Lease!Next]_(Lease!vars)
<1> SUFFICES ASSUME OwnInv, OwnInv', [Next]_vars PROVE [Lease!Next]_(Lease!vars)
  OBVIOUS
<1> USE DEF CoreInv, OwnInv
<1>0. HeldByFile /\ HeldByFile'
  BY HeldFile, HeldFileNext
<1>n. NULL \notin Units /\ NULL \notin Devices
  BY NullAssumption
<1>1. ASSUME \A m \in Fds : fdt'[m].by = fdt[m].by /\ fdt'[m].unit = fdt[m].unit,
             \A u \in Units : utun'[u].owner = "own" <=> utun[u].owner = "own"
      PROVE  [Lease!Next]_(Lease!vars)
  BY <1>0, <1>1, LeaseStutter DEF HoldsUnit
<1>2. CASE UNCHANGED vars
  BY <1>1, <1>2 DEF vars
<1>3. CASE Environment
  <2>1. ASSUME NEW u \in Units, OtherUp(u) \/ OtherDown(u) PROVE [Lease!Next]_(Lease!vars)
    <3>1. /\ UNCHANGED fdt /\ utun'[u].owner # "own" /\ utun[u].owner # "own"
          /\ \A v \in Units : v # u => utun'[v] = utun[v]
      BY <2>1, Fields DEF OtherUp, OtherDown, Exists, TypeOK
    <3> QED BY <1>1, <3>1
  <2>2. ASSUME NEW u \in Units, NEW a \in LinkLocal, Autoconf(u, a)
        PROVE  [Lease!Next]_(Lease!vars)
    <3>1. UNCHANGED fdt /\ \A v \in Units : utun'[v].owner = utun[v].owner
      BY <2>2 DEF Autoconf, TypeOK, Utuns
    <3> QED BY <1>1, <3>1
  <2>3. ASSUME NEW m \in Fds, OtherOpen(m) \/ OtherClose(m) PROVE [Lease!Next]_(Lease!vars)
    <3>1. /\ UNCHANGED utun /\ fdt[m].kind # "utun" /\ fdt'[m].by = NULL /\ fdt'[m].unit = NULL
          /\ \A n \in Fds : n # m => fdt'[n] = fdt[n]
      BY <2>3, Fields DEF OtherOpen, OtherClose, TypeOK
    <3>2. fdt[m].by = NULL /\ fdt[m].unit = NULL
      BY <3>1 DEF FileOK
    <3> QED BY <1>1, <3>1, <3>2
  <2> QED BY <1>3, <2>1, <2>2, <2>3 DEF Environment
<1>4. ASSUME NEW t \in Threads, Extension(t) PROVE [Lease!Next]_(Lease!vars)
  <2>1. ASSUME UNCHANGED <<fdt, utun>> PROVE [Lease!Next]_(Lease!vars)
    BY <1>1, <2>1
  <2>2. ASSUME NEW e \in Devices, Closing(t, e) PROVE [Lease!Next]_(Lease!vars)
    BY <1>0, <2>1, <2>2, ClosingStep, LeaseClose
  <2>3. ASSUME NEW num \in Preferred \cup {-1}, InitSocket(t, num)
        PROVE  [Lease!Next]_(Lease!vars)
    <3>1. PICK m \in Fds : SocketAt(t, m)
      BY <2>3, InitSocketStep
    <3>2. /\ UNCHANGED utun /\ fdt[m].unit = NULL /\ fdt'[m].unit = NULL
          /\ \A n \in Fds : n # m => fdt'[n] = fdt[n]
      BY <3>1, Fields DEF SocketAt, FileOK
    <3>3. \A d \in Devices, u \in Units : HoldsUnit(d, u)' <=> HoldsUnit(d, u)
      BY <1>n, <3>2 DEF HoldsUnit
    <3> QED BY <1>0, <3>2, <3>3, LeaseStutter
  <2>4. CASE InitConnect(t)
    <3>1. ~HasSocket(call[t].dev)
      BY <2>4, InitConnectStep DEF InitOK, Initing, HasSocket
    <3>2. {x \in Threads : call[x].at = "name" /\ call[x].dev = call[t].dev} = {}
      BY <2>4, InitConnectStep DEF InitOK, Initing
    <3>3. Held(call[t].dev) = NULL
      BY <3>1, <3>2 DEF Held
    <3>4. PICK d \in Devices, m \in Fds, u \in Units :
                 d = call[t].dev /\ m = call[t].fd /\ u = call[t].unit
      BY <2>4, InitConnectStep
    <3>5. Held(d) = NULL
      BY <3>3, <3>4
    <3>6. /\ fdt[m].by = d /\ fdt'[m].by = d /\ fdt'[m].unit = u
          /\ \A n \in Fds : n # m => fdt'[n] = fdt[n]
          /\ utun[u].owner = "none" /\ utun'[u].owner = "own"
          /\ \A v \in Units : v # u => utun'[v] = utun[v]
      BY <2>4, <3>4, InitConnectStep
    <3> QED BY <1>0, <3>5, <3>6, LeaseAcquire
  <2>5. CASE InitNoUnit(t) \/ InitRefused(t)
    <3>1. call[t].fd \in Fds /\ CloseFile(call[t].fd)
      BY <2>5, InitFailedStep
    <3> QED BY <1>0, <3>1, LeaseClose
  <2>6. CASE Quiet(t)
    <3>1. UNCHANGED fdt
      BY <2>6, QuietStep
    <3>2. \A u \in Units : utun'[u].owner = utun[u].owner
      BY <2>6, QuietOwners
    <3> QED BY <1>1, <3>1, <3>2
  <2>7. CASE (\E d \in Devices : InitBegin(t, d)) \/ InitNextUnit(t) \/ InitNamed(t)
    BY <2>1, <2>7 DEF InitBegin, InitNextUnit, InitNamed
  <2> QED BY <1>4, <2>2, <2>3, <2>4, <2>5, <2>6, <2>7, ExtensionCases
<1> QED BY <1>2, <1>3, <1>4 DEF Next

\* The macOS backend implements the contract of TunLease: a unit is taken when it is free,
\* has one holder, and leaves the host with its socket, with other programs taking units
\* between the steps of the loop and errors at any of them, if __init__ is called on no
\* object that is open or under construction.  (A number closed twice may release another
\* object's unit; for the contract this is a release like any other.)
THEOREM BackendKeepsLease ==
  ASSUME ~ReinitOpen
  PROVE  Spec => LeaseSpec
<1>1. Init => Lease!Init
  <2>1. ASSUME Init PROVE Lease!Init
    <3>1. \A d \in Devices : ~HasSocket(d)
      BY <2>1 DEF Init, HasSocket, ensure_open, Fresh
    <3>2. \A d \in Devices : {t \in Threads : call[t].at = "name" /\ call[t].dev = d} = {}
      BY <2>1 DEF Init, Idle
    <3>3. \A d \in Devices : Held(d) = NULL
      BY <3>1, <3>2 DEF Held
    <3>4. \A u \in Units : utun[u].owner = "none"
      BY <2>1, Fields DEF Init
    <3> QED BY <3>3, <3>4 DEF Lease!Init
  <2> QED BY <2>1
<1> QED BY <1>1, LeaseStep, OwnInvariant, PTL DEF Spec, LeaseSpec, Lease!Spec

\* What follows from the contract, for the units and objects of this backend.
Contract == INSTANCE TunLeaseProofs WITH
  Names <- Units, lease <- Leases, iface <- Ifaces, kept <- {}

\* The units of the process are those its objects hold, and each has one holder.
UnitsHeld ==
  \A u \in Units : /\ utun[u].owner = "own" <=> \E d \in Devices : Held(d) = u
                   /\ \A d, e \in Devices : Held(d) = u /\ Held(e) = u => d = e

\* The contract's consequences (TunLeaseProofs) carry over to the backend: whatever fails in
\* __init__ and close(), a unit is never two objects' and none stays without an object, under
\* the same condition.
THEOREM NeverShared ==
  ASSUME ~ReinitOpen
  PROVE  Spec => []UnitsHeld
<1>1. Lease!Init => Contract!Init
  BY DEF Lease!Init, Contract!Init, Leases, Ifaces
<1>2. [Lease!Next]_(Lease!vars) => [Contract!Next]_(Contract!vars)
  BY DEF Lease!Next, Contract!Next, Lease!vars, Contract!vars, Lease!Acquire, Contract!Acquire,
     Lease!Release, Contract!Release, Lease!Keep, Contract!Keep, Lease!Vanish, Contract!Vanish,
     Lease!Rename, Contract!Rename,
     Lease!Holders, Contract!Holders, Leases, Ifaces
<1>3. Contract!Spec => [](Contract!Exclusive /\ Contract!NoGhost)
  BY Contract!LeaseSafe, NullAssumption
<1>4. Contract!Exclusive /\ Contract!NoGhost => UnitsHeld
  <2> SUFFICES ASSUME Contract!Exclusive, Contract!NoGhost, NEW u \in Units
               PROVE  /\ utun[u].owner = "own" <=> \E d \in Devices : Held(d) = u
                      /\ \A d, e \in Devices : Held(d) = u /\ Held(e) = u => d = e
    BY DEF UnitsHeld
  <2>1. Ifaces[u] = (IF utun[u].owner = "own" THEN "private" ELSE "none")
    BY DEF Ifaces
  <2>2. \A d \in Devices : d \in {e \in Devices : Leases[e] = u} <=> Held(d) = u
    BY DEF Leases
  <2>3. Ifaces[u] # "none" <=> {e \in Devices : Leases[e] = u} # {}
    BY DEF Contract!NoGhost, Contract!Holders
  <2>4. Ifaces[u] = "private" => \A d, e \in {e \in Devices : Leases[e] = u} : d = e
    BY DEF Contract!Exclusive, Contract!Holders
  <2> QED BY <2>1, <2>2, <2>3, <2>4
<1> QED BY <1>1, <1>2, <1>3, <1>4, BackendKeepsLease, PTL
           DEF LeaseSpec, Lease!Spec, Contract!Spec
=============================================================================
