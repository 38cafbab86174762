--------------------------- MODULE LinuxTunProofs ----------------------------
(***************************************************************************)
(* Proofs about LinuxTun for every set of threads, objects, names,         *)
(* descriptor numbers, flags and addresses.                                *)
(***************************************************************************)
EXTENDS LinuxTun, SequenceTheorems, WellFoundedInduction, TLAPS

(* Facts about the values the state is built from. *)

USE DEF NoFd

LEMMA Values ==
  /\ Fresh \in Objects
  /\ Idle \in Calls
  /\ NoFile \in Files /\ OtherFile \in Files
  /\ \A d \in Devices : TunFile(d) \in Files
  /\ NoLink \in Links /\ OtherLink \in Links
  /\ \A mq \in BOOLEAN : TunLink(mq) \in Links
<1>1. Fresh \in Objects
  BY DEF Fresh, Objects
<1>2. Idle \in Calls
  BY DEF Idle, Calls, Stages
<1>3. NoFile \in Files /\ OtherFile \in Files /\ \A d \in Devices : TunFile(d) \in Files
  <2>1. 0 \in 0 .. MaxRx
    BY MaxRxAssumption
  <2>2. NoFile \in Files
    BY <2>1 DEF NoFile, Files
  <2>3. OtherFile \in Files
    BY <2>2 DEF OtherFile, Files
  <2>4. ASSUME NEW d \in Devices PROVE TunFile(d) \in Files
    BY <2>2 DEF TunFile, Files
  <2> QED BY <2>2, <2>3, <2>4
<1>4. NoAddrs \in [global : Seq(Addrs), local : Seq(Addrs)]
  BY DEF NoAddrs
<1>5. NoLink \in Links /\ OtherLink \in Links /\ \A mq \in BOOLEAN : TunLink(mq) \in Links
  BY <1>4, MtuAssumption DEF NoLink, OtherLink, TunLink, Links
<1> QED BY <1>1, <1>2, <1>3, <1>5

\* WithAddr and WithFlags keep the types.
LEMMA WithAddrType ==
  ASSUME NEW as \in [global : Seq(Addrs), local : Seq(Addrs)], NEW a \in Addrs
  PROVE  WithAddr(as, a) \in [global : Seq(Addrs), local : Seq(Addrs)]
<1>1. <<a>> \o as.global \in Seq(Addrs) /\ <<a>> \o as.local \in Seq(Addrs)
  <2>1. <<a>> \in Seq(Addrs)
    OBVIOUS
  <2>2. as.global \in Seq(Addrs) /\ as.local \in Seq(Addrs)
    OBVIOUS
  <2> QED BY <2>1, <2>2, ConcatProperties
<1> QED BY <1>1 DEF WithAddr

LEMMA WithFlagsType ==
  ASSUME NEW link \in Links, NEW fl \in SUBSET Flags
  PROVE  WithFlags(link, fl) \in Links
<1>1. NoAddrs \in [global : Seq(Addrs), local : Seq(Addrs)]
  BY DEF NoAddrs
<1> QED BY <1>1 DEF WithFlags, Links

LEMMA CloseFileType ==
  ASSUME TypeOK, NEW m \in Fds, CloseFile(m)
  PROVE  fdt' \in [Fds -> Files] /\ links' \in [Names -> Links]
BY Values DEF TypeOK, CloseFile, LinksAfterClose

-----------------------------------------------------------------------------
(* The parts of the inductive invariant that need no assumption *)

\* The locals of a call have values once they are used.
CallOK ==
  \A t \in Threads :
    /\ call[t].at # "idle" => call[t].dev \in Devices
    /\ call[t].at \in {"attach", "read"} => call[t].fd \in Fds
    /\ call[t].at = "ip" => call[t].addr \in Addrs

\* An open descriptor number is in the table.
LEMMA OpenFd ==
  ASSUME TypeOK, NEW d \in Devices, ensure_open(d)
  PROVE  obj[d].fd \in Fds
BY DEF TypeOK, ensure_open, Objects

\* What a step of the extension does to the calls.
LEMMA CallCases ==
  ASSUME NEW t \in Threads, Extension(t)
  PROVE  \/ UNCHANGED call
         \/ call' = [call EXCEPT ![t] = Idle]
         \/ InitOpen(t)
         \/ \E d \in Devices :
              \/ InitBegin(t, d) \/ ReadBegin(t, d)
              \/ \E b \in BOOLEAN : FlagsGet(t, d, b)
              \/ \E a \in Addrs : SetAddrBegin(t, d, a)
BY DEF Extension, Close, CloseError, Dealloc, Persist, MqAttach, SetMtu, InitError,
   InitAttachError, InitAttach, FlagsSet, SetAddrEnd, ReadEnd, ReadError

LEMMA CallStep == TypeOK /\ CallOK /\ [Next]_vars => CallOK'
<1> SUFFICES ASSUME TypeOK, CallOK, [Next]_vars PROVE CallOK'
  OBVIOUS
<1>1. CASE UNCHANGED vars
  BY <1>1 DEF vars, CallOK
<1>2. CASE Environment
  BY <1>2 DEF Environment, PacketIn, OtherClose, LinkDelete, LinkRename, LinkAdd, LinkFlags,
     Autoconf, OtherOpen, CallOK
<1>3. ASSUME NEW t \in Threads, Extension(t) PROVE CallOK'
  <2> USE <1>3
  <2>1. ASSUME UNCHANGED call PROVE CallOK'
    BY <2>1 DEF CallOK
  <2>2. ASSUME call' = [call EXCEPT ![t] = Idle] PROVE CallOK'
    BY <2>2 DEF CallOK, Idle, TypeOK
  <2>3. ASSUME NEW d \in Devices, InitBegin(t, d) PROVE CallOK'
    BY <2>3 DEF InitBegin, CallOK, Idle, TypeOK
  <2>4. ASSUME NEW d \in Devices, NEW b \in BOOLEAN, FlagsGet(t, d, b) PROVE CallOK'
    BY <2>4 DEF FlagsGet, CallOK, Idle, TypeOK
  <2>5. ASSUME NEW d \in Devices, ReadBegin(t, d) PROVE CallOK'
    BY <2>5, OpenFd DEF ReadBegin, CallOK, Idle, TypeOK
  <2>6. ASSUME NEW d \in Devices, NEW a \in Addrs, SetAddrBegin(t, d, a) PROVE CallOK'
    BY <2>6 DEF SetAddrBegin, CallOK, Idle, TypeOK
  <2>7. CASE InitOpen(t)
    BY <2>7 DEF InitOpen, CallOK, TypeOK, Calls
  <2> QED BY <2>1, <2>2, <2>3, <2>4, <2>5, <2>6, <2>7, CallCases
<1> QED BY <1>1, <1>2, <1>3 DEF Next

LEMMA TypeStep == TypeOK /\ CallOK /\ [Next]_vars => TypeOK'
<1> SUFFICES ASSUME TypeOK, CallOK, [Next]_vars PROVE TypeOK'
  OBVIOUS
<1> USE Values DEF TypeOK
<1>1. CASE UNCHANGED vars
  BY <1>1 DEF vars
<1>2. CASE Environment
  <2>1. ASSUME NEW m \in Fds, PacketIn(m) PROVE TypeOK'
    BY <2>1, MaxRxAssumption DEF PacketIn, Files
  <2>2. ASSUME NEW m \in Fds, OtherClose(m) PROVE TypeOK'
    BY <2>2 DEF OtherClose
  <2>3. ASSUME NEW n \in Names, LinkDelete(n) PROVE TypeOK'
    <3>1. 0 \in 0 .. MaxRx
      BY MaxRxAssumption
    <3>2. ASSUME NEW m \in Fds
          PROVE  [fdt[m] EXCEPT !.link = NULL, !.renamed = FALSE, !.on = FALSE, !.rx = 0]
                   \in Files
      <4>1. fdt[m] \in Files
        OBVIOUS
      <4> QED BY <3>1, <4>1 DEF Files
    <3> QED BY <2>3, <3>2 DEF LinkDelete
  <2>4. ASSUME NEW n \in Names, LinkAdd(n) PROVE TypeOK'
    BY <2>4 DEF LinkAdd
  <2>5. ASSUME NEW n \in Names, NEW fl \in SUBSET Flags, LinkFlags(n, fl) PROVE TypeOK'
    BY <2>5, WithFlagsType DEF LinkFlags
  <2>6. ASSUME NEW n \in Names, NEW a \in LinkLocal, Autoconf(n, a) PROVE TypeOK'
    BY <2>6, WithAddrType, AddrAssumption DEF Autoconf, Links
  <2>7. CASE OtherOpen
    BY <2>7 DEF OtherOpen
  <2>8. ASSUME NEW n \in Names, NEW new \in Names, LinkRename(n, new) PROVE TypeOK'
    <3>1. ASSUME NEW m \in Fds
          PROVE  [fdt[m] EXCEPT !.link = new, !.renamed = TRUE] \in Files
      <4>1. fdt[m] \in Files
        OBVIOUS
      <4> QED BY <4>1 DEF Files
    <3> QED BY <2>8, <3>1 DEF LinkRename
  <2> QED BY <1>2, <2>1, <2>2, <2>3, <2>4, <2>5, <2>6, <2>7, <2>8 DEF Environment
<1>3. ASSUME NEW t \in Threads, Extension(t) PROVE TypeOK'
  <2>1. ASSUME NEW d \in Devices, InitBegin(t, d) PROVE TypeOK'
    BY <2>1 DEF InitBegin, Idle, Calls, Stages
  <2>2. ASSUME NEW d \in Devices, Close(t, d) PROVE TypeOK'
    BY <2>2, OpenFd, CloseFileType DEF Close, Objects
  <2>3. ASSUME NEW d \in Devices, CloseError(t, d) PROVE TypeOK'
    BY <2>3, OpenFd, CloseFileType DEF CloseError
  <2>4. ASSUME NEW d \in Devices, Dealloc(t, d) PROVE TypeOK'
    BY <2>4, OpenFd, CloseFileType DEF Dealloc
  <2>5. ASSUME NEW d \in Devices, ReadBegin(t, d) PROVE TypeOK'
    BY <2>5, OpenFd DEF ReadBegin, Idle, Calls, Stages
  <2>6. ASSUME NEW d \in Devices, NEW b \in BOOLEAN, FlagsGet(t, d, b) PROVE TypeOK'
    <3>1. obj[d].ifname \in Names
      BY <2>6 DEF FlagsGet, Exists, Objects
    <3>2. links[obj[d].ifname].flags \in SUBSET Flags
      BY <3>1 DEF Links
    <3>3. [Idle EXCEPT !.at = "flags", !.dev = d, !.set_up = b,
                       !.flags = links[obj[d].ifname].flags] \in Calls
      BY <3>2 DEF Idle, Calls, Stages
    <3> QED BY <2>6, <3>3 DEF FlagsGet
  <2>7. ASSUME NEW d \in Devices, NEW b \in BOOLEAN, Persist(t, d, b) PROVE TypeOK'
    <3>1. obj[d].fd \in Fds
      BY <2>7, OpenFd DEF Persist
    <3>2. PICK n \in Names : links' = [links EXCEPT ![n].persist = b]
      BY <2>7, <3>1 DEF Persist, Files
    <3>3. [links[n] EXCEPT !.persist = b] \in Links
      BY DEF Links
    <3> QED BY <2>7, <3>2, <3>3 DEF Persist
  <2>8. ASSUME NEW d \in Devices, NEW b \in BOOLEAN, MqAttach(t, d, b) PROVE TypeOK'
    BY <2>8, OpenFd, MaxRxAssumption DEF MqAttach, Files
  <2>9. ASSUME NEW d \in Devices, NEW v \in MtuArgs, SetMtu(t, d, v) PROVE TypeOK'
    <3>1. obj[d].ifname \in Names
      BY <2>9 DEF SetMtu, Exists, Objects
    <3>2. [links[obj[d].ifname] EXCEPT !.mtu = IntOf(v)] \in Links
      BY <2>9, <3>1 DEF SetMtu, Links
    <3> QED BY <2>9, <3>2 DEF SetMtu
  <2>10. ASSUME NEW d \in Devices, NEW a \in Addrs, SetAddrBegin(t, d, a) PROVE TypeOK'
    BY <2>10 DEF SetAddrBegin, Idle, Calls, Stages
  <2>11. CASE InitError(t)
    BY <2>11 DEF InitError
  <2>12. CASE InitOpen(t)
    <3>1. call[t].dev \in Devices
      BY <2>12 DEF InitOpen, CallOK
    <3>2. fdt' \in [Fds -> Files]
      BY <2>12, <3>1 DEF InitOpen
    <3>3. \A m \in Fds : [call[t] EXCEPT !.at = "attach", !.fd = m] \in Calls
      BY DEF Calls, Stages
    <3> QED BY <2>12, <3>2, <3>3 DEF InitOpen
  <2>13. CASE InitAttachError(t)
    BY <2>13, CloseFileType DEF InitAttachError, CallOK
  <2>14. ASSUME NEW req \in Names \cup {NULL}, NEW mq \in MqModes, InitAttach(t, req, mq)
         PROVE  TypeOK'
    <3>1. call[t].fd \in Fds /\ mq \in BOOLEAN
      BY <2>14, BoolAssumption DEF InitAttach, CallOK
    <3>2. PICK n \in Names :
            /\ links' = IF links[n].kind = "none" THEN [links EXCEPT ![n] = TunLink(mq)] ELSE links
            /\ fdt' = [fdt EXCEPT ![call[t].fd].link = n, ![call[t].fd].on = TRUE]
            /\ obj' = [obj EXCEPT ![call[t].dev] =
                         [fd |-> call[t].fd, is_closed |-> FALSE, ifname |-> n]]
      BY <2>14 DEF InitAttach
    <3>3. links' \in [Names -> Links]
      BY <3>1, <3>2
    <3>4. [fdt[call[t].fd] EXCEPT !.link = n, !.on = TRUE] \in Files
      BY <3>1 DEF Files
    <3>5. fdt' = [fdt EXCEPT ![call[t].fd] = [fdt[call[t].fd] EXCEPT !.link = n, !.on = TRUE]]
      BY <3>1, <3>2
    <3>6. fdt' \in [Fds -> Files]
      BY <3>4, <3>5
    <3>7. obj' \in [Devices -> Objects]
      BY <3>1, <3>2 DEF Objects
    <3> QED BY <2>14, <3>3, <3>6, <3>7 DEF InitAttach
  <2>15. CASE FlagsSet(t)
    BY <2>15, WithFlagsType DEF FlagsSet, CallOK, Calls, Objects, Exists, Flags
  <2>16. CASE SetAddrEnd(t)
    <3>1. call[t].dev \in Devices /\ call[t].addr \in Addrs
      BY <2>16 DEF SetAddrEnd, CallOK
    <3>2. \A n \in Names : [links[n] EXCEPT !.addrs = WithAddr(@, call[t].addr)] \in Links
      BY <3>1, WithAddrType DEF Links
    <3>3. links' \in [Names -> Links]
      BY <2>16, <3>1, <3>2 DEF SetAddrEnd, Exists, Objects
    <3> QED BY <2>16, <3>3 DEF SetAddrEnd
  <2>17. CASE ReadEnd(t)
    BY <2>17, MaxRxAssumption DEF ReadEnd, CallOK, Files
  <2>18. CASE ReadError(t)
    BY <2>18 DEF ReadError
  <2> QED
    BY <1>3, <2>1, <2>2, <2>3, <2>4, <2>5, <2>6, <2>7, <2>8, <2>9, <2>10, <2>11, <2>12,
       <2>13, <2>14, <2>15, <2>16, <2>17, <2>18 DEF Extension
<1> QED BY <1>1, <1>2, <1>3 DEF Next

(* The interpreter lock *)

\* One thread at a time stops inside a system call with the GIL.
OneHolder == \A t, u \in Threads : HoldsGil(t) /\ HoldsGil(u) => t = u

\* While a thread does, no other goes on in the extension.
LEMMA GilBlocks ==
  ASSUME OneHolder, NEW t \in Threads, NEW u \in Threads, HoldsGil(u), Extension(t)
  PROVE  t = u
<1>1. CASE \A v \in Threads : ~HoldsGil(v)
  BY <1>1
<1>2. CASE HoldsGil(t)
  BY <1>2 DEF OneHolder
<1>3. ASSUME Runs(t) PROVE t = u
  BY <1>3 DEF Runs
<1>4. HoldsGil(t) \/ Runs(t) \/ \A v \in Threads : ~HoldsGil(v)
  BY DEF Extension, InitBegin, Close, CloseError, Dealloc, ReadBegin, FlagsGet, Persist,
     MqAttach, SetMtu, SetAddrBegin, InitError, InitOpen, InitAttachError, InitAttach,
     FlagsSet, SetAddrEnd, ReadEnd, ReadError, HoldsGil
<1> QED BY <1>1, <1>2, <1>3, <1>4

\* A step of thread t leaves the calls of the others alone, and a thread that
\* comes to hold the GIL had it free.
LEMMA ExtensionFrame ==
  ASSUME TypeOK, NEW t \in Threads, Extension(t)
  PROVE  /\ \A u \in Threads : u # t => call'[u] = call[u]
         /\ HoldsGil(t)' => HoldsGil(t) \/ \A v \in Threads : ~HoldsGil(v)
<1>1. \A u \in Threads : u # t => call'[u] = call[u]
  BY DEF TypeOK, Extension, InitBegin, Close, CloseError, Dealloc, ReadBegin, FlagsGet,
     Persist, MqAttach, SetMtu, SetAddrBegin, InitError, InitOpen, InitAttachError,
     InitAttach, FlagsSet, SetAddrEnd, ReadEnd, ReadError
<1>2. HoldsGil(t) \/ Runs(t) \/ \A v \in Threads : ~HoldsGil(v)
  BY DEF Extension, InitBegin, Close, CloseError, Dealloc, ReadBegin, FlagsGet, Persist,
     MqAttach, SetMtu, SetAddrBegin, InitError, InitOpen, InitAttachError, InitAttach,
     FlagsSet, SetAddrEnd, ReadEnd, ReadError, HoldsGil
<1> QED BY <1>1, <1>2 DEF Runs

LEMMA EnvironmentFrame == Environment => UNCHANGED <<obj, call>>
BY DEF Environment, PacketIn, OtherClose, LinkDelete, LinkRename, LinkAdd, LinkFlags, Autoconf,
   OtherOpen

LEMMA OneHolderStep == TypeOK /\ OneHolder /\ [Next]_vars => OneHolder'
<1> SUFFICES ASSUME TypeOK, OneHolder, [Next]_vars PROVE OneHolder'
  OBVIOUS
<1>1. CASE UNCHANGED call
  BY <1>1 DEF OneHolder, HoldsGil
<1>2. ASSUME NEW t \in Threads, Extension(t) PROVE OneHolder'
  <2>1. \A u \in Threads : u # t => (HoldsGil(u)' <=> HoldsGil(u))
    BY <1>2, ExtensionFrame DEF HoldsGil
  <2>2. HoldsGil(t)' => HoldsGil(t) \/ \A v \in Threads : ~HoldsGil(v)
    BY <1>2, ExtensionFrame
  <2> QED BY <2>1, <2>2 DEF OneHolder
<1> QED BY <1>1, <1>2, EnvironmentFrame DEF Next, vars

LEMMA ReaderStep ==
  TypeOK /\ CallOK /\ OneHolder /\ ReaderKeepsDevice /\ [Next]_vars => ReaderKeepsDevice'
<1> SUFFICES ASSUME TypeOK, CallOK, OneHolder, ReaderKeepsDevice, [Next]_vars,
                    NEW u \in Threads, call'[u].at = "read"
             PROVE  (ensure_open(call[u].dev) /\ obj[call[u].dev].fd = call[u].fd)'
  BY DEF ReaderKeepsDevice
<1>1. CASE UNCHANGED <<obj, call>>
  BY <1>1 DEF ReaderKeepsDevice, ensure_open
<1>2. ASSUME NEW t \in Threads, Extension(t)
      PROVE  (ensure_open(call[u].dev) /\ obj[call[u].dev].fd = call[u].fd)'
  <2>1. CASE call[u].at = "read"
    <3>1. HoldsGil(u) /\ t = u
      BY <1>2, <2>1, GilBlocks DEF HoldsGil
    <3>2. ~Runs(t) /\ call[t].at = "read"
      BY <3>1, <2>1 DEF Runs
    <3>3. ReadEnd(t) \/ ReadError(t)
      BY <1>2, <3>2 DEF Extension, InitBegin, Close, CloseError, Dealloc, ReadBegin, FlagsGet,
         Persist, MqAttach, SetMtu, SetAddrBegin, InitError, InitOpen, InitAttachError,
         InitAttach, FlagsSet, SetAddrEnd
    <3> QED BY <3>1, <3>3 DEF ReadEnd, ReadError, Idle, TypeOK
  <2>2. CASE call[u].at # "read"
    <3>1. t = u
      BY <1>2, <2>2, ExtensionFrame
    <3>2. ~UNCHANGED call /\ call' # [call EXCEPT ![t] = Idle] /\ ~InitOpen(t)
      BY <2>2, <3>1 DEF InitOpen, Idle, TypeOK, Calls
    <3>3. \A d \in Devices : /\ ~InitBegin(t, d)
                            /\ \A b \in BOOLEAN : ~FlagsGet(t, d, b)
      <4>1. ASSUME NEW d \in Devices, InitBegin(t, d) PROVE FALSE
        BY <3>1, <4>1 DEF InitBegin, Idle, TypeOK
      <4>2. ASSUME NEW d \in Devices, NEW b \in BOOLEAN, FlagsGet(t, d, b) PROVE FALSE
        BY <3>1, <4>2 DEF FlagsGet, Idle, TypeOK
      <4> QED BY <4>1, <4>2
    <3>4. \A d \in Devices, a \in Addrs : ~SetAddrBegin(t, d, a)
      BY <3>1 DEF SetAddrBegin, Idle, TypeOK
    <3>5. \E d \in Devices : ReadBegin(t, d)
      BY <1>2, <3>2, <3>3, <3>4, CallCases
    <3> QED BY <3>1, <3>5 DEF ReadBegin, Idle, TypeOK, ensure_open
  <2> QED BY <2>1, <2>2
<1> QED BY <1>1, <1>2, EnvironmentFrame DEF Next, vars

-----------------------------------------------------------------------------
(* Files and interfaces *)

\* A file is attached only if it is of the driver, and to an interface of the
\* driver.
FileOK ==
  \A m \in Fds : fdt[m].link # NULL =>
    fdt[m].kind = "tun" /\ links[fdt[m].link].kind = "tun"

\* The file an __init__ in progress has opened is its object's and unattached.
AttachOK ==
  \A t \in Threads : call[t].at = "attach" =>
    LET f == fdt[call[t].fd]
    IN  f.kind = "tun" /\ f.by = call[t].dev /\ f.link = NULL

\* An interface of the driver that is not persistent has a file.
LinkUsed ==
  \A n \in Names : links[n].kind = "tun" /\ ~links[n].persist =>
    \E m \in Fds : fdt[m].link = n

\* What closing a file changes.
LEMMA CloseFileFacts ==
  ASSUME TypeOK, FileOK, NEW m \in Fds, CloseFile(m)
  PROVE  /\ fdt'[m] = NoFile
         /\ \A k \in Fds \ {m} : fdt'[k] = fdt[k]
         /\ \A n \in Names : \/ links'[n] = links[n]
                             \/ /\ links'[n] = NoLink /\ fdt[m].link = n
                                /\ \A k \in Fds \ {m} : fdt[k].link # n
         /\ \A n \in Names : /\ links[n].kind = "tun" /\ ~links[n].persist
                             /\ \A k \in Fds \ {m} : fdt[k].link # n
                             /\ fdt[m].link = n
                             => links'[n] = NoLink
<1>1. \A n \in Names : Attached(n) = {k \in Fds : fdt[k].link = n}
  BY NullAssumption DEF Attached, FileOK
<1>2. fdt[m].link \in Names \cup {NULL}
  BY DEF TypeOK, Files
<1>3. CASE fdt[m].link # NULL /\ ~links[fdt[m].link].persist /\ Attached(fdt[m].link) = {m}
  <2>1. links' = [links EXCEPT ![fdt[m].link] = NoLink]
    BY <1>3 DEF CloseFile, LinksAfterClose
  <2>2. \A k \in Fds \ {m} : fdt[k].link # fdt[m].link
    BY <1>1, <1>2, <1>3
  <2> QED BY <1>2, <1>3, <2>1, <2>2 DEF CloseFile, TypeOK
<1>4. CASE ~(fdt[m].link # NULL /\ ~links[fdt[m].link].persist /\ Attached(fdt[m].link) = {m})
  <2>1. links' = links
    BY <1>4 DEF CloseFile, LinksAfterClose
  <2>2. ASSUME NEW n \in Names, ~links[n].persist, fdt[m].link = n,
               \A k \in Fds \ {m} : fdt[k].link # n
        PROVE  FALSE
    <3>1. Attached(n) = {m}
      BY <1>1, <2>2
    <3> QED BY <1>4, <2>2, <3>1, NullAssumption
  <2>3. fdt' = [fdt EXCEPT ![m] = NoFile]
    BY DEF CloseFile
  <2> QED BY <2>1, <2>2, <2>3 DEF TypeOK
<1> QED BY <1>3, <1>4

\* What renaming an interface changes.
LEMMA RenameFacts ==
  ASSUME TypeOK, NEW n \in Names, NEW new \in Names, LinkRename(n, new)
  PROVE  /\ n # new /\ links[n].kind # "none" /\ links[new].kind = "none"
         /\ links'[new] = links[n] /\ links'[n] = NoLink
         /\ \A k \in Names \ {n, new} : links'[k] = links[k]
         /\ \A m \in Fds :
              /\ fdt'[m].kind = fdt[m].kind /\ fdt'[m].by = fdt[m].by
              /\ fdt'[m].on = fdt[m].on /\ fdt'[m].rx = fdt[m].rx
              /\ IF fdt[m].kind = "tun" /\ fdt[m].link = n
                 THEN fdt'[m].link = new /\ fdt'[m].renamed
                 ELSE fdt'[m] = fdt[m]
<1> USE DEF TypeOK
<1>1. n # NULL /\ new # NULL
  BY NullAssumption
<1>2. n # new /\ links[n].kind # "none" /\ links[new].kind = "none"
  BY <1>1 DEF LinkRename, Exists
<1>3. /\ links'[new] = links[n] /\ links'[n] = NoLink
      /\ \A k \in Names \ {n, new} : links'[k] = links[k]
  BY <1>2 DEF LinkRename
<1>4. ASSUME NEW m \in Fds
      PROVE  /\ fdt'[m].kind = fdt[m].kind /\ fdt'[m].by = fdt[m].by
             /\ fdt'[m].on = fdt[m].on /\ fdt'[m].rx = fdt[m].rx
             /\ IF fdt[m].kind = "tun" /\ fdt[m].link = n
                THEN fdt'[m].link = new /\ fdt'[m].renamed
                ELSE fdt'[m] = fdt[m]
  <2>1. fdt[m] \in Files
    OBVIOUS
  <2>2. fdt'[m] = IF fdt[m].kind = "tun" /\ fdt[m].link = n
                  THEN [fdt[m] EXCEPT !.link = new, !.renamed = TRUE] ELSE fdt[m]
    BY DEF LinkRename, Attached
  <2> QED BY <2>1, <2>2 DEF Files
<1> QED BY <1>2, <1>3, <1>4

\* Where the extension closes files.
CloseStep(t) ==
  \/ \E d \in Devices : /\ ensure_open(d) /\ CloseFile(obj[d].fd)
                        /\ Close(t, d) \/ CloseError(t, d) \/ Dealloc(t, d)
  \/ InitAttachError(t)

\* What a step of the extension does to the files and interfaces.
LEMMA FileCases ==
  ASSUME NEW t \in Threads, Extension(t)
  PROVE  \/ UNCHANGED <<fdt, links>>
         \/ CloseStep(t)
         \/ InitOpen(t) \/ ReadEnd(t) \/ FlagsSet(t) \/ SetAddrEnd(t)
         \/ \E req \in Names \cup {NULL}, mq \in MqModes : InitAttach(t, req, mq)
         \/ \E d \in Devices :
              \/ \E b \in BOOLEAN : Persist(t, d, b) \/ MqAttach(t, d, b)
              \/ \E v \in MtuArgs : SetMtu(t, d, v)
BY DEF Extension, CloseStep, InitBegin, Close, CloseError, Dealloc, ReadBegin, FlagsGet,
   SetAddrBegin, InitError, ReadError

\* Every CloseStep closes one file of the table.
LEMMA CloseStepFile ==
  ASSUME TypeOK, CallOK, NEW t \in Threads, CloseStep(t)
  PROVE  \E m \in Fds : CloseFile(m)
BY OpenFd DEF CloseStep, InitAttachError, CallOK

LEMMA FileStep == TypeOK /\ CallOK /\ AttachOK /\ FileOK /\ [Next]_vars => FileOK'
<1> SUFFICES ASSUME TypeOK, CallOK, AttachOK, FileOK, [Next]_vars PROVE FileOK'
  OBVIOUS
<1> USE DEF TypeOK
<1>0. \A m \in Fds : fdt[m].link \in Names \cup {NULL}
  BY DEF Files
<1>1. CASE UNCHANGED <<fdt, links>>
  BY <1>1 DEF FileOK
<1>2. CASE Environment
  <2>1. ASSUME NEW m \in Fds, PacketIn(m) PROVE FileOK'
    BY <2>1 DEF PacketIn, FileOK, Files
  <2>2. ASSUME NEW m \in Fds, OtherClose(m) PROVE FileOK'
    BY <2>2 DEF OtherClose, FileOK, NoFile
  <2>3. ASSUME NEW n \in Names, LinkDelete(n) PROVE FileOK'
    <3>1. \A m \in Fds : fdt'[m] = IF fdt[m].kind = "tun" /\ fdt[m].link = n
                                   THEN [fdt[m] EXCEPT !.link = NULL, !.renamed = FALSE,
                                                       !.on = FALSE, !.rx = 0]
                                   ELSE fdt[m]
      BY <2>3 DEF LinkDelete, Attached
    <3>2. \A m \in Fds : fdt'[m].link # NULL => fdt'[m] = fdt[m] /\ fdt[m].link # n
      BY <3>1, NullAssumption DEF FileOK, Files
    <3> QED BY <2>3, <3>2, <1>0 DEF LinkDelete, FileOK
  <2>4. ASSUME NEW n \in Names, LinkAdd(n) PROVE FileOK'
    BY <2>4, NullAssumption DEF LinkAdd, FileOK, Exists
  <2>5. ASSUME NEW n \in Names, NEW fl \in SUBSET Flags, LinkFlags(n, fl) PROVE FileOK'
    BY <2>5, <1>0 DEF LinkFlags, FileOK, WithFlags, Links
  <2>6. ASSUME NEW n \in Names, NEW a \in LinkLocal, Autoconf(n, a) PROVE FileOK'
    BY <2>6, <1>0 DEF Autoconf, FileOK, Links
  <2>7. CASE OtherOpen
    BY <2>7 DEF OtherOpen, FileOK, OtherFile, NoFile
  <2>8. ASSUME NEW n \in Names, NEW new \in Names, LinkRename(n, new) PROVE FileOK'
    <3> SUFFICES ASSUME NEW m \in Fds, fdt'[m].link # NULL
                 PROVE  fdt'[m].kind = "tun" /\ links'[fdt'[m].link].kind = "tun"
      BY DEF FileOK
    <3>1. CASE fdt[m].kind = "tun" /\ fdt[m].link = n
      BY <2>8, <3>1, RenameFacts, NullAssumption DEF FileOK
    <3>2. CASE ~(fdt[m].kind = "tun" /\ fdt[m].link = n)
      <4>1. fdt'[m] = fdt[m] /\ fdt[m].kind = "tun" /\ links[fdt[m].link].kind = "tun"
        BY <2>8, <3>2, RenameFacts DEF FileOK
      <4>2. fdt[m].link \in Names \ {n, new}
        BY <2>8, <3>2, <4>1, <1>0, RenameFacts
      <4> QED BY <2>8, <4>1, <4>2, RenameFacts
    <3> QED BY <3>1, <3>2
  <2> QED BY <1>2, <2>1, <2>2, <2>3, <2>4, <2>5, <2>6, <2>7, <2>8 DEF Environment
<1>3. ASSUME NEW t \in Threads, Extension(t) PROVE FileOK'
  <2>1. CASE CloseStep(t)
    <3>1. PICK m \in Fds : CloseFile(m)
      BY <2>1, CloseStepFile
    <3> QED BY <3>1, <1>0, CloseFileFacts DEF FileOK, NoFile
  <2>2. CASE InitOpen(t)
    BY <2>2 DEF InitOpen, FileOK, TunFile, NoFile
  <2>3. CASE ReadEnd(t)
    BY <2>3 DEF ReadEnd, FileOK, Files, CallOK
  <2>4. CASE FlagsSet(t)
    BY <2>4, <1>0 DEF FlagsSet, FileOK, WithFlags, Links
  <2>5. CASE SetAddrEnd(t)
    BY <2>5, <1>0 DEF SetAddrEnd, FileOK, Links
  <2>6. ASSUME NEW req \in Names \cup {NULL}, NEW mq \in MqModes, InitAttach(t, req, mq)
        PROVE  FileOK'
    <3>1. PICK n \in Names :
            /\ CanAttach(n, mq)
            /\ links' = IF links[n].kind = "none" THEN [links EXCEPT ![n] = TunLink(mq)] ELSE links
            /\ fdt' = [fdt EXCEPT ![call[t].fd].link = n, ![call[t].fd].on = TRUE]
      BY <2>6 DEF InitAttach
    <3>2. call[t].fd \in Fds /\ fdt[call[t].fd].kind = "tun"
      BY <2>6 DEF InitAttach, CallOK, AttachOK
    <3>3. links'[n].kind = "tun" /\ \A k \in Names \ {n} : links'[k] = links[k]
      BY <3>1 DEF CanAttach, TunLink, NoLink
    <3>4. /\ fdt'[call[t].fd].kind = "tun" /\ fdt'[call[t].fd].link = n
          /\ \A m \in Fds \ {call[t].fd} : fdt'[m] = fdt[m]
      BY <3>1, <3>2 DEF Files
    <3> QED BY <3>3, <3>4, <1>0 DEF FileOK
  <2>7. ASSUME NEW d \in Devices, NEW b \in BOOLEAN, Persist(t, d, b) PROVE FileOK'
    BY <2>7, <1>0 DEF Persist, FileOK, Links
  <2>8. ASSUME NEW d \in Devices, NEW b \in BOOLEAN, MqAttach(t, d, b) PROVE FileOK'
    BY <2>8, OpenFd DEF MqAttach, FileOK, Files
  <2>9. ASSUME NEW d \in Devices, NEW v \in MtuArgs, SetMtu(t, d, v) PROVE FileOK'
    BY <2>9, <1>0 DEF SetMtu, FileOK, Links
  <2> QED
    BY <1>1, <1>3, <2>1, <2>2, <2>3, <2>4, <2>5, <2>6, <2>7, <2>8, <2>9, FileCases
<1> QED BY <1>1, <1>2, <1>3 DEF Next, vars

\* A step of the extension leaves "attach".
LEMMA AttachOnce ==
  ASSUME TypeOK, OneHolder, NEW t \in Threads, Extension(t),
         NEW u \in Threads, call'[u].at = "attach"
  PROVE  call[u].at # "attach"
<1> SUFFICES ASSUME call[u].at = "attach" PROVE FALSE
  OBVIOUS
<1>1. HoldsGil(u)
  BY DEF HoldsGil
<1>2. t = u
  BY <1>1, GilBlocks
<1>3. InitAttachError(t) \/ \E req \in Names \cup {NULL}, mq \in MqModes : InitAttach(t, req, mq)
  BY <1>1, <1>2 DEF Extension, InitBegin, Close, CloseError, Dealloc, ReadBegin,
     FlagsGet, Persist, MqAttach, SetMtu, SetAddrBegin, InitError, InitOpen, FlagsSet,
     SetAddrEnd, ReadEnd, ReadError, Runs
<1> QED BY <1>2, <1>3 DEF InitAttachError, InitAttach, Idle, TypeOK

\* A step of the extension that comes to "attach" is InitOpen.
LEMMA AttachByOpen ==
  ASSUME TypeOK, OneHolder, NEW t \in Threads, Extension(t),
         NEW u \in Threads, call'[u].at = "attach"
  PROVE  t = u /\ InitOpen(t)
<1> USE DEF TypeOK
<1>1. call[u].at # "attach"
  BY AttachOnce
<1>2. t = u
  BY <1>1, ExtensionFrame
<1>3. ~UNCHANGED call /\ call' # [call EXCEPT ![t] = Idle]
  BY <1>1, <1>2 DEF Idle
<1>4. ASSUME NEW d \in Devices, InitBegin(t, d) PROVE FALSE
  <2>1. call' = [call EXCEPT ![t] = [Idle EXCEPT !.at = "init", !.dev = d]]
    BY <1>4 DEF InitBegin
  <2> QED BY <1>2, <2>1 DEF Idle
<1>5. \A d \in Devices : ~ReadBegin(t, d)
  BY <1>2 DEF ReadBegin, Idle
<1>6. \A d \in Devices, b \in BOOLEAN : ~FlagsGet(t, d, b)
  BY <1>2 DEF FlagsGet, Idle
<1>7. \A d \in Devices, a \in Addrs : ~SetAddrBegin(t, d, a)
  BY <1>2 DEF SetAddrBegin, Idle
<1> QED BY <1>2, <1>3, <1>4, <1>5, <1>6, <1>7, CallCases

LEMMA AttachStep ==
  TypeOK /\ CallOK /\ OneHolder /\ AttachOK /\ [Next]_vars => AttachOK'
<1> SUFFICES ASSUME TypeOK, CallOK, OneHolder, AttachOK, [Next]_vars,
                    NEW u \in Threads, call'[u].at = "attach"
             PROVE  LET f == fdt'[call'[u].fd]
                    IN  f.kind = "tun" /\ f.by = call'[u].dev /\ f.link = NULL
  BY DEF AttachOK
<1> USE DEF TypeOK
<1>1. CASE UNCHANGED vars
  BY <1>1 DEF vars, AttachOK
<1>2. CASE Environment
  <2>1. call' = call /\ call[u].fd \in Fds
    BY <1>2, EnvironmentFrame DEF CallOK
  <2>2. fdt[call[u].fd].kind = "tun" /\ fdt[call[u].fd].link = NULL
    BY <2>1 DEF AttachOK
  <2>3. fdt'[call[u].fd] = fdt[call[u].fd]
    BY <1>2, <2>1, <2>2, NullAssumption DEF Environment, PacketIn, OtherClose, LinkDelete,
       LinkRename, LinkAdd, LinkFlags, Autoconf, OtherOpen, LowestFree, Attached
  <2> QED BY <2>1, <2>3 DEF AttachOK
<1>3. ASSUME NEW t \in Threads, Extension(t)
      PROVE  LET f == fdt'[call'[u].fd]
             IN  f.kind = "tun" /\ f.by = call'[u].dev /\ f.link = NULL
  <2>1. t = u /\ InitOpen(t)
    BY <1>3, AttachByOpen
  <2> QED BY <2>1 DEF InitOpen, TunFile, NoFile, Calls
<1> QED BY <1>1, <1>2, <1>3 DEF Next

LEMMA LinkUsedStep ==
  TypeOK /\ CallOK /\ FileOK /\ AttachOK /\ LinkUsed /\ [Next]_vars => LinkUsed'
<1> SUFFICES ASSUME TypeOK, CallOK, FileOK, AttachOK, LinkUsed, [Next]_vars,
                    NEW n \in Names, links'[n].kind = "tun", ~links'[n].persist
             PROVE  \E m \in Fds : fdt'[m].link = n
  BY DEF LinkUsed
<1> USE DEF TypeOK
<1>n. n # NULL
  BY NullAssumption
<1>1. ASSUME links[n].kind = "tun", ~links[n].persist,
             \A m \in Fds : fdt'[m].link = fdt[m].link \/ fdt[m].link # n
      PROVE  \E m \in Fds : fdt'[m].link = n
  BY <1>1 DEF LinkUsed
<1>2. CASE UNCHANGED <<fdt, links>>
  BY <1>1, <1>2
<1>3. CASE Environment
  <2>1. ASSUME NEW m \in Fds, PacketIn(m) PROVE \E k \in Fds : fdt'[k].link = n
    BY <2>1, <1>1 DEF PacketIn, Files
  <2>2. ASSUME NEW m \in Fds, OtherClose(m) PROVE \E k \in Fds : fdt'[k].link = n
    BY <2>2, <1>1, <1>n DEF OtherClose, FileOK
  <2>3. ASSUME NEW k \in Names, LinkDelete(k) PROVE \E m \in Fds : fdt'[m].link = n
    <3>1. k # n /\ links[n] = links'[n]
      BY <2>3 DEF LinkDelete, NoLink
    <3>2. \A m \in Fds : fdt[m].link = n => fdt'[m] = fdt[m]
      BY <2>3, <3>1 DEF LinkDelete, Attached
    <3> QED BY <3>1, <3>2, <1>1
  <2>4. ASSUME NEW k \in Names, LinkAdd(k) PROVE \E m \in Fds : fdt'[m].link = n
    BY <2>4, <1>1 DEF LinkAdd, OtherLink, NoLink
  <2>5. ASSUME NEW k \in Names, NEW fl \in SUBSET Flags, LinkFlags(k, fl)
        PROVE  \E m \in Fds : fdt'[m].link = n
    BY <2>5, <1>1 DEF LinkFlags, WithFlags, Links
  <2>6. ASSUME NEW k \in Names, NEW a \in LinkLocal, Autoconf(k, a)
        PROVE  \E m \in Fds : fdt'[m].link = n
    BY <2>6, <1>1 DEF Autoconf, Links
  <2>7. CASE OtherOpen
    BY <2>7, <1>1, <1>n DEF OtherOpen, LowestFree, FileOK
  <2>8. ASSUME NEW k \in Names, NEW new \in Names, LinkRename(k, new)
        PROVE  \E m \in Fds : fdt'[m].link = n
    <3>1. n # k
      BY <2>8, RenameFacts DEF NoLink
    <3>2. CASE n = new
      <4>1. links[k].kind = "tun" /\ ~links[k].persist /\ k # NULL
        BY <2>8, <3>2, RenameFacts, NullAssumption
      <4>2. PICK m \in Fds : fdt[m].link = k /\ fdt[m].kind = "tun"
        BY <4>1 DEF LinkUsed, FileOK
      <4> QED BY <2>8, <3>2, <4>2, RenameFacts
    <3>3. CASE n # new
      <4>1. links'[n] = links[n]
        BY <2>8, <3>1, <3>3, RenameFacts
      <4>2. \A m \in Fds : fdt'[m].link = fdt[m].link \/ fdt[m].link # n
        BY <2>8, <3>1, RenameFacts
      <4> QED BY <4>1, <4>2, <1>1
    <3> QED BY <3>2, <3>3
  <2> QED BY <1>3, <2>1, <2>2, <2>3, <2>4, <2>5, <2>6, <2>7, <2>8 DEF Environment
<1>4. ASSUME NEW t \in Threads, Extension(t) PROVE \E m \in Fds : fdt'[m].link = n
  <2>1. CASE CloseStep(t)
    <3>1. PICK m \in Fds : CloseFile(m)
      BY <2>1, CloseStepFile
    <3>2. links'[n] = links[n]
      BY <3>1, CloseFileFacts DEF NoLink
    <3>3. PICK k \in Fds : fdt[k].link = n
      BY <3>2 DEF LinkUsed
    <3>4. CASE k # m
      BY <3>1, <3>3, <3>4, CloseFileFacts
    <3>5. CASE k = m
      <4>1. PICK j \in Fds \ {m} : fdt[j].link = n
        BY <3>1, <3>2, <3>3, <3>5, CloseFileFacts DEF NoLink
      <4> QED BY <3>1, <4>1, CloseFileFacts
    <3> QED BY <3>4, <3>5
  <2>2. CASE InitOpen(t)
    BY <2>2, <1>1, <1>n DEF InitOpen, LowestFree, FileOK
  <2>3. CASE ReadEnd(t)
    BY <2>3, <1>1 DEF ReadEnd, Files, CallOK
  <2>4. CASE FlagsSet(t)
    BY <2>4, <1>1 DEF FlagsSet, WithFlags, Links
  <2>5. CASE SetAddrEnd(t)
    BY <2>5, <1>1 DEF SetAddrEnd, Links
  <2>6. ASSUME NEW req \in Names \cup {NULL}, NEW mq \in MqModes, InitAttach(t, req, mq)
        PROVE  \E m \in Fds : fdt'[m].link = n
    <3>1. PICK k \in Names :
            /\ links' = IF links[k].kind = "none" THEN [links EXCEPT ![k] = TunLink(mq)] ELSE links
            /\ fdt' = [fdt EXCEPT ![call[t].fd].link = k, ![call[t].fd].on = TRUE]
      BY <2>6 DEF InitAttach
    <3>2. call[t].fd \in Fds /\ fdt[call[t].fd].link = NULL
      BY <2>6 DEF InitAttach, CallOK, AttachOK
    <3>3. /\ fdt'[call[t].fd].link = k
          /\ \A m \in Fds \ {call[t].fd} : fdt'[m] = fdt[m]
      BY <3>1, <3>2 DEF Files
    <3>4. CASE n = k
      BY <3>2, <3>3, <3>4
    <3>5. CASE n # k
      BY <3>1, <3>2, <3>3, <3>5, <1>1, <1>n
    <3> QED BY <3>4, <3>5
  <2>7. ASSUME NEW d \in Devices, NEW b \in BOOLEAN, Persist(t, d, b)
        PROVE  \E m \in Fds : fdt'[m].link = n
    <3>1. obj[d].fd \in Fds /\ fdt' = fdt
      BY <2>7, OpenFd DEF Persist
    <3>2. CASE fdt[obj[d].fd].link = n
      BY <3>1, <3>2
    <3>3. CASE fdt[obj[d].fd].link # n
      BY <2>7, <3>1, <3>3, <1>1 DEF Persist
    <3> QED BY <3>2, <3>3
  <2>8. ASSUME NEW d \in Devices, NEW b \in BOOLEAN, MqAttach(t, d, b)
        PROVE  \E m \in Fds : fdt'[m].link = n
    BY <2>8, <1>1, OpenFd DEF MqAttach, Files
  <2>9. ASSUME NEW d \in Devices, NEW v \in MtuArgs, SetMtu(t, d, v)
        PROVE  \E m \in Fds : fdt'[m].link = n
    BY <2>9, <1>1 DEF SetMtu, Links
  <2> QED
    BY <1>2, <1>4, <2>1, <2>2, <2>3, <2>4, <2>5, <2>6, <2>7, <2>8, <2>9, FileCases
<1> QED BY <1>2, <1>3, <1>4 DEF Next, vars

-----------------------------------------------------------------------------
(* Descriptor ownership, when close(2) reports no error *)

\* The descriptor an __init__ in progress has opened is nobody's yet.
FreshFd ==
  \A t \in Threads : call[t].at = "attach" =>
    \A d \in Devices : ensure_open(d) => obj[d].fd # call[t].fd

OwnInv == OwnDescriptor /\ IfnameTracksLink /\ FreshFd

\* What a step of the extension does to the objects.
LEMMA ObjCases ==
  ASSUME NEW t \in Threads, Extension(t)
  PROVE  \/ UNCHANGED obj
         \/ \E d \in Devices : InitBegin(t, d) \/ Close(t, d) \/ Dealloc(t, d)
         \/ \E req \in Names \cup {NULL}, mq \in MqModes : InitAttach(t, req, mq)
BY DEF Extension, CloseError, ReadBegin, FlagsGet, Persist, MqAttach, SetMtu, SetAddrBegin,
   InitError, InitOpen, InitAttachError, FlagsSet, SetAddrEnd, ReadEnd, ReadError

\* File m stays its owner's, and its interface is renamed by now, or gone, or has the
\* name it had.
KeepsName(m) ==
  /\ fdt'[m].kind = fdt[m].kind /\ fdt'[m].by = fdt[m].by
  /\ \/ fdt'[m].renamed \/ fdt'[m].link = NULL
     \/ fdt'[m].link = fdt[m].link /\ ~fdt[m].renamed

\* Objects that keep their number, and files that keep their owner, keep both
\* properties.
LEMMA OwnFrame ==
  ASSUME TypeOK, OwnDescriptor, IfnameTracksLink,
         \A d \in Devices : ensure_open(d)' =>
           /\ ensure_open(d) /\ obj'[d] = obj[d]
           /\ \/ fdt'[obj[d].fd] = fdt[obj[d].fd]
              \/ KeepsName(obj[d].fd)
  PROVE  OwnDescriptor' /\ IfnameTracksLink'
BY DEF OwnDescriptor, IfnameTracksLink, KeepsName

LEMMA OwnStep ==
  ASSUME ~CloseErrs
  PROVE  TypeOK /\ CallOK /\ OneHolder /\ FileOK /\ AttachOK /\ OwnInv /\ [Next]_vars
           => OwnDescriptor' /\ IfnameTracksLink'
<1> SUFFICES ASSUME TypeOK, CallOK, OneHolder, FileOK, AttachOK, OwnInv, [Next]_vars
             PROVE  OwnDescriptor' /\ IfnameTracksLink'
  OBVIOUS
<1> USE DEF TypeOK, OwnInv
<1>0. \A d \in Devices : ensure_open(d) =>
        /\ obj[d].fd \in Fds
        /\ fdt[obj[d].fd].kind = "tun" /\ fdt[obj[d].fd].by = d
  BY OpenFd DEF OwnDescriptor
<1>1. CASE UNCHANGED <<obj, fdt>>
  BY <1>1, OwnFrame DEF ensure_open
<1>2. CASE Environment
  <2>1. UNCHANGED obj
    BY <1>2, EnvironmentFrame
  <2>2. SUFFICES \A m \in Fds : fdt[m].kind = "tun" => fdt'[m] = fdt[m] \/ KeepsName(m)
    BY <1>0, <2>1, OwnFrame DEF ensure_open
  <2>3. ASSUME NEW k \in Fds, PacketIn(k)
        PROVE  \A m \in Fds : fdt'[m] = fdt[m] \/ KeepsName(m)
    BY <2>3 DEF PacketIn, Files, KeepsName
  <2>4. ASSUME NEW n \in Names, LinkDelete(n)
        PROVE  \A m \in Fds : fdt'[m] = fdt[m] \/ KeepsName(m)
    BY <2>4 DEF LinkDelete, Files, KeepsName
  <2>5. ASSUME NEW n \in Names, NEW new \in Names, LinkRename(n, new)
        PROVE  \A m \in Fds : fdt'[m] = fdt[m] \/ KeepsName(m)
    BY <2>5, RenameFacts DEF KeepsName
  <2> QED
    BY <1>2, <2>3, <2>4, <2>5 DEF Environment, OtherClose, LinkAdd, LinkFlags, Autoconf,
       OtherOpen, LowestFree
<1>3. ASSUME NEW t \in Threads, Extension(t) PROVE OwnDescriptor' /\ IfnameTracksLink'
  <2>1. ASSUME NEW d \in Devices, InitBegin(t, d) PROVE OwnDescriptor' /\ IfnameTracksLink'
    BY <2>1, OwnFrame DEF InitBegin, Fresh, ensure_open
  <2>2. ASSUME NEW d \in Devices, ensure_open(d), CloseFile(obj[d].fd),
               Close(t, d) \/ Dealloc(t, d)
        PROVE  OwnDescriptor' /\ IfnameTracksLink'
    <3>1. ~ensure_open(d)' /\ \A e \in Devices \ {d} : obj'[e] = obj[e]
      BY <2>2 DEF Close, Dealloc, ensure_open, Fresh, Objects
    <3>2. \A e \in Devices \ {d} : ensure_open(e) => obj[e].fd # obj[d].fd
      BY <1>0, <2>2
    <3>3. \A m \in Fds \ {obj[d].fd} : fdt'[m] = fdt[m]
      BY <2>2 DEF CloseFile
    <3> QED BY <1>0, <3>1, <3>2, <3>3, OwnFrame DEF ensure_open
  <2>3. ASSUME NEW d \in Devices, Dealloc(t, d), ~ensure_open(d)
        PROVE  OwnDescriptor' /\ IfnameTracksLink'
    BY <2>3, OwnFrame DEF Dealloc, Fresh, ensure_open
  <2>4. ASSUME NEW d \in Devices PROVE ~CloseError(t, d)
    BY <1>0 DEF CloseError
  <2>5. CASE InitAttachError(t)
    <3>1. \A d \in Devices : ensure_open(d) => fdt'[obj[d].fd] = fdt[obj[d].fd]
      BY <2>5, <1>0 DEF InitAttachError, CloseFile, FreshFd
    <3> QED BY <2>5, <3>1, OwnFrame DEF InitAttachError, ensure_open
  <2>6. CASE InitOpen(t)
    BY <2>6, <1>0, OwnFrame DEF InitOpen, LowestFree, ensure_open
  <2>7. CASE ReadEnd(t)
    <3>1. \A m \in Fds : fdt'[m] = fdt[m] \/ KeepsName(m)
      BY <2>7 DEF ReadEnd, CallOK, Files, KeepsName
    <3> QED BY <2>7, <1>0, <3>1, OwnFrame DEF ReadEnd, ensure_open
  <2>8. ASSUME NEW d \in Devices, NEW b \in BOOLEAN, MqAttach(t, d, b)
        PROVE  OwnDescriptor' /\ IfnameTracksLink'
    <3>1. \A m \in Fds : fdt'[m] = fdt[m] \/ KeepsName(m)
      BY <2>8, OpenFd DEF MqAttach, Files, KeepsName
    <3> QED BY <2>8, <1>0, <3>1, OwnFrame DEF MqAttach, ensure_open
  <2>9. ASSUME NEW req \in Names \cup {NULL}, NEW mq \in MqModes, InitAttach(t, req, mq)
        PROVE  OwnDescriptor' /\ IfnameTracksLink'
    <3>0. call[t].dev \in Devices /\ call[t].fd \in Fds /\ call[t].at = "attach"
      BY <2>9 DEF InitAttach, CallOK
    <3>1. PICK n \in Names :
            /\ fdt' = [fdt EXCEPT ![call[t].fd].link = n, ![call[t].fd].on = TRUE]
            /\ obj' = [obj EXCEPT ![call[t].dev] =
                         [fd |-> call[t].fd, is_closed |-> FALSE, ifname |-> n]]
      BY <2>9 DEF InitAttach
    <3>2. fdt[call[t].fd].kind = "tun" /\ fdt[call[t].fd].by = call[t].dev
      BY <3>0 DEF AttachOK
    <3>3. /\ fdt'[call[t].fd].kind = "tun" /\ fdt'[call[t].fd].by = call[t].dev
          /\ fdt'[call[t].fd].link = n
          /\ \A m \in Fds \ {call[t].fd} : fdt'[m] = fdt[m]
      BY <3>0, <3>1, <3>2 DEF Files
    <3>4. /\ obj'[call[t].dev].fd = call[t].fd /\ obj'[call[t].dev].ifname = n
          /\ \A e \in Devices \ {call[t].dev} : obj'[e] = obj[e]
      BY <3>0, <3>1
    <3>5. ASSUME NEW e \in Devices \ {call[t].dev}, ensure_open(e)'
          PROVE  ensure_open(e) /\ obj'[e] = obj[e] /\ fdt'[obj[e].fd] = fdt[obj[e].fd]
      BY <3>0, <3>3, <3>4, <3>5, <1>0 DEF FreshFd, ensure_open
    <3>6. ASSUME NEW e \in Devices, ensure_open(e)'
          PROVE  /\ fdt'[obj'[e].fd].kind = "tun" /\ fdt'[obj'[e].fd].by = e
                 /\ \/ fdt'[obj'[e].fd].renamed
                    \/ fdt'[obj'[e].fd].link \in {obj'[e].ifname, NULL}
      <4>1. CASE e = call[t].dev
        BY <4>1, <3>3, <3>4
      <4>2. CASE e # call[t].dev
        BY <4>2, <3>5, <3>6, <1>0 DEF IfnameTracksLink
      <4> QED BY <4>1, <4>2
    <3> QED BY <3>6 DEF OwnDescriptor, IfnameTracksLink
  <2>10. CASE CloseStep(t)
    BY <2>2, <2>4, <2>5, <2>10 DEF CloseStep
  <2>11. CASE FlagsSet(t) \/ SetAddrEnd(t)
    BY <2>11, <1>1 DEF FlagsSet, SetAddrEnd
  <2>12. ASSUME NEW d \in Devices,
                \/ \E b \in BOOLEAN : Persist(t, d, b)
                \/ \E v \in MtuArgs : SetMtu(t, d, v)
         PROVE  OwnDescriptor' /\ IfnameTracksLink'
    BY <2>12, <1>1 DEF Persist, SetMtu
  <2>13. ASSUME UNCHANGED fdt PROVE OwnDescriptor' /\ IfnameTracksLink'
    <3>1. ASSUME NEW d \in Devices, Close(t, d) \/ Dealloc(t, d)
          PROVE  OwnDescriptor' /\ IfnameTracksLink'
      BY <3>1, <2>2, <2>3 DEF Close, Dealloc
    <3> QED BY <1>3, <1>1, <2>1, <2>9, <2>13, <3>1, ObjCases
  <2> QED
    BY <1>3, <2>6, <2>7, <2>8, <2>9, <2>10, <2>11, <2>12, <2>13, FileCases
<1> QED BY <1>1, <1>2, <1>3 DEF Next, vars

LEMMA FreshFdStep ==
  TypeOK /\ CallOK /\ OneHolder /\ OwnInv /\ [Next]_vars => FreshFd'
<1> SUFFICES ASSUME TypeOK, CallOK, OneHolder, OwnInv, [Next]_vars,
                    NEW u \in Threads, call'[u].at = "attach",
                    NEW d \in Devices, ensure_open(d)'
             PROVE  obj'[d].fd # call'[u].fd
  BY DEF FreshFd
<1>1. CASE UNCHANGED <<obj, call>>
  BY <1>1 DEF OwnInv, FreshFd, ensure_open
<1>2. ASSUME NEW t \in Threads, Extension(t) PROVE obj'[d].fd # call'[u].fd
  <2>1. t = u /\ InitOpen(t)
    BY <1>2, AttachByOpen
  <2>2. fdt[call'[u].fd].kind = "free" /\ obj' = obj
    BY <2>1 DEF InitOpen, LowestFree, TypeOK, Calls
  <2> QED BY <2>2 DEF OwnInv, OwnDescriptor, ensure_open
<1> QED BY <1>1, <1>2, EnvironmentFrame DEF Next, vars

-----------------------------------------------------------------------------
(* No leak, when __init__ is not called on an open object *)

Pending(t) == call[t].at \in {"init", "attach"}

\* One __init__ at a time is in progress on an object, and it is not open then.
OneInit == \A t, u \in Threads :
             Pending(t) /\ Pending(u) /\ call[t].dev = call[u].dev => t = u

PendingClosed == \A t \in Threads : Pending(t) => ~ensure_open(call[t].dev)

OrphanInv == NoOrphan /\ OneInit /\ PendingClosed

LEMMA PendingCases ==
  ASSUME TypeOK, NEW t \in Threads, Extension(t), NEW u \in Threads, Pending(u)'
  PROVE  \/ Pending(u) /\ call'[u].dev = call[u].dev
         \/ t = u /\ \E d \in Devices : InitBegin(t, d)
<1> USE DEF TypeOK, Pending
<1>1. CASE t # u
  BY <1>1, ExtensionFrame
<1>2. CASE t = u /\ (UNCHANGED call \/ call' = [call EXCEPT ![t] = Idle])
  BY <1>2 DEF Idle
<1>3. CASE t = u /\ InitOpen(t)
  BY <1>3 DEF InitOpen, Calls
<1>4. ASSUME t = u, NEW d \in Devices PROVE ~ReadBegin(t, d)
  BY <1>4 DEF ReadBegin, Idle
<1>5. ASSUME t = u, NEW d \in Devices, NEW b \in BOOLEAN PROVE ~FlagsGet(t, d, b)
  BY <1>5 DEF FlagsGet, Idle
<1>6. ASSUME t = u, NEW d \in Devices, NEW a \in Addrs PROVE ~SetAddrBegin(t, d, a)
  BY <1>6 DEF SetAddrBegin, Idle
<1> QED BY <1>1, <1>2, <1>3, <1>4, <1>5, <1>6, CallCases

LEMMA OneInitStep ==
  ASSUME ~ReinitOpen
  PROVE  TypeOK /\ CallOK /\ OneHolder /\ OneInit /\ [Next]_vars => OneInit'
<1> SUFFICES ASSUME TypeOK, CallOK, OneHolder, OneInit, [Next]_vars PROVE OneInit'
  OBVIOUS
<1>1. CASE UNCHANGED call
  BY <1>1 DEF OneInit, Pending
<1>2. ASSUME NEW t \in Threads, Extension(t) PROVE OneInit'
  <2>1. CASE \A u \in Threads : Pending(u)' => Pending(u) /\ call'[u].dev = call[u].dev
    BY <2>1 DEF OneInit
  <2>2. ASSUME NEW d \in Devices, InitBegin(t, d) PROVE OneInit'
    <3>1. \A u \in Threads : ~(Pending(u) /\ call[u].dev = d)
      BY <2>2 DEF InitBegin, Runs, HoldsGil, Pending
    <3>2. call'[t].dev = d /\ \A u \in Threads \ {t} : call'[u] = call[u]
      BY <2>2 DEF InitBegin, TypeOK, Idle
    <3> QED BY <3>1, <3>2 DEF OneInit, Pending
  <2> QED BY <1>2, <2>1, <2>2, PendingCases
<1> QED BY <1>1, <1>2, EnvironmentFrame DEF Next, vars

LEMMA PendingClosedStep ==
  TypeOK /\ CallOK /\ OneInit /\ PendingClosed /\ [Next]_vars => PendingClosed'
<1> SUFFICES ASSUME TypeOK, CallOK, OneInit, PendingClosed, [Next]_vars,
                    NEW u \in Threads, Pending(u)'
             PROVE  ~ensure_open(call[u].dev)'
  BY DEF PendingClosed
<1> USE DEF TypeOK
<1>1. CASE UNCHANGED <<obj, call>>
  BY <1>1 DEF PendingClosed, Pending, ensure_open
<1>2. ASSUME NEW t \in Threads, Extension(t) PROVE ~ensure_open(call[u].dev)'
  <2>1. ASSUME NEW d \in Devices, InitBegin(t, d), t = u PROVE ~ensure_open(call[u].dev)'
    <3>1. call'[u].dev = d /\ obj'[d] = Fresh
      BY <2>1 DEF InitBegin, Idle
    <3> QED BY <3>1 DEF ensure_open, Fresh
  <2>2. ASSUME Pending(u), call'[u].dev = call[u].dev PROVE ~ensure_open(call[u].dev)'
    <3>1. call[u].dev \in Devices /\ ~ensure_open(call[u].dev)
      BY <2>2 DEF PendingClosed, CallOK, Pending
    <3>2. CASE UNCHANGED obj
      BY <2>2, <3>1, <3>2 DEF ensure_open
    <3>3. ASSUME NEW d \in Devices, InitBegin(t, d) \/ Close(t, d) \/ Dealloc(t, d)
          PROVE  ~ensure_open(call[u].dev)'
      BY <2>2, <3>1, <3>3 DEF InitBegin, Close, Dealloc, ensure_open, Fresh, Objects
    <3>4. ASSUME NEW req \in Names \cup {NULL}, NEW mq \in MqModes, InitAttach(t, req, mq)
          PROVE  ~ensure_open(call[u].dev)'
      <4>1. Pending(t) /\ ~Pending(t)'
        BY <3>4 DEF InitAttach, Pending, Idle
      <4>2. call[t].dev # call[u].dev
        BY <2>2, <4>1 DEF OneInit
      <4>3. obj'[call[u].dev] = obj[call[u].dev]
        BY <3>1, <3>4, <4>2 DEF InitAttach
      <4> QED BY <2>2, <3>1, <4>3 DEF ensure_open
    <3> QED BY <1>2, <3>2, <3>3, <3>4, ObjCases
  <2> QED BY <1>2, <2>1, <2>2, PendingCases
<1> QED BY <1>1, <1>2, EnvironmentFrame DEF Next, vars

\* The two ways in which file m is accounted for.
Mine(m)   == \E d \in Devices : ensure_open(d) /\ obj[d].fd = m /\ fdt[m].by = d
Coming(m) == \E t \in Threads : call[t].at = "attach" /\ call[t].fd = m

LEMMA NoOrphanStep ==
  ASSUME ~ReinitOpen
  PROVE  TypeOK /\ CallOK /\ OneHolder /\ AttachOK /\ OrphanInv /\ [Next]_vars => NoOrphan'
<1> SUFFICES ASSUME TypeOK, CallOK, OneHolder, AttachOK, OrphanInv, [Next]_vars,
                    NEW m \in Fds, fdt'[m].kind = "tun"
             PROVE  Mine(m)' \/ Coming(m)'
  BY DEF NoOrphan, Mine, Coming
<1> USE DEF TypeOK, OrphanInv
<1>0. fdt[m].kind = "tun" => Mine(m) \/ Coming(m)
  BY DEF NoOrphan, Mine, Coming
<1>1. ASSUME UNCHANGED <<obj, call>>, fdt[m].kind = "tun", fdt'[m].by = fdt[m].by
      PROVE  Mine(m)' \/ Coming(m)'
  BY <1>0, <1>1 DEF Mine, Coming, ensure_open
<1>2. CASE UNCHANGED vars
  BY <1>1, <1>2 DEF vars
<1>3. CASE Environment
  <2>1. UNCHANGED <<obj, call>>
    BY <1>3, EnvironmentFrame
  <2>2. ASSUME NEW k \in Fds, PacketIn(k) \/ OtherClose(k)
        PROVE  fdt[m].kind = "tun" /\ fdt'[m].by = fdt[m].by
    BY <2>2 DEF PacketIn, OtherClose, Files, NoFile
  <2>3. ASSUME NEW n \in Names, LinkDelete(n)
        PROVE  fdt[m].kind = "tun" /\ fdt'[m].by = fdt[m].by
    BY <2>3 DEF LinkDelete, Files
  <2>4. CASE OtherOpen
    BY <1>1, <2>1, <2>4 DEF OtherOpen, OtherFile, NoFile
  <2>5. ASSUME NEW n \in Names, NEW new \in Names, LinkRename(n, new)
        PROVE  fdt[m].kind = "tun" /\ fdt'[m].by = fdt[m].by
    BY <2>5, RenameFacts
  <2> QED
    BY <1>1, <1>3, <2>1, <2>2, <2>3, <2>4, <2>5 DEF Environment, LinkAdd, LinkFlags, Autoconf
<1>4. ASSUME NEW t \in Threads, Extension(t) PROVE Mine(m)' \/ Coming(m)'
  <2>1. ASSUME NEW d \in Devices, InitBegin(t, d) PROVE Mine(m)' \/ Coming(m)'
    <3>1. ~ensure_open(d) /\ ~Coming(m) /\ fdt' = fdt
      BY <2>1 DEF InitBegin, Runs, HoldsGil, Coming
    <3>2. PICK e \in Devices : ensure_open(e) /\ obj[e].fd = m /\ fdt[m].by = e
      BY <1>0, <3>1 DEF Mine
    <3>3. obj'[e] = obj[e]
      BY <2>1, <3>1, <3>2 DEF InitBegin
    <3> QED BY <3>1, <3>2, <3>3 DEF Mine, ensure_open
  <2>2. ASSUME NEW d \in Devices, ensure_open(d), CloseFile(obj[d].fd),
               Close(t, d) \/ Dealloc(t, d)
        PROVE  Mine(m)' \/ Coming(m)'
    <3>1. ~Coming(m)
      BY <2>2 DEF Close, Dealloc, Runs, HoldsGil, Coming
    <3>2. m # obj[d].fd /\ fdt'[m] = fdt[m]
      BY <2>2 DEF CloseFile, NoFile
    <3>3. PICK e \in Devices : ensure_open(e) /\ obj[e].fd = m /\ fdt[m].by = e
      BY <1>0, <3>1, <3>2 DEF Mine
    <3>4. obj'[e] = obj[e]
      BY <2>2, <3>2, <3>3 DEF Close, Dealloc
    <3> QED BY <3>2, <3>3, <3>4 DEF Mine, ensure_open
  <2>3. ASSUME NEW d \in Devices, Dealloc(t, d), ~ensure_open(d) PROVE Mine(m)' \/ Coming(m)'
    <3>1. ~Coming(m) /\ fdt' = fdt
      BY <2>3 DEF Dealloc, Runs, HoldsGil, Coming
    <3>2. PICK e \in Devices : ensure_open(e) /\ obj[e].fd = m /\ fdt[m].by = e
      BY <1>0, <3>1 DEF Mine
    <3>3. obj'[e] = obj[e]
      BY <2>3, <3>2 DEF Dealloc
    <3> QED BY <3>1, <3>2, <3>3 DEF Mine, ensure_open
  <2>4. ASSUME NEW d \in Devices, ensure_open(d), CloseError(t, d) PROVE Mine(m)' \/ Coming(m)'
    BY <2>4, <1>1 DEF CloseError, CloseFile, NoFile
  <2>5. CASE InitAttachError(t)
    <3>1. m # call[t].fd /\ fdt'[m] = fdt[m] /\ obj' = obj
      BY <2>5 DEF InitAttachError, CloseFile, NoFile, CallOK
    <3>2. ~Coming(m)
      BY <2>5, <3>1 DEF InitAttachError, Coming, OneHolder, HoldsGil
    <3> QED BY <1>0, <3>1, <3>2 DEF Mine, ensure_open
  <2>6. CASE InitOpen(t)
    <3>1. PICK k \in Fds : fdt' = [fdt EXCEPT ![k] = TunFile(call[t].dev)]
                           /\ call' = [call EXCEPT ![t].at = "attach", ![t].fd = k]
      BY <2>6 DEF InitOpen
    <3>2. CASE k = m
      BY <3>1, <3>2 DEF Coming, Calls
    <3>3. CASE k # m
      <4>1. ~Coming(m) /\ obj' = obj /\ fdt'[m] = fdt[m]
        BY <2>6, <3>1, <3>3 DEF InitOpen, HoldsGil, Coming
      <4> QED BY <1>0, <4>1 DEF Mine, ensure_open
    <3> QED BY <3>2, <3>3
  <2>7. ASSUME NEW req \in Names \cup {NULL}, NEW mq \in MqModes, InitAttach(t, req, mq)
        PROVE  Mine(m)' \/ Coming(m)'
    <3>0. call[t].dev \in Devices /\ call[t].fd \in Fds /\ call[t].at = "attach"
      BY <2>7 DEF InitAttach, CallOK
    <3>1. PICK n \in Names :
            /\ fdt' = [fdt EXCEPT ![call[t].fd].link = n, ![call[t].fd].on = TRUE]
            /\ obj' = [obj EXCEPT ![call[t].dev] =
                         [fd |-> call[t].fd, is_closed |-> FALSE, ifname |-> n]]
      BY <2>7 DEF InitAttach
    <3>2. CASE m = call[t].fd
      <4>1. obj'[call[t].dev] = [fd |-> call[t].fd, is_closed |-> FALSE, ifname |-> n]
        BY <3>0, <3>1
      <4>2. fdt'[m].by = call[t].dev
        BY <3>0, <3>1, <3>2 DEF AttachOK, Files
      <4>3. call[t].fd # NoFd
        BY <3>0, FdsAssumption
      <4> QED BY <3>0, <3>2, <4>1, <4>2, <4>3 DEF Mine, ensure_open
    <3>3. CASE m # call[t].fd
      <4>1. ~Coming(m) /\ fdt'[m] = fdt[m]
        BY <3>0, <3>1, <3>3 DEF Coming, OneHolder, HoldsGil
      <4>2. PICK e \in Devices : ensure_open(e) /\ obj[e].fd = m /\ fdt[m].by = e
        BY <1>0, <4>1 DEF Mine
      <4>3. e # call[t].dev
        BY <3>0, <4>2 DEF PendingClosed, Pending
      <4> QED BY <3>1, <4>1, <4>2, <4>3 DEF Mine, ensure_open
    <3> QED BY <3>2, <3>3
  <2>8. CASE /\ UNCHANGED obj /\ fdt[m].kind = "tun" /\ fdt'[m].by = fdt[m].by
             /\ \A u \in Threads : call[u].at = "attach" => call'[u] = call[u]
    BY <2>8, <1>0 DEF Mine, Coming, ensure_open
  <2>9. ASSUME ~InitOpen(t), ~InitAttachError(t),
               \A req \in Names \cup {NULL}, mq \in MqModes : ~InitAttach(t, req, mq),
               NEW u \in Threads, call[u].at = "attach"
        PROVE  FALSE
    <3>1. HoldsGil(u)
      BY <2>9 DEF HoldsGil
    <3>2. t = u
      BY <1>4, <3>1, GilBlocks
    <3> QED
      BY <1>4, <2>9, <3>1, <3>2 DEF Extension, InitBegin, Close, CloseError, Dealloc, ReadBegin,
         FlagsGet, Persist, MqAttach, SetMtu, SetAddrBegin, InitError, FlagsSet, SetAddrEnd,
         ReadEnd, ReadError, Runs
  <2>10. CASE ReadEnd(t)
    <3>1. fdt[m].kind = "tun" /\ fdt'[m].by = fdt[m].by /\ obj' = obj
      BY <2>10 DEF ReadEnd, CallOK, Files
    <3> QED BY <2>5, <2>6, <2>7, <2>8, <2>9, <3>1
  <2>11. ASSUME NEW d \in Devices, NEW b \in BOOLEAN, MqAttach(t, d, b)
         PROVE  Mine(m)' \/ Coming(m)'
    <3>1. fdt[m].kind = "tun" /\ fdt'[m].by = fdt[m].by /\ obj' = obj
      BY <2>11, OpenFd DEF MqAttach, Files
    <3> QED BY <2>5, <2>6, <2>7, <2>8, <2>9, <3>1
  <2>12. CASE UNCHANGED <<obj, fdt>>
    BY <2>5, <2>6, <2>7, <2>8, <2>9, <2>12
  <2>13. CASE CloseStep(t)
    BY <2>2, <2>4, <2>5, <2>13 DEF CloseStep
  <2>14. CASE FlagsSet(t) \/ SetAddrEnd(t)
    BY <2>12, <2>14 DEF FlagsSet, SetAddrEnd
  <2>15. ASSUME NEW d \in Devices,
                \/ \E b \in BOOLEAN : Persist(t, d, b)
                \/ \E v \in MtuArgs : SetMtu(t, d, v)
         PROVE  Mine(m)' \/ Coming(m)'
    BY <2>12, <2>15 DEF Persist, SetMtu
  <2>16. CASE UNCHANGED fdt
    <3>1. ASSUME NEW d \in Devices, Close(t, d) \/ Dealloc(t, d) PROVE Mine(m)' \/ Coming(m)'
      BY <3>1, <2>2, <2>3 DEF Close, Dealloc
    <3> QED BY <1>4, <2>1, <2>7, <2>12, <2>16, <3>1, ObjCases
  <2> QED
    BY <1>4, <2>6, <2>7, <2>10, <2>11, <2>13, <2>14, <2>15, <2>16, FileCases
<1> QED BY <1>2, <1>3, <1>4 DEF Next

-----------------------------------------------------------------------------
(* The theorems *)

\* What every instance keeps.
CoreInv == TypeOK /\ CallOK /\ OneHolder /\ ReaderKeepsDevice
           /\ FileOK /\ AttachOK /\ LinkUsed

\* It holds at the start and every step keeps it.
LEMMA InitCore == Init => CoreInv
<1> SUFFICES ASSUME Init PROVE CoreInv
  OBVIOUS
<1>1. TypeOK
  BY Values DEF Init, TypeOK
<1>2. CallOK /\ OneHolder /\ ReaderKeepsDevice /\ AttachOK
  BY DEF Init, CallOK, OneHolder, ReaderKeepsDevice, AttachOK, HoldsGil, Idle
<1>3. FileOK /\ LinkUsed
  BY DEF Init, FileOK, LinkUsed, NoFile, NoLink
<1> QED BY <1>1, <1>2, <1>3 DEF CoreInv

LEMMA CoreStep == CoreInv /\ [Next]_vars => CoreInv'
BY TypeStep, CallStep, OneHolderStep, ReaderStep, FileStep, AttachStep, LinkUsedStep
   DEF CoreInv

\* The strengthening the other theorems rest on.
THEOREM CoreInvariant == Spec => []CoreInv
BY InitCore, CoreStep, PTL DEF Spec

\* Every reachable state has the types of TypeOK.
THEOREM TypeCorrect == Spec => []TypeOK
<1>1. CoreInv => TypeOK
  BY DEF CoreInv
<1> QED BY <1>1, CoreInvariant, PTL

\* No interleaving of threads closes or resets an object under a thread blocked
\* in read(), whatever the program calls and whatever close(2) reports.
THEOREM ReaderSafe == Spec => []ReaderKeepsDevice
<1>1. CoreInv => ReaderKeepsDevice
  BY DEF CoreInv
<1> QED BY <1>1, CoreInvariant, PTL

\* Unless close(2) reports errors, an open object's number is that of the file
\* it opened, and the name it configures by is that of the file's interface until
\* another program deletes or renames it, even if the program calls __init__ on
\* open objects.
THEOREM DescriptorSafe ==
  ASSUME ~CloseErrs
  PROVE  Spec => [](OwnDescriptor /\ IfnameTracksLink)
<1>1. Init => OwnInv
  BY DEF Init, OwnInv, OwnDescriptor, IfnameTracksLink, FreshFd, ensure_open, Fresh, Idle
<1>2. CoreInv /\ OwnInv /\ [Next]_vars => OwnInv'
  BY OwnStep, FreshFdStep DEF CoreInv, OwnInv
<1>3. OwnInv => OwnDescriptor /\ IfnameTracksLink
  BY DEF OwnInv
<1> QED BY <1>1, <1>2, <1>3, CoreInvariant, PTL DEF Spec

\* Unless the program calls __init__ on open objects, no descriptor is leaked and
\* no interface outlives its objects without persist, even if close(2) reports
\* errors.
THEOREM NoLeak ==
  ASSUME ~ReinitOpen
  PROVE  Spec => [](NoOrphan /\ LinkHeld)
<1>1. Init => OrphanInv
  BY DEF Init, OrphanInv, NoOrphan, OneInit, PendingClosed, Pending, Idle, NoFile
<1>2. CoreInv /\ OrphanInv /\ [Next]_vars => OrphanInv'
  BY NoOrphanStep, OneInitStep, PendingClosedStep DEF CoreInv, OrphanInv
<1>3. CoreInv /\ OrphanInv => NoOrphan /\ LinkHeld
  <2> SUFFICES ASSUME CoreInv, OrphanInv, NEW n \in Names,
                      links[n].kind = "tun", ~links[n].persist
               PROVE  \E d \in Devices : ensure_open(d) /\ fdt[obj[d].fd].link = n
    BY DEF OrphanInv, LinkHeld
  <2>1. PICK m \in Fds : fdt[m].link = n
    BY DEF CoreInv, LinkUsed
  <2>2. fdt[m].kind = "tun"
    BY <2>1, NullAssumption DEF CoreInv, FileOK
  <2>3. ~\E t \in Threads : call[t].at = "attach" /\ call[t].fd = m
    BY <2>1, NullAssumption DEF CoreInv, AttachOK
  <2> QED BY <2>1, <2>2, <2>3 DEF OrphanInv, NoOrphan
<1> QED BY <1>1, <1>2, <1>3, CoreInvariant, PTL DEF Spec

\* Unless close(2) reports errors, the interface an object configures by name is
\* the one its data go through, until another program deletes or renames it: calls
\* of the extension, in any order and on any object, never part the two.
THEOREM NameSafe ==
  ASSUME ~CloseErrs
  PROVE  Spec => []IfnameTracksLink
BY DescriptorSafe, PTL

\* Unless the program calls __init__ on open objects, every interface of the
\* driver that persist does not keep has an open object.
THEOREM InterfaceSafe ==
  ASSUME ~ReinitOpen
  PROVE  Spec => []LinkHeld
BY NoLeak, PTL

-----------------------------------------------------------------------------
(* Settings go to the object's own interface *)

LEMMA NewFiles == /\ NoFile.link = NULL /\ OtherFile.link = NULL
                  /\ \A d : TunFile(d).link = NULL
BY DEF NoFile, OtherFile, TunFile

\* File m is attached to what it was, or to nothing, or its interface was renamed.
SameLink(m) == fdt'[m].link # NULL /\ ~fdt'[m].renamed =>
                 /\ fdt'[m].link = fdt[m].link /\ fdt'[m].by = fdt[m].by
                 /\ ~fdt[m].renamed

\* A file's object and interface change only when __init__ attaches it, or the file is
\* closed or its interface deleted or renamed.
LEMMA LinkFrame ==
  ASSUME CoreInv, [Next]_vars,
         \A t \in Threads, req \in Names \cup {NULL}, mq \in MqModes : ~InitAttach(t, req, mq)
  PROVE  \A m \in Fds : SameLink(m)
<1> DEFINE Goal == \A m \in Fds : SameLink(m)
<1> SUFFICES Goal
  OBVIOUS
<1> USE DEF CoreInv, TypeOK, SameLink
<1>1. CASE UNCHANGED fdt
  BY <1>1
<1>2. ASSUME NEW m \in Fds, PacketIn(m) PROVE Goal
  BY <1>2 DEF PacketIn, Files
<1>3. ASSUME NEW m \in Fds, OtherClose(m) PROVE Goal
  BY <1>3, NewFiles DEF OtherClose
<1>4. ASSUME NEW n \in Names, LinkDelete(n) PROVE Goal
  BY <1>4 DEF LinkDelete, Files
<1>5. CASE OtherOpen
  BY <1>5, NewFiles DEF OtherOpen
<1>6. ASSUME NEW t \in Threads, CloseStep(t) PROVE Goal
  BY <1>6, CloseStepFile, NewFiles DEF CloseFile
<1>7. ASSUME NEW t \in Threads, InitOpen(t) PROVE Goal
  BY <1>7, NewFiles DEF InitOpen
<1>8. ASSUME NEW t \in Threads, ReadEnd(t) PROVE Goal
  BY <1>8 DEF ReadEnd, Files, CallOK
<1>9. ASSUME NEW t \in Threads, NEW d \in Devices, NEW b \in BOOLEAN, MqAttach(t, d, b) PROVE Goal
  BY <1>9, OpenFd DEF MqAttach, Files
<1>10. Environment => UNCHANGED fdt \/ OtherOpen
                        \/ (\E m \in Fds : PacketIn(m) \/ OtherClose(m))
                        \/ (\E n \in Names : LinkDelete(n))
                        \/ \E n, new \in Names : LinkRename(n, new)
  BY DEF Environment, LinkAdd, LinkFlags, Autoconf
<1>11. ASSUME NEW t \in Threads, Extension(t)
       PROVE  \/ UNCHANGED fdt \/ CloseStep(t) \/ InitOpen(t) \/ ReadEnd(t)
              \/ \E d \in Devices, b \in BOOLEAN : MqAttach(t, d, b)
  BY <1>11, FileCases DEF FlagsSet, SetAddrEnd, Persist, SetMtu
<1>12. ASSUME NEW n \in Names, NEW new \in Names, LinkRename(n, new) PROVE Goal
  BY <1>12, RenameFacts
<1> HIDE DEF Goal
<1> QED BY <1>1, <1>2, <1>3, <1>4, <1>5, <1>6, <1>7, <1>8, <1>9, <1>10, <1>11, <1>12
           DEF Next, vars, Goal

\* An open object with a file of its own has its interface's name, unless this was deleted
\* or renamed: true whatever close(2) reports and however often __init__ is called.
OwnNamed ==
  \A d \in Devices : /\ ensure_open(d) /\ fdt[obj[d].fd].by = d
                    /\ fdt[obj[d].fd].link # NULL /\ ~fdt[obj[d].fd].renamed
                    => fdt[obj[d].fd].link = obj[d].ifname

LEMMA OwnNamedStep == CoreInv /\ OwnNamed /\ [Next]_vars => OwnNamed'
<1> SUFFICES ASSUME CoreInv, OwnNamed, [Next]_vars PROVE OwnNamed'
  OBVIOUS
<1> USE DEF CoreInv
<1>1. ASSUME NEW t \in Threads, NEW req \in Names \cup {NULL}, NEW mq \in MqModes,
             InitAttach(t, req, mq)
      PROVE  OwnNamed'
  <2>1. PICK n \in Names :
          /\ fdt' = [fdt EXCEPT ![call[t].fd].link = n, ![call[t].fd].on = TRUE]
          /\ obj' = [obj EXCEPT ![call[t].dev] =
                       [fd |-> call[t].fd, is_closed |-> FALSE, ifname |-> n]]
    BY <1>1 DEF InitAttach
  <2>2. call[t].dev \in Devices /\ call[t].fd \in Fds /\ fdt[call[t].fd].by = call[t].dev
    BY <1>1 DEF InitAttach, CallOK, AttachOK
  <2>3. /\ fdt'[call[t].fd].by = call[t].dev /\ fdt'[call[t].fd].link = n
        /\ \A m \in Fds : m # call[t].fd => fdt'[m] = fdt[m]
    BY <2>1, <2>2 DEF TypeOK, Files
  <2>4. /\ obj'[call[t].dev].fd = call[t].fd /\ obj'[call[t].dev].ifname = n
        /\ \A e \in Devices : e # call[t].dev => obj'[e] = obj[e]
    BY <2>1, <2>2 DEF TypeOK
  <2> QED BY <2>2, <2>3, <2>4, OpenFd DEF OwnNamed, ensure_open
<1>2. ASSUME \A t \in Threads, req \in Names \cup {NULL}, mq \in MqModes : ~InitAttach(t, req, mq)
      PROVE  OwnNamed'
  <2>1. \A d \in Devices : ensure_open(d)' => obj'[d] = obj[d]
    <3>1. ASSUME NEW t \in Threads, NEW d \in Devices, InitBegin(t, d) \/ Close(t, d) \/ Dealloc(t, d)
          PROVE  \A e \in Devices : ensure_open(e)' => obj'[e] = obj[e]
      <4>1. obj'[d].is_closed /\ \A e \in Devices : e # d => obj'[e] = obj[e]
        BY <3>1 DEF InitBegin, Close, Dealloc, Fresh, TypeOK, Objects
      <4> QED BY <4>1 DEF ensure_open
    <3> QED BY <1>2, <3>1, ObjCases, EnvironmentFrame DEF Next, vars
  <2>2. \A m \in Fds : SameLink(m)
    BY <1>2, LinkFrame
  <2> QED BY <2>1, <2>2, OpenFd DEF OwnNamed, ensure_open, SameLink
<1> QED BY <1>1, <1>2

\* up(), down(), addr and mtu of an object with a file of its own change the interface of this
\* file and no other as long as no other program deletes or renames it, with errors of close(2),
\* calls of __init__ on open objects and deletions and renamings of others at any time before.
THEOREM SettingsHitOwnLink == Spec => ConfigHitsOwnLink
<1> DEFINE A == links' # links =>
             \A t \in Threads, d \in Devices :
               /\ Held(d) # NULL /\ fdt[obj[d].fd].by = d /\ ~fdt[obj[d].fd].renamed
               /\ \/ (FlagsSet(t) \/ SetAddrEnd(t)) /\ call[t].dev = d
                  \/ \E v \in MtuArgs : SetMtu(t, d, v)
               => \A n \in Names : links'[n] # links[n] => n = Held(d)
<1>1. Init => OwnNamed
  BY DEF Init, OwnNamed, Fresh, ensure_open
<1>2. ASSUME CoreInv, OwnNamed, NEW t \in Threads, NEW d \in Devices,
             Held(d) # NULL, fdt[obj[d].fd].by = d, ~fdt[obj[d].fd].renamed,
             \/ (FlagsSet(t) \/ SetAddrEnd(t)) /\ call[t].dev = d
             \/ \E v \in MtuArgs : SetMtu(t, d, v),
             NEW n \in Names, links'[n] # links[n]
      PROVE  n = Held(d)
  <2>1. Held(d) = obj[d].ifname
    BY <1>2 DEF Held, OwnNamed
  <2>2. n = obj[d].ifname
    BY <1>2 DEF FlagsSet, SetAddrEnd, SetMtu, CoreInv, TypeOK
  <2> QED BY <2>1, <2>2
<1>3. CoreInv /\ OwnNamed => A
  BY <1>2
<1>4. CoreInv /\ OwnNamed /\ [Next]_vars => [A]_vars
  BY <1>3
<1> QED BY <1>1, <1>4, OwnNamedStep, CoreInvariant, PTL DEF Spec, ConfigHitsOwnLink

\* A global address at the head of a list is the one the getter takes.
LEMMA HeadIsTaken ==
  ASSUME NEW list \in Seq(Addrs), 1 \in DOMAIN list, list[1] \notin LinkLocal
  PROVE  FirstGlobal(list) = list[1]
<1> DEFINE global == {i \in DOMAIN list : ~is_link_local_v6(list[i])}
           first == CHOOSE i \in global : \A j \in global : i <= j
<1>1. 1 \in global /\ \A j \in global : j \in Int /\ 1 <= j
  BY DEF is_link_local_v6
<1> HIDE DEF global
<1>2. first \in global /\ \A j \in global : first <= j
  BY <1>1
<1> HIDE DEF first
<1>3. first = 1
  BY <1>1, <1>2
<1>4. FirstGlobal(list) = IF global # {} THEN list[first]
                          ELSE IF list # <<>> THEN Head(list) ELSE NULL
  BY DEF FirstGlobal, first, global
<1> QED BY <1>1, <1>3, <1>4

\* Concatenation keeps the head.
LEMMA HeadStays ==
  ASSUME NEW S, NEW s \in Seq(S), NEW t \in Seq(S), 1 \in DOMAIN s
  PROVE  s \o t \in Seq(S) /\ 1 \in DOMAIN (s \o t) /\ (s \o t)[1] = s[1]
<1> DEFINE c == s \o t
<1>1. Len(s) \in Nat /\ Len(t) \in Nat /\ Len(s) >= 1
  OBVIOUS
<1>2. /\ c \in Seq(S) /\ Len(c) = Len(s) + Len(t)
      /\ \A i \in 1 .. Len(s) + Len(t) : c[i] = IF i <= Len(s) THEN s[i] ELSE t[i - Len(s)]
  BY ConcatProperties
<1> HIDE DEF c
<1>3. 1 \in 1 .. Len(s) + Len(t)
  BY <1>1
<1>4. c[1] = s[1] /\ DOMAIN c = 1 .. Len(s) + Len(t)
  BY <1>1, <1>2, <1>3
<1> QED BY <1>2, <1>3, <1>4 DEF c

\* What `ip addr replace` adds is listed first.
LEMMA AddedIsFirst ==
  ASSUME NEW as \in [global : Seq(Addrs), local : Seq(Addrs)], NEW a \in Addrs, a \notin LinkLocal,
         ~HasAddr(as, a)
  PROVE  FirstGlobal(WithAddr(as, a).global \o WithAddr(as, a).local) = a
<1> DEFINE g == <<a>> \o as.global
           l == as.local
           list == g \o l
<1>1. as.global \in Seq(Addrs) /\ l \in Seq(Addrs)
  OBVIOUS
<1>2. g \in Seq(Addrs) /\ 1 \in DOMAIN g /\ g[1] = a
  <2>1. <<a>> \in Seq(Addrs) /\ 1 \in DOMAIN <<a>> /\ <<a>>[1] = a
    OBVIOUS
  <2> QED BY <1>1, <2>1, HeadStays
<1> HIDE DEF g, l
<1>3. list \in Seq(Addrs) /\ 1 \in DOMAIN list /\ list[1] = a
  BY <1>1, <1>2, HeadStays
<1>4. WithAddr(as, a).global = g /\ WithAddr(as, a).local = l
  BY DEF WithAddr, g, l
<1> HIDE DEF list
<1>5. FirstGlobal(list) = a
  BY <1>3, HeadIsTaken
<1> QED BY <1>4, <1>5 DEF list

\* A global address that was not on the interface is what the getter returns after the
\* setter, for any addresses the interface had.
THEOREM NewAddrIsRead == Spec => NewAddrReadsBack
<1> DEFINE A == \A t \in Threads, d \in Devices :
                  /\ AddrSet(t) /\ call[t].dev = d
                  /\ ~HasAddr(links[obj[d].ifname].addrs, call[t].addr)
                  => get_addr(d)' = call[t].addr
<1>1. ASSUME CoreInv, NEW t \in Threads, NEW d \in Devices, AddrSet(t), call[t].dev = d,
             ~HasAddr(links[obj[d].ifname].addrs, call[t].addr)
      PROVE  get_addr(d)' = call[t].addr
  <2> DEFINE n == obj[d].ifname
             as == links[n].addrs
             a == call[t].addr
  <2>1. n \in Names /\ Exists(n) /\ links[n] \in Links
    BY <1>1 DEF AddrSet, Exists, CoreInv, TypeOK, Objects
  <2>2. as \in [global : Seq(Addrs), local : Seq(Addrs)] /\ a \in Addrs /\ a \notin LinkLocal
    BY <1>1, <2>1 DEF AddrSet, SetAddrEnd, CoreInv, CallOK, Links
  <2>3. links' = [links EXCEPT ![n].addrs = WithAddr(@, a)] /\ obj' = obj
    BY <1>1, <2>1 DEF AddrSet, SetAddrEnd
  <2>4. links'[n].addrs = WithAddr(as, a) /\ links'[n].kind = links[n].kind
    BY <1>1, <2>1, <2>3 DEF CoreInv, TypeOK, Links
  <2>5. Listed(n)' = WithAddr(as, a).global \o WithAddr(as, a).local
    BY <2>1, <2>3, <2>4 DEF Listed, Exists
  <2>6. get_addr(d)' = FirstGlobal(Listed(n)')
    BY <2>3 DEF get_addr
  <2> HIDE DEF n, as, a
  <2>7. FirstGlobal(WithAddr(as, a).global \o WithAddr(as, a).local) = a
    BY <1>1, <2>2, AddedIsFirst DEF n, as, a
  <2> QED BY <2>5, <2>6, <2>7 DEF a
<1>2. CoreInv /\ [Next]_vars => [A]_vars
  BY <1>1
<1> QED BY <1>2, CoreInvariant, PTL DEF Spec, NewAddrReadsBack

\* A set of numbers that is not empty has a least one.
LEMMA LeastNumber ==
  ASSUME NEW S \in SUBSET Nat, S # {}
  PROVE  \E n \in S : \A m \in S : n <= m
<1> DEFINE R == OpToRel(<, Nat)
<1>1. \A m, n \in Nat : m < n => <<m, n>> \in R
  BY DEF OpToRel
<1>2. IsWellFoundedOn(R, Nat)
  BY NatLessThanWellFounded
<1> HIDE DEF R
<1>3. PICK n \in S : \A m \in S : ~(<<m, n>> \in R)
  BY <1>2, WFMin
<1>4. \A m \in S : ~(m < n)
  BY <1>1, <1>3
<1> QED BY <1>3, <1>4

\* The getter takes a global address whenever the list has one.
LEMMA GlobalIsTaken ==
  ASSUME NEW list \in Seq(Addrs), NEW k \in DOMAIN list, list[k] \notin LinkLocal
  PROVE  FirstGlobal(list) \in Addrs \ LinkLocal
<1> DEFINE global == {i \in DOMAIN list : ~is_link_local_v6(list[i])}
           first == CHOOSE i \in global : \A j \in global : i <= j
<1>1. /\ k \in global /\ global \in SUBSET Nat
      /\ \A i \in global : list[i] \in Addrs \ LinkLocal
  <2>1. \A i \in DOMAIN list : i \in Nat /\ list[i] \in Addrs
    BY ElementOfSeq, LenProperties
  <2> QED BY <2>1 DEF is_link_local_v6
<1>2. FirstGlobal(list) = IF global # {} THEN list[first]
                          ELSE IF list # <<>> THEN Head(list) ELSE NULL
  BY DEF FirstGlobal, first, global
<1> HIDE DEF global
<1>3. first \in global
  <2>1. \E i \in global : \A j \in global : i <= j
    BY <1>1, LeastNumber
  <2> QED BY <2>1 DEF first
<1> HIDE DEF first
<1> QED BY <1>1, <1>2, <1>3

\* After the setter's command the address is listed.
LEMMA AddedIsListed ==
  ASSUME NEW as \in [global : Seq(Addrs), local : Seq(Addrs)], NEW a \in Addrs, a \notin LinkLocal
  PROVE  LET list == WithAddr(as, a).global \o WithAddr(as, a).local
         IN  list \in Seq(Addrs) /\ \E k \in DOMAIN list : list[k] = a
<1> DEFINE g == WithAddr(as, a).global
           l == WithAddr(as, a).local
           list == g \o l
<1>1. g \in Seq(Addrs) /\ l \in Seq(Addrs)
  BY WithAddrType
<1>2. (\E i \in DOMAIN g : g[i] = a) \/ (\E i \in DOMAIN l : l[i] = a)
  <2>1. CASE HasAddr(as, a)
    BY <2>1 DEF HasAddr, WithAddr
  <2>2. CASE ~HasAddr(as, a)
    <3>1. g = <<a>> \o as.global /\ as.global \in Seq(Addrs)
      BY <2>2 DEF WithAddr
    <3>2. <<a>> \in Seq(Addrs) /\ 1 \in DOMAIN <<a>> /\ <<a>>[1] = a
      OBVIOUS
    <3>3. 1 \in DOMAIN (<<a>> \o as.global) /\ (<<a>> \o as.global)[1] = a
      BY <3>1, <3>2, HeadStays
    <3> QED BY <3>1, <3>3
  <2> QED BY <2>1, <2>2
<1> HIDE DEF g, l
<1>3. /\ list \in Seq(Addrs) /\ Len(list) = Len(g) + Len(l) /\ DOMAIN list = 1 .. Len(g) + Len(l)
      /\ \A i \in 1 .. Len(g) + Len(l) : list[i] = IF i <= Len(g) THEN g[i] ELSE l[i - Len(g)]
  BY <1>1, ConcatProperties, LenProperties
<1> HIDE DEF list
<1>4. /\ Len(g) \in Nat /\ Len(l) \in Nat
      /\ DOMAIN g = 1 .. Len(g) /\ DOMAIN l = 1 .. Len(l)
  BY <1>1, LenProperties
<1>5. ASSUME NEW i \in DOMAIN g, g[i] = a PROVE \E k \in DOMAIN list : list[k] = a
  <2>1. i \in 1 .. Len(g) + Len(l) /\ i <= Len(g)
    BY <1>4
  <2>2. list[i] = a /\ i \in DOMAIN list
    BY <1>3, <1>5, <2>1
  <2> QED BY <2>2
<1>6. ASSUME NEW i \in DOMAIN l, l[i] = a PROVE \E k \in DOMAIN list : list[k] = a
  <2>1. Len(g) + i \in 1 .. Len(g) + Len(l) /\ ~(Len(g) + i <= Len(g)) /\ (Len(g) + i) - Len(g) = i
    BY <1>4
  <2>2. list[Len(g) + i] = a /\ Len(g) + i \in DOMAIN list
    BY <1>3, <1>6, <2>1
  <2> QED BY <2>2
<1> QED BY <1>2, <1>3, <1>5, <1>6 DEF g, l, list

\* Where there is only one global address, the getter returns it after the setter, set for
\* the first time or again: the test's assertion fails only among several.
THEOREM LoneAddrIsRead ==
  ASSUME \A a, b \in Addrs \ LinkLocal : a = b
  PROVE  Spec => AddrReadsBack
<1> DEFINE A == \A t \in Threads, d \in Devices :
                  AddrSet(t) /\ call[t].dev = d => get_addr(d)' = call[t].addr
<1>1. ASSUME CoreInv, NEW t \in Threads, NEW d \in Devices, AddrSet(t), call[t].dev = d
      PROVE  get_addr(d)' = call[t].addr
  <2> DEFINE n == obj[d].ifname
             as == links[n].addrs
             a == call[t].addr
             list == WithAddr(as, a).global \o WithAddr(as, a).local
  <2>1. n \in Names /\ Exists(n) /\ links[n] \in Links
    BY <1>1 DEF AddrSet, Exists, CoreInv, TypeOK, Objects
  <2>2. as \in [global : Seq(Addrs), local : Seq(Addrs)] /\ a \in Addrs /\ a \notin LinkLocal
    BY <1>1, <2>1 DEF AddrSet, SetAddrEnd, CoreInv, CallOK, Links
  <2>3. links' = [links EXCEPT ![n].addrs = WithAddr(@, a)] /\ obj' = obj
    BY <1>1, <2>1 DEF AddrSet, SetAddrEnd
  <2>4. links'[n].addrs = WithAddr(as, a) /\ links'[n].kind = links[n].kind
    BY <1>1, <2>1, <2>3 DEF CoreInv, TypeOK, Links
  <2>5. Listed(n)' = list
    BY <2>1, <2>3, <2>4 DEF Listed, Exists
  <2>6. get_addr(d)' = FirstGlobal(Listed(n)')
    BY <2>3 DEF get_addr
  <2>7. list \in Seq(Addrs) /\ \E k \in DOMAIN list : list[k] = a
    <3> HIDE DEF n, as, a
    <3> QED BY <2>2, AddedIsListed
  <2> HIDE DEF n, as, a, list
  <2>8. FirstGlobal(list) \in Addrs \ LinkLocal
    BY <2>2, <2>7, GlobalIsTaken
  <2>9. FirstGlobal(list) = a
    BY <2>2, <2>8
  <2> QED BY <2>5, <2>6, <2>9 DEF a
<1>2. CoreInv /\ [Next]_vars => [A]_vars
  BY <1>1
<1> QED BY <1>2, CoreInvariant, PTL DEF Spec, AddrReadsBack

\* A number that fits an int is not changed by the conversion.
LEMMA IntOfSmall ==
  ASSUME NEW v \in Int, v > 0, 2 * v < IntModulus
  PROVE  IntOf(v) = v
<1>1. PICK w \in Nat : w = IntModulus /\ v < w
  BY MtuAssumption
<1>2. v % w = v
  BY <1>1
<1> QED BY <1>1, <1>2 DEF IntOf

\* The mtu reads back as it was set as long as no number beyond the int is assigned, closed
\* objects and interfaces of others included.
THEOREM NarrowMtuIsRead ==
  ASSUME \A v \in MtuArgs : 2 * v < IntModulus
  PROVE  Spec => MtuReadsBack
<1> DEFINE A == \A t \in Threads, d \in Devices, v \in MtuArgs :
                  SetMtu(t, d, v) => get_mtu(d)' = v
<1>1. ASSUME CoreInv, NEW t \in Threads, NEW d \in Devices, NEW v \in MtuArgs, SetMtu(t, d, v)
      PROVE  get_mtu(d)' = v
  <2>1. IntOf(v) = v
    BY <1>1, IntOfSmall, MtuAssumption DEF SetMtu
  <2> DEFINE n == obj[d].ifname
  <2>2. n \in Names /\ Exists(n) /\ links[n] \in Links
    BY <1>1 DEF SetMtu, Exists, CoreInv, TypeOK, Objects
  <2>3. links' = [links EXCEPT ![n].mtu = v] /\ obj' = obj
    BY <1>1, <2>1 DEF SetMtu
  <2>4. links'[n].mtu = v /\ links'[n].kind = links[n].kind
    BY <1>1, <2>2, <2>3 DEF CoreInv, TypeOK, Links
  <2> QED BY <2>2, <2>3, <2>4 DEF get_mtu, Exists
<1>2. CoreInv /\ [Next]_vars => [A]_vars
  BY <1>1
<1> QED BY <1>2, CoreInvariant, PTL DEF Spec, MtuReadsBack

-----------------------------------------------------------------------------
(* The backend implements the contract of TunLease *)

\* A queue of an interface that is not multi-queue is on.
QueueOn == \A m \in Fds : fdt[m].link # NULL /\ ~links[fdt[m].link].mq => fdt[m].on

\* What of an interface the contract speaks of.
SameKind(n) == /\ links'[n].kind = links[n].kind /\ links'[n].mq = links[n].mq
               /\ links'[n].persist = links[n].persist

\* The actions that only configure an interface.
Configuring(t) ==
  \/ FlagsSet(t) \/ SetAddrEnd(t)
  \/ \E d \in Devices, v \in MtuArgs : SetMtu(t, d, v)

LEMMA ConfigureKeepsKind ==
  ASSUME TypeOK, CallOK, NEW t \in Threads, Configuring(t)
  PROVE  UNCHANGED <<obj, fdt>> /\ \A n \in Names : SameKind(n)
<1> USE DEF TypeOK
<1>1. CASE FlagsSet(t)
  BY <1>1 DEF FlagsSet, WithFlags, Links, SameKind
<1>2. CASE SetAddrEnd(t)
  BY <1>2 DEF SetAddrEnd, Links, SameKind
<1>3. ASSUME NEW d \in Devices, NEW v \in MtuArgs, SetMtu(t, d, v)
      PROVE  UNCHANGED <<obj, fdt>> /\ \A n \in Names : SameKind(n)
  BY <1>3 DEF SetMtu, Links, SameKind
<1> QED BY <1>1, <1>2, <1>3 DEF Configuring

LEMMA HostKeepsKind ==
  ASSUME TypeOK, NEW n \in Names,
         (\E fl \in SUBSET Flags : LinkFlags(n, fl)) \/ (\E a \in LinkLocal : Autoconf(n, a))
  PROVE  UNCHANGED <<obj, fdt>> /\ \A k \in Names : SameKind(k)
<1> USE DEF TypeOK
<1>1. ASSUME NEW fl \in SUBSET Flags, LinkFlags(n, fl)
      PROVE  UNCHANGED <<obj, fdt>> /\ \A k \in Names : SameKind(k)
  BY <1>1 DEF LinkFlags, WithFlags, Links, SameKind
<1>2. ASSUME NEW a \in LinkLocal, Autoconf(n, a)
      PROVE  UNCHANGED <<obj, fdt>> /\ \A k \in Names : SameKind(k)
  BY <1>2 DEF Autoconf, Links, SameKind
<1> QED BY <1>1, <1>2

\* The actions that only take or bring packets, or put a queue off and on.
Queueing(t) == ReadEnd(t) \/ \E d \in Devices, b \in BOOLEAN : MqAttach(t, d, b)

SameFile(m) == /\ fdt'[m].kind = fdt[m].kind /\ fdt'[m].by = fdt[m].by
               /\ fdt'[m].link = fdt[m].link

LEMMA QueueingKeepsFiles ==
  ASSUME TypeOK, CallOK, NEW t \in Threads, Queueing(t)
  PROVE  UNCHANGED <<obj, links>> /\ \A m \in Fds : SameFile(m)
<1> USE DEF TypeOK
<1>1. CASE ReadEnd(t)
  BY <1>1 DEF ReadEnd, CallOK, Files, SameFile
<1>2. ASSUME NEW d \in Devices, NEW b \in BOOLEAN, MqAttach(t, d, b)
      PROVE  UNCHANGED <<obj, links>> /\ \A m \in Fds : SameFile(m)
  BY <1>2, OpenFd DEF MqAttach, Files, SameFile
<1> QED BY <1>1, <1>2 DEF Queueing

\* What __init__ attaches.
Attaching(t, n) ==
  /\ call[t].dev \in Devices /\ call[t].fd \in Fds /\ call[t].at = "attach"
  /\ fdt'[call[t].fd].kind = "tun" /\ fdt'[call[t].fd].by = call[t].dev
  /\ fdt'[call[t].fd].link = n /\ fdt'[call[t].fd].on = TRUE
  /\ \A m \in Fds : m # call[t].fd => fdt'[m] = fdt[m]
  /\ obj'[call[t].dev].fd = call[t].fd /\ obj'[call[t].dev].ifname = n
  /\ ~obj'[call[t].dev].is_closed /\ call[t].fd # NoFd
  /\ \A e \in Devices : e # call[t].dev => obj'[e] = obj[e]
  /\ \/ /\ links[n].kind = "none" /\ links'[n].kind = "tun" /\ ~links'[n].persist
        /\ \A k \in Names : k # n => links'[k] = links[k]
     \/ /\ links[n].kind = "tun" /\ UNCHANGED links
        /\ links[n].mq \/ \A m \in Attached(n) : ~fdt[m].on

LEMMA InitAttachStep ==
  ASSUME TypeOK, CallOK, AttachOK, NEW t \in Threads, NEW req \in Names \cup {NULL},
         NEW mq \in MqModes, InitAttach(t, req, mq)
  PROVE  \E n \in Names : Attaching(t, n)
<1> USE DEF TypeOK
<1>1. PICK n \in Names :
        /\ CanAttach(n, mq)
        /\ links' = IF links[n].kind = "none" THEN [links EXCEPT ![n] = TunLink(mq)] ELSE links
        /\ fdt' = [fdt EXCEPT ![call[t].fd].link = n, ![call[t].fd].on = TRUE]
        /\ obj' = [obj EXCEPT ![call[t].dev] =
                     [fd |-> call[t].fd, is_closed |-> FALSE, ifname |-> n]]
  BY DEF InitAttach
<1>2. /\ call[t].dev \in Devices /\ call[t].fd \in Fds /\ call[t].at = "attach"
      /\ fdt[call[t].fd].kind = "tun" /\ fdt[call[t].fd].by = call[t].dev
      /\ call[t].fd # NoFd
  BY FdsAssumption DEF InitAttach, CallOK, AttachOK, NoFd
<1>3. /\ fdt'[call[t].fd].kind = "tun" /\ fdt'[call[t].fd].by = call[t].dev
      /\ fdt'[call[t].fd].link = n /\ fdt'[call[t].fd].on = TRUE
      /\ \A m \in Fds : m # call[t].fd => fdt'[m] = fdt[m]
  BY <1>1, <1>2 DEF Files
<1>4. /\ obj'[call[t].dev].fd = call[t].fd /\ obj'[call[t].dev].ifname = n
      /\ ~obj'[call[t].dev].is_closed
      /\ \A e \in Devices : e # call[t].dev => obj'[e] = obj[e]
  BY <1>1, <1>2
<1>5. TunLink(mq).kind = "tun" /\ ~TunLink(mq).persist
  BY DEF TunLink, NoLink
<1>6. CASE links[n].kind = "none"
  BY <1>1, <1>2, <1>3, <1>4, <1>5, <1>6 DEF Attaching
<1>7. CASE links[n].kind # "none"
  <2>1. links[n].kind = "tun" /\ links[n].mq = mq /\ (mq \/ \A m \in Attached(n) : ~fdt[m].on)
    BY <1>1, <1>7 DEF CanAttach
  <2> QED BY <1>1, <1>2, <1>3, <1>4, <1>7, <2>1 DEF Attaching
<1> QED BY <1>6, <1>7

LEMMA QueueOnStep == CoreInv /\ QueueOn /\ [Next]_vars => QueueOn'
<1> SUFFICES ASSUME CoreInv, QueueOn, [Next]_vars PROVE QueueOn'
  OBVIOUS
<1> USE DEF CoreInv, TypeOK
<1>0. \A m \in Fds : fdt[m].link \in Names \cup {NULL}
  BY DEF Files
<1>1. ASSUME UNCHANGED fdt, \A n \in Names : links'[n].mq = links[n].mq
      PROVE  QueueOn'
  BY <1>0, <1>1 DEF QueueOn
<1>2. ASSUME NEW k \in Fds, fdt'[k].link = NULL,
             \A m \in Fds : m # k => fdt'[m] = fdt[m],
             \A m \in Fds : m # k /\ fdt[m].link # NULL =>
                              links'[fdt[m].link] = links[fdt[m].link]
      PROVE  QueueOn'
  BY <1>2 DEF QueueOn
<1>3. CASE Environment
  <2>1. ASSUME NEW m \in Fds, PacketIn(m) PROVE QueueOn'
    BY <2>1 DEF PacketIn, QueueOn, Files
  <2>2. ASSUME NEW m \in Fds, OtherClose(m) PROVE QueueOn'
    BY <2>2, <1>2, NewFiles DEF OtherClose
  <2>3. ASSUME NEW n \in Names, LinkDelete(n) PROVE QueueOn'
    <3>1. \A m \in Fds : fdt'[m].link # NULL => fdt'[m] = fdt[m] /\ fdt[m].link # n
      BY <2>3, NullAssumption DEF LinkDelete, Attached, FileOK, Files
    <3>2. \A k \in Names : k # n => links'[k] = links[k]
      BY <2>3 DEF LinkDelete
    <3> QED BY <1>0, <3>1, <3>2 DEF QueueOn
  <2>4. ASSUME NEW n \in Names, LinkAdd(n) PROVE QueueOn'
    <3>1. \A m \in Fds : fdt[m].link # n
      BY <2>4, NullAssumption DEF LinkAdd, Exists, FileOK
    <3> QED BY <2>4, <1>0, <3>1 DEF LinkAdd, QueueOn
  <2>5. ASSUME NEW n \in Names, NEW fl \in SUBSET Flags, LinkFlags(n, fl) PROVE QueueOn'
    BY <2>5, <1>1, HostKeepsKind DEF SameKind
  <2>6. ASSUME NEW n \in Names, NEW a \in LinkLocal, Autoconf(n, a) PROVE QueueOn'
    BY <2>6, <1>1, HostKeepsKind DEF SameKind
  <2>7. CASE OtherOpen
    BY <2>7, <1>2, NewFiles DEF OtherOpen
  <2>8. ASSUME NEW n \in Names, NEW new \in Names, LinkRename(n, new) PROVE QueueOn'
    <3> SUFFICES ASSUME NEW m \in Fds, fdt'[m].link # NULL, ~links'[fdt'[m].link].mq
                 PROVE  fdt'[m].on
      BY DEF QueueOn
    <3>1. CASE fdt[m].kind = "tun" /\ fdt[m].link = n
      BY <2>8, <3>1, RenameFacts, NullAssumption DEF QueueOn
    <3>2. CASE ~(fdt[m].kind = "tun" /\ fdt[m].link = n)
      <4>1. fdt'[m] = fdt[m] /\ fdt[m].kind = "tun" /\ links[fdt[m].link].kind = "tun"
        BY <2>8, <3>2, RenameFacts DEF FileOK
      <4>2. fdt[m].link \in Names \ {n, new}
        BY <2>8, <3>2, <4>1, <1>0, RenameFacts
      <4> QED BY <2>8, <4>1, <4>2, RenameFacts DEF QueueOn
    <3> QED BY <3>1, <3>2
  <2> QED BY <1>3, <2>1, <2>2, <2>3, <2>4, <2>5, <2>6, <2>7, <2>8 DEF Environment
<1>4. ASSUME NEW t \in Threads, Extension(t) PROVE QueueOn'
  <2>1. CASE CloseStep(t)
    <3>1. PICK m \in Fds : CloseFile(m)
      BY <2>1, CloseStepFile
    <3>2. \A k \in Fds : k # m /\ fdt[k].link # NULL => links'[fdt[k].link] = links[fdt[k].link]
      BY <3>1, <1>0, CloseFileFacts
    <3>3. fdt'[m].link = NULL /\ \A k \in Fds : k # m => fdt'[k] = fdt[k]
      BY <3>1, NewFiles, CloseFileFacts
    <3> QED BY <3>2, <3>3, <1>2
  <2>2. CASE InitOpen(t)
    BY <2>2, <1>2, NewFiles DEF InitOpen
  <2>3. CASE ReadEnd(t)
    BY <2>3 DEF ReadEnd, QueueOn, Files, CallOK
  <2>4. CASE Configuring(t)
    BY <2>4, <1>1, ConfigureKeepsKind DEF SameKind
  <2>5. ASSUME NEW req \in Names \cup {NULL}, NEW mq \in MqModes, InitAttach(t, req, mq)
        PROVE  QueueOn'
    <3>1. PICK n \in Names : Attaching(t, n)
      BY <2>5, InitAttachStep
    <3>2. \A m \in Fds : m # call[t].fd /\ fdt[m].link # NULL =>
                           links'[fdt[m].link] = links[fdt[m].link]
      BY <3>1, <1>0 DEF Attaching, FileOK
    <3> QED BY <3>1, <3>2 DEF Attaching, QueueOn
  <2>6. ASSUME NEW d \in Devices, NEW b \in BOOLEAN, Persist(t, d, b) PROVE QueueOn'
    <3>1. UNCHANGED fdt /\ \A n \in Names : links'[n].mq = links[n].mq
      BY <2>6 DEF Persist, Links
    <3> QED BY <3>1, <1>1
  <2>7. ASSUME NEW d \in Devices, NEW b \in BOOLEAN, MqAttach(t, d, b) PROVE QueueOn'
    <3>1. /\ links[fdt[obj[d].fd].link].mq /\ UNCHANGED links
          /\ fdt'[obj[d].fd].link = fdt[obj[d].fd].link
          /\ \A m \in Fds : m # obj[d].fd => fdt'[m] = fdt[m]
      BY <2>7, OpenFd DEF MqAttach, Files
    <3> QED BY <3>1 DEF QueueOn
  <2>8. CASE UNCHANGED <<fdt, links>>
    BY <2>8, <1>1
  <2> QED BY <1>4, <2>1, <2>2, <2>3, <2>4, <2>5, <2>6, <2>7, <2>8, FileCases DEF Configuring
<1> QED BY <1>1, <1>3, <1>4 DEF Next, vars

\* What the contract sees of the state.
Leases == [d \in Devices |-> Held(d)]
Ifaces == [n \in Names |-> IF links[n].kind # "tun" THEN "none"
                           ELSE IF links[n].mq THEN "shared" ELSE "private"]
Kepts  == {n \in Names : links[n].kind = "tun" /\ links[n].persist}

\* The whole of what the proof of a step rests on.
LeaseInv == CoreInv /\ OwnInv /\ OrphanInv /\ QueueOn

LEMMA OwnFile ==
  ASSUME LeaseInv, NEW d \in Devices, ensure_open(d)
  PROVE  /\ obj[d].fd \in Fds
         /\ fdt[obj[d].fd].kind = "tun" /\ fdt[obj[d].fd].by = d
         /\ Held(d) = fdt[obj[d].fd].link
BY OpenFd DEF LeaseInv, CoreInv, OwnInv, OwnDescriptor, Held

\* Every file of an interface is that of an object that holds it.
LEMMA FileHeld ==
  ASSUME LeaseInv, NEW n \in Names, NEW m \in Fds, fdt[m].link = n
  PROVE  \E d \in Devices : ensure_open(d) /\ obj[d].fd = m /\ Held(d) = n
<1>1. fdt[m].kind = "tun"
  BY NullAssumption DEF LeaseInv, CoreInv, FileOK
<1>2. ~\E t \in Threads : call[t].at = "attach" /\ call[t].fd = m
  BY NullAssumption DEF LeaseInv, CoreInv, AttachOK
<1> QED BY <1>1, <1>2 DEF LeaseInv, OrphanInv, NoOrphan, Held

\* A step that no object's interface, and no interface's kind, sees.
LEMMA LeaseStutter ==
  ASSUME \A d \in Devices : Held(d)' = Held(d),
         \A n \in Names : SameKind(n) \/ (links[n].kind # "tun" /\ links'[n].kind # "tun")
  PROVE  [Lease!Next]_(Lease!vars)
<1>1. Leases' = Leases
  BY DEF Leases
<1>2. Ifaces' = Ifaces /\ Kepts' = Kepts
  BY DEF Ifaces, Kepts, SameKind
<1> QED BY <1>1, <1>2 DEF Lease!vars, Leases, Ifaces, Kepts

\* Objects and files that stay as they are hold what they held.
LEMMA HeldFrame ==
  ASSUME LeaseInv, UNCHANGED obj, \A d \in Devices : ensure_open(d) => SameFile(obj[d].fd)
  PROVE  \A d \in Devices : Held(d)' = Held(d)
BY DEF Held, ensure_open, SameFile

\* __init__ acquires the interface TUNSETIFF grants.
LEMMA LeaseAcquire ==
  ASSUME LeaseInv, NEW t \in Threads, NEW n \in Names, Attaching(t, n),
         NEW d \in Devices, call[t].dev = d
  PROVE  [Lease!Next]_(Lease!vars)
<1> USE DEF Attaching
<1>1. Held(d) = NULL
  BY DEF LeaseInv, OrphanInv, PendingClosed, Pending, Held
<1>2. Held(d)' = n
  BY DEF Held, ensure_open
<1>3. ASSUME NEW e \in Devices, e # d PROVE Held(e)' = Held(e)
  <2>1. obj'[e] = obj[e]
    BY <1>3
  <2>2. CASE ensure_open(e)
    <3>1. obj[e].fd # call[t].fd /\ obj[e].fd \in Fds
      BY <2>2, OwnFile DEF LeaseInv, OwnInv, FreshFd
    <3> QED BY <2>1, <3>1 DEF Held, ensure_open
  <2>3. CASE ~ensure_open(e)
    BY <2>1, <2>3 DEF Held, ensure_open
  <2> QED BY <2>2, <2>3
<1>4. Leases[d] = NULL /\ Leases' = [Leases EXCEPT ![d] = n]
  BY <1>1, <1>2, <1>3 DEF Leases
<1>5. CASE links[n].kind = "none"
  <2>1. /\ links'[n].kind = "tun" /\ ~links'[n].persist
        /\ \A k \in Names : k # n => links'[k] = links[k]
    BY <1>5
  <2>2. \E how \in {"private", "shared"} : Ifaces' = [Ifaces EXCEPT ![n] = how]
    BY <2>1 DEF Ifaces
  <2>3. Ifaces[n] = "none" /\ Kepts' = Kepts
    BY <1>5, <2>1 DEF Ifaces, Kepts
  <2>4. Lease!Acquire(d, n)
    BY <1>4, <2>2, <2>3 DEF Lease!Acquire, Leases, Ifaces, Kepts
  <2> QED BY <1>1, <2>4 DEF Lease!Next, Lease!vars
<1>6. CASE links[n].kind = "tun"
  <2>1. UNCHANGED links /\ (links[n].mq \/ \A m \in Attached(n) : ~fdt[m].on)
    BY <1>6
  <2>2. Ifaces' = Ifaces /\ Kepts' = Kepts
    BY <2>1 DEF Ifaces, Kepts
  <2>3. ASSUME ~links[n].mq, NEW e \in Devices, Held(e) = n PROVE FALSE
    <3>1. ensure_open(e) /\ n # NULL
      BY <2>3, NullAssumption DEF Held
    <3>2. obj[e].fd \in Attached(n) /\ fdt[obj[e].fd].on
      BY <2>3, <3>1, OwnFile DEF Attached, LeaseInv, QueueOn
    <3> QED BY <2>1, <2>3, <3>2
  <2>4. IF links[n].mq THEN Ifaces[n] = "shared"
                       ELSE Ifaces[n] = "private" /\ {e \in Devices : Leases[e] = n} = {}
    BY <1>6, <2>3 DEF Ifaces, Leases
  <2>5. Lease!Acquire(d, n)
    BY <1>4, <2>2, <2>4 DEF Lease!Acquire, Lease!Holders, Leases, Ifaces, Kepts
  <2> QED BY <1>1, <2>5 DEF Lease!Next, Lease!vars
<1> QED BY <1>5, <1>6

\* close() and deallocation release it.
LEMMA LeaseRelease ==
  ASSUME LeaseInv, NEW d \in Devices, ensure_open(d), CloseFile(obj[d].fd), ~ensure_open(d)',
         \A e \in Devices : e # d => obj'[e] = obj[e]
  PROVE  [Lease!Next]_(Lease!vars)
<1> DEFINE m == obj[d].fd
<1>1. m \in Fds /\ fdt[m].kind = "tun" /\ fdt[m].by = d /\ Held(d) = fdt[m].link
  BY OwnFile
<1>2. TypeOK /\ FileOK
  BY DEF LeaseInv, CoreInv
<1>3. Held(d)' = NULL
  BY DEF Held
<1>4. ASSUME NEW e \in Devices, e # d PROVE Held(e)' = Held(e)
  <2>1. obj'[e] = obj[e]
    BY <1>4
  <2>2. CASE ensure_open(e)
    <3>1. obj[e].fd \in Fds \ {m}
      BY <1>1, <1>4, <2>2, OwnFile
    <3>2. fdt'[obj[e].fd] = fdt[obj[e].fd]
      BY <1>1, <1>2, <3>1, CloseFileFacts
    <3> QED BY <2>1, <3>2 DEF Held, ensure_open
  <2>3. CASE ~ensure_open(e)
    BY <2>1, <2>3 DEF Held, ensure_open
  <2> QED BY <2>2, <2>3
<1>5. CASE fdt[m].link = NULL
  <2>1. \A k \in Names : links'[k] = links[k]
    BY <1>1, <1>2, <1>5, NullAssumption, CloseFileFacts
  <2>2. \A e \in Devices : Held(e)' = Held(e)
    BY <1>1, <1>3, <1>4, <1>5
  <2> QED BY <2>1, <2>2, LeaseStutter DEF SameKind
<1>6. ASSUME NEW n \in Names, fdt[m].link = n PROVE [Lease!Next]_(Lease!vars)
  <2>1. links[n].kind = "tun" /\ Held(d) = n /\ n # NULL
    BY <1>1, <1>2, <1>6, NullAssumption DEF FileOK
  <2>2. Leases[d] = n /\ Leases' = [Leases EXCEPT ![d] = NULL]
    BY <1>3, <1>4, <2>1 DEF Leases
  <2>3. \A k \in Names : k # n => links'[k] = links[k]
    BY <1>1, <1>2, <1>6, CloseFileFacts
  <2>4. NoLink.kind = "none"
    BY DEF NoLink
  <2>5. CASE {e \in Devices : Leases[e] = n} = {d} /\ n \notin Kepts
    <3>1. ASSUME NEW k \in Fds \ {m}, fdt[k].link = n PROVE FALSE
      <4>1. PICK e \in Devices : ensure_open(e) /\ obj[e].fd = k /\ Held(e) = n
        BY <3>1, FileHeld
      <4> QED BY <2>5, <3>1, <4>1 DEF Leases
    <3>2. links'[n] = NoLink
      BY <1>1, <1>2, <1>6, <2>1, <2>5, <3>1, CloseFileFacts DEF Kepts
    <3>3. Ifaces' = [Ifaces EXCEPT ![n] = "none"]
      BY <2>3, <2>4, <3>2 DEF Ifaces
    <3>4. Kepts' = Kepts
      BY <2>3, <2>4, <2>5, <3>2 DEF Kepts
    <3>5. Lease!Release(d, n)
      BY <2>2, <2>5, <3>3, <3>4 DEF Lease!Release, Lease!Holders, Leases, Ifaces, Kepts
    <3> QED BY <3>5 DEF Lease!Next, Lease!vars
  <2>6. CASE ~({e \in Devices : Leases[e] = n} = {d} /\ n \notin Kepts)
    <3>1. ASSUME n \in Kepts PROVE UNCHANGED links
      BY <1>6, <3>1 DEF CloseFile, LinksAfterClose, Kepts
    <3>2. ASSUME NEW e \in Devices, e # d, Leases[e] = n PROVE UNCHANGED links
      <4>1. Held(e) = n /\ ensure_open(e)
        BY <2>1, <3>2 DEF Leases, Held
      <4>2. obj[e].fd \in Attached(n) /\ obj[e].fd # m
        BY <1>1, <3>2, <4>1, OwnFile DEF Attached
      <4> QED BY <1>6, <4>2 DEF CloseFile, LinksAfterClose
    <3>3. UNCHANGED links
      BY <2>2, <2>6, <3>1, <3>2
    <3>4. Ifaces' = Ifaces /\ Kepts' = Kepts
      BY <3>3 DEF Ifaces, Kepts
    <3>5. Lease!Release(d, n)
      BY <2>2, <2>6, <3>4 DEF Lease!Release, Lease!Holders, Leases, Ifaces, Kepts
    <3> QED BY <3>5 DEF Lease!Next, Lease!vars
  <2> QED BY <2>5, <2>6
<1> QED BY <1>1, <1>2, <1>5, <1>6 DEF TypeOK, Files

\* A renaming is one of the contract if the interface is of the driver.
LEMMA LeaseRename ==
  ASSUME LeaseInv, NEW n \in Names, NEW new \in Names, LinkRename(n, new)
  PROVE  [Lease!Next]_(Lease!vars)
<1>0. TypeOK /\ FileOK /\ n # NULL /\ new # NULL /\ UNCHANGED obj
  BY NullAssumption DEF LeaseInv, CoreInv, LinkRename
<1>1. /\ n # new /\ links[n].kind # "none" /\ links[new].kind = "none"
      /\ links'[new] = links[n] /\ links'[n].kind = "none"
      /\ \A k \in Names \ {n, new} : links'[k] = links[k]
      /\ \A m \in Fds : IF fdt[m].kind = "tun" /\ fdt[m].link = n
                        THEN fdt'[m].link = new ELSE fdt'[m] = fdt[m]
  BY <1>0, RenameFacts DEF NoLink
<1>2. ASSUME NEW d \in Devices
      PROVE  Held(d)' = IF Held(d) = n THEN new ELSE Held(d)
  <2>1. CASE ensure_open(d)
    BY <1>0, <1>1, <2>1, OwnFile DEF Held, ensure_open
  <2>2. CASE ~ensure_open(d)
    BY <1>0, <2>2 DEF Held, ensure_open
  <2> QED BY <2>1, <2>2
<1>3. CASE links[n].kind = "tun"
  <2>1. Leases' = [d \in Devices |-> IF Leases[d] = n THEN new ELSE Leases[d]]
    BY <1>2 DEF Leases
  <2>2. /\ Ifaces[n] # "none" /\ Ifaces[new] = "none"
        /\ Ifaces' = [Ifaces EXCEPT ![new] = Ifaces[n], ![n] = "none"]
    BY <1>1, <1>3 DEF Ifaces
  <2>3. Kepts' = IF n \in Kepts THEN (Kepts \ {n}) \cup {new} ELSE Kepts
    BY <1>1, <1>3 DEF Kepts
  <2>4. Lease!Rename(n, new)
    BY <2>1, <2>2, <2>3 DEF Lease!Rename, Leases, Ifaces, Kepts
  <2> QED BY <2>4 DEF Lease!Next, Lease!vars
<1>4. CASE links[n].kind # "tun"
  <2>1. \A m \in Fds : fdt[m].link # n
    BY <1>0, <1>4 DEF FileOK
  <2>2. \A d \in Devices : Held(d)' = Held(d)
    BY <1>0, <1>2, <2>1, OwnFile DEF Held
  <2>3. \A k \in Names : SameKind(k) \/ (links[k].kind # "tun" /\ links'[k].kind # "tun")
    BY <1>1, <1>4 DEF SameKind
  <2> QED BY <2>2, <2>3, LeaseStutter
<1> QED BY <1>3, <1>4

\* Every step is one of the contract, or none.
LEMMA LeaseStep ==
  ASSUME ~ReinitOpen, ~CloseErrs
  PROVE  LeaseInv /\ [Next]_vars => [Lease!Next]_(Lease!vars)
<1> SUFFICES ASSUME LeaseInv, [Next]_vars PROVE [Lease!Next]_(Lease!vars)
  OBVIOUS
<1>0. TypeOK /\ CallOK /\ FileOK /\ AttachOK
  BY DEF LeaseInv, CoreInv
<1>1. ASSUME UNCHANGED obj, \A d \in Devices : ensure_open(d) => SameFile(obj[d].fd),
             \A n \in Names : SameKind(n) \/ (links[n].kind # "tun" /\ links'[n].kind # "tun")
      PROVE  [Lease!Next]_(Lease!vars)
  BY <1>1, HeldFrame, LeaseStutter
<1>2. ASSUME UNCHANGED <<obj, fdt>>, \A n \in Names : SameKind(n)
      PROVE  [Lease!Next]_(Lease!vars)
  BY <1>1, <1>2 DEF SameFile
<1>3. ASSUME UNCHANGED <<obj, links>>,
             \A m \in Fds : fdt[m].kind = "tun" => SameFile(m)
      PROVE  [Lease!Next]_(Lease!vars)
  <2>1. \A d \in Devices : ensure_open(d) => SameFile(obj[d].fd)
    BY <1>3, OwnFile
  <2> QED BY <1>1, <1>3, <2>1 DEF SameKind
<1>4. CASE Environment
  <2>1. ASSUME NEW m \in Fds, PacketIn(m) PROVE [Lease!Next]_(Lease!vars)
    BY <2>1, <1>0, <1>3 DEF PacketIn, SameFile, TypeOK, Files
  <2>2. ASSUME NEW m \in Fds, OtherClose(m) PROVE [Lease!Next]_(Lease!vars)
    BY <2>2, <1>0, <1>3 DEF OtherClose, SameFile, TypeOK
  <2>3. ASSUME NEW n \in Names, LinkDelete(n) PROVE [Lease!Next]_(Lease!vars)
    <3>0. UNCHANGED obj /\ n # NULL /\ links[n].kind # "none"
      BY <2>3, NullAssumption DEF LinkDelete, Exists
    <3>1. /\ links'[n].kind = "none" /\ \A k \in Names : k # n => links'[k] = links[k]
          /\ \A m \in Fds : fdt[m].link = n => fdt'[m].link = NULL
          /\ \A m \in Fds : fdt[m].link # n => fdt'[m] = fdt[m]
      BY <2>3, <3>0, <1>0 DEF LinkDelete, NoLink, TypeOK, Attached, FileOK, Files
    <3>2. ASSUME NEW d \in Devices
          PROVE  Held(d)' = IF Held(d) = n THEN NULL ELSE Held(d)
      <4>1. CASE ensure_open(d)
        BY <3>0, <3>1, <4>1, OwnFile DEF Held, ensure_open
      <4>2. CASE ~ensure_open(d)
        BY <3>0, <4>2 DEF Held, ensure_open
      <4> QED BY <4>1, <4>2
    <3>3. CASE links[n].kind = "tun"
      <4>1. Leases' = [d \in Devices |-> IF Leases[d] = n THEN NULL ELSE Leases[d]]
        BY <3>2 DEF Leases
      <4>2. Ifaces[n] # "none" /\ Ifaces' = [Ifaces EXCEPT ![n] = "none"]
        BY <3>1, <3>3 DEF Ifaces
      <4>3. Kepts' = Kepts \ {n}
        BY <3>1, <3>3 DEF Kepts
      <4>4. Lease!Vanish(n)
        BY <4>1, <4>2, <4>3 DEF Lease!Vanish, Leases, Ifaces, Kepts
      <4> QED BY <4>4 DEF Lease!Next, Lease!vars
    <3>4. CASE links[n].kind # "tun"
      <4>1. \A m \in Fds : fdt[m].link # n
        BY <1>0, <3>0, <3>4 DEF FileOK
      <4>2. \A d \in Devices : Held(d)' = Held(d)
        BY <3>0, <3>2, <4>1, OwnFile DEF Held
      <4> QED BY <3>1, <3>4, <4>2, LeaseStutter DEF SameKind
    <3> QED BY <3>3, <3>4
  <2>4. ASSUME NEW n \in Names, LinkAdd(n) PROVE [Lease!Next]_(Lease!vars)
    <3>1. /\ links[n].kind # "tun" /\ links'[n].kind # "tun" /\ UNCHANGED <<obj, fdt>>
          /\ \A k \in Names : k # n => links'[k] = links[k]
      BY <2>4, <1>0, NullAssumption DEF LinkAdd, Exists, OtherLink, NoLink, TypeOK
    <3> QED BY <3>1, <1>1 DEF SameKind, SameFile
  <2>5. ASSUME NEW n \in Names, NEW fl \in SUBSET Flags, LinkFlags(n, fl)
        PROVE  [Lease!Next]_(Lease!vars)
    BY <2>5, <1>0, <1>2, HostKeepsKind
  <2>6. ASSUME NEW n \in Names, NEW a \in LinkLocal, Autoconf(n, a)
        PROVE  [Lease!Next]_(Lease!vars)
    BY <2>6, <1>0, <1>2, HostKeepsKind
  <2>7. CASE OtherOpen
    BY <2>7, <1>0, <1>3 DEF OtherOpen, LowestFree, SameFile, TypeOK
  <2>8. ASSUME NEW n \in Names, NEW new \in Names, LinkRename(n, new)
        PROVE  [Lease!Next]_(Lease!vars)
    BY <2>8, LeaseRename
  <2> QED BY <1>4, <2>1, <2>2, <2>3, <2>4, <2>5, <2>6, <2>7, <2>8 DEF Environment
<1>5. ASSUME NEW t \in Threads, Extension(t) PROVE [Lease!Next]_(Lease!vars)
  <2>1. ASSUME NEW d \in Devices, InitBegin(t, d) PROVE [Lease!Next]_(Lease!vars)
    <3>1. /\ UNCHANGED <<fdt, links>> /\ ~ensure_open(d) /\ ~ensure_open(d)'
          /\ \A e \in Devices : e # d => obj'[e] = obj[e]
      BY <2>1, <1>0 DEF InitBegin, Fresh, ensure_open, TypeOK
    <3>2. \A e \in Devices : Held(e)' = Held(e)
      BY <3>1 DEF Held, ensure_open
    <3> QED BY <3>1, <3>2, LeaseStutter DEF SameKind
  <2>2. ASSUME NEW d \in Devices, ensure_open(d), Close(t, d) \/ Dealloc(t, d)
        PROVE  [Lease!Next]_(Lease!vars)
    <3>1. /\ CloseFile(obj[d].fd) /\ ~ensure_open(d)'
          /\ \A e \in Devices : e # d => obj'[e] = obj[e]
      BY <2>2, <1>0 DEF Close, Dealloc, ensure_open, Fresh, TypeOK, Objects
    <3> QED BY <2>2, <3>1, LeaseRelease
  <2>3. ASSUME NEW d \in Devices, Dealloc(t, d), ~ensure_open(d)
        PROVE  [Lease!Next]_(Lease!vars)
    <3>1. /\ UNCHANGED <<fdt, links>> /\ ~ensure_open(d)'
          /\ \A e \in Devices : e # d => obj'[e] = obj[e]
      BY <2>3, <1>0 DEF Dealloc, Fresh, ensure_open, TypeOK
    <3>2. \A e \in Devices : Held(e)' = Held(e)
      BY <2>3, <3>1 DEF Held, ensure_open
    <3> QED BY <3>1, <3>2, LeaseStutter DEF SameKind
  <2>4. ASSUME NEW d \in Devices PROVE ~CloseError(t, d)
    BY OwnFile DEF CloseError
  <2>5. CASE InitAttachError(t)
    <3>1. /\ UNCHANGED obj /\ call[t].at = "attach" /\ call[t].fd \in Fds
          /\ CloseFile(call[t].fd) /\ fdt[call[t].fd].link = NULL
      BY <2>5, <1>0 DEF InitAttachError, CallOK, AttachOK
    <3>2. UNCHANGED links
      BY <3>1 DEF CloseFile, LinksAfterClose
    <3>3. \A d \in Devices : ensure_open(d) => SameFile(obj[d].fd)
      BY <3>1, <1>0, CloseFileFacts, OwnFile DEF LeaseInv, OwnInv, FreshFd, SameFile
    <3> QED BY <3>1, <3>2, <3>3, <1>1 DEF SameKind
  <2>6. CASE InitOpen(t)
    BY <2>6, <1>0, <1>3 DEF InitOpen, LowestFree, SameFile, TypeOK
  <2>7. CASE Queueing(t)
    BY <2>7, <1>0, <1>3, QueueingKeepsFiles
  <2>8. CASE Configuring(t)
    BY <2>8, <1>0, <1>2, ConfigureKeepsKind
  <2>9. ASSUME NEW req \in Names \cup {NULL}, NEW mq \in MqModes, InitAttach(t, req, mq)
        PROVE  [Lease!Next]_(Lease!vars)
    <3>1. PICK n \in Names : Attaching(t, n)
      BY <2>9, <1>0, InitAttachStep
    <3>2. PICK d \in Devices : call[t].dev = d
      BY <3>1 DEF Attaching
    <3> QED BY <3>1, <3>2, LeaseAcquire
  <2>10. ASSUME NEW d \in Devices, NEW b \in BOOLEAN, Persist(t, d, b)
         PROVE  [Lease!Next]_(Lease!vars)
    <3>1. ensure_open(d) /\ UNCHANGED <<obj, fdt>>
      BY <2>10 DEF Persist
    <3>2. PICK n \in Names : n = Held(d)
      BY <2>10, <3>1, <1>0, OwnFile DEF Persist, TypeOK, Files
    <3>3. links[n].kind = "tun" /\ Leases[d] = n
      BY <3>1, <3>2, <1>0, OwnFile, NullAssumption DEF FileOK, Leases
    <3>4. links' = [links EXCEPT ![n].persist = b]
      BY <2>10, <3>1, <3>2, OwnFile DEF Persist
    <3>5. /\ links'[n].kind = "tun" /\ links'[n].persist = b /\ links'[n].mq = links[n].mq
          /\ \A k \in Names : k # n => links'[k] = links[k]
      BY <3>3, <3>4, <1>0 DEF TypeOK, Links
    <3>6. Leases' = Leases
      BY <3>1 DEF Leases, Held, ensure_open
    <3>7. Ifaces' = Ifaces
      BY <3>3, <3>5 DEF Ifaces
    <3>8. Kepts' = IF b THEN Kepts \cup {n} ELSE Kepts \ {n}
      BY <3>3, <3>5 DEF Kepts
    <3>9. Lease!Keep(d, n, b)
      BY <3>3, <3>6, <3>7, <3>8 DEF Lease!Keep, Leases, Ifaces, Kepts
    <3> QED BY <3>9 DEF Lease!Next, Lease!vars
  <2>11. CASE CloseStep(t)
    BY <2>2, <2>4, <2>5, <2>11 DEF CloseStep
  <2>12. CASE UNCHANGED <<fdt, links>>
    <3>1. ASSUME UNCHANGED obj PROVE [Lease!Next]_(Lease!vars)
      BY <2>12, <3>1, <1>2 DEF SameKind
    <3>2. ASSUME NEW d \in Devices, Close(t, d) \/ Dealloc(t, d)
          PROVE  [Lease!Next]_(Lease!vars)
      BY <3>2, <2>2, <2>3 DEF Close
    <3> QED BY <1>5, <2>1, <2>9, <3>1, <3>2, ObjCases
  <2> QED BY <1>5, <2>6, <2>7, <2>8, <2>9, <2>10, <2>11, <2>12, FileCases
             DEF Queueing, Configuring
<1>6. CASE UNCHANGED vars
  BY <1>2, <1>6 DEF vars, SameKind
<1> QED BY <1>4, <1>5, <1>6 DEF Next

\* Unless the program calls __init__ on open objects or close(2) reports errors, the Linux
\* backend implements the contract of TunLease, for any threads, objects, names and
\* descriptor numbers.
THEOREM BackendKeepsLease ==
  ASSUME ~ReinitOpen, ~CloseErrs
  PROVE  Spec => LeaseSpec
<1>1. Init => Lease!Init
  <2> SUFFICES ASSUME Init PROVE Lease!Init
    OBVIOUS
  <2>1. \A d \in Devices : Held(d) = NULL
    BY DEF Init, Held, ensure_open, Fresh
  <2>2. \A n \in Names : links[n].kind = "none"
    BY DEF Init, NoLink
  <2> QED BY <2>1, <2>2 DEF Lease!Init
<1>2. Init => LeaseInv
  <2>1. Init => OwnInv
    BY DEF Init, OwnInv, OwnDescriptor, IfnameTracksLink, FreshFd, ensure_open, Fresh, Idle
  <2>2. Init => OrphanInv
    BY DEF Init, OrphanInv, NoOrphan, OneInit, PendingClosed, Pending, Idle, NoFile
  <2>3. Init => QueueOn
    BY NewFiles DEF Init, QueueOn
  <2> QED BY <2>1, <2>2, <2>3, InitCore DEF LeaseInv
<1>3. LeaseInv /\ [Next]_vars => LeaseInv'
  <2>1. LeaseInv /\ [Next]_vars => CoreInv' /\ QueueOn'
    BY CoreStep, QueueOnStep DEF LeaseInv
  <2>2. LeaseInv /\ [Next]_vars => OwnInv'
    BY OwnStep, FreshFdStep DEF LeaseInv, CoreInv, OwnInv
  <2>3. LeaseInv /\ [Next]_vars => OrphanInv'
    BY NoOrphanStep, OneInitStep, PendingClosedStep DEF LeaseInv, CoreInv, OrphanInv
  <2> QED BY <2>1, <2>2, <2>3 DEF LeaseInv
<1> QED BY <1>1, <1>2, <1>3, LeaseStep, PTL DEF Spec, LeaseSpec, Lease!Spec

\* What follows from the contract, for the interfaces and open objects of this backend.
Contract == INSTANCE TunLeaseProofs WITH lease <- Leases, iface <- Ifaces, kept <- Kepts

\* An interface that is not multi-queue has at most one open object.
SoleHolder ==
  \A n \in Names : links[n].kind = "tun" /\ ~links[n].mq =>
    \A d, e \in Devices : Held(d) = n /\ Held(e) = n => d = e

\* The contract's exclusiveness (TunLeaseProofs) carries over to the backend: no interleaving
\* of two calls of __init__, no deletion and no reuse of a name or of a descriptor number lets
\* a second object onto an interface of one queue.
THEOREM NeverShared ==
  ASSUME ~ReinitOpen, ~CloseErrs
  PROVE  Spec => []SoleHolder
<1>1. Lease!Init => Contract!Init
  BY DEF Lease!Init, Contract!Init, Leases, Ifaces, Kepts
<1>2. [Lease!Next]_(Lease!vars) => [Contract!Next]_(Contract!vars)
  BY DEF Lease!Next, Contract!Next, Lease!vars, Contract!vars, Lease!Acquire, Contract!Acquire,
     Lease!Release, Contract!Release, Lease!Keep, Contract!Keep, Lease!Vanish, Contract!Vanish,
     Lease!Rename, Contract!Rename, Lease!Holders, Contract!Holders, Leases, Ifaces, Kepts
<1>3. Contract!Spec => [](Contract!Exclusive /\ Contract!NoGhost)
  BY Contract!LeaseSafe, NullAssumption
<1>4. Contract!Exclusive => SoleHolder
  BY DEF Contract!Exclusive, Contract!Holders, Leases, Ifaces, SoleHolder
<1> QED BY <1>1, <1>2, <1>3, <1>4, BackendKeepsLease, PTL
           DEF LeaseSpec, Lease!Spec, Contract!Spec
=============================================================================
