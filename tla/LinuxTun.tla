------------------------------- MODULE LinuxTun -------------------------------
(***************************************************************************)
(* The TunTapDevice of the extension on Linux (src/native/module.c and     *)
(* src/native/linux_backend.c) together with what it acts on: the          *)
(* descriptor table of the process and the network interfaces of the host. *)
(*                                                                         *)
(* The extension never releases the interpreter lock (GIL), so a C function *)
(* runs to its end before another Python thread does, except where Python   *)
(* converts its arguments.  The kernel, other processes and other threads' *)
(* own system calls do run between two system calls of one C function.      *)
(* Functions with one system call that changes state are one action;        *)
(* __init__, up/down, read and the setter of addr, which have two or block, *)
(* are several.                                                            *)
(* A call that raises before it has changed anything is a stuttering step.  *)
(***************************************************************************)
EXTENDS Integers, Sequences, FiniteSets

CONSTANTS
  Threads,      \* Python threads of the process
  Devices,      \* TunTapDevice objects (slots: deallocated, then allocated anew)
  Names,        \* interface names
  Fds,          \* descriptor numbers the process may use
  MqModes,      \* whether IFF_MULTI_QUEUE is in the flags given to __init__
  OtherFlags,   \* interface flags besides UP (IFF_PROMISC, IFF_ALLMULTI, ...)
  Addrs,        \* IPv6 addresses
  LinkLocal,    \* those in fe80::/10
  MtuArgs,      \* Python integers assigned to dev.mtu
  MtuRange,     \* MTUs the kernel accepts
  DefaultMtu,   \* MTU of a new interface
  IntModulus,   \* 2^w for the w bits of a C int
  MaxRx,        \* packets a queue of the kernel holds
  ReinitOpen,   \* may the program call __init__ on an open object?
  CloseErrs,    \* may close(2) report an error after releasing the number?
  NULL          \* no device, no interface

ASSUME FdsAssumption   == Fds \subseteq Nat
ASSUME BoolAssumption  == /\ MqModes \subseteq BOOLEAN
                          /\ ReinitOpen \in BOOLEAN
                          /\ CloseErrs \in BOOLEAN
ASSUME NullAssumption  == NULL \notin Devices \cup Names \cup Addrs
ASSUME FlagAssumption  == "UP" \notin OtherFlags
ASSUME MtuAssumption   == /\ MtuArgs \subseteq Int
                          /\ MtuRange \subseteq Nat
                          /\ DefaultMtu \in MtuRange
                          /\ IntModulus \in Nat \ {0}
ASSUME AddrAssumption  == LinkLocal \subseteq Addrs
ASSUME MaxRxAssumption == MaxRx \in Nat

VARIABLES
  obj,    \* obj[d]: the fields of object d
  call,   \* call[t]: the extension function thread t is inside, and its locals
  fdt,    \* fdt[m]: the open file the process has at number m
  links   \* links[n]: the network interface named n

vars == <<obj, call, fdt, links>>

-----------------------------------------------------------------------------
(* The data *)

NoFd == -1

\* Mutant: tp_alloc's zeroes are taken for a closed object.
FreshZeroed == [fd |-> 0, is_closed |-> TRUE, ifname |-> NULL]

\* The fields tp_new and __init__ start from.
Fresh == [fd |-> NoFd, is_closed |-> TRUE, ifname |-> NULL]

\* "init": __init__ is converting its arguments; "attach": between open() and
\* TUNSETIFF; "flags": between SIOCGIFFLAGS and SIOCSIFFLAGS; "read": in read();
\* "ip": in system("ip ...").
Stages == {"idle", "init", "attach", "flags", "read", "ip"}
Idle   == [at |-> "idle", dev |-> NULL, fd |-> NoFd, set_up |-> FALSE, flags |-> {},
           addr |-> NULL]

\* A file of /dev/net/tun is attached to an interface (link), its queue is
\* enabled (on) and holds rx packets.  Two fields are auxiliary: the object whose
\* __init__ opened the file (by), and whether the interface was renamed since it
\* was attached.  An "other" file is one the rest of the program has.
NoFile    == [kind |-> "free", by |-> NULL, link |-> NULL, renamed |-> FALSE,
              on |-> FALSE, rx |-> 0]
OtherFile == [NoFile EXCEPT !.kind = "other"]
TunFile(d) == [NoFile EXCEPT !.kind = "tun", !.by = d]

\* The kernel sorts the IPv6 addresses of an interface by scope, newest first.
NoAddrs == [global |-> <<>>, local |-> <<>>]
NoLink  == [kind |-> "none", flags |-> {}, persist |-> FALSE, mq |-> FALSE,
            mtu |-> DefaultMtu, addrs |-> NoAddrs]
TunLink(mq) == [NoLink EXCEPT !.kind = "tun", !.mq = mq]
OtherLink   == [NoLink EXCEPT !.kind = "other"]

Flags == {"UP"} \cup OtherFlags

Objects == [fd : Fds \cup {NoFd}, is_closed : BOOLEAN, ifname : Names \cup {NULL}]
Calls   == [at : Stages, dev : Devices \cup {NULL}, fd : Fds \cup {NoFd},
            set_up : BOOLEAN, flags : SUBSET Flags, addr : Addrs \cup {NULL}]
Files   == [kind : {"free", "other", "tun"}, by : Devices \cup {NULL},
            link : Names \cup {NULL}, renamed : BOOLEAN, on : BOOLEAN, rx : 0 .. MaxRx]
Links   == [kind : {"none", "other", "tun"}, flags : SUBSET Flags,
            persist : BOOLEAN, mq : BOOLEAN, mtu : MtuRange,
            addrs : [global : Seq(Addrs), local : Seq(Addrs)]]

-----------------------------------------------------------------------------
(* Reading the state *)

ensure_open(d) == ~obj[d].is_closed /\ obj[d].fd # NoFd

Exists(n) == n # NULL /\ links[n].kind # "none"

\* Mutant: read() releases the GIL around its system call.
HoldsGilNotInRead(t) == call[t].at \in {"attach", "flags", "ip"}

\* The functions that stop inside a system call do so with the GIL held.
HoldsGil(t) == call[t].at \in {"attach", "flags", "read", "ip"}

\* Thread t can start an extension function.
Runs(t) == call[t].at = "idle" /\ \A u \in Threads : ~HoldsGil(u)

InCall(d) == \E t \in Threads : call[t].dev = d

Attached(n) == {m \in Fds : fdt[m].kind = "tun" /\ fdt[m].link = n}

\* open(2) returns the lowest number that is free.
LowestFree(m) == /\ fdt[m].kind = "free"
                 /\ \A k \in Fds : k < m => fdt[k].kind # "free"

\* TUNSETIFF: a name nobody has becomes a new interface; an interface the
\* driver has is joined if it is multi-queue on both sides or has no queue on.
CanAttach(n, mq) ==
  \/ links[n].kind = "none"
  \/ /\ links[n].kind = "tun"
     /\ links[n].mq = mq
     /\ mq \/ \A m \in Attached(n) : ~fdt[m].on

\* The name TUNSETIFF writes back: the one asked for, or for "" a new one.
Grants(req, n) == IF req = NULL THEN links[n].kind = "none" ELSE req = n

\* (int)v of a long: two's complement in w bits.
IntOf(v) == LET r == v % IntModulus
            IN  IF 2 * r < IntModulus THEN r ELSE r - IntModulus

\* The addresses getifaddrs() lists under the name.
Listed(n) == IF Exists(n) THEN links[n].addrs.global \o links[n].addrs.local ELSE <<>>

\* Mutant: the test comes out inverted.
IsGlobal(a) == a \notin LinkLocal

is_link_local_v6(a) == a \in LinkLocal

\* The loop over a list of addresses: the first that is not link-local or, if there
\* is none, the first of all; NULL for None.
FirstGlobal(list) ==
  LET global == {i \in DOMAIN list : ~is_link_local_v6(list[i])}
  IN  IF global # {} THEN list[CHOOSE i \in global : \A j \in global : i <= j]
      ELSE IF list # <<>> THEN Head(list) ELSE NULL

get_addr(d) == FirstGlobal(Listed(obj[d].ifname))

\* get_mtu raises (NULL) when SIOCGIFMTU does not know the name.
get_mtu(d) == IF Exists(obj[d].ifname) THEN links[obj[d].ifname].mtu ELSE NULL

-----------------------------------------------------------------------------
(* What the kernel does *)

\* The last file of an interface that is not persistent takes it along.
LinksAfterClose(m) ==
  LET n == fdt[m].link
  IN  IF n # NULL /\ ~links[n].persist /\ Attached(n) = {m}
      THEN [links EXCEPT ![n] = NoLink]
      ELSE links

CloseFile(m) == /\ fdt' = [fdt EXCEPT ![m] = NoFile]
                /\ links' = LinksAfterClose(m)

\* Taking an interface down drops its IPv6 addresses.
WithFlags(link, fl) ==
  [link EXCEPT !.flags = fl,
               !.addrs = IF "UP" \in link.flags \ fl THEN NoAddrs ELSE link.addrs]

\* `ip addr replace` leaves an address that is there where it is.
HasAddr(as, a) == \/ \E i \in DOMAIN as.global : as.global[i] = a
                  \/ \E i \in DOMAIN as.local : as.local[i] = a
WithAddr(as, a) == IF HasAddr(as, a) THEN as
                   ELSE IF a \in LinkLocal THEN [as EXCEPT !.local = <<a>> \o @]
                   ELSE [as EXCEPT !.global = <<a>> \o @]

-----------------------------------------------------------------------------
(* The extension *)

\* __init__ resets the fields, whatever they hold, then converts its arguments
\* (where Python code, and so another thread, can run).
InitBegin(t, d) ==
  /\ Runs(t)
  /\ ReinitOpen \/ ~(ensure_open(d) \/ \E u \in Threads :
                                          call[u].at = "init" /\ call[u].dev = d)
  /\ obj' = [obj EXCEPT ![d] = Fresh]
  /\ call' = [call EXCEPT ![t] = [Idle EXCEPT !.at = "init", !.dev = d]]
  /\ UNCHANGED <<fdt, links>>

\* The conversion or open("/dev/net/tun") fails.
InitError(t) ==
  /\ call[t].at = "init"
  /\ \A u \in Threads : ~HoldsGil(u)
  /\ call' = [call EXCEPT ![t] = Idle]
  /\ UNCHANGED <<obj, fdt, links>>

InitOpen(t) ==
  /\ call[t].at = "init"
  /\ \A u \in Threads : ~HoldsGil(u)
  /\ \E m \in Fds :
       /\ LowestFree(m)
       /\ fdt' = [fdt EXCEPT ![m] = TunFile(call[t].dev)]
       /\ call' = [call EXCEPT ![t].at = "attach", ![t].fd = m]
  /\ UNCHANGED <<obj, links>>

\* Mutant: the object keeps the name asked for.
InitAttachAskedName(t, req, mq) ==
  /\ call[t].at = "attach"
  /\ \E n \in Names :
       /\ Grants(req, n) /\ CanAttach(n, mq)
       /\ links' = IF links[n].kind = "none"
                   THEN [links EXCEPT ![n] = TunLink(mq)] ELSE links
       /\ fdt' = [fdt EXCEPT ![call[t].fd].link = n, ![call[t].fd].on = TRUE]
       /\ obj' = [obj EXCEPT ![call[t].dev] =
                    [fd |-> call[t].fd, is_closed |-> FALSE, ifname |-> req]]
  /\ call' = [call EXCEPT ![t] = Idle]

\* Mutant: without a name asked for, the object takes the first one for its own.
InitAttachFirstName(t, req, mq) ==
  /\ call[t].at = "attach"
  /\ \E n \in Names :
       /\ Grants(req, n) /\ CanAttach(n, mq)
       /\ links' = IF links[n].kind = "none"
                   THEN [links EXCEPT ![n] = TunLink(mq)] ELSE links
       /\ fdt' = [fdt EXCEPT ![call[t].fd].link = n, ![call[t].fd].on = TRUE]
       /\ obj' = [obj EXCEPT ![call[t].dev] =
                    [fd |-> call[t].fd, is_closed |-> FALSE,
                     ifname |-> IF req = NULL THEN CHOOSE first \in Names : TRUE ELSE n]]
  /\ call' = [call EXCEPT ![t] = Idle]

\* TUNSETIFF succeeds; the object takes the descriptor and the name it returned.
InitAttach(t, req, mq) ==
  /\ call[t].at = "attach"
  /\ \E n \in Names :
       /\ Grants(req, n) /\ CanAttach(n, mq)
       /\ links' = IF links[n].kind = "none"
                   THEN [links EXCEPT ![n] = TunLink(mq)] ELSE links
       /\ fdt' = [fdt EXCEPT ![call[t].fd].link = n, ![call[t].fd].on = TRUE]
       /\ obj' = [obj EXCEPT ![call[t].dev] =
                    [fd |-> call[t].fd, is_closed |-> FALSE, ifname |-> n]]
  /\ call' = [call EXCEPT ![t] = Idle]

\* Mutant: the error path returns without its close().
InitAttachErrorLeaks(t) ==
  /\ call[t].at = "attach"
  /\ call' = [call EXCEPT ![t] = Idle]
  /\ UNCHANGED <<obj, fdt, links>>

\* TUNSETIFF fails: the descriptor is closed again.
InitAttachError(t) ==
  /\ call[t].at = "attach"
  /\ CloseFile(call[t].fd)
  /\ call' = [call EXCEPT ![t] = Idle]
  /\ UNCHANGED obj

\* Mutants: close() leaves the fields; close() clears them before it uses them.
CloseKeepsFields(t, d) ==
  /\ Runs(t) /\ ensure_open(d)
  /\ fdt[obj[d].fd].kind # "free"
  /\ CloseFile(obj[d].fd)
  /\ UNCHANGED <<obj, call>>

CloseClearsFirst(t, d) ==
  /\ Runs(t) /\ ensure_open(d)
  /\ obj' = [obj EXCEPT ![d].fd = NoFd, ![d].is_closed = TRUE]
  /\ UNCHANGED <<call, fdt, links>>

\* close() on an open object; on a closed one it changes nothing.
Close(t, d) ==
  /\ Runs(t) /\ ensure_open(d)
  /\ fdt[obj[d].fd].kind # "free"
  /\ CloseFile(obj[d].fd)
  /\ obj' = [obj EXCEPT ![d].fd = NoFd, ![d].is_closed = TRUE]
  /\ UNCHANGED call

\* close(2) reports an error: the method raises and leaves the fields as they
\* are, although the number is free (it was already, or Linux released it).
CloseError(t, d) ==
  /\ Runs(t) /\ ensure_open(d)
  /\ CloseErrs \/ fdt[obj[d].fd].kind = "free"
  /\ CloseFile(obj[d].fd)
  /\ UNCHANGED <<obj, call>>

\* Mutant: tp_dealloc frees the memory only.
DeallocOnlyFrees(t, d) ==
  /\ Runs(t) /\ ~InCall(d) /\ obj[d] # Fresh
  /\ obj' = [obj EXCEPT ![d] = Fresh]
  /\ UNCHANGED <<call, fdt, links>>

\* The last reference goes: tp_dealloc closes; the slot is then a new object.
Dealloc(t, d) ==
  /\ Runs(t) /\ ~InCall(d) /\ obj[d] # Fresh
  /\ IF ensure_open(d) THEN CloseFile(obj[d].fd) ELSE UNCHANGED <<fdt, links>>
  /\ obj' = [obj EXCEPT ![d] = Fresh]
  /\ UNCHANGED call

\* up() and down(): SIOCGIFFLAGS by name into the local req.
FlagsGet(t, d, set_up) ==
  /\ Runs(t) /\ ensure_open(d) /\ Exists(obj[d].ifname)
  /\ call' = [call EXCEPT ![t] = [Idle EXCEPT !.at = "flags", !.dev = d,
                !.set_up = set_up, !.flags = links[obj[d].ifname].flags]]
  /\ UNCHANGED <<obj, fdt, links>>

\* SIOCSIFFLAGS writes them all back; it fails if the name is gone.
FlagsSet(t) ==
  /\ call[t].at = "flags"
  /\ LET n  == obj[call[t].dev].ifname
         fl == IF call[t].set_up THEN call[t].flags \cup {"UP"}
                                 ELSE call[t].flags \ {"UP"}
     IN  links' = IF Exists(n) THEN [links EXCEPT ![n] = WithFlags(@, fl)] ELSE links
  /\ call' = [call EXCEPT ![t] = Idle]
  /\ UNCHANGED <<obj, fdt>>

\* read() of one packet; it blocks, and its timeout argument is not used.
ReadBegin(t, d) ==
  /\ Runs(t) /\ ensure_open(d)
  /\ call' = [call EXCEPT ![t] = [Idle EXCEPT !.at = "read", !.dev = d,
                                              !.fd = obj[d].fd]]
  /\ UNCHANGED <<obj, fdt, links>>

\* Mutant: read() goes on until the buffer is full.
ReadUntilFull(t) ==
  /\ call[t].at = "read"
  /\ fdt[call[t].fd].rx > 0
  /\ fdt' = [fdt EXCEPT ![call[t].fd].rx = @ - 1]
  /\ UNCHANGED <<obj, call, links>>

ReadEnd(t) ==
  /\ call[t].at = "read"
  /\ fdt[call[t].fd].rx > 0
  /\ fdt' = [fdt EXCEPT ![call[t].fd].rx = @ - 1]
  /\ call' = [call EXCEPT ![t] = Idle]
  /\ UNCHANGED <<obj, links>>

\* A signal, or the interface is gone (EFAULT, EBADFD).
ReadError(t) ==
  /\ call[t].at = "read"
  /\ call' = [call EXCEPT ![t] = Idle]
  /\ UNCHANGED <<obj, fdt, links>>

Persist(t, d, flag) ==
  /\ Runs(t) /\ ensure_open(d)
  /\ LET n == fdt[obj[d].fd].link
     IN  n # NULL /\ links' = [links EXCEPT ![n].persist = flag]
  /\ UNCHANGED <<obj, call, fdt>>

\* IFF_ATTACH_QUEUE of a queue that is off; IFF_DETACH_QUEUE of one that is on
\* drops its packets.
MqAttach(t, d, flag) ==
  /\ Runs(t) /\ ensure_open(d)
  /\ LET m == obj[d].fd
     IN  /\ fdt[m].link # NULL
         /\ links[fdt[m].link].mq
         /\ fdt[m].on # flag
         /\ fdt' = [fdt EXCEPT ![m].on = flag, ![m].rx = 0]
  /\ UNCHANGED <<obj, call, links>>

\* dev.mtu = v goes by the name kept in the object, open or not.
SetMtu(t, d, v) ==
  /\ Runs(t)
  /\ v > 0 /\ IntOf(v) \in MtuRange
  /\ Exists(obj[d].ifname)
  /\ links' = [links EXCEPT ![obj[d].ifname].mtu = IntOf(v)]
  /\ UNCHANGED <<obj, call, fdt>>

\* So does dev.addr = a, which waits for a child process with the GIL held.
SetAddrBegin(t, d, a) ==
  /\ Runs(t)
  /\ call' = [call EXCEPT ![t] = [Idle EXCEPT !.at = "ip", !.dev = d, !.addr = a]]
  /\ UNCHANGED <<obj, fdt, links>>

\* The command fails, and the setter raises, if the name is gone.
SetAddrEnd(t) ==
  /\ call[t].at = "ip"
  /\ LET n == obj[call[t].dev].ifname
     IN  links' = IF Exists(n) THEN [links EXCEPT ![n].addrs = WithAddr(@, call[t].addr)]
                  ELSE links
  /\ call' = [call EXCEPT ![t] = Idle]
  /\ UNCHANGED <<obj, fdt>>

-----------------------------------------------------------------------------
(* The rest of the host *)

\* The stack sends a packet out of an interface that is up: one queue gets it.
PacketIn(m) ==
  /\ fdt[m].link # NULL /\ fdt[m].on
  /\ "UP" \in links[fdt[m].link].flags
  /\ fdt[m].rx < MaxRx
  /\ fdt' = [fdt EXCEPT ![m].rx = @ + 1]
  /\ UNCHANGED <<obj, call, links>>

\* `ip link del`: the files stay open, attached to nothing.
LinkDelete(n) ==
  /\ Exists(n)
  /\ links' = [links EXCEPT ![n] = NoLink]
  /\ fdt' = [m \in Fds |-> IF m \in Attached(n)
                           THEN [fdt[m] EXCEPT !.link = NULL, !.renamed = FALSE,
                                               !.on = FALSE, !.rx = 0]
                           ELSE fdt[m]]
  /\ UNCHANGED <<obj, call>>

\* `ip link set ... name ...`: the interface and its queues go on under the new name.
LinkRename(n, new) ==
  /\ Exists(n) /\ ~Exists(new)
  /\ links' = [links EXCEPT ![new] = links[n], ![n] = NoLink]
  /\ fdt' = [m \in Fds |-> IF m \in Attached(n)
                           THEN [fdt[m] EXCEPT !.link = new, !.renamed = TRUE]
                           ELSE fdt[m]]
  /\ UNCHANGED <<obj, call>>

\* Another program creates an interface of its own.
LinkAdd(n) ==
  /\ ~Exists(n)
  /\ links' = [links EXCEPT ![n] = OtherLink]
  /\ UNCHANGED <<obj, call, fdt>>

\* `ip link set`: another program changes the flags.
LinkFlags(n, fl) ==
  /\ Exists(n)
  /\ links' = [links EXCEPT ![n] = WithFlags(@, fl)]
  /\ UNCHANGED <<obj, call, fdt>>

\* The kernel gives an interface that is up a link-local address.
Autoconf(n, a) ==
  /\ Exists(n) /\ "UP" \in links[n].flags
  /\ links' = [links EXCEPT ![n].addrs = WithAddr(@, a)]
  /\ UNCHANGED <<obj, call, fdt>>

\* Other code of the process opens and closes files of its own, GIL or no GIL.
OtherOpen ==
  /\ \E m \in Fds : LowestFree(m) /\ fdt' = [fdt EXCEPT ![m] = OtherFile]
  /\ UNCHANGED <<obj, call, links>>

OtherClose(m) ==
  /\ fdt[m].kind = "other"
  /\ fdt' = [fdt EXCEPT ![m] = NoFile]
  /\ UNCHANGED <<obj, call, links>>

-----------------------------------------------------------------------------
Init ==
  /\ obj = [d \in Devices |-> Fresh]
  /\ call = [t \in Threads |-> Idle]
  /\ fdt = [m \in Fds |-> NoFile]
  /\ links = [n \in Names |-> NoLink]

Extension(t) ==
  \/ \E d \in Devices :
       \/ InitBegin(t, d) \/ Close(t, d) \/ CloseError(t, d) \/ Dealloc(t, d)
       \/ ReadBegin(t, d)
       \/ \E b \in BOOLEAN : FlagsGet(t, d, b) \/ Persist(t, d, b) \/ MqAttach(t, d, b)
       \/ \E v \in MtuArgs : SetMtu(t, d, v)
       \/ \E a \in Addrs : SetAddrBegin(t, d, a)
  \/ InitError(t) \/ InitOpen(t) \/ InitAttachError(t)
  \/ \E req \in Names \cup {NULL}, mq \in MqModes : InitAttach(t, req, mq)
  \/ FlagsSet(t) \/ SetAddrEnd(t) \/ ReadEnd(t) \/ ReadError(t)

Environment ==
  \/ \E m \in Fds : PacketIn(m) \/ OtherClose(m)
  \/ \E n \in Names : LinkDelete(n) \/ LinkAdd(n)
  \/ \E n, new \in Names : LinkRename(n, new)
  \/ \E n \in Names, fl \in SUBSET Flags : LinkFlags(n, fl)
  \/ \E n \in Names, a \in LinkLocal : Autoconf(n, a)
  \/ OtherOpen

Next == (\E t \in Threads : Extension(t)) \/ Environment

Spec == Init /\ [][Next]_vars

-----------------------------------------------------------------------------
(* Properties *)

\* Every variable has its type.
TypeOK ==
  /\ obj \in [Devices -> Objects]
  /\ call \in [Threads -> Calls]
  /\ fdt \in [Fds -> Files]
  /\ links \in [Names -> Links]

\* An open object's number is still that of the file its own __init__ opened:
\* read, write, fileno, persist and close never act on a file of another object
\* or of the rest of the program.  Needs ~CloseErrs.
OwnDescriptor ==
  \A d \in Devices : ensure_open(d) => /\ fdt[obj[d].fd].kind = "tun"
                                       /\ fdt[obj[d].fd].by = d

\* No leak: every tun file is the one its object would close, or a local of an
\* __init__ in progress.  Error paths, deallocation and any order of calls by
\* several threads keep it.  Needs ~ReinitOpen.
NoOrphan ==
  \A m \in Fds : fdt[m].kind = "tun" =>
    \/ \E d \in Devices : ensure_open(d) /\ obj[d].fd = m /\ fdt[m].by = d
    \/ \E t \in Threads : call[t].at = "attach" /\ call[t].fd = m

\* The two names of an interface agree: the one the object configures by and the
\* one its descriptor is attached to.  Only the host can part them: another program
\* deletes the interface or renames it.
IfnameTracksLink ==
  \A d \in Devices : ensure_open(d) => \/ fdt[obj[d].fd].renamed
                                      \/ fdt[obj[d].fd].link \in {obj[d].ifname, NULL}

\* An interface of the driver that is not persistent has an open object: the
\* extension leaves none behind on the host.
LinkHeld ==
  \A n \in Names : links[n].kind = "tun" /\ ~links[n].persist =>
    \E d \in Devices : ensure_open(d) /\ fdt[obj[d].fd].link = n

\* While a thread is blocked in read() its object stays open on that descriptor:
\* no other thread closes it under the call (read uses self->fd unlocked).
ReaderKeepsDevice ==
  \A t \in Threads : call[t].at = "read" =>
    ensure_open(call[t].dev) /\ obj[call[t].dev].fd = call[t].fd

\* What object d holds in the sense of TunLease.
Held(d) == IF ensure_open(d) THEN fdt[obj[d].fd].link ELSE NULL

Lease == INSTANCE TunLease WITH
  lease <- [d \in Devices |-> Held(d)],
  iface <- [n \in Names |-> IF links[n].kind # "tun" THEN "none"
                            ELSE IF links[n].mq THEN "shared" ELSE "private"],
  kept  <- {n \in Names : links[n].kind = "tun" /\ links[n].persist}

\* The Linux backend implements the contract of TunLease: no interleaving of
\* calls, errors and deletions makes an object gain, share or lose an interface
\* otherwise.
LeaseSpec == Lease!Spec

\* up, down, addr and mtu of an open object that has its own descriptor change the
\* interface of this descriptor and no other, as long as no other program has deleted
\* or renamed it.  (Then they go on by the old name, whoever has it.)
ConfigHitsOwnLink ==
  [][links' # links =>
       \A t \in Threads, d \in Devices :
         /\ Held(d) # NULL /\ fdt[obj[d].fd].by = d /\ ~fdt[obj[d].fd].renamed
         /\ \/ (FlagsSet(t) \/ SetAddrEnd(t)) /\ call[t].dev = d
            \/ \E v \in MtuArgs : SetMtu(t, d, v)
         => \A n \in Names : links'[n] # links[n] => n = Held(d)]_vars

\* The setter of a global address has run `ip` with success.
AddrSet(t) == SetAddrEnd(t) /\ Exists(obj[call[t].dev].ifname)
              /\ call[t].addr \notin LinkLocal

\* A global address that was not there is read back by the getter, whatever
\* link-local addresses the kernel or the program put on the interface before.
NewAddrReadsBack ==
  [][\A t \in Threads, d \in Devices :
       /\ AddrSet(t) /\ call[t].dev = d
       /\ ~HasAddr(links[obj[d].ifname].addrs, call[t].addr)
       => get_addr(d)' = call[t].addr]_vars

\* What the test of addr asserts (tests/test_tunnel_linux.py:73): after
\* dev.addr = a for a global address a, dev.addr is a.
AddrReadsBack ==
  [][\A t \in Threads, d \in Devices :
       AddrSet(t) /\ call[t].dev = d => get_addr(d)' = call[t].addr]_vars

\* What the test of mtu asserts (tests/test_tunnel_linux.py:74): after
\* dev.mtu = v without an error, dev.mtu is v.
MtuReadsBack ==
  [][\A t \in Threads, d \in Devices, v \in MtuArgs :
       SetMtu(t, d, v) => get_mtu(d)' = v]_vars

\* What ensure_open says of a closed object (linux_backend.c:28, "device is
\* closed"): no call of it changes an interface of the host.
ClosedIsInert ==
  [][\A t \in Threads, d \in Devices :
       /\ \/ \E v \in MtuArgs : SetMtu(t, d, v)
          \/ SetAddrEnd(t) /\ call[t].dev = d /\ links' # links
       => ensure_open(d)]_vars
=============================================================================
