------------------------------ MODULE DarwinUtun ------------------------------
(***************************************************************************)
(* The TunTapDevice of the extension on macOS (src/native/module.c and     *)
(* src/native/darwin_backend.c).  A device is a kernel-control socket: to   *)
(* connect it to unit u creates the interface utun<u-1>, which exists as    *)
(* long as the socket is open.  Data go by the descriptor, settings by the *)
(* name, through `ifconfig` in a child process.                            *)
(*                                                                         *)
(* The GIL is held throughout, except while __init__ converts its argument; *)
(* other programs run between two system calls.  Names are represented by  *)
(* their units; persist() and mq_attach() do nothing and are left out.     *)
(***************************************************************************)
EXTENDS Integers, Sequences, FiniteSets

CONSTANTS
  Threads,      \* Python threads of the process
  Devices,      \* TunTapDevice objects (slots)
  Fds,          \* descriptor numbers
  LastUnit,     \* the last unit __init__ tries (255 in the code)
  Preferred,    \* values of preferred_num besides the default, -1
  Addrs,        \* IPv6 addresses
  LinkLocal,    \* those in fe80::/10
  Mtus,         \* integers assigned to dev.mtu
  DefaultMtu,   \* MTU of a new interface
  CloseErrs,    \* may close(2) report an error after releasing the number?
  ReinitOpen,   \* may __init__ be called on an object that is open or in a call?
  NULL

Units == 1 .. LastUnit

ASSUME UnitAssumption == LastUnit \in Nat \ {0} /\ Preferred \subseteq Nat
ASSUME DataAssumption == /\ LinkLocal \subseteq Addrs
                         /\ Mtus \subseteq Int /\ DefaultMtu \in Nat
                         /\ CloseErrs \in BOOLEAN /\ ReinitOpen \in BOOLEAN
ASSUME NullAssumption == NULL \notin Devices \cup Fds \cup Units \cup Addrs

VARIABLES
  obj,    \* obj[d]: the fields of object d
  call,   \* call[t]: the extension function thread t is inside, and its locals
  fdt,    \* fdt[m]: the open file the process has at number m
  utun    \* utun[u]: the interface of unit u

vars == <<obj, call, fdt, utun>>

-----------------------------------------------------------------------------
(* The data *)

Fresh == [fd |-> NULL, is_closed |-> TRUE, ifname |-> NULL]

\* "init": converting arguments; "connect": about to try unit `unit`; "name":
\* connected, before UTUN_OPT_IFNAME; "read": in read(); "ifconfig": in system(),
\* for the interface `unit` and the command cmd.  `free` is auxiliary: the units
\* that have been free since the loop began.
Stages == {"idle", "init", "connect", "name", "read", "ifconfig"}
NoCmd  == <<"none", NULL>>
Idle   == [at |-> "idle", dev |-> NULL, fd |-> NULL, unit |-> NULL, auto |-> FALSE,
           cmd |-> NoCmd, free |-> {}]

\* `by` is auxiliary: the object whose __init__ opened the socket.
NoFile    == [kind |-> "free", by |-> NULL, unit |-> NULL]
OtherFile == [NoFile EXCEPT !.kind = "other"]
Socket(d) == [NoFile EXCEPT !.kind = "utun", !.by = d]

NoUtun       == [owner |-> "none", up |-> FALSE, mtu |-> DefaultMtu, addrs |-> <<>>]
NewUtun(who) == [NoUtun EXCEPT !.owner = who]

\* The commands of up(), down() and of the setters of addr and mtu.
StateCmds == {<<"up", NULL>>, <<"down", NULL>>}
ByName    == ({"inet6"} \X Addrs) \cup ({"mtu"} \X {v \in Mtus : v > 0})

Objects == [fd : Fds \cup {NULL}, is_closed : BOOLEAN, ifname : Units \cup {NULL}]
Calls   == [at : Stages, dev : Devices \cup {NULL}, fd : Fds \cup {NULL},
            unit : Units \cup {p + 1 : p \in Preferred} \cup {NULL}, auto : BOOLEAN,
            cmd : StateCmds \cup ByName \cup {NoCmd}, free : SUBSET Units]
Files   == [kind : {"free", "other", "utun"}, by : Devices \cup {NULL},
            unit : Units \cup {NULL}]
Utuns   == [owner : {"none", "own", "other"}, up : BOOLEAN, mtu : Nat, addrs : Seq(Addrs)]

TypeOK == /\ obj \in [Devices -> Objects]
          /\ call \in [Threads -> Calls]
          /\ fdt \in [Fds -> Files]
          /\ utun \in [Units -> Utuns]

-----------------------------------------------------------------------------
(* Reading the state *)

ensure_open(d) == ~obj[d].is_closed /\ obj[d].fd # NULL

HoldsGil(t) == call[t].at \notin {"idle", "init"}
Running     == \A t \in Threads : ~HoldsGil(t)
Runs(t)     == call[t].at = "idle" /\ Running
InCall(d)   == \E t \in Threads : call[t].dev = d

Exists(u) == u \in Units /\ utun[u].owner # "none"

\* Mutant: the prefix is compared the wrong way round.
IsGlobal(a) == a \notin LinkLocal

is_link_local_v6(a) == a \in LinkLocal

\* The loop over a list of addresses: the first that is not link-local or, if there
\* is none, the first of all; NULL for None.
FirstGlobal(list) ==
  LET global == {i \in DOMAIN list : ~is_link_local_v6(list[i])}
  IN  IF global # {} THEN list[CHOOSE i \in global : \A j \in global : i <= j]
      ELSE IF list # <<>> THEN Head(list) ELSE NULL

get_addr(d) == FirstGlobal(IF Exists(obj[d].ifname) THEN utun[obj[d].ifname].addrs ELSE <<>>)

-----------------------------------------------------------------------------
(* What the kernel and ifconfig do *)

CloseFile(m) ==
  /\ fdt' = [fdt EXCEPT ![m] = NoFile]
  /\ utun' = IF fdt[m].unit = NULL THEN utun ELSE [utun EXCEPT ![fdt[m].unit] = NoUtun]

\* An address is added behind those there are.
WithAddr(as, a) == IF \E i \in DOMAIN as : as[i] = a THEN as ELSE Append(as, a)

Configured(link, cmd) ==
  [link EXCEPT !.up    = IF cmd \in StateCmds THEN cmd[1] = "up" ELSE @,
               !.mtu   = IF cmd[1] = "mtu" THEN cmd[2] ELSE @,
               !.addrs = IF cmd[1] = "inet6" THEN WithAddr(@, cmd[2]) ELSE @]

-----------------------------------------------------------------------------
(* The extension *)

\* __init__ resets the fields and converts its argument, where Python code, and
\* so another thread, can run.  It does not ask whether the object is open, or
\* under construction in another thread; the program may see to that.
InitBegin(t, d) ==
  /\ Runs(t) /\ (ReinitOpen \/ ~(ensure_open(d) \/ InCall(d)))
  /\ obj' = [obj EXCEPT ![d] = Fresh]
  /\ call' = [call EXCEPT ![t] = [Idle EXCEPT !.at = "init", !.dev = d]]
  /\ UNCHANGED <<fdt, utun>>

\* The argument is bad, or there is no socket.
InitError(t) ==
  /\ call[t].at = "init" /\ Running
  /\ call' = [call EXCEPT ![t] = Idle]
  /\ UNCHANGED <<obj, fdt, utun>>

\* Mutant: the loop starts at unit 2.
InitSocketFromTwo(t, num) ==
  /\ call[t].at = "init" /\ Running
  /\ \E m \in Fds :
       /\ fdt[m].kind = "free"
       /\ fdt' = [fdt EXCEPT ![m] = Socket(call[t].dev)]
       /\ call' = [call EXCEPT ![t].at = "connect", ![t].fd = m, ![t].auto = num < 0,
                               ![t].unit = IF num < 0 THEN 2 ELSE num + 1,
                               ![t].free = {u \in Units : ~Exists(u)}]
  /\ UNCHANGED <<obj, utun>>

\* The socket, and the first unit to try: preferred_num + 1, or 1 of all.
InitSocket(t, num) ==
  /\ call[t].at = "init" /\ Running
  /\ \E m \in Fds :
       /\ fdt[m].kind = "free"
       /\ fdt' = [fdt EXCEPT ![m] = Socket(call[t].dev)]
       /\ call' = [call EXCEPT ![t].at = "connect", ![t].fd = m, ![t].auto = num < 0,
                               ![t].unit = IF num < 0 THEN 1 ELSE num + 1,
                               ![t].free = {u \in Units : ~Exists(u)}]
  /\ UNCHANGED <<obj, utun>>

\* connect() to a unit nobody has.
InitConnect(t) ==
  /\ call[t].at = "connect"
  /\ call[t].unit \in Units /\ ~Exists(call[t].unit)
  /\ utun' = [utun EXCEPT ![call[t].unit] = NewUtun("own")]
  /\ fdt' = [fdt EXCEPT ![call[t].fd].unit = call[t].unit]
  /\ call' = [call EXCEPT ![t].at = "name"]
  /\ UNCHANGED obj

\* Mutant: the loop is left one unit too late.
InitNextUnitOneMore(t) ==
  /\ call[t].at = "connect"
  /\ call[t].auto /\ Exists(call[t].unit) /\ call[t].unit <= LastUnit
  /\ call' = [call EXCEPT ![t].unit = @ + 1]
  /\ UNCHANGED <<obj, fdt, utun>>

\* The unit is taken: the loop goes on to the next.
InitNextUnit(t) ==
  /\ call[t].at = "connect"
  /\ call[t].auto /\ Exists(call[t].unit) /\ call[t].unit < LastUnit
  /\ call' = [call EXCEPT ![t].unit = @ + 1]
  /\ UNCHANGED <<obj, fdt, utun>>

\* The last or only unit is taken, or is none the kernel has.
InitNoUnit(t) ==
  /\ call[t].at = "connect"
  /\ call[t].unit \in Units => Exists(call[t].unit) /\ (call[t].auto => call[t].unit = LastUnit)
  /\ CloseFile(call[t].fd)
  /\ call' = [call EXCEPT ![t] = Idle]
  /\ UNCHANGED obj

\* Mutant: the error path returns without its close().
InitRefusedLeaks(t) ==
  /\ call[t].at \in {"connect", "name"}
  /\ call' = [call EXCEPT ![t] = Idle]
  /\ UNCHANGED <<obj, fdt, utun>>

\* CTLIOCGINFO fails, or every connect() for want of privileges, or
\* UTUN_OPT_IFNAME: the socket is closed again, and its interface goes with it.
InitRefused(t) ==
  /\ call[t].at \in {"connect", "name"}
  /\ CloseFile(call[t].fd)
  /\ call' = [call EXCEPT ![t] = Idle]
  /\ UNCHANGED obj

\* Mutant: the name is put together from preferred_num, or 0 without one.
InitNamedFirst(t) ==
  /\ call[t].at = "name"
  /\ obj' = [obj EXCEPT ![call[t].dev] = [fd |-> call[t].fd, is_closed |-> FALSE,
               ifname |-> IF call[t].auto THEN 1 ELSE fdt[call[t].fd].unit]]
  /\ call' = [call EXCEPT ![t] = Idle]
  /\ UNCHANGED <<fdt, utun>>

\* The object takes the name the socket has and its descriptor.
InitNamed(t) ==
  /\ call[t].at = "name"
  /\ obj' = [obj EXCEPT ![call[t].dev] = [fd |-> call[t].fd, is_closed |-> FALSE,
               ifname |-> fdt[call[t].fd].unit]]
  /\ call' = [call EXCEPT ![t] = Idle]
  /\ UNCHANGED <<fdt, utun>>

\* close() on an open object; on a closed one it changes nothing.
Close(t, d) ==
  /\ Runs(t) /\ ensure_open(d)
  /\ fdt[obj[d].fd].kind # "free"
  /\ CloseFile(obj[d].fd)
  /\ obj' = [obj EXCEPT ![d].fd = NULL, ![d].is_closed = TRUE]
  /\ UNCHANGED call

\* close(2) reports an error: the fields stay, although the number is free.
CloseError(t, d) ==
  /\ Runs(t) /\ ensure_open(d)
  /\ CloseErrs \/ fdt[obj[d].fd].kind = "free"
  /\ CloseFile(obj[d].fd)
  /\ UNCHANGED <<obj, call>>

\* Mutant: tp_dealloc frees the memory only.
DeallocOnlyFrees(t, d) ==
  /\ Runs(t) /\ ~InCall(d) /\ obj[d] # Fresh
  /\ obj' = [obj EXCEPT ![d] = Fresh]
  /\ UNCHANGED <<call, fdt, utun>>

\* The last reference goes: tp_dealloc closes; the slot is then a new object.
Dealloc(t, d) ==
  /\ Runs(t) /\ ~InCall(d) /\ obj[d] # Fresh
  /\ IF ensure_open(d) THEN CloseFile(obj[d].fd) ELSE UNCHANGED <<fdt, utun>>
  /\ obj' = [obj EXCEPT ![d] = Fresh]
  /\ UNCHANGED call

\* read() blocks until the socket has a packet or fails; its timeout is not used.
ReadBegin(t, d) ==
  /\ Runs(t) /\ ensure_open(d)
  /\ call' = [call EXCEPT ![t] = [Idle EXCEPT !.at = "read", !.dev = d, !.fd = obj[d].fd]]
  /\ UNCHANGED <<obj, fdt, utun>>

ReadEnd(t) ==
  /\ call[t].at = "read"
  /\ call' = [call EXCEPT ![t] = Idle]
  /\ UNCHANGED <<obj, fdt, utun>>

\* Mutant: up() and down() do without ensure_open.
IfconfigAnyObject(t, d, cmd) ==
  /\ Runs(t)
  /\ call' = [call EXCEPT ![t] = [Idle EXCEPT !.at = "ifconfig", !.dev = d,
                                    !.unit = obj[d].ifname, !.cmd = cmd]]
  /\ UNCHANGED <<obj, fdt, utun>>

\* up() and down() want an open object; addr and mtu only a name.
Ifconfig(t, d, cmd) ==
  /\ Runs(t)
  /\ cmd \in StateCmds => ensure_open(d)
  /\ call' = [call EXCEPT ![t] = [Idle EXCEPT !.at = "ifconfig", !.dev = d,
                                    !.unit = obj[d].ifname, !.cmd = cmd]]
  /\ UNCHANGED <<obj, fdt, utun>>

\* The command succeeds if there is such an interface.
IfconfigOk(t) ==
  /\ call[t].at = "ifconfig" /\ Exists(call[t].unit)
  /\ utun' = [utun EXCEPT ![call[t].unit] = Configured(@, call[t].cmd)]
  /\ call' = [call EXCEPT ![t] = Idle]
  /\ UNCHANGED <<obj, fdt>>

\* It fails, or cannot be run; the method raises.
IfconfigFails(t) ==
  /\ call[t].at = "ifconfig"
  /\ call' = [call EXCEPT ![t] = Idle]
  /\ UNCHANGED <<obj, fdt, utun>>

-----------------------------------------------------------------------------
(* The rest of the host *)

\* Another program takes a unit; the loops in progress can no longer count on it.
OtherUp(u) ==
  /\ ~Exists(u)
  /\ utun' = [utun EXCEPT ![u] = NewUtun("other")]
  /\ call' = [t \in Threads |-> [call[t] EXCEPT !.free = @ \ {u}]]
  /\ UNCHANGED <<obj, fdt>>

OtherDown(u) ==
  /\ utun[u].owner = "other"
  /\ utun' = [utun EXCEPT ![u] = NoUtun]
  /\ UNCHANGED <<obj, call, fdt>>

\* The kernel gives an interface a link-local address.
Autoconf(u, a) ==
  /\ Exists(u)
  /\ utun' = [utun EXCEPT ![u].addrs = WithAddr(@, a)]
  /\ UNCHANGED <<obj, call, fdt>>

\* Other code of the process opens and closes files, GIL or no GIL.
OtherOpen(m) ==
  /\ fdt[m].kind = "free"
  /\ fdt' = [fdt EXCEPT ![m] = OtherFile]
  /\ UNCHANGED <<obj, call, utun>>

OtherClose(m) ==
  /\ fdt[m].kind = "other"
  /\ fdt' = [fdt EXCEPT ![m] = NoFile]
  /\ UNCHANGED <<obj, call, utun>>

-----------------------------------------------------------------------------
Init ==
  /\ obj = [d \in Devices |-> Fresh]
  /\ call = [t \in Threads |-> Idle]
  /\ fdt = [m \in Fds |-> NoFile]
  /\ utun = [u \in Units |-> NoUtun]

Extension(t) ==
  \/ \E d \in Devices :
       \/ InitBegin(t, d) \/ Close(t, d) \/ CloseError(t, d) \/ Dealloc(t, d)
       \/ ReadBegin(t, d)
       \/ \E cmd \in StateCmds \cup ByName : Ifconfig(t, d, cmd)
  \/ InitError(t) \/ \E num \in Preferred \cup {-1} : InitSocket(t, num)
  \/ InitConnect(t) \/ InitNextUnit(t) \/ InitNoUnit(t) \/ InitRefused(t) \/ InitNamed(t)
  \/ ReadEnd(t) \/ IfconfigOk(t) \/ IfconfigFails(t)

Environment ==
  \/ \E u \in Units : OtherUp(u) \/ OtherDown(u) \/ \E a \in LinkLocal : Autoconf(u, a)
  \/ \E m \in Fds : OtherOpen(m) \/ OtherClose(m)

Next == (\E t \in Threads : Extension(t)) \/ Environment

Spec == Init /\ [][Next]_vars

-----------------------------------------------------------------------------
(* Properties *)

\* The object's number is still that of the socket its own __init__ opened: it is
\* not after a close() that reported an error.
HasSocket(d) == ensure_open(d) /\ fdt[obj[d].fd].by = d

\* No leak: every utun socket is the one its object would close, or a local of an
\* __init__ in progress, whatever fails and in whatever order threads call.  Needs
\* ~ReinitOpen: __init__ on an open object drops the socket it had.
NoOrphan ==
  \A m \in Fds : fdt[m].kind = "utun" =>
    \/ HasSocket(fdt[m].by) /\ obj[fdt[m].by].fd = m
    \/ \E t \in Threads : call[t].at \in {"connect", "name"} /\ call[t].fd = m

\* The name an object configures by is that of the unit its data go through.  Needs
\* ~ReinitOpen: of two __init__ of one object, one may get the number another lost.
NameIsUnit ==
  \A d \in Devices : HasSocket(d) => /\ fdt[obj[d].fd].unit = obj[d].ifname
                                     /\ utun[obj[d].ifname].owner = "own"

\* The unit an object holds: its socket's, from connect() on.
Held(d) ==
  IF HasSocket(d) THEN fdt[obj[d].fd].unit
  ELSE LET naming == {t \in Threads : call[t].at = "name" /\ call[t].dev = d}
       IN  IF naming = {} THEN NULL ELSE fdt[call[CHOOSE t \in naming : TRUE].fd].unit

Lease == INSTANCE TunLease WITH
  Names <- Units,
  lease <- [d \in Devices |-> Held(d)],
  iface <- [u \in Units |-> IF utun[u].owner = "own" THEN "private" ELSE "none"],
  kept  <- {}

\* The macOS backend implements the contract of TunLease: with other programs
\* taking units between the steps of the loop, and errors at any of them, no two
\* objects share a unit and none stays behind when its socket is closed.  Needs
\* ~ReinitOpen.
LeaseSpec == Lease!Spec

\* The loop misses no unit: it gives up only if each was taken at some time since
\* it began, and takes one only if each lower one was.
LoopMissesNone ==
  [][\A t \in Threads : call[t].at = "connect" /\ call[t].auto =>
       /\ InitNoUnit(t) => call[t].free = {}
       /\ InitConnect(t) => \A u \in call[t].free : u >= call[t].unit]_vars

\* An ifconfig run for an object with its socket changes that socket's interface;
\* one for any other object is an addr or mtu of a name it had.
SettingsHitOwnUnit ==
  [][\A t \in Threads, u \in Units :
       utun'[u] # utun[u] /\ IfconfigOk(t) =>
         IF HasSocket(call[t].dev) THEN u = Held(call[t].dev)
         ELSE call[t].cmd \in StateCmds => ensure_open(call[t].dev)]_vars

\* The first global address an interface gets is read back, whatever link-local
\* addresses are there before it.
FirstAddrReadsBack ==
  [][\A t \in Threads, d \in Devices :
       /\ IfconfigOk(t) /\ call[t].dev = d /\ call[t].cmd[1] = "inet6"
       /\ \A i \in DOMAIN utun[call[t].unit].addrs : utun[call[t].unit].addrs[i] \in LinkLocal
       /\ call[t].cmd[2] \notin LinkLocal
       => get_addr(d)' = call[t].cmd[2]]_vars
=============================================================================
