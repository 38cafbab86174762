# TLA+ models of py-tuntap-abi3

py-tuntap-abi3 is a CPython extension with one type, `TunTapDevice`, that opens a
TUN/TAP interface and reads and writes its packets on Linux, macOS and Windows.
This directory holds TLA+ modules translated from its source, TLC configurations
that check them on small instances, and proofs for every instance. Paths below
are relative to the repository; a line number is that of the commit modelled.

## Inventory

| Component | State it keeps | Operations | Where |
|---|---|---|---|
| `TunTapDevice` type | the fields of an object: `fd`, `is_closed`, `ifname`, and on Windows `wintun_module`, `adapter`, `session`, two events, `addr_value`, `mtu_value` | `tp_new`, `tp_init`, `tp_dealloc`, table of methods and attributes | `src/native/module.c`, `device_common.h` |
| Linux backend | none of its own: the process's descriptor table, the kernel's interfaces | `__init__`, `close`, `up`, `down`, `read`, `write`, `fileno`, `persist`, `mq_attach`, `name`, `addr`, `mtu` | `src/native/linux_backend.c` |
| macOS backend | none of its own: control sockets, utun units | the same methods, on utun and `ifconfig` | `src/native/darwin_backend.c` |
| Windows backend | one static table of function pointers; the DLL's reference count; adapters, sessions, events | the same methods, on Wintun | `src/native/windows_backend.c` |
| Client in the tests | a deadline, a child `ping` | select/read loop, echo reply | `tests/test_tunnel_linux.py`, `test_tunnel_macos.py`, `_packet_helpers.py` |
| Python package | the process's DLL search path | choice of the architecture | `py_tuntap_abi3/__init__.py` |
| Build of the Windows payload | files under `wintun/bin/<arch>` | fetch, verify, stage, package, check the wheel | `scripts/`, `setup.py`, `packaging/` |

How they interact. Python threads call the type's methods under the interpreter
lock (GIL), which no backend ever releases. A backend acts on the operating
system, which other threads' and programs' system calls change at the same time.
On Linux and macOS two names stand for one interface: the descriptor (data, and on
Linux persist and mq_attach) and `ifname` (up, down, addr, mtu). On Windows all
objects share one table of pointers into a DLL each of them has a reference to. The
package picks the directory the DLL is loaded from, which the build has filled.

What is hard here, and what must hold:

- *Threads.* Functions run to their end except where Python code runs during
  argument conversion (`linux_backend.c:43`, `darwin_backend.c:73`) and inside
  blocking system calls, which keep the GIL. An object's descriptor must stay its
  own, and a reader's object must stay open under it.
- *Other programs.* They take, give back and rename interfaces, units and addresses
  between any two system calls, also in the middle of the loop over utun units.
- *Blocking.* `read` blocks with the GIL held. A client that asks `select` first
  must never stop the interpreter; on Windows, `read` must return when it can.
- *Partial failure.* `__init__` fails between two steps, `close(2)` reports an
  error, `CreateEventW` fails unnoticed, a fetch stops between two files. Nothing
  may be left behind, or mixed up.
- *Order of calls.* `__init__` on an open object, setters on a closed one, `persist`
  before or after deletion, `down` then `close` then `up`.
- *Staleness.* The name outlives the interface, a pointer the DLL, a signal the
  packet, a staged file the pin it was fetched for.
- *Numbers.* A `long` is cut to an `int` (`linux_backend.c:360`), a timeout to a
  DWORD (`windows_backend.c:180`); the checksum folds carries and pads odd lengths.

PROJECT.json lists every hazard at its line with the properties that cover it.

## Modules

| Module | What it is |
|---|---|
| `TunLease` | abstract: what an object promises about interfaces on any platform (acquire, release, keep, vanish, rename) |
| `TunLeaseProofs` | what follows from that contract |
| `LinuxTun` | the type and the Linux backend over descriptor table and interfaces; implements `TunLease` |
| `LinuxTunProofs` | proofs about `LinuxTun` |
| `PolledReader` | threads that use `LinuxTun` as the echo test does (extends `LinuxTun`) |
| `PolledReaderProofs` | proofs about `PolledReader` (extends `LinuxTunProofs`) |
| `DarwinUtun` | the type and the macOS backend over control sockets and utun units; implements `TunLease` |
| `DarwinUtunProofs` | proofs about `DarwinUtun` |
| `WindowsTun` | the type and the Windows backend over DLL, adapters, sessions and events; implements `TunLease` |
| `WindowsTunProofs` | proofs about `WindowsTun` |
| `WheelPayload` | fetch, stage, package, verify and import of the Windows payload |
| `WheelPayloadProofs` | proofs about `WheelPayload` |
| `PacketFrames` | the ICMPv6 helpers of the tests, on frames that may be mangled |
| `ChecksumProofs` | proofs about the checksum loop of `PacketFrames` |
| `PacketFramesProofs` | proofs about the frames (extends `ChecksumProofs`) |
| `MC...` | instances for TLC |

Definitions marked "Mutant" are plausible bugs that the properties are shown to
catch; no action of `Next` uses one.

### LinuxTun

`obj[d]` are the C fields; `call[t]` is the extension function a thread is inside,
with its locals; `fdt` is the descriptor table; `links` the host's interfaces.

| Code | Actions |
|---|---|
| `TunTapDevice_init` + `pytun_backend_init` | `InitBegin` (reset, conversion begins), `InitError`, `InitOpen`, `InitAttach`, `InitAttachError` |
| `pytun_backend_close`, `_dealloc` | `Close`, `CloseError`, `Dealloc` |
| `_up`, `_down` (`ioctl_flags`) | `FlagsGet`, `FlagsSet` |
| `_read` | `ReadBegin`, `ReadEnd`, `ReadError` |
| `_persist`, `_mq_attach` | `Persist`, `MqAttach` |
| `_set_mtu`, `_set_addr` | `SetMtu`; `SetAddrBegin`, `SetAddrEnd` |
| `_get_addr`, `_get_mtu` | operators `get_addr`, `get_mtu` |
| kernel, other programs, other code of the process | `PacketIn`, `LinkDelete`, `LinkAdd`, `LinkRename`, `LinkFlags`, `Autoconf`, `OtherOpen`, `OtherClose` |

A function with one system call that changes state is one action. A call that
raises before it changed anything is a stuttering step. `HoldsGil` are the stages
in which a function is stopped inside a system call; `Runs` lets no other thread
start meanwhile, and the environment goes on. `write`, `fileno` and `name` change
no state of the model. The kernel's part (who may attach, what the last close of a
queue does, how addresses are ordered, which number `open` returns) is external
and modelled as far as the backend depends on it.

`Lease` maps this state to `TunLease`: an object's lease is the interface its
descriptor is attached to; `LeaseSpec` is the abstract specification under the map.

Another program may delete an interface an object holds (`LinkDelete`) or give it
another name (`LinkRename`), which the object's `ifname` does not follow. `up`, `down`,
`addr` and `mtu` then go by the old name, which may be nobody's or, later, another
interface's. `IfnameTracksLink` and `ConfigHitsOwnLink` therefore speak of interfaces
that exist and that no other program has renamed since the object attached to them
(the auxiliary field `renamed` of a file): what they show is that no order of calls of
the extension parts name and descriptor. That the host can, and that the code then
configures whatever has the old name, is in the model and is not a violation of
anything the repository says. `LeaseSpec`, `LinkHeld` and `NoOrphan` go by the descriptor
and hold through deletions and renamings.

### PolledReader

Each thread runs the test's life of an object: make, up, select and read until the
echo request comes or the deadline passes, reply, close (`Finally`), and, when the test
returns, the deallocation of the object (`Drop`), which closes again if `close()` raised
(`linux_backend.c:75-81`). Setting addr and mtu, the frames and the `ping` process are
left out. `Ready` is what `select` reports: a packet, or the error state of a file of the
driver whose interface was deleted (`Detached`). A file of other code is never ready.

What is said of the test needs `close(2)` not to report errors. If it does, the object
stays open on a number that is free, and `Drop` closes that number under whoever has it
by then: between another thread's `select` and its `read` it may be that thread's. Other
code may then open the number, and the `read` waits, with the GIL, for a file of its own.
With `CloseErrs = TRUE` in `linux_polled.cfg`, TLC finds `ReadNeverBlocks` violated by
just these steps.

### DarwinUtun

`obj`, `call` and `fdt` are as in `LinuxTun`; `utun[u]` is the interface of unit u
(utun<u-1>), which exists as long as the socket connected to it. `connect` creates
it before the object has a name or a descriptor, so `__init__` is taken apart:

| Code | Actions |
|---|---|
| reset, argument, socket | `InitBegin`, `InitError`, `InitSocket` |
| `connect` once or in the loop | `InitConnect`, `InitNextUnit`, `InitNoUnit` |
| `UTUN_OPT_IFNAME`, the error paths | `InitNamed`, `InitRefused` |
| `pytun_backend_close`, `_dealloc` | `Close`, `CloseError`, `Dealloc` |
| `_read` | `ReadBegin`, `ReadEnd` |
| `_up`, `_down`, `_set_addr`, `_set_mtu` (`run_ifconfig`) | `Ifconfig` (the child is started), `IfconfigOk`, `IfconfigFails` |
| `_get_addr` | operator `get_addr` |
| other programs, kernel, other code | `OtherUp`, `OtherDown`, `Autoconf`, `OtherOpen`, `OtherClose` |

Assumed of the kernel: `connect` to a free unit fails only for want of privileges, and
then for every unit (`InitRefused`); addresses are listed in the order they were added.
`InitBegin` has no condition on the object, as `module.c:29-44` has none: with
`ReinitOpen` the program may call `__init__` on an object that is open, or while another
thread's call of it is converting its argument. Either loses a socket: the first because
the reset forgets it, the second because the later of two `__init__` overwrites the
earlier's. `NoOrphan`, `NameIsUnit`, `SettingsHitOwnUnit` and `LeaseSpec` are about
programs that do neither (`ReinitOpen = FALSE`). Under `TunLease` an object holds its unit
from `connect` on, before it knows its name.

### WindowsTun

`dll` is the reference count and address of the DLL, `api` the mapping the static
table's pointers are from; `adapters`, `sessions` and `events` say which object got
each handle value. Values and addresses are given out again after release, so a
stale one shows up as another object's. Each method is one action (no Python code
runs after its first change of state), except `read`: `ReadBegin`, then rounds of
`ReadPoll` and `ReadWoken` or `ReadGivesUp`. The driver puts a packet into the ring
(`PacketIn`) or ends the session (`Terminate`) first and sets the event later
(`Signal`), and takes packets out of the send ring (`PacketOut`) that `Write` filled.
`Forever` is the conversion of the timeout to a DWORD: one that leaves 2^w - 1 means
INFINITE. `SetMtu` and `SetAddr` change fields of the object only, which no property
is about.

### WheelPayload

`staged` is the working tree's `wintun/bin/<arch>`; a file is the release it is from
and whether all of it has been written. A fetch reads the pin (`FetchStart`), and for
each architecture downloads (`FetchDownload`), compares the hash (`FetchVerify`; a hash
is represented by the release it is of) and copies file after file: `FetchOpen` empties
one, `FetchCopy` completes it. `FetchStop` is every `fail`, exception and interrupt: it
may come between any two steps and undoes nothing. `Build` is `setup.py` on Windows,
`Verify` is `verify_wheels.py` (which wants one directory with a DLL in a wheel with "win"
in its name and no DLL in any other), `windows_arch` the choice made at import. The pin may
change at any time (`Checkout`). A build does not run during a fetch: the workflow runs
them one after the other (`pypi-build-publish.yml:35-47`).

### PacketFrames

Bytes are numbers, frames sequences. The kernel's request is cut, extended or has one
byte replaced anywhere before the test's helper parses it and builds a reply. Each
helper is an operator of the same name; `struct` and slices are external. The checksum's
loop is a recursive function over the number of words added (`Totals`), with the carry
added in after each one (`FoldCarry`). A request's message fits the header's length
field, 16 bits wide.

## Runs

Bounds are in the .cfg files. Two threads, objects and names are what any
of the pairwise hazards needs; identical ones are symmetric wherever no liveness
is checked.

| Run | Instance | Shows |
|---|---|---|
| `linux_lifecycle` | 2 threads, 2 objects, 2 names, descriptors 3-5, single- and multi-queue | descriptors, interfaces and names are neither leaked nor crossed nor taken from a reader; the backend implements `TunLease` |
| `linux_config` | 2 threads, 2 objects, 2 names, 1 descriptor, a global and a link-local address, an MTU besides the default; `close(2)` may report an error (`CloseErrs`) | no descriptor or interface is left without an object, although numbers are closed twice; configuration by name hits the interface of an object that has its file, until another program deletes or renames it; a new address reads back |
| `linux_polled` | 2 threads with an object each, queue of one packet; no errors of `close(2)` | a polled read never blocks, the GIL is given back, every thread ends and leaves nothing open |
| `windows_device` | 1 thread, 2 objects, 2 adapters, sessions and DLL addresses, 1 event, rings of 1, 4-bit DWORD | no call through a stale pointer or handle; nothing left behind; no lost wakeup; a timeout is prolonged only by old signals; the backend implements `TunLease`; `read` returns whenever it has a reason to |
| `darwin_utun` | 2 threads, 2 objects, 2 descriptors, 2 units, another program; `close(2)` may report an error; `__init__` on objects that are neither open nor under construction | the loop misses no free unit; no socket is leaked; name, settings and data mean one unit; the backend implements `TunLease` |
| `wheel_payload` | 2 releases, 2 kinds of files, fetches of one or two architectures | a finished fetch leaves whole files of one release whatever was broken off before; nothing unverified is staged; what a verified wheel holds |
| `packet_frames` | 2 platforms, 4 payloads, 3 identifiers, 6 byte values | replies have a right checksum, answer what was asked, and nothing else is answered |

Five runs state what a document, a comment or a test of the repository says and
find the code at odds with it:

| Run | Property | What happens |
|---|---|---|
| `linux_addr_readback` | `AddrReadsBack` (`tests/test_tunnel_linux.py:73`) | set a1, a2, a1: the getter says a2, for `ip addr replace` leaves a1 where it is |
| `linux_mtu_readback` | `MtuReadsBack` (`tests/test_tunnel_linux.py:74`) | an MTU wider than an int is truncated and accepted |
| `linux_closed_config` | `ClosedIsInert` (`linux_backend.c:28`) | the mtu or addr of a closed object configures whatever has its old name |
| `windows_reinit` | `AdaptersReleased` (`wintun.h:55-56`) | `__init__` again on an open object, refused or not: the adapter it had is in no object |
| `wheel_import` | `ImportFindsPayload` (`README.md:30`) | a 32-bit or emulated Python looks for the payload in the machine's directory, not its own |

Why the bounds are enough. A crossed descriptor takes two openers and one number
that is freed and taken again; three numbers give each object one and other code one.
A private interface shared takes two objects and one name; the second name lets an
interface be deleted and another taken instead. One packet and an empty queue are
the two cases a read distinguishes. Integers are 4 bits wide (`IntModulus = 16`) with
one MTU in range and one that is in range only after truncation. `OtherFlags` is empty
in the runs: no property reads a flag besides UP. `linux_config` has one
descriptor number, which is the stale number of one object and the next object's or other
code's; the interface that must not be hit is another program's, or a kept one.

On Windows, `MaxRx` bounds the packets in the ring and the signals under way: with one
packet taken before its signal is set there is a signal left over, under way or
set, which is what `RestartsAreStale` counts. The timeouts are 5, the default -1 and 31,
which is INFINITE in a 4-bit DWORD. `MaxRestarts` bounds an auxiliary counter above the
value the property allows, so it cuts off nothing but violations. One event value is
enough for a stale one to be given out again.

On macOS, two units are the least for the loop to have a next one and a last one;
`Preferred` has one unit that exists and one that does not. The platforms of the wheel runs
are one that names its architecture, one for which `setup.py` falls back on environment
and machine, and one without "win" in its name. In `wheel_payload` a kind of
file more or less changes nothing: two are needed for a mix. In `packet_frames` the
payloads have even and odd lengths and words whose sum carries, and the replaced byte
takes the values the parser compares with, their neighbours and the extremes.
`packet_frames` ends after the answer, so it does not check deadlock.

Fairness. Safety properties assume none. `linux_polled` assumes that a thread which can
go on does (the system schedules it, and the GIL is handed over) and that time
passes; no packet need ever arrive and the host may delete interfaces at will.
`windows_device` assumes the reader goes on and that the driver sets the event some
time after it changed the ring; again no packet need arrive.

## Proofs

The theorems hold for all sets of threads, objects, names, numbers and payloads, from
the named assumptions of each module (types of the constants, `NULL` is no value; see
the `ASSUME`s). `CloseErrs` (may `close(2)` report an error) and `ReinitOpen` (may the
program call `__init__` on an object that is open or under construction, on Windows
one that holds something) are constants; a theorem that needs one to be FALSE says so. Each proof is
one inductive invariant and one lemma per part of it, with a case per action.

| Property of a run | `LinuxTun` | `DarwinUtun` | `WindowsTun` |
|---|---|---|---|
| `TypeOK` | `TypeCorrect` | `TypeCorrect` | `TypeCorrect` |
| nothing is leaked | `NoLeak`, `InterfaceSafe` (no reinit) | `NoSocketLost` (no reinit) | `NothingLeftBehind` (no reinit) |
| nothing is crossed | `DescriptorSafe`, `NameSafe` (no close errors) | `NameKept` (no reinit) | `HandlesOwned`, `PointersMapped` |
| settings reach the object's own interface | `SettingsHitOwnLink` | `SettingsReachOwnUnit` (no reinit) | (fields only) |
| a new address is read back | `NewAddrIsRead` | `FirstAddrIsRead` | |
| what was set is read back | `LoneAddrIsRead` (one global address), `NarrowMtuIsRead` (numbers that fit the int) | | |
| the reader | `ReaderSafe`, `ReadsFindSomething` (no close errors) | | `WakeupKept`, `RestartsBounded` |
| the loop over units | | `LoopTakesLowest` | |
| `LeaseSpec` | `BackendKeepsLease` (neither) | `BackendKeepsLease` (no reinit) | `BackendKeepsLease` (no reinit) |

The assumptions are needed. With close errors on Linux, the object stays open on a number
that is free (`linux_backend.c:85`) and the next object's later: both then hold its
interface, and a second `close` takes it away, also from under a `read`, which is why
`ReadsFindSomething` excludes them. With reinit, `module.c:31` forgets what the
object held; run `windows_reinit` shows it for an adapter. Either constant set to TRUE in
`linux_lifecycle.cfg` lets TLC find a step that is none of the contract's.

*LinuxTunProofs.* `CoreInv` is `TypeOK` with `CallOK` (the stage of a call determines its
locals), `OneHolder` (at most one thread holds the GIL in a system call), `FileOK` and
`AttachOK` (a file's fields go together; a thread between `open` and `TUNSETIFF` has a tun
file that nobody else has and that has no interface yet) and `LinkUsed` (an interface
that is not kept has a file). Beyond it:

- `ReaderSafe` rests on `OneHolder`: a blocked reader holds the GIL, so no thread can start
  `close` or `__init__`.
- `DescriptorSafe`: `FreshFd` (a thread about to attach holds a file that no open object
  has) is what makes `OwnDescriptor` and `IfnameTracksLink` inductive, with reinit, too.
- `NoLeak`: `OneInit` and `PendingClosed` say that an object under construction is closed and
  has one constructor; `LinkHeld` follows with `LinkUsed`.
- `SettingsHitOwnLink`: `OwnNamed` (an object with a file of its own has its interface's name,
  as long as there is one that was not renamed) holds with close errors and reinit;
  `IfnameTracksLink` holds with reinit only.
- `NewAddrIsRead`: the new address is the head of the list `getifaddrs` returns.
- `LoneAddrIsRead`, `NarrowMtuIsRead`: two of the properties a run finds violated hold where
  their counterexamples cannot be built. With one global address, the getter's loop
  stops at the first global entry of the list, which is that one; that a list which has
  one has a first is induction (`LeastNumber`). A number that fits the int is not
  truncated, and the interface that gets the mtu is the one it is read from.
- `BackendKeepsLease`: each action is mapped to an action of `TunLease` or a stutter, from all
  of the above and `QueueOn` (a file of an interface with one queue is on).
- `NeverShared`: `LeaseSafe` of `TunLeaseProofs`, instantiated with the same mapping, gives
  that two open objects never share an interface that is not multi-queue. The invariant
  is proved once of the contract and holds of the code by refinement.

*PolledReaderProofs.* `TestIsLinux`: every behaviour of the test is one of `LinuxTun`, so
its theorems hold of the test (`TestLeaksNone`). `ReadsFindSomething` (`ReadNeverBlocks`):
`LiveOwn` says that between `__init__` and `close` a thread's object is open on the file it
opened itself, and `Dropped` that what a thread leaves for the deallocation is closed
already; so nobody else reads its queue or closes its file, and what `select` announced is
there when the thread reads (`ReadReady`). Deletion of the interface in between is
announced too. All of this is without errors of `close(2)`; `TestLeaksNone` holds with
them.

*DarwinUtunProofs.* `CoreInv` has, beside types, locals and `OneHolder`: `FileOK` and
`UnitUsed` (units and connected sockets belong to one another), `AttachOK` (the socket in
the hands of `__init__`) and `LoopOK` (every unit the ghost field `free` still names is
free and not behind the loop's next unit). It holds with reinit; `LoopTakesLowest` and
`FirstAddrIsRead` need no more. `OwnInv` adds what `module.c:31` breaks when the program
calls `__init__` on an object that is open, or that another thread's `__init__` is at:
`InitOK` (an object under construction is closed and has one constructor), `SocketNamed`
(the name is that of the socket's unit) and `NoOrphan`. No theorem needs an assumption on
`CloseErrs`: they speak of objects that have the socket they opened, and one whose number
another object's second `close` took has none any more. `FirstAddrIsRead`: behind
link-local addresses the new one is the only one the getter's loop stops at.
`NeverShared`: from the contract, as on Linux, a unit of the process is held by one object
and one only, again without reinit. (On Windows `HandlesOwned` and `NothingLeftBehind` say
as much of adapters.)

*WindowsTunProofs.* `CoreInv`: `DllOK` (the DLL is loaded at least once for each object with
a module handle, and while it is loaded the table is filled from its mapping), `Nested`
(no cancel event without session, no session without adapter, no adapter without DLL),
`ReaderOK` (one thread is in `read`, on an object with a session) and `OwnHandles`. They hold
with reinit, which only makes the count too high. `WakeInv` is about a `read` and the ring
it reads: while the ring is empty, the timeouts begun anew and the signals set or under
way together are no more than the signals that were left over when it was called, and
one for the end of the session. It gives both `NoLostWakeup` and `RestartsAreStale`, and
shows that the bound on restarts does not depend on the size of the ring.

*WheelPayloadProofs.* `PayloadInv`: `FetchOK` says that while a fetch writes, what it writes is
of the release it verified, and each file of the architecture it is at is either yet to
be written or whole and of this release. `WheelOK` says that a wheel's files are of one
architecture. `FetchCompletes`, `WheelVerified`, `OnlyVerifiedIsStaged` follow.
`NativeImportFinds`: what `wheel_import` finds violated holds if machines run Pythons of their
own architecture only.

*ChecksumProofs.* The loop adds the carry in after each word. `Carries16`: that takes 2^16 - 1
off the total, or nothing, and the total fits 16 bits. `TotalIsSum`: after any number of
words the plain sum is therefore the total and a multiple of 2^16 - 1. `Verifies`: filling a
blank word with the inverted total makes the sum a multiple of 2^16 - 1, which is not 0. The
induction is one over a set of numbers (`Every`), by the least counterexample: the library's
`WFMin` takes a set and a relation, which the provers can instantiate, where its induction
theorems take an operator. `Recursion` unfolds a recursive function on `0 .. n`.

*PacketFramesProofs.* Frames are described byte by byte: `Carries` says where in a frame the
fields of an echo are, and that every byte is one. `FrameBuilt` shows that what the helpers
build carries the fields it was built from, `Parsed` that the parser reads them back,
`Shorter` and `Longer` what one byte less or more does. `FrameInv` says what a frame still
carries after the damage done to it. `RepliesAnswer` and `WholeRequestsAnswered` then hold for
any identifiers and data. `RepliesVerify`: the checksum is word 22 of pseudo header and
message, and all other words are those it was computed from (`Checked`), so `Verifies`
applies; `TakenApart` finds these bytes again in the reply. (`Ones16` names 65535: the
provers treat a literal of this size badly, so it is unfolded where needed only.)

*TunLeaseProofs.* `LeaseSafe` derives from the contract that a private interface has one
holder and that interfaces exist exactly while held or kept.

Model-checked only:

- Liveness (`GilReturned`, `AllEnd`, `ReadReturns`): the prover handles neither fairness
  arguments nor ENABLED.
- The five violations, which are counterexamples. Three of the properties are proved under
  an assumption that excludes the counterexample (`LoneAddrIsRead`, `NarrowMtuIsRead`,
  `NativeImportFinds`), and `AdaptersReleased`, a part of `NothingLeft`, without reinit
  (`NothingLeftBehind`). `ClosedIsInert` has no such theorem: any mtu or addr assigned to
  a closed object whose old name exists again breaks it.

No module here has a recursive operator; what recursion there is is a function over an
index.

## Not modelled

- Which bytes `read` and `write` move; on Linux and macOS `write` changes nothing the
  other operations see.
- `persist` and `mq_attach` on macOS and Windows, `fileno` on Windows: empty functions.
- The errno an exception carries, and which of the failures a caller sees.
- Descriptors inherited by child processes (`open` without `O_CLOEXEC`): the backends' own
  children have ended when the call returns, and the echo test's `Popen` closes them.
- The configuration tests and the macOS test's loop: linear calls, and the loop of
  `PolledReader` again.
- Getters' own temporary sockets; memory management of CPython objects.
- Module creation, `exceptions.py`, CI and repository checks: linear, without state to
  interleave.
- The wheel's other files and its tags (`verify_wheels.py:25-28`): file names only.
- Wintun itself, third-party code: the environment of `WindowsTun`.

## Plan

Every component with state of its own is modelled, and every invariant, safety property of
steps and refinement a passing run checks is proved from the assumptions named above. The liveness
properties stay with TLC. Nothing else is left of the plan; a change to the code starts at
the rows of PROJECT.json that name its lines.
