------------------------------ MODULE WindowsTun ------------------------------
(***************************************************************************)
(* The TunTapDevice of the extension on Windows (src/native/module.c and   *)
(* src/native/windows_backend.c) on top of Wintun: the DLL the objects load *)
(* and share one table of function pointers of, and the handles of adapters, *)
(* sessions and events they get from it and must give back.                *)
(*                                                                         *)
(* No function of the backend releases the GIL or runs Python code after   *)
(* its first change of state, so each is one action, except read(), which  *)
(* polls the session's ring and then waits with the GIL held.  The driver  *)
(* goes on in the meantime.                                                *)
(***************************************************************************)
EXTENDS Integers, FiniteSets

CONSTANTS
  Threads,      \* Python threads of the process
  Devices,      \* TunTapDevice objects (slots)
  Adapters, Sessions, Events,   \* handle values, given out again once released
  Bases,        \* addresses the DLL may be mapped at
  MtuArgs,      \* positive integers assigned to dev.mtu
  AddrArgs,     \* strings assigned to dev.addr that fit its 64 bytes
  Timeouts,     \* integers given to read() as its timeout
  DwordModulus, \* 2^w for the w bits of a DWORD
  MaxTx,        \* packets a send ring holds
  MaxRx,        \* bound on the packets in a receive ring, and on the signals under way
  MaxRestarts,  \* bound on the counter of waits begun anew by one read()
  ReinitOpen,   \* may the program call __init__ on an object that holds something?
  NULL

ASSUME NullAssumption == 
  NULL \notin Devices \cup Adapters \cup Sessions \cup Events \cup Bases \cup AddrArgs
ASSUME BoundAssumption == /\ MaxRx \in Nat /\ MaxRestarts \in Nat
                          /\ MaxTx \in Nat /\ MtuArgs \subseteq Nat \ {0}
                          /\ Timeouts \subseteq Int /\ DwordModulus \in Nat \ {0}
                          /\ ReinitOpen \in BOOLEAN

VARIABLES
  obj,       \* obj[d]: the fields of object d
  call,      \* call[t]: the read() thread t is inside
  dll,       \* how often drywintun.dll is loaded, and where it is mapped
  api,       \* the mapping the pointers of the static table are from
  adapters,  \* adapters[a], sessions[s], events[e]: what the handle stands for
  sessions,
  events

vars == <<obj, call, dll, api, adapters, sessions, events>>

-----------------------------------------------------------------------------
(* The data *)

\* Mutant: 0 is taken for the initial MTU.
FreshZeroed == [is_closed |-> TRUE, wintun_module |-> NULL, adapter |-> NULL, session |-> NULL,
                read_wait_event |-> NULL, read_cancel_event |-> NULL,
                addr_value |-> NULL, mtu_value |-> 0]

\* What __init__ leaves in an object that got the DLL at this base and adapter a.
Opened(base, a) == [is_closed |-> a = NULL, wintun_module |-> base, adapter |-> a,
                    session |-> NULL, read_wait_event |-> NULL, read_cancel_event |-> NULL,
                    addr_value |-> NULL, mtu_value |-> 1500]

\* What __init__ sets before it calls the backend, and what a new object holds.
Fresh == Opened(NULL, NULL)

\* "poll": about to ask the ring; "wait": in WaitForMultipleObjects, forever or
\* for the timeout given.  `restarts` counts the waits of this read() after the
\* first, each of which begins its timeout anew, and `stale` the signals already
\* set or under way when it was called with an empty ring (both auxiliary).
Idle == [at |-> "idle", dev |-> NULL, forever |-> FALSE, restarts |-> 0, stale |-> 0]

\* `by` is auxiliary: the object that got the handle.  A session's read-wait
\* event goes by the name of the session: it lives and dies with it.  The driver
\* sets it after it has changed the ring: `pending` counts the signals under way.
NoAdapter == [by |-> NULL]
Session(d, a) == [by |-> d, adapter |-> a, rx |-> 0, tx |-> 0,
                  pending |-> 0, signaled |-> FALSE, eof |-> FALSE]
NoSession == Session(NULL, NULL)
NoEvent   == [by |-> NULL]

Live(handles, h) == h # NULL /\ handles[h].by # NULL

Objects == [is_closed : BOOLEAN, wintun_module : Bases \cup {NULL},
            adapter : Adapters \cup {NULL}, session : Sessions \cup {NULL},
            read_wait_event : Sessions \cup {NULL}, read_cancel_event : Events \cup {NULL},
            addr_value : AddrArgs \cup {NULL}, mtu_value : MtuArgs \cup {1500}]

Calls == [at : {"idle", "poll", "wait"}, dev : Devices \cup {NULL},
          forever : BOOLEAN, restarts : 0 .. MaxRestarts, stale : Nat]

Rings == [by : Devices \cup {NULL}, adapter : Adapters \cup {NULL},
          rx : 0 .. MaxRx, tx : 0 .. MaxTx, pending : 0 .. MaxRx,
          signaled : BOOLEAN, eof : BOOLEAN]

TypeOK ==
  /\ obj \in [Devices -> Objects]
  /\ call \in [Threads -> Calls]
  /\ dll \in [refs : Nat, base : Bases \cup {NULL}]
  /\ api \in Bases \cup {NULL}
  /\ adapters \in [Adapters -> [by : Devices \cup {NULL}]]
  /\ sessions \in [Sessions -> Rings]
  /\ events \in [Events -> [by : Devices \cup {NULL}]]

-----------------------------------------------------------------------------
(* The GIL, and the conditions the code tests *)

\* read() keeps the GIL from its first poll to its return.
Runs(t) == \A u \in Threads : call[u].at = "idle"

\* The object has a session.
ensure_session(d) == obj[d].session # NULL

\* The two handles read() waits on.
WaitHandle(d)   == obj[d].read_wait_event
CancelHandle(d) == obj[d].read_cancel_event

InCall(d) == \E t \in Threads : call[t].dev = d

-----------------------------------------------------------------------------
(* The extension *)

\* Mutant: a filled table is taken for a loaded DLL.
LoadOnce(base) ==
  IF api = NULL THEN base \in Bases /\ dll' = [refs |-> 1, base |-> base] /\ api' = base
                ELSE base = api /\ UNCHANGED <<dll, api>>

\* load_wintun_api on an object whose fields are reset: LoadLibraryW counts, and
\* maps the DLL if it was not; the table gets the addresses of this mapping.
load_wintun_api(base) ==
  /\ IF dll.refs = 0 THEN base \in Bases ELSE base = dll.base
  /\ dll' = [refs |-> dll.refs + 1, base |-> base]
  /\ api' = base

\* FreeLibrary unmaps the DLL with the last reference.
FreeLibrary ==
  dll' = IF dll.refs = 1 THEN [refs |-> 0, base |-> NULL]
                         ELSE [dll EXCEPT !.refs = @ - 1]

\* __init__ resets the fields, whatever they hold.
MayInit(t, d) == Runs(t) /\ (ReinitOpen \/ obj[d].wintun_module = NULL)

\* The arguments are bad or the DLL is not found; or a function is missing from
\* it, and it is freed again after its addresses were put into the table.
InitNoDll(t, d) ==
  /\ MayInit(t, d)
  /\ obj' = [obj EXCEPT ![d] = Fresh]
  /\ \/ UNCHANGED api
     \/ dll.refs = 0 /\ api' \in Bases
  /\ UNCHANGED <<call, dll, adapters, sessions, events>>

\* The name is bad, or WintunCreateAdapter fails: the DLL stays loaded.
InitNoAdapter(t, d) ==
  /\ MayInit(t, d)
  /\ \E base \in Bases :
       /\ load_wintun_api(base)
       /\ obj' = [obj EXCEPT ![d] = Opened(base, NULL)]
  /\ UNCHANGED <<call, adapters, sessions, events>>

InitOk(t, d) ==
  /\ MayInit(t, d)
  /\ \E base \in Bases, a \in Adapters :
       /\ load_wintun_api(base)
       /\ ~Live(adapters, a)
       /\ adapters' = [adapters EXCEPT ![a].by = d]
       /\ obj' = [obj EXCEPT ![d] = Opened(base, a)]
  /\ UNCHANGED <<call, sessions, events>>

\* CloseHandle, then WintunEndSession.
EndSession(d) ==
  /\ events' = IF obj[d].read_cancel_event = NULL THEN events
               ELSE [events EXCEPT ![obj[d].read_cancel_event] = NoEvent]
  /\ sessions' = IF obj[d].session = NULL THEN sessions
                 ELSE [sessions EXCEPT ![obj[d].session] = NoSession]

\* Mutant: down() leaves the handle of the session it ended.
DownKeepsSession(t, d) ==
  /\ Runs(t)
  /\ EndSession(d)
  /\ obj' = [obj EXCEPT ![d].read_cancel_event = NULL]
  /\ UNCHANGED <<call, dll, api, adapters>>

\* down(): read_wait_event stays.
Down(t, d) ==
  /\ Runs(t)
  /\ EndSession(d)
  /\ obj' = [obj EXCEPT ![d].read_cancel_event = NULL, ![d].session = NULL]
  /\ UNCHANGED <<call, dll, api, adapters>>

\* Mutant: close() counts on the adapter to take its session along.
ReleaseAdapterOnly(d) ==
  /\ adapters' = IF obj[d].adapter = NULL THEN adapters
                 ELSE [adapters EXCEPT ![obj[d].adapter] = NoAdapter]
  /\ IF obj[d].wintun_module = NULL THEN UNCHANGED dll ELSE FreeLibrary
  /\ UNCHANGED <<call, api, sessions, events>>

\* close() and the body of tp_dealloc: cancel event, session, adapter, DLL.
Release(d) ==
  /\ EndSession(d)
  /\ adapters' = IF obj[d].adapter = NULL THEN adapters
                 ELSE [adapters EXCEPT ![obj[d].adapter] = NoAdapter]
  /\ IF obj[d].wintun_module = NULL THEN UNCHANGED dll ELSE FreeLibrary
  /\ UNCHANGED <<call, api>>

Close(t, d) ==
  /\ Runs(t)
  /\ Release(d)
  /\ obj' = [obj EXCEPT ![d].read_cancel_event = NULL, ![d].session = NULL,
               ![d].adapter = NULL, ![d].wintun_module = NULL, ![d].is_closed = TRUE]

\* Mutant: tp_dealloc frees the memory only.
DeallocOnlyFrees(t, d) ==
  /\ Runs(t) /\ ~InCall(d) /\ obj[d] # Fresh
  /\ obj' = [obj EXCEPT ![d] = Fresh]
  /\ UNCHANGED <<call, dll, api, adapters, sessions, events>>

\* The last reference goes; the slot is then a new object.
Dealloc(t, d) ==
  /\ Runs(t) /\ ~InCall(d) /\ obj[d] # Fresh
  /\ Release(d)
  /\ obj' = [obj EXCEPT ![d] = Fresh]

\* up(): a session, its read-wait event and, unless CreateEventW fails, a cancel
\* event.  WintunStartSession may fail; with a session there is nothing to do.
Up(t, d) ==
  /\ Runs(t)
  /\ ~obj[d].is_closed /\ obj[d].adapter # NULL /\ obj[d].session = NULL
  /\ \E s \in Sessions, e \in Events \cup {NULL} :
       /\ ~Live(sessions, s)
       /\ sessions' = [sessions EXCEPT ![s] = Session(d, obj[d].adapter)]
       /\ IF e = NULL THEN UNCHANGED events
          ELSE ~Live(events, e) /\ events' = [events EXCEPT ![e].by = d]
       /\ obj' = [obj EXCEPT ![d].session = s, ![d].read_wait_event = s,
                             ![d].read_cancel_event = e]
  /\ UNCHANGED <<call, dll, api, adapters>>

\* The signals that a read() of session s called now will take for news.
StaleSignals(s) ==
  IF sessions[s].rx > 0 THEN 0
  ELSE sessions[s].pending + (IF sessions[s].signaled THEN 1 ELSE 0)

\* The DWORD INFINITE is the default, and what -1 and every number that leaves it
\* modulo 2^w are converted to.
Forever(timeout) == timeout % DwordModulus = DwordModulus - 1

\* Mutant: read() waits for the event before it asks the ring.
ReadBeginWaits(t, d, timeout) ==
  /\ Runs(t) /\ ensure_session(d)
  /\ call' = [call EXCEPT ![t] = [at |-> "wait", dev |-> d, forever |-> Forever(timeout),
                                  restarts |-> 0, stale |-> StaleSignals(obj[d].session)]]
  /\ UNCHANGED <<obj, dll, api, adapters, sessions, events>>

\* read() up to its loop.
ReadBegin(t, d, timeout) ==
  /\ Runs(t) /\ ensure_session(d)
  /\ call' = [call EXCEPT ![t] = [at |-> "poll", dev |-> d, forever |-> Forever(timeout),
                                  restarts |-> 0, stale |-> StaleSignals(obj[d].session)]]
  /\ UNCHANGED <<obj, dll, api, adapters, sessions, events>>

\* One round of the loop: a packet is taken, the session reports an error (its
\* adapter is going away), or there is nothing to take and the read waits.
ReadPoll(t) ==
  LET s == obj[call[t].dev].session
  IN  /\ call[t].at = "poll"
      /\ \/ /\ sessions[s].rx > 0
            /\ sessions' = [sessions EXCEPT ![s].rx = @ - 1]
            /\ call' = [call EXCEPT ![t] = Idle]
         \/ /\ sessions[s].rx = 0
            /\ call' = [call EXCEPT ![t] = IF sessions[s].eof THEN Idle
                                           ELSE [@ EXCEPT !.at = "wait"]]
            /\ UNCHANGED sessions
      /\ UNCHANGED <<obj, dll, api, adapters, events>>

\* Mutant: the event stays set (a manual-reset one).
ReadWokenKeepsSignal(t) ==
  LET d == call[t].dev
  IN  /\ call[t].at = "wait"
      /\ Live(sessions, WaitHandle(d)) /\ Live(events, CancelHandle(d))
      /\ sessions[WaitHandle(d)].signaled
      /\ call[t].restarts < MaxRestarts
      /\ call' = [call EXCEPT ![t].at = "poll", ![t].restarts = @ + 1]
      /\ UNCHANGED <<obj, dll, api, adapters, sessions, events>>

\* The read-wait event is set: the wait resets it and the loop polls again.
ReadWoken(t) ==
  LET d == call[t].dev
  IN  /\ call[t].at = "wait"
      /\ Live(sessions, WaitHandle(d)) /\ Live(events, CancelHandle(d))
      /\ sessions[WaitHandle(d)].signaled
      /\ call[t].restarts < MaxRestarts
      /\ sessions' = [sessions EXCEPT ![WaitHandle(d)].signaled = FALSE]
      /\ call' = [call EXCEPT ![t].at = "poll", ![t].restarts = @ + 1]
      /\ UNCHANGED <<obj, dll, api, adapters, events>>

\* TimeoutError, or WAIT_FAILED for a handle that is none.
ReadGivesUp(t) ==
  LET d == call[t].dev
  IN  /\ call[t].at = "wait"
      /\ \/ ~call[t].forever /\ ~sessions[WaitHandle(d)].signaled
         \/ ~Live(sessions, WaitHandle(d)) \/ ~Live(events, CancelHandle(d))
      /\ call' = [call EXCEPT ![t] = Idle]
      /\ UNCHANGED <<obj, dll, api, adapters, sessions, events>>

\* write(): a place in the send ring is taken, filled and sent; it raises when
\* there is none or the session has ended.
Write(t, d) ==
  LET s == obj[d].session
  IN  /\ Runs(t) /\ ensure_session(d)
      /\ ~sessions[s].eof /\ sessions[s].tx < MaxTx
      /\ sessions' = [sessions EXCEPT ![s].tx = @ + 1]
      /\ UNCHANGED <<obj, call, dll, api, adapters, events>>

\* dev.mtu = v and dev.addr = a: fields of the object, open or not; neither
\* reaches an interface.  The empty string is NULL: the getter returns None.
SetMtu(t, d, v) ==
  /\ Runs(t)
  /\ obj' = [obj EXCEPT ![d].mtu_value = v]
  /\ UNCHANGED <<call, dll, api, adapters, sessions, events>>

SetAddr(t, d, a) ==
  /\ Runs(t)
  /\ obj' = [obj EXCEPT ![d].addr_value = a]
  /\ UNCHANGED <<call, dll, api, adapters, sessions, events>>

-----------------------------------------------------------------------------
(* The driver *)

\* A packet goes into the ring; the event is set after that.
PacketIn(s) ==
  /\ Live(sessions, s) /\ ~sessions[s].eof
  /\ sessions[s].rx < MaxRx /\ sessions[s].pending < MaxRx
  /\ sessions' = [sessions EXCEPT ![s].rx = @ + 1, ![s].pending = @ + 1]
  /\ UNCHANGED <<obj, call, dll, api, adapters, events>>

\* It takes a packet out of the send ring.
PacketOut(s) ==
  /\ sessions[s].tx > 0
  /\ sessions' = [sessions EXCEPT ![s].tx = @ - 1]
  /\ UNCHANGED <<obj, call, dll, api, adapters, events>>

\* The adapter is removed under the session, and the event set after that.
Terminate(s) ==
  /\ Live(sessions, s) /\ ~sessions[s].eof /\ sessions[s].pending < MaxRx
  /\ sessions' = [sessions EXCEPT ![s].eof = TRUE, ![s].pending = @ + 1]
  /\ UNCHANGED <<obj, call, dll, api, adapters, events>>

\* The event is set: one signal, however often it is set before it is waited on.
Signal(s) ==
  /\ sessions[s].pending > 0
  /\ sessions' = [sessions EXCEPT ![s].pending = @ - 1, ![s].signaled = TRUE]
  /\ UNCHANGED <<obj, call, dll, api, adapters, events>>

-----------------------------------------------------------------------------
Init ==
  /\ obj = [d \in Devices |-> Fresh]
  /\ call = [t \in Threads |-> Idle]
  /\ dll = [refs |-> 0, base |-> NULL]
  /\ api = NULL
  /\ adapters = [a \in Adapters |-> NoAdapter]
  /\ sessions = [s \in Sessions |-> NoSession]
  /\ events = [e \in Events |-> NoEvent]

Read(t) == ReadPoll(t) \/ ReadWoken(t) \/ ReadGivesUp(t)

Extension(t) ==
  \/ \E d \in Devices :
       \/ InitNoDll(t, d) \/ InitNoAdapter(t, d) \/ InitOk(t, d)
       \/ Up(t, d) \/ Down(t, d) \/ Close(t, d) \/ Dealloc(t, d)
       \/ \E timeout \in Timeouts \cup {-1} : ReadBegin(t, d, timeout)
       \/ Write(t, d)
       \/ \E v \in MtuArgs : SetMtu(t, d, v)
       \/ \E a \in AddrArgs \cup {NULL} : SetAddr(t, d, a)
  \/ Read(t)

Next == \/ \E t \in Threads : Extension(t)
        \/ \E s \in Sessions : PacketIn(s) \/ PacketOut(s) \/ Terminate(s) \/ Signal(s)

Spec == Init /\ [][Next]_vars

\* A read() goes on whenever it can, and the driver sets the event in the end.
FairSpec == /\ Spec
            /\ \A t \in Threads : WF_vars(Read(t))
            /\ \A s \in Sessions : WF_vars(Signal(s))

-----------------------------------------------------------------------------
(* Properties *)

\* The pointers of the shared table lead into the mapped DLL whenever an object
\* may call through them, however the objects' loads and frees interleave.
ApiMapped ==
  \A d \in Devices : obj[d].adapter # NULL \/ obj[d].session # NULL =>
    dll.refs > 0 /\ api = dll.base

\* An object's handles are the ones it got and did not release yet: no call is
\* made on a handle that was released or is another object's by now.
OwnHandles ==
  \A d \in Devices :
    /\ obj[d].adapter # NULL => adapters[obj[d].adapter].by = d
    /\ obj[d].session # NULL => /\ sessions[obj[d].session].by = d
                                /\ sessions[obj[d].session].adapter = obj[d].adapter
                                /\ obj[d].read_wait_event = obj[d].session
    /\ obj[d].read_cancel_event # NULL => events[obj[d].read_cancel_event].by = d

\* What wintun.h:55-56 asks of a caller ("Must be released with
\* WintunCloseAdapter"): every adapter is in an object that will release it.
\* Needs ~ReinitOpen.
AdaptersReleased ==
  \A a \in Adapters : Live(adapters, a) => obj[adapters[a].by].adapter = a

\* Likewise for sessions, events and the DLL: an object that holds nothing left
\* nothing behind.  Needs ~ReinitOpen.
NothingLeft ==
  /\ AdaptersReleased
  /\ \A s \in Sessions : Live(sessions, s) => obj[sessions[s].by].session = s
  /\ \A e \in Events : Live(events, e) => obj[events[e].by].read_cancel_event = e
  /\ dll.refs = Cardinality({d \in Devices : obj[d].wintun_module # NULL})

Lease == INSTANCE TunLease WITH
  Names <- Adapters,
  lease <- [d \in Devices |-> obj[d].adapter],
  iface <- [a \in Adapters |-> IF Live(adapters, a) THEN "private" ELSE "none"],
  kept  <- {}

\* The Windows backend implements the contract of TunLease: an adapter is one
\* object's from __init__ to its close() or deallocation, through up() and down()
\* and whatever handle values are given out again.  Needs ~ReinitOpen.
LeaseSpec == Lease!Spec

\* No lost wakeup: a read() does not wait on a ring that has a packet, or on a
\* session that has ended, unless the event that ends the wait is set or about to be.
NoLostWakeup ==
  \A t \in Threads : call[t].at = "wait" =>
    LET s == sessions[obj[call[t].dev].session]
    IN  s.rx > 0 \/ s.eof => s.signaled \/ s.pending > 0

\* A read() begins its timeout anew (the loop of windows_backend.c:188 waits with
\* the whole `timeout` each time round) only for signals of packets that were
\* taken before it was called, so one that finds none of them gives up in time.
RestartsAreStale ==
  \A t \in Threads : call[t].at = "wait" => call[t].restarts <= call[t].stale

\* A read() with a packet to take, a timeout or an ended session returns.
ReadReturns ==
  \A t \in Threads :
    /\ call[t].at # "idle" /\ ~call[t].forever ~> call[t].at = "idle"
    /\ (\E s \in Sessions : /\ call[t].at # "idle" /\ obj[call[t].dev].session = s
                            /\ sessions[s].rx > 0 \/ sessions[s].eof)
       ~> call[t].at = "idle"
=============================================================================
