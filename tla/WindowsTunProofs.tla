-------------------------- MODULE WindowsTunProofs ---------------------------
(***************************************************************************)
(* Proofs about WindowsTun for every set of threads, objects, handle       *)
(* values, addresses and timeouts, and every size of the rings.            *)
(***************************************************************************)
EXTENDS WindowsTun, FiniteSetTheorems, TLAPS

(* Facts about the values the state is built from. *)

LEMMA Values ==
  /\ Fresh \in Objects
  /\ Idle \in Calls
  /\ NoSession \in Rings
  /\ \A base \in Bases, a \in Adapters \cup {NULL} : Opened(base, a) \in Objects
  /\ \A d \in Devices, a \in Adapters \cup {NULL} : Session(d, a) \in Rings
<1>1. Fresh \in Objects
  BY DEF Fresh, Opened, Objects
<1>2. Idle \in Calls
  BY BoundAssumption DEF Idle, Calls
<1>3. NoSession \in Rings
  BY BoundAssumption DEF NoSession, Session, Rings
<1>4. \A base \in Bases, a \in Adapters \cup {NULL} : Opened(base, a) \in Objects
  BY DEF Opened, Objects
<1>5. \A d \in Devices, a \in Adapters \cup {NULL} : Session(d, a) \in Rings
  BY BoundAssumption DEF Session, Rings
<1> QED BY <1>1, <1>2, <1>3, <1>4, <1>5

\* Assignments to one field of one object.
LEMMA FieldUpdate ==
  ASSUME NEW f \in [Devices -> Objects], NEW d \in Devices
  PROVE  /\ \A s \in Sessions \cup {NULL} : [f EXCEPT ![d].session = s] \in [Devices -> Objects]
         /\ \A s \in Sessions \cup {NULL} :
              [f EXCEPT ![d].read_wait_event = s] \in [Devices -> Objects]
         /\ \A e \in Events \cup {NULL} :
              [f EXCEPT ![d].read_cancel_event = e] \in [Devices -> Objects]
         /\ [f EXCEPT ![d].adapter = NULL] \in [Devices -> Objects]
         /\ [f EXCEPT ![d].wintun_module = NULL] \in [Devices -> Objects]
         /\ [f EXCEPT ![d].is_closed = TRUE] \in [Devices -> Objects]
         /\ \A a \in AddrArgs \cup {NULL} : [f EXCEPT ![d].addr_value = a] \in [Devices -> Objects]
         /\ \A v \in MtuArgs : [f EXCEPT ![d].mtu_value = v] \in [Devices -> Objects]
<1> USE DEF Objects
<1>1. ASSUME NEW s \in Sessions \cup {NULL}
      PROVE  /\ [f EXCEPT ![d].session = s] \in [Devices -> Objects]
             /\ [f EXCEPT ![d].read_wait_event = s] \in [Devices -> Objects]
  OBVIOUS
<1>2. ASSUME NEW e \in Events \cup {NULL}
      PROVE  [f EXCEPT ![d].read_cancel_event = e] \in [Devices -> Objects]
  OBVIOUS
<1>3. [f EXCEPT ![d].adapter = NULL] \in [Devices -> Objects]
  OBVIOUS
<1>4. [f EXCEPT ![d].wintun_module = NULL] \in [Devices -> Objects]
  OBVIOUS
<1>5. [f EXCEPT ![d].is_closed = TRUE] \in [Devices -> Objects]
  <2>1. \A b \in BOOLEAN : [f EXCEPT ![d].is_closed = b] \in [Devices -> Objects]
    OBVIOUS
  <2> HIDE DEF Objects
  <2> QED BY <2>1, Zenon
<1>6. ASSUME NEW a \in AddrArgs \cup {NULL}
      PROVE  [f EXCEPT ![d].addr_value = a] \in [Devices -> Objects]
  OBVIOUS
<1>7. ASSUME NEW v \in MtuArgs PROVE [f EXCEPT ![d].mtu_value = v] \in [Devices -> Objects]
  OBVIOUS
<1> QED BY <1>1, <1>2, <1>3, <1>4, <1>5, <1>6, <1>7

-----------------------------------------------------------------------------
(* The parts of the inductive invariant *)

\* The objects that count for a reference to the DLL.
Loaded == {d \in Devices : obj[d].wintun_module # NULL}

\* The DLL is loaded at least once for each of them, it is mapped while it is
\* loaded, and the table was filled from this mapping.
DllOK == /\ IsFiniteSet(Loaded) /\ Cardinality(Loaded) <= dll.refs
         /\ dll.refs > 0 => dll.base \in Bases /\ api = dll.base

\* An object has a cancel event only with a session, a session only with an
\* adapter, and an adapter only with the DLL.
Nested == \A d \in Devices :
            /\ obj[d].read_cancel_event # NULL => obj[d].session # NULL
            /\ obj[d].session # NULL => obj[d].adapter # NULL
            /\ obj[d].adapter # NULL => obj[d].wintun_module # NULL

\* A read() is on an object with a session, and at most one thread is in one.
ReaderOK == \A t \in Threads : call[t].at # "idle" =>
              /\ call[t].dev \in Devices /\ ensure_session(call[t].dev)
              /\ \A u \in Threads : call[u].at # "idle" => u = t

CoreInv == TypeOK /\ DllOK /\ Nested /\ ReaderOK /\ OwnHandles

-----------------------------------------------------------------------------
(* The DLL *)

\* A load of the DLL for d, counted once more if d had one.
LEMMA LoadStep ==
  ASSUME TypeOK, DllOK, NEW d \in Devices, NEW base \in Bases, load_wintun_api(base),
         Loaded' = Loaded \cup {d}
  PROVE  dll' \in [refs : Nat, base : Bases \cup {NULL}] /\ api' \in Bases /\ DllOK'
<1>1. dll.refs \in Nat /\ dll' = [refs |-> dll.refs + 1, base |-> base] /\ api' = base
  BY DEF load_wintun_api, TypeOK
<1>2. IsFiniteSet(Loaded') /\ Cardinality(Loaded') <= Cardinality(Loaded) + 1
  <2>1. IsFiniteSet(Loaded) /\ Cardinality(Loaded) \in Nat
    BY FS_CardinalityType DEF DllOK
  <2> QED BY <2>1, FS_AddElement
<1>3. Cardinality(Loaded) \in Nat /\ Cardinality(Loaded') \in Nat
  BY <1>2, FS_CardinalityType DEF DllOK
<1> QED BY <1>1, <1>2, <1>3 DEF DllOK

\* The free of the reference d held.
LEMMA FreeStep ==
  ASSUME TypeOK, DllOK, NEW d \in Loaded, FreeLibrary, UNCHANGED api,
         Loaded' = Loaded \ {d}
  PROVE  dll' \in [refs : Nat, base : Bases \cup {NULL}] /\ DllOK'
<1>1. IsFiniteSet(Loaded) /\ Cardinality(Loaded) \in Nat
  BY FS_CardinalityType DEF DllOK
<1>2. IsFiniteSet(Loaded') /\ Cardinality(Loaded') = Cardinality(Loaded) - 1
  BY <1>1, FS_RemoveElement
<1>3. Cardinality(Loaded') \in Nat
  BY <1>2, FS_CardinalityType
<1>4. dll.refs \in Nat /\ dll.refs > 0
  BY <1>1, <1>2, <1>3 DEF DllOK, TypeOK
<1>5. dll' = IF dll.refs = 1 THEN [refs |-> 0, base |-> NULL] ELSE [dll EXCEPT !.refs = @ - 1]
  BY DEF FreeLibrary
<1> QED BY <1>1, <1>2, <1>3, <1>4, <1>5 DEF DllOK, TypeOK

\* An object gone from the set leaves the rest as it was.
LEMMA ForgetStep ==
  ASSUME TypeOK, DllOK, NEW d \in Devices, UNCHANGED dll, dll.refs > 0 => UNCHANGED api,
         Loaded' \in {Loaded, Loaded \ {d}}
  PROVE  DllOK'
<1>1. IsFiniteSet(Loaded) /\ Cardinality(Loaded) \in Nat
  BY FS_CardinalityType DEF DllOK
<1>2. IsFiniteSet(Loaded') /\ Cardinality(Loaded') <= Cardinality(Loaded)
  BY <1>1, FS_Subset
<1>3. Cardinality(Loaded') \in Nat
  BY <1>2, FS_CardinalityType
<1> QED BY <1>1, <1>2, <1>3 DEF DllOK, TypeOK

-----------------------------------------------------------------------------
(* The steps of the extension, by what they touch *)

\* A step of a read(): the objects and the handles stay what they are.
ReadStep(t) == Read(t) \/ \E d \in Devices, timeout \in Timeouts \cup {-1} : ReadBegin(t, d, timeout)

\* A step that changes only what no handle is part of.
Setting(t, d) == \/ Write(t, d)
                 \/ \E v \in MtuArgs : SetMtu(t, d, v)
                 \/ \E a \in AddrArgs \cup {NULL} : SetAddr(t, d, a)

Driver(s) == PacketIn(s) \/ PacketOut(s) \/ Terminate(s) \/ Signal(s)

LEMMA Cases ==
  ASSUME [Next]_vars
  PROVE  \/ UNCHANGED vars
         \/ \E s \in Sessions : Driver(s)
         \/ \E t \in Threads : ReadStep(t)
         \/ \E t \in Threads, d \in Devices :
              \/ InitNoDll(t, d) \/ InitNoAdapter(t, d) \/ InitOk(t, d)
              \/ Up(t, d) \/ Down(t, d) \/ Close(t, d) \/ Dealloc(t, d) \/ Setting(t, d)
BY DEF Next, Extension, ReadStep, Setting, Driver

\* What becomes of the set of objects with the DLL.
LEMMA LoadedStep ==
  ASSUME TypeOK, NEW t \in Threads, NEW d \in Devices
  PROVE  /\ InitNoDll(t, d) \/ Close(t, d) \/ Dealloc(t, d) => Loaded' = Loaded \ {d}
         /\ InitNoAdapter(t, d) \/ InitOk(t, d) => Loaded' = Loaded \cup {d}
         /\ Up(t, d) \/ Down(t, d) \/ Setting(t, d) => Loaded' = Loaded
<1>1. ASSUME InitNoDll(t, d) \/ Close(t, d) \/ Dealloc(t, d) PROVE Loaded' = Loaded \ {d}
  BY <1>1 DEF InitNoDll, Close, Dealloc, Loaded, TypeOK, Objects, Fresh, Opened
<1>2. ASSUME InitNoAdapter(t, d) \/ InitOk(t, d) PROVE Loaded' = Loaded \cup {d}
  <2>1. \E base \in Bases, a \in Adapters \cup {NULL} : obj' = [obj EXCEPT ![d] = Opened(base, a)]
    BY <1>2 DEF InitNoAdapter, InitOk
  <2>2. \A base \in Bases, a \in Adapters \cup {NULL} : Opened(base, a).wintun_module # NULL
    BY NullAssumption DEF Opened
  <2> QED BY <2>1, <2>2 DEF Loaded, TypeOK
<1>3. ASSUME Up(t, d) \/ Down(t, d) \/ Setting(t, d) PROVE Loaded' = Loaded
  <2>1. \A e \in Devices : obj'[e].wintun_module = obj[e].wintun_module
    <3>1. CASE Up(t, d)
      BY <3>1 DEF Up, TypeOK, Objects
    <3>2. CASE Down(t, d)
      BY <3>2 DEF Down, TypeOK, Objects
    <3>3. CASE Write(t, d)
      BY <3>3 DEF Write
    <3>4. CASE \E v \in MtuArgs : SetMtu(t, d, v)
      BY <3>4 DEF SetMtu, TypeOK, Objects
    <3>5. CASE \E a \in AddrArgs \cup {NULL} : SetAddr(t, d, a)
      BY <3>5 DEF SetAddr, TypeOK, Objects
    <3> QED BY <1>3, <3>1, <3>2, <3>3, <3>4, <3>5 DEF Setting
  <2> QED BY <2>1 DEF Loaded
<1> QED BY <1>1, <1>2, <1>3

-----------------------------------------------------------------------------
(* The core invariant is kept *)

\* Neither the driver nor a read() changes whose a session is.
SameHandles == /\ UNCHANGED <<obj, dll, api, adapters, events>>
               /\ \A s \in Sessions : /\ sessions'[s].by = sessions[s].by
                                      /\ sessions'[s].adapter = sessions[s].adapter

LEMMA DriverFrame ==
  ASSUME TypeOK, NEW s \in Sessions, Driver(s)
  PROVE  UNCHANGED call /\ SameHandles
<1>1. CASE PacketIn(s)
  BY <1>1 DEF PacketIn, SameHandles, TypeOK, Rings
<1>2. CASE PacketOut(s)
  BY <1>2 DEF PacketOut, SameHandles, TypeOK, Rings
<1>3. CASE Terminate(s)
  BY <1>3 DEF Terminate, SameHandles, TypeOK, Rings
<1>4. CASE Signal(s)
  BY <1>4 DEF Signal, SameHandles, TypeOK, Rings
<1> QED BY <1>1, <1>2, <1>3, <1>4 DEF Driver

LEMMA ReadFrame ==
  ASSUME TypeOK, ReaderOK, NEW t \in Threads, ReadStep(t)
  PROVE  SameHandles
<1>1. CASE ReadPoll(t)
  BY <1>1 DEF ReadPoll, SameHandles, TypeOK, Rings
<1>2. CASE ReadWoken(t)
  BY <1>2 DEF ReadWoken, SameHandles, TypeOK, Rings
<1>3. CASE ReadGivesUp(t)
  BY <1>3 DEF ReadGivesUp, SameHandles
<1>4. ASSUME NEW d \in Devices, NEW timeout \in Timeouts \cup {-1}, ReadBegin(t, d, timeout)
      PROVE  SameHandles
  BY <1>4 DEF ReadBegin, SameHandles
<1> QED BY <1>1, <1>2, <1>3, <1>4 DEF ReadStep, Read

\* The parts of a session that the extension's calls and the driver work on.
LEMMA DriverType ==
  ASSUME TypeOK, NEW s \in Sessions, Driver(s)
  PROVE  sessions' \in [Sessions -> Rings]
<1> USE BoundAssumption DEF TypeOK, Rings
<1>1. CASE PacketIn(s)
  BY <1>1 DEF PacketIn
<1>2. CASE PacketOut(s)
  BY <1>2 DEF PacketOut
<1>3. CASE Terminate(s)
  BY <1>3 DEF Terminate
<1>4. CASE Signal(s)
  <2>1. sessions[s].pending - 1 \in 0 .. MaxRx
    BY <1>4 DEF Signal
  <2>2. [sessions[s] EXCEPT !.pending = @ - 1, !.signaled = TRUE] \in Rings
    BY <2>1
  <2> QED BY <1>4, <2>2 DEF Signal
<1> QED BY <1>1, <1>2, <1>3, <1>4 DEF Driver

LEMMA ReadType ==
  ASSUME TypeOK, ReaderOK, NEW t \in Threads, ReadStep(t)
  PROVE  sessions' \in [Sessions -> Rings] /\ call' \in [Threads -> Calls]
<1> USE BoundAssumption, Values DEF TypeOK
<1>1. CASE ReadPoll(t)
  <2>1. obj[call[t].dev].session \in Sessions
    BY <1>1 DEF ReadPoll, ReaderOK, ensure_session, Objects
  <2>2. sessions' \in [Sessions -> Rings]
    <3>1. ASSUME NEW s \in Sessions, sessions[s].rx > 0
          PROVE  [sessions[s] EXCEPT !.rx = @ - 1] \in Rings
      BY <3>1 DEF Rings
    <3> QED BY <1>1, <2>1, <3>1 DEF ReadPoll
  <2>3. [call[t] EXCEPT !.at = "wait"] \in Calls
    BY DEF Calls
  <2>4. call' \in [Threads -> Calls]
    BY <1>1, <2>3 DEF ReadPoll
  <2> QED BY <2>2, <2>4
<1>2. CASE ReadWoken(t)
  <2>1. sessions' \in [Sessions -> Rings]
    <3>1. ASSUME NEW s \in Sessions
          PROVE  [sessions[s] EXCEPT !.signaled = FALSE] \in Rings
      <4>1. sessions[s] \in Rings
        OBVIOUS
      <4> QED BY <4>1 DEF Rings
    <3> QED BY <1>2, <3>1 DEF ReadWoken
  <2>2. call' \in [Threads -> Calls]
    BY <1>2 DEF ReadWoken, Calls
  <2> QED BY <2>1, <2>2
<1>3. CASE ReadGivesUp(t)
  BY <1>3 DEF ReadGivesUp
<1>4. ASSUME NEW d \in Devices, NEW timeout \in Timeouts \cup {-1}, ReadBegin(t, d, timeout)
      PROVE  sessions' \in [Sessions -> Rings] /\ call' \in [Threads -> Calls]
  <2>1. StaleSignals(obj[d].session) \in Nat
    <3>1. obj[d].session \in Sessions
      BY <1>4 DEF ReadBegin, ensure_session, Objects
    <3> QED BY <3>1 DEF StaleSignals, Rings
  <2>2. Forever(timeout) \in BOOLEAN
    BY DEF Forever
  <2>3. 0 \in 0 .. MaxRestarts
    OBVIOUS
  <2>4. [at |-> "poll", dev |-> d, forever |-> Forever(timeout), restarts |-> 0,
         stale |-> StaleSignals(obj[d].session)] \in Calls
    BY <2>1, <2>2, <2>3 DEF Calls
  <2> QED BY <1>4, <2>4 DEF ReadBegin
<1> QED BY <1>1, <1>2, <1>3, <1>4 DEF ReadStep, Read

\* The close of handles, in down(), close() and tp_dealloc.
LEMMA ReleaseType ==
  ASSUME TypeOK, NEW d \in Devices
  PROVE  /\ EndSession(d) => /\ sessions' \in [Sessions -> Rings]
                             /\ events' \in [Events -> [by : Devices \cup {NULL}]]
         /\ Release(d) => adapters' \in [Adapters -> [by : Devices \cup {NULL}]]
<1> USE Values DEF TypeOK, Objects
<1>1. ASSUME EndSession(d) PROVE sessions' \in [Sessions -> Rings]
  BY <1>1 DEF EndSession
<1>2. ASSUME EndSession(d) PROVE events' \in [Events -> [by : Devices \cup {NULL}]]
  BY <1>2 DEF EndSession, NoEvent
<1>3. ASSUME Release(d) PROVE adapters' \in [Adapters -> [by : Devices \cup {NULL}]]
  BY <1>3 DEF Release, NoAdapter
<1> QED BY <1>1, <1>2, <1>3

LEMMA TypeStep == CoreInv /\ [Next]_vars => TypeOK'
<1> SUFFICES ASSUME TypeOK, DllOK, ReaderOK, [Next]_vars PROVE TypeOK'
  BY DEF CoreInv
<1>1. CASE UNCHANGED vars
  BY <1>1 DEF vars, TypeOK
<1>2. ASSUME NEW s \in Sessions, Driver(s) PROVE TypeOK'
  BY <1>2, DriverType, DriverFrame DEF SameHandles, TypeOK
<1>3. ASSUME NEW t \in Threads, ReadStep(t) PROVE TypeOK'
  BY <1>3, ReadType, ReadFrame DEF SameHandles, TypeOK
<1>4. ASSUME NEW t \in Threads, NEW d \in Devices, InitNoDll(t, d) PROVE TypeOK'
  BY <1>4, Values DEF InitNoDll, TypeOK
<1>5. ASSUME NEW t \in Threads, NEW d \in Devices, InitNoAdapter(t, d) PROVE TypeOK'
  <2>1. PICK base \in Bases :
          load_wintun_api(base) /\ obj' = [obj EXCEPT ![d] = Opened(base, NULL)]
    BY <1>5 DEF InitNoAdapter
  <2>2. dll' \in [refs : Nat, base : Bases \cup {NULL}] /\ api' \in Bases
    BY <1>5, <2>1, LoadStep, LoadedStep
  <2>3. obj' \in [Devices -> Objects]
    BY <2>1, Values DEF TypeOK
  <2> QED BY <1>5, <2>2, <2>3 DEF InitNoAdapter, TypeOK
<1>6. ASSUME NEW t \in Threads, NEW d \in Devices, InitOk(t, d) PROVE TypeOK'
  <2>1. PICK base \in Bases, a \in Adapters :
          /\ load_wintun_api(base)
          /\ adapters' = [adapters EXCEPT ![a].by = d]
          /\ obj' = [obj EXCEPT ![d] = Opened(base, a)]
    BY <1>6 DEF InitOk
  <2>2. dll' \in [refs : Nat, base : Bases \cup {NULL}] /\ api' \in Bases
    BY <1>6, <2>1, LoadStep, LoadedStep
  <2>3. obj' \in [Devices -> Objects]
    BY <2>1, Values DEF TypeOK
  <2>4. adapters' \in [Adapters -> [by : Devices \cup {NULL}]]
    BY <2>1 DEF TypeOK
  <2> QED BY <1>6, <2>2, <2>3, <2>4 DEF InitOk, TypeOK
<1>7. ASSUME NEW t \in Threads, NEW d \in Devices, Up(t, d) PROVE TypeOK'
  <2>1. PICK s \in Sessions, e \in Events \cup {NULL} :
          /\ sessions' = [sessions EXCEPT ![s] = Session(d, obj[d].adapter)]
          /\ events' = IF e = NULL THEN events ELSE [events EXCEPT ![e].by = d]
          /\ obj' = [obj EXCEPT ![d].session = s, ![d].read_wait_event = s,
                                ![d].read_cancel_event = e]
    BY <1>7 DEF Up
  <2>2. sessions' \in [Sessions -> Rings]
    BY <2>1, Values DEF TypeOK, Objects
  <2>3. events' \in [Events -> [by : Devices \cup {NULL}]]
    BY <2>1 DEF TypeOK
  <2>4. obj' \in [Devices -> Objects]
    BY <2>1, FieldUpdate DEF TypeOK
  <2> QED BY <1>7, <2>2, <2>3, <2>4 DEF Up, TypeOK
<1>8. ASSUME NEW t \in Threads, NEW d \in Devices, Down(t, d) PROVE TypeOK'
  <2>1. obj' \in [Devices -> Objects]
    BY <1>8, FieldUpdate DEF Down, TypeOK
  <2> QED BY <1>8, <2>1, ReleaseType DEF Down, TypeOK
<1>9. ASSUME NEW d \in Devices, Release(d),
             Loaded' = Loaded \ {d}
      PROVE  /\ dll' \in [refs : Nat, base : Bases \cup {NULL}] /\ api' \in Bases \cup {NULL}
             /\ sessions' \in [Sessions -> Rings]
             /\ events' \in [Events -> [by : Devices \cup {NULL}]]
             /\ adapters' \in [Adapters -> [by : Devices \cup {NULL}]]
             /\ call' \in [Threads -> Calls]
  <2>1. dll' \in [refs : Nat, base : Bases \cup {NULL}]
    BY <1>9, FreeStep DEF Release, Loaded, TypeOK
  <2> QED BY <1>9, <2>1, ReleaseType DEF Release, TypeOK
<1>10. ASSUME NEW t \in Threads, NEW d \in Devices, Close(t, d) PROVE TypeOK'
  <2>1. obj' \in [Devices -> Objects]
    BY <1>10, FieldUpdate DEF Close, TypeOK
  <2> QED BY <1>9, <1>10, <2>1, LoadedStep DEF Close, TypeOK
<1>11. ASSUME NEW t \in Threads, NEW d \in Devices, Dealloc(t, d) PROVE TypeOK'
  BY <1>9, <1>11, Values, LoadedStep DEF Dealloc, TypeOK
<1>12. ASSUME NEW t \in Threads, NEW d \in Devices, Setting(t, d) PROVE TypeOK'
  <2>1. CASE Write(t, d)
    <3>1. obj[d].session \in Sessions
      BY <2>1 DEF Write, ensure_session, TypeOK, Objects
    <3>2. \A s \in Sessions : sessions[s].tx < MaxTx => [sessions[s] EXCEPT !.tx = @ + 1] \in Rings
      BY BoundAssumption DEF TypeOK, Rings
    <3> QED BY <2>1, <3>1, <3>2 DEF Write, TypeOK
  <2>2. ASSUME NEW v \in MtuArgs, SetMtu(t, d, v) PROVE TypeOK'
    BY <2>2, FieldUpdate DEF SetMtu, TypeOK
  <2>3. ASSUME NEW a \in AddrArgs \cup {NULL}, SetAddr(t, d, a) PROVE TypeOK'
    BY <2>3, FieldUpdate DEF SetAddr, TypeOK
  <2> QED BY <1>12, <2>1, <2>2, <2>3 DEF Setting
<1> QED BY <1>1, <1>2, <1>3, <1>4, <1>5, <1>6, <1>7, <1>8, <1>10, <1>11, <1>12, Cases

LEMMA DllStep == CoreInv /\ [Next]_vars => DllOK'
<1> SUFFICES ASSUME TypeOK, DllOK, ReaderOK, [Next]_vars PROVE DllOK'
  BY DEF CoreInv
<1>1. CASE UNCHANGED vars
  BY <1>1 DEF vars, DllOK, Loaded
<1>2. ASSUME SameHandles PROVE DllOK'
  BY <1>2 DEF SameHandles, DllOK, Loaded
<1>3. ASSUME NEW t \in Threads, NEW d \in Devices, InitNoDll(t, d) PROVE DllOK'
  <2>1. Loaded' = Loaded \ {d}
    BY <1>3, LoadedStep
  <2>2. UNCHANGED dll /\ (dll.refs > 0 => UNCHANGED api)
    BY <1>3 DEF InitNoDll, TypeOK
  <2> QED BY <2>1, <2>2, ForgetStep
<1>4. ASSUME NEW t \in Threads, NEW d \in Devices, InitNoAdapter(t, d) PROVE DllOK'
  BY <1>4, LoadStep, LoadedStep DEF InitNoAdapter
<1>5. ASSUME NEW t \in Threads, NEW d \in Devices, InitOk(t, d) PROVE DllOK'
  BY <1>5, LoadStep, LoadedStep DEF InitOk
<1>6. ASSUME NEW t \in Threads, NEW d \in Devices, Up(t, d) \/ Down(t, d) \/ Setting(t, d)
      PROVE  DllOK'
  <2>1. UNCHANGED <<dll, api>>
    BY <1>6 DEF Up, Down, Setting, Write, SetMtu, SetAddr
  <2> QED BY <1>6, <2>1, LoadedStep DEF DllOK
<1>7. ASSUME NEW t \in Threads, NEW d \in Devices, Close(t, d) \/ Dealloc(t, d) PROVE DllOK'
  <2>1. Release(d) /\ Loaded' = Loaded \ {d}
    BY <1>7, LoadedStep DEF Close, Dealloc
  <2>2. CASE d \in Loaded
    BY <2>1, <2>2, FreeStep DEF Release, Loaded
  <2>3. CASE d \notin Loaded
    BY <2>1, <2>3, ForgetStep DEF Release, Loaded
  <2> QED BY <2>2, <2>3
<1> QED BY <1>1, <1>2, <1>3, <1>4, <1>5, <1>6, <1>7, Cases, DriverFrame, ReadFrame

\* What a call on d leaves in the objects' handles.
LEMMA OthersKeep ==
  ASSUME TypeOK, NEW t \in Threads, NEW d \in Devices,
         \/ InitNoDll(t, d) \/ InitNoAdapter(t, d) \/ InitOk(t, d)
         \/ Up(t, d) \/ Down(t, d) \/ Close(t, d) \/ Dealloc(t, d) \/ Setting(t, d),
         NEW e \in Devices, e # d
  PROVE  obj'[e] = obj[e]
<1>1. CASE InitNoDll(t, d) \/ Close(t, d) \/ Dealloc(t, d)
  BY <1>1 DEF InitNoDll, Close, Dealloc, TypeOK
<1>2. CASE InitNoAdapter(t, d)
  BY <1>2 DEF InitNoAdapter, TypeOK
<1>3. CASE InitOk(t, d)
  BY <1>3 DEF InitOk, TypeOK
<1>4. CASE Up(t, d)
  BY <1>4 DEF Up, TypeOK
<1>5. CASE Down(t, d)
  BY <1>5 DEF Down, TypeOK
<1>6. CASE Setting(t, d)
  BY <1>6 DEF Setting, Write, SetMtu, SetAddr, TypeOK
<1> QED BY <1>1, <1>2, <1>3, <1>4, <1>5, <1>6

Empty(d) == /\ obj[d].wintun_module = NULL /\ obj[d].adapter = NULL
            /\ obj[d].session = NULL /\ obj[d].read_cancel_event = NULL

LEMMA Emptied ==
  ASSUME TypeOK, NEW t \in Threads, NEW d \in Devices,
         InitNoDll(t, d) \/ Close(t, d) \/ Dealloc(t, d)
  PROVE  Empty(d)'
<1>1. CASE InitNoDll(t, d)
  BY <1>1 DEF InitNoDll, Fresh, Opened, Empty, TypeOK
<1>2. CASE Close(t, d)
  BY <1>2 DEF Close, Empty, TypeOK, Objects
<1>3. CASE Dealloc(t, d)
  BY <1>3 DEF Dealloc, Fresh, Opened, Empty, TypeOK
<1> QED BY <1>1, <1>2, <1>3

LEMMA Acquired ==
  ASSUME TypeOK, NEW t \in Threads, NEW d \in Devices, InitNoAdapter(t, d) \/ InitOk(t, d)
  PROVE  /\ obj'[d].wintun_module # NULL
         /\ obj'[d].session = NULL /\ obj'[d].read_cancel_event = NULL
         /\ InitNoAdapter(t, d) => obj'[d].adapter = NULL
<1>1. CASE InitNoAdapter(t, d)
  BY <1>1, NullAssumption DEF InitNoAdapter, Opened, TypeOK
<1>2. CASE InitOk(t, d) /\ ~InitNoAdapter(t, d)
  BY <1>2, NullAssumption DEF InitOk, Opened, TypeOK
<1> QED BY <1>1, <1>2

LEMMA KeptHandles ==
  ASSUME TypeOK, NEW t \in Threads, NEW d \in Devices,
         Up(t, d) \/ Down(t, d) \/ Setting(t, d)
  PROVE  /\ obj'[d].wintun_module = obj[d].wintun_module /\ obj'[d].adapter = obj[d].adapter
         /\ Down(t, d) => obj'[d].session = NULL /\ obj'[d].read_cancel_event = NULL
         /\ Up(t, d) => obj'[d].session # NULL
         /\ Setting(t, d) => /\ obj'[d].session = obj[d].session
                             /\ obj'[d].read_wait_event = obj[d].read_wait_event
                             /\ obj'[d].read_cancel_event = obj[d].read_cancel_event
<1>1. ASSUME Up(t, d)
      PROVE  /\ obj'[d].wintun_module = obj[d].wintun_module /\ obj'[d].adapter = obj[d].adapter
             /\ obj'[d].session # NULL
  <2>1. PICK s \in Sessions, e \in Events \cup {NULL} :
          obj' = [obj EXCEPT ![d].session = s, ![d].read_wait_event = s, ![d].read_cancel_event = e]
    BY <1>1 DEF Up
  <2>2. s # NULL
    BY NullAssumption
  <2> QED BY <2>1, <2>2 DEF TypeOK, Objects
<1>2. ASSUME Down(t, d)
      PROVE  /\ obj'[d].wintun_module = obj[d].wintun_module /\ obj'[d].adapter = obj[d].adapter
             /\ obj'[d].session = NULL /\ obj'[d].read_cancel_event = NULL
  BY <1>2 DEF Down, TypeOK, Objects
<1>3. ASSUME Setting(t, d)
      PROVE  /\ obj'[d].wintun_module = obj[d].wintun_module /\ obj'[d].adapter = obj[d].adapter
             /\ obj'[d].session = obj[d].session
             /\ obj'[d].read_wait_event = obj[d].read_wait_event
             /\ obj'[d].read_cancel_event = obj[d].read_cancel_event
  <2>1. CASE Write(t, d)
    BY <2>1 DEF Write
  <2>2. CASE \E v \in MtuArgs : SetMtu(t, d, v)
    BY <2>2 DEF SetMtu, TypeOK, Objects
  <2>3. CASE \E a \in AddrArgs \cup {NULL} : SetAddr(t, d, a)
    BY <2>3 DEF SetAddr, TypeOK, Objects
  <2> QED BY <1>3, <2>1, <2>2, <2>3 DEF Setting
<1> QED BY <1>1, <1>2, <1>3

LEMMA NestedStep == CoreInv /\ [Next]_vars => Nested'
<1> SUFFICES ASSUME TypeOK, ReaderOK, Nested, [Next]_vars PROVE Nested'
  BY DEF CoreInv
<1>1. CASE UNCHANGED obj
  BY <1>1 DEF Nested
<1>2. ASSUME NEW t \in Threads, NEW d \in Devices,
             \/ InitNoDll(t, d) \/ InitNoAdapter(t, d) \/ InitOk(t, d)
             \/ Up(t, d) \/ Down(t, d) \/ Close(t, d) \/ Dealloc(t, d) \/ Setting(t, d)
      PROVE  Nested'
  <2>1. \A e \in Devices : e # d => obj'[e] = obj[e]
    BY <1>2, OthersKeep
  <2>2. /\ obj'[d].read_cancel_event # NULL => obj'[d].session # NULL
        /\ obj'[d].session # NULL => obj'[d].adapter # NULL
        /\ obj'[d].adapter # NULL => obj'[d].wintun_module # NULL
    <3>1. CASE InitNoDll(t, d) \/ Close(t, d) \/ Dealloc(t, d)
      BY <3>1, Emptied DEF Empty
    <3>2. CASE InitNoAdapter(t, d) \/ InitOk(t, d)
      BY <3>2, Acquired
    <3>3. CASE Up(t, d)
      BY <3>3, KeptHandles DEF Up, Nested
    <3>4. CASE Down(t, d) \/ Setting(t, d)
      BY <3>4, KeptHandles DEF Nested
    <3> QED BY <1>2, <3>1, <3>2, <3>3, <3>4
  <2> QED BY <2>1, <2>2 DEF Nested
<1> QED BY <1>1, <1>2, Cases, DriverFrame, ReadFrame DEF SameHandles, vars

\* A call other than read() starts only when no thread is in a read().
LEMMA CallerRuns ==
  ASSUME NEW t \in Threads, NEW d \in Devices,
         \/ InitNoDll(t, d) \/ InitNoAdapter(t, d) \/ InitOk(t, d)
         \/ Up(t, d) \/ Down(t, d) \/ Close(t, d) \/ Dealloc(t, d) \/ Setting(t, d)
  PROVE  Runs(t) /\ UNCHANGED call
BY DEF InitNoDll, InitNoAdapter, InitOk, MayInit, Up, Down, Close, Dealloc, Release, Setting,
   Write, SetMtu, SetAddr

LEMMA ReaderStep == CoreInv /\ [Next]_vars => ReaderOK'
<1> SUFFICES ASSUME TypeOK, ReaderOK, [Next]_vars PROVE ReaderOK'
  BY DEF CoreInv
<1>1. CASE UNCHANGED <<obj, call>>
  BY <1>1 DEF ReaderOK, ensure_session
<1>2. ASSUME NEW t \in Threads, ReadPoll(t) \/ ReadWoken(t) \/ ReadGivesUp(t) PROVE ReaderOK'
  <2>1. UNCHANGED obj /\ call[t].at # "idle"
    BY <1>2 DEF ReadPoll, ReadWoken, ReadGivesUp
  <2>2. /\ \A u \in Threads : u # t => call'[u] = call[u]
        /\ call'[t].dev = call[t].dev \/ call'[t].at = "idle"
    BY <1>2 DEF ReadPoll, ReadWoken, ReadGivesUp, TypeOK, Calls, Idle
  <2> QED BY <2>1, <2>2 DEF ReaderOK, ensure_session
<1>3. ASSUME NEW t \in Threads, NEW d \in Devices, NEW timeout \in Timeouts \cup {-1},
             ReadBegin(t, d, timeout)
      PROVE  ReaderOK'
  BY <1>3 DEF ReadBegin, Runs, ReaderOK, ensure_session, TypeOK
<1>4. ASSUME NEW t \in Threads, Runs(t), UNCHANGED call PROVE ReaderOK'
  BY <1>4 DEF Runs, ReaderOK
<1> QED BY <1>1, <1>2, <1>3, <1>4, Cases, DriverFrame, CallerRuns
        DEF ReadStep, Read, SameHandles, vars

\* What OwnHandles says of one object.
Owns(d) ==
  /\ obj[d].adapter # NULL => adapters[obj[d].adapter].by = d
  /\ obj[d].session # NULL => /\ sessions[obj[d].session].by = d
                              /\ sessions[obj[d].session].adapter = obj[d].adapter
                              /\ obj[d].read_wait_event = obj[d].session
  /\ obj[d].read_cancel_event # NULL => events[obj[d].read_cancel_event].by = d

\* What d releases is no other object's.
LEMMA EndSessionOthers ==
  ASSUME TypeOK, NEW d \in Devices, NEW e \in Devices, e # d, Owns(d), Owns(e), EndSession(d),
         obj'[e] = obj[e], UNCHANGED adapters
  PROVE  Owns(e)'
<1>1. obj[e].session # NULL => sessions'[obj[e].session] = sessions[obj[e].session]
  BY DEF EndSession, Owns, TypeOK, Objects
<1>2. obj[e].read_cancel_event # NULL => events'[obj[e].read_cancel_event] = events[obj[e].read_cancel_event]
  BY DEF EndSession, Owns, TypeOK, Objects
<1> QED BY <1>1, <1>2 DEF Owns

LEMMA ReleaseOthers ==
  ASSUME TypeOK, NEW d \in Devices, NEW e \in Devices, e # d, Owns(d), Owns(e), Release(d),
         obj'[e] = obj[e]
  PROVE  Owns(e)'
<1>1. obj[e].session # NULL => sessions'[obj[e].session] = sessions[obj[e].session]
  BY DEF Release, EndSession, Owns, TypeOK, Objects
<1>2. obj[e].read_cancel_event # NULL => events'[obj[e].read_cancel_event] = events[obj[e].read_cancel_event]
  BY DEF Release, EndSession, Owns, TypeOK, Objects
<1>3. obj[e].adapter # NULL => adapters'[obj[e].adapter] = adapters[obj[e].adapter]
  BY DEF Release, Owns, TypeOK, Objects
<1> QED BY <1>1, <1>2, <1>3 DEF Owns

LEMMA HandlesStep == CoreInv /\ [Next]_vars => OwnHandles'
<1> SUFFICES ASSUME CoreInv, [Next]_vars, NEW e \in Devices PROVE Owns(e)'
  BY DEF OwnHandles, Owns
<1> USE DEF CoreInv
<1>1. \A d \in Devices : Owns(d)
  BY DEF OwnHandles, Owns
<1>2. CASE UNCHANGED vars
  BY <1>1, <1>2 DEF vars, Owns
<1>3. ASSUME SameHandles PROVE Owns(e)'
  BY <1>1, <1>3 DEF SameHandles, Owns, TypeOK, Objects
<1>4. ASSUME NEW t \in Threads, NEW d \in Devices,
             InitNoDll(t, d) \/ InitNoAdapter(t, d) \/ Setting(t, d)
      PROVE  Owns(e)'
  <2>1. /\ UNCHANGED <<adapters, events>>
        /\ \A s \in Sessions : /\ sessions'[s].by = sessions[s].by
                               /\ sessions'[s].adapter = sessions[s].adapter
    <3>1. CASE ~Write(t, d)
      BY <1>4, <3>1 DEF InitNoDll, InitNoAdapter, Setting, SetMtu, SetAddr
    <3>2. CASE Write(t, d)
      BY <3>2 DEF Write, TypeOK, Rings
    <3> QED BY <3>1, <3>2
  <2>2. obj[e].session \in Sessions \cup {NULL}
    BY DEF TypeOK, Objects
  <2>3. CASE e # d
    <3>1. obj'[e] = obj[e]
      BY <1>4, <2>3, OthersKeep
    <3> QED BY <1>1, <2>1, <2>2, <3>1 DEF Owns
  <2>4. CASE e = d /\ (InitNoDll(t, d) \/ InitNoAdapter(t, d))
    BY <2>4, Emptied, Acquired DEF Empty, Owns
  <2>5. CASE e = d /\ Setting(t, d)
    BY <1>1, <2>1, <2>2, <2>5, KeptHandles DEF Owns
  <2> QED BY <1>4, <2>3, <2>4, <2>5
<1>5. ASSUME NEW t \in Threads, NEW d \in Devices, InitOk(t, d) PROVE Owns(e)'
  <2>1. PICK base \in Bases, a \in Adapters :
          /\ ~Live(adapters, a)
          /\ adapters' = [adapters EXCEPT ![a].by = d]
          /\ obj' = [obj EXCEPT ![d] = Opened(base, a)]
          /\ UNCHANGED <<sessions, events>>
    BY <1>5 DEF InitOk
  <2>2. CASE e = d
    BY <2>1, <2>2 DEF Opened, Owns, TypeOK
  <2>3. CASE e # d
    <3>1. obj[e].adapter # NULL => obj[e].adapter # a
      BY <1>1, <2>1, NullAssumption DEF Owns, Live
    <3> QED BY <1>1, <2>1, <2>3, <3>1 DEF Owns, TypeOK, Objects
  <2> QED BY <2>2, <2>3
<1>6. ASSUME NEW t \in Threads, NEW d \in Devices, Up(t, d) PROVE Owns(e)'
  <2>1. PICK s \in Sessions, c \in Events \cup {NULL} :
          /\ ~Live(sessions, s)
          /\ sessions' = [sessions EXCEPT ![s] = Session(d, obj[d].adapter)]
          /\ IF c = NULL THEN UNCHANGED events
             ELSE ~Live(events, c) /\ events' = [events EXCEPT ![c].by = d]
          /\ obj' = [obj EXCEPT ![d].session = s, ![d].read_wait_event = s,
                                ![d].read_cancel_event = c]
          /\ UNCHANGED adapters
    BY <1>6 DEF Up
  <2>2. CASE e = d
    <3>1. /\ obj'[d].session = s /\ obj'[d].read_wait_event = s
          /\ obj'[d].read_cancel_event = c /\ obj'[d].adapter = obj[d].adapter
      BY <2>1 DEF TypeOK, Objects
    <3>2. sessions'[s].by = d /\ sessions'[s].adapter = obj[d].adapter
      BY <2>1 DEF Session, TypeOK
    <3>3. c # NULL => events'[c].by = d
      BY <2>1 DEF TypeOK
    <3> QED BY <1>1, <2>1, <2>2, <3>1, <3>2, <3>3 DEF Owns
  <2>3. CASE e # d
    <3>1. obj[e].session # NULL => obj[e].session # s
      BY <1>1, <2>1, NullAssumption DEF Owns, Live
    <3>2. obj[e].read_cancel_event # NULL => obj[e].read_cancel_event # c
      BY <1>1, <2>1, NullAssumption DEF Owns, Live
    <3>3. obj'[e] = obj[e]
      BY <2>1, <2>3 DEF TypeOK
    <3>4. obj[e].session # NULL => sessions'[obj[e].session] = sessions[obj[e].session]
      BY <2>1, <3>1 DEF TypeOK, Objects
    <3>5. obj[e].read_cancel_event # NULL =>
            events'[obj[e].read_cancel_event] = events[obj[e].read_cancel_event]
      BY <2>1, <3>2 DEF TypeOK, Objects
    <3>6. Owns(e) /\ UNCHANGED adapters
      BY <1>1, <2>1
    <3> QED BY <3>3, <3>4, <3>5, <3>6 DEF Owns
  <2> QED BY <2>2, <2>3
<1>7. ASSUME NEW t \in Threads, NEW d \in Devices, Down(t, d) PROVE Owns(e)'
  <2>1. EndSession(d) /\ UNCHANGED adapters
    BY <1>7 DEF Down
  <2>2. CASE e = d
    BY <1>1, <1>7, <2>1, <2>2, KeptHandles DEF Owns
  <2>3. CASE e # d
    BY <1>1, <1>7, <2>1, <2>3, OthersKeep, EndSessionOthers
  <2> QED BY <2>2, <2>3
<1>8. ASSUME NEW t \in Threads, NEW d \in Devices, Close(t, d) \/ Dealloc(t, d) PROVE Owns(e)'
  <2>1. CASE e = d
    BY <1>8, <2>1, Emptied DEF Empty, Owns
  <2>2. CASE e # d
    BY <1>1, <1>8, <2>2, OthersKeep, ReleaseOthers DEF Close, Dealloc
  <2> QED BY <2>1, <2>2
<1> QED BY <1>2, <1>3, <1>4, <1>5, <1>6, <1>7, <1>8, Cases, DriverFrame, ReadFrame

\* The state is well typed, the DLL is loaded at least once for every object that
\* counts on it, no handle is held without the one it hangs on, one thread at a
\* time is in read(), and what an object holds is its own.
THEOREM CoreInvariant == Spec => []CoreInv
<1>1. Init => CoreInv
  <2> SUFFICES ASSUME Init PROVE CoreInv
    OBVIOUS
  <2>1. /\ \A d \in Devices : obj[d] = Fresh
        /\ Fresh.wintun_module = NULL /\ Fresh.adapter = NULL /\ Fresh.session = NULL
        /\ Fresh.read_cancel_event = NULL
    BY DEF Init, Fresh, Opened
  <2>2. TypeOK
    BY Values DEF Init, TypeOK, NoAdapter, NoEvent
  <2>3. Loaded = {}
    BY <2>1 DEF Loaded
  <2>4. DllOK
    BY <2>3, FS_EmptySet DEF Init, DllOK
  <2>5. Nested /\ OwnHandles
    BY <2>1 DEF Nested, OwnHandles
  <2>6. ReaderOK
    BY DEF Init, ReaderOK, Idle
  <2> QED BY <2>2, <2>4, <2>5, <2>6 DEF CoreInv
<1>2. CoreInv /\ [Next]_vars => CoreInv'
  BY TypeStep, DllStep, NestedStep, ReaderStep, HandlesStep DEF CoreInv
<1> QED BY <1>1, <1>2, PTL DEF Spec

\* Every reachable state of WindowsTun is well typed.
THEOREM TypeCorrect == Spec => []TypeOK
BY CoreInvariant, PTL DEF CoreInv

\* Whatever the order in which objects load and free the DLL, and even if __init__
\* forgets references, an object with an adapter or a session finds the DLL mapped
\* and the shared table filled from this mapping.
THEOREM PointersMapped == Spec => []ApiMapped
<1>1. CoreInv => ApiMapped
  <2> SUFFICES ASSUME CoreInv, NEW d \in Devices, obj[d].adapter # NULL \/ obj[d].session # NULL
               PROVE  dll.refs > 0 /\ api = dll.base
    BY DEF ApiMapped
  <2>1. d \in Loaded
    BY DEF CoreInv, Nested, Loaded
  <2>2. IsFiniteSet(Loaded) /\ Cardinality(Loaded) \in Nat /\ Cardinality(Loaded) # 0
    BY <2>1, FS_CardinalityType, FS_EmptySet DEF CoreInv, DllOK
  <2>3. dll.refs > 0
    BY <2>2 DEF CoreInv, DllOK, TypeOK
  <2> QED BY <2>3 DEF CoreInv, DllOK
<1> QED BY <1>1, CoreInvariant, PTL

\* No call is made on a handle that was released or is another object's by now,
\* even if __init__ is called on open objects.
THEOREM HandlesOwned == Spec => []OwnHandles
BY CoreInvariant, PTL DEF CoreInv

-----------------------------------------------------------------------------
(* read() and the signals of the driver *)

\* The signal that is set, and the one for the end of the session, as numbers.
SetSignal(ring) == IF ring.signaled THEN 1 ELSE 0
EndSignal(ring) == IF ring.eof THEN 1 ELSE 0

\* A read() whose call is c, on the session `ring`: it waits only with a signal to
\* come for what there is; it was woken for old signals only; and while the ring is
\* empty every signal that is set or under way is an old one too, or the end's.
Waits(c, ring) ==
  /\ c.at = "wait" => /\ ring.rx > 0 \/ ring.eof => ring.signaled \/ ring.pending > 0
                      /\ c.restarts <= c.stale
  /\ ring.rx = 0 =>
       c.restarts + ring.pending + SetSignal(ring) <= c.stale + EndSignal(ring)

WakeInv == \A t \in Threads : call[t].at # "idle" =>
             Waits(call[t], sessions[obj[call[t].dev].session])

\* The driver's steps keep it.
LEMMA DriverWaits ==
  ASSUME NEW c \in Calls, NEW ring \in Rings, Waits(c, ring)
  PROVE  /\ Waits(c, [ring EXCEPT !.rx = @ + 1, !.pending = @ + 1])
         /\ Waits(c, [ring EXCEPT !.tx = @ - 1])
         /\ ~ring.eof => Waits(c, [ring EXCEPT !.eof = TRUE, !.pending = @ + 1])
         /\ ring.pending > 0 => Waits(c, [ring EXCEPT !.pending = @ - 1, !.signaled = TRUE])
<1> USE BoundAssumption DEF Waits, SetSignal, EndSignal, Calls, Rings
<1>1. Waits(c, [ring EXCEPT !.rx = @ + 1, !.pending = @ + 1])
  OBVIOUS
<1>2. Waits(c, [ring EXCEPT !.tx = @ - 1])
  OBVIOUS
<1>3. ~ring.eof => Waits(c, [ring EXCEPT !.eof = TRUE, !.pending = @ + 1])
  OBVIOUS
<1>4. ring.pending > 0 => Waits(c, [ring EXCEPT !.pending = @ - 1, !.signaled = TRUE])
  OBVIOUS
<1> QED BY <1>1, <1>2, <1>3, <1>4

LEMMA WakeStep == CoreInv /\ WakeInv /\ [Next]_vars => WakeInv'
<1> SUFFICES ASSUME CoreInv, WakeInv, [Next]_vars PROVE WakeInv'
  OBVIOUS
<1>1. CASE UNCHANGED vars
  BY <1>1 DEF vars, WakeInv, Waits, SetSignal, EndSignal
<1>2. ASSUME NEW s \in Sessions, Driver(s) PROVE WakeInv'
  <2> SUFFICES ASSUME NEW t \in Threads, call[t].at # "idle"
               PROVE  Waits(call[t], sessions'[obj[call[t].dev].session])
    BY <1>2, DriverFrame DEF CoreInv, SameHandles, WakeInv, Waits, SetSignal, EndSignal
  <2> DEFINE x == obj[call[t].dev].session
  <2>1. x \in Sessions /\ Waits(call[t], sessions[x])
    BY DEF CoreInv, TypeOK, Objects, ReaderOK, ensure_session, WakeInv
  <2>2. call[t] \in Calls /\ sessions[x] \in Rings
    BY <2>1 DEF CoreInv, TypeOK
  <2> HIDE DEF x
  <2>3. CASE x # s
    <3>1. sessions'[x] = sessions[x]
      BY <1>2, <2>1, <2>3 DEF Driver, PacketIn, PacketOut, Terminate, Signal, CoreInv, TypeOK
    <3> QED BY <2>1, <3>1 DEF x
  <2>4. CASE x = s
    <3>1. CASE PacketIn(s)
      <4>1. sessions'[x] = [sessions[x] EXCEPT !.rx = @ + 1, !.pending = @ + 1]
        BY <2>1, <2>4, <3>1 DEF PacketIn, CoreInv, TypeOK
      <4> QED BY <2>1, <2>2, <4>1, DriverWaits DEF x
    <3>2. CASE PacketOut(s)
      <4>1. sessions'[x] = [sessions[x] EXCEPT !.tx = @ - 1]
        BY <2>1, <2>4, <3>2 DEF PacketOut, CoreInv, TypeOK
      <4> QED BY <2>1, <2>2, <4>1, DriverWaits DEF x
    <3>3. CASE Terminate(s)
      <4>1. /\ ~sessions[x].eof
            /\ sessions'[x] = [sessions[x] EXCEPT !.eof = TRUE, !.pending = @ + 1]
        BY <2>1, <2>4, <3>3 DEF Terminate, CoreInv, TypeOK
      <4> QED BY <2>1, <2>2, <4>1, DriverWaits DEF x
    <3>4. CASE Signal(s)
      <4>1. /\ sessions[x].pending > 0
            /\ sessions'[x] = [sessions[x] EXCEPT !.pending = @ - 1, !.signaled = TRUE]
        BY <2>1, <2>4, <3>4 DEF Signal, CoreInv, TypeOK
      <4> QED BY <2>1, <2>2, <4>1, DriverWaits DEF x
    <3> QED BY <1>2, <3>1, <3>2, <3>3, <3>4 DEF Driver
  <2> QED BY <2>3, <2>4
<1>3. ASSUME NEW t \in Threads, ReadStep(t) PROVE WakeInv'
  <2>1. /\ UNCHANGED obj
        /\ \A u \in Threads : u # t => call'[u].at = "idle"
    <3>1. CASE Read(t)
      BY <3>1 DEF Read, ReadPoll, ReadWoken, ReadGivesUp, CoreInv, TypeOK, ReaderOK
    <3>2. CASE ~Read(t)
      BY <1>3, <3>2 DEF ReadStep, ReadBegin, Runs, CoreInv, TypeOK
    <3> QED BY <3>1, <3>2
  <2> DEFINE x == obj'[call'[t].dev].session
  <2> SUFFICES ASSUME call'[t].at # "idle" PROVE Waits(call'[t], sessions'[x])
    BY <2>1 DEF WakeInv, Waits, SetSignal, EndSignal
  <2>2. CASE ReadPoll(t)
    <3> DEFINE s == obj[call[t].dev].session
    <3>1. s \in Sessions /\ Waits(call[t], sessions[s])
      BY <2>2 DEF ReadPoll, CoreInv, TypeOK, Objects, ReaderOK, ensure_session, WakeInv
    <3>2. /\ sessions[s].rx = 0 /\ ~sessions[s].eof /\ sessions' = sessions
          /\ call'[t] = [call[t] EXCEPT !.at = "wait"]
      BY <2>2 DEF ReadPoll, Idle, CoreInv, TypeOK
    <3>3. x = s /\ call'[t].restarts = call[t].restarts /\ call'[t].stale = call[t].stale
      BY <2>1, <3>2 DEF CoreInv, TypeOK, Calls
    <3>4. sessions[s] \in Rings /\ call[t] \in Calls
      BY <3>1 DEF CoreInv, TypeOK
    <3> HIDE DEF x, s
    <3> QED BY <3>1, <3>2, <3>3, <3>4, BoundAssumption DEF Waits, SetSignal, EndSignal, Rings, Calls
  <2>3. CASE ReadWoken(t)
    <3> DEFINE s == obj[call[t].dev].session
    <3>1. s \in Sessions /\ Waits(call[t], sessions[s]) /\ WaitHandle(call[t].dev) = s
      BY <2>3 DEF ReadWoken, CoreInv, TypeOK, Objects, ReaderOK, ensure_session, WakeInv,
         OwnHandles, WaitHandle
    <3>2. /\ sessions[s].signaled /\ sessions'[s] = [sessions[s] EXCEPT !.signaled = FALSE]
          /\ call'[t] = [call[t] EXCEPT !.at = "poll", !.restarts = @ + 1]
      BY <2>3, <3>1 DEF ReadWoken, CoreInv, TypeOK
    <3>3. /\ x = s /\ call'[t].restarts = call[t].restarts + 1
          /\ call'[t].stale = call[t].stale /\ call'[t].at = "poll"
      BY <2>1, <3>2 DEF CoreInv, TypeOK, Calls
    <3>4. sessions[s] \in Rings /\ call[t] \in Calls
      BY <3>1 DEF CoreInv, TypeOK
    <3> HIDE DEF x, s
    <3> QED BY <3>1, <3>2, <3>3, <3>4, BoundAssumption DEF Waits, SetSignal, EndSignal, Rings, Calls
  <2>4. CASE ReadGivesUp(t)
    BY <2>4 DEF ReadGivesUp, Idle, CoreInv, TypeOK
  <2>5. ASSUME NEW d \in Devices, NEW timeout \in Timeouts \cup {-1}, ReadBegin(t, d, timeout)
        PROVE  Waits(call'[t], sessions'[x])
    <3>1. /\ call'[t].at = "poll" /\ call'[t].dev = d /\ call'[t].restarts = 0
          /\ call'[t].stale = StaleSignals(obj[d].session) /\ sessions' = sessions
      BY <2>5 DEF ReadBegin, CoreInv, TypeOK
    <3>2. x = obj[d].session /\ x \in Sessions
      BY <2>1, <2>5, <3>1 DEF ReadBegin, ensure_session, CoreInv, TypeOK, Objects
    <3>3. sessions[x] \in Rings
      BY <3>2 DEF CoreInv, TypeOK
    <3>4. call'[t].stale = StaleSignals(x)
      BY <3>1, <3>2
    <3> HIDE DEF x
    <3> QED BY <3>1, <3>3, <3>4, BoundAssumption
            DEF Waits, StaleSignals, SetSignal, EndSignal, Rings
  <2> QED BY <1>3, <2>2, <2>3, <2>4, <2>5 DEF ReadStep, Read
<1>4. ASSUME NEW t \in Threads, Runs(t), UNCHANGED call PROVE WakeInv'
  BY <1>4 DEF Runs, WakeInv
<1> QED BY <1>1, <1>2, <1>3, <1>4, Cases, CallerRuns

LEMMA WakeInvariant == Spec => []WakeInv
<1>1. Init => WakeInv
  BY DEF Init, WakeInv, Idle
<1> QED BY <1>1, WakeStep, CoreInvariant, PTL DEF Spec

\* The driver changes the ring first and sets the event after that, while read()
\* polls first and waits after that: no packet and no end of a session is missed.
THEOREM WakeupKept == Spec => []NoLostWakeup
<1>1. WakeInv => NoLostWakeup
  BY DEF WakeInv, Waits, NoLostWakeup
<1> QED BY <1>1, WakeInvariant, PTL

\* A read() begins its timeout anew at most once for each signal that was set or
\* under way when it was called, for any size of the ring.
THEOREM RestartsBounded == Spec => []RestartsAreStale
<1>1. WakeInv => RestartsAreStale
  BY DEF WakeInv, Waits, RestartsAreStale
<1> QED BY <1>1, WakeInvariant, PTL

-----------------------------------------------------------------------------
(* Nothing is left behind *)

\* What NothingLeft says of one handle of each kind.
AdapterHeld(a) == Live(adapters, a) => obj[adapters[a].by].adapter = a
SessionHeld(s) == Live(sessions, s) => obj[sessions[s].by].session = s
EventHeld(e)   == Live(events, e) => obj[events[e].by].read_cancel_event = e

LEMMA AdapterHeldStep ==
  ASSUME ~ReinitOpen, CoreInv, [Next]_vars, NEW a \in Adapters, AdapterHeld(a)
  PROVE  AdapterHeld(a)'
<1> USE DEF CoreInv
<1>1. ASSUME UNCHANGED <<obj, adapters>> PROVE AdapterHeld(a)'
  BY <1>1 DEF AdapterHeld, Live
<1>2. ASSUME UNCHANGED adapters, NEW d \in Devices, obj'[d].adapter = obj[d].adapter,
             \A e \in Devices : e # d => obj'[e] = obj[e]
      PROVE  AdapterHeld(a)'
  BY <1>2 DEF AdapterHeld, Live, TypeOK
<1>3. ASSUME NEW t \in Threads, NEW d \in Devices, InitNoDll(t, d) \/ InitNoAdapter(t, d)
      PROVE  AdapterHeld(a)'
  <2>1. obj[d].adapter = NULL
    BY <1>3 DEF InitNoDll, InitNoAdapter, MayInit, Nested
  <2>2. obj'[d].adapter = NULL
    BY <1>3, Emptied, Acquired DEF Empty
  <2> QED BY <1>2, <1>3, <2>1, <2>2, OthersKeep DEF InitNoDll, InitNoAdapter
<1>4. ASSUME NEW t \in Threads, NEW d \in Devices, InitOk(t, d) PROVE AdapterHeld(a)'
  <2>1. obj[d].adapter = NULL
    BY <1>4 DEF InitOk, MayInit, Nested
  <2>2. PICK base \in Bases, n \in Adapters :
          /\ adapters' = [adapters EXCEPT ![n].by = d]
          /\ obj' = [obj EXCEPT ![d] = Opened(base, n)]
    BY <1>4 DEF InitOk
  <2>3. CASE a = n
    BY <2>2, <2>3 DEF AdapterHeld, Live, Opened, TypeOK
  <2>4. CASE a # n
    BY <2>1, <2>2, <2>4, NullAssumption DEF AdapterHeld, Live, TypeOK
  <2> QED BY <2>3, <2>4
<1>5. ASSUME NEW t \in Threads, NEW d \in Devices, Up(t, d) \/ Down(t, d) \/ Setting(t, d)
      PROVE  AdapterHeld(a)'
  <2>1. UNCHANGED adapters
    BY <1>5 DEF Up, Down, Setting, Write, SetMtu, SetAddr
  <2> QED BY <1>2, <1>5, <2>1, OthersKeep, KeptHandles
<1>6. ASSUME NEW t \in Threads, NEW d \in Devices, Close(t, d) \/ Dealloc(t, d)
      PROVE  AdapterHeld(a)'
  <2>1. Release(d)
    BY <1>6 DEF Close, Dealloc
  <2>2. CASE obj[d].adapter = a
    BY <2>1, <2>2, NullAssumption DEF Release, NoAdapter, AdapterHeld, Live, TypeOK
  <2>3. CASE obj[d].adapter # a
    <3>1. adapters'[a] = adapters[a]
      BY <2>1, <2>3 DEF Release, TypeOK, Objects
    <3>2. Live(adapters, a) => adapters[a].by \in Devices \ {d}
      BY <2>3 DEF AdapterHeld, Live, TypeOK
    <3> QED BY <1>6, <3>1, <3>2, OthersKeep DEF AdapterHeld, Live
  <2> QED BY <2>2, <2>3
<1> QED BY <1>1, <1>3, <1>4, <1>5, <1>6, Cases, DriverFrame, ReadFrame DEF SameHandles, vars

LEMMA SessionHeldStep ==
  ASSUME ~ReinitOpen, CoreInv, [Next]_vars, NEW s \in Sessions, SessionHeld(s)
  PROVE  SessionHeld(s)'
<1> USE DEF CoreInv
<1>1. ASSUME UNCHANGED obj, sessions'[s].by = sessions[s].by PROVE SessionHeld(s)'
  BY <1>1 DEF SessionHeld, Live
<1>2. ASSUME sessions'[s].by = sessions[s].by, NEW d \in Devices, obj'[d].session = obj[d].session,
             \A e \in Devices : e # d => obj'[e] = obj[e]
      PROVE  SessionHeld(s)'
  BY <1>2 DEF SessionHeld, Live, TypeOK, Rings
<1>3. ASSUME NEW t \in Threads, NEW d \in Devices,
             InitNoDll(t, d) \/ InitNoAdapter(t, d) \/ InitOk(t, d)
      PROVE  SessionHeld(s)'
  <2>1. obj[d].session = NULL
    BY <1>3 DEF InitNoDll, InitNoAdapter, InitOk, MayInit, Nested
  <2>2. obj'[d].session = NULL
    BY <1>3, Emptied, Acquired DEF Empty
  <2>3. UNCHANGED sessions
    BY <1>3 DEF InitNoDll, InitNoAdapter, InitOk
  <2> QED BY <1>2, <1>3, <2>1, <2>2, <2>3, OthersKeep
<1>4. ASSUME NEW t \in Threads, NEW d \in Devices, Up(t, d) PROVE SessionHeld(s)'
  <2>1. PICK n \in Sessions, c \in Events \cup {NULL} :
          /\ sessions' = [sessions EXCEPT ![n] = Session(d, obj[d].adapter)]
          /\ obj' = [obj EXCEPT ![d].session = n, ![d].read_wait_event = n,
                                ![d].read_cancel_event = c]
          /\ obj[d].session = NULL
    BY <1>4 DEF Up
  <2>2. obj'[d].session = n /\ \A e \in Devices : e # d => obj'[e] = obj[e]
    BY <2>1 DEF TypeOK, Objects
  <2>3. CASE s = n
    BY <2>1, <2>2, <2>3 DEF SessionHeld, Live, Session, TypeOK
  <2>4. CASE s # n
    <3>1. sessions'[s] = sessions[s]
      BY <2>1, <2>4 DEF TypeOK
    <3>2. Live(sessions, s) => sessions[s].by \in Devices \ {d}
      BY <2>1, NullAssumption DEF SessionHeld, Live, TypeOK, Rings
    <3> QED BY <2>2, <3>1, <3>2 DEF SessionHeld, Live
  <2> QED BY <2>3, <2>4
<1>5. ASSUME NEW t \in Threads, NEW d \in Devices, Down(t, d) \/ Close(t, d) \/ Dealloc(t, d)
      PROVE  SessionHeld(s)'
  <2>1. EndSession(d)
    BY <1>5 DEF Down, Close, Dealloc, Release
  <2>2. CASE obj[d].session = s
    BY <2>1, <2>2, NullAssumption DEF EndSession, NoSession, Session, SessionHeld, Live, TypeOK
  <2>3. CASE obj[d].session # s
    <3>1. sessions'[s] = sessions[s]
      BY <2>1, <2>3 DEF EndSession, TypeOK, Objects
    <3>2. Live(sessions, s) => sessions[s].by \in Devices \ {d}
      BY <2>3 DEF SessionHeld, Live, TypeOK, Rings
    <3> QED BY <1>5, <3>1, <3>2, OthersKeep DEF SessionHeld, Live
  <2> QED BY <2>2, <2>3
<1>6. ASSUME NEW t \in Threads, NEW d \in Devices, Setting(t, d) PROVE SessionHeld(s)'
  <2>1. sessions'[s].by = sessions[s].by
    BY <1>6 DEF Setting, Write, SetMtu, SetAddr, TypeOK, Rings
  <2> QED BY <1>2, <1>6, <2>1, OthersKeep, KeptHandles
<1> QED BY <1>1, <1>3, <1>4, <1>5, <1>6, Cases, DriverFrame, ReadFrame DEF SameHandles, vars

LEMMA EventHeldStep ==
  ASSUME ~ReinitOpen, CoreInv, [Next]_vars, NEW e \in Events, EventHeld(e)
  PROVE  EventHeld(e)'
<1> USE DEF CoreInv
<1>1. ASSUME UNCHANGED <<obj, events>> PROVE EventHeld(e)'
  BY <1>1 DEF EventHeld, Live
<1>2. ASSUME UNCHANGED events, NEW d \in Devices,
             obj'[d].read_cancel_event = obj[d].read_cancel_event,
             \A x \in Devices : x # d => obj'[x] = obj[x]
      PROVE  EventHeld(e)'
  BY <1>2 DEF EventHeld, Live, TypeOK
<1>3. ASSUME NEW t \in Threads, NEW d \in Devices,
             InitNoDll(t, d) \/ InitNoAdapter(t, d) \/ InitOk(t, d)
      PROVE  EventHeld(e)'
  <2>1. obj[d].read_cancel_event = NULL
    BY <1>3 DEF InitNoDll, InitNoAdapter, InitOk, MayInit, Nested
  <2>2. obj'[d].read_cancel_event = NULL
    BY <1>3, Emptied, Acquired DEF Empty
  <2>3. UNCHANGED events
    BY <1>3 DEF InitNoDll, InitNoAdapter, InitOk
  <2> QED BY <1>2, <1>3, <2>1, <2>2, <2>3, OthersKeep
<1>4. ASSUME NEW t \in Threads, NEW d \in Devices, Up(t, d) PROVE EventHeld(e)'
  <2>1. PICK n \in Sessions, c \in Events \cup {NULL} :
          /\ events' = IF c = NULL THEN events ELSE [events EXCEPT ![c].by = d]
          /\ obj' = [obj EXCEPT ![d].session = n, ![d].read_wait_event = n,
                                ![d].read_cancel_event = c]
          /\ obj[d].session = NULL
    BY <1>4 DEF Up
  <2>2. obj'[d].read_cancel_event = c /\ \A x \in Devices : x # d => obj'[x] = obj[x]
    BY <2>1 DEF TypeOK, Objects
  <2>3. obj[d].read_cancel_event = NULL
    BY <2>1 DEF Nested
  <2>4. CASE e = c
    BY <2>1, <2>2, <2>4, NullAssumption DEF EventHeld, Live, TypeOK
  <2>5. CASE e # c
    <3>1. events'[e] = events[e]
      BY <2>1, <2>5 DEF TypeOK
    <3>2. Live(events, e) => events[e].by \in Devices \ {d}
      BY <2>3, NullAssumption DEF EventHeld, Live, TypeOK
    <3> QED BY <2>2, <3>1, <3>2 DEF EventHeld, Live
  <2> QED BY <2>4, <2>5
<1>5. ASSUME NEW t \in Threads, NEW d \in Devices, Down(t, d) \/ Close(t, d) \/ Dealloc(t, d)
      PROVE  EventHeld(e)'
  <2>1. EndSession(d)
    BY <1>5 DEF Down, Close, Dealloc, Release
  <2>2. CASE obj[d].read_cancel_event = e
    BY <2>1, <2>2, NullAssumption DEF EndSession, NoEvent, EventHeld, Live, TypeOK
  <2>3. CASE obj[d].read_cancel_event # e
    <3>1. events'[e] = events[e]
      BY <2>1, <2>3 DEF EndSession, TypeOK, Objects
    <3>2. Live(events, e) => events[e].by \in Devices \ {d}
      BY <2>3 DEF EventHeld, Live, TypeOK
    <3> QED BY <1>5, <3>1, <3>2, OthersKeep DEF EventHeld, Live
  <2> QED BY <2>2, <2>3
<1>6. ASSUME NEW t \in Threads, NEW d \in Devices, Setting(t, d) PROVE EventHeld(e)'
  <2>1. UNCHANGED events
    BY <1>6 DEF Setting, Write, SetMtu, SetAddr
  <2> QED BY <1>2, <1>6, <2>1, OthersKeep, KeptHandles
<1> QED BY <1>1, <1>3, <1>4, <1>5, <1>6, Cases, DriverFrame, ReadFrame DEF SameHandles, vars

\* The DLL is loaded exactly once for each object that counts on it.
LEMMA RefsStep ==
  ASSUME ~ReinitOpen, CoreInv, [Next]_vars, dll.refs = Cardinality(Loaded)
  PROVE  (dll.refs = Cardinality(Loaded))'
<1> USE DEF CoreInv
<1>1. IsFiniteSet(Loaded) /\ Cardinality(Loaded) \in Nat
  BY FS_CardinalityType DEF DllOK
<1>2. ASSUME UNCHANGED dll, Loaded' = Loaded PROVE dll'.refs = Cardinality(Loaded')
  BY <1>2
<1>3. ASSUME NEW t \in Threads, NEW d \in Devices, InitNoDll(t, d)
      PROVE  dll'.refs = Cardinality(Loaded')
  <2>1. UNCHANGED dll /\ d \notin Loaded
    BY <1>3 DEF InitNoDll, MayInit, Loaded
  <2> QED BY <1>2, <1>3, <2>1, LoadedStep
<1>4. ASSUME NEW t \in Threads, NEW d \in Devices, InitNoAdapter(t, d) \/ InitOk(t, d)
      PROVE  dll'.refs = Cardinality(Loaded')
  <2>1. dll'.refs = dll.refs + 1 /\ d \notin Loaded
    BY <1>4 DEF InitNoAdapter, InitOk, load_wintun_api, MayInit, Loaded
  <2>2. Cardinality(Loaded \cup {d}) = Cardinality(Loaded) + 1
    BY <1>1, <2>1, FS_AddElement
  <2> QED BY <1>4, <2>1, <2>2, LoadedStep
<1>5. ASSUME NEW t \in Threads, NEW d \in Devices, Up(t, d) \/ Down(t, d) \/ Setting(t, d)
      PROVE  dll'.refs = Cardinality(Loaded')
  <2>1. UNCHANGED dll
    BY <1>5 DEF Up, Down, Setting, Write, SetMtu, SetAddr
  <2> QED BY <1>2, <1>5, <2>1, LoadedStep
<1>6. ASSUME NEW t \in Threads, NEW d \in Devices, Close(t, d) \/ Dealloc(t, d)
      PROVE  dll'.refs = Cardinality(Loaded')
  <2>1. Release(d) /\ Loaded' = Loaded \ {d}
    BY <1>6, LoadedStep DEF Close, Dealloc
  <2>2. CASE d \in Loaded
    <3>1. dll'.refs = dll.refs - 1
      BY <2>1, <2>2 DEF Release, FreeLibrary, Loaded, TypeOK
    <3>2. Cardinality(Loaded \ {d}) = Cardinality(Loaded) - 1
      BY <1>1, <2>2, FS_RemoveElement
    <3> QED BY <2>1, <3>1, <3>2
  <2>3. CASE d \notin Loaded
    BY <1>2, <2>1, <2>3 DEF Release, Loaded
  <2> QED BY <2>2, <2>3
<1>7. ASSUME UNCHANGED <<obj, dll>> PROVE dll'.refs = Cardinality(Loaded')
  BY <1>2, <1>7 DEF Loaded
<1> QED BY <1>3, <1>4, <1>5, <1>6, <1>7, Cases, DriverFrame, ReadFrame DEF SameHandles, vars

LEMMA NothingLeftStep ==
  ASSUME ~ReinitOpen, CoreInv, NothingLeft, [Next]_vars
  PROVE  NothingLeft'
<1>1. /\ \A a \in Adapters : AdapterHeld(a)
      /\ \A s \in Sessions : SessionHeld(s)
      /\ \A e \in Events : EventHeld(e)
      /\ dll.refs = Cardinality(Loaded)
  BY DEF NothingLeft, AdaptersReleased, AdapterHeld, SessionHeld, EventHeld, Loaded
<1>2. /\ \A a \in Adapters : AdapterHeld(a)'
      /\ \A s \in Sessions : SessionHeld(s)'
      /\ \A e \in Events : EventHeld(e)'
      /\ (dll.refs = Cardinality(Loaded))'
  BY <1>1, AdapterHeldStep, SessionHeldStep, EventHeldStep, RefsStep
<1> QED BY <1>2 DEF NothingLeft, AdaptersReleased, AdapterHeld, SessionHeld, EventHeld, Loaded

\* Unless __init__ is called on an object that holds something, every adapter,
\* session and event that is not released yet is in a field of the object that got
\* it, and the DLL is loaded once for each object that counts on it.
THEOREM NothingLeftBehind ==
  ASSUME ~ReinitOpen
  PROVE  Spec => []NothingLeft
<1>1. Init => NothingLeft
  <2> SUFFICES ASSUME Init PROVE NothingLeft
    OBVIOUS
  <2>1. {d \in Devices : obj[d].wintun_module # NULL} = {}
    BY DEF Init, Fresh, Opened
  <2>2. Cardinality({}) = 0
    BY FS_EmptySet
  <2> QED BY <2>1, <2>2 DEF Init, NothingLeft, AdaptersReleased, Live, NoAdapter, NoSession, Session, NoEvent
<1>2. CoreInv /\ NothingLeft /\ [Next]_vars => NothingLeft'
  BY NothingLeftStep
<1> QED BY <1>1, <1>2, CoreInvariant, PTL DEF Spec

-----------------------------------------------------------------------------
(* The backend implements the contract of TunLease *)

\* The values the contract's variables have here.
Leases  == [d \in Devices |-> obj[d].adapter]
Ifaces  == [a \in Adapters |-> IF Live(adapters, a) THEN "private" ELSE "none"]

LEMMA LeaseStutter ==
  ASSUME Leases' = Leases, Ifaces' = Ifaces
  PROVE  [Lease!Next]_(Lease!vars)
BY DEF Lease!vars, Leases, Ifaces

\* Every step is one of the contract or changes nothing the contract speaks of.
LEMMA LeaseStep ==
  ASSUME ~ReinitOpen, CoreInv, NothingLeft, [Next]_vars
  PROVE  [Lease!Next]_(Lease!vars)
<1> USE DEF CoreInv
<1>1. ASSUME UNCHANGED <<obj, adapters>> PROVE [Lease!Next]_(Lease!vars)
  BY <1>1, LeaseStutter DEF Leases, Ifaces, Live
<1>2. ASSUME UNCHANGED adapters, \A d \in Devices : obj'[d].adapter = obj[d].adapter
      PROVE  [Lease!Next]_(Lease!vars)
  BY <1>2, LeaseStutter DEF Leases, Ifaces, Live
<1>3. ASSUME NEW t \in Threads, NEW d \in Devices, InitNoDll(t, d) \/ InitNoAdapter(t, d)
      PROVE  [Lease!Next]_(Lease!vars)
  <2>1. obj[d].adapter = NULL
    BY <1>3 DEF InitNoDll, InitNoAdapter, MayInit, Nested
  <2>2. obj'[d].adapter = NULL
    BY <1>3, Emptied, Acquired DEF Empty
  <2> QED BY <1>2, <1>3, <2>1, <2>2, OthersKeep DEF InitNoDll, InitNoAdapter
<1>4. ASSUME NEW t \in Threads, NEW d \in Devices, InitOk(t, d)
      PROVE  [Lease!Next]_(Lease!vars)
  <2>1. obj[d].adapter = NULL
    BY <1>4 DEF InitOk, MayInit, Nested
  <2>2. PICK base \in Bases, a \in Adapters :
          /\ ~Live(adapters, a)
          /\ adapters' = [adapters EXCEPT ![a].by = d]
          /\ obj' = [obj EXCEPT ![d] = Opened(base, a)]
    BY <1>4 DEF InitOk
  <2>3. Leases' = [Leases EXCEPT ![d] = a]
    BY <2>2 DEF Leases, Opened, TypeOK
  <2>4. Ifaces[a] = "none" /\ Ifaces' = [Ifaces EXCEPT ![a] = "private"]
    <3>1. Ifaces[a] = "none"
      BY <2>2, NullAssumption DEF Ifaces, Live, TypeOK
    <3>2. adapters'[a].by = d /\ \A b \in Adapters \ {a} : adapters'[b] = adapters[b]
      BY <2>2 DEF TypeOK
    <3>3. Live(adapters', a) /\ \A b \in Adapters \ {a} : Live(adapters', b) <=> Live(adapters, b)
      BY <3>2, NullAssumption DEF Live
    <3> QED BY <2>2, <3>1, <3>3 DEF Ifaces
  <2>5. Lease!Acquire(d, a)
    BY <2>1, <2>3, <2>4 DEF Lease!Acquire, Leases, Ifaces
  <2> QED BY <2>5 DEF Lease!Next, Lease!vars
<1>5. ASSUME NEW t \in Threads, NEW d \in Devices, Up(t, d) \/ Down(t, d) \/ Setting(t, d)
      PROVE  [Lease!Next]_(Lease!vars)
  <2>1. UNCHANGED adapters
    BY <1>5 DEF Up, Down, Setting, Write, SetMtu, SetAddr
  <2> QED BY <1>2, <1>5, <2>1, OthersKeep, KeptHandles
<1>6. ASSUME NEW t \in Threads, NEW d \in Devices, Close(t, d) \/ Dealloc(t, d)
      PROVE  [Lease!Next]_(Lease!vars)
  <2>1. Release(d) /\ obj'[d].adapter = NULL /\ \A e \in Devices : e # d => obj'[e] = obj[e]
    BY <1>6, Emptied, OthersKeep DEF Close, Dealloc, Empty
  <2>2. CASE obj[d].adapter = NULL
    BY <1>2, <2>1, <2>2 DEF Release
  <2>3. CASE obj[d].adapter # NULL
    <3>1. PICK a \in Adapters : obj[d].adapter = a /\ adapters[a].by = d
      BY <2>3 DEF TypeOK, Objects, OwnHandles
    <3>2. adapters' = [adapters EXCEPT ![a] = NoAdapter]
      BY <2>1, <2>3, <3>1 DEF Release
    <3>3. Leases[d] = a /\ Leases' = [Leases EXCEPT ![d] = NULL]
      BY <2>1, <3>1 DEF Leases
    <3>4. Ifaces' = [Ifaces EXCEPT ![a] = "none"]
      BY <3>1, <3>2 DEF Ifaces, Live, NoAdapter, TypeOK
    <3>5. {e \in Devices : Leases[e] = a} = {d}
      BY <3>1, NullAssumption DEF Leases, OwnHandles
    <3>6. Lease!Release(d, a)
      BY <3>3, <3>4, <3>5 DEF Lease!Release, Lease!Holders, Leases, Ifaces
    <3> QED BY <3>6 DEF Lease!Next, Lease!vars
  <2> QED BY <2>2, <2>3
<1> QED BY <1>1, <1>3, <1>4, <1>5, <1>6, Cases, DriverFrame, ReadFrame DEF SameHandles, vars

\* Unless __init__ is called on an object that holds something, an adapter is one
\* object's from __init__ to close() or deallocation, whatever else is called.
THEOREM BackendKeepsLease ==
  ASSUME ~ReinitOpen
  PROVE  Spec => LeaseSpec
<1>1. Init => Lease!Init
  BY NullAssumption DEF Init, Lease!Init, Fresh, Opened, NoAdapter, Live
<1>2. CoreInv /\ NothingLeft /\ [Next]_vars => [Lease!Next]_(Lease!vars)
  BY LeaseStep
<1> QED BY <1>1, <1>2, CoreInvariant, NothingLeftBehind, PTL DEF Spec, LeaseSpec, Lease!Spec
=============================================================================
