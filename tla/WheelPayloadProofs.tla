-------------------------- MODULE WheelPayloadProofs --------------------------
(***************************************************************************)
(* Proofs about WheelPayload for every set of releases, list of kinds of   *)
(* files, and set of requests, platforms and machines.                     *)
(***************************************************************************)
EXTENDS WheelPayload, SequenceTheorems, TLAPS

File == [zip : Releases \cup {NULL}, whole : BOOLEAN]

\* A file of release r, complete or as open() for writing leaves it.
Of(r, all) == [zip |-> r, whole |-> all]

FetchType == [at : {"none", "download", "check", "open", "copy"},
              tag : Releases \cup {NULL}, zip : Releases \cup {NULL, "bad"},
              todo : Seq(Arches), members : Seq(Kinds)]

Types == /\ pin \in Releases
         /\ staged \in [Arches -> [Kinds -> File]]
         /\ fetch \in FetchType
         /\ done \in [Arches -> Releases \cup {NULL}]

Writing == fetch.at \in {"open", "copy"}

\* The kinds of files a sequence names.
Named(seq) == {seq[i] : i \in DOMAIN seq}

\* A fetch has a release and an architecture; while it writes, what it writes is of
\* this release, and of the files of this architecture those are written already which
\* it does not name any more.
FetchOK ==
  /\ fetch.at = "none" => fetch = NoFetch
  /\ fetch.at # "none" => fetch.tag \in Releases /\ fetch.todo # <<>>
  /\ Writing =>
       /\ fetch.zip = fetch.tag /\ fetch.members # <<>>
       /\ \A k \in Kinds : k \in Named(fetch.members)
                             \/ staged[Head(fetch.todo)][k] = Of(fetch.tag, TRUE)
  /\ fetch.at = "copy" =>
       /\ staged[Head(fetch.todo)][Head(fetch.members)].zip = fetch.tag
       /\ done[Head(fetch.todo)] = NULL

\* A wheel has the files of one architecture, whichever, that of its platform.
Holds(w, arch) ==
  /\ w.platform \in Platforms
  /\ \A a \in Arches, k \in Kinds : w.files[a][k] # NoFile <=> a = arch
  /\ w.platform \in {"win-amd64", "win-arm64", "win32"} =>
       arch = build_arch(w.platform, NULL, NULL)
  /\ w.fresh => \E r \in Releases : \A k \in Kinds : w.files[arch][k] = Of(r, TRUE)

WheelType == [platform : Platforms \cup {NULL}, files : [Arches -> [Kinds -> File]],
              fresh : BOOLEAN, verified : BOOLEAN]

WheelOK == /\ wheel \in WheelType
           /\ wheel = NoWheel \/ \E arch \in Arches : Holds(wheel, arch)

PayloadInv == Types /\ FetchOK /\ FetchIsComplete /\ WheelOK

-----------------------------------------------------------------------------
(* Facts about sequences and values *)

LEMMA HeadTail ==
  ASSUME NEW S, NEW s \in Seq(S), s # <<>>
  PROVE  /\ Head(s) \in S /\ Tail(s) \in Seq(S)
         /\ Head(s) \in Named(s)
         /\ \A x : x \in Named(s) => x = Head(s) \/ x \in Named(Tail(s))
<1>1. Len(s) \in Nat \ {0} /\ DOMAIN s = 1 .. Len(s) /\ Head(s) = s[1]
  BY EmptySeq, LenProperties
<1>2. /\ Head(s) \in S /\ Tail(s) \in Seq(S) /\ Len(Tail(s)) = Len(s) - 1
      /\ \A i \in 1 .. Len(Tail(s)) : Tail(s)[i] = s[i + 1]
  BY HeadTailProperties
<1>3. DOMAIN Tail(s) = 1 .. (Len(s) - 1)
  BY <1>2, LenProperties
<1>4. Head(s) \in Named(s)
  BY <1>1 DEF Named
<1>5. ASSUME NEW x \in Named(s), x # Head(s) PROVE x \in Named(Tail(s))
  <2>1. PICK i \in 1 .. Len(s) : x = s[i]
    BY <1>1 DEF Named
  <2>2. i - 1 \in 1 .. (Len(s) - 1) /\ Tail(s)[i - 1] = x
    BY <1>1, <1>2, <1>5, <2>1
  <2> QED BY <1>3, <2>2 DEF Named
<1> QED BY <1>2, <1>4, <1>5

LEMMA Completed ==
  ASSUME NEW f \in File
  PROVE  [f EXCEPT !.whole = TRUE] = Of(f.zip, TRUE)
<1>1. ASSUME NEW b \in BOOLEAN PROVE [f EXCEPT !.whole = b] = Of(f.zip, b)
  <2>1. PICK z \in Releases \cup {NULL}, w \in BOOLEAN : f = [zip |-> z, whole |-> w]
    BY DEF File
  <2>2. f.zip = z
    BY <2>1
  <2>3. [[zip |-> z, whole |-> w] EXCEPT !.whole = b] = [zip |-> z, whole |-> b]
    OBVIOUS
  <2> QED BY <2>1, <2>2, <2>3, Zenon DEF Of
<1>2. \A b \in BOOLEAN : [f EXCEPT !.whole = b] = Of(f.zip, b)
  BY <1>1
<1> QED BY <1>2, Zenon

LEMMA Values ==
  /\ NoFile \in File /\ Missing \in [Kinds -> File]
  /\ NoFetch \in FetchType /\ NoFetch.at = "none"
  /\ \A r \in Releases : \A all \in BOOLEAN : Of(r, all) \in File /\ Of(r, all) # NoFile
<1>1. NoFile \in File
  BY DEF NoFile, File
<1>2. NoFetch \in FetchType /\ NoFetch.at = "none"
  BY EmptySeq DEF NoFetch, FetchType
<1>3. \A r \in Releases : \A all \in BOOLEAN : Of(r, all) \in File /\ Of(r, all) # NoFile
  BY PayloadAssumption DEF Of, File, NoFile
<1> QED BY <1>1, <1>2, <1>3 DEF Missing

-----------------------------------------------------------------------------
(* The steps of a fetch *)

\* The state of a fetch after each of its steps but the last ones.
LEMMA FetchTypes ==
  ASSUME Types, FetchOK
  PROVE  /\ \A req \in Requests :
              [NoFetch EXCEPT !.at = "download", !.tag = pin, !.todo = req] \in FetchType
         /\ \A zip \in Releases \cup {"bad"} :
              [fetch EXCEPT !.at = "check", !.zip = zip] \in FetchType
         /\ [fetch EXCEPT !.at = "open", !.members = Members] \in FetchType
         /\ [fetch EXCEPT !.at = "copy"] \in FetchType
<1>1. \A req \in Requests :
        [NoFetch EXCEPT !.at = "download", !.tag = pin, !.todo = req] \in FetchType
  BY Values, PayloadAssumption DEF Types, FetchType
<1>2. \A zip \in Releases \cup {"bad"} : [fetch EXCEPT !.at = "check", !.zip = zip] \in FetchType
  BY DEF Types, FetchType
<1>3. [fetch EXCEPT !.at = "open", !.members = Members] \in FetchType
  BY PayloadAssumption DEF Types, FetchType
<1>4. [fetch EXCEPT !.at = "copy"] \in FetchType
  BY DEF Types, FetchType
<1> QED BY <1>1, <1>2, <1>3, <1>4

\* Where a fetch that writes is.
LEMMA WritingAt ==
  ASSUME Types, FetchOK, Writing
  PROVE  /\ Head(fetch.todo) \in Arches /\ Tail(fetch.todo) \in Seq(Arches)
         /\ Head(fetch.members) \in Kinds /\ Tail(fetch.members) \in Seq(Kinds)
         /\ \A k \in Named(fetch.members) :
              k = Head(fetch.members) \/ k \in Named(Tail(fetch.members))
         /\ Head(fetch.members) \in Named(fetch.members)
         /\ fetch.tag \in Releases
<1>1. /\ fetch.todo \in Seq(Arches) /\ fetch.todo # <<>> /\ fetch.members \in Seq(Kinds)
      /\ fetch.members # <<>> /\ fetch.tag \in Releases
  BY DEF Types, FetchType, FetchOK, Writing
<1> QED BY <1>1, HeadTail

\* FetchOpen empties the file it is at; nothing else changes.
LEMMA OpenStep ==
  ASSUME Types, FetchOK, FetchOpen
  PROVE  /\ Writing /\ fetch.zip = fetch.tag
         /\ staged' \in [Arches -> [Kinds -> File]]
         /\ staged'[Head(fetch.todo)][Head(fetch.members)] = Of(fetch.tag, FALSE)
         /\ \A a \in Arches, k \in Kinds :
              a # Head(fetch.todo) \/ k # Head(fetch.members) => staged'[a][k] = staged[a][k]
         /\ done' = [done EXCEPT ![Head(fetch.todo)] = NULL]
         /\ fetch' = [fetch EXCEPT !.at = "copy"]
<1>1. Writing /\ fetch.zip = fetch.tag
  BY DEF FetchOpen, FetchOK, Writing
<1> DEFINE a == Head(fetch.todo)
           k == Head(fetch.members)
<1>2. staged' = [staged EXCEPT ![a] = [staged[a] EXCEPT ![k] = Of(fetch.tag, FALSE)]]
  BY <1>1 DEF FetchOpen, Of
<1>3. a \in Arches /\ k \in Kinds /\ Of(fetch.tag, FALSE) \in File
  BY <1>1, WritingAt, Values
<1> HIDE DEF a, k
<1>4. /\ staged' \in [Arches -> [Kinds -> File]] /\ staged'[a][k] = Of(fetch.tag, FALSE)
      /\ \A b \in Arches, j \in Kinds : b # a \/ j # k => staged'[b][j] = staged[b][j]
  BY <1>2, <1>3 DEF Types
<1> QED BY <1>1, <1>4 DEF FetchOpen, a, k

\* FetchCopy completes it and goes on.
LEMMA CopyStep ==
  ASSUME Types, FetchOK, FetchCopy
  PROVE  /\ Writing /\ fetch.at = "copy" /\ fetch.zip = fetch.tag
         /\ staged' \in [Arches -> [Kinds -> File]]
         /\ staged'[Head(fetch.todo)][Head(fetch.members)] = Of(fetch.tag, TRUE)
         /\ \A a \in Arches, k \in Kinds :
              a # Head(fetch.todo) \/ k # Head(fetch.members) => staged'[a][k] = staged[a][k]
         /\ \/ /\ Tail(fetch.members) # <<>> /\ UNCHANGED done
               /\ fetch' = [fetch EXCEPT !.at = "open", !.members = Tail(fetch.members)]
            \/ /\ Tail(fetch.members) = <<>>
               /\ done' = [done EXCEPT ![Head(fetch.todo)] = fetch.tag]
               /\ \/ fetch' = NoFetch
                  \/ /\ Tail(fetch.todo) # <<>>
                     /\ fetch' = [fetch EXCEPT !.at = "download", !.members = <<>>,
                                               !.todo = Tail(fetch.todo)]
<1>1. Writing /\ fetch.at = "copy" /\ fetch.zip = fetch.tag
  BY DEF FetchCopy, FetchOK, Writing
<1> DEFINE a == Head(fetch.todo)
           k == Head(fetch.members)
<1>2. staged' = [staged EXCEPT ![a] = [staged[a] EXCEPT ![k] = [staged[a][k] EXCEPT !.whole = TRUE]]]
  BY <1>1 DEF FetchCopy
<1>3. a \in Arches /\ k \in Kinds /\ Of(fetch.tag, TRUE) \in File
  BY <1>1, WritingAt, Values
<1>4. staged[a][k] \in File /\ staged[a][k].zip = fetch.tag
  BY <1>1, <1>3 DEF Types, FetchOK
<1>5. [staged[a][k] EXCEPT !.whole = TRUE] = Of(fetch.tag, TRUE)
  BY <1>4, Completed, Zenon
<1> HIDE DEF a, k
<1>6. /\ staged' \in [Arches -> [Kinds -> File]] /\ staged'[a][k] = Of(fetch.tag, TRUE)
      /\ \A b \in Arches, j \in Kinds : b # a \/ j # k => staged'[b][j] = staged[b][j]
  BY <1>2, <1>3, <1>5 DEF Types
<1>7. \/ /\ Tail(fetch.members) # <<>> /\ UNCHANGED done
         /\ fetch' = [fetch EXCEPT !.at = "open", !.members = Tail(fetch.members)]
      \/ /\ Tail(fetch.members) = <<>>
         /\ done' = [done EXCEPT ![Head(fetch.todo)] = fetch.tag]
         /\ \/ fetch' = NoFetch
            \/ /\ Tail(fetch.todo) # <<>>
               /\ fetch' = [fetch EXCEPT !.at = "download", !.members = <<>>,
                                         !.todo = Tail(fetch.todo)]
  BY DEF FetchCopy
<1> QED BY <1>1, <1>6, <1>7 DEF a, k

LEMMA TypesStep == PayloadInv /\ [Next]_vars => Types'
<1> SUFFICES ASSUME Types, FetchOK, [Next]_vars PROVE Types'
  BY DEF PayloadInv
<1>1. CASE UNCHANGED vars
  BY <1>1 DEF vars, Types
<1>2. ASSUME NEW req \in Requests, FetchStart(req) PROVE Types'
  BY <1>2, FetchTypes DEF FetchStart, Types
<1>3. ASSUME NEW zip \in Releases \cup {"bad"}, FetchDownload(zip) PROVE Types'
  BY <1>3, FetchTypes DEF FetchDownload, Types
<1>4. CASE FetchVerify
  BY <1>4, FetchTypes DEF FetchVerify, Types
<1>5. CASE FetchOpen
  <2>1. done' \in [Arches -> Releases \cup {NULL}] /\ UNCHANGED pin
    BY <1>5, OpenStep DEF Types, FetchOpen
  <2> QED BY <1>5, <2>1, OpenStep, FetchTypes DEF Types
<1>6. CASE FetchCopy
  <2>1. done' \in [Arches -> Releases \cup {NULL}] /\ UNCHANGED pin
    BY <1>6, CopyStep, WritingAt DEF Types, FetchCopy
  <2>2. fetch' \in FetchType
    <3>1. [fetch EXCEPT !.at = "open", !.members = Tail(fetch.members)] \in FetchType
      BY <1>6, CopyStep, WritingAt DEF Types, FetchType
    <3>2. [fetch EXCEPT !.at = "download", !.members = <<>>, !.todo = Tail(fetch.todo)] \in FetchType
      BY <1>6, CopyStep, WritingAt, EmptySeq DEF Types, FetchType
    <3> QED BY <1>6, <3>1, <3>2, CopyStep, Values
  <2> QED BY <1>6, <2>1, <2>2, CopyStep DEF Types
<1>7. CASE FetchStop
  BY <1>7, Values DEF FetchStop, Types
<1>8. ASSUME NEW platform \in Platforms, NEW env \in Machines \cup {NULL}, NEW machine \in Machines,
             Build(platform, env, machine)
      PROVE  Types'
  BY <1>8 DEF Build, Types
<1>9. CASE Verify
  BY <1>9 DEF Verify, Types
<1>10. ASSUME NEW r \in Releases, Checkout(r) PROVE Types'
  BY <1>10 DEF Checkout, Types
<1> QED BY <1>1, <1>2, <1>3, <1>4, <1>5, <1>6, <1>7, <1>8, <1>9, <1>10 DEF Next

LEMMA FetchStep == PayloadInv /\ [Next]_vars => FetchOK'
<1> SUFFICES ASSUME Types, FetchOK, [Next]_vars PROVE FetchOK'
  BY DEF PayloadInv
<1>0. ASSUME fetch' = NoFetch PROVE FetchOK'
  BY <1>0, Values DEF FetchOK, Writing
<1>1. ASSUME UNCHANGED <<staged, fetch, done>> PROVE FetchOK'
  BY <1>1 DEF FetchOK, Writing
<1>2. ASSUME NEW req \in Requests, FetchStart(req) PROVE FetchOK'
  <2>1. fetch'.at = "download" /\ fetch'.tag = pin /\ fetch'.todo = req
    BY <1>2 DEF FetchStart, NoFetch
  <2> QED BY <2>1, PayloadAssumption DEF FetchOK, Writing, Types
<1>3. ASSUME NEW zip \in Releases \cup {"bad"}, FetchDownload(zip) PROVE FetchOK'
  <2>1. fetch.at = "download" /\ fetch'.at = "check" /\ fetch'.tag = fetch.tag /\ fetch'.todo = fetch.todo
    BY <1>3 DEF FetchDownload, Types, FetchType
  <2> QED BY <2>1 DEF FetchOK, Writing
<1>4. CASE FetchVerify
  <2>1. /\ fetch.at = "check" /\ fetch.zip = fetch.tag
        /\ fetch'.at = "open" /\ fetch'.tag = fetch.tag /\ fetch'.todo = fetch.todo
        /\ fetch'.zip = fetch.zip /\ fetch'.members = Members
    BY <1>4 DEF FetchVerify, Types, FetchType
  <2>2. Members # <<>> /\ \A k \in Kinds : k \in Named(Members)
    BY PayloadAssumption DEF Kinds, Named
  <2> QED BY <2>1, <2>2 DEF FetchOK, Writing
<1>5. CASE FetchOpen
  <2> DEFINE a == Head(fetch.todo)
             m == Head(fetch.members)
  <2>1. /\ fetch'.at = "copy" /\ fetch'.tag = fetch.tag /\ fetch'.todo = fetch.todo
        /\ fetch'.zip = fetch.zip /\ fetch'.members = fetch.members
    BY <1>5, OpenStep DEF Types, FetchType
  <2>2. /\ Writing /\ fetch.zip = fetch.tag /\ fetch.members # <<>> /\ fetch.todo # <<>>
        /\ fetch.tag \in Releases
        /\ a \in Arches /\ m \in Kinds /\ m \in Named(fetch.members)
    BY <1>5, OpenStep, WritingAt DEF FetchOK, Writing
  <2>3. staged'[a][m].zip = fetch.tag /\ done'[a] = NULL
    BY <1>5, <2>2, OpenStep DEF Of, Types
  <2>4. \A k \in Kinds : k \in Named(fetch.members) \/ staged'[a][k] = Of(fetch.tag, TRUE)
    <3> SUFFICES ASSUME NEW k \in Kinds, k \notin Named(fetch.members)
                 PROVE  staged'[a][k] = Of(fetch.tag, TRUE)
      OBVIOUS
    <3>1. staged[a][k] = Of(fetch.tag, TRUE)
      BY <2>2 DEF FetchOK
    <3>2. k # m
      BY <2>2
    <3> QED BY <1>5, <2>2, <3>1, <3>2, OpenStep
  <2> QED BY <2>1, <2>2, <2>3, <2>4 DEF FetchOK
<1>6. CASE FetchCopy
  <2> DEFINE a == Head(fetch.todo)
             m == Head(fetch.members)
             rest == Tail(fetch.members)
  <2>1. /\ Writing /\ fetch.zip = fetch.tag /\ fetch.tag \in Releases /\ fetch.todo # <<>>
        /\ a \in Arches /\ m \in Kinds
    BY <1>6, CopyStep, WritingAt DEF FetchOK, Writing
  <2>2. \A k \in Kinds : k \in Named(rest) \/ staged'[a][k] = Of(fetch.tag, TRUE)
    <3> SUFFICES ASSUME NEW k \in Kinds, k \notin Named(rest)
                 PROVE  staged'[a][k] = Of(fetch.tag, TRUE)
      OBVIOUS
    <3>1. CASE k = m
      BY <1>6, <3>1, CopyStep
    <3>2. CASE k # m
      <4>1. k \notin Named(fetch.members)
        BY <2>1, <3>2, WritingAt
      <4>2. staged[a][k] = Of(fetch.tag, TRUE)
        BY <2>1, <4>1 DEF FetchOK
      <4> QED BY <1>6, <2>1, <3>2, <4>2, CopyStep
    <3> QED BY <3>1, <3>2
  <2>3. ASSUME rest # <<>>, fetch' = [fetch EXCEPT !.at = "open", !.members = rest] PROVE FetchOK'
    <3>1. /\ fetch'.at = "open" /\ fetch'.tag = fetch.tag /\ fetch'.todo = fetch.todo
          /\ fetch'.zip = fetch.zip /\ fetch'.members = rest
      BY <2>3 DEF Types, FetchType
    <3> QED BY <2>1, <2>2, <2>3, <3>1 DEF FetchOK, Writing
  <2>4. ASSUME Tail(fetch.todo) # <<>>,
               fetch' = [fetch EXCEPT !.at = "download", !.members = <<>>, !.todo = Tail(fetch.todo)]
        PROVE  FetchOK'
    <3>1. fetch'.at = "download" /\ fetch'.tag = fetch.tag /\ fetch'.todo = Tail(fetch.todo)
      BY <2>4 DEF Types, FetchType
    <3> QED BY <2>1, <2>4, <3>1 DEF FetchOK, Writing
  <2> QED BY <1>0, <1>6, <2>3, <2>4, CopyStep
<1>7. CASE FetchStop
  BY <1>0, <1>7 DEF FetchStop
<1> QED BY <1>1, <1>2, <1>3, <1>4, <1>5, <1>6, <1>7 DEF Next, Build, Verify, Checkout, vars

LEMMA CompleteStep == PayloadInv /\ [Next]_vars => FetchIsComplete'
<1> SUFFICES ASSUME Types, FetchOK, FetchIsComplete, [Next]_vars PROVE FetchIsComplete'
  BY DEF PayloadInv
<1>1. ASSUME UNCHANGED <<staged, done>> PROVE FetchIsComplete'
  BY <1>1 DEF FetchIsComplete
<1>2. CASE FetchOpen
  <2> SUFFICES ASSUME NEW a \in Arches, done'[a] # NULL, NEW k \in Kinds
               PROVE  staged'[a][k] = [zip |-> done'[a], whole |-> TRUE]
    BY DEF FetchIsComplete
  <2>1. a # Head(fetch.todo) /\ done'[a] = done[a]
    BY <1>2, OpenStep, WritingAt DEF Types
  <2> QED BY <1>2, <2>1, OpenStep DEF FetchIsComplete
<1>3. CASE FetchCopy
  <2> SUFFICES ASSUME NEW a \in Arches, done'[a] # NULL, NEW k \in Kinds
               PROVE  staged'[a][k] = [zip |-> done'[a], whole |-> TRUE]
    BY DEF FetchIsComplete
  <2>1. CASE a # Head(fetch.todo)
    <3>1. done'[a] = done[a]
      BY <1>3, <2>1, CopyStep DEF Types
    <3> QED BY <1>3, <2>1, <3>1, CopyStep DEF FetchIsComplete
  <2>2. CASE a = Head(fetch.todo)
    <3>1. done[a] = NULL
      BY <1>3, <2>2, CopyStep DEF FetchOK
    <3>2. Tail(fetch.members) = <<>> /\ done'[a] = fetch.tag
      BY <1>3, <2>2, <3>1, CopyStep DEF Types
    <3>3. Named(Tail(fetch.members)) = {}
      BY <3>2 DEF Named
    <3>4. staged'[a][k] = Of(fetch.tag, TRUE)
      <4>1. CASE k = Head(fetch.members)
        BY <1>3, <2>2, <4>1, CopyStep
      <4>2. CASE k # Head(fetch.members)
        <5>1. k \notin Named(fetch.members)
          BY <1>3, <3>3, <4>2, CopyStep, WritingAt
        <5>2. staged[a][k] = Of(fetch.tag, TRUE)
          BY <1>3, <2>2, <5>1, CopyStep DEF FetchOK
        <5> QED BY <1>3, <4>2, <5>2, CopyStep
      <4> QED BY <4>1, <4>2
    <3> QED BY <3>2, <3>4 DEF Of
  <2> QED BY <2>1, <2>2
<1> QED BY <1>1, <1>2, <1>3
        DEF Next, FetchStart, FetchDownload, FetchVerify, FetchStop, Build, Verify, Checkout, vars

-----------------------------------------------------------------------------
(* The wheel *)

\* For a Windows platform the environment and the machine are not asked.
LEMMA PlatformDecides ==
  \A platform \in {"win-amd64", "win-arm64", "win32"} :
    \A e1, m1, e2, m2 : build_arch(platform, e1, m1) = build_arch(platform, e2, m2)
BY DEF build_arch

LEMMA WheelStep == PayloadInv /\ [Next]_vars => WheelOK'
<1> SUFFICES ASSUME Types, FetchIsComplete, WheelOK, [Next]_vars PROVE WheelOK'
  BY DEF PayloadInv
<1>1. ASSUME UNCHANGED wheel PROVE WheelOK'
  BY <1>1 DEF WheelOK
<1>2. ASSUME NEW platform \in Platforms, NEW env \in Machines \cup {NULL}, NEW machine \in Machines,
             Build(platform, env, machine)
      PROVE  WheelOK'
  <2> DEFINE arch == build_arch(platform, env, machine)
             new(b) == [platform |-> platform, files |-> Packed(arch), fresh |-> b, verified |-> FALSE]
  <2>1. arch \in Arches /\ (\A k \in Kinds : staged[arch][k] # NoFile) /\ wheel' = new(done[arch] # NULL)
    BY <1>2 DEF Build, AllStaged
  <2>2. platform \in {"win-amd64", "win-arm64", "win32"} => arch = build_arch(platform, NULL, NULL)
    BY PlatformDecides
  <2> HIDE DEF arch
  <2>3. /\ Packed(arch) \in [Arches -> [Kinds -> File]]
        /\ \A a \in Arches, k \in Kinds : Packed(arch)[a][k] # NoFile <=> a = arch
        /\ Packed(arch)[arch] = staged[arch]
    BY <2>1, Values DEF Packed, Missing, Types
  <2>4. done[arch] # NULL => \E r \in Releases : \A k \in Kinds : Packed(arch)[arch][k] = Of(r, TRUE)
    BY <2>1, <2>3 DEF FetchIsComplete, Types, Of
  <2>5. \A b \in BOOLEAN : new(b) \in WheelType
    <3>1. \A b, v \in BOOLEAN :
            [platform |-> platform, files |-> Packed(arch), fresh |-> b, verified |-> v] \in WheelType
      BY <2>3 DEF WheelType
    <3> QED BY <3>1, Zenon
  <2>6. (done[arch] # NULL) \in BOOLEAN
    OBVIOUS
  <2>7. wheel' \in WheelType
    <3> HIDE DEF new
    <3> QED BY <2>1, <2>5, <2>6
  <2>8. wheel'.files = Packed(arch) /\ wheel'.platform = platform /\ (wheel'.fresh <=> done[arch] # NULL)
    BY <2>1
  <2>9. Holds(wheel', arch)
    BY <2>2, <2>3, <2>4, <2>8 DEF Holds
  <2> QED BY <2>1, <2>7, <2>9 DEF WheelOK
<1>3. CASE Verify
  <2>1. \A b \in BOOLEAN : [wheel EXCEPT !.verified = b] \in WheelType
    BY DEF WheelOK, WheelType
  <2>2. wheel' = [wheel EXCEPT !.verified = TRUE] /\ wheel # NoWheel
    BY <1>3 DEF Verify
  <2>3. wheel' \in WheelType
    BY <2>1, <2>2, Zenon
  <2>4. wheel'.files = wheel.files /\ wheel'.platform = wheel.platform /\ wheel'.fresh = wheel.fresh
    BY <2>2 DEF WheelOK, WheelType
  <2> QED BY <2>2, <2>3, <2>4 DEF WheelOK, Holds
<1> QED BY <1>1, <1>2, <1>3
        DEF Next, FetchStart, FetchDownload, FetchVerify, FetchOpen, FetchCopy, FetchStop, Checkout, vars

-----------------------------------------------------------------------------
(* The invariant and what follows from it *)

\* The inductive invariant: what a fetch has still to write, what is staged, what a
\* completed fetch vouches for and what a wheel was built from fit together.
THEOREM PayloadInvariant == Spec => []PayloadInv
<1>1. Init => PayloadInv
  <2> SUFFICES ASSUME Init PROVE PayloadInv
    OBVIOUS
  <2>1. Types /\ FetchOK /\ FetchIsComplete
    BY Values DEF Init, Types, FetchOK, Writing, FetchIsComplete
  <2>2. NoWheel \in WheelType
    <3>1. \A b, v \in BOOLEAN :
            [platform |-> NULL, files |-> [a \in Arches |-> Missing], fresh |-> b, verified |-> v]
              \in WheelType
      BY Values DEF WheelType
    <3> QED BY <3>1, Zenon DEF NoWheel
  <2> QED BY <2>1, <2>2 DEF Init, WheelOK, PayloadInv
<1>2. PayloadInv /\ [Next]_vars => PayloadInv'
  BY TypesStep, FetchStep, CompleteStep, WheelStep DEF PayloadInv
<1> QED BY <1>1, <1>2, PTL DEF Spec

\* Every state of the scripts has the types of the model's tables.
THEOREM TypeCorrect == Spec => []TypeOK
<1>1. PayloadInv => TypeOK
  BY DEF PayloadInv, Types, FetchType, WheelOK, WheelType, TypeOK, File
<1> QED BY <1>1, PayloadInvariant, PTL

\* Once fetch_wintun_release.py has ended for an architecture, its files are whole and of
\* the pinned release, whichever broken-off fetches came before, for any list of members.
THEOREM FetchCompletes == Spec => []FetchIsComplete
BY PayloadInvariant, PTL DEF PayloadInv

\* A wheel that passed verify_wheels.py has the files of one architecture, all of them, that
\* of its platform, and of one release if nothing was broken off since they were staged.
THEOREM WheelVerified == Spec => []VerifiedWheel
<1>1. ASSUME PayloadInv, wheel.verified
      PROVE  \E a \in Arches :
              /\ arch_dirs(wheel.files) = {a} /\ \A k \in Kinds : wheel.files[a][k] # NoFile
              /\ wheel.platform \in {"win-amd64", "win-arm64", "win32"} =>
                   a = build_arch(wheel.platform, NULL, NULL)
              /\ wheel.fresh => \E r \in Releases : \A k \in Kinds :
                                  wheel.files[a][k] = [zip |-> r, whole |-> TRUE]
  <2>1. wheel # NoWheel
    BY <1>1 DEF NoWheel
  <2>2. PICK a \in Arches : Holds(wheel, a)
    BY <1>1, <2>1 DEF PayloadInv, WheelOK
  <2>3. arch_dirs(wheel.files) = {a}
    BY <2>2, PayloadAssumption DEF Holds, arch_dirs
  <2> QED BY <2>2, <2>3 DEF Holds, Of
<1> QED BY <1>1, PayloadInvariant, PTL DEF VerifiedWheel

\* On machines of the architecture the wheel's Python is for, the directory __init__ adds
\* is the one that has the DLL: the import misses it only under emulation or with a 32-bit
\* Python.
THEOREM NativeImportFinds ==
  ASSUME \A p \in Platforms : \A m \in Machines \cap Hosts(p) : m = build_arch(p, NULL, NULL)
  PROVE  Spec => []ImportFindsPayload
<1>1. ASSUME PayloadInv, VerifiedWheel, wheel.verified, NEW m \in Machines \cap Hosts(wheel.platform)
      PROVE  windows_arch(NULL, m) \in arch_dirs(wheel.files)
  <2>1. wheel.platform \in {"win-amd64", "win-arm64", "win32"}
    BY <1>1 DEF Hosts
  <2>2. wheel.platform \in Platforms
    <3>1. ~NoWheel.verified
      BY DEF NoWheel
    <3>2. PICK a \in Arches : Holds(wheel, a)
      BY <1>1, <3>1 DEF PayloadInv, WheelOK
    <3> QED BY <3>2 DEF Holds
  <2>3. m = build_arch(wheel.platform, NULL, NULL)
    BY <1>1, <2>2
  <2>4. m \in arch_dirs(wheel.files)
    BY <1>1, <2>1, <2>3 DEF VerifiedWheel
  <2>5. m \in {"amd64", "arm64", "x86"}
    BY <2>1, <2>3 DEF build_arch
  <2>6. windows_arch(NULL, m) = m
    BY <2>5 DEF windows_arch, KnownArch
  <2> QED BY <2>4, <2>6
<1>2. PayloadInv /\ VerifiedWheel => ImportFindsPayload
  BY <1>1 DEF ImportFindsPayload
<1> QED BY <1>2, PayloadInvariant, WheelVerified, PTL

\* fetch_wintun_release.py writes nothing of a bundle before its hash was compared with that
\* of the release pinned when the run began, and only files of the architecture it is at.
THEOREM OnlyVerifiedIsStaged == Spec => StagedIsVerified
<1>1. ASSUME PayloadInv, Next, NEW a \in Arches, NEW k \in Kinds, staged'[a][k] # staged[a][k]
      PROVE  staged'[a][k].zip = fetch.tag /\ a = Head(fetch.todo)
  <2> USE DEF PayloadInv
  <2>1. CASE FetchOpen
    BY <1>1, <2>1, OpenStep DEF Of
  <2>2. CASE FetchCopy
    BY <1>1, <2>2, CopyStep DEF Of
  <2> QED BY <1>1, <2>1, <2>2
          DEF Next, FetchStart, FetchDownload, FetchVerify, FetchStop, Build, Verify, Checkout
<1>2. PayloadInv /\ [Next]_vars =>
        [staged' # staged => \A a \in Arches, k \in Kinds :
           staged'[a][k] # staged[a][k] =>
             staged'[a][k].zip = fetch.tag /\ a = Head(fetch.todo)]_vars
  BY <1>1
<1> QED BY <1>2, PayloadInvariant, PTL DEF Spec, StagedIsVerified
=============================================================================
