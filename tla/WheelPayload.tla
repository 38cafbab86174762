----------------------------- MODULE WheelPayload -----------------------------
(***************************************************************************)
(* How the Wintun files get into a Windows wheel and are found again:      *)
(* scripts/fetch_wintun_release.py stages the files of a pinned release in  *)
(* the working tree, setup.py packs those of one architecture,             *)
(* scripts/verify_wheels.py checks the wheel, and the package's __init__    *)
(* looks for the DLL's directory.  A fetch writes file by file and may stop *)
(* anywhere, by an error of its own or because it is interrupted; what it   *)
(* has written stays.                                                      *)
(***************************************************************************)
EXTENDS Naturals, Sequences, FiniteSets

CONSTANTS
  Releases,   \* releases of dryark/wintun
  Members,    \* the kinds of files of a bundle, in the order they are copied
  Requests,   \* values of --arches, as sequences of architectures
  Platforms,  \* what sysconfig.get_platform() may say where a wheel is built
  Machines,   \* what platform.machine() may say, in small letters without - and _
  NULL

Arches == {"amd64", "arm64", "x86"}
Kinds  == {Members[i] : i \in DOMAIN Members}

ASSUME PayloadAssumption ==
  /\ NULL \notin Releases /\ "bad" \notin Releases
  /\ Members \in Seq(Kinds) /\ "dll" \in Kinds /\ Cardinality(Kinds) = Len(Members)
  /\ Requests \subseteq Seq(Arches) \ {<<>>}

VARIABLES
  pin,     \* the release packaging/wintun-release.json names
  staged,  \* staged[a][k]: the file of kind k in py_tuntap_abi3/wintun/bin/<a>
  fetch,   \* the run of fetch_wintun_release.py, if there is one
  done,    \* done[a]: the release a's files are of since a fetch of them ended (auxiliary)
  wheel    \* the wheel built last

vars == <<pin, staged, fetch, done, wheel>>

-----------------------------------------------------------------------------
(* The data *)

\* A file: the zip it is from, and whether all of it has been written.
NoFile  == [zip |-> NULL, whole |-> FALSE]
Missing == [k \in Kinds |-> NoFile]

\* "download": about to fetch the bundle of Head(todo); "check": about to compare
\* its hash; "open": about to open Head(members) for writing; "copy": writing it.
NoFetch == [at |-> "none", tag |-> NULL, zip |-> NULL, todo |-> <<>>, members |-> <<>>]
NoWheel == [platform |-> NULL, files |-> [a \in Arches |-> Missing],
            fresh |-> FALSE, verified |-> FALSE]

TypeOK ==
  /\ pin \in Releases
  /\ staged \in [Arches -> [Kinds -> [zip : Releases \cup {NULL}, whole : BOOLEAN]]]
  /\ fetch.at \in {"none", "download", "check", "open", "copy"}
  /\ fetch.todo \in Seq(Arches) /\ fetch.members \in Seq(Kinds)
  /\ done \in [Arches -> Releases \cup {NULL}]
  /\ DOMAIN wheel.files = Arches

-----------------------------------------------------------------------------
(* The names of architectures *)

\* The table setup.py and __init__ share; "" for a name that is not in it.
KnownArch(name) ==
  CASE name \in {"amd64", "x8664"} -> "amd64"
    [] name \in {"arm64", "aarch64"} -> "arm64"
    [] name \in {"x86", "i386", "i686", "win32"} -> "x86"
    [] name \in {"arm", "armv7", "armv7l"} -> "arm"
    [] OTHER -> ""

\* The architecture a wheel is built for: the platform's or, where that says
\* nothing, the environment's or the machine's.
build_arch(platform, env, machine) ==
  CASE platform = "win-amd64" -> "amd64"
    [] platform = "win-arm64" -> "arm64"
    [] platform = "win32" -> "x86"
    [] OTHER -> KnownArch(IF env # NULL THEN env ELSE machine)

\* The directory __init__ adds: the environment's or the machine's.
windows_arch(env, machine) ==
  LET name == IF env # NULL THEN env ELSE machine
  IN  IF KnownArch(name) # "" THEN KnownArch(name) ELSE name

-----------------------------------------------------------------------------
(* fetch_wintun_release.py *)

FetchStart(req) ==
  /\ fetch = NoFetch
  /\ fetch' = [NoFetch EXCEPT !.at = "download", !.tag = pin, !.todo = req]
  /\ UNCHANGED <<pin, staged, done, wheel>>

\* What comes is the bundle of some release (assets can be replaced) or no
\* bundle at all.
FetchDownload(zip) ==
  /\ fetch.at = "download"
  /\ fetch' = [fetch EXCEPT !.at = "check", !.zip = zip]
  /\ UNCHANGED <<pin, staged, done, wheel>>

\* Mutant: the hash is not compared.
FetchTrust ==
  /\ fetch.at = "check"
  /\ fetch' = [fetch EXCEPT !.at = "open", !.members = Members]
  /\ UNCHANGED <<pin, staged, done, wheel>>

\* The hash is that of the pinned release.
FetchVerify ==
  /\ fetch.at = "check" /\ fetch.zip = fetch.tag
  /\ fetch' = [fetch EXCEPT !.at = "open", !.members = Members]
  /\ UNCHANGED <<pin, staged, done, wheel>>

\* Opening a file for writing empties it.
FetchOpen ==
  /\ fetch.at = "open"
  /\ LET a == Head(fetch.todo)
     IN  /\ staged' = [staged EXCEPT ![a][Head(fetch.members)] =
                                       [zip |-> fetch.zip, whole |-> FALSE]]
         /\ done' = [done EXCEPT ![a] = NULL]
  /\ fetch' = [fetch EXCEPT !.at = "copy"]
  /\ UNCHANGED <<pin, wheel>>

\* Mutant: a member that is there already is not copied again.
FetchCopyMissing ==
  /\ fetch.at = "copy"
  /\ LET a    == Head(fetch.todo)
         rest == SelectSeq(Tail(fetch.members), LAMBDA k : staged[a][k] = NoFile)
         left == IF rest = <<>> THEN Tail(fetch.todo) ELSE fetch.todo
     IN  /\ staged' = [staged EXCEPT ![a][Head(fetch.members)].whole = TRUE]
         /\ done' = IF rest = <<>> THEN [done EXCEPT ![a] = fetch.tag] ELSE done
         /\ fetch' = IF rest # <<>> THEN [fetch EXCEPT !.at = "open", !.members = rest]
                     ELSE IF left # <<>> THEN [fetch EXCEPT !.at = "download", !.members = <<>>,
                                                            !.todo = left]
                     ELSE NoFetch
  /\ UNCHANGED <<pin, wheel>>

\* The file is complete: the next member, the next architecture, or the end.
FetchCopy ==
  /\ fetch.at = "copy"
  /\ LET a    == Head(fetch.todo)
         rest == Tail(fetch.members)
         left == IF rest = <<>> THEN Tail(fetch.todo) ELSE fetch.todo
     IN  /\ staged' = [staged EXCEPT ![a][Head(fetch.members)].whole = TRUE]
         /\ done' = IF rest = <<>> THEN [done EXCEPT ![a] = fetch.tag] ELSE done
         /\ fetch' = IF rest # <<>> THEN [fetch EXCEPT !.at = "open", !.members = rest]
                     ELSE IF left # <<>> THEN [fetch EXCEPT !.at = "download", !.members = <<>>,
                                                            !.todo = left]
                     ELSE NoFetch
  /\ UNCHANGED <<pin, wheel>>

\* A network error, a hash that differs, a member the zip has not, an interrupt.
FetchStop ==
  /\ fetch # NoFetch
  /\ fetch' = NoFetch
  /\ UNCHANGED <<pin, staged, done, wheel>>

-----------------------------------------------------------------------------
(* setup.py, verify_wheels.py *)

\* The files of one architecture.
Packed(arch) == [a \in Arches |-> IF a = arch THEN staged[a] ELSE Missing]

\* Mutant: only the DLL is looked for.
DllStaged(arch) == staged[arch]["dll"] # NoFile

\* Each file is looked for by its name.
AllStaged(arch) == \A k \in Kinds : staged[arch][k] # NoFile

\* A build for an unknown architecture or with a file missing raises.
Build(platform, env, machine) ==
  LET arch == build_arch(platform, env, machine)
  IN  /\ fetch = NoFetch
      /\ arch \in Arches /\ AllStaged(arch)
      /\ wheel' = [platform |-> platform, files |-> Packed(arch),
                   fresh |-> done[arch] # NULL, verified |-> FALSE]
      /\ UNCHANGED <<pin, staged, fetch, done>>

\* The directories the wheel has a DLL in.
arch_dirs(files) == {a \in Arches : files[a]["dll"] # NoFile}

\* The platforms whose wheels have "win" in their names.
NamedWin(platform) == platform \in {"win-amd64", "win-arm64", "win-arm32", "win32"}

\* A wheel without it must have no DLL at all.
Verify ==
  /\ wheel # NoWheel
  /\ IF NamedWin(wheel.platform) THEN Cardinality(arch_dirs(wheel.files)) = 1
                                ELSE arch_dirs(wheel.files) = {}
  /\ wheel' = [wheel EXCEPT !.verified = TRUE]
  /\ UNCHANGED <<pin, staged, fetch, done>>

\* Another commit is checked out, with another pin; staged files are not tracked.
Checkout(r) ==
  /\ pin' = r
  /\ UNCHANGED <<staged, fetch, done, wheel>>

-----------------------------------------------------------------------------
Init ==
  /\ pin \in Releases
  /\ staged = [a \in Arches |-> Missing]
  /\ fetch = NoFetch
  /\ done = [a \in Arches |-> NULL]
  /\ wheel = NoWheel

Next ==
  \/ \E req \in Requests : FetchStart(req)
  \/ \E zip \in Releases \cup {"bad"} : FetchDownload(zip)
  \/ FetchVerify \/ FetchOpen \/ FetchCopy \/ FetchStop
  \/ \E platform \in Platforms, env \in Machines \cup {NULL}, machine \in Machines :
       Build(platform, env, machine)
  \/ Verify
  \/ \E r \in Releases : Checkout(r)

Spec == Init /\ [][Next]_vars

-----------------------------------------------------------------------------
(* Properties *)

\* A fetch that ended leaves each of its architectures' files whole and of the
\* release it was pinned to, whatever fetches were broken off before it and
\* whichever release they were of; until the next one begins to write.
FetchIsComplete ==
  \A a \in Arches : done[a] # NULL =>
    \A k \in Kinds : staged[a][k] = [zip |-> done[a], whole |-> TRUE]

\* What README.md:16 says ("verifies hashes before staging payloads"): a staged
\* file changes only by a fetch that has compared the hash of what it writes with
\* that of the release pinned when it began.
StagedIsVerified ==
  [][staged' # staged => \A a \in Arches, k \in Kinds :
       staged'[a][k] # staged[a][k] =>
         staged'[a][k].zip = fetch.tag /\ a = Head(fetch.todo)]_vars

\* A wheel that passed verification has all kinds of files for the architecture
\* of its platform and no DLL for another; if no fetch was broken off since they
\* were staged, they are whole and of one release.
VerifiedWheel ==
  wheel.verified =>
    \E a \in Arches :
      /\ arch_dirs(wheel.files) = {a} /\ \A k \in Kinds : wheel.files[a][k] # NoFile
      /\ wheel.platform \in {"win-amd64", "win-arm64", "win32"} =>
           a = build_arch(wheel.platform, NULL, NULL)
      /\ wheel.fresh => \E r \in Releases : \A k \in Kinds :
                          wheel.files[a][k] = [zip |-> r, whole |-> TRUE]

\* The machines of Windows that run a Python of the platform, natively or by
\* emulation.
Hosts(platform) ==
  CASE platform = "win-arm64" -> {"arm64"}
    [] platform = "win-amd64" -> {"amd64", "arm64"}
    [] platform = "win32" -> {"x86", "amd64", "arm64"}
    [] OTHER -> {}

\* What README.md:30 says ("adds that <arch> directory to the Windows DLL search
\* path so drywintun.dll loads cleanly"): on every machine that runs the wheel's
\* Python, without the environment variable, the directory has the DLL.
ImportFindsPayload ==
  wheel.verified => \A machine \in Machines \cap Hosts(wheel.platform) :
    windows_arch(NULL, machine) \in arch_dirs(wheel.files)
=============================================================================
