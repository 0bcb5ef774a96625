--------------------------- MODULE HostKeyProofs ----------------------------
(***************************************************************************)
(* The host key survives any sequence of deaths, for any number of servers *)
(* on the storage, of keys and of deaths.  The argument: whatever the path *)
(* names, now or after the machine has died, is a file whose content is on *)
(* the disk (file.Sync comes before the rename); and a start that installs *)
(* a key found none, so that unless another one did too there still is     *)
(* none when it renames.  At the end, the start of the server around it    *)
(* (SSHStartup), for any environment, flags and file system: where it      *)
(* listens, whether its key may change without a warning, and what its     *)
(* sessions run.                                                           *)
(***************************************************************************)
EXTENDS SSHStartup, WellFoundedInduction, TLAPS

\* What is on the disk is complete, the path names only such files, and a start
\* renames only such a file.
Complete == /\ \A k \in durable : content[k] = "full"
            /\ entry # NoKey => entry \in durable
            /\ durableEntry # NoKey => durableEntry \in durable
            /\ \A s \in Servers : pc[s] = "sync" => content[key[s]] = "full"
            /\ \A s \in Servers : pc[s] = "rename" => key[s] \in durable

\* As long as no first starts have overlapped there is at most one, it finds the path
\* empty to the end, and the disk names no other file than the kernel does.
Exclusive == /\ \A s \in Servers : FirstStart(s) => entry = NoKey
             /\ \A s, t \in Servers : FirstStart(s) /\ FirstStart(t) => s = t
             /\ \A s \in Servers : pc[s] \in {"syncDir", "ready"} => key[s] = entry
             /\ durableEntry \in {NoKey, entry}
             /\ dirSynced => entry # NoKey /\ durableEntry = entry

IInv == TypeOK /\ Complete /\ (~overlapped => Exclusive)

\* A volume without a key, and servers not yet started, satisfy the invariant.
LEMMA InitIInv == Init => IInv
<1> SUFFICES ASSUME Init PROVE IInv
  OBVIOUS
<1>1. \A s \in Servers : pc[s] = "down"
  BY DEF Init
<1>2. TypeOK
  BY <1>1 DEF Init, TypeOK, Installing
<1>3. Complete
  BY <1>1 DEF Init, Complete
<1>4. Exclusive
  BY <1>1 DEF Init, Exclusive, FirstStart
<1> QED
  BY <1>2, <1>3, <1>4 DEF IInv

\* loadOrCreateHostKey up to the rename keeps the invariant.
LEMMA PrepareKeeps ==
  ASSUME IInv, NEW s \in Servers,
         \/ Read(s) \/ StartFails(s) \/ Write(s) \/ Sync(s) \/ WriteFails(s) \/ RenameFails(s)
         \/ \E k \in Keys : CreateTemp(s, k)
  PROVE  IInv'
<1> USE KeysAssumption DEF IInv, TypeOK, Installing, FirstStart, Goto
<1>1. CASE Read(s)
  <2>1. TypeOK'
    BY <1>1 DEF Read, files, Complete
  <2>2. Complete'
    BY <1>1 DEF Read, files, Complete
  <2>3. ~overlapped' => Exclusive'
    BY <1>1 DEF Read, files, Exclusive
  <2> QED
    BY <2>1, <2>2, <2>3
<1>2. CASE StartFails(s)
  BY <1>2 DEF StartFails, files, Complete, Exclusive
<1>3. CASE Write(s)
  <2>1. TypeOK' /\ Complete'
    BY <1>3 DEF Write, Complete
  <2>2. ~overlapped' => Exclusive'
    BY <1>3 DEF Write, Exclusive
  <2> QED
    BY <2>1, <2>2
<1>4. CASE Sync(s)
  <2>1. TypeOK' /\ Complete'
    BY <1>4 DEF Sync, Complete
  <2>2. ~overlapped' => Exclusive'
    BY <1>4 DEF Sync, Exclusive
  <2> QED
    BY <2>1, <2>2
<1>5. CASE WriteFails(s)
  BY <1>5 DEF WriteFails, RemoveTmp, Complete, Exclusive
<1>6. CASE RenameFails(s)
  BY <1>6 DEF RenameFails, RemoveTmp, Complete, Exclusive
<1>7. ASSUME NEW k \in Keys, CreateTemp(s, k) PROVE IInv'
  <2>1. TypeOK'
    BY <1>7 DEF CreateTemp
  <2>2. Complete'
    BY <1>7 DEF CreateTemp, Complete
  <2>3. ~overlapped' => Exclusive'
    BY <1>7 DEF CreateTemp, Exclusive
  <2> QED
    BY <2>1, <2>2, <2>3
<1> QED
  BY <1>1, <1>2, <1>3, <1>4, <1>5, <1>6, <1>7

\* So do the rename and the flush of the directory.
LEMMA InstallKeeps ==
  ASSUME IInv, NEW s \in Servers, Rename(s) \/ \E ok \in BOOLEAN : SyncDir(s, ok)
  PROVE  IInv'
<1> USE KeysAssumption DEF IInv, TypeOK, Installing, FirstStart, Goto
<1>1. CASE Rename(s)
  <2>1. TypeOK' /\ Complete'
    BY <1>1 DEF Rename, Complete
  <2>2. ~overlapped' => Exclusive'
    BY <1>1 DEF Rename, Exclusive
  <2> QED
    BY <2>1, <2>2
<1>2. ASSUME NEW ok \in BOOLEAN, SyncDir(s, ok) PROVE IInv'
  <2>1. TypeOK' /\ Complete'
    BY <1>2 DEF SyncDir, Complete
  <2>2. ~overlapped' => Exclusive'
    BY <1>2 DEF SyncDir, Exclusive
  <2> QED
    BY <2>1, <2>2
<1> QED
  BY <1>1, <1>2

\* So do the kernel and the platform.
LEMMA OutsideKeeps ==
  ASSUME IInv, \/ WriteBack \/ MachineDies
               \/ \E s \in Servers : ProcessDies(s) \/ Restart(s)
  PROVE  IInv'
<1> USE KeysAssumption, DeathsAssumption DEF IInv, TypeOK, Installing, FirstStart
<1>1. CASE WriteBack
  BY <1>1 DEF WriteBack, Complete, Exclusive
<1>2. CASE MachineDies
  <2>1. TypeOK'
    BY <1>2 DEF MachineDies, Survive
  <2>2. Complete'
    BY <1>2 DEF MachineDies, Survive, Complete
  <2>3. ~overlapped' => Exclusive'
    BY <1>2 DEF MachineDies, Survive, Exclusive
  <2> QED
    BY <2>1, <2>2, <2>3
<1>3. ASSUME NEW s \in Servers, ProcessDies(s) PROVE IInv'
  BY <1>3 DEF ProcessDies, Complete, Exclusive
<1>4. ASSUME NEW s \in Servers, Restart(s) PROVE IInv'
  BY <1>4 DEF Restart, files, Complete, Exclusive
<1> QED
  BY <1>1, <1>2, <1>3, <1>4

\* The invariant holds throughout.
LEMMA AlwaysIInv == HostKeySpec => []IInv
<1>1. IInv /\ [Next]_hostKeyVars => IInv'
  <2> SUFFICES ASSUME IInv, [Next]_hostKeyVars PROVE IInv'
    OBVIOUS
  <2>1. CASE UNCHANGED hostKeyVars
    BY <2>1 DEF hostKeyVars, files, IInv, TypeOK, Complete, Exclusive, Installing, FirstStart
  <2>2. CASE Next
    BY <2>2, PrepareKeeps, InstallKeeps, OutsideKeeps DEF Next, LoadOrCreate
  <2> QED
    BY <2>1, <2>2
<1> QED
  BY <1>1, InitIInv, PTL DEF HostKeySpec

\* The host key's path never holds a partial file: whatever loadOrCreateHostKey finds
\* there parses, after any sequence of deaths and any number of concurrent installs.
THEOREM NeverPartial == HostKeySpec => []PathNeverPartial
<1>1. IInv => PathNeverPartial
  BY DEF IInv, Complete, PathNeverPartial
<1> QED
  BY <1>1, AlwaysIInv, PTL

\* Unless first starts overlapped, every server presents the key at the path.
THEOREM ServesInstalledKey == HostKeySpec => [](TypeOK /\ ServedIsInstalled)
<1>1. IInv => TypeOK /\ ServedIsInstalled
  BY DEF IInv, Exclusive, ServedIsInstalled
<1> QED
  BY <1>1, AlwaysIInv, PTL

\* No start replaces an installed key unless it overlapped the one that installed it,
\* and once its directory was flushed nothing takes it from a volume.
THEOREM InstalledKeyKept == HostKeySpec => KeyKept
<1> DEFINE Kept == entry # NoKey /\ entry' # entry
                     => \/ overlapped
                        \/ /\ \A s \in Servers : pc'[s] = "down"
                           /\ entry' = NoKey /\ (dirSynced => storage = "ephemeral")
<1>1. IInv /\ [Next]_hostKeyVars => [Kept]_hostKeyVars
  <2> SUFFICES ASSUME IInv, Next, entry # NoKey, entry' # entry, ~overlapped
               PROVE  /\ \A s \in Servers : pc'[s] = "down"
                      /\ entry' = NoKey /\ (dirSynced => storage = "ephemeral")
    BY DEF hostKeyVars, files
  <2>1. \A s \in Servers : ~Rename(s)
    BY DEF Rename, Goto, IInv, Exclusive, FirstStart
  <2>2. MachineDies
    BY <2>1 DEF Next, LoadOrCreate, Read, StartFails, CreateTemp, Write, Sync, WriteFails,
                RenameFails, SyncDir, WriteBack, ProcessDies, Restart, files
  <2> QED
    BY <2>2 DEF MachineDies, IInv, TypeOK, Exclusive
<1> QED
  BY <1>1, AlwaysIInv, PTL DEF HostKeySpec, KeyKept

\* However a start ends, its temporary file is removed or renamed, unless process or
\* machine died in the middle of it or os.Remove failed.
THEOREM ErrorPathsClean == HostKeySpec => []NoLitter
<1>1. Init => NoLitter
  BY DEF Init, NoLitter
<1>2. IInv /\ NoLitter /\ [Next]_hostKeyVars => NoLitter'
  <2> SUFFICES ASSUME IInv, NoLitter, [Next]_hostKeyVars
               PROVE  NoLitter'
    OBVIOUS
  <2> USE DEF NoLitter, Installing, Goto
  <2>1. CASE UNCHANGED hostKeyVars
    BY <2>1 DEF hostKeyVars, files
  <2>2. ASSUME NEW s \in Servers, Read(s) \/ StartFails(s) \/ Restart(s) PROVE NoLitter'
    BY <2>2 DEF Read, StartFails, Restart, IInv, TypeOK, files
  <2>3. ASSUME NEW s \in Servers, NEW k \in Keys, CreateTemp(s, k) PROVE NoLitter'
    BY <2>3 DEF CreateTemp, IInv, TypeOK
  <2>4. ASSUME NEW s \in Servers, Write(s) \/ Sync(s) \/ Rename(s) PROVE NoLitter'
    BY <2>4 DEF Write, Sync, Rename, IInv, TypeOK
  <2>5. ASSUME NEW s \in Servers, WriteFails(s) \/ RenameFails(s) PROVE NoLitter'
    BY <2>5 DEF WriteFails, RenameFails, RemoveTmp, IInv, TypeOK
  <2>6. ASSUME NEW s \in Servers, NEW ok \in BOOLEAN, SyncDir(s, ok) PROVE NoLitter'
    BY <2>6 DEF SyncDir, IInv, TypeOK
  <2>7. CASE WriteBack
    BY <2>7 DEF WriteBack
  <2>8. ASSUME NEW s \in Servers, ProcessDies(s) PROVE NoLitter'
    BY <2>8 DEF ProcessDies, IInv, TypeOK
  <2>9. CASE MachineDies
    BY <2>9 DEF MachineDies
  <2> QED
    BY <2>1, <2>2, <2>3, <2>4, <2>5, <2>6, <2>7, <2>8, <2>9 DEF Next, LoadOrCreate
<1> QED
  BY <1>1, <1>2, AlwaysIInv, PTL DEF HostKeySpec

-----------------------------------------------------------------------------
(* The start of the server around it (SSHStartup).  That only loopback is   *)
(* served rests on one fact: nothing listens, or prepares a key, under a    *)
(* configuration that New has not validated.                                *)

\* Whatever main and New do with the environment, the flags and the warning, the key
\* is handled as in HostKey: the theorems above hold of the server as it is started.
THEOREM StartupHandlesKey == StartupSpec => HostKeySpec
<1>1. StartupInit => Init
  BY DEF StartupInit
<1>2. [StartupNext]_startupVars => [Next]_hostKeyVars
  BY DEF StartupNext, startupVars, Refuse, Start, KeyStep, Ready, Killed, AllKilled, Next
<1> QED
  BY <1>1, <1>2, PTL DEF StartupSpec, HostKeySpec

\* A server is past New's first step only under a valid configuration.
Validated == /\ main \in [Servers -> {"off", "new", "listening", "refused"}]
             /\ \A s \in Servers : main[s] \in {"new", "listening"} => validate(config)

\* The configuration is read once and stays; only a valid one gets past New's first
\* step.
LEMMA AlwaysValidated == StartupSpec => []Validated
<1>1. StartupInit => Validated
  BY DEF StartupInit, Validated
<1>2. Validated /\ [StartupNext]_startupVars => Validated'
  <2> SUFFICES ASSUME Validated, [StartupNext]_startupVars PROVE Validated'
    OBVIOUS
  <2>1. input' = input
    BY DEF StartupNext, startupVars, Refuse, Start, KeyStep, Ready, Killed, AllKilled
  <2>2. config' = config
    BY <2>1 DEF config
  <2>3. \/ main' = main
        \/ \E s \in Servers : \/ main' = [main EXCEPT ![s] = "refused"]
                              \/ main' = [main EXCEPT ![s] = "off"]
                              \/ main' = [main EXCEPT ![s] = "new"] /\ validate(config)
                              \/ main' = [main EXCEPT ![s] = "listening"] /\ main[s] = "new"
        \/ main' = [s \in Servers |-> "off"]
    BY DEF StartupNext, startupVars, Refuse, Start, KeyStep, Ready, Killed, AllKilled
  <2> HIDE DEF config
  <2> QED
    BY <2>2, <2>3 DEF Validated
<1> QED
  BY <1>1, <1>2, PTL DEF StartupSpec

\* For every environment, set of flags, passwd entry and file system: a server that
\* listens is bound to loopback unless SSH_ALLOW_NON_LOOPBACK is an explicit true, and
\* lets clients forward to and from loopback only.
THEOREM OnlyLoopbackServed == StartupSpec => []ServesOnlyLoopback
<1>1. \A h : isLoopback(h) => Reach(h) = {"lo"}
  BY DEF isLoopback, Reach
<1>2. config.AllowNonLoopback = getTypedEnv(input.env.SSH_ALLOW_NON_LOOPBACK, FALSE)
  BY DEF config, ConfigOf, ApplyFlags, LoadConfig
<1>3. Validated => ServesOnlyLoopback
  BY <1>1, <1>2 DEF getTypedEnv, Validated, ServesOnlyLoopback, validate, allowLocalForward, allowReverseForward
<1> QED
  BY <1>3, AlwaysValidated, PTL

-----------------------------------------------------------------------------
(* The warning and the fingerprint.                                         *)

\* A non-empty set of natural numbers has a least element.
LEMMA LeastNat == ASSUME NEW T \in SUBSET Nat, T # {} PROVE \E x \in T : \A y \in T : x <= y
<1>1. \E x \in T : \A y \in T : ~(<<y, x>> \in OpToRel(<, Nat))
  BY NatLessThanWellFounded, WFMin, Zenon
<1>2. \A y, x \in Nat : (<<y, x>> \in OpToRel(<, Nat)) <=> y < x
  BY DEF OpToRel
<1>3. \E x \in T : \A y \in T : ~(y < x)
  BY <1>1, <1>2, Zenon
<1> QED
  BY <1>3

\* A bounded one also has a greatest.
LEMMA GreatestNat ==
  ASSUME NEW T \in SUBSET Nat, T # {}, NEW n \in Nat, \A y \in T : y <= n
  PROVE  \E x \in T : \A y \in T : y <= x
<1> DEFINE U == {m \in Nat : \E y \in T : m = n - y}
<1>1. \A y \in T : n - y \in U
  OBVIOUS
<1>2. PICK m \in U : \A k \in U : m <= k
  <2>1. U \in SUBSET Nat /\ U # {}
    BY <1>1
  <2> HIDE DEF U
  <2> QED
    BY <2>1, LeastNat
<1>3. PICK x \in T : m = n - x
  OBVIOUS
<1>4. \A y \in T : n - x <= n - y
  BY <1>1, <1>2, <1>3
<1> QED
  BY <1>3, <1>4

Paths == Seq(STRING)

\* Longest finds the longest of a set of paths.
LEMMA LongestIs ==
  ASSUME NEW P \in SUBSET Paths, P # {}, NEW n \in Nat, \A q \in P : Len(q) <= n
  PROVE  Longest(P) \in P /\ \A q \in P : Len(q) <= Len(Longest(P))
<1> DEFINE T == {Len(q) : q \in P}
<1>1. T \in SUBSET Nat /\ T # {} /\ \A y \in T : y <= n
  <2>1. \A q \in P : Len(q) \in Nat
    BY DEF Paths
  <2> QED
    BY <2>1
<1>2. PICK x \in T : \A y \in T : y <= x
  <2> HIDE DEF T
  <2> QED
    BY <1>1, GreatestNat
<1>3. \E p \in P : \A q \in P : Len(q) <= Len(p)
  BY <1>2
<1> QED
  BY <1>3 DEF Longest

\* A prefix, component by component.
LEMMA PrefixIs ==
  ASSUME NEW p \in Paths, NEW q \in Paths
  PROVE  IsPrefix(p, q) <=> Len(p) <= Len(q) /\ \A i \in 1 .. Len(p) : p[i] = q[i]
<1> USE DEF Paths
<1>1. CASE Len(p) <= Len(q)
  <2> DEFINE a == SubSeq(p, 1, Len(p))
             b == SubSeq(q, 1, Len(p))
  <2>1. /\ a \in Paths /\ b \in Paths /\ Len(a) = Len(p) /\ Len(b) = Len(p)
        /\ \A i \in 1 .. Len(p) : a[i] = p[i] /\ b[i] = q[i]
    BY <1>1
  <2>2. a = b <=> \A i \in 1 .. Len(p) : a[i] = b[i]
    BY <2>1
  <2> HIDE DEF a, b
  <2>3. IsPrefix(p, q) <=> a = b
    BY <1>1 DEF IsPrefix, a, b
  <2> QED
    BY <1>1, <2>1, <2>2, <2>3
<1>2. CASE ~(Len(p) <= Len(q))
  BY <1>2 DEF IsPrefix
<1> QED
  BY <1>1, <1>2

\* The file system of an absolute path is that of the longest mount point above it.
LEMMA DeviceIs ==
  ASSUME NEW M \in SUBSET Paths, NEW path \in Paths, path # <<>>, path[1] = "/", <<"/">> \in M
  PROVE  /\ Device(path, M) \in M /\ IsPrefix(Device(path, M), path)
         /\ \A m \in M : IsPrefix(m, path) => Len(m) <= Len(Device(path, M))
<1> DEFINE P == {m \in M : IsPrefix(m, path)}
<1>1. P \in SUBSET Paths /\ \A m \in P : Len(m) <= Len(path)
  BY PrefixIs
<1>2. <<"/">> \in P
  <2>1. <<"/">> \in Paths /\ Len(<<"/">>) = 1 /\ <<"/">>[1] = "/"
    BY DEF Paths
  <2>2. Len(path) \in Nat /\ Len(path) >= 1
    BY DEF Paths
  <2> QED
    BY <2>1, <2>2, PrefixIs
<1>3. Len(path) \in Nat
  BY DEF Paths
<1>4. Device(path, M) = Longest(P)
  BY DEF Device
<1> HIDE DEF P
<1>5. Longest(P) \in P /\ \A m \in P : Len(m) <= Len(Longest(P))
  BY <1>1, <1>2, <1>3, LongestIs
<1> QED
  BY <1>4, <1>5 DEF P

\* Only the root is mounted above a path that is on the root's file system, and so it is
\* for the directory of the path.
LEMMA RootDevice ==
  ASSUME NEW M \in SUBSET Paths, \A m \in M : m # <<>> /\ m[1] = "/", <<"/">> \in M,
         NEW path \in Paths, path # <<>>, path[1] = "/", Device(path, M) = <<"/">>,
         NEW q \in Paths, q # <<>>, IsPrefix(q, path)
  PROVE  Device(q, M) = <<"/">>
<1>1. Len(q) \in Nat \ {0} /\ Len(q) <= Len(path) /\ \A i \in 1 .. Len(q) : q[i] = path[i]
  <2>1. Len(q) \in Nat \ {0}
    BY DEF Paths
  <2> QED
    BY <2>1, PrefixIs
<1>2. q[1] = "/"
  BY <1>1
<1> DEFINE d == Device(q, M)
<1>3. d \in M /\ IsPrefix(d, q)
  BY <1>2, DeviceIs
<1>4. d \in Paths /\ Len(d) \in Nat \ {0} /\ d[1] = "/"
  BY <1>3 DEF Paths
<1> HIDE DEF d
<1>5. IsPrefix(d, path)
  BY <1>1, <1>3, <1>4, PrefixIs
<1>6. Len(d) <= Len(<<"/">>)
  BY <1>3, <1>5, DeviceIs
<1>7. Len(d) = 1
  <2>1. Len(<<"/">>) = 1
    OBVIOUS
  <2>2. \A n \in Nat \ {0} : n <= 1 => n = 1
    OBVIOUS
  <2> QED
    BY <1>4, <1>6, <2>1, <2>2, Zenon
<1>8. d = <<"/">>
  BY <1>4, <1>7 DEF Paths
<1> QED
  BY <1>8 DEF d

\* A directory that exists is its own nearest ancestor.
LEMMA NearestIsItself ==
  ASSUME NEW d \in Paths, NEW D, d \in D
  PROVE  statNearestAncestor(d, D) = d
<1>1. /\ Len(d) \in Nat /\ SubSeq(d, 1, Len(d)) = d
      /\ \A l \in 0 .. Len(d) : SubSeq(d, 1, l) \in Paths /\ Len(SubSeq(d, 1, l)) = l
  BY DEF Paths
<1> DEFINE P == Prefixes(d) \cap D
<1>2. /\ d \in P /\ P \in SUBSET Paths
      /\ \A p \in P : Len(p) <= Len(d) /\ (Len(p) = Len(d) => p = d)
  <2>1. d \in Prefixes(d)
    <3>1. Len(d) \in 0 .. Len(d)
      BY <1>1
    <3> QED
      BY <1>1, <3>1 DEF Prefixes
  <2>2. \A p \in Prefixes(d) : \E l \in 0 .. Len(d) : p = SubSeq(d, 1, l)
    BY DEF Prefixes
  <2>3. \A p \in Prefixes(d) : p \in Paths /\ Len(p) <= Len(d) /\ (Len(p) = Len(d) => p = d)
    <3> TAKE p \in Prefixes(d)
    <3>1. PICK l \in 0 .. Len(d) : p = SubSeq(d, 1, l)
      BY <2>2
    <3>2. p \in Paths /\ Len(p) = l
      BY <1>1, <3>1
    <3>3. l <= Len(d)
      BY <1>1
    <3> QED
      BY <1>1, <3>1, <3>2, <3>3
  <2> QED
    BY <2>1, <2>3
<1>3. statNearestAncestor(d, D) = Longest(P)
  BY DEF statNearestAncestor
<1> HIDE DEF P
<1>4. Longest(P) \in P /\ Len(d) <= Len(Longest(P))
  BY <1>1, <1>2, LongestIs
<1>5. Len(Longest(P)) \in Nat
  BY <1>2, <1>4 DEF Paths
<1> QED
  BY <1>1, <1>2, <1>3, <1>4, <1>5

\* hasEphemeralHostKeyPath sees every path that a restart empties, but for those on an
\* unlisted file system.
LEMMA EphemeralSeen ==
  ASSUME input \in Inputs, validate(config), StorageOf(config.HostKeyPath) = "ephemeral", ~Unlisted
  PROVE  hasEphemeralHostKeyPath(config.HostKeyPath, Dirs, Mounts)
<1> DEFINE path == config.HostKeyPath
<1>1. /\ path \in Paths /\ path # <<>> /\ path[1] = "/" /\ path \notin Mounts
  BY InputsAssumption DEF config, validate, Paths, Mounts
<1>2. /\ Mounts \in SUBSET Paths /\ <<"/">> \in Mounts
      /\ \A m \in Mounts : m # <<>> /\ m[1] = "/"
  BY InputsAssumption DEF Mounts, Paths
<1> HIDE DEF path
<1> DEFINE m == Device(path, Mounts)
<1>4. m \in Mounts /\ IsPrefix(m, path)
  BY <1>1, <1>2, DeviceIs
<1>5. m # <<"/">> => \E prefix \in ephemeralPathPrefixes : IsPrefix(prefix, m)
  BY DEF StorageOf, Unlisted, path
<1> HIDE DEF m
<1>6. CASE m = <<"/">>
  <2>1. Dir(path) \in Paths /\ Dir(path) # <<>> /\ IsPrefix(Dir(path), path)
    <3>1. CASE Len(path) = 1
      BY <1>1, <3>1, PrefixIs DEF Dir, Paths
    <3>2. CASE Len(path) # 1
      <4>1. Len(path) \in Nat /\ Len(path) >= 2
        <5>1. Len(path) \in Nat /\ Len(path) # 0
          BY <1>1 DEF Paths
        <5>2. \A n \in Nat : n # 0 /\ n # 1 => n >= 2
          OBVIOUS
        <5> QED
          BY <3>2, <5>1, <5>2, Zenon
      <4>2. /\ Front(path) \in Paths /\ Len(Front(path)) = Len(path) - 1
            /\ \A i \in 1 .. Len(path) - 1 : Front(path)[i] = path[i]
        BY <1>1, <4>1 DEF Front, Paths
      <4>3. Front(path) # <<>>
        BY <4>1, <4>2
      <4> QED
        BY <1>1, <3>2, <4>1, <4>2, <4>3, PrefixIs DEF Dir
    <3> QED
      BY <3>1, <3>2
  <2>2. Dir(path) \in Dirs
    <3>1. Len(Dir(path)) \in Nat /\ SubSeq(Dir(path), 1, Len(Dir(path))) = Dir(path)
      BY <2>1 DEF Paths
    <3> QED
      BY <3>1 DEF Dirs, Prefixes, path
  <2>3. statNearestAncestor(Dir(path), Dirs) = Dir(path)
    BY <2>1, <2>2, NearestIsItself
  <2>4. Device(Dir(path), Mounts) = <<"/">>
    BY <1>1, <1>2, <1>6, <2>1, RootDevice DEF m
  <2>5. Device(<<"/">>, Mounts) = <<"/">>
    <3>1. <<"/">> \in Paths /\ <<"/">> # <<>>
      BY <1>2
    <3> QED
      BY <1>1, <1>2, <1>4, <1>6, <3>1, RootDevice DEF m
  <2> QED
    BY <2>3, <2>4, <2>5 DEF hasEphemeralHostKeyPath, isOnRootDevice, path
<1>7. CASE m # <<"/">>
  <2>1. PICK prefix \in ephemeralPathPrefixes : IsPrefix(prefix, m)
    BY <1>5, <1>7
  <2>2. prefix \in Paths /\ m \in Paths
    BY <1>2, <1>4, PrefixesAssumption DEF Paths
  <2>3. IsPrefix(prefix, path)
    <3>1. Len(prefix) \in Nat /\ Len(m) \in Nat /\ Len(path) \in Nat
      BY <1>1, <2>2 DEF Paths
    <3> QED
      BY <1>1, <1>4, <2>1, <2>2, <3>1, PrefixIs
  <2>4. IsStrictPrefix(prefix, path)
    <3>1. ASSUME prefix = path PROVE FALSE
      <4>1. /\ Len(path) \in Nat /\ Len(m) \in Nat /\ Len(m) <= Len(path) /\ Len(path) <= Len(m)
            /\ \A i \in 1 .. Len(m) : m[i] = path[i]
        BY <1>1, <1>4, <2>1, <2>2, <3>1, PrefixIs DEF Paths
      <4>2. m = path
        BY <1>1, <2>2, <4>1 DEF Paths
      <4> QED
        BY <1>1, <1>4, <4>2
    <3> QED
      BY <2>3, <3>1 DEF IsStrictPrefix
  <2> QED
    BY <2>4 DEF hasEphemeralHostKeyPath, path
<1> QED
  BY <1>6, <1>7

\* What the fingerprint rests on: the server runs where it did, a server whose key a
\* restart takes has warned before a client sees the key, and on a volume the key that
\* clients have seen is the one at the path.
FingerprintInv ==
  /\ input \in Inputs
  /\ validate(config) => storage = StorageOf(config.HostKeyPath)
  /\ learned # NoKey => /\ validate(config)
                        /\ hasEphemeralHostKeyPath(config.HostKeyPath, Dirs, Mounts) => warned
  /\ learned # NoKey /\ storage = "volume" /\ ~overlapped /\ ~unflushed => entry = learned

\* It holds throughout.
LEMMA AlwaysFingerprintInv == StartupSpec => []FingerprintInv
<1>1. StartupInit => FingerprintInv
  BY DEF StartupInit, FingerprintInv
<1>2. IInv /\ Validated /\ FingerprintInv /\ [StartupNext]_startupVars => FingerprintInv'
  <2> SUFFICES ASSUME IInv, Validated, FingerprintInv, [StartupNext]_startupVars
               PROVE  FingerprintInv'
    OBVIOUS
  <2>1. input' = input /\ storage' = storage
    BY DEF StartupNext, startupVars, hostKeyVars, Refuse, Start, KeyStep, Ready, Killed, AllKilled,
           Restart, LoadOrCreate, Read, StartFails, CreateTemp, Write, Sync, WriteFails, Rename,
           RenameFails, SyncDir, WriteBack, ProcessDies, MachineDies
  <2>2. config' = config /\ Mounts' = Mounts
    BY <2>1 DEF config, Mounts
  <2>3. Dirs' = Dirs /\ StorageOf(config.HostKeyPath)' = StorageOf(config.HostKeyPath)
    BY <2>1, <2>2 DEF Dirs, StorageOf
  <2> DEFINE Warns == hasEphemeralHostKeyPath(config.HostKeyPath, Dirs, Mounts)
  <2>4. Warns' = Warns
    BY <2>2, <2>3 DEF hasEphemeralHostKeyPath, isOnRootDevice
  <2> DEFINE Known == learned # NoKey /\ storage = "volume" /\ ~overlapped /\ ~unflushed
                        => entry = learned
             Told == learned # NoKey => validate(config) /\ (Warns => warned)
  <2>5. ASSUME Known', Told' PROVE FingerprintInv'
    BY <2>1, <2>2, <2>3, <2>5 DEF FingerprintInv
  <2>6. Known /\ Told
    BY DEF FingerprintInv
  <2>7. ASSUME UNCHANGED <<learned, warned>> PROVE Told'
    BY <2>2, <2>4, <2>6, <2>7
  <2> HIDE DEF Warns
  <2>8. ASSUME NEW s \in Servers, Ready(s) PROVE Known' /\ Told'
    <3>1. learned' = key[s] /\ UNCHANGED <<entry, overlapped>> /\ main[s] = "new" /\ pc[s] = "ready"
          /\ warned' = (warned \/ Warns)
      BY <2>8 DEF Ready, hostKeyVars, files, Warns
    <3>2. ~overlapped => key[s] = entry
      BY <3>1 DEF IInv, Exclusive
    <3>3. validate(config)
      BY <3>1 DEF Validated
    <3> QED
      BY <2>2, <2>4, <3>1, <3>2, <3>3
  <2>9. ASSUME NEW s \in Servers, KeyStep(s) PROVE Known'
    <3>1. UNCHANGED <<learned, unflushed>>
      BY <2>9 DEF KeyStep
    <3>2. overlapped => overlapped'
      BY <2>9, Zenon DEF KeyStep, LoadOrCreate, Read, StartFails, CreateTemp, Write, Sync, WriteFails,
                         Rename, RenameFails, SyncDir
    <3>3. entry' = entry \/ (FirstStart(s) /\ overlapped' = overlapped)
      BY <2>9 DEF KeyStep, LoadOrCreate, Read, StartFails, CreateTemp, Write, Sync, WriteFails,
                  Rename, RenameFails, SyncDir, files, FirstStart, Goto
    <3>4. ~overlapped /\ FirstStart(s) => entry = NoKey
      BY DEF IInv, Exclusive
    <3> QED
      BY <2>1, <2>6, <3>1, <3>2, <3>3, <3>4
  <2>10. ASSUME AllKilled PROVE Known'
    <3>1. /\ UNCHANGED <<learned, overlapped>>
          /\ unflushed' = (unflushed \/ (storage = "volume" /\ ~dirSynced /\ entry' # entry))
          /\ entry' = IF storage = "volume" THEN durableEntry ELSE NoKey
      BY <2>10 DEF AllKilled, MachineDies
    <3>2. ~overlapped /\ dirSynced => durableEntry = entry
      BY DEF IInv, Exclusive
    <3> QED
      BY <2>1, <2>6, <3>1, <3>2, Zenon
  <2>11. ASSUME \/ WriteBack /\ UNCHANGED <<input, main, warned, learned, unflushed>>
                \/ UNCHANGED startupVars
                \/ \E s \in Servers : Refuse(s) \/ Start(s) \/ Killed(s)
         PROVE  Known'
    <3>1. UNCHANGED <<learned, overlapped, unflushed, entry>>
      BY <2>11 DEF WriteBack, startupVars, hostKeyVars, files, Refuse, Start, Restart, Killed, ProcessDies
    <3> QED
      BY <2>1, <2>6, <3>1, Zenon
  <2>12. (\A s \in Servers : ~Ready(s)) => UNCHANGED <<learned, warned>>
    BY DEF StartupNext, startupVars, Refuse, Start, KeyStep, Killed, AllKilled
  <2>13. Told'
    BY <2>7, <2>8, <2>12
  <2>14. Known'
    <3> HIDE DEF Known, Told
    <3> QED
      BY <2>8, <2>9, <2>10, <2>11, Zenon DEF StartupNext
  <2> QED
    BY <2>5, <2>13, <2>14
<1> QED
  BY <1>1, <1>2, AlwaysIInv, AlwaysValidated, StartupHandlesKey, PTL DEF StartupSpec

\* For every place a server may run in, any number of servers, restarts and deaths:
\* one that presents another key than clients saw last did so after a warning, unless
\* first starts overlapped, the machine died before the directory was flushed, or the
\* key is on a file system that is emptied without being the root's or listed.
THEOREM FingerprintKept == StartupSpec => FingerprintStable
<1> DEFINE Stable == \A s \in Servers : /\ main[s] = "new" /\ main'[s] = "listening"
                                        /\ learned # NoKey /\ key[s] # learned
                                        => warned \/ overlapped \/ unflushed \/ Unlisted
<1>1. IInv /\ Validated /\ FingerprintInv /\ [StartupNext]_startupVars => [Stable]_startupVars
  <2> SUFFICES ASSUME IInv, Validated, FingerprintInv, StartupNext,
                      NEW s \in Servers, main[s] = "new", main'[s] = "listening",
                      learned # NoKey, key[s] # learned, ~overlapped, ~unflushed, ~Unlisted
               PROVE  warned
    OBVIOUS
  <2>1. Ready(s)
    BY DEF StartupNext, Refuse, Start, KeyStep, Ready, Killed, AllKilled, Validated
  <2>2. key[s] = entry
    BY <2>1 DEF Ready, IInv, Exclusive
  <2>3. storage = "ephemeral"
    BY <2>2 DEF FingerprintInv, IInv, TypeOK
  <2> QED
    BY <2>3, EphemeralSeen DEF FingerprintInv
<1> QED
  BY <1>1, AlwaysIInv, AlwaysValidated, AlwaysFingerprintInv, StartupHandlesKey, PTL
     DEF StartupSpec, FingerprintStable

-----------------------------------------------------------------------------
(* What a session runs: that mergeEnv keeps the last value of each name is  *)
(* shown for any list of entries, by the least index at which its fold      *)
(* would differ from that.                                                  *)

\* mergeEnv goes through the entries in their order: one that puts e into env, and the
\* function of the sets of indices that its fold is computed by.
Put(env, e) == IF e.name = Junk THEN env ELSE [env EXCEPT ![e.name] = e.value]
Iterates(g, base, sent) ==
  g = [s \in SUBSET DOMAIN sent |-> IF s = {} THEN base ELSE Put(g[s \ {Max(s)}], sent[Max(s)])]

\* What comes out: for each name, the value of the last entry among s with this name.
Named(sent, s, n) == {i \in s : sent[i].name = n}
Lasts(base, sent, s) ==
  [n \in DOMAIN base |-> IF Named(sent, s, n) = {} THEN base[n]
                         ELSE sent[Max(Named(sent, s, n))].value]

\* If some function is computed in this way, the fold is one.
LEMMA MergeIterates ==
  ASSUME NEW base, NEW sent, NEW h, Iterates(h, base, sent)
  PROVE  \E g : Iterates(g, base, sent) /\ mergeEnv(base, sent) = g[DOMAIN sent]
<1> DEFINE g == CHOOSE i : Iterates(i, base, sent)
<1>1. Iterates(g, base, sent)
  BY Zenon
<1>2. mergeEnv(base, sent) = g[DOMAIN sent]
  BY Zenon DEF mergeEnv, FoldLeft, MapThenFoldSet, Iterates, Put
<1> HIDE DEF g
<1> QED
  BY <1>1, <1>2

\* Max is the greatest element.
LEMMA MaxIs ==
  ASSUME NEW n \in Nat, NEW s \in SUBSET (1 .. n), s # {}
  PROVE  Max(s) \in s /\ Max(s) \in 1 .. n /\ \A y \in s : y <= Max(s)
<1>1. s \in SUBSET Nat /\ \A y \in s : y <= n
  OBVIOUS
<1>2. \E x \in s : \A y \in s : x >= y
  <2>1. PICK x \in s : \A y \in s : y <= x
    BY <1>1, GreatestNat
  <2>2. \A y \in s : x >= y
    BY <1>1, <2>1
  <2> QED
    BY <2>2
<1>3. Max(s) \in s /\ \A y \in s : Max(s) >= y
  BY <1>2 DEF Max
<1> QED
  BY <1>1, <1>3

\* One more entry behind the others.
LEMMA LastsStep ==
  ASSUME NEW base, Junk \notin DOMAIN base, NEW sent, NEW n \in Nat, DOMAIN sent = 1 .. n,
         \A i \in 1 .. n : sent[i].name \in DOMAIN base \cup {Junk},
         NEW s \in SUBSET (1 .. n), s # {}
  PROVE  Lasts(base, sent, s) = Put(Lasts(base, sent, s \ {Max(s)}), sent[Max(s)])
<1> DEFINE m == Max(s)
           r == s \ {m}
<1>1. m \in s /\ m \in 1 .. n /\ \A y \in s : y <= m
  BY MaxIs
<1> HIDE DEF m
<1>2. \A k \in DOMAIN base : k # sent[m].name => Named(sent, s, k) = Named(sent, r, k)
  BY DEF Named
<1>3. CASE sent[m].name = Junk
  <2>1. \A k \in DOMAIN base : Named(sent, s, k) = Named(sent, r, k)
    BY <1>2, <1>3
  <2>2. Lasts(base, sent, s) = Lasts(base, sent, r)
    BY <2>1, Zenon DEF Lasts
  <2> QED
    BY <1>3, <2>2 DEF Put, m
<1>4. CASE sent[m].name # Junk
  <2> DEFINE k == sent[m].name
  <2>1. k \in DOMAIN base
    BY <1>1, <1>4
  <2>2. Named(sent, s, k) # {} /\ Max(Named(sent, s, k)) = m
    <3>1. /\ m \in Named(sent, s, k) /\ Named(sent, s, k) \in SUBSET (1 .. n)
          /\ \A y \in Named(sent, s, k) : y <= m
      BY <1>1 DEF Named
    <3>2. /\ Max(Named(sent, s, k)) \in Named(sent, s, k) /\ Max(Named(sent, s, k)) \in 1 .. n
          /\ m <= Max(Named(sent, s, k))
      BY <3>1, MaxIs
    <3> QED
      BY <1>1, <3>1, <3>2
  <2>3. Lasts(base, sent, s)[k] = sent[m].value
    BY <2>1, <2>2 DEF Lasts
  <2>4. \A j \in DOMAIN base : j # k => Lasts(base, sent, s)[j] = Lasts(base, sent, r)[j]
    BY <1>2 DEF Lasts
  <2>5. Lasts(base, sent, s) = [Lasts(base, sent, r) EXCEPT ![k] = sent[m].value]
    <3> HIDE DEF k, r
    <3>1. /\ Lasts(base, sent, s) = [j \in DOMAIN base |-> Lasts(base, sent, s)[j]]
          /\ Lasts(base, sent, r) = [j \in DOMAIN base |-> Lasts(base, sent, r)[j]]
      BY DEF Lasts
    <3> DEFINE a == Lasts(base, sent, s)
               b == Lasts(base, sent, r)
    <3> HIDE DEF a, b
    <3>2. /\ a = [j \in DOMAIN base |-> a[j]] /\ b = [j \in DOMAIN base |-> b[j]]
          /\ a[k] = sent[m].value /\ \A j \in DOMAIN base : j # k => a[j] = b[j]
      BY <2>3, <2>4, <3>1 DEF a, b
    <3>3. a = [b EXCEPT ![k] = sent[m].value]
      BY <2>1, <3>2
    <3> QED
      BY <3>3 DEF a, b
  <2> QED
    BY <1>4, <2>5 DEF Put, m
<1> QED
  BY <1>3, <1>4

\* mergeEnv, whatever the client sends: for each name the client's last value wins.
LEMMA MergeIs ==
  ASSUME NEW base, base = [k \in DOMAIN base |-> base[k]], Junk \notin DOMAIN base,
         NEW sent, NEW n \in Nat, DOMAIN sent = 1 .. n,
         \A i \in 1 .. n : sent[i].name \in DOMAIN base \cup {Junk}
  PROVE  mergeEnv(base, sent) = Lasts(base, sent, 1 .. n)
<1>1. Lasts(base, sent, {}) = base
  <2>1. \A k : Named(sent, {}, k) = {}
    BY DEF Named
  <2>2. Lasts(base, sent, {}) = [k \in DOMAIN base |-> base[k]]
    BY <2>1, Zenon DEF Lasts
  <2> QED
    BY <2>2
<1>2. \A s \in SUBSET (1 .. n) : s # {}
        => Lasts(base, sent, s) = Put(Lasts(base, sent, s \ {Max(s)}), sent[Max(s)])
  BY LastsStep
<1> DEFINE h == [s \in SUBSET (1 .. n) |-> Lasts(base, sent, s)]
<1>3. Iterates(h, base, sent)
  <2>1. \A s \in SUBSET (1 .. n) :
          h[s] = IF s = {} THEN base ELSE Put(h[s \ {Max(s)}], sent[Max(s)])
    <3> TAKE s \in SUBSET (1 .. n)
    <3>1. h[s] = Lasts(base, sent, s) /\ h[s \ {Max(s)}] = Lasts(base, sent, s \ {Max(s)})
      OBVIOUS
    <3> HIDE DEF h
    <3>2. CASE s = {}
      BY <1>1, <3>1, <3>2
    <3>3. CASE s # {}
      BY <1>2, <3>1, <3>3
    <3> QED
      BY <3>2, <3>3
  <2>2. h = [s \in SUBSET (1 .. n) |-> h[s]]
    OBVIOUS
  <2> HIDE DEF h
  <2>3. h = [s \in SUBSET (1 .. n) |-> IF s = {} THEN base ELSE Put(h[s \ {Max(s)}], sent[Max(s)])]
    BY <2>1, <2>2, Zenon
  <2> QED
    BY <2>3 DEF Iterates
<1> HIDE DEF h
<1>4. PICK g : Iterates(g, base, sent) /\ mergeEnv(base, sent) = g[1 .. n]
  BY <1>3, MergeIterates
<1>5. \A s \in SUBSET (1 .. n) :
        g[s] = IF s = {} THEN base ELSE Put(g[s \ {Max(s)}], sent[Max(s)])
  BY <1>4, Zenon DEF Iterates
<1> DEFINE Wrong == {k \in 0 .. n : g[1 .. k] # Lasts(base, sent, 1 .. k)}
<1>6. ASSUME Wrong # {} PROVE FALSE
  <2>1. PICK k \in Wrong : \A j \in Wrong : k <= j
    <3>1. Wrong \in SUBSET Nat
      OBVIOUS
    <3> HIDE DEF Wrong
    <3> QED
      BY <1>6, <3>1, LeastNat
  <2>2. k \in 0 .. n /\ g[1 .. k] # Lasts(base, sent, 1 .. k)
    BY <2>1
  <2>3. k # 0
    <3>1. 1 .. 0 = {}
      OBVIOUS
    <3>2. g[{}] = base
      BY <1>5
    <3> QED
      BY <1>1, <2>2, <3>1, <3>2
  <2>4. k - 1 \in 0 .. n /\ ~(k <= k - 1)
    BY <2>2, <2>3
  <2>5. g[1 .. k - 1] = Lasts(base, sent, 1 .. k - 1)
    BY <2>1, <2>4
  <2>6. /\ (1 .. k) \in SUBSET (1 .. n) /\ 1 .. k # {} /\ k \in 1 .. k
    BY <2>2, <2>3
  <2>7. Max(1 .. k) = k
    <3>1. Max(1 .. k) \in 1 .. k /\ k <= Max(1 .. k)
      BY <2>2, <2>6, MaxIs
    <3> QED
      BY <2>2, <3>1
  <2>8. (1 .. k) \ {k} = 1 .. k - 1
    BY <2>2, <2>3
  <2>9. g[1 .. k] = Put(g[1 .. k - 1], sent[k])
    BY <1>5, <2>6, <2>7, <2>8
  <2>10. Lasts(base, sent, 1 .. k) = Put(Lasts(base, sent, 1 .. k - 1), sent[k])
    <3>1. Lasts(base, sent, 1 .. k)
            = Put(Lasts(base, sent, (1 .. k) \ {Max(1 .. k)}), sent[Max(1 .. k)])
      BY <1>2, <2>6
    <3> QED
      BY <2>7, <2>8, <3>1
  <2> QED
    BY <2>2, <2>5, <2>9, <2>10
<1>7. n \in 0 .. n
  OBVIOUS
<1> QED
  BY <1>4, <1>6, <1>7

\* resolveShell finds a shell that is there, if bash or sh is.
LEMMA ShellIsThere ==
  ASSUME NEW base, NEW programs, {shellBash, shellSh} \cap programs # {}
  PROVE  resolveShell(base, programs) \in programs
<1> DEFINE candidates == <<base["SHELL"], shellBash, shellSh>>
           there == {i \in DOMAIN candidates : candidates[i] \in programs}
<1>1. /\ DOMAIN candidates = 1 .. 3 /\ candidates[2] = shellBash /\ candidates[3] = shellSh
  OBVIOUS
<1>2. resolveShell(base, programs) = IF there = {} THEN shellSh ELSE candidates[Min(there)]
  BY DEF resolveShell
<1> HIDE DEF candidates
<1>3. there # {}
  BY <1>1
<1>4. there \in SUBSET Nat
  BY <1>1
<1>5. there \subseteq {i \in DOMAIN candidates : candidates[i] \in programs}
  OBVIOUS
<1> HIDE DEF there
<1>6. \E x \in there : \A y \in there : x <= y
  BY <1>3, <1>4, LeastNat
<1>7. Min(there) \in there
  BY <1>6 DEF Min
<1> QED
  BY <1>2, <1>3, <1>5, <1>7

\* Appending to a sequence leaves its first element.
LEMMA FirstStays ==
  ASSUME NEW x, NEW y PROVE (<<x>> \o <<y>>)[1] = x /\ (<<x>> \o <<>>)[1] = x
<1> DEFINE S == {x, y}
<1>1. <<x>> \in Seq(S) /\ <<y>> \in Seq(S) /\ <<>> \in Seq(S)
  OBVIOUS
<1>2. Len(<<x>>) = 1 /\ <<x>>[1] = x
  OBVIOUS
<1>3. \A u, t \in Seq(S) : Len(u) = 1 => (u \o t)[1] = u[1]
  OBVIOUS
<1> HIDE DEF S
<1> QED
  BY <1>1, <1>2, <1>3

\* A session's environment: what the client sent last, otherwise what the server has,
\* otherwise the passwd entry.
LEMMA SessionEnvIs ==
  ASSUME NEW host \in Inputs, NEW sent \in ClientEnvs
  PROVE  LET env == withPasswdFallback(mergeEnv(host.base, sent), host.passwd)
         IN /\ \A i \in DOMAIN sent :
                 sent[i].name # Junk /\ (\A j \in i + 1 .. Len(sent) : sent[j].name # sent[i].name)
                   => env[sent[i].name] = sent[i].value
            /\ (\A i \in DOMAIN sent : sent[i].name # "HOME")
                 => env["HOME"] = IF host.base["HOME"] = Unset /\ host.passwd.home # <<>>
                                  THEN host.passwd.home ELSE host.base["HOME"]
<1> DEFINE base == host.base
           n == Len(sent)
           merged == mergeEnv(base, sent)
           env == withPasswdFallback(merged, host.passwd)
<1>1. /\ base = [k \in DOMAIN base |-> base[k]] /\ Junk \notin DOMAIN base
      /\ {"HOME", "USER", "LOGNAME"} \subseteq DOMAIN base
      /\ n \in Nat /\ DOMAIN sent = 1 .. n
      /\ \A i \in 1 .. n : sent[i].name \in DOMAIN base \cup {Junk}
      /\ \A i \in 1 .. n : sent[i].value # Unset
  BY EnvsAssumption
<1> HIDE DEF base, n
<1>2. merged = Lasts(base, sent, 1 .. n)
  BY <1>1, MergeIs
<1> HIDE DEF merged
<1>3. /\ merged = [k \in DOMAIN base |-> merged[k]]
      /\ \A k \in DOMAIN base : merged[k] = IF Named(sent, 1 .. n, k) = {} THEN base[k]
                                            ELSE sent[Max(Named(sent, 1 .. n, k))].value
  BY <1>2 DEF Lasts
<1>4. \A k \in DOMAIN base : merged[k] # Unset => env[k] = merged[k]
  BY <1>1, <1>3 DEF withPasswdFallback
<1>5. env["HOME"] = IF merged["HOME"] = Unset /\ host.passwd.home # <<>> THEN host.passwd.home
                    ELSE merged["HOME"]
  BY <1>1, <1>3 DEF withPasswdFallback
<1> HIDE DEF env
<1>6. ASSUME NEW i \in 1 .. n, sent[i].name # Junk,
             \A j \in i + 1 .. n : sent[j].name # sent[i].name
      PROVE  env[sent[i].name] = sent[i].value
  <2> DEFINE k == sent[i].name
             s == Named(sent, 1 .. n, k)
  <2>1. k \in DOMAIN base
    BY <1>1, <1>6
  <2>2. i \in s /\ s \in SUBSET (1 .. n) /\ \A y \in s : y <= i
    <3>1. \A y \in 1 .. n : sent[y].name = k => ~(y \in i + 1 .. n)
      BY <1>6
    <3>2. \A y \in 1 .. n : ~(y \in i + 1 .. n) => y <= i
      BY <1>1
    <3> QED
      BY <3>1, <3>2 DEF Named
  <2> HIDE DEF k, s
  <2>3. Max(s) \in 1 .. n /\ Max(s) \in s /\ i <= Max(s)
    BY <1>1, <2>2, MaxIs
  <2>4. Max(s) = i
    BY <1>1, <2>2, <2>3
  <2>5. merged[k] = sent[i].value
    BY <1>3, <2>1, <2>2, <2>4 DEF s
  <2>6. env[k] = sent[i].value
    BY <1>1, <1>4, <2>1, <2>5
  <2> QED
    BY <2>6 DEF k
<1>7. ASSUME \A i \in 1 .. n : sent[i].name # "HOME" PROVE merged["HOME"] = base["HOME"]
  <2>1. Named(sent, 1 .. n, "HOME") = {}
    BY <1>7 DEF Named
  <2> QED
    BY <1>1, <1>3, <2>1
<1> QED
  BY <1>1, <1>5, <1>6, <1>7 DEF env, merged, base, n

\* The directory of a path that goes on from p by two components is below p.
LEMMA TwoBelow ==
  ASSUME NEW S, NEW p \in Seq(S), NEW x \in S, NEW y \in S
  PROVE  p \in Prefixes(Dir(p \o <<x, y>>))
<1> DEFINE tail == <<x, y>>
           path == p \o tail
<1>1. tail \in Seq(S) /\ Len(tail) = 2
  OBVIOUS
<1> HIDE DEF tail
<1>2. /\ Len(p) \in Nat /\ path \in Seq(S) /\ Len(path) = Len(p) + 2
      /\ \A i \in 1 .. Len(p) : path[i] = p[i]
  <2>1. \A u, t \in Seq(S) : /\ Len(u) \in Nat /\ u \o t \in Seq(S)
                              /\ Len(u \o t) = Len(u) + Len(t)
                              /\ \A i \in 1 .. Len(u) : (u \o t)[i] = u[i]
    OBVIOUS
  <2>2. Len(p) \in Nat /\ path \in Seq(S) /\ \A i \in 1 .. Len(p) : path[i] = p[i]
    BY <1>1, <2>1, Zenon
  <2>3. Len(path) = Len(p) + Len(tail)
    BY <1>1, <2>1, Zenon
  <2> QED
    BY <1>1, <2>2, <2>3
<1> HIDE DEF path
<1> DEFINE d == SubSeq(path, 1, Len(path) - 1)
<1>3. Dir(path) = d
  BY <1>2 DEF Dir, Front
<1>4. d \in Seq(S) /\ Len(d) = Len(p) + 1 /\ \A i \in 1 .. Len(p) : d[i] = p[i]
  BY <1>2
<1> HIDE DEF d
<1> DEFINE h == SubSeq(d, 1, Len(p))
<1>5. h \in Seq(S) /\ Len(h) = Len(p) /\ \A i \in 1 .. Len(p) : h[i] = p[i]
  BY <1>2, <1>4
<1>6. h = p
  <2> HIDE DEF h
  <2> QED
    BY <1>5
<1>7. Len(p) \in 0 .. Len(d)
  BY <1>2, <1>4
<1> QED
  BY <1>3, <1>6, <1>7 DEF Prefixes, path, tail

\* To install a key at its default path New makes the home directory, if need be.
LEMMA DefaultPathMakesHome ==
  ASSUME input \in Inputs, validate(config), config.HostKeyPath = defaultHostKeyPath(home)
  PROVE  home \in Dirs
<1> DEFINE S == STRING \cup {".ssh", "ssh_host_ed25519_key"}
<1>1. home \in Seq(S)
  <2>1. home \in Seq(STRING)
    BY InputsAssumption DEF home
  <2>2. Len(home) \in Nat /\ home = [i \in 1 .. Len(home) |-> home[i]]
        /\ \A i \in 1 .. Len(home) : home[i] \in S
    BY <2>1
  <2> HIDE DEF S
  <2> QED
    BY <2>2
<1>2. home # <<>> /\ config.HostKeyPath = home \o <<".ssh", "ssh_host_ed25519_key">>
  BY DEF validate, defaultHostKeyPath
<1>3. ".ssh" \in S /\ "ssh_host_ed25519_key" \in S
  OBVIOUS
<1> HIDE DEF S
<1> QED
  BY <1>1, <1>2, <1>3, TwoBelow DEF Dirs

\* For every place a server may run in, whatever a client sends: a session starts at
\* home if that exists, and always with the key at its default path, unless HOME is set
\* to nothing; in an environment in which the client's last word on a name stands, with
\* a shell that is there if bash or sh is, and the command as one argument.
THEOREM SessionsStartAtHome == StartupSpec => []SessionAtHome
<1>1. FingerprintInv /\ Validated => SessionAtHome
  <2> SUFFICES ASSUME FingerprintInv, validate(config), NEW sent \in ClientEnvs, NEW raw \in {"", "make"}
               PROVE  LET run == SessionCommand(input, Dirs, config.LoginShell, raw, sent)
                          last(i) == sent[i].name # Junk
                                       /\ \A j \in i + 1 .. Len(sent) : sent[j].name # sent[i].name
                          noHome == \A i \in DOMAIN sent : sent[i].name # "HOME"
                      IN /\ \A i \in DOMAIN sent : last(i) => run.env[sent[i].name] = sent[i].value
                         /\ /\ noHome /\ input.base["HOME"] # <<>>
                            /\ home \in Dirs \/ config.HostKeyPath = defaultHostKeyPath(home)
                            => run.dir = home
                         /\ noHome /\ input.base["HOME"] = <<>> => run.dir = <<>>
                         /\ run.dir = <<>> \/ run.dir \in Dirs
                         /\ {shellBash, shellSh} \cap input.programs # {}
                              => run.args[1] \in input.programs
                         /\ raw # "" => run.args[3] = raw
    BY DEF SessionAtHome, Validated
  <2>1. input \in Inputs
    BY DEF FingerprintInv
  <2> DEFINE env == withPasswdFallback(mergeEnv(input.base, sent), input.passwd)
             shell == resolveShell(input.base, input.programs)
             run == SessionCommand(input, Dirs, config.LoginShell, raw, sent)
             noHome == \A i \in DOMAIN sent : sent[i].name # "HOME"
  <2>2. /\ run.env = env /\ run.dir = sessionWorkingDir(env, Dirs)
        /\ run.args = buildShellCommand(shell, config.LoginShell, raw)
    BY DEF SessionCommand
  <2> HIDE DEF run
  <2>3. /\ \A i \in DOMAIN sent :
             sent[i].name # Junk /\ (\A j \in i + 1 .. Len(sent) : sent[j].name # sent[i].name)
               => env[sent[i].name] = sent[i].value
        /\ noHome => env["HOME"] = IF input.base["HOME"] = Unset /\ input.passwd.home # <<>>
                                   THEN input.passwd.home ELSE input.base["HOME"]
    BY <2>1, SessionEnvIs
  <2> HIDE DEF env
  <2>4. run.dir = <<>> \/ run.dir \in Dirs
    BY <2>2 DEF sessionWorkingDir
  <2>5. ASSUME noHome, input.base["HOME"] # <<>>,
               home \in Dirs \/ config.HostKeyPath = defaultHostKeyPath(home)
        PROVE  run.dir = home
    <3>1. input.passwd.home # Unset
      BY <2>1, EnvsAssumption
    <3>2. env["HOME"] = IF input.base["HOME"] = Unset /\ input.passwd.home # <<>>
                        THEN input.passwd.home ELSE input.base["HOME"]
      BY <2>3, <2>5
    <3>3. home = IF input.base["HOME"] # Unset THEN input.base["HOME"] ELSE input.passwd.home
      BY <2>5 DEF home, HomeOf, homeDir
    <3>4. home \in Dirs
      BY <2>1, <2>5, DefaultPathMakesHome
    <3> QED
      BY <2>2, <2>5, <3>1, <3>2, <3>3, <3>4 DEF sessionWorkingDir
  <2>6. ASSUME noHome, input.base["HOME"] = <<>> PROVE run.dir = <<>>
    BY <2>2, <2>3, <2>6, EnvsAssumption DEF sessionWorkingDir
  <2>7. ASSUME {shellBash, shellSh} \cap input.programs # {} PROVE run.args[1] \in input.programs
    <3>1. shell \in input.programs
      BY <2>7, ShellIsThere
    <3>2. run.args[1] = shell
      <4> HIDE DEF shell
      <4>1. (<<shell>> \o <<"-l">>)[1] = shell /\ (<<shell>> \o <<>>)[1] = shell
        BY FirstStays
      <4>2. <<shell, "-lc", raw>>[1] = shell /\ <<shell, "-c", raw>>[1] = shell
        OBVIOUS
      <4>3. \/ run.args = <<shell>> \o <<"-l">> \/ run.args = <<shell>> \o <<>>
            \/ run.args = <<shell, "-lc", raw>> \/ run.args = <<shell, "-c", raw>>
        BY <2>2, Zenon DEF buildShellCommand
      <4> QED
        BY <4>1, <4>2, <4>3, Zenon
    <3> QED
      BY <3>1, <3>2
  <2>8. ASSUME raw # "" PROVE run.args[3] = raw
    <3> HIDE DEF shell
    <3>1. <<shell, "-lc", raw>>[3] = raw /\ <<shell, "-c", raw>>[3] = raw
      OBVIOUS
    <3>2. run.args = <<shell, "-lc", raw>> \/ run.args = <<shell, "-c", raw>>
      BY <2>2, <2>8, Zenon DEF buildShellCommand
    <3> QED
      BY <3>1, <3>2, Zenon
  <2> QED
    BY <2>2, <2>3, <2>4, <2>5, <2>6, <2>7, <2>8 DEF run
<1> QED
  BY <1>1, AlwaysFingerprintInv, AlwaysValidated, PTL
=============================================================================
