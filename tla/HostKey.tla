------------------------------ MODULE HostKey -------------------------------
(***************************************************************************)
(* The SSH server's host key on disk: loadOrCreateHostKey and              *)
(* writeHostKeyAtomically (internal/sshserver/hostkey.go), run once by     *)
(* every start of a server.  Servers may share the storage, as two pods of *)
(* a rollout on one node do.  Two things may cut a start, or the service   *)
(* that follows it, short: the death of one process, which loses nothing   *)
(* of the file system, and the death of the machine under all of them,     *)
(* after which a volume shows only what had reached the disk.  Ephemeral   *)
(* storage is gone with the container, which counts as such a death.       *)
(*                                                                         *)
(* A key stands for the file that holds it, and is never generated twice.  *)
(***************************************************************************)
EXTENDS Naturals, FiniteSets

CONSTANTS Servers,
          Keys,        \* bound: keys generated in a behaviour
          NoKey,
          MaxDeaths    \* bound: deaths of a process or of the machine

ASSUME KeysAssumption == NoKey \notin Keys
ASSUME DeathsAssumption == MaxDeaths \in Nat

VARIABLES
  storage,       \* "volume" or "ephemeral"
  pc,            \* pc[s]: where the start of server s is
  key,           \* key[s]: the key it generated or read
  content,       \* content[k]: "none", "partial" or "full", as the kernel shows it
  durable,       \* files whose full content is on the disk
  entry,         \* the file at the host key's path, or NoKey
  durableEntry,  \* the same, as the disk has it
  dirSynced,     \* syncDir has succeeded for the file at the path
  tmps,          \* temporary files in the directory
  abandoned,     \* those among them that no start will remove any more
  overlapped,    \* a first start has begun while another was under way
  deaths

files == <<content, durable, entry, durableEntry, dirSynced, tmps, abandoned>>
hostKeyVars == <<storage, pc, key, files, overlapped, deaths>>

\* Between finding no key and having installed one.
FirstStart(s) == pc[s] \in {"create", "write", "sync", "rename"}
Installing(s) == pc[s] \in {"write", "sync", "rename"}
Goto(s, from, to) == pc[s] = from /\ pc' = [pc EXCEPT ![s] = to]

\* An error path: os.Remove of the temporary file, whose own error is discarded, before
\* the first error is returned.
RemoveTmp(s) == \/ tmps' = tmps \ {key[s]} /\ UNCHANGED abandoned
                \/ abandoned' = abandoned \cup {key[s]} /\ UNCHANGED tmps

-----------------------------------------------------------------------------
(* Faulty variants.                                                         *)

\* A start that makes a new key every time.
ReadIgnoresExisting(s) == /\ Goto(s, "read", "create")
                          /\ UNCHANGED <<storage, key, files, overlapped, deaths>>

\* file.Sync forgotten.
SyncForgotten(s) == /\ Goto(s, "sync", "rename")
                    /\ UNCHANGED <<storage, key, files, overlapped, deaths>>

\* The temporary file left behind when the rename fails.
RenameFailsLitters(s) == /\ Goto(s, "rename", "failed")
                         /\ UNCHANGED <<storage, key, files, overlapped, deaths>>

\* The key generated is served without having been installed.
WriteFailsIgnored(s) == /\ Goto(s, "write", "ready")
                        /\ RemoveTmp(s)
                        /\ UNCHANGED <<storage, key, content, durable, entry, durableEntry,
                                       dirSynced, overlapped, deaths>>

-----------------------------------------------------------------------------
Init == /\ storage \in {"volume", "ephemeral"}
        /\ pc = [s \in Servers |-> "down"] /\ key = [s \in Servers |-> NoKey]
        /\ content = [k \in Keys |-> "none"]
        /\ durable = {}
        /\ entry = NoKey /\ durableEntry = NoKey /\ dirSynced = FALSE
        /\ tmps = {} /\ abandoned = {} /\ overlapped = FALSE /\ deaths = 0

\* An existing key is used if it parses and is an error otherwise; it is never
\* replaced.  Only if there is none is one generated.
Read(s) == /\ pc[s] = "read"
           /\ pc' = [pc EXCEPT ![s] = IF entry = NoKey THEN "create"
                                      ELSE IF content[entry] = "full" THEN "ready"
                                      ELSE "failed"]
           /\ key' = [key EXCEPT ![s] = entry]
           /\ overlapped' = (overlapped \/ (entry = NoKey /\ \E t \in Servers : FirstStart(t)))
           /\ UNCHANGED <<storage, files, deaths>>

\* Any other read error, key generation, MkdirAll or CreateTemp fails.
StartFails(s) == /\ pc[s] \in {"read", "create"}
                 /\ pc' = [pc EXCEPT ![s] = "failed"]
                 /\ UNCHANGED <<storage, key, files, overlapped, deaths>>

CreateTemp(s, k) == /\ Goto(s, "create", "write")
                    /\ content[k] = "none"
                    /\ key' = [key EXCEPT ![s] = k]
                    /\ content' = [content EXCEPT ![k] = "partial"]
                    /\ tmps' = tmps \cup {k}
                    /\ UNCHANGED <<storage, durable, entry, durableEntry, dirSynced, abandoned,
                                   overlapped, deaths>>

Write(s) == /\ Goto(s, "write", "sync")
            /\ content' = [content EXCEPT ![key[s]] = "full"]
            /\ UNCHANGED <<storage, key, durable, entry, durableEntry, dirSynced, tmps, abandoned,
                           overlapped, deaths>>

Sync(s) == /\ Goto(s, "sync", "rename")
           /\ durable' = durable \cup {key[s]}
           /\ UNCHANGED <<storage, key, content, entry, durableEntry, dirSynced, tmps, abandoned,
                          overlapped, deaths>>

\* Chmod, Write, Sync or Close fails.
WriteFails(s) == /\ pc[s] \in {"write", "sync"}
                 /\ pc' = [pc EXCEPT ![s] = "failed"]
                 /\ RemoveTmp(s)
                 /\ UNCHANGED <<storage, key, content, durable, entry, durableEntry, dirSynced,
                                overlapped, deaths>>

\* Whatever is at the path by now is replaced.
Rename(s) == /\ Goto(s, "rename", "syncDir")
             /\ entry' = key[s] /\ dirSynced' = FALSE
             /\ tmps' = tmps \ {key[s]}
             /\ UNCHANGED <<storage, key, content, durable, durableEntry, abandoned, overlapped,
                            deaths>>

RenameFails(s) == /\ Goto(s, "rename", "failed")
                  /\ RemoveTmp(s)
                  /\ UNCHANGED <<storage, key, content, durable, entry, durableEntry, dirSynced,
                                 overlapped, deaths>>

\* Opening or flushing the directory may fail, which the code ignores.
SyncDir(s, ok) == /\ Goto(s, "syncDir", "ready")
                  /\ durableEntry' = IF ok THEN entry ELSE durableEntry
                  /\ dirSynced' = (dirSynced \/ ok)
                  /\ UNCHANGED <<storage, key, content, durable, entry, tmps, abandoned,
                                 overlapped, deaths>>

(********************* Kernel and platform (outside) ************************)

\* The kernel writes back a file or the directory when it likes, in any order.
WriteBack == /\ \/ \E k \in Keys : /\ content[k] = "full" /\ k \notin durable
                                   /\ durable' = durable \cup {k}
                                   /\ UNCHANGED durableEntry
                \/ /\ durableEntry # entry
                   /\ durableEntry' = entry
                   /\ UNCHANGED durable
             /\ UNCHANGED <<storage, pc, key, content, entry, dirSynced, tmps, abandoned,
                            overlapped, deaths>>

\* A process dies, while starting or while serving.
ProcessDies(s) == /\ pc[s] \notin {"down", "failed"} /\ deaths < MaxDeaths
                  /\ pc' = [pc EXCEPT ![s] = "down"] /\ deaths' = deaths + 1
                  /\ abandoned' = abandoned \cup (IF Installing(s) THEN {key[s]} ELSE {})
                  /\ UNCHANGED <<storage, key, content, durable, entry, durableEntry, dirSynced,
                                 tmps, overlapped>>

\* Everything under the servers dies: on a volume unflushed contents are lost, an
\* unflushed rename is undone and any temporary name may be back; ephemeral storage
\* starts empty.
Survive == IF storage = "volume" THEN durable ELSE {}
MachineDies ==
  /\ deaths < MaxDeaths /\ deaths' = deaths + 1
  /\ pc' = [s \in Servers |-> "down"]
  /\ content' = [k \in Keys |-> IF content[k] = "full" /\ k \notin Survive THEN "partial"
                                ELSE content[k]]
  /\ durable' = Survive
  /\ entry' = IF storage = "volume" THEN durableEntry ELSE NoKey
  /\ durableEntry' = entry'
  /\ dirSynced' = (dirSynced /\ storage = "volume")
  /\ tmps' \in SUBSET {k \in Keys : storage = "volume" /\ content[k] # "none" /\ k # durableEntry}
  /\ abandoned' = tmps'
  /\ UNCHANGED <<storage, key, overlapped>>

\* A server is started: for the first time, or after a death or an error.
Restart(s) == /\ pc[s] \in {"down", "failed"}
              /\ pc' = [pc EXCEPT ![s] = "read"]
              /\ key' = [key EXCEPT ![s] = NoKey]
              /\ UNCHANGED <<storage, files, overlapped, deaths>>

LoadOrCreate(s) == \/ Read(s) \/ StartFails(s) \/ Write(s) \/ Sync(s) \/ WriteFails(s)
                   \/ Rename(s) \/ RenameFails(s)
                   \/ \E k \in Keys : CreateTemp(s, k)
                   \/ \E ok \in BOOLEAN : SyncDir(s, ok)

Next == \/ \E s \in Servers : LoadOrCreate(s) \/ ProcessDies(s) \/ Restart(s)
        \/ WriteBack \/ MachineDies

HostKeySpec == Init /\ [][Next]_hostKeyVars

-----------------------------------------------------------------------------
TypeOK == /\ storage \in {"volume", "ephemeral"}
          /\ pc \in [Servers -> {"read", "create", "write", "sync", "rename", "syncDir",
                                 "ready", "failed", "down"}]
          /\ key \in [Servers -> Keys \cup {NoKey}]
          /\ \A s \in Servers : Installing(s) \/ pc[s] \in {"syncDir", "ready"} => key[s] \in Keys
          /\ content \in [Keys -> {"none", "partial", "full"}]
          /\ durable \in SUBSET Keys /\ tmps \in SUBSET Keys /\ abandoned \in SUBSET Keys
          /\ entry \in Keys \cup {NoKey} /\ durableEntry \in Keys \cup {NoKey}
          /\ dirSynced \in BOOLEAN /\ overlapped \in BOOLEAN /\ deaths \in Nat

\* writeHostKeyAtomically: "path never holds a partial file, which
\* loadOrCreateHostKey would refuse to parse and never repair", whichever of process
\* and machine dies, when, and however many servers install a key at once.
PathNeverPartial == entry # NoKey => content[entry] = "full"

\* A server presents the key that the next start will read, not one that exists
\* only in its memory; but for first starts that overlap on shared storage, where
\* the last rename wins.
ServedIsInstalled == ~overlapped => \A s \in Servers : pc[s] = "ready" => key[s] = entry

\* No start replaces an installed key, unless it overlapped the one that installed
\* it; and once its directory was flushed nothing takes it from a volume.
KeyKept == [][entry # NoKey /\ entry' # entry
                => \/ overlapped
                   \/ /\ \A s \in Servers : pc'[s] = "down"
                      /\ entry' = NoKey /\ (dirSynced => storage = "ephemeral")]_hostKeyVars

\* However its start ends, a temporary file does not stay: one that is not of a start
\* under way was left by a death in the middle of an install, or by an error path
\* whose os.Remove failed as well.
NoLitter == tmps \ abandoned \subseteq {key[s] : s \in {t \in Servers : Installing(t)}}
=============================================================================
