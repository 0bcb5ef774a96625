----------------------------- MODULE SSHStartup -----------------------------
(***************************************************************************)
(* The start of remote-access-server, from the environment it finds to the *)
(* sessions it serves: main reads the configuration, New validates it,     *)
(* prepares the host key (HostKey) and warns of ephemeral storage.  The    *)
(* process and the machine under it may die at any time and are started    *)
(* again with the same configuration.                                      *)
(***************************************************************************)
EXTENDS HostKey, ShellEnv

CONSTANTS
  Inputs,      \* bound: environments, flags, passwd entries and file systems
  ClientEnvs,  \* bound: what a client sends with a session
  PeerHosts    \* bound: hosts a client names in a forward

VARIABLES
  input,      \* where the server runs, the same at every start
  main,       \* main[s]: "off", "new" (in New), "listening" or "refused"
  warned,     \* a server has warned that its key will not survive a restart
  learned,    \* the host key that clients have seen last
  unflushed   \* the machine died before an installed key was known to be on the disk

startupVars == <<hostKeyVars, input, main, warned, learned, unflushed>>

HomeOf(host) == homeDir(host.base, host.passwd)
ConfigOf(host) == ApplyFlags(LoadConfig(host.env, HomeOf(host)), host.flags)

\* Where a server runs: every path is on some file system, and the key's is not itself
\* a mount point, which is a directory and cannot be read as a key.
ASSUME InputsAssumption ==
  \A host \in Inputs :
    /\ <<"/">> \in DOMAIN host.mounts
    /\ \A m \in DOMAIN host.mounts : m \in Seq(STRING) /\ m # <<>> /\ m[1] = "/"
    /\ HomeOf(host) \in Seq(STRING)
    /\ validate(ConfigOf(host))
         => /\ ConfigOf(host).HostKeyPath \in Seq(STRING)
            /\ ConfigOf(host).HostKeyPath \notin DOMAIN host.mounts

\* Environments are functions on the names that are told apart; a client sends entries
\* with such names, or Junk, and with values.  A variable set to nothing is not unset.
ASSUME EnvsAssumption ==
  /\ Unset # <<>>
  /\ \A host \in Inputs :
       /\ host.base = [n \in DOMAIN host.base |-> host.base[n]]
       /\ {"HOME", "USER", "LOGNAME", "SHELL"} \subseteq DOMAIN host.base
       /\ Junk \notin DOMAIN host.base /\ host.passwd.home # Unset
       /\ \A sent \in ClientEnvs : \A i \in DOMAIN sent : sent[i].name \in DOMAIN host.base \cup {Junk}
  /\ \A sent \in ClientEnvs :
       /\ Len(sent) \in Nat /\ sent = [i \in 1 .. Len(sent) |-> sent[i]]
       /\ \A i \in DOMAIN sent : sent[i].value # Unset

home == HomeOf(input)
config == ConfigOf(input)
Mounts == DOMAIN input.mounts

\* What a restart does to the file system that holds the key.
StorageOf(path) == input.mounts[Device(path, Mounts)]

\* The directories there are once a key is installed: MkdirAll has made the key's.
Dirs == input.dirs \cup Prefixes(Dir(config.HostKeyPath))

StartupInit == /\ Init /\ input \in Inputs
               /\ validate(config) => storage = StorageOf(config.HostKeyPath)
               /\ ~validate(config) => storage = "volume"
               /\ main = [s \in Servers |-> "off"]
               /\ warned = FALSE /\ learned = NoKey /\ unflushed = FALSE

\* main up to New's first step: a configuration that does not validate is an exit
\* with an error.
Refuse(s) == /\ main[s] = "off" /\ ~validate(config)
             /\ main' = [main EXCEPT ![s] = "refused"]
             /\ UNCHANGED <<hostKeyVars, input, warned, learned, unflushed>>

Start(s) == /\ validate(config) /\ Restart(s)
            /\ main' = [main EXCEPT ![s] = "new"]
            /\ UNCHANGED <<input, warned, learned, unflushed>>

KeyStep(s) == /\ main[s] = "new" /\ LoadOrCreate(s)
              /\ UNCHANGED <<input, main, warned, learned, unflushed>>

\* The rest of New, then ListenAndServe: the first client learns the key.
Ready(s) == /\ main[s] = "new" /\ pc[s] = "ready"
            /\ main' = [main EXCEPT ![s] = "listening"]
            /\ warned' = (warned \/ hasEphemeralHostKeyPath(config.HostKeyPath, Dirs, Mounts))
            /\ learned' = key[s]
            /\ UNCHANGED <<hostKeyVars, input, unflushed>>

Killed(s) == /\ ProcessDies(s)
             /\ main' = [main EXCEPT ![s] = "off"]
             /\ UNCHANGED <<input, warned, learned, unflushed>>

AllKilled == /\ MachineDies
             /\ main' = [s \in Servers |-> "off"]
             /\ unflushed' = (unflushed \/ (storage = "volume" /\ ~dirSynced /\ entry' # entry))
             /\ UNCHANGED <<input, warned, learned>>

StartupNext == \/ \E s \in Servers : Refuse(s) \/ Start(s) \/ KeyStep(s) \/ Ready(s) \/ Killed(s)
               \/ AllKilled
               \/ WriteBack /\ UNCHANGED <<input, main, warned, learned, unflushed>>

StartupSpec == StartupInit /\ [][StartupNext]_startupVars

-----------------------------------------------------------------------------
\* The key is on a file system that a restart empties although it is neither the root's
\* nor mounted at or below a listed directory: a tmpfs or an emptyDir elsewhere.
Unlisted == LET m == Device(config.HostKeyPath, Mounts)
            IN /\ input.mounts[m] = "ephemeral" /\ m # <<"/">>
               /\ \A prefix \in ephemeralPathPrefixes : ~IsPrefix(prefix, m)

\* "with an ephemeral key the fingerprint changes on every restart and clients learn
\* to disable host-key checking": a server that presents another key than the last
\* one did so after a warning, unless first starts overlapped, the machine died
\* before the directory was flushed, or the key is on a file system of the one kind
\* that hasEphemeralHostKeyPath does not know.
FingerprintStable ==
  [][\A s \in Servers : /\ main[s] = "new" /\ main'[s] = "listening"
                        /\ learned # NoKey /\ key[s] # learned
                        => warned \/ overlapped \/ unflushed \/ Unlisted]_startupVars

\* Where net.Listen binds and net.Dial leads: "lo", or further.
Reach(host) == IF host = "localhost" \/ host \in LoopbackIPs THEN {"lo"} ELSE {"lo", "eth0"}

\* config.go: "a non-loopback bind would expose an unauthenticated shell to the
\* cluster network".  Whatever the environment and the flags hold, a server that
\* listens is bound to loopback unless that was lifted by an explicit true, and lets
\* clients forward to and from loopback only.
ServesOnlyLoopback ==
  \A s \in Servers : main[s] = "listening" =>
    /\ Reach(config.ListenAddr.host) = {"lo"} \/ input.env.SSH_ALLOW_NON_LOOPBACK = TRUE
    /\ \A h \in PeerHosts : allowLocalForward(h) \/ allowReverseForward(h) => Reach(h) = {"lo"}

\* "defaultHostKeyPath already falls back the same way" (withPasswdFallback): the
\* home that sessions start in is the one the key was looked for under, if the client
\* sends none and it exists by then, as it always does with the default key path,
\* whose directory New has made.  Only a HOME set to nothing is not replaced for
\* sessions, and leaves them where the server is.  What a client sends last for a name
\* is what the command sees; and a shell that is there is run if there is one, with
\* the client's command as one argument.
SessionAtHome ==
  \A s \in Servers : main[s] = "listening" => \A sent \in ClientEnvs, raw \in {"", "make"} :
    LET run == SessionCommand(input, Dirs, config.LoginShell, raw, sent)
        last(i) == sent[i].name # Junk /\ \A j \in i + 1 .. Len(sent) : sent[j].name # sent[i].name
        noHome == \A i \in DOMAIN sent : sent[i].name # "HOME"
    IN /\ \A i \in DOMAIN sent : last(i) => run.env[sent[i].name] = sent[i].value
       /\ /\ noHome /\ input.base["HOME"] # <<>>
          /\ home \in Dirs \/ config.HostKeyPath = defaultHostKeyPath(home)
          => run.dir = home
       /\ noHome /\ input.base["HOME"] = <<>> => run.dir = <<>>
       /\ run.dir = <<>> \/ run.dir \in Dirs
       /\ {shellBash, shellSh} \cap input.programs # {} => run.args[1] \in input.programs
       /\ raw # "" => run.args[3] = raw
=============================================================================
