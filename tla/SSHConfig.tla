----------------------------- MODULE SSHConfig ------------------------------
(***************************************************************************)
(* The configuration of remote-access-server: LoadConfig, validate and the *)
(* test for ephemeral storage (internal/sshserver/config.go), and the      *)
(* command line flags of cmd/remote-access-server/main.go.                 *)
(*                                                                         *)
(* A variable of the environment is a value of its own type, Unset (also   *)
(* for the empty string) or Junk, which does not parse.  A path is the     *)
(* sequence of its components, beginning with "/" if it is absolute; the   *)
(* empty path is <<>>.                                                     *)
(***************************************************************************)
EXTENDS Integers, SequencesExt

CONSTANTS Unset, Junk,
          LoopbackIPs   \* literals for which net.ParseIP(h).IsLoopback()

DefaultListenAddr == [host |-> "127.0.0.1", port |-> 2222]
MaxPort == 65535

\* An unset variable counts as its default, and so does one that does not parse.
getEnv(v, default) == IF v = Unset THEN default ELSE v
getTypedEnv(v, default) == IF v \in {Unset, Junk} THEN default ELSE v

\* HOME, if it is set and not empty, otherwise the passwd entry.
homeDir(base, passwd) == IF base["HOME"] \notin {Unset, <<>>} THEN base["HOME"] ELSE passwd.home

defaultHostKeyPath(home) == IF home = <<>> THEN <<>>
                            ELSE home \o <<".ssh", "ssh_host_ed25519_key">>

\* An unparsable bool read as true.
LoadConfigTrusting(env, home) ==
  [ListenAddr       |-> getEnv(env.SSH_LISTEN_ADDR, DefaultListenAddr),
   HostKeyPath      |-> getEnv(env.SSH_HOST_KEY_PATH, defaultHostKeyPath(home)),
   IdleTimeout      |-> getTypedEnv(env.SSH_IDLE_TIMEOUT, 12),
   MaxSessions      |-> getTypedEnv(env.SSH_MAX_SESSIONS, 10),
   LoginShell       |-> getTypedEnv(env.SSH_LOGIN_SHELL, FALSE),
   AllowNonLoopback |-> getEnv(env.SSH_ALLOW_NON_LOOPBACK, FALSE) # FALSE]

LoadConfig(env, home) ==
  [ListenAddr       |-> getEnv(env.SSH_LISTEN_ADDR, DefaultListenAddr),
   HostKeyPath      |-> getEnv(env.SSH_HOST_KEY_PATH, defaultHostKeyPath(home)),
   IdleTimeout      |-> getTypedEnv(env.SSH_IDLE_TIMEOUT, 12),
   MaxSessions      |-> getTypedEnv(env.SSH_MAX_SESSIONS, 10),
   LoginShell       |-> getTypedEnv(env.SSH_LOGIN_SHELL, FALSE),
   AllowNonLoopback |-> getTypedEnv(env.SSH_ALLOW_NON_LOOPBACK, FALSE)]

\* --port, --host-key and --login-shell override what the environment says.
ApplyFlags(c, flags) ==
  [c EXCEPT !.ListenAddr  = IF flags.port = 0 THEN @ ELSE [host |-> "127.0.0.1", port |-> flags.port],
            !.HostKeyPath = IF flags.hostKey = <<>> THEN @ ELSE flags.hostKey,
            !.LoginShell  = IF flags.loginShell = Unset THEN @ ELSE flags.loginShell]

\* The test for the empty host dropped.
isLoopbackOrEmpty(host) == host = "" \/ host = "localhost" \/ host \in LoopbackIPs

\* "" and "*" mean every interface to net.Listen.
isLoopback(host) == host \notin {"", "*"} /\ (host = "localhost" \/ host \in LoopbackIPs)

\* The hosts a client may forward to (-L), and bind for a forward back (-R).
allowLocalForward(host) == isLoopback(host)
allowReverseForward(bindHost) == isLoopback(bindHost)

validate(c) ==
  /\ c.ListenAddr # Junk /\ c.ListenAddr.port \in 1 .. MaxPort
  /\ c.HostKeyPath # <<>> /\ c.HostKeyPath[1] = "/"
  /\ c.MaxSessions >= 0 /\ c.IdleTimeout >= 0
  /\ c.AllowNonLoopback \/ isLoopback(c.ListenAddr.host)

-----------------------------------------------------------------------------
ephemeralPathPrefixes == {<<"/", "tmp">>, <<"/", "var", "tmp">>, <<"/", "run">>,
                          <<"/", "dev", "shm">>}

\* Components are strings, which proofs have to be told.
ASSUME PrefixesAssumption == ephemeralPathPrefixes \subseteq Seq(STRING)

Longest(paths) == CHOOSE p \in paths : \A q \in paths : Len(q) <= Len(p)

\* The directory of an absolute path; that of the root is the root.
Dir(path) == IF Len(path) = 1 THEN path ELSE Front(path)

\* The file system, named by its mount point, that holds an existing path.
Device(path, mounts) == Longest({m \in mounts : IsPrefix(m, path)})

\* The walk up from path to the first directory that exists.
statNearestAncestor(path, dirs) == Longest(Prefixes(path) \cap dirs)

isOnRootDevice(path, dirs, mounts) ==
  Device(statNearestAncestor(path, dirs), mounts) = Device(<<"/">>, mounts)

\* The device of the root directory not looked at.
hasListedHostKeyPath(path, dirs, mounts) ==
  \E prefix \in ephemeralPathPrefixes : IsStrictPrefix(prefix, path)

hasEphemeralHostKeyPath(path, dirs, mounts) ==
  \/ \E prefix \in ephemeralPathPrefixes : IsStrictPrefix(prefix, path)
  \/ isOnRootDevice(Dir(path), dirs, mounts)
=============================================================================
