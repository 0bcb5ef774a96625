----------------------------- MODULE MCStartup ------------------------------
(***************************************************************************)
(* Environments for SSHStartup.  Those that differ in where the key is put *)
(* are explored with deaths and two servers; those that differ in anything *)
(* else with one undisturbed start, which is all they have a bearing on.   *)
(***************************************************************************)
EXTENDS SSHStartup

CONSTANT Lone   \* the server that starts in the environments explored briefly

User == <<"/", "home", "user">>
Data == <<"/", "data", "key">>

DefaultEnv == [SSH_LISTEN_ADDR |-> Unset, SSH_HOST_KEY_PATH |-> Unset, SSH_IDLE_TIMEOUT |-> Unset,
               SSH_MAX_SESSIONS |-> Unset, SSH_LOGIN_SHELL |-> Unset,
               SSH_ALLOW_NON_LOOPBACK |-> Unset]
NoFlags == [port |-> 0, hostKey |-> <<>>, loginShell |-> Unset]
BaseEnv == [n \in {"HOME", "USER", "LOGNAME", "SHELL"} |-> Unset]
Passwd == [home |-> User, name |-> "user"]
NoPasswd == [home |-> <<>>, name |-> Unset]

\* Nothing mounted; a home volume; tmpfs on /tmp next to a data volume; an emptyDir
\* on /home.
RootOnly == [m \in {<<"/">>} |-> "ephemeral"]
HomeVolume == [m \in {<<"/">>, <<"/", "home">>} |-> IF m = <<"/">> THEN "ephemeral" ELSE "volume"]
DataVolume == [m \in {<<"/">>, <<"/", "tmp">>, <<"/", "data">>} |->
                 IF m = <<"/", "data">> THEN "volume" ELSE "ephemeral"]
HomeWiped == [m \in {<<"/">>, <<"/", "home">>} |-> "ephemeral"]

Default == [env |-> DefaultEnv, flags |-> NoFlags, base |-> BaseEnv, passwd |-> Passwd,
            mounts |-> HomeVolume, dirs |-> DOMAIN HomeVolume \cup {User},
            programs |-> {shellBash, shellSh}]

On(mounts, path) == [Default EXCEPT !.mounts = mounts, !.dirs = DOMAIN mounts \cup {User},
                                    !.env.SSH_HOST_KEY_PATH = path]

Thorough == {Default, On(RootOnly, Unset), On(HomeWiped, Unset), On(DataVolume, Data),
             On(DataVolume, <<"/", "tmp", "key">>)}

Addr(h, p) == [host |-> h, port |-> p]
ListenAddrs == {Unset, Junk, Addr("localhost", 1), Addr("::1", MaxPort), Addr("10.0.0.7", 2222),
                Addr("", 2222), Addr("*", 2222), Addr("127.0.0.1", 0),
                Addr("127.0.0.1", MaxPort + 1), Addr("127.0.0.1", Junk)}

Network == {[Default EXCEPT !.env.SSH_LISTEN_ADDR = a, !.env.SSH_ALLOW_NON_LOOPBACK = allow,
                            !.flags.port = port] :
              a \in ListenAddrs, allow \in {Unset, Junk, FALSE, TRUE}, port \in {0, 22, MaxPort + 1}}

Limits == {[Default EXCEPT !.env.SSH_MAX_SESSIONS = n, !.env.SSH_IDLE_TIMEOUT = t,
                           !.flags.loginShell = l] :
             n \in {Unset, Junk, -1, 0}, t \in {Junk, -1, 0}, l \in {Unset, TRUE}}

Accounts == {[Default EXCEPT !.base["HOME"] = h, !.base["SHELL"] = sh, !.passwd = p, !.dirs = d,
                             !.flags.hostKey = k, !.programs = progs] :
               h \in {Unset, <<>>, User, <<"/", "elsewhere">>}, sh \in {Unset, "/bin/zsh"},
               p \in {Passwd, NoPasswd}, d \in {{<<"/">>}, {<<"/">>, User}},
               k \in {<<>>, Data, <<"key">>}, progs \in {{}, {shellSh}, {"/bin/zsh", shellSh}}}

MCInputs == Thorough \cup Network \cup Limits \cup Accounts

Entry(n, v) == [name |-> n, value |-> v]
MCClientEnvs == {<<>>, <<Entry("HOME", <<"/">>)>>, <<Entry("USER", "a"), Entry("USER", "b")>>,
                 <<Entry(Junk, "a"), Entry("HOME", <<>>), Entry("SHELL", shellSh)>>}

\* Nothing tells one generated key from another.
KeySymmetry == Permutations(Keys)

\* The bound named above.
Explored == input \in Thorough \/ (deaths = 0 /\ \A s \in Servers \ {Lone} : main[s] = "off")
=============================================================================
