------------------------------ MODULE ShellEnv ------------------------------
(***************************************************************************)
(* What a session runs, in which environment and where: shell.go, as       *)
(* handleSession uses it.  An environment is a function from names to      *)
(* values, Unset for the ones it lacks: mergeEnv puts out each name once,  *)
(* in any order.  What a client sends is a sequence of entries, of which   *)
(* later ones win; an entry without "=" has the name Junk.                 *)
(***************************************************************************)
EXTENDS SSHConfig

shellBash == "/bin/bash"
shellSh == "/bin/sh"

\* The environment of the server wins.
mergeEnvServerWins(base, sessionEnv) ==
  LET put(env, e) == IF e.name = Junk \/ env[e.name] # Unset THEN env
                     ELSE [env EXCEPT ![e.name] = e.value]
  IN FoldLeft(put, base, sessionEnv)

mergeEnv(base, sessionEnv) ==
  LET put(env, e) == IF e.name = Junk THEN env ELSE [env EXCEPT ![e.name] = e.value]
  IN FoldLeft(put, base, sessionEnv)

\* HOME not filled in.
withPasswdNames(env, passwd) ==
  [env EXCEPT !["USER"]    = IF @ = Unset /\ passwd.name # Unset THEN passwd.name ELSE @,
              !["LOGNAME"] = IF @ = Unset /\ passwd.name # Unset THEN passwd.name ELSE @]

\* Account variables that are absent, even if not those that are empty, come from
\* the passwd entry, as far as it has them.
withPasswdFallback(env, passwd) ==
  [env EXCEPT !["HOME"]    = IF @ = Unset /\ passwd.home # <<>> THEN passwd.home ELSE @,
              !["USER"]    = IF @ = Unset /\ passwd.name # Unset THEN passwd.name ELSE @,
              !["LOGNAME"] = IF @ = Unset /\ passwd.name # Unset THEN passwd.name ELSE @]

\* The home directory if it is one; <<>> leaves the session where the server is.
sessionWorkingDir(env, dirs) ==
  IF env["HOME"] \notin {Unset, <<>>} /\ env["HOME"] \in dirs THEN env["HOME"] ELSE <<>>

\* $SHELL of the server, bash or sh, whichever is there first.
resolveShell(base, programs) ==
  LET candidates == <<base["SHELL"], shellBash, shellSh>>
      there == {i \in DOMAIN candidates : candidates[i] \in programs}
  IN IF there = {} THEN shellSh ELSE candidates[Min(there)]

\* Always through the shell; a command of blanks only is none.
buildShellCommand(shell, login, rawCmd) ==
  IF rawCmd = "" THEN <<shell>> \o (IF login THEN <<"-l">> ELSE <<>>)
  ELSE <<shell, IF login THEN "-lc" ELSE "-c", rawCmd>>

\* handleSession, between taking its slot and starting the command; dirs are the
\* directories there are at that time.
SessionCommand(host, dirs, login, rawCmd, sessionEnv) ==
  LET env == withPasswdFallback(mergeEnv(host.base, sessionEnv), host.passwd)
  IN [args |-> buildShellCommand(resolveShell(host.base, host.programs), login, rawCmd),
      env  |-> env,
      dir  |-> sessionWorkingDir(env, dirs)]
=============================================================================
