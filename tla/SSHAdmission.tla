---------------------------- MODULE SSHAdmission ----------------------------
(***************************************************************************)
(* The session limit of remote-access-server: acquireSession and           *)
(* releaseSession (internal/sshserver/server.go) as handleSession uses     *)
(* them.  Unlike ws-proxy, which swaps, this server adds first and takes   *)
(* the addition back when it overshot, so a session that is being refused  *)
(* is itself counted for a moment.                                         *)
(***************************************************************************)
EXTENDS Integers, FiniteSets

CONSTANTS Channels,    \* "session" channels, each served by its own goroutine
          MaxSessions  \* Config.MaxSessions; not positive disables the limit

ASSUME ChannelsFinite == IsFiniteSet(Channels)
ASSUME MaxSessionsInt == MaxSessions \in Int

VARIABLES sessions,  \* Server.sessions
          pc         \* pc[c]: where the goroutine serving c is

vars == <<sessions, pc>>

Locations == {"idle", "undo", "refused", "running", "release"}
Limited == MaxSessions > 0

Serving == {c \in Channels : pc[c] \in {"running", "release"}}
BackingOut == {c \in Channels : pc[c] = "undo"}

Goto(c, from, to) == /\ pc[c] = from
                     /\ pc' = [pc EXCEPT ![c] = to]

-----------------------------------------------------------------------------
(* Faulty variants of single steps. *)

\* The Add(-1) of a refusal forgotten.
BackOutForgotten(c) == Goto(c, "undo", "refused") /\ UNCHANGED sessions

\* >= in place of >: the last slot is never used.
AcquireEarly(c) ==
  /\ Goto(c, "idle", IF Limited /\ sessions + 1 >= MaxSessions THEN "undo" ELSE "running")
  /\ sessions' = IF Limited THEN sessions + 1 ELSE sessions

\* The bound compared with the value before the addition.
AcquireLate(c) ==
  /\ Goto(c, "idle", IF Limited /\ sessions > MaxSessions THEN "undo" ELSE "running")
  /\ sessions' = IF Limited THEN sessions + 1 ELSE sessions

-----------------------------------------------------------------------------
Init == /\ sessions = 0
        /\ pc = [c \in Channels |-> "idle"]

\* acquireSession: one atomic addition decides; with no limit nothing is counted.
Acquire(c) ==
  /\ Goto(c, "idle", IF Limited /\ sessions + 1 > MaxSessions THEN "undo" ELSE "running")
  /\ sessions' = IF Limited THEN sessions + 1 ELSE sessions

\* The addition that overshot is taken back.
BackOut(c) == /\ Goto(c, "undo", "refused")
              /\ sessions' = sessions - 1

\* "remote access server at capacity", exit status 1, the handler returns.
Refuse(c) == Goto(c, "refused", "idle") /\ UNCHANGED sessions

\* runWithPty or runWithoutPty returns (SSHSession models them).
Finish(c) == Goto(c, "running", "release") /\ UNCHANGED sessions

\* The deferred releaseSession.
Release(c) == /\ Goto(c, "release", "idle")
              /\ sessions' = IF Limited THEN sessions - 1 ELSE sessions

Next == \E c \in Channels :
          Acquire(c) \/ BackOut(c) \/ Refuse(c) \/ Finish(c) \/ Release(c)

Spec == Init /\ [][Next]_vars

-----------------------------------------------------------------------------
TypeOK == /\ sessions \in Nat
          /\ pc \in [Channels -> Locations]

\* The counter is exact at every instant: the sessions being served plus the
\* refused ones that have not yet taken their addition back; zero without a limit.
SessionsAccounting ==
  sessions = IF Limited THEN Cardinality(Serving \cup BackingOut) ELSE 0

\* At most MaxSessions shell and exec channels are served at once.
SessionLimitHolds == Limited => Cardinality(Serving) <= MaxSessions

\* A refusal needs MaxSessions other channels that are served or are themselves
\* being refused; with the limit disabled there is none at all.
RefusalNeedsContention ==
  [][\A c \in Channels : pc[c] = "idle" /\ pc'[c] = "undo"
       => Limited /\ Cardinality(Serving \cup BackingOut) >= MaxSessions]_vars
=============================================================================
