----------------------------- MODULE SSHSession -----------------------------
(***************************************************************************)
(* One shell or exec session of remote-access-server, from its slot to the *)
(* release of it: handleSession, runWithPty, runWithoutPty,                *)
(* watchWindowSize, sessionCmd and terminateOnDisconnect                   *)
(* (internal/sshserver/server.go), with the processes they start.          *)
(*                                                                         *)
(* Goroutines: the session's own ("run"), the disconnect watcher and, with *)
(* a pty, the resizer.  Processes: the command itself (the leader of its   *)
(* process group) and one descendant, which may keep the session's output  *)
(* open, ignore SIGHUP, or leave the group with setsid.  Time is left out. *)
(***************************************************************************)
EXTENDS Integers

CONSTANTS ExitCodes, Signals  \* what a command may exit with, or be killed by, by itself

SIGHUP == 1
SIGKILL == 9
Untold == -1                  \* no exit status has been sent to the client

ASSUME EndingsAssumption ==
  ExitCodes \subseteq Nat /\ Signals \subseteq Nat \ {0, SIGHUP, SIGKILL}

\* How a process ended: n for exit status n, -n for signal n.
Endings == ExitCodes \cup {0 - n : n \in Signals}

VARIABLES
  run,       \* where the session's goroutine is
  watcher,   \* where the goroutine of terminateOnDisconnect is
  resizer,   \* where the goroutine of watchWindowSize is
  pty,       \* whether the client asked for a terminal
  master,    \* the pty master: "none", "open" or "closed"
  reaped,    \* sessionCmd.reaped
  done,      \* the channel that stops the watcher is closed
  told,      \* the exit status the client was sent, or Untold
  gone,      \* session.Context() is done: the client's connection is over
  closed,    \* the client has closed this session's channel, its connection may stay
  leader,    \* the command: "none", "running", "zombie" or "reaped"
  how,       \* how it ended, encoded like Endings; meaningful once it is no longer running
  mute,      \* it has closed its own output and runs on
  kid,       \* the descendant: "none", "group", "escaped" or "dead"
  kidHolds,  \* it has the pty slave or the output pipe open
  immune,    \* which of the two ignore SIGHUP
  pid        \* who the group's number stands for: "session", "free" or "stranger"

goroutines == <<run, watcher, resizer>>
shared == <<pty, master, reaped, done, told, gone, closed>>
processes == <<leader, how, mute, kid, kidHolds, immune, pid>>
vars == <<goroutines, shared, processes>>

KidAlive == kid \in {"group", "escaped"}

\* Someone may still write to the session: the output copy cannot see its end.
OutputHeld == (leader = "running" /\ ~mute) \/ (KidAlive /\ kidHolds)

\* The kernel keeps the number while the leader is unreaped or its group not empty.
PidFreed(l, k) == l = "reaped" /\ k # "group"

\* What is written to the session no longer reaches the client.
Unheard == gone \/ closed

\* session.Exit: the client hears of it while it has the channel.
Tell(status) == told' = IF Unheard THEN told ELSE status

-----------------------------------------------------------------------------
(* Faulty variants.                                                         *)

\* The wait for resizeDone dropped.
JoinResizerSkipped == /\ run = "joinResizer" /\ run' = "closeMaster"
                      /\ UNCHANGED <<watcher, resizer, shared, processes>>

\* stopWatch closes done and does not wait for the watcher.
JoinWatcherSkipped == /\ run = "joinWatcher" /\ run' = "release"
                      /\ UNCHANGED <<watcher, resizer, shared, processes>>

\* A HUP is all the processes get.
GraceEndsQuietly == /\ watcher = "grace" /\ watcher' = "finished"
                    /\ UNCHANGED <<run, resizer, shared, processes>>

\* ExitCode() passed on: a command killed by a signal is reported as a general error.
exitCodeUnsignalled(n) == IF n >= 0 THEN n ELSE 1

\* The watcher does not wait for the client to go.
WatcherImpatient == /\ watcher = "wait" /\ watcher' = "hangUp"
                    /\ UNCHANGED <<run, resizer, shared, processes>>

-----------------------------------------------------------------------------
\* exitCode: the status of a command that exited, 128+n for one killed by signal n.
\* (An error of the output copies also comes back from cmd.Wait, as status 1, but only
\* when the channel is closed and nobody is told.)
exitCode(n) == IF n >= 0 THEN n ELSE 128 - n

Init == /\ run = "start" /\ watcher = "none" /\ resizer = "none"
        /\ pty \in BOOLEAN /\ master = "none"
        /\ reaped = FALSE /\ done = FALSE /\ gone = FALSE /\ closed = FALSE
        /\ told = Untold
        /\ leader = "none" /\ how = 0 /\ mute = FALSE /\ kid = "none" /\ kidHolds = FALSE
        /\ immune \in SUBSET {"leader", "kid"}
        /\ pid = "session"

\* pty.Start or StdinPipe fails, status 1, or cmd.Start does, status 127.
StartFails == /\ run = "start" /\ run' = "release"
              /\ \E status \in IF pty THEN {1} ELSE {1, 127} : Tell(status)
              /\ UNCHANGED <<watcher, resizer, pty, master, reaped, done, gone, closed, processes>>

\* The command runs as the leader of a group of its own and is watched; with a pty
\* the resizer starts and the output is copied here, without one cmd.Wait does it.
Start == /\ run = "start"
         /\ run' = IF pty THEN "copy" ELSE "reap"
         /\ watcher' = "wait"
         /\ resizer' = IF pty THEN "select" ELSE "none"
         /\ master' = IF pty THEN "open" ELSE "none"
         /\ leader' = "running"
         /\ UNCHANGED <<pty, reaped, done, told, gone, closed, how, mute, kid, kidHolds,
                        immune, pid>>

\* io.Copy(session, f) ends with EIO once nobody holds the slave, or when writing to
\* a channel that is closed fails.
CopyEnds == /\ run = "copy" /\ run' = "joinResizer"
            /\ ~OutputHeld \/ Unheard
            /\ UNCHANGED <<watcher, resizer, shared, processes>>

\* close(stopResize); <-resizeDone
JoinResizer == /\ run = "joinResizer" /\ run' = "closeMaster"
               /\ resizer = "done"
               /\ UNCHANGED <<watcher, resizer, shared, processes>>

\* Closing the master hangs the terminal up: the kernel sends the command SIGHUP.
CloseMaster == /\ run = "closeMaster" /\ run' = "reap"
               /\ master' = "closed"
               /\ leader' = IF leader = "running" /\ "leader" \notin immune THEN "zombie" ELSE leader
               /\ how' = IF leader' # leader THEN -SIGHUP ELSE how
               /\ UNCHANGED <<watcher, resizer, pty, reaped, done, told, gone, closed, mute, kid,
                              kidHolds, immune, pid>>

\* cmd.Wait collects the leader ...
Reap == /\ run = "reap" /\ run' = "drain"
        /\ leader = "zombie" /\ leader' = "reaped"
        /\ pid' = IF PidFreed("reaped", kid) THEN "free" ELSE pid
        /\ UNCHANGED <<watcher, resizer, shared, how, mute, kid, kidHolds, immune>>

\* ... and, without a pty, returns only when its output copies have ended.
Drained == /\ run = "drain" /\ run' = "mark"
           /\ pty \/ ~OutputHeld \/ Unheard
           /\ UNCHANGED <<watcher, resizer, shared, processes>>

\* wait sets reaped under the mutex.
MarkReaped == /\ run = "mark" /\ run' = "exit"
              /\ reaped' = TRUE
              /\ UNCHANGED <<watcher, resizer, pty, master, done, told, gone, closed, processes>>

\* finish reports the status and the deferred stopWatch closes done.
StopWatch == /\ run = "exit" /\ run' = "joinWatcher"
             /\ Tell(exitCode(how))
             /\ done' = TRUE
             /\ UNCHANGED <<watcher, resizer, pty, master, reaped, gone, closed, processes>>

JoinWatcher == /\ run = "joinWatcher" /\ run' = "release"
               /\ watcher = "finished"
               /\ UNCHANGED <<watcher, resizer, shared, processes>>

Release == /\ run = "release" /\ run' = "released"
           /\ UNCHANGED <<watcher, resizer, shared, processes>>

(************************ terminateOnDisconnect *****************************)

\* signalGroup: under the mutex, nothing once reaped is set, else kill(-pid).  The
\* signal reaches the group's members, or whoever has the number by now.
SignalGroup(sig) ==
  LET hit == ~reaped /\ pid = "session"
      dies(p) == hit /\ (sig = SIGKILL \/ p \notin immune)
  IN  /\ leader' = IF leader = "running" /\ dies("leader") THEN "zombie" ELSE leader
      /\ how' = IF leader' # leader THEN -sig ELSE how
      /\ kid' = IF kid = "group" /\ dies("kid") THEN "dead" ELSE kid
      /\ pid' = IF pid = "session" /\ PidFreed(leader, kid') THEN "free" ELSE pid
      /\ UNCHANGED <<mute, kidHolds, immune>>

WatcherStops == /\ watcher \in {"wait", "grace"} /\ done
                /\ watcher' = "finished"
                /\ UNCHANGED <<run, resizer, shared, processes>>

WatcherSeesDisconnect == /\ watcher = "wait" /\ gone
                         /\ watcher' = "hangUp"
                         /\ UNCHANGED <<run, resizer, shared, processes>>

HangUp == /\ watcher = "hangUp" /\ watcher' = "grace"
          /\ SignalGroup(SIGHUP)
          /\ UNCHANGED <<run, resizer, shared>>

GraceEnds == /\ watcher = "grace" /\ watcher' = "kill"
             /\ UNCHANGED <<run, resizer, shared, processes>>

Kill == /\ watcher = "kill" /\ watcher' = "finished"
        /\ SignalGroup(SIGKILL)
        /\ UNCHANGED <<run, resizer, shared>>

(*************************** watchWindowSize ********************************)

ResizeBegins == /\ resizer = "select" /\ resizer' = "resizing"
                /\ UNCHANGED <<run, watcher, shared, processes>>

ResizeEnds == /\ resizer = "resizing" /\ resizer' = "select"
              /\ UNCHANGED <<run, watcher, shared, processes>>

\* stopResize is closed, or the library has closed the channel of resizes.
ResizerStops == /\ resizer = "select" /\ resizer' = "done"
                /\ run = "joinResizer" \/ Unheard
                /\ UNCHANGED <<run, watcher, shared, processes>>

(**************** Client, processes and kernel (outside) ********************)

Disconnect == /\ ~gone /\ gone' = TRUE
              /\ UNCHANGED <<goroutines, pty, master, reaped, done, told, closed, processes>>

\* Nothing but the session's channel is closed: its context is not done.
ChannelCloses == /\ ~closed /\ closed' = TRUE
                 /\ UNCHANGED <<goroutines, pty, master, reaped, done, told, gone, processes>>

LeaderForks == /\ leader = "running" /\ kid = "none"
               /\ kid' = "group" /\ kidHolds' \in BOOLEAN
               /\ UNCHANGED <<goroutines, shared, leader, how, mute, immune, pid>>

LeaderExits == /\ leader = "running" /\ leader' = "zombie"
               /\ how' \in Endings
               /\ UNCHANGED <<goroutines, shared, mute, kid, kidHolds, immune, pid>>

LeaderMutes == /\ leader = "running" /\ ~mute /\ mute' = TRUE
               /\ UNCHANGED <<goroutines, shared, leader, how, kid, kidHolds, immune, pid>>

\* The descendant leaves the group with setsid, or exits.
KidBecomes(k) == /\ kid = "group" \/ (kid = "escaped" /\ k = "dead")
                 /\ kid' = k
                 /\ pid' = IF pid = "session" /\ PidFreed(leader, k) THEN "free" ELSE pid
                 /\ UNCHANGED <<goroutines, shared, leader, how, mute, kidHolds, immune>>

PidReused == /\ pid = "free" /\ pid' = "stranger"
             /\ UNCHANGED <<goroutines, shared, leader, how, mute, kid, kidHolds, immune>>

Outside == \/ Disconnect \/ ChannelCloses \/ LeaderForks \/ LeaderExits \/ LeaderMutes
           \/ PidReused \/ \E k \in {"escaped", "dead"} : KidBecomes(k)

\* Nothing is left to do; the descendant and the number live on as they please.
Terminated == run = "released" /\ UNCHANGED vars

RunStep == \/ StartFails \/ Start \/ CopyEnds \/ JoinResizer \/ CloseMaster \/ Reap
           \/ Drained \/ MarkReaped \/ StopWatch \/ JoinWatcher \/ Release
WatcherStep == WatcherStops \/ WatcherSeesDisconnect \/ HangUp \/ GraceEnds \/ Kill
ResizerStep == ResizeBegins \/ ResizeEnds \/ ResizerStops

Next == RunStep \/ WatcherStep \/ ResizerStep \/ Outside \/ Terminated

\* Goroutines that can run are scheduled, the grace timer fires, and the select of
\* the resizer does not overlook a closed channel.  A write to a closed channel
\* is not assumed to happen: the processes may be silent.
RunMustStep == /\ RunStep
               /\ run = "copy" => ~OutputHeld
               /\ run = "drain" => pty \/ ~OutputHeld
Spec == /\ Init /\ [][Next]_vars
        /\ WF_vars(RunMustStep) /\ WF_vars(WatcherStep)
        /\ WF_vars(ResizeEnds) /\ SF_vars(ResizerStops)

-----------------------------------------------------------------------------
TypeOK == /\ run \in {"start", "copy", "joinResizer", "closeMaster", "reap", "drain", "mark",
                      "exit", "joinWatcher", "release", "released"}
          /\ watcher \in {"none", "wait", "hangUp", "grace", "kill", "finished"}
          /\ resizer \in {"none", "select", "resizing", "done"}
          /\ master \in {"none", "open", "closed"}
          /\ ~pty => resizer = "none" /\ master = "none"
          /\ pty \in BOOLEAN /\ reaped \in BOOLEAN /\ done \in BOOLEAN
          /\ gone \in BOOLEAN /\ closed \in BOOLEAN /\ kidHolds \in BOOLEAN /\ mute \in BOOLEAN
          /\ told \in Int /\ how \in Int
          /\ leader \in {"none", "running", "zombie", "reaped"}
          /\ kid \in {"none", "group", "escaped", "dead"}
          /\ immune \subseteq {"leader", "kid"}
          /\ pid \in {"session", "free", "stranger"}

\* runWithPty: "closing the master while a resize is in flight is a use-after-close".
\* No resize is ever in flight on a closed master.
NoResizeAfterClose == resizer = "resizing" => master = "open"

\* A session gives its slot back with nothing of its own left behind: the command
\* collected (no zombie), the watcher and the resizer joined, the master closed.
CleanAtRelease ==
  run \in {"release", "released"} =>
    /\ leader \in {"none", "reaped"}
    /\ watcher \in {"none", "finished"} /\ resizer \in {"none", "done"}
    /\ master # "open"

\* AGENT.md: "Faithful exit statuses, including 128+signal."  A client that still
\* has its channel when its session ends has been told how its command ended by itself, or
\* that it could not be started: never of a signal the server sent.  The exception is
\* a command that closes its terminal and runs on, which loses it.
StatusFaithful ==
  run \in {"release", "released"} /\ ~Unheard =>
    \/ leader = "none" /\ told \in {1, 127}
    \/ leader = "reaped" /\ \E n \in Endings : how = n /\ told = IF n < 0 THEN 128 - n ELSE n
    \/ pty /\ mute /\ told = 128 + SIGHUP

\* A session cannot "outlive its client indefinitely": when the client goes away
\* the slot comes back, even if the processes are silent and ignore SIGHUP.  The
\* exception is a descendant out of the signals' reach that holds the output.
EscapedHolder == kid = "escaped" /\ kidHolds
DisconnectFreesSlot == gone ~> run = "released" \/ EscapedHolder

\* sessionCmd: "a signal sent after the reap could land on an unrelated process
\* group.  Making that impossible is cheaper than reasoning about how unlikely it
\* is."  No signal is sent once the number belongs to somebody else.
NoStrangerSignalled ==
  [][HangUp \/ Kill => reaped \/ pid # "stranger"]_vars

\* AGENT.md: "A disconnected client's processes must die."  A descendant that is in
\* the session's group after SIGHUP ended the command there, because it ignores
\* SIGHUP, dies as well: SIGKILL follows when the grace period is over.
DisconnectKillsGroup ==
  watcher = "grace" /\ leader = "zombie" /\ how = -SIGHUP /\ kid = "group" ~> kid # "group"
=============================================================================
