-------------------------- MODULE SSHSessionProofs --------------------------
(***************************************************************************)
(* Safety of an SSH session's teardown, whatever the client, the processes *)
(* and the kernel do.  No property is inductive: each depends on how       *)
(* far the session's own goroutine has come, so the invariant says what is *)
(* true of the others at each of its locations.                            *)
(***************************************************************************)
EXTENDS SSHSession, TLAPS

\* While the client has its channel the server sends no signal, the master is closed on
\* a running command only if that gave up its output, and the status told is that of
\* the command.
StatusInv ==
  /\ watcher \in {"hangUp", "grace", "kill"} => gone
  /\ ~Unheard /\ run \in {"joinResizer", "closeMaster"} /\ leader = "running" => mute
  /\ ~Unheard /\ leader \in {"zombie", "reaped"} =>
       how \in Endings \/ (pty /\ mute /\ how = -SIGHUP)
  /\ ~Unheard /\ run = "joinWatcher" => told = exitCode(how)
  /\ ~Unheard /\ run \in {"release", "released"} =>
       \/ leader = "none" /\ told \in {1, 127}
       \/ leader = "reaped" /\ told = exitCode(how)

\* What the handler has started, stopped and joined, by where it is.
IInv == /\ TypeOK
        /\ run = "start" => /\ watcher = "none" /\ resizer = "none"
                            /\ master = "none" /\ leader = "none"
        /\ run \in {"copy", "joinResizer", "closeMaster"} => pty /\ master = "open"
        /\ resizer \in {"select", "resizing"} => run \in {"copy", "joinResizer"}
        /\ run \in {"reap", "drain", "mark", "exit", "joinWatcher"} => master # "open"
        /\ run \in {"drain", "mark", "exit", "joinWatcher"} => leader = "reaped"
        /\ CleanAtRelease

\* Endings and signal numbers are integers.
LEMMA EndingsType == Endings \subseteq Int /\ SIGHUP \in Nat /\ SIGKILL \in Nat
                     /\ Untold \in Int /\ \A n \in Nat : -n \in Int
<1>1. SIGHUP \in Nat /\ SIGKILL \in Nat /\ Untold \in Int /\ \A n \in Nat : -n \in Int
  BY DEF SIGHUP, SIGKILL, Untold
<1>2. ASSUME NEW e \in Endings PROVE e \in Int
  <2>1. e \in ExitCodes \/ \E n \in Signals : e = 0 - n
    BY <1>2, Zenon DEF Endings
  <2>2. ExitCodes \subseteq Int /\ Signals \subseteq Nat
    BY EndingsAssumption
  <2>3. \A n \in Signals : 0 - n \in Int
    BY <2>2
  <2> QED
    BY <2>1, <2>2, <2>3
<1> QED
  BY <1>1, <1>2

\* A session that has just been given its slot satisfies the invariant.
LEMMA InitIInv == Init => IInv
<1> SUFFICES ASSUME Init PROVE IInv
  OBVIOUS
<1>1. told \in Int /\ how \in Int /\ immune \subseteq {"leader", "kid"} /\ pty \in BOOLEAN
  BY EndingsType DEF Init
<1>2. TypeOK
  BY <1>1 DEF Init, TypeOK
<1> QED
  BY <1>2 DEF Init, IInv, CleanAtRelease

\* A status is a number.
LEMMA StatusType == \A n \in Int : exitCode(n) \in Int
BY DEF exitCode

\* A signal only ever turns a running command into a zombie, a member of the group
\* into a dead one, and may free the group's number.
LEMMA SignalEffect ==
  ASSUME TypeOK, NEW sig \in Nat, SignalGroup(sig)
  PROVE  /\ leader' \in {"none", "running", "zombie", "reaped"}
         /\ leader \in {"none", "zombie", "reaped"} => leader' = leader /\ how' = how
         /\ how' \in Int
         /\ kid' \in {"none", "group", "escaped", "dead"}
         /\ pid' \in {"session", "free", "stranger"}
         /\ UNCHANGED <<mute, kidHolds, immune>>
BY DEF SignalGroup, TypeOK

\* The session's own goroutine keeps the invariant.
LEMMA RunKeeps == IInv /\ RunStep => IInv'
<1> SUFFICES ASSUME IInv, RunStep PROVE IInv'
  OBVIOUS
<1> USE EndingsType DEF IInv, TypeOK, CleanAtRelease, Tell, shared, processes
<1>1. CASE StartFails
  BY <1>1 DEF StartFails
<1>2. CASE Start
  BY <1>2 DEF Start
<1>3. CASE CopyEnds
  BY <1>3 DEF CopyEnds
<1>4. CASE JoinResizer
  BY <1>4 DEF JoinResizer
<1>5. CASE CloseMaster
  BY <1>5 DEF CloseMaster
<1>6. CASE Reap
  BY <1>6 DEF Reap
<1>7. CASE Drained
  BY <1>7 DEF Drained
<1>8. CASE MarkReaped
  BY <1>8 DEF MarkReaped
<1>9. CASE StopWatch
  BY <1>9, StatusType DEF StopWatch
<1>10. CASE JoinWatcher
  BY <1>10 DEF JoinWatcher
<1>11. CASE Release
  BY <1>11 DEF Release
<1> QED
  BY <1>1, <1>2, <1>3, <1>4, <1>5, <1>6, <1>7, <1>8, <1>9, <1>10, <1>11 DEF RunStep

\* So do the watcher of terminateOnDisconnect and its signals.
LEMMA WatcherKeeps == IInv /\ WatcherStep => IInv'
<1> SUFFICES ASSUME IInv, WatcherStep PROVE IInv'
  OBVIOUS
<1>0. TypeOK
  BY DEF IInv
<1> USE DEF IInv, TypeOK, CleanAtRelease, shared
<1>1. CASE WatcherStops
  BY <1>1 DEF WatcherStops, processes
<1>2. CASE WatcherSeesDisconnect
  BY <1>2 DEF WatcherSeesDisconnect, processes
<1>3. CASE GraceEnds
  BY <1>3 DEF GraceEnds, processes
<1>4. CASE HangUp
  <2>1. SignalGroup(SIGHUP) /\ watcher = "hangUp"
    BY <1>4 DEF HangUp
  <2>2. /\ leader' \in {"none", "running", "zombie", "reaped"}
        /\ leader \in {"none", "zombie", "reaped"} => leader' = leader /\ how' = how
        /\ how' \in Int
        /\ kid' \in {"none", "group", "escaped", "dead"}
        /\ pid' \in {"session", "free", "stranger"}
        /\ UNCHANGED <<mute, kidHolds, immune>>
    BY <1>0, <2>1, EndingsType, SignalEffect
  <2>3. UNCHANGED <<run, resizer, pty, master, reaped, done, told, gone, closed>> /\ watcher' \in {"grace", "finished"}
    BY <1>4 DEF HangUp
  <2> QED
    BY <2>1, <2>2, <2>3
<1>5. CASE Kill
  <2>1. SignalGroup(SIGKILL) /\ watcher = "kill"
    BY <1>5 DEF Kill
  <2>2. /\ leader' \in {"none", "running", "zombie", "reaped"}
        /\ leader \in {"none", "zombie", "reaped"} => leader' = leader /\ how' = how
        /\ how' \in Int
        /\ kid' \in {"none", "group", "escaped", "dead"}
        /\ pid' \in {"session", "free", "stranger"}
        /\ UNCHANGED <<mute, kidHolds, immune>>
    BY <1>0, <2>1, EndingsType, SignalEffect
  <2>3. UNCHANGED <<run, resizer, pty, master, reaped, done, told, gone, closed>> /\ watcher' \in {"grace", "finished"}
    BY <1>5 DEF Kill
  <2> QED
    BY <2>1, <2>2, <2>3
<1> QED
  BY <1>1, <1>2, <1>3, <1>4, <1>5 DEF WatcherStep

\* So do the resizer and everything outside the program.
LEMMA OthersKeep ==
  IInv /\ (ResizerStep \/ Outside) => IInv'
<1> SUFFICES ASSUME IInv, ResizerStep \/ Outside
             PROVE  IInv'
  OBVIOUS
<1> USE EndingsType DEF IInv, TypeOK, CleanAtRelease, Tell, shared, processes, goroutines
<1>1. CASE ResizeBegins
  BY <1>1 DEF ResizeBegins
<1>2. CASE ResizeEnds
  BY <1>2 DEF ResizeEnds
<1>3. CASE ResizerStops
  BY <1>3 DEF ResizerStops
<1>4. CASE Disconnect
  BY <1>4 DEF Disconnect
<1>10. CASE ChannelCloses
  BY <1>10 DEF ChannelCloses
<1>5. CASE LeaderForks
  BY <1>5 DEF LeaderForks
<1>6. CASE LeaderExits
  BY <1>6 DEF LeaderExits
<1>9. CASE LeaderMutes
  BY <1>9 DEF LeaderMutes
<1>7. ASSUME NEW k \in {"escaped", "dead"}, KidBecomes(k) PROVE IInv'
  BY <1>7 DEF KidBecomes
<1>8. CASE PidReused
  BY <1>8 DEF PidReused
<1> QED
  BY <1>1, <1>2, <1>3, <1>4, <1>5, <1>6, <1>7, <1>8, <1>9, <1>10 DEF ResizerStep, Outside

\* Every step keeps the invariant.
LEMMA StepIInv == IInv /\ [Next]_vars => IInv'
<1>1. IInv /\ UNCHANGED vars => IInv'
  BY DEF IInv, TypeOK, CleanAtRelease, vars, goroutines, shared, processes
<1> QED
  BY <1>1, RunKeeps, WatcherKeeps, OthersKeep DEF Next, Terminated

\* The invariant holds throughout.
LEMMA AlwaysIInv == Spec => []IInv
BY InitIInv, StepIInv, PTL DEF Spec

\* No window change is applied to a pty master that runWithPty has closed.
THEOREM ResizeSafe == Spec => [](TypeOK /\ NoResizeAfterClose)
<1>1. IInv => TypeOK /\ NoResizeAfterClose
  BY DEF IInv, NoResizeAfterClose
<1> QED
  BY <1>1, AlwaysIInv, PTL

\* When handleSession releases its slot the command has been reaped, the watcher and
\* the resizer have been joined and the master is closed.
THEOREM ReleaseIsClean == Spec => []CleanAtRelease
<1>1. IInv => CleanAtRelease
  BY DEF IInv
<1> QED
  BY <1>1, AlwaysIInv, PTL

\* The status part of the invariant holds at the start ...
LEMMA InitStatus == Init => StatusInv
BY DEF Init, StatusInv, Unheard

\* ... is kept by the session's own goroutine ...
LEMMA RunKeepsStatus == IInv /\ StatusInv /\ RunStep => StatusInv'
<1> SUFFICES ASSUME IInv, StatusInv, RunStep PROVE StatusInv'
  OBVIOUS
<1> USE DEF StatusInv, Unheard, IInv, TypeOK, Tell, shared, processes
<1>1. CASE StartFails
  BY <1>1 DEF StartFails
<1>2. CASE Start
  BY <1>2 DEF Start
<1>3. CASE CopyEnds
  BY <1>3 DEF CopyEnds, OutputHeld
<1>4. CASE JoinResizer
  BY <1>4 DEF JoinResizer
<1>5. CASE CloseMaster
  BY <1>5 DEF CloseMaster
<1>6. CASE Reap
  BY <1>6 DEF Reap
<1>7. CASE Drained
  BY <1>7 DEF Drained
<1>8. CASE MarkReaped
  BY <1>8 DEF MarkReaped
<1>9. CASE StopWatch
  BY <1>9 DEF StopWatch
<1>10. CASE JoinWatcher
  BY <1>10 DEF JoinWatcher
<1>11. CASE Release
  BY <1>11 DEF Release
<1> QED
  BY <1>1, <1>2, <1>3, <1>4, <1>5, <1>6, <1>7, <1>8, <1>9, <1>10, <1>11 DEF RunStep

\* ... by the watcher, which signals only when the client is gone ...
LEMMA WatcherKeepsStatus == IInv /\ StatusInv /\ WatcherStep => StatusInv'
<1> SUFFICES ASSUME IInv, StatusInv, WatcherStep PROVE StatusInv'
  OBVIOUS
<1> USE DEF StatusInv, Unheard, shared
<1>1. CASE WatcherStops
  BY <1>1 DEF WatcherStops, processes
<1>2. CASE WatcherSeesDisconnect
  BY <1>2 DEF WatcherSeesDisconnect, processes
<1>3. CASE GraceEnds
  BY <1>3 DEF GraceEnds, processes
<1>4. CASE HangUp
  BY <1>4 DEF HangUp
<1>5. CASE Kill
  BY <1>5 DEF Kill
<1> QED
  BY <1>1, <1>2, <1>3, <1>4, <1>5 DEF WatcherStep

\* ... and by everybody else.
LEMMA OthersKeepStatus == IInv /\ StatusInv /\ (ResizerStep \/ Outside) => StatusInv'
<1> SUFFICES ASSUME IInv, StatusInv, ResizerStep \/ Outside PROVE StatusInv'
  OBVIOUS
<1> USE DEF StatusInv, Unheard, IInv, TypeOK, shared, processes, goroutines
<1>1. CASE ResizerStep
  BY <1>1 DEF ResizerStep, ResizeBegins, ResizeEnds, ResizerStops
<1>2. CASE Disconnect \/ ChannelCloses
  BY <1>2 DEF Disconnect, ChannelCloses
<1>3. CASE LeaderForks
  BY <1>3 DEF LeaderForks
<1>4. CASE LeaderExits
  BY <1>4 DEF LeaderExits, CleanAtRelease
<1>5. CASE LeaderMutes
  BY <1>5 DEF LeaderMutes
<1>6. ASSUME NEW k \in {"escaped", "dead"}, KidBecomes(k) PROVE StatusInv'
  BY <1>6 DEF KidBecomes
<1>7. CASE PidReused
  BY <1>7 DEF PidReused
<1> QED
  BY <1>1, <1>2, <1>3, <1>4, <1>5, <1>6, <1>7 DEF Outside

\* A client that still has its channel at the end of its session has been told how its
\* command ended by itself, never of a signal of the server's.
THEOREM StatusIsFaithful == Spec => []StatusFaithful
<1>1. IInv /\ StatusInv /\ [Next]_vars => StatusInv'
  <2>1. StatusInv /\ UNCHANGED vars => StatusInv'
    BY DEF StatusInv, Unheard, vars, goroutines, shared, processes
  <2> QED
    BY <2>1, RunKeepsStatus, WatcherKeepsStatus, OthersKeepStatus DEF Next, Terminated
<1>2. IInv /\ StatusInv => StatusFaithful
  BY EndingsType DEF IInv, TypeOK, StatusInv, StatusFaithful, Unheard, exitCode, SIGHUP
<1> QED
  BY <1>1, <1>2, InitStatus, AlwaysIInv, PTL DEF Spec

-----------------------------------------------------------------------------
(* What is left when the watcher has done its work.                        *)

\* The kernel's number is the session's own while it has a member; a command has been
\* started before anything of it runs; and the watcher, if it ran to its end, has
\* killed what it could reach.
KillInv ==
  /\ pid # "session" => leader = "reaped" /\ kid # "group"
  /\ done => reaped
  /\ reaped => leader = "reaped"
  /\ watcher = "none" => leader = "none"
  /\ leader = "none" => watcher = "none" /\ kid = "none"
  /\ run \in {"copy", "joinResizer", "closeMaster", "reap"} => watcher # "none" /\ leader # "reaped"
  /\ run \in {"drain", "mark"} => ~reaped
  /\ run \in {"exit", "joinWatcher"} => reaped
  /\ run = "joinWatcher" => done /\ watcher # "none"
  /\ run \in {"copy", "joinResizer"} => resizer # "none"
  /\ watcher = "finished" /\ ~reaped => leader # "running" /\ kid # "group"

\* Once terminateOnDisconnect has sent its last signal, nothing that can be reached
\* keeps the session: the output is held, if at all, by a descendant that left the
\* process group, the command can be collected, and the goroutines that are joined
\* have been told to stop.
NothingHoldsSession ==
  /\ watcher = "finished" /\ run \in {"copy", "drain"} /\ OutputHeld => EscapedHolder
  /\ watcher = "finished" /\ run = "reap" => leader = "zombie"
  /\ run = "joinWatcher" => watcher # "none" /\ done
  /\ run = "joinResizer" => resizer \in {"select", "resizing", "done"}

\* Nothing runs at the start.
LEMMA InitKill == Init => KillInv
BY DEF Init, KillInv

\* The session's own goroutine marks the command as reaped only after collecting it,
\* and stops the watcher only after marking it.
LEMMA RunKeepsKill == IInv /\ KillInv /\ RunStep => KillInv'
<1> SUFFICES ASSUME IInv, KillInv, RunStep PROVE KillInv'
  OBVIOUS
<1> USE DEF KillInv, IInv, TypeOK, goroutines, shared, processes, PidFreed
<1>1. CASE StartFails
  BY <1>1 DEF StartFails
<1>2. CASE Start
  BY <1>2 DEF Start
<1>3. CASE CopyEnds
  BY <1>3 DEF CopyEnds
<1>4. CASE JoinResizer
  BY <1>4 DEF JoinResizer
<1>5. CASE CloseMaster
  BY <1>5 DEF CloseMaster
<1>6. CASE Reap
  BY <1>6 DEF Reap
<1>7. CASE Drained
  BY <1>7 DEF Drained
<1>8. CASE MarkReaped
  BY <1>8 DEF MarkReaped
<1>9. CASE StopWatch
  BY <1>9 DEF StopWatch
<1>10. CASE JoinWatcher
  BY <1>10 DEF JoinWatcher
<1>11. CASE Release
  BY <1>11 DEF Release
<1> QED
  BY <1>1, <1>2, <1>3, <1>4, <1>5, <1>6, <1>7, <1>8, <1>9, <1>10, <1>11 DEF RunStep

\* The last signal of the watcher cannot be ignored, and it comes while the number is
\* the session's own or nothing is left that it stands for.
LEMMA WatcherKeepsKill == IInv /\ KillInv /\ WatcherStep => KillInv'
<1> SUFFICES ASSUME IInv, KillInv, WatcherStep PROVE KillInv'
  OBVIOUS
<1> USE DEF KillInv, IInv, TypeOK, goroutines, shared, processes, PidFreed
<1>1. CASE WatcherStops
  BY <1>1 DEF WatcherStops
<1>2. CASE WatcherSeesDisconnect
  BY <1>2 DEF WatcherSeesDisconnect
<1>3. CASE GraceEnds
  BY <1>3 DEF GraceEnds
<1>4. CASE HangUp
  BY <1>4 DEF HangUp, SignalGroup
<1>5. CASE Kill
  BY <1>5 DEF Kill, SignalGroup, SIGKILL
<1> QED
  BY <1>1, <1>2, <1>3, <1>4, <1>5 DEF WatcherStep

\* A process that is not running starts no other.
LEMMA OthersKeepKill == IInv /\ KillInv /\ (ResizerStep \/ Outside) => KillInv'
<1> SUFFICES ASSUME IInv, KillInv, ResizerStep \/ Outside PROVE KillInv'
  OBVIOUS
<1> USE DEF KillInv, IInv, TypeOK, goroutines, shared, processes, PidFreed
<1>1. CASE ResizeBegins
  BY <1>1 DEF ResizeBegins
<1>2. CASE ResizeEnds
  BY <1>2 DEF ResizeEnds
<1>3. CASE ResizerStops
  BY <1>3 DEF ResizerStops
<1>4. CASE Disconnect
  BY <1>4 DEF Disconnect
<1>10. CASE ChannelCloses
  BY <1>10 DEF ChannelCloses
<1>5. CASE LeaderForks
  BY <1>5 DEF LeaderForks
<1>6. CASE LeaderExits
  BY <1>6 DEF LeaderExits
<1>7. CASE LeaderMutes
  BY <1>7 DEF LeaderMutes
<1>8. CASE PidReused
  BY <1>8 DEF PidReused
<1>9. ASSUME NEW k \in {"escaped", "dead"}, KidBecomes(k) PROVE KillInv'
  BY <1>9 DEF KidBecomes
<1> QED
  BY <1>1, <1>2, <1>3, <1>4, <1>5, <1>6, <1>7, <1>8, <1>9, <1>10 DEF ResizerStep, Outside

\* A session whose client has gone is held by nothing but a descendant out of the
\* signals' reach: every other wait of its goroutine is over, or about to be, when
\* terminateOnDisconnect has finished.
THEOREM OnlyEscapedHolds == Spec => []NothingHoldsSession
<1>1. IInv /\ KillInv /\ [Next]_vars => KillInv'
  <2>1. KillInv /\ UNCHANGED vars => KillInv'
    BY DEF KillInv, vars, goroutines, shared, processes
  <2> QED
    BY <2>1, RunKeepsKill, WatcherKeepsKill, OthersKeepKill DEF Next, Terminated
<1>2. IInv /\ KillInv => NothingHoldsSession
  BY DEF IInv, TypeOK, KillInv, NothingHoldsSession, OutputHeld, KidAlive, EscapedHolder
<1> QED
  BY <1>1, <1>2, InitKill, AlwaysIInv, PTL DEF Spec
=============================================================================
