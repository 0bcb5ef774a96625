------------------------------ MODULE SSHServer ------------------------------
(***************************************************************************)
(* The life of a remote-access-server process: main (cmd/remote-access-    *)
(* server/main.go) runs ListenAndServe in a goroutine, waits for SIGTERM   *)
(* or for its error, and drains the server with a deadline                 *)
(* (internal/sshserver/server.go, Shutdown); meanwhile clients connect,    *)
(* open session channels (SSHAdmission, extended here) and SFTP channels   *)
(* on their connections, and go away.  gliderlabs/ssh is modelled from its *)
(* use: it knows a connection once its handshake is over, waits in         *)
(* Shutdown for the connections it knows, not for their handlers, and      *)
(* closes them in Close.                                                   *)
(***************************************************************************)
EXTENDS SSHAdmission

CONSTANT Clients  \* client connections

VARIABLES signalled, \* SIGTERM or SIGINT has arrived: ctx.Done() in main
          main,      \* where main is
          serve,     \* where the goroutine running ListenAndServe is
          errCh,     \* main's errCh: "empty", "error" or "closed" (ErrServerClosed)
          exit,      \* how the process ended: "success" is status 0, "failure" 1
          client,    \* client[k]: the connection as the server sees it
          sftp,      \* sftp[k]: an SFTP server runs on connection k
          command,   \* command[c]: the process group of channel c
          on,        \* on[c]: the connection channel c was opened on
          overtime   \* the drain deadline has passed

server == <<signalled, main, serve, errCh, exit, client, sftp, command, on, overtime>>
allVars == <<vars, server>>
Running == exit = "none"

\* Connections Shutdown waits for and Close closes; a "late" one finished its
\* handshake after Shutdown was called.
Tracked == {k \in Clients : client[k] \in {"open", "late"}}

\* The end of main ends every goroutine and cuts what is still connected.  The
\* processes of the sessions are not part of this process and stay as they are.
Exits(status) ==
  /\ main' = "exit" /\ exit' = status
  /\ client' = [k \in Clients |-> IF client[k] = "open" THEN "cut"
                                  ELSE IF client[k] \in {"late", "handshake"} THEN "cutLate"
                                  ELSE client[k]]
  /\ UNCHANGED <<vars, signalled, serve, errCh, sftp, command, on, overtime>>

-----------------------------------------------------------------------------
(* Faulty variants.                                                         *)

\* Close in place of Shutdown: the connections are severed at once.
ShutdownCloses == /\ main = "select" /\ signalled
                  /\ main' = "close"
                  /\ serve' = IF serve = "serving" THEN "closed" ELSE serve
                  /\ UNCHANGED <<vars, signalled, errCh, exit, client, sftp, command, on, overtime>>

\* Shutdown returns the deadline's error without closing what is left.
DeadlineFails == /\ main = "drain"
                 /\ overtime' = TRUE
                 /\ main' = "closed"
                 /\ UNCHANGED <<vars, signalled, serve, errCh, exit, client, sftp, command, on>>

\* Shutdown called with a context that has no deadline.
NoDeadline == FALSE /\ UNCHANGED allVars

\* The error of ListenAndServe not looked at.
SelectErrIgnored == /\ main = "select" /\ errCh # "empty"
                    /\ Exits("success")

-----------------------------------------------------------------------------
ServerInit == /\ Init
              /\ signalled = FALSE /\ main = "select" /\ serve = "start"
              /\ errCh = "empty" /\ exit = "none" /\ overtime = FALSE
              /\ client = [k \in Clients |-> "none"]
              /\ sftp = [k \in Clients |-> FALSE]
              /\ command = [c \in Channels |-> "none"]
              /\ on = [c \in Channels |-> "none"]

(* ListenAndServe, and main's goroutine around it.                          *)

\* The bind may fail.  The library does not refuse to serve after a Shutdown.
Listen == /\ serve = "start"
          /\ serve' \in {"serving", "failed"}
          /\ UNCHANGED <<vars, signalled, main, errCh, exit, client, sftp, command, on, overtime>>

AcceptFails == /\ serve = "serving"
               /\ serve' = "failed"
               /\ UNCHANGED <<vars, signalled, main, errCh, exit, client, sftp, command, on, overtime>>

ServeReturns == /\ serve \in {"failed", "closed"}
                /\ serve' = "returned"
                /\ errCh' = IF serve = "failed" THEN "error" ELSE "closed"
                /\ UNCHANGED <<vars, signalled, main, exit, client, sftp, command, on, overtime>>

(* Clients and their channels.                                              *)

Connect(k) == /\ serve = "serving" /\ client[k] = "none"
              /\ client' = [client EXCEPT ![k] = "handshake"]
              /\ UNCHANGED <<vars, signalled, main, serve, errCh, exit, sftp, command, on, overtime>>

Established(k) ==
  /\ client[k] = "handshake"
  /\ client' = [client EXCEPT ![k] = IF main = "select" THEN "open" ELSE "late"]
  /\ UNCHANGED <<vars, signalled, main, serve, errCh, exit, sftp, command, on, overtime>>

\* The client goes away, or its tunnel does, or it was idle for IdleTimeout: the
\* connection's context is cancelled and an SFTP server sees the end of its input.
ClientLeaves(k) ==
  /\ client[k] \in {"handshake", "open", "late"}
  /\ client' = [client EXCEPT ![k] = "gone"]
  /\ sftp' = [sftp EXCEPT ![k] = FALSE]
  /\ UNCHANGED <<vars, signalled, main, serve, errCh, exit, command, on, overtime>>

\* handleSFTP takes no session slot; it may fail to start, and ends with its input.
OpenSFTP(k) == /\ k \in Tracked /\ ~sftp[k]
               /\ sftp' = [sftp EXCEPT ![k] = TRUE]
               /\ UNCHANGED <<vars, signalled, main, serve, errCh, exit, client, command, on, overtime>>

SFTPEnds(k) == /\ sftp[k]
               /\ sftp' = [sftp EXCEPT ![k] = FALSE]
               /\ UNCHANGED <<vars, signalled, main, serve, errCh, exit, client, command, on, overtime>>

\* handleSession claims a slot and starts the command; a drain does not refuse it.
OpenSession(c) ==
  /\ \E k \in Tracked : on' = [on EXCEPT ![c] = k]
  /\ Acquire(c)
  /\ command' = [command EXCEPT ![c] = IF pc'[c] = "running" THEN "alive" ELSE "none"]
  /\ UNCHANGED <<signalled, main, serve, errCh, exit, client, sftp, overtime>>

\* The command ends by itself, or was not started at all.
CommandEnds(c) ==
  /\ command[c] = "alive" /\ command' = [command EXCEPT ![c] = "none"]
  /\ UNCHANGED <<vars, signalled, main, serve, errCh, exit, client, sftp, on, overtime>>

\* terminateOnDisconnect: SIGHUP when the connection's context is done, which a
\* command may outlive; SIGKILL when killGracePeriod is over.
HangUp(c) ==
  /\ command[c] = "alive" /\ on[c] \notin Tracked
  /\ \E left \in {"none", "ignoresHUP"} : command' = [command EXCEPT ![c] = left]
  /\ UNCHANGED <<vars, signalled, main, serve, errCh, exit, client, sftp, on, overtime>>

KillAfterGrace(c) ==
  /\ command[c] = "ignoresHUP" /\ command' = [command EXCEPT ![c] = "none"]
  /\ UNCHANGED <<vars, signalled, main, serve, errCh, exit, client, sftp, on, overtime>>

HandlerStep(c) == /\ BackOut(c) \/ (Finish(c) /\ command[c] = "none")
                  /\ UNCHANGED server

HandlerReturns(c) ==
  /\ Refuse(c) \/ Release(c)
  /\ on' = [on EXCEPT ![c] = "none"]
  /\ UNCHANGED <<signalled, main, serve, errCh, exit, client, sftp, command, overtime>>

(* main and Shutdown.                                                       *)

Signal == /\ ~signalled /\ signalled' = TRUE
          /\ UNCHANGED <<vars, main, serve, errCh, exit, client, sftp, command, on, overtime>>

SelectErr == /\ main = "select" /\ errCh # "empty"
             /\ Exits(IF errCh = "error" THEN "failure" ELSE "success")

\* ssh.Shutdown closes the listener first.
SelectDone == /\ main = "select" /\ signalled
              /\ main' = "drain"
              /\ serve' = IF serve = "serving" THEN "closed" ELSE serve
              /\ UNCHANGED <<vars, signalled, errCh, exit, client, sftp, command, on, overtime>>

\* It returns when no listener and no connection is left; closing the listener may
\* have failed.
DrainEnds == /\ main = "drain" /\ Tracked = {} /\ serve # "serving"
             /\ \E status \in {"success", "failure"} : Exits(status)

\* shutdownDrainTimeout is over: ssh.Close follows.
DeadlinePasses == /\ main = "drain"
                  /\ overtime' = TRUE
                  /\ main' = "close"
                  /\ UNCHANGED <<vars, signalled, serve, errCh, exit, client, sftp, command, on>>

Close == /\ main = "close"
         /\ main' = "closed"
         /\ serve' = IF serve = "serving" THEN "closed" ELSE serve
         /\ client' = [k \in Clients |-> IF k \in Tracked THEN "severed" ELSE client[k]]
         /\ sftp' = [k \in Clients |-> sftp[k] /\ k \notin Tracked]
         /\ UNCHANGED <<vars, signalled, errCh, exit, command, on, overtime>>

CloseReturns == /\ main = "closed"
                /\ \E status \in {"success", "failure"} : Exits(status)

ClientStep(k) == Connect(k) \/ Established(k) \/ ClientLeaves(k) \/ OpenSFTP(k) \/ SFTPEnds(k)
ChannelStep(c) == OpenSession(c) \/ CommandEnds(c) \/ HangUp(c) \/ KillAfterGrace(c)
                  \/ HandlerStep(c) \/ HandlerReturns(c)
ServeStep == Listen \/ ServeReturns
MainStep == SelectErr \/ SelectDone \/ DrainEnds \/ DeadlinePasses \/ Close \/ CloseReturns

ServerNext ==
  \/ Running /\ \/ \E k \in Clients : ClientStep(k)
                \/ \E c \in Channels : ChannelStep(c)
                \/ ServeStep \/ AcceptFails \/ Signal \/ MainStep
  \/ ~Running /\ UNCHANGED allVars

\* Fairness: the goroutines of main are scheduled and the drain deadline passes.
\* Nothing is asked of the clients and of their commands.
ServerSpec == /\ ServerInit /\ [][ServerNext]_allVars
              /\ WF_allVars(Running /\ ServeStep)
              /\ WF_allVars(Running /\ MainStep)

-----------------------------------------------------------------------------
ServerTypeOK == /\ TypeOK
                /\ signalled \in BOOLEAN /\ overtime \in BOOLEAN
                /\ main \in {"select", "drain", "close", "closed", "exit"}
                /\ serve \in {"start", "serving", "failed", "closed", "returned"}
                /\ errCh \in {"empty", "error", "closed"}
                /\ exit \in {"none", "success", "failure"}
                /\ client \in [Clients -> {"none", "handshake", "open", "late", "gone",
                                           "severed", "cut", "cutLate"}]
                /\ sftp \in [Clients -> BOOLEAN]
                /\ command \in [Channels -> {"none", "alive", "ignoresHUP"}]
                /\ on \in [Channels -> Clients \cup {"none"}]

\* A drain gives every client that was connected when it began until the deadline:
\* the server severs none before, and the process does not end under one of them
\* unless its listener failed.  (A client still in its handshake is not known to the
\* library and may be cut.)
DrainSpares == \A k \in Clients : /\ client[k] = "severed" => overtime
                                  /\ client[k] = "cut" => errCh = "error"

\* Status 0 means that the process was told to stop.
UnaskedExitIsError == exit = "success" => signalled

\* SIGTERM ends the process although clients linger and keep opening sessions, and
\* so does a listener that fails.
ProcessEnds == []<>(signalled \/ serve = "failed" \/ errCh = "error" => ~Running)
==============================================================================
