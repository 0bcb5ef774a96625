----------------------------- MODULE ProxyServer -----------------------------
(***************************************************************************)
(* The life of a ws-proxy process: main (cmd/ws-proxy/main.go) starts      *)
(* ListenAndServe in a goroutine, waits for SIGTERM or for its error, and  *)
(* shuts the server down; internal/proxy/server.go drives the target       *)
(* prober (TargetProber, extended here) and the HTTP server, which serves  *)
(* the health endpoints and the tunnels.  net/http is modelled from its    *)
(* use: Shutdown closes the listener and waits for connections in a        *)
(* request, but no longer knows of those a handler took over (hijacked)    *)
(* for a WebSocket.                                                        *)
(***************************************************************************)
EXTENDS TargetProber

CONSTANTS Conns,      \* connections clients may open
          Serve,      \* the goroutine that runs ListenAndServe
          Main        \* the main goroutine, which runs Shutdown

ASSUME RolesAssumption == Starters = {Serve} /\ Stoppers = {Main}

VARIABLES signalled,  \* SIGTERM or SIGINT has arrived: ctx.Done() in main
          main,       \* where main is
          http,       \* where the goroutine running httpServer.ListenAndServe is
          inShutdown, \* http.Server.inShutdown
          errCh,      \* main's errCh: "empty", "error" or "closed"
          exit,       \* how the process ended: "success" is status 0, "failure" 1
          conn        \* conn[k]: what connection k is doing

server == <<signalled, main, http, inShutdown, errCh, exit, conn>>
allVars == <<vars, server>>
Listening == http = "serving"
Running == exit = "none"

\* Connections net/http still knows of and Shutdown waits for.
InRequest == {k \in Conns : conn[k] = "request"}

-----------------------------------------------------------------------------
(* The end of main ends every goroutine and cuts what is still connected.   *)

Exits(status) == /\ exit' = status
                 /\ main' = "exit"
                 /\ conn' = [k \in Conns |-> IF conn[k] = "request" THEN "cutRequest"
                                             ELSE IF conn[k] = "hijacked" THEN "cutSession"
                                             ELSE conn[k]]

(* Faulty variants.                                                         *)

\* http.Server.Close in place of Shutdown: requests are not waited for.
ShutdownWithoutWait == /\ main = "drain"
                       /\ Exits("success")
                       /\ UNCHANGED <<vars, signalled, http, inShutdown, errCh>>

\* An error of the listener ignored: errCh is closed without a value.
ServeErrorIgnored == /\ http \in {"failed", "closed"}
                     /\ http' = "returned"
                     /\ errCh' = "closed"
                     /\ UNCHANGED <<vars, signalled, main, inShutdown, exit, conn>>

\* Shutdown given a context without a deadline.
NoDeadline == FALSE /\ UNCHANGED allVars

-----------------------------------------------------------------------------
ServerInit == /\ Init
              /\ signalled = FALSE /\ main = "select"
              /\ http = "prober" /\ inShutdown = FALSE
              /\ errCh = "empty" /\ exit = "none"
              /\ conn = [k \in Conns |-> "none"]

(* ListenAndServe: startTargetProber, then the HTTP server.                 *)

StartProber == (StartLocked(Serve) \/ Spawn(Serve)) /\ UNCHANGED server

\* net/http refuses to serve once Shutdown was called; the bind may fail.
Listen == /\ http = "prober" /\ pc[Serve] = "returned"
          /\ http' \in IF inShutdown THEN {"closed"} ELSE {"serving", "failed"}
          /\ UNCHANGED <<vars, signalled, main, inShutdown, errCh, exit, conn>>

\* Accept fails for good while the server is not shutting down.
AcceptFails == /\ Listening
               /\ http' = "failed"
               /\ UNCHANGED <<vars, signalled, main, inShutdown, errCh, exit, conn>>

\* main's goroutine: an error goes to errCh, http.ErrServerClosed only closes it.
ServeReturns == /\ http \in {"failed", "closed"}
                /\ http' = "returned"
                /\ errCh' = IF http = "failed" THEN "error" ELSE "closed"
                /\ UNCHANGED <<vars, signalled, main, inShutdown, exit, conn>>

(* Connections.                                                             *)

\* A new connection is accepted, or an idle one carries its next request.
Request(k) == /\ conn[k] = "idle" \/ (conn[k] = "none" /\ Listening)
              /\ conn' = [conn EXCEPT ![k] = "request"]
              /\ UNCHANGED <<vars, signalled, main, http, inShutdown, errCh, exit>>

\* handleHealth and handleTargetHealth, which only read, /metrics, and a refused or
\* failed upgrade.  net/http then keeps the connection, or closes it when shutting down.
Answer(k) == /\ conn[k] = "request"
             /\ conn' = [conn EXCEPT ![k] = IF inShutdown THEN "gone" ELSE "idle"]
             /\ UNCHANGED <<vars, signalled, main, http, inShutdown, errCh, exit>>

\* handleWebSocket: the upgrade hijacks the connection.
Upgrade(k) == /\ conn[k] = "request" /\ conn' = [conn EXCEPT ![k] = "hijacked"]
              /\ UNCHANGED <<vars, signalled, main, http, inShutdown, errCh, exit>>

\* The session of k ends (ProxySession), or the client closes an idle connection.
ConnEnds(k) == /\ conn[k] \in {"hijacked", "idle"} /\ conn' = [conn EXCEPT ![k] = "gone"]
               /\ UNCHANGED <<vars, signalled, main, http, inShutdown, errCh, exit>>

(* main.                                                                    *)

Signal == /\ ~signalled /\ signalled' = TRUE
          /\ UNCHANGED <<vars, main, http, inShutdown, errCh, exit, conn>>

\* select takes either case that is ready.
SelectDone == /\ main = "select" /\ signalled
              /\ main' = "stop"
              /\ UNCHANGED <<vars, signalled, http, inShutdown, errCh, exit, conn>>

SelectErr == /\ main = "select" /\ errCh # "empty"
             /\ Exits(IF errCh = "error" THEN "failure" ELSE "success")
             /\ UNCHANGED <<vars, signalled, http, inShutdown, errCh>>

\* Server.Shutdown: stopTargetProber runs to its end, then http.Server.Shutdown
\* closes the listener and the idle connections.
StopProber == /\ main = "stop"
              /\ StopLocked(Main) \/ StopCancels(Main) \/ StopWaits(Main)
              /\ UNCHANGED server

CallShutdown == /\ main = "stop" /\ pc[Main] = "returned"
                /\ main' = "drain"
                /\ inShutdown' = TRUE
                /\ http' = IF Listening THEN "closed" ELSE http
                /\ conn' = [k \in Conns |-> IF conn[k] = "idle" THEN "gone" ELSE conn[k]]
                /\ UNCHANGED <<vars, signalled, errCh, exit>>

ShutdownReturns == /\ main = "drain" /\ InRequest = {}
                   /\ Exits("success")
                   /\ UNCHANGED <<vars, signalled, http, inShutdown, errCh>>

\* The 30 seconds of shutdownCtx are over; the library looks at its connections only
\* now and then, so it may report this although the last request has ended.
ShutdownTimesOut == /\ main = "drain"
                    /\ Exits("failure")
                    /\ UNCHANGED <<vars, signalled, http, inShutdown, errCh>>

ProberStep == (ProberWork \/ Tick \/ SeesDone) /\ UNCHANGED server

ConnStep(k) == Request(k) \/ Answer(k) \/ Upgrade(k) \/ ConnEnds(k)
ServeStep == StartProber \/ Listen \/ ServeReturns
MainStep == SelectDone \/ SelectErr \/ StopProber \/ CallShutdown \/ ShutdownReturns \/ ShutdownTimesOut

ServerNext ==
  \/ Running /\ ((\E k \in Conns : ConnStep(k)) \/ ServeStep \/ AcceptFails \/ Signal \/ MainStep \/ ProberStep)
  \/ ~Running /\ UNCHANGED allVars

\* Fairness: goroutines are scheduled, a probe and a shutdown end at their
\* deadlines, and select does not overlook a cancelled context for ever.  Nothing
\* is asked of the clients.
ServerSpec == /\ ServerInit /\ [][ServerNext]_allVars
              /\ WF_allVars(Running /\ ServeStep)
              /\ WF_allVars(Running /\ MainStep)
              /\ WF_allVars(Running /\ ProberWork /\ UNCHANGED server)
              /\ SF_allVars(Running /\ SeesDone /\ UNCHANGED server)

-----------------------------------------------------------------------------
ServerTypeOK == /\ TypeOK
                /\ signalled \in BOOLEAN /\ inShutdown \in BOOLEAN
                /\ main \in {"select", "stop", "drain", "exit"}
                /\ http \in {"prober", "serving", "failed", "closed", "returned"}
                /\ errCh \in {"empty", "error", "closed"}
                /\ exit \in {"none", "success", "failure"}
                /\ conn \in [Conns -> {"none", "request", "idle", "hijacked", "gone",
                                       "cutRequest", "cutSession"}]

\* A process that stops with status 0 left no HTTP request unanswered, whenever the
\* signal came: Shutdown waits for them.  It does not wait for sessions, whose
\* connections the HTTP server gave up.
RequestsAnswered == exit = "success" => \A k \in Conns : conn[k] # "cutRequest"

\* Status 0 means that the process was told to stop and that Shutdown has run and the
\* listener is closed: as long as no signal has come, a server that could not listen or
\* stopped accepting by itself ends with status 1.  Once one has come, main's select
\* may take it in place of an error that is waiting in errCh, which then goes
\* unreported.
UnaskedExitIsError == exit = "success" => signalled /\ inShutdown /\ ~Listening

\* SIGTERM ends the process, whatever the clients, the target and the prober are
\* doing when it comes and wherever ListenAndServe is; and so does a listener that
\* fails, without waiting for a signal.
ProcessEnds == []<>(signalled \/ http = "failed" \/ errCh = "error" => ~Running)
==============================================================================
