------------------------- MODULE ProxyServerProofs --------------------------
(***************************************************************************)
(* The safety of the target prober, for any number of callers of its start *)
(* and its stop, and of the process that drives it, for any number of      *)
(* connections.                                                            *)
(***************************************************************************)
EXTENDS ProxyServer, TLAPS

-----------------------------------------------------------------------------
(* The prober.                                                              *)

\* Where only a stop can be.
Stopping == {"cancelAndWait", "cancelOnly", "wait"}

\* Stops are in their part of the code only after the flag is set, and the context is
\* cancelled only by one of them.
StopFlag == /\ \A g \in Callers : pc[g] \in Stopping => g \in Stoppers /\ proberStopped
            /\ ctxDone => proberStopped
            /\ probe = "cancelled" => ctxDone

\* The channel tells whether a goroutine is running or about to be started, and there
\* is one such start at most.
OneProber == /\ proberDone = "nil" => prober = "none"
             /\ proberDone = "open" => prober # "done"
             /\ proberDone = "closed" => prober = "done"
             /\ \A g \in Callers : pc[g] = "spawn" => proberDone = "open" /\ prober = "none"
             /\ \A g, h \in Callers : pc[g] = "spawn" /\ pc[h] = "spawn" => g = h

\* A stop that found a prober stays until the channel is closed.
StopStays == proberStopped /\ proberDone = "open" =>
               \E g \in Stoppers : pc[g] \in {"cancelAndWait", "wait"}

\* Between its two writes a probe that counts is half reported.
Reporting == /\ prober \in {"record", "gauge"} => probe # "cancelled"
             /\ prober = "gauge" => health = (IF probe = "ok" THEN "reachable" ELSE "unreachable")
             /\ GaugeAgrees

ProberInv == TypeOK /\ StopFlag /\ OneProber /\ StopStays /\ Reporting

\* Nothing is started or recorded at first.
LEMMA ProberStarts == Init => ProberInv
BY CallersAssumption DEF Init, ProberInv, TypeOK, StopFlag, Stopping, OneProber, StopStays,
                         Reporting, GaugeAgrees, Callers

\* Starting keeps it: the flag and the channel are tested under the lock.
LEMMA StartKeeps ==
  ASSUME ProberInv, NEW g \in Callers, StartLocked(g) \/ Spawn(g)
  PROVE  ProberInv'
<1> USE DEF ProberInv, result
<1>1. CASE StartLocked(g)
  <2>1. \A h \in Callers : pc'[h] = IF h = g THEN pc'[g] ELSE pc[h]
        BY <1>1 DEF StartLocked, Goto, TypeOK
  <2>2. /\ pc[g] = "enter" /\ g \in Starters
        /\ \/ pc'[g] = "returned" /\ proberDone' = proberDone
           \/ pc'[g] = "spawn" /\ ~proberStopped /\ proberDone = "nil" /\ proberDone' = "open"
        /\ UNCHANGED <<proberStopped, ctxDone, prober, probe, health, gauge>>
        BY <1>1 DEF StartLocked, Goto, TypeOK
  <2>3. TypeOK'
        BY <1>1, <2>2 DEF StartLocked, Goto, TypeOK
  <2>4. StopFlag'
        BY <2>1, <2>2 DEF StopFlag, Stopping, TypeOK
  <2>5. OneProber'
        BY <2>1, <2>2 DEF OneProber, TypeOK
  <2>6. StopStays'
        BY <2>1, <2>2, CallersAssumption DEF StopStays, Callers
  <2>7. Reporting'
        BY <2>2 DEF Reporting, GaugeAgrees
  <2> QED BY <2>3, <2>4, <2>5, <2>6, <2>7
<1>2. CASE Spawn(g)
  <2>1. \A h \in Callers : pc'[h] = IF h = g THEN "returned" ELSE pc[h]
        BY <1>2 DEF Spawn, Goto, TypeOK
  <2>2. /\ pc[g] = "spawn" /\ prober' = "probe"
        /\ UNCHANGED <<proberStopped, proberDone, ctxDone, probe, health, gauge>>
        BY <1>2 DEF Spawn, Goto
  <2>3. TypeOK'
        BY <1>2, <2>2 DEF Spawn, Goto, TypeOK
  <2>4. StopFlag'
        BY <2>1, <2>2 DEF StopFlag, Stopping
  <2>5. OneProber'
        BY <2>1, <2>2 DEF OneProber, TypeOK
  <2>6. StopStays'
        BY <2>1, <2>2 DEF StopStays, Callers
  <2>7. Reporting'
        BY <2>2 DEF Reporting, GaugeAgrees, OneProber
  <2> QED BY <2>3, <2>4, <2>5, <2>6, <2>7
<1> QED BY <1>1, <1>2

\* So does stopping: the first stop that finds a prober waits for its end.
LEMMA StopKeeps ==
  ASSUME ProberInv, NEW g \in Callers, StopLocked(g) \/ StopCancels(g) \/ StopWaits(g)
  PROVE  ProberInv'
<1> USE DEF ProberInv, result
<1>1. /\ \A h \in Callers : pc'[h] = IF h = g THEN pc'[g] ELSE pc[h]
      /\ pc'[g] \in Stopping \cup {"returned"} /\ pc' \in [Callers -> Stopping \cup {"enter", "spawn", "returned"}]
      BY DEF StopLocked, StopCancels, StopWaits, Goto, TypeOK, Stopping
<1>2. UNCHANGED <<proberDone, prober, probe, health, gauge>>
      BY DEF StopLocked, StopCancels, StopWaits
<1>3. g \in Stoppers
      BY DEF StopLocked, StopCancels, StopWaits, Goto, StopFlag, Stopping
<1>4. /\ proberStopped' = TRUE /\ ctxDone' \in BOOLEAN /\ (ctxDone => ctxDone')
      BY DEF StopLocked, StopCancels, StopWaits, Goto, StopFlag, Stopping, TypeOK
<1>5. TypeOK'
      BY <1>1, <1>2, <1>4 DEF TypeOK, Stopping
<1>6. StopFlag'
      BY <1>1, <1>2, <1>3, <1>4 DEF StopFlag
<1>7. OneProber'
      BY <1>1, <1>2 DEF OneProber, Stopping
<1>8. StopStays'
  <2> SUFFICES ASSUME proberDone = "open"
               PROVE  \E h \in Stoppers : pc'[h] \in {"cancelAndWait", "wait"}
      BY <1>2 DEF StopStays
  <2>1. CASE proberStopped
    <3>1. PICK h \in Stoppers : pc[h] \in {"cancelAndWait", "wait"}
          BY <2>1 DEF StopStays
    <3>2. h = g => pc'[g] = "wait"
          BY <3>1, <1>3 DEF StopLocked, StopCancels, StopWaits, Goto, TypeOK
    <3> QED BY <3>1, <3>2, <1>1 DEF Callers
  <2>2. CASE ~proberStopped
    <3>1. StopLocked(g)
          BY <2>2 DEF StopCancels, StopWaits, Goto, StopFlag, Stopping
    <3>2. pc'[g] = "cancelAndWait"
          BY <3>1, <2>2 DEF StopLocked, Goto, TypeOK
    <3> QED BY <3>2, <1>3
  <2> QED BY <2>1, <2>2
<1>9. Reporting'
      BY <1>2 DEF Reporting, GaugeAgrees
<1> QED BY <1>5, <1>6, <1>7, <1>8, <1>9

\* So does the goroutine: only a cancelled context keeps a probe from its report.
LEMMA WorkKeeps == ProberInv /\ (ProberWork \/ Tick \/ SeesDone) => ProberInv'
<1> SUFFICES ASSUME ProberInv, ProberWork \/ Tick \/ SeesDone PROVE ProberInv'
    OBVIOUS
<1> USE DEF ProberInv, result, ProberWork
<1>1. UNCHANGED <<pc, proberStopped, ctxDone>>
      BY DEF Probe, Check, Record, SetGauge, Tick, SeesDone
<1>2. TypeOK'
      BY DEF Probe, Check, Record, SetGauge, Tick, SeesDone, Move, TypeOK
<1>3. StopFlag'
      BY <1>1 DEF Probe, Check, Record, SetGauge, Tick, SeesDone, StopFlag, TypeOK
<1>4. OneProber'
      BY <1>1 DEF Probe, Check, Record, SetGauge, Tick, SeesDone, Move, OneProber, TypeOK
<1>5. StopStays'
      BY <1>1 DEF Probe, Check, Record, SetGauge, Tick, SeesDone, StopStays
<1>6. Reporting'
      BY DEF Probe, Check, Record, SetGauge, Tick, SeesDone, Move, Reporting, GaugeAgrees,
             StopFlag, TypeOK
<1> QED BY <1>2, <1>3, <1>4, <1>5, <1>6

\* Every step of the prober and its callers keeps the invariant.
LEMMA ProberKeeps == ProberInv /\ [Next]_vars => ProberInv'
<1>1. ProberInv /\ UNCHANGED vars => ProberInv'
      BY DEF ProberInv, TypeOK, StopFlag, OneProber, StopStays, Reporting, GaugeAgrees, vars
<1> QED BY <1>1, StartKeeps, StopKeeps, WorkKeeps DEF Next, CallerStep, Terminated

\* Once a stop has returned nothing probes: the stop that found a prober would be
\* waiting still.
LEMMA StoppedIsQuiet == ProberInv => NothingProbesAfterStop
BY DEF ProberInv, StopFlag, OneProber, StopStays, NothingProbesAfterStop, Stopped, TypeOK,
       Callers

\* A step that changes the report finds a probe that was not cancelled.
LEMMA ReportIsGenuine ==
  ProberInv /\ [Next]_vars => [health' # health \/ gauge' # gauge => probe # "cancelled"]_vars
BY DEF ProberInv, Reporting, Next, CallerStep, StartLocked, Spawn, StopLocked, StopCancels,
       StopWaits, ProberWork, Probe, Check, Record, SetGauge, Tick, SeesDone, Terminated,
       Move, vars, result

-----------------------------------------------------------------------------
(* The process.                                                             *)

\* Shutdown is called only on a signal, nothing is cut while the process runs, and the
\* HTTP server is closed by Shutdown and only by it.
Orderly == /\ main \in {"stop", "drain"} => signalled
           /\ inShutdown => main \in {"drain", "exit"} /\ ~Listening
           /\ main = "drain" => inShutdown
           /\ http = "closed" \/ errCh = "closed" => inShutdown
           /\ main = "exit" <=> ~Running
           /\ Running => \A k \in Conns : conn[k] # "cutRequest"

ServerInv == ServerTypeOK /\ Orderly /\ UnaskedExitIsError /\ RequestsAnswered

\* The process starts with nothing done.
LEMMA ServerStarts == ServerInit /\ TypeOK => ServerInv
BY DEF ServerInit, ServerInv, ServerTypeOK, Orderly, Running, UnaskedExitIsError,
       RequestsAnswered, Listening

\* Connections come and go.
LEMMA ConnKeeps ==
  ASSUME ServerInv, TypeOK', Running, NEW k \in Conns, ConnStep(k)
  PROVE  ServerInv'
<1> USE DEF ConnStep, Request, Answer, Upgrade, ConnEnds
<1>1. UNCHANGED <<signalled, main, http, inShutdown, errCh, exit>>
      OBVIOUS
<1>2. /\ conn' \in [Conns -> {"none", "request", "idle", "hijacked", "gone",
                              "cutRequest", "cutSession"}]
      /\ \A j \in Conns : conn[j] # "cutRequest" => conn'[j] # "cutRequest"
      BY DEF ServerInv, ServerTypeOK
<1> QED BY <1>1, <1>2 DEF ServerInv, ServerTypeOK, Orderly, Running, UnaskedExitIsError,
                          RequestsAnswered, Listening

\* ListenAndServe and the signal.
LEMMA ServeKeeps ==
  ASSUME ServerInv, TypeOK', Running, ServeStep \/ AcceptFails \/ Signal \/ ProberStep
  PROVE  ServerInv'
<1> USE DEF ServerInv, ServerTypeOK, Orderly, Running, UnaskedExitIsError,
            RequestsAnswered, Listening
<1>1. CASE StartProber \/ ProberStep
      BY <1>1 DEF StartProber, ProberStep, server
<1>2. CASE Listen
      BY <1>2 DEF Listen
<1>3. CASE AcceptFails
      BY <1>3 DEF AcceptFails
<1>4. CASE ServeReturns
      BY <1>4 DEF ServeReturns
<1>5. CASE Signal
      BY <1>5 DEF Signal
<1> QED BY <1>1, <1>2, <1>3, <1>4, <1>5 DEF ServeStep

\* main: a shutdown that reports success has waited for the requests, and an end
\* without one is a failure.
LEMMA MainKeeps ==
  ASSUME ServerInv, TypeOK', Running, MainStep
  PROVE  ServerInv'
<1> USE DEF ServerInv, Running
<1>1. CASE SelectDone \/ StopProber
      BY <1>1 DEF SelectDone, StopProber, server, ServerTypeOK, Orderly, UnaskedExitIsError,
                  RequestsAnswered, Listening
<1>2. CASE CallShutdown
  <2>1. /\ conn' \in [Conns -> {"none", "request", "idle", "hijacked", "gone",
                                "cutRequest", "cutSession"}]
        /\ \A j \in Conns : conn[j] # "cutRequest" => conn'[j] # "cutRequest"
        BY <1>2 DEF CallShutdown, ServerTypeOK
  <2> QED BY <1>2, <2>1 DEF CallShutdown, ServerTypeOK, Orderly, UnaskedExitIsError,
                            RequestsAnswered, Listening
<1>3. CASE SelectErr \/ ShutdownReturns \/ ShutdownTimesOut
  <2>1. /\ conn' \in [Conns -> {"none", "request", "idle", "hijacked", "gone",
                                "cutRequest", "cutSession"}]
        /\ \A j \in Conns : conn'[j] = "cutRequest" => conn[j] \in {"request", "cutRequest"}
        BY <1>3 DEF SelectErr, ShutdownReturns, ShutdownTimesOut, Exits, ServerTypeOK
  <2>2. /\ main' = "exit" /\ exit' \in {"success", "failure"}
        /\ UNCHANGED <<signalled, http, inShutdown, errCh>>
        BY <1>3 DEF SelectErr, ShutdownReturns, ShutdownTimesOut, Exits
  <2>3. exit' = "success" => signalled /\ inShutdown /\ InRequest = {}
        BY <1>3 DEF SelectErr, ShutdownReturns, ShutdownTimesOut, Exits, ServerTypeOK, Orderly
  <2>4. ServerTypeOK' /\ Orderly' /\ UnaskedExitIsError'
        BY <2>1, <2>2, <2>3 DEF ServerTypeOK, Orderly, UnaskedExitIsError, Listening
  <2>5. RequestsAnswered'
        BY <2>1, <2>3 DEF RequestsAnswered, InRequest, Orderly
  <2> QED BY <2>4, <2>5
<1> QED BY <1>1, <1>2, <1>3 DEF MainStep

-----------------------------------------------------------------------------
\* The process drives the prober only through its interface: every step of ws-proxy is
\* one of the prober and its callers, or does not touch them.
THEOREM ServerDrivesProber == ServerSpec => Init /\ [][Next]_vars
<1>1. [ServerNext]_allVars => [Next]_vars
      BY RolesAssumption DEF ServerNext, ConnStep, Request, Answer, Upgrade, ConnEnds,
         ServeStep, StartProber, Listen, ServeReturns, AcceptFails, Signal, MainStep,
         SelectDone, SelectErr, StopProber, CallShutdown, ShutdownReturns,
         ShutdownTimesOut, ProberStep, Next, CallerStep, Callers, allVars
<1> QED BY <1>1, PTL DEF ServerSpec, ServerInit

\* The invariants of both hold throughout.
LEMMA AlwaysInv == ServerSpec => [](ProberInv /\ ServerInv)
<1>1. Init /\ [][Next]_vars => []ProberInv
      BY ProberStarts, ProberKeeps, PTL
<1>2. ServerSpec => []ProberInv
      BY <1>1, ServerDrivesProber, PTL
<1>3. ServerInit /\ ProberInv => ServerInv
      BY ServerStarts DEF ProberInv
<1>4. ServerInv /\ ProberInv' /\ [ServerNext]_allVars => ServerInv'
  <2> SUFFICES ASSUME ServerInv, ProberInv', [ServerNext]_allVars PROVE ServerInv'
      OBVIOUS
  <2>1. TypeOK'
        BY DEF ProberInv
  <2>2. CASE UNCHANGED allVars
        BY <2>1, <2>2 DEF allVars, server, ServerInv, ServerTypeOK, Orderly, Running,
                          UnaskedExitIsError, RequestsAnswered, Listening
  <2> QED BY <2>1, <2>2, ConnKeeps, ServeKeeps, MainKeeps DEF ServerNext
<1> QED BY <1>2, <1>3, <1>4, PTL DEF ServerSpec

\* No probe runs, and none can start, once Shutdown's stop has returned.
THEOREM ProberStops == ServerSpec => []NothingProbesAfterStop
<1>1. ProberInv /\ ServerInv => NothingProbesAfterStop
      BY StoppedIsQuiet
<1> QED BY <1>1, AlwaysInv, PTL

\* The metric and /health/target agree between probes.
THEOREM GaugeAlwaysAgrees == ServerSpec => []GaugeAgrees
<1>1. ProberInv /\ ServerInv => GaugeAgrees
      BY DEF ProberInv, Reporting
<1> QED BY <1>1, AlwaysInv, PTL

\* A probe that the shutdown cancelled is never reported.
THEOREM ShutdownIsNoOutage == ServerSpec => CancellationNotReported
<1>1. (ProberInv /\ ServerInv) /\ [Next]_vars =>
        [health' # health \/ gauge' # gauge => probe # "cancelled"]_vars
      BY ReportIsGenuine
<1> QED BY <1>1, AlwaysInv, ServerDrivesProber, PTL DEF CancellationNotReported

\* A shutdown that reports success leaves no request without its answer.
THEOREM SuccessAnswersAll == ServerSpec => []RequestsAnswered
<1>1. ProberInv /\ ServerInv => RequestsAnswered
      BY DEF ServerInv
<1> QED BY <1>1, AlwaysInv, PTL

\* The process reports success only if it was told to stop, after Shutdown has run.
THEOREM SuccessWasAsked == ServerSpec => []UnaskedExitIsError
<1>1. ProberInv /\ ServerInv => UnaskedExitIsError
      BY DEF ServerInv
<1> QED BY <1>1, AlwaysInv, PTL

-----------------------------------------------------------------------------
(* What the wait of stopTargetProber rests on.                              *)

\* A stop that goes on to wait has seen the channel, and cancels before it waits; the
\* channel is open while the goroutine runs or somebody is about to start it.
WaitInv == /\ \A g \in Callers : pc[g] \in {"cancelAndWait", "wait"} => proberDone # "nil"
           /\ \A g \in Callers : pc[g] = "wait" => ctxDone
           /\ proberDone = "open" => prober # "none" \/ \E g \in Callers : pc[g] = "spawn"

\* A stop that waits for the channel has cancelled the context, and the goroutine that
\* closes the channel has done so, is running, or is about to be started by a
\* startTargetProber that is past its critical section.
StopIsServed ==
  \A g \in Stoppers : pc[g] = "wait" =>
    /\ ctxDone
    /\ \/ proberDone = "closed"
       \/ prober \notin {"none", "done"}
       \/ \E h \in Callers : pc[h] = "spawn"

\* Every step of the prober and its callers keeps this.
LEMMA WaitKeeps == ProberInv /\ WaitInv /\ [Next]_vars => WaitInv'
<1> SUFFICES ASSUME ProberInv, WaitInv, [Next]_vars PROVE WaitInv'
    OBVIOUS
<1> USE DEF WaitInv, result
<1>1. TypeOK /\ OneProber
      BY DEF ProberInv
<1>2. ASSUME NEW g \in Callers, StartLocked(g) PROVE WaitInv'
  <2>1. \A h \in Callers : h # g => pc'[h] = pc[h]
        BY <1>1, <1>2 DEF StartLocked, Goto, TypeOK
  <2>2. /\ pc[g] = "enter" /\ prober' = prober /\ ctxDone' = ctxDone
        /\ \/ pc'[g] = "returned" /\ proberDone' = proberDone
           \/ pc'[g] = "spawn" /\ proberDone = "nil" /\ proberDone' = "open"
        BY <1>1, <1>2 DEF StartLocked, Goto, TypeOK
  <2> QED BY <2>1, <2>2
<1>3. ASSUME NEW g \in Callers, Spawn(g) PROVE WaitInv'
      BY <1>1, <1>3 DEF Spawn, Goto, TypeOK
<1>4. ASSUME NEW g \in Callers, StopLocked(g) PROVE WaitInv'
  <2>1. \A h \in Callers : h # g => pc'[h] = pc[h]
        BY <1>1, <1>4 DEF StopLocked, Goto, TypeOK
  <2>2. /\ pc[g] = "enter" /\ pc'[g] \in {"returned", "cancelOnly", "cancelAndWait"}
        /\ pc'[g] = "cancelAndWait" => proberDone # "nil"
        /\ UNCHANGED <<proberDone, prober, ctxDone>>
        BY <1>1, <1>4 DEF StopLocked, Goto, TypeOK
  <2> QED BY <2>1, <2>2
<1>5. ASSUME NEW g \in Callers, StopCancels(g) PROVE WaitInv'
  <2>1. \A h \in Callers : h # g => pc'[h] = pc[h]
        BY <1>1, <1>5 DEF StopCancels, TypeOK
  <2>2. /\ \/ pc[g] = "cancelAndWait" /\ pc'[g] = "wait"
           \/ pc[g] = "cancelOnly" /\ pc'[g] = "returned"
        /\ ctxDone' = TRUE /\ UNCHANGED <<proberDone, prober>>
        BY <1>1, <1>5 DEF StopCancels, TypeOK
  <2> QED BY <2>1, <2>2
<1>6. ASSUME NEW g \in Callers, StopWaits(g) PROVE WaitInv'
      BY <1>1, <1>6 DEF StopWaits, Goto, TypeOK
<1>7. CASE ProberWork \/ Tick \/ SeesDone
      BY <1>1, <1>7 DEF ProberWork, Probe, Check, Record, SetGauge, Tick, SeesDone, Move
<1>8. CASE UNCHANGED vars
      BY <1>8 DEF vars
<1> QED BY <1>2, <1>3, <1>4, <1>5, <1>6, <1>7, <1>8 DEF Next, CallerStep, Terminated

\* Shutdown does not wait for a prober that nobody will end, also when it comes between
\* the critical section of startTargetProber and the start of the goroutine.
THEOREM StopNeverForgotten == ServerSpec => []StopIsServed
<1>1. Init => WaitInv
      BY DEF Init, WaitInv
<1>2. Init /\ [][Next]_vars => [](ProberInv /\ WaitInv)
      BY <1>1, ProberStarts, ProberKeeps, WaitKeeps, PTL
<1>3. ProberInv /\ WaitInv => StopIsServed
      BY DEF ProberInv, TypeOK, OneProber, WaitInv, StopIsServed, Callers
<1> QED BY <1>2, <1>3, ServerDrivesProber, PTL
=============================================================================
