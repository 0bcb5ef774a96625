---------------------------- MODULE TargetProber ----------------------------
(***************************************************************************)
(* The background health probe of ws-proxy (internal/proxy/                *)
(* targethealth.go): startTargetProber, called by ListenAndServe,          *)
(* stopTargetProber, called by Shutdown, the goroutine between them and    *)
(* the result it leaves for /health/target and the metrics.  Callers of   *)
(* both race, as main runs ListenAndServe in a goroutine of its own.       *)
(***************************************************************************)
EXTENDS Naturals, FiniteSets

CONSTANTS Starters, Stoppers  \* goroutines calling startTargetProber, stopTargetProber

ASSUME CallersAssumption == Starters \cap Stoppers = {}

VARIABLES proberStopped, \* Server.proberStopped
          proberDone,    \* Server.proberDone: "nil", or the channel "open" or "closed"
          ctxDone,       \* proberCtx is cancelled
          pc,            \* pc[g]: where caller g is
          prober,        \* where the probing goroutine is; "none" before it is started
          probe,         \* how the last probe ended
          health,        \* targetHealth, "unchecked" before the first record
          gauge          \* the ws_proxy_target_reachable gauge

vars == <<proberStopped, proberDone, ctxDone, pc, prober, probe, health, gauge>>
result == <<probe, health, gauge>>
Callers == Starters \cup Stoppers

Goto(g, from, to) == pc[g] = from /\ pc' = [pc EXCEPT ![g] = to]
Move(from, to) == prober = from /\ prober' = to

-----------------------------------------------------------------------------
(* Faulty variants.                                                         *)

\* proberStopped not consulted: a late ListenAndServe starts a prober.
StartAfterStop(g) ==
  /\ g \in Starters
  /\ Goto(g, "enter", IF proberDone # "nil" THEN "returned" ELSE "spawn")
  /\ proberDone' = IF proberDone # "nil" THEN proberDone ELSE "open"
  /\ UNCHANGED <<proberStopped, ctxDone, prober, result>>

\* proberStopped set without cancelling the context.
StopWithoutCancel(g) == /\ pc[g] \in {"cancelAndWait", "cancelOnly"}
                        /\ pc' = [pc EXCEPT ![g] = IF @ = "cancelOnly" THEN "returned" ELSE "wait"]
                        /\ UNCHANGED <<proberStopped, proberDone, ctxDone, prober, result>>

\* Every failed probe recorded, a cancelled one too.
CheckDropped == /\ Move("check", "record")
                /\ UNCHANGED <<proberStopped, proberDone, ctxDone, pc, result>>

\* The gauge set only on success.
GaugeOnlyUp == /\ Move("gauge", "select")
               /\ gauge' = IF probe = "ok" THEN 1 ELSE gauge
               /\ UNCHANGED <<proberStopped, proberDone, ctxDone, pc, probe, health>>

-----------------------------------------------------------------------------
Init == /\ proberStopped = FALSE
        /\ proberDone = "nil"
        /\ ctxDone = FALSE
        /\ pc = [g \in Callers |-> "enter"]
        /\ prober = "none"
        /\ probe = "none" /\ health = "unchecked" /\ gauge = 0

\* startTargetProber's critical section: at most one prober, none after a stop.
StartLocked(g) ==
  LET refused == proberStopped \/ proberDone # "nil" IN
  /\ g \in Starters
  /\ Goto(g, "enter", IF refused THEN "returned" ELSE "spawn")
  /\ proberDone' = IF refused THEN proberDone ELSE "open"
  /\ UNCHANGED <<proberStopped, ctxDone, prober, result>>

Spawn(g) == /\ Goto(g, "spawn", "returned")
            /\ prober' = "probe"
            /\ UNCHANGED <<proberStopped, proberDone, ctxDone, result>>

\* stopTargetProber's critical section: only the first caller goes on.
StopLocked(g) ==
  /\ g \in Stoppers
  /\ Goto(g, "enter", IF proberStopped THEN "returned"
                      ELSE IF proberDone = "nil" THEN "cancelOnly" ELSE "cancelAndWait")
  /\ proberStopped' = TRUE
  /\ UNCHANGED <<proberDone, ctxDone, prober, result>>

StopCancels(g) ==
  /\ pc[g] \in {"cancelAndWait", "cancelOnly"}
  /\ pc' = [pc EXCEPT ![g] = IF @ = "cancelOnly" THEN "returned" ELSE "wait"]
  /\ ctxDone' = TRUE
  /\ UNCHANGED <<proberStopped, proberDone, prober, result>>

StopWaits(g) == /\ proberDone = "closed"
                /\ Goto(g, "wait", "returned")
                /\ UNCHANGED <<proberStopped, proberDone, ctxDone, prober, result>>

\* probeTarget: the greeting is seen, the target fails, the probe's own timeout
\* passes, or the cancellation of proberCtx aborts it.
Probe == /\ Move("probe", "check")
         /\ probe' \in {"ok", "failed", "timeout"} \cup (IF ctxDone THEN {"cancelled"} ELSE {})
         /\ UNCHANGED <<proberStopped, proberDone, ctxDone, pc, health, gauge>>

\* A cancelled context keeps the result from being recorded; a context that had
\* already timed out keeps that error.
Check == /\ Move("check", IF ctxDone /\ probe # "timeout" THEN "select" ELSE "record")
         /\ UNCHANGED <<proberStopped, proberDone, ctxDone, pc, result>>

Record == /\ Move("record", "gauge")
          /\ health' = IF probe = "ok" THEN "reachable" ELSE "unreachable"
          /\ UNCHANGED <<proberStopped, proberDone, ctxDone, pc, probe, gauge>>

SetGauge == /\ Move("gauge", "select")
            /\ gauge' = IF probe = "ok" THEN 1 ELSE 0
            /\ UNCHANGED <<proberStopped, proberDone, ctxDone, pc, probe, health>>

Tick == /\ Move("select", "probe")
        /\ UNCHANGED <<proberStopped, proberDone, ctxDone, pc, result>>

SeesDone == /\ ctxDone
            /\ Move("select", "done")
            /\ proberDone' = "closed"
            /\ UNCHANGED <<proberStopped, ctxDone, pc, result>>

Terminated == /\ \A g \in Callers : pc[g] = "returned"
              /\ prober \in {"none", "done"}
              /\ UNCHANGED vars

CallerStep(g) == StartLocked(g) \/ Spawn(g) \/ StopLocked(g) \/ StopCancels(g) \/ StopWaits(g)
ProberWork == Probe \/ Check \/ Record \/ SetGauge

Next == (\E g \in Callers : CallerStep(g)) \/ ProberWork \/ Tick \/ SeesDone \/ Terminated

\* The scheduler runs every goroutine, a probe ends within targetHealthDialTimeout,
\* and select does not overlook for ever a context that is done.
Spec == /\ Init /\ [][Next]_vars
        /\ \A g \in Callers : WF_vars(CallerStep(g))
        /\ WF_vars(ProberWork) /\ SF_vars(SeesDone)

-----------------------------------------------------------------------------
TypeOK == /\ proberStopped \in BOOLEAN /\ ctxDone \in BOOLEAN
          /\ proberDone \in {"nil", "open", "closed"}
          /\ pc \in [Callers -> {"enter", "spawn", "cancelAndWait", "cancelOnly", "wait", "returned"}]
          /\ prober \in {"none", "probe", "check", "record", "gauge", "select", "done"}
          /\ probe \in {"none", "ok", "failed", "timeout", "cancelled"}
          /\ health \in {"unchecked", "reachable", "unreachable"} /\ gauge \in {0, 1}

\* The caller that stopped the prober, or found none, has returned.
Stopped == ctxDone /\ \A g \in Stoppers : pc[g] \in {"enter", "returned"}

\* Once the first stopTargetProber has returned nothing probes any more, and a
\* startTargetProber that comes late, or was half way, does not start again.
NothingProbesAfterStop ==
  Stopped => prober \in {"none", "done"} /\ \A g \in Starters : pc[g] # "spawn"

\* A probe that failed only because the server is shutting down is never reported
\* as an unreachable target.
CancellationNotReported ==
  [][health' # health \/ gauge' # gauge => probe # "cancelled"]_vars

\* Outside the two writes of one probe, the metric and /health/target agree.
GaugeAgrees ==
  prober # "gauge" /\ health # "unchecked" => (gauge = 1 <=> health = "reachable")
=============================================================================
