--------------------------- MODULE ProxyAdmission ---------------------------
(***************************************************************************)
(* Admission of WebSocket connections by ws-proxy: SessionManager's        *)
(* lock-free slot counter (internal/proxy/session.go) and the request      *)
(* handler that claims a slot, upgrades the connection, runs the session   *)
(* and unwinds its deferred calls (handleWebSocket in server.go).          *)
(*                                                                         *)
(* Every handler goroutine interleaves with the others between any two     *)
(* atomic accesses.  The session itself is one step here; ProxySession     *)
(* models what happens inside it.                                          *)
(***************************************************************************)
EXTENDS Integers, FiniteSets

CONSTANTS Handlers,        \* handler goroutines; one serves request after request
          MaxConnections,  \* Config.MaxConnections, a Go int
          Half             \* int32 is -Half .. Half-1; 2^31 in the code

ASSUME HandlersFinite == IsFiniteSet(Handlers)
ASSUME WidthAssumption == MaxConnections \in Int /\ Half \in Nat \ {0}

VARIABLES active,            \* SessionManager.active
          activeConnections, \* the ws_proxy_active_connections gauge
          pc,                \* pc[h]: where handler h is
          current,           \* current[h]: the value Acquire last loaded
          counted            \* counted[h]: the counters this request has incremented

vars == <<active, activeConnections, pc, current, counted>>

Int32 == (-Half) .. (Half - 1)

\* Go's conversion int32(n): the low bits, read as two's complement.
ToInt32(n) == ((n + Half) % (2 * Half)) - Half

\* NewSessionManager stores the limit as an int32.
maxConnections == ToInt32(MaxConnections)

Succ32(n) == IF n = Half - 1 THEN -Half ELSE n + 1
Pred32(n) == IF n = -Half THEN Half - 1 ELSE n - 1

Counters == {"capacity_exceeded", "upgrade_failed", "connections_total"}

Locations == {"idle", "load", "cas", "rejected", "upgrade", "upgraded",
              "running", "ended", "wsClose", "release"}

\* The locations between a successful Acquire and Release.
Holding == {"upgrade", "upgraded", "running", "ended", "wsClose", "release"}

\* The locations in which the handler owns an open WebSocket.
Connected == {"upgraded", "running", "ended", "wsClose"}

\* The locations in which the handler is counted by the gauge.
Gauging == {"running", "ended"}

Holders == {h \in Handlers : pc[h] \in Holding}
OpenSockets == {h \in Handlers : pc[h] \in Connected}
Gauged == {h \in Handlers : pc[h] \in Gauging}

Goto(h, from, to) == /\ pc[h] = from
                     /\ pc' = [pc EXCEPT ![h] = to]

Count(h, c) == counted' = [counted EXCEPT ![h] = @ \cup {c}]

-----------------------------------------------------------------------------
(* Faulty variants of single steps: each is a plausible slip in the code    *)
(* that one of the properties below must notice.                            *)

\* The swap without the comparison: a load followed by a store.
AcquireSwapBlind(h) == /\ Goto(h, "cas", "upgrade")
                       /\ active' = Succ32(current[h])
                       /\ UNCHANGED <<activeConnections, current, counted>>

\* Add(1) in place of the swap: the check is stale when it is acted on.
AcquireSwapAdd(h) == /\ Goto(h, "cas", "upgrade")
                     /\ active' = Succ32(active)
                     /\ UNCHANGED <<activeConnections, current, counted>>

\* current > maxConnections in place of >=.
AcquireLoadOffByOne(h) ==
  /\ Goto(h, "load", IF active > maxConnections THEN "rejected" ELSE "cas")
  /\ current' = [current EXCEPT ![h] = active]
  /\ UNCHANGED <<active, activeConnections, counted>>

\* Release deferred only after a successful upgrade.
UpgradeFailsLeaks(h) == /\ Goto(h, "upgrade", "idle")
                        /\ Count(h, "upgrade_failed")
                        /\ UNCHANGED <<active, activeConnections, current>>

\* The slot given back before the socket is closed.
DecrementGaugeEarlyRelease(h) == /\ Goto(h, "ended", "wsClose")
                                 /\ activeConnections' = activeConnections - 1
                                 /\ active' = Pred32(active)
                                 /\ UNCHANGED <<current, counted>>

\* A connection counted before the upgrade as well.
UpgradeFailsCountedTwice(h) ==
  /\ Goto(h, "upgrade", "release")
  /\ counted' = [counted EXCEPT ![h] = {"connections_total", "upgrade_failed"}]
  /\ UNCHANGED <<active, activeConnections, current>>

-----------------------------------------------------------------------------
Init == /\ active = 0
        /\ activeConnections = 0
        /\ pc = [h \in Handlers |-> "idle"]
        /\ current = [h \in Handlers |-> 0]
        /\ counted = [h \in Handlers |-> {}]

\* net/http starts handleWebSocket for a request.
Request(h) == /\ Goto(h, "idle", "load")
              /\ counted' = [counted EXCEPT ![h] = {}]
              /\ UNCHANGED <<active, activeConnections, current>>

\* Acquire loads the counter and gives up when the limit is reached.
AcquireLoad(h) ==
  /\ Goto(h, "load", IF active >= maxConnections THEN "rejected" ELSE "cas")
  /\ current' = [current EXCEPT ![h] = active]
  /\ UNCHANGED <<active, activeConnections, counted>>

\* CompareAndSwap(current, current+1): claims the slot, or loops when another
\* handler moved the counter since the load.
AcquireSwap(h) ==
  /\ Goto(h, "cas", IF active = current[h] THEN "upgrade" ELSE "load")
  /\ active' = IF active = current[h] THEN Succ32(active) ELSE active
  /\ UNCHANGED <<activeConnections, current, counted>>

\* At capacity: 429 with Retry-After, and no slot to give back.
Reject(h) == /\ Goto(h, "rejected", "idle")
             /\ Count(h, "capacity_exceeded")
             /\ UNCHANGED <<active, activeConnections, current>>

UpgradeFails(h) == /\ Goto(h, "upgrade", "release")
                   /\ Count(h, "upgrade_failed")
                   /\ UNCHANGED <<active, activeConnections, current>>

UpgradeSucceeds(h) == /\ Goto(h, "upgrade", "upgraded")
                      /\ UNCHANGED <<active, activeConnections, current, counted>>

\* ConnectionsTotal.Inc and ActiveConnections.Inc, then session.Run starts.
Establish(h) == /\ Goto(h, "upgraded", "running")
                /\ activeConnections' = activeConnections + 1
                /\ Count(h, "connections_total")
                /\ UNCHANGED <<active, current>>

\* session.Run returns; its error is only logged.
SessionEnds(h) == /\ Goto(h, "running", "ended")
                  /\ UNCHANGED <<active, activeConnections, current, counted>>

\* The deferred calls, last registered first: gauge, socket, slot.
DecrementGauge(h) == /\ Goto(h, "ended", "wsClose")
                     /\ activeConnections' = activeConnections - 1
                     /\ UNCHANGED <<active, current, counted>>

CloseSocket(h) == /\ Goto(h, "wsClose", "release")
                  /\ UNCHANGED <<active, activeConnections, current, counted>>

Release(h) == /\ Goto(h, "release", "idle")
              /\ active' = Pred32(active)
              /\ UNCHANGED <<activeConnections, current, counted>>

Next == \E h \in Handlers :
          \/ Request(h) \/ AcquireLoad(h) \/ AcquireSwap(h) \/ Reject(h)
          \/ UpgradeFails(h) \/ UpgradeSucceeds(h) \/ Establish(h)
          \/ SessionEnds(h) \/ DecrementGauge(h) \/ CloseSocket(h) \/ Release(h)

Spec == Init /\ [][Next]_vars

-----------------------------------------------------------------------------
TypeOK == /\ active \in Int32
          /\ activeConnections \in Nat
          /\ pc \in [Handlers -> Locations]
          /\ current \in [Handlers -> Int32]
          /\ counted \in [Handlers -> SUBSET Counters]

\* The counter SessionManager.active is the number of handlers between a
\* successful Acquire and their deferred Release, whatever the interleaving of
\* loads, swaps and releases, and whether or not the upgrade worked.
SlotAccounting == active = Cardinality(Holders)

\* Two handlers that load the same value cannot both pass the limit: the slots
\* out, and so the WebSockets open at once, never exceed maxConnections, the limit
\* as it was narrowed.
LimitHolds == Holders # {} => Cardinality(Holders) <= maxConnections

\* A socket is closed before its slot is given back and the gauge follows the
\* sessions in between, so a scrape of the metrics never shows more active
\* connections than sockets, nor /health fewer slots than sockets.
GaugeWithinSlots == /\ activeConnections = Cardinality(Gauged)
                    /\ activeConnections <= Cardinality(OpenSockets)
                    /\ Cardinality(OpenSockets) <= active

\* When handleWebSocket returns, the request shows up in exactly one of the
\* capacity_exceeded, upgrade_failed and connections_total counters.
CountedOnce ==
  [][\A h \in Handlers : pc[h] # "idle" /\ pc'[h] = "idle"
                           => \E c \in Counters : counted'[h] = {c}]_vars

\* The lock-free counter behaves as a pool of maxConnections slots: it grants
\* only while a slot is free and refuses only while none is, at the instant of
\* the swap or of the load.
verdictOf == [h \in Handlers |-> IF pc[h] \in Holding THEN "granted"
                                  ELSE IF pc[h] = "rejected" THEN "refused" ELSE "none"]
Pool == INSTANCE SlotPool WITH Clients <- Handlers,
                               Capacity <- maxConnections,
                               verdict <- verdictOf
ImplementsPool == Pool!Spec
=============================================================================
