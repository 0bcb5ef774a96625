---------------------------- MODULE ProxySession ----------------------------
(***************************************************************************)
(* One proxied session of ws-proxy, from the upgraded WebSocket to the     *)
(* release of its slot: Session.Run and pingLoop (internal/proxy/          *)
(* session.go), Bridge (bridge.go) and the deferred calls of               *)
(* handleWebSocket that follow Run (server.go).                            *)
(*                                                                         *)
(* Six goroutines take part: the request's own ("run"), the ping loop, the *)
(* max-duration callback ("timer"), the one around Bridge.Run ("bridge")   *)
(* and the two pumps ("reader": WebSocket to TCP, "writer": TCP to         *)
(* WebSocket); "grace" is the second timer that the callback starts.  Time *)
(* is left out: a timer may fire at any moment after it was started.       *)
(***************************************************************************)
EXTENDS Integers, Sequences

CONSTANTS FrameKinds,      \* what the client may send, besides a close frame
          MaxFrames,       \* bound: binary frames the client sends
          MaxChunks        \* bound: chunks the target sends

ASSUME KindsAssumption == FrameKinds \subseteq {"binary", "text", "tooBig"}
ASSUME BoundsAssumption == MaxFrames \in Nat /\ MaxChunks \in Nat

VARIABLES
  pc,          \* pc[t]: where goroutine t is
  ctxDone,     \* the session's context is cancelled
  wsOpen,      \* the proxy has not closed the WebSocket's connection
  tcpOpen,     \* the proxy holds an open connection to the target
  wsWriteErr,  \* gorilla's sticky write error: later writes fail
  writeMu,     \* who holds Bridge.writeMu, or "free"
  errChan,     \* Bridge.Run's channel of pump results, capacity 2
  bridgeErr,   \* Session.Run's channel of the bridge's result, capacity 1
  outcome,     \* outcome[t]: what goroutine t returned, "none" before
  client,      \* the peer of the WebSocket
  target,      \* the peer of the TCP connection
  wsIn, tcpIn, \* what has arrived from each and is not read yet
  sent,        \* sent[d]: binary frames or chunks put into direction d
  held,        \* held[t]: the payload pump t has read and not yet written
  toTarget,    \* payloads written to the target (what BytesTransferred counts)
  toClient     \* payloads written to the client

control == <<ctxDone, outcome, errChan, bridgeErr>>
sockets == <<wsOpen, tcpOpen, wsWriteErr>>
peers == <<client, target, wsIn, tcpIn, sent>>
data == <<held, toTarget, toClient>>
vars == <<pc, control, sockets, writeMu, peers, data>>

Threads == {"run", "ping", "timer", "grace", "bridge", "reader", "writer"}
Locations == {"none", "done", "dial", "select", "stopTimer", "cancel", "join", "closeTCP",
              "returned", "release", "released", "wait", "lock", "write", "armed", "read",
              "send"}
Pumps == {"reader", "writer"}
Lockers == {"ping", "timer", "writer"}
Frame(k, i) == [kind |-> k, id |-> i]

Goto(t, from, to) == pc[t] = from /\ pc' = [pc EXCEPT ![t] = to]

\* Goroutine t returns v: it is left with the result still to be sent.
Return(t, from, v) == /\ Goto(t, from, "send")
                      /\ outcome' = [outcome EXCEPT ![t] = v]

WSWritable == wsOpen /\ ~wsWriteErr
Unlock(t) == writeMu = t /\ writeMu' = "free"

-----------------------------------------------------------------------------
(* Faulty variants of single steps.                                         *)

\* WriteControl without writeMu, as gorilla's documentation would allow.
LockNotTaken(t) == /\ writeMu = "free" \/ t # "writer"
                   /\ Goto(t, "lock", "write")
                   /\ writeMu' = t
                   /\ UNCHANGED <<control, sockets, peers, data>>

\* The wait for pingDone dropped.
JoinSkipped == /\ Goto("run", "join", "closeTCP")
               /\ UNCHANGED <<control, sockets, writeMu, peers, data>>

\* The check for BinaryMessage dropped.
ReaderForwardsText ==
  /\ wsIn # <<>>
  /\ Head(wsIn).kind \in {"binary", "text"}
  /\ Goto("reader", "read", "write")
  /\ held' = [held EXCEPT !["reader"] = Head(wsIn).id]
  /\ wsIn' = Tail(wsIn)
  /\ UNCHANGED <<control, sockets, writeMu, client, target, tcpIn, sent, toTarget, toClient>>

\* A failed WriteMessage logged and ignored.
WriterIgnoresError == /\ Goto("writer", "write", "read")
                      /\ Unlock("writer")
                      /\ wsWriteErr' = TRUE
                      /\ UNCHANGED <<control, wsOpen, tcpOpen, peers, data>>

\* The max-duration callback only counts.
TimerOnlyCounts == /\ Goto("timer", "write", "done")
                   /\ Unlock("timer")
                   /\ UNCHANGED <<control, sockets, peers, data>>

\* An unbuffered errChan: the second pump finds nobody receiving.
PumpSendsUnbuffered(t) ==
  /\ pc["bridge"] = "wait" /\ errChan = <<>>
  /\ Goto(t, "send", "done")
  /\ errChan' = Append(errChan, outcome[t])
  /\ UNCHANGED <<ctxDone, outcome, bridgeErr, sockets, writeMu, peers, data>>

\* No read deadline: only a closed socket ends a read.
ReaderWithoutDeadline == /\ ~wsOpen
                         /\ Return("reader", "read", "err")
                         /\ UNCHANGED <<ctxDone, errChan, bridgeErr, sockets,
                                        writeMu, peers, data>>

\* Bridge.Run waits for both pumps before it closes anything.
BridgeWaitsForBoth == /\ Len(errChan) = 2
                      /\ Return("bridge", "wait", Head(errChan))
                      /\ errChan' = Tail(errChan)
                      /\ wsOpen' = FALSE /\ tcpOpen' = FALSE
                      /\ UNCHANGED <<ctxDone, bridgeErr, wsWriteErr, writeMu,
                                     peers, data>>

-----------------------------------------------------------------------------
Init == /\ pc = [t \in Threads |-> IF t = "run" THEN "dial" ELSE "none"]
        /\ ctxDone = FALSE
        /\ wsOpen = TRUE /\ tcpOpen = FALSE /\ wsWriteErr = FALSE
        /\ writeMu = "free"
        /\ errChan = <<>> /\ bridgeErr = <<>>
        /\ outcome = [t \in {"run", "bridge", "reader", "writer"} |-> "none"]
        /\ client = "up" /\ target = "up"
        /\ wsIn = <<>> /\ tcpIn = <<>>
        /\ sent = [d \in {"toTarget", "toClient"} |-> 0]
        /\ held = [t \in Pumps |-> 0]
        /\ toTarget = <<>> /\ toClient = <<>>

(*************************** Session.Run ***********************************)

\* Setting the first read deadline or dialling the target fails.
StartFails == /\ Goto("run", "dial", "returned")
              /\ outcome' = [outcome EXCEPT !["run"] = "err"]
              /\ UNCHANGED <<ctxDone, errChan, bridgeErr, sockets, writeMu, peers, data>>

\* The target answers: the ping loop, the max-duration timer and the bridge with
\* its two pumps are started, then Run waits in its select.
Establish ==
  /\ pc["run"] = "dial"
  /\ pc' = [run |-> "select", ping |-> "wait", timer |-> "armed", grace |-> "none",
            bridge |-> "wait", reader |-> "read", writer |-> "read"]
  /\ tcpOpen' = TRUE
  /\ UNCHANGED <<control, wsOpen, wsWriteErr, writeMu, peers, data>>

SelectBridgeErr == /\ Goto("run", "select", "stopTimer")
                   /\ bridgeErr # <<>>
                   /\ outcome' = [outcome EXCEPT !["run"] = Head(bridgeErr)]
                   /\ bridgeErr' = Tail(bridgeErr)
                   /\ UNCHANGED <<ctxDone, errChan, sockets, writeMu, peers, data>>

SelectDone == /\ Goto("run", "select", "stopTimer")
              /\ ctxDone
              /\ outcome' = [outcome EXCEPT !["run"] = "err"]
              /\ wsOpen' = FALSE /\ tcpOpen' = FALSE
              /\ UNCHANGED <<ctxDone, errChan, bridgeErr, wsWriteErr,
                             writeMu, peers, data>>

\* The deferred calls of Run: stop the timer, which has no effect on a callback
\* that has started or on the grace timer; cancel; join the ping loop; close TCP.
StopTimer == /\ pc["run"] = "stopTimer"
             /\ pc' = [pc EXCEPT !["run"] = "cancel",
                                 !["timer"] = IF @ = "armed" THEN "done" ELSE @]
             /\ UNCHANGED <<control, sockets, writeMu, peers, data>>

Cancel == /\ Goto("run", "cancel", "join")
          /\ ctxDone' = TRUE
          /\ UNCHANGED <<outcome, errChan, bridgeErr, sockets, writeMu, peers, data>>

JoinPing == /\ pc["ping"] = "done"
            /\ Goto("run", "join", "closeTCP")
            /\ UNCHANGED <<control, sockets, writeMu, peers, data>>

CloseTCP == /\ Goto("run", "closeTCP", "returned")
            /\ tcpOpen' = FALSE
            /\ UNCHANGED <<control, wsOpen, wsWriteErr, writeMu, peers, data>>

\* Run has returned into handleWebSocket: gauge and socket first, then the slot.
CloseWS == /\ Goto("run", "returned", "release")
           /\ wsOpen' = FALSE
           /\ UNCHANGED <<control, tcpOpen, wsWriteErr, writeMu, peers, data>>

Release == /\ Goto("run", "release", "released")
           /\ UNCHANGED <<control, sockets, writeMu, peers, data>>

(******************** pingLoop and the max-duration timer *******************)

PingSeesDone == /\ ctxDone
                /\ Goto("ping", "wait", "done")
                /\ UNCHANGED <<control, sockets, writeMu, peers, data>>

PingTick == /\ Goto("ping", "wait", "lock")
            /\ UNCHANGED <<control, sockets, writeMu, peers, data>>

\* Bridge.writeMu, taken by WriteControl and WriteMessage alike.
Lock(t) == /\ writeMu = "free"
           /\ Goto(t, "lock", "write")
           /\ writeMu' = t
           /\ UNCHANGED <<control, sockets, peers, data>>

PingWrites == /\ WSWritable
              /\ Goto("ping", "write", "wait")
              /\ Unlock("ping")
              /\ UNCHANGED <<control, sockets, peers, data>>

\* A write can fail at any time (the peer's buffers are full, its connection is
\* gone) and must fail on a closed socket or after a close frame.
PingFails == /\ Goto("ping", "write", "done")
             /\ Unlock("ping")
             /\ wsWriteErr' = TRUE
             /\ ctxDone' = TRUE
             /\ UNCHANGED <<outcome, errChan, bridgeErr, wsOpen, tcpOpen, peers, data>>

TimerFires == /\ Goto("timer", "armed", "lock")
              /\ UNCHANGED <<ctxDone, outcome, errChan, bridgeErr, sockets, writeMu, peers, data>>

\* The close frame: nothing can be written after it.  The client may answer with
\* its own (ClientCloses).  Errors are ignored and the grace timer starts anyway.
TimerWritesClose ==
  /\ pc["timer"] = "write"
  /\ pc' = [pc EXCEPT !["timer"] = "done", !["grace"] = "armed"]
  /\ Unlock("timer")
  /\ wsWriteErr' = TRUE
  /\ UNCHANGED <<control, wsOpen, tcpOpen, peers, data>>

GraceEnds == /\ Goto("grace", "armed", "done")
             /\ ctxDone' = TRUE
             /\ UNCHANGED <<outcome, errChan, bridgeErr, sockets, writeMu, peers, data>>

(****************************** Bridge.Run *********************************)

\* The first pump result ends the bridge: both connections are closed so that the
\* other pump stops too.
BridgeCloses == /\ errChan # <<>>
                /\ Return("bridge", "wait", Head(errChan))
                /\ errChan' = Tail(errChan)
                /\ wsOpen' = FALSE /\ tcpOpen' = FALSE
                /\ UNCHANGED <<ctxDone, bridgeErr, wsWriteErr, writeMu, peers, data>>

BridgeSends == /\ Len(bridgeErr) < 1
               /\ Goto("bridge", "send", "done")
               /\ bridgeErr' = Append(bridgeErr, outcome["bridge"])
               /\ UNCHANGED <<ctxDone, outcome, errChan, sockets, writeMu, peers, data>>

PumpSends(t) == /\ Len(errChan) < 2
                /\ Goto(t, "send", "done")
                /\ errChan' = Append(errChan, outcome[t])
                /\ UNCHANGED <<ctxDone, outcome, bridgeErr, sockets, writeMu, peers, data>>

(****************** copyWSToTCP: the pump called "reader" *******************)

\* ReadMessage returns the next frame, from the connection or, after the socket
\* was closed, from its buffer.  Text is skipped.
ReaderGetsFrame ==
  /\ wsIn # <<>>
  /\ Head(wsIn).kind \in {"binary", "text"}
  /\ Goto("reader", "read", IF Head(wsIn).kind = "binary" THEN "write" ELSE "read")
  /\ held' = [held EXCEPT !["reader"] = Head(wsIn).id]
  /\ wsIn' = Tail(wsIn)
  /\ UNCHANGED <<control, sockets, writeMu, client, target, tcpIn, sent, toTarget, toClient>>

\* A close frame, or a message over ReadLimit: gorilla itself writes a close frame
\* in answer and the pump returns, nil for a normal closure.
ReaderGetsClose ==
  /\ wsIn # <<>>
  /\ Head(wsIn).kind \in {"close", "tooBig"}
  /\ Return("reader", "read", IF Head(wsIn).kind = "close" THEN "nil" ELSE "err")
  /\ wsIn' = Tail(wsIn)
  /\ wsWriteErr' = TRUE
  /\ UNCHANGED <<ctxDone, errChan, bridgeErr, wsOpen, tcpOpen, writeMu,
                 client, target, tcpIn, sent, data>>

\* The read fails: closed locally, reset by the peer, or the read deadline that
\* only pongs extend has passed.
ReaderFails == /\ Return("reader", "read", "err")
               /\ UNCHANGED <<ctxDone, errChan, bridgeErr, sockets, writeMu,
                              peers, data>>

ReaderWrites == /\ tcpOpen /\ target # "stalled"
                /\ Goto("reader", "write", "read")
                /\ toTarget' = Append(toTarget, held["reader"])
                /\ held' = [held EXCEPT !["reader"] = 0]
                /\ UNCHANGED <<control, sockets, writeMu, peers, toClient>>

ReaderWriteFails == /\ ~tcpOpen \/ target \in {"closed", "reset"}
                    /\ Return("reader", "write", "err")
                    /\ UNCHANGED <<ctxDone, errChan, bridgeErr, sockets,
                                   writeMu, peers, data>>

(****************** copyTCPToWS: the pump called "writer" *******************)

WriterReads == /\ tcpOpen /\ tcpIn # <<>>
               /\ Goto("writer", "read", "lock")
               /\ held' = [held EXCEPT !["writer"] = Head(tcpIn)]
               /\ tcpIn' = Tail(tcpIn)
               /\ UNCHANGED <<control, sockets, writeMu, client, target, wsIn, sent,
                              toTarget, toClient>>

WriterEOF == /\ tcpOpen /\ tcpIn = <<>> /\ target = "closed"
             /\ Return("writer", "read", "nil")
             /\ UNCHANGED <<ctxDone, errChan, bridgeErr, sockets, writeMu, peers, data>>

WriterReadFails == /\ ~tcpOpen \/ target = "reset"
                   /\ Return("writer", "read", "err")
                   /\ UNCHANGED <<ctxDone, errChan, bridgeErr, sockets,
                                  writeMu, peers, data>>

WriterWrites == /\ WSWritable
                /\ Goto("writer", "write", "read")
                /\ Unlock("writer")
                /\ toClient' = Append(toClient, held["writer"])
                /\ held' = [held EXCEPT !["writer"] = 0]
                /\ UNCHANGED <<control, sockets, peers, toTarget>>

WriterWriteFails == /\ Return("writer", "write", "err")
                    /\ Unlock("writer")
                    /\ wsWriteErr' = TRUE
                    /\ UNCHANGED <<ctxDone, errChan, bridgeErr, wsOpen, tcpOpen,
                                   peers, data>>

(****************** The two peers (outside the program) *********************)

ClientSends(k) ==
  /\ wsOpen /\ client = "up"
  /\ sent["toTarget"] + Len(wsIn) < MaxFrames  \* binary frames, and frames unread
  /\ sent' = [sent EXCEPT !["toTarget"] = IF k = "binary" THEN @ + 1 ELSE @]
  /\ wsIn' = Append(wsIn, Frame(k, IF k = "binary" THEN sent["toTarget"] + 1 ELSE 0))
  /\ UNCHANGED <<pc, control, sockets, writeMu, client, target, tcpIn, data>>

ClientCloses == /\ wsOpen /\ client = "up"
                /\ client' = "closing"
                /\ wsIn' = Append(wsIn, Frame("close", 0))
                /\ UNCHANGED <<pc, control, sockets, writeMu, target, tcpIn, sent, data>>

\* The client disappears without a word: no more frames, no pongs, no reset.
ClientVanishes == /\ wsOpen /\ client = "up"
                  /\ client' = "silent"
                  /\ UNCHANGED <<pc, control, sockets, writeMu, target, wsIn, tcpIn, sent, data>>

TargetSends == /\ tcpOpen /\ target \in {"up", "stalled"} /\ sent["toClient"] < MaxChunks
               /\ sent' = [sent EXCEPT !["toClient"] = @ + 1]
               /\ tcpIn' = Append(tcpIn, sent["toClient"] + 1)
               /\ UNCHANGED <<pc, control, sockets, writeMu, client, target, wsIn, data>>

TargetBecomes(v) ==
  /\ tcpOpen /\ target = "up"
  /\ target' = v
  /\ tcpIn' = IF v = "reset" THEN <<>> ELSE tcpIn
  /\ UNCHANGED <<pc, control, sockets, writeMu, client, wsIn, sent, data>>

Environment == \/ \E k \in FrameKinds : ClientSends(k)
               \/ ClientCloses \/ ClientVanishes \/ TargetSends
               \/ \E v \in {"stalled", "closed", "reset"} : TargetBecomes(v)

Quiet == /\ pc["run"] = "released"
         /\ \A t \in Threads \ {"run"} : pc[t] \in {"none", "done"}

Terminated == Quiet /\ UNCHANGED vars

RunStep == \/ StartFails \/ Establish \/ SelectBridgeErr \/ SelectDone \/ StopTimer
           \/ Cancel \/ JoinPing \/ CloseTCP \/ CloseWS \/ Release
PingStep == PingSeesDone \/ PingTick \/ PingWrites \/ PingFails
TimerStep == TimerFires \/ TimerWritesClose \/ GraceEnds
BridgeStep == BridgeCloses \/ BridgeSends
ReaderStep == \/ ReaderGetsFrame \/ ReaderGetsClose \/ ReaderFails \/ ReaderWrites
              \/ ReaderWriteFails \/ PumpSends("reader")
WriterStep == \/ WriterReads \/ WriterEOF \/ WriterReadFails \/ WriterWrites
              \/ WriterWriteFails \/ PumpSends("writer")

Next == \/ RunStep \/ PingStep \/ TimerStep \/ BridgeStep \/ ReaderStep \/ WriterStep
        \/ \E t \in Lockers : Lock(t)
        \/ Environment \/ Terminated

Spec == Init /\ [][Next]_vars

-----------------------------------------------------------------------------
(* Fairness.  Goroutines that can run are scheduled; a sync.Mutex hands     *)
(* itself to a waiter that keeps losing; select does not overlook a channel *)
(* that stays ready; the ticker and the grace timer fire; a read on a       *)
(* closed socket, or past a deadline that no pong extends, returns.  Not    *)
(* assumed: any step of the client or of the target.                        *)

ReaderMustFail == ReaderFails /\ (~wsOpen \/ client = "silent")

Scheduled ==
  /\ WF_vars(RunStep) /\ WF_vars(BridgeStep) /\ WF_vars(WriterStep)
  /\ WF_vars(\/ ReaderGetsFrame \/ ReaderGetsClose \/ ReaderWrites \/ ReaderWriteFails
             \/ PumpSends("reader") \/ ReaderMustFail)
  /\ WF_vars(TimerWritesClose \/ GraceEnds)
  /\ WF_vars(PingTick \/ Lock("ping") \/ PingWrites \/ PingFails)
  /\ SF_vars(PingSeesDone) /\ SF_vars(Lock("timer")) /\ SF_vars(Lock("writer"))

\* The hours of MaxSessionDuration are not waited for: TimerFires is not fair.
PromptSpec == Spec /\ Scheduled

-----------------------------------------------------------------------------
Running(t) == pc[t] \notin {"none", "done"}
Ended == pc["run"] = "released"

TypeOK ==
  /\ pc \in [Threads -> Locations]
  /\ ctxDone \in BOOLEAN /\ wsOpen \in BOOLEAN /\ tcpOpen \in BOOLEAN /\ wsWriteErr \in BOOLEAN
  /\ writeMu \in Lockers \cup {"free"}
  /\ errChan \in Seq({"nil", "err"}) /\ Len(errChan) <= 2
  /\ bridgeErr \in Seq({"nil", "err"}) /\ Len(bridgeErr) <= 1
  /\ outcome \in [{"run", "bridge", "reader", "writer"} -> {"none", "nil", "err"}]
  /\ client \in {"up", "closing", "silent"}
  /\ target \in {"up", "stalled", "closed", "reset"}
  /\ wsIn \in Seq([kind : FrameKinds \cup {"close"}, id : Nat]) /\ tcpIn \in Seq(Nat)
  /\ sent \in [{"toTarget", "toClient"} -> Nat] /\ held \in [Pumps -> Nat]
  /\ toTarget \in Seq(1 .. MaxFrames) /\ toClient \in Seq(1 .. MaxChunks)

\* Bridge's comment: "at most one concurrent writer".  Pings, the close frame of
\* the max-duration callback and data frames never overlap on the WebSocket.
OneWriter == \A t, u \in Lockers : pc[t] = "write" /\ pc[u] = "write" => t = u

\* When the slot is given back the session is really over: both connections are
\* closed, the ping loop has been joined and the max-duration callback is not
\* pending, so that what is left running can neither move a byte nor ping.
TornDownAtRelease ==
  Ended => /\ ~wsOpen /\ ~tcpOpen
           /\ ~Running("ping")
           /\ pc["timer"] # "armed"

\* Each direction delivers its payloads once, in order and without a gap, and
\* nothing but binary frames reaches the target.
InOrder(got, n) == Len(got) <= n /\ \A i \in 1 .. Len(got) : got[i] = i
StreamsInOrder == InOrder(toTarget, sent["toTarget"]) /\ InOrder(toClient, sent["toClient"])

\* Run returns nil only after a clean end, and a clean end loses nothing: every
\* binary frame sent before the client's close frame was written to the target,
\* or every chunk sent before the target's EOF was written to the client.
CleanEndLosesNothing ==
  /\ outcome["reader"] = "nil" => Len(toTarget) = sent["toTarget"]
  /\ outcome["writer"] = "nil" => Len(toClient) = sent["toClient"]
  /\ outcome["run"] = "nil" => "nil" \in {outcome["reader"], outcome["writer"]}

\* Something that must end the session has happened: MaxSessionDuration is over, the
\* target has closed or reset its connection, the client has stopped answering, or
\* Run has left its select, or failed to dial, for any reason.
Doomed == \/ pc["timer"] \notin {"none", "armed"}
          \/ target \in {"closed", "reset"}
          \/ client = "silent" /\ pc["run"] # "dial"
          \/ pc["run"] \notin {"dial", "select"}

\* A target that does not read keeps the pump that reads pongs from noticing.
HeldUp == target = "stalled" /\ pc["timer"] = "armed" /\ pc["run"] = "select"

\* Then the session ends whatever the peers do, and no goroutine it started outlives
\* it for ever; a target that does not read can hold that up, but not beyond
\* MaxSessionDuration (config.go: "After this duration, the connection is closed
\* regardless of activity").  A doomed session stays doomed (DoomedStays in
\* ProxySessionProofs), so this says Doomed ~> Quiet \/ HeldUp.
SessionEnds == []<>(Doomed => Quiet \/ HeldUp)
=============================================================================
