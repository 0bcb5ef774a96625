-------------------------- MODULE ProxySessionProofs ------------------------
(***************************************************************************)
(* Safety of a proxied session for any number of frames and chunks: the    *)
(* bridge's write mutex excludes, and when the slot is given back both     *)
(* connections are closed and nothing is left to ping or to fire; both     *)
(* directions keep their order, a clean end loses nothing, a goroutine     *)
(* with a result to send is never blocked, and no wait is forgotten.       *)
(***************************************************************************)
EXTENDS ProxySession, TLAPS

Others == Threads \ {"run"}

\* The invariant.  A goroutine that is writing to the WebSocket holds the mutex; and
\* the deferred calls of Run and of handleWebSocket have, at each location, done
\* what those before it do.
IInv ==
  /\ pc \in [Threads -> Locations] /\ wsOpen \in BOOLEAN /\ tcpOpen \in BOOLEAN
  /\ \A t \in Lockers : pc[t] = "write" => writeMu = t
  /\ pc["run"] = "dial" => ~tcpOpen /\ \A t \in Others : pc[t] = "none"
  /\ pc["run"] \in {"cancel", "join", "closeTCP", "returned", "release", "released"}
       => pc["timer"] # "armed"
  /\ pc["run"] = "closeTCP" => pc["ping"] = "done"
  /\ pc["run"] \in {"returned", "release", "released"}
       => ~tcpOpen /\ pc["ping"] \in {"none", "done"}
  /\ pc["run"] \in {"release", "released"} => ~wsOpen

\* Before the target has been dialled nothing else runs.
LEMMA InitIInv == Init => IInv
<1> SUFFICES ASSUME Init PROVE IInv
  OBVIOUS
<1>1. pc \in [Threads -> Locations] /\ wsOpen \in BOOLEAN /\ tcpOpen \in BOOLEAN
  BY Zenon DEF Init, Threads, Locations
<1>2. pc["run"] = "dial" /\ ~tcpOpen
  BY DEF Init, Threads
<1>3. \A t \in Others : pc[t] = "none"
  BY DEF Init, Others, Threads
<1>4. \A t \in Lockers : pc[t] # "write"
  BY <1>2, <1>3 DEF Lockers, Others, Threads
<1> QED
  BY <1>1, <1>2, <1>3, <1>4 DEF IInv

\* Session.Run and the deferred calls after it keep the invariant.
LEMMA RunKeeps == IInv /\ (RunStep) => IInv'
<1> SUFFICES ASSUME IInv, RunStep PROVE IInv'
  OBVIOUS
<1> USE DEF IInv, Others, Threads, Locations, Lockers
<1>1. CASE StartFails
  BY <1>1 DEF StartFails, Goto, Return, Unlock, sockets
<1>2. CASE Establish
  BY <1>2 DEF Establish, Goto, Return, Unlock, sockets
<1>3. CASE SelectBridgeErr
  BY <1>3 DEF SelectBridgeErr, Goto, Return, Unlock, sockets
<1>4. CASE SelectDone
  BY <1>4, Zenon DEF SelectDone, Goto, Return, Unlock, sockets
<1>5. CASE StopTimer
  BY <1>5 DEF StopTimer, Goto, Return, Unlock, sockets
<1>6. CASE Cancel
  BY <1>6 DEF Cancel, Goto, Return, Unlock, sockets
<1>7. CASE JoinPing
  BY <1>7 DEF JoinPing, Goto, Return, Unlock, sockets
<1>8. CASE CloseTCP
  BY <1>8, Zenon DEF CloseTCP, Goto, Return, Unlock, sockets
<1>9. CASE CloseWS
  BY <1>9, Zenon DEF CloseWS, Goto, Return, Unlock, sockets
<1>10. CASE Release
  BY <1>10 DEF Release, Goto, Return, Unlock, sockets
<1> QED
  BY <1>1, <1>2, <1>3, <1>4, <1>5, <1>6, <1>7, <1>8, <1>9, <1>10 DEF RunStep

\* So do the ping loop and the two timers.
LEMMA PingAndTimersKeep == IInv /\ (PingStep \/ TimerStep) => IInv'
<1> SUFFICES ASSUME IInv, PingStep \/ TimerStep PROVE IInv'
  OBVIOUS
<1> USE DEF IInv, Others, Threads, Locations, Lockers
<1>1. CASE PingSeesDone
  BY <1>1 DEF PingSeesDone, Goto, Return, Unlock, sockets
<1>2. CASE PingTick
  BY <1>2 DEF PingTick, Goto, Return, Unlock, sockets
<1>3. CASE PingWrites
  BY <1>3 DEF PingWrites, Goto, Return, Unlock, sockets
<1>4. CASE PingFails
  BY <1>4 DEF PingFails, Goto, Return, Unlock, sockets
<1>5. CASE TimerFires
  BY <1>5 DEF TimerFires, Goto, Return, Unlock, sockets
<1>6. CASE TimerWritesClose
  BY <1>6 DEF TimerWritesClose, Goto, Return, Unlock, sockets
<1>7. CASE GraceEnds
  BY <1>7 DEF GraceEnds, Goto, Return, Unlock, sockets
<1> QED
  BY <1>1, <1>2, <1>3, <1>4, <1>5, <1>6, <1>7 DEF PingStep, TimerStep

\* So does the bridge.
LEMMA BridgeKeeps == IInv /\ (BridgeStep) => IInv'
<1> SUFFICES ASSUME IInv, BridgeStep PROVE IInv'
  OBVIOUS
<1> USE DEF IInv, Others, Threads, Locations, Lockers
<1>1. CASE BridgeCloses
  BY <1>1, Zenon DEF BridgeCloses, Goto, Return, Unlock, sockets
<1>2. CASE BridgeSends
  BY <1>2 DEF BridgeSends, Goto, Return, Unlock, sockets
<1> QED
  BY <1>1, <1>2 DEF BridgeStep

\* So does the pump from the WebSocket.
LEMMA ReaderKeeps == IInv /\ (ReaderStep) => IInv'
<1> SUFFICES ASSUME IInv, ReaderStep PROVE IInv'
  OBVIOUS
<1> USE DEF IInv, Others, Threads, Locations, Lockers
<1>1. CASE ReaderGetsFrame
  BY <1>1 DEF ReaderGetsFrame, Goto, Return, Unlock, sockets
<1>2. CASE ReaderGetsClose
  BY <1>2 DEF ReaderGetsClose, Goto, Return, Unlock, sockets
<1>3. CASE ReaderFails
  BY <1>3 DEF ReaderFails, Goto, Return, Unlock, sockets
<1>4. CASE ReaderWrites
  BY <1>4 DEF ReaderWrites, Goto, Return, Unlock, sockets
<1>5. CASE ReaderWriteFails
  BY <1>5 DEF ReaderWriteFails, Goto, Return, Unlock, sockets
<1>6. CASE PumpSends("reader")
  BY <1>6 DEF PumpSends, Goto, Return, Unlock, sockets
<1> QED
  BY <1>1, <1>2, <1>3, <1>4, <1>5, <1>6 DEF ReaderStep

\* So does the pump from the target.
LEMMA WriterKeeps == IInv /\ (WriterStep) => IInv'
<1> SUFFICES ASSUME IInv, WriterStep PROVE IInv'
  OBVIOUS
<1> USE DEF IInv, Others, Threads, Locations, Lockers
<1>1. CASE WriterReads
  BY <1>1 DEF WriterReads, Goto, Return, Unlock, sockets
<1>2. CASE WriterEOF
  BY <1>2 DEF WriterEOF, Goto, Return, Unlock, sockets
<1>3. CASE WriterReadFails
  BY <1>3 DEF WriterReadFails, Goto, Return, Unlock, sockets
<1>4. CASE WriterWrites
  BY <1>4 DEF WriterWrites, Goto, Return, Unlock, sockets
<1>5. CASE WriterWriteFails
  BY <1>5 DEF WriterWriteFails, Goto, Return, Unlock, sockets
<1>6. CASE PumpSends("writer")
  BY <1>6 DEF PumpSends, Goto, Return, Unlock, sockets
<1> QED
  BY <1>1, <1>2, <1>3, <1>4, <1>5, <1>6 DEF WriterStep

\* Taking the mutex keeps it exclusive.
LEMMA LockKeeps == ASSUME IInv, NEW t \in Lockers, Lock(t) PROVE IInv'
BY DEF IInv, Others, Threads, Locations, Lockers, Lock, Goto, sockets

\* The peers, and a session that is over, touch none of it.
LEMMA OutsideKeeps == IInv /\ (Environment \/ UNCHANGED vars) => IInv'
<1> SUFFICES ASSUME IInv, Environment \/ UNCHANGED vars PROVE IInv'
  OBVIOUS
<1>1. UNCHANGED <<pc, tcpOpen, wsOpen, writeMu>>
  BY DEF Environment, ClientSends, ClientCloses, ClientVanishes, TargetSends, TargetBecomes,
         vars, sockets
<1> QED
  BY <1>1 DEF IInv

\* Every step keeps the invariant.
LEMMA StepIInv == IInv /\ [Next]_vars => IInv'
BY RunKeeps, PingAndTimersKeep, BridgeKeeps, ReaderKeeps, WriterKeeps, LockKeeps,
   OutsideKeeps DEF Next, Terminated

\* The invariant holds throughout.
LEMMA AlwaysIInv == Spec => []IInv
BY InitIInv, StepIInv, PTL DEF Spec

\* Pings, the close frame of the max-duration callback and data frames never overlap
\* on the WebSocket: Bridge.writeMu excludes.
THEOREM WritersExcluded == Spec => []OneWriter
<1>1. IInv => OneWriter
  BY DEF IInv, OneWriter
<1> QED
  BY <1>1, AlwaysIInv, PTL

\* When handleWebSocket gives the slot back both connections are closed, the ping
\* loop has been joined and the max-duration callback is not pending.
THEOREM TeardownComplete == Spec => []TornDownAtRelease
<1>1. IInv => TornDownAtRelease
  BY DEF IInv, TornDownAtRelease, Ended, Running
<1> QED
  BY <1>1, AlwaysIInv, PTL

\* A session that must end cannot be put back: the timer is never rearmed, a lost peer
\* does not return and Run never goes back to its select.
LEMMA DoomedStep == IInv /\ Doomed /\ [Next]_vars => Doomed'
<1> SUFFICES ASSUME IInv, Doomed, [Next]_vars PROVE Doomed'
  OBVIOUS
<1>1. pc \in [Threads -> Locations]
        /\ (pc["run"] = "dial" => pc["timer"] = "none" /\ ~tcpOpen)
  BY DEF IInv, Others, Threads
<1> USE <1>1 DEF Doomed, Threads, Locations
<1>2. CASE RunStep
  BY <1>2 DEF RunStep, StartFails, Establish, SelectBridgeErr, SelectDone, StopTimer, Cancel,
              JoinPing, CloseTCP, CloseWS, Release, Goto, peers
<1>3. CASE PingStep \/ TimerStep
  BY <1>3 DEF PingStep, PingSeesDone, PingTick, PingWrites, PingFails, TimerStep, TimerFires,
              TimerWritesClose, GraceEnds, Goto, peers
<1>4. CASE BridgeStep
  BY <1>4 DEF BridgeStep, BridgeCloses, BridgeSends, Goto, Return, peers
<1>5. CASE ReaderStep
  BY <1>5 DEF ReaderStep, ReaderGetsFrame, ReaderGetsClose, ReaderFails, ReaderWrites,
              ReaderWriteFails, PumpSends, Goto, Return, peers
<1>6. CASE WriterStep
  BY <1>6 DEF WriterStep, WriterReads, WriterEOF, WriterReadFails, WriterWrites,
              WriterWriteFails, PumpSends, Goto, Return, peers
<1>7. CASE \E t \in Lockers : Lock(t)
  BY <1>7 DEF Lockers, Lock, Goto, peers
<1>8. CASE Environment
  BY <1>8 DEF Environment, ClientSends, ClientCloses, ClientVanishes, TargetSends, TargetBecomes
<1>9. CASE UNCHANGED vars
  BY <1>9 DEF vars, peers
<1> QED
  BY <1>2, <1>3, <1>4, <1>5, <1>6, <1>7, <1>8, <1>9 DEF Next, Terminated

\* Once something has happened that must end a session, that remains so; with it,
\* "infinitely often" in SessionEnds is "eventually, whenever doomed".
THEOREM DoomedStays == Spec => [][Doomed => Doomed']_vars
<1>1. IInv /\ [Next]_vars => [Doomed => Doomed']_vars
  BY DoomedStep
<1> QED
  BY <1>1, AlwaysIInv, PTL DEF Spec

-----------------------------------------------------------------------------
(* What the two pumps carry.  Each direction counts: what was delivered is  *)
(* 1, 2, 3, ...; a pump holds at most the next one; and what is still in    *)
(* the connection continues from there.  A pump that returns nil saw the    *)
(* close of its peer behind everything the peer had sent.                   *)

Frames == [kind : FrameKinds \cup {"close"}, id : Nat]

\* Queue q holds the binary frames lo+1 .. hi in this order, between others.
Pending(q, lo, hi) ==
  /\ \A i \in 1 .. Len(q) : q[i].kind = "binary" => q[i].id \in lo + 1 .. hi
  /\ \A i, j \in 1 .. Len(q) : i < j /\ q[i].kind = "binary" /\ q[j].kind = "binary"
                                 => q[i].id < q[j].id
  /\ \A n \in lo + 1 .. hi : \E i \in 1 .. Len(q) : q[i].kind = "binary" /\ q[i].id = n

\* A binary frame at the head is the next one.
LEMMA PendingNext ==
  ASSUME NEW q \in Seq(Frames), NEW lo \in Nat, NEW hi \in Nat, Pending(q, lo, hi),
         q # <<>>, Head(q).kind = "binary"
  PROVE  lo < hi /\ Head(q).id = lo + 1 /\ Pending(Tail(q), lo + 1, hi)
<1> DEFINE t == Tail(q)
<1>1. /\ Len(q) \in Nat \ {0} /\ Head(q) = q[1] /\ t \in Seq(Frames) /\ Len(t) = Len(q) - 1
      /\ \A i \in 1 .. Len(t) : t[i] = q[i + 1]
  OBVIOUS
<1>2. \A i \in 1 .. Len(q) : q[i].id \in Nat
  <2>1. \A i \in 1 .. Len(q) : q[i] \in Frames
    OBVIOUS
  <2> QED
    BY <2>1 DEF Frames
<1>3. q[1].id \in lo + 1 .. hi
  BY <1>1 DEF Pending
<1>4. PICK k \in 1 .. Len(q) : q[k].kind = "binary" /\ q[k].id = lo + 1
  BY <1>3 DEF Pending
<1>5. k = 1
  <2>1. k # 1 => q[1].id < q[k].id
    BY <1>1, <1>4 DEF Pending
  <2> QED
    BY <1>2, <1>3, <1>4, <2>1
<1>6. q[1].id = lo + 1
  BY <1>4, <1>5
<1>7. \A i \in 1 .. Len(t) : t[i].kind = "binary" => t[i].id \in lo + 2 .. hi
  <2> SUFFICES ASSUME NEW i \in 1 .. Len(t), t[i].kind = "binary" PROVE t[i].id \in lo + 2 .. hi
    OBVIOUS
  <2>1. i + 1 \in 1 .. Len(q) /\ q[i + 1].kind = "binary" /\ t[i] = q[i + 1]
    BY <1>1
  <2>2. q[i + 1].id \in lo + 1 .. hi /\ q[1].id < q[i + 1].id
    BY <1>1, <2>1 DEF Pending
  <2> QED
    BY <1>6, <2>1, <2>2
<1>8. \A i, j \in 1 .. Len(t) : i < j /\ t[i].kind = "binary" /\ t[j].kind = "binary"
                                 => t[i].id < t[j].id
  <2> TAKE i, j \in 1 .. Len(t)
  <2>1. /\ i + 1 \in 1 .. Len(q) /\ j + 1 \in 1 .. Len(q) /\ (i < j => i + 1 < j + 1)
        /\ t[i] = q[i + 1] /\ t[j] = q[j + 1]
    BY <1>1
  <2>2. q[i + 1].kind = "binary" /\ q[j + 1].kind = "binary" /\ i + 1 < j + 1
          => q[i + 1].id < q[j + 1].id
    BY <2>1 DEF Pending
  <2> HIDE DEF t
  <2> QED
    BY <2>1, <2>2
<1>9. \A n \in lo + 2 .. hi : \E i \in 1 .. Len(t) : t[i].kind = "binary" /\ t[i].id = n
  <2> TAKE n \in lo + 2 .. hi
  <2>1. PICK i \in 1 .. Len(q) : q[i].kind = "binary" /\ q[i].id = n
    BY DEF Pending
  <2>2. i # 1
    BY <1>6, <2>1
  <2>3. i - 1 \in 1 .. Len(t) /\ t[i - 1] = q[i]
    BY <1>1, <2>2
  <2> QED
    BY <2>1, <2>3
<1>10. Pending(t, lo + 1, hi)
  BY <1>7, <1>8, <1>9 DEF Pending
<1> QED
  BY <1>1, <1>3, <1>6, <1>10

\* Any other frame at the head can go.
LEMMA PendingSkip ==
  ASSUME NEW q \in Seq(Frames), NEW lo \in Nat, NEW hi \in Nat, Pending(q, lo, hi),
         q # <<>>, Head(q).kind # "binary"
  PROVE  Pending(Tail(q), lo, hi)
<1> DEFINE t == Tail(q)
<1>1. /\ Len(q) \in Nat \ {0} /\ Head(q) = q[1] /\ t \in Seq(Frames) /\ Len(t) = Len(q) - 1
      /\ \A i \in 1 .. Len(t) : t[i] = q[i + 1]
  OBVIOUS
<1>2. /\ \A i \in 1 .. Len(t) : t[i].kind = "binary" => t[i].id \in lo + 1 .. hi
      /\ \A i, j \in 1 .. Len(t) : i < j /\ t[i].kind = "binary" /\ t[j].kind = "binary"
                                     => t[i].id < t[j].id
  BY <1>1 DEF Pending
<1>3. \A n \in lo + 1 .. hi : \E i \in 1 .. Len(t) : t[i].kind = "binary" /\ t[i].id = n
  <2> TAKE n \in lo + 1 .. hi
  <2>1. PICK i \in 1 .. Len(q) : q[i].kind = "binary" /\ q[i].id = n
    BY DEF Pending
  <2>2. i - 1 \in 1 .. Len(t) /\ t[i - 1] = q[i]
    BY <1>1, <2>1
  <2> QED
    BY <2>1, <2>2
<1> QED
  BY <1>2, <1>3 DEF Pending

\* A frame that is added is the last one.
LEMMA PendingAppend ==
  ASSUME NEW q \in Seq(Frames), NEW lo \in Nat, NEW hi \in Nat, lo <= hi, Pending(q, lo, hi),
         NEW f \in Frames, NEW n \in Nat,
         IF f.kind = "binary" THEN n = hi + 1 /\ f.id = n ELSE n = hi
  PROVE  Pending(Append(q, f), lo, n)
<1> DEFINE t == Append(q, f)
<1>1. /\ Len(q) \in Nat /\ t \in Seq(Frames) /\ Len(t) = Len(q) + 1 /\ t[Len(t)] = f
      /\ \A i \in 1 .. Len(q) : t[i] = q[i]
  OBVIOUS
<1>2. \A i \in 1 .. Len(q) : q[i].id \in Nat
  <2>1. \A i \in 1 .. Len(q) : q[i] \in Frames
    OBVIOUS
  <2> QED
    BY <2>1 DEF Frames
<1>3. \A i \in 1 .. Len(t) : t[i].kind = "binary" => t[i].id \in lo + 1 .. n
  BY <1>1, <1>2 DEF Pending
<1>4. \A i, j \in 1 .. Len(t) : i < j /\ t[i].kind = "binary" /\ t[j].kind = "binary"
                                 => t[i].id < t[j].id
  <2> SUFFICES ASSUME NEW i \in 1 .. Len(t), NEW j \in 1 .. Len(t), i < j,
                      t[i].kind = "binary", t[j].kind = "binary"
               PROVE  t[i].id < t[j].id
    OBVIOUS
  <2>1. i \in 1 .. Len(q) /\ q[i].kind = "binary" /\ t[i] = q[i]
    BY <1>1
  <2>2. CASE j = Len(t)
    BY <1>1, <1>2, <2>1, <2>2 DEF Pending
  <2>3. CASE j # Len(t)
    BY <1>1, <2>1, <2>3 DEF Pending
  <2> QED
    BY <2>2, <2>3
<1>5. \A m \in lo + 1 .. n : \E i \in 1 .. Len(t) : t[i].kind = "binary" /\ t[i].id = m
  <2> TAKE m \in lo + 1 .. n
  <2>1. CASE m <= hi
    <3>1. PICK i \in 1 .. Len(q) : q[i].kind = "binary" /\ q[i].id = m
      <4>1. m \in lo + 1 .. hi
        BY <2>1
      <4> QED
        BY <4>1 DEF Pending
    <3> QED
      BY <1>1, <3>1
  <2>2. CASE m > hi
    BY <1>1, <2>2
  <2> QED
    BY <2>1, <2>2
<1> QED
  BY <1>3, <1>4, <1>5 DEF Pending

\* Payloads that pump t has read, where got is what it has delivered.
Taken(t, got) == Len(got) + (IF held[t] = 0 THEN 0 ELSE 1)
Returned(t) == pc[t] \in {"send", "done"}

\* Pump t has delivered got, and holds the next payload exactly between its read and
\* its write.
Counting(got, t) == /\ \A i \in 1 .. Len(got) : got[i] = i
                    /\ held[t] \in {0, Len(got) + 1}
                    /\ pc[t] \in {"none", "read"} => held[t] = 0
                    /\ pc[t] \in {"lock", "write"} => held[t] # 0
                    /\ pc[t] \in {"none", "read", "lock", "write", "send", "done"}

\* The frames not read yet are the binary ones not taken, and a close frame is last.
FramesInv ==
  /\ Counting(toTarget, "reader")
  /\ Taken("reader", toTarget) <= sent["toTarget"] /\ sent["toTarget"] <= MaxFrames
  /\ Pending(wsIn, Taken("reader", toTarget), sent["toTarget"])
  /\ \A i \in 1 .. Len(wsIn) : wsIn[i].kind # "binary" => wsIn[i].id = 0
  /\ \A i \in 1 .. Len(wsIn) : wsIn[i].kind = "close" => i = Len(wsIn) /\ client = "closing"
  /\ outcome["reader"] = "nil" => /\ Returned("reader") /\ client = "closing"
                                  /\ Len(toTarget) = sent["toTarget"]

\* The chunks not read yet continue those taken; only a reset loses some.
ChunksInv ==
  /\ Counting(toClient, "writer")
  /\ sent["toClient"] <= MaxChunks
  /\ \A i \in 1 .. Len(tcpIn) : tcpIn[i] = Taken("writer", toClient) + i
  /\ Taken("writer", toClient) + Len(tcpIn) <= sent["toClient"]
  /\ target # "reset" => Taken("writer", toClient) + Len(tcpIn) = sent["toClient"]
  /\ outcome["writer"] = "nil" => /\ Returned("writer") /\ target = "closed"
                                  /\ Len(toClient) = sent["toClient"]

\* A step that leaves the reader and what it works on alone.
ReaderAlone == /\ UNCHANGED <<wsIn, toTarget, client>> /\ sent'["toTarget"] = sent["toTarget"]
               /\ pc'["reader"] = pc["reader"] /\ held'["reader"] = held["reader"]
               /\ outcome'["reader"] = outcome["reader"]

\* The same for the writer.
WriterAlone == /\ UNCHANGED <<tcpIn, toClient, target>> /\ sent'["toClient"] = sent["toClient"]
               /\ pc'["writer"] = pc["writer"] /\ held'["writer"] = held["writer"]
               /\ outcome'["writer"] = outcome["writer"]

\* Then what is said of it still holds.
LEMMA ReaderAloneKeeps == FramesInv /\ ReaderAlone => FramesInv'
BY DEF FramesInv, ReaderAlone, Counting, Taken, Returned, Pending

\* Likewise for the writer.
LEMMA WriterAloneKeeps == ChunksInv /\ WriterAlone => ChunksInv'
BY DEF ChunksInv, WriterAlone, Counting, Taken, Returned

\* The pump from the WebSocket takes the frames in the order they were sent.
LEMMA ReaderKeepsFrames == TypeOK /\ FramesInv /\ ReaderStep => FramesInv'
<1> SUFFICES ASSUME TypeOK, FramesInv, ReaderStep PROVE FramesInv'
  OBVIOUS
<1> DEFINE n == Len(toTarget)  s == sent["toTarget"]
<1> USE DEF Counting, Taken, Returned, Goto, Return, Pumps, Threads
<1>0. /\ pc \in [Threads -> Locations] /\ held \in [Pumps -> Nat]
      /\ outcome \in [{"run", "bridge", "reader", "writer"} -> {"none", "nil", "err"}]
      /\ wsIn \in Seq(Frames)
      /\ s \in Nat /\ toTarget \in Seq(1 .. MaxFrames) /\ n \in Nat
  BY DEF TypeOK, Frames
<1>1. ASSUME wsIn # <<>>, wsIn' = Tail(wsIn), client' = client
      PROVE  /\ Head(wsIn) = wsIn[1] /\ Len(wsIn) \in Nat \ {0} /\ Len(wsIn') = Len(wsIn) - 1
             /\ \A i \in 1 .. Len(wsIn') : wsIn'[i].kind # "binary" => wsIn'[i].id = 0
             /\ \A i \in 1 .. Len(wsIn') :
                  wsIn'[i].kind = "close" => i = Len(wsIn') /\ client' = "closing"
  <2>1. /\ Len(wsIn) \in Nat \ {0} /\ Len(wsIn') = Len(wsIn) - 1 /\ Head(wsIn) = wsIn[1]
        /\ \A i \in 1 .. Len(wsIn') : wsIn'[i] = wsIn[i + 1] /\ i + 1 \in 1 .. Len(wsIn)
    BY <1>0, <1>1
  <2>2. \A i \in 1 .. Len(wsIn') : wsIn'[i].kind # "binary" => wsIn'[i].id = 0
    BY <2>1 DEF FramesInv
  <2>3. \A i \in 1 .. Len(wsIn') : wsIn'[i].kind = "close" => i = Len(wsIn') /\ client' = "closing"
    <3> TAKE i \in 1 .. Len(wsIn')
    <3>1. wsIn[i + 1].kind = "close" => i + 1 = Len(wsIn) /\ client = "closing"
      BY <2>1 DEF FramesInv
    <3>2. client' = client
      BY <1>1
    <3> QED
      BY <2>1, <3>1, <3>2
  <2> QED
    BY <2>1, <2>2, <2>3
<1>2. CASE ReaderGetsFrame
  <2>1. /\ wsIn # <<>> /\ wsIn' = Tail(wsIn) /\ UNCHANGED <<toTarget, sent, client, outcome>>
        /\ held["reader"] = 0 /\ pc["reader"] = "read"
        /\ held'["reader"] = Head(wsIn).id
        /\ pc'["reader"] = IF Head(wsIn).kind = "binary" THEN "write" ELSE "read"
    BY <1>0, <1>2 DEF ReaderGetsFrame, FramesInv, control
  <2>2. Pending(wsIn, n, s) /\ n <= s
    BY <1>0, <2>1 DEF FramesInv
  <2>3. CASE Head(wsIn).kind = "binary"
    <3>1. n < s /\ Head(wsIn).id = n + 1 /\ Pending(wsIn', n + 1, s)
      BY <1>0, <2>1, <2>2, <2>3, PendingNext
    <3>2. Taken("reader", toTarget)' = n + 1
      BY <1>0, <2>1, <3>1
    <3>3. Counting(toTarget, "reader")'
      BY <1>0, <2>1, <2>3, <3>1 DEF FramesInv
    <3> QED
      BY <1>0, <1>1, <2>1, <3>1, <3>2, <3>3 DEF FramesInv
  <2>4. CASE Head(wsIn).kind # "binary"
    <3>1. Pending(wsIn', n, s)
      BY <1>0, <2>1, <2>2, <2>4, PendingSkip
    <3>2. Head(wsIn).id = 0
      BY <1>0, <1>1, <2>1, <2>4 DEF FramesInv
    <3>3. Taken("reader", toTarget)' = n /\ Counting(toTarget, "reader")'
      BY <1>0, <2>1, <2>4, <3>2 DEF FramesInv
    <3> QED
      BY <1>0, <1>1, <2>1, <2>2, <3>1, <3>3 DEF FramesInv
  <2> QED
    BY <2>3, <2>4
<1>3. CASE ReaderGetsClose
  <2>1. /\ wsIn # <<>> /\ wsIn' = Tail(wsIn) /\ UNCHANGED <<toTarget, sent, client, held>>
        /\ held["reader"] = 0 /\ pc["reader"] = "read" /\ pc'["reader"] = "send"
        /\ Head(wsIn).kind # "binary"
        /\ outcome'["reader"] = IF Head(wsIn).kind = "close" THEN "nil" ELSE "err"
    BY <1>0, <1>3 DEF ReaderGetsClose, FramesInv, data
  <2>2. Pending(wsIn', n, s) /\ n <= s
    BY <1>0, <2>1, PendingSkip DEF FramesInv
  <2>3. Head(wsIn).kind = "close" => client = "closing" /\ Len(wsIn') = 0
    <3>1. Head(wsIn) = wsIn[1] /\ Len(wsIn) \in Nat \ {0} /\ Len(wsIn') = Len(wsIn) - 1
      BY <1>0, <2>1
    <3>2. wsIn[1].kind = "close" => 1 = Len(wsIn) /\ client = "closing"
      BY <3>1 DEF FramesInv
    <3> QED
      BY <3>1, <3>2
  <2>4. Len(wsIn') = 0 => n = s
    BY <1>0, <2>2 DEF Pending
  <2>5. Taken("reader", toTarget)' = n /\ Counting(toTarget, "reader")'
    BY <1>0, <2>1 DEF FramesInv
  <2> QED
    BY <1>0, <1>1, <2>1, <2>2, <2>3, <2>4, <2>5 DEF FramesInv
<1>4. CASE ReaderWrites
  <2>1. /\ UNCHANGED <<wsIn, sent, client, outcome>> /\ held["reader"] = n + 1
        /\ pc["reader"] = "write" /\ pc'["reader"] = "read" /\ held'["reader"] = 0
        /\ toTarget' = Append(toTarget, n + 1)
    BY <1>0, <1>4 DEF ReaderWrites, FramesInv, peers, control
  <2>2. Len(toTarget') = n + 1 /\ \A i \in 1 .. n + 1 : toTarget'[i] = i
    BY <1>0, <2>1 DEF FramesInv
  <2>3. Taken("reader", toTarget) = n + 1 /\ Taken("reader", toTarget)' = n + 1
    BY <1>0, <2>1, <2>2
  <2> QED
    BY <1>0, <2>1, <2>2, <2>3 DEF FramesInv
<1>5. CASE ReaderFails \/ ReaderWriteFails \/ PumpSends("reader")
  <2>1. /\ UNCHANGED <<wsIn, sent, toTarget, client, held>>
        /\ \/ pc["reader"] \in {"read", "write"} /\ pc'["reader"] = "send" /\ outcome'["reader"] = "err"
           \/ pc["reader"] = "send" /\ pc'["reader"] = "done" /\ UNCHANGED outcome
    BY <1>0, <1>5 DEF ReaderFails, ReaderWriteFails, PumpSends, peers, data
  <2> QED
    BY <1>0, <2>1 DEF FramesInv
<1> QED
  BY <1>2, <1>3, <1>4, <1>5 DEF ReaderStep

\* The pump from the target takes the chunks in the order they were sent.
LEMMA WriterKeepsChunks ==
  TypeOK /\ ChunksInv /\ (WriterStep \/ Lock("writer")) => ChunksInv'
<1> SUFFICES ASSUME TypeOK, ChunksInv, WriterStep \/ Lock("writer") PROVE ChunksInv'
  OBVIOUS
<1> DEFINE n == Len(toClient)  s == sent["toClient"]
<1> USE DEF Counting, Taken, Returned, Goto, Return, Pumps, Threads
<1>0. /\ pc \in [Threads -> Locations] /\ held \in [Pumps -> Nat]
      /\ outcome \in [{"run", "bridge", "reader", "writer"} -> {"none", "nil", "err"}]
      /\ tcpIn \in Seq(Nat) /\ Len(tcpIn) \in Nat
      /\ s \in Nat /\ toClient \in Seq(1 .. MaxChunks) /\ n \in Nat
  BY DEF TypeOK
<1>1. CASE WriterReads
  <2>1. /\ tcpIn # <<>> /\ tcpIn' = Tail(tcpIn) /\ UNCHANGED <<toClient, sent, target, outcome>>
        /\ pc["writer"] = "read" /\ pc'["writer"] = "lock"
        /\ held["writer"] = 0 /\ held'["writer"] = Head(tcpIn)
    BY <1>0, <1>1 DEF WriterReads, ChunksInv, control
  <2>2. /\ Head(tcpIn) = tcpIn[1] /\ Len(tcpIn) \in Nat \ {0} /\ Len(tcpIn') = Len(tcpIn) - 1
        /\ \A i \in 1 .. Len(tcpIn') : i + 1 \in 1 .. Len(tcpIn) /\ tcpIn'[i] = tcpIn[i + 1]
    BY <1>0, <2>1
  <2>3. Head(tcpIn) = n + 1 /\ \A i \in 1 .. Len(tcpIn') : tcpIn'[i] = n + 1 + i
    BY <1>0, <2>1, <2>2 DEF ChunksInv
  <2>4. Taken("writer", toClient) = n /\ Taken("writer", toClient)' = n + 1
    BY <1>0, <2>1, <2>3
  <2> QED
    BY <1>0, <2>1, <2>2, <2>3, <2>4 DEF ChunksInv
<1>2. CASE WriterEOF
  BY <1>0, <1>2 DEF WriterEOF, ChunksInv, peers, data
<1>3. CASE WriterWrites
  <2>1. /\ UNCHANGED <<tcpIn, sent, target, outcome>> /\ held["writer"] = n + 1
        /\ pc["writer"] = "write" /\ pc'["writer"] = "read" /\ held'["writer"] = 0
        /\ toClient' = Append(toClient, n + 1)
    BY <1>0, <1>3 DEF WriterWrites, ChunksInv, peers, control
  <2>2. Len(toClient') = n + 1 /\ \A i \in 1 .. n + 1 : toClient'[i] = i
    BY <1>0, <2>1 DEF ChunksInv
  <2>3. Taken("writer", toClient) = n + 1 /\ Taken("writer", toClient)' = n + 1
    BY <1>0, <2>1, <2>2
  <2> QED
    BY <1>0, <2>1, <2>2, <2>3 DEF ChunksInv
<1>4. CASE WriterReadFails \/ WriterWriteFails \/ PumpSends("writer") \/ Lock("writer")
  <2>1. /\ UNCHANGED <<tcpIn, sent, toClient, target, held>>
        /\ \/ pc["writer"] \in {"read", "write"} /\ pc'["writer"] = "send" /\ outcome'["writer"] = "err"
           \/ pc["writer"] = "send" /\ pc'["writer"] = "done" /\ UNCHANGED outcome
           \/ pc["writer"] = "lock" /\ pc'["writer"] = "write" /\ UNCHANGED outcome
    BY <1>0, <1>4 DEF WriterReadFails, WriterWriteFails, PumpSends, Lock, peers, data, control
  <2> QED
    BY <1>0, <2>1 DEF ChunksInv
<1> QED
  BY <1>1, <1>2, <1>3, <1>4 DEF WriterStep

\* The client adds frames behind the others, and none behind its close frame.
LEMMA ClientKeepsFrames ==
  ASSUME TypeOK, FramesInv,
         (\E k \in FrameKinds : ClientSends(k)) \/ ClientCloses \/ ClientVanishes
  PROVE  FramesInv'
<1> DEFINE lo == Taken("reader", toTarget)  s == sent["toTarget"]
<1>0. /\ wsIn \in Seq(Frames) /\ Len(wsIn) \in Nat /\ s \in Nat /\ lo \in Nat
      /\ sent \in [{"toTarget", "toClient"} -> Nat]
      /\ \A i \in 1 .. Len(wsIn) : client = "up" => wsIn[i].kind # "close"
  <2>1. Len(toTarget) \in Nat
    BY DEF TypeOK
  <2> QED
    BY <2>1 DEF TypeOK, Frames, Taken, FramesInv
<1>1. client = "up" /\ UNCHANGED <<pc, outcome, held, toTarget>>
  BY DEF ClientSends, ClientCloses, ClientVanishes, control, data
<1>2. Taken("reader", toTarget)' = lo /\ Counting(toTarget, "reader")' /\ outcome["reader"] # "nil"
  BY <1>1 DEF FramesInv, Taken, Counting
<1>3. ASSUME NEW f \in Frames, wsIn' = Append(wsIn, f), f.kind # "binary" => f.id = 0,
             f.kind = "close" => client' = "closing"
      PROVE  /\ \A i \in 1 .. Len(wsIn') : wsIn'[i].kind # "binary" => wsIn'[i].id = 0
             /\ \A i \in 1 .. Len(wsIn') :
                  wsIn'[i].kind = "close" => i = Len(wsIn') /\ client' = "closing"
  <2>1. /\ Len(wsIn') = Len(wsIn) + 1 /\ wsIn'[Len(wsIn')] = f
        /\ \A i \in 1 .. Len(wsIn) : wsIn'[i] = wsIn[i]
    BY <1>0, <1>3
  <2>2. \A i \in 1 .. Len(wsIn') : i = Len(wsIn') \/ i \in 1 .. Len(wsIn)
    BY <1>0, <2>1
  <2>3. f.kind # "binary" => f.id = 0
    BY <1>3
  <2>4. f.kind = "close" => client' = "closing"
    BY <1>3
  <2> QED
    BY <1>0, <1>1, <2>1, <2>2, <2>3, <2>4 DEF FramesInv
<1>4. ASSUME NEW k \in FrameKinds, ClientSends(k) PROVE FramesInv'
  <2> DEFINE f == Frame(k, IF k = "binary" THEN s + 1 ELSE 0)
             m == IF k = "binary" THEN s + 1 ELSE s
  <2>1. /\ f \in Frames /\ f.kind = k /\ f.id = (IF k = "binary" THEN s + 1 ELSE 0)
        /\ k # "close"
    BY <1>0, KindsAssumption DEF Frame, Frames
  <2>2. /\ wsIn' = Append(wsIn, f) /\ client' = client /\ sent'["toTarget"] = m
        /\ s + Len(wsIn) < MaxFrames
    BY <1>0, <1>4 DEF ClientSends
  <2>3. Pending(wsIn', lo, m) /\ lo <= m /\ m <= MaxFrames
    <3>1. Pending(wsIn, lo, s) /\ lo <= s /\ m \in Nat
      BY <1>0 DEF FramesInv
    <3>2. Pending(wsIn', lo, m)
      BY <1>0, <2>1, <2>2, <3>1, PendingAppend
    <3> QED
      BY <1>0, <2>2, <3>1, <3>2, BoundsAssumption
  <2> HIDE DEF f, m
  <2> QED
    BY <1>1, <1>2, <1>3, <2>1, <2>2, <2>3 DEF FramesInv
<1>5. CASE ClientCloses
  <2> DEFINE f == Frame("close", 0)
  <2>1. f \in Frames /\ f.kind = "close" /\ f.id = 0
    BY DEF Frame, Frames
  <2>2. wsIn' = Append(wsIn, f) /\ client' = "closing" /\ sent' = sent
    BY <1>5 DEF ClientCloses
  <2>3. Pending(wsIn', lo, s)
    <3>1. Pending(wsIn, lo, s) /\ lo <= s
      BY DEF FramesInv
    <3> QED
      BY <1>0, <2>1, <2>2, <3>1, PendingAppend
  <2> HIDE DEF f
  <2> QED
    BY <1>1, <1>2, <1>3, <2>1, <2>2, <2>3 DEF FramesInv
<1>6. CASE ClientVanishes
  <2>1. client' = "silent" /\ UNCHANGED <<wsIn, sent>>
    BY <1>6 DEF ClientVanishes
  <2> QED
    BY <1>0, <1>1, <1>2, <2>1 DEF FramesInv
<1> QED
  BY <1>4, <1>5, <1>6

\* The target adds chunks behind the others, and none after its EOF or reset.
LEMMA TargetKeepsChunks ==
  ASSUME TypeOK, ChunksInv,
         TargetSends \/ \E v \in {"stalled", "closed", "reset"} : TargetBecomes(v)
  PROVE  ChunksInv'
<1>0. /\ tcpIn \in Seq(Nat) /\ Len(tcpIn) \in Nat /\ sent["toClient"] \in Nat
      /\ sent \in [{"toTarget", "toClient"} -> Nat] /\ Taken("writer", toClient) \in Nat
      /\ MaxChunks \in Nat
  <2>1. Len(toClient) \in Nat
    BY DEF TypeOK
  <2> QED
    BY <2>1, BoundsAssumption DEF TypeOK, Taken
<1>1. UNCHANGED <<pc, outcome, held, toClient>>
  BY DEF TargetSends, TargetBecomes, control, data
<1>2. Taken("writer", toClient)' = Taken("writer", toClient) /\ Counting(toClient, "writer")'
  BY <1>1 DEF ChunksInv, Taken, Counting
<1>3. CASE TargetSends
  <2>1. /\ Len(tcpIn') = Len(tcpIn) + 1 /\ tcpIn'[Len(tcpIn')] = sent["toClient"] + 1
        /\ \A i \in 1 .. Len(tcpIn) : tcpIn'[i] = tcpIn[i]
    BY <1>0, <1>3 DEF TargetSends
  <2>2. /\ target \in {"up", "stalled"} /\ target' = target
        /\ sent["toClient"] < MaxChunks /\ sent'["toClient"] = sent["toClient"] + 1
    BY <1>0, <1>3 DEF TargetSends
  <2>3. \A i \in 1 .. Len(tcpIn') : tcpIn'[i] = Taken("writer", toClient) + i
    <3>1. /\ sent["toClient"] = Taken("writer", toClient) + Len(tcpIn)
          /\ \A i \in 1 .. Len(tcpIn) : tcpIn[i] = Taken("writer", toClient) + i
      BY <2>2 DEF ChunksInv
    <3>2. \A i \in 1 .. Len(tcpIn') : i = Len(tcpIn') \/ i \in 1 .. Len(tcpIn)
      BY <1>0, <2>1
    <3>3. tcpIn'[Len(tcpIn')] = Taken("writer", toClient) + Len(tcpIn')
      BY <1>0, <2>1, <3>1
    <3> QED
      BY <2>1, <3>1, <3>2, <3>3
  <2> QED
    BY <1>0, <1>1, <1>2, <2>1, <2>2, <2>3 DEF ChunksInv
<1>4. ASSUME NEW v \in {"stalled", "closed", "reset"}, TargetBecomes(v) PROVE ChunksInv'
  <2>1. /\ target = "up" /\ target' = v /\ tcpIn' = (IF v = "reset" THEN <<>> ELSE tcpIn)
        /\ sent' = sent
    BY <1>4 DEF TargetBecomes
  <2> QED
    BY <1>0, <1>1, <1>2, <2>1 DEF ChunksInv
<1> QED
  BY <1>3, <1>4

\* What the channels hold and the goroutines return: nil only if a pump returned nil,
\* and no more than the channels have room for.
One(p) == IF p THEN 1 ELSE 0
Clean == "nil" \in {outcome["reader"], outcome["writer"]}
ResultsInv ==
  /\ \A i \in 1 .. Len(errChan) : errChan[i] = "nil" => Clean
  /\ \A i \in 1 .. Len(bridgeErr) : bridgeErr[i] = "nil" => Clean
  /\ outcome["bridge"] = "nil" \/ outcome["run"] = "nil" => Clean
  /\ pc["bridge"] \in {"none", "wait", "send", "done"}
  /\ Len(errChan) + One(Returned("bridge")) = One(pc["reader"] = "done") + One(pc["writer"] = "done")
  /\ bridgeErr # <<>> => pc["bridge"] = "done"
  /\ \A t \in Pumps \cup {"bridge"} : Returned(t) => outcome[t] # "none"

SInv == TypeOK /\ IInv /\ FramesInv /\ ChunksInv /\ ResultsInv

\* The type invariant in three parts: of the goroutines, of the channels, of the data.
ControlTypes ==
  /\ pc \in [Threads -> Locations]
  /\ ctxDone \in BOOLEAN /\ wsOpen \in BOOLEAN /\ tcpOpen \in BOOLEAN /\ wsWriteErr \in BOOLEAN
  /\ writeMu \in Lockers \cup {"free"}
  /\ outcome \in [{"run", "bridge", "reader", "writer"} -> {"none", "nil", "err"}]
ChannelTypes == /\ errChan \in Seq({"nil", "err"}) /\ Len(errChan) <= 2
                /\ bridgeErr \in Seq({"nil", "err"}) /\ Len(bridgeErr) <= 1
DataTypes ==
  /\ client \in {"up", "closing", "silent"}
  /\ target \in {"up", "stalled", "closed", "reset"}
  /\ wsIn \in Seq([kind : FrameKinds \cup {"close"}, id : Nat]) /\ tcpIn \in Seq(Nat)
  /\ sent \in [{"toTarget", "toClient"} -> Nat] /\ held \in [Pumps -> Nat]
  /\ toTarget \in Seq(1 .. MaxFrames) /\ toClient \in Seq(1 .. MaxChunks)

\* These are the parts.
LEMMA TypeParts == TypeOK <=> ControlTypes /\ ChannelTypes /\ DataTypes
BY Zenon DEF TypeOK, ControlTypes, ChannelTypes, DataTypes

\* The same after a step.
LEMMA TypePartsNext == TypeOK' <=> ControlTypes' /\ ChannelTypes' /\ DataTypes'
BY Zenon DEF TypeOK, ControlTypes, ChannelTypes, DataTypes

\* Goroutines stay at known locations with known results.
LEMMA StepControl == IInv /\ ControlTypes /\ ChannelTypes /\ [Next]_vars => ControlTypes'
<1> SUFFICES ASSUME IInv, ControlTypes, ChannelTypes, [Next]_vars PROVE ControlTypes'
  OBVIOUS
<1> DEFINE Set(t, v) == outcome' = [outcome EXCEPT ![t] = v]
           Flags == /\ ctxDone' = ctxDone \/ ctxDone' = TRUE
                    /\ wsWriteErr' = wsWriteErr \/ wsWriteErr' = TRUE
                    /\ writeMu' = writeMu \/ writeMu' \in Lockers \/ writeMu' = "free"
<1>1. ASSUME Flags,
             \/ outcome' = outcome
             \/ \E t \in {"run", "bridge", "reader", "writer"}, v \in {"nil", "err"} : Set(t, v)
      PROVE  ControlTypes'
  <2>1. pc' \in [Threads -> Locations] /\ wsOpen' \in BOOLEAN /\ tcpOpen' \in BOOLEAN
    BY StepIInv DEF IInv
  <2>2. ctxDone' \in BOOLEAN /\ wsWriteErr' \in BOOLEAN
    <3>1. ctxDone \in BOOLEAN /\ wsWriteErr \in BOOLEAN
      BY DEF ControlTypes
    <3>2. ctxDone' \in BOOLEAN
      BY <1>1, <3>1, Zenon
    <3>3. wsWriteErr' \in BOOLEAN
      BY <1>1, <3>1, Zenon
    <3> QED
      BY <3>2, <3>3
  <2>3. writeMu' \in Lockers \cup {"free"}
    BY <1>1 DEF ControlTypes
  <2>4. outcome' \in [{"run", "bridge", "reader", "writer"} -> {"none", "nil", "err"}]
    BY <1>1 DEF ControlTypes
  <2> QED
    BY <2>1, <2>2, <2>3, <2>4 DEF ControlTypes
<1>2. CASE RunStep
  <2>1. Flags
    BY <1>2 DEF RunStep, StartFails, Establish, SelectBridgeErr, SelectDone, StopTimer, Cancel,
                JoinPing, CloseTCP, CloseWS, Release, control, sockets
  <2>2. CASE SelectBridgeErr
    <3>1. Head(bridgeErr) \in {"nil", "err"} /\ Set("run", Head(bridgeErr))
      BY <2>2 DEF SelectBridgeErr, ChannelTypes
    <3> QED
      BY <1>1, <2>1, <3>1, Zenon
  <2>3. CASE StartFails \/ SelectDone
    <3>1. Set("run", "err")
      BY <2>3 DEF StartFails, SelectDone
    <3> QED
      BY <1>1, <2>1, <3>1, Zenon
  <2>4. CASE Establish \/ StopTimer \/ Cancel \/ JoinPing \/ CloseTCP \/ CloseWS \/ Release
    <3>1. outcome' = outcome
      BY <2>4 DEF Establish, StopTimer, Cancel, JoinPing, CloseTCP, CloseWS, Release, control
    <3> QED
      BY <1>1, <2>1, <3>1, Zenon
  <2> QED
    BY <1>2, <2>2, <2>3, <2>4 DEF RunStep
<1>3. CASE PingStep \/ TimerStep \/ \E t \in Lockers : Lock(t)
  <2>1. Flags /\ outcome' = outcome
    BY <1>3 DEF PingStep, PingSeesDone, PingTick, PingWrites, PingFails, TimerStep, TimerFires,
                TimerWritesClose, GraceEnds, Lock, Unlock, control, sockets
  <2> QED
    BY <1>1, <2>1, Zenon
<1>4. CASE BridgeStep
  <2>1. Flags
    BY <1>4 DEF BridgeStep, BridgeCloses, BridgeSends, sockets
  <2>2. CASE BridgeCloses
    <3>1. Head(errChan) \in {"nil", "err"} /\ Set("bridge", Head(errChan))
      BY <2>2 DEF BridgeCloses, ChannelTypes, Return
    <3> QED
      BY <1>1, <2>1, <3>1, Zenon
  <2>3. CASE BridgeSends
    <3>1. outcome' = outcome
      BY <2>3 DEF BridgeSends
    <3> QED
      BY <1>1, <2>1, <3>1
  <2> QED
    BY <1>4, <2>2, <2>3 DEF BridgeStep
<1>5. CASE ReaderStep
  <2>1. Flags
    BY <1>5 DEF ReaderStep, ReaderGetsFrame, ReaderGetsClose, ReaderFails, ReaderWrites,
                ReaderWriteFails, PumpSends, control, sockets
  <2>2. outcome' = outcome \/ \E v \in {"nil", "err"} : Set("reader", v)
    BY <1>5 DEF ReaderStep, ReaderGetsFrame, ReaderGetsClose, ReaderFails, ReaderWrites,
                ReaderWriteFails, PumpSends, Return, control
  <2> QED
    BY <1>1, <2>1, <2>2, Zenon
<1>6. CASE WriterStep
  <2>1. Flags
    BY <1>6 DEF WriterStep, WriterReads, WriterEOF, WriterReadFails, WriterWrites,
                WriterWriteFails, PumpSends, Unlock, control, sockets
  <2>2. outcome' = outcome \/ \E v \in {"nil", "err"} : Set("writer", v)
    BY <1>6 DEF WriterStep, WriterReads, WriterEOF, WriterReadFails, WriterWrites,
                WriterWriteFails, PumpSends, Return, control
  <2> QED
    BY <1>1, <2>1, <2>2, Zenon
<1>7. CASE Environment \/ UNCHANGED vars
  <2>1. Flags /\ outcome' = outcome
    BY <1>7 DEF Environment, ClientSends, ClientCloses, ClientVanishes, TargetSends, TargetBecomes,
                vars, control, sockets
  <2> QED
    BY <1>1, <2>1
<1> QED
  BY <1>2, <1>3, <1>4, <1>5, <1>6, <1>7 DEF Next, Terminated

\* Only payloads that were sent are taken and written.
LEMMA StepData == TypeOK /\ FramesInv /\ ChunksInv /\ [Next]_vars => DataTypes'
<1> SUFFICES ASSUME TypeOK, FramesInv, ChunksInv, [Next]_vars PROVE DataTypes'
  OBVIOUS
<1>0. ControlTypes /\ DataTypes
  BY TypeParts
<1> USE BoundsAssumption DEF DataTypes, Pumps
<1>1. CASE \/ RunStep \/ PingStep \/ TimerStep \/ BridgeStep \/ \E t \in Lockers : Lock(t)
           \/ UNCHANGED vars
  <2>1. UNCHANGED <<peers, data>>
    BY <1>1, Zenon DEF RunStep, StartFails, Establish, SelectBridgeErr, SelectDone, StopTimer, Cancel,
                JoinPing, CloseTCP, CloseWS, Release, PingStep, PingSeesDone, PingTick, PingWrites,
                PingFails, TimerStep, TimerFires, TimerWritesClose, GraceEnds, BridgeStep,
                BridgeCloses, BridgeSends, Lock, vars
  <2> QED
    BY <1>0, <2>1 DEF peers, data
<1>2. CASE ReaderStep
  <2>1. CASE ReaderGetsFrame
    <3>1. wsIn \in Seq(Frames) /\ wsIn # <<>>
      BY <1>0, <2>1 DEF ReaderGetsFrame, Frames
    <3>2. Head(wsIn) \in Frames /\ Tail(wsIn) \in Seq(Frames)
      BY <3>1
    <3>3. Head(wsIn).id \in Nat
      BY <3>2 DEF Frames
    <3> QED
      BY <1>0, <2>1, <3>2, <3>3 DEF ReaderGetsFrame, Frames
  <2>2. CASE ReaderGetsClose
    BY <1>0, <2>2 DEF ReaderGetsClose, data
  <2>3. CASE ReaderWrites
    <3>1. held["reader"] \in 1 .. MaxFrames
      <4>1. pc["reader"] = "write" /\ Len(toTarget) \in Nat /\ sent["toTarget"] \in Nat
        BY <1>0, <2>3 DEF ReaderWrites, Goto
      <4> QED
        BY <1>0, <4>1 DEF FramesInv, Counting, Taken
    <3> QED
      BY <1>0, <2>3, <3>1 DEF ReaderWrites, peers
  <2>4. CASE ReaderFails \/ ReaderWriteFails \/ PumpSends("reader")
    BY <1>0, <2>4 DEF ReaderFails, ReaderWriteFails, PumpSends, peers, data
  <2> QED
    BY <1>2, <2>1, <2>2, <2>3, <2>4 DEF ReaderStep
<1>3. CASE WriterStep
  <2>1. CASE WriterReads
    BY <1>0, <2>1 DEF WriterReads
  <2>2. CASE WriterWrites
    <3>1. held["writer"] \in 1 .. MaxChunks
      <4>1. pc["writer"] = "write" /\ Len(toClient) \in Nat /\ sent["toClient"] \in Nat
            /\ Len(tcpIn) \in Nat
        BY <1>0, <2>2 DEF WriterWrites, Goto
      <4> QED
        BY <1>0, <4>1 DEF ChunksInv, Counting, Taken
    <3> QED
      BY <1>0, <2>2, <3>1 DEF WriterWrites, peers
  <2>3. CASE WriterEOF \/ WriterReadFails \/ WriterWriteFails \/ PumpSends("writer")
    BY <1>0, <2>3 DEF WriterEOF, WriterReadFails, WriterWriteFails, PumpSends, peers, data
  <2> QED
    BY <1>3, <2>1, <2>2, <2>3 DEF WriterStep
<1>4. CASE Environment
  <2>1. ASSUME NEW k \in FrameKinds, ClientSends(k) PROVE DataTypes'
    <3>1. Frame(k, IF k = "binary" THEN sent["toTarget"] + 1 ELSE 0)
            \in [kind : FrameKinds \cup {"close"}, id : Nat]
      BY <1>0 DEF Frame
    <3> QED
      BY <1>0, <2>1, <3>1 DEF ClientSends, data
  <2>2. CASE ClientCloses
    <3>1. Frame("close", 0) \in [kind : FrameKinds \cup {"close"}, id : Nat]
      BY DEF Frame
    <3> QED
      BY <1>0, <2>2, <3>1 DEF ClientCloses, data
  <2>3. CASE ClientVanishes
    BY <1>0, <2>3 DEF ClientVanishes, data
  <2>4. CASE TargetSends
    <3>1. sent["toClient"] + 1 \in Nat
      BY <1>0
    <3> QED
      BY <1>0, <2>4, <3>1 DEF TargetSends, data
  <2>5. ASSUME NEW v \in {"stalled", "closed", "reset"}, TargetBecomes(v) PROVE DataTypes'
    BY <1>0, <2>5 DEF TargetBecomes, data
  <2> QED
    BY <1>4, <2>1, <2>2, <2>3, <2>4, <2>5, Zenon DEF Environment
<1> QED
  BY <1>1, <1>2, <1>3, <1>4 DEF Next, Terminated

\* The channels keep their types, and what ResultsInv says of them.
LEMMA StepResults == SInv /\ [Next]_vars => ChannelTypes' /\ ResultsInv'
<1> SUFFICES ASSUME SInv, [Next]_vars PROVE ChannelTypes' /\ ResultsInv'
  OBVIOUS
<1>0. /\ pc \in [Threads -> Locations] /\ ChannelTypes /\ ResultsInv
      /\ outcome \in [{"run", "bridge", "reader", "writer"} -> {"none", "nil", "err"}]
      /\ pc["run"] = "dial" => pc["bridge"] = "none" /\ pc["reader"] = "none" /\ pc["writer"] = "none"
      /\ \A t \in Pumps : outcome[t] = "nil" => Returned(t)
  BY TypeParts DEF SInv, IInv, ControlTypes, Others, Threads, FramesInv, ChunksInv, Pumps
<1> DEFINE Rest == {"bridge", "reader", "writer"}
\* A step away from the bridge, its pumps and the channels, with no nil of Run's own.
<1>1. ASSUME UNCHANGED <<errChan, bridgeErr>>,
             \A t \in Rest : pc'[t] = pc[t] /\ outcome'[t] = outcome[t],
             outcome'["run"] = outcome["run"] \/ outcome'["run"] = "err"
      PROVE  ChannelTypes' /\ ResultsInv'
  <2>1. /\ pc'["bridge"] = pc["bridge"] /\ outcome'["bridge"] = outcome["bridge"]
        /\ \A t \in Pumps : pc'[t] = pc[t] /\ outcome'[t] = outcome[t]
    BY <1>1 DEF Pumps
  <2> QED
    BY <1>0, <1>1, <2>1 DEF ChannelTypes, ResultsInv, Returned, Clean, Pumps
<1>2. CASE RunStep
  <2>1. CASE Establish
    BY <1>0, <2>1 DEF Establish, ChannelTypes, ResultsInv, Returned, Clean, Pumps, control, One
  <2>2. CASE SelectBridgeErr
    <3>1. UNCHANGED errChan /\ bridgeErr # <<>> /\ bridgeErr' = Tail(bridgeErr)
      BY <2>2 DEF SelectBridgeErr
    <3>2. /\ \A t \in Rest : pc'[t] = pc[t] /\ outcome'[t] = outcome[t]
          /\ outcome'["run"] = bridgeErr[1]
      BY <1>0, <2>2 DEF SelectBridgeErr, Goto, Threads, ChannelTypes
    <3>3. /\ Len(bridgeErr) = 1 /\ Len(bridgeErr') = 0 /\ bridgeErr' \in Seq({"nil", "err"})
          /\ pc["bridge"] = "done"
      <4>1. bridgeErr \in Seq({"nil", "err"}) /\ Len(bridgeErr) <= 1 /\ bridgeErr # <<>>
        BY <1>0, <3>1 DEF ChannelTypes
      <4>2. Len(bridgeErr) \in Nat \ {0} /\ Tail(bridgeErr) \in Seq({"nil", "err"})
            /\ Len(Tail(bridgeErr)) = Len(bridgeErr) - 1
        BY <4>1
      <4> QED
        BY <1>0, <3>1, <4>1, <4>2 DEF ResultsInv
    <3>4. ChannelTypes'
      BY <1>0, <3>1, <3>3 DEF ChannelTypes
    <3>5. /\ outcome'["bridge"] = outcome["bridge"] /\ pc'["bridge"] = pc["bridge"]
          /\ \A t \in Pumps : pc'[t] = pc[t] /\ outcome'[t] = outcome[t]
      BY <3>2 DEF Pumps
    <3>6. Clean' = Clean
      BY <3>5 DEF Clean, Pumps
    <3>7. outcome'["run"] = "nil" => Clean
      <4>1. 1 \in 1 .. Len(bridgeErr)
        BY <3>3
      <4> QED
        BY <1>0, <3>2, <4>1, Zenon DEF ResultsInv
    <3> QED
      BY <1>0, <3>1, <3>3, <3>4, <3>5, <3>6, <3>7 DEF ResultsInv, Returned, Pumps
  <2>3. CASE StartFails \/ SelectDone
    <3>1. UNCHANGED <<errChan, bridgeErr>>
      BY <2>3 DEF StartFails, SelectDone
    <3>2. \A t \in Rest : pc'[t] = pc[t] /\ outcome'[t] = outcome[t]
      BY <1>0, <2>3 DEF StartFails, SelectDone, Goto, Threads
    <3>3. outcome'["run"] = "err"
      BY <1>0, <2>3 DEF StartFails, SelectDone
    <3> QED
      BY <1>1, <3>1, <3>2, <3>3
  <2>4. CASE StopTimer \/ Cancel \/ JoinPing \/ CloseTCP \/ CloseWS \/ Release
    <3>1. UNCHANGED <<errChan, bridgeErr, outcome>>
      BY <2>4 DEF StopTimer, Cancel, JoinPing, CloseTCP, CloseWS, Release, control
    <3>2. \A t \in Rest : pc'[t] = pc[t]
      BY <1>0, <2>4 DEF StopTimer, Cancel, JoinPing, CloseTCP, CloseWS, Release, Goto, Threads
    <3> QED
      BY <1>1, <3>1, <3>2
  <2> QED
    BY <1>2, <2>1, <2>2, <2>3, <2>4 DEF RunStep
<1>3. CASE PingStep \/ TimerStep
  <2>1. UNCHANGED <<errChan, bridgeErr, outcome>>
    BY <1>3 DEF PingStep, PingSeesDone, PingTick, PingWrites, PingFails, TimerStep, TimerFires,
                TimerWritesClose, GraceEnds, control
  <2>2. \A t \in Rest : pc'[t] = pc[t]
    BY <1>0, <1>3 DEF PingStep, PingSeesDone, PingTick, PingWrites, PingFails, TimerStep, TimerFires,
                TimerWritesClose, GraceEnds, Goto, Threads
  <2> QED
    BY <1>1, <2>1, <2>2
<1>4. CASE BridgeStep
  <2>1. CASE BridgeCloses
    <3>1. /\ pc["bridge"] = "wait" /\ pc'["bridge"] = "send" /\ errChan # <<>>
          /\ \A t \in Pumps : pc'[t] = pc[t] /\ outcome'[t] = outcome[t]
          /\ outcome'["run"] = outcome["run"] /\ outcome'["bridge"] = errChan[1]
          /\ errChan' = Tail(errChan) /\ bridgeErr' = bridgeErr
      BY <1>0, <2>1 DEF BridgeCloses, Return, Goto, Threads, Pumps, ChannelTypes
    <3>2. /\ errChan[1] \in {"nil", "err"} /\ errChan' \in Seq({"nil", "err"})
          /\ Len(errChan) \in Nat \ {0} /\ Len(errChan') = Len(errChan) - 1
          /\ \A i \in 1 .. Len(errChan') : errChan'[i] = errChan[i + 1]
      BY <1>0, <3>1 DEF ChannelTypes
    <3>3. Clean' = Clean
      BY <3>1 DEF Clean, Pumps
    <3>4. /\ \A i \in 1 .. Len(errChan') : errChan'[i] = "nil" => Clean'
          /\ outcome'["bridge"] = "nil" => Clean'
      BY <1>0, <3>1, <3>2, <3>3 DEF ResultsInv
    <3>5. Len(errChan') + 1 = One(pc'["reader"] = "done") + One(pc'["writer"] = "done")
      BY <1>0, <3>1, <3>2 DEF ResultsInv, Returned, One, Pumps
    <3>6. ChannelTypes'
      BY <1>0, <3>1, <3>2 DEF ChannelTypes
    <3> QED
      BY <1>0, <3>1, <3>2, <3>3, <3>4, <3>5, <3>6 DEF ResultsInv, Returned, Pumps, One
  <2>2. CASE BridgeSends
    <3>1. /\ pc["bridge"] = "send" /\ pc'["bridge"] = "done" /\ Len(bridgeErr) < 1
          /\ \A t \in Pumps : pc'[t] = pc[t]
          /\ bridgeErr' = Append(bridgeErr, outcome["bridge"]) /\ UNCHANGED <<outcome, errChan>>
      BY <1>0, <2>2 DEF BridgeSends, Goto, Threads, Pumps
    <3>2. outcome["bridge"] \in {"nil", "err"}
      BY <1>0, <3>1 DEF ResultsInv, Returned
    <3>3. Len(bridgeErr) = 0 /\ bridgeErr' \in Seq({"nil", "err"})
      BY <1>0, <3>1, <3>2 DEF ChannelTypes
    <3>4. ChannelTypes' /\ Len(bridgeErr') = 1 /\ bridgeErr'[1] = outcome["bridge"]
      BY <1>0, <3>1, <3>2, <3>3 DEF ChannelTypes
    <3> QED
      BY <1>0, <3>1, <3>4 DEF ResultsInv, Returned, Clean, Pumps, One
  <2> QED
    BY <1>4, <2>1, <2>2 DEF BridgeStep
\* A pump that runs on, or that returns v.
<1>5. ASSUME NEW t \in Pumps, UNCHANGED <<errChan, bridgeErr>>, ~Returned(t),
             \A u \in Threads \ {t} : pc'[u] = pc[u], pc'[t] # "done",
             \/ outcome' = outcome /\ pc'[t] # "send"
             \/ \E v \in {"nil", "err"} : outcome' = [outcome EXCEPT ![t] = v]
      PROVE  ChannelTypes' /\ ResultsInv'
  <2>1. ChannelTypes'
    BY <1>0, <1>5 DEF ChannelTypes
  <2>2. Clean => Clean'
    <3>1. outcome[t] # "nil"
      BY <1>0, <1>5
    <3> QED
      BY <1>0, <1>5, <3>1 DEF Clean, Pumps
  <2> QED
    BY <1>0, <1>5, <2>1, <2>2 DEF ResultsInv, Returned, Pumps, Threads, One
<1>6. ASSUME NEW t \in Pumps, PumpSends(t) PROVE ChannelTypes' /\ ResultsInv'
  <2>1. /\ pc[t] = "send" /\ pc'[t] = "done" /\ Len(errChan) < 2
        /\ \A u \in Threads \ {t} : pc'[u] = pc[u]
        /\ errChan' = Append(errChan, outcome[t]) /\ UNCHANGED <<outcome, bridgeErr>>
    BY <1>0, <1>6 DEF PumpSends, Goto, Threads, Pumps
  <2>2. outcome[t] \in {"nil", "err"}
    BY <1>0, <2>1 DEF ResultsInv, Returned, Pumps
  <2>3. /\ Len(errChan') = Len(errChan) + 1 /\ errChan'[Len(errChan')] = outcome[t]
        /\ errChan' \in Seq({"nil", "err"}) /\ Len(errChan) \in Nat
        /\ \A i \in 1 .. Len(errChan) : errChan'[i] = errChan[i]
    BY <1>0, <2>1, <2>2 DEF ChannelTypes
  <2>4. \A i \in 1 .. Len(errChan') : i = Len(errChan') \/ i \in 1 .. Len(errChan)
    BY <2>3
  <2>5. \A i \in 1 .. Len(errChan') : errChan'[i] = "nil" => Clean'
    <3>1. Clean' = Clean
      BY <2>1 DEF Clean
    <3>2. outcome[t] = "nil" => Clean
      BY DEF Clean, Pumps
    <3> QED
      BY <1>0, <2>3, <2>4, <3>1, <3>2 DEF ResultsInv
  <2>6. ChannelTypes'
    BY <1>0, <2>1, <2>3 DEF ChannelTypes
  <2> QED
    BY <1>0, <2>1, <2>3, <2>5, <2>6 DEF ResultsInv, Returned, Clean, Pumps, Threads, One
<1>7. CASE ReaderStep
  <2>1. CASE ReaderGetsFrame \/ ReaderWrites
    <3>1. UNCHANGED <<errChan, bridgeErr, outcome>>
      BY <2>1 DEF ReaderGetsFrame, ReaderWrites, control
    <3>2. pc["reader"] \in {"read", "write"} /\ pc'["reader"] \in {"read", "lock", "write"}
      BY <1>0, <2>1 DEF ReaderGetsFrame, ReaderWrites, Goto, Threads
    <3>3. \A u \in Threads \ {"reader"} : pc'[u] = pc[u]
      BY <1>0, <2>1 DEF ReaderGetsFrame, ReaderWrites, Goto, Threads
    <3> QED
      BY <1>5, <3>1, <3>2, <3>3 DEF Returned, Pumps
  <2>2. CASE ReaderGetsClose \/ ReaderFails \/ ReaderWriteFails
    <3>1. UNCHANGED <<errChan, bridgeErr>>
      BY <2>2 DEF ReaderGetsClose, ReaderFails, ReaderWriteFails
    <3>2. pc["reader"] \in {"read", "write"} /\ pc'["reader"] = "send"
      BY <1>0, <2>2 DEF ReaderGetsClose, ReaderFails, ReaderWriteFails, Return, Goto, Threads
    <3>3. \A u \in Threads \ {"reader"} : pc'[u] = pc[u]
      BY <1>0, <2>2 DEF ReaderGetsClose, ReaderFails, ReaderWriteFails, Return, Goto, Threads
    <3>4. \E v \in {"nil", "err"} : outcome' = [outcome EXCEPT !["reader"] = v]
      BY <2>2 DEF ReaderGetsClose, ReaderFails, ReaderWriteFails, Return
    <3> QED
      BY <1>5, <3>1, <3>2, <3>3, <3>4, Zenon DEF Returned, Pumps
  <2> QED
    BY <1>6, <1>7, <2>1, <2>2 DEF ReaderStep, Pumps
<1>8. CASE WriterStep
  <2>1. CASE WriterReads \/ WriterWrites
    <3>1. UNCHANGED <<errChan, bridgeErr, outcome>>
      BY <2>1 DEF WriterReads, WriterWrites, control
    <3>2. pc["writer"] \in {"read", "write"} /\ pc'["writer"] \in {"read", "lock", "write"}
      BY <1>0, <2>1 DEF WriterReads, WriterWrites, Goto, Threads
    <3>3. \A u \in Threads \ {"writer"} : pc'[u] = pc[u]
      BY <1>0, <2>1 DEF WriterReads, WriterWrites, Goto, Threads
    <3> QED
      BY <1>5, <3>1, <3>2, <3>3 DEF Returned, Pumps
  <2>2. CASE WriterEOF \/ WriterReadFails \/ WriterWriteFails
    <3>1. UNCHANGED <<errChan, bridgeErr>>
      BY <2>2 DEF WriterEOF, WriterReadFails, WriterWriteFails
    <3>2. pc["writer"] \in {"read", "write"} /\ pc'["writer"] = "send"
      BY <1>0, <2>2 DEF WriterEOF, WriterReadFails, WriterWriteFails, Return, Goto, Threads
    <3>3. \A u \in Threads \ {"writer"} : pc'[u] = pc[u]
      BY <1>0, <2>2 DEF WriterEOF, WriterReadFails, WriterWriteFails, Return, Goto, Threads
    <3>4. \E v \in {"nil", "err"} : outcome' = [outcome EXCEPT !["writer"] = v]
      BY <2>2 DEF WriterEOF, WriterReadFails, WriterWriteFails, Return
    <3> QED
      BY <1>5, <3>1, <3>2, <3>3, <3>4, Zenon DEF Returned, Pumps
  <2> QED
    BY <1>6, <1>8, <2>1, <2>2 DEF WriterStep, Pumps
<1>9. ASSUME NEW t \in Lockers, Lock(t) PROVE ChannelTypes' /\ ResultsInv'
  <2>1. UNCHANGED <<errChan, bridgeErr, outcome>>
    BY <1>9 DEF Lock, control
  <2>2. pc[t] = "lock" /\ pc'[t] = "write" /\ \A u \in Threads \ {t} : pc'[u] = pc[u]
    BY <1>0, <1>9 DEF Lock, Goto, Threads, Lockers
  <2>3. CASE t = "writer"
    BY <1>5, <2>1, <2>2, <2>3 DEF Returned, Pumps
  <2>4. CASE t # "writer"
    <3>1. \A u \in Rest : pc'[u] = pc[u]
      BY <2>2, <2>4 DEF Lockers, Threads
    <3> QED
      BY <1>1, <2>1, <3>1
  <2> QED
    BY <2>3, <2>4
<1>10. CASE Environment \/ UNCHANGED vars
  <2>1. UNCHANGED <<errChan, bridgeErr, outcome, pc>>
    BY <1>10 DEF Environment, ClientSends, ClientCloses, ClientVanishes, TargetSends, TargetBecomes,
                 vars, control
  <2> QED
    BY <1>1, <2>1
<1> QED
  BY <1>2, <1>3, <1>4, <1>7, <1>8, <1>9, <1>10 DEF Next, Terminated

\* Steps of other goroutines leave a pump and its direction alone, but for Establish,
\* which starts both.
LEMMA StepPumps ==
  ASSUME SInv, RunStep \/ PingStep \/ TimerStep \/ BridgeStep \/ Lock("ping") \/ Lock("timer")
  PROVE  FramesInv' /\ ChunksInv'
<1>0. /\ pc \in [Threads -> Locations] /\ FramesInv /\ ChunksInv
      /\ outcome \in [{"run", "bridge", "reader", "writer"} -> {"none", "nil", "err"}]
      /\ pc["run"] = "dial" => pc["reader"] = "none" /\ pc["writer"] = "none"
  BY TypeParts DEF SInv, IInv, ControlTypes, Others, Threads
<1>1. UNCHANGED <<peers, data>>
  BY Zenon DEF RunStep, StartFails, Establish, SelectBridgeErr, SelectDone, StopTimer, Cancel,
         JoinPing, CloseTCP, CloseWS, Release, PingStep, PingSeesDone, PingTick, PingWrites,
         PingFails, TimerStep, TimerFires, TimerWritesClose, GraceEnds, BridgeStep,
         BridgeCloses, BridgeSends, Lock
<1>2. CASE Establish
  <2>1. outcome' = outcome /\ \A t \in Pumps : pc[t] = "none" /\ pc'[t] = "read"
    <3>1. outcome' = outcome
      BY <1>2 DEF Establish, control
    <3>2. pc["reader"] = "none" /\ pc["writer"] = "none"
      BY <1>0, <1>2 DEF Establish
    <3>3. pc'["reader"] = "read" /\ pc'["writer"] = "read"
      BY <1>2 DEF Establish
    <3> QED
      BY <3>1, <3>2, <3>3 DEF Pumps
  <2>2. /\ Taken("reader", toTarget)' = Taken("reader", toTarget)
        /\ Taken("writer", toClient)' = Taken("writer", toClient)
        /\ Counting(toTarget, "reader")' /\ Counting(toClient, "writer")'
    BY <1>0, <1>1, <2>1, Zenon DEF FramesInv, ChunksInv, Counting, Taken, Pumps, peers, data
  <2>3. FramesInv'
    BY <1>0, <1>1, <2>1, <2>2, Zenon DEF FramesInv, Pending, Returned, Pumps, peers, data
  <2>4. ChunksInv'
    BY <1>0, <1>1, <2>1, <2>2 DEF ChunksInv, Returned, Pumps, peers, data
  <2> QED
    BY <2>3, <2>4
<1>3. CASE ~Establish
  <2>1. pc'["reader"] = pc["reader"] /\ pc'["writer"] = pc["writer"]
    BY <1>0, <1>3, Zenon DEF RunStep, StartFails, SelectBridgeErr, SelectDone, StopTimer, Cancel,
         JoinPing, CloseTCP, CloseWS, Release, PingStep, PingSeesDone, PingTick, PingWrites,
         PingFails, TimerStep, TimerFires, TimerWritesClose, GraceEnds, BridgeStep,
         BridgeCloses, BridgeSends, Lock, Goto, Return, Threads
  <2>2. outcome'["reader"] = outcome["reader"] /\ outcome'["writer"] = outcome["writer"]
    BY <1>0, <1>3, Zenon DEF RunStep, StartFails, SelectBridgeErr, SelectDone, StopTimer, Cancel,
         JoinPing, CloseTCP, CloseWS, Release, PingStep, PingSeesDone, PingTick, PingWrites,
         PingFails, TimerStep, TimerFires, TimerWritesClose, GraceEnds, BridgeStep,
         BridgeCloses, BridgeSends, Lock, Return, control
  <2>3. ReaderAlone /\ WriterAlone
    BY <1>1, <2>1, <2>2 DEF ReaderAlone, WriterAlone, peers, data
  <2> QED
    BY <1>0, <2>3, ReaderAloneKeeps, WriterAloneKeeps
<1> QED
  BY <1>2, <1>3

\* A pump, and each peer, works on its own direction only.
LEMMA StepDirections ==
  ASSUME SInv, ReaderStep \/ WriterStep \/ Lock("writer") \/ Environment
  PROVE  FramesInv' /\ ChunksInv'
<1>0. /\ pc \in [Threads -> Locations] /\ TypeOK /\ FramesInv /\ ChunksInv
      /\ outcome \in [{"run", "bridge", "reader", "writer"} -> {"none", "nil", "err"}]
      /\ sent \in [{"toTarget", "toClient"} -> Nat] /\ held \in [Pumps -> Nat]
  BY TypeParts DEF SInv, IInv, ControlTypes, DataTypes
<1>1. CASE ReaderStep
  <2>1. pc'["writer"] = pc["writer"] /\ outcome'["writer"] = outcome["writer"]
    BY <1>0, <1>1, Zenon DEF ReaderStep, ReaderGetsFrame, ReaderGetsClose, ReaderFails, ReaderWrites,
       ReaderWriteFails, PumpSends, Goto, Return, Threads, control
  <2>2. held'["writer"] = held["writer"] /\ UNCHANGED <<tcpIn, toClient, target, sent>>
    BY <1>0, <1>1, Zenon DEF ReaderStep, ReaderGetsFrame, ReaderGetsClose, ReaderFails, ReaderWrites,
       ReaderWriteFails, PumpSends, Pumps, peers, data
  <2>3. WriterAlone
    BY <2>1, <2>2 DEF WriterAlone
  <2> QED
    BY <1>0, <1>1, <2>3, WriterAloneKeeps, ReaderKeepsFrames
<1>2. CASE WriterStep \/ Lock("writer")
  <2>1. pc'["reader"] = pc["reader"] /\ outcome'["reader"] = outcome["reader"]
    BY <1>0, <1>2, Zenon DEF WriterStep, WriterReads, WriterEOF, WriterReadFails, WriterWrites,
       WriterWriteFails, PumpSends, Lock, Goto, Return, Threads, control
  <2>2. held'["reader"] = held["reader"] /\ UNCHANGED <<wsIn, toTarget, client, sent>>
    BY <1>0, <1>2, Zenon DEF WriterStep, WriterReads, WriterEOF, WriterReadFails, WriterWrites,
       WriterWriteFails, PumpSends, Lock, Pumps, peers, data
  <2>3. ReaderAlone
    BY <2>1, <2>2 DEF ReaderAlone
  <2> QED
    BY <1>0, <1>2, <2>3, ReaderAloneKeeps, WriterKeepsChunks
<1>3. CASE (\E k \in FrameKinds : ClientSends(k)) \/ ClientCloses \/ ClientVanishes
  <2>1. WriterAlone
    BY <1>0, <1>3 DEF ClientSends, ClientCloses, ClientVanishes, WriterAlone, control, data
  <2> QED
    BY <1>0, <1>3, <2>1, WriterAloneKeeps, ClientKeepsFrames
<1>4. CASE TargetSends \/ \E v \in {"stalled", "closed", "reset"} : TargetBecomes(v)
  <2>1. ReaderAlone
    BY <1>0, <1>4 DEF TargetSends, TargetBecomes, ReaderAlone, control, data
  <2> QED
    BY <1>0, <1>4, <2>1, ReaderAloneKeeps, TargetKeepsChunks
<1> QED
  BY <1>1, <1>2, <1>3, <1>4 DEF Environment

\* A session starts with nothing sent and nothing in any channel.
LEMMA InitSInv == Init => SInv
<1> SUFFICES ASSUME Init PROVE SInv
  OBVIOUS
<1>1. /\ errChan = <<>> /\ bridgeErr = <<>> /\ wsIn = <<>> /\ tcpIn = <<>>
      /\ toTarget = <<>> /\ toClient = <<>> /\ sent["toTarget"] = 0 /\ sent["toClient"] = 0
      /\ \A t \in Pumps \cup {"bridge"} : pc[t] = "none" /\ outcome[t] = "none"
      /\ \A t \in Pumps : held[t] = 0
      /\ outcome["run"] = "none"
  BY DEF Init, Pumps, Threads
<1>2. ControlTypes
  BY Zenon DEF Init, ControlTypes, Threads, Locations
<1>3. ChannelTypes
  BY <1>1 DEF ChannelTypes
<1>4. DataTypes
  BY DEF Init, DataTypes
<1>5. FramesInv
  BY <1>1, BoundsAssumption DEF FramesInv, Counting, Taken, Pending, Pumps
<1>6. ChunksInv
  BY <1>1, BoundsAssumption DEF ChunksInv, Counting, Taken, Pumps
<1>7. ResultsInv
  BY <1>1 DEF ResultsInv, Clean, Returned, One, Pumps
<1> QED
  BY <1>2, <1>3, <1>4, <1>5, <1>6, <1>7, InitIInv, TypeParts DEF SInv

\* Every step keeps all of it.
LEMMA StepSInv == SInv /\ [Next]_vars => SInv'
<1> SUFFICES ASSUME SInv, [Next]_vars PROVE SInv'
  OBVIOUS
<1>1. TypeOK /\ IInv /\ FramesInv /\ ChunksInv /\ ControlTypes /\ ChannelTypes
  BY TypeParts DEF SInv
<1>2. IInv' /\ TypeOK' /\ ResultsInv'
  BY <1>1, StepIInv, StepControl, StepData, StepResults, TypePartsNext
<1>3. FramesInv' /\ ChunksInv'
  <2>1. CASE UNCHANGED vars
    <3>1. ReaderAlone /\ WriterAlone
      BY <2>1 DEF vars, control, peers, data, ReaderAlone, WriterAlone
    <3> QED
      BY <1>1, <3>1, ReaderAloneKeeps, WriterAloneKeeps
  <2> QED
    BY <2>1, StepPumps, StepDirections DEF Next, Terminated, Lockers
<1> QED
  BY <1>2, <1>3 DEF SInv

\* It holds throughout.
LEMMA AlwaysSInv == Spec => []SInv
BY InitSInv, StepSInv, PTL DEF Spec

\* The type invariant, for any number of frames and chunks.
THEOREM SessionTypes == Spec => []TypeOK
<1>1. SInv => TypeOK
  BY DEF SInv
<1> QED
  BY <1>1, AlwaysSInv, PTL

\* copyWSToTCP and copyTCPToWS deliver what they read once, in order and without a
\* gap, and copyWSToTCP delivers binary frames only, whatever the other goroutines do.
THEOREM PumpsKeepOrder == Spec => []StreamsInOrder
<1>1. SInv => StreamsInOrder
  <2> SUFFICES ASSUME SInv PROVE StreamsInOrder
    OBVIOUS
  <2>1. /\ held["reader"] \in Nat /\ held["writer"] \in Nat /\ Len(tcpIn) \in Nat
        /\ Len(toTarget) \in Nat /\ Len(toClient) \in Nat
        /\ sent["toTarget"] \in Nat /\ sent["toClient"] \in Nat
    BY TypeParts DEF SInv, DataTypes, Pumps
  <2>2. Len(toTarget) <= sent["toTarget"] /\ Len(toClient) <= sent["toClient"]
    BY <2>1 DEF SInv, FramesInv, ChunksInv, Taken
  <2>3. /\ \A i \in 1 .. Len(toTarget) : toTarget[i] = i
        /\ \A i \in 1 .. Len(toClient) : toClient[i] = i
    BY DEF SInv, FramesInv, ChunksInv, Counting
  <2> QED
    BY <2>2, <2>3 DEF StreamsInOrder, InOrder
<1> QED
  BY <1>1, AlwaysSInv, PTL

\* A pump that returns nil has delivered all that its peer sent before closing, and
\* Session.Run returns nil only if a pump did.
THEOREM CleanEndsComplete == Spec => []CleanEndLosesNothing
<1>1. SInv => CleanEndLosesNothing
  BY DEF SInv, FramesInv, ChunksInv, ResultsInv, Clean, CleanEndLosesNothing
<1> QED
  BY <1>1, AlwaysSInv, PTL

\* The capacities of errChan and of Session.Run's channel are enough: a goroutine
\* with a result to send finds room, also when nobody receives any more.
RoomForResults == /\ \A t \in Pumps : pc[t] = "send" => Len(errChan) < 2
                  /\ pc["bridge"] = "send" => Len(bridgeErr) < 1

\* So no pump and no bridge is left behind, blocked in its send, by a session that has
\* stopped listening to it.
THEOREM SendsNeverBlock == Spec => []RoomForResults
<1>1. SInv => RoomForResults
  <2> SUFFICES ASSUME SInv PROVE RoomForResults
    OBVIOUS
  <2>1. Len(errChan) \in Nat /\ Len(bridgeErr) \in Nat /\ bridgeErr \in Seq({"nil", "err"})
    BY TypeParts DEF SInv, ChannelTypes
  <2>2. \A t \in Pumps : pc[t] = "send" => Len(errChan) < 2
    BY <2>1 DEF SInv, ResultsInv, One, Pumps
  <2>3. pc["bridge"] = "send" => Len(bridgeErr) < 1
    <3>1. pc["bridge"] = "send" => bridgeErr = <<>>
      BY DEF SInv, ResultsInv
    <3> QED
      BY <3>1
  <2> QED
    BY <2>2, <2>3 DEF RoomForResults
<1> QED
  BY <1>1, AlwaysSInv, PTL

-----------------------------------------------------------------------------
(* Who waits for whom.                                                      *)

Closed == ~wsOpen /\ ~tcpOpen

\* The mutex is never left locked, Run's select has a bridge whose result it has not
\* missed, and both connections are closed before anyone stops listening to a pump.
WaitsInv ==
  /\ pc["run"] \in {"dial", "select", "stopTimer", "cancel", "join", "closeTCP", "returned",
                   "release", "released"}
  /\ \A t \in Lockers : writeMu = t => pc[t] = "write"
  /\ pc["run"] \in {"select", "stopTimer", "cancel", "join"} => pc["ping"] # "none"
  /\ pc["run"] = "join" => ctxDone
  /\ pc["run"] = "select" /\ pc["bridge"] = "done" => bridgeErr # <<>>
  /\ Returned("bridge") => Closed
  /\ pc["run"] \in {"stopTimer", "cancel", "join", "closeTCP"} => Closed
  /\ pc["run"] \in {"returned", "release", "released"} => Closed \/ \A t \in Pumps : pc[t] = "none"

\* No goroutine of a session waits for something that nobody will do.  Whoever waits
\* for writeMu waits for a goroutine in the middle of its write; Bridge.Run finds the
\* result of a pump that has returned, and Run that of the bridge; the ping loop that
\* Run joins has been started and cancelled; and once Run has left its select, a pump
\* that is left works on closed connections.
WaitsAreServed ==
  /\ \A t \in Lockers : pc[t] = "lock" => writeMu = "free" \/ pc[writeMu] = "write"
  /\ pc["bridge"] = "wait" /\ (\E t \in Pumps : pc[t] = "done") => errChan # <<>>
  /\ pc["run"] = "select" /\ pc["bridge"] = "done" => bridgeErr # <<>>
  /\ pc["run"] = "join" => ctxDone /\ pc["ping"] # "none"
  /\ pc["run"] \notin {"dial", "select"} => \A t \in Pumps : Running(t) => ~wsOpen /\ ~tcpOpen

\* Nobody waits at the start.
LEMMA InitWaits == Init => WaitsInv
<1> SUFFICES ASSUME Init PROVE WaitsInv
  OBVIOUS
<1>1. pc["run"] = "dial" /\ writeMu = "free" /\ pc["bridge"] = "none"
  BY DEF Init, Threads
<1> QED
  BY <1>1 DEF WaitsInv, Returned, Lockers

\* Session.Run and the deferred calls after it keep this.
LEMMA RunKeepsWaits == SInv /\ WaitsInv /\ RunStep => WaitsInv'
<1> SUFFICES ASSUME SInv, WaitsInv, RunStep PROVE WaitsInv'
  OBVIOUS
<1>0. /\ pc \in [Threads -> Locations] /\ writeMu \in Lockers \cup {"free"}
      /\ pc["run"] = "dial" => \A t \in Others : pc[t] = "none"
      /\ bridgeErr # <<>> => pc["bridge"] = "done"
      /\ pc["bridge"] \in {"none", "wait", "send", "done"}
      /\ \A t \in Lockers : pc[t] = "write" => writeMu = t
  BY TypeParts DEF SInv, IInv, ResultsInv, ControlTypes
<1> USE <1>0 DEF WaitsInv, Closed, Returned, Threads, Others, Lockers, Pumps, Goto, Return,
             Unlock, control, sockets
<1>1. CASE StartFails
  BY <1>1 DEF StartFails
<1>2. CASE Establish
  BY <1>2 DEF Establish
<1>3. CASE SelectBridgeErr
  BY <1>3 DEF SelectBridgeErr
<1>4. CASE SelectDone
  BY <1>4 DEF SelectDone
<1>5. CASE StopTimer
  BY <1>5 DEF StopTimer
<1>6. CASE Cancel
  BY <1>6 DEF Cancel
<1>7. CASE JoinPing
  BY <1>7 DEF JoinPing
<1>8. CASE CloseTCP
  BY <1>8 DEF CloseTCP
<1>9. CASE CloseWS
  BY <1>9 DEF CloseWS
<1>10. CASE Release
  BY <1>10 DEF Release
<1> QED
  BY <1>1, <1>2, <1>3, <1>4, <1>5, <1>6, <1>7, <1>8, <1>9, <1>10, Zenon DEF RunStep

\* So do the ping loop and the two timers.
LEMMA PingAndTimersKeepWaits == SInv /\ WaitsInv /\ (PingStep \/ TimerStep) => WaitsInv'
<1> SUFFICES ASSUME SInv, WaitsInv, PingStep \/ TimerStep PROVE WaitsInv'
  OBVIOUS
<1>0. /\ pc \in [Threads -> Locations] /\ writeMu \in Lockers \cup {"free"}
      /\ pc["run"] = "dial" => \A t \in Others : pc[t] = "none"
      /\ bridgeErr # <<>> => pc["bridge"] = "done"
      /\ pc["bridge"] \in {"none", "wait", "send", "done"}
      /\ \A t \in Lockers : pc[t] = "write" => writeMu = t
  BY TypeParts DEF SInv, IInv, ResultsInv, ControlTypes
<1> USE <1>0 DEF WaitsInv, Closed, Returned, Threads, Others, Lockers, Pumps, Goto, Return,
             Unlock, control, sockets
<1>1. CASE PingSeesDone
  BY <1>1 DEF PingSeesDone
<1>2. CASE PingTick
  BY <1>2 DEF PingTick
<1>3. CASE PingWrites
  BY <1>3 DEF PingWrites
<1>4. CASE PingFails
  BY <1>4 DEF PingFails
<1>5. CASE TimerFires
  BY <1>5 DEF TimerFires
<1>6. CASE TimerWritesClose
  BY <1>6 DEF TimerWritesClose
<1>7. CASE GraceEnds
  BY <1>7 DEF GraceEnds
<1> QED
  BY <1>1, <1>2, <1>3, <1>4, <1>5, <1>6, <1>7, Zenon DEF PingStep, TimerStep

\* So do the two pumps.
LEMMA PumpsKeepWaits == SInv /\ WaitsInv /\ (ReaderStep \/ WriterStep) => WaitsInv'
<1> SUFFICES ASSUME SInv, WaitsInv, ReaderStep \/ WriterStep PROVE WaitsInv'
  OBVIOUS
<1>0. /\ pc \in [Threads -> Locations] /\ writeMu \in Lockers \cup {"free"}
      /\ pc["run"] = "dial" => \A t \in Others : pc[t] = "none"
      /\ bridgeErr # <<>> => pc["bridge"] = "done"
      /\ pc["bridge"] \in {"none", "wait", "send", "done"}
      /\ \A t \in Lockers : pc[t] = "write" => writeMu = t
  BY TypeParts DEF SInv, IInv, ResultsInv, ControlTypes
<1> USE <1>0 DEF WaitsInv, Closed, Returned, Threads, Others, Lockers, Pumps, Goto, Return,
             Unlock, control, sockets
<1>1. CASE ReaderGetsFrame
  BY <1>1 DEF ReaderGetsFrame
<1>2. CASE ReaderGetsClose
  BY <1>2 DEF ReaderGetsClose
<1>3. CASE ReaderFails
  BY <1>3 DEF ReaderFails
<1>4. CASE ReaderWrites
  BY <1>4 DEF ReaderWrites
<1>5. CASE ReaderWriteFails
  BY <1>5 DEF ReaderWriteFails
<1>6. CASE PumpSends("reader")
  BY <1>6 DEF PumpSends
<1>7. CASE WriterReads
  BY <1>7 DEF WriterReads
<1>8. CASE WriterEOF
  BY <1>8 DEF WriterEOF
<1>9. CASE WriterReadFails
  BY <1>9 DEF WriterReadFails
<1>10. CASE WriterWrites
  BY <1>10 DEF WriterWrites
<1>11. CASE WriterWriteFails
  BY <1>11 DEF WriterWriteFails
<1>12. CASE PumpSends("writer")
  BY <1>12 DEF PumpSends
<1> QED
  BY <1>1, <1>2, <1>3, <1>4, <1>5, <1>6, <1>7, <1>8, <1>9, <1>10, <1>11, <1>12, Zenon DEF ReaderStep, WriterStep

\* A channel that was just sent to is not empty.
LEMMA SentNotEmpty ==
  ASSUME NEW c \in Seq({"nil", "err"}), NEW x \in {"nil", "err"}
  PROVE  Append(c, x) # <<>>
<1>1. Len(Append(c, x)) = Len(c) + 1 /\ Len(c) \in Nat
  OBVIOUS
<1>2. Len(Append(c, x)) # 0
  BY <1>1
<1> QED
  BY <1>2

\* So do the bridge, which closes both connections before it returns, and whoever
\* takes the mutex.
LEMMA BridgeAndLockKeepWaits ==
  SInv /\ WaitsInv /\ (BridgeStep \/ \E t \in Lockers : Lock(t)) => WaitsInv'
<1> SUFFICES ASSUME SInv, WaitsInv, BridgeStep \/ \E t \in Lockers : Lock(t) PROVE WaitsInv'
  OBVIOUS
<1>0. /\ pc \in [Threads -> Locations] /\ writeMu \in Lockers \cup {"free"}
      /\ pc["run"] = "dial" => \A t \in Others : pc[t] = "none"
      /\ bridgeErr # <<>> => pc["bridge"] = "done"
      /\ pc["bridge"] \in {"none", "wait", "send", "done"}
      /\ \A t \in Lockers : pc[t] = "write" => writeMu = t
  BY TypeParts DEF SInv, IInv, ResultsInv, ControlTypes
<1> USE <1>0 DEF WaitsInv, Closed, Returned, Threads, Others, Lockers, Pumps, Goto, Return,
             Unlock, control, sockets
<1>1. CASE BridgeCloses
  BY <1>1 DEF BridgeCloses
<1>2. CASE BridgeSends
  <2>1. bridgeErr \in Seq({"nil", "err"}) /\ outcome["bridge"] \in {"nil", "err"}
    <3>1. pc["bridge"] = "send" /\ outcome["bridge"] # "none"
      BY <1>2 DEF BridgeSends, SInv, ResultsInv
    <3> QED
      BY <3>1, TypeParts DEF SInv, ControlTypes, ChannelTypes
  <2>2. Append(bridgeErr, outcome["bridge"]) # <<>>
    BY <2>1, SentNotEmpty, Zenon
  <2> QED
    BY <1>2, <2>2 DEF BridgeSends
<1>3. ASSUME NEW t \in Lockers, Lock(t) PROVE WaitsInv'
  BY <1>3 DEF Lock
<1> QED
  BY <1>1, <1>2, <1>3, Zenon DEF BridgeStep

\* The peers touch nothing of it.
LEMMA OutsideKeepsWaits == WaitsInv /\ (Environment \/ UNCHANGED vars) => WaitsInv'
<1> SUFFICES ASSUME WaitsInv, Environment \/ UNCHANGED vars PROVE WaitsInv'
  OBVIOUS
<1>1. UNCHANGED <<pc, ctxDone, bridgeErr, wsOpen, tcpOpen, writeMu>>
  BY DEF Environment, ClientSends, ClientCloses, ClientVanishes, TargetSends, TargetBecomes,
     vars, control, sockets
<1> QED
  BY <1>1 DEF WaitsInv, Closed, Returned

\* Whatever the peers do and whenever the timers fire, every wait of a session has
\* somebody who will end it.
THEOREM NoWaitForgotten == Spec => []WaitsAreServed
<1>1. SInv /\ WaitsInv /\ [Next]_vars => WaitsInv'
  BY RunKeepsWaits, PingAndTimersKeepWaits, PumpsKeepWaits, BridgeAndLockKeepWaits,
     OutsideKeepsWaits DEF Next, Terminated
<1>2. SInv /\ WaitsInv => WaitsAreServed
  <2> SUFFICES ASSUME SInv, WaitsInv PROVE WaitsAreServed
    OBVIOUS
  <2>1. \A t \in Lockers : pc[t] = "lock" => writeMu = "free" \/ pc[writeMu] = "write"
    BY TypeParts DEF SInv, ControlTypes, WaitsInv
  <2>2. pc["bridge"] = "wait" /\ (\E t \in Pumps : pc[t] = "done") => errChan # <<>>
    <3>1. pc["bridge"] = "wait" /\ (\E t \in Pumps : pc[t] = "done") => Len(errChan) # 0
      BY TypeParts DEF SInv, ChannelTypes, ResultsInv, Returned, One, Pumps
    <3> QED
      BY <3>1
  <2>3. pc["run"] \notin {"dial", "select"} => \A t \in Pumps : Running(t) => ~wsOpen /\ ~tcpOpen
    BY DEF WaitsInv, Closed, Running
  <2> QED
    BY <2>1, <2>2, <2>3 DEF WaitsInv, WaitsAreServed
<1> QED
  BY <1>1, <1>2, InitWaits, AlwaysSInv, PTL DEF Spec
=============================================================================
