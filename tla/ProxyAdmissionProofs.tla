------------------------ MODULE ProxyAdmissionProofs ------------------------
(***************************************************************************)
(* Theorems about ProxyAdmission, for every finite set of handlers, every  *)
(* configured limit and every integer width.                               *)
(***************************************************************************)
EXTENDS ProxyAdmission, FiniteSetTheorems, TLAPS

\* Inductive strengthening: a handler about to swap has loaded a value below the
\* limit, and its request has been counted as far as its location says.
Counting == \A h \in Handlers :
  /\ pc[h] \in {"load", "cas", "rejected", "upgrade", "upgraded"} => counted[h] = {}
  /\ pc[h] \in {"running", "ended", "wsClose", "release"}
       => \E c \in Counters : counted[h] = {c}

IInv == /\ TypeOK
        /\ SlotAccounting
        /\ LimitHolds
        /\ activeConnections = Cardinality(Gauged)
        /\ \A h \in Handlers : pc[h] = "cas" => current[h] < maxConnections
        /\ Counting

\* int32(n) is an int32.
LEMMA ToInt32Fits ==
  ASSUME NEW n \in Int
  PROVE  ToInt32(n) \in Int32
<1>1. Half \in Nat /\ Half > 0
  BY WidthAssumption
<1>2. ASSUME NEW a \in Int, NEW m \in Nat, m > 0
      PROVE  a % m \in 0 .. (m - 1)
  BY <1>2, SMT
<1>3. (n + Half) % (2 * Half) \in 0 .. (2 * Half - 1)
  BY <1>1, <1>2
<1> QED BY <1>1, <1>3 DEF ToInt32, Int32

\* The limit, once narrowed, is an int32.
LEMMA LimitType == maxConnections \in Int32
BY ToInt32Fits, WidthAssumption DEF maxConnections

\* Sets of handlers are finite and have a size.
LEMMA Finite == /\ IsFiniteSet(Holders) /\ IsFiniteSet(Gauged) /\ IsFiniteSet(OpenSockets)
                /\ Cardinality(Holders) \in Nat /\ Cardinality(Gauged) \in Nat
                /\ Cardinality(OpenSockets) \in Nat
BY HandlersFinite, FS_Subset, FS_CardinalityType DEF Holders, Gauged, OpenSockets

\* Adding or removing one element moves a cardinality by at most one.
LEMMA OneElement ==
  ASSUME NEW S, IsFiniteSet(S), NEW x
  PROVE  /\ Cardinality(S) \in Nat
         /\ x \in S => Cardinality(S \cup {x}) = Cardinality(S)
         /\ x \notin S => Cardinality(S \cup {x}) = Cardinality(S) + 1
         /\ x \in S => Cardinality(S \ {x}) = Cardinality(S) - 1
         /\ x \notin S => Cardinality(S \ {x}) = Cardinality(S)
<1>1. Cardinality(S \cup {x}) = IF x \in S THEN Cardinality(S) ELSE Cardinality(S) + 1
  BY FS_AddElement
<1>2. Cardinality(S \ {x}) = IF x \in S THEN Cardinality(S) - 1 ELSE Cardinality(S)
  BY FS_RemoveElement
<1> QED BY <1>1, <1>2, FS_CardinalityType

\* What one move of one handler does to the sets that the counters count.
LEMMA Moves ==
  ASSUME pc \in [Handlers -> Locations], NEW h \in Handlers,
         NEW from \in Locations, NEW to \in Locations, Goto(h, from, to)
  PROVE  /\ pc' \in [Handlers -> Locations]
         /\ (to \in Holding <=> from \in Holding) => Holders' = Holders
         /\ to \in Holding /\ from \notin Holding
              => Cardinality(Holders') = Cardinality(Holders) + 1
         /\ to \notin Holding /\ from \in Holding
              => Cardinality(Holders') = Cardinality(Holders) - 1
         /\ (to \in Gauging <=> from \in Gauging)
              => Gauged' = Gauged
         /\ to \in Gauging /\ from \notin Gauging
              => Cardinality(Gauged') = Cardinality(Gauged) + 1
         /\ to \notin Gauging /\ from \in Gauging
              => Cardinality(Gauged') = Cardinality(Gauged) - 1
<1>1. pc[h] = from /\ pc' = [pc EXCEPT ![h] = to]
  BY DEF Goto
<1>2. /\ pc' \in [Handlers -> Locations]
      /\ to \in Holding => Holders' = Holders \cup {h}
      /\ to \notin Holding => Holders' = Holders \ {h}
      /\ h \in Holders <=> from \in Holding
  BY <1>1 DEF Holders
<1>3. /\ to \in Gauging => Gauged' = Gauged \cup {h}
      /\ to \notin Gauging => Gauged' = Gauged \ {h}
      /\ h \in Gauged <=> from \in Gauging
  BY <1>1 DEF Gauged
<1>4. /\ Cardinality(Holders) \in Nat
      /\ h \in Holders => Cardinality(Holders \ {h}) = Cardinality(Holders) - 1
      /\ h \notin Holders => Cardinality(Holders \cup {h}) = Cardinality(Holders) + 1
  BY Finite, OneElement
<1>5. /\ Cardinality(Gauged) \in Nat
      /\ h \in Gauged => Cardinality(Gauged \ {h}) = Cardinality(Gauged) - 1
      /\ h \notin Gauged => Cardinality(Gauged \cup {h}) = Cardinality(Gauged) + 1
  BY Finite, OneElement
<1>6. (to \in Holding <=> from \in Holding) => Holders' = Holders
  BY <1>2
<1>7. (to \in Gauging <=> from \in Gauging) => Gauged' = Gauged
  BY <1>3
<1>8. to \in Holding /\ from \notin Holding => Cardinality(Holders') = Cardinality(Holders) + 1
  BY <1>2, <1>4
<1>9. to \notin Holding /\ from \in Holding => Cardinality(Holders') = Cardinality(Holders) - 1
  BY <1>2, <1>4
<1>10. to \in Gauging /\ from \notin Gauging => Cardinality(Gauged') = Cardinality(Gauged) + 1
  BY <1>3, <1>5
<1>11. to \notin Gauging /\ from \in Gauging => Cardinality(Gauged') = Cardinality(Gauged) - 1
  BY <1>3, <1>5
<1> QED BY <1>2, <1>6, <1>7, <1>8, <1>9, <1>10, <1>11

\* A server that has just started satisfies the invariant.
LEMMA InitIInv == Init => IInv
<1> SUFFICES ASSUME Init PROVE IInv
  OBVIOUS
<1>1. Holders = {} /\ Gauged = {}
  BY DEF Init, Holders, Gauged, Holding, Gauging
<1>2. 0 \in Int32
  BY WidthAssumption DEF Int32
<1>3. TypeOK
  BY <1>2 DEF Init, TypeOK, Locations
<1>4. Counting
  BY DEF Init, Counting
<1> QED BY <1>1, <1>3, <1>4, FS_EmptySet DEF Init, IInv, SlotAccounting, LimitHolds

\* Steps that move a handler without claiming or giving back a slot.
LEMMA KeepsSlots ==
  ASSUME IInv, NEW h \in Handlers, NEW from \in Locations, NEW to \in Locations,
         Goto(h, from, to), from \in Holding <=> to \in Holding,
         UNCHANGED active
  PROVE  SlotAccounting' /\ LimitHolds'
<1>1. Holders' = Holders
  BY Moves DEF IInv, TypeOK
<1>2. maxConnections' = maxConnections
  BY DEF maxConnections, ToInt32
<1> QED BY <1>1, <1>2 DEF IInv, SlotAccounting, LimitHolds

\* Steps that neither enter nor leave the locations the gauge counts.
LEMMA KeepsGauge ==
  ASSUME IInv, NEW h \in Handlers, NEW from \in Locations, NEW to \in Locations,
         Goto(h, from, to), from \in Gauging <=> to \in Gauging,
         UNCHANGED activeConnections
  PROVE  (activeConnections = Cardinality(Gauged))'
<1>1. Gauged' = Gauged
  BY Moves DEF IInv, TypeOK
<1> QED BY <1>1 DEF IInv

\* Steps other than Acquire's load leave the claim about the loaded value alone.
LEMMA KeepsLoaded ==
  ASSUME IInv, NEW h \in Handlers, NEW from \in Locations, NEW to \in Locations,
         Goto(h, from, to), to # "cas", UNCHANGED current
  PROVE  (\A g \in Handlers : pc[g] = "cas" => current[g] < maxConnections)'
<1>1. maxConnections' = maxConnections
  BY DEF maxConnections, ToInt32
<1> QED BY <1>1 DEF IInv, TypeOK, Goto

\* Every step of every handler preserves the inductive invariant.
LEMMA StepIInv == IInv /\ [Next]_vars => IInv'
<1> SUFFICES ASSUME IInv, [Next]_vars PROVE IInv'
  OBVIOUS
<1> USE DEF Locations
<1>0. maxConnections' = maxConnections /\ maxConnections \in Int32 /\ Int32' = Int32
  BY LimitType DEF maxConnections, ToInt32, Int32
<1>t. TypeOK /\ Half \in Nat \ {0}
  BY WidthAssumption DEF IInv
<1>1. ASSUME NEW h \in Handlers, Request(h) PROVE IInv'
  <2>1. Goto(h, "idle", "load")
    BY <1>1 DEF Request
  <2>5. TypeOK'
    BY <1>1, <1>t, <2>1, Moves DEF Request, TypeOK, Count, Counters
  <2>6. SlotAccounting' /\ LimitHolds'
    BY <1>1, <2>1, KeepsSlots DEF Request, Holding
  <2>7. (activeConnections = Cardinality(Gauged))'
    BY <1>1, <2>1, KeepsGauge DEF Request, Gauging
  <2>8. (\A g \in Handlers : pc[g] = "cas" => current[g] < maxConnections)'
    BY <1>1, <2>1, KeepsLoaded DEF Request
  <2>9. Counting'
    BY <1>1, <1>t DEF Request, Goto, TypeOK, IInv, Counting, Count, Counters
  <2> QED BY <2>5, <2>6, <2>7, <2>8, <2>9 DEF IInv
<1>2. ASSUME NEW h \in Handlers, AcquireLoad(h) PROVE IInv'
  <2> DEFINE to == IF active >= maxConnections THEN "rejected" ELSE "cas"
  <2>1. Goto(h, "load", to) /\ to \in {"rejected", "cas"}
    BY <1>2 DEF AcquireLoad
  <2> HIDE DEF to
  <2>2. TypeOK'
    BY <1>2, <1>t, <2>1, Moves DEF AcquireLoad, TypeOK
  <2>3. SlotAccounting' /\ LimitHolds'
    BY <1>2, <2>1, KeepsSlots DEF AcquireLoad, Holding
  <2>4. (activeConnections = Cardinality(Gauged))'
    BY <1>2, <2>1, KeepsGauge DEF AcquireLoad, Gauging
  <2>5. (\A g \in Handlers : pc[g] = "cas" => current[g] < maxConnections)'
    BY <1>0, <1>2, <1>t DEF AcquireLoad, Goto, TypeOK, IInv, Int32
  <2>6. Counting'
    BY <1>2, <1>t, <2>1 DEF AcquireLoad, Goto, TypeOK, IInv, Counting
  <2> QED BY <2>2, <2>3, <2>4, <2>5, <2>6 DEF IInv
<1>3. ASSUME NEW h \in Handlers, AcquireSwap(h) PROVE IInv'
  <2>1. CASE active = current[h]
    <3>1. Goto(h, "cas", "upgrade") /\ active' = Succ32(active)
      BY <1>3, <2>1 DEF AcquireSwap
    <3>2. active < maxConnections
      BY <2>1, <3>1 DEF IInv, Goto
    <3>3. active' = active + 1 /\ active' \in Int32
      BY <1>0, <1>t, <3>1, <3>2 DEF TypeOK, Int32, Succ32
    <3>4. Cardinality(Holders') = Cardinality(Holders) + 1
      BY <1>t, <3>1, Moves DEF TypeOK, Holding
    <3>5. TypeOK'
      BY <1>3, <1>t, <3>1, <3>3, Moves DEF AcquireSwap, TypeOK
    <3>6. SlotAccounting' /\ LimitHolds'
      BY <1>0, <1>t, <3>2, <3>3, <3>4 DEF IInv, SlotAccounting, LimitHolds, TypeOK, Int32
    <3>7. (activeConnections = Cardinality(Gauged))'
      BY <1>3, <3>1, KeepsGauge DEF AcquireSwap, Gauging
    <3>8. (\A g \in Handlers : pc[g] = "cas" => current[g] < maxConnections)'
      BY <1>3, <3>1, KeepsLoaded DEF AcquireSwap
    <3>9. Counting'
      BY <1>3, <1>t, <3>1 DEF AcquireSwap, Goto, TypeOK, IInv, Counting
    <3> QED BY <3>5, <3>6, <3>7, <3>8, <3>9 DEF IInv
  <2>2. CASE active # current[h]
    <3>1. Goto(h, "cas", "load") /\ UNCHANGED active
      BY <1>3, <2>2 DEF AcquireSwap
    <3>5. TypeOK'
      BY <1>3, <1>t, <3>1, Moves DEF AcquireSwap, TypeOK
    <3>6. SlotAccounting' /\ LimitHolds'
      BY <3>1, KeepsSlots DEF Holding
    <3>7. (activeConnections = Cardinality(Gauged))'
      BY <1>3, <3>1, KeepsGauge DEF AcquireSwap, Gauging
    <3>8. (\A g \in Handlers : pc[g] = "cas" => current[g] < maxConnections)'
      BY <1>3, <3>1, KeepsLoaded DEF AcquireSwap
    <3>9. Counting'
      BY <1>3, <1>t, <3>1 DEF AcquireSwap, Goto, TypeOK, IInv, Counting
    <3> QED BY <3>5, <3>6, <3>7, <3>8, <3>9 DEF IInv
  <2> QED BY <2>1, <2>2
<1>4. ASSUME NEW h \in Handlers, Reject(h) PROVE IInv'
  <2>1. Goto(h, "rejected", "idle")
    BY <1>4 DEF Reject
  <2>5. TypeOK'
    BY <1>4, <1>t, <2>1, Moves DEF Reject, TypeOK, Count, Counters
  <2>6. SlotAccounting' /\ LimitHolds'
    BY <1>4, <2>1, KeepsSlots DEF Reject, Holding
  <2>7. (activeConnections = Cardinality(Gauged))'
    BY <1>4, <2>1, KeepsGauge DEF Reject, Gauging
  <2>8. (\A g \in Handlers : pc[g] = "cas" => current[g] < maxConnections)'
    BY <1>4, <2>1, KeepsLoaded DEF Reject
  <2>9. Counting'
    BY <1>4, <1>t DEF Reject, Goto, TypeOK, IInv, Counting, Count, Counters
  <2> QED BY <2>5, <2>6, <2>7, <2>8, <2>9 DEF IInv
<1>5. ASSUME NEW h \in Handlers, UpgradeFails(h) PROVE IInv'
  <2>1. Goto(h, "upgrade", "release")
    BY <1>5 DEF UpgradeFails
  <2>5. TypeOK'
    BY <1>5, <1>t, <2>1, Moves DEF UpgradeFails, TypeOK, Count, Counters
  <2>6. SlotAccounting' /\ LimitHolds'
    BY <1>5, <2>1, KeepsSlots DEF UpgradeFails, Holding
  <2>7. (activeConnections = Cardinality(Gauged))'
    BY <1>5, <2>1, KeepsGauge DEF UpgradeFails, Gauging
  <2>8. (\A g \in Handlers : pc[g] = "cas" => current[g] < maxConnections)'
    BY <1>5, <2>1, KeepsLoaded DEF UpgradeFails
  <2>9. Counting'
    BY <1>5, <1>t DEF UpgradeFails, Goto, TypeOK, IInv, Counting, Count, Counters
  <2> QED BY <2>5, <2>6, <2>7, <2>8, <2>9 DEF IInv
<1>6. ASSUME NEW h \in Handlers, UpgradeSucceeds(h) PROVE IInv'
  <2>1. Goto(h, "upgrade", "upgraded")
    BY <1>6 DEF UpgradeSucceeds
  <2>5. TypeOK'
    BY <1>6, <1>t, <2>1, Moves DEF UpgradeSucceeds, TypeOK
  <2>6. SlotAccounting' /\ LimitHolds'
    BY <1>6, <2>1, KeepsSlots DEF UpgradeSucceeds, Holding
  <2>7. (activeConnections = Cardinality(Gauged))'
    BY <1>6, <2>1, KeepsGauge DEF UpgradeSucceeds, Gauging
  <2>8. (\A g \in Handlers : pc[g] = "cas" => current[g] < maxConnections)'
    BY <1>6, <2>1, KeepsLoaded DEF UpgradeSucceeds
  <2>9. Counting'
    BY <1>6, <1>t DEF UpgradeSucceeds, Goto, TypeOK, IInv, Counting
  <2> QED BY <2>5, <2>6, <2>7, <2>8, <2>9 DEF IInv
<1>7. ASSUME NEW h \in Handlers, Establish(h) PROVE IInv'
  <2>1. Goto(h, "upgraded", "running")
    BY <1>7 DEF Establish
  <2>4. Cardinality(Gauged') \in Nat
    <3>1. Gauged' \in SUBSET Handlers
      BY DEF Gauged
    <3> QED BY <3>1, HandlersFinite, FS_Subset, FS_CardinalityType
  <2>7. (activeConnections = Cardinality(Gauged))'
    BY <1>7, <1>t, <2>1, Moves, Finite DEF Establish, Gauging, TypeOK, IInv
  <2>5. TypeOK'
    BY <1>7, <1>t, <2>1, <2>4, <2>7, Moves DEF Establish, TypeOK, Count, Counters
  <2>6. SlotAccounting' /\ LimitHolds'
    BY <1>7, <2>1, KeepsSlots DEF Establish, Holding
  <2>8. (\A g \in Handlers : pc[g] = "cas" => current[g] < maxConnections)'
    BY <1>7, <2>1, KeepsLoaded DEF Establish
  <2>9. Counting'
    BY <1>7, <1>t DEF Establish, Goto, TypeOK, IInv, Counting, Count, Counters
  <2> QED BY <2>5, <2>6, <2>7, <2>8, <2>9 DEF IInv
<1>8. ASSUME NEW h \in Handlers, SessionEnds(h) PROVE IInv'
  <2>1. Goto(h, "running", "ended")
    BY <1>8 DEF SessionEnds
  <2>5. TypeOK'
    BY <1>8, <1>t, <2>1, Moves DEF SessionEnds, TypeOK
  <2>6. SlotAccounting' /\ LimitHolds'
    BY <1>8, <2>1, KeepsSlots DEF SessionEnds, Holding
  <2>7. (activeConnections = Cardinality(Gauged))'
    BY <1>8, <2>1, KeepsGauge DEF SessionEnds, Gauging
  <2>8. (\A g \in Handlers : pc[g] = "cas" => current[g] < maxConnections)'
    BY <1>8, <2>1, KeepsLoaded DEF SessionEnds
  <2>9. Counting'
    BY <1>8, <1>t DEF SessionEnds, Goto, TypeOK, IInv, Counting
  <2> QED BY <2>5, <2>6, <2>7, <2>8, <2>9 DEF IInv
<1>9. ASSUME NEW h \in Handlers, DecrementGauge(h) PROVE IInv'
  <2>1. Goto(h, "ended", "wsClose")
    BY <1>9 DEF DecrementGauge
  <2>4. Cardinality(Gauged') \in Nat
    <3>1. Gauged' \in SUBSET Handlers
      BY DEF Gauged
    <3> QED BY <3>1, HandlersFinite, FS_Subset, FS_CardinalityType
  <2>7. (activeConnections = Cardinality(Gauged))'
    BY <1>9, <1>t, <2>1, Moves, Finite DEF DecrementGauge, Gauging, TypeOK, IInv
  <2>5. TypeOK'
    BY <1>9, <1>t, <2>1, <2>4, <2>7, Moves DEF DecrementGauge, TypeOK
  <2>6. SlotAccounting' /\ LimitHolds'
    BY <1>9, <2>1, KeepsSlots DEF DecrementGauge, Holding
  <2>8. (\A g \in Handlers : pc[g] = "cas" => current[g] < maxConnections)'
    BY <1>9, <2>1, KeepsLoaded DEF DecrementGauge
  <2>9. Counting'
    BY <1>9, <1>t DEF DecrementGauge, Goto, TypeOK, IInv, Counting
  <2> QED BY <2>5, <2>6, <2>7, <2>8, <2>9 DEF IInv
<1>10. ASSUME NEW h \in Handlers, CloseSocket(h) PROVE IInv'
  <2>1. Goto(h, "wsClose", "release")
    BY <1>10 DEF CloseSocket
  <2>5. TypeOK'
    BY <1>10, <1>t, <2>1, Moves DEF CloseSocket, TypeOK
  <2>6. SlotAccounting' /\ LimitHolds'
    BY <1>10, <2>1, KeepsSlots DEF CloseSocket, Holding
  <2>7. (activeConnections = Cardinality(Gauged))'
    BY <1>10, <2>1, KeepsGauge DEF CloseSocket, Gauging
  <2>8. (\A g \in Handlers : pc[g] = "cas" => current[g] < maxConnections)'
    BY <1>10, <2>1, KeepsLoaded DEF CloseSocket
  <2>9. Counting'
    BY <1>10, <1>t DEF CloseSocket, Goto, TypeOK, IInv, Counting
  <2> QED BY <2>5, <2>6, <2>7, <2>8, <2>9 DEF IInv
<1>11. ASSUME NEW h \in Handlers, Release(h) PROVE IInv'
  <2>1. Goto(h, "release", "idle")
    BY <1>11 DEF Release
  <2>2. Cardinality(Holders') = Cardinality(Holders) - 1 /\ h \in Holders
    BY <1>t, <2>1, Moves DEF TypeOK, Holding, Holders, Goto
  <2>3. active > 0
    BY <2>2, Finite, FS_EmptySet DEF IInv, SlotAccounting
  <2>4. active' = active - 1 /\ active' \in Int32
    BY <1>11, <1>t, <2>3 DEF Release, Pred32, TypeOK, Int32
  <2>5. TypeOK'
    BY <1>11, <1>t, <2>1, <2>4, Moves DEF Release, TypeOK
  <2>6. SlotAccounting' /\ LimitHolds'
    BY <1>0, <1>t, <2>2, <2>4 DEF IInv, SlotAccounting, LimitHolds, TypeOK, Int32
  <2>7. (activeConnections = Cardinality(Gauged))'
    BY <1>11, <2>1, KeepsGauge DEF Release, Gauging
  <2>8. (\A g \in Handlers : pc[g] = "cas" => current[g] < maxConnections)'
    BY <1>11, <2>1, KeepsLoaded DEF Release
  <2>9. Counting'
    BY <1>11, <1>t DEF Release, Goto, TypeOK, IInv, Counting
  <2> QED BY <2>5, <2>6, <2>7, <2>8, <2>9 DEF IInv
<1>12. CASE UNCHANGED vars
  BY <1>0, <1>12 DEF vars, IInv, TypeOK, SlotAccounting, LimitHolds, Counting, Holders, Gauged
<1> QED BY <1>1, <1>2, <1>3, <1>4, <1>5, <1>6, <1>7, <1>8, <1>9, <1>10, <1>11, <1>12 DEF Next

\* The invariant holds throughout.
LEMMA AlwaysIInv == Spec => []IInv
BY InitIInv, StepIInv, PTL DEF Spec

\* SessionManager.active, read by Acquire and by /health, always is the number of
\* handlers that hold a slot.
THEOREM SlotAccountingHolds == Spec => []SlotAccounting
<1>1. IInv => SlotAccounting
  BY DEF IInv
<1> QED BY <1>1, AlwaysIInv, PTL

\* Acquire never lets more handlers in than maxConnections, however many race.
THEOREM LimitAlwaysHolds == Spec => []LimitHolds
<1>1. IInv => LimitHolds
  BY DEF IInv
<1> QED BY <1>1, AlwaysIInv, PTL

\* Variables keep their types; in particular the int32 counter never wraps.
THEOREM TypeCorrect == Spec => []TypeOK
<1>1. IInv => TypeOK
  BY DEF IInv
<1> QED BY <1>1, AlwaysIInv, PTL

\* The gauge never exceeds the open sockets, nor the open sockets the slots.
THEOREM GaugeAlwaysWithinSlots == Spec => []GaugeWithinSlots
<1>1. ASSUME IInv PROVE GaugeWithinSlots
  <2>1. Gauged \subseteq OpenSockets /\ OpenSockets \subseteq Holders
    BY DEF Gauged, OpenSockets, Holders, Gauging, Connected, Holding
  <2>2. Cardinality(Gauged) <= Cardinality(OpenSockets)
    BY <2>1, Finite, FS_Subset
  <2>3. Cardinality(OpenSockets) <= Cardinality(Holders)
    BY <2>1, Finite, FS_Subset
  <2> QED BY <1>1, <2>2, <2>3 DEF IInv, SlotAccounting, GaugeWithinSlots
<1> QED BY <1>1, AlwaysIInv, PTL

\* A handler that returns has incremented exactly one of its three counters.
THEOREM CountedOnceHolds == Spec => CountedOnce
<1> DEFINE Once == \A h \in Handlers : pc[h] # "idle" /\ pc'[h] = "idle"
                                       => \E c \in Counters : counted'[h] = {c}
<1>1. ASSUME IInv, [Next]_vars PROVE [Once]_vars
  <2> SUFFICES ASSUME Next, NEW g \in Handlers, pc[g] # "idle", pc'[g] = "idle"
               PROVE  \E c \in Counters : counted'[g] = {c}
    BY <1>1
  <2>1. PICK h \in Handlers :
          \/ Request(h) \/ AcquireLoad(h) \/ AcquireSwap(h) \/ Reject(h)
          \/ UpgradeFails(h) \/ UpgradeSucceeds(h) \/ Establish(h)
          \/ SessionEnds(h) \/ DecrementGauge(h) \/ CloseSocket(h) \/ Release(h)
    BY DEF Next
  <2>2. TypeOK /\ Counting
    BY <1>1 DEF IInv
  <2>3. g = h /\ (Reject(h) \/ Release(h))
    BY <2>1, <2>2 DEF TypeOK, Goto, Request, AcquireLoad, AcquireSwap, Reject,
       UpgradeFails, UpgradeSucceeds, Establish, SessionEnds, DecrementGauge,
       CloseSocket, Release
  <2>4. CASE Reject(h)
    BY <2>2, <2>3, <2>4 DEF Reject, Goto, Count, Counting, Counters, TypeOK
  <2>5. CASE Release(h)
    BY <2>2, <2>3, <2>5 DEF Release, Goto, Counting, TypeOK
  <2> QED BY <2>3, <2>4, <2>5
<1> QED BY <1>1, AlwaysIInv, PTL DEF Spec, CountedOnce

\* SessionManager implements a pool of maxConnections slots: each grant happens
\* while a slot is free, each refusal while none is.
THEOREM AdmissionImplementsPool == Spec => ImplementsPool
<1>1. Init => Pool!Init
  BY DEF Init, Pool!Init, verdictOf, Holding
<1>2. ASSUME IInv, [Next]_vars PROVE [Pool!Next]_verdictOf
  <2>0. TypeOK /\ Holders = Pool!Granted
    BY <1>2 DEF IInv, Holders, Pool!Granted, verdictOf
  <2>c. Pool!Cardinality(Pool!Granted) = Cardinality(Holders)
    BY <2>0 DEF Pool!Cardinality, Cardinality
  <2>1. CASE UNCHANGED vars
    BY <2>1 DEF vars, verdictOf
  <2>2. ASSUME NEW h \in Handlers, AcquireLoad(h) PROVE [Pool!Next]_verdictOf
    <3>1. CASE active >= maxConnections
      <4>1. verdictOf[h] = "none" /\ verdictOf' = [verdictOf EXCEPT ![h] = "refused"]
        BY <2>0, <2>2, <3>1 DEF AcquireLoad, Goto, verdictOf, Holding, TypeOK
      <4>2. Pool!Cardinality(Pool!Granted) >= maxConnections
        BY <1>2, <2>c, <3>1 DEF IInv, SlotAccounting
      <4> QED BY <4>1, <4>2 DEF Pool!Next, Pool!Refuse
    <3>2. CASE ~(active >= maxConnections)
      BY <2>0, <2>2, <3>2 DEF AcquireLoad, Goto, verdictOf, Holding, TypeOK
    <3> QED BY <3>1, <3>2
  <2>3. ASSUME NEW h \in Handlers, AcquireSwap(h) PROVE [Pool!Next]_verdictOf
    <3>1. CASE active = current[h]
      <4>1. verdictOf[h] = "none" /\ verdictOf' = [verdictOf EXCEPT ![h] = "granted"]
        BY <2>0, <2>3, <3>1 DEF AcquireSwap, Goto, verdictOf, Holding, TypeOK
      <4>2. Pool!Cardinality(Pool!Granted) < maxConnections
        BY <1>2, <2>c, <2>3, <3>1 DEF IInv, SlotAccounting, AcquireSwap, Goto
      <4> QED BY <4>1, <4>2 DEF Pool!Next, Pool!Grant
    <3>2. CASE active # current[h]
      BY <2>0, <2>3, <3>2 DEF AcquireSwap, Goto, verdictOf, Holding, TypeOK
    <3> QED BY <3>1, <3>2
  <2>4. ASSUME NEW h \in Handlers, Reject(h) \/ Release(h) PROVE [Pool!Next]_verdictOf
    <3>1. verdictOf[h] # "none" /\ verdictOf' = [verdictOf EXCEPT ![h] = "none"]
      BY <2>0, <2>4 DEF Reject, Release, Goto, verdictOf, Holding, TypeOK
    <3> QED BY <3>1 DEF Pool!Next, Pool!Leave
  <2>5. ASSUME NEW h \in Handlers,
               \/ Request(h) \/ UpgradeFails(h) \/ UpgradeSucceeds(h) \/ Establish(h)
               \/ SessionEnds(h) \/ DecrementGauge(h) \/ CloseSocket(h)
        PROVE  UNCHANGED verdictOf
    BY <2>0, <2>5 DEF Request, UpgradeFails, UpgradeSucceeds, Establish, SessionEnds,
       DecrementGauge, CloseSocket, Goto, verdictOf, Holding, TypeOK
  <2> QED BY <1>2, <2>1, <2>2, <2>3, <2>4, <2>5 DEF Next
<1> QED BY <1>1, <1>2, AlwaysIInv, PTL DEF Spec, ImplementsPool, Pool!Spec

\* A limit too large for an int32 never lets in more handlers than were configured: it
\* is narrowed to a smaller one, and requests are refused below the configured
\* capacity.  Below the least int32 that ends, a negative limit can become positive.
THEOREM NarrowingNeverAdmitsMore ==
  ASSUME MaxConnections >= -Half
  PROVE  Spec => [](Holders # {} => Cardinality(Holders) <= MaxConnections)
<1>1. maxConnections <= MaxConnections /\ maxConnections \in Int
  <2>1. ASSUME NEW a \in Nat, NEW m \in Nat, m > 0 PROVE a % m <= a /\ a % m \in Int
    BY <2>1, SMT
  <2>2. MaxConnections + Half \in Nat /\ 2 * Half \in Nat /\ 2 * Half > 0
    BY WidthAssumption
  <2>3. (MaxConnections + Half) % (2 * Half) <= MaxConnections + Half
        /\ (MaxConnections + Half) % (2 * Half) \in Int
    BY <2>1, <2>2
  <2> QED BY <2>3, WidthAssumption DEF maxConnections, ToInt32
<1>2. IInv => (Holders # {} => Cardinality(Holders) <= MaxConnections)
  BY <1>1, Finite, WidthAssumption DEF IInv, LimitHolds
<1> QED BY <1>2, AlwaysIInv, PTL
=============================================================================
