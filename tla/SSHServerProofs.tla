-------------------------- MODULE SSHServerProofs ---------------------------
(***************************************************************************)
(* Theorems about SSHAdmission, for every finite set of channels and every *)
(* value of MaxSessions, and about SSHServer, which drives it, for any     *)
(* clients too.                                                            *)
(***************************************************************************)
EXTENDS SSHServer, FiniteSetTheorems, TLAPS

Counted == Serving \cup BackingOut

\* Inductive strengthening: without a limit no channel is ever backed out.
IInv == /\ TypeOK
        /\ SessionsAccounting
        /\ SessionLimitHolds
        /\ ~Limited => BackingOut = {}

\* How the size of a set of channels changes with one channel.
LEMMA Sizes ==
  ASSUME NEW S \in SUBSET Channels, NEW c
  PROVE  /\ IsFiniteSet(S) /\ Cardinality(S) \in Nat
         /\ c \notin S => Cardinality(S \cup {c}) = Cardinality(S) + 1
         /\ c \in S => Cardinality(S \ {c}) = Cardinality(S) - 1
<1>1. IsFiniteSet(S)
  BY ChannelsFinite, FS_Subset
<1>2. Cardinality(S \cup {c}) = IF c \in S THEN Cardinality(S) ELSE Cardinality(S) + 1
  BY <1>1, FS_AddElement
<1>3. Cardinality(S \ {c}) = IF c \in S THEN Cardinality(S) - 1 ELSE Cardinality(S)
  BY <1>1, FS_RemoveElement
<1> QED BY <1>1, <1>2, <1>3, FS_CardinalityType

\* The sets the count is about are sets of channels.
LEMMA Subsets == Counted \in SUBSET Channels /\ Serving \in SUBSET Channels
                 /\ Cardinality(Serving) \in Nat /\ Cardinality(Counted) \in Nat
                 /\ Cardinality(Serving) <= Cardinality(Counted)
<1>1. Counted \in SUBSET Channels /\ Serving \in SUBSET Counted
  BY DEF Counted, Serving, BackingOut
<1>2. IsFiniteSet(Counted)
  BY <1>1, Sizes
<1> QED BY <1>1, <1>2, Sizes, FS_Subset

\* A server that has just started satisfies the invariant.
LEMMA InitIInv == Init => IInv
<1> SUFFICES ASSUME Init PROVE IInv
  OBVIOUS
<1>1. Serving = {} /\ BackingOut = {} /\ Serving \cup BackingOut = {}
  BY DEF Init, Serving, BackingOut
<1>2. TypeOK
  BY DEF Init, TypeOK, Locations
<1> QED BY <1>1, <1>2, FS_EmptySet, MaxSessionsInt
        DEF Init, IInv, SessionsAccounting, SessionLimitHolds, Limited

\* Every step preserves the inductive invariant.
LEMMA StepIInv == IInv /\ [Next]_vars => IInv'
<1> SUFFICES ASSUME IInv, [Next]_vars PROVE IInv'
  OBVIOUS
<1> USE DEF Locations
<1>0. /\ TypeOK /\ Limited' = Limited /\ MaxSessions \in Int
      /\ Limited => sessions = Cardinality(Counted)
      /\ ~Limited => sessions = 0 /\ BackingOut = {}
  BY MaxSessionsInt DEF IInv, SessionsAccounting, Counted, Limited
<1>1. ASSUME NEW c \in Channels, Acquire(c) PROVE IInv'
  <2>1. c \notin Counted /\ pc \in [Channels -> Locations] /\ pc[c] = "idle"
    BY <1>0, <1>1 DEF Acquire, Goto, Counted, Serving, BackingOut, TypeOK
  <2>2. CASE Limited /\ sessions + 1 > MaxSessions
    <3>1. pc' = [pc EXCEPT ![c] = "undo"] /\ sessions' = sessions + 1
      BY <1>1, <2>2 DEF Acquire, Goto
    <3>2. Counted' = Counted \cup {c} /\ Serving' = Serving
      BY <2>1, <3>1 DEF Counted, Serving, BackingOut
    <3>3. TypeOK'
      BY <1>0, <2>1, <3>1 DEF TypeOK
    <3>4. Cardinality(Counted') = Cardinality(Counted) + 1
      BY <2>1, <3>2, Sizes, Subsets
    <3>5. SessionsAccounting' /\ SessionLimitHolds'
      BY <1>0, <2>2, <3>1, <3>2, <3>4 DEF IInv, SessionsAccounting, SessionLimitHolds, Counted
    <3> QED BY <1>0, <2>2, <3>3, <3>5 DEF IInv
  <2>3. CASE ~(Limited /\ sessions + 1 > MaxSessions)
    <3>1. pc' = [pc EXCEPT ![c] = "running"]
          /\ sessions' = IF Limited THEN sessions + 1 ELSE sessions
      BY <1>1, <2>3 DEF Acquire, Goto
    <3>2. /\ Counted' = Counted \cup {c} /\ Serving' = Serving \cup {c}
          /\ BackingOut' = BackingOut /\ c \notin Serving
      BY <2>1, <3>1 DEF Counted, Serving, BackingOut
    <3>3. TypeOK'
      BY <1>0, <2>1, <3>1 DEF TypeOK
    <3>4. /\ Cardinality(Counted') = Cardinality(Counted) + 1
          /\ Cardinality(Serving') = Cardinality(Serving) + 1
      BY <2>1, <3>2, Sizes, Subsets
    <3>5. SessionsAccounting'
      BY <1>0, <3>1, <3>4 DEF SessionsAccounting, Counted
    <3>6. SessionLimitHolds'
      BY <1>0, <2>3, <3>4, Subsets DEF SessionLimitHolds
    <3> QED BY <1>0, <3>2, <3>3, <3>5, <3>6 DEF IInv
  <2> QED BY <2>2, <2>3
<1>2. ASSUME NEW c \in Channels, BackOut(c) PROVE IInv'
  <2>1. /\ Counted' = Counted \ {c} /\ Serving' = Serving /\ c \in Counted
        /\ BackingOut' \subseteq BackingOut /\ c \in BackingOut
    BY <1>0, <1>2 DEF BackOut, Goto, Counted, Serving, BackingOut, TypeOK
  <2>2. Cardinality(Counted') = Cardinality(Counted) - 1 /\ Limited
    BY <1>0, <2>1, Sizes, Subsets
  <2>3. SessionsAccounting' /\ SessionLimitHolds'
    BY <1>0, <1>2, <2>1, <2>2, Subsets
       DEF BackOut, IInv, SessionsAccounting, SessionLimitHolds, Counted
  <2>4. Cardinality(Counted') \in Nat
    <3>1. Counted' \in SUBSET Channels
      BY <2>1, Subsets
    <3> QED BY <3>1, Sizes
  <2>5. TypeOK'
    BY <1>0, <1>2, <2>2, <2>4 DEF BackOut, Goto, TypeOK
  <2> QED BY <2>2, <2>3, <2>5, <1>0 DEF IInv
<1>3. ASSUME NEW c \in Channels, Refuse(c) \/ Finish(c) PROVE IInv'
  <2>1. Counted' = Counted /\ Serving' = Serving /\ BackingOut' = BackingOut
    BY <1>0, <1>3 DEF Refuse, Finish, Goto, Counted, Serving, BackingOut, TypeOK
  <2>2. TypeOK' /\ UNCHANGED sessions
    BY <1>0, <1>3 DEF Refuse, Finish, Goto, TypeOK
  <2> QED BY <1>0, <2>1, <2>2 DEF IInv, SessionsAccounting, SessionLimitHolds, Counted
<1>4. ASSUME NEW c \in Channels, Release(c) PROVE IInv'
  <2>1. /\ Counted' = Counted \ {c} /\ Serving' = Serving \ {c} /\ c \in Serving
        /\ c \in Counted /\ BackingOut' = BackingOut
    BY <1>0, <1>4 DEF Release, Goto, Counted, Serving, BackingOut, TypeOK
  <2>2. /\ Cardinality(Counted') = Cardinality(Counted) - 1
        /\ Cardinality(Serving') = Cardinality(Serving) - 1
    BY <2>1, Sizes, Subsets
  <2>3. Cardinality(Counted') \in Nat
    <3>1. Counted' \in SUBSET Channels
      BY <2>1, Subsets
    <3> QED BY <3>1, Sizes
  <2>4. TypeOK'
    BY <1>0, <1>4, <2>2, <2>3 DEF Release, Goto, TypeOK
  <2>5. SessionsAccounting'
    BY <1>0, <1>4, <2>2 DEF Release, SessionsAccounting, Counted
  <2>6. SessionLimitHolds'
    BY <1>0, <2>2, Subsets DEF IInv, SessionLimitHolds
  <2> QED BY <1>0, <2>1, <2>4, <2>5, <2>6 DEF IInv
<1>5. CASE UNCHANGED vars
  BY <1>0, <1>5 DEF vars, IInv, TypeOK, SessionsAccounting, SessionLimitHolds, Serving, BackingOut
<1> QED BY <1>1, <1>2, <1>3, <1>4, <1>5 DEF Next

\* The invariant holds throughout.
LEMMA AlwaysIInv == Spec => []IInv
BY InitIInv, StepIInv, PTL DEF Spec

\* Server.sessions is exact at every instant, additions of refused channels
\* included, and never negative.
THEOREM AccountingHolds == Spec => [](TypeOK /\ SessionsAccounting)
<1>1. IInv => TypeOK /\ SessionsAccounting
  BY DEF IInv
<1> QED BY <1>1, AlwaysIInv, PTL

\* acquireSession never lets more than MaxSessions channels be served at once.
THEOREM LimitHolds == Spec => []SessionLimitHolds
<1>1. IInv => SessionLimitHolds
  BY DEF IInv
<1> QED BY <1>1, AlwaysIInv, PTL

\* A channel is refused only when MaxSessions others are served or backing out,
\* and never when the limit is disabled.
THEOREM ContentionHolds == Spec => RefusalNeedsContention
<1> DEFINE Contended == \A c \in Channels : pc[c] = "idle" /\ pc'[c] = "undo"
       => Limited /\ Cardinality(Serving \cup BackingOut) >= MaxSessions
<1>1. ASSUME IInv, [Next]_vars PROVE [Contended]_vars
  <2> SUFFICES ASSUME Next, NEW c \in Channels, pc[c] = "idle", pc'[c] = "undo"
               PROVE  Limited /\ Cardinality(Serving \cup BackingOut) >= MaxSessions
    BY <1>1
  <2>1. TypeOK
    BY <1>1 DEF IInv
  <2>2. Acquire(c)
    BY <2>1 DEF Next, Acquire, BackOut, Refuse, Finish, Release, Goto, TypeOK
  <2>3. Limited /\ sessions + 1 > MaxSessions
    BY <2>1, <2>2 DEF Acquire, Goto, TypeOK
  <2>4. sessions = Cardinality(Serving \cup BackingOut)
    BY <1>1, <2>3 DEF IInv, SessionsAccounting
  <2> QED BY <2>1, <2>3, <2>4, MaxSessionsInt DEF TypeOK
<1> QED BY <1>1, AlwaysIInv, PTL DEF Spec, RefusalNeedsContention

-----------------------------------------------------------------------------
(* The process.                                                             *)

\* The drain follows a signal and the deadline the drain; nothing that was connected
\* before is left open by Close, and the process cuts nobody while it runs.
Orderly == /\ main \in {"drain", "close", "closed"} => signalled
           /\ main \in {"close", "closed"} => overtime
           /\ serve = "closed" \/ errCh = "closed" => main # "select"
           /\ main = "exit" <=> ~Running
           /\ main = "closed" => \A k \in Clients : client[k] # "open"
           /\ Running => \A k \in Clients : client[k] # "cut"

ServerInv == ServerTypeOK /\ Orderly /\ DrainSpares /\ UnaskedExitIsError

\* The process starts with nothing done.
LEMMA ServerStarts == ServerInit => ServerInv
<1> SUFFICES ASSUME ServerInit PROVE ServerInv
  OBVIOUS
<1>1. TypeOK
  BY InitIInv DEF ServerInit, IInv
<1> QED BY <1>1 DEF ServerInit, ServerInv, ServerTypeOK, Orderly, Running, DrainSpares,
                    UnaskedExitIsError

\* Clients come and go; one that is established during a drain is late.
LEMMA ClientKeeps ==
  ASSUME ServerInv, TypeOK', Running, NEW k \in Clients, ClientStep(k)
  PROVE  ServerInv'
<1> USE DEF ServerInv, ClientStep, Connect, Established, ClientLeaves, OpenSFTP, SFTPEnds
<1>1. UNCHANGED <<signalled, main, serve, errCh, exit, command, on, overtime>>
  OBVIOUS
<1> DEFINE States == {"none", "handshake", "open", "late", "gone", "severed", "cut", "cutLate"}
           Clause(j) == \/ client'[j] = client[j] \/ client'[j] \in {"handshake", "late", "gone"}
                        \/ main = "select" /\ client'[j] = "open"
<1>2. client \in [Clients -> States] /\ sftp \in [Clients -> BOOLEAN]
  BY DEF ServerTypeOK
<1>3. client' \in [Clients -> States] /\ sftp' \in [Clients -> BOOLEAN]
      /\ \A j \in Clients : Clause(j)
  <2>1. CASE Connect(k)
    BY <1>2, <2>1
  <2>2. CASE Established(k)
    <3>1. CASE main = "select"
      BY <1>2, <2>2, <3>1
    <3>2. CASE main # "select"
      BY <1>2, <2>2, <3>2
    <3> QED BY <3>1, <3>2
  <2>3. CASE ClientLeaves(k)
    BY <1>2, <2>3
  <2>4. CASE OpenSFTP(k) \/ SFTPEnds(k)
    BY <1>2, <2>4
  <2> QED BY <2>1, <2>2, <2>3, <2>4
<1>4. ServerTypeOK'
  BY <1>1, <1>3 DEF ServerTypeOK
<1>5. Orderly' /\ UnaskedExitIsError'
  BY <1>1, <1>3 DEF Orderly, UnaskedExitIsError, Running
<1>6. DrainSpares'
  BY <1>1, <1>3 DEF DrainSpares
<1> QED BY <1>4, <1>5, <1>6

\* So do channels and their commands.
LEMMA ChannelKeeps ==
  ASSUME ServerInv, TypeOK', Running, NEW c \in Channels, ChannelStep(c)
  PROVE  ServerInv'
<1> USE DEF ServerInv, ChannelStep, OpenSession, CommandEnds, HangUp, KillAfterGrace,
            HandlerStep, HandlerReturns, server
<1>1. UNCHANGED <<signalled, main, serve, errCh, exit, client, sftp, overtime>>
  OBVIOUS
<1>2. /\ command' \in [Channels -> {"none", "alive", "ignoresHUP"}]
      /\ on' \in [Channels -> Clients \cup {"none"}]
  BY DEF ServerTypeOK, Tracked
<1> QED BY <1>1, <1>2 DEF ServerTypeOK, Orderly, DrainSpares, UnaskedExitIsError, Running

\* The end of the process keeps the invariant if whoever is still connected is cut by
\* a listener's error, and success was asked for.
LEMMA ExitKeeps ==
  ASSUME ServerInv, Running, NEW status \in {"success", "failure"}, Exits(status),
         errCh = "error" \/ \A k \in Clients : client[k] # "open",
         status = "success" => signalled
  PROVE  ServerInv'
<1> USE DEF ServerInv
<1>1. /\ main' = "exit" /\ exit' = status
      /\ UNCHANGED <<vars, signalled, serve, errCh, sftp, command, on, overtime>>
  BY DEF Exits
<1>2. \A k \in Clients : client'[k] = IF client[k] = "open" THEN "cut"
                                      ELSE IF client[k] \in {"late", "handshake"} THEN "cutLate"
                                      ELSE client[k]
  BY DEF Exits
<1>3. ServerTypeOK'
  BY <1>1 DEF Exits, ServerTypeOK, TypeOK, vars
<1>4. Orderly' /\ UnaskedExitIsError'
  BY <1>1 DEF Orderly, UnaskedExitIsError, Running
<1>5. DrainSpares'
  BY <1>1, <1>2 DEF DrainSpares, Orderly, Running
<1> QED BY <1>3, <1>4, <1>5

\* main, Shutdown and ListenAndServe.
LEMMA MainKeeps ==
  ASSUME ServerInv, TypeOK', Running, MainStep \/ ServeStep \/ AcceptFails \/ Signal
  PROVE  ServerInv'
<1> USE DEF ServerInv
<1>1. CASE Listen \/ AcceptFails
  BY <1>1 DEF Listen, AcceptFails, ServerTypeOK, Orderly, DrainSpares, UnaskedExitIsError, Running
<1>2. CASE ServeReturns
  <2>1. errCh # "error" => \A k \in Clients : client[k] # "cut"
    BY DEF DrainSpares
  <2>2. ServerTypeOK' /\ Orderly' /\ UnaskedExitIsError'
    BY <1>2 DEF ServeReturns, ServerTypeOK, Orderly, UnaskedExitIsError, Running
  <2>3. DrainSpares'
    BY <1>2 DEF ServeReturns, Orderly, DrainSpares, Running
  <2> QED BY <2>2, <2>3
<1>3. CASE Signal
  BY <1>3 DEF Signal, ServerTypeOK, Orderly, DrainSpares, UnaskedExitIsError, Running
<1>4. CASE SelectDone \/ DeadlinePasses
  BY <1>4 DEF SelectDone, DeadlinePasses, ServerTypeOK, Orderly, DrainSpares,
              UnaskedExitIsError, Running
<1>5. CASE Close
  <2>1. \A k \in Clients : client'[k] = IF k \in Tracked THEN "severed" ELSE client[k]
    BY <1>5 DEF Close
  <2>2. ServerTypeOK'
    BY <1>5 DEF Close, ServerTypeOK
  <2>3. Orderly' /\ UnaskedExitIsError'
    BY <1>5, <2>1 DEF Close, Orderly, UnaskedExitIsError, Running, Tracked
  <2>4. DrainSpares'
    BY <1>5, <2>1 DEF Close, Orderly, DrainSpares
  <2> QED BY <2>2, <2>3, <2>4
<1>6. CASE SelectErr
  <2>1. errCh = "error"
    BY <1>6 DEF SelectErr, ServerTypeOK, Orderly
  <2>2. Exits("failure")
    BY <1>6, <2>1 DEF SelectErr
  <2> QED BY <2>1, <2>2, ExitKeeps
<1>7. CASE DrainEnds \/ CloseReturns
  <2>1. PICK status \in {"success", "failure"} : Exits(status)
    BY <1>7 DEF DrainEnds, CloseReturns
  <2>2. signalled /\ \A k \in Clients : client[k] # "open"
    BY <1>7 DEF DrainEnds, CloseReturns, Tracked, Orderly
  <2> QED BY <2>1, <2>2, ExitKeeps
<1> QED BY <1>1, <1>2, <1>3, <1>4, <1>5, <1>6, <1>7 DEF MainStep, ServeStep

\* Handlers take and return slots as SSHAdmission says, whatever else the process does.
THEOREM ServerAdmits == ServerSpec => Spec
<1>1. [ServerNext]_allVars => [Next]_vars
  BY DEF ServerNext, ClientStep, Connect, Established, ClientLeaves, OpenSFTP, SFTPEnds,
     ChannelStep, OpenSession, CommandEnds, HangUp, KillAfterGrace, HandlerStep,
     HandlerReturns, ServeStep, Listen, ServeReturns, AcceptFails, Signal, MainStep,
     SelectErr, SelectDone, DrainEnds, DeadlinePasses, Close, CloseReturns, Exits,
     Next, vars, allVars
<1> QED BY <1>1, PTL DEF ServerSpec, ServerInit, Spec

\* The invariant of the process holds throughout.
LEMMA AlwaysServerInv == ServerSpec => []ServerInv
<1>1. ServerSpec => []IInv
  BY ServerAdmits, AlwaysIInv, PTL
<1>2. ServerInv /\ IInv' /\ [ServerNext]_allVars => ServerInv'
  <2> SUFFICES ASSUME ServerInv, IInv', [ServerNext]_allVars PROVE ServerInv'
    OBVIOUS
  <2>1. TypeOK'
    BY DEF IInv
  <2>2. CASE UNCHANGED allVars
    BY <2>1, <2>2 DEF allVars, server, ServerInv, ServerTypeOK, Orderly, DrainSpares,
                      UnaskedExitIsError, Running
  <2> QED BY <2>1, <2>2, ClientKeeps, ChannelKeeps, MainKeeps DEF ServerNext
<1> QED BY <1>1, <1>2, ServerStarts, PTL DEF ServerSpec

\* A drain severs nobody before its deadline, and main does not end under a client that
\* was connected when it began unless the listener failed.
THEOREM DrainAlwaysSpares == ServerSpec => []DrainSpares
<1>1. ServerInv => DrainSpares
  BY DEF ServerInv
<1> QED BY <1>1, AlwaysServerInv, PTL

\* The process reports success only if it was told to stop.
THEOREM SuccessWasAsked == ServerSpec => []UnaskedExitIsError
<1>1. ServerInv => UnaskedExitIsError
  BY DEF ServerInv
<1> QED BY <1>1, AlwaysServerInv, PTL
=============================================================================
