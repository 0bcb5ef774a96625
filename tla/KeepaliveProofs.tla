-------------------------- MODULE KeepaliveProofs ---------------------------
(***************************************************************************)
(* HealthyKept and DeadPeerCut for every environment and all durations.    *)
(* The inductive invariant says when the next pong comes at the latest:    *)
(* before the read deadline.                                               *)
(***************************************************************************)
EXTENDS Keepalive, TLAPS

TypeOK == /\ interval \in Int /\ timeout \in Int /\ hold \in Nat /\ answer \in Nat
          /\ phase \in {"dial", "open", "cut", "failed", "refused", "panicked"}
          /\ dialed \in Nat /\ ttl \in Int /\ tick \in Int /\ left \in Int
          /\ fired \in BOOLEAN /\ pinger \in {"waiting", "writing"}
          /\ due \in SUBSET (0 .. answer) /\ silentFor \in Nat
          /\ client \in {"answering", "silent"} /\ reader \in {"reading", "writing"}

\* The difference that LoadConfig demands.
Validated == phase # "refused" => interval < timeout

\* The deadline has run since before the dial.
Dialing == phase = "dial" => /\ due = {} /\ pinger = "waiting" /\ fired = FALSE
                             /\ dialed <= timeout => ttl = timeout - dialed

Bounds == /\ ttl <= timeout
          /\ phase = "open" => /\ interval > 0 /\ 0 <= tick /\ tick <= interval
                               /\ pinger = "writing" => 0 <= left /\ left <= hold

\* The time until the pong to the ping that is written next.
NextPong == IF pinger = "writing" THEN left + answer
            ELSE IF fired THEN hold + answer ELSE tick + hold + answer

\* A pong comes before the deadline.
Ahead == phase = "open" /\ InTime =>
           IF due = {} THEN NextPong < ttl ELSE \E d \in due : d < ttl

\* What a silent client has left of its deadline.
Silence == IF client = "silent" THEN due = {} /\ (ttl > 0 => ttl + silentFor <= timeout)
                                ELSE silentFor = 0

IInv == /\ TypeOK /\ Validated /\ Dialing /\ Bounds /\ Ahead /\ Silence /\ HealthyKept

-----------------------------------------------------------------------------
\* A configuration that LoadConfig accepts starts ws-proxy in the invariant.
LEMMA InitIInv == Init => IInv
<1> SUFFICES ASSUME Init PROVE IInv
    OBVIOUS
<1>1. PICK env \in Envs : /\ interval = LoadConfig(env).PingInterval
                          /\ timeout = LoadConfig(env).PingTimeout
                          /\ phase = IF Accepted(LoadConfig(env)) THEN "dial" ELSE "refused"
      BY DEF Init
<1>2. interval \in Int /\ timeout \in Int
      BY <1>1, EnvsAssumption, DefaultsAssumption DEF LoadConfig, getTypedEnv
<1>3. phase # "refused" => interval < timeout
  <2>1. Accepted(LoadConfig(env)) =>
          LoadConfig(env).PingInterval < LoadConfig(env).PingTimeout
        BY DEF Accepted
  <2> QED BY <2>1, <1>1
<1>4. /\ hold \in Nat /\ answer \in Nat /\ ttl = timeout /\ dialed = 0
      /\ tick = 0 /\ fired = FALSE /\ pinger = "waiting" /\ left = 0 /\ due = {}
      /\ client = "answering" /\ reader = "reading" /\ silentFor = 0
      BY TimesAssumption DEF Init
<1>5. phase \in {"dial", "refused"}
      BY <1>1
<1>6. TypeOK
  <2>1. /\ dialed \in Nat /\ ttl \in Int /\ tick \in Int /\ left \in Int /\ silentFor \in Nat
        /\ due \in SUBSET (0 .. answer)
        BY <1>2, <1>4
  <2>2. /\ fired \in BOOLEAN /\ pinger \in {"waiting", "writing"}
        /\ client \in {"answering", "silent"} /\ reader \in {"reading", "writing"}
        BY <1>4
  <2> QED BY <1>2, <1>4, <1>5, <2>1, <2>2 DEF TypeOK
<1>7. Dialing /\ Bounds /\ Silence
      BY <1>2, <1>4, <1>5 DEF Dialing, Bounds, Silence
<1>8. Validated /\ Ahead /\ HealthyKept
      BY <1>3, <1>5 DEF Validated, Ahead, HealthyKept
<1> QED BY <1>6, <1>7, <1>8 DEF IInv

\* The dial and what the target or the client does to the session keep it.
LEMMA OutsideKeeps ==
  IInv /\ (DialSucceeds \/ DialFails \/ Turn \/ FallSilent) => IInv'
<1> SUFFICES ASSUME IInv, DialSucceeds \/ DialFails \/ Turn \/ FallSilent PROVE IInv'
    OBVIOUS
<1> USE DEF IInv, TypeOK, Validated, Dialing, Bounds, Ahead, NextPong, Silence,
            HealthyKept, InTime, settings, ticking, peer
<1>1. CASE DialSucceeds BY <1>1 DEF DialSucceeds
<1>2. CASE DialFails BY <1>2 DEF DialFails
<1>3. CASE Turn BY <1>3 DEF Turn
<1>4. CASE FallSilent BY <1>4 DEF FallSilent
<1> QED BY <1>1, <1>2, <1>3, <1>4

\* So does pingLoop when it takes a tick: the ping's time to be written starts then.
LEMMA PingKeeps == IInv /\ Ping => IInv'
<1> SUFFICES ASSUME IInv, Ping PROVE IInv'
    OBVIOUS
<1> USE DEF IInv
<1>1. left' = hold /\ hold \in Nat
      BY DEF Ping, TypeOK
<1>2. TypeOK'
  <2>1. fired' \in BOOLEAN /\ pinger' \in {"waiting", "writing"}
        BY Zenon DEF Ping
  <2>2. left' \in Int
        BY <1>1
  <2>3. UNCHANGED <<settings, phase, dialed, ttl, tick, due, peer>>
        BY Zenon DEF Ping
  <2> QED BY <2>1, <2>2, <2>3 DEF TypeOK, settings, peer
<1>3. Validated' /\ Dialing' /\ Silence' /\ HealthyKept'
      BY DEF TypeOK, Validated, Dialing, Silence, HealthyKept, InTime, Ping, settings, peer
<1>4. Bounds'
      BY <1>1 DEF TypeOK, Bounds, Ping, settings
<1>5. NextPong = hold + answer
      BY Zenon DEF Ping, NextPong
<1>6. NextPong' = hold + answer
      BY DEF Ping, NextPong, settings
<1>7. Ahead'
      BY <1>5, <1>6 DEF Ahead, InTime, Ping, settings, peer
<1> QED BY <1>2, <1>3, <1>4, <1>7

\* And when the ticker fires, or a ping is written or not.
LEMMA TickKeeps == IInv /\ (Fire \/ Sent \/ PingFails) => IInv'
<1> SUFFICES ASSUME IInv, Fire \/ Sent \/ PingFails PROVE IInv'
    OBVIOUS
<1> USE DEF IInv, TypeOK, Validated, Dialing, Bounds, Ahead, NextPong, Silence,
            HealthyKept, InTime, settings, ticking, peer
<1>1. CASE Fire BY <1>1 DEF Fire
<1>2. CASE Sent BY <1>2 DEF Sent
<1>3. CASE PingFails BY <1>3, TimesAssumption DEF PingFails
<1> QED BY <1>1, <1>2, <1>3

\* And the read pump: whatever is still outstanding when a pong is handled has a whole
\* timeout left, and the deadline does not pass before a pong that is in time.
LEMMA ReadKeeps == IInv /\ (Pong \/ Expire) => IInv'
<1> SUFFICES ASSUME IInv, Pong \/ Expire PROVE IInv'
    OBVIOUS
<1> USE DEF IInv, TypeOK, Validated, Dialing, Bounds, Ahead, NextPong, Silence,
            HealthyKept, InTime, settings, ticking, peer
<1>1. CASE Pong BY <1>1 DEF Pong
<1>2. CASE Expire BY <1>2 DEF Expire
<1> QED BY <1>1, <1>2

\* Time takes as much from the next pong as from the deadline.
LEMMA PassKeeps == IInv /\ Pass => IInv'
<1> SUFFICES ASSUME IInv, Pass PROVE IInv'
    OBVIOUS
<1> USE DEF IInv
<1>1. TypeOK'
      BY DEF TypeOK, Dialing, Pass, Quiet, settings
<1>2. Validated' /\ Dialing' /\ Bounds' /\ HealthyKept'
      BY DEF TypeOK, Validated, Dialing, Bounds, HealthyKept, InTime, Pass, Quiet, settings
<1>3. Ahead'
  <2> SUFFICES ASSUME phase = "open", InTime
               PROVE  IF due' = {} THEN NextPong' < ttl' ELSE \E d \in due' : d < ttl'
      BY DEF Ahead, InTime, Pass, Quiet, settings
  <2>1. CASE due = {}
    <3>1. due' = {}
          BY <2>1 DEF Pass
    <3>2. NextPong < ttl
          BY <2>1 DEF Ahead
    <3>3. NextPong' = NextPong - 1 /\ NextPong >= 0 /\ NextPong \in Int
          BY DEF TypeOK, NextPong, Bounds, Pass, Quiet, settings
    <3>4. ttl' = ttl - 1
          BY <3>2, <3>3 DEF TypeOK, Pass
    <3> QED BY <3>1, <3>2, <3>3, <3>4 DEF TypeOK
  <2>2. CASE due # {}
    <3>1. PICK d \in due : d < ttl
          BY <2>2 DEF Ahead
    <3>2. d \in Nat /\ d - 1 \in due' /\ ttl' = ttl - 1
          BY <3>1 DEF TypeOK, Pass
    <3>3. d - 1 < ttl'
          BY <3>1, <3>2 DEF TypeOK
    <3> QED BY <3>2, <3>3
  <2> QED BY <2>1, <2>2
<1>4. Silence'
      BY DEF TypeOK, Silence, Pass, settings
<1> QED BY <1>1, <1>2, <1>3, <1>4

\* The invariant holds throughout.
LEMMA AlwaysIInv == Spec => []IInv
<1>1. IInv /\ [Next]_vars => IInv'
      <2>1. IInv /\ UNCHANGED vars => IInv'
            BY DEF IInv, TypeOK, Validated, Dialing, Bounds, Ahead, NextPong, Silence,
                   HealthyKept, InTime, settings, ticking, peer, vars
      <2> QED BY <2>1, OutsideKeeps, PingKeeps, TickKeeps, ReadKeeps, PassKeeps DEF Next
<1> QED BY <1>1, InitIInv, PTL DEF Spec

-----------------------------------------------------------------------------
\* A client that answers in time is never cut, under any configuration that is
\* accepted: a pong is always due before the read deadline, also right after the dial
\* and when ticks are dropped.
THEOREM HealthyAlwaysKept == Spec => []HealthyKept
<1>1. IInv => HealthyKept
      BY DEF IInv
<1> QED BY <1>1, AlwaysIInv, PTL

\* No time passes for a client that has been silent for PingTimeout, unless the read
\* pump is held up in a write to the target.
THEOREM DeadPeerAlwaysCut == Spec => DeadPeerCut
<1>1. IInv /\ [Next]_vars =>
        [phase = "open" /\ silentFor' > silentFor /\ silentFor >= timeout
           => reader = "writing"]_vars
  <2> SUFFICES ASSUME IInv, Next, phase = "open", silentFor' > silentFor,
                      silentFor >= timeout
               PROVE  reader = "writing"
      OBVIOUS
  <2>1. silentFor' = silentFor \/ Pass
        BY DEF Next, DialSucceeds, DialFails, Fire, Ping, Sent, PingFails, Pong, Expire,
               Turn, FallSilent, peer
  <2>2. Pass /\ client = "silent"
        BY <2>1 DEF Pass, IInv, TypeOK
  <2> QED BY <2>2 DEF Pass, Quiet, IInv, TypeOK, Silence
<1> QED BY <1>1, AlwaysIInv, PTL DEF Spec, DeadPeerCut
=============================================================================
