----------------------------- MODULE Keepalive ------------------------------
(***************************************************************************)
(* Time in a session of ws-proxy: the read deadline that Session.Run sets  *)
(* and every pong extends, and the ticker of pingLoop (session.go), under  *)
(* any configuration that LoadConfig accepts.  ProxySession has the same   *)
(* goroutines without the clock.                                           *)
(*                                                                         *)
(* The state holds the time left until each event.  Time stands still      *)
(* while something is due.                                                 *)
(***************************************************************************)
EXTENDS ProxyConfig

CONSTANTS
  Envs,        \* environments of the process
  Holds,       \* bound: how long a ping may take to be written
  Answers,     \* bound: how long its pong may take from there
  MaxDial,     \* the timeout of dialTCP
  writeWait,   \* the deadline of a ping, from the call that writes it
  MaxSilence   \* bound: how long a session is followed after its client fell silent

ASSUME TimesAssumption == /\ MaxDial \in Nat /\ MaxSilence \in Nat /\ writeWait \in Nat
                          /\ Holds \subseteq Nat /\ Answers \subseteq Nat
ASSUME EnvsAssumption ==
  \A env \in Envs : {env.PING_INTERVAL, env.PING_TIMEOUT} \subseteq Int \cup {Unset, Junk}

VARIABLES
  interval, timeout,  \* PingInterval and PingTimeout
  hold,       \* the longest a ping waits for the write mutex and is written
  answer,     \* the longest until the pong is read: for the network, the client, and
              \* the pump to be back at its read
  phase,      \* "dial", "open", "cut" (by the proxy), "failed", "refused" or "panicked"
  dialed,     \* how long the dial has taken
  ttl,        \* time left until the read deadline
  tick,       \* time left until the ticker fires
  fired,      \* a tick is in the ticker's channel, which holds one
  pinger,     \* pingLoop: "waiting" for a tick, or "writing" a ping
  left,       \* time left to write it
  due,        \* pings without a pong yet, by the time left for it
  client,     \* "answering" or "silent"
  reader,     \* the read pump: "reading", or "writing" to the target
  silentFor   \* how long the client has been silent

settings == <<interval, timeout, hold, answer>>
ticking == <<tick, fired, pinger, left>>
peer == <<client, reader, silentFor>>
vars == <<settings, phase, dialed, ttl, ticking, due, peer>>

-----------------------------------------------------------------------------
(* Faulty variants.                                                         *)

\* The pong handler not set: the deadline stays where it is.
PongIgnored ==
  /\ phase = "open" /\ reader = "reading" /\ ttl > 0
  /\ \E d \in due : (\A e \in due : d <= e) /\ due' = due \ {d}
  /\ UNCHANGED <<settings, phase, dialed, ttl, ticking, peer>>

\* A ping that is written extends the deadline.
SentExtends ==
  /\ phase = "open" /\ pinger = "writing" /\ hold - left <= writeWait
  /\ pinger' = "waiting" /\ ttl' = timeout
  /\ due' = IF client = "answering" THEN due \cup {answer} ELSE due
  /\ UNCHANGED <<settings, phase, dialed, tick, fired, left, peer>>

-----------------------------------------------------------------------------
\* main loads the configuration; then a client connects, and Run sets the first read
\* deadline before it dials the target.
Init == \E env \in Envs :
  LET c == LoadConfig(env) IN
  /\ interval = c.PingInterval /\ timeout = c.PingTimeout
  /\ hold \in Holds /\ answer \in Answers
  /\ phase = IF Accepted(c) THEN "dial" ELSE "refused"
  /\ ttl = timeout /\ dialed = 0
  /\ tick = 0 /\ fired = FALSE /\ pinger = "waiting" /\ left = 0 /\ due = {}
  /\ client = "answering" /\ reader = "reading" /\ silentFor = 0

\* pingLoop starts its ticker; NewTicker panics on an interval that is not positive.
DialSucceeds ==
  /\ phase = "dial"
  /\ phase' = IF interval > 0 THEN "open" ELSE "panicked"
  /\ tick' = interval
  /\ UNCHANGED <<settings, dialed, ttl, fired, pinger, left, due, peer>>

DialFails == /\ phase = "dial" /\ phase' = "failed"
             /\ UNCHANGED <<settings, dialed, ttl, ticking, due, peer>>

\* The ticker fires; a tick that finds another in the channel is dropped.
Fire == /\ phase = "open" /\ tick = 0
        /\ tick' = interval /\ fired' = TRUE
        /\ UNCHANGED <<settings, phase, dialed, ttl, pinger, left, due, peer>>

\* pingLoop takes the tick and calls WriteControl.
Ping == /\ phase = "open" /\ pinger = "waiting" /\ fired
        /\ fired' = FALSE /\ pinger' = "writing" /\ left' = hold
        /\ UNCHANGED <<settings, phase, dialed, ttl, tick, due, peer>>

Sent == /\ phase = "open" /\ pinger = "writing" /\ hold - left <= writeWait
        /\ pinger' = "waiting"
        /\ due' = IF client = "answering" THEN due \cup {answer} ELSE due
        /\ UNCHANGED <<settings, phase, dialed, ttl, tick, fired, left, peer>>

\* The write fails, at its deadline or once the client is known to be gone, and
\* cancels the session.
PingFails == /\ phase = "open" /\ pinger = "writing"
             /\ client = "silent" \/ hold - left >= writeWait
             /\ phase' = "cut"
             /\ UNCHANGED <<settings, dialed, ttl, ticking, due, peer>>

\* The read pump handles the pong to the oldest ping, in time.
Pong == /\ phase = "open" /\ reader = "reading" /\ ttl > 0
        /\ \E d \in due : (\A e \in due : d <= e) /\ due' = due \ {d}
        /\ ttl' = timeout
        /\ UNCHANGED <<settings, phase, dialed, ticking, peer>>

\* ReadMessage returns, or is called, past its deadline.
Expire == /\ phase = "open" /\ reader = "reading" /\ ttl = 0
          /\ phase' = "cut"
          /\ UNCHANGED <<settings, dialed, ttl, ticking, due, peer>>

\* The pump writes a frame to the target, which takes as long as the target likes.
Turn == /\ phase = "open"
        /\ reader' = IF reader = "reading" THEN "writing" ELSE "reading"
        /\ UNCHANGED <<settings, phase, dialed, ttl, ticking, due, client, silentFor>>

\* The client stops answering; pongs under way are lost.
FallSilent == /\ phase \in {"dial", "open"} /\ client = "answering"
              /\ client' = "silent" /\ due' = {}
              /\ UNCHANGED <<settings, phase, dialed, ttl, ticking, reader, silentFor>>

\* Nothing is to happen before time passes.
Quiet == /\ tick > 0 /\ 0 \notin due
         /\ IF pinger = "waiting" THEN ~fired ELSE left > 0
         /\ ttl > 0 \/ reader = "writing"

\* One unit of time passes.
Pass == /\ \/ phase = "dial" /\ dialed < MaxDial
              /\ dialed' = dialed + 1 /\ UNCHANGED <<tick, left>>
           \/ phase = "open" /\ Quiet
              /\ tick' = tick - 1 /\ UNCHANGED dialed
              /\ left' = IF pinger = "writing" THEN left - 1 ELSE left
        /\ silentFor < MaxSilence
        /\ ttl' = IF ttl > 0 THEN ttl - 1 ELSE ttl
        /\ due' = {d - 1 : d \in due}
        /\ silentFor' = IF client = "silent" THEN silentFor + 1 ELSE 0
        /\ UNCHANGED <<settings, phase, fired, pinger, client, reader>>

Next == \/ DialSucceeds \/ DialFails \/ Fire \/ Ping \/ Sent \/ PingFails \/ Pong \/ Expire
        \/ Turn \/ FallSilent \/ Pass

Spec == Init /\ [][Next]_vars

-----------------------------------------------------------------------------
\* A client that answers, and what the validated difference of the two settings leaves
\* is enough for writing a ping, its answer, and the dial, which counts against the
\* first deadline.  An answer at once is always in time.
InTime == /\ client = "answering" /\ interval > 0 /\ hold < writeWait
          /\ hold + answer + dialed = 0 \/ hold + answer + dialed < timeout - interval

\* "ping period < pong timeout" keeps a client that answers in time from being cut,
\* even when ticks are dropped because a ping waits for the write mutex.
HealthyKept == InTime => phase # "cut"

\* "PingTimeout is how long to wait for a pong response before closing": a client that
\* has been silent so long is cut before more time passes, whatever it sends and
\* however many pings are written meanwhile, unless the pump is held up in a write to
\* the target, which has no deadline.
DeadPeerCut == [][phase = "open" /\ silentFor' > silentFor /\ silentFor >= timeout
                    => reader = "writing"]_vars
=============================================================================
