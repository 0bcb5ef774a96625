---------------------------- MODULE ProxyConfig -----------------------------
(***************************************************************************)
(* The configuration of ws-proxy as far as LoadConfig validates it         *)
(* (internal/proxy/config.go).  A variable of the environment is an        *)
(* integer, Unset (also for the empty string) or Junk, which does not      *)
(* parse.  Durations are in a unit of one's choice.                        *)
(***************************************************************************)
EXTENDS Integers

CONSTANTS Unset, Junk,
          DefaultPingInterval, DefaultPingTimeout,
          DefaultTargetHealthInterval, targetHealthDialTimeout

ASSUME DefaultsAssumption == /\ DefaultPingInterval \in Int /\ DefaultPingTimeout \in Int
                             /\ DefaultTargetHealthInterval \in Int
                             /\ targetHealthDialTimeout \in Int

MaxPort == 65535
MinReadLimit == 1024
MaxReadLimit == 10 * 1024 * 1024

\* getIntEnv and getDurationEnv.
getTypedEnv(v, default) == IF v \in {Unset, Junk} THEN default ELSE v

LoadConfig(env) ==
  [TargetPort           |-> getTypedEnv(env.TARGET_PORT, 2222),
   PingInterval         |-> getTypedEnv(env.PING_INTERVAL, DefaultPingInterval),
   PingTimeout          |-> getTypedEnv(env.PING_TIMEOUT, DefaultPingTimeout),
   ReadLimit            |-> getTypedEnv(env.READ_LIMIT, 65536),
   TargetHealthInterval |-> getTypedEnv(env.TARGET_HEALTH_INTERVAL, DefaultTargetHealthInterval)]

\* Equal interval and timeout let through.
AcceptedLoosely(c) ==
  /\ c.TargetPort \in 1 .. MaxPort
  /\ c.PingInterval <= c.PingTimeout
  /\ c.ReadLimit \in MinReadLimit .. MaxReadLimit
  /\ c.TargetHealthInterval > targetHealthDialTimeout

\* What LoadConfig returns without an error.
Accepted(c) ==
  /\ c.TargetPort \in 1 .. MaxPort
  /\ c.PingInterval < c.PingTimeout
  /\ c.ReadLimit \in MinReadLimit .. MaxReadLimit
  /\ c.TargetHealthInterval > targetHealthDialTimeout
=============================================================================
