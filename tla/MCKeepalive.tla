---------------------------- MODULE MCKeepalive -----------------------------
(***************************************************************************)
(* Environments for Keepalive: every combination of ping settings around   *)
(* each other, and values on both sides of the other limits.               *)
(***************************************************************************)
EXTENDS Keepalive

CONSTANT Pings   \* values of the ping settings that parse

MCEnvs == [PING_INTERVAL : Pings \cup {0 - 1, Unset, Junk}, PING_TIMEOUT : Pings \cup {Unset, Junk},
           TARGET_PORT : {Unset, 0, 1, 65535, 65536}, READ_LIMIT : {Unset, 1023, 1024, 10485761},
           TARGET_HEALTH_INTERVAL : {Junk, targetHealthDialTimeout}]
=============================================================================
