---------------------------- MODULE ForwardRelay ----------------------------
(***************************************************************************)
(* What a reverse forward is for: the connections accepted on its listener *)
(* and carried to the client (acceptLoop and relay in                      *)
(* internal/sshserver/forward.go), on top of the table of forwards         *)
(* (ForwardTable, extended here).  Each accepted connection gets a         *)
(* goroutine that asks the client for a channel and then two that copy,    *)
(* one in each direction; whichever ends first closes both ends.           *)
(***************************************************************************)
EXTENDS ForwardTable

CONSTANT Inbounds  \* bound: connections accepted in a behaviour

VARIABLE relay     \* relay[r]: where the goroutines of inbound connection r are

relayVars == <<vars, relay>>
Unused == At("unused", None)

\* The SSH connection that would have to carry r.
Carrier(r) == IF relay[r] = Unused THEN None ELSE owner[relay[r].on]
Step(r, from, to) == /\ relay[r].at = from
                     /\ relay' = [relay EXCEPT ![r].at = to]
                     /\ UNCHANGED vars

-----------------------------------------------------------------------------
(* Faulty variants.                                                         *)

\* The inbound connection not closed when the client refuses the channel.
RefusedLeaks(r) == Step(r, "opening", "refused")

\* A copy that ends closes its own destination only: the other may go on for ever.
CopyEndsAlone(r) == Step(r, "copying", "halfOpen")

-----------------------------------------------------------------------------
RelayInit == Init /\ relay = [r \in Inbounds |-> Unused]

\* The steps of the table do not touch the relays: a cancelled forward keeps the
\* connections it has accepted.
TableStep == Next /\ UNCHANGED relay

AcceptInbound(i, r) == /\ acceptor[i] = "accept" /\ listener[i] = "open"
                       /\ relay[r] = Unused
                       /\ relay' = [relay EXCEPT ![r] = At("opening", i)]
                       /\ UNCHANGED vars

\* OpenChannel: the client accepts, or refuses, or its connection is over.
ChannelOpens(r) == Carrier(r) \in up /\ Step(r, "opening", "copying")
ChannelRefused(r) == Step(r, "opening", "closed")

\* One copy ends, as its source has ended or its destination failed, and closes the
\* channel and the inbound connection; that ends the other.
CopyEnds(r) == Step(r, "copying", "closing")
OtherCopyEnds(r) == Step(r, "closing", "closed")

RelayStep(r) == ChannelOpens(r) \/ ChannelRefused(r) \/ CopyEnds(r) \/ OtherCopyEnds(r)

RelayNext == \/ TableStep
             \/ \E r \in Inbounds : RelayStep(r) \/ \E i \in Ids : AcceptInbound(i, r)

\* Fairness: goroutines that can run are scheduled, Accept returns once its listener
\* is closed, and once the SSH connection is over OpenChannel and the copies from and
\* to it fail.  What a connected client does, and when it goes away, is up to it.
RelaySpec == /\ RelayInit /\ [][RelayNext]_relayVars
             /\ \A c \in Conns : WF_relayVars(HandlerStep(c) /\ UNCHANGED relay)
             /\ \A i \in Ids : /\ WF_relayVars(WatcherStep(i) /\ UNCHANGED relay)
                               /\ WF_relayVars(AcceptLoopExits(i) /\ listener[i] = "closed" /\ UNCHANGED relay)
             /\ \A r \in Inbounds : /\ WF_relayVars(Carrier(r) \notin up /\ RelayStep(r))
                                    /\ WF_relayVars(OtherCopyEnds(r))

-----------------------------------------------------------------------------
\* When a client goes away every connection accepted for it is closed, also one that
\* was accepted after it had gone and before its listener was closed.
DisconnectEndsRelays ==
  \A c \in Conns : []<>(c \notin up => \A r \in Inbounds :
                          Carrier(r) = c => relay[r].at = "closed")
=============================================================================
