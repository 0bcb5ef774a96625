---------------------------- MODULE ForwardTable ----------------------------
(***************************************************************************)
(* Reverse port forwards (ssh -R) of remote-access-server:                 *)
(* loopbackForwardHandler in internal/sshserver/forward.go.  One table of  *)
(* listeners is shared by every SSH connection, keyed by the address the   *)
(* client asked for and the port that was bound.  A listener is served by  *)
(* an accept loop and watched by a goroutine that waits for the end of the *)
(* connection that opened it; requests of one connection are handled one   *)
(* after the other (gliderlabs/ssh), those of several interleave.  Requests*)
(* that have arrived are still handled when their connection is over.      *)
(***************************************************************************)
EXTENDS Integers, FiniteSets

CONSTANTS Conns,          \* SSH connections
          Addrs,          \* bind addresses a client may request
          AnyAddrs,       \* those that mean every interface (anyBindAddresses)
          LoopbackAddrs,  \* those that isLoopback accepts
          LoopbackIPv4,   \* what a wildcard is bound to
          Ports,
          Ids,            \* bound: listeners opened in a behaviour
          None            \* no connection, no key, no listener

ASSUME AddrAssumption == /\ AnyAddrs \subseteq Addrs /\ LoopbackAddrs \subseteq Addrs
                         /\ LoopbackIPv4 \in LoopbackAddrs
                         /\ AnyAddrs \cap LoopbackAddrs = {}
Keys == Addrs \X Ports
ASSUME NoneAssumption == None \notin Ids \cup Conns \cup Keys

VARIABLES up,        \* connections whose context is not done
          listener,  \* listener[i]: "unused", "open" or "closed"
          owner,     \* owner[i]: the connection whose request opened i
          keyOf,     \* keyOf[i]: the address it asked for, with the port bound
          forwards,  \* the table: forwards[k] is a listener or None
          handler,   \* handler[c]: the request of connection c being served
          watcher,   \* watcher[i]: the goroutine waiting for ctx.Done
          acceptor   \* acceptor[i]: acceptLoop

vars == <<up, listener, owner, keyOf, forwards, handler, watcher, acceptor>>

\* A goroutine at a location, with the listener it is working on.
At(loc, i) == [at |-> loc, on |-> i]
Idle == At("idle", None)
Done == At("done", None)

BindHost(addr) == IF addr \in AnyAddrs THEN LoopbackIPv4 ELSE addr
Bound(k) == <<BindHost(k[1]), k[2]>>
InUse(k) == \E j \in Ids : listener[j] = "open" /\ Bound(keyOf[j]) = Bound(k)

\* The entry left in the table.
DeleteForgotten(k) == forwards

\* closeForward up to its unlock: the entry leaves the table, and the caller goes on
\* to close the listener it found there or, finding none, is finished.
Delete(k) == [forwards EXCEPT ![k] = None]
CloserOf(k, otherwise) == IF forwards[k] = None THEN otherwise ELSE At("close", forwards[k])
CloseListener(i) == listener' = [listener EXCEPT ![i] = "closed"]

-----------------------------------------------------------------------------
(* Faulty variants.                                                         *)

\* acceptLoop removes the entry whoever it belongs to.
AcceptLoopEvicts(i) ==
  /\ acceptor[i] = "accept"
  /\ acceptor' = [acceptor EXCEPT ![i] = "done"]
  /\ forwards' = Delete(keyOf[i])
  /\ UNCHANGED <<up, listener, owner, keyOf, handler, watcher>>

\* No goroutine waits for the end of the connection.
ServeUnwatched(c) ==
  LET i == handler[c].on IN
  /\ handler[c].at = "serve"
  /\ acceptor' = [acceptor EXCEPT ![i] = "accept"]
  /\ handler' = [handler EXCEPT ![c] = Idle]
  /\ UNCHANGED <<up, listener, owner, keyOf, forwards, watcher>>

-----------------------------------------------------------------------------
Init == /\ up = Conns
        /\ listener = [i \in Ids |-> "unused"]
        /\ owner = [i \in Ids |-> None]
        /\ keyOf = [i \in Ids |-> None]
        /\ forwards = [k \in Keys |-> None]
        /\ handler = [c \in Conns |-> Idle]
        /\ watcher = [i \in Ids |-> Idle]
        /\ acceptor = [i \in Ids |-> "none"]

\* openForward up to net.Listen: wildcards are moved to loopback, anything else that
\* is not loopback is refused, and an address in use cannot be bound again.  The
\* port is the one requested or, for port 0, one the system picks.
Listen(c, i, k) ==
  /\ handler[c] = Idle /\ listener[i] = "unused"
  /\ BindHost(k[1]) \in LoopbackAddrs
  /\ ~InUse(k)
  /\ listener' = [listener EXCEPT ![i] = "open"]
  /\ owner' = [owner EXCEPT ![i] = c]
  /\ keyOf' = [keyOf EXCEPT ![i] = k]
  /\ handler' = [handler EXCEPT ![c] = At("record", i)]
  /\ UNCHANGED <<up, forwards, watcher, acceptor>>

\* The listener is recorded under the requested address, replacing what was there.
Record(c) ==
  LET i == handler[c].on IN
  /\ handler[c].at = "record"
  /\ forwards' = [forwards EXCEPT ![keyOf[i]] = i]
  /\ handler' = [handler EXCEPT ![c] = At("serve", i)]
  /\ UNCHANGED <<up, listener, owner, keyOf, watcher, acceptor>>

\* startForward starts the watcher and the accept loop, then answers the client.
Serve(c) ==
  LET i == handler[c].on IN
  /\ handler[c].at = "serve"
  /\ watcher' = [watcher EXCEPT ![i] = At("wait", i)]
  /\ acceptor' = [acceptor EXCEPT ![i] = "accept"]
  /\ handler' = [handler EXCEPT ![c] = Idle]
  /\ UNCHANGED <<up, listener, owner, keyOf, forwards>>

\* cancelForward, for whichever connection names the key.
CancelForward(c, k) ==
  /\ handler[c] = Idle
  /\ forwards' = Delete(k)
  /\ handler' = [handler EXCEPT ![c] = CloserOf(k, Idle)]
  /\ UNCHANGED <<up, listener, owner, keyOf, watcher, acceptor>>

CancelCloses(c) ==
  /\ handler[c].at = "close"
  /\ CloseListener(handler[c].on)
  /\ handler' = [handler EXCEPT ![c] = Idle]
  /\ UNCHANGED <<up, owner, keyOf, forwards, watcher, acceptor>>

\* The client goes away, between any two steps of anyone.
Disconnect(c) ==
  /\ up' = up \ {c}
  /\ c \in up
  /\ UNCHANGED <<listener, owner, keyOf, forwards, handler, watcher, acceptor>>

\* The watcher of listener i closes whatever its key now stands for.
WatcherTakes(i) ==
  /\ watcher[i].at = "wait" /\ owner[i] \notin up
  /\ forwards' = Delete(keyOf[i])
  /\ watcher' = [watcher EXCEPT ![i] = CloserOf(keyOf[i], Done)]
  /\ UNCHANGED <<up, listener, owner, keyOf, handler, acceptor>>

WatcherCloses(i) ==
  /\ watcher[i].at = "close"
  /\ CloseListener(watcher[i].on)
  /\ watcher' = [watcher EXCEPT ![i] = Done]
  /\ UNCHANGED <<up, owner, keyOf, forwards, handler, acceptor>>

\* Accept fails, because the listener is closed or, at any time, for want of file
\* descriptors: the loop ends and removes the entry if it is still its own.
AcceptLoopExits(i) ==
  /\ acceptor[i] = "accept"
  /\ acceptor' = [acceptor EXCEPT ![i] = "done"]
  /\ forwards' = IF forwards[keyOf[i]] = i THEN Delete(keyOf[i]) ELSE forwards
  /\ UNCHANGED <<up, listener, owner, keyOf, handler, watcher>>

HandlerStep(c) == Record(c) \/ Serve(c) \/ CancelCloses(c)
WatcherStep(i) == WatcherTakes(i) \/ WatcherCloses(i)

Next == \/ \E c \in Conns, k \in Keys : \/ \E i \in Ids : Listen(c, i, k)
                                        \/ CancelForward(c, k)
        \/ \E c \in Conns : HandlerStep(c) \/ Disconnect(c)
        \/ \E i \in Ids : WatcherStep(i) \/ AcceptLoopExits(i)

Spec == Init /\ [][Next]_vars

-----------------------------------------------------------------------------
TypeOK == /\ up \subseteq Conns
          /\ listener \in [Ids -> {"unused", "open", "closed"}]
          /\ owner \in [Ids -> Conns \cup {None}]
          /\ keyOf \in [Ids -> Keys \cup {None}]
          /\ forwards \in [Keys -> Ids \cup {None}]
          /\ handler \in [Conns -> {Idle} \cup [at : {"record", "serve", "close"}, on : Ids]]
          /\ watcher \in [Ids -> {Idle, Done} \cup [at : {"wait", "close"}, on : Ids]]
          /\ acceptor \in [Ids -> {"none", "accept", "done"}]

\* Goroutines that will still act on listener i.
InHand(i) == \/ \E c \in Conns : handler[c].on = i
             \/ \E j \in Ids : watcher[j].at = "close" /\ watcher[j].on = i

\* The accept loop gave up on a listener that is still open, and took its entry.
Abandoned(i) == acceptor[i] = "done" /\ listener[i] = "open"

\* acceptLoop's comment fears a listener that "nothing would be able to close":
\* an open listener is found under its key, or someone is about to record or to
\* close it, unless its own Accept failed, which is the one way to lose it.
NoOrphanListener ==
  \A i \in Ids : listener[i] = "open" => forwards[keyOf[i]] = i \/ InHand(i) \/ Abandoned(i)

\* The table holds only open listeners, each under its own key, so a successful
\* cancel or teardown really closes something, and only once.
TableIsLive ==
  \A k \in Keys : forwards[k] # None => listener[forwards[k]] = "open" /\ keyOf[forwards[k]] = k

\* Once a client is gone every listener it opened is closed, although the entry may
\* have been taken, cancelled or replaced by others meanwhile; again but for one on
\* which Accept failed.
DisconnectClosesForwards ==
  \A c \in Conns : []<>(c \notin up =>
                          \A i \in Ids : owner[i] = c => listener[i] = "closed" \/ Abandoned(i))

\* The end of a connection closes that connection's forwards and no other's.
TeardownClosesOwn ==
  [][\A i \in Ids : watcher[i].at = "wait" /\ watcher'[i].at = "close"
                      => owner[watcher'[i].on] = owner[i]]_vars
=============================================================================
