------------------------------ MODULE SlotPool ------------------------------
(***************************************************************************)
(* What a concurrency limit promises, with no counter and no races: a      *)
(* client that asks is granted a slot while fewer than Capacity slots are  *)
(* out, is refused only while none is left, and later gives its answer     *)
(* back.  ProxyAdmission implements this specification.                    *)
(***************************************************************************)
EXTENDS Integers, FiniteSets

CONSTANTS Clients,   \* who may ask for a slot
          Capacity   \* slots in the pool; none when it is not positive

VARIABLE verdict     \* verdict[c]: what c was told, "none" when it is not asking

Granted == {c \in Clients : verdict[c] = "granted"}

Init == verdict = [c \in Clients |-> "none"]

Grant(c) == /\ verdict[c] = "none"
            /\ Cardinality(Granted) < Capacity
            /\ verdict' = [verdict EXCEPT ![c] = "granted"]

Refuse(c) == /\ verdict[c] = "none"
             /\ Cardinality(Granted) >= Capacity
             /\ verdict' = [verdict EXCEPT ![c] = "refused"]

Leave(c) == /\ verdict[c] # "none"
            /\ verdict' = [verdict EXCEPT ![c] = "none"]

Next == \E c \in Clients : Grant(c) \/ Refuse(c) \/ Leave(c)

Spec == Init /\ [][Next]_verdict
=============================================================================
