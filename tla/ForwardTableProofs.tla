------------------------- MODULE ForwardTableProofs -------------------------
(***************************************************************************)
(* Safety of the table of reverse forwards, for any number of connections, *)
(* addresses, ports and listeners.  That the table holds only open         *)
(* listeners, and that every open listener can be reached, is not          *)
(* inductive: a step that closes a listener must know that it is no longer *)
(* in the table, and a step that records one must know that it replaces    *)
(* nothing.  The invariant follows each listener from the request that     *)
(* opens it to whoever closes it.                                          *)
(***************************************************************************)
EXTENDS ForwardRelay, TLAPS

\* Someone has taken listener i out of the table and will close it.
Closing(i) == \/ \E c \in Conns : handler[c].at = "close" /\ handler[c].on = i
              \/ \E j \in Ids : watcher[j].at = "close" /\ watcher[j].on = i

\* The request that opened listener i has not recorded it yet.
Recording(i) == \E c \in Conns : handler[c].at = "record" /\ handler[c].on = i

InTable(i) == \E k \in Keys : forwards[k] = i

\* No two open listeners are bound to the same address.
Distinct == \A i, j \in Ids : /\ listener[i] = "open" /\ listener[j] = "open"
                              /\ Bound(keyOf[i]) = Bound(keyOf[j])
                              => i = j

\* Every listener that was opened has a key, and while it is open it can be reached.
Reachable == \A i \in Ids : /\ listener[i] # "unused" => keyOf[i] \in Keys
                            /\ listener[i] = "open" => \/ forwards[keyOf[i]] = i
                                                       \/ Recording(i) \/ Closing(i) \/ Abandoned(i)

\* Nobody works on a listener that was never opened.
Fresh == \A i \in Ids : listener[i] = "unused" =>
           /\ watcher[i].at = "idle" /\ acceptor[i] = "none"
           /\ \A c \in Conns : handler[c].on # i
           /\ \A j \in Ids : watcher[j].on # i

\* Until startForward, a listener belongs to the request that opened it.
Opening == \A c \in Conns : handler[c].at \in {"record", "serve"} =>
             /\ owner[handler[c].on] = c
             /\ watcher[handler[c].on].at = "idle" /\ acceptor[handler[c].on] = "none"

\* A listener is not in the table before it is recorded and when it is to be closed.
OutOfTable == \A i \in Ids : /\ Recording(i) => listener[i] = "open" /\ ~Closing(i) /\ ~InTable(i)
                             /\ Closing(i) => ~InTable(i)

IInv == TypeOK /\ TableIsLive /\ Distinct /\ Reachable /\ Fresh /\ Opening /\ OutOfTable

\* A goroutine's state: idle, finished, or at a location with a listener.
LEMMA States ==
  ASSUME TypeOK
  PROVE  /\ \A c \in Conns : /\ handler[c].at \in {"idle", "record", "serve", "close"}
                             /\ handler[c].at = "idle" <=> handler[c].on = None
                             /\ handler[c].at # "idle" => handler[c].on \in Ids
                             /\ handler[c].at = "idle" => handler[c] = Idle
         /\ \A i \in Ids : /\ watcher[i].at \in {"idle", "done", "wait", "close"}
                           /\ watcher[i].at \in {"wait", "close"} <=> watcher[i].on \in Ids
                           /\ watcher[i].at \in {"idle", "done"} => watcher[i].on = None
         /\ None \notin Ids /\ None \notin Keys /\ None \notin Conns
<1>1. None \notin Ids /\ None \notin Keys /\ None \notin Conns
  BY NoneAssumption
<1>2. ASSUME NEW c \in Conns
      PROVE  /\ handler[c].at \in {"idle", "record", "serve", "close"}
             /\ handler[c].at = "idle" <=> handler[c].on = None
             /\ handler[c].at # "idle" => handler[c].on \in Ids
             /\ handler[c].at = "idle" => handler[c] = Idle
  <2>1. handler[c] \in {Idle} \cup [at : {"record", "serve", "close"}, on : Ids]
    BY DEF TypeOK
  <2> QED
    BY <1>1, <2>1 DEF Idle, At
<1>3. ASSUME NEW i \in Ids
      PROVE  /\ watcher[i].at \in {"idle", "done", "wait", "close"}
             /\ watcher[i].at \in {"wait", "close"} <=> watcher[i].on \in Ids
             /\ watcher[i].at \in {"idle", "done"} => watcher[i].on = None
  <2>1. watcher[i] \in {Idle, Done} \cup [at : {"wait", "close"}, on : Ids]
    BY DEF TypeOK
  <2> QED
    BY <1>1, <2>1 DEF Idle, Done, At
<1> QED
  BY <1>1, <1>2, <1>3

\* The empty table of a new server satisfies the invariant.
LEMMA InitIInv == Init => IInv
<1> SUFFICES ASSUME Init PROVE IInv
  OBVIOUS
<1>1. TypeOK
  BY DEF Init, TypeOK
<1>2. None \notin Ids
  BY <1>1, States
<1>3. TableIsLive /\ Distinct /\ Reachable
  BY <1>2 DEF Init, TableIsLive, Distinct, Reachable
<1>4. Fresh
  BY <1>2 DEF Init, Fresh, Idle, At
<1>5. Opening /\ OutOfTable
  BY <1>2 DEF Init, Opening, OutOfTable, Recording, Closing, InTable, Idle, At
<1> QED
  BY <1>1, <1>3, <1>4, <1>5 DEF IInv

-----------------------------------------------------------------------------
\* A new listener is in the hands of the request that opened it, and is the only
\* open one at its address.
LEMMA ListenKeeps ==
  ASSUME IInv, NEW c \in Conns, NEW i \in Ids, NEW k \in Keys, Listen(c, i, k)
  PROVE  IInv'
<1> USE DEF IInv
<1>1. TypeOK'
  BY DEF TypeOK, Listen, At
<1>2. /\ \A d \in Conns : handler'[d].at = (IF d = c THEN "record" ELSE handler[d].at)
      /\ \A d \in Conns : handler'[d].on = (IF d = c THEN i ELSE handler[d].on)
      /\ handler[c].at = "idle" /\ handler[c].on = None
  BY DEF TypeOK, Listen, At, Idle
<1>3. /\ \A j \in Ids : listener'[j] = (IF j = i THEN "open" ELSE listener[j])
      /\ \A j \in Ids : keyOf'[j] = (IF j = i THEN k ELSE keyOf[j])
      /\ \A j \in Ids : owner'[j] = (IF j = i THEN c ELSE owner[j])
      /\ forwards' = forwards /\ watcher' = watcher /\ acceptor' = acceptor
      /\ listener[i] = "unused"
  BY DEF TypeOK, Listen
<1>4. \A l \in Keys : forwards[l] \in Ids \cup {None} /\ forwards[l] # i
  BY <1>3, States DEF TypeOK, TableIsLive
<1>5. TableIsLive'
  BY <1>3, <1>4 DEF TableIsLive
<1>6. Distinct'
  BY <1>3 DEF Distinct, Listen, InUse, Bound, BindHost
<1>7. Reachable'
  BY <1>2, <1>3, <1>4 DEF Reachable, Recording, Closing, Abandoned
<1>8. Fresh'
  BY <1>2, <1>3 DEF Fresh
<1>9. Opening'
  BY <1>2, <1>3, States DEF Opening, Fresh
<1>10. OutOfTable'
  BY <1>2, <1>3, <1>4, States DEF OutOfTable, Recording, Closing, InTable, Fresh
<1> QED
  BY <1>1, <1>5, <1>6, <1>7, <1>8, <1>9, <1>10

\* Recording a listener replaces nothing: what its key stood for would be open at
\* the same address.
LEMMA RecordKeeps ==
  ASSUME IInv, NEW c \in Conns, Record(c)
  PROVE  IInv'
<1> DEFINE i == handler[c].on
<1> USE DEF IInv
<1>1. i \in Ids /\ handler[c].at = "record"
  BY States DEF Record
<1>2. /\ \A d \in Conns : handler'[d].at = (IF d = c THEN "serve" ELSE handler[d].at)
      /\ \A d \in Conns : handler'[d].on = handler[d].on
  BY DEF TypeOK, Record, At
<1>3. /\ listener[i] = "open" /\ ~Closing(i) /\ ~InTable(i)
      /\ keyOf[i] \in Keys
  BY <1>1, States DEF OutOfTable, Recording, Reachable
<1>4. /\ \A k \in Keys : forwards'[k] = (IF k = keyOf[i] THEN i ELSE forwards[k])
      /\ listener' = listener /\ keyOf' = keyOf /\ owner' = owner
      /\ watcher' = watcher /\ acceptor' = acceptor
  BY <1>3 DEF TypeOK, Record
<1>5. TypeOK'
  BY <1>1, <1>3 DEF TypeOK, Record, At
<1>6. forwards[keyOf[i]] = None
  BY <1>1, <1>3 DEF TypeOK, TableIsLive, Distinct, InTable
<1>7. TableIsLive' /\ Distinct'
  BY <1>1, <1>3, <1>4 DEF TableIsLive, Distinct
<1>8. Reachable'
  BY <1>1, <1>2, <1>3, <1>4, <1>6, States DEF Reachable, Recording, Closing, Abandoned
<1>9. Fresh' /\ Opening'
  BY <1>1, <1>2, <1>4 DEF Fresh, Opening
<1>10. OutOfTable'
  <2>1. \A j \in Ids : (Closing(j)' <=> Closing(j)) /\ (Recording(j)' => Recording(j) /\ j # i)
    BY <1>1, <1>2, <1>4 DEF Closing, Recording, Opening
  <2> QED
    BY <1>1, <1>3, <1>4, <2>1 DEF OutOfTable, InTable
<1> QED
  BY <1>5, <1>7, <1>8, <1>9, <1>10

\* startForward hands the listener over to its watcher and its accept loop.
LEMMA ServeKeeps ==
  ASSUME IInv, NEW c \in Conns, Serve(c)
  PROVE  IInv'
<1> DEFINE i == handler[c].on
<1> USE DEF IInv
<1>1. i \in Ids /\ handler[c].at = "serve"
  BY States DEF Serve
<1>2. /\ \A d \in Conns : handler'[d].at = (IF d = c THEN "idle" ELSE handler[d].at)
      /\ \A d \in Conns : handler'[d].on = (IF d = c THEN None ELSE handler[d].on)
      /\ \A j \in Ids : watcher'[j].at = (IF j = i THEN "wait" ELSE watcher[j].at)
      /\ \A j \in Ids : watcher'[j].on = (IF j = i THEN i ELSE watcher[j].on)
      /\ \A j \in Ids : acceptor'[j] = (IF j = i THEN "accept" ELSE acceptor[j])
  BY <1>1 DEF TypeOK, Serve, At, Idle
<1>3. /\ listener' = listener /\ keyOf' = keyOf /\ owner' = owner /\ forwards' = forwards
  BY DEF Serve
<1>4. /\ watcher[i].at = "idle" /\ acceptor[i] = "none" /\ listener[i] # "unused"
      /\ \A d \in Conns : d # c /\ handler[d].on = i => handler[d].at = "close"
  BY <1>1, States DEF Opening, Fresh
<1>5. TypeOK'
  BY <1>1 DEF TypeOK, Serve, At, Idle
<1>6. TableIsLive' /\ Distinct'
  BY <1>3 DEF TableIsLive, Distinct
<1>7. \A j \in Ids : (Closing(j)' <=> Closing(j)) /\ (Recording(j)' <=> Recording(j))
  BY <1>1, <1>2, <1>4 DEF Closing, Recording
<1>8. Reachable'
  BY <1>1, <1>2, <1>3, <1>4, <1>7 DEF Reachable, Abandoned
<1>9. Fresh'
  BY <1>1, <1>2, <1>3, <1>4, States DEF Fresh
<1>10. Opening'
  BY <1>1, <1>2, <1>3, <1>4, States DEF Opening
<1>11. OutOfTable'
  BY <1>3, <1>7 DEF OutOfTable, InTable
<1> QED
  BY <1>5, <1>6, <1>8, <1>9, <1>10, <1>11

\* What taking entry k out of the table leaves behind.
LEMMA Taken ==
  ASSUME IInv, NEW k \in Keys
  PROVE  /\ \A l \in Keys : Delete(k)[l] = (IF l = k THEN None ELSE forwards[l])
         /\ Delete(k) \in [Keys -> Ids \cup {None}]
         /\ forwards[k] # None => /\ forwards[k] \in Ids /\ listener[forwards[k]] = "open"
                                  /\ keyOf[forwards[k]] = k
                                  /\ ~Recording(forwards[k]) /\ ~Closing(forwards[k])
                                  /\ \A l \in Keys : l # k => forwards[l] # forwards[k]
<1> USE DEF IInv
<1>1. forwards \in [Keys -> Ids \cup {None}]
  BY DEF TypeOK
<1>2. /\ \A l \in Keys : Delete(k)[l] = (IF l = k THEN None ELSE forwards[l])
      /\ Delete(k) \in [Keys -> Ids \cup {None}]
  BY <1>1 DEF Delete
<1>3. ASSUME forwards[k] # None
      PROVE  /\ forwards[k] \in Ids /\ listener[forwards[k]] = "open" /\ keyOf[forwards[k]] = k
             /\ \A l \in Keys : l # k => forwards[l] # forwards[k]
  BY <1>1, <1>3 DEF TableIsLive
<1>4. ASSUME forwards[k] # None
      PROVE  ~Recording(forwards[k]) /\ ~Closing(forwards[k])
  BY <1>3, <1>4 DEF OutOfTable, InTable
<1> QED
  BY <1>2, <1>3, <1>4

\* cancelForward takes the entry and the listener with it.
LEMMA CancelKeeps ==
  ASSUME IInv, NEW c \in Conns, NEW k \in Keys, CancelForward(c, k)
  PROVE  IInv'
<1> USE DEF IInv
<1>1. /\ forwards' = Delete(k) /\ handler' = [handler EXCEPT ![c] = CloserOf(k, Idle)]
      /\ listener' = listener /\ keyOf' = keyOf /\ owner' = owner
      /\ watcher' = watcher /\ acceptor' = acceptor /\ up' = up
      /\ handler[c].at = "idle" /\ handler[c].on = None
  BY DEF CancelForward, Idle, At
<1>2. /\ \A d \in Conns : handler'[d].on = (IF d = c THEN forwards[k] ELSE handler[d].on)
      /\ \A d \in Conns : handler'[d].at = (IF d # c THEN handler[d].at ELSE
                                             IF forwards[k] = None THEN "idle" ELSE "close")
  BY <1>1 DEF TypeOK, CloserOf, Idle, At
<1>3. TypeOK'
  BY <1>1, Taken DEF TypeOK, CloserOf, Idle, At
<1>4. TableIsLive' /\ Distinct'
  BY <1>1, Taken DEF TableIsLive, Distinct
<1>5. \A i \in Ids : /\ Recording(i)' <=> Recording(i)
                     /\ Closing(i)' <=> Closing(i) \/ forwards[k] = i
  BY <1>1, <1>2, States DEF Recording, Closing
<1>6. Reachable'
  BY <1>1, <1>5, Taken DEF Reachable, Abandoned
<1>7. Fresh'
  BY <1>1, <1>2, Taken, States DEF Fresh
<1>8. Opening'
  <2>1. ASSUME NEW d \in Conns, handler'[d].at \in {"record", "serve"}
        PROVE  d # c /\ handler'[d].at = handler[d].at /\ handler'[d].on = handler[d].on
    BY <1>2, <2>1
  <2> QED
    BY <1>1, <2>1 DEF Opening
<1>9. OutOfTable'
  <2>1. \A i \in Ids : InTable(i)' => InTable(i) /\ forwards[k] # i
    BY <1>1, Taken, States DEF InTable
  <2>2. \A i \in Ids : forwards[k] = i => InTable(i)
    BY DEF InTable
  <2> QED
    BY <1>1, <1>5, <2>1, <2>2 DEF OutOfTable
<1> QED
  BY <1>3, <1>4, <1>6, <1>7, <1>8, <1>9

\* The watcher of a connection that is gone takes whatever its key stands for.
LEMMA WatcherTakesKeeps ==
  ASSUME IInv, NEW i \in Ids, WatcherTakes(i)
  PROVE  IInv'
<1> DEFINE k == keyOf[i]
<1> USE DEF IInv
<1>1. /\ forwards' = Delete(k) /\ watcher' = [watcher EXCEPT ![i] = CloserOf(k, Done)]
      /\ listener' = listener /\ keyOf' = keyOf /\ owner' = owner
      /\ handler' = handler /\ acceptor' = acceptor /\ up' = up
      /\ watcher[i].at = "wait"
  BY DEF WatcherTakes
<1>2. k \in Keys
  BY <1>1, States DEF Fresh, Reachable
<1>3. /\ \A j \in Ids : watcher'[j].on = (IF j = i THEN forwards[k] ELSE watcher[j].on)
      /\ \A j \in Ids : watcher'[j].at = (IF j # i THEN watcher[j].at ELSE
                                            IF forwards[k] = None THEN "done" ELSE "close")
  BY <1>1 DEF TypeOK, CloserOf, Done, At
<1>4. TypeOK'
  BY <1>1, <1>2, Taken DEF TypeOK, CloserOf, Done, At
<1>5. TableIsLive' /\ Distinct'
  BY <1>1, <1>2, Taken DEF TableIsLive, Distinct
<1>6. \A j \in Ids : /\ Recording(j)' <=> Recording(j)
                     /\ Closing(j)' <=> Closing(j) \/ forwards[k] = j
  BY <1>1, <1>3, States DEF Recording, Closing
<1>7. Reachable'
  BY <1>1, <1>2, <1>6, Taken DEF Reachable, Abandoned
<1>8. Fresh'
  BY <1>1, <1>2, <1>3, Taken, States DEF Fresh
<1>9. Opening'
  BY <1>1, <1>3, States DEF Opening
<1>10. OutOfTable'
  <2>1. \A j \in Ids : InTable(j)' => InTable(j) /\ forwards[k] # j
    BY <1>1, <1>2, Taken, States DEF InTable
  <2>2. \A j \in Ids : forwards[k] = j => InTable(j)
    BY <1>2 DEF InTable
  <2> QED
    BY <1>1, <1>6, <2>1, <2>2 DEF OutOfTable
<1> QED
  BY <1>4, <1>5, <1>7, <1>8, <1>9, <1>10

\* Only a listener that has left the table is closed.
LEMMA CancelClosesKeeps ==
  ASSUME IInv, NEW c \in Conns, CancelCloses(c)
  PROVE  IInv'
<1> DEFINE i == handler[c].on
<1> USE DEF IInv
<1>1. /\ listener' = [listener EXCEPT ![i] = "closed"] /\ handler' = [handler EXCEPT ![c] = Idle]
      /\ forwards' = forwards /\ keyOf' = keyOf /\ owner' = owner
      /\ watcher' = watcher /\ acceptor' = acceptor /\ up' = up
      /\ handler[c].at = "close" /\ i \in Ids
  BY States DEF CancelCloses, CloseListener
<1>2. /\ \A d \in Conns : handler'[d].on = (IF d = c THEN None ELSE handler[d].on)
      /\ \A d \in Conns : handler'[d].at = (IF d = c THEN "idle" ELSE handler[d].at)
      /\ \A j \in Ids : listener'[j] = (IF j = i THEN "closed" ELSE listener[j])
  BY <1>1 DEF TypeOK, Idle, At
<1>3. Closing(i) /\ ~InTable(i) /\ ~Recording(i) /\ listener[i] # "unused"
  BY <1>1 DEF OutOfTable, Closing, Fresh
<1>4. TypeOK'
  BY <1>1 DEF TypeOK
<1>5. TableIsLive' /\ Distinct'
  BY <1>1, <1>2, <1>3 DEF TypeOK, TableIsLive, Distinct, InTable
<1>6. \A j \in Ids : /\ Recording(j)' <=> Recording(j)
                     /\ Closing(j)' => Closing(j)
                     /\ Closing(j) /\ j # i => Closing(j)'
  BY <1>1, <1>2 DEF Recording, Closing
<1>7. Reachable'
  BY <1>1, <1>2, <1>3, <1>6 DEF Reachable, Abandoned
<1>8. Fresh' /\ Opening'
  BY <1>1, <1>2, <1>3, States DEF Fresh, Opening
<1>9. OutOfTable'
  BY <1>1, <1>2, <1>3, <1>6 DEF OutOfTable, InTable
<1> QED
  BY <1>4, <1>5, <1>7, <1>8, <1>9

\* The same for a listener closed by a watcher.
LEMMA WatcherClosesKeeps ==
  ASSUME IInv, NEW w \in Ids, WatcherCloses(w)
  PROVE  IInv'
<1> DEFINE i == watcher[w].on
<1> USE DEF IInv
<1>1. /\ listener' = [listener EXCEPT ![i] = "closed"] /\ watcher' = [watcher EXCEPT ![w] = Done]
      /\ forwards' = forwards /\ keyOf' = keyOf /\ owner' = owner
      /\ handler' = handler /\ acceptor' = acceptor /\ up' = up
      /\ watcher[w].at = "close" /\ i \in Ids
  BY States DEF WatcherCloses, CloseListener
<1>2. /\ \A j \in Ids : watcher'[j].on = (IF j = w THEN None ELSE watcher[j].on)
      /\ \A j \in Ids : watcher'[j].at = (IF j = w THEN "done" ELSE watcher[j].at)
      /\ \A j \in Ids : listener'[j] = (IF j = i THEN "closed" ELSE listener[j])
  BY <1>1 DEF TypeOK, Done, At
<1>3. Closing(i) /\ ~InTable(i) /\ ~Recording(i) /\ listener[i] # "unused"
  BY <1>1 DEF OutOfTable, Closing, Fresh
<1>4. TypeOK'
  BY <1>1 DEF TypeOK
<1>5. TableIsLive' /\ Distinct'
  BY <1>1, <1>2, <1>3 DEF TypeOK, TableIsLive, Distinct, InTable
<1>6. \A j \in Ids : /\ Recording(j)' <=> Recording(j)
                     /\ Closing(j)' => Closing(j)
                     /\ Closing(j) /\ j # i => Closing(j)'
  BY <1>1, <1>2 DEF Recording, Closing
<1>7. Reachable'
  BY <1>1, <1>2, <1>3, <1>6 DEF Reachable, Abandoned
<1>8. Fresh'
  BY <1>1, <1>2, <1>3, States DEF Fresh
<1>9. Opening'
  BY <1>1, <1>2, States DEF Opening
<1>10. OutOfTable'
  BY <1>1, <1>2, <1>3, <1>6 DEF OutOfTable, InTable
<1> QED
  BY <1>4, <1>5, <1>7, <1>8, <1>9, <1>10

\* An accept loop that ends takes no entry but its own.
LEMMA AcceptLoopKeeps ==
  ASSUME IInv, NEW i \in Ids, AcceptLoopExits(i)
  PROVE  IInv'
<1> USE DEF IInv
<1>1. /\ acceptor' = [acceptor EXCEPT ![i] = "done"] /\ acceptor[i] = "accept"
      /\ listener' = listener /\ keyOf' = keyOf /\ owner' = owner
      /\ handler' = handler /\ watcher' = watcher /\ up' = up
      /\ forwards' = IF forwards[keyOf[i]] = i THEN Delete(keyOf[i]) ELSE forwards
  BY DEF AcceptLoopExits
<1>2. keyOf[i] \in Keys
  BY <1>1 DEF TypeOK, Fresh, Reachable
<1>3. /\ \A l \in Keys : forwards'[l] = (IF forwards[l] = i THEN None ELSE forwards[l])
      /\ forwards' \in [Keys -> Ids \cup {None}]
      /\ \A j \in Ids : acceptor'[j] = (IF j = i THEN "done" ELSE acceptor[j])
  BY <1>1, <1>2, Taken DEF TypeOK, TableIsLive
<1>4. TypeOK'
  BY <1>1, <1>3 DEF TypeOK
<1>5. TableIsLive' /\ Distinct'
  BY <1>1, <1>3 DEF TableIsLive, Distinct
<1>6. \A j \in Ids : (Closing(j)' <=> Closing(j)) /\ (Recording(j)' <=> Recording(j))
  BY <1>1 DEF Closing, Recording
<1>7. Reachable'
  BY <1>1, <1>3, <1>6 DEF Reachable, Abandoned
<1>8. Fresh' /\ Opening'
  BY <1>1, <1>3, States DEF Fresh, Opening
<1>9. OutOfTable'
  BY <1>1, <1>3, <1>6, States DEF OutOfTable, InTable
<1> QED
  BY <1>4, <1>5, <1>7, <1>8, <1>9

\* A disconnect, and a step of someone else, touch neither the table nor a listener.
LEMMA QuietKeeps ==
  ASSUME IInv, up' \subseteq Conns,
         UNCHANGED <<listener, owner, keyOf, forwards, handler, watcher, acceptor>>
  PROVE  IInv'
<1> USE DEF IInv
<1>1. TypeOK'
  BY DEF TypeOK
<1>2. TableIsLive' /\ Distinct' /\ Fresh' /\ Opening'
  BY DEF TableIsLive, Distinct, Fresh, Opening
<1>3. \A j \in Ids : (Closing(j)' <=> Closing(j)) /\ (Recording(j)' <=> Recording(j))
  BY DEF Closing, Recording
<1>4. Reachable' /\ OutOfTable'
  BY <1>3 DEF Reachable, OutOfTable, Abandoned, InTable
<1> QED
  BY <1>1, <1>2, <1>4

-----------------------------------------------------------------------------
\* The invariant holds throughout, however many connections, keys and listeners.
LEMMA Inductive == Spec => []IInv
<1>1. IInv /\ [Next]_vars => IInv'
  <2> SUFFICES ASSUME IInv, [Next]_vars PROVE IInv'
    OBVIOUS
  <2>1. CASE UNCHANGED vars
    BY <2>1, QuietKeeps DEF vars, IInv, TypeOK
  <2>2. ASSUME NEW c \in Conns, NEW k \in Keys, NEW i \in Ids, Listen(c, i, k) PROVE IInv'
    BY <2>2, ListenKeeps
  <2>3. ASSUME NEW c \in Conns, NEW k \in Keys, CancelForward(c, k) PROVE IInv'
    BY <2>3, CancelKeeps
  <2>4. ASSUME NEW c \in Conns, HandlerStep(c) PROVE IInv'
    BY <2>4, RecordKeeps, ServeKeeps, CancelClosesKeeps DEF HandlerStep
  <2>5. ASSUME NEW c \in Conns, Disconnect(c) PROVE IInv'
    BY <2>5, QuietKeeps DEF Disconnect, IInv, TypeOK
  <2>6. ASSUME NEW i \in Ids, WatcherStep(i) PROVE IInv'
    BY <2>6, WatcherTakesKeeps, WatcherClosesKeeps DEF WatcherStep
  <2>7. ASSUME NEW i \in Ids, AcceptLoopExits(i) PROVE IInv'
    BY <2>7, AcceptLoopKeeps
  <2> QED
    BY <2>1, <2>2, <2>3, <2>4, <2>5, <2>6, <2>7 DEF Next
<1> QED
  BY <1>1, InitIInv, PTL DEF Spec

\* The table of forward.go holds only open listeners, each under its own key.
THEOREM TableAlwaysLive == Spec => []TableIsLive
<1>1. IInv => TableIsLive
  BY DEF IInv
<1> QED
  BY <1>1, Inductive, PTL

\* No open listener is out of everyone's reach, but one whose own Accept failed.
THEOREM NoListenerOrphaned == Spec => []NoOrphanListener
<1>1. IInv => NoOrphanListener
  BY DEF IInv, Reachable, Recording, Closing, NoOrphanListener, InHand
<1> QED
  BY <1>1, Inductive, PTL

\* The relays of accepted connections leave the table alone, so both hold with them.
THEOREM RelaysLeaveTable == RelaySpec => Spec
<1>1. [RelayNext]_relayVars => [Next]_vars
  BY DEF RelayNext, TableStep, RelayStep, ChannelOpens, ChannelRefused, CopyEnds,
         OtherCopyEnds, AcceptInbound, Step, relayVars
<1> QED
  BY <1>1, PTL DEF RelaySpec, RelayInit, Spec

-----------------------------------------------------------------------------
(* Every entry has a goroutine that will remove it.                         *)

Serving(i) == \E c \in Conns : handler[c].at = "serve" /\ handler[c].on = i

\* The goroutine of startForward waits for the end of the connection as long as the
\* listener is in the table, or startForward is about to start it.
Watched == \A k \in Keys : forwards[k] # None =>
             watcher[forwards[k]].at = "wait" \/ Serving(forwards[k])

\* When a connection has ended, each listener it opened that is still open is about to
\* be recorded, served or closed by someone, or is found under its own key by its own
\* watcher, which has not run yet; again but for one on which Accept failed.
TeardownReaches ==
  \A i \in Ids : listener[i] = "open" /\ owner[i] \notin up =>
    \/ InHand(i) \/ Abandoned(i)
    \/ watcher[i].at = "wait" /\ forwards[keyOf[i]] = i

\* Opening, recording, serving and cancelling forwards keep it.
LEMMA HandlersKeepWatched ==
  ASSUME IInv, Watched, NEW c \in Conns,
         \/ HandlerStep(c)
         \/ \E k \in Keys : CancelForward(c, k) \/ \E i \in Ids : Listen(c, i, k)
  PROVE  Watched'
<1> DEFINE h == handler[c].on
<1>0. TypeOK /\ None \notin Ids
  BY States DEF IInv
<1>1. CASE \E k \in Keys, i \in Ids : Listen(c, i, k)
  <2>1. forwards' = forwards /\ watcher' = watcher
    BY <1>1 DEF Listen
  <2>2. \A i \in Ids : Serving(i) => Serving(i)'
    BY <1>0, <1>1 DEF TypeOK, Listen, Serving, Idle, At
  <2> QED
    BY <1>0, <2>1, <2>2 DEF Watched, TypeOK
<1>2. CASE Record(c)
  <2>1. h \in Ids /\ handler[c].at = "record" /\ keyOf[h] \in Keys
    BY <1>0, <1>2, States DEF Record, IInv, OutOfTable, Recording, Reachable
  <2>2. \A k \in Keys : forwards'[k] = (IF k = keyOf[h] THEN h ELSE forwards[k])
    BY <1>0, <1>2 DEF Record, TypeOK
  <2>3. watcher' = watcher /\ \A d \in Conns : handler'[d] = IF d = c THEN At("serve", h) ELSE handler[d]
    BY <1>0, <1>2 DEF Record, TypeOK
  <2>4. \A i \in Ids : i = h \/ Serving(i) => Serving(i)'
    BY <2>1, <2>3 DEF Serving, At
  <2>5. \A k \in Keys : forwards'[k] = h \/ forwards'[k] = forwards[k]
    BY <2>2
  <2>6. \A k \in Keys : forwards[k] \in Ids \cup {None}
    BY <1>0 DEF TypeOK
  <2> HIDE DEF h
  <2> QED
    BY <2>1, <2>3, <2>4, <2>5, <2>6 DEF Watched
<1>3. CASE Serve(c)
  <2>1. h \in Ids /\ forwards' = forwards
    BY <1>0, <1>3, States DEF Serve
  <2>2. \A i \in Ids : watcher'[i].at = (IF i = h THEN "wait" ELSE watcher[i].at)
    BY <1>0, <1>3 DEF Serve, TypeOK, At
  <2>3. \A i \in Ids : Serving(i) => i = h \/ Serving(i)'
    BY <1>0, <1>3 DEF Serve, TypeOK, Serving
  <2> QED
    BY <1>0, <2>1, <2>2, <2>3 DEF Watched, TypeOK
<1>4. ASSUME NEW k \in Keys, CancelForward(c, k) PROVE Watched'
  <2>1. \A l \in Keys : forwards'[l] \in {forwards[l], None}
    BY <1>4, Taken DEF CancelForward
  <2>2. watcher' = watcher
    BY <1>4 DEF CancelForward
  <2>3. \A i \in Ids : Serving(i) => Serving(i)'
    BY <1>0, <1>4 DEF CancelForward, TypeOK, Serving, Idle, At
  <2> QED
    BY <1>0, <2>1, <2>2, <2>3 DEF Watched, TypeOK
<1>5. CASE CancelCloses(c)
  <2>1. forwards' = forwards /\ watcher' = watcher
    BY <1>5 DEF CancelCloses
  <2>2. \A i \in Ids : Serving(i) => Serving(i)'
    BY <1>0, <1>5 DEF CancelCloses, TypeOK, Serving
  <2> QED
    BY <1>0, <2>1, <2>2 DEF Watched, TypeOK
<1> QED
  BY <1>1, <1>2, <1>3, <1>4, <1>5 DEF HandlerStep

\* A watcher that stops waiting takes the entry of its own listener, if it is still
\* there, with it; an accept loop that ends only takes an entry away.
LEMMA GoroutinesKeepWatched ==
  ASSUME IInv, Watched, NEW i \in Ids, WatcherStep(i) \/ AcceptLoopExits(i)
  PROVE  Watched'
<1>0. TypeOK /\ None \notin Ids /\ handler' = handler
  BY States DEF IInv, WatcherStep, WatcherTakes, WatcherCloses, AcceptLoopExits
<1>1. \A j \in Ids : Serving(j)' <=> Serving(j)
  BY <1>0 DEF Serving
<1>2. CASE WatcherTakes(i)
  <2>1. keyOf[i] \in Keys
    BY <1>0, <1>2 DEF WatcherTakes, IInv, Fresh, Reachable, TypeOK
  <2>2. \A l \in Keys : forwards'[l] = IF l = keyOf[i] THEN None ELSE forwards[l]
    BY <1>2, <2>1, Taken DEF WatcherTakes
  <2>3. \A j \in Ids : j # i => watcher'[j] = watcher[j]
    BY <1>0, <1>2 DEF WatcherTakes, TypeOK
  <2>4. \A l \in Keys : forwards'[l] # None => /\ forwards'[l] = forwards[l] /\ forwards[l] # i
                                              /\ forwards[l] \in Ids
    BY <1>0, <2>2 DEF IInv, TableIsLive, TypeOK
  <2> QED
    BY <1>1, <2>3, <2>4 DEF Watched
<1>3. CASE WatcherCloses(i)
  <2>1. forwards' = forwards /\ watcher[i].at = "close"
    BY <1>3 DEF WatcherCloses
  <2>2. \A j \in Ids : j # i => watcher'[j] = watcher[j]
    BY <1>0, <1>3 DEF WatcherCloses, TypeOK
  <2> QED
    BY <1>0, <1>1, <2>1, <2>2 DEF Watched, TypeOK
<1>4. CASE AcceptLoopExits(i)
  <2>1. keyOf[i] \in Keys
    BY <1>0, <1>4 DEF AcceptLoopExits, IInv, Fresh, Reachable, TypeOK
  <2>2. \A l \in Keys : forwards'[l] \in {forwards[l], None}
    BY <1>4, <2>1, Taken DEF AcceptLoopExits
  <2>3. watcher' = watcher
    BY <1>4 DEF AcceptLoopExits
  <2> QED
    BY <1>0, <1>1, <2>2, <2>3 DEF Watched, TypeOK
<1> QED
  BY <1>2, <1>3, <1>4 DEF WatcherStep

\* No listener of a connection that has ended is out of reach of its own teardown.
THEOREM TeardownFindsAll == Spec => []TeardownReaches
<1>1. Init => Watched
  BY DEF Init, Watched
<1>2. IInv /\ Watched /\ [Next]_vars => Watched'
  <2> SUFFICES ASSUME IInv, Watched, [Next]_vars PROVE Watched'
    OBVIOUS
  <2>1. CASE UNCHANGED vars \/ \E c \in Conns : Disconnect(c)
    BY <2>1 DEF vars, Disconnect, Watched, Serving
  <2> QED
    BY <2>1, HandlersKeepWatched, GoroutinesKeepWatched DEF Next
<1>3. IInv /\ Watched => TeardownReaches
  <2> SUFFICES ASSUME IInv, Watched, NEW i \in Ids, listener[i] = "open"
               PROVE  \/ InHand(i) \/ Abandoned(i)
                      \/ watcher[i].at = "wait" /\ forwards[keyOf[i]] = i
    BY DEF TeardownReaches
  <2>1. keyOf[i] \in Keys /\ i # None
    BY States DEF IInv, Reachable
  <2>2. Recording(i) \/ Serving(i) \/ Closing(i) => InHand(i)
    BY DEF Recording, Serving, Closing, InHand
  <2> QED
    BY <2>1, <2>2 DEF IInv, Reachable, Watched
<1> QED
  BY <1>1, <1>2, <1>3, Inductive, PTL DEF Spec
=============================================================================
