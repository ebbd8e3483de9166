--------------------------- MODULE Server_proofs ---------------------------
(***************************************************************************)
(* Theorems about Server, for every number of peers and every limit: the     *)
(* permits taken and the senders held are exactly the connection tasks that  *)
(* are alive, whichever way a connection ends.                             *)
(***************************************************************************)
EXTENDS Server, FiniteSetTheorems, TLAPS

Places == {"away", "queued", "handshake", "serving", "refused"}
Kinds  == {"none", "wallet", "validation", "stray"}

(* The two counts the listener keeps of its tasks.                          *)
Counted ==
    /\ permits = Limit - Cardinality(Tasks)
    /\ live = Cardinality(Tasks)

ServerInv ==
    /\ peer \in [Peers -> Places] /\ kind \in [Peers -> Kinds]
    /\ listener \in {"accepting", "pausing", "draining"} \cup Returned
    /\ tls \in BOOLEAN /\ certificate \in BOOLEAN /\ order \in BOOLEAN
    /\ shutdown \in BOOLEAN
    /\ permits \in Nat
    /\ Counted
    /\ DrainIsHonest

LEMMA TasksFinite ==
  IsFiniteSet(Tasks) /\ Cardinality(Tasks) \in Nat
<1>1. Tasks \subseteq Peers
  BY DEF Tasks
<1> QED BY <1>1, ServerAssumption, FS_Subset, FS_CardinalityType

(* How the set of tasks follows one peer that moves.                        *)
LEMMA TaskMoves ==
  ASSUME peer \in [Peers -> Places], NEW p \in Peers, NEW place \in Places, Moved(p, place)
  PROVE  /\ peer' \in [Peers -> Places]
         /\ peer[p] \in {"handshake", "serving"} /\ place \in {"handshake", "serving"}
              => Tasks' = Tasks
         /\ peer[p] \notin {"handshake", "serving"} /\ place \notin {"handshake", "serving"}
              => Tasks' = Tasks
         /\ peer[p] \notin {"handshake", "serving"} /\ place \in {"handshake", "serving"}
              => Cardinality(Tasks') = Cardinality(Tasks) + 1
         /\ peer[p] \in {"handshake", "serving"} /\ place \notin {"handshake", "serving"}
              => Cardinality(Tasks') = Cardinality(Tasks) - 1
<1> USE DEF Moved
<1>1. peer' \in [Peers -> Places]
  OBVIOUS
<1>2. Tasks' = IF place \in {"handshake", "serving"} THEN Tasks \cup {p} ELSE Tasks \ {p}
  BY DEF Tasks
<1>3. p \in Tasks <=> peer[p] \in {"handshake", "serving"}
  BY DEF Tasks
<1>4. Cardinality(Tasks \cup {p}) = IF p \in Tasks THEN Cardinality(Tasks)
                                                  ELSE Cardinality(Tasks) + 1
  BY TasksFinite, FS_AddElement
<1>5. Cardinality(Tasks \ {p}) = IF p \in Tasks THEN Cardinality(Tasks) - 1
                                              ELSE Cardinality(Tasks)
  BY TasksFinite, FS_RemoveElement
<1>6. p \in Tasks => Tasks \cup {p} = Tasks
  OBVIOUS
<1>7. p \notin Tasks => Tasks \ {p} = Tasks
  OBVIOUS
<1> QED BY <1>1, <1>2, <1>3, <1>4, <1>5, <1>6, <1>7

LEMMA InvImplies == ServerInv => TypeOK /\ WithinLimit /\ DrainIsHonest
<1> SUFFICES ASSUME ServerInv PROVE TypeOK /\ WithinLimit /\ DrainIsHonest
  OBVIOUS
<1>1. permits \in 0 .. Limit /\ live \in Nat /\ WithinLimit
  BY TasksFinite, ServerAssumption DEF ServerInv, Counted, WithinLimit
<1>2. {tls, certificate, order, shutdown} \subseteq BOOLEAN
  BY DEF ServerInv
<1> QED BY <1>1, <1>2 DEF ServerInv, TypeOK, Places, Kinds

LEMMA InitInv == Init => ServerInv
<1> SUFFICES ASSUME Init PROVE ServerInv
  OBVIOUS
<1>1. Tasks = {}
  BY DEF Init, Tasks
<1>2. Cardinality(Tasks) = 0
  BY <1>1, FS_EmptySet
<1>3. peer \in [Peers -> Places] /\ kind \in [Peers -> Kinds]
  BY DEF Init, Places, Kinds
<1>4. permits \in Nat /\ Counted
  BY <1>2, ServerAssumption DEF Init, Counted
<1>5. DrainIsHonest
  BY <1>1 DEF DrainIsHonest
<1>6. /\ tls \in BOOLEAN /\ certificate \in BOOLEAN /\ order \in BOOLEAN
      /\ shutdown \in BOOLEAN
  BY DEF Init
<1> QED BY <1>3, <1>4, <1>5, <1>6 DEF Init, ServerInv

(* A step that moves no peer: the tasks, and both counts, stay.              *)
LEMMA StillInv ==
  ASSUME ServerInv, UNCHANGED connectionVars,
         listener' \in {"accepting", "pausing", "draining"} \cup Returned,
         tls' \in BOOLEAN, certificate' \in BOOLEAN, order' \in BOOLEAN,
         shutdown' \in BOOLEAN,
         listener' = "drained" => Tasks = {}
  PROVE  ServerInv'
<1>1. Tasks' = Tasks
  BY DEF Tasks, connectionVars
<1>2. Counted'
  BY <1>1 DEF ServerInv, Counted, connectionVars
<1>3. DrainIsHonest'
  BY <1>1 DEF DrainIsHonest
<1> QED BY <1>2, <1>3 DEF ServerInv, connectionVars, Returned

(* A step that moves one peer while the loop has not returned, and takes or   *)
(* gives back the permit and the sender of its task.                        *)
LEMMA MovedInv ==
  ASSUME ServerInv, Running, UNCHANGED <<listener, tls, shutdown>>,
         certificate' \in BOOLEAN, order' \in BOOLEAN,
         NEW p \in Peers, NEW place \in Places, Moved(p, place),
         kind' \in [Peers -> Kinds], permits' \in Nat,
         permits' = permits - (Cardinality(Tasks') - Cardinality(Tasks)),
         live' = live + (Cardinality(Tasks') - Cardinality(Tasks)),
         Cardinality(Tasks') \in Nat
  PROVE  ServerInv'
<1>1. peer' \in [Peers -> Places]
  BY TaskMoves DEF ServerInv
<1>2. Counted'
  BY TasksFinite, ServerAssumption DEF ServerInv, Counted
<1>3. DrainIsHonest'
  BY DEF Running, Returned, DrainIsHonest
<1> QED BY <1>1, <1>2, <1>3 DEF ServerInv, Returned

(* One connection's task ends.                                             *)
LEMMA TaskOverInv ==
  ASSUME ServerInv, Running, NEW p \in Peers, peer[p] \in {"handshake", "serving"},
         TaskOver(p), certificate' \in BOOLEAN, order' \in BOOLEAN
  PROVE  ServerInv'
<1>1. Moved(p, "away") /\ "away" \in Places
  BY DEF TaskOver, Gone, Places
<1>2. Cardinality(Tasks') = Cardinality(Tasks) - 1
  BY <1>1, TaskMoves DEF ServerInv
<1>3. p \in Tasks
  BY DEF Tasks
<1>4. Cardinality(Tasks) # 0
  BY <1>3, TasksFinite, FS_EmptySet
<1>5. kind' \in [Peers -> Kinds]
  BY DEF TaskOver, Gone, ServerInv, Kinds
<1>6. /\ permits' = permits + 1 /\ live' = live - 1
      /\ UNCHANGED <<listener, tls, shutdown>>
  BY DEF TaskOver
<1>7. Cardinality(Tasks') \in Nat
  BY <1>2, <1>4, TasksFinite
<1>8. /\ permits' = permits - (Cardinality(Tasks') - Cardinality(Tasks))
      /\ live' = live + (Cardinality(Tasks') - Cardinality(Tasks))
      /\ permits' \in Nat
  BY <1>2, <1>6, TasksFinite, ServerAssumption DEF ServerInv, Counted
<1> QED BY <1>1, <1>5, <1>6, <1>7, <1>8, MovedInv

(* A peer moves and no task begins or ends.                                 *)
LEMMA SameTasksInv ==
  ASSUME ServerInv, Running, NEW p \in Peers, NEW place \in Places, Moved(p, place),
         peer[p] \in {"handshake", "serving"} <=> place \in {"handshake", "serving"},
         kind' \in [Peers -> Kinds],
         UNCHANGED <<listener, permits, live, acmeVars, tls, shutdown>>
  PROVE  ServerInv'
<1>1. Tasks' = Tasks
  BY TaskMoves DEF ServerInv
<1>2. Cardinality(Tasks') = Cardinality(Tasks) /\ Cardinality(Tasks) \in Nat
  BY <1>1, TasksFinite
<1>3. /\ permits' = permits - (Cardinality(Tasks') - Cardinality(Tasks))
      /\ live' = live + (Cardinality(Tasks') - Cardinality(Tasks))
      /\ permits' \in Nat
  BY <1>2, ServerAssumption DEF ServerInv, Counted
<1>4. certificate' \in BOOLEAN /\ order' \in BOOLEAN
  BY DEF ServerInv, acmeVars
<1> QED BY <1>2, <1>3, <1>4, MovedInv

LEMMA AcceptInv ==
  ASSUME ServerInv, NEW p \in Peers, Accept(p)
  PROVE  ServerInv'
<1>0. /\ Running /\ peer[p] = "queued"
      /\ UNCHANGED <<listener, kind, acmeVars, tls, shutdown>>
  BY DEF Accept, AcceptWhen, Polled, Running, Returned
<1>1. kind' \in [Peers -> Kinds] /\ certificate' \in BOOLEAN /\ order' \in BOOLEAN
  BY <1>0 DEF ServerInv, acmeVars
<1>2. CASE Admitted(p)
  <2>1. Moved(p, FirstPlace) /\ FirstPlace \in {"handshake", "serving"}
    BY <1>2 DEF Admitted, AdmittedHolding, FirstPlace
  <2>2. Cardinality(Tasks') = Cardinality(Tasks) + 1
    BY <2>1, <1>0, TaskMoves DEF ServerInv, Places
  <2>3. permits > 0 /\ permits' = permits - 1 /\ live' = live + 1
    BY <1>2 DEF Admitted, AdmittedHolding
  <2>4. /\ permits' = permits - (Cardinality(Tasks') - Cardinality(Tasks))
        /\ live' = live + (Cardinality(Tasks') - Cardinality(Tasks))
        /\ permits' \in Nat /\ Cardinality(Tasks') \in Nat
    BY <2>2, <2>3, TasksFinite, ServerAssumption DEF ServerInv, Counted
  <2> QED BY <1>0, <1>1, <2>1, <2>4, MovedInv DEF Places
<1>3. CASE Refused(p)
  BY <1>0, <1>1, <1>3, SameTasksInv DEF Refused, Places
<1> QED BY <1>2, <1>3 DEF Accept, AcceptWhen

LEMMA LoopInv == ServerInv /\ Loop => ServerInv'
<1> SUFFICES ASSUME ServerInv, Loop PROVE ServerInv'
  OBVIOUS
<1>0. /\ tls \in BOOLEAN /\ certificate \in BOOLEAN /\ order \in BOOLEAN
      /\ shutdown \in BOOLEAN
  BY DEF ServerInv
<1>1. CASE SeeSignal
  BY <1>0, <1>1, StillInv DEF SeeSignal, acmeVars, Returned
<1>2. CASE DescriptorsRunOut
  BY <1>0, <1>2, StillInv DEF DescriptorsRunOut, acmeVars, Returned
<1>3. CASE PauseEnds
  BY <1>0, <1>3, StillInv DEF PauseEnds, acmeVars, Returned
<1>4. CASE ListenerBreaks
  BY <1>0, <1>4, StillInv DEF ListenerBreaks, acmeVars, Returned
<1>5. CASE Drained
  <2>1. Cardinality(Tasks) = 0
    BY <1>5 DEF Drained, ServerInv, Counted
  <2>2. Tasks = {}
    BY <2>1, TasksFinite, FS_EmptySet
  <2> QED BY <1>0, <1>5, <2>2, StillInv DEF Drained, acmeVars, Returned
<1>6. CASE DrainTimesOut
  BY <1>0, <1>6, StillInv DEF DrainTimesOut, DrainEndsIf, acmeVars, Returned
<1>7. CASE \E p \in Peers : Accept(p)
  BY <1>7, AcceptInv
<1> QED BY <1>1, <1>2, <1>3, <1>4, <1>5, <1>6, <1>7 DEF Loop

LEMMA ConnectionInv ==
  ASSUME ServerInv, NEW p \in Peers, Connection(p)
  PROVE  ServerInv'
<1>0. certificate \in BOOLEAN /\ order \in BOOLEAN /\ kind \in [Peers -> Kinds]
  BY DEF ServerInv
<1>1. CASE Secured(p)
  BY <1>0, <1>1, SameTasksInv DEF Secured, Places
<1>2. CASE HandshakeFails(p)
  BY <1>0, <1>2, TaskOverInv DEF HandshakeFails, acmeVars
<1>3. CASE Validated(p)
  BY <1>0, <1>3, TaskOverInv DEF Validated
<1>4. CASE ConnectionEnds(p)
  BY <1>0, <1>4, TaskOverInv DEF ConnectionEnds, acmeVars
<1> QED BY <1>1, <1>2, <1>3, <1>4 DEF Connection

LEMMA OutsideInv == ServerInv /\ (Outside \/ Signal) => ServerInv'
<1> SUFFICES ASSUME ServerInv, Outside \/ Signal PROVE ServerInv'
  OBVIOUS
<1>0. /\ tls \in BOOLEAN /\ certificate \in BOOLEAN /\ order \in BOOLEAN
      /\ shutdown \in BOOLEAN /\ kind \in [Peers -> Kinds]
      /\ listener \in {"accepting", "pausing", "draining"} \cup Returned
      /\ listener = "drained" => Tasks = {}
  BY DEF ServerInv, DrainIsHonest
<1>1. CASE Orders
  BY <1>0, <1>1, StillInv DEF Orders
<1>2. CASE Expires
  BY <1>0, <1>2, StillInv DEF Expires
<1>3. CASE Signal
  BY <1>0, <1>3, StillInv DEF Signal, acmeVars
<1>4. ASSUME NEW p \in Peers, Arrives(p) PROVE ServerInv'
  <2>1. kind' \in [Peers -> Kinds]
    BY <1>0, <1>4 DEF Arrives, Kinds
  <2> QED BY <2>1, <1>4, SameTasksInv DEF Arrives, Places
<1>5. ASSUME NEW p \in Peers, Leaves(p) PROVE ServerInv'
  <2>1. kind' \in [Peers -> Kinds]
    BY <1>0, <1>5 DEF Leaves, Gone, Kinds
  <2> QED BY <2>1, <1>5, SameTasksInv DEF Leaves, Gone, Places
<1> QED BY <1>1, <1>2, <1>3, <1>4, <1>5 DEF Outside

LEMMA NextInv == ServerInv /\ [Next]_serverVars => ServerInv'
<1> SUFFICES ASSUME ServerInv, [Next]_serverVars PROVE ServerInv'
  OBVIOUS
<1>1. CASE UNCHANGED serverVars
  BY <1>1, StillInv DEF serverVars, acmeVars, ServerInv, DrainIsHonest
<1> QED BY <1>1, LoopInv, ConnectionInv, OutsideInv DEF Next

(* Type correctness of the listener: the semaphore in its range, for every    *)
(* number of peers and every limit.                                        *)
THEOREM ServerTyped == Spec => []TypeOK
  BY InitInv, NextInv, InvImplies, PTL DEF Spec

(* No more connections are alive than MAX_INFLIGHT_CONNECTIONS, whichever way  *)
(* they begin and end.                                                     *)
THEOREM ServerLimited == Spec => []WithinLimit
  BY InitInv, NextInv, InvImplies, PTL DEF Spec

(* The loop reports itself drained only when no connection task is alive.     *)
THEOREM DrainHonest == Spec => []DrainIsHonest
  BY InitInv, NextInv, InvImplies, PTL DEF Spec

(* A connection is refused only while live tasks hold every slot: no end of    *)
(* a connection leaks one.                                                 *)
THEOREM NoSlotLeaks == Spec => RefusedOnlyWhenFull
<1>1. ServerInv /\ [Next]_serverVars
        => [\A p \in Peers : peer[p] # "refused" /\ peer'[p] = "refused"
                               => Cardinality(Tasks) = Limit]_serverVars
  <2> SUFFICES ASSUME ServerInv, Next, NEW p \in Peers,
                      peer[p] # "refused", peer'[p] = "refused"
               PROVE  Cardinality(Tasks) = Limit
    BY DEF serverVars
  <2>1. peer \in [Peers -> Places]
    BY DEF ServerInv
  <2>2. ASSUME NEW q \in Peers, NEW place, Moved(q, place), place # "refused" PROVE FALSE
    BY <2>1, <2>2 DEF Moved
  <2>3. ~Signal /\ ~Orders /\ ~Expires /\ ~SeeSignal /\ ~DescriptorsRunOut /\ ~PauseEnds
        /\ ~ListenerBreaks /\ ~Drained /\ ~DrainTimesOut
    BY DEF Signal, Orders, Expires, SeeSignal, DescriptorsRunOut, PauseEnds, ListenerBreaks,
       Drained, DrainTimesOut, DrainEndsIf, connectionVars
  <2>4. ASSUME NEW q \in Peers, Connection(q) \/ Arrives(q) \/ Leaves(q) PROVE FALSE
    BY <2>2, <2>4 DEF Connection, Secured, HandshakeFails, Validated, ConnectionEnds,
       TaskOver, Gone, Arrives, Leaves
  <2>5. PICK q \in Peers : Accept(q)
    BY <2>3, <2>4 DEF Next, Loop, Outside
  <2>6. FirstPlace # "refused"
    BY DEF FirstPlace
  <2>7. ~Admitted(q)
    BY <2>2, <2>6 DEF Admitted, AdmittedHolding
  <2>8. permits = 0
    BY <2>5, <2>7 DEF Accept, AcceptWhen, Refused
  <2> QED BY <2>8, TasksFinite, ServerAssumption DEF ServerInv, Counted
<1> QED BY <1>1, InitInv, NextInv, PTL DEF Spec, RefusedOnlyWhenFull

(* With TLS on, a connection is only ever served after the handshake of a      *)
(* wallet that was shown a certificate: nothing falls back to the clear.       *)
THEOREM NoFallback == Spec => NeverInTheClear
<1>1. ServerInv /\ [Next]_serverVars
        => [\A p \in Peers : tls /\ peer[p] # "serving" /\ peer'[p] = "serving"
                               => kind[p] = "wallet" /\ certificate]_serverVars
  <2> SUFFICES ASSUME ServerInv, Next, NEW p \in Peers,
                      tls, peer[p] # "serving", peer'[p] = "serving"
               PROVE  kind[p] = "wallet" /\ certificate
    BY DEF serverVars
  <2>1. peer \in [Peers -> Places]
    BY DEF ServerInv
  <2>2. ASSUME NEW q \in Peers, NEW place, Moved(q, place), place # "serving" PROVE FALSE
    BY <2>1, <2>2 DEF Moved
  <2>3. ~Signal /\ ~Orders /\ ~Expires /\ ~SeeSignal /\ ~DescriptorsRunOut /\ ~PauseEnds
        /\ ~ListenerBreaks /\ ~Drained /\ ~DrainTimesOut
    BY DEF Signal, Orders, Expires, SeeSignal, DescriptorsRunOut, PauseEnds, ListenerBreaks,
       Drained, DrainTimesOut, DrainEndsIf, connectionVars
  <2>4. ASSUME NEW q \in Peers,
               HandshakeFails(q) \/ Validated(q) \/ ConnectionEnds(q) \/ Arrives(q) \/ Leaves(q)
        PROVE  FALSE
    BY <2>2, <2>4 DEF HandshakeFails, Validated, ConnectionEnds, TaskOver, Gone, Arrives, Leaves
  <2>5. FirstPlace # "serving"
    BY DEF FirstPlace
  <2>6. ASSUME NEW q \in Peers, Accept(q) PROVE FALSE
    BY <2>2, <2>5, <2>6 DEF Accept, AcceptWhen, Admitted, AdmittedHolding, Refused
  <2>7. PICK q \in Peers : Secured(q)
    BY <2>3, <2>4, <2>6 DEF Next, Loop, Outside, Connection
  <2>8. q = p
    BY <2>1, <2>7 DEF Secured, Moved
  <2> QED BY <2>7, <2>8 DEF Secured
<1> QED BY <1>1, InitInv, NextInv, PTL DEF Spec, NeverInTheClear
=============================================================================
