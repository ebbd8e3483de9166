------------------------ MODULE NymTransport_proofs ------------------------
(***************************************************************************)
(* Proofs about the mixnet transport, for any set of calls, any number of  *)
(* hub addresses and any channel capacities.                               *)
(***************************************************************************)
EXTENDS NymTransport, FiniteSetTheorems, TLAPS

-----------------------------------------------------------------------------
(* Facts about the operators the model is built from                       *)

(* The address arithmetic of each_target stays within the list.            *)
LEMMA ModuloIsTarget == \A n \in Nat : n % HubCount \in Targets
  BY SizesAssumption DEF Targets

LEMMA NextTarget == \A n \in Targets : n + 1 < HubCount => n + 1 \in Targets
  BY SizesAssumption DEF Targets

(* A call's attempt is for one of the configured addresses.                *)
LEMMA TargetType ==
  ASSUME TypeOK, NEW c \in Calls
  PROVE  Target(c) \in Targets /\ Current(c) \in Nonces
<1>1. attempt[c] \in Nat /\ start[c] \in Nat /\ attempt[c] \in Targets
  BY DEF TypeOK, Targets
<1>2. (start[c] + attempt[c]) % HubCount \in Targets
  BY <1>1, ModuloIsTarget
<1>3. Target(c) \in Targets
  BY <1>1, <1>2 DEF Target
<1> QED BY <1>3 DEF Current, FreshNonce, Nonces

(* The elements of a channel after a send and after a receive.             *)
LEMMA ElementsAppend ==
  ASSUME NEW S, NEW s \in Seq(S), NEW e \in S
  PROVE  Elements(Append(s, e)) = Elements(s) \cup {e}
<1> DEFINE t == Append(s, e)
<1>1. /\ t \in Seq(S) /\ Len(t) = Len(s) + 1 /\ t[Len(s) + 1] = e
      /\ \A i \in 1 .. Len(s) : t[i] = s[i]
  OBVIOUS
<1>2. DOMAIN s = 1 .. Len(s) /\ DOMAIN t = 1 .. (Len(s) + 1) /\ Len(s) \in Nat
  BY <1>1
<1> HIDE DEF t
<1>3. ASSUME NEW x \in Elements(t) PROVE x \in Elements(s) \cup {e}
  <2>1. PICK i \in 1 .. (Len(s) + 1) : x = t[i]
    BY <1>2, <1>3 DEF Elements
  <2>2. CASE i = Len(s) + 1  BY <2>1, <2>2, <1>1
  <2>3. CASE i \in 1 .. Len(s)  BY <2>1, <2>3, <1>1, <1>2 DEF Elements
  <2> QED BY <1>2, <2>2, <2>3
<1>4. ASSUME NEW x \in Elements(s) PROVE x \in Elements(t)
  <2>1. PICK i \in 1 .. Len(s) : x = s[i]
    BY <1>2, <1>4 DEF Elements
  <2> QED BY <2>1, <1>1, <1>2 DEF Elements
<1>5. e \in Elements(t)
  BY <1>1, <1>2 DEF Elements
<1> QED BY <1>3, <1>4, <1>5 DEF t

LEMMA ElementsTail ==
  ASSUME NEW S, NEW s \in Seq(S), s # <<>>
  PROVE  /\ Head(s) \in S /\ Tail(s) \in Seq(S) /\ Len(Tail(s)) = Len(s) - 1
         /\ Elements(s) = Elements(Tail(s)) \cup {Head(s)}
<1> DEFINE t == Tail(s)
<1>1. /\ Len(s) \in Nat /\ Len(s) > 0 /\ s[1] = Head(s) /\ Head(s) \in S
      /\ t \in Seq(S) /\ Len(t) = Len(s) - 1
      /\ \A i \in 1 .. Len(t) : t[i] = s[i + 1]
  OBVIOUS
<1>2. DOMAIN s = 1 .. Len(s) /\ DOMAIN t = 1 .. Len(t)
  BY <1>1
<1> HIDE DEF t
<1>3. ASSUME NEW x \in Elements(s) PROVE x \in Elements(t) \cup {Head(s)}
  <2>1. PICK i \in 1 .. Len(s) : x = s[i]
    BY <1>2, <1>3 DEF Elements
  <2>2. CASE i = 1  BY <2>1, <2>2, <1>1
  <2>3. CASE i # 1
    <3>1. i - 1 \in 1 .. Len(t) /\ t[i - 1] = s[i]
      BY <2>1, <2>3, <1>1
    <3> QED BY <3>1, <2>1, <1>2 DEF Elements
  <2> QED BY <2>2, <2>3
<1>4. ASSUME NEW x \in Elements(t) PROVE x \in Elements(s)
  <2>1. PICK i \in 1 .. Len(t) : x = t[i]
    BY <1>2, <1>4 DEF Elements
  <2>2. i + 1 \in 1 .. Len(s) /\ x = s[i + 1]
    BY <2>1, <1>1
  <2> QED BY <2>2, <1>2 DEF Elements
<1>5. Head(s) \in Elements(s)
  BY <1>1, <1>2 DEF Elements
<1> QED BY <1>1, <1>3, <1>4, <1>5 DEF t

LEMMA ElementsEmpty == Elements(<<>>) = {}
  BY DEF Elements

(* Waiters are nonces of calls, so there are finitely many to count.        *)
LEMMA NoncesAreFinite == IsFiniteSet(Nonces)
<1>1. IsFiniteSet(Targets)
  BY SizesAssumption, FS_Interval DEF Targets
<1> QED BY <1>1, CallsAssumption, FS_Product DEF Nonces

LEMMA CountType == \A S \in SUBSET Nonces : Cardinality(S) \in Nat
  BY NoncesAreFinite, FS_Subset, FS_CardinalityType

(* What the end of a turn leaves in the loop's variables.                  *)
LEMMA SettleType ==
  ASSUME NEW S \in SUBSET Nonces, NEW open \in BOOLEAN, NEW held \in BOOLEAN,
         Settle(S, open, held)
  PROVE  /\ pending' \in SUBSET Nonces /\ pending' \subseteq S
         /\ \A n \in S : Listening(n) => n \in pending'
         /\ inflight' \in Nat /\ requestsOpen' \in BOOLEAN
         /\ transport' \in {"running", "stopped"}
         /\ permit' \in BOOLEAN /\ (permit' => held)
<1>1. {n \in S : Listening(n)} \in SUBSET Nonces
  OBVIOUS
<1>2. Cardinality({n \in S : Listening(n)}) \in Nat
  BY <1>1, CountType
<1> QED BY <1>1, <1>2, Zenon DEF Settle

-----------------------------------------------------------------------------
(* Type correctness                                                        *)

LEMMA InitType == Init => TypeOK
<1> SUFFICES ASSUME Init PROVE TypeOK
  OBVIOUS
<1>1. 0 \in Targets /\ HubCount \in Nat
  BY SizesAssumption DEF Targets
<1>2. <<>> \in Seq(Frames) /\ <<>> \in Seq(Messages) /\ Len(<<>>) = 0
  OBVIOUS
<1>3. 0 <= ReqCap /\ 0 <= OutCap /\ 0 <= InCap
  BY SizesAssumption
<1>4. Len(outFrames) + (IF permit THEN 1 ELSE 0) <= OutCap
  BY <1>2, <1>3 DEF Init
<1>5. /\ pc \in [Calls -> {"idle", "sending", "waiting", "done"}]
      /\ attempt \in [Calls -> Targets] /\ start \in [Calls -> Targets]
      /\ dispatched \in [Calls -> Nat] /\ slot \in [Calls -> Messages \cup {None}]
      /\ outcome \in [Calls -> {"none", "ok", "too_large", "gone", "timeout",
                                "reply", "cancelled"}]
  BY <1>1 DEF Init
<1>6. /\ requests \in Seq(Frames) /\ Len(requests) <= ReqCap
      /\ outFrames \in Seq(Frames)
      /\ inbound \in Seq(Messages) /\ Len(inbound) <= InCap
  BY <1>2, <1>3 DEF Init
<1> QED BY <1>1, <1>4, <1>5, <1>6 DEF Init, TypeOK

(* The steps of a call write its own entries and the request channel.      *)
LEMMA CallType ==
  ASSUME TypeOK, NEW c \in Calls, Call(c)
  PROVE  TypeOK'
<1> USE DEF callVars, loopVars, envVars, chanVars
<1>1. Target(c) \in Targets /\ Current(c) \in Nonces
  BY TargetType
<1>2. attempt[c] \in Targets /\ cursor \in Targets /\ cursor + 1 \in Nat
  BY DEF TypeOK, Targets
<1>3. (cursor + 1) % HubCount \in Targets
  BY <1>2, ModuloIsTarget
<1>4. [nonce |-> Current(c), target |-> Target(c)] \in Frames
  BY <1>1 DEF Frames
<1>5. CASE StartSubmit(c)
  BY <1>5 DEF StartSubmit, Finish, TypeOK
<1>6. CASE StartLookup(c)
  BY <1>6, <1>2, <1>3 DEF StartLookup, Finish, TypeOK
<1>7. CASE SendSubmit(c)
  <2>1. requests' \in Seq(Frames) /\ Len(requests') <= ReqCap
    BY <1>7, <1>4, SizesAssumption DEF SendSubmit, TypeOK
  <2>2. attempt' \in [Calls -> Targets]
    BY <1>7, <1>2, NextTarget DEF SendSubmit, TypeOK
  <2>3. /\ pc' \in [Calls -> {"idle", "sending", "waiting", "done"}]
        /\ outcome' \in [Calls -> {"none", "ok", "too_large", "gone", "timeout",
                                   "reply", "cancelled"}]
    BY <1>7 DEF SendSubmit, Finish, TypeOK
  <2>4. dispatched' \in [Calls -> Nat] /\ handed' \in SUBSET Frames
    BY <1>7, <1>4 DEF SendSubmit, TypeOK
  <2> QED BY <1>7, <2>1, <2>2, <2>3, <2>4 DEF SendSubmit, TypeOK
<1>8. CASE SendLookup(c)
  <2>1. requests' \in Seq(Frames) /\ Len(requests') <= ReqCap
    BY <1>8, <1>4, SizesAssumption DEF SendLookup, TypeOK
  <2> QED BY <1>8, <1>4, <2>1 DEF SendLookup, TypeOK
<1>9. CASE BreakSubmit(c)
  BY <1>9 DEF BreakSubmit, Verdict, Finish, TypeOK
<1>10. CASE LookupUnaccepted(c)
  BY <1>10, <1>2, NextTarget DEF LookupUnaccepted, NextAddress, Finish, TypeOK
<1>11. CASE LookupUnanswered(c)
  BY <1>11, <1>2, NextTarget DEF LookupUnanswered, NextAddress, Finish, TypeOK
<1>12. CASE LookupGone(c)
  BY <1>12 DEF LookupGone, Finish, TypeOK
<1>13. CASE LookupAnswered(c)
  BY <1>13 DEF LookupAnswered, Finish, TypeOK
<1>14. CASE Cancel(c)
  BY <1>14 DEF Cancel, Finish, TypeOK
<1> QED
  BY <1>5, <1>6, <1>7, <1>8, <1>9, <1>10, <1>11, <1>12, <1>13, <1>14
  DEF Call, CallStep

(* The arms of the loop end their turn with Settle, or end the loop.       *)
LEMMA LoopType ==
  ASSUME TypeOK, Loop
  PROVE  TypeOK'
<1> USE DEF callVars, envVars, chanVars
<1>1. pending \in SUBSET Nonces /\ permit \in BOOLEAN /\ requestsOpen \in BOOLEAN
  BY DEF TypeOK
<1>9. ASSUME Stop, UNCHANGED <<callVars, envVars, outFrames, inbound>>
      PROVE  TypeOK'
  <2>1. /\ requests' \in Seq(Frames) /\ Len(requests') <= ReqCap
        /\ pending' \in SUBSET Nonces /\ inflight' \in Nat
        /\ transport' \in {"running", "stopped"} /\ permit' = FALSE
    BY <1>9, SizesAssumption DEF Stop
  <2>2. Len(outFrames) \in Nat /\ Len(outFrames) <= OutCap
    BY SizesAssumption DEF TypeOK
  <2>3. Len(outFrames') + (IF permit' THEN 1 ELSE 0) <= OutCap
    BY <1>9, <2>1, <2>2
  <2> QED BY <1>9, <2>1, <2>3 DEF Stop, TypeOK
<1>2. CASE Reserve
  <2>1. Settle(pending, TRUE, TRUE)
    BY <1>2 DEF Reserve
  <2>2. Len(outFrames) + 1 <= OutCap
    BY <1>2, SizesAssumption DEF Reserve, TypeOK
  <2> QED BY <1>1, <1>2, <2>1, <2>2, SettleType DEF Reserve, TypeOK
<1>3. CASE ReserveFails
  BY <1>3, <1>9 DEF ReserveFails
<1>4. CASE Accept
  <2>1. HandOver /\ Settle(pending \cup {Head(requests).nonce}, TRUE, FALSE)
    BY <1>4 DEF Accept
  <2>2. /\ requests \in Seq(Frames) /\ requests # <<>> /\ permit
        /\ requests' = Tail(requests)
    BY <2>1 DEF HandOver, TypeOK
  <2>3. Head(requests) \in Frames /\ requests' \in Seq(Frames)
        /\ Len(requests') = Len(requests) - 1
    BY <2>2, ElementsTail
  <2>4. pending \cup {Head(requests).nonce} \in SUBSET Nonces
    BY <1>1, <2>3 DEF Frames
  <2>5. outFrames' \in Seq(Frames) /\ Len(outFrames') <= OutCap
    BY <2>1, <2>2, <2>3, SizesAssumption DEF HandOver, TypeOK
  <2>6. Len(requests') <= ReqCap
    BY <2>2, <2>3, SizesAssumption DEF TypeOK
  <2>7. /\ pending' \in SUBSET Nonces /\ inflight' \in Nat /\ requestsOpen' \in BOOLEAN
        /\ transport' \in {"running", "stopped"} /\ permit' = FALSE
    BY <2>1, <2>4, SettleType
  <2>8. Len(outFrames') + (IF permit' THEN 1 ELSE 0) <= OutCap
    BY <2>5, <2>7
  <2> QED BY <2>1, <2>3, <2>5, <2>6, <2>7, <2>8 DEF HandOver, TypeOK
<1>5. CASE RequestsClosed
  <2>1. Settle(pending, FALSE, TRUE) /\ permit
    BY <1>5 DEF RequestsClosed, NoticeClose
  <2>2. /\ pending' \in SUBSET Nonces /\ inflight' \in Nat /\ requestsOpen' \in BOOLEAN
        /\ transport' \in {"running", "stopped"} /\ permit' \in BOOLEAN
    BY <2>1, <1>1, SettleType
  <2>3. UNCHANGED <<callVars, envVars, chanVars>>
    BY <1>5 DEF RequestsClosed, NoticeClose
  <2> QED BY <2>1, <2>2, <2>3, SizesAssumption DEF TypeOK
<1>6. CASE Receive
  <2> DEFINE m == Head(inbound)
  <2>1. Deliver(m) /\ inbound # <<>> /\ inbound \in Seq(Messages)
    BY <1>6 DEF Receive, TypeOK
  <2>2. m \in Messages /\ inbound' \in Seq(Messages) /\ Len(inbound') = Len(inbound) - 1
    BY <2>1, ElementsTail DEF Deliver
  <2> HIDE DEF m
  <2>3. Settle(StillRegistered(m), requestsOpen, permit)
    BY <2>1 DEF Deliver
  <2>4. StillRegistered(m) \in SUBSET Nonces
    BY <1>1 DEF StillRegistered
  <2>5. /\ pending' \in SUBSET Nonces /\ inflight' \in Nat /\ requestsOpen' \in BOOLEAN
        /\ transport' \in {"running", "stopped"} /\ permit' \in BOOLEAN
        /\ (permit' => permit)
    BY <1>1, <2>3, <2>4, SettleType
  <2>6. slot' \in [Calls -> Messages \cup {None}]
    BY <2>1, <2>2 DEF Deliver, TypeOK
  <2>7. Len(inbound') <= InCap
    BY <2>1, <2>2, SizesAssumption DEF TypeOK
  <2> QED BY <2>1, <2>2, <2>5, <2>6, <2>7, SizesAssumption DEF Deliver, TypeOK
<1>7. CASE InboundClosed
  BY <1>7, <1>9 DEF InboundClosed
<1>8. CASE Sweep
  <2>1. Settle(pending, requestsOpen, permit) /\ UNCHANGED <<callVars, envVars, chanVars>>
    BY <1>8 DEF Sweep
  <2>2. /\ pending' \in SUBSET Nonces /\ inflight' \in Nat /\ requestsOpen' \in BOOLEAN
        /\ transport' \in {"running", "stopped"} /\ permit' \in BOOLEAN
        /\ (permit' => permit)
    BY <2>1, <1>1, SettleType
  <2> QED BY <2>1, <2>2, SizesAssumption DEF TypeOK
<1> QED BY <1>2, <1>3, <1>4, <1>5, <1>6, <1>7, <1>8 DEF Loop

LEMMA EnvironmentType ==
  ASSUME TypeOK, Environment
  PROVE  TypeOK'
<1> USE DEF callVars, loopVars, chanVars, envVars
<1>1. CASE DropHandles
  BY <1>1 DEF DropHandles, TypeOK
<1>2. CASE PublishTargets
  BY <1>2 DEF PublishTargets, TypeOK
<1>3. CASE DriverSends
  <2>1. outFrames \in Seq(Frames) /\ outFrames # <<>>
    BY <1>3 DEF DriverSends, TypeOK
  <2>2. Head(outFrames) \in Frames /\ outFrames' \in Seq(Frames)
        /\ Len(outFrames') = Len(outFrames) - 1
    BY <1>3, <2>1, ElementsTail DEF DriverSends
  <2>3. Len(outFrames) \in Nat
    BY <2>1
  <2> QED BY <1>3, <2>2, <2>3, SizesAssumption DEF DriverSends, TypeOK
<1>4. CASE DriverStops
  <2>1. <<>> \in Seq(Frames) /\ Len(<<>>) = 0
    OBVIOUS
  <2> QED BY <1>4, <2>1, SizesAssumption DEF DriverStops, TypeOK
<1>5. ASSUME NEW f \in sent, NEW kind \in {"ack", "reply", "junk"}, HubAnswers(f, kind)
      PROVE  TypeOK'
  <2>1. f \in Frames
    BY DEF TypeOK
  <2>2. [kind |-> kind, nonce |-> f.nonce, from |-> f.target] \in Messages
    BY <2>1 DEF Frames, Messages
  <2>3. inbound' \in Seq(Messages) /\ Len(inbound') <= InCap
    BY <1>5, <2>2, SizesAssumption DEF HubAnswers, TypeOK
  <2> QED BY <1>5, <2>3 DEF HubAnswers, TypeOK
<1> QED BY <1>1, <1>2, <1>3, <1>4, <1>5 DEF Environment

LEMMA NextType == TypeOK /\ [Next]_vars => TypeOK'
<1> SUFFICES ASSUME TypeOK, [Next]_vars PROVE TypeOK'
  OBVIOUS
<1>1. CASE UNCHANGED vars
  BY <1>1 DEF vars, callVars, loopVars, envVars, chanVars, TypeOK
<1> QED BY <1>1, CallType, LoopType, EnvironmentType DEF Next

(* Type correctness of the transport, capacities of its channels included.  *)
THEOREM TypeCorrect == Spec => []TypeOK
  BY InitType, NextType, PTL DEF Spec

-----------------------------------------------------------------------------
(* What the steps of each task leave alone                                 *)

(* A call writes its own entries only.                                     *)
LEMMA CallFrame ==
  ASSUME TypeOK, NEW c \in Calls, Call(c)
  PROVE  /\ UNCHANGED <<slot, loopVars, envVars, outFrames, inbound>>
         /\ \A d \in Calls \ {c} :
               /\ pc'[d] = pc[d] /\ outcome'[d] = outcome[d]
               /\ dispatched'[d] = dispatched[d]
               /\ attempt'[d] = attempt[d] /\ start'[d] = start[d]
<1> USE DEF TypeOK, Finish, NextAddress, loopVars, envVars, chanVars
<1>1. CASE StartSubmit(c)       BY <1>1 DEF StartSubmit
<1>2. CASE StartLookup(c)       BY <1>2 DEF StartLookup
<1>3. CASE SendSubmit(c)        BY <1>3 DEF SendSubmit
<1>4. CASE SendLookup(c)        BY <1>4 DEF SendLookup
<1>5. CASE BreakSubmit(c)       BY <1>5 DEF BreakSubmit
<1>6. CASE LookupUnaccepted(c)  BY <1>6 DEF LookupUnaccepted
<1>7. CASE LookupUnanswered(c)  BY <1>7 DEF LookupUnanswered
<1>8. CASE LookupGone(c)        BY <1>8 DEF LookupGone
<1>9. CASE LookupAnswered(c)    BY <1>9 DEF LookupAnswered
<1>10. CASE Cancel(c)           BY <1>10 DEF Cancel
<1> QED
  BY <1>1, <1>2, <1>3, <1>4, <1>5, <1>6, <1>7, <1>8, <1>9, <1>10 DEF Call, CallStep

(* The only way a call touches the request channel is to hand over the      *)
(* frame of its current attempt.                                           *)
CurrentFrame(c) == [nonce |-> Current(c), target |-> Target(c)]

LEMMA CallHandsOver ==
  ASSUME NEW c \in Calls, Call(c)
  PROVE  \/ UNCHANGED <<requests, handed>>
         \/ /\ SendSubmit(c) \/ SendLookup(c)
            /\ requests' = Append(requests, CurrentFrame(c))
            /\ handed' = handed \cup {CurrentFrame(c)}
<1> USE DEF callVars, chanVars, CurrentFrame
<1>1. CASE StartSubmit(c)       BY <1>1 DEF StartSubmit
<1>2. CASE StartLookup(c)       BY <1>2 DEF StartLookup
<1>3. CASE SendSubmit(c)        BY <1>3 DEF SendSubmit
<1>4. CASE SendLookup(c)        BY <1>4 DEF SendLookup
<1>5. CASE BreakSubmit(c)       BY <1>5 DEF BreakSubmit
<1>6. CASE LookupUnaccepted(c)  BY <1>6 DEF LookupUnaccepted
<1>7. CASE LookupUnanswered(c)  BY <1>7 DEF LookupUnanswered
<1>8. CASE LookupGone(c)        BY <1>8 DEF LookupGone
<1>9. CASE LookupAnswered(c)    BY <1>9 DEF LookupAnswered
<1>10. CASE Cancel(c)           BY <1>10 DEF Cancel
<1> QED
  BY <1>1, <1>2, <1>3, <1>4, <1>5, <1>6, <1>7, <1>8, <1>9, <1>10 DEF Call, CallStep

(* The loop writes no call but through a oneshot, and the environment       *)
(* writes neither calls nor the loop.                                      *)
LEMMA LoopFrame ==
  ASSUME Loop
  PROVE  /\ UNCHANGED <<pc, attempt, start, dispatched, outcome, cursor, handed, envVars>>
         /\ (~Receive => UNCHANGED <<slot, inbound>>)
         /\ requests' \in {requests, Tail(requests), <<>>}
<1> USE DEF callVars, envVars, chanVars
<1>1. CASE Reserve        BY <1>1 DEF Reserve
<1>2. CASE ReserveFails   BY <1>2 DEF ReserveFails, Stop
<1>3. CASE Accept         BY <1>3 DEF Accept, HandOver
<1>4. CASE RequestsClosed BY <1>4 DEF RequestsClosed, NoticeClose
<1>5. CASE Receive        BY <1>5 DEF Receive, Deliver
<1>6. CASE InboundClosed  BY <1>6 DEF InboundClosed, Stop
<1>7. CASE Sweep          BY <1>7 DEF Sweep
<1> QED BY <1>1, <1>2, <1>3, <1>4, <1>5, <1>6, <1>7 DEF Loop

LEMMA EnvironmentFrame ==
  ASSUME Environment
  PROVE  UNCHANGED <<callVars, loopVars, requests>> /\ sent \subseteq sent'
<1> USE DEF envVars, chanVars
<1>1. CASE DropHandles    BY <1>1 DEF DropHandles
<1>2. CASE PublishTargets BY <1>2 DEF PublishTargets
<1>3. CASE DriverSends    BY <1>3 DEF DriverSends
<1>4. CASE DriverStops    BY <1>4 DEF DriverStops
<1>5. ASSUME NEW f \in sent, NEW kind \in {"ack", "reply", "junk"}, HubAnswers(f, kind)
      PROVE  UNCHANGED <<callVars, loopVars, requests>> /\ sent \subseteq sent'
  BY <1>5 DEF HubAnswers
<1> QED BY <1>1, <1>2, <1>3, <1>4, <1>5 DEF Environment

(* The attempt of a call whose entries do not change is the same one.      *)
LEMMA SameAttempt ==
  ASSUME NEW c \in Calls, attempt'[c] = attempt[c], start'[c] = start[c]
  PROVE  Target(c)' = Target(c) /\ Current(c)' = Current(c)
  BY DEF Target, Current, FreshNonce

-----------------------------------------------------------------------------
(* The channels                                                            *)

LEMMA FramesStep ==
  ASSUME TypeOK, FramesAreFresh, OnlyHandedTravels, [Next]_vars
  PROVE  FramesAreFresh' /\ OnlyHandedTravels'
<1>1. requests \in Seq(Frames) /\ outFrames \in Seq(Frames)
  BY DEF TypeOK
<1>2. ASSUME NEW c \in Calls, Call(c)
      PROVE  FramesAreFresh' /\ OnlyHandedTravels'
  <2>1. UNCHANGED <<sent, outFrames>>
    BY <1>2, CallFrame DEF envVars
  <2>2. CASE UNCHANGED <<requests, handed>>
    BY <2>1, <2>2 DEF FramesAreFresh, OnlyHandedTravels, FreshNonce, Elements
  <2>3. CASE /\ requests' = Append(requests, CurrentFrame(c))
             /\ handed' = handed \cup {CurrentFrame(c)}
    <3>1. CurrentFrame(c) \in Frames
      BY TargetType DEF CurrentFrame, Frames
    <3>2. Elements(requests)' = Elements(requests) \cup {CurrentFrame(c)}
      BY <1>1, <2>3, <3>1, ElementsAppend
    <3>3. CurrentFrame(c).nonce = FreshNonce(CurrentFrame(c).nonce[1], CurrentFrame(c).target)
      BY DEF CurrentFrame, Current, FreshNonce
    <3>4. Elements(outFrames)' = Elements(outFrames)
      BY <2>1 DEF Elements
    <3>5. OnlyHandedTravels'
      BY <2>1, <2>3, <3>2, <3>4 DEF OnlyHandedTravels
    <3>6. FramesAreFresh'
      BY <2>3, <3>3 DEF FramesAreFresh, FreshNonce
    <3> QED BY <3>5, <3>6
  <2> QED BY <1>2, <2>2, <2>3, CallHandsOver
<1>3. CASE Loop
  <2>1. handed' = handed /\ sent' = sent
    BY <1>3, LoopFrame DEF envVars
  <2>2. CASE ReserveFails \/ InboundClosed
    BY <2>1, <2>2, ElementsEmpty
    DEF ReserveFails, InboundClosed, Stop, FramesAreFresh, OnlyHandedTravels, FreshNonce, Elements
  <2>3. CASE Accept
    <3>1. /\ requests # <<>> /\ requests' = Tail(requests)
          /\ outFrames' = outFrames \/ outFrames' = Append(outFrames, Head(requests))
      BY <2>3 DEF Accept, HandOver
    <3>2. /\ Head(requests) \in Frames
          /\ Elements(requests) = Elements(requests)' \cup {Head(requests)}
      BY <1>1, <3>1, ElementsTail
    <3>3. Elements(outFrames)' \subseteq Elements(outFrames) \cup {Head(requests)}
      <4>1. CASE outFrames' = outFrames  BY <4>1 DEF Elements
      <4>2. CASE outFrames' = Append(outFrames, Head(requests))
        BY <1>1, <3>2, <4>2, ElementsAppend
      <4> QED BY <3>1, <4>1, <4>2
    <3> QED BY <2>1, <3>2, <3>3 DEF FramesAreFresh, OnlyHandedTravels, FreshNonce
  <2>4. CASE Reserve \/ RequestsClosed \/ Receive \/ Sweep
    <3>1. UNCHANGED <<requests, outFrames>>
      BY <2>4 DEF Reserve, RequestsClosed, NoticeClose, Receive, Deliver, Sweep, chanVars
    <3> QED BY <2>1, <3>1 DEF FramesAreFresh, OnlyHandedTravels, FreshNonce, Elements
  <2> QED BY <1>3, <2>2, <2>3, <2>4 DEF Loop
<1>4. CASE Environment
  <2>1. handed' = handed /\ requests' = requests
    BY <1>4, EnvironmentFrame DEF callVars
  <2>2. CASE DriverSends
    <3>1. /\ outFrames # <<>> /\ outFrames' = Tail(outFrames)
          /\ sent' = sent \cup {Head(outFrames)}
      BY <2>2 DEF DriverSends
    <3>2. Elements(outFrames) = Elements(outFrames)' \cup {Head(outFrames)}
      BY <1>1, <3>1, ElementsTail
    <3> QED BY <2>1, <3>1, <3>2 DEF FramesAreFresh, OnlyHandedTravels, FreshNonce, Elements
  <2>3. CASE DriverStops
    BY <2>1, <2>3, ElementsEmpty
    DEF DriverStops, FramesAreFresh, OnlyHandedTravels, FreshNonce, Elements
  <2>4. CASE DropHandles \/ PublishTargets
             \/ \E f \in sent, kind \in {"ack", "reply", "junk"} : HubAnswers(f, kind)
    <3>1. UNCHANGED <<sent, outFrames>>
      BY <2>4 DEF DropHandles, PublishTargets, HubAnswers, chanVars, envVars
    <3> QED BY <2>1, <3>1 DEF FramesAreFresh, OnlyHandedTravels, FreshNonce, Elements
  <2> QED BY <1>4, <2>2, <2>3, <2>4 DEF Environment
<1>5. CASE UNCHANGED vars
  BY <1>5 DEF vars, callVars, envVars, chanVars, FramesAreFresh, OnlyHandedTravels,
              FreshNonce, Elements
<1> QED BY <1>2, <1>3, <1>4, <1>5 DEF Next

LEMMA AnswersStep ==
  ASSUME TypeOK, AnswersAreToSent, [Next]_vars
  PROVE  AnswersAreToSent'
<1>1. inbound \in Seq(Messages)
  BY DEF TypeOK
<1>2. ASSUME UNCHANGED inbound, sent \subseteq sent' PROVE AnswersAreToSent'
  BY <1>2 DEF AnswersAreToSent, Elements
<1>3. ASSUME NEW c \in Calls, Call(c) PROVE AnswersAreToSent'
  BY <1>2, <1>3, CallFrame DEF envVars
<1>4. CASE Loop
  <2>1. sent' = sent
    BY <1>4, LoopFrame DEF envVars
  <2>2. CASE Receive
    <3>1. inbound # <<>> /\ inbound' = Tail(inbound)
      BY <2>2 DEF Receive, Deliver
    <3>2. Elements(inbound)' \subseteq Elements(inbound)
      BY <1>1, <3>1, ElementsTail
    <3> QED BY <2>1, <3>2 DEF AnswersAreToSent
  <2> QED BY <1>2, <1>4, <2>1, <2>2, LoopFrame
<1>5. CASE Environment
  <2>1. sent \subseteq sent'
    BY <1>5, EnvironmentFrame
  <2>2. ASSUME NEW f \in sent, NEW kind \in {"ack", "reply", "junk"}, HubAnswers(f, kind)
        PROVE  AnswersAreToSent'
    <3> DEFINE m == [kind |-> kind, nonce |-> f.nonce, from |-> f.target]
    <3>1. f \in Frames /\ m \in Messages
      BY DEF TypeOK, Frames, Messages
    <3>2. Elements(inbound)' = Elements(inbound) \cup {m}
      BY <1>1, <2>2, <3>1, ElementsAppend DEF HubAnswers
    <3>3. [nonce |-> m.nonce, target |-> m.from] = f
      BY <3>1 DEF Frames
    <3> QED BY <2>1, <3>2, <3>3 DEF AnswersAreToSent
  <2>3. CASE DropHandles \/ PublishTargets \/ DriverSends \/ DriverStops
    BY <1>2, <2>1, <2>3 DEF DropHandles, PublishTargets, DriverSends, DriverStops, chanVars
  <2> QED BY <1>5, <2>2, <2>3 DEF Environment
<1>6. CASE UNCHANGED vars
  BY <1>2, <1>6 DEF vars, envVars, chanVars
<1> QED BY <1>3, <1>4, <1>5, <1>6 DEF Next

-----------------------------------------------------------------------------
(* The oneshots and the waiters                                            *)

(* A call moves to another attempt only while its oneshot is empty.        *)
LEMMA FilledSlotStays ==
  ASSUME TypeOK, SlotsAreCurrent, NEW c \in Calls, Call(c), slot[c] # None
  PROVE  /\ pc'[c] \in {"waiting", "done"}
         /\ attempt'[c] = attempt[c] /\ start'[c] = start[c]
<1>1. pc[c] \in {"waiting", "done"} /\ c \in Lookups /\ c \notin Submits
  BY CallsAssumption DEF SlotsAreCurrent
<1>2. CASE LookupAnswered(c)
  BY <1>1, <1>2 DEF LookupAnswered, Finish, TypeOK
<1>3. CASE LookupGone(c)
  BY <1>1, <1>3 DEF LookupGone
<1>4. CASE Cancel(c)
  BY <1>1, <1>4 DEF Cancel, Finish, TypeOK
<1> QED
  BY <1>1, <1>2, <1>3, <1>4
  DEF Call, CallStep, StartSubmit, StartLookup, SendSubmit, SendLookup, BreakSubmit,
      LookupUnaccepted, LookupUnanswered

LEMMA SlotsStep ==
  ASSUME TypeOK, AnswersAreToSent, SlotsAreCurrent, [Next]_vars
  PROVE  SlotsAreCurrent'
<1>1. ASSUME NEW c \in Calls, slot'[c] # None, slot'[c] = slot[c], sent \subseteq sent',
             pc'[c] \in {"waiting", "done"},
             attempt'[c] = attempt[c], start'[c] = start[c]
      PROVE  /\ pc'[c] \in {"waiting", "done"} /\ c \in Lookups
             /\ slot'[c].kind = "reply" /\ slot'[c].nonce = Current(c)'
             /\ [nonce |-> slot'[c].nonce, target |-> slot'[c].from] \in sent'
  BY <1>1, SameAttempt DEF SlotsAreCurrent
<1>2. ASSUME UNCHANGED <<slot, pc, attempt, start>>, sent \subseteq sent'
      PROVE  SlotsAreCurrent'
  BY <1>2, <1>1 DEF SlotsAreCurrent
<1>3. ASSUME NEW d \in Calls, Call(d) PROVE SlotsAreCurrent'
  <2> SUFFICES ASSUME NEW c \in Calls, slot'[c] # None
               PROVE  /\ pc'[c] \in {"waiting", "done"} /\ c \in Lookups
                      /\ slot'[c].kind = "reply" /\ slot'[c].nonce = Current(c)'
                      /\ [nonce |-> slot'[c].nonce, target |-> slot'[c].from] \in sent'
    BY DEF SlotsAreCurrent
  <2>1. slot'[c] = slot[c] /\ sent' = sent
    BY <1>3, CallFrame DEF envVars
  <2>2. pc'[c] \in {"waiting", "done"} /\ attempt'[c] = attempt[c] /\ start'[c] = start[c]
    <3>1. CASE c = d   BY <1>3, <2>1, <3>1, FilledSlotStays
    <3>2. CASE c # d   BY <1>3, <2>1, <3>2, CallFrame DEF SlotsAreCurrent
    <3> QED BY <3>1, <3>2
  <2> QED BY <1>1, <2>1, <2>2
<1>4. CASE Loop
  <2>1. UNCHANGED <<pc, attempt, start, sent>>
    BY <1>4, LoopFrame DEF envVars
  <2>2. CASE ~Receive
    BY <1>2, <1>4, <2>1, <2>2, LoopFrame
  <2>3. CASE Receive
    <3> DEFINE m == Head(inbound)
    <3>1. /\ inbound # <<>> /\ inbound \in Seq(Messages)
          /\ slot' = IF Matches(m) /\ Listening(m.nonce)
                     THEN [slot EXCEPT ![m.nonce[1]] = m] ELSE slot
      BY <2>3 DEF Receive, Deliver, TypeOK
    <3>2. m \in Messages /\ m \in Elements(inbound)
      BY <3>1, ElementsTail
    <3>3. [nonce |-> m.nonce, target |-> m.from] \in sent
      BY <3>2 DEF AnswersAreToSent
    <3> HIDE DEF m
    <3>4. CASE slot' = slot
      BY <1>2, <2>1, <3>4
    <3>5. CASE Matches(m) /\ Listening(m.nonce)
      <4> DEFINE d == m.nonce[1]
      <4>1. /\ d \in Lookups /\ pc[d] = "waiting" /\ m.nonce = Current(d)
            /\ m.kind = "reply" /\ slot' = [slot EXCEPT ![d] = m]
        BY <3>1, <3>5, CallsAssumption DEF Matches, Listening
      <4> HIDE DEF d
      <4>2. d \in Calls /\ slot \in [Calls -> Messages \cup {None}]
        BY <4>1 DEF Calls, TypeOK
      <4> SUFFICES ASSUME NEW c \in Calls, slot'[c] # None
                   PROVE  /\ pc'[c] \in {"waiting", "done"} /\ c \in Lookups
                          /\ slot'[c].kind = "reply" /\ slot'[c].nonce = Current(c)'
                          /\ [nonce |-> slot'[c].nonce, target |-> slot'[c].from] \in sent'
        BY DEF SlotsAreCurrent
      <4>3. Current(c)' = Current(c)
        BY <2>1, SameAttempt
      <4>4. CASE c = d
        BY <2>1, <3>3, <4>1, <4>2, <4>3, <4>4
      <4>5. CASE c # d
        <5>1. slot'[c] = slot[c]
          BY <4>1, <4>2, <4>5
        <5> QED BY <2>1, <4>3, <5>1 DEF SlotsAreCurrent
      <4> QED BY <4>4, <4>5
    <3> QED BY <3>1, <3>4, <3>5
  <2> QED BY <2>2, <2>3
<1>5. CASE Environment
  BY <1>2, <1>5, EnvironmentFrame DEF callVars
<1>6. CASE UNCHANGED vars
  BY <1>2, <1>6 DEF vars, callVars, envVars
<1> QED BY <1>3, <1>4, <1>5, <1>6 DEF Next

(* A call starts to wait by handing its frame over, and stays on that       *)
(* attempt for as long as it waits.                                        *)
LEMMA WaitingStep ==
  ASSUME TypeOK, NEW c \in Lookups, Call(c), pc'[c] = "waiting"
  PROVE  SendLookup(c)
<1>1. c \in Calls /\ c \notin Submits
  BY CallsAssumption DEF Calls
<1> QED
  BY <1>1
  DEF Call, CallStep, StartSubmit, StartLookup, SendSubmit, SendLookup, BreakSubmit,
      LookupUnaccepted, LookupUnanswered, LookupGone, LookupAnswered, Cancel,
      NextAddress, Finish, TypeOK

LEMMA WaitersStep ==
  ASSUME TypeOK, WaitersAreRegistered, [Next]_vars
  PROVE  WaitersAreRegistered'
<1> SUFFICES ASSUME NEW c \in Lookups, pc'[c] = "waiting", slot'[c] = None,
                    transport' = "running"
             PROVE  Current(c)' \in pending' \cup QueuedNonces'
  BY DEF WaitersAreRegistered
<1>1. c \in Calls /\ requests \in Seq(Frames)
  BY DEF Calls, TypeOK
<1>2. ASSUME UNCHANGED <<pc, attempt, start, slot, transport, pending, requests>>
      PROVE  Current(c)' \in pending' \cup QueuedNonces'
  BY <1>1, <1>2, SameAttempt DEF WaitersAreRegistered, QueuedNonces, Elements
<1>3. ASSUME NEW d \in Calls, Call(d)
      PROVE  Current(c)' \in pending' \cup QueuedNonces'
  <2>1. UNCHANGED <<slot, transport, pending>>
    BY <1>3, CallFrame DEF loopVars
  <2>2. QueuedNonces \subseteq QueuedNonces'
    <3>1. CASE requests' = requests   BY <3>1 DEF QueuedNonces, Elements
    <3>2. CASE requests' = Append(requests, CurrentFrame(d))
      <4>1. CurrentFrame(d) \in Frames
        BY TargetType DEF CurrentFrame, Frames
      <4> QED BY <1>1, <3>2, <4>1, ElementsAppend DEF QueuedNonces
    <3> QED BY <1>3, <3>1, <3>2, CallHandsOver
  <2>3. CASE c # d
    <3>1. pc[c] = "waiting" /\ Current(c)' = Current(c)
      BY <1>1, <1>3, <2>3, CallFrame, SameAttempt
    <3> QED BY <2>1, <2>2, <3>1 DEF WaitersAreRegistered
  <2>4. CASE c = d
    <3>1. SendLookup(c)
      BY <1>3, <2>4, WaitingStep
    <3>2. requests' = Append(requests, CurrentFrame(c)) /\ UNCHANGED <<attempt, start>>
      BY <3>1 DEF SendLookup, CurrentFrame
    <3>3. CurrentFrame(c) \in Frames
      BY <1>1, TargetType DEF CurrentFrame, Frames
    <3>4. CurrentFrame(c) \in Elements(requests)'
      BY <1>1, <3>2, <3>3, ElementsAppend
    <3>5. Current(c)' = CurrentFrame(c).nonce
      BY <1>1, <3>2, SameAttempt DEF CurrentFrame
    <3> QED BY <3>4, <3>5 DEF QueuedNonces
  <2> QED BY <2>3, <2>4
<1>4. CASE Loop
  <2>1. UNCHANGED <<pc, attempt, start>> /\ Current(c)' = Current(c)
    BY <1>1, <1>4, LoopFrame, SameAttempt
  <2>2. /\ Current(c) \in Nonces /\ pending \in SUBSET Nonces
        /\ permit \in BOOLEAN /\ requestsOpen \in BOOLEAN
    BY <1>1, TargetType DEF TypeOK
  <2>3. Listening(Current(c))
    BY <2>1 DEF Listening, Current, FreshNonce
  <2>4. CASE Reserve \/ Sweep \/ RequestsClosed
    <3>1. /\ UNCHANGED <<slot, requests>> /\ transport = "running"
          /\ \/ Settle(pending, TRUE, TRUE) \/ Settle(pending, FALSE, TRUE)
             \/ Settle(pending, requestsOpen, permit)
      BY <2>4 DEF Reserve, Sweep, RequestsClosed, NoticeClose, callVars, chanVars
    <3>2. Current(c) \in pending \cup QueuedNonces
      BY <2>1, <3>1 DEF WaitersAreRegistered
    <3>3. Current(c) \in pending => Current(c) \in pending'
      BY <2>2, <2>3, <3>1, SettleType
    <3> QED BY <2>1, <3>1, <3>2, <3>3 DEF QueuedNonces, Elements
  <2>5. CASE ReserveFails \/ InboundClosed
    BY <2>5 DEF ReserveFails, InboundClosed, Stop
  <2>6. CASE Accept
    <3>1. /\ requests # <<>> /\ requests' = Tail(requests)
          /\ UNCHANGED slot /\ transport = "running"
          /\ Settle(pending \cup {Head(requests).nonce}, TRUE, FALSE)
      BY <2>6 DEF Accept, HandOver, callVars
    <3>2. /\ Head(requests) \in Frames
          /\ Elements(requests) = Elements(requests)' \cup {Head(requests)}
      BY <1>1, <3>1, ElementsTail
    <3>3. Current(c) \in pending \cup {Head(requests).nonce} \cup QueuedNonces'
      BY <2>1, <3>1, <3>2 DEF WaitersAreRegistered, QueuedNonces
    <3>4. pending \cup {Head(requests).nonce} \in SUBSET Nonces
      BY <2>2, <3>2 DEF Frames
    <3> QED BY <2>1, <2>2, <2>3, <3>1, <3>3, <3>4, SettleType
  <2>7. CASE Receive
    <3> DEFINE m == Head(inbound)
    <3>1. /\ inbound # <<>> /\ inbound \in Seq(Messages)
          /\ slot' = IF Matches(m) /\ Listening(m.nonce)
                     THEN [slot EXCEPT ![m.nonce[1]] = m] ELSE slot
          /\ Settle(StillRegistered(m), requestsOpen, permit)
          /\ UNCHANGED requests /\ transport = "running"
      BY <2>7 DEF Receive, Deliver, TypeOK
    <3>2. m \in Messages
      BY <3>1, ElementsTail
    <3> HIDE DEF m
    <3>3. slot \in [Calls -> Messages \cup {None}]
      BY DEF TypeOK
    <3>4. ~(Matches(m) /\ m.nonce = Current(c)) /\ slot[c] = None
      <4>1. CASE Matches(m) /\ Listening(m.nonce)
        <5>1. m.nonce[1] \in Calls /\ slot' = [slot EXCEPT ![m.nonce[1]] = m]
          BY <3>1, <4>1 DEF Listening, Calls
        <5>2. slot'[m.nonce[1]] = m /\ m # None
          BY <3>2, <3>3, <5>1, NoneAssumption
        <5>3. c # m.nonce[1]
          BY <5>2
        <5>4. m.nonce # Current(c) /\ slot'[c] = slot[c]
          BY <1>1, <3>3, <5>1, <5>3 DEF Current, FreshNonce
        <5> QED BY <5>4
      <4>2. CASE ~(Matches(m) /\ Listening(m.nonce))
        BY <2>3, <3>1, <4>2
      <4> QED BY <4>1, <4>2
    <3>5. Current(c) \in StillRegistered(m) \cup QueuedNonces
      BY <2>1, <3>1, <3>4 DEF WaitersAreRegistered, StillRegistered
    <3>6. StillRegistered(m) \in SUBSET Nonces
      BY <2>2 DEF StillRegistered
    <3>7. Current(c) \in StillRegistered(m) => Current(c) \in pending'
      BY <2>2, <2>3, <3>1, <3>6, SettleType
    <3> QED BY <2>1, <3>1, <3>5, <3>7 DEF QueuedNonces, Elements
  <2> QED BY <1>4, <2>4, <2>5, <2>6, <2>7 DEF Loop
<1>5. CASE Environment
  BY <1>2, <1>5, EnvironmentFrame DEF callVars, loopVars
<1>6. CASE UNCHANGED vars
  BY <1>2, <1>6 DEF vars, callVars, loopVars, chanVars
<1> QED BY <1>3, <1>4, <1>5, <1>6 DEF Next
-----------------------------------------------------------------------------
(* The verdicts                                                            *)

(* A hand-over adds a frame of the call that makes it, and of no other.     *)
LEMMA HandedByStep ==
  ASSUME NEW c \in Calls, Call(c), NEW d \in Calls
  PROVE  /\ d # c => HandedBy(d)' = HandedBy(d)
         /\ ~(SendSubmit(c) \/ SendLookup(c)) => HandedBy(d)' = HandedBy(d)
         /\ (SendSubmit(c) \/ SendLookup(c)) => HandedBy(c)' # {}
<1>1. CurrentFrame(c).nonce[1] = c
  BY DEF CurrentFrame, Current, FreshNonce
<1>2. CASE UNCHANGED handed /\ ~(SendSubmit(c) \/ SendLookup(c))
  BY <1>2 DEF HandedBy
<1>3. CASE handed' = handed \cup {CurrentFrame(c)}
  BY <1>1, <1>3, CallHandsOver DEF HandedBy
<1>4. CASE SendSubmit(c) \/ SendLookup(c)
  <2>1. handed' = handed \cup {CurrentFrame(c)}
    BY <1>4 DEF SendSubmit, SendLookup, CurrentFrame
  <2> QED BY <1>3, <1>4, <2>1, <1>1 DEF HandedBy
<1> QED BY <1>2, <1>3, <1>4, CallHandsOver

(* The count, the hand-offs and the verdict of one call stay in step.       *)
Accounted(c) ==
    /\ pc[c] = "idle" => HandedBy(c) = {}
    /\ outcome[c] # "none" => pc[c] = "done"
    /\ c \in Submits => (dispatched[c] > 0 <=> HandedBy(c) # {})
    /\ c \in Oversize => HandedBy(c) = {} /\ pc[c] \in {"idle", "done"}
    /\ c \in Submits =>
        /\ outcome[c] = "ok" => HandedBy(c) # {}
        /\ outcome[c] \in {"gone", "too_large"} => HandedBy(c) = {}

LEMMA AllAccounted ==
  HandOffsAreCounted /\ VerdictMatchesHandOff <=> \A c \in Calls : Accounted(c)
<1>1. Submits \subseteq Calls /\ Oversize \subseteq Calls
  BY CallsAssumption DEF Calls
<1>2. ASSUME HandOffsAreCounted, VerdictMatchesHandOff, NEW c \in Calls
      PROVE  Accounted(c)
  BY <1>2, Zenon DEF HandOffsAreCounted, VerdictMatchesHandOff, Accounted
<1>3. ASSUME \A c \in Calls : Accounted(c)
      PROVE  HandOffsAreCounted /\ VerdictMatchesHandOff
  BY <1>1, <1>3, Zenon DEF HandOffsAreCounted, VerdictMatchesHandOff, Accounted
<1> QED BY <1>2, <1>3

LEMMA AccountedStep ==
  ASSUME TypeOK, HandOffsAreCounted, VerdictMatchesHandOff, [Next]_vars
  PROVE  HandOffsAreCounted' /\ VerdictMatchesHandOff'
<1>0. \A c \in Calls : Accounted(c)
  BY AllAccounted
<1>1. ASSUME UNCHANGED <<pc, outcome, dispatched, handed>>
      PROVE  HandOffsAreCounted' /\ VerdictMatchesHandOff'
  BY <1>1 DEF HandOffsAreCounted, VerdictMatchesHandOff, HandedBy
<1>2. ASSUME NEW c \in Calls, Call(c), NEW d \in Calls PROVE Accounted(d)'
  <2>1. CASE d # c
    <3>1. HandedBy(d)' = HandedBy(d)
      BY <1>2, <2>1, HandedByStep
    <3> QED BY <1>0, <1>2, <2>1, <3>1, CallFrame DEF Accounted
  <2>2. CASE d = c
    <3> SUFFICES Accounted(c)'
      BY <2>2
    <3> USE DEF TypeOK, Finish, NextAddress
    <3>0. Accounted(c) /\ ~(c \in Submits /\ c \in Lookups) /\ (c \in Oversize => c \in Submits)
      BY <1>0, CallsAssumption
    <3>1. CASE SendSubmit(c)
      <4>1. HandedBy(c)' # {} /\ pc[c] = "sending" /\ dispatched'[c] = dispatched[c] + 1
        BY <1>2, <3>1, HandedByStep DEF SendSubmit
      <4>2. dispatched[c] \in Nat /\ c \notin Oversize
        BY <3>0, <4>1 DEF Accounted
      <4>3. CASE UNCHANGED <<pc, outcome>>
        BY <3>0, <4>1, <4>2, <4>3 DEF Accounted
      <4>4. CASE Finish(c, "ok")
        <5>1. pc'[c] = "done" /\ outcome'[c] = "ok"
          BY <4>4
        <5> QED BY <3>0, <4>1, <4>2, <5>1 DEF Accounted
      <4> QED BY <3>1, <4>3, <4>4 DEF SendSubmit
    <3>2. CASE SendLookup(c)
      <4>1. pc[c] = "sending" /\ pc'[c] = "waiting" /\ UNCHANGED outcome /\ c \in Lookups
        BY <3>2 DEF SendLookup
      <4> QED BY <3>0, <4>1 DEF Accounted
    <3>3. CASE ~(SendSubmit(c) \/ SendLookup(c))
      <4>1. HandedBy(c)' = HandedBy(c)
        BY <1>2, <3>3, HandedByStep
      <4>2. CASE StartSubmit(c)
        BY <3>0, <4>1, <4>2 DEF StartSubmit, Accounted
      <4>3. CASE StartLookup(c)
        BY <3>0, <4>1, <4>3 DEF StartLookup, Accounted
      <4>4. CASE BreakSubmit(c)
        BY <3>0, <4>1, <4>4 DEF BreakSubmit, Verdict, Accounted
      <4>5. CASE LookupUnaccepted(c)
        BY <3>0, <4>1, <4>5 DEF LookupUnaccepted, Accounted
      <4>6. CASE LookupUnanswered(c)
        <5>1. CASE c \in Lookups
          BY <3>0, <4>1, <4>6, <5>1 DEF LookupUnanswered, Accounted
        <5>2. CASE c \in Submits
          BY <3>0, <4>1, <4>6, <5>2 DEF LookupUnanswered, Accounted
        <5> QED BY <5>1, <5>2 DEF Calls
      <4>7. CASE LookupGone(c)
        BY <3>0, <4>1, <4>7 DEF LookupGone, Accounted
      <4>8. CASE LookupAnswered(c)
        BY <3>0, <4>1, <4>8 DEF LookupAnswered, Accounted
      <4>9. CASE Cancel(c)
        BY <3>0, <4>1, <4>9 DEF Cancel, Accounted
      <4> QED
        BY <1>2, <3>3, <4>2, <4>3, <4>4, <4>5, <4>6, <4>7, <4>8, <4>9 DEF Call, CallStep
    <3> QED BY <3>1, <3>2, <3>3
  <2> QED BY <2>1, <2>2
<1>3. ASSUME NEW c \in Calls, Call(c)
      PROVE  HandOffsAreCounted' /\ VerdictMatchesHandOff'
  <2>1. (\A d \in Calls : Accounted(d))'
    BY <1>2, <1>3
  <2>2. Submits \subseteq Calls /\ Oversize \subseteq Calls
    BY CallsAssumption DEF Calls
  <2> QED
    BY <2>1, <2>2, Zenon DEF HandOffsAreCounted, VerdictMatchesHandOff, Accounted
<1>4. CASE Loop         BY <1>1, <1>4, LoopFrame
<1>5. CASE Environment  BY <1>1, <1>5, EnvironmentFrame DEF callVars
<1>6. CASE UNCHANGED vars
  BY <1>1, <1>6 DEF vars, callVars
<1> QED BY <1>3, <1>4, <1>5, <1>6 DEF Next

(* Every arm of the loop needs the loop to run.                            *)
LEMMA LoopRuns == Loop => transport = "running"
  BY DEF Loop, Reserve, ReserveFails, Accept, HandOver, RequestsClosed, NoticeClose,
         Receive, InboundClosed, Sweep

LEMMA GoneStep ==
  ASSUME TypeOK, WaitersAreRegistered, HandOffsAreCounted, GoneMeansGone, [Next]_vars
  PROVE  GoneMeansGone'
<1> SUFFICES ASSUME NEW d \in Lookups, outcome'[d] = "gone", HandedBy(d)' # {}
             PROVE  transport' = "stopped"
  BY DEF GoneMeansGone
<1>0. d \in Calls /\ d \notin Submits
  BY CallsAssumption DEF Calls
<1>1. ASSUME outcome'[d] = outcome[d], HandedBy(d)' = HandedBy(d)
      PROVE  transport = "stopped"
  BY <1>1 DEF GoneMeansGone
<1>2. ASSUME UNCHANGED <<outcome, handed, transport>> PROVE transport' = "stopped"
  BY <1>1, <1>2 DEF HandedBy
<1>3. ASSUME NEW c \in Calls, Call(c) PROVE transport' = "stopped"
  <2>1. transport' = transport
    BY <1>3, CallFrame DEF loopVars
  <2>2. CASE c # d
    BY <1>0, <1>1, <1>3, <2>1, <2>2, CallFrame, HandedByStep
  <2>3. CASE c = d
    <3>1. CASE StartLookup(d)
      <4>1. HandedBy(d)' = {}
        BY <1>0, <3>1, HandedByStep
        DEF HandOffsAreCounted, StartLookup, SendSubmit, SendLookup, Call
      <4> QED BY <4>1
    <3>2. CASE LookupGone(d)
      BY <2>1, <3>2 DEF LookupGone, WaitersAreRegistered, TypeOK
    <3>3. CASE SendLookup(d) \/ LookupUnaccepted(d) \/ LookupUnanswered(d)
               \/ LookupAnswered(d) \/ Cancel(d)
      <4>1. pc[d] # "done" /\ outcome[d] # "gone"
        BY <1>0, <3>3
        DEF SendLookup, LookupUnaccepted, LookupUnanswered, LookupAnswered, Cancel,
            HandOffsAreCounted
      <4> QED
        BY <1>0, <3>3, <4>1
        DEF SendLookup, LookupUnaccepted, LookupUnanswered, LookupAnswered, Cancel,
            NextAddress, Finish, TypeOK
    <3> QED
      BY <1>0, <1>3, <2>3, <3>1, <3>2, <3>3
      DEF Call, CallStep, StartSubmit, SendSubmit, BreakSubmit
  <2> QED BY <2>2, <2>3
<1>4. CASE Loop
  <2>1. UNCHANGED <<outcome, handed>>
    BY <1>4, LoopFrame
  <2> QED BY <1>1, <1>4, <2>1, LoopRuns DEF HandedBy
<1>5. CASE Environment
  BY <1>2, <1>5, EnvironmentFrame DEF callVars, loopVars
<1>6. CASE UNCHANGED vars
  BY <1>2, <1>6 DEF vars, callVars, loopVars
<1> QED BY <1>3, <1>4, <1>5, <1>6 DEF Next

-----------------------------------------------------------------------------
(* The invariant and what follows from it                                  *)

LEMMA InitIInv == Init => IInv
<1> SUFFICES ASSUME Init PROVE IInv
  OBVIOUS
<1>1. TypeOK
  BY InitType
<1>2. FramesAreFresh /\ OnlyHandedTravels /\ AnswersAreToSent
  BY ElementsEmpty DEF Init, FramesAreFresh, OnlyHandedTravels, AnswersAreToSent
<1>3. SlotsAreCurrent /\ WaitersAreRegistered
  BY DEF Init, Calls, SlotsAreCurrent, WaitersAreRegistered
<1>4. HandOffsAreCounted /\ VerdictMatchesHandOff /\ GoneMeansGone
  BY CallsAssumption
  DEF Init, Calls, HandOffsAreCounted, VerdictMatchesHandOff, GoneMeansGone, HandedBy
<1> QED BY <1>1, <1>2, <1>3, <1>4 DEF IInv

LEMMA NextIInv == IInv /\ [Next]_vars => IInv'
  BY NextType, FramesStep, AnswersStep, SlotsStep, WaitersStep, AccountedStep, GoneStep
  DEF IInv

(* The inductive invariant of the transport: what a frame, an answer, a     *)
(* oneshot and a registered waiter say about the call they belong to.       *)
THEOREM TransportInvariant == Spec => []IInv
  BY InitIInv, NextIInv, PTL DEF Spec

LEMMA AnswerIsCurrentNow == IInv => AnswerIsCurrent
<1> SUFFICES ASSUME IInv, NEW c \in Calls, slot[c] # None
             PROVE  /\ c \in Lookups /\ slot[c].kind = "reply"
                    /\ slot[c].nonce = Current(c) /\ slot[c].from = Target(c)
                    /\ [nonce |-> Current(c), target |-> Target(c)] \in sent
  BY DEF AnswerIsCurrent
<1>1. /\ c \in Lookups /\ slot[c].kind = "reply" /\ slot[c].nonce = Current(c)
      /\ [nonce |-> slot[c].nonce, target |-> slot[c].from] \in sent
  BY DEF IInv, SlotsAreCurrent
<1>2. [nonce |-> slot[c].nonce, target |-> slot[c].from] \in handed
  BY <1>1 DEF IInv, OnlyHandedTravels
<1>3. slot[c].nonce = <<slot[c].nonce[1], slot[c].from>>
  BY <1>2 DEF IInv, FramesAreFresh, FreshNonce
<1>4. slot[c].from = Target(c)
  BY <1>1, <1>3 DEF Current, FreshNonce
<1> QED BY <1>1, <1>4

(* A lookup is answered only by the hub its current attempt was sent to:    *)
(* each_target's fresh nonce per address and deliver's kind check.          *)
THEOREM AnswersAreCurrent == Spec => []AnswerIsCurrent
  BY AnswerIsCurrentNow, TransportInvariant, PTL

(* A submit's verdict is about its own hand-offs, whatever stopped its      *)
(* sweep (submit, nym.rs:662-702).                                          *)
THEOREM VerdictsMatchHandOffs == Spec => []VerdictMatchesHandOff
  BY TransportInvariant, PTL DEF IInv

(* A lookup that reached the transport hears TransportGone only from one    *)
(* that has ended (await_reply, deliver and the sweep of correlate).        *)
THEOREM GoneIsGone == Spec => []GoneMeansGone
  BY TransportInvariant, PTL DEF IInv

-----------------------------------------------------------------------------
(* Where a nonce can be                                                    *)

HandedNonces == {f.nonce : f \in handed}

(* The address a call's attempt number a is for.                           *)
AddressOf(c, a) == IF c \in Submits THEN a ELSE (start[c] + a) % HubCount

(* The attempts a call has not made yet have no frame anywhere.            *)
Untried(c, a) == a > attempt[c] \/ (a = attempt[c] /\ pc[c] \in {"idle", "sending"})
UntriedAreFresh ==
    \A c \in Calls : \A a \in Targets :
        Untried(c, a) => FreshNonce(c, AddressOf(c, a)) \notin HandedNonces

(* A nonce is queued, or with the loop and beyond it, and in the queue once; *)
(* the waiter of a lookup that is answered is nowhere any more.             *)
QueuedOnce ==
    \A i, j \in DOMAIN requests : requests[i].nonce = requests[j].nonce => i = j
QueuedNotBeyond ==
    \A f \in Elements(requests) :
        f.nonce \notin pending /\ \A g \in Elements(outFrames) \cup sent : g.nonce # f.nonce
AnsweredNotAwaited ==
    \A c \in Lookups : slot[c] # None => Current(c) \notin pending \cup QueuedNonces
CountIsExact ==
    /\ pending \subseteq HandedNonces
    /\ inflight = Cardinality(pending)
    /\ transport = "stopped" => pending = {}

Places ==
    /\ UntriedAreFresh /\ QueuedOnce /\ QueuedNotBeyond /\ AnsweredNotAwaited
    /\ CountIsExact

(* Two attempts of one sweep are for two addresses: each_target goes round  *)
(* the list at most once.                                                  *)
LEMMA BelowTheLength == \A n \in Nat : n < HubCount => n % HubCount = n
  BY SizesAssumption

LEMMA PastTheLength ==
  \A n \in Nat : HubCount <= n /\ n < 2 * HubCount => n % HubCount = n - HubCount
  BY SizesAssumption

LEMMA RoundTheList ==
  ASSUME NEW s \in Targets, NEW a \in Targets
  PROVE  (s + a) % HubCount = IF s + a < HubCount THEN s + a ELSE s + a - HubCount
<1> DEFINE n == s + a
<1>1. s \in Nat /\ a \in Nat /\ HubCount \in Nat /\ n \in Nat /\ n < 2 * HubCount
  BY SizesAssumption DEF Targets
<1> HIDE DEF n
<1>2. n % HubCount = IF n < HubCount THEN n ELSE n - HubCount
  BY <1>1, BelowTheLength, PastTheLength
<1> QED BY <1>1, <1>2 DEF n

LEMMA AddressesDiffer ==
  ASSUME TypeOK, NEW c \in Calls, NEW a \in Targets, NEW b \in Targets,
         AddressOf(c, a) = AddressOf(c, b)
  PROVE  a = b
<1>1. start[c] \in Targets
  BY DEF TypeOK
<1>2. CASE c \in Submits  BY <1>2 DEF AddressOf
<1>3. CASE c \notin Submits
  <2>1. /\ (start[c] + a) % HubCount
             = IF start[c] + a < HubCount THEN start[c] + a ELSE start[c] + a - HubCount
        /\ (start[c] + b) % HubCount
             = IF start[c] + b < HubCount THEN start[c] + b ELSE start[c] + b - HubCount
    BY <1>1, RoundTheList
  <2>2. (start[c] + a) % HubCount = (start[c] + b) % HubCount
    BY <1>3 DEF AddressOf
  <2> QED BY <1>1, <2>1, <2>2, SizesAssumption DEF Targets
<1> QED BY <1>2, <1>3

(* What a call's step does to its own place in its sweep: it starts, it     *)
(* moves on or ends without a frame, or its frame is handed over and the    *)
(* attempt is behind it.                                                   *)
LEMMA SweepStep ==
  ASSUME TypeOK, NEW c \in Calls, Call(c)
  PROVE  \/ /\ pc[c] = "idle" /\ attempt'[c] = attempt[c] /\ handed' = handed
         \/ /\ start'[c] = start[c] /\ handed' = handed
            /\ \A a \in Targets : Untried(c, a)' => Untried(c, a)
         \/ /\ start'[c] = start[c] /\ pc[c] = "sending"
            /\ SendSubmit(c) \/ SendLookup(c)
            /\ handed' = handed \cup {CurrentFrame(c)}
            /\ \A a \in Targets : Untried(c, a)' => a > attempt[c]
<1> USE DEF TypeOK, Untried
<1>0. attempt[c] \in Nat /\ \A a \in Targets : a \in Nat
  BY DEF Targets
<1>1. CASE StartSubmit(c) \/ StartLookup(c)
  BY <1>1 DEF StartSubmit, StartLookup
<1>2. CASE SendSubmit(c)
  <2>1. \/ pc'[c] = "sending" /\ attempt'[c] = attempt[c] + 1
        \/ pc'[c] = "done" /\ attempt'[c] = attempt[c]
    BY <1>2 DEF SendSubmit, Finish
  <2>2. /\ pc[c] = "sending" /\ start' = start
        /\ handed' = handed \cup {CurrentFrame(c)}
    BY <1>2 DEF SendSubmit, CurrentFrame
  <2>3. \A a \in Targets : Untried(c, a)' => a > attempt[c]
    BY <1>0, <2>1
  <2> QED BY <1>2, <2>2, <2>3
<1>3. CASE SendLookup(c)
  <2>1. pc'[c] = "waiting" /\ UNCHANGED <<attempt, start>>
    BY <1>3 DEF SendLookup
  <2> QED BY <1>0, <1>3, <2>1 DEF SendLookup, CurrentFrame
<1>4. CASE LookupUnaccepted(c) \/ LookupUnanswered(c)
  <2>1. NextAddress(c) /\ UNCHANGED <<start, handed>>
    BY <1>4 DEF LookupUnaccepted, LookupUnanswered
  <2>2. \/ pc'[c] = "sending" /\ attempt'[c] = attempt[c] + 1
        \/ pc'[c] = "done" /\ attempt'[c] = attempt[c]
    BY <2>1 DEF NextAddress, Finish
  <2> QED BY <1>0, <2>1, <2>2
<1>5. CASE BreakSubmit(c) \/ LookupGone(c) \/ LookupAnswered(c) \/ Cancel(c)
  <2>1. UNCHANGED <<attempt, start, handed>> /\ pc'[c] = "done"
    BY <1>5 DEF BreakSubmit, LookupGone, LookupAnswered, Cancel, Finish
  <2> QED BY <1>0, <2>1
<1> QED BY <1>1, <1>2, <1>3, <1>4, <1>5 DEF Call, CallStep

LEMMA UntriedStep ==
  ASSUME TypeOK, HandOffsAreCounted, UntriedAreFresh, [Next]_vars
  PROVE  UntriedAreFresh'
<1>1. ASSUME UNCHANGED <<pc, attempt, start, handed>> PROVE UntriedAreFresh'
  BY <1>1 DEF UntriedAreFresh, Untried, AddressOf, FreshNonce, HandedNonces
<1>2. ASSUME NEW d \in Calls, Call(d), NEW c \in Calls, NEW a \in Targets, Untried(c, a)'
      PROVE  FreshNonce(c, AddressOf(c, a)') \notin HandedNonces'
  <2>1. CASE c # d
    <3>1. pc'[c] = pc[c] /\ attempt'[c] = attempt[c] /\ start'[c] = start[c]
      BY <1>2, <2>1, CallFrame
    <3>2. Untried(c, a) /\ AddressOf(c, a)' = AddressOf(c, a)
      BY <1>2, <3>1 DEF Untried, AddressOf
    <3>3. handed' \subseteq handed \cup {CurrentFrame(d)}
      BY <1>2, CallHandsOver
    <3>4. FreshNonce(c, AddressOf(c, a)) # CurrentFrame(d).nonce
      BY <2>1 DEF FreshNonce, CurrentFrame, Current
    <3> QED BY <3>2, <3>3, <3>4 DEF UntriedAreFresh, HandedNonces
  <2>2. CASE c = d
    <3>1. CASE pc[c] = "idle" /\ handed' = handed
      <4>1. HandedBy(c) = {}
        BY <3>1 DEF HandOffsAreCounted
      <4>2. \A f \in handed : f.nonce # FreshNonce(c, AddressOf(c, a)')
        BY <4>1 DEF HandedBy, FreshNonce
      <4> QED BY <3>1, <4>2 DEF HandedNonces
    <3>2. CASE start'[c] = start[c] /\ handed' = handed /\ Untried(c, a)
      BY <3>2 DEF UntriedAreFresh, HandedNonces, AddressOf
    <3>3. CASE /\ start'[c] = start[c] /\ handed' = handed \cup {CurrentFrame(c)}
               /\ a > attempt[c]
      <4>1. AddressOf(c, a)' = AddressOf(c, a) /\ attempt[c] \in Targets
        BY <3>3 DEF AddressOf, TypeOK
      <4>2. FreshNonce(c, AddressOf(c, a)) \notin HandedNonces
        BY <3>3 DEF UntriedAreFresh, Untried
      <4>3. AddressOf(c, a) # AddressOf(c, attempt[c])
        BY <3>3, <4>1, AddressesDiffer DEF Targets
      <4>4. FreshNonce(c, AddressOf(c, a)) # CurrentFrame(c).nonce
        BY <4>3 DEF FreshNonce, CurrentFrame, Current, Target, AddressOf
      <4> QED BY <3>3, <4>1, <4>2, <4>4 DEF HandedNonces
    <3> QED BY <1>2, <2>2, <3>1, <3>2, <3>3, SweepStep
  <2> QED BY <2>1, <2>2
<1>3. ASSUME NEW d \in Calls, Call(d) PROVE UntriedAreFresh'
  BY <1>2, <1>3 DEF UntriedAreFresh, FreshNonce
<1>4. CASE Loop         BY <1>1, <1>4, LoopFrame
<1>5. CASE Environment  BY <1>1, <1>5, EnvironmentFrame DEF callVars
<1>6. CASE UNCHANGED vars
  BY <1>1, <1>6 DEF vars, callVars
<1> QED BY <1>3, <1>4, <1>5, <1>6 DEF Next

(* A queue in which no nonce occurs twice, after a send and a receive.      *)
Distinct(s) == \A i, j \in DOMAIN s : s[i].nonce = s[j].nonce => i = j

LEMMA DistinctAppend ==
  ASSUME NEW s \in Seq(Frames), NEW f \in Frames, Distinct(s),
         \A g \in Elements(s) : g.nonce # f.nonce
  PROVE  Distinct(Append(s, f))
<1> DEFINE t == Append(s, f)
<1>1. /\ DOMAIN s = 1 .. Len(s) /\ DOMAIN t = 1 .. (Len(s) + 1) /\ Len(s) \in Nat
      /\ t[Len(s) + 1] = f /\ \A i \in 1 .. Len(s) : t[i] = s[i]
  OBVIOUS
<1> HIDE DEF t
<1>2. \A i \in 1 .. Len(s) : t[i].nonce # f.nonce
  BY <1>1 DEF Elements
<1> SUFFICES ASSUME NEW i \in 1 .. (Len(s) + 1), NEW j \in 1 .. (Len(s) + 1),
                    t[i].nonce = t[j].nonce
             PROVE  i = j
  BY <1>1 DEF Distinct, t
<1>3. CASE i \in 1 .. Len(s) /\ j \in 1 .. Len(s)
  BY <1>1, <1>3 DEF Distinct
<1>4. CASE i = Len(s) + 1 \/ j = Len(s) + 1
  BY <1>1, <1>2, <1>4
<1> QED BY <1>1, <1>3, <1>4

LEMMA DistinctTail ==
  ASSUME NEW s \in Seq(Frames), s # <<>>, Distinct(s)
  PROVE  Distinct(Tail(s)) /\ \A g \in Elements(Tail(s)) : g.nonce # Head(s).nonce
<1> DEFINE t == Tail(s)
<1>1. /\ DOMAIN s = 1 .. Len(s) /\ DOMAIN t = 1 .. (Len(s) - 1) /\ Len(s) \in Nat \ {0}
      /\ s[1] = Head(s) /\ \A i \in 1 .. (Len(s) - 1) : t[i] = s[i + 1]
  OBVIOUS
<1> HIDE DEF t
<1>2. ASSUME NEW i \in 1 .. (Len(s) - 1), NEW j \in 1 .. (Len(s) - 1),
             t[i].nonce = t[j].nonce
      PROVE  i = j
  <2>1. i + 1 \in DOMAIN s /\ j + 1 \in DOMAIN s /\ s[i + 1].nonce = s[j + 1].nonce
    BY <1>1, <1>2
  <2>2. i + 1 = j + 1
    BY <2>1 DEF Distinct
  <2> QED BY <2>2
<1>3. ASSUME NEW i \in 1 .. (Len(s) - 1), t[i].nonce = s[1].nonce PROVE FALSE
  <2>1. i + 1 \in DOMAIN s /\ 1 \in DOMAIN s /\ s[i + 1].nonce = s[1].nonce
    BY <1>1, <1>3
  <2>2. i + 1 = 1
    BY <2>1 DEF Distinct
  <2> QED BY <2>2
<1>4. Distinct(t)
  BY <1>1, <1>2 DEF Distinct
<1>5. \A g \in Elements(t) : g.nonce # Head(s).nonce
  BY <1>1, <1>3 DEF Elements
<1> QED BY <1>4, <1>5 DEF t

(* The frame a call hands over was nowhere before.                         *)
LEMMA CurrentIsFresh ==
  ASSUME TypeOK, UntriedAreFresh, NEW c \in Calls, pc[c] = "sending"
  PROVE  Current(c) \notin HandedNonces
<1>1. attempt[c] \in Targets /\ Untried(c, attempt[c])
  BY DEF TypeOK, Untried
<1>2. Current(c) = FreshNonce(c, AddressOf(c, attempt[c]))
  BY DEF Current, Target, AddressOf
<1> QED BY <1>1, <1>2 DEF UntriedAreFresh

LEMMA QueuedStep ==
  ASSUME TypeOK, OnlyHandedTravels, Places, [Next]_vars
  PROVE  QueuedOnce' /\ QueuedNotBeyond'
<1>0. /\ requests \in Seq(Frames) /\ outFrames \in Seq(Frames) /\ pending \in SUBSET Nonces
      /\ permit \in BOOLEAN /\ requestsOpen \in BOOLEAN
      /\ Distinct(requests) /\ QueuedNotBeyond /\ pending \subseteq HandedNonces
  BY DEF TypeOK, Places, QueuedOnce, Distinct, CountIsExact
<1>1. ASSUME requests' = requests, pending' \subseteq pending,
             Elements(outFrames)' \cup sent' \subseteq Elements(outFrames) \cup sent
      PROVE  QueuedOnce' /\ QueuedNotBeyond'
  BY <1>0, <1>1 DEF QueuedOnce, Distinct, QueuedNotBeyond, Elements
<1>2. ASSUME requests' = <<>> PROVE QueuedOnce' /\ QueuedNotBeyond'
  BY <1>2 DEF QueuedOnce, QueuedNotBeyond, Elements
<1>3. ASSUME NEW c \in Calls, Call(c) PROVE QueuedOnce' /\ QueuedNotBeyond'
  <2>1. UNCHANGED <<pending, outFrames, sent>>
    BY <1>3, CallFrame DEF loopVars, envVars
  <2>2. CASE requests' = requests
    BY <1>1, <2>1, <2>2 DEF Elements
  <2>3. CASE /\ SendSubmit(c) \/ SendLookup(c)
             /\ requests' = Append(requests, CurrentFrame(c))
    <3> DEFINE f == CurrentFrame(c)
    <3>1. pc[c] = "sending" /\ f \in Frames /\ f.nonce = Current(c)
      BY <2>3, TargetType DEF SendSubmit, SendLookup, CurrentFrame, Frames
    <3>2. f.nonce \notin HandedNonces
      BY <3>1, CurrentIsFresh DEF Places
    <3>3. \A g \in Elements(requests) \cup Elements(outFrames) \cup sent : g.nonce # f.nonce
      BY <3>2 DEF OnlyHandedTravels, HandedNonces
    <3>4. f.nonce \notin pending
      BY <1>0, <3>2
    <3>5. requests' = Append(requests, f)
      BY <2>3
    <3> HIDE DEF f
    <3>6. Elements(requests)' = Elements(requests) \cup {f}
      BY <1>0, <3>1, <3>5, ElementsAppend
    <3>7. Distinct(requests')
      BY <1>0, <3>1, <3>3, <3>5, DistinctAppend
    <3>8. Elements(outFrames)' = Elements(outFrames)
      BY <2>1 DEF Elements
    <3> QED BY <1>0, <2>1, <3>3, <3>4, <3>6, <3>7, <3>8
            DEF QueuedOnce, Distinct, QueuedNotBeyond
  <2> QED BY <1>3, <2>2, <2>3, CallHandsOver
<1>4. CASE Loop
  <2>1. sent' = sent
    BY <1>4, LoopFrame DEF envVars
  <2>2. CASE ReserveFails \/ InboundClosed
    BY <1>2, <2>2 DEF ReserveFails, InboundClosed, Stop
  <2>3. CASE Reserve \/ RequestsClosed \/ Sweep
    <3>1. /\ \/ Settle(pending, TRUE, TRUE) \/ Settle(pending, FALSE, TRUE)
             \/ Settle(pending, requestsOpen, permit)
          /\ UNCHANGED <<requests, outFrames>>
      BY <2>3 DEF Reserve, RequestsClosed, NoticeClose, Sweep, chanVars
    <3>2. pending' \subseteq pending
      BY <1>0, <3>1, SettleType
    <3> QED BY <1>1, <2>1, <3>1, <3>2 DEF Elements
  <2>4. CASE Receive
    <3> DEFINE m == Head(inbound)
    <3>1. /\ Settle(StillRegistered(m), requestsOpen, permit)
          /\ UNCHANGED <<requests, outFrames>>
      BY <2>4 DEF Receive, Deliver
    <3>2. StillRegistered(m) \subseteq pending
      BY DEF StillRegistered
    <3>3. pending' \subseteq pending
      BY <1>0, <3>1, <3>2, SettleType
    <3> QED BY <1>1, <2>1, <3>1, <3>3 DEF Elements
  <2>5. CASE Accept
    <3> DEFINE f == Head(requests)
    <3>1. /\ requests # <<>> /\ requests' = Tail(requests)
          /\ outFrames' = outFrames \/ outFrames' = Append(outFrames, f)
          /\ Settle(pending \cup {f.nonce}, TRUE, FALSE)
      BY <2>5 DEF Accept, HandOver
    <3>2. /\ f \in Frames /\ Elements(requests) = Elements(Tail(requests)) \cup {f}
      BY <1>0, <3>1, ElementsTail
    <3>3. /\ Distinct(Tail(requests))
          /\ \A g \in Elements(Tail(requests)) : g.nonce # f.nonce
      BY <1>0, <3>1, DistinctTail
    <3> HIDE DEF f
    <3>4. pending \cup {f.nonce} \in SUBSET Nonces
      BY <1>0, <3>2 DEF Frames
    <3>5. pending' \subseteq pending \cup {f.nonce}
      BY <3>1, <3>4, SettleType
    <3>6. Elements(outFrames)' \subseteq Elements(outFrames) \cup {f}
      <4>1. CASE outFrames' = outFrames  BY <4>1 DEF Elements
      <4>2. CASE outFrames' = Append(outFrames, f)
        BY <1>0, <3>2, <4>2, ElementsAppend
      <4> QED BY <3>1, <4>1, <4>2
    <3>7. Elements(requests)' = Elements(Tail(requests)) /\ Distinct(requests')
      BY <3>1, <3>3 DEF Elements
    <3>8. QueuedNotBeyond'
      BY <1>0, <2>1, <3>2, <3>3, <3>5, <3>6, <3>7 DEF QueuedNotBeyond
    <3> QED BY <3>7, <3>8 DEF QueuedOnce, Distinct
  <2> QED BY <1>4, <2>2, <2>3, <2>4, <2>5 DEF Loop
<1>5. CASE Environment
  <2>1. UNCHANGED <<requests, pending>>
    BY <1>5, EnvironmentFrame DEF loopVars
  <2>2. Elements(outFrames)' \cup sent' \subseteq Elements(outFrames) \cup sent
    <3>1. CASE DriverSends
      <4>1. /\ outFrames # <<>> /\ outFrames' = Tail(outFrames)
            /\ sent' = sent \cup {Head(outFrames)}
        BY <3>1 DEF DriverSends
      <4>2. Elements(outFrames) = Elements(outFrames)' \cup {Head(outFrames)}
        BY <1>0, <4>1, ElementsTail
      <4> QED BY <4>1, <4>2
    <3>2. CASE DriverStops
      BY <3>2, ElementsEmpty DEF DriverStops, Elements
    <3>3. CASE DropHandles \/ PublishTargets
               \/ \E f \in sent, kind \in {"ack", "reply", "junk"} : HubAnswers(f, kind)
      <4>1. UNCHANGED <<sent, outFrames>>
        BY <3>3 DEF DropHandles, PublishTargets, HubAnswers, chanVars, envVars
      <4> QED BY <4>1 DEF Elements
    <3> QED BY <1>5, <3>1, <3>2, <3>3 DEF Environment
  <2> QED BY <1>1, <2>1, <2>2
<1>6. CASE UNCHANGED vars
  BY <1>1, <1>6 DEF vars, envVars, chanVars, loopVars, Elements
<1> QED BY <1>3, <1>4, <1>5, <1>6 DEF Next

(* The end of a turn counts what it keeps, and only an idle loop ends.      *)
LEMMA SettleCount ==
  ASSUME NEW S \in SUBSET Nonces, NEW open, NEW held, Settle(S, open, held)
  PROVE  /\ pending' \subseteq S /\ inflight' = Cardinality(pending')
         /\ transport' = "stopped" => pending' = {}
  BY Zenon DEF Settle

LEMMA CountStep ==
  ASSUME TypeOK, OnlyHandedTravels, CountIsExact, [Next]_vars
  PROVE  CountIsExact'
<1>0. /\ pending \in SUBSET Nonces /\ requests \in Seq(Frames)
      /\ pending \subseteq HandedNonces
  BY DEF TypeOK, CountIsExact
<1>1. ASSUME UNCHANGED <<pending, inflight, transport>>, handed \subseteq handed'
      PROVE  CountIsExact'
  BY <1>1 DEF CountIsExact, HandedNonces
<1>2. ASSUME NEW S \in SUBSET Nonces, NEW open, NEW held, Settle(S, open, held),
             S \subseteq HandedNonces, handed' = handed
      PROVE  CountIsExact'
  BY <1>2, SettleCount DEF CountIsExact, HandedNonces
<1>3. CASE Stop
  BY <1>3, FS_EmptySet DEF Stop, CountIsExact
<1>4. ASSUME NEW c \in Calls, Call(c) PROVE CountIsExact'
  <2>1. handed \subseteq handed'
    BY <1>4, CallHandsOver
  <2> QED BY <1>1, <1>4, <2>1, CallFrame DEF loopVars
<1>5. CASE Loop
  <2>1. handed' = handed
    BY <1>5, LoopFrame
  <2>2. CASE Reserve          BY <1>0, <1>2, <2>1, <2>2 DEF Reserve
  <2>3. CASE RequestsClosed   BY <1>0, <1>2, <2>1, <2>3 DEF RequestsClosed, NoticeClose
  <2>4. CASE Sweep            BY <1>0, <1>2, <2>1, <2>4 DEF Sweep
  <2>5. CASE Receive
    <3>1. Settle(StillRegistered(Head(inbound)), requestsOpen, permit)
      BY <2>5 DEF Receive, Deliver
    <3>2. StillRegistered(Head(inbound)) \subseteq pending
      BY DEF StillRegistered
    <3> QED BY <1>0, <1>2, <2>1, <3>1, <3>2
  <2>6. CASE Accept
    <3>1. requests # <<>> /\ Settle(pending \cup {Head(requests).nonce}, TRUE, FALSE)
      BY <2>6 DEF Accept, HandOver
    <3>2. Head(requests) \in Frames /\ Head(requests) \in Elements(requests)
      BY <1>0, <3>1, ElementsTail
    <3>3. Head(requests).nonce \in HandedNonces /\ Head(requests).nonce \in Nonces
      BY <3>2 DEF OnlyHandedTravels, HandedNonces, Frames
    <3> QED BY <1>0, <1>2, <2>1, <3>1, <3>3
  <2> QED
    BY <1>3, <1>5, <2>2, <2>3, <2>4, <2>5, <2>6 DEF Loop, ReserveFails, InboundClosed
<1>6. CASE Environment
  BY <1>1, <1>6, EnvironmentFrame DEF callVars, loopVars
<1>7. CASE UNCHANGED vars
  BY <1>1, <1>7 DEF vars, callVars, loopVars
<1> QED BY <1>4, <1>5, <1>6, <1>7 DEF Next

(* The loop registers only what was queued, and queues nothing.             *)
LEMMA LoopMoves ==
  ASSUME TypeOK, Loop
  PROVE  pending' \subseteq pending \cup QueuedNonces /\ QueuedNonces' \subseteq QueuedNonces
<1>0. /\ pending \in SUBSET Nonces /\ requests \in Seq(Frames)
      /\ permit \in BOOLEAN /\ requestsOpen \in BOOLEAN
  BY DEF TypeOK
<1>1. QueuedNonces' \subseteq QueuedNonces
  <2>1. CASE requests' = requests  BY <2>1 DEF QueuedNonces, Elements
  <2>2. CASE requests' = <<>>      BY <2>2 DEF QueuedNonces, Elements
  <2>3. CASE requests # <<>> /\ requests' = Tail(requests)
    <3>1. Elements(requests)' \subseteq Elements(requests)
      BY <1>0, <2>3, ElementsTail
    <3> QED BY <3>1 DEF QueuedNonces
  <2> QED
    BY <2>1, <2>2, <2>3
    DEF Loop, Reserve, ReserveFails, Stop, Accept, HandOver, RequestsClosed, NoticeClose,
        Receive, Deliver, InboundClosed, Sweep, chanVars
<1>2. CASE ReserveFails \/ InboundClosed
  BY <1>1, <1>2 DEF ReserveFails, InboundClosed, Stop
<1>3. CASE Reserve \/ RequestsClosed \/ Sweep
  <2>1. \/ Settle(pending, TRUE, TRUE) \/ Settle(pending, FALSE, TRUE)
        \/ Settle(pending, requestsOpen, permit)
    BY <1>3 DEF Reserve, RequestsClosed, NoticeClose, Sweep
  <2> QED BY <1>0, <1>1, <2>1, SettleType
<1>4. CASE Receive
  <2>1. /\ Settle(StillRegistered(Head(inbound)), requestsOpen, permit)
        /\ StillRegistered(Head(inbound)) \subseteq pending
    BY <1>4 DEF Receive, Deliver, StillRegistered
  <2> QED BY <1>0, <1>1, <2>1, SettleType
<1>5. CASE Accept
  <2>1. requests # <<>> /\ Settle(pending \cup {Head(requests).nonce}, TRUE, FALSE)
    BY <1>5 DEF Accept, HandOver
  <2>2. Head(requests) \in Frames /\ Head(requests) \in Elements(requests)
    BY <1>0, <2>1, ElementsTail
  <2>3. Head(requests).nonce \in QueuedNonces /\ Head(requests).nonce \in Nonces
    BY <2>2 DEF QueuedNonces, Frames
  <2> QED BY <1>0, <1>1, <2>1, <2>3, SettleType
<1> QED BY <1>2, <1>3, <1>4, <1>5 DEF Loop

LEMMA AnsweredStep ==
  ASSUME TypeOK, SlotsAreCurrent, Places, [Next]_vars
  PROVE  AnsweredNotAwaited'
<1> SUFFICES ASSUME NEW c \in Lookups, slot'[c] # None
             PROVE  Current(c)' \notin pending' \cup QueuedNonces'
  BY DEF AnsweredNotAwaited
<1>0. /\ c \in Calls /\ requests \in Seq(Frames) /\ pending \in SUBSET Nonces
      /\ permit \in BOOLEAN /\ requestsOpen \in BOOLEAN
  BY DEF Calls, TypeOK
<1>1. slot[c] # None => Current(c) \notin pending \cup QueuedNonces
  BY DEF Places, AnsweredNotAwaited
<1>2. ASSUME UNCHANGED <<attempt, start, slot>>, pending' \subseteq pending \cup QueuedNonces,
             QueuedNonces' \subseteq QueuedNonces
      PROVE  Current(c)' \notin pending' \cup QueuedNonces'
  BY <1>0, <1>1, <1>2, SameAttempt
<1>3. ASSUME NEW d \in Calls, Call(d)
      PROVE  Current(c)' \notin pending' \cup QueuedNonces'
  <2>1. UNCHANGED <<slot, pending>>
    BY <1>3, CallFrame DEF loopVars
  <2>2. Current(c)' = Current(c)
    BY <1>0, <1>3, <2>1, CallFrame, FilledSlotStays, SameAttempt
  <2>3. CASE requests' = requests
    BY <1>1, <2>1, <2>2, <2>3 DEF QueuedNonces, Elements
  <2>4. CASE /\ SendSubmit(d) \/ SendLookup(d)
             /\ requests' = Append(requests, CurrentFrame(d))
    <3>1. c # d
      BY <2>1, <2>4 DEF SendSubmit, SendLookup, SlotsAreCurrent
    <3>2. CurrentFrame(d) \in Frames /\ CurrentFrame(d).nonce # Current(c)
      BY <3>1, TargetType DEF CurrentFrame, Frames, Current, FreshNonce
    <3>3. Elements(requests)' = Elements(requests) \cup {CurrentFrame(d)}
      BY <1>0, <2>4, <3>2, ElementsAppend
    <3> QED BY <1>1, <2>1, <2>2, <3>2, <3>3 DEF QueuedNonces
  <2> QED BY <1>3, <2>3, <2>4, CallHandsOver
<1>4. CASE Loop
  <2>1. UNCHANGED <<attempt, start>>
    BY <1>4, LoopFrame
  <2>2. CASE slot'[c] = slot[c]
    BY <1>0, <1>1, <1>4, <2>1, <2>2, LoopMoves, SameAttempt
  <2>3. CASE slot'[c] # slot[c]
    <3> DEFINE m == Head(inbound)
    <3>1. /\ inbound # <<>> /\ inbound \in Seq(Messages)
          /\ slot' = IF Matches(m) /\ Listening(m.nonce)
                     THEN [slot EXCEPT ![m.nonce[1]] = m] ELSE slot
          /\ Settle(StillRegistered(m), requestsOpen, permit)
          /\ UNCHANGED requests
      BY <1>4, <2>3, LoopFrame DEF Receive, Deliver, TypeOK
    <3> HIDE DEF m
    <3>2. Matches(m) /\ Listening(m.nonce) /\ m.nonce[1] = c
      BY <1>0, <2>3, <3>1 DEF TypeOK
    <3>3. m.nonce = Current(c) /\ m.nonce \in pending
      BY <3>2 DEF Matches, Listening
    <3>4. StillRegistered(m) = pending \ {Current(c)}
      BY <3>2, <3>3 DEF StillRegistered
    <3>5. pending' \subseteq pending \ {Current(c)}
      BY <1>0, <3>1, <3>4, SettleType
    <3>6. Current(c) \notin QueuedNonces
      BY <3>3 DEF Places, QueuedNotBeyond, QueuedNonces
    <3>7. Current(c)' = Current(c) /\ QueuedNonces' = QueuedNonces
      BY <1>0, <2>1, <3>1, SameAttempt DEF QueuedNonces, Elements
    <3> QED BY <3>5, <3>6, <3>7
  <2> QED BY <2>2, <2>3
<1>5. CASE Environment
  BY <1>2, <1>5, EnvironmentFrame DEF callVars, loopVars, QueuedNonces, Elements
<1>6. CASE UNCHANGED vars
  BY <1>2, <1>6 DEF vars, callVars, loopVars, chanVars, QueuedNonces, Elements
<1> QED BY <1>3, <1>4, <1>5, <1>6 DEF Next

LEMMA InitPlaces == Init => Places
<1> SUFFICES ASSUME Init PROVE Places
  OBVIOUS
<1>1. UntriedAreFresh /\ QueuedOnce /\ QueuedNotBeyond
  BY ElementsEmpty DEF Init, UntriedAreFresh, HandedNonces, QueuedOnce, QueuedNotBeyond
<1>2. AnsweredNotAwaited
  BY DEF Init, Calls, AnsweredNotAwaited
<1>3. CountIsExact
  BY FS_EmptySet DEF Init, CountIsExact
<1> QED BY <1>1, <1>2, <1>3 DEF Places

LEMMA NextPlaces == IInv /\ Places /\ [Next]_vars => Places'
<1> SUFFICES ASSUME IInv, Places, [Next]_vars PROVE Places'
  OBVIOUS
<1>1. TypeOK /\ OnlyHandedTravels /\ SlotsAreCurrent /\ HandOffsAreCounted
  BY DEF IInv
<1>2. UntriedAreFresh'  BY <1>1, UntriedStep DEF Places
<1>3. QueuedOnce' /\ QueuedNotBeyond'  BY <1>1, QueuedStep
<1>4. AnsweredNotAwaited'  BY <1>1, AnsweredStep
<1>5. CountIsExact'  BY <1>1, CountStep DEF Places
<1> QED BY <1>2, <1>3, <1>4, <1>5 DEF Places

LEMMA PlacesHold == Spec => []Places
  BY InitPlaces, NextPlaces, TransportInvariant, PTL DEF Spec

(* The count the supervisor reads before it rotates the client covers every *)
(* lookup a rotation would strand: one waiter per lookup, registered in the   *)
(* turn that hands its frame to the driver (nym.rs:883-891, 915-920).        *)
THEOREM CountCovers == Spec => []CountCoversWaiting
<1>1. IInv /\ Places => CountCoversWaiting
  <2> SUFFICES ASSUME IInv, Places PROVE CountCoversWaiting
    OBVIOUS
  <2>1. /\ pending \in SUBSET Nonces /\ inflight = Cardinality(pending)
        /\ transport \in {"running", "stopped"}
        /\ transport = "stopped" => pending = {}
    BY DEF IInv, TypeOK, Places, CountIsExact
  <2>2. CASE transport = "stopped"
    BY <2>1, <2>2, FS_EmptySet DEF CountCoversWaiting
  <2>3. CASE transport = "running"
    <3>1. ASSUME NEW c \in Unanswered PROVE Current(c) \in pending
      <4>1. /\ c \in Lookups /\ pc[c] = "waiting" /\ slot[c] = None
            /\ [nonce |-> Current(c), target |-> Target(c)] \in Elements(outFrames) \cup sent
        BY <3>1 DEF Unanswered, Listening, Current, FreshNonce
      <4>2. Current(c) \in pending \cup QueuedNonces
        BY <2>3, <4>1 DEF IInv, WaitersAreRegistered
      <4>3. Current(c) \notin QueuedNonces
        BY <4>1 DEF Places, QueuedNotBeyond, QueuedNonces
      <4> QED BY <4>2, <4>3
    <3> DEFINE w == [c \in Unanswered |-> Current(c)]
    <3>2. w \in Injection(Unanswered, pending)
      BY <3>1 DEF Injection, IsInjective, Current, FreshNonce
    <3>3. IsFiniteSet(pending)
      BY <2>1, NoncesAreFinite, FS_Subset
    <3>4. Cardinality(Unanswered) <= Cardinality(pending)
      BY <3>2, <3>3, FS_Injection
    <3> QED BY <2>1, <2>3, <3>4 DEF CountCoversWaiting
  <2> QED BY <2>1, <2>2, <2>3
<1> QED BY <1>1, TransportInvariant, PlacesHold, PTL

(* No step of the loop drops a waiter whose caller still listens and has not *)
(* been answered, unless the loop ends: deliver removes it to fire it, and   *)
(* the sweep only the abandoned ones (nym.rs:913-919, 1040-1077).            *)
THEOREM WaitersKept == Spec => WaitersAreKept
<1> DEFINE Kept == \A n \in pending \ pending' :
                      \/ slot'[n[1]] # slot[n[1]]
                      \/ ~Listening(n)
                      \/ transport' = "stopped"
<1>1. IInv /\ Places /\ [Next]_vars => [Kept]_vars
  <2> SUFFICES ASSUME IInv, Places, [Next]_vars, NEW n \in pending \ pending',
                      Listening(n), transport' # "stopped"
               PROVE  slot'[n[1]] # slot[n[1]]
    OBVIOUS
  <2>1. /\ pending \in SUBSET Nonces /\ permit \in BOOLEAN /\ requestsOpen \in BOOLEAN
        /\ requests \in Seq(Frames) /\ TypeOK
    BY DEF IInv, TypeOK
  <2>2. Loop
    BY <2>1, CallFrame, EnvironmentFrame DEF Next, vars, loopVars
  <2>3. ~ReserveFails /\ ~InboundClosed
    BY DEF ReserveFails, InboundClosed, Stop
  <2>4. ASSUME NEW S \in SUBSET Nonces, NEW open \in BOOLEAN, NEW held \in BOOLEAN,
               Settle(S, open, held), n \in S
        PROVE  FALSE
    BY <2>4, SettleType
  <2>5. ~Reserve /\ ~RequestsClosed /\ ~Sweep
    BY <2>1, <2>4 DEF Reserve, RequestsClosed, NoticeClose, Sweep
  <2>6. ~Accept
    <3> SUFFICES ASSUME Accept PROVE FALSE
      OBVIOUS
    <3>1. requests # <<>> /\ Settle(pending \cup {Head(requests).nonce}, TRUE, FALSE)
      BY DEF Accept, HandOver
    <3>2. Head(requests) \in Frames
      BY <2>1, <3>1, ElementsTail
    <3>3. pending \cup {Head(requests).nonce} \in SUBSET Nonces
      BY <2>1, <3>2 DEF Frames
    <3> QED BY <2>4, <3>1, <3>3
  <2>7. Receive
    BY <2>2, <2>3, <2>5, <2>6 DEF Loop
  <2> DEFINE m == Head(inbound)
  <2>8. /\ inbound # <<>> /\ inbound \in Seq(Messages)
        /\ slot' = IF Matches(m) /\ Listening(m.nonce)
                   THEN [slot EXCEPT ![m.nonce[1]] = m] ELSE slot
        /\ Settle(StillRegistered(m), requestsOpen, permit)
    BY <2>7 DEF Receive, Deliver, IInv, TypeOK
  <2>9. m \in Messages
    BY <2>8, ElementsTail
  <2> HIDE DEF m
  <2>10. StillRegistered(m) \in SUBSET Nonces /\ n \notin StillRegistered(m)
    <3>1. StillRegistered(m) \in SUBSET Nonces
      BY <2>1 DEF StillRegistered
    <3> QED BY <2>1, <2>4, <2>8, <3>1
  <2>11. Matches(m) /\ m.nonce = n
    BY <2>10 DEF StillRegistered
  <2>12. n[1] \in Lookups /\ n = Current(n[1]) /\ n \in pending
    BY DEF Listening
  <2>13. slot[n[1]] = None
    BY <2>12 DEF Places, AnsweredNotAwaited
  <2>14. slot'[n[1]] = m
    BY <2>8, <2>11, <2>12 DEF IInv, TypeOK, Calls
  <2> QED BY <2>9, <2>13, <2>14, NoneAssumption
<1> QED BY <1>1, TransportInvariant, PlacesHold, PTL DEF Spec, WaitersAreKept
=============================================================================
