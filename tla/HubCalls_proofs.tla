--------------------------- MODULE HubCalls_proofs ---------------------------
(***************************************************************************)
(* What follows from the promise of HubCalls, whatever implements it.        *)
(***************************************************************************)
EXTENDS HubCalls, TLAPS

(* A call is a submit or a lookup. *)
OneKind == Submits \cap Lookups = {}

Promised == TypeOK /\ RequestsGoOneWay /\ VerdictsAreEarned

(* What is left when a call's own requests are taken out.                     *)
LEMMA OfRemoved ==
  \A S, c : \A d \in Calls :
     Of(d, S \ Of(c, S)) = IF d = c THEN {} ELSE Of(d, S)
  BY DEF Of

(* What one call's step leaves of every other call.                          *)
Same(d) ==
    /\ stage'[d] = stage[d] /\ verdict'[d] = verdict[d]
    /\ Of(d, given') = Of(d, given) /\ Of(d, asking') = Of(d, asking)
    /\ Of(d, answered') = Of(d, answered)

LEMMA OthersStay ==
  ASSUME TypeOK, NEW c \in Calls, CallStep(c), NEW d \in Calls, d # c
  PROVE  Same(d)
<1>1. ASSUME \/ UNCHANGED <<stage, verdict>>
             \/ stage' = [stage EXCEPT ![c] = "open"] /\ UNCHANGED verdict
             \/ \E v \in Verdicts \cup {"too_large"} : Told(c, v)
      PROVE  stage'[d] = stage[d] /\ verdict'[d] = verdict[d]
  BY <1>1 DEF TypeOK, Told
<1>2. CASE Begins(c)     BY <1>1, <1>2 DEF Begins, Same
<1>3. CASE TurnedAway(c)
  BY <1>1, <1>3 DEF TurnedAway, Same, Verdicts
<1>4. CASE GivesUpOn(c)
  <2>1. Of(d, asking') = Of(d, asking)
    BY <1>4, OfRemoved DEF GivesUpOn
  <2> QED BY <1>1, <1>4, <2>1 DEF GivesUpOn, Same
<1>5. ASSUME NEW t \in Targets, Hands(c, t) \/ Asks(c, t)
      PROVE  Same(d)
  <2>0. /\ given' = given \cup {<<c, t>>}
        /\ UNCHANGED asking \/ asking' = asking \cup {<<c, t>>}
    BY <1>5 DEF Hands, Asks, Makes
  <2>1. Of(d, given') = Of(d, given)
    BY <2>0 DEF Of
  <2>2. Of(d, asking') = Of(d, asking)
    BY <2>0 DEF Of
  <2>3. UNCHANGED <<stage, verdict>> \/ Told(c, "ok")
    BY <1>5 DEF Hands, Asks
  <2>4. UNCHANGED answered
    BY <1>5 DEF Hands, Asks, Makes
  <2> QED BY <1>1, <2>1, <2>2, <2>3, <2>4 DEF Same, Verdicts
<1>6. ASSUME NEW v \in Verdicts, Ends(c, v)
      PROVE  Same(d)
  <2>1. Of(d, asking') = Of(d, asking)
    BY <1>6, OfRemoved DEF Ends
  <2>2. Of(d, answered') = Of(d, answered)
    <3>1. UNCHANGED answered \/ answered' = answered \cup Of(c, asking)
      BY <1>6 DEF Ends
    <3> QED BY <3>1 DEF Of
  <2> QED BY <1>1, <1>6, <2>1, <2>2 DEF Ends, Same
<1> QED BY <1>2, <1>3, <1>4, <1>5, <1>6 DEF CallStep

(* A call that has its verdict takes no step.                                *)
LEMMA DoneRests ==
  ASSUME NEW c \in Calls, CallStep(c)
  PROVE  stage[c] # "done"
  BY DEF CallStep, Begins, TurnedAway, GivesUpOn, Hands, Asks, Makes, Ends

(* What no step of a call touches.                                          *)
LEMMA CallKeeps ==
  ASSUME NEW c \in Calls, CallStep(c)
  PROVE  UNCHANGED <<reached, up>> /\ given \subseteq given'
  BY DEF CallStep, Begins, TurnedAway, GivesUpOn, Hands, Asks, Makes, Ends

LEMMA InitPromised == Init => Promised
  BY DEF Init, Promised, TypeOK, RequestsGoOneWay, VerdictsAreEarned, Earned, Of, Requests

LEMMA TypeStep ==
  ASSUME TypeOK, [Next]_callVars
  PROVE  TypeOK'
<1>1. ASSUME NEW c \in Calls, CallStep(c) PROVE TypeOK'
  <2>1. CASE Begins(c) \/ TurnedAway(c) \/ GivesUpOn(c)
    BY <2>1 DEF Begins, TurnedAway, GivesUpOn, TypeOK, Told, Verdicts
  <2>2. ASSUME NEW t \in Targets, Hands(c, t) \/ Asks(c, t) PROVE TypeOK'
    <3>1. given' = given \cup {<<c, t>>} /\ <<c, t>> \in Requests
      BY <2>2 DEF Hands, Asks, Makes, Requests
    <3>2. up' = up /\ (UNCHANGED <<stage, verdict>> \/ Told(c, "ok"))
      BY <2>2 DEF Hands, Asks, Makes
    <3> QED BY <3>1, <3>2 DEF TypeOK, Told, Verdicts
  <2>3. ASSUME NEW v \in Verdicts, Ends(c, v) PROVE TypeOK'
    BY <2>3 DEF Ends, TypeOK, Told
  <2> QED BY <1>1, <2>1, <2>2, <2>3 DEF CallStep
<1>2. ASSUME NEW r \in given, Leaves(r) PROVE TypeOK'
  BY <1>2 DEF Leaves, TypeOK
<1>3. CASE Breaks              BY <1>3 DEF Breaks, TypeOK
<1>4. CASE UNCHANGED callVars  BY <1>4 DEF callVars, TypeOK
<1> QED BY <1>1, <1>2, <1>3, <1>4 DEF Next

(* One call's own step, as far as its requests go.                            *)
LEMMA OneWayStep ==
  ASSUME OneKind, TypeOK, RequestsGoOneWay, [Next]_callVars
  PROVE  RequestsGoOneWay'
<1>1. ASSUME NEW c \in Calls, CallStep(c) PROVE RequestsGoOneWay'
  <2>1. reached' \subseteq given'
    BY <1>1, CallKeeps DEF RequestsGoOneWay
  <2>2. answered' \subseteq reached'
    <3>1. ASSUME NEW v \in Verdicts, Ends(c, v) PROVE answered' \subseteq reached'
      BY <3>1 DEF Ends, Justified, RequestsGoOneWay
    <3>2. CASE UNCHANGED answered
      BY <1>1, <3>2, CallKeeps DEF RequestsGoOneWay
    <3> QED
      BY <1>1, <3>1, <3>2 DEF CallStep, Begins, TurnedAway, GivesUpOn, Hands, Asks, Makes
  <2>3. ASSUME NEW r \in asking', r[1] = c
        PROVE  /\ r \in given' /\ r[1] \in Lookups /\ stage'[r[1]] = "open"
               /\ Of(r[1], asking') = {r}
    <3>1. CASE UNCHANGED asking /\ Begins(c)
      BY <2>3, <3>1 DEF Begins, RequestsGoOneWay, TypeOK
    <3>2. CASE TurnedAway(c)
      BY <2>3, <3>2 DEF TurnedAway, RequestsGoOneWay, TypeOK
    <3>3. CASE GivesUpOn(c)
      BY <2>3, <3>3 DEF GivesUpOn, Of
    <3>4. ASSUME NEW t \in Targets, Hands(c, t)
          PROVE  FALSE
      BY <2>3, <3>4 DEF Hands, Makes, RequestsGoOneWay, OneKind
    <3>5. ASSUME NEW t \in Targets, Asks(c, t)
          PROVE  /\ r \in given' /\ r[1] \in Lookups /\ stage'[r[1]] = "open"
                 /\ Of(r[1], asking') = {r}
      <4>1. Of(c, asking') = {<<c, t>>}
        <5>1. Of(c, asking) = {} /\ asking' = asking \cup {<<c, t>>}
          BY <3>5 DEF Asks
        <5> QED BY <5>1 DEF Of
      <4>2. r \in Of(c, asking')
        BY <2>3 DEF Of
      <4> QED BY <2>3, <3>5, <4>1, <4>2 DEF Asks, Makes
    <3>6. ASSUME NEW v \in Verdicts, Ends(c, v) PROVE FALSE
      BY <2>3, <3>6 DEF Ends, Of
    <3> QED BY <1>1, <3>1, <3>2, <3>3, <3>4, <3>5, <3>6 DEF CallStep, Begins
  <2>4. ASSUME NEW r \in asking', r[1] # c
        PROVE  /\ r \in given' /\ r[1] \in Lookups /\ stage'[r[1]] = "open"
               /\ Of(r[1], asking') = {r}
    <3>1. r \in asking
      <4>1. \/ asking' \subseteq asking
            \/ \E t \in Targets : asking' = asking \cup {<<c, t>>}
        BY <1>1 DEF CallStep, Begins, TurnedAway, GivesUpOn, Hands, Asks, Ends
      <4> QED BY <2>4, <4>1
    <3>2. r[1] \in Calls /\ r \in given /\ stage[r[1]] = "open" /\ Of(r[1], asking) = {r}
      BY <3>1 DEF RequestsGoOneWay, Calls
    <3>3. Same(r[1])
      BY <1>1, <2>4, <3>2, OthersStay
    <3> QED BY <1>1, <3>1, <3>2, <3>3, CallKeeps DEF Same, RequestsGoOneWay
  <2> QED BY <2>1, <2>2, <2>3, <2>4 DEF RequestsGoOneWay
<1>2. ASSUME NEW r \in given, Leaves(r) PROVE RequestsGoOneWay'
  BY <1>2 DEF Leaves, RequestsGoOneWay
<1>3. CASE Breaks              BY <1>3 DEF Breaks, RequestsGoOneWay
<1>4. CASE UNCHANGED callVars  BY <1>4 DEF callVars, RequestsGoOneWay
<1> QED BY <1>1, <1>2, <1>3, <1>4 DEF Next

(* What a verdict stands for, when the call's own step gives it.              *)
LEMMA OwnVerdict ==
  ASSUME OneKind, TypeOK, RequestsGoOneWay, NEW c \in Calls, Earned(c), CallStep(c)
  PROVE  Earned(c)'
<1>1. ASSUME NEW v \in Verdicts \cup {"too_large"}, Told(c, v)
      PROVE  stage'[c] = "done" /\ verdict'[c] = v
  BY <1>1 DEF Told, TypeOK
<1>2. verdict[c] = "none" /\ Of(c, answered) = {}
  BY DoneRests DEF Earned, TypeOK
<1>3. CASE Begins(c)
  <2>1. stage'[c] = "open" /\ UNCHANGED <<verdict, given, reached, answered, up>>
    BY <1>3 DEF Begins, TypeOK
  <2> QED BY <1>2, <2>1 DEF Earned
<1>4. CASE TurnedAway(c)
  <2>1. \/ Told(c, "gone")
        \/ Told(c, "too_large")
    BY <1>4 DEF TurnedAway
  <2>2. stage'[c] = "done" /\ verdict'[c] \in {"gone", "too_large"}
    BY <1>1, <2>1 DEF Verdicts
  <2>3. Of(c, given) = {} /\ UNCHANGED <<given, answered>>
    BY <1>4 DEF TurnedAway, Earned
  <2> QED BY <1>2, <2>2, <2>3 DEF Earned
<1>5. CASE GivesUpOn(c)
  BY <1>5 DEF GivesUpOn, Earned
<1>6. ASSUME NEW t \in Targets, Hands(c, t) \/ Asks(c, t)
      PROVE  Earned(c)'
  <2>1. stage[c] = "open" /\ given' = given \cup {<<c, t>>} /\ UNCHANGED <<reached, answered, up>>
    BY <1>6 DEF Hands, Asks, Makes
  <2>2. Of(c, given') # {}
    <3>1. <<c, t>> \in Of(c, given')
      BY <2>1 DEF Of
    <3> QED BY <3>1
  <2>3. UNCHANGED <<stage, verdict>> \/ (c \in Submits /\ Told(c, "ok"))
    BY <1>6 DEF Hands, Asks
  <2>4. CASE UNCHANGED <<stage, verdict>>
    BY <1>2, <2>1, <2>4 DEF Earned
  <2>5. CASE c \in Submits /\ Told(c, "ok")
    <3>1. stage'[c] = "done" /\ verdict'[c] = "ok"
      BY <1>1, <2>5 DEF Verdicts
    <3> QED BY <1>2, <2>1, <2>2, <2>5, <3>1 DEF Earned
  <2> QED BY <2>3, <2>4, <2>5
<1>7. ASSUME NEW v \in Verdicts, Ends(c, v)
      PROVE  Earned(c)'
  <2>1. /\ stage'[c] = "done" /\ verdict'[c] = v /\ v # "none"
        /\ UNCHANGED <<given, reached, up>> /\ Justified(c, v)
        /\ answered' = IF v = "reply" THEN answered \cup Of(c, asking) ELSE answered
    BY <1>1, <1>7 DEF Ends, Verdicts
  <2>2. CASE v = "reply"
    <3>1. c \in Lookups /\ Of(c, asking) # {} /\ Of(c, asking) \subseteq reached
      BY <2>1, <2>2 DEF Justified
    <3>2. PICK r \in reached : r \in asking /\ r[1] = c
      BY <3>1 DEF Of
    <3>3. Of(c, asking) = {r}
      BY <3>2 DEF RequestsGoOneWay
    <3>4. Of(c, answered') = {r}
      BY <1>2, <2>1, <2>2, <3>2, <3>3 DEF Of
    <3>5. \E q \in reached' : Of(c, answered') = {q}
      BY <2>1, <3>2, <3>4
    <3> QED BY <2>1, <2>2, <3>1, <3>5 DEF Earned
  <2>3. CASE v # "reply"
    BY <1>2, <2>1, <2>3, Zenon DEF Earned, Justified, OneKind
  <2> QED BY <2>2, <2>3
<1> QED BY <1>3, <1>4, <1>5, <1>6, <1>7 DEF CallStep

LEMMA EarnedStep ==
  ASSUME OneKind, TypeOK, RequestsGoOneWay, VerdictsAreEarned, [Next]_callVars
  PROVE  VerdictsAreEarned'
<1>1. ASSUME NEW c \in Calls, CallStep(c), NEW d \in Calls PROVE Earned(d)'
  <2>1. CASE d = c
    BY <1>1, <2>1, OwnVerdict DEF VerdictsAreEarned
  <2>2. CASE d # c
    <3>1. Same(d) /\ Earned(d) /\ UNCHANGED <<reached, up>>
      BY <1>1, <2>2, OthersStay, CallKeeps DEF VerdictsAreEarned
    <3> QED BY <3>1 DEF Same, Earned
  <2> QED BY <2>1, <2>2
<1>2. ASSUME NEW d \in Calls, UNCHANGED <<stage, verdict, given, answered>>,
             reached \subseteq reached', up' => up
      PROVE  Earned(d)'
  BY <1>2 DEF VerdictsAreEarned, Earned
<1>3. ASSUME NEW r \in given, Leaves(r) PROVE VerdictsAreEarned'
  BY <1>2, <1>3 DEF Leaves, VerdictsAreEarned
<1>4. CASE Breaks              BY <1>2, <1>4 DEF Breaks, VerdictsAreEarned
<1>5. CASE UNCHANGED callVars  BY <1>2, <1>5 DEF callVars, VerdictsAreEarned
<1> QED BY <1>1, <1>3, <1>4, <1>5 DEF Next, VerdictsAreEarned

LEMMA PromisedHolds == OneKind => (Spec => []Promised)
<1> SUFFICES ASSUME OneKind PROVE Spec => []Promised
  OBVIOUS
<1>1. Promised /\ [Next]_callVars => Promised'
  BY TypeStep, OneWayStep, EarnedStep DEF Promised
<1> QED BY <1>1, InitPromised, PTL DEF Spec

(* A verdict stands for what its call did: ok for a submit some hub may get,   *)
(* gone for one none will, gone for a lookup that was asked only of a          *)
(* transport that is, and a reply for the one request it answers               *)
(* (hub.rs:277-330).                                                       *)
THEOREM VerdictsEarned == OneKind => (Spec => [](RequestsGoOneWay /\ VerdictsAreEarned))
  BY PromisedHolds, PTL DEF Promised

LEMMA DoneStays ==
  ASSUME Promised, [Next]_callVars, NEW d \in Calls, stage[d] = "done"
  PROVE  Same(d) /\ Of(d, asking') = {}
<1>1. Of(d, asking) = {}
  BY DEF Promised, RequestsGoOneWay, Of
<1>2. Same(d)
  <2>1. ASSUME NEW c \in Calls, CallStep(c) PROVE Same(d)
    BY <2>1, DoneRests, OthersStay DEF Promised
  <2>2. CASE UNCHANGED <<stage, verdict, given, asking, answered>>
    BY <2>2 DEF Same
  <2> QED BY <2>1, <2>2 DEF Next, Leaves, Breaks, callVars
<1> QED BY <1>1, <1>2 DEF Same

(* A verdict is the end of its call, whatever still happens to the requests it *)
(* made (hub.rs:277-330).                                                  *)
THEOREM VerdictsFinal == OneKind => (Spec => VerdictsAreFinal)
<1>1. ASSUME Promised, [Next]_callVars
      PROVE  [\A c \in Calls : stage[c] = "done" =>
                 /\ stage'[c] = "done" /\ verdict'[c] = verdict[c]
                 /\ Of(c, given') = Of(c, given)
                 /\ Of(c, asking') = {}
                 /\ Of(c, answered') = Of(c, answered)]_callVars
  BY <1>1, DoneStays DEF Same
<1> QED BY <1>1, PromisedHolds, PTL DEF Spec, VerdictsAreFinal
=============================================================================
