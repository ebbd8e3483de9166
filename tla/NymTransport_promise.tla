------------------------ MODULE NymTransport_promise ------------------------
(***************************************************************************)
(* NymTransport implements HubCalls, for any number of calls and addresses     *)
(* and any capacities: a step of a call is a step of the same call there, a   *)
(* step of the loop is the end of the transport or nothing, and of the rest    *)
(* only a frame that leaves is more than nothing.                            *)
(***************************************************************************)
EXTENDS NymTransport_proofs

-----------------------------------------------------------------------------
(* Only a lookup waits: a submit has nobody to wait for.                      *)
WaitersAreLookups == \A c \in Submits : pc[c] # "waiting"

LEMMA WaitersAreLookupsStep ==
  ASSUME IInv, WaitersAreLookups, [Next]_vars
  PROVE  WaitersAreLookups'
<1>1. ASSUME UNCHANGED pc PROVE WaitersAreLookups'
  BY <1>1 DEF WaitersAreLookups
<1>2. ASSUME NEW c \in Calls, Call(c), NEW d \in Submits PROVE pc'[d] # "waiting"
  <2>1. CASE d # c
    BY <1>2, <2>1, CallFrame DEF WaitersAreLookups, IInv, Calls
  <2>2. CASE d = c
    <3> USE <1>2, <2>2, CallsAssumption DEF IInv, TypeOK, Finish, NextAddress
    <3>1. c \notin Lookups /\ pc[c] # "waiting"
      BY DEF WaitersAreLookups
    <3> QED
      BY <3>1 DEF Call, CallStep, StartSubmit, StartLookup, SendSubmit, SendLookup,
         BreakSubmit, LookupUnaccepted, LookupUnanswered, LookupGone, LookupAnswered, Cancel
  <2> QED BY <2>1, <2>2
<1>3. CASE Loop         BY <1>1, <1>3, LoopFrame
<1>4. CASE Environment  BY <1>1, <1>4, EnvironmentFrame DEF callVars
<1>5. CASE UNCHANGED vars
  BY <1>1, <1>5 DEF vars, callVars
<1> QED BY <1>2, <1>3, <1>4, <1>5 DEF Next, WaitersAreLookups

LEMMA WaitersHold == Spec => []WaitersAreLookups
<1>1. Init => WaitersAreLookups
  BY DEF Init, WaitersAreLookups, Calls
<1> QED BY <1>1, WaitersAreLookupsStep, TransportInvariant, PTL DEF Spec

-----------------------------------------------------------------------------
(* The mapping: what one call's step does to each part of it               *)

LEMMA StageMove ==
  ASSUME TypeOK, NEW c \in Calls, NEW x, pc' = [pc EXCEPT ![c] = x]
  PROVE  Stage' = [Stage EXCEPT ![c] = IF x \in {"sending", "waiting"} THEN "open" ELSE x]
  BY DEF Stage, TypeOK

LEMMA AskedByCall ==
  ASSUME NEW c \in Calls
  PROVE  Promise!Of(c, Asking) = IF pc[c] = "waiting" THEN {<<c, Target(c)>>} ELSE {}
  BY DEF Promise!Of, Asking

LEMMA AskingMove ==
  ASSUME TypeOK, NEW c \in Calls, Call(c)
  PROVE  Asking' = (Asking \ Promise!Of(c, Asking))
                      \cup (IF pc'[c] = "waiting" THEN {<<c, Target(c)'>>} ELSE {})
<1>1. \A d \in Calls \ {c} : pc'[d] = pc[d] /\ Target(d)' = Target(d)
  BY CallFrame, SameAttempt
<1>2. \A d \in Calls \ {c} : (<<d, Target(d)>> \in Asking <=> pc[d] = "waiting")
  BY DEF Asking
<1> QED BY <1>1 DEF Asking, Promise!Of

(* A call that can still step has been told nothing, and its answer is that    *)
(* of the hub it is asking.                                                *)
LEMMA CallNotTold ==
  ASSUME IInv, NEW c \in Calls, Call(c)
  PROVE  outcome[c] = "none"
<1>1. pc[c] # "done"
  BY DEF Call, CallStep, StartSubmit, StartLookup, SendSubmit, SendLookup, BreakSubmit,
     LookupUnaccepted, LookupUnanswered, LookupGone, LookupAnswered, Cancel
<1> QED BY <1>1 DEF IInv, HandOffsAreCounted

LEMMA AnsweredMove ==
  ASSUME IInv, NEW c \in Calls, Call(c)
  PROVE  Answered' = Answered
                      \cup (IF outcome'[c] = "reply" THEN {<<c, slot[c].from>>} ELSE {})
<1>1. UNCHANGED slot /\ \A d \in Calls \ {c} : outcome'[d] = outcome[d]
  BY CallFrame DEF IInv
<1>2. outcome[c] # "reply"
  BY CallNotTold
<1> QED BY <1>1, <1>2 DEF Answered

LEMMA GivenMove ==
  ASSUME NEW c \in Calls, handed' = handed \cup {CurrentFrame(c)}
  PROVE  Given' = Given \cup {<<c, Target(c)>>}
<1>1. CurrentFrame(c).nonce[1] = c /\ CurrentFrame(c).target = Target(c)
  BY DEF CurrentFrame, Current, FreshNonce
<1> QED BY <1>1 DEF Given

LEMMA GivenByCall ==
  ASSUME NEW c \in Calls
  PROVE  Promise!Of(c, Given) # {} <=> HandedBy(c) # {}
<1>1. \A f \in HandedBy(c) : <<c, f.target>> \in Promise!Of(c, Given)
  BY DEF Promise!Of, Given, HandedBy
<1>2. ASSUME NEW r \in Promise!Of(c, Given) PROVE HandedBy(c) # {}
  <2>1. PICK f \in handed : r = <<f.nonce[1], f.target>> /\ r[1] = c
    BY <1>2 DEF Promise!Of, Given
  <2> QED BY <2>1 DEF HandedBy
<1> QED BY <1>1, <1>2

(* The request of the attempt a call is about to make is not made yet.        *)
LEMMA NotGivenYet ==
  ASSUME IInv, Places, NEW c \in Calls, pc[c] = "sending"
  PROVE  <<c, Target(c)>> \notin Given
<1> SUFFICES ASSUME NEW f \in handed, f.nonce[1] = c, f.target = Target(c) PROVE FALSE
  BY DEF Given
<1>1. f.nonce = FreshNonce(c, Target(c))
  BY DEF IInv, FramesAreFresh
<1>2. Target(c) = AddressOf(c, attempt[c]) /\ attempt[c] \in Targets
  BY DEF Target, AddressOf, IInv, TypeOK
<1>3. FreshNonce(c, AddressOf(c, attempt[c])) \notin HandedNonces
  BY <1>2 DEF Places, UntriedAreFresh, Untried
<1> QED BY <1>1, <1>2, <1>3 DEF HandedNonces

-----------------------------------------------------------------------------
(* A call                                                                  *)

(* What no step of a call touches, and what most leave alone.                *)
LEMMA CallLeaves ==
  ASSUME IInv, NEW c \in Calls, Call(c)
  PROVE  /\ UNCHANGED <<Reached, transport>>
         /\ handed' = handed => UNCHANGED Given
         /\ pc[c] # "waiting" /\ pc'[c] # "waiting" => UNCHANGED Asking
         /\ outcome'[c] # "reply" => UNCHANGED Answered
<1>1. UNCHANGED <<sent, transport>>
  BY CallFrame DEF IInv, envVars, loopVars
<1>2. pc[c] # "waiting" /\ pc'[c] # "waiting" => UNCHANGED Asking
  BY AskedByCall, AskingMove DEF IInv
<1>3. outcome'[c] # "reply" => UNCHANGED Answered
  BY AnsweredMove
<1> QED BY <1>1, <1>2, <1>3 DEF Given, Reached

LEMMA StartPromised ==
  ASSUME IInv, NEW c \in Calls, StartSubmit(c) \/ StartLookup(c)
  PROVE  Promise!CallStep(c)
<1>1. Call(c) /\ pc[c] = "idle" /\ UNCHANGED handed /\ TypeOK
  BY DEF Call, StartSubmit, StartLookup, IInv
<1>2. \/ pc' = [pc EXCEPT ![c] = "sending"] /\ UNCHANGED outcome
      \/ Finish(c, "gone")
      \/ c \in Submits /\ Finish(c, "too_large")
  BY DEF StartSubmit, StartLookup
<1>3. Stage[c] = "idle"
  BY <1>1 DEF Stage
<1>4. CASE pc' = [pc EXCEPT ![c] = "sending"] /\ UNCHANGED outcome
  <2>1. pc'[c] = "sending" /\ outcome'[c] = "none"
    BY <1>1, <1>4, CallNotTold DEF TypeOK
  <2>2. Stage' = [Stage EXCEPT ![c] = "open"]
    BY <1>1, <1>4, StageMove
  <2>3. Promise!Begins(c)
    BY <1>1, <1>3, <1>4, <2>1, <2>2, CallLeaves DEF Promise!Begins
  <2> QED BY <2>3 DEF Promise!CallStep
<1>5. ASSUME NEW v \in {"gone", "too_large"}, Finish(c, v)
      PROVE  Promise!Told(c, v) /\ UNCHANGED <<Given, Asking, Reached, Answered, transport>>
  <2>1. pc' = [pc EXCEPT ![c] = "done"] /\ outcome' = [outcome EXCEPT ![c] = v]
    BY <1>5 DEF Finish
  <2>2. pc'[c] = "done" /\ outcome'[c] = v
    BY <1>1, <2>1 DEF TypeOK
  <2>3. Stage' = [Stage EXCEPT ![c] = "done"]
    BY <1>1, <2>1, StageMove
  <2> QED BY <1>1, <2>1, <2>2, <2>3, CallLeaves DEF Promise!Told
<1>6. CASE Finish(c, "gone") \/ (c \in Submits /\ Finish(c, "too_large"))
  BY <1>3, <1>5, <1>6 DEF Promise!TurnedAway, Promise!CallStep
<1> QED BY <1>2, <1>4, <1>6

LEMMA SendSubmitPromised ==
  ASSUME IInv, Places, NEW c \in Calls, SendSubmit(c)
  PROVE  Promise!CallStep(c)
<1>1. /\ Call(c) /\ c \in Submits /\ pc[c] = "sending" /\ transport = "running" /\ TypeOK
      /\ handed' = handed \cup {CurrentFrame(c)}
  BY DEF Call, CallStep, SendSubmit, CurrentFrame, IInv
<1>2. Stage[c] = "open" /\ <<c, Target(c)>> \notin Given /\ Target(c) \in Targets
  BY <1>1, NotGivenYet, TargetType DEF Stage
<1>3. \/ UNCHANGED <<pc, outcome>>
      \/ Finish(c, "ok")
  BY DEF SendSubmit
<1>4. pc'[c] # "waiting" /\ outcome'[c] # "reply"
  BY <1>1, <1>3, CallNotTold DEF Finish, TypeOK
<1>5. Promise!Makes(c, Target(c)) /\ UNCHANGED Asking
  BY <1>1, <1>2, <1>4, GivenMove, CallLeaves DEF Promise!Makes
<1>6. UNCHANGED <<Stage, outcome>> \/ Promise!Told(c, "ok")
  <2>1. CASE UNCHANGED <<pc, outcome>>  BY <2>1 DEF Stage
  <2>2. CASE Finish(c, "ok")
    <3>1. Stage' = [Stage EXCEPT ![c] = "done"]
      BY <1>1, <2>2, StageMove DEF Finish
    <3> QED BY <2>2, <3>1 DEF Finish, Promise!Told
  <2> QED BY <1>3, <2>1, <2>2
<1> QED BY <1>1, <1>2, <1>5, <1>6 DEF Promise!Hands, Promise!CallStep

LEMMA SendLookupPromised ==
  ASSUME IInv, Places, NEW c \in Calls, SendLookup(c)
  PROVE  Promise!CallStep(c)
<1>1. /\ Call(c) /\ c \in Lookups /\ pc[c] = "sending" /\ transport = "running" /\ TypeOK
      /\ handed' = handed \cup {CurrentFrame(c)} /\ pc' = [pc EXCEPT ![c] = "waiting"]
      /\ UNCHANGED <<outcome, attempt, start>>
  BY DEF Call, CallStep, SendLookup, CurrentFrame, IInv
<1>2. Stage[c] = "open" /\ <<c, Target(c)>> \notin Given /\ Target(c) \in Targets
  BY <1>1, NotGivenYet, TargetType DEF Stage
<1>3. pc'[c] = "waiting" /\ outcome'[c] # "reply"
  BY <1>1, CallNotTold DEF TypeOK
<1>4. Promise!Makes(c, Target(c))
  BY <1>1, <1>2, <1>3, GivenMove, CallLeaves DEF Promise!Makes
<1>5. Promise!Of(c, Asking) = {} /\ Asking' = Asking \cup {<<c, Target(c)>>}
  <2>1. Target(c)' = Target(c)
    BY <1>1, SameAttempt
  <2>2. Promise!Of(c, Asking) = {}
    BY <1>1, AskedByCall
  <2> QED BY <1>1, <1>3, <2>1, <2>2, AskingMove
<1>6. UNCHANGED Stage
  BY <1>1 DEF Stage, TypeOK
<1> QED BY <1>1, <1>2, <1>4, <1>5, <1>6 DEF Promise!Asks, Promise!CallStep

(* Every way to end a call that is open.                                    *)
LEMMA EndPromised ==
  ASSUME IInv, NEW c \in Calls, Call(c), NEW v \in Promise!Verdicts,
         pc[c] \in {"sending", "waiting"}, Finish(c, v), UNCHANGED handed,
         Promise!Justified(c, v),
         v = "reply" => pc[c] = "waiting" /\ slot[c].from = Target(c)
  PROVE  Promise!CallStep(c)
<1>1. TypeOK /\ pc' = [pc EXCEPT ![c] = "done"] /\ outcome' = [outcome EXCEPT ![c] = v]
  BY DEF IInv, Finish
<1>2. pc'[c] = "done" /\ outcome'[c] = v /\ Stage[c] = "open"
  BY <1>1 DEF TypeOK, Stage
<1>3. Stage' = [Stage EXCEPT ![c] = "done"]
  BY <1>1, StageMove
<1>4. Asking' = Asking \ Promise!Of(c, Asking)
  BY <1>1, <1>2, AskingMove
<1>5. Answered' = IF v = "reply" THEN Answered \cup Promise!Of(c, Asking) ELSE Answered
  BY <1>2, AskedByCall, AnsweredMove
<1>6. UNCHANGED <<Given, Reached, transport>>
  BY CallLeaves
<1>7. Promise!Ends(c, v)
  BY <1>1, <1>2, <1>3, <1>4, <1>5, <1>6 DEF Promise!Ends, Promise!Told
<1> QED BY <1>7 DEF Promise!CallStep

LEMMA BreakPromised ==
  ASSUME IInv, NEW c \in Calls, BreakSubmit(c)
  PROVE  Promise!CallStep(c)
<1>1. /\ Call(c) /\ c \in Submits /\ pc[c] = "sending" /\ Finish(c, Verdict(c))
      /\ UNCHANGED handed
  BY DEF Call, CallStep, BreakSubmit
<1>2. dispatched[c] > 0 <=> Promise!Of(c, Given) # {}
  BY <1>1, GivenByCall DEF IInv, HandOffsAreCounted
<1>3. Verdict(c) \in Promise!Verdicts /\ Verdict(c) # "reply"
  BY DEF Verdict, Promise!Verdicts
<1>4. Promise!Justified(c, Verdict(c))
  BY <1>1, <1>2 DEF Verdict, Promise!Justified
<1> QED BY <1>1, <1>3, <1>4, EndPromised

(* A lookup that goes on to the next address, or has none left.              *)
LEMMA NextAddressPromised ==
  ASSUME IInv, WaitersAreLookups, NEW c \in Calls, LookupUnaccepted(c) \/ LookupUnanswered(c)
  PROVE  [Promise!CallStep(c)]_Promise!callVars
<1>1. /\ Call(c) /\ pc[c] \in {"sending", "waiting"} /\ UNCHANGED handed /\ TypeOK
      /\ \/ pc' = [pc EXCEPT ![c] = "sending"] /\ UNCHANGED outcome
         \/ Finish(c, "timeout")
  BY DEF Call, CallStep, LookupUnaccepted, LookupUnanswered, NextAddress, IInv
<1>2. c \in Lookups
  BY DEF LookupUnaccepted, LookupUnanswered, WaitersAreLookups, Calls
<1>3. CASE Finish(c, "timeout")
  <2>1. Promise!Justified(c, "timeout") /\ "timeout" \in Promise!Verdicts
    BY <1>2 DEF Promise!Justified, Promise!Verdicts
  <2> QED BY <1>1, <1>3, <2>1, EndPromised
<1>4. CASE pc' = [pc EXCEPT ![c] = "sending"] /\ UNCHANGED outcome
  <2>1. pc'[c] = "sending" /\ outcome'[c] = "none"
    BY <1>1, <1>4, CallNotTold DEF TypeOK
  <2>2. UNCHANGED <<Stage, Given, Reached, Answered, transport>>
    <3>1. Stage' = [Stage EXCEPT ![c] = "open"]
      BY <1>1, <1>4, StageMove
    <3>2. Stage = [d \in Calls |-> Stage[d]] /\ Stage[c] = "open"
      BY <1>1 DEF Stage
    <3>3. UNCHANGED Stage
      BY <3>1, <3>2
    <3> QED BY <1>1, <2>1, <3>3, CallLeaves
  <2>3. Asking' = Asking \ Promise!Of(c, Asking)
    BY <1>1, <2>1, AskingMove
  <2>4. CASE pc[c] = "sending"
    <3>1. UNCHANGED Asking
      BY <2>3, <2>4, AskedByCall
    <3> QED BY <1>4, <2>2, <3>1 DEF Promise!callVars
  <2>5. CASE pc[c] = "waiting"
    <3>1. Promise!Of(c, Asking) # {} /\ Stage[c] = "open"
      BY <2>5, AskedByCall DEF Stage
    <3>2. Promise!GivesUpOn(c)
      BY <1>4, <2>2, <2>3, <3>1 DEF Promise!GivesUpOn
    <3> QED BY <3>2 DEF Promise!CallStep
  <2> QED BY <1>1, <2>4, <2>5
<1> QED BY <1>1, <1>3, <1>4

LEMMA GonePromised ==
  ASSUME IInv, NEW c \in Calls, LookupGone(c)
  PROVE  Promise!CallStep(c)
<1>1. /\ Call(c) /\ c \in Lookups /\ pc[c] \in {"sending", "waiting"} /\ Finish(c, "gone")
      /\ UNCHANGED handed
  BY DEF Call, CallStep, LookupGone
<1>2. transport # "running"
  BY DEF LookupGone, IInv, WaitersAreRegistered
<1>3. Promise!Justified(c, "gone") /\ "gone" \in Promise!Verdicts
  BY <1>1, <1>2 DEF Promise!Justified, Promise!Verdicts
<1> QED BY <1>1, <1>3, EndPromised

LEMMA AnsweredPromised ==
  ASSUME IInv, NEW c \in Calls, LookupAnswered(c)
  PROVE  Promise!CallStep(c)
<1>1. /\ Call(c) /\ pc[c] = "waiting" /\ slot[c] # None /\ Finish(c, "reply")
      /\ UNCHANGED handed
  BY DEF Call, CallStep, LookupAnswered
<1>2. c \in Lookups /\ slot[c].from = Target(c)
      /\ [nonce |-> Current(c), target |-> Target(c)] \in sent
  BY <1>1, AnswerIsCurrentNow DEF AnswerIsCurrent
<1>3. <<c, Target(c)>> \in Reached
  <2> DEFINE f == [nonce |-> Current(c), target |-> Target(c)]
  <2>1. f \in sent /\ f.nonce[1] = c /\ f.target = Target(c)
    BY <1>2 DEF Current, FreshNonce
  <2> QED BY <2>1 DEF Reached
<1>4. Promise!Of(c, Asking) = {<<c, Target(c)>>}
  BY <1>1, AskedByCall
<1>5. Promise!Justified(c, "reply") /\ "reply" \in Promise!Verdicts
  BY <1>2, <1>3, <1>4 DEF Promise!Justified, Promise!Verdicts
<1> QED BY <1>1, <1>2, <1>5, EndPromised

LEMMA CancelPromised ==
  ASSUME IInv, NEW c \in Calls, Cancel(c)
  PROVE  Promise!CallStep(c)
<1>1. Promise!Justified(c, "cancelled") /\ "cancelled" \in Promise!Verdicts
  BY DEF Promise!Justified, Promise!Verdicts
<1> QED BY <1>1, EndPromised DEF Cancel, Call

-----------------------------------------------------------------------------
(* The loop, the driver and the hubs                                       *)

LEMMA LoopPromised ==
  ASSUME IInv, Loop
  PROVE  [Promise!Breaks]_Promise!callVars
<1>1. UNCHANGED <<pc, attempt, start, outcome, handed, sent>>
  BY LoopFrame DEF envVars
<1>2. UNCHANGED <<Stage, Given, Asking, Reached>>
  BY <1>1 DEF Stage, Given, Asking, Reached, Target
<1>3. ASSUME NEW d \in Calls, outcome[d] = "reply" PROVE slot'[d] = slot[d]
  <2>1. pc[d] = "done"
    BY <1>3 DEF IInv, HandOffsAreCounted
  <2>2. CASE Receive
    <3>1. slot' = slot \/ \E m : Listening(m.nonce) /\ slot' = [slot EXCEPT ![m.nonce[1]] = m]
      BY <2>2 DEF Receive, Deliver
    <3> QED BY <2>1, <3>1 DEF Listening, IInv, TypeOK
  <2> QED BY <2>2, LoopFrame
<1>4. UNCHANGED Answered
  BY <1>1, <1>3 DEF Answered
<1>5. transport = "running"
  BY LoopRuns
<1> QED BY <1>1, <1>2, <1>4, <1>5 DEF Promise!Breaks, Promise!callVars

LEMMA EnvironmentPromised ==
  ASSUME IInv, Environment
  PROVE  [\E r \in Given : Promise!Leaves(r)]_Promise!callVars
<1>1. UNCHANGED <<pc, attempt, start, outcome, slot, handed, transport>>
  BY EnvironmentFrame DEF callVars, loopVars
<1>2. UNCHANGED <<Stage, Given, Asking, Answered, transport>>
  BY <1>1 DEF Stage, Given, Asking, Answered, Target
<1>3. CASE UNCHANGED sent
  BY <1>1, <1>2, <1>3 DEF Reached, Promise!callVars
<1>4. CASE DriverSends
  <2> DEFINE f == Head(outFrames)
             r == <<f.nonce[1], f.target>>
  <2>1. outFrames # <<>> /\ outFrames \in Seq(Frames) /\ sent' = sent \cup {f}
    BY <1>4 DEF DriverSends, IInv, TypeOK
  <2>2. f \in Elements(outFrames)
    BY <2>1, ElementsTail
  <2>3. f \in handed
    BY <2>2 DEF IInv, OnlyHandedTravels
  <2>4. r \in Given /\ Reached' = Reached \cup {r}
    BY <2>1, <2>3 DEF Given, Reached
  <2> HIDE DEF f, r
  <2>5. CASE r \in Reached
    BY <1>1, <1>2, <2>4, <2>5 DEF Promise!callVars
  <2>6. CASE r \notin Reached
    BY <1>1, <1>2, <2>4, <2>6 DEF Promise!Leaves
  <2> QED BY <2>5, <2>6
<1>5. UNCHANGED sent \/ DriverSends
  BY DEF Environment, DropHandles, PublishTargets, DriverStops, HubAnswers, callVars, envVars
<1> QED BY <1>3, <1>4, <1>5

-----------------------------------------------------------------------------
(* The refinement                                                          *)

LEMMA CallPromised ==
  ASSUME IInv, Places, WaitersAreLookups, NEW c \in Calls, Call(c)
  PROVE  [Promise!CallStep(c)]_Promise!callVars
  BY StartPromised, SendSubmitPromised, SendLookupPromised, BreakPromised,
     NextAddressPromised, GonePromised, AnsweredPromised, CancelPromised
     DEF Call, CallStep

LEMMA StepPromised ==
  ASSUME IInv, Places, WaitersAreLookups, [Next]_vars
  PROVE  [Promise!Next]_Promise!callVars
<1>1. CASE \E c \in Calls : Call(c)
  BY <1>1, CallPromised DEF Promise!Next, Promise!Calls, Calls
<1>2. CASE Loop
  BY <1>2, LoopPromised DEF Promise!Next
<1>3. CASE Environment
  BY <1>3, EnvironmentPromised DEF Promise!Next
<1>4. CASE UNCHANGED vars
  BY <1>4 DEF vars, callVars, loopVars, envVars, Promise!callVars, Stage, Given, Asking,
              Reached, Answered, Target
<1> QED BY <1>1, <1>2, <1>3, <1>4 DEF Next

LEMMA InitPromised == Init => Promise!Init
<1> SUFFICES ASSUME Init PROVE Promise!Init
  OBVIOUS
<1>1. Stage = [c \in Calls |-> "idle"] /\ outcome = [c \in Calls |-> "none"]
  BY DEF Init, Stage
<1>2. Given = {} /\ Asking = {} /\ Reached = {} /\ Answered = {}
  BY DEF Init, Given, Asking, Reached, Answered
<1> QED BY <1>1, <1>2 DEF Init, Promise!Init, Promise!Calls, Calls

(* The mixnet transport implements what HubTransport promises its callers     *)
(* (hub.rs:277-330), with no bound on calls, addresses or capacities: a frame  *)
(* lost, late, repeated or answered by the wrong hub, a full channel and a     *)
(* loop that dies show as nothing but the verdicts the promise allows.        *)
THEOREM TransportKeepsPromise == Spec => KeepsCallPromise
<1> QED
  BY InitPromised, StepPromised, TransportInvariant, PlacesHold, WaitersHold, PTL
     DEF Spec, KeepsCallPromise, Promise!Spec

(* So every call of the transport gets what follows from that promise.        *)
HP == INSTANCE HubCalls_proofs WITH
    stage <- Stage, verdict <- outcome, given <- Given, asking <- Asking,
    reached <- Reached, answered <- Answered, up <- (transport = "running")

LEMMA SameSpec == Promise!Spec => HP!Spec
<1> USE DEF Promise!callVars, HP!callVars, Promise!Calls, HP!Calls, Promise!Of, HP!Of,
            Promise!Told, HP!Told
<1>1. Promise!Init => HP!Init
  BY DEF Promise!Init, HP!Init
<1>2. ASSUME NEW c \in Calls, Promise!CallStep(c) PROVE HP!CallStep(c)
  <2>1. Promise!Begins(c) => HP!Begins(c)
    BY DEF Promise!Begins, HP!Begins
  <2>2. Promise!TurnedAway(c) => HP!TurnedAway(c)
    BY DEF Promise!TurnedAway, HP!TurnedAway
  <2>3. Promise!GivesUpOn(c) => HP!GivesUpOn(c)
    BY DEF Promise!GivesUpOn, HP!GivesUpOn
  <2>4. ASSUME NEW t \in Targets
        PROVE  (Promise!Hands(c, t) => HP!Hands(c, t)) /\ (Promise!Asks(c, t) => HP!Asks(c, t))
    <3>1. Promise!Makes(c, t) => HP!Makes(c, t)
      BY DEF Promise!Makes, HP!Makes
    <3> QED BY <3>1 DEF Promise!Hands, HP!Hands, Promise!Asks, HP!Asks
  <2>5. ASSUME NEW v \in HP!Verdicts PROVE Promise!Ends(c, v) => HP!Ends(c, v)
    <3>1. Promise!Justified(c, v) => HP!Justified(c, v)
      BY DEF Promise!Justified, HP!Justified
    <3> QED BY <3>1 DEF Promise!Ends, HP!Ends
  <2>6. Promise!Verdicts = HP!Verdicts
    BY DEF Promise!Verdicts, HP!Verdicts
  <2> QED BY <1>2, <2>1, <2>2, <2>3, <2>4, <2>5, <2>6 DEF Promise!CallStep, HP!CallStep
<1>3. Promise!Next => HP!Next
  BY <1>2 DEF Promise!Next, HP!Next, Promise!Leaves, HP!Leaves, Promise!Breaks, HP!Breaks, Calls
<1> QED BY <1>1, <1>3, PTL DEF Promise!Spec, HP!Spec

LEMMA SameMeaning ==
  HP!RequestsGoOneWay /\ HP!VerdictsAreEarned
     => Promise!RequestsGoOneWay /\ Promise!VerdictsAreEarned
<1>1. HP!RequestsGoOneWay => Promise!RequestsGoOneWay
  BY DEF HP!RequestsGoOneWay, Promise!RequestsGoOneWay, HP!Of, Promise!Of
<1>2. ASSUME NEW c \in Calls PROVE HP!Earned(c) => Promise!Earned(c)
  BY DEF HP!Earned, Promise!Earned, HP!Of, Promise!Of
<1> QED
  BY <1>1, <1>2
     DEF HP!VerdictsAreEarned, Promise!VerdictsAreEarned, HP!Calls, Promise!Calls, Calls

(* No verdict of the transport is a guess and none is revised: a submit that   *)
(* is ok has been handed over, one that failed has not, a lookup has one       *)
(* answer, of a hub its frame left for, and is told the transport is gone      *)
(* only if it is; and nothing is handed over for a call that has been          *)
(* answered (nym.rs:573-815).                                              *)
THEOREM TransportVerdicts ==
  Spec => /\ [](Promise!RequestsGoOneWay /\ Promise!VerdictsAreEarned)
          /\ Promise!VerdictsAreFinal
<1>1. HP!OneKind
  BY CallsAssumption DEF HP!OneKind
<1>2. HP!Spec => [](HP!RequestsGoOneWay /\ HP!VerdictsAreEarned)
  BY <1>1, HP!VerdictsEarned
<1>3. HP!Spec => HP!VerdictsAreFinal
  BY <1>1, HP!VerdictsFinal
<1>4. HP!VerdictsAreFinal => Promise!VerdictsAreFinal
  BY PTL DEF HP!VerdictsAreFinal, Promise!VerdictsAreFinal, HP!Of, Promise!Of,
     HP!callVars, Promise!callVars, HP!Calls, Promise!Calls
<1>5. Promise!Spec => HP!Spec
  BY SameSpec
<1> QED
  BY <1>2, <1>3, <1>4, <1>5, TransportKeepsPromise, SameMeaning, PTL DEF KeepsCallPromise
=============================================================================
