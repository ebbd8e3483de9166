---------------------------- MODULE NymTransport ----------------------------
(***************************************************************************)
(* The mixnet transport of zeronym/shim/src/nym.rs: the wallet calls that  *)
(* enter it through NymHandle (submit and get_transaction), the request    *)
(* channel, the correlation loop (run_transport / correlate / deliver) and *)
(* the two channels to the mixnet driver.                                  *)
(*                                                                         *)
(* What is behind the driver's channels (the driver task, the mixnet, the  *)
(* hubs) is an environment that may stall, lose, delay, duplicate, reorder *)
(* and answer with the wrong kind of frame.  Deadlines are choices: a wait *)
(* that could still be pending may always run out.                         *)
(***************************************************************************)
EXTENDS Naturals, Sequences, FiniteSets

CONSTANTS
    Submits,      \* wallet calls that submit a diverted transaction
    Lookups,      \* wallet calls that look a transaction up
    Oversize,     \* the submits whose transaction does not fit a frame
    HubCount,     \* number of configured hub addresses (--hub-nym)
    ReqCap,       \* capacity of the request channel     (32 in main.rs)
    OutCap,       \* capacity of the channel to the driver (8)
    InCap,        \* capacity of the channel from the driver (32)
    None          \* an empty oneshot

Calls   == Submits \cup Lookups
Targets == 0 .. (HubCount - 1)
Nonces  == Calls \X Targets

ASSUME CallsAssumption ==
    /\ Submits \cap Lookups = {}
    /\ Oversize \subseteq Submits
    /\ IsFiniteSet(Calls)
ASSUME SizesAssumption ==
    /\ HubCount \in Nat \ {0}
    /\ ReqCap \in Nat \ {0}
    /\ OutCap \in Nat \ {0}
    /\ InCap \in Nat \ {0}

(* A frame names the hub address it is bound for.  A message is what the   *)
(* hub `from` answered: an AckV1, a LookupReplyV1, or bytes that are        *)
(* neither.  The loop reads kind and nonce; `from` is only observed here.  *)
Frames   == [nonce : Nonces, target : Targets]
Messages == [kind : {"ack", "reply", "junk"}, nonce : Nonces, from : Targets]

ASSUME NoneAssumption == None \notin Messages

VARIABLES
    pc,           \* where each call stands: idle, sending, waiting, done
    attempt,      \* how many addresses the call's sweep has moved past
    start,        \* the address a lookup's sweep starts at
    dispatched,   \* submit's count of accepted hand-offs
    slot,         \* the oneshot of the current lookup attempt
    outcome,      \* what the caller was told
    cursor,       \* NymHandle::cursor, the next sweep's first address
    targets,      \* TargetCount: 0 until the driver publishes the list
    handles,      \* some NymHandle still exists
    requests,     \* the request channel
    transport,    \* the loop: running or stopped
    permit,       \* the loop holds reserved capacity on outFrames
    requestsOpen, \* the loop has not seen the request channel close
    pending,      \* nonces with a registered waiter
    inflight,     \* InflightCount, what the supervisor reads
    outFrames,    \* the channel to the driver
    inbound,      \* the channel from the driver
    driver,       \* the driver task: running or stopped
    handed,       \* history: frames a caller put in the request channel
    sent          \* history: frames the driver gave to the mixnet

callVars  == <<pc, attempt, start, dispatched, slot, outcome, cursor, handed>>
loopVars  == <<transport, permit, requestsOpen, pending, inflight>>
envVars   == <<targets, handles, driver, sent>>
chanVars  == <<requests, outFrames, inbound>>
vars      == <<callVars, loopVars, envVars, chanVars>>

Elements(s) == {s[i] : i \in DOMAIN s}
QueuedNonces == {f.nonce : f \in Elements(requests)}

-----------------------------------------------------------------------------
(* NymHandle: one call is one task, from the handler's await to its result *)

(* A nonce is minted for every address a call tries.                       *)
FreshNonceReused(c, t) == <<c, 0>>
FreshNonce(c, t) == <<c, t>>

(* The address the current attempt is for: submit goes through them from   *)
(* the first, a lookup from where the shared cursor stood.                 *)
TargetUnmoved(c) == IF c \in Submits THEN attempt[c] ELSE start[c]
Target(c) ==
    IF c \in Submits THEN attempt[c] ELSE (start[c] + attempt[c]) % HubCount

Current(c) == FreshNonce(c, Target(c))

(* A waiter is abandoned when its receiver is gone.  A submit drops the     *)
(* receiver of its ack as soon as the frame is accepted; a lookup holds the *)
(* receiver of its current attempt while it waits.                          *)
Listening(n) ==
    n[1] \in Lookups /\ pc[n[1]] = "waiting" /\ n = Current(n[1])

Finish(c, result) ==
    /\ pc' = [pc EXCEPT ![c] = "done"]
    /\ outcome' = [outcome EXCEPT ![c] = result]

StartSubmit(c) ==
    /\ pc[c] = "idle" /\ handles /\ c \in Submits
    /\ \/ /\ targets = 0
          /\ Finish(c, "gone")
       \/ /\ targets # 0 /\ c \in Oversize
          /\ Finish(c, "too_large")
       \/ /\ targets # 0 /\ c \notin Oversize
          /\ pc' = [pc EXCEPT ![c] = "sending"]
          /\ UNCHANGED outcome
    /\ UNCHANGED <<attempt, start, dispatched, slot, cursor, handed,
                   loopVars, envVars, chanVars>>

StartLookup(c) ==
    /\ pc[c] = "idle" /\ handles /\ c \in Lookups
    /\ \/ /\ targets = 0
          /\ Finish(c, "gone")
          /\ UNCHANGED <<start, cursor>>
       \/ /\ targets # 0
          /\ pc' = [pc EXCEPT ![c] = "sending"]
          /\ start' = [start EXCEPT ![c] = cursor]
          /\ cursor' = (cursor + 1) % HubCount
          /\ UNCHANGED outcome
    /\ UNCHANGED <<attempt, dispatched, slot, handed, loopVars, envVars, chanVars>>

(* requests.send completes: the frame is the transport's. A submit goes on  *)
(* to the next address, a lookup waits for this one's reply.                *)
SendSubmit(c) ==
    LET f == [nonce |-> Current(c), target |-> Target(c)] IN
    /\ pc[c] = "sending" /\ c \in Submits
    /\ transport = "running" /\ Len(requests) < ReqCap
    /\ requests' = Append(requests, f)
    /\ handed' = handed \cup {f}
    /\ dispatched' = [dispatched EXCEPT ![c] = @ + 1]
    /\ IF attempt[c] + 1 < HubCount
       THEN /\ attempt' = [attempt EXCEPT ![c] = @ + 1]
            /\ UNCHANGED <<pc, outcome>>
       ELSE /\ Finish(c, "ok")
            /\ UNCHANGED attempt
    /\ UNCHANGED <<start, slot, cursor, loopVars, envVars, outFrames, inbound>>

SendLookup(c) ==
    LET f == [nonce |-> Current(c), target |-> Target(c)] IN
    /\ pc[c] = "sending" /\ c \in Lookups
    /\ transport = "running" /\ Len(requests) < ReqCap
    /\ requests' = Append(requests, f)
    /\ handed' = handed \cup {f}
    /\ pc' = [pc EXCEPT ![c] = "waiting"]
    /\ UNCHANGED <<attempt, start, dispatched, slot, outcome, cursor,
                   loopVars, envVars, outFrames, inbound>>

(* A submit that cannot reach the next address, because the loop is gone or *)
(* stayed backpressured past the deadline, stops and reports what it did.   *)
VerdictForgetsCount(c) == "gone"
Verdict(c) == IF dispatched[c] > 0 THEN "ok" ELSE "gone"

BreakSubmit(c) ==
    /\ pc[c] = "sending" /\ c \in Submits
    /\ transport = "stopped" \/ Len(requests) = ReqCap
    /\ Finish(c, Verdict(c))
    /\ UNCHANGED <<attempt, start, dispatched, slot, cursor, handed,
                   loopVars, envVars, chanVars>>

(* A lookup attempt ran out of time: the next address, or the last error.   *)
NextAddress(c) ==
    IF attempt[c] + 1 < HubCount
    THEN /\ pc' = [pc EXCEPT ![c] = "sending"]
         /\ attempt' = [attempt EXCEPT ![c] = @ + 1]
         /\ UNCHANGED outcome
    ELSE /\ Finish(c, "timeout")
         /\ UNCHANGED attempt

LookupUnacceptedHangs(c) == FALSE
LookupUnaccepted(c) ==
    /\ pc[c] = "sending" /\ c \in Lookups
    /\ transport = "running" /\ Len(requests) = ReqCap
    /\ NextAddress(c)
    /\ UNCHANGED <<start, dispatched, slot, cursor, handed,
                   loopVars, envVars, chanVars>>

LookupUnanswered(c) ==
    /\ pc[c] = "waiting" /\ slot[c] = None
    /\ Current(c) \in pending \cup QueuedNonces
    /\ NextAddress(c)
    /\ UNCHANGED <<start, dispatched, slot, cursor, handed,
                   loopVars, envVars, chanVars>>

(* Both ways to learn the loop is gone: the channel is closed, or the       *)
(* waiter was dropped without being fired.                                  *)
LookupGone(c) ==
    /\ c \in Lookups
    /\ \/ pc[c] = "sending" /\ transport = "stopped"
       \/ /\ pc[c] = "waiting" /\ slot[c] = None
          /\ Current(c) \notin pending \cup QueuedNonces
    /\ Finish(c, "gone")
    /\ UNCHANGED <<attempt, start, dispatched, slot, cursor, handed,
                   loopVars, envVars, chanVars>>

LookupAnswered(c) ==
    /\ pc[c] = "waiting" /\ slot[c] # None
    /\ Finish(c, "reply")
    /\ UNCHANGED <<attempt, start, dispatched, slot, cursor, handed,
                   loopVars, envVars, chanVars>>

(* The wallet hangs up, or the handler's future is dropped.                 *)
Cancel(c) ==
    /\ pc[c] \in {"sending", "waiting"}
    /\ Finish(c, "cancelled")
    /\ UNCHANGED <<attempt, start, dispatched, slot, cursor, handed,
                   loopVars, envVars, chanVars>>

(* The proxy is shut down once no call is running; its handles go with it.  *)
DropHandles ==
    /\ handles
    /\ \A c \in Calls : pc[c] \in {"idle", "done"}
    /\ handles' = FALSE
    /\ UNCHANGED <<callVars, loopVars, targets, driver, sent, chanVars>>

-----------------------------------------------------------------------------
(* correlate: one action per select arm, each with the end of its turn      *)

(* The end of every turn: abandoned waiters are swept, the count is         *)
(* published, and the loop ends once nothing can arrive and nothing waits.  *)
Settle(registered, open, held) ==
    LET kept == {n \in registered : Listening(n)} IN
    /\ pending' = kept
    /\ inflight' = Cardinality(kept)
    /\ requestsOpen' = open
    /\ transport' = IF open \/ kept # {} THEN "running" ELSE "stopped"
    /\ permit' = (held /\ (open \/ kept # {}))

(* run_transport after correlate returned early: every waiter and every     *)
(* request still in the channel is dropped, and the count is cleared.       *)
Stop ==
    /\ transport' = "stopped" /\ permit' = FALSE
    /\ pending' = {} /\ requests' = <<>>
    /\ inflight' = 0
    /\ UNCHANGED requestsOpen

Reserve ==
    /\ transport = "running" /\ ~permit /\ requestsOpen
    /\ driver = "running" /\ Len(outFrames) < OutCap
    /\ Settle(pending, TRUE, TRUE)
    /\ UNCHANGED <<callVars, envVars, chanVars>>

ReserveFails ==
    /\ transport = "running" /\ ~permit /\ requestsOpen
    /\ driver = "stopped"
    /\ Stop
    /\ UNCHANGED <<callVars, envVars, outFrames, inbound>>

(* The capacity is already held, so the hand-over cannot block; a driver    *)
(* that is gone drops the frame.                                            *)
HandOver ==
    /\ transport = "running" /\ permit /\ requestsOpen /\ requests # <<>>
    /\ requests' = Tail(requests)
    /\ outFrames' = IF driver = "running" THEN Append(outFrames, Head(requests))
                                          ELSE outFrames
    /\ UNCHANGED <<callVars, envVars, inbound>>

AcceptForgetsWaiter == HandOver /\ Settle(pending, TRUE, FALSE)
AcceptKeepsPermit ==
    HandOver /\ Settle(pending \cup {Head(requests).nonce}, TRUE, TRUE)
Accept == HandOver /\ Settle(pending \cup {Head(requests).nonce}, TRUE, FALSE)

NoticeClose(open) ==
    /\ transport = "running" /\ permit /\ requestsOpen
    /\ requests = <<>> /\ ~handles
    /\ Settle(pending, open, TRUE)
    /\ UNCHANGED <<callVars, envVars, chanVars>>

RequestsClosedMissed == NoticeClose(TRUE)
RequestsClosed == NoticeClose(FALSE)

(* deliver: a reply is for the waiter of its nonce and its kind. The wrong  *)
(* kind leaves the waiter registered, and an unknown nonce is dropped.      *)
Matches(m) ==
    /\ m.nonce \in pending
    /\ \/ m.kind = "ack"   /\ m.nonce[1] \in Submits
       \/ m.kind = "reply" /\ m.nonce[1] \in Lookups

StillRegisteredIfKnown(m) == pending \ {m.nonce}
StillRegistered(m) == IF Matches(m) THEN pending \ {m.nonce} ELSE pending

Deliver(m) ==
    /\ inbound' = Tail(inbound)
    /\ slot' = IF Matches(m) /\ Listening(m.nonce)
               THEN [slot EXCEPT ![m.nonce[1]] = m] ELSE slot
    /\ Settle(StillRegistered(m), requestsOpen, permit)
    /\ UNCHANGED <<pc, attempt, start, dispatched, outcome, cursor, handed,
                   envVars, requests, outFrames>>

ReceiveAfterPermit ==
    transport = "running" /\ permit /\ inbound # <<>> /\ Deliver(Head(inbound))
Receive ==
    transport = "running" /\ inbound # <<>> /\ Deliver(Head(inbound))

InboundClosed ==
    /\ transport = "running" /\ inbound = <<>> /\ driver = "stopped"
    /\ Stop
    /\ UNCHANGED <<callVars, envVars, outFrames, inbound>>

SweepNever == FALSE
Sweep ==
    /\ transport = "running" /\ pending # {}
    /\ Settle(pending, requestsOpen, permit)
    /\ UNCHANGED <<callVars, envVars, chanVars>>

-----------------------------------------------------------------------------
(* The driver's side of the channels, the mixnet and the hubs              *)

PublishTargets ==
    /\ driver = "running" /\ targets = 0
    /\ targets' = HubCount
    /\ UNCHANGED <<callVars, loopVars, handles, driver, sent, chanVars>>

(* A frame that is lost, whose send fails, or whose client is torn down     *)
(* under it, is one no hub answers.                                         *)
DriverSends ==
    /\ driver = "running" /\ targets # 0 /\ outFrames # <<>>
    /\ outFrames' = Tail(outFrames)
    /\ sent' = sent \cup {Head(outFrames)}
    /\ UNCHANGED <<callVars, loopVars, targets, handles, driver, requests, inbound>>

DriverStops ==
    /\ driver = "running" /\ targets # 0
    /\ driver' = "stopped"
    /\ outFrames' = <<>>
    /\ UNCHANGED <<callVars, loopVars, targets, handles, sent, requests, inbound>>

(* A hub answers a frame it was sent, any number of times, in any order,    *)
(* with whatever it likes; it knows no nonce it was not sent.               *)
HubAnswers(f, kind) ==
    /\ f \in sent
    /\ driver = "running" /\ transport = "running" /\ Len(inbound) < InCap
    /\ inbound' = Append(inbound, [kind |-> kind, nonce |-> f.nonce, from |-> f.target])
    /\ UNCHANGED <<callVars, loopVars, envVars, requests, outFrames>>

-----------------------------------------------------------------------------
Init ==
    /\ pc = [c \in Calls |-> "idle"]
    /\ attempt = [c \in Calls |-> 0]
    /\ start = [c \in Calls |-> 0]
    /\ dispatched = [c \in Calls |-> 0]
    /\ slot = [c \in Calls |-> None]
    /\ outcome = [c \in Calls |-> "none"]
    /\ cursor = 0
    /\ targets = 0
    /\ handles = TRUE
    /\ requests = <<>> /\ outFrames = <<>> /\ inbound = <<>>
    /\ transport = "running"
    /\ permit = FALSE
    /\ requestsOpen = TRUE
    /\ pending = {}
    /\ inflight = 0
    /\ driver = "running"
    /\ handed = {} /\ sent = {}

CallStep(c) ==
    \/ SendSubmit(c) \/ BreakSubmit(c)
    \/ SendLookup(c) \/ LookupUnaccepted(c) \/ LookupUnanswered(c)
    \/ LookupGone(c) \/ LookupAnswered(c)

Call(c) == StartSubmit(c) \/ StartLookup(c) \/ CallStep(c) \/ Cancel(c)

Loop ==
    \/ Reserve \/ ReserveFails \/ Accept \/ RequestsClosed
    \/ Receive \/ InboundClosed \/ Sweep

Environment ==
    \/ DropHandles \/ PublishTargets \/ DriverSends \/ DriverStops
    \/ \E f \in sent, kind \in {"ack", "reply", "junk"} : HubAnswers(f, kind)

Next == (\E c \in Calls : Call(c)) \/ Loop \/ Environment

Spec == Init /\ [][Next]_vars

(* A call's task runs whenever its channel, its oneshot or its deadline     *)
(* wakes it, and select! polls its ready arms in random order, so an arm    *)
(* that stays ready is taken. Nothing is assumed of wallets, of the driver  *)
(* or of the hubs.                                                          *)
Fairness ==
    /\ \A c \in Calls : WF_vars(CallStep(c))
    /\ WF_vars(Reserve) /\ WF_vars(ReserveFails) /\ WF_vars(Accept)
    /\ WF_vars(RequestsClosed) /\ WF_vars(Receive)
    /\ WF_vars(InboundClosed) /\ WF_vars(Sweep)

FairSpec == Spec /\ Fairness

-----------------------------------------------------------------------------
(* Properties                                                              *)

(* Every variable stays in its range, and both channels the shim fills keep *)
(* within their capacity, the loop's reserved slot included.                *)
TypeOK ==
    /\ pc \in [Calls -> {"idle", "sending", "waiting", "done"}]
    /\ attempt \in [Calls -> Targets]
    /\ start \in [Calls -> Targets]
    /\ dispatched \in [Calls -> Nat]
    /\ slot \in [Calls -> Messages \cup {None}]
    /\ outcome \in [Calls -> {"none", "ok", "too_large", "gone", "timeout",
                              "reply", "cancelled"}]
    /\ cursor \in Targets
    /\ targets \in {0, HubCount}
    /\ handles \in BOOLEAN
    /\ requests \in Seq(Frames) /\ Len(requests) <= ReqCap
    /\ transport \in {"running", "stopped"}
    /\ permit \in BOOLEAN
    /\ requestsOpen \in BOOLEAN
    /\ pending \in SUBSET Nonces
    /\ inflight \in Nat
    /\ outFrames \in Seq(Frames)
    /\ Len(outFrames) + (IF permit THEN 1 ELSE 0) <= OutCap
    /\ inbound \in Seq(Messages) /\ Len(inbound) <= InCap
    /\ driver \in {"running", "stopped"}
    /\ handed \in SUBSET Frames
    /\ sent \in SUBSET Frames

HandedBy(c) == {f \in handed : f.nonce[1] = c}

(* What a lookup is answered with is a lookup reply to its own current      *)
(* attempt, from the hub that attempt was sent to, never a late answer to   *)
(* an attempt it gave up on nor an answer to another call: the fresh nonce  *)
(* of each_target (nym.rs:748-750) and the kind check of deliver.           *)
AnswerIsCurrent ==
    \A c \in Calls : slot[c] # None =>
        /\ c \in Lookups
        /\ slot[c].kind = "reply"
        /\ slot[c].nonce = Current(c)
        /\ slot[c].from = Target(c)
        /\ [nonce |-> Current(c), target |-> Target(c)] \in sent

(* A submit reports success exactly when some frame of it was handed over,  *)
(* and failure only when none was: a hand-off is never reported as a        *)
(* failure because of the address after it (nym.rs:683-702).                *)
VerdictMatchesHandOff ==
    \A c \in Submits :
        /\ outcome[c] = "ok" => HandedBy(c) # {}
        /\ outcome[c] \in {"gone", "too_large"} => HandedBy(c) = {}

(* A lookup that reached the transport is told the transport is gone only   *)
(* when it is: neither a stray reply nor the sweep drops a live waiter      *)
(* (nym.rs:802-813, 1040-1077).                                             *)
GoneMeansGone ==
    \A c \in Lookups :
        outcome[c] = "gone" /\ HandedBy(c) # {} => transport = "stopped"

(* The count the supervisor reads before it rotates the client includes     *)
(* every lookup whose frame has left the loop and whose caller still waits, *)
(* and a loop that ended leaves no count behind (nym.rs:835-846, 915-920).  *)
Unanswered ==
    {c \in Lookups :
        /\ Listening(Current(c)) /\ slot[c] = None
        /\ [nonce |-> Current(c), target |-> Target(c)] \in Elements(outFrames) \cup sent}
CountCoversWaiting ==
    IF transport = "running" THEN Cardinality(Unanswered) <= inflight
                             ELSE inflight = 0

(* A registered waiter leaves the map only by being answered, by being      *)
(* abandoned by its caller, or with the loop (nym.rs:913-919, 1040-1077).   *)
WaitersAreKept ==
    [][\A n \in pending \ pending' :
          \/ slot'[n[1]] # slot[n[1]]
          \/ ~Listening(n)
          \/ transport' = "stopped"]_vars

(* Every call that is started ends, whatever the loop, the driver and the   *)
(* hubs do: each wait has a deadline (nym.rs:659, 766-776, 802-813).        *)
CallsEnd ==
    \A c \in Calls : pc[c] \in {"sending", "waiting"} ~> pc[c] = "done"

(* The loop never stops reading replies: a full inbound channel is drained  *)
(* even if the driver never takes another frame (nym.rs:857-866).           *)
InboundIsServed ==
    Len(inbound) = InCap ~> Len(inbound) < InCap \/ transport = "stopped"

(* A waiter whose caller has gone is eventually swept, even with no traffic *)
(* to turn the loop (nym.rs:905-919).                                       *)
AbandonedAreSwept ==
    \A n \in Lookups \X Targets :
        n \in pending /\ ~Listening(n) ~> n \notin pending

(* The loop ends with its driver, and once every handle is dropped and the  *)
(* requests are drained, provided it holds the slot without which it does   *)
(* not look at the closed channel (nym.rs:868-874, 898-903, 921-923).       *)
LoopEnds ==
    driver = "stopped" \/ (~handles /\ permit /\ requests = <<>>)
        ~> transport = "stopped"

(* The inductive invariant behind the safety properties: frames carry a     *)
(* nonce minted for their own address, only handed frames travel, every     *)
(* answer is to a frame that was sent, a filled oneshot belongs to the      *)
(* attempt its caller is still on, and a waiting lookup that nothing has    *)
(* answered is queued or registered as long as the loop runs.               *)
FramesAreFresh == \A f \in handed : f.nonce = FreshNonce(f.nonce[1], f.target)

OnlyHandedTravels ==
    Elements(requests) \cup Elements(outFrames) \cup sent \subseteq handed

AnswersAreToSent ==
    \A m \in Elements(inbound) : [nonce |-> m.nonce, target |-> m.from] \in sent

SlotsAreCurrent ==
    \A c \in Calls : slot[c] # None =>
        /\ pc[c] \in {"waiting", "done"} /\ c \in Lookups
        /\ slot[c].kind = "reply" /\ slot[c].nonce = Current(c)
        /\ [nonce |-> slot[c].nonce, target |-> slot[c].from] \in sent

WaitersAreRegistered ==
    \A c \in Lookups :
        pc[c] = "waiting" /\ slot[c] = None /\ transport = "running"
            => Current(c) \in pending \cup QueuedNonces

HandOffsAreCounted ==
    /\ \A c \in Calls : pc[c] = "idle" => HandedBy(c) = {}
    /\ \A c \in Calls : outcome[c] # "none" => pc[c] = "done"
    /\ \A c \in Submits : dispatched[c] > 0 <=> HandedBy(c) # {}
    /\ \A c \in Oversize : HandedBy(c) = {} /\ pc[c] \in {"idle", "done"}

IInv ==
    /\ TypeOK /\ FramesAreFresh /\ OnlyHandedTravels /\ AnswersAreToSent
    /\ SlotsAreCurrent /\ WaitersAreRegistered /\ HandOffsAreCounted
    /\ VerdictMatchesHandOff /\ GoneMeansGone

(* What the calls, the loop and the driver amount to for a caller.           *)
Stage    == [c \in Calls |-> IF pc[c] \in {"sending", "waiting"} THEN "open" ELSE pc[c]]
Given    == {<<f.nonce[1], f.target>> : f \in handed}
Asking   == {<<c, Target(c)>> : c \in {d \in Calls : pc[d] = "waiting"}}
Reached  == {<<f.nonce[1], f.target>> : f \in sent}
Answered == {<<c, slot[c].from>> : c \in {d \in Calls : outcome[d] = "reply"}}
Promise == INSTANCE HubCalls WITH
    stage <- Stage, verdict <- outcome, given <- Given, asking <- Asking,
    reached <- Reached, answered <- Answered, up <- (transport = "running")

(* The transport implements what HubTransport promises: one verdict a call,   *)
(* justified by what its own requests met, each address asked at most once    *)
(* and none after the verdict, whatever is lost, late, repeated or stopped     *)
(* (nym.rs:573-815, hub.rs:277-330).                                        *)
KeepsCallPromise == Promise!Spec

(* What nym.rs:635-636 says of submit: it reaches every address,            *)
(* unconditionally. It does not: it stops at a backpressured transport.     *)
SubmitReachesEveryAddress ==
    \A c \in Submits : outcome[c] = "ok" =>
        \A t \in Targets : \E f \in HandedBy(c) : f.target = t
=============================================================================
