------------------------------ MODULE HubCalls ------------------------------
(***************************************************************************)
(* What HubTransport (zeronym/shim/src/hub.rs) promises the wallet calls     *)
(* that go through it, submit and get_transaction, whatever carries them:    *)
(* nothing of nonces, waiters, channels or tasks.                          *)
(*                                                                         *)
(* A request is a call at one of the hub's addresses.  A call makes each of  *)
(* its requests at most once, a lookup one at a time, and none after its      *)
(* verdict; it has one verdict, which its own requests justify.             *)
(***************************************************************************)

CONSTANTS Submits, Lookups, Targets

Calls    == Submits \cup Lookups
Requests == Calls \X Targets

VARIABLES
    stage,     \* of each call: idle, open, done
    verdict,   \* what its caller was told, none until it is done
    given,     \* requests the transport has accepted
    asking,    \* lookups' requests that await their answer
    reached,   \* requests that left for the mixnet
    answered,  \* requests whose answer a lookup returned
    up         \* the transport still accepts requests

callVars == <<stage, verdict, given, asking, reached, answered, up>>

Of(c, requests) == {r \in requests : r[1] = c}

-----------------------------------------------------------------------------
Begins(c) ==
    /\ stage[c] = "idle"
    /\ stage' = [stage EXCEPT ![c] = "open"]
    /\ UNCHANGED <<verdict, given, asking, reached, answered, up>>

Told(c, v) ==
    /\ stage' = [stage EXCEPT ![c] = "done"]
    /\ verdict' = [verdict EXCEPT ![c] = v]

(* A call may be turned away before it has made any request: there is no      *)
(* address to send to yet, or the transaction fits no frame.                *)
TurnedAway(c) ==
    /\ stage[c] = "idle"
    /\ Told(c, "gone") \/ (c \in Submits /\ Told(c, "too_large"))
    /\ UNCHANGED <<given, asking, reached, answered, up>>

(* A request is made once, and a lookup's only when none of its own is still  *)
(* awaited.  A submit awaits nothing, and its last request ends it.          *)
Makes(c, t) ==
    /\ stage[c] = "open" /\ up
    /\ <<c, t>> \notin given
    /\ given' = given \cup {<<c, t>>}
    /\ UNCHANGED <<reached, answered, up>>

Hands(c, t) ==
    /\ c \in Submits /\ Makes(c, t)
    /\ UNCHANGED <<stage, verdict>> \/ Told(c, "ok")
    /\ UNCHANGED asking

Asks(c, t) ==
    /\ c \in Lookups /\ Makes(c, t)
    /\ Of(c, asking) = {}
    /\ asking' = asking \cup {<<c, t>>}
    /\ UNCHANGED <<stage, verdict>>

(* What a verdict says has happened: success is at least one hand-off and     *)
(* failure none, a transport that is gone is gone, an answer is the one being *)
(* asked for, by a hub the request has left for.                            *)
Justified(c, v) ==
    \/ v = "cancelled"
    \/ c \in Submits /\ v = "ok"      /\ Of(c, given) # {}
    \/ c \in Submits /\ v = "gone"    /\ Of(c, given) = {}
    \/ c \in Lookups /\ v = "timeout"
    \/ c \in Lookups /\ v = "gone"    /\ ~up
    \/ c \in Lookups /\ v = "reply"   /\ Of(c, asking) # {} /\ Of(c, asking) \subseteq reached

Ends(c, v) ==
    /\ stage[c] = "open" /\ Justified(c, v)
    /\ Told(c, v)
    /\ asking' = asking \ Of(c, asking)
    /\ answered' = IF v = "reply" THEN answered \cup Of(c, asking) ELSE answered
    /\ UNCHANGED <<given, reached, up>>

(* A lookup's request may go unanswered, and the lookup to another address.   *)
GivesUpOn(c) ==
    /\ stage[c] = "open" /\ Of(c, asking) # {}
    /\ asking' = asking \ Of(c, asking)
    /\ UNCHANGED <<stage, verdict, given, reached, answered, up>>

(* Nothing leaves that no call has made; and the transport ends once.         *)
Leaves(r) ==
    /\ r \in given \ reached
    /\ reached' = reached \cup {r}
    /\ UNCHANGED <<stage, verdict, given, asking, answered, up>>

Breaks ==
    /\ up /\ up' = FALSE
    /\ UNCHANGED <<stage, verdict, given, asking, reached, answered>>

-----------------------------------------------------------------------------
Init ==
    /\ stage = [c \in Calls |-> "idle"] /\ verdict = [c \in Calls |-> "none"]
    /\ given = {} /\ asking = {} /\ reached = {} /\ answered = {}
    /\ up = TRUE

Verdicts == {"ok", "gone", "timeout", "reply", "cancelled"}

CallStep(c) ==
    \/ Begins(c) \/ TurnedAway(c) \/ GivesUpOn(c)
    \/ \E t \in Targets : Hands(c, t) \/ Asks(c, t)
    \/ \E v \in Verdicts : Ends(c, v)

Next == (\E c \in Calls : CallStep(c)) \/ (\E r \in given : Leaves(r)) \/ Breaks

Spec == Init /\ [][Next]_callVars

-----------------------------------------------------------------------------
(* What the promise amounts to                                             *)

TypeOK ==
    /\ stage \in [Calls -> {"idle", "open", "done"}]
    /\ verdict \in [Calls -> Verdicts \cup {"none", "too_large"}]
    /\ given \subseteq Requests
    /\ up \in BOOLEAN

(* Requests go one way: only what was made leaves, only what left is answered, *)
(* and what is awaited is one request of an open lookup (hub.rs:277-330).     *)
RequestsGoOneWay ==
    /\ reached \subseteq given /\ answered \subseteq reached
    /\ \A r \in asking :
          /\ r \in given /\ r[1] \in Lookups /\ stage[r[1]] = "open"
          /\ Of(r[1], asking) = {r}

(* A verdict stands for what the call has done, for as long as it stands: a    *)
(* submit is ok exactly if some hub may get it, a lookup has at most one       *)
(* answer and is told that it has it, and is told the transport is gone after  *)
(* it was asked for only if it is (hub.rs:277-330).                          *)
Earned(c) ==
    /\ verdict[c] = "none" <=> stage[c] # "done"
    /\ stage[c] = "idle" => Of(c, given) = {}
    /\ verdict[c] = "reply" =>
          c \in Lookups /\ \E r \in reached : Of(c, answered) = {r}
    /\ verdict[c] # "reply" => Of(c, answered) = {}
    /\ verdict[c] = "ok" => c \in Submits /\ Of(c, given) # {}
    /\ verdict[c] \in {"gone", "too_large"} /\ Of(c, given) # {} =>
          c \in Lookups /\ verdict[c] = "gone" /\ ~up
VerdictsAreEarned == \A c \in Calls : Earned(c)

(* A verdict is the end of its call: it is never changed, and no request of the *)
(* call is made, awaited or answered after it (hub.rs:277-330).              *)
VerdictsAreFinal ==
    [][\A c \in Calls : stage[c] = "done" =>
          /\ stage'[c] = "done" /\ verdict'[c] = verdict[c]
          /\ Of(c, given') = Of(c, given)
          /\ Of(c, asking') = {}
          /\ Of(c, answered') = Of(c, answered)]_callVars
=============================================================================
