--------------------------------- MODULE Gate ---------------------------------
(***************************************************************************)
(* What the shim promises a wallet, whatever it does inside: a private      *)
(* request is shown to nobody but the hub, a public one to nobody but the   *)
(* operator of the indexer, one for the shim itself to neither, and an      *)
(* answer is passed off as somebody's only if they were shown the request.  *)
(***************************************************************************)

CONSTANT Requests   \* the requests a wallet connection can have under way

VARIABLES
    asked,    \* what each request is: nothing, private, public or own
    shown,    \* who has been shown it
    answer    \* whose answer the wallet has: none, shim, gone, or a party's

vars == <<asked, shown, answer>>

Kinds   == {"private", "public", "own"}
Parties == {"operator", "hub", "platform"}

MayBeShown(kind) ==
    CASE kind = "private" -> {"hub"}
      [] kind = "public"  -> {"operator"}
      [] kind = "own"     -> {"platform"}
      [] OTHER            -> {}

Init ==
    /\ asked = [r \in Requests |-> "nothing"]
    /\ shown = [r \in Requests |-> {}]
    /\ answer = [r \in Requests |-> "none"]

(* A new request takes the place of one that is over; the shim may answer it *)
(* on the spot.                                                              *)
Ask(r, kind) ==
    /\ asked[r] = "nothing" \/ answer[r] # "none"
    /\ asked' = [asked EXCEPT ![r] = kind]
    /\ shown' = [shown EXCEPT ![r] = {}]
    /\ \E a \in {"none", "shim"} : answer' = [answer EXCEPT ![r] = a]

Show(r, party) ==
    /\ answer[r] = "none" /\ party \in MayBeShown(asked[r])
    /\ shown' = [shown EXCEPT ![r] = @ \cup {party}]
    /\ UNCHANGED <<asked, answer>>

Answer(r, whose) ==
    /\ asked[r] # "nothing" /\ answer[r] = "none"
    /\ whose \in shown[r] \cup {"shim", "gone"}
    /\ answer' = [answer EXCEPT ![r] = whose]
    /\ UNCHANGED <<asked, shown>>

Next ==
    \E r \in Requests :
        \/ \E kind \in Kinds : Ask(r, kind)
        \/ \E party \in Parties : Show(r, party)
        \/ \E whose \in Parties \cup {"shim", "gone"} : Answer(r, whose)

Spec == Init /\ [][Next]_vars
=============================================================================
