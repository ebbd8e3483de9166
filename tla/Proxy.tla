-------------------------------- MODULE Proxy --------------------------------
(***************************************************************************)
(* One wallet connection of zeronym/shim/src/proxy.rs: the requests that    *)
(* are multiplexed on it (handle), what intercept.rs makes of the ones it   *)
(* decodes, and the pool that holds the connection's one upstream to the    *)
(* backing indexer.  The hub is an environment that answers or fails within *)
(* its deadline (NymTransport is what is behind it); the indexer goes away, *)
(* stalls and comes back, and a connection to it can die unnoticed.         *)
(***************************************************************************)
EXTENDS Naturals

CONSTANTS
    Requests,   \* the requests that can be under way at once on a connection
    Queries,    \* what the wallet may ask, a subset of AllQueries
    Configs     \* how the shim may be configured, a subset of AllConfigs

(* A path as route_for tells paths apart, and a body as the code behind it   *)
(* tells bodies apart.  Bodies of a send: a transaction with Orchard actions *)
(* (one that fits a frame, one that does not), one without, bytes that are   *)
(* no transaction, no bytes at all, and a body that is not one plain gRPC    *)
(* message; of a lookup: a well-formed filter or any other.                  *)
SendPaths  == {"SendTransaction", "sendtransaction//"}
SendBodies == {"orchard", "oversize", "plain", "garbage", "empty", "unframed"}
OtherPaths == {"GetBlockRange", "health", "nym-status", "nym-diag",
               "caution-health", "attestation"}

AllQueries ==
    [path : SendPaths, body : SendBodies]
        \cup [path : {"GetTransaction"}, body : {"filter", "malformed"}]
        \cup [path : OtherPaths, body : {"any"}]

(* What serve_with_shutdown is given: a hub, the Caution relay and the       *)
(* diagnostics, each on or off.                                             *)
AllConfigs == [hub : BOOLEAN, caution : BOOLEAN, diag : BOOLEAN]

ASSUME InputAssumption == Queries \subseteq AllQueries /\ Configs \subseteq AllConfigs

VARIABLES
    config,     \* the configuration, which never changes
    pc,         \* idle, body, lock, dial, head, hub, attest or done
    query,      \* what each request asks
    reply,      \* how it was answered
    shown,      \* history: who has been shown it
    live,       \* PoolState::live: none, open, dead (unnoticed) or closed
    backoff,    \* PoolState::backoff_until is in the future
    handle,     \* the upstream each request holds, with the same states
    open,       \* upstream connections the shim holds open
    indexer     \* up, stalled (connects, answers nothing) or down

requestVars == <<pc, query, reply, shown>>
poolVars    == <<live, backoff, handle, open>>
vars        == <<config, requestVars, poolVars, indexer>>

NoQuery == [path |-> "none", body |-> "none"]

-----------------------------------------------------------------------------
(* What a request is                                                       *)

RouteMissesNear(q) ==
    CASE q.path = "SendTransaction" -> "intercept"
      [] q.path = "GetTransaction" -> "lookup"
      [] q.path = "caution-health" /\ config.caution -> "local"
      [] q.path = "attestation" /\ config.caution -> "attest"
      [] q.path \in {"health", "nym-status"} -> "local"
      [] q.path = "nym-diag" /\ config.diag -> "local"
      [] OTHER -> "pass"

(* route_for, and the gates handle puts on the routes it returns.          *)
Route(q) ==
    CASE q.path \in SendPaths -> "intercept"
      [] q.path = "GetTransaction" -> "lookup"
      [] q.path = "caution-health" /\ config.caution -> "local"
      [] q.path = "attestation" /\ config.caution -> "attest"
      [] q.path \in {"health", "nym-status"} -> "local"
      [] q.path = "nym-diag" /\ config.diag -> "local"
      [] OTHER -> "pass"

(* inspect: the class the classifier gives the bytes, or the fail-safe.    *)
Inspect(q) ==
    CASE q.body \in {"orchard", "oversize"} -> "migration"
      [] q.body = "plain" -> "passthrough"
      [] q.body \in {"garbage", "empty"} -> "unparseable"
      [] q.body = "unframed" -> "failsafe"
      [] OTHER -> "failsafe"

TreatAsMigrationOnlyKnown(q) == Inspect(q) \in {"migration", "failsafe"}
TreatAsMigration(q) == Inspect(q) # "passthrough"

-----------------------------------------------------------------------------
(* How a request moves                                                     *)

(* The reply ends the request, and drops the upstream it held.             *)
Reply(r, how) ==
    /\ pc' = [pc EXCEPT ![r] = "done"]
    /\ reply' = [reply EXCEPT ![r] = how]
    /\ handle' = [handle EXCEPT ![r] = "none"]

Goes(r, next) == pc' = [pc EXCEPT ![r] = next]
ShowsTo(r, party) == shown' = [shown EXCEPT ![r] = @ \cup {party}]

(* Where a request goes once its route, or its body, is known.             *)
Begin(route) ==
    CASE route = "intercept" -> "body"
      [] route = "lookup" /\ config.hub -> "body"
      [] route = "local" -> "done"
      [] route = "attest" -> "attest"
      [] OTHER -> "lock"

Start(r, q) ==
    /\ pc[r] \in {"idle", "done"}
    /\ Goes(r, Begin(Route(q)))
    /\ query' = [query EXCEPT ![r] = q]
    /\ reply' = [reply EXCEPT ![r] = IF Route(q) = "local" THEN "local" ELSE "none"]
    /\ shown' = [shown EXCEPT ![r] = {}]
    /\ UNCHANGED <<config, poolVars, indexer>>

(* send_transaction with the whole body: divert, or replay to the indexer. *)
Divert(r) ==
    CASE query[r].body = "unframed" -> Reply(r, "unavailable") /\ UNCHANGED shown
      [] query[r].body = "empty" -> Reply(r, "invalid") /\ UNCHANGED shown
      [] query[r].body = "oversize" ->
            (\E how \in {"exhausted", "unavailable"} : Reply(r, how)) /\ UNCHANGED shown
      [] OTHER -> Goes(r, "hub") /\ ShowsTo(r, "hub") /\ UNCHANGED <<reply, handle>>

SendRead(r) ==
    /\ pc[r] = "body" /\ query[r].path # "GetTransaction"
    /\ IF TreatAsMigration(query[r]) /\ config.hub
       THEN Divert(r)
       ELSE Goes(r, "lock") /\ UNCHANGED <<reply, shown, handle>>
    /\ UNCHANGED <<config, query, live, backoff, open, indexer>>

(* get_transaction with the whole filter, reached only with a hub.         *)
LookupRead(r) ==
    /\ pc[r] = "body" /\ query[r].path = "GetTransaction"
    /\ IF query[r].body = "malformed"
       THEN Reply(r, "invalid") /\ UNCHANGED shown
       ELSE Goes(r, "hub") /\ ShowsTo(r, "hub") /\ UNCHANGED <<reply, handle>>
    /\ UNCHANGED <<config, query, live, backoff, open, indexer>>

(* A broken stream, slower than BODY_READ_TIMEOUT, or too large, which only  *)
(* a send is told apart.                                                     *)
BodyFails(r) ==
    /\ pc[r] = "body"
    /\ \/ Reply(r, "aborted")
       \/ query[r].path # "GetTransaction" /\ Reply(r, "exhausted")
    /\ UNCHANGED <<config, query, shown, live, backoff, open, indexer>>

(* The hub's verdict, its answer, or nothing before the deadline. A lookup   *)
(* answered with some other transaction is refused.                         *)
LookupIsForQueryUnchecked(found) == TRUE
LookupIsForQuery(found) == found = "asked"

HubAnswers(r) ==
    /\ pc[r] = "hub"
    /\ IF query[r].path = "GetTransaction"
       THEN \E found \in {"asked", "another", "nothing"} :
               Reply(r, IF found # "nothing" /\ LookupIsForQuery(found)
                        THEN found ELSE "not_found")
       ELSE \E how \in {"accepted", "rejected", "exhausted"} : Reply(r, how)
    /\ UNCHANGED <<config, query, shown, live, backoff, open, indexer>>

HubFails(r) ==
    /\ pc[r] = "hub"
    /\ Reply(r, "unavailable")
    /\ UNCHANGED <<config, query, shown, live, backoff, open, indexer>>

(* forward_to_bootproofd: connect, relay, and wait with no deadline.       *)
Relay(r) ==
    /\ pc[r] = "attest" /\ shown[r] = {}
    /\ ShowsTo(r, "platform")
    /\ UNCHANGED <<config, pc, query, reply, poolVars, indexer>>

RelayEnds(r) ==
    /\ pc[r] = "attest"
    /\ \/ shown[r] # {} /\ Reply(r, "attested")
       \/ Reply(r, "unavailable")
    /\ UNCHANGED <<config, query, shown, live, backoff, open, indexer>>

-----------------------------------------------------------------------------
(* UpstreamPool::get, under its mutex, and forward                         *)

(* The mutex is held across the dial and nowhere else across an await.     *)
UnlockedAlways == TRUE
Unlocked == \A r \in Requests : pc[r] # "dial"

(* A handle whose connection is gone is noticed closed, never a dead one.  *)
Usable(state) == state \in {"open", "dead"}

Send(r, state) ==
    /\ Goes(r, "head")
    /\ handle' = [handle EXCEPT ![r] = state]
    /\ IF state = "open" THEN ShowsTo(r, "operator") ELSE UNCHANGED shown

TakeLive(r) ==
    /\ pc[r] = "lock" /\ Unlocked
    /\ Usable(live)
    /\ Send(r, live)
    /\ UNCHANGED <<config, query, reply, live, backoff, open, indexer>>

BackingOff(r) ==
    /\ pc[r] = "lock" /\ Unlocked
    /\ ~Usable(live) /\ backoff
    /\ Reply(r, "unreachable")
    /\ live' = "none"
    /\ UNCHANGED <<config, query, shown, backoff, open, indexer>>

Dial(r) ==
    /\ pc[r] = "lock" /\ Unlocked
    /\ ~Usable(live) /\ ~backoff
    /\ Goes(r, "dial")
    /\ live' = "none"
    /\ UNCHANGED <<config, query, reply, shown, backoff, handle, open, indexer>>

DialSucceeds(r) ==
    /\ pc[r] = "dial" /\ indexer # "down"
    /\ live' = "open" /\ open' = open + 1
    /\ backoff' = FALSE
    /\ Send(r, "open")
    /\ UNCHANGED <<config, query, reply, indexer>>

(* Refused, or longer than DIAL_TIMEOUT.                                   *)
DialFails(r) ==
    /\ pc[r] = "dial" /\ indexer # "up"
    /\ backoff' = TRUE
    /\ Reply(r, "unreachable")
    /\ UNCHANGED <<config, query, shown, live, open, indexer>>

HeadArrives(r) ==
    /\ pc[r] = "head" /\ handle[r] = "open" /\ indexer = "up"
    /\ Reply(r, "relayed")
    /\ UNCHANGED <<config, query, shown, live, backoff, open, indexer>>

(* The connection is gone, or UPSTREAM_HEAD_TIMEOUT has passed.            *)
HeadNeverGivenUp(r) == FALSE
HeadFails(r) ==
    /\ pc[r] = "head" /\ (handle[r] # "open" \/ indexer # "up")
    /\ Reply(r, "unreachable")
    /\ UNCHANGED <<config, query, shown, live, backoff, open, indexer>>

(* The wallet resets the stream or hangs up: the request's future is dropped *)
(* where it stands, and the mutex and a half-made connection with it.        *)
Cancel(r) ==
    /\ pc[r] \notin {"idle", "done"}
    /\ Reply(r, "gone")
    /\ UNCHANGED <<config, query, shown, live, backoff, open, indexer>>

-----------------------------------------------------------------------------
(* The indexer, the network and time                                       *)

Becomes(state, from, to) == IF state \in from THEN to ELSE state

AllConnectionsCountedTwice(from, to) ==
    /\ live' = Becomes(live, from, to)
    /\ handle' = [r \in Requests |-> Becomes(handle[r], from, to)]
    /\ open' = open - 1

AllConnections(from, to) ==
    /\ live' = Becomes(live, from, to)
    /\ handle' = [r \in Requests |-> Becomes(handle[r], from, to)]
    /\ open' = IF to = "closed" THEN 0 ELSE open

IndexerChanges ==
    /\ \E state \in {"up", "stalled", "down"} \ {indexer} : indexer' = state
    /\ UNCHANGED <<config, requestVars, poolVars>>

(* A restart, a reset or a dropped flow; the last one goes unnoticed.      *)
ConnectionLost ==
    /\ indexer # "up"
    /\ live = "open" \/ \E r \in Requests : handle[r] = "open"
    /\ \E state \in {"dead", "closed"} : AllConnections({"open"}, state)
    /\ UNCHANGED <<config, requestVars, backoff, indexer>>

(* The keepalive's PING goes unanswered and its task ends.                 *)
KeepaliveOff == FALSE
KeepaliveNotices ==
    /\ live = "dead" \/ \E r \in Requests : handle[r] = "dead"
    /\ AllConnections({"dead"}, "closed")
    /\ UNCHANGED <<config, requestVars, backoff, indexer>>

BackoffEnds ==
    /\ backoff /\ backoff' = FALSE
    /\ UNCHANGED <<config, requestVars, live, handle, open, indexer>>

-----------------------------------------------------------------------------
Init ==
    /\ config \in Configs
    /\ pc = [r \in Requests |-> "idle"]
    /\ query = [r \in Requests |-> NoQuery]
    /\ reply = [r \in Requests |-> "none"]
    /\ shown = [r \in Requests |-> {}]
    /\ live = "none" /\ backoff = FALSE /\ open = 0
    /\ handle = [r \in Requests |-> "none"]
    /\ indexer = "up"

Body(r)    == SendRead(r) \/ LookupRead(r) \/ BodyFails(r)
Hub(r)     == HubAnswers(r) \/ HubFails(r)
Get(r)     == TakeLive(r) \/ BackingOff(r) \/ Dial(r)
Dialled(r) == DialSucceeds(r) \/ DialFails(r)
Attest(r)  == Relay(r) \/ RelayEnds(r)
Head(r)    == HeadArrives(r) \/ HeadFails(r)

Request(r) ==
    \/ \E q \in Queries : Start(r, q)
    \/ Body(r) \/ Hub(r) \/ Attest(r) \/ Get(r) \/ Dialled(r) \/ Head(r) \/ Cancel(r)

Environment == IndexerChanges \/ ConnectionLost \/ KeepaliveNotices \/ BackoffEnds

Next == (\E r \in Requests : Request(r)) \/ Environment

Spec == Init /\ [][Next]_vars

(* Each wait of a request has a deadline and its task runs when it is woken; *)
(* the pool's mutex serves its waiters in order, so none is passed over for  *)
(* ever; and the keepalive and the backoff are timers. Nothing is assumed of *)
(* the indexer, of bootproofd or of the wallet.                              *)
Fairness ==
    /\ \A r \in Requests :
        /\ WF_vars(Body(r)) /\ WF_vars(Hub(r)) /\ SF_vars(Get(r))
        /\ WF_vars(Dialled(r)) /\ WF_vars(Head(r))
    /\ WF_vars(KeepaliveNotices) /\ WF_vars(BackoffEnds)

FairSpec == Spec /\ Fairness

-----------------------------------------------------------------------------
(* Properties                                                              *)

Replies == {"none", "local", "unavailable", "invalid", "exhausted", "aborted",
            "asked", "another", "not_found", "accepted", "rejected",
            "attested", "unreachable", "relayed", "gone"}

(* Every variable stays in its range.                                      *)
TypeOK ==
    /\ config \in Configs
    /\ pc \in [Requests -> {"idle", "body", "lock", "dial", "head", "hub", "attest", "done"}]
    /\ query \in [Requests -> Queries \cup {NoQuery}]
    /\ reply \in [Requests -> Replies]
    /\ shown \in [Requests -> SUBSET {"operator", "hub", "platform"}]
    /\ live \in {"none", "open", "dead", "closed"}
    /\ backoff \in BOOLEAN
    /\ handle \in [Requests -> {"none", "open", "dead", "closed"}]
    /\ open \in Nat
    /\ indexer \in {"up", "stalled", "down"}

(* What a request is by its nature, whatever the code makes of it: with a    *)
(* hub, a send whose body is not known to be free of Orchard actions and     *)
(* every lookup are private; the shim's own paths are its own when it owns   *)
(* them; all else is the operator's.                                         *)
Nature(q) ==
    CASE q = NoQuery -> "nothing"
      [] q.path \in SendPaths \cup {"GetTransaction"} ->
            IF config.hub /\ q.body # "plain" THEN "private" ELSE "public"
      [] q.path \in {"health", "nym-status"}
            \/ (q.path = "nym-diag" /\ config.diag)
            \/ (q.path \in {"caution-health", "attestation"} /\ config.caution) -> "own"
      [] OTHER -> "public"

WhoseAnswer(how) ==
    CASE how \in {"none", "gone"} -> how
      [] how = "relayed" -> "operator"
      [] how \in {"asked", "not_found", "accepted", "rejected"} -> "hub"
      [] how = "attested" -> "platform"
      [] how = "another" -> "a stranger"
      [] OTHER -> "shim"

Asked    == [r \in Requests |-> Nature(query[r])]
Answered == [r \in Requests |-> WhoseAnswer(reply[r])]

Promise == INSTANCE Gate WITH asked <- Asked, answer <- Answered

(* The proxy keeps the Gate's promise: a migration, anything that might be    *)
(* one, and with a hub every lookup, is shown to the hub alone and never to   *)
(* the operator; and no answer is passed off as somebody's who was not asked, *)
(* nor a transaction as the one that was looked up (rules 1-3 of proxy.rs;    *)
(* intercept.rs:160-166, 335-345, 371-398).                                   *)
KeepsPromise == Promise!Spec

(* The requests of a wallet connection share one upstream: at most one dial   *)
(* is under way, only while none is held, and every request that holds a      *)
(* connection not known to be gone holds the pool's (the mutex held across    *)
(* the dial, proxy.rs:413-417).                                               *)
SharedUpstream ==
    /\ open = IF Usable(live) THEN 1 ELSE 0
    /\ \A r \in Requests : Usable(handle[r]) => handle[r] = live
    /\ \A r \in Requests : pc[r] = "dial" =>
          live = "none" /\ \A o \in Requests \ {r} : pc[o] # "dial"

(* No request of the wallet's hangs, however the indexer, the hub and the     *)
(* other requests behave: every wait but the attestation relay's has a        *)
(* deadline, the one for the mutex through the dial's (proxy.rs:199-203,      *)
(* 947-973; intercept.rs:84-95).                                              *)
RequestsEnd ==
    \A r \in Requests :
        pc[r] \in {"body", "lock", "dial", "head", "hub"} ~> pc[r] = "done"

(* Once the indexer is back for good, requests for it stop failing, even on   *)
(* connections that died without a word (the redial of proxy.rs:387-391 and   *)
(* the keepalive of 284-300).                                                 *)
PoolRecovers ==
    <>[](indexer = "up") =>
        <>[][\A r \in Requests :
                ~(reply[r] = "none" /\ reply'[r] = "unreachable")]_vars
=============================================================================
