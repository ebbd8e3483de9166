---------------------------- MODULE Proxy_proofs ----------------------------
(***************************************************************************)
(* Proofs about a wallet connection, for any number of requests on it, any  *)
(* queries and any configuration: that its requests share one upstream, and *)
(* that the whole proxy implements the Gate.                                *)
(***************************************************************************)
EXTENDS Proxy, TLAPS

-----------------------------------------------------------------------------
(* The shared upstream                                                     *)

LEMMA RouteTypes ==
  ASSUME NEW q
  PROVE  Begin(Route(q)) \in {"body", "done", "attest", "lock"}
  BY DEF Begin

(* SharedUpstream is inductive as it stands, with the types.               *)
LEMMA PoolInit == Init => TypeOK /\ SharedUpstream
<1> SUFFICES ASSUME Init PROVE TypeOK /\ SharedUpstream
  OBVIOUS
<1>1. TypeOK
  BY DEF Init, TypeOK, Replies
<1>2. SharedUpstream
  BY DEF Init, SharedUpstream, Usable
<1> QED BY <1>1, <1>2

LEMMA TypesStep == TypeOK /\ [Next]_vars => TypeOK'
<1> SUFFICES ASSUME TypeOK, [Next]_vars PROVE TypeOK'
  OBVIOUS
<1> USE DEF TypeOK, Reply, Goes, ShowsTo, Replies, poolVars, requestVars
<1>1. ASSUME NEW r \in Requests, NEW q \in Queries, Start(r, q) PROVE TypeOK'
  BY <1>1, RouteTypes DEF Start
<1>2. ASSUME NEW r \in Requests, SendRead(r) PROVE TypeOK'
  BY <1>2 DEF SendRead, Divert
<1>3. ASSUME NEW r \in Requests, LookupRead(r) PROVE TypeOK'
  BY <1>3 DEF LookupRead
<1>4. ASSUME NEW r \in Requests, BodyFails(r) PROVE TypeOK'
  BY <1>4 DEF BodyFails
<1>5. ASSUME NEW r \in Requests, Hub(r) PROVE TypeOK'
  BY <1>5 DEF Hub, HubAnswers, HubFails
<1>6. ASSUME NEW r \in Requests, Attest(r) PROVE TypeOK'
  BY <1>6 DEF Attest, Relay, RelayEnds
<1>7. ASSUME NEW r \in Requests, Get(r) PROVE TypeOK'
  BY <1>7 DEF Get, TakeLive, BackingOff, Dial, Send
<1>8. ASSUME NEW r \in Requests, Dialled(r) PROVE TypeOK'
  <2>1. backoff' \in BOOLEAN
    BY <1>8, Zenon DEF Dialled, DialSucceeds, DialFails
  <2>2. CASE DialSucceeds(r)
    BY <2>1, <2>2 DEF DialSucceeds, Send
  <2>3. CASE DialFails(r)
    BY <2>1, <2>3 DEF DialFails
  <2> QED BY <1>8, <2>2, <2>3 DEF Dialled
<1>9. ASSUME NEW r \in Requests, Head(r) PROVE TypeOK'
  BY <1>9 DEF Head, HeadArrives, HeadFails
<1>10. ASSUME NEW r \in Requests, Cancel(r) PROVE TypeOK'
  BY <1>10 DEF Cancel
<1>11. CASE Environment
  <2>1. CASE IndexerChanges
    BY <2>1 DEF IndexerChanges
  <2>2. CASE ConnectionLost
    BY <2>2 DEF ConnectionLost, AllConnections, Becomes
  <2>3. CASE KeepaliveNotices
    BY <2>3 DEF KeepaliveNotices, AllConnections, Becomes
  <2>4. CASE BackoffEnds
    BY <2>4 DEF BackoffEnds
  <2> QED BY <1>11, <2>1, <2>2, <2>3, <2>4 DEF Environment
<1>12. CASE UNCHANGED vars
  BY <1>12 DEF vars
<1> QED
  BY <1>1, <1>2, <1>3, <1>4, <1>5, <1>6, <1>7, <1>8, <1>9, <1>10, <1>11, <1>12
     DEF Next, Request, Body

LEMMA PoolStep == TypeOK /\ SharedUpstream /\ [Next]_vars => SharedUpstream'
<1> SUFFICES ASSUME TypeOK, SharedUpstream, [Next]_vars PROVE SharedUpstream'
  OBVIOUS
<1> USE DEF TypeOK, SharedUpstream, Usable, Reply, Goes, poolVars, requestVars
<1>1. ASSUME NEW r \in Requests, NEW q \in Queries, Start(r, q) PROVE SharedUpstream'
  BY <1>1, RouteTypes DEF Start
<1>2. ASSUME NEW r \in Requests, SendRead(r) PROVE SharedUpstream'
  BY <1>2 DEF SendRead, Divert
<1>3. ASSUME NEW r \in Requests, LookupRead(r) PROVE SharedUpstream'
  BY <1>3 DEF LookupRead
<1>4. ASSUME NEW r \in Requests, BodyFails(r) PROVE SharedUpstream'
  BY <1>4 DEF BodyFails
<1>5. ASSUME NEW r \in Requests, Hub(r) PROVE SharedUpstream'
  BY <1>5 DEF Hub, HubAnswers, HubFails
<1>6. ASSUME NEW r \in Requests, Attest(r) PROVE SharedUpstream'
  BY <1>6 DEF Attest, Relay, RelayEnds
<1>7. ASSUME NEW r \in Requests, Get(r) PROVE SharedUpstream'
  <2>1. CASE TakeLive(r)
    BY <2>1 DEF TakeLive, Send
  <2>2. CASE BackingOff(r)
    BY <2>2 DEF BackingOff
  <2>3. CASE Dial(r)
    BY <2>3 DEF Dial, Unlocked
  <2> QED BY <1>7, <2>1, <2>2, <2>3 DEF Get
<1>8. ASSUME NEW r \in Requests, Dialled(r) PROVE SharedUpstream'
  <2>1. CASE DialSucceeds(r)
    BY <2>1 DEF DialSucceeds, Send
  <2>2. CASE DialFails(r)
    BY <2>2 DEF DialFails
  <2> QED BY <1>8, <2>1, <2>2 DEF Dialled
<1>9. ASSUME NEW r \in Requests, Head(r) PROVE SharedUpstream'
  BY <1>9 DEF Head, HeadArrives, HeadFails
<1>10. ASSUME NEW r \in Requests, Cancel(r) PROVE SharedUpstream'
  BY <1>10 DEF Cancel
<1>11. CASE Environment
  BY <1>11 DEF Environment, IndexerChanges, ConnectionLost, KeepaliveNotices,
               BackoffEnds, AllConnections, Becomes
<1>12. CASE UNCHANGED vars
  BY <1>12 DEF vars
<1> QED
  BY <1>1, <1>2, <1>3, <1>4, <1>5, <1>6, <1>7, <1>8, <1>9, <1>10, <1>11, <1>12
     DEF Next, Request, Body

(* The types hold of every reachable state.                                *)
THEOREM TypeCorrect == Spec => []TypeOK
  BY PoolInit, TypesStep, PTL DEF Spec

(* The requests of a connection never hold two upstreams, nor dial at once,   *)
(* however many they are (UpstreamPool::get under its mutex).                 *)
THEOREM OneUpstream == Spec => []SharedUpstream
  BY PoolInit, TypesStep, PoolStep, PTL DEF Spec

-----------------------------------------------------------------------------
(* The promise                                                             *)

Active(r) == pc[r] \notin {"idle", "done"}

(* What the code knows of a request at each point of its way, and that it has *)
(* shown it to whoever it awaits.                                            *)
OnItsWay(r) ==
    /\ pc[r] = "idle" <=> query[r] = NoQuery
    /\ Active(r) <=> pc[r] # "idle" /\ reply[r] = "none"
    /\ pc[r] = "body" =>
          query[r].path \in SendPaths \/ (query[r].path = "GetTransaction" /\ config.hub)
    /\ pc[r] \in {"lock", "dial", "head"} => Nature(query[r]) = "public"
    /\ pc[r] = "hub" => Nature(query[r]) = "private" /\ "hub" \in shown[r]
    /\ pc[r] = "attest" => Nature(query[r]) = "own" /\ shown[r] \subseteq {"platform"}
    /\ pc[r] # "head" => handle[r] = "none"
    /\ handle[r] = "open" => "operator" \in shown[r]

Kept == \A r \in Requests : OnItsWay(r)

(* What the wallet asks has a nature, and the route agrees with it.        *)
LEMMA Natures ==
  ASSUME TypeOK, NEW q \in Queries
  PROVE  q # NoQuery /\ Nature(q) \in {"private", "public", "own"}
<1>1. q # NoQuery
  BY InputAssumption DEF AllQueries, NoQuery, SendPaths, OtherPaths
<1> QED BY <1>1 DEF Nature

LEMMA Routes ==
  ASSUME TypeOK, NEW q \in Queries
  PROVE  /\ Begin(Route(q)) = "body" =>
               q.path \in SendPaths \/ (q.path = "GetTransaction" /\ config.hub)
         /\ Begin(Route(q)) = "lock" => Nature(q) = "public"
         /\ Begin(Route(q)) = "attest" => Nature(q) = "own"
         /\ Begin(Route(q)) = "done" <=> Route(q) = "local"
<1> USE DEF Begin, Route, SendPaths
<1>1. q # NoQuery
  BY Natures
<1>2. Begin(Route(q)) = "body" =>
        q.path \in SendPaths \/ (q.path = "GetTransaction" /\ config.hub)
  OBVIOUS
<1>3. Begin(Route(q)) = "lock" => Nature(q) = "public"
  BY <1>1 DEF Nature
<1>4. Begin(Route(q)) = "attest" => Nature(q) = "own"
  BY <1>1 DEF Nature
<1>5. Begin(Route(q)) = "done" <=> Route(q) = "local"
  OBVIOUS
<1> QED BY <1>2, <1>3, <1>4, <1>5

LEMMA KeptInit == Init => Kept
  BY DEF Init, Kept, OnItsWay, Active

(* A request that nothing happens to stays as it is.                       *)
LEMMA Untouched ==
  ASSUME NEW x \in Requests, OnItsWay(x), config' = config,
         UNCHANGED <<pc[x], query[x], reply[x], shown[x], handle[x]>>
  PROVE  OnItsWay(x)'
  BY DEF OnItsWay, Active, Nature

LEMMA OneMoves ==
  ASSUME Kept, NEW r \in Requests, OnItsWay(r)', config' = config,
         \A x \in Requests \ {r} :
            UNCHANGED <<pc[x], query[x], reply[x], shown[x], handle[x]>>
  PROVE  Kept'
  BY Untouched DEF Kept

(* A request that is answered is over, and holds nothing.                  *)
LEMMA ReplyKeeps ==
  ASSUME TypeOK, Kept, NEW r \in Requests, Active(r), NEW how, how # "none",
         Reply(r, how), UNCHANGED <<config, query, shown>>
  PROVE  Kept'
<1>1. OnItsWay(r)'
  BY DEF Kept, OnItsWay, Active, Reply, TypeOK
<1>2. \A x \in Requests \ {r} :
        UNCHANGED <<pc[x], query[x], reply[x], shown[x], handle[x]>>
  BY DEF Reply, TypeOK
<1> QED BY <1>1, <1>2, OneMoves

(* A request that goes on, and may be shown to somebody on the way.        *)
LEMMA GoesOnKeeps ==
  ASSUME TypeOK, Kept, NEW r \in Requests, NEW next, Goes(r, next), OnItsWay(r)',
         UNCHANGED <<config, query, reply>>, NEW how, NEW who,
         handle' = [handle EXCEPT ![r] = how], shown' = [shown EXCEPT ![r] = who]
  PROVE  Kept'
<1>1. \A x \in Requests \ {r} :
        UNCHANGED <<pc[x], query[x], reply[x], shown[x], handle[x]>>
  BY DEF Goes, TypeOK
<1> QED BY <1>1, OneMoves

LEMMA StartKeeps ==
  ASSUME TypeOK, Kept, NEW r \in Requests, NEW q \in Queries, Start(r, q)
  PROVE  Kept'
<1> DEFINE next == Begin(Route(q))
<1>1. /\ pc'[r] = next /\ query'[r] = q /\ shown'[r] = {} /\ handle'[r] = "none"
      /\ reply'[r] = (IF next = "done" THEN "local" ELSE "none")
  BY Routes DEF Start, Goes, TypeOK, Kept, OnItsWay, Active, poolVars
<1>2. next \in {"body", "done", "attest", "lock"} /\ q # NoQuery
  BY RouteTypes, Natures
<1>3. config' = config
  BY DEF Start
<1>4. Nature(query[r])' = Nature(q)
  BY <1>1, <1>3 DEF Nature
<1>5. /\ next = "body" =>
             q.path \in SendPaths \/ (q.path = "GetTransaction" /\ config.hub)
      /\ next = "lock" => Nature(q) = "public"
      /\ next = "attest" => Nature(q) = "own"
  BY Routes
<1> HIDE DEF next
<1>6. OnItsWay(r)'
  BY <1>1, <1>2, <1>3, <1>4, <1>5 DEF OnItsWay, Active
<1>7. \A x \in Requests \ {r} :
        UNCHANGED <<pc[x], query[x], reply[x], shown[x], handle[x]>>
  BY DEF Start, Goes, TypeOK, poolVars
<1> QED BY <1>3, <1>6, <1>7, OneMoves

(* What is decided once the body is known: only a private request goes to the *)
(* hub, and only a public one on to the operator.                            *)
LEMMA Decided ==
  ASSUME TypeOK, Kept, NEW r \in Requests, pc[r] = "body"
  PROVE  /\ query[r].path # "GetTransaction" /\ TreatAsMigration(query[r]) /\ config.hub
               => Nature(query[r]) = "private"
         /\ query[r].path # "GetTransaction" /\ ~(TreatAsMigration(query[r]) /\ config.hub)
               => Nature(query[r]) = "public"
         /\ query[r].path = "GetTransaction" /\ query[r].body # "malformed"
               => Nature(query[r]) = "private"
<1> DEFINE q == query[r]
<1>1. q \in Queries /\ q # NoQuery
  BY DEF TypeOK, Kept, OnItsWay
<1>2. q.path \in SendPaths \/ (q.path = "GetTransaction" /\ config.hub)
  BY DEF Kept, OnItsWay
<1>3. q.path = "GetTransaction" => q.body \in {"filter", "malformed"}
  BY <1>1, InputAssumption DEF AllQueries, SendPaths, OtherPaths
<1>4. TreatAsMigration(q) <=> q.body # "plain"
  BY DEF TreatAsMigration, Inspect
<1> HIDE DEF q
<1>5. /\ q.path # "GetTransaction" /\ TreatAsMigration(q) /\ config.hub
            => Nature(q) = "private"
      /\ q.path # "GetTransaction" /\ ~(TreatAsMigration(q) /\ config.hub)
            => Nature(q) = "public"
      /\ q.path = "GetTransaction" /\ q.body # "malformed"
            => Nature(q) = "private"
  BY <1>1, <1>2, <1>3, <1>4 DEF Nature, SendPaths
<1> QED BY <1>5 DEF q

LEMMA BodyKeeps ==
  ASSUME TypeOK, Kept, NEW r \in Requests, Body(r)
  PROVE  Kept'
<1>1. pc[r] = "body" /\ Active(r) /\ config' = config /\ query' = query
  BY DEF Body, SendRead, LookupRead, BodyFails, Active
<1>2. Nature(query[r])' = Nature(query[r])
  BY <1>1 DEF Nature
<1>3. ASSUME NEW how, how # "none", Reply(r, how), shown' = shown
      PROVE  Kept'
  BY <1>1, <1>3, ReplyKeeps
<1>4. ASSUME Goes(r, "hub"), ShowsTo(r, "hub"), UNCHANGED <<reply, handle>>,
             Nature(query[r]) = "private"
      PROVE  Kept'
  <2>1. OnItsWay(r)'
    BY <1>1, <1>2, <1>4 DEF Kept, OnItsWay, Active, TypeOK, Goes, ShowsTo
  <2>2. /\ handle' = [handle EXCEPT ![r] = "none"]
        /\ shown' = [shown EXCEPT ![r] = shown[r] \cup {"hub"}]
    BY <1>1, <1>4 DEF Kept, OnItsWay, TypeOK, ShowsTo
  <2> QED BY <1>1, <1>4, <2>1, <2>2, GoesOnKeeps
<1>5. CASE SendRead(r)
  <2>1. CASE TreatAsMigration(query[r]) /\ config.hub
    BY <1>1, <1>3, <1>4, <1>5, <2>1, Decided DEF SendRead, Divert
  <2>2. CASE ~(TreatAsMigration(query[r]) /\ config.hub)
    <3>1. Goes(r, "lock") /\ UNCHANGED <<reply, shown, handle>>
      BY <1>5, <2>2 DEF SendRead
    <3>2. Nature(query[r]) = "public"
      BY <1>1, <1>5, <2>2, Decided DEF SendRead
    <3>3. OnItsWay(r)'
      BY <1>1, <1>2, <3>1, <3>2 DEF Kept, OnItsWay, Active, TypeOK, Goes
    <3>4. handle' = [handle EXCEPT ![r] = handle[r]] /\ shown' = [shown EXCEPT ![r] = shown[r]]
      BY <3>1 DEF TypeOK
    <3> QED BY <1>1, <3>1, <3>3, <3>4, GoesOnKeeps
  <2> QED BY <2>1, <2>2
<1>6. CASE LookupRead(r)
  BY <1>1, <1>3, <1>4, <1>6, Decided DEF LookupRead
<1>7. CASE BodyFails(r)
  BY <1>3, <1>7 DEF BodyFails
<1> QED BY <1>5, <1>6, <1>7 DEF Body

LEMMA HubKeeps ==
  ASSUME TypeOK, Kept, NEW r \in Requests, Hub(r)
  PROVE  Kept'
  BY ReplyKeeps DEF Hub, HubAnswers, HubFails, Active

LEMMA AttestKeeps ==
  ASSUME TypeOK, Kept, NEW r \in Requests, Attest(r)
  PROVE  Kept'
<1>1. CASE Relay(r)
  <2>1. pc' = pc /\ UNCHANGED <<config, query, reply, handle>>
    BY <1>1 DEF Relay, poolVars
  <2>2. Nature(query[r])' = Nature(query[r])
    BY <2>1 DEF Nature
  <2>3. OnItsWay(r)'
    BY <1>1, <2>1, <2>2 DEF Kept, OnItsWay, Active, TypeOK, Relay, ShowsTo
  <2>4. \A x \in Requests \ {r} :
          UNCHANGED <<pc[x], query[x], reply[x], shown[x], handle[x]>>
    BY <1>1, <2>1 DEF Relay, ShowsTo, TypeOK
  <2> QED BY <2>1, <2>3, <2>4, OneMoves
<1>2. CASE RelayEnds(r)
  BY <1>2, ReplyKeeps DEF RelayEnds, Active
<1> QED BY <1>1, <1>2 DEF Attest

LEMMA SendKeeps ==
  ASSUME TypeOK, Kept, NEW r \in Requests, pc[r] \in {"lock", "dial"},
         NEW state, Send(r, state), UNCHANGED <<config, query, reply>>
  PROVE  Kept'
<1>1. Nature(query[r])' = Nature(query[r])
  BY DEF Nature
<1>2. OnItsWay(r)'
  BY <1>1 DEF Kept, OnItsWay, Active, TypeOK, Send, Goes, ShowsTo
<1>3. \A x \in Requests \ {r} :
        UNCHANGED <<pc[x], query[x], reply[x], shown[x], handle[x]>>
  BY DEF Send, Goes, ShowsTo, TypeOK
<1> QED BY <1>2, <1>3, OneMoves

LEMMA PoolKeeps ==
  ASSUME TypeOK, Kept, NEW r \in Requests, Get(r) \/ Dialled(r)
  PROVE  Kept'
<1>1. CASE TakeLive(r)
  BY <1>1, SendKeeps DEF TakeLive
<1>2. CASE BackingOff(r)
  BY <1>2, ReplyKeeps DEF BackingOff, Active
<1>3. CASE Dial(r)
  <2>1. Goes(r, "dial") /\ UNCHANGED <<config, query, reply, shown, handle>> /\ pc[r] = "lock"
    BY <1>3 DEF Dial
  <2>2. Nature(query[r])' = Nature(query[r])
    BY <2>1 DEF Nature
  <2>3. OnItsWay(r)'
    BY <2>1, <2>2 DEF Kept, OnItsWay, Active, TypeOK, Goes
  <2>4. handle' = [handle EXCEPT ![r] = handle[r]] /\ shown' = [shown EXCEPT ![r] = shown[r]]
    BY <2>1 DEF TypeOK
  <2> QED BY <2>1, <2>3, <2>4, GoesOnKeeps
<1>4. CASE DialSucceeds(r)
  BY <1>4, SendKeeps DEF DialSucceeds
<1>5. CASE DialFails(r)
  BY <1>5, ReplyKeeps DEF DialFails, Active
<1> QED BY <1>1, <1>2, <1>3, <1>4, <1>5 DEF Get, Dialled

LEMMA HeadKeeps ==
  ASSUME TypeOK, Kept, NEW r \in Requests, Head(r) \/ Cancel(r)
  PROVE  Kept'
  BY ReplyKeeps DEF Head, HeadArrives, HeadFails, Cancel, Active

(* Connections only get worse by themselves: none becomes open.            *)
LEMMA EnvironmentKeeps ==
  ASSUME TypeOK, Kept, Environment
  PROVE  Kept'
<1>1. UNCHANGED <<config, pc, query, reply, shown>>
  BY DEF Environment, IndexerChanges, ConnectionLost, KeepaliveNotices, BackoffEnds,
         requestVars
<1>2. \A x \in Requests : handle'[x] # "open" \/ handle'[x] = handle[x]
  BY DEF Environment, IndexerChanges, ConnectionLost, KeepaliveNotices, BackoffEnds,
         poolVars, AllConnections, Becomes
<1>3. \A x \in Requests : handle[x] = "none" => handle'[x] = "none"
  BY DEF Environment, IndexerChanges, ConnectionLost, KeepaliveNotices, BackoffEnds,
         poolVars, AllConnections, Becomes
<1>4. ASSUME NEW x \in Requests PROVE Nature(query[x])' = Nature(query[x])
  BY <1>1 DEF Nature
<1> QED BY <1>1, <1>2, <1>3, <1>4 DEF Kept, OnItsWay, Active

LEMMA KeptStep == TypeOK /\ Kept /\ [Next]_vars => Kept'
<1> SUFFICES ASSUME TypeOK, Kept, [Next]_vars PROVE Kept'
  OBVIOUS
<1>1. CASE UNCHANGED vars
  BY <1>1 DEF vars, requestVars, poolVars, Kept, OnItsWay, Active, Nature
<1>2. CASE Next
  BY <1>2, StartKeeps, BodyKeeps, HubKeeps, AttestKeeps, PoolKeeps, HeadKeeps,
     EnvironmentKeeps DEF Next, Request
<1> QED BY <1>1, <1>2

(* Answering a request, and showing it to somebody, as the Gate sees them. *)
LEMMA ReplyAnswers ==
  ASSUME TypeOK, Kept, NEW r \in Requests, Active(r), NEW how, Reply(r, how),
         UNCHANGED <<config, query, shown>>,
         WhoseAnswer(how) \in shown[r] \cup {"shim", "gone"}
  PROVE  Promise!Answer(r, WhoseAnswer(how))
<1>1. Asked' = Asked
  BY DEF Asked, Nature
<1>2. Answered' = [Answered EXCEPT ![r] = WhoseAnswer(how)]
  BY DEF Answered, Reply, TypeOK
<1>3. Asked[r] # "nothing"
  BY Natures DEF Asked, Active, Kept, OnItsWay, TypeOK
<1>4. Answered[r] = "none"
  BY DEF Answered, WhoseAnswer, Active, Kept, OnItsWay
<1> QED BY <1>1, <1>2, <1>3, <1>4 DEF Promise!Answer

LEMMA ShowingShows ==
  ASSUME TypeOK, Kept, NEW r \in Requests, Active(r), NEW party, ShowsTo(r, party),
         UNCHANGED <<config, query, reply>>,
         party \in Promise!MayBeShown(Nature(query[r]))
  PROVE  Promise!Show(r, party)
<1>1. Asked' = Asked /\ Answered' = Answered
  BY DEF Asked, Answered, Nature
<1>2. Answered[r] = "none"
  BY DEF Answered, WhoseAnswer, Active, Kept, OnItsWay
<1>3. Asked[r] = Nature(query[r])
  BY DEF Asked
<1> QED BY <1>1, <1>2, <1>3 DEF Promise!Show, ShowsTo

(* Steps of the Gate on one request, or none at all.                       *)
GateStep(r) ==
    \/ \E kind \in Promise!Kinds : Promise!Ask(r, kind)
    \/ \E party \in Promise!Parties : Promise!Show(r, party)
    \/ \E whose \in Promise!Parties \cup {"shim", "gone"} : Promise!Answer(r, whose)
    \/ UNCHANGED Promise!vars

LEMMA ReplySteps ==
  ASSUME TypeOK, Kept, NEW r \in Requests, Active(r), NEW how, Reply(r, how),
         UNCHANGED <<config, query, shown>>,
         WhoseAnswer(how) \in shown[r] \cup {"shim", "gone"}
  PROVE  GateStep(r)
<1>1. WhoseAnswer(how) \in Promise!Parties \cup {"shim", "gone"}
  BY DEF TypeOK, Promise!Parties
<1> QED BY <1>1, ReplyAnswers DEF GateStep

LEMMA StartAsks ==
  ASSUME TypeOK, Kept, NEW r \in Requests, NEW q \in Queries, Start(r, q)
  PROVE  GateStep(r)
<1>1. Asked' = [Asked EXCEPT ![r] = Nature(q)]
  <2>1. config' = config /\ query' = [query EXCEPT ![r] = q]
    BY DEF Start
  <2>2. ASSUME NEW x \in Requests
        PROVE  Nature(query[x])' = (IF x = r THEN Nature(q) ELSE Nature(query[x]))
    <3>1. query'[x] = (IF x = r THEN q ELSE query[x])
      BY <2>1 DEF TypeOK
    <3> QED BY <2>1, <3>1 DEF Nature
  <2> QED BY <2>2 DEF Asked
<1>2. shown' = [shown EXCEPT ![r] = {}]
  BY DEF Start
<1>3. PICK how \in {"none", "local"} : reply' = [reply EXCEPT ![r] = how]
  BY DEF Start
<1>4. Answered' = [Answered EXCEPT ![r] = WhoseAnswer(how)]
  BY <1>3 DEF Answered, TypeOK
<1>5. WhoseAnswer(how) \in {"none", "shim"}
  BY <1>3 DEF WhoseAnswer
<1>6. Asked[r] = "nothing" \/ Answered[r] # "none"
  <2>1. CASE pc[r] = "idle"
    <3>1. Nature(NoQuery) = "nothing"
      BY DEF Nature, NoQuery, SendPaths
    <3> QED BY <2>1, <3>1 DEF Asked, Kept, OnItsWay
  <2>2. CASE pc[r] = "done"
    <3>1. reply[r] # "none"
      BY <2>2 DEF Kept, OnItsWay, Active
    <3>2. WhoseAnswer(reply[r]) # "none"
      BY <3>1 DEF WhoseAnswer
    <3> QED BY <3>2 DEF Answered
  <2> QED BY <2>1, <2>2 DEF Start
<1>7. Nature(q) \in Promise!Kinds
  BY Natures DEF Promise!Kinds
<1>8. Promise!Ask(r, Nature(q))
  BY <1>1, <1>2, <1>4, <1>5, <1>6 DEF Promise!Ask
<1> QED BY <1>7, <1>8 DEF GateStep

LEMMA BodySteps ==
  ASSUME TypeOK, Kept, NEW r \in Requests, Body(r)
  PROVE  GateStep(r)
<1>1. pc[r] = "body" /\ Active(r) /\ config' = config /\ query' = query
  BY DEF Body, SendRead, LookupRead, BodyFails, Active
<1>2. ASSUME NEW how \in {"unavailable", "invalid", "exhausted", "aborted"}, Reply(r, how),
             shown' = shown
      PROVE  GateStep(r)
  BY <1>1, <1>2, ReplySteps DEF WhoseAnswer
<1>3. ASSUME ShowsTo(r, "hub"), UNCHANGED reply, Nature(query[r]) = "private"
      PROVE  GateStep(r)
  <2>1. Promise!Show(r, "hub")
    BY <1>1, <1>3, ShowingShows DEF Promise!MayBeShown
  <2> QED BY <2>1 DEF GateStep, Promise!Parties
<1>4. CASE SendRead(r)
  <2>1. CASE TreatAsMigration(query[r]) /\ config.hub
    BY <1>1, <1>2, <1>3, <1>4, <2>1, Decided DEF SendRead, Divert
  <2>2. CASE ~(TreatAsMigration(query[r]) /\ config.hub)
    BY <1>1, <1>4, <2>2 DEF SendRead, GateStep, Promise!vars, Asked, Answered, Nature
  <2> QED BY <2>1, <2>2
<1>5. CASE LookupRead(r)
  BY <1>1, <1>2, <1>3, <1>5, Decided DEF LookupRead
<1>6. CASE BodyFails(r)
  BY <1>2, <1>6 DEF BodyFails
<1> QED BY <1>4, <1>5, <1>6 DEF Body

LEMMA HubSteps ==
  ASSUME TypeOK, Kept, NEW r \in Requests, Hub(r)
  PROVE  GateStep(r)
<1>1. Active(r) /\ UNCHANGED <<config, query, shown>> /\ "hub" \in shown[r]
  BY DEF Hub, HubAnswers, HubFails, Active, Kept, OnItsWay
<1>2. PICK how \in {"asked", "not_found", "accepted", "rejected", "exhausted", "unavailable"} :
        Reply(r, how)
  BY DEF Hub, HubAnswers, HubFails, LookupIsForQuery
<1>3. WhoseAnswer(how) \in {"hub", "shim"}
  BY <1>2 DEF WhoseAnswer
<1> QED BY <1>1, <1>2, <1>3, ReplySteps

LEMMA AttestSteps ==
  ASSUME TypeOK, Kept, NEW r \in Requests, Attest(r)
  PROVE  GateStep(r)
<1>1. Active(r)
  BY DEF Attest, Relay, RelayEnds, Active
<1>2. CASE Relay(r)
  <2>1. "platform" \in Promise!MayBeShown(Nature(query[r]))
    BY <1>2 DEF Relay, Kept, OnItsWay, Promise!MayBeShown
  <2>2. Promise!Show(r, "platform")
    BY <1>1, <1>2, <2>1, ShowingShows DEF Relay
  <2> QED BY <2>2 DEF GateStep, Promise!Parties
<1>3. CASE RelayEnds(r)
  <2>1. shown[r] # {} => "platform" \in shown[r]
    BY <1>3 DEF RelayEnds, Kept, OnItsWay
  <2> QED BY <1>1, <1>3, <2>1, ReplySteps DEF RelayEnds, WhoseAnswer
<1> QED BY <1>2, <1>3 DEF Attest

LEMMA SendSteps ==
  ASSUME TypeOK, Kept, NEW r \in Requests, pc[r] \in {"lock", "dial"},
         NEW state, Send(r, state), UNCHANGED <<config, query, reply>>
  PROVE  GateStep(r)
<1>1. CASE state = "open"
  <2>1. "operator" \in Promise!MayBeShown(Nature(query[r]))
    BY DEF Kept, OnItsWay, Promise!MayBeShown
  <2>2. Promise!Show(r, "operator")
    BY <1>1, <2>1, ShowingShows DEF Send, Active
  <2> QED BY <2>2 DEF GateStep, Promise!Parties
<1>2. CASE state # "open"
  BY <1>2 DEF Send, GateStep, Promise!vars, Asked, Answered, Nature
<1> QED BY <1>1, <1>2

LEMMA PoolSteps ==
  ASSUME TypeOK, Kept, NEW r \in Requests, Get(r) \/ Dialled(r)
  PROVE  GateStep(r)
<1>1. CASE TakeLive(r) \/ DialSucceeds(r)
  BY <1>1, SendSteps DEF TakeLive, DialSucceeds
<1>2. CASE BackingOff(r) \/ DialFails(r)
  BY <1>2, ReplySteps DEF BackingOff, DialFails, Active, WhoseAnswer
<1>3. CASE Dial(r)
  BY <1>3 DEF Dial, GateStep, Promise!vars, Asked, Answered, Nature
<1> QED BY <1>1, <1>2, <1>3 DEF Get, Dialled

LEMMA HeadSteps ==
  ASSUME TypeOK, Kept, NEW r \in Requests, Head(r) \/ Cancel(r)
  PROVE  GateStep(r)
<1>1. CASE HeadArrives(r)
  <2>1. Active(r) /\ "operator" \in shown[r]
    BY <1>1 DEF HeadArrives, Active, Kept, OnItsWay
  <2> QED BY <1>1, <2>1, ReplySteps DEF HeadArrives, WhoseAnswer
<1>2. CASE HeadFails(r) \/ Cancel(r)
  BY <1>2, ReplySteps DEF HeadFails, Cancel, Active, WhoseAnswer
<1> QED BY <1>1, <1>2 DEF Head

LEMMA PromiseInit == Init => Promise!Init
<1> SUFFICES ASSUME Init PROVE Promise!Init
  OBVIOUS
<1>1. Nature(NoQuery) = "nothing" /\ WhoseAnswer("none") = "none"
  BY DEF Nature, NoQuery, SendPaths, WhoseAnswer
<1> QED BY <1>1 DEF Init, Promise!Init, Asked, Answered

LEMMA PromiseStep == TypeOK /\ Kept /\ [Next]_vars => [Promise!Next]_(Promise!vars)
<1> SUFFICES ASSUME TypeOK, Kept, [Next]_vars PROVE [Promise!Next]_(Promise!vars)
  OBVIOUS
<1>1. ASSUME NEW r \in Requests, GateStep(r) PROVE [Promise!Next]_(Promise!vars)
  BY <1>1 DEF GateStep, Promise!Next
<1>2. CASE \E r \in Requests : Request(r)
  BY <1>1, <1>2, StartAsks, BodySteps, HubSteps, AttestSteps, PoolSteps, HeadSteps DEF Request
<1>3. CASE Environment \/ UNCHANGED vars
  <2>1. UNCHANGED <<config, query, reply, shown>>
    BY <1>3 DEF Environment, IndexerChanges, ConnectionLost, KeepaliveNotices, BackoffEnds,
           requestVars, vars
  <2> QED BY <2>1 DEF Promise!vars, Asked, Answered, Nature
<1> QED BY <1>2, <1>3 DEF Next

(* However many requests a wallet multiplexes on its connection, whatever they *)
(* ask and however the hub, the indexer and the wallet behave, the proxy shows *)
(* each to nobody but the one it is for, and passes nothing off as an answer   *)
(* of somebody who was not asked (handle, send_transaction, get_transaction).  *)
THEOREM PromiseKept == Spec => KeepsPromise
<1>1. Init => TypeOK /\ Kept
  BY PoolInit, KeptInit
<1>2. TypeOK /\ Kept /\ [Next]_vars => (TypeOK /\ Kept)'
  BY TypesStep, KeptStep
<1> QED BY <1>1, <1>2, PromiseInit, PromiseStep, PTL DEF Spec, KeepsPromise, Promise!Spec
=============================================================================
