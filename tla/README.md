# A formal model of the zero-indexer-shim

This directory holds TLA+ specifications of the program in `src/zeronym/shim`,
their TLC configurations and TLAPS proofs, and of the part of the vendored
`zebra-chain` its verdicts rest on. Line references are to that directory's `src/`
unless a path says otherwise.

## The system

A wallet speaks lightwalletd gRPC to the shim; the shim is the operator's front
to a backing indexer. It classifies every `SendTransaction`, diverts the ones
that touch Orchard to a hub (over a Nym mixnet client, or over plain HTTP), asks
the hub for every `GetTransaction`, and forwards everything else to the indexer.

    wallet --- accept loop --- serve_connection --- handle --+-- pass_through --- UpstreamPool --- indexer
                                                             |
                                                     intercept.rs (inspect, divert, lookup)
                                                             |
                                                     HubTransport --- HubClient (HTTP/1.1)
                                                             |
                                                     NymHandle ==requests==> correlate ==out==> driver === mixnet === hubs
                                                                                 ^                |
                                                                                 +====inbound=====+
                                               supervisor ==commands==> driver ==events==> supervisor

    main: configuration -> diversion; then the accept loop, and the mixnet's tasks
    beside it, until a signal. classify.rs and wire.rs are pure functions of bytes.

| Part | State it keeps | Operations | Hard behaviour | What makes it correct |
|---|---|---|---|---|
| Mixnet transport, `nym.rs` 312-355, 500-925, 1034-1077 | the waiters by nonce, a reserved slot to the driver, the shared cursor, the in-flight count | `submit`, `get_transaction`, `correlate`, `deliver` | callers, loop and driver interleave over bounded channels; late, repeated, misaddressed replies; callers that give up; the driver going away | an answer is for the attempt it answers; a verdict says what was handed over; nobody waits for ever; no waiter is lost or kept |
| Supervisor, `nym.rs` 366-489, 927-1032 | next rotation, deferral deadline | rebuild after a death, rotate, defer, back off, shut down | timers race events and each other; two tasks wait on each other's channels | no identity kept for ever; a rotation spares the lookups it found; rebuilds are paced; a signal ends both tasks |
| Driver, `nym_driver.rs` | the client, one send in flight, the probe's mark and silent rounds | build, send, receive, probe, rebuild, disconnect | partial failure of every build; a client that sends but never receives; awaits inside the select | a driver without a client is always on its way to another; silence is measured on the client it is charged to |
| Status, `nym.rs` 105-310 | atomics read by `/nym-status` and `/health` | `set_*`, `record_*` | written from a dozen steps of the driver | it never claims a client that is not there |
| Listener, `proxy.rs` 490-622, with `ServerTls`, `tls.rs` 83-190 | 256 connection slots, the senders that connection tasks hold; a certificate | accept, refuse, handshake, validate, drain | a task ends in many ways and must give back what it holds; the certificate comes through the port that needs it; peers that never leave | no slot leaks; a drain says what is so and ends; nothing falls back to plaintext; a certificate arrives |
| Proxy, `proxy.rs` 187-480, 624-1113 | per wallet connection an upstream pool | route, dial, forward, relay | requests multiplexed on one connection share a mutex held across a dial; indexer restarts; cancelled requests | one upstream connection per wallet connection; redial after a restart; every request is answered |
| Interception, `intercept.rs` | none (deliberately) | `send_transaction`, `divert`, `get_transaction` | every error path has to fail closed | a migration, and with a hub any lookup, never reaches the operator |
| Hub transport, `hub.rs` | none | `HubClient`, `HubTransport` | a deadline over connect, TLS, request and body | a verdict is the hub's |
| Classifier, `classify.rs`, over zebra's transaction reader | none | one pure function of the body's bytes | the reader stops behind the first transaction; upgrades and flags it does not know | the operator sees nothing that was not understood |
| Wire codec, `wire.rs` | none | fixed-size frames | three headers, two budgets, fields that can contradict each other | what is accepted can be served back; only genuine frames settle a waiter |
| Configuration, `config.rs`; wiring, `main.rs` | - | start-up, shutdown | two ways of asking for a hub, empty variables; one signal watched twice | diversion is what was asked for or the process does not start; service and mixnet end together |

The rest of the vendored `zebra`, `zaino` and `nym-upgrade-mode-check`, the deploy
scripts and the example are outside the model; `PROJECT.json` names each with its
reason.

## The modules

### `NymTransport`: the calls, the correlation loop, the channels

One `pc` per wallet call (`idle`, `sending`, `waiting`, `done`); one action per
await that completes and per deadline that runs out.

| Code | Model |
|---|---|
| `NymHandle::submit`, one hand-off per hub address under one deadline | `StartSubmit`, `SendSubmit`, `BreakSubmit` (`Verdict`) |
| `get_transaction` / `each_target` / `await_reply` | `StartLookup`, `SendLookup`, `LookupUnaccepted`, `LookupUnanswered`, `LookupAnswered`, `LookupGone` |
| the handler's future dropped | `Cancel` |
| `correlate`, one action per select arm, each ending in the sweep, the published count and the exit test | `Reserve`, `ReserveFails`, `Accept`, `RequestsClosed`, `Receive`, `InboundClosed`, `Sweep`; `Settle` |
| `deliver` | `Matches`, `StillRegistered`, `Deliver` |
| the early `return`s, with `run_transport`'s store of 0 | `Stop` |
| driver, mixnet, hubs | `PublishTargets`, `DriverSends`, `DriverStops`, `HubAnswers`: an environment that loses, delays, repeats and reorders |

A nonce is the pair (call, address): `fresh_nonce` is 16 random bytes, minted once
per address tried, so a collision is not modelled. Deadlines are choices: a wait
that could still be pending may run out. A submit's ack receiver is dropped when
the frame has been accepted; in the code it lives to the end of its loop
iteration, and a waiter caught in that window is swept one `SWEEP_INTERVAL` later,
which changes no property here.

### `HubCalls`: what a wallet call is promised

The abstract specification of `HubTransport`: a call makes each of its requests (one
per address) at most once, a lookup one at a time; nothing leaves for a hub that no
call has made; a call has one verdict, which what happened to its own requests
justifies, and makes none after it. There are no nonces, waiters, channels or tasks
in it. `NymTransport` implements it (`KeepsCallPromise`) under the mapping

| `HubCalls` | `NymTransport` |
|---|---|
| `stage` | `Stage`: a call that sends or waits is open |
| `verdict` | `outcome` |
| `given`, `reached` | `Given`, `Reached`: the frames in the histories `handed` and `sent`, as (call, address) |
| `asking` | `Asking`: the address of the current attempt of a lookup that waits |
| `answered` | `Answered`: the address whose message fills the slot of an answered lookup |
| `up` | the loop runs |

Under it every arm of the loop is no step at all, but for the ones that end it: what
a reply does to the waiters is invisible until the lookup returns it. A submit that
finds its transport backpressured may stop short of the last address, and the promise
lets it (see `every_address`). When a timeout is told is not part of it.

### `Lifecycle`: supervisor, driver, status and one lookup

| Code | Model |
|---|---|
| `run_supervisor`, one action per select arm, and one per awaited command | `SeeShutdown`, `TakeDied`, `DriverGone`, `RotationDue`; `SendRebuild`, `SendRotation`, `SendDisconnect`, `SendFails`; `BackoffEnds` |
| `run_driver` and `build_when_told` | `Built`, `BuildFails`, `Report`, `TakeRebuild`, `TakeDisconnect`, `Disconnected`, `Stopped`, `TransportGone`, `NoticeDeath`, `TakeFrame`, `SendDone`, `ProbeTick`, `Receive` |
| `MixnetStatus` | `connected`, `failures`, `deaths`; `inbound_total` only as the probe compares it (`mark`) |
| SDK, signal, transport, a wallet's lookup | the environment's actions |

Time is a countdown per timer and one `Tick`, which waits until no task has an arm
ready: ticks stand for seconds, arms run in microseconds. What the SDK is asked to
do (build, disconnect, accept a message) may take any number of ticks. `buffered`
is how many submits the SDK has accepted and not yet emitted, up to `BufferCap`. The
receive arm, which awaits a send into the inbound channel, is one step: the
transport always drains that channel (`InboundIsServed`), so the await ends.
`probes` and `early` are history variables; `left` is the lookup's budget. `Period` is
the option as the code holds it: a number of ticks, zero included, which
`next_rotation` floors at the backoff, or `Never` for `None`.

### `Gate` and `Proxy`: what a wallet is promised, and one wallet connection

`Gate` is the abstract specification: a request is private, public or the shim's
own; a private one is shown to the hub only, a public one to the operator only, one
for the shim itself to the platform at most; and an answer is passed off as
somebody's only if they were shown the request. `Proxy` is the code, and implements
it under the mapping `Promise`: `asked` is `Nature(query)`, what the request is
whatever the code makes of it; `answer` is `WhoseAnswer(reply)`; `shown` is a
history variable of the same name, set where bytes are sent.

| Code | Model |
|---|---|
| `route_for` and the gates of `handle` | `Route`, `Begin`, `Start` |
| `inspect`, `treat_as_migration`, `send_transaction`, `divert` | `Inspect`, `TreatAsMigration`, `SendRead`, `Divert`, `BodyFails` |
| `get_transaction`, `decode_tx_filter`, `lookup_is_for_query` | `LookupRead`, `LookupIsForQuery`, `BodyFails` |
| what the hub's client or the mixnet handle returns | `HubAnswers`, `HubFails` |
| `forward_to_bootproofd` | `Relay`, `RelayEnds` |
| `UpstreamPool::get` | `TakeLive`, `BackingOff`, `Dial`, `DialSucceeds`, `DialFails`; the mutex is `Unlocked`: only the dial is awaited under it |
| `forward` | `Send`, `HeadArrives`, `HeadFails` |
| a reset stream, a closed wallet connection | `Cancel`: the future is dropped where it stands |
| the keepalive and `backoff_until` | `KeepaliveNotices`, `BackoffEnds` |

A path is one of the kinds `route_for` tells apart, a body one of the classes the
code behind it tells apart. A body counts as read in one step, and a response as
relayed once its head is: the body then streams with no state of the shim's. Where
a request is shown to the hub, the model says so when the code starts the exchange,
whether or not it gets through: it overstates who saw what. A connection the
network has dropped silently is `dead` until the keepalive notices; only then is it
`closed` to `is_closed`. Connections are lost only while the indexer is not `up`,
so "the indexer is back for good" means that it keeps its connections.

### `Server`: the listener

A peer is a slot of the environment that comes as a wallet, as the certificate
authority validating an order, or as a stray, and leaves; it may come back as
another.

| Code | Model |
|---|---|
| the biased select of `serve_with_shutdown` | `SeeSignal`, `Accept` (`Admitted` or `Refused`), guarded by `Polled` |
| the three kinds of accept error | `Leaves` (transient), `DescriptorsRunOut` and `PauseEnds`, `ListenerBreaks` |
| the spawned task: permit, sender, handshake, `serve_connection` | `Secured`, `HandshakeFails`, `Validated`, `ConnectionEnds`; `TaskOver` |
| the drain and its deadline | `Drained`, `DrainTimesOut` |
| `ServerTls::accept`, the ACME task | `Validated`, `Secured`; `Orders`, with `Expires` for a certificate nobody renewed in time |

There is no deadline on a handshake in the code (`proxy.rs:573`), so there is none in
the model: a stray may hold its slot for ever.

### `Configuration` and `Process`: start-up, and the whole process

`Configuration` is `hub_selection` and what `main` makes of it, as operators on a
record of flags. `Process` starts on any of `Configurations` (`Start`, `StartFails`),
and then runs `Server` and an instance of `Lifecycle` side by side over the same
`shutdown`: `Listen`, `Carry`, `Divert`, `Stop`. A step of either needs `Up`, so that
the end of `serve_with_shutdown` is the end of every task where it stands.

### `Wire`, `Classifier` and `Dataflow`: the bytes of one transaction

`Wire` has one operator per encoder and decoder. A frame is a record of its header's
fields; `payload` stands for the bytes after the header, and reading another number
of them than was written yields other bytes. Sizes are the code's arithmetic, over
`FrameBytes`, `AckBytes` and `LookupBytes`.

`Classifier` is `classify_with_evidence` over `Transaction::zcash_deserialize` of the
vendored `zebra-chain`: a body is a sequence of what was written into it, a
transaction a record of what can make the reader fail or turn the verdict (version,
group, branch, the Sapling rules, the two bundles and their flag masks, whether
librustzcash agrees, whether anything is cut off).

| Code | Model (`Dataflow`) |
|---|---|
| `send_transaction`, `divert` | `Forward`, `Decline` |
| `HubTransport::submit`, over the mixnet and over HTTP | `Divert` (`Dispatch`), `Post` |
| `get_transaction`, over the mixnet and over HTTP | `Ask`, `Get`; `AnswerTo`, `LookupIsForQuery` |
| the reply, its deadline, the sweep | `Deliver` (`SettlesAck`, `SettlesLookup`), `HttpAnswers`, `GiveUp`, `Purge` |
| the hub, the mixnet, strangers | `HubAdmits`, `HubLooks`, `Lose`, `Stray` |

A transaction stands for its id. The hub runs the same codec (`wire.rs` is shared
with it), may refuse, fail, or serve what was not asked for. One hub address: the
sweep over several is `NymTransport`'s.

### Proof modules

`NymTransport_proofs`, `Lifecycle_proofs`, `Proxy_proofs`, `Server_proofs`,
`Process_proofs`, `Dataflow_proofs` and `HubCalls_proofs` hold the theorems of the seven
modules, and `NymTransport_promise` those that relate the transport to `HubCalls`;
`MCNymTransport`, `MCProxy`, `MCProcess` and `MCDataflow` the instances of four.

## Runs

| Run | Question | Bounds, and why they are enough |
|---|---|---|
| `transport_safety` | are answers, verdicts and counts right under every interleaving? | one submit, two lookups, two addresses: two calls compete for a one-slot request channel, and a second address is what a late answer of the first can be mistaken for. Channels of one slot are full whenever anything is in them, which makes every "full" branch reachable |
| `transport_liveness` | does every call, reply, abandoned waiter and the loop itself come to an end? | a submit, an oversize submit and a lookup over the same channels, with fairness. The refinement of `HubCalls` is checked here: it relates one call's own steps to each other, and on the larger instance of `transport_safety` it holds too but takes most of the time a run may |
| `every_address` | does a successful submit reach every address, as its comment says? | one submit, one lookup, two addresses: violated |
| `lifecycle_safety` | do status, reports, deferral and pacing hold with everything racing? | a period of zero, `Some(0)` (the floor is all that paces it), a lookup budget above the compiled-in one (the derived limit matters), two silent rounds, all four faults |
| `lifecycle_recovery` | does a shim come back, and stop when told? | no rotation (`Never`), so that nothing but the rebuild path can help |
| `lifecycle_rotation` | is an identity ever kept for good? | a lookup can always be in flight and the client can fail |
| `proxy_safety` | who is shown what, whose answer the wallet gets, and do requests share one upstream? | two requests (the pool and the mutex are what they share; a third adds no new interference), one path per kind of route and one body per class, everything off and everything on |
| `proxy_liveness` | does every request end, and does the pool recover with the indexer? | two requests, a forwarded and a diverted kind, any number of times over |
| `process` | does the process start as configured, admit, serve, drain and stop as it should, with the mixnet beside it? | every combination of flags over eight address lists that differ in one thing each; one slot and two peers, so that one peer finds the listener full of the other; TLS and the mixnet in separate starts, since the listener does the same whatever it diverts to; expiry, descriptors and signal. A mixnet that never rotates, with the shortest times, channels of one slot and no fault but the signal, of which only safety is asked: `Lifecycle`'s own runs have those |
| `dataflow` | is what is classified, framed, held, served and checked the same transaction? | the code's own frame sizes, bodies on both sides of each budget; transactions that vary one field at a time, and pairs of them; one body sent and looked up with two nonces, both transports; one almost right frame at a time, with a nonce in use. One refusal reason stands for the five, which nobody reads |
| `acknowledged`, `clean_stop` | what comments say and the code does not do | see Findings |

Channels between supervisor and driver hold 2 in the runs and 8 in the code. With
one slot for events the two tasks really can wait for each other; with two slots
they cannot, for command capacities 2, 3, 4 and 8, so 2 is the smallest faithful
size, not merely a convenient one. `DeathsCap` and `FailuresCap` saturate counters
nothing decides on beyond zero. Deadlock checking is off: the loop, the tasks and
the calls all legitimately stop.

## Fairness

* Calls: each is a tokio task, run when its channel, oneshot or deadline wakes it:
  weak fairness of `CallStep`.
* Loop and tasks: `select!` polls its ready arms in random order, so an arm that
  stays ready is taken: weak fairness per arm. The probe's arm is masked while a
  send is in flight and unmasked when it ends, and its timer stays elapsed: strong
  fairness of `ProbeTick`.
* Time: `Tick` is strongly fair, it is disabled again and again by ready arms and
  no task can hold it off.
* The SDK finishes what it is asked, one way or the other.
* Wallet connections: each wait of a request but the attestation relay's has a
  deadline, so one of the actions that end it is taken: weak fairness of `Body`,
  `Hub`, `Dialled`, `Head`. Tokio's mutex is FIFO, so a request whose turn keeps
  coming is not passed over: strong fairness of `Get`. `RequestsEnd` leaves out the
  attestation relay, for which the code sets no deadline (`proxy.rs:1082-1113`).
* Listener: `accept` is taken if it is possible again and again (descriptors do not
  stay out for ever): strong fairness of `Accept`. The signal, the pause and the
  drain's deadline are awaited: weak fairness. The authority comes for an order, and
  again if it was refused, and completes its own handshake: without that no code can
  bring a certificate. `CertificateArrives` exempts a shim whose every slot is held
  when the validation comes (`Crowded`): strays may hold them for ever.
* Nothing is assumed of wallets, strays, hubs, the indexer or, in `NymTransport`, of
  the driver; and in `Process` nothing of the mixnet.

## Findings

* `every_address`: `submit` stops its sweep at a backpressured transport and
  reports success if one address was reached (`nym.rs:688`), where its comment says
  every address, unconditionally (`nym.rs:635-636`).
* `acknowledged`: a rotation with nothing in flight is not deferred at all, and
  discards submits wallets were told had succeeded (`nym_driver.rs:474`); its comment
  (464-469) leaves only the SDK's death and a deferral that ran out. The in-flight
  count never holds a submit.
* `clean_stop`: `main` returns when the drain does (`main.rs:194`), which with no
  wallet connected is at once, and the runtime drops supervisor and driver with the
  client connected, where `main.rs:197-202` and 361-363 say that the signal
  disconnects it cleanly.
* `lifecycle_safety`, of a comment that claims less than the code keeps: `nym.rs:472-475`
  excepts from the deferral's guarantee a lookup budget raised with
  `ZIS_LOOKUP_TIMEOUT_SECS`, "since the supervisor is handed a policy and never sees
  that override", which "reopens the gap by its excess". It sees it: `main.rs:343` puts
  the budget in force into the policy, for the reason `main.rs:333-340` gives. The run's
  budget is twice the compiled-in one and `DeferralCoversLookup` holds, as it is proved
  to for every budget; the supervisor the comment describes is the property's mutant
  (`EffectiveDeferLimitUnderived`), which violates it.

Met on the way and not run, because they are about wording, are of small consequence,
or cannot be told apart in the model:

* A rotation is not followed by the rebuild backoff, so a death right after it is
  answered at once (`nym.rs:1016`, against 426-428).
* A scheduled rotation counts as a death (`nym_driver.rs:475`, against `nym.rs:139-140`).
* Accepting a probe restamps the mark, so traffic between a silent tick and that
  acceptance does not break the streak, and one more lost probe rebuilds a client that
  did receive (`nym_driver.rs:414`, against 622-624).
* A lookup still in the request channel is not in the in-flight count, so a rotation
  can land inside it (`nym.rs:998`, against `main.rs:338-339`).
* `Route::GetTransaction` (`proxy.rs:762-764`) and the comments at 72-75 and 717-718
  still describe a lookup answered from bytes the shim holds and forwarded
  otherwise; with a hub `get_transaction` asks the hub for every one and forwards
  none (`intercept.rs:297-304`).
* `connected` stays set when the driver stops (`nym.rs:137-138`); the process is
  ending by then.
* `wire.rs:130-135` says that the largest transaction a reply can serve is nine bytes
  smaller than the largest that can be submitted, and draws a consequence; the two
  constants are equal (`wire.rs:124`, 136), as the comment at 117-123 explains, and
  `HeldIsServable` confirms.
* `local_txid` and `lookup_is_for_query` stop behind the first transaction
  (`nym.rs:1392-1400`, `intercept.rs:430-443`) where the classifier asks for the end of
  the bytes: a body with trailing bytes is unparseable, diverted, and has an id.

## What is proved

All theorems hold for every value of the constants under the modules' named
assumptions (`CallsAssumption`, `SizesAssumption`, `NoneAssumption`,
`LifecycleAssumption`, `InputAssumption`, `ServerAssumption`, `ProcessAssumption`,
`ConfigurationsAssumption`, `WireAssumption`, `DataflowAssumption`: capacities positive,
sets of calls and peers finite, times natural numbers, the backoff positive (it is
five seconds in every policy), the period a natural number or `Never`, frames larger
than their headers, address lists any sequence of entries). `ProcessAssumption` asks that the signal be among
the environment's `Faults`, since a whole process always can be told to stop; nothing else
need be.

* Transport. `IInv` is inductive: frames carry the nonce of their own address
  (`FramesAreFresh`), only frames handed in travel (`OnlyHandedTravels`), what
  arrives answers something sent (`AnswersAreToSent`), a filled oneshot is for the
  attempt its caller is on (`SlotsAreCurrent`), a waiting lookup is queued or
  registered while the loop runs (`WaitersAreRegistered`), and hand-offs are
  counted (`HandOffsAreCounted`). `AnswerIsCurrent` alone is not inductive: a slot
  is filled from a message whose origin only the history of `sent` pins down.
  From it: `TypeCorrect`, `TransportInvariant`, `AnswersAreCurrent`,
  `VerdictsMatchHandOffs`, `GoneIsGone`. `CountCovers` and `WaitersKept` need to know
  besides where a nonce can be (`Places`): an attempt not made yet has no frame anywhere
  (`UntriedAreFresh`, from `AddressesDiffer`: a sweep of the list modulo its length
  meets no address twice), a queued nonce is queued once and is neither registered nor
  beyond the loop, and an answered lookup's is nowhere. Then `c |-> Current(c)` maps the
  waiting lookups one to one into the registered waiters, whose number is the count.
* Hub calls. `TransportKeepsPromise`: `NymTransport` implements `HubCalls`. A step of a
  call is a step of the same call there, or, for a lookup whose frame
  the channel did not take in time, nothing; an arm of the loop is `Breaks` or nothing
  (`LoopPromised`); of the environment only `DriverSends` is more than nothing
  (`EnvironmentPromised`). It takes the invariants above: that a request is not made
  twice is `UntriedAreFresh`, that a submit's verdict is justified is
  `HandOffsAreCounted`, a lookup's `gone` is `WaitersAreRegistered`, a reply from the hub
  being asked is `SlotsAreCurrent`, and an answer that is not overwritten after its
  verdict is that `Listening` ends with it. What the promise is worth is proved of
  `HubCalls` alone, `VerdictsEarned` (at most one answer a lookup, a verdict that stays
  true: a submit told `gone` is never handed over later) and `VerdictsFinal`, and
  carried over the refinement to the transport: `TransportVerdicts`.
* Lifecycle. `TypeCorrect`; `DeathsAreNeverLost` (a driver without a client has a
  report or a command under way; the argument follows each token from `reporting`
  to `events` to the supervisor's `rebuild` to `commands`); `StatusHonest`, from
  `StatusInv`, which adds where a client exists at all (`ClientInv`);
  `RotationsPaced`, an action property, from `ClockInv`: the rotation clock never
  runs ahead of the backoff's; `SilenceIsOwn`, from `RoundsAreProbed`: each silent round
  is backed by a probe this client accepted; and `DeferralCovers`, from
  `DeferralOutlasts`: the deferral started no shorter than the budget and both run down
  together. `NeverMutuallyWaiting` supposes at least two slots in each channel (the
  program has eight; with one command slot a signal after a backoff can bring the wait
  about). It counts the `Load`: commands and events queued, the command the supervisor
  holds, the reports the driver owes. A report becomes a command and a command a
  report; only a due rotation, a signal or a silent client adds to the sum, and the
  first and the last need a tick, which no pending event or command lets pass
  (`LoadBound`). Both channels full with both tasks holding is more than that.

* Proxy, for any set of requests, queries and configurations (`InputAssumption`
  only says that they are among `AllQueries` and `AllConfigs`). `TypeCorrect`.
  `OneUpstream`: `SharedUpstream` is inductive as it stands, since its last conjunct
  is the mutex and its first two say what the mutex protects. `PromiseKept`: every
  step is a step of the `Gate` or none. The invariant it needs is `Kept`: a request
  that waits for the pool is public by nature, one that waits for the hub private
  and shown to it, one that holds an open connection was shown to the operator, and
  one that is over holds nothing. `Natures`, `Routes` and `Decided` are the facts
  about routing and inspection that establish it, and `ReplyAnswers` and
  `ShowingShows` turn the two kinds of steps into the `Gate`'s.

* Listener, for any finite set of peers and any limit. `ServerTyped` rests on the
  conservation of slots: free permits and live tasks add up to `Limit`, and senders
  count the tasks. `WithinLimit`, `DrainIsHonest` and `RefusedOnlyWhenFull` follow from
  the sum; none of them is inductive, since a step only adds one and takes one.
  `NoFallback` needs only that a step to `serving` is `Secured`, or an admission
  without TLS.
* Process. `MixnetOutlasts`: the invariant adds that the transport keeps its handles
  (no step of `Process` is `TransportEnds`), that no disconnect is commanded and the
  supervisor neither disconnects nor has stopped before the signal, so that the
  driver has no way to stop. `RefusalsHaveCause` and `DivertsWhatWasAsked` are about any set
  of configurations, with address lists of any length: what was built is what
  `HubSelection` makes of the flags the process was started with, and those never change.
  Two refinements say that composing changed neither part. `CarriesAsLifecycle`: a step of
  the process is a step of `Lifecycle`, or leaves all of its variables alone, and so the
  mixnet of a process keeps what `Lifecycle_proofs` proves (`MixnetPromises`, `NoWaitInside`
  for two slots and more). `ServesAsServer`: the same for `Server`, under a mapping that
  reads the listener of a process that refused to start as one nobody has come to
  (`Heard`); and so `ListenerPromises`.
* Dataflow, for every frame size, every set of bodies, chain and strays.
  `OperatorUnderstood` follows the only step that shows the operator anything.
  `HeldServable` needs an invariant of the frames under way (`HubInductive`: a frame to
  the hub was encoded by one of the shim's encoders, so that what it reads is what was
  written), and the round trips of the codec as lemmas (`SubmitReadsBack`,
  `FoundReadsBack`, `LookupIsNoSubmission`). `WaitersSettledGenuinely` needs that what
  arrives was encoded by the hub or is a stray of known shape (`ShimInductive`), and
  that a decoder's success leaves only what its encoder writes (`AckArrives`,
  `ReplyArrives`).

Only model-checked: all liveness (`CallsEnd`, `InboundIsServed`, `AbandonedAreSwept`,
`LoopEnds`, `ShutdownStops`, `ClientIsRebuilt`, `SilentIsReplaced`, `IdentityExpires`,
`RequestsEnd`, `PoolRecovers`, `CertificateArrives`, `SignalEnds`), which rests on fairness
and so on `ENABLED`, out of the prover's reach. Every invariant and action property that a
passing run checks is a theorem. `IInv` was checked by TLC on the instance of
`transport_safety` before it was proved; being proved, it is not part of the run.

## Not modelled

* Streaming of bodies, header rewriting, flag and environment parsing (clap's),
  logging and the diagnostic counters: no property here depends on them.
* Threads inside one turn of the correlation loop. A turn is one step; of what it
  writes only the published count is read elsewhere, so a supervisor on another thread
  that reads it between the hand-over and the store (`nym.rs:884-920`, no await between)
  sees a count one turn old. `CountCoversWaiting` is about the count as published.
* The byte layout of frames and transactions: fields are written and read as fields.
  `classify.rs`'s evidence is for the log.
* A graceful GOAWAY from the indexer: a connection to it is lost with all its streams at
  once, where in the code `is_closed` may turn (`proxy.rs:427`) while streams that are
  under way go on beside a redialled upstream.
* What rustls, rustls-acme and the Nym SDK do inside: they are the environment's
  actions, with what they may do to the shim.
* The rest of `src/`, nine tenths of its lines, is code the shim links and does not
  run, or tests: zebra's blocks, commitment trees, difficulty and subsidies, its RPC
  types, test vectors and command harness; zaino's generated gRPC services; the
  upgrade-mode stub. A model of those would say nothing of this program, and the
  large files among them are tables of bytes and generated code. This is why the
  modules cover a small share of the lines of the repository while covering all of
  the shim's own control.

## Plan

1. `HubCalls` in place of `HubAnswers` and `HubFails` in `Proxy`: the interception composed
   with the promise the transport is proved to keep.
2. `Mixnet`: `NymTransport` and `Lifecycle` composed over the real channels.
