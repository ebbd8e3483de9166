------------------------------ MODULE Lifecycle ------------------------------
(***************************************************************************)
(* The life of the mixnet client: run_supervisor (zeronym/shim/src/nym.rs) *)
(* decides when it is rebuilt, run_driver (nym_driver.rs) owns it, and the *)
(* two talk over a bounded channel each way.  The frames the driver carries *)
(* and one wallet lookup are kept as far as a rebuild can hurt them.       *)
(*                                                                         *)
(* Time is a countdown per timer and one Tick.  A task whose arm is ready   *)
(* runs before the next tick (ticks are seconds, arms microseconds); what   *)
(* the SDK does (build, disconnect, accept a message) takes any number of   *)
(* ticks.                                                                  *)
(***************************************************************************)
EXTENDS Integers, Sequences

CONSTANTS
    Never,          \* the period of a shim with none configured (None)
    Period,         \* ticks between rotations (--nym-rotation-secs), or Never
    Backoff,        \* rebuild_backoff
    RequestTimeout, \* REQUEST_TIMEOUT, the compiled-in lookup budget
    LookupTimeout,  \* the lookup budget in force (ZIS_LOOKUP_TIMEOUT_SECS)
    ProbeInterval,  \* PROBE_INTERVAL
    SilentRounds,   \* SILENT_ROUNDS_BEFORE_REBUILD
    CmdCap,         \* capacity of the command channel (8 in main.rs)
    EvtCap,         \* capacity of the event channel   (8 in main.rs)
    OutCap,         \* capacity of the channel of frames (8 in main.rs)
    BufferCap,      \* bound on what the SDK buffers, 0 to leave it out
    Faults,         \* bound on the environment: which of these may happen
    DeathsCap,      \* bound on the death counter, which saturates
    FailuresCap     \* bound on the failure counter, which saturates

ASSUME LifecycleAssumption ==
    /\ Never \notin Nat /\ Period \in Nat \cup {Never}
    /\ {RequestTimeout, LookupTimeout, BufferCap, DeathsCap} \subseteq Nat
    /\ {Backoff, ProbeInterval, SilentRounds, CmdCap, EvtCap, OutCap, FailuresCap}
         \subseteq Nat \ {0}
    /\ Faults \subseteq {"signal", "transport", "silent", "dead"}

Off == -1
Down(t) == IF t > 0 THEN t - 1 ELSE t
Larger(a, b) == IF a >= b THEN a ELSE b
Bumped(n, cap) == IF n < cap THEN n + 1 ELSE n

VARIABLES
    supervisor,   \* select, rebuild, backoff, rotate, disconnect or stopped
    rotateIn,     \* ticks to the next rotation, Off when there is none
    deferLeft,    \* ticks a due rotation still waits, Off when none is due
    cooldown,     \* ticks until Backoff has passed since the last Rebuild
    shutdown,     \* SIGTERM or ctrl-c has arrived
    commands,     \* to the driver; a Rebuild is named for what asked for it
    events,       \* to the supervisor: ClientEvent::Died, the only event
    driver,       \* building, live, reporting, waiting, replacing, stopping, stopped
    client,       \* none, good, silent (sends but never receives) or dead
    inFlight,     \* in_flight, the one send the SDK has not accepted yet
    mark,         \* inbound_at_probe against inbound_total: none, quiet, heard
    rounds,       \* silent_rounds
    probes,       \* history: probes this client accepted, up to SilentRounds
    probeIn,      \* ticks to the next probe
    connected,    \* MixnetStatus::connected
    failures,     \* MixnetStatus::consecutive_failures
    deaths,       \* MixnetStatus::deaths
    transport,    \* the transport's end of the frame channel is open
    outFrames,    \* frames waiting for the driver
    buffered,     \* submits the SDK accepted and has not emitted yet
    lookup,       \* none, asked, counted (registered), carried (by the client), stranded
    left,         \* ticks left of the lookup's budget
    early         \* history: the lookup was under way when a rotation came due

supVars    == <<supervisor, rotateIn, deferLeft, cooldown>>
probeVars  == <<mark, rounds, probes, probeIn>>
statusVars == <<connected, failures, deaths>>
lookupVars == <<lookup, left, early>>
vars == <<supVars, shutdown, commands, events, driver, client, inFlight, probeVars,
          statusVars, transport, outFrames, buffered, lookupVars>>

driverVars == <<driver, client, inFlight, probeVars, statusVars>>
otherVars  == <<shutdown, transport, outFrames, buffered>>

-----------------------------------------------------------------------------
(* run_supervisor                                                          *)

(* The next rotation, floored at the backoff: a period of zero is one, and   *)
(* rotates at every backoff; only a shim with no period never rotates.      *)
NextRotationUnfloored == IF Period = Never THEN Off ELSE Period
NextRotation == IF Period = Never THEN Off ELSE Larger(Period, Backoff)

(* main.rs hands the lookup budget in force over as the limit, and the      *)
(* supervisor applies at least the compiled-in one.                         *)
EffectiveDeferLimitUnderived == RequestTimeout
EffectiveDeferLimit == Larger(LookupTimeout, RequestTimeout)

(* InflightCount: registered waiters, whether or not a reply can still come *)
Idle == lookup \notin {"counted", "carried", "stranded"}

SeeShutdown ==
    /\ supervisor \in {"select", "backoff"} /\ shutdown
    /\ supervisor' = "disconnect"
    /\ UNCHANGED <<rotateIn, deferLeft, cooldown, commands, events, driverVars,
                   otherVars, lookupVars>>

TakeDied ==
    /\ supervisor = "select" /\ events > 0
    /\ events' = events - 1
    /\ supervisor' = "rebuild"
    /\ UNCHANGED <<rotateIn, deferLeft, cooldown, commands, driverVars,
                   otherVars, lookupVars>>

DriverGone ==
    /\ supervisor = "select" /\ events = 0 /\ driver = "stopped"
    /\ supervisor' = "stopped"
    /\ UNCHANGED <<rotateIn, deferLeft, cooldown, commands, events, driverVars,
                   otherVars, lookupVars>>

(* The timer arm: a rotation that comes due waits for the transport to go   *)
(* idle, and no longer than the deferral.                                   *)
DeferralLeftRestarted == EffectiveDeferLimit
DeferralLeft == IF deferLeft = Off THEN EffectiveDeferLimit ELSE deferLeft

RotationDue ==
    /\ supervisor = "select"
    /\ deferLeft # Off \/ rotateIn = 0
    /\ IF Idle \/ DeferralLeft = 0
       THEN /\ supervisor' = "rotate"
            /\ UNCHANGED deferLeft
       ELSE /\ deferLeft' = DeferralLeft
            /\ UNCHANGED supervisor
    /\ early' = IF deferLeft = Off THEN lookup # "none" ELSE early
    /\ UNCHANGED <<rotateIn, cooldown, commands, events, driverVars, otherVars,
                   lookup, left>>

(* A command is awaited into the channel; a driver that is gone ends the    *)
(* supervisor.                                                              *)
CommandedUnbounded(from, command) ==
    /\ supervisor = from /\ driver # "stopped"
    /\ commands' = Append(commands, command)
    /\ UNCHANGED <<events, driverVars, otherVars, lookupVars>>
Commanded(from, command) ==
    /\ supervisor = from
    /\ driver # "stopped" /\ Len(commands) < CmdCap
    /\ commands' = Append(commands, command)
    /\ UNCHANGED <<events, driverVars, otherVars, lookupVars>>

SendRebuild ==
    /\ Commanded("rebuild", "rebuild")
    /\ supervisor' = "backoff" /\ cooldown' = Backoff
    /\ UNCHANGED <<rotateIn, deferLeft>>

SendRotationNextIn(ticks) ==
    /\ Commanded("rotate", "rotate")
    /\ supervisor' = "select" /\ cooldown' = Backoff
    /\ rotateIn' = ticks /\ deferLeft' = Off
SendRotationStillDue == SendRotationNextIn(0)
SendRotation == SendRotationNextIn(NextRotation)

SendDisconnect ==
    /\ Commanded("disconnect", "disconnect")
    /\ supervisor' = "stopped"
    /\ UNCHANGED <<rotateIn, deferLeft, cooldown>>

SendFails ==
    /\ supervisor \in {"rebuild", "rotate", "disconnect"} /\ driver = "stopped"
    /\ supervisor' = "stopped"
    /\ UNCHANGED <<rotateIn, deferLeft, cooldown, commands, events, driverVars,
                   otherVars, lookupVars>>

BackoffEnds ==
    /\ supervisor = "backoff" /\ cooldown = 0
    /\ supervisor' = "select"
    /\ rotateIn' = NextRotation /\ deferLeft' = Off
    /\ UNCHANGED <<cooldown, commands, events, driverVars, otherVars, lookupVars>>

-----------------------------------------------------------------------------
(* run_driver and build_when_told                                          *)

(* A fresh client starts with no probe outstanding and no silent round.     *)
BuiltWith(newMark, newRounds) ==
    /\ driver = "building"
    /\ client' \in {"good"} \cup (Faults \cap {"silent"})
    /\ driver' = "live"
    /\ connected' = TRUE /\ failures' = 0
    /\ mark' = newMark /\ rounds' = newRounds /\ probes' = 0
    /\ UNCHANGED <<supVars, commands, events, inFlight, probeIn, deaths,
                   otherVars, lookupVars>>
BuiltWithOldRounds == BuiltWith(mark, rounds)
Built == BuiltWith("none", 0)

(* Every failed build, the first one included, reports a death.             *)
BuildFailsInto(next) ==
    /\ driver = "building"
    /\ driver' = next
    /\ connected' = FALSE /\ failures' = Bumped(failures, FailuresCap)
    /\ UNCHANGED <<supVars, commands, events, client, inFlight, probeVars, deaths,
                   otherVars, lookupVars>>
BuildFailsQuietly == BuildFailsInto("waiting")
BuildFails == BuildFailsInto("reporting")

(* The report is awaited into the channel (or dropped with its supervisor); *)
(* a driver that still has a client goes back to its select.                *)
Report ==
    /\ driver = "reporting"
    /\ \/ supervisor = "stopped" /\ UNCHANGED events
       \/ supervisor # "stopped" /\ events < EvtCap /\ events' = events + 1
    /\ driver' = IF client = "none" THEN "waiting" ELSE "live"
    /\ UNCHANGED <<supVars, commands, client, inFlight, probeVars, statusVars,
                   otherVars, lookupVars>>

(* A lookup whose frame the client holds, or is being handed, dies with it. *)
StrandLookup ==
    /\ lookup' = IF lookup = "carried" \/ inFlight = "lookup" THEN "stranded" ELSE lookup
    /\ UNCHANGED <<left, early>>

TakeRebuild ==
    /\ commands # <<>> /\ Head(commands) # "disconnect"
    /\ commands' = Tail(commands)
    /\ \/ /\ driver = "waiting"
          /\ driver' = "building"
          /\ UNCHANGED <<inFlight, lookupVars>>
       \/ /\ driver = "live"
          /\ driver' = "replacing" /\ inFlight' = "none"
          /\ StrandLookup
    /\ UNCHANGED <<supVars, events, client, probeVars, statusVars, otherVars>>

(* A Disconnect, or the supervisor gone once its commands are served, ends   *)
(* the driver; one that has a client disconnects it first.                  *)
StopsFromLiveOnly(state) == IF state = "live" THEN "stopping" ELSE state
StopsFrom(state) == IF state = "live" THEN "stopping" ELSE "stopped"

TakeDisconnect ==
    /\ \/ commands # <<>> /\ Head(commands) = "disconnect"
       \/ commands = <<>> /\ supervisor = "stopped"
    /\ driver \in {"waiting", "live"}
    /\ driver' = StopsFrom(driver) /\ inFlight' = "none"
    /\ commands' = <<>>
    /\ UNCHANGED <<supVars, events, client, probeVars, statusVars, otherVars, lookupVars>>

(* disconnect() runs to completion, and discards what the SDK still holds;   *)
(* then the next identity is minted.                                       *)
Disconnected ==
    /\ driver = "replacing"
    /\ driver' = "building" /\ client' = "none" /\ buffered' = 0
    /\ connected' = FALSE /\ deaths' = Bumped(deaths, DeathsCap)
    /\ UNCHANGED <<supVars, commands, events, inFlight, probeVars, failures,
                   shutdown, transport, outFrames, lookupVars>>

Stopped ==
    /\ driver = "stopping"
    /\ driver' = "stopped" /\ client' = "none" /\ commands' = <<>> /\ buffered' = 0
    /\ UNCHANGED <<supVars, events, inFlight, probeVars, statusVars, shutdown, transport,
                   outFrames, lookupVars>>

TransportGoneIf(closed) ==
    /\ driver = "live" /\ inFlight = "none" /\ outFrames = <<>> /\ closed
    /\ driver' = "stopping"
    /\ UNCHANGED <<supVars, commands, events, client, inFlight, probeVars, statusVars,
                   otherVars, lookupVars>>
TransportGoneWhenIdle == TransportGoneIf(TRUE)
TransportGone == TransportGoneIf(~transport)

(* wait_for_messages returned None: the SDK has given up on its gateway.    *)
DeathNoticedAs(status) ==
    /\ driver = "live" /\ client = "dead"
    /\ driver' = "reporting" /\ client' = "none" /\ inFlight' = "none" /\ buffered' = 0
    /\ connected' = status /\ deaths' = Bumped(deaths, DeathsCap)
    /\ StrandLookup
    /\ UNCHANGED <<supVars, commands, events, probeVars, failures, shutdown, transport,
                   outFrames>>
NoticeDeathStillConnected == DeathNoticedAs(connected)
NoticeDeath == DeathNoticedAs(FALSE)

TakeFrame ==
    /\ driver = "live" /\ inFlight = "none" /\ outFrames # <<>>
    /\ inFlight' = Head(outFrames) /\ outFrames' = Tail(outFrames)
    /\ UNCHANGED <<supVars, commands, events, driver, client, probeVars, statusVars,
                   shutdown, transport, buffered, lookupVars>>

(* The SDK accepted (or failed) the outstanding send, which it may only have *)
(* buffered; the mark is stamped when a probe is accepted.                  *)
SendDoneWithMark(stamped) ==
    /\ driver = "live" /\ inFlight # "none"
    /\ inFlight' = "none"
    /\ IF inFlight = "probe"
       THEN mark' = stamped /\ probes' = Bumped(probes, SilentRounds)
       ELSE UNCHANGED <<mark, probes>>
    /\ lookup' = IF inFlight = "lookup" THEN "carried" ELSE lookup
    /\ buffered' = IF inFlight = "submit" THEN Bumped(buffered, BufferCap) ELSE buffered
    /\ UNCHANGED <<supVars, commands, events, driver, client, rounds, probeIn,
                   statusVars, shutdown, transport, outFrames, left, early>>
SendDoneUnmarked == SendDoneWithMark(mark)
SendDone == SendDoneWithMark("quiet")

(* The probe arm: with nothing received since the last probe and no frame   *)
(* waiting, a round of silence counts, and enough of them report a death;   *)
(* otherwise the count starts over.  All but the report send a probe.       *)
ProbeTick ==
    /\ driver = "live" /\ inFlight = "none" /\ probeIn = 0
    /\ probeIn' = ProbeInterval
    /\ LET silence == mark = "quiet" /\ outFrames = <<>> IN
       IF silence /\ rounds + 1 >= SilentRounds
       THEN /\ rounds' = 0 /\ mark' = "none" /\ driver' = "reporting"
            /\ UNCHANGED inFlight
       ELSE /\ rounds' = IF silence THEN rounds + 1 ELSE 0
            /\ inFlight' = "probe"
            /\ UNCHANGED <<mark, driver>>
    /\ UNCHANGED <<supVars, commands, events, client, probes, statusVars,
                   otherVars, lookupVars>>

(* Anything received, a probe's own return included, is inbound traffic.    *)
Hear == mark' = IF mark = "quiet" THEN "heard" ELSE mark

Receive ==
    /\ driver = "live" /\ client = "good"
    /\ Hear
    /\ UNCHANGED <<supVars, commands, events, driver, client, inFlight, rounds, probes,
                   probeIn, statusVars, otherVars, lookupVars>>

-----------------------------------------------------------------------------
(* The environment: signals, the SDK, the transport and a wallet's lookup   *)

Signal ==
    /\ "signal" \in Faults
    /\ ~shutdown /\ shutdown' = TRUE
    /\ UNCHANGED <<supVars, commands, events, driverVars, transport, outFrames, buffered,
                   lookupVars>>

ClientFails ==
    /\ client \in {"good", "silent"} /\ driver \in {"live", "reporting"}
    /\ client' \in (Faults \cap {"silent", "dead"}) \ {client}
    /\ UNCHANGED <<supVars, commands, events, driver, inFlight, probeVars, statusVars,
                   otherVars, lookupVars>>

Emit ==
    /\ buffered > 0 /\ driver \in {"live", "reporting"} /\ client \in {"good", "silent"}
    /\ buffered' = buffered - 1
    /\ UNCHANGED <<supVars, commands, events, driverVars, shutdown, transport, outFrames,
                   lookupVars>>

TransportEnds ==
    /\ "transport" \in Faults /\ transport /\ lookup = "none"
    /\ transport' = FALSE
    /\ UNCHANGED <<supVars, commands, events, driverVars, shutdown, outFrames, buffered,
                   lookupVars>>

SubmitQueued ==
    /\ transport /\ Len(outFrames) < OutCap
    /\ outFrames' = Append(outFrames, "submit")
    /\ UNCHANGED <<supVars, commands, events, driverVars, shutdown, transport, buffered,
                   lookupVars>>

LookupStarts ==
    /\ transport /\ lookup = "none" /\ LookupTimeout > 0
    /\ lookup' = "asked" /\ left' = LookupTimeout /\ early' = FALSE
    /\ UNCHANGED <<supVars, commands, events, driverVars, otherVars>>

LookupAccepted ==
    /\ lookup = "asked" /\ Len(outFrames) < OutCap
    /\ lookup' = "counted"
    /\ outFrames' = Append(outFrames, "lookup")
    /\ UNCHANGED <<supVars, commands, events, driverVars, shutdown, transport, buffered,
                   left, early>>

LookupAnswered ==
    /\ lookup = "carried" /\ driver = "live" /\ client = "good"
    /\ lookup' = "none" /\ left' = 0 /\ early' = FALSE
    /\ Hear
    /\ UNCHANGED <<supVars, commands, events, driver, client, inFlight, rounds, probes,
                   probeIn, statusVars, otherVars>>

(* The caller gave up (its budget ran out, or the wallet hung up) and its    *)
(* waiter was swept; its frame, if it has not left, is one nobody waits for. *)
LookupOver ==
    LET disowned(f) == IF f = "lookup" THEN "submit" ELSE f IN
    /\ lookup # "none"
    /\ lookup' = "none" /\ left' = 0 /\ early' = FALSE
    /\ inFlight' = disowned(inFlight)
    /\ outFrames' = [i \in DOMAIN outFrames |-> disowned(outFrames[i])]
    /\ UNCHANGED <<supVars, commands, events, driver, client, probeVars, statusVars,
                   shutdown, transport, buffered>>

-----------------------------------------------------------------------------
(* Time                                                                    *)

SupervisorReady ==
    \/ supervisor = "select" /\ (shutdown \/ events > 0 \/ driver = "stopped")
    \/ supervisor = "select" /\ (deferLeft = 0 \/ (deferLeft = Off /\ rotateIn = 0))
    \/ supervisor = "backoff" /\ (shutdown \/ cooldown = 0)
    \/ supervisor \in {"rebuild", "rotate", "disconnect"}
         /\ (driver = "stopped" \/ Len(commands) < CmdCap)

DriverReady ==
    \/ driver \in {"live", "waiting"} /\ (commands # <<>> \/ supervisor = "stopped")
    \/ driver = "live" /\ (client = "dead" \/ (probeIn = 0 /\ inFlight = "none"))
    \/ driver = "reporting" /\ (supervisor = "stopped" \/ events < EvtCap)

TransportReady == lookup = "asked" /\ Len(outFrames) < OutCap

Tick ==
    /\ ~SupervisorReady /\ ~DriverReady /\ ~TransportReady
    /\ rotateIn' = Down(rotateIn) /\ deferLeft' = Down(deferLeft)
    /\ cooldown' = Down(cooldown) /\ probeIn' = Down(probeIn) /\ left' = Down(left)
    /\ UNCHANGED <<supervisor, shutdown, commands, events, driver, client, inFlight,
                   mark, rounds, probes, statusVars, transport, outFrames, buffered,
                   lookup, early>>

-----------------------------------------------------------------------------
Init ==
    /\ supervisor = "select" /\ rotateIn = NextRotation
    /\ deferLeft = Off /\ cooldown = 0
    /\ shutdown = FALSE
    /\ commands = <<>> /\ events = 0
    /\ driver = "building" /\ client = "none" /\ inFlight = "none"
    /\ mark = "none" /\ rounds = 0 /\ probes = 0 /\ probeIn = 0
    /\ connected = FALSE /\ failures = 0 /\ deaths = 0
    /\ transport = TRUE /\ outFrames = <<>> /\ buffered = 0
    /\ lookup = "none" /\ left = 0 /\ early = FALSE

Supervisor ==
    \/ SeeShutdown \/ TakeDied \/ DriverGone \/ RotationDue
    \/ SendRebuild \/ SendRotation \/ SendDisconnect \/ SendFails \/ BackoffEnds

Driver ==
    \/ Built \/ BuildFails \/ Report \/ TakeRebuild \/ TakeDisconnect \/ Disconnected
    \/ Stopped \/ TransportGone \/ NoticeDeath \/ TakeFrame \/ SendDone \/ ProbeTick
    \/ Receive

Environment ==
    \/ Signal \/ ClientFails \/ Emit \/ TransportEnds \/ SubmitQueued
    \/ LookupStarts \/ LookupAccepted \/ LookupAnswered \/ LookupOver

Next == Supervisor \/ Driver \/ Environment \/ Tick

Spec == Init /\ [][Next]_vars

(* The tasks run when woken and select! picks a ready arm at random, so an *)
(* arm that stays ready is taken, and so is the probe's, which a send in     *)
(* flight only masks for a while; time never stops; and what the SDK is      *)
(* asked to do (build, disconnect, accept) it finishes one way or another.   *)
Fairness ==
    /\ WF_vars(SeeShutdown) /\ WF_vars(TakeDied \/ DriverGone)
    /\ WF_vars(RotationDue) /\ WF_vars(BackoffEnds)
    /\ WF_vars(SendRebuild \/ SendRotation \/ SendDisconnect \/ SendFails)
    /\ WF_vars(Built \/ BuildFails \/ Report \/ Disconnected \/ Stopped)
    /\ WF_vars(TakeRebuild \/ TakeDisconnect) /\ WF_vars(NoticeDeath)
    /\ WF_vars(TakeFrame \/ SendDone) /\ WF_vars(LookupAccepted)
    /\ SF_vars(ProbeTick) /\ SF_vars(Tick)

FairSpec == Spec /\ Fairness

-----------------------------------------------------------------------------
(* Properties                                                              *)

(* Every variable stays in its range and both channels within capacity.    *)
TypeOK ==
    /\ supervisor \in {"select", "rebuild", "backoff", "rotate", "disconnect", "stopped"}
    /\ rotateIn \in Off .. NextRotation
    /\ deferLeft \in Off .. EffectiveDeferLimit
    /\ cooldown \in 0 .. Backoff
    /\ shutdown \in BOOLEAN
    /\ commands \in Seq({"rebuild", "rotate", "disconnect"}) /\ Len(commands) <= CmdCap
    /\ events \in 0 .. EvtCap
    /\ driver \in {"building", "live", "reporting", "waiting", "replacing",
                   "stopping", "stopped"}
    /\ client \in {"none", "good", "silent", "dead"}
    /\ inFlight \in {"none", "submit", "lookup", "probe"}
    /\ mark \in {"none", "quiet", "heard"}
    /\ rounds \in 0 .. SilentRounds - 1
    /\ probes \in 0 .. SilentRounds
    /\ probeIn \in 0 .. ProbeInterval
    /\ connected \in BOOLEAN
    /\ failures \in 0 .. FailuresCap
    /\ deaths \in 0 .. DeathsCap
    /\ transport \in BOOLEAN
    /\ outFrames \in Seq({"submit", "lookup"}) /\ Len(outFrames) <= OutCap
    /\ buffered \in 0 .. BufferCap
    /\ lookup \in {"none", "asked", "counted", "carried", "stranded"}
    /\ left \in 0 .. LookupTimeout
    /\ early \in BOOLEAN

(* The two tasks never wait for each other: the driver stuck reporting a    *)
(* death into a full channel while the supervisor is stuck sending into the *)
(* channel the driver is not reading (nym.rs:978, 1018; nym_driver.rs:225).  *)
NoMutualWait ==
    ~ /\ supervisor \in {"rebuild", "rotate", "disconnect"} /\ Len(commands) = CmdCap
      /\ driver = "reporting" /\ events = EvtCap

(* A driver without a client is never forgotten: its report, or the rebuild *)
(* it was answered with, is always under way, unless the supervisor is gone *)
(* (build_when_told waits for nothing else, nym_driver.rs:685-708).         *)
NoLostDeath ==
    driver = "waiting" =>
        \/ events > 0 \/ commands # <<>>
        \/ supervisor \in {"rebuild", "rotate", "disconnect", "stopped"}

(* /nym-status never reports a connected client while the driver has none   *)
(* to use, nor a run of failures while it has one; an operator's only view  *)
(* of a shim that swallows migrations (nym.rs:113-120, 136-146).            *)
StatusIsHonest ==
    /\ connected /\ driver # "stopped" => client # "none"
    /\ driver \in {"live", "replacing"} => connected
    /\ failures > 0 => ~connected

(* A rotation is not asked for while a lookup that was registered when it    *)
(* came due has budget left (effective_defer_limit, nym.rs:476-478, and the *)
(* limit main.rs:333-347 derives from the budget in force).  nym.rs:472-475  *)
(* excepts a budget raised past the compiled-in one, "since the supervisor   *)
(* is handed a policy and never sees that override"; that comment is stale:  *)
(* main.rs:343 puts the override into the policy, so the property makes no   *)
(* such exception, and its run raises the budget.                           *)
DeferralCoversLookup ==
    [][supervisor = "select" /\ supervisor' = "rotate" =>
          ~(early /\ ~Idle /\ left > 0)]_vars

(* A rotation never follows another rebuild faster than the backoff, however *)
(* short the configured period, zero included (next_rotation's floor,        *)
(* nym.rs:481-489; the option takes any number, config.rs:115-116).          *)
RotationsKeepBackoff ==
    [][supervisor = "select" /\ supervisor' = "rotate" => cooldown = 0]_vars

(* A client is reported silent only after SilentRounds probes of its own: the *)
(* dead client's silence is never charged to the fresh one (nym_driver.rs:   *)
(* 503-511, 533-538).                                                       *)
SilentReport ==
    driver = "live" /\ driver' = "reporting" /\ client' # "none"
SilenceIsItsOwn == [][SilentReport => probes = SilentRounds]_vars

(* A signal ends both tasks, whatever they are waiting for (nym.rs:965-968,  *)
(* 985-990; nym_driver.rs:433-437, 704).                                    *)
ShutdownStops == shutdown ~> supervisor = "stopped" /\ driver = "stopped"

(* While the driver has no client, or one that died, another build is tried  *)
(* until one succeeds or the shim stops: no failure is the last word.        *)
ClientIsRebuilt ==
    client \in {"none", "dead"} ~> driver \in {"building", "stopped"}

(* No identity is kept for ever when rotation is configured, however busy    *)
(* the shim is (the bound on the linkage window, nym.rs:400-428).            *)
IdentityExpires ==
    Period # Never => (driver = "live" ~> driver \in {"replacing", "waiting", "stopped"})

(* A client that is never delivered to is replaced, unless a backlog keeps   *)
(* deferring the verdict (nym_driver.rs:238-262, 354-412).                   *)
SilentIsReplaced ==
    []<>(client # "silent") \/ []<>(outFrames # <<>>)

-----------------------------------------------------------------------------
(* What the code says of itself and does not do                            *)

(* nym_driver.rs:464-469: submits the SDK has accepted, and wallets were told *)
(* of, are why a scheduled rotation is deferred while requests are in flight, *)
(* and what is left is the SDK's own death, or a rotation whose deferral ran  *)
(* out.  But the count the supervisor reads never holds a submit, so with no  *)
(* lookup under way a rotation is not deferred at all.                      *)
RotationSparesAcknowledged ==
    [][supervisor = "select" /\ supervisor' = "rotate" /\ buffered > 0
          => deferLeft # Off /\ DeferralLeft = 0]_vars
=============================================================================
