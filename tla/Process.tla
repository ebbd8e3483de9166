------------------------------ MODULE Process ------------------------------
(***************************************************************************)
(* The whole process, as main.rs (zeronym/shim/src) wires it: it starts,     *)
(* or refuses to, on its configuration; the listener (module Server) and,    *)
(* over the mixnet, the supervisor and driver (module Lifecycle) run side    *)
(* by side and each watch the same signal; the end of serve_with_shutdown    *)
(* is the end of main, and of every task where it stands.                   *)
(***************************************************************************)
EXTENDS Server, Configuration, Sequences

CONSTANTS
    Configurations,  \* the configurations the process may be started with
    Never, Period, Backoff, RequestTimeout, LookupTimeout, ProbeInterval, SilentRounds,
    CmdCap, EvtCap, OutCap, BufferCap, Faults, DeathsCap, FailuresCap \* Lifecycle's

VARIABLES
    config,          \* what the process was started with, until it is up
    stage,           \* starting, up, or refused (main returned an error)
    diversion,       \* what main built: ForwardOnly, Http or Nym
    supervisor, rotateIn, deferLeft, cooldown, commands, events, driver, client,
    inFlight, mark, rounds, probes, probeIn, connected, failures, deaths,
    transport, outFrames, buffered, lookup, left, early

L == INSTANCE Lifecycle

(* A process can always be signalled.                                       *)
ASSUME ProcessAssumption == L!LifecycleAssumption /\ "signal" \in Faults
ASSUME ConfigurationsAssumption ==
    \A c \in Configurations :
        /\ {c.hub, c.required, c.carried, c.tls} \subseteq BOOLEAN
        /\ DOMAIN c.nym \subseteq Nat

mixnetVars == <<supervisor, rotateIn, deferLeft, cooldown, commands, events, driver,
                client, inFlight, mark, rounds, probes, probeIn, connected,
                failures, deaths, transport, outFrames, buffered, lookup, left, early>>
listenerVars == <<tls, listener, connectionVars, acmeVars>>
mainVars     == <<config, stage, diversion>>
processVars  == <<mainVars, listenerVars, shutdown, mixnetVars>>

Up == stage = "up" /\ Running
Mixnet == diversion = "Nym"

-----------------------------------------------------------------------------
(* Everything that can fail is built before the first connection is accepted, *)
(* and nothing reads the configuration again.                               *)
Start ==
    /\ stage = "starting" /\ Starts(config)
    /\ stage' = "up" /\ diversion' = HubSelection(config) /\ config' = <<>>
    /\ UNCHANGED <<listenerVars, shutdown, mixnetVars>>

StartFails ==
    /\ stage = "starting" /\ ~Starts(config)
    /\ stage' = "refused" /\ listener' = "failed"
    /\ UNCHANGED <<config, diversion, tls, connectionVars, acmeVars, shutdown, mixnetVars>>

Listen ==
    /\ Up /\ (Loop \/ (\E p \in Peers : Connection(p)) \/ Outside)
    /\ UNCHANGED <<mainVars, mixnetVars>>

(* The supervisor, the driver and their timers, while main has not returned. *)
Carry ==
    /\ Up /\ Mixnet
    /\ L!Supervisor \/ L!Driver \/ L!ClientFails \/ L!Emit \/ L!Tick
    /\ UNCHANGED <<mainVars, listenerVars, shutdown>>

(* Only a wallet that is served has anything for the mixnet; the diversion    *)
(* lives as long as the listener, so the transport never loses its handles.  *)
Divert ==
    /\ Up /\ Mixnet /\ \E p \in Peers : peer[p] = "serving"
    /\ L!SubmitQueued
    /\ UNCHANGED <<mainVars, listenerVars, shutdown>>

(* main's two shutdown() futures resolve on the same signal.                 *)
Stop ==
    /\ Up /\ Signal
    /\ UNCHANGED <<mainVars, mixnetVars>>

ProcessInit ==
    /\ Init /\ L!Init
    /\ config \in Configurations /\ tls = config.tls /\ stage = "starting" /\ diversion = "ForwardOnly"

ProcessNext == Start \/ StartFails \/ Listen \/ Carry \/ Divert \/ Stop

ProcessSpec == ProcessInit /\ [][ProcessNext]_processVars

(* The loop and the tasks run when woken, and descriptors do not stay out    *)
(* for ever (accept is taken if it is possible again and again).  The        *)
(* authority comes for an order, again when it was refused, and completes    *)
(* its handshake; nothing is asked of a wallet, a stray or the mixnet.       *)
Listening(step) == Up /\ step /\ UNCHANGED <<mainVars, mixnetVars>>
ProcessFairness ==
    /\ WF_processVars(Start \/ StartFails)
    /\ WF_processVars(Listening(SeeSignal)) /\ WF_processVars(Listening(PauseEnds))
    /\ WF_processVars(Listening(Drained \/ DrainTimesOut))
    /\ WF_processVars(Listening(Orders))
    /\ \A p \in Peers :
         /\ SF_processVars(Listening(Accept(p)))
         /\ WF_processVars(Listening(Validated(p)))
         /\ WF_processVars(Listening(peer[p] = "refused" /\ Leaves(p)))
    /\ SF_processVars(Listening(\E p \in Peers : Arrives(p) /\ kind'[p] = "validation"))

ProcessFairSpec == ProcessSpec /\ ProcessFairness

-----------------------------------------------------------------------------
(* Properties                                                              *)

(* What the operator asked for.                                            *)
HubsAsked == {config.nym[i] : i \in DOMAIN config.nym} \ {"blank"}

(* A shim that accepts wallets diverts exactly when a hub was asked for, to   *)
(* hubs that are all of them usable, and never forwards when diversion was   *)
(* required (config.rs:293-335, main.rs:127-164): a forward-only shim looks  *)
(* as healthy from outside as one that diverts.                             *)
DivertsAsAsked ==
    [][stage = "starting" /\ stage' = "up" =>
          /\ diversion' = "Http" <=> config.hub
          /\ diversion' = "Nym" <=> HubsAsked # {}
          /\ HubsAsked \cap {"garbled", "unparsed"} = {}
          /\ config.required => diversion' # "ForwardOnly"]_processVars

(* And an empty variable is as good as none: the shim is refused only for     *)
(* something that was asked of it (config.rs:294-302).                      *)
RefusedForCause ==
    stage = "refused" =>
        \/ config.hub /\ HubsAsked # {}
        \/ ~config.hub /\ HubsAsked = {} /\ config.required
        \/ HubsAsked \cap {"garbled", "unparsed"} # {} \/ Repeated(config)
        \/ HubsAsked # {} /\ ~config.carried

(* While main serves, the mixnet's tasks stop for a signal and for nothing    *)
(* else: a shim that goes on accepting wallets goes on diverting (nym.rs:    *)
(* 966-1021, nym_driver.rs:385-448, main.rs:349-381).                       *)
MixnetOutlastsService ==
    supervisor = "stopped" \/ driver \in {"stopping", "stopped"} => shutdown

(* main.rs:197-202: a stop tells the supervisor to disconnect its client      *)
(* cleanly rather than leaking it on a hard kill.  The drain has nothing to  *)
(* wait for once the last wallet has gone, and main does not wait for the    *)
(* driver at all.                                                          *)
CleanStop ==
    stage = "up" /\ Mixnet /\ listener \in Returned \ {"failed"} => client = "none"
=============================================================================
