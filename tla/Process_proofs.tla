--------------------------- MODULE Process_proofs ---------------------------
(***************************************************************************)
(* Theorems about the whole: main starts on what it was asked for and on      *)
(* nothing else; what Lifecycle alone allows, its tasks stopping because the  *)
(* transport is gone, cannot happen to a process that still serves; and the   *)
(* process implements both its parts, so that what is proved of a listener    *)
(* and of a supervisor and a driver alone holds when they share main's        *)
(* signal and its end.                                                     *)
(***************************************************************************)
EXTENDS Process, TLAPS

-----------------------------------------------------------------------------
(* The start                                                               *)

(* What main was started with it keeps until it is up, it refuses only what    *)
(* it cannot build, and till then nothing happens at the listener.          *)
StageInv ==
    /\ stage # "up" => config \in Configurations
    /\ stage = "starting" => listener = "accepting"
    /\ stage = "refused" => ~Starts(config) /\ listener = "failed"

(* The entries of --hub-nym that are not blank, as places and as a set.       *)
LEMMA AddressesAreHubs ==
  /\ Addresses(config) # {} <=> HubsAsked # {}
  /\ Garbled(config) <=> "garbled" \in HubsAsked
  /\ Unparsed(config) <=> "unparsed" \in HubsAsked
  BY DEF Addresses, Garbled, Unparsed, HubsAsked

(* The five ways hub_selection can come out, and what each stands for.        *)
LEMMA SelectionMeans ==
  ASSUME config \in Configurations
  PROVE  /\ HubSelection(config) = "BothTransports" <=> config.hub /\ HubsAsked # {}
         /\ HubSelection(config) = "Http" <=> config.hub /\ HubsAsked = {}
         /\ HubSelection(config) = "DiversionRequired" <=>
              ~config.hub /\ HubsAsked = {} /\ config.required
         /\ HubSelection(config) = "ForwardOnly" <=>
              ~config.hub /\ HubsAsked = {} /\ ~config.required
         /\ HubSelection(config) = "BadAddress" <=>
              ~config.hub /\ HubsAsked # {} /\ (Garbled(config) \/ Repeated(config))
         /\ HubSelection(config) = "Nym" <=>
              ~config.hub /\ HubsAsked # {} /\ ~(Garbled(config) \/ Repeated(config))
<1>1. config.hub \in BOOLEAN /\ config.required \in BOOLEAN
  BY ConfigurationsAssumption
<1>2. Addresses(config) # {} <=> HubsAsked # {}
  BY AddressesAreHubs
<1> QED BY <1>1, <1>2 DEF HubSelection, Selected

LEMMA SelectionIsOne ==
  ASSUME config \in Configurations
  PROVE  HubSelection(config) \in {"BothTransports", "Http", "DiversionRequired", "ForwardOnly",
                                   "BadAddress", "Nym"}
<1>1. config.hub \in BOOLEAN /\ config.required \in BOOLEAN
  BY ConfigurationsAssumption
<1> QED BY <1>1 DEF HubSelection, Selected

(* A refusal that is justified: main cannot build what was asked of it.       *)
LEMMA RefusalHasCause ==
  ASSUME config \in Configurations, ~Starts(config)
  PROVE  \/ config.hub /\ HubsAsked # {}
         \/ ~config.hub /\ HubsAsked = {} /\ config.required
         \/ HubsAsked \cap {"garbled", "unparsed"} # {} \/ Repeated(config)
         \/ HubsAsked # {} /\ ~config.carried
<1>1. CASE HubSelection(config) = "BothTransports"    BY <1>1, SelectionMeans
<1>2. CASE HubSelection(config) = "DiversionRequired" BY <1>2, SelectionMeans
<1>3. CASE HubSelection(config) = "BadAddress"
  BY <1>3, SelectionMeans, AddressesAreHubs
<1>4. CASE HubSelection(config) = "Nym"
  <2>1. ~config.carried \/ Unparsed(config)
    BY <1>4 DEF Starts
  <2>2. HubsAsked # {}
    BY <1>4, SelectionMeans
  <2> QED BY <2>1, <2>2, AddressesAreHubs
<1> QED BY <1>1, <1>2, <1>3, <1>4, SelectionIsOne DEF Starts

LEMMA StartIsAsAsked ==
  ASSUME config \in Configurations, Start
  PROVE  /\ diversion' = "Http" <=> config.hub
         /\ diversion' = "Nym" <=> HubsAsked # {}
         /\ HubsAsked \cap {"garbled", "unparsed"} = {}
         /\ config.required => diversion' # "ForwardOnly"
<1>1. diversion' = HubSelection(config) /\ Starts(config)
  BY DEF Start
<1>2. HubSelection(config) \in {"Http", "ForwardOnly", "Nym"}
  BY <1>1 DEF Starts
<1>3. HubSelection(config) = "Nym" => ~Unparsed(config) /\ ~Garbled(config)
  BY <1>1, SelectionMeans DEF Starts
<1>4. config.hub => HubsAsked = {}
  BY <1>2, SelectionMeans
<1>5. HubsAsked # {} => HubSelection(config) = "Nym"
  BY <1>2, SelectionMeans
<1>6. HubsAsked \cap {"garbled", "unparsed"} = {}
  BY <1>3, <1>5, AddressesAreHubs
<1> QED BY <1>1, <1>2, <1>4, <1>5, <1>6, SelectionMeans

LEMMA StageInit == ProcessInit => StageInv
  BY DEF ProcessInit, StageInv, Init

(* Only the two starts move the stage.                                      *)
LEMMA StageMoves ==
  ASSUME [ProcessNext]_processVars
  PROVE  \/ Start \/ StartFails
         \/ /\ UNCHANGED <<config, stage, diversion>>
            /\ stage # "up" => UNCHANGED listener
  BY DEF ProcessNext, processVars, mainVars, listenerVars, Listen, Carry, Divert, Stop, Up

LEMMA StageStep == StageInv /\ [ProcessNext]_processVars => StageInv'
<1> SUFFICES ASSUME StageInv, [ProcessNext]_processVars PROVE StageInv'
  OBVIOUS
<1>1. CASE Start      BY <1>1 DEF Start, StageInv
<1>2. CASE StartFails BY <1>2 DEF StartFails, StageInv, Starts, HubSelection, Selected,
                              Addresses, Garbled, Unparsed, Repeated
<1>3. CASE UNCHANGED <<config, stage, diversion>> /\ (stage # "up" => UNCHANGED listener)
  BY <1>3 DEF StageInv, Starts, HubSelection, Selected, Addresses, Garbled, Unparsed, Repeated
<1> QED BY <1>1, <1>2, <1>3, StageMoves

(* Whatever the operator wrote, a shim that does not start has a reason that   *)
(* is in what was asked of it.                                             *)
THEOREM RefusalsHaveCause == ProcessSpec => []RefusedForCause
<1>1. StageInv => RefusedForCause
  BY RefusalHasCause DEF StageInv, RefusedForCause
<1> QED BY <1>1, StageInit, StageStep, PTL DEF ProcessSpec

(* And one that starts diverts exactly as asked, for every configuration.     *)
THEOREM DivertsWhatWasAsked == ProcessSpec => DivertsAsAsked
<1>1. ASSUME StageInv, [ProcessNext]_processVars, stage = "starting", stage' = "up"
      PROVE  /\ diversion' = "Http" <=> config.hub
             /\ diversion' = "Nym" <=> HubsAsked # {}
             /\ HubsAsked \cap {"garbled", "unparsed"} = {}
             /\ config.required => diversion' # "ForwardOnly"
  <2>1. Start
    BY <1>1, StageMoves DEF StartFails
  <2>2. config \in Configurations
    BY <1>1 DEF StageInv
  <2> QED BY <2>1, <2>2, StartIsAsAsked
<1>2. StageInv /\ [ProcessNext]_processVars =>
        [stage = "starting" /\ stage' = "up" =>
          /\ diversion' = "Http" <=> config.hub
          /\ diversion' = "Nym" <=> HubsAsked # {}
          /\ HubsAsked \cap {"garbled", "unparsed"} = {}
          /\ config.required => diversion' # "ForwardOnly"]_processVars
  BY <1>1
<1> QED BY <1>2, StageInit, StageStep, PTL DEF ProcessSpec, DivertsAsAsked

-----------------------------------------------------------------------------
(* The end                                                                 *)

LEMMA ListenKeepsSignal == Listen => UNCHANGED <<tls, shutdown>>
<1> SUFFICES ASSUME Listen PROVE UNCHANGED <<tls, shutdown>>
  OBVIOUS
<1>1. CASE Loop
  BY <1>1 DEF Loop, SeeSignal, DescriptorsRunOut, PauseEnds, ListenerBreaks, Drained,
     DrainTimesOut, DrainEndsIf, Accept, AcceptWhen
<1>2. ASSUME NEW p \in Peers, Connection(p) PROVE UNCHANGED <<tls, shutdown>>
  BY <1>2 DEF Connection, Secured, HandshakeFails, Validated, ConnectionEnds, TaskOver
<1>3. CASE Outside
  BY <1>3 DEF Outside, Orders, Expires, Arrives, Leaves
<1> QED BY <1>1, <1>2, <1>3 DEF Listen

(* The signal is the only thing that starts a stop, and every step of it has  *)
(* the signal behind it.                                                    *)
StopInv ==
    /\ transport
    /\ commands \in Seq({"rebuild", "rotate", "disconnect"})
    /\ \A i \in 1 .. Len(commands) : commands[i] = "disconnect" => shutdown
    /\ supervisor \in {"disconnect", "stopped"} => shutdown
    /\ driver \in {"stopping", "stopped"} => shutdown

LEMMA StopInit == ProcessInit => StopInv
  BY DEF ProcessInit, L!Init, StopInv

LEMMA SupervisorStop ==
  ASSUME StopInv, L!Supervisor, UNCHANGED shutdown
  PROVE  StopInv'
<1> USE DEF StopInv, L!driverVars, L!otherVars
<1>1. CASE L!SeeShutdown   BY <1>1 DEF L!SeeShutdown
<1>2. CASE L!TakeDied      BY <1>2 DEF L!TakeDied
<1>3. CASE L!DriverGone    BY <1>3 DEF L!DriverGone
<1>4. CASE L!RotationDue   BY <1>4 DEF L!RotationDue
<1>5. ASSUME NEW from, NEW command \in {"rebuild", "rotate", "disconnect"},
             L!Commanded(from, command), command = "disconnect" => shutdown
      PROVE  /\ commands' \in Seq({"rebuild", "rotate", "disconnect"})
             /\ \A i \in 1 .. Len(commands') : commands'[i] = "disconnect" => shutdown'
             /\ transport' /\ UNCHANGED driver
  BY <1>5 DEF L!Commanded
<1>6. CASE L!SendRebuild    BY <1>6, <1>5 DEF L!SendRebuild
<1>7. CASE L!SendRotation   BY <1>7, <1>5 DEF L!SendRotation, L!SendRotationNextIn
<1>8. CASE L!SendDisconnect
  <2>1. shutdown
    BY <1>8 DEF L!SendDisconnect, L!Commanded
  <2> QED BY <1>8, <1>5, <2>1 DEF L!SendDisconnect
<1>9. CASE L!SendFails      BY <1>9 DEF L!SendFails
<1>10. CASE L!BackoffEnds   BY <1>10 DEF L!BackoffEnds
<1> QED
  BY <1>1, <1>2, <1>3, <1>4, <1>6, <1>7, <1>8, <1>9, <1>10 DEF L!Supervisor

LEMMA DriverStop ==
  ASSUME StopInv, L!Driver, UNCHANGED shutdown
  PROVE  StopInv'
<1> USE DEF StopInv, L!supVars, L!otherVars
<1>1. CASE L!Built          BY <1>1 DEF L!Built, L!BuiltWith
<1>2. CASE L!BuildFails     BY <1>2 DEF L!BuildFails, L!BuildFailsInto
<1>3. CASE L!Report         BY <1>3 DEF L!Report
<1>4. CASE L!TakeRebuild
  <2>1. /\ commands' \in Seq({"rebuild", "rotate", "disconnect"})
        /\ \A i \in 1 .. Len(commands') : commands'[i] = "disconnect" => shutdown
    BY <1>4 DEF L!TakeRebuild
  <2> QED BY <1>4, <2>1 DEF L!TakeRebuild
<1>5. CASE L!TakeDisconnect
  <2>1. shutdown
    BY <1>5 DEF L!TakeDisconnect
  <2> QED BY <1>5, <2>1 DEF L!TakeDisconnect, L!StopsFrom
<1>6. CASE L!Disconnected   BY <1>6 DEF L!Disconnected
<1>7. CASE L!Stopped        BY <1>7 DEF L!Stopped
<1>8. CASE L!TransportGone  BY <1>8 DEF L!TransportGone, L!TransportGoneIf
<1>9. CASE L!NoticeDeath    BY <1>9 DEF L!NoticeDeath, L!DeathNoticedAs
<1>10. CASE L!TakeFrame     BY <1>10 DEF L!TakeFrame
<1>11. CASE L!SendDone      BY <1>11 DEF L!SendDone, L!SendDoneWithMark
<1>12. CASE L!ProbeTick     BY <1>12 DEF L!ProbeTick
<1>13. CASE L!Receive       BY <1>13 DEF L!Receive
<1> QED
  BY <1>1, <1>2, <1>3, <1>4, <1>5, <1>6, <1>7, <1>8, <1>9, <1>10, <1>11, <1>12, <1>13
  DEF L!Driver

LEMMA StopStep == StopInv /\ [ProcessNext]_processVars => StopInv'
<1> SUFFICES ASSUME StopInv, [ProcessNext]_processVars PROVE StopInv'
  OBVIOUS
<1>1. CASE UNCHANGED processVars
  BY <1>1 DEF processVars, mixnetVars, StopInv
<1>2. CASE Start
  BY <1>2 DEF Start, mixnetVars, StopInv
<1>3. CASE StartFails
  BY <1>3 DEF StartFails, mixnetVars, StopInv
<1>4. CASE Listen
  BY <1>4, ListenKeepsSignal DEF Listen, mixnetVars, StopInv
<1>5. CASE Carry
  <2>1. CASE L!Supervisor BY <1>5, <2>1, SupervisorStop DEF Carry
  <2>2. CASE L!Driver     BY <1>5, <2>2, DriverStop DEF Carry
  <2>3. CASE L!ClientFails
    BY <1>5, <2>3 DEF Carry, L!ClientFails, L!supVars, L!otherVars, StopInv
  <2>4. CASE L!Emit
    BY <1>5, <2>4 DEF Carry, L!Emit, L!supVars, L!driverVars, StopInv
  <2>5. CASE L!Tick
    BY <1>5, <2>5 DEF Carry, L!Tick, StopInv
  <2> QED BY <1>5, <2>1, <2>2, <2>3, <2>4, <2>5 DEF Carry
<1>6. CASE Divert
  BY <1>6 DEF Divert, L!SubmitQueued, L!supVars, L!driverVars, StopInv
<1>7. CASE Stop
  <2>1. shutdown'
    BY <1>7 DEF Stop, Signal
  <2> QED BY <1>7, <2>1 DEF Stop, mixnetVars, StopInv
<1> QED BY <1>1, <1>2, <1>3, <1>4, <1>5, <1>6, <1>7 DEF ProcessNext

(* While main serves, the supervisor and the driver stop for a signal and for  *)
(* nothing else: a shim that accepts wallets keeps its mixnet client in hand,  *)
(* for every configuration, capacity, timing and fault.                     *)
THEOREM MixnetOutlasts == ProcessSpec => []MixnetOutlastsService
<1>1. StopInv => MixnetOutlastsService
  BY DEF StopInv, MixnetOutlastsService
<1> QED BY <1>1, StopInit, StopStep, PTL DEF ProcessSpec

-----------------------------------------------------------------------------
(* The parts inside the whole                                              *)

(* A listener that main never opened, because it refused to start, accepts    *)
(* as little as one no peer has come to.                                    *)
Heard == IF stage = "refused" THEN "accepting" ELSE listener

LP == INSTANCE Lifecycle_proofs
SP == INSTANCE Server_proofs WITH listener <- Heard

(* The instance the theorems of Lifecycle are about is the one Process takes   *)
(* its steps from.                                                         *)
LEMMA SameNext == L!Next <=> LP!Next
<1> USE DEF L!supVars, L!probeVars, L!statusVars, L!lookupVars, L!driverVars, L!otherVars,
            L!Larger, L!Bumped, L!Off, L!Down, L!StrandLookup, L!Hear, L!Idle, L!DeferralLeft,
            L!EffectiveDeferLimit, L!NextRotation, L!Commanded,
            LP!supVars, LP!probeVars, LP!statusVars, LP!lookupVars, LP!driverVars, LP!otherVars,
            LP!Larger, LP!Bumped, LP!Off, LP!Down, LP!StrandLookup, LP!Hear, LP!Idle, LP!DeferralLeft,
            LP!EffectiveDeferLimit, LP!NextRotation, LP!Commanded
<1>1. L!Supervisor <=> LP!Supervisor
  BY DEF L!Supervisor, L!SeeShutdown, L!TakeDied, L!DriverGone, L!RotationDue, L!SendRebuild,
         L!SendRotation, L!SendRotationNextIn, L!SendDisconnect, L!SendFails, L!BackoffEnds,
         LP!Supervisor, LP!SeeShutdown, LP!TakeDied, LP!DriverGone, LP!RotationDue, LP!SendRebuild,
         LP!SendRotation, LP!SendRotationNextIn, LP!SendDisconnect, LP!SendFails, LP!BackoffEnds
<1>2. L!Driver <=> LP!Driver
  BY DEF L!Driver, L!Built, L!BuiltWith, L!BuildFails, L!BuildFailsInto, L!Report, L!TakeRebuild,
         L!TakeDisconnect, L!StopsFrom, L!Disconnected, L!Stopped, L!TransportGone, L!TransportGoneIf,
         L!NoticeDeath, L!DeathNoticedAs, L!TakeFrame, L!SendDone, L!SendDoneWithMark, L!ProbeTick, L!Receive,
         LP!Driver, LP!Built, LP!BuiltWith, LP!BuildFails, LP!BuildFailsInto, LP!Report, LP!TakeRebuild,
         LP!TakeDisconnect, LP!StopsFrom, LP!Disconnected, LP!Stopped, LP!TransportGone, LP!TransportGoneIf,
         LP!NoticeDeath, LP!DeathNoticedAs, LP!TakeFrame, LP!SendDone, LP!SendDoneWithMark, LP!ProbeTick, LP!Receive
<1>3. L!Environment <=> LP!Environment
  BY DEF L!Environment, L!Signal, L!ClientFails, L!Emit, L!TransportEnds, L!SubmitQueued, L!LookupStarts,
         L!LookupAccepted, L!LookupAnswered, L!LookupOver,
         LP!Environment, LP!Signal, LP!ClientFails, LP!Emit, LP!TransportEnds, LP!SubmitQueued, LP!LookupStarts,
         LP!LookupAccepted, LP!LookupAnswered, LP!LookupOver
<1>4. L!Tick <=> LP!Tick
  BY DEF L!Tick, L!SupervisorReady, L!DriverReady, L!TransportReady,
         LP!Tick, LP!SupervisorReady, LP!DriverReady, LP!TransportReady
<1> QED BY <1>1, <1>2, <1>3, <1>4 DEF L!Next, LP!Next
LEMMA SameSpec == L!Spec <=> LP!Spec
<1>1. L!Init <=> LP!Init
  BY DEF L!Init, LP!Init, L!NextRotation, LP!NextRotation, L!Larger, LP!Larger, L!Off, LP!Off
<1>2. [L!Next]_L!vars <=> [LP!Next]_LP!vars
  BY SameNext DEF L!vars, LP!vars, L!supVars, L!probeVars, L!statusVars, L!lookupVars, LP!supVars, LP!probeVars, LP!statusVars, LP!lookupVars
<1> QED BY <1>1, <1>2, PTL DEF L!Spec, LP!Spec

(* Every step of the process is, for the mixnet's tasks, one of theirs, the    *)
(* signal, a wallet's submit, or nothing.                                   *)
LEMMA MixnetStep == [ProcessNext]_processVars => [L!Next]_L!vars
<1> SUFFICES ASSUME [ProcessNext]_processVars PROVE [L!Next]_L!vars
  OBVIOUS
<1>1. ASSUME UNCHANGED shutdown, UNCHANGED mixnetVars PROVE UNCHANGED L!vars
  BY <1>1 DEF mixnetVars, L!vars, L!supVars, L!probeVars, L!statusVars, L!lookupVars
<1>2. CASE UNCHANGED processVars
  BY <1>2, <1>1 DEF processVars
<1>3. CASE Start \/ StartFails
  BY <1>3, <1>1 DEF Start, StartFails
<1>4. CASE Listen
  BY <1>4, <1>1, ListenKeepsSignal DEF Listen
<1>5. CASE Carry
  BY <1>5 DEF Carry, L!Next, L!Environment
<1>6. CASE Divert
  BY <1>6 DEF Divert, L!Next, L!Environment
<1>7. CASE Stop
  <2>1. L!Signal
    BY <1>7, ProcessAssumption
    DEF Stop, Signal, mixnetVars, L!Signal, L!supVars, L!driverVars, L!probeVars, L!statusVars,
        L!lookupVars
  <2> QED BY <2>1 DEF L!Next, L!Environment
<1> QED BY <1>2, <1>3, <1>4, <1>5, <1>6, <1>7 DEF ProcessNext

(* The process implements Lifecycle: wired to main's signal and to the        *)
(* listener, the supervisor and the driver do nothing that they do not do     *)
(* alone.                                                                  *)
THEOREM CarriesAsLifecycle == ProcessSpec => L!Spec
<1>1. ProcessInit => L!Init
  BY DEF ProcessInit
<1> QED BY <1>1, MixnetStep, PTL DEF ProcessSpec, L!Spec

(* What is promised about the one instance is promised about the other.       *)
LEMMA SamePromises ==
  /\ LP!TypeOK => L!TypeOK
  /\ LP!NoLostDeath => L!NoLostDeath
  /\ LP!StatusIsHonest => L!StatusIsHonest
  /\ LP!NoMutualWait => L!NoMutualWait
  /\ LP!RotationsKeepBackoff => L!RotationsKeepBackoff
  /\ LP!SilenceIsItsOwn => L!SilenceIsItsOwn
  /\ LP!DeferralCoversLookup => L!DeferralCoversLookup
<1> USE DEF L!vars, L!supVars, L!probeVars, L!statusVars, L!lookupVars,
            LP!vars, LP!supVars, LP!probeVars, LP!statusVars, LP!lookupVars
<1>1. LP!TypeOK => L!TypeOK
  BY DEF L!TypeOK, LP!TypeOK, L!Off, LP!Off, L!Larger, LP!Larger,
         L!NextRotation, LP!NextRotation,
         L!EffectiveDeferLimit, LP!EffectiveDeferLimit
<1>2. LP!NoLostDeath => L!NoLostDeath
  BY DEF L!NoLostDeath, LP!NoLostDeath
<1>3. LP!StatusIsHonest => L!StatusIsHonest
  BY DEF L!StatusIsHonest, LP!StatusIsHonest
<1>4. LP!NoMutualWait => L!NoMutualWait
  BY DEF L!NoMutualWait, LP!NoMutualWait
<1>5. LP!RotationsKeepBackoff => L!RotationsKeepBackoff
  BY PTL DEF L!RotationsKeepBackoff, LP!RotationsKeepBackoff
<1>6. LP!SilenceIsItsOwn => L!SilenceIsItsOwn
  BY PTL DEF L!SilenceIsItsOwn, LP!SilenceIsItsOwn, L!SilentReport, LP!SilentReport
<1>7. LP!DeferralCoversLookup => L!DeferralCoversLookup
  BY PTL DEF L!DeferralCoversLookup, LP!DeferralCoversLookup, L!Idle, LP!Idle
<1> QED BY <1>1, <1>2, <1>3, <1>4, <1>5, <1>6, <1>7

(* So the process keeps what Lifecycle promises: no death of a client is      *)
(* forgotten, /nym-status is honest, rotations keep their distance and spare  *)
(* lookups, and no client is blamed for another's silence, whatever wallets   *)
(* do meanwhile (main.rs:286-383).                                         *)
THEOREM MixnetPromises ==
  ProcessSpec => /\ [](L!TypeOK /\ L!NoLostDeath /\ L!StatusIsHonest)
                 /\ L!RotationsKeepBackoff /\ L!SilenceIsItsOwn /\ L!DeferralCoversLookup
<1>1. LP!Spec => [](LP!TypeOK /\ LP!NoLostDeath /\ LP!StatusIsHonest)
  <2>1. LP!Spec => []LP!TypeOK         BY LP!TypeCorrect, ProcessAssumption
  <2>2. LP!Spec => []LP!NoLostDeath    BY LP!DeathsAreNeverLost, ProcessAssumption
  <2>3. LP!Spec => []LP!StatusIsHonest BY LP!StatusHonest, ProcessAssumption
  <2> QED BY <2>1, <2>2, <2>3, PTL
<1>2. LP!Spec => LP!RotationsKeepBackoff
  BY LP!RotationsPaced, ProcessAssumption
<1>3. LP!Spec => LP!SilenceIsItsOwn
  BY LP!SilenceIsOwn, ProcessAssumption
<1>4. LP!Spec => LP!DeferralCoversLookup
  BY LP!DeferralCovers, ProcessAssumption
<1> QED BY <1>1, <1>2, <1>3, <1>4, CarriesAsLifecycle, SameSpec, SamePromises, PTL

(* And with two slots in each channel its two tasks never wait for each other. *)
THEOREM NoWaitInside ==
  ASSUME CmdCap >= 2, EvtCap >= 2
  PROVE  ProcessSpec => []L!NoMutualWait
<1>1. LP!Spec => []LP!NoMutualWait
  BY LP!NeverMutuallyWaiting, ProcessAssumption
<1> QED BY <1>1, CarriesAsLifecycle, SameSpec, SamePromises, PTL

LEMMA ListenStep ==
  ASSUME Listen
  PROVE  [SP!Next]_SP!serverVars
<1>1. stage = "up" /\ stage' = "up" /\ Heard = listener /\ Heard' = listener'
  BY DEF Listen, Up, mainVars, Heard
<1> USE <1>1 DEF SP!connectionVars, SP!acmeVars, connectionVars, acmeVars, Returned, SP!Returned,
            Running, SP!Running, Moved, SP!Moved, Gone, SP!Gone
<1>2. CASE Loop
  <2>1. ASSUME NEW p \in Peers, Accept(p) PROVE SP!Accept(p)
    BY <2>1 DEF Accept, SP!Accept, AcceptWhen, SP!AcceptWhen, Admitted, SP!Admitted,
       AdmittedHolding, SP!AdmittedHolding, Refused, SP!Refused, Polled, SP!Polled,
       FirstPlace, SP!FirstPlace
  <2>2. CASE SeeSignal         BY <2>2 DEF SeeSignal, SP!Next, SP!Loop, SP!SeeSignal
  <2>3. CASE DescriptorsRunOut
    BY <2>3 DEF DescriptorsRunOut, SP!Next, SP!Loop, SP!DescriptorsRunOut, Polled, SP!Polled
  <2>4. CASE PauseEnds         BY <2>4 DEF PauseEnds, SP!Next, SP!Loop, SP!PauseEnds
  <2>5. CASE ListenerBreaks
    BY <2>5 DEF ListenerBreaks, SP!Next, SP!Loop, SP!ListenerBreaks, Polled, SP!Polled
  <2>6. CASE Drained           BY <2>6 DEF Drained, SP!Next, SP!Loop, SP!Drained
  <2>7. CASE DrainTimesOut
    BY <2>7 DEF DrainTimesOut, DrainEndsIf, SP!Next, SP!Loop, SP!DrainTimesOut, SP!DrainEndsIf
  <2> QED BY <1>2, <2>1, <2>2, <2>3, <2>4, <2>5, <2>6, <2>7 DEF Loop, SP!Loop, SP!Next
<1>3. ASSUME NEW p \in Peers, Connection(p) PROVE SP!Connection(p)
  BY <1>3 DEF Connection, Secured, HandshakeFails, Validated, ConnectionEnds, TaskOver,
     SP!Connection, SP!Secured, SP!HandshakeFails, SP!Validated, SP!ConnectionEnds, SP!TaskOver
<1>4. CASE Outside
  <2>1. ASSUME NEW p \in Peers, Arrives(p) \/ Leaves(p) PROVE SP!Arrives(p) \/ SP!Leaves(p)
    BY <2>1 DEF Arrives, SP!Arrives, Leaves, SP!Leaves
  <2>2. Orders \/ Expires => SP!Orders \/ SP!Expires
    BY DEF Orders, SP!Orders, Expires, SP!Expires
  <2> QED BY <1>4, <2>1, <2>2 DEF Outside, SP!Outside, SP!Next
<1> QED BY <1>2, <1>3, <1>4 DEF Listen, SP!Next

(* And for the listener every step is one of its own, the signal, or nothing.  *)
LEMMA ListenerStep == StageInv /\ [ProcessNext]_processVars => [SP!Next]_SP!serverVars
<1> SUFFICES ASSUME StageInv, [ProcessNext]_processVars PROVE [SP!Next]_SP!serverVars
  OBVIOUS
<1>1. ASSUME UNCHANGED <<tls, connectionVars, acmeVars, shutdown>>, UNCHANGED Heard
      PROVE UNCHANGED SP!serverVars
  BY <1>1 DEF connectionVars, acmeVars, SP!serverVars, SP!connectionVars, SP!acmeVars
<1>2. CASE UNCHANGED processVars
  BY <1>2, <1>1 DEF processVars, mainVars, listenerVars, Heard
<1>3. CASE Start
  BY <1>3, <1>1 DEF Start, listenerVars, Heard
<1>4. CASE StartFails
  <2>1. UNCHANGED Heard
    BY <1>4 DEF StartFails, Heard, StageInv
  <2> QED BY <1>4, <2>1, <1>1 DEF StartFails
<1>5. CASE Listen
  BY <1>5, ListenStep
<1>6. CASE Carry
  BY <1>6, <1>1 DEF Carry, mainVars, listenerVars, Heard
<1>7. CASE Divert
  BY <1>7, <1>1 DEF Divert, mainVars, listenerVars, Heard
<1>8. CASE Stop
  <2>1. SP!Signal
    BY <1>8 DEF Stop, Up, Signal, Running, Returned, mainVars, Heard, connectionVars, acmeVars,
       SP!Signal, SP!Running, SP!Returned, SP!connectionVars, SP!acmeVars
  <2> QED BY <2>1 DEF SP!Next
<1> QED BY <1>2, <1>3, <1>4, <1>5, <1>6, <1>7, <1>8 DEF ProcessNext

LEMMA SameListener ==
  ASSUME StageInv
  PROVE  /\ SP!TypeOK => TypeOK
         /\ SP!WithinLimit => WithinLimit
         /\ SP!DrainIsHonest => DrainIsHonest
<1> USE DEF Heard, StageInv, Returned, SP!Returned, Tasks, SP!Tasks
<1>1. SP!TypeOK => TypeOK
  BY DEF SP!TypeOK, TypeOK
<1>2. SP!WithinLimit => WithinLimit
  BY DEF SP!WithinLimit, WithinLimit, Cardinality, SP!Cardinality, IsFiniteSet, SP!IsFiniteSet
<1>3. SP!DrainIsHonest => DrainIsHonest
  BY DEF SP!DrainIsHonest, DrainIsHonest
<1> QED BY <1>1, <1>2, <1>3

(* The process implements Server, whichever diversion it was built with.      *)
THEOREM ServesAsServer == ProcessSpec => SP!Spec
<1>1. ProcessInit => SP!Init
  BY DEF ProcessInit, Init, SP!Init, Heard
<1> QED BY <1>1, StageInit, StageStep, ListenerStep, PTL DEF ProcessSpec, SP!Spec

LEMMA SameListenerSteps ==
  /\ SP!RefusedOnlyWhenFull => RefusedOnlyWhenFull
  /\ SP!NeverInTheClear => NeverInTheClear
<1> USE DEF serverVars, connectionVars, acmeVars, SP!serverVars, SP!connectionVars,
            SP!acmeVars, Tasks, SP!Tasks
<1>1. SP!RefusedOnlyWhenFull => RefusedOnlyWhenFull
  <2>1. [\A p \in Peers : peer[p] # "refused" /\ peer'[p] = "refused"
            => SP!Cardinality(SP!Tasks) = Limit]_SP!serverVars
        => [\A p \in Peers : peer[p] # "refused" /\ peer'[p] = "refused"
            => Cardinality(Tasks) = Limit]_serverVars
    BY DEF Cardinality, SP!Cardinality, IsFiniteSet, SP!IsFiniteSet
  <2> QED BY <2>1, PTL DEF SP!RefusedOnlyWhenFull, RefusedOnlyWhenFull
<1>2. SP!NeverInTheClear => NeverInTheClear
  <2>1. [\A p \in Peers : tls /\ peer[p] # "serving" /\ peer'[p] = "serving"
            => kind[p] = "wallet" /\ certificate]_SP!serverVars
        => [\A p \in Peers : tls /\ peer[p] # "serving" /\ peer'[p] = "serving"
            => kind[p] = "wallet" /\ certificate]_serverVars
    OBVIOUS
  <2> QED BY <2>1, PTL DEF SP!NeverInTheClear, NeverInTheClear
<1> QED BY <1>1, <1>2

(* So the process keeps what Server promises: a full limit and no more, no     *)
(* slot leaked, an honest drain, and no wallet served in the clear behind TLS  *)
(* (proxy.rs:513-603, tls.rs:172-188).                                       *)
THEOREM ListenerPromises ==
  ProcessSpec => /\ [](TypeOK /\ WithinLimit /\ DrainIsHonest)
                 /\ RefusedOnlyWhenFull /\ NeverInTheClear
<1> USE DEF IsFiniteSet, SP!IsFiniteSet
<1>1. SP!Spec => []SP!TypeOK         BY SP!ServerTyped, ServerAssumption
<1>2. SP!Spec => []SP!WithinLimit    BY SP!ServerLimited, ServerAssumption
<1>3. SP!Spec => []SP!DrainIsHonest  BY SP!DrainHonest, ServerAssumption
<1>4. SP!Spec => SP!RefusedOnlyWhenFull BY SP!NoSlotLeaks, ServerAssumption
<1>5. SP!Spec => SP!NeverInTheClear  BY SP!NoFallback, ServerAssumption
<1> QED BY <1>1, <1>2, <1>3, <1>4, <1>5, ServesAsServer, SameListener, SameListenerSteps,
           StageInit, StageStep, PTL DEF ProcessSpec
=============================================================================
