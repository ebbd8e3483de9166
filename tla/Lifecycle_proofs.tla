-------------------------- MODULE Lifecycle_proofs --------------------------
(***************************************************************************)
(* Proofs about the mixnet client's lifecycle, for every period, backoff,  *)
(* budget and channel capacity.                                            *)
(***************************************************************************)
EXTENDS Lifecycle, TLAPS

-----------------------------------------------------------------------------
(* Facts about the timers and the channels                                 *)

LEMMA TimerTypes ==
  /\ Backoff \in Nat /\ EffectiveDeferLimit \in Nat
  /\ NextRotation \in Int /\ NextRotation \in Off .. NextRotation
  /\ ProbeInterval \in Nat /\ LookupTimeout \in Nat
  BY LifecycleAssumption DEF EffectiveDeferLimit, NextRotation, Larger, Off

LEMMA DownType ==
  ASSUME NEW lo \in Int, lo <= 0, NEW hi \in Int, NEW t \in lo .. hi
  PROVE  Down(t) \in lo .. hi
  BY DEF Down

LEMMA CapTypes ==
  /\ CmdCap \in Nat \ {0} /\ EvtCap \in Nat \ {0} /\ OutCap \in Nat \ {0}
  /\ SilentRounds \in Nat \ {0} /\ FailuresCap \in Nat \ {0} /\ DeathsCap \in Nat
  /\ BufferCap \in Nat
  BY LifecycleAssumption

(* Where every counter and countdown may start.                            *)
LEMMA StartTypes ==
  /\ 0 \in 0 .. SilentRounds - 1 /\ 0 \in 0 .. SilentRounds
  /\ 0 \in 0 .. ProbeInterval /\ 0 \in 0 .. FailuresCap /\ 0 \in 0 .. DeathsCap
  /\ 0 \in 0 .. BufferCap
  /\ 0 \in 0 .. LookupTimeout /\ LookupTimeout \in 0 .. LookupTimeout
  BY CapTypes, TimerTypes

LEMMA BumpedType ==
  ASSUME NEW cap \in Nat, NEW n \in 0 .. cap
  PROVE  Bumped(n, cap) \in 0 .. cap
  BY DEF Bumped

(* Disowning the frames of a queue keeps a queue of the same length.       *)
LEMMA MappedQueue ==
  ASSUME NEW S, NEW s \in Seq(S), NEW T, NEW t,
         t = [i \in DOMAIN s |-> t[i]], \A i \in DOMAIN s : t[i] \in T
  PROVE  t \in Seq(T) /\ Len(t) = Len(s)
<1>1. DOMAIN s = 1 .. Len(s) /\ Len(s) \in Nat
  OBVIOUS
<1>2. t \in [1 .. Len(s) -> T]
  BY <1>1
<1> QED BY <1>1, <1>2

-----------------------------------------------------------------------------
(* Type correctness, by the part of the state                              *)

SupervisorTypes ==
  /\ supervisor \in {"select", "rebuild", "backoff", "rotate", "disconnect", "stopped"}
  /\ rotateIn \in Off .. NextRotation
  /\ deferLeft \in Off .. EffectiveDeferLimit
  /\ cooldown \in 0 .. Backoff
ChannelTypes ==
  /\ commands \in Seq({"rebuild", "rotate", "disconnect"}) /\ Len(commands) <= CmdCap
  /\ events \in 0 .. EvtCap
DriverTypes ==
  /\ driver \in {"building", "live", "reporting", "waiting", "replacing",
                 "stopping", "stopped"}
  /\ client \in {"none", "good", "silent", "dead"}
  /\ inFlight \in {"none", "submit", "lookup", "probe"}
ProbeTypes ==
  /\ mark \in {"none", "quiet", "heard"}
  /\ rounds \in 0 .. SilentRounds - 1
  /\ probes \in 0 .. SilentRounds
  /\ probeIn \in 0 .. ProbeInterval
StatusTypes ==
  /\ shutdown \in BOOLEAN /\ transport \in BOOLEAN /\ connected \in BOOLEAN
  /\ failures \in 0 .. FailuresCap
  /\ deaths \in 0 .. DeathsCap
FrameTypes ==
  /\ outFrames \in Seq({"submit", "lookup"}) /\ Len(outFrames) <= OutCap
  /\ buffered \in 0 .. BufferCap
LookupTypes ==
  /\ lookup \in {"none", "asked", "counted", "carried", "stranded"}
  /\ left \in 0 .. LookupTimeout
  /\ early \in BOOLEAN

LEMMA TypeParts ==
  TypeOK <=> /\ SupervisorTypes /\ ChannelTypes /\ DriverTypes /\ ProbeTypes
             /\ StatusTypes /\ FrameTypes /\ LookupTypes
  BY DEF TypeOK, SupervisorTypes, ChannelTypes, DriverTypes, ProbeTypes, StatusTypes,
         FrameTypes, LookupTypes

LEMMA TypePartsNext ==
  /\ SupervisorTypes' /\ ChannelTypes' /\ DriverTypes' /\ ProbeTypes'
  /\ StatusTypes' /\ FrameTypes' /\ LookupTypes'
  => TypeOK'
  BY DEF TypeOK, SupervisorTypes, ChannelTypes, DriverTypes, ProbeTypes, StatusTypes,
         FrameTypes, LookupTypes

(* A step that leaves a part of the state alone leaves its types alone.    *)
LEMMA PartsUnchanged ==
  /\ SupervisorTypes /\ UNCHANGED supVars => SupervisorTypes'
  /\ ChannelTypes /\ UNCHANGED <<commands, events>> => ChannelTypes'
  /\ DriverTypes /\ UNCHANGED <<driver, client, inFlight>> => DriverTypes'
  /\ ProbeTypes /\ UNCHANGED probeVars => ProbeTypes'
  /\ StatusTypes /\ UNCHANGED <<statusVars, shutdown, transport>> => StatusTypes'
  /\ FrameTypes /\ UNCHANGED <<outFrames, buffered>> => FrameTypes'
  /\ LookupTypes /\ UNCHANGED lookupVars => LookupTypes'
  BY DEF SupervisorTypes, ChannelTypes, DriverTypes, ProbeTypes, StatusTypes,
         FrameTypes, LookupTypes, supVars, probeVars, statusVars, lookupVars

LEMMA OffTypes == Off \in Int /\ Off <= 0 /\ Off \in Off .. EffectiveDeferLimit
  BY TimerTypes DEF Off

LEMMA InitType == Init => TypeOK
<1> SUFFICES ASSUME Init PROVE TypeOK
  OBVIOUS
<1>1. SupervisorTypes
  BY TimerTypes, OffTypes DEF Init, SupervisorTypes
<1>2. ChannelTypes /\ FrameTypes
  BY CapTypes, StartTypes DEF Init, ChannelTypes, FrameTypes
<1>3. DriverTypes /\ StatusTypes
  BY StartTypes DEF Init, DriverTypes, StatusTypes
<1>4. ProbeTypes /\ LookupTypes
  BY StartTypes DEF Init, ProbeTypes, LookupTypes
<1> QED BY <1>1, <1>2, <1>3, <1>4, TypeParts

LEMMA SupervisorType ==
  ASSUME TypeOK, Supervisor
  PROVE  TypeOK'
<1>0. SupervisorTypes /\ ChannelTypes /\ DriverTypes /\ ProbeTypes
      /\ StatusTypes /\ FrameTypes /\ LookupTypes
  BY TypeParts
<1> USE <1>0
<1>1. CASE SeeShutdown
  <2>1. ChannelTypes' /\ DriverTypes' /\ ProbeTypes' /\ StatusTypes' /\ FrameTypes' /\ LookupTypes'
    BY <1>1, PartsUnchanged DEF SeeShutdown, driverVars, otherVars
  <2>2. SupervisorTypes'
    BY <1>1 DEF SeeShutdown, SupervisorTypes, driverVars, otherVars, supVars
  <2> QED BY <2>1, <2>2, TypePartsNext
<1>2. CASE TakeDied
  <2>1. DriverTypes' /\ ProbeTypes' /\ StatusTypes' /\ FrameTypes' /\ LookupTypes'
    BY <1>2, PartsUnchanged DEF TakeDied, driverVars, otherVars
  <2>2. SupervisorTypes'
    BY <1>2 DEF TakeDied, SupervisorTypes, driverVars, otherVars, supVars
  <2>3. ChannelTypes'
    BY <1>2, CapTypes DEF TakeDied, ChannelTypes, driverVars, otherVars
  <2> QED BY <2>1, <2>2, <2>3, TypePartsNext
<1>3. CASE DriverGone
  <2>1. ChannelTypes' /\ DriverTypes' /\ ProbeTypes' /\ StatusTypes' /\ FrameTypes' /\ LookupTypes'
    BY <1>3, PartsUnchanged DEF DriverGone, driverVars, otherVars
  <2>2. SupervisorTypes'
    BY <1>3 DEF DriverGone, SupervisorTypes, driverVars, otherVars, supVars
  <2> QED BY <2>1, <2>2, TypePartsNext
<1>4. CASE RotationDue
  <2>1. ChannelTypes' /\ DriverTypes' /\ ProbeTypes' /\ StatusTypes' /\ FrameTypes'
    BY <1>4, PartsUnchanged DEF RotationDue, DeferralLeft, driverVars, otherVars
  <2>2. SupervisorTypes'
    BY <1>4, TimerTypes, OffTypes DEF RotationDue, DeferralLeft, SupervisorTypes, driverVars, otherVars, supVars
  <2>3. LookupTypes'
    BY <1>4 DEF RotationDue, DeferralLeft, LookupTypes, driverVars, otherVars, lookupVars
  <2> QED BY <2>1, <2>2, <2>3, TypePartsNext
<1>5. CASE SendRebuild
  <2>1. DriverTypes' /\ ProbeTypes' /\ StatusTypes' /\ FrameTypes' /\ LookupTypes'
    BY <1>5, PartsUnchanged DEF SendRebuild, Commanded, driverVars, otherVars
  <2>2. SupervisorTypes'
    BY <1>5, TimerTypes DEF SendRebuild, Commanded, SupervisorTypes, driverVars, otherVars, supVars
  <2>3. ChannelTypes'
    BY <1>5, CapTypes DEF SendRebuild, Commanded, ChannelTypes, driverVars, otherVars
  <2> QED BY <2>1, <2>2, <2>3, TypePartsNext
<1>6. CASE SendRotation
  <2>1. DriverTypes' /\ ProbeTypes' /\ StatusTypes' /\ FrameTypes' /\ LookupTypes'
    BY <1>6, PartsUnchanged DEF SendRotation, SendRotationNextIn, Commanded, driverVars, otherVars
  <2>2. SupervisorTypes'
    BY <1>6, TimerTypes, OffTypes DEF SendRotation, SendRotationNextIn, Commanded, SupervisorTypes, driverVars, otherVars, supVars
  <2>3. ChannelTypes'
    BY <1>6, CapTypes DEF SendRotation, SendRotationNextIn, Commanded, ChannelTypes, driverVars, otherVars
  <2> QED BY <2>1, <2>2, <2>3, TypePartsNext
<1>7. CASE SendDisconnect
  <2>1. DriverTypes' /\ ProbeTypes' /\ StatusTypes' /\ FrameTypes' /\ LookupTypes'
    BY <1>7, PartsUnchanged DEF SendDisconnect, Commanded, driverVars, otherVars
  <2>2. SupervisorTypes'
    BY <1>7 DEF SendDisconnect, Commanded, SupervisorTypes, driverVars, otherVars, supVars
  <2>3. ChannelTypes'
    BY <1>7, CapTypes DEF SendDisconnect, Commanded, ChannelTypes, driverVars, otherVars
  <2> QED BY <2>1, <2>2, <2>3, TypePartsNext
<1>8. CASE SendFails
  <2>1. ChannelTypes' /\ DriverTypes' /\ ProbeTypes' /\ StatusTypes' /\ FrameTypes' /\ LookupTypes'
    BY <1>8, PartsUnchanged DEF SendFails, driverVars, otherVars
  <2>2. SupervisorTypes'
    BY <1>8 DEF SendFails, SupervisorTypes, driverVars, otherVars, supVars
  <2> QED BY <2>1, <2>2, TypePartsNext
<1>9. CASE BackoffEnds
  <2>1. ChannelTypes' /\ DriverTypes' /\ ProbeTypes' /\ StatusTypes' /\ FrameTypes' /\ LookupTypes'
    BY <1>9, PartsUnchanged DEF BackoffEnds, driverVars, otherVars
  <2>2. SupervisorTypes'
    BY <1>9, TimerTypes, OffTypes DEF BackoffEnds, SupervisorTypes, driverVars, otherVars, supVars
  <2> QED BY <2>1, <2>2, TypePartsNext
<1> QED
  BY <1>1, <1>2, <1>3, <1>4, <1>5, <1>6, <1>7, <1>8, <1>9 DEF Supervisor

LEMMA DriverType ==
  ASSUME TypeOK, Driver
  PROVE  TypeOK'
<1>0. SupervisorTypes /\ ChannelTypes /\ DriverTypes /\ ProbeTypes
      /\ StatusTypes /\ FrameTypes /\ LookupTypes
  BY TypeParts
<1> USE <1>0
<1>1. CASE Built
  <2>1. SupervisorTypes' /\ ChannelTypes' /\ FrameTypes' /\ LookupTypes'
    BY <1>1, PartsUnchanged DEF Built, BuiltWith, driverVars, otherVars
  <2>2. DriverTypes'
    BY <1>1 DEF Built, BuiltWith, DriverTypes, driverVars, otherVars
  <2>3. ProbeTypes'
    BY <1>1, StartTypes DEF Built, BuiltWith, ProbeTypes, driverVars, otherVars, probeVars
  <2>4. StatusTypes'
    BY <1>1, CapTypes DEF Built, BuiltWith, StatusTypes, driverVars, otherVars, statusVars
  <2> QED BY <2>1, <2>2, <2>3, <2>4, TypePartsNext
<1>2. CASE BuildFails
  <2>1. SupervisorTypes' /\ ChannelTypes' /\ ProbeTypes' /\ FrameTypes' /\ LookupTypes'
    BY <1>2, PartsUnchanged DEF BuildFails, BuildFailsInto, driverVars, otherVars
  <2>2. DriverTypes'
    BY <1>2 DEF BuildFails, BuildFailsInto, DriverTypes, driverVars, otherVars
  <2>3. StatusTypes'
    BY <1>2, CapTypes, BumpedType DEF BuildFails, BuildFailsInto, StatusTypes, driverVars, otherVars, statusVars
  <2> QED BY <2>1, <2>2, <2>3, TypePartsNext
<1>3. CASE Report
  <2>1. SupervisorTypes' /\ ProbeTypes' /\ StatusTypes' /\ FrameTypes' /\ LookupTypes'
    BY <1>3, PartsUnchanged DEF Report, driverVars, otherVars
  <2>2. DriverTypes'
    BY <1>3 DEF Report, DriverTypes, driverVars, otherVars
  <2>3. ChannelTypes'
    BY <1>3, CapTypes DEF Report, ChannelTypes, driverVars, otherVars
  <2> QED BY <2>1, <2>2, <2>3, TypePartsNext
<1>4. CASE TakeRebuild
  <2>1. SupervisorTypes' /\ ProbeTypes' /\ StatusTypes' /\ FrameTypes'
    BY <1>4, PartsUnchanged DEF TakeRebuild, StrandLookup, driverVars, otherVars
  <2>2. ChannelTypes'
    BY <1>4, CapTypes DEF TakeRebuild, StrandLookup, ChannelTypes, driverVars, otherVars
  <2>3. DriverTypes'
    BY <1>4 DEF TakeRebuild, StrandLookup, DriverTypes, driverVars, otherVars
  <2>4. LookupTypes'
    BY <1>4 DEF TakeRebuild, StrandLookup, LookupTypes, driverVars, otherVars, lookupVars
  <2> QED BY <2>1, <2>2, <2>3, <2>4, TypePartsNext
<1>5. CASE TakeDisconnect
  <2>1. SupervisorTypes' /\ ProbeTypes' /\ StatusTypes' /\ FrameTypes' /\ LookupTypes'
    BY <1>5, PartsUnchanged DEF TakeDisconnect, StopsFrom, driverVars, otherVars
  <2>2. ChannelTypes'
    BY <1>5, CapTypes DEF TakeDisconnect, StopsFrom, ChannelTypes, driverVars, otherVars
  <2>3. DriverTypes'
    BY <1>5 DEF TakeDisconnect, StopsFrom, DriverTypes, driverVars, otherVars
  <2> QED BY <2>1, <2>2, <2>3, TypePartsNext
<1>6. CASE Disconnected
  <2>1. SupervisorTypes' /\ ChannelTypes' /\ ProbeTypes' /\ LookupTypes'
    BY <1>6, PartsUnchanged DEF Disconnected, driverVars, otherVars
  <2>2. DriverTypes'
    BY <1>6 DEF Disconnected, DriverTypes, driverVars, otherVars
  <2>3. StatusTypes'
    BY <1>6, CapTypes, BumpedType DEF Disconnected, StatusTypes, driverVars, otherVars, statusVars
  <2>4. FrameTypes'
    BY <1>6, StartTypes DEF Disconnected, FrameTypes, driverVars, otherVars
  <2> QED BY <2>4, <2>1, <2>2, <2>3, TypePartsNext
<1>7. CASE Stopped
  <2>1. SupervisorTypes' /\ ProbeTypes' /\ StatusTypes' /\ LookupTypes'
    BY <1>7, PartsUnchanged DEF Stopped, driverVars, otherVars
  <2>2. ChannelTypes'
    BY <1>7, CapTypes DEF Stopped, ChannelTypes, driverVars, otherVars
  <2>3. DriverTypes'
    BY <1>7 DEF Stopped, DriverTypes, driverVars, otherVars
  <2>4. FrameTypes'
    BY <1>7, StartTypes DEF Stopped, FrameTypes, driverVars, otherVars
  <2> QED BY <2>4, <2>1, <2>2, <2>3, TypePartsNext
<1>8. CASE TransportGone
  <2>1. SupervisorTypes' /\ ChannelTypes' /\ ProbeTypes' /\ StatusTypes' /\ FrameTypes' /\ LookupTypes'
    BY <1>8, PartsUnchanged DEF TransportGone, TransportGoneIf, driverVars, otherVars
  <2>2. DriverTypes'
    BY <1>8 DEF TransportGone, TransportGoneIf, DriverTypes, driverVars, otherVars
  <2> QED BY <2>1, <2>2, TypePartsNext
<1>9. CASE NoticeDeath
  <2>1. SupervisorTypes' /\ ChannelTypes' /\ ProbeTypes'
    BY <1>9, PartsUnchanged DEF NoticeDeath, DeathNoticedAs, StrandLookup, driverVars, otherVars
  <2>2. DriverTypes'
    BY <1>9 DEF NoticeDeath, DeathNoticedAs, StrandLookup, DriverTypes, driverVars, otherVars
  <2>3. StatusTypes'
    BY <1>9, CapTypes, BumpedType DEF NoticeDeath, DeathNoticedAs, StrandLookup, StatusTypes, driverVars, otherVars, statusVars
  <2>4. LookupTypes'
    BY <1>9 DEF NoticeDeath, DeathNoticedAs, StrandLookup, LookupTypes, driverVars, otherVars, lookupVars
  <2>5. FrameTypes'
    BY <1>9, StartTypes DEF NoticeDeath, DeathNoticedAs, StrandLookup, FrameTypes, driverVars, otherVars
  <2> QED BY <2>5, <2>1, <2>2, <2>3, <2>4, TypePartsNext
<1>10. CASE TakeFrame
  <2>1. SupervisorTypes' /\ ChannelTypes' /\ ProbeTypes' /\ StatusTypes' /\ LookupTypes'
    BY <1>10, PartsUnchanged DEF TakeFrame, driverVars, otherVars
  <2>2. FrameTypes'
    BY <1>10, CapTypes DEF TakeFrame, FrameTypes, driverVars, otherVars
  <2>3. Head(outFrames) \in {"submit", "lookup"}
    BY <1>10 DEF TakeFrame, FrameTypes
  <2>4. DriverTypes'
    BY <1>10, <2>3 DEF TakeFrame, DriverTypes, driverVars, otherVars
  <2> QED BY <2>1, <2>2, <2>4, TypePartsNext
<1>11. CASE SendDone
  <2>1. SupervisorTypes' /\ ChannelTypes' /\ StatusTypes'
    BY <1>11, PartsUnchanged DEF SendDone, SendDoneWithMark, driverVars, otherVars
  <2>2. DriverTypes'
    BY <1>11 DEF SendDone, SendDoneWithMark, DriverTypes, driverVars, otherVars
  <2>3. ProbeTypes'
    BY <1>11, CapTypes, BumpedType DEF SendDone, SendDoneWithMark, ProbeTypes, driverVars, otherVars, probeVars
  <2>4. LookupTypes'
    BY <1>11 DEF SendDone, SendDoneWithMark, LookupTypes, driverVars, otherVars, lookupVars
  <2>5. FrameTypes'
    BY <1>11, CapTypes, BumpedType DEF SendDone, SendDoneWithMark, FrameTypes, driverVars, otherVars
  <2> QED BY <2>5, <2>1, <2>2, <2>3, <2>4, TypePartsNext
<1>12. CASE ProbeTick
  <2>1. SupervisorTypes' /\ ChannelTypes' /\ StatusTypes' /\ FrameTypes' /\ LookupTypes'
    BY <1>12, PartsUnchanged DEF ProbeTick, driverVars, otherVars
  <2>2. DriverTypes'
    BY <1>12 DEF ProbeTick, DriverTypes, driverVars, otherVars
  <2>3. ProbeTypes'
    BY <1>12, CapTypes, TimerTypes DEF ProbeTick, ProbeTypes, driverVars, otherVars, probeVars
  <2> QED BY <2>1, <2>2, <2>3, TypePartsNext
<1>13. CASE Receive
  <2>1. SupervisorTypes' /\ ChannelTypes' /\ DriverTypes' /\ StatusTypes' /\ FrameTypes' /\ LookupTypes'
    BY <1>13, PartsUnchanged DEF Receive, Hear, driverVars, otherVars
  <2>2. ProbeTypes'
    BY <1>13 DEF Receive, Hear, ProbeTypes, driverVars, otherVars, probeVars
  <2> QED BY <2>1, <2>2, TypePartsNext
<1> QED
  BY <1>1, <1>2, <1>3, <1>4, <1>5, <1>6, <1>7, <1>8, <1>9, <1>10, <1>11, <1>12, <1>13 DEF Driver

LEMMA EnvironmentType ==
  ASSUME TypeOK, Environment
  PROVE  TypeOK'
<1>0. SupervisorTypes /\ ChannelTypes /\ DriverTypes /\ ProbeTypes
      /\ StatusTypes /\ FrameTypes /\ LookupTypes
  BY TypeParts
<1> USE <1>0
<1>1. CASE Signal
  <2>1. SupervisorTypes' /\ ChannelTypes' /\ DriverTypes' /\ ProbeTypes' /\ FrameTypes' /\ LookupTypes'
    BY <1>1, PartsUnchanged DEF Signal, driverVars, otherVars
  <2>2. StatusTypes'
    BY <1>1 DEF Signal, StatusTypes, driverVars, otherVars, statusVars
  <2> QED BY <2>1, <2>2, TypePartsNext
<1>2. CASE ClientFails
  <2>1. SupervisorTypes' /\ ChannelTypes' /\ ProbeTypes' /\ StatusTypes' /\ FrameTypes' /\ LookupTypes'
    BY <1>2, PartsUnchanged DEF ClientFails, driverVars, otherVars
  <2>2. DriverTypes'
    BY <1>2 DEF ClientFails, DriverTypes, driverVars, otherVars
  <2> QED BY <2>1, <2>2, TypePartsNext
<1>3. CASE TransportEnds
  <2>1. SupervisorTypes' /\ ChannelTypes' /\ DriverTypes' /\ ProbeTypes' /\ FrameTypes' /\ LookupTypes'
    BY <1>3, PartsUnchanged DEF TransportEnds, driverVars, otherVars
  <2>2. StatusTypes'
    BY <1>3 DEF TransportEnds, StatusTypes, driverVars, otherVars, statusVars
  <2> QED BY <2>1, <2>2, TypePartsNext
<1>4. CASE SubmitQueued
  <2>1. SupervisorTypes' /\ ChannelTypes' /\ DriverTypes' /\ ProbeTypes' /\ StatusTypes' /\ LookupTypes'
    BY <1>4, PartsUnchanged DEF SubmitQueued, driverVars, otherVars
  <2>2. FrameTypes'
    BY <1>4, CapTypes DEF SubmitQueued, FrameTypes, driverVars, otherVars
  <2> QED BY <2>1, <2>2, TypePartsNext
<1>5. CASE LookupStarts
  <2>1. SupervisorTypes' /\ ChannelTypes' /\ DriverTypes' /\ ProbeTypes' /\ StatusTypes' /\ FrameTypes'
    BY <1>5, PartsUnchanged DEF LookupStarts, driverVars, otherVars
  <2>2. LookupTypes'
    BY <1>5, StartTypes DEF LookupStarts, LookupTypes, driverVars, otherVars, lookupVars
  <2> QED BY <2>1, <2>2, TypePartsNext
<1>6. CASE LookupAccepted
  <2>1. SupervisorTypes' /\ ChannelTypes' /\ DriverTypes' /\ ProbeTypes' /\ StatusTypes'
    BY <1>6, PartsUnchanged DEF LookupAccepted, driverVars, otherVars
  <2>2. FrameTypes'
    BY <1>6, CapTypes DEF LookupAccepted, FrameTypes, driverVars, otherVars
  <2>3. LookupTypes'
    BY <1>6 DEF LookupAccepted, LookupTypes, driverVars, otherVars, lookupVars
  <2> QED BY <2>1, <2>2, <2>3, TypePartsNext
<1>7. CASE LookupAnswered
  <2>1. SupervisorTypes' /\ ChannelTypes' /\ DriverTypes' /\ StatusTypes' /\ FrameTypes'
    BY <1>7, PartsUnchanged DEF LookupAnswered, Hear, driverVars, otherVars
  <2>2. ProbeTypes'
    BY <1>7 DEF LookupAnswered, Hear, ProbeTypes, driverVars, otherVars, probeVars
  <2>3. LookupTypes'
    BY <1>7, StartTypes DEF LookupAnswered, Hear, LookupTypes, driverVars, otherVars, lookupVars
  <2> QED BY <2>1, <2>2, <2>3, TypePartsNext
<1>8. CASE LookupOver
  <2>1. SupervisorTypes' /\ ChannelTypes' /\ ProbeTypes' /\ StatusTypes'
    BY <1>8, PartsUnchanged DEF LookupOver, driverVars, otherVars
  <2>2. FrameTypes'
    BY <1>8, MappedQueue DEF LookupOver, FrameTypes, driverVars, otherVars
  <2>3. DriverTypes'
    BY <1>8 DEF LookupOver, DriverTypes, driverVars, otherVars
  <2>4. LookupTypes'
    BY <1>8, StartTypes DEF LookupOver, LookupTypes, driverVars, otherVars, lookupVars
  <2> QED BY <2>1, <2>2, <2>3, <2>4, TypePartsNext
<1>9. CASE Emit
  <2>1. SupervisorTypes' /\ ChannelTypes' /\ DriverTypes' /\ ProbeTypes' /\ StatusTypes' /\ LookupTypes'
    BY <1>9, PartsUnchanged DEF Emit, driverVars, otherVars
  <2>2. FrameTypes'
    BY <1>9, CapTypes DEF Emit, FrameTypes
  <2> QED BY <2>1, <2>2, TypePartsNext
<1> QED
  BY <1>1, <1>2, <1>3, <1>4, <1>5, <1>6, <1>7, <1>8, <1>9 DEF Environment

LEMMA TickType ==
  ASSUME TypeOK, Tick
  PROVE  TypeOK'
<1>0. SupervisorTypes /\ ChannelTypes /\ DriverTypes /\ ProbeTypes
      /\ StatusTypes /\ FrameTypes /\ LookupTypes
  BY TypeParts
<1>1. rotateIn' \in Off .. NextRotation
  BY <1>0, TimerTypes, OffTypes, DownType DEF Tick, SupervisorTypes
<1>2. deferLeft' \in Off .. EffectiveDeferLimit
  BY <1>0, TimerTypes, OffTypes, DownType DEF Tick, SupervisorTypes
<1>3. /\ cooldown' \in 0 .. Backoff /\ probeIn' \in 0 .. ProbeInterval
      /\ left' \in 0 .. LookupTimeout
  BY <1>0, TimerTypes, DownType DEF Tick, SupervisorTypes, ProbeTypes, LookupTypes
<1>4. SupervisorTypes' /\ ProbeTypes' /\ LookupTypes'
  BY <1>0, <1>1, <1>2, <1>3 DEF Tick, SupervisorTypes, ProbeTypes, LookupTypes
<1>5. ChannelTypes' /\ DriverTypes' /\ StatusTypes' /\ FrameTypes'
  BY <1>0, PartsUnchanged DEF Tick
<1> QED BY <1>4, <1>5, TypePartsNext

LEMMA NextType == TypeOK /\ [Next]_vars => TypeOK'
<1> SUFFICES ASSUME TypeOK, [Next]_vars PROVE TypeOK'
  OBVIOUS
<1>1. CASE UNCHANGED vars
  BY <1>1 DEF vars, supVars, probeVars, statusVars, lookupVars, TypeOK
<1> QED BY <1>1, SupervisorType, DriverType, EnvironmentType, TickType DEF Next

(* Type correctness of supervisor, driver and both channels between them.   *)
THEOREM TypeCorrect == Spec => []TypeOK
  BY InitType, NextType, PTL DEF Spec
-----------------------------------------------------------------------------
(* A driver without a client is never forgotten                            *)

(* What the supervisor does to a driver that waits: it turns the report     *)
(* into a command, and only stops after it has sent its last one.           *)
LEMMA LostDeathStep == TypeOK /\ NoLostDeath /\ [Next]_vars => NoLostDeath'
<1> SUFFICES ASSUME TypeOK, NoLostDeath, [Next]_vars, driver' = "waiting"
             PROVE  \/ events' > 0 \/ commands' # <<>>
                    \/ supervisor' \in {"rebuild", "rotate", "disconnect", "stopped"}
  BY DEF NoLostDeath
<1> USE DEF NoLostDeath, supVars, probeVars, statusVars, lookupVars, driverVars, otherVars
<1>0. commands \in Seq({"rebuild", "rotate", "disconnect"}) /\ events \in Nat
  BY DEF TypeOK
<1>1. CASE UNCHANGED vars
  BY <1>1 DEF vars
<1>2. CASE Supervisor
  <2>1. CASE SeeShutdown   BY <2>1 DEF SeeShutdown
  <2>2. CASE TakeDied      BY <2>2 DEF TakeDied
  <2>3. CASE DriverGone    BY <2>3 DEF DriverGone
  <2>4. CASE RotationDue   BY <2>4 DEF RotationDue
  <2>5. ASSUME NEW from, NEW command, Commanded(from, command)
        PROVE  commands' # <<>>
    BY <2>5, <1>0 DEF Commanded
  <2>6. CASE SendRebuild    BY <2>6, <2>5 DEF SendRebuild
  <2>7. CASE SendRotation   BY <2>7, <2>5 DEF SendRotation, SendRotationNextIn
  <2>8. CASE SendDisconnect BY <2>8, <2>5 DEF SendDisconnect
  <2>9. CASE SendFails      BY <2>9 DEF SendFails
  <2>10. CASE BackoffEnds   BY <2>10 DEF BackoffEnds
  <2> QED
    BY <1>2, <2>1, <2>2, <2>3, <2>4, <2>6, <2>7, <2>8, <2>9, <2>10 DEF Supervisor
<1>3. CASE Driver
  <2>1. CASE Built          BY <2>1 DEF Built, BuiltWith
  <2>2. CASE BuildFails     BY <2>2 DEF BuildFails, BuildFailsInto
  <2>3. CASE Report         BY <2>3, <1>0 DEF Report
  <2>4. CASE TakeRebuild    BY <2>4 DEF TakeRebuild
  <2>5. CASE TakeDisconnect BY <2>5 DEF TakeDisconnect, StopsFrom
  <2>6. CASE Disconnected   BY <2>6 DEF Disconnected
  <2>7. CASE Stopped        BY <2>7 DEF Stopped
  <2>8. CASE TransportGone  BY <2>8 DEF TransportGone, TransportGoneIf
  <2>9. CASE NoticeDeath    BY <2>9 DEF NoticeDeath, DeathNoticedAs
  <2>10. CASE TakeFrame     BY <2>10 DEF TakeFrame
  <2>11. CASE SendDone      BY <2>11 DEF SendDone, SendDoneWithMark
  <2>12. CASE ProbeTick     BY <2>12 DEF ProbeTick
  <2>13. CASE Receive       BY <2>13 DEF Receive
  <2> QED
    BY <1>3, <2>1, <2>2, <2>3, <2>4, <2>5, <2>6, <2>7, <2>8, <2>9, <2>10, <2>11,
       <2>12, <2>13 DEF Driver
<1>4. CASE Environment
  BY <1>4 DEF Environment, Signal, ClientFails, Emit, TransportEnds, SubmitQueued,
     LookupStarts, LookupAccepted, LookupAnswered, LookupOver
<1>5. CASE Tick
  BY <1>5 DEF Tick
<1> QED BY <1>1, <1>2, <1>3, <1>4, <1>5 DEF Next

(* A client that is gone is always on its way to being rebuilt: a report    *)
(* or a command is queued, or the supervisor is about to send one, or it    *)
(* has stopped (build_when_told, nym_driver.rs:685-708).                    *)
THEOREM DeathsAreNeverLost == Spec => []NoLostDeath
<1>1. Init => NoLostDeath
  BY DEF Init, NoLostDeath
<1> QED BY <1>1, TypeCorrect, LostDeathStep, PTL DEF Spec

-----------------------------------------------------------------------------
(* The status never claims a client the driver does not have               *)

(* What StatusIsHonest rests on: which states of the driver have a client,  *)
(* and what the status says in the one where either may be.                 *)
ClientInv ==
  /\ driver \in {"live", "replacing", "stopping"} => client # "none"
  /\ driver \in {"building", "waiting"} => client = "none" /\ ~connected
  /\ driver = "reporting" => (connected <=> client # "none")

StatusInv == ClientInv /\ StatusIsHonest

LEMMA StatusStep == TypeOK /\ StatusInv /\ [Next]_vars => StatusInv'
<1> SUFFICES ASSUME TypeOK, StatusInv, [Next]_vars
             PROVE  StatusInv'
  OBVIOUS
<1>0. /\ driver \in {"building", "live", "reporting", "waiting", "replacing",
                     "stopping", "stopped"}
      /\ failures \in Nat /\ connected \in BOOLEAN
      /\ client \in {"none", "good", "silent", "dead"}
  BY DEF TypeOK
<1> USE <1>0 DEF StatusInv, ClientInv, StatusIsHonest, statusVars, driverVars
<1>1. CASE UNCHANGED vars
  BY <1>1 DEF vars
<1>2. CASE Supervisor
  BY <1>2 DEF Supervisor, SeeShutdown, TakeDied, DriverGone, RotationDue, SendRebuild,
     SendRotation, SendRotationNextIn, SendDisconnect, Commanded, SendFails, BackoffEnds
<1>3. CASE Driver
  <2>1. CASE Built          BY <2>1 DEF Built, BuiltWith
  <2>2. CASE BuildFails     BY <2>2 DEF BuildFails, BuildFailsInto
  <2>3. CASE Report         BY <2>3 DEF Report
  <2>4. CASE TakeRebuild    BY <2>4 DEF TakeRebuild
  <2>5. CASE TakeDisconnect BY <2>5 DEF TakeDisconnect, StopsFrom
  <2>6. CASE Disconnected   BY <2>6 DEF Disconnected
  <2>7. CASE Stopped        BY <2>7 DEF Stopped
  <2>8. CASE TransportGone  BY <2>8 DEF TransportGone, TransportGoneIf
  <2>9. CASE NoticeDeath    BY <2>9 DEF NoticeDeath, DeathNoticedAs
  <2>10. CASE TakeFrame     BY <2>10 DEF TakeFrame
  <2>11. CASE SendDone      BY <2>11 DEF SendDone, SendDoneWithMark
  <2>12. CASE ProbeTick     BY <2>12 DEF ProbeTick
  <2>13. CASE Receive       BY <2>13 DEF Receive
  <2> QED
    BY <1>3, <2>1, <2>2, <2>3, <2>4, <2>5, <2>6, <2>7, <2>8, <2>9, <2>10, <2>11,
       <2>12, <2>13 DEF Driver
<1>4. CASE Environment
  BY <1>4 DEF Environment, Signal, ClientFails, Emit, TransportEnds, SubmitQueued,
     LookupStarts, LookupAccepted, LookupAnswered, LookupOver
<1>5. CASE Tick
  BY <1>5 DEF Tick
<1> QED BY <1>1, <1>2, <1>3, <1>4, <1>5 DEF Next

(* What /nym-status reports of the client is true of the driver, for every  *)
(* interleaving of builds, deaths, rotations and shutdown.                   *)
THEOREM StatusHonest == Spec => []StatusIsHonest
<1>1. Init => StatusInv
  BY DEF Init, StatusInv, ClientInv, StatusIsHonest
<1>2. StatusInv => StatusIsHonest
  BY DEF StatusInv
<1> QED BY <1>1, <1>2, TypeCorrect, StatusStep, PTL DEF Spec

-----------------------------------------------------------------------------
(* Rotations keep the backoff                                              *)

(* While the supervisor selects, a rotation that is not yet due comes no    *)
(* sooner than the end of the backoff, and one that is due comes after it.   *)
ClockInv ==
  supervisor = "select" =>
    /\ deferLeft = Off => rotateIn = Off \/ cooldown <= rotateIn
    /\ deferLeft # Off => rotateIn = 0 /\ cooldown = 0

LEMMA ClockStep == TypeOK /\ ClockInv /\ [Next]_vars => ClockInv'
<1> SUFFICES ASSUME TypeOK, ClockInv, [Next]_vars, supervisor' = "select"
             PROVE  /\ deferLeft' = Off => rotateIn' = Off \/ cooldown' <= rotateIn'
                    /\ deferLeft' # Off => rotateIn' = 0 /\ cooldown' = 0
  BY DEF ClockInv
<1>0. /\ rotateIn \in Int /\ rotateIn >= Off /\ deferLeft \in Int /\ deferLeft >= Off
      /\ cooldown \in Nat /\ Off = -1
  BY TimerTypes, LifecycleAssumption DEF TypeOK, Off, Larger
<1>1. CASE UNCHANGED supVars
  BY <1>1 DEF ClockInv, supVars
<1>2. CASE RotationDue
  BY <1>2, <1>0 DEF ClockInv, RotationDue
<1>3. CASE SendRotation
  BY <1>3, TimerTypes, LifecycleAssumption
  DEF SendRotation, SendRotationNextIn, NextRotation, Larger, Off
<1>4. CASE BackoffEnds
  BY <1>4, TimerTypes, LifecycleAssumption DEF BackoffEnds, NextRotation, Larger, Off
<1>5. CASE Tick
  <2>1. deferLeft = Off => rotateIn # 0
    BY <1>5 DEF Tick, SupervisorReady
  <2> QED BY <1>5, <2>1, <1>0 DEF ClockInv, Tick, Down
<1>6. CASE Supervisor
  <2>1. supervisor = "select" /\ supervisor' = "select" /\ ~RotationDue => FALSE
    BY <1>6 DEF Supervisor, SeeShutdown, TakeDied, DriverGone, SendRebuild, SendRotation,
       SendRotationNextIn, SendDisconnect, Commanded, SendFails, BackoffEnds
  <2>2. supervisor # "select" => SendRotation \/ BackoffEnds
    BY <1>6 DEF Supervisor, SeeShutdown, TakeDied, DriverGone, RotationDue, SendRebuild,
       SendDisconnect, Commanded, SendFails
  <2> QED BY <2>1, <2>2, <1>2, <1>3, <1>4
<1>7. CASE Driver
  BY <1>7, <1>1 DEF Driver, Built, BuiltWith, BuildFails, BuildFailsInto, Report,
     TakeRebuild, TakeDisconnect, Disconnected, Stopped, TransportGone, TransportGoneIf, NoticeDeath,
     DeathNoticedAs, TakeFrame, SendDone, SendDoneWithMark, ProbeTick, Receive
<1>8. CASE Environment
  BY <1>8, <1>1 DEF Environment, Signal, ClientFails, Emit, TransportEnds, SubmitQueued,
     LookupStarts, LookupAccepted, LookupAnswered, LookupOver
<1>9. CASE UNCHANGED vars
  BY <1>9, <1>1 DEF vars
<1> QED BY <1>5, <1>6, <1>7, <1>8, <1>9 DEF Next

(* A rotation is only asked for once the backoff since the last rebuild has *)
(* passed, for every backoff and every period: Some(0), which the floor      *)
(* turns into a rotation at every backoff, is the period 0, and None is      *)
(* Never (next_rotation, nym.rs:481-489).                                   *)
THEOREM RotationsPaced == Spec => RotationsKeepBackoff
<1>1. Init => ClockInv
  BY TimerTypes, LifecycleAssumption DEF Init, ClockInv, NextRotation, Larger, Off
<1>2. TypeOK /\ ClockInv /\ [Next]_vars
        => [supervisor = "select" /\ supervisor' = "rotate" => cooldown = 0]_vars
  <2> SUFFICES ASSUME TypeOK, ClockInv, [Next]_vars,
                      supervisor = "select", supervisor' = "rotate"
               PROVE  cooldown = 0
    OBVIOUS
  <2>0. cooldown \in Nat /\ Off # 0
    BY TimerTypes DEF TypeOK, Off
  <2>1. RotationDue
    BY DEF Next, vars, supVars, Supervisor, SeeShutdown, TakeDied, DriverGone, SendRebuild,
       SendRotation, SendRotationNextIn, SendDisconnect, Commanded, SendFails, BackoffEnds,
       Driver, Built, BuiltWith, BuildFails, BuildFailsInto, Report, TakeRebuild,
       TakeDisconnect, Disconnected, Stopped, TransportGone, TransportGoneIf, NoticeDeath, DeathNoticedAs,
       TakeFrame, SendDone, SendDoneWithMark, ProbeTick, Receive, Environment, Signal,
       ClientFails, Emit, TransportEnds, SubmitQueued, LookupStarts, LookupAccepted,
       LookupAnswered, LookupOver, Tick
  <2> QED BY <2>0, <2>1 DEF RotationDue, ClockInv
<1> QED BY <1>1, <1>2, TypeCorrect, ClockStep, PTL DEF Spec, RotationsKeepBackoff

-----------------------------------------------------------------------------
(* The two tasks do not wait for each other                                *)

(* A probe of this client has gone unheard and the next one is due: the     *)
(* driver may report once more without having been told to rebuild.         *)
Armed == driver = "live" /\ probeIn = 0 /\ (mark = "quiet" \/ inFlight = "probe")

(* The reports the driver may still make before it takes another command,   *)
(* the command the supervisor holds, and the two channels: a report becomes *)
(* a command and a command a report, so their sum hardly grows.             *)
Owed ==
  IF Armed \/ (driver = "reporting" /\ client # "none") THEN 2
  ELSE IF driver \in {"live", "building", "replacing", "reporting"} THEN 1 ELSE 0
Held == IF supervisor \in {"rebuild", "rotate", "disconnect"} THEN 1 ELSE 0
Load == Len(commands) + events + Held + Owed

DriverShape ==
  /\ inFlight # "none" => driver = "live"
  /\ driver \in {"building", "waiting"} => client = "none"
  /\ driver = "reporting" /\ client # "none" => mark = "none" /\ rounds = 0

(* Only a tick makes a rotation due, and no tick passes over an event that  *)
(* the select could take.                                                  *)
Due == deferLeft # Off \/ rotateIn = 0
LoadCap == Larger(CmdCap, EvtCap) + 2
LoadBound ==
  /\ supervisor = "select" /\ Due => Load <= CmdCap + 1
  /\ supervisor \in {"select", "backoff", "rebuild", "rotate"} => Load <= LoadCap
  /\ supervisor = "disconnect" => Load <= LoadCap + 1

LEMMA WeightTypes ==
  Owed \in 0 .. 2 /\ Owed' \in 0 .. 2 /\ Held \in 0 .. 1 /\ Held' \in 0 .. 1
  BY DEF Owed, Held

LEMMA LoadCaps ==
  /\ CmdCap \in Nat \ {0} /\ EvtCap \in Nat \ {0} /\ LoadCap \in Nat
  /\ CmdCap + 2 <= LoadCap /\ EvtCap + 2 <= LoadCap
  BY CapTypes DEF LoadCap, Larger

(* A rotation just made or replaced is not due at once.                     *)
LEMMA NextIsNotDue == NextRotation # 0
  BY LifecycleAssumption DEF NextRotation, Larger, Off

LEMMA ShapeStep == TypeOK /\ DriverShape /\ [Next]_vars => DriverShape'
<1> SUFFICES ASSUME TypeOK, DriverShape, [Next]_vars PROVE DriverShape'
  OBVIOUS
<1>1. ASSUME UNCHANGED <<driver, client, inFlight, mark, rounds>> PROVE DriverShape'
  BY <1>1 DEF DriverShape
<1>2. CASE Supervisor
  BY <1>1, <1>2
  DEF Supervisor, SeeShutdown, TakeDied, DriverGone, RotationDue, SendRebuild, SendRotation,
      SendRotationNextIn, SendDisconnect, SendFails, BackoffEnds, Commanded, driverVars,
      probeVars
<1>3. CASE Built \/ BuildFails
  BY <1>3 DEF Built, BuiltWith, BuildFails, BuildFailsInto, DriverShape, probeVars
<1>4. CASE Report
  BY <1>4 DEF Report, DriverShape, probeVars
<1>5. CASE TakeRebuild
  BY <1>5 DEF TakeRebuild, StrandLookup, DriverShape, probeVars
<1>6. CASE TakeDisconnect
  BY <1>6 DEF TakeDisconnect, StopsFrom, DriverShape, probeVars
<1>7. CASE Disconnected \/ Stopped \/ TransportGone
  BY <1>7 DEF Disconnected, Stopped, TransportGone, TransportGoneIf, DriverShape, probeVars
<1>8. CASE NoticeDeath
  BY <1>8 DEF NoticeDeath, DeathNoticedAs, DriverShape, probeVars
<1>9. CASE TakeFrame \/ SendDone
  BY <1>9 DEF TakeFrame, SendDone, SendDoneWithMark, DriverShape, probeVars
<1>10. CASE ProbeTick
  BY <1>10 DEF ProbeTick, DriverShape
<1>11. CASE Receive
  BY <1>11 DEF Receive, Hear, DriverShape
<1>12. CASE Environment
  <2>1. CASE LookupAnswered
    BY <2>1 DEF LookupAnswered, Hear, DriverShape
  <2>2. CASE LookupOver
    BY <2>2 DEF LookupOver, DriverShape, probeVars
  <2>3. CASE ClientFails
    BY <2>3 DEF ClientFails, DriverShape, probeVars, TypeOK
  <2>4. CASE Signal \/ Emit \/ TransportEnds \/ SubmitQueued \/ LookupStarts
             \/ LookupAccepted
    BY <1>1, <2>4
    DEF Signal, Emit, TransportEnds, SubmitQueued, LookupStarts, LookupAccepted,
        driverVars, probeVars
  <2> QED BY <1>12, <2>1, <2>2, <2>3, <2>4 DEF Environment
<1>13. CASE Tick
  BY <1>1, <1>13 DEF Tick
<1>14. CASE UNCHANGED vars
  BY <1>1, <1>14 DEF vars, probeVars
<1> QED
  BY <1>2, <1>3, <1>4, <1>5, <1>6, <1>7, <1>8, <1>9, <1>10, <1>11, <1>12, <1>13, <1>14
  DEF Next, Driver

(* A step of the driver turns a command into a build, a build into a report *)
(* and a report into an event, and makes none of them from nothing.         *)
LEMMA DriverLoad ==
  ASSUME TypeOK, DriverShape, Driver, supervisor # "stopped"
  PROVE  UNCHANGED supVars /\ Load' <= Load
<1>0. /\ commands \in Seq({"rebuild", "rotate", "disconnect"}) /\ events \in Nat
      /\ Len(commands) \in Nat
  BY CapTypes DEF TypeOK
<1>1. ASSUME UNCHANGED supVars, UNCHANGED <<commands, events>>, Owed' <= Owed
      PROVE  UNCHANGED supVars /\ Load' <= Load
  <2>1. Held' = Held
    BY <1>1 DEF Held, supVars
  <2> QED BY <1>0, <1>1, <2>1, WeightTypes DEF Load
<1>2. CASE Built
  <2>1. Owed = 1 /\ Owed' = 1
    BY <1>2 DEF Built, BuiltWith, Owed, Armed, DriverShape
  <2> QED BY <1>1, <1>2, <2>1 DEF Built, BuiltWith
<1>3. CASE BuildFails
  <2>1. Owed = 1 /\ Owed' = 1
    BY <1>3 DEF BuildFails, BuildFailsInto, Owed, Armed, DriverShape, probeVars
  <2> QED BY <1>1, <1>3, <2>1 DEF BuildFails, BuildFailsInto
<1>4. CASE Report
  <2>1. Owed' = Owed - 1
    BY <1>4 DEF Report, Owed, Armed, DriverShape, probeVars
  <2>2. events' = events + 1 /\ commands' = commands /\ UNCHANGED supVars
    BY <1>4 DEF Report
  <2>3. Held' = Held
    BY <2>2 DEF Held, supVars
  <2> QED BY <1>0, <2>1, <2>2, <2>3, WeightTypes DEF Load
<1>5. CASE TakeRebuild
  <2>1. Owed' <= Owed + 1
    BY <1>5 DEF TakeRebuild, Owed, Armed, DriverShape, probeVars
  <2>2. commands # <<>> /\ commands' = Tail(commands) /\ events' = events /\ UNCHANGED supVars
    BY <1>5 DEF TakeRebuild
  <2>3. Len(commands') = Len(commands) - 1
    BY <1>0, <2>2
  <2>4. Held' = Held
    BY <2>2 DEF Held, supVars
  <2> QED BY <1>0, <2>1, <2>2, <2>3, <2>4, WeightTypes DEF Load
<1>6. CASE TakeDisconnect \/ Stopped
  <2>1. Owed' = 0 /\ commands' = <<>> /\ events' = events /\ UNCHANGED supVars
    BY <1>6 DEF TakeDisconnect, StopsFrom, Stopped, Owed, Armed
  <2>2. Held' = Held
    BY <2>1 DEF Held, supVars
  <2>3. Len(commands') <= Len(commands)
    BY <1>0, <2>1
  <2>4. Owed' <= Owed /\ Len(commands') \in Nat
    BY <2>1, WeightTypes
  <2> QED BY <1>0, <2>1, <2>2, <2>3, <2>4, WeightTypes DEF Load
<1>7. CASE Disconnected
  <2>1. Owed = 1 /\ Owed' = 1
    BY <1>7 DEF Disconnected, Owed, Armed
  <2> QED BY <1>1, <1>7, <2>1 DEF Disconnected
<1>8. CASE TransportGone
  <2>1. Owed' = 0
    BY <1>8 DEF TransportGone, TransportGoneIf, Owed, Armed
  <2> QED BY <1>1, <1>8, <2>1, WeightTypes DEF TransportGone, TransportGoneIf
<1>9. CASE NoticeDeath
  <2>1. Owed' = 1 /\ Owed >= 1
    BY <1>9 DEF NoticeDeath, DeathNoticedAs, Owed, Armed
  <2> QED BY <1>1, <1>9, <2>1, WeightTypes DEF NoticeDeath, DeathNoticedAs
<1>10. CASE TakeFrame
  <2>1. outFrames \in Seq({"submit", "lookup"}) /\ outFrames # <<>>
    BY <1>10 DEF TakeFrame, TypeOK
  <2>2. Head(outFrames) \in {"submit", "lookup"}
    BY <2>1
  <2>3. inFlight' # "probe" /\ UNCHANGED <<driver, client, probeIn, mark>> /\ driver = "live"
    BY <1>10, <2>2 DEF TakeFrame, probeVars
  <2>4. Owed' <= Owed
    BY <2>3 DEF Owed, Armed
  <2> QED BY <1>1, <1>10, <2>4 DEF TakeFrame
<1>11. CASE SendDone
  <2>1. Owed' <= Owed
    BY <1>11 DEF SendDone, SendDoneWithMark, Owed, Armed
  <2> QED BY <1>1, <1>11, <2>1 DEF SendDone, SendDoneWithMark
<1>12. CASE ProbeTick
  <2>1. Owed' <= Owed
    <3>1. driver = "live" /\ probeIn = 0 /\ probeIn' # 0 /\ client' = client
      BY <1>12, LifecycleAssumption DEF ProbeTick
    <3>2. CASE driver' = "reporting"
      <4>1. mark = "quiet"
        BY <1>12, <3>1, <3>2 DEF ProbeTick
      <4>2. Owed = 2
        BY <3>1, <4>1 DEF Owed, Armed
      <4> QED BY <4>2, WeightTypes, <3>2 DEF Owed, Armed
    <3>3. CASE driver' = "live"
      BY <3>1, <3>3 DEF Owed, Armed
    <3> QED BY <1>12, <3>1, <3>2, <3>3 DEF ProbeTick
  <2> QED BY <1>1, <1>12, <2>1 DEF ProbeTick
<1>13. CASE Receive
  <2>1. Owed' <= Owed
    BY <1>13 DEF Receive, Hear, Owed, Armed
  <2> QED BY <1>1, <1>13, <2>1 DEF Receive
<1> QED
  BY <1>2, <1>3, <1>4, <1>5, <1>6, <1>7, <1>8, <1>9, <1>10, <1>11, <1>12, <1>13 DEF Driver

(* What the SDK, the transport and a wallet do adds nothing to the load.    *)
LEMMA EnvironmentLoad ==
  ASSUME TypeOK, Environment
  PROVE  UNCHANGED supVars /\ Load' <= Load
<1>0. Len(commands) \in Nat /\ events \in Nat
  BY CapTypes DEF TypeOK
<1>1. UNCHANGED <<supVars, commands, events, driver, probeIn>>
  BY DEF Environment, Signal, ClientFails, Emit, TransportEnds, SubmitQueued, LookupStarts,
         LookupAccepted, LookupAnswered, LookupOver, driverVars, probeVars
<1>2. /\ mark' = "quiet" => mark = "quiet"
      /\ inFlight' = "probe" => inFlight = "probe"
      /\ client' # "none" => client # "none"
  BY DEF Environment, Signal, ClientFails, Emit, TransportEnds, SubmitQueued, LookupStarts,
         LookupAccepted, LookupAnswered, LookupOver, Hear, driverVars, probeVars
<1>3. Owed' <= Owed
  BY <1>1, <1>2 DEF Owed, Armed
<1>4. Held' = Held
  BY <1>1 DEF Held, supVars
<1> QED BY <1>0, <1>1, <1>3, <1>4, WeightTypes DEF Load

LEMMA SupervisorLoad ==
  ASSUME TypeOK, LoadBound, Supervisor
  PROVE  LoadBound'
<1>0. /\ commands \in Seq({"rebuild", "rotate", "disconnect"}) /\ Len(commands) \in Nat
      /\ events \in Nat
  BY CapTypes DEF TypeOK
<1>1. ASSUME UNCHANGED driverVars PROVE Owed' = Owed
  BY <1>1 DEF driverVars, probeVars, Owed, Armed
<1>2. ASSUME UNCHANGED <<driverVars, commands, events>>
      PROVE  Load' = Load - Held + Held'
  BY <1>0, <1>1, <1>2, WeightTypes DEF Load
<1>3. CASE SeeShutdown
  <2>1. /\ supervisor \in {"select", "backoff"} /\ supervisor' = "disconnect"
        /\ UNCHANGED <<driverVars, commands, events>>
    BY <1>3 DEF SeeShutdown
  <2>2. Held = 0 /\ Held' = 1 /\ Load <= LoadCap /\ Load \in Int
    BY <1>0, <2>1, WeightTypes DEF Held, LoadBound, Load
  <2> QED BY <1>2, <2>1, <2>2, LoadCaps DEF LoadBound
<1>4. CASE TakeDied
  <2>1. /\ supervisor = "select" /\ supervisor' = "rebuild" /\ events' = events - 1
        /\ UNCHANGED <<driverVars, commands>>
    BY <1>4 DEF TakeDied
  <2>2. Held = 0 /\ Held' = 1 /\ Owed' = Owed
    BY <1>1, <2>1 DEF Held
  <2>3. Load' = Load
    BY <1>0, <2>1, <2>2, WeightTypes DEF Load
  <2> QED BY <2>1, <2>3 DEF LoadBound
<1>5. CASE DriverGone \/ SendDisconnect \/ SendFails
  BY <1>5 DEF DriverGone, SendDisconnect, SendFails, LoadBound
<1>6. CASE RotationDue
  <2>1. /\ supervisor = "select" /\ Due /\ UNCHANGED <<driverVars, commands, events>>
        /\ supervisor' \in {"select", "rotate"}
    BY <1>6 DEF RotationDue, Due
  <2>2. Held = 0 /\ Held' \in 0 .. 1 /\ Load <= CmdCap + 1 /\ Load \in Int
    BY <1>0, <2>1, WeightTypes DEF Held, LoadBound, Load
  <2>3. Load' \in Int /\ Load' <= Load + 1 /\ (supervisor' = "select" => Load' = Load)
    BY <1>2, <2>1, <2>2 DEF Held
  <2>4. Load' <= LoadCap /\ (supervisor' = "select" => Load' <= CmdCap + 1)
    BY <2>2, <2>3, LoadCaps
  <2> QED BY <2>1, <2>4 DEF LoadBound
<1>7. CASE SendRebuild \/ SendRotation
  <2>1. /\ supervisor \in {"rebuild", "rotate"} /\ supervisor' \in {"backoff", "select"}
        /\ \E c \in {"rebuild", "rotate"} : commands' = Append(commands, c)
        /\ UNCHANGED <<driverVars, events>>
    BY <1>7 DEF SendRebuild, SendRotation, SendRotationNextIn, Commanded
  <2>2. Held = 1 /\ Held' = 0 /\ Owed' = Owed /\ Len(commands') = Len(commands) + 1
    BY <1>0, <1>1, <2>1 DEF Held
  <2>3. Load' = Load
    BY <1>0, <2>1, <2>2, WeightTypes DEF Load
  <2>4. supervisor' = "select" => ~Due'
    BY <1>7, NextIsNotDue DEF SendRebuild, SendRotation, SendRotationNextIn, Due
  <2> QED BY <2>1, <2>3, <2>4 DEF LoadBound
<1>8. CASE BackoffEnds
  <2>1. /\ supervisor = "backoff" /\ supervisor' = "select"
        /\ UNCHANGED <<driverVars, commands, events>> /\ ~Due'
    BY <1>8, NextIsNotDue DEF BackoffEnds, Due
  <2>2. Held = 0 /\ Held' = 0 /\ Load <= LoadCap /\ Load \in Int
    BY <1>0, <2>1, WeightTypes DEF Held, LoadBound, Load
  <2> QED BY <1>2, <2>1, <2>2 DEF LoadBound
<1> QED BY <1>3, <1>4, <1>5, <1>6, <1>7, <1>8 DEF Supervisor

(* When time passes, a select has no event to take and a live driver no     *)
(* command: what may come due, or armed, then has little beside it.         *)
LEMMA TickLoad ==
  ASSUME TypeOK, DriverShape, LoadBound, Tick
  PROVE  LoadBound'
<1>0. /\ commands \in Seq({"rebuild", "rotate", "disconnect"}) /\ Len(commands) \in Nat
      /\ Len(commands) <= CmdCap /\ events \in Nat /\ events <= EvtCap
      /\ CmdCap \in Nat \ {0} /\ EvtCap \in Nat \ {0}
  BY CapTypes DEF TypeOK
<1>1. UNCHANGED <<supervisor, commands, events, driver, client, mark, inFlight>>
  BY DEF Tick
<1>2. Held' = Held /\ Load' = Load - Owed + Owed'
  BY <1>0, <1>1, WeightTypes DEF Held, Load
<1>3. ~SupervisorReady /\ ~DriverReady
  BY DEF Tick
<1>4. driver # "live" => Owed' = Owed
  BY <1>1 DEF Owed, Armed
<1>5. driver = "live" => commands = <<>> /\ Len(commands) = 0
  BY <1>0, <1>3 DEF DriverReady
<1>6. CASE supervisor = "select"
  <2>1. events = 0 /\ Held = 0
    BY <1>0, <1>3, <1>6 DEF SupervisorReady, Held
  <2>2. CASE driver = "live"
    <3>1. Load' <= 2
      BY <1>0, <1>2, <1>5, <2>1, <2>2, WeightTypes DEF Load
    <3>2. Load' \in Int /\ Load' <= CmdCap + 1 /\ Load' <= LoadCap
      BY <1>0, <1>2, <3>1, WeightTypes, LoadCaps DEF Load
    <3> QED BY <1>1, <1>6, <3>2 DEF LoadBound
  <2>3. CASE driver # "live"
    <3>1. Owed' <= 1
      BY <1>0, <1>1, <1>3, <1>4, <2>1, <2>3 DEF DriverReady, Owed, Armed
    <3>2. Load' <= CmdCap + 1 /\ Load' <= LoadCap
      BY <1>0, <1>2, <2>1, <3>1, WeightTypes, LoadCaps DEF Load
    <3> QED BY <1>1, <1>6, <3>2 DEF LoadBound
  <2> QED BY <2>2, <2>3
<1>7. CASE supervisor = "backoff"
  <2>1. Held = 0 /\ Load <= LoadCap
    BY <1>7 DEF Held, LoadBound
  <2>2. CASE driver = "live"
    <3>1. Load' <= EvtCap + 2
      BY <1>0, <1>2, <1>5, <2>1, <2>2, WeightTypes DEF Load
    <3>2. Load' <= LoadCap
      BY <1>0, <1>2, <3>1, WeightTypes, LoadCaps DEF Load
    <3> QED BY <1>1, <1>7, <3>2 DEF LoadBound
  <2>3. CASE driver # "live"
    BY <1>0, <1>1, <1>2, <1>4, <1>7, <2>1, <2>3, WeightTypes DEF LoadBound, Load
  <2> QED BY <2>2, <2>3
<1>8. CASE supervisor \in {"rebuild", "rotate", "disconnect"}
  <2>1. Len(commands) = CmdCap
    BY <1>0, <1>3, <1>8 DEF SupervisorReady
  <2>2. driver # "live"
    BY <1>0, <1>5, <2>1
  <2>3. Load' = Load
    BY <1>0, <1>2, <1>4, <2>2, WeightTypes DEF Load
  <2> QED BY <1>1, <1>8, <2>3 DEF LoadBound
<1>9. CASE supervisor = "stopped"
  BY <1>1, <1>9 DEF LoadBound
<1> QED BY <1>6, <1>7, <1>8, <1>9 DEF TypeOK

LEMMA LoadStep == TypeOK /\ DriverShape /\ LoadBound /\ [Next]_vars => LoadBound'
<1> SUFFICES ASSUME TypeOK, DriverShape, LoadBound, [Next]_vars PROVE LoadBound'
  OBVIOUS
<1>6. TypeOK'
  BY NextType
<1>7. /\ commands \in Seq({"rebuild", "rotate", "disconnect"}) /\ events \in 0 .. EvtCap
      /\ commands' \in Seq({"rebuild", "rotate", "disconnect"}) /\ events' \in 0 .. EvtCap
  BY <1>6 DEF TypeOK
<1>0. /\ Len(commands) \in Nat /\ events \in Nat /\ CmdCap \in Nat /\ LoadCap \in Nat
      /\ Len(commands') \in Nat /\ events' \in Nat
  BY <1>7, LoadCaps
<1>1. Load \in Int /\ Load' \in Int
  BY <1>0, WeightTypes DEF Load
<1>2. ASSUME UNCHANGED supVars, Load' <= Load PROVE LoadBound'
  BY <1>0, <1>1, <1>2 DEF LoadBound, Due, supVars
<1>3. CASE Driver
  <2>1. CASE supervisor # "stopped"  BY <1>2, <1>3, <2>1, DriverLoad
  <2>2. CASE supervisor = "stopped"
    <3>1. supervisor' = "stopped"
      BY <1>3, <2>2
      DEF Driver, Built, BuiltWith, BuildFails, BuildFailsInto, Report, TakeRebuild,
          TakeDisconnect, Disconnected, Stopped, TransportGone, TransportGoneIf,
          NoticeDeath, DeathNoticedAs, TakeFrame, SendDone, SendDoneWithMark, ProbeTick,
          Receive, supVars
    <3> QED BY <3>1 DEF LoadBound
  <2> QED BY <2>1, <2>2
<1>4. CASE Environment  BY <1>2, <1>4, EnvironmentLoad
<1>5. CASE UNCHANGED vars
  BY <1>1, <1>2, <1>5 DEF vars, supVars, probeVars, Load, Held, Owed, Armed
<1> QED BY <1>3, <1>4, <1>5, SupervisorLoad, TickLoad DEF Next

(* With room for two in each channel (the program has eight) the driver is  *)
(* never stuck reporting a death to a supervisor stuck commanding it, for    *)
(* every period, backoff and probe interval (nym.rs:978, 1018;               *)
(* nym_driver.rs:225).                                                      *)
THEOREM NeverMutuallyWaiting ==
  ASSUME CmdCap >= 2, EvtCap >= 2
  PROVE  Spec => []NoMutualWait
<1>1. Init => DriverShape /\ LoadBound
  <2> SUFFICES ASSUME Init PROVE DriverShape /\ LoadBound
    OBVIOUS
  <2>1. DriverShape
    BY DEF Init, DriverShape
  <2>2. Load = 1
    BY DEF Init, Load, Held, Owed, Armed
  <2> QED BY <2>1, <2>2, LoadCaps DEF LoadBound, Init
<1>2. TypeOK /\ LoadBound => NoMutualWait
  <2> SUFFICES ASSUME TypeOK, LoadBound,
                      supervisor \in {"rebuild", "rotate", "disconnect"},
                      Len(commands) = CmdCap, driver = "reporting", events = EvtCap
               PROVE  FALSE
    BY DEF NoMutualWait
  <2>1. Held = 1 /\ Owed >= 1 /\ Load <= LoadCap + 1
    BY LoadCaps, WeightTypes, CapTypes DEF Held, Owed, LoadBound, Load, TypeOK
  <2>2. Load >= CmdCap + EvtCap + 2
    BY <2>1, LoadCaps, WeightTypes DEF Load
  <2>3. LoadCap + 1 < CmdCap + EvtCap + 2
    BY LoadCaps DEF LoadCap, Larger
  <2> QED BY <2>1, <2>2, <2>3, LoadCaps, WeightTypes, CapTypes DEF Load
<1> QED BY <1>1, <1>2, TypeCorrect, ShapeStep, LoadStep, PTL DEF Spec

-----------------------------------------------------------------------------
(* Silence, and the deferral                                               *)

(* The rounds counted against a client are backed by probes of its own that *)
(* it accepted, one more than the rounds while the last is unheard.         *)
RoundsAreProbed ==
  driver = "live" =>
    /\ rounds <= probes
    /\ mark = "quiet" /\ inFlight # "probe" => rounds + 1 <= probes

LEMMA RoundsStep ==
  TypeOK /\ DriverShape /\ RoundsAreProbed /\ [Next]_vars => RoundsAreProbed'
<1> SUFFICES ASSUME TypeOK, DriverShape, RoundsAreProbed, [Next]_vars, driver' = "live"
             PROVE  /\ rounds' <= probes'
                    /\ mark' = "quiet" /\ inFlight' # "probe" => rounds' + 1 <= probes'
  BY DEF RoundsAreProbed
<1>0. /\ rounds \in 0 .. SilentRounds - 1 /\ probes \in 0 .. SilentRounds
      /\ SilentRounds \in Nat \ {0}
  BY CapTypes DEF TypeOK
<1>1. ASSUME driver = "live", UNCHANGED <<rounds, probes>>, mark' = "quiet" => mark = "quiet",
             inFlight = "probe" => inFlight' = "probe"
      PROVE  /\ rounds' <= probes'
             /\ mark' = "quiet" /\ inFlight' # "probe" => rounds' + 1 <= probes'
  BY <1>1 DEF RoundsAreProbed
<1>2. CASE Supervisor
  BY <1>1, <1>2
  DEF Supervisor, SeeShutdown, TakeDied, DriverGone, RotationDue, SendRebuild, SendRotation,
      SendRotationNextIn, SendDisconnect, SendFails, BackoffEnds, Commanded, driverVars,
      probeVars
<1>3. CASE Built
  BY <1>3 DEF Built, BuiltWith
<1>4. CASE Report
  <2>1. mark' # "quiet" /\ UNCHANGED <<rounds, probes>> /\ rounds = 0
    BY <1>4 DEF Report, DriverShape, probeVars
  <2> QED BY <1>0, <2>1
<1>5. CASE TakeFrame
  BY <1>1, <1>5 DEF TakeFrame, probeVars
<1>6. CASE SendDone
  <2>1. driver = "live" /\ rounds' = rounds
    BY <1>6 DEF SendDone, SendDoneWithMark
  <2>2. CASE inFlight = "probe"
    <3>1. probes' = Bumped(probes, SilentRounds)
      BY <1>6, <2>2 DEF SendDone, SendDoneWithMark
    <3>2. rounds <= probes
      BY <2>1 DEF RoundsAreProbed
    <3>3. rounds + 1 <= probes'
      BY <1>0, <3>1, <3>2 DEF Bumped
    <3> QED BY <1>0, <2>1, <3>1, <3>3 DEF Bumped
  <2>3. CASE inFlight # "probe"
    BY <1>1, <1>6, <2>1, <2>3 DEF SendDone, SendDoneWithMark
  <2> QED BY <2>2, <2>3
<1>7. CASE ProbeTick
  <2>1. /\ driver = "live" /\ inFlight = "none" /\ inFlight' = "probe" /\ probes' = probes
        /\ rounds' = 0 \/ (rounds' = rounds + 1 /\ mark = "quiet")
    BY <1>7 DEF ProbeTick
  <2> QED BY <1>0, <2>1 DEF RoundsAreProbed
<1>8. CASE Receive
  BY <1>1, <1>8 DEF Receive, Hear
<1>9. CASE Environment
  BY <1>1, <1>9
  DEF Environment, Signal, ClientFails, Emit, TransportEnds, SubmitQueued, LookupStarts,
      LookupAccepted, LookupAnswered, LookupOver, Hear, driverVars, probeVars
<1>10. CASE Tick
  BY <1>1, <1>10 DEF Tick
<1>11. CASE UNCHANGED vars
  BY <1>1, <1>11 DEF vars, probeVars
<1>12. CASE BuildFails \/ TakeRebuild \/ TakeDisconnect \/ Disconnected \/ Stopped
            \/ TransportGone \/ NoticeDeath
  BY <1>12
  DEF BuildFails, BuildFailsInto, TakeRebuild, TakeDisconnect, StopsFrom, Disconnected,
      Stopped, TransportGone, TransportGoneIf, NoticeDeath, DeathNoticedAs
<1> QED
  BY <1>2, <1>3, <1>4, <1>5, <1>6, <1>7, <1>8, <1>9, <1>10, <1>11, <1>12 DEF Next, Driver

(* A client is reported silent after SilentRounds probes of its own: the    *)
(* silence of the client before it is never charged to it, for any number   *)
(* of rounds and any probe interval (nym_driver.rs:503-511, 533-538).        *)
THEOREM SilenceIsOwn == Spec => SilenceIsItsOwn
<1>1. Init => DriverShape /\ RoundsAreProbed
  BY DEF Init, DriverShape, RoundsAreProbed
<1>2. TypeOK /\ DriverShape /\ RoundsAreProbed /\ [Next]_vars
        => [SilentReport => probes = SilentRounds]_vars
  <2> SUFFICES ASSUME TypeOK, DriverShape, RoundsAreProbed, Next,
                      driver = "live", driver' = "reporting", client' # "none"
               PROVE  probes = SilentRounds
    BY DEF SilentReport, vars
  <2>1. /\ rounds \in 0 .. SilentRounds - 1 /\ probes \in 0 .. SilentRounds
        /\ SilentRounds \in Nat \ {0}
    BY CapTypes DEF TypeOK
  <2>2. ProbeTick
    BY DEF Next, Supervisor, SeeShutdown, TakeDied, DriverGone, RotationDue, SendRebuild,
           SendRotation, SendRotationNextIn, SendDisconnect, SendFails, BackoffEnds,
           Commanded, driverVars, Driver, Built, BuiltWith, BuildFails, BuildFailsInto,
           Report, TakeRebuild, TakeDisconnect, StopsFrom, Disconnected, Stopped,
           TransportGone, TransportGoneIf, NoticeDeath, DeathNoticedAs, TakeFrame,
           SendDone, SendDoneWithMark, Receive, Environment, Signal, ClientFails, Emit,
           TransportEnds, SubmitQueued, LookupStarts, LookupAccepted, LookupAnswered,
           LookupOver, Tick
  <2>3. inFlight = "none" /\ mark = "quiet" /\ rounds + 1 >= SilentRounds
    BY <2>2 DEF ProbeTick
  <2>4. rounds + 1 <= probes
    BY <2>3 DEF RoundsAreProbed
  <2> QED BY <2>1, <2>3, <2>4
<1> QED BY <1>1, <1>2, TypeCorrect, ShapeStep, RoundsStep, PTL DEF Spec, SilenceIsItsOwn

(* While a rotation is deferred for a lookup that was under way when it came *)
(* due, the lookup's budget runs out no later than the deferral.            *)
DeferralOutlasts ==
  /\ early /\ deferLeft # Off => left <= deferLeft
  /\ left <= LookupTimeout

LEMMA DownKeeps ==
  ASSUME NEW a \in Nat, NEW b \in Nat, a <= b
  PROVE  Down(a) <= Down(b)
  BY DEF Down

LEMMA DeferralStep == TypeOK /\ DeferralOutlasts /\ [Next]_vars => DeferralOutlasts'
<1> SUFFICES ASSUME TypeOK, DeferralOutlasts, [Next]_vars PROVE DeferralOutlasts'
  OBVIOUS
<1>10. left \in Nat /\ deferLeft \in Off .. EffectiveDeferLimit /\ left <= LookupTimeout
  BY DEF TypeOK, DeferralOutlasts
<1>11. /\ LookupTimeout \in Nat /\ RequestTimeout \in Nat /\ Off = -1
      /\ EffectiveDeferLimit \in Nat /\ LookupTimeout <= EffectiveDeferLimit
  BY LifecycleAssumption DEF EffectiveDeferLimit, Larger, Off
<1>0. /\ left \in Nat /\ left <= LookupTimeout /\ left <= EffectiveDeferLimit
      /\ deferLeft \in Int /\ (deferLeft # Off => deferLeft \in Nat)
      /\ LookupTimeout \in Nat /\ EffectiveDeferLimit \in Nat /\ Off = -1
  BY <1>10, <1>11
<1>1. ASSUME UNCHANGED <<deferLeft, left>>, early' => early PROVE DeferralOutlasts'
  BY <1>1 DEF DeferralOutlasts
<1>2. CASE RotationDue
  <2>1. UNCHANGED left /\ deferLeft' \in {deferLeft, DeferralLeft}
    BY <1>2 DEF RotationDue
  <2>2. CASE deferLeft = Off
    BY <1>0, <2>1, <2>2 DEF DeferralOutlasts, DeferralLeft
  <2>3. CASE deferLeft # Off
    BY <1>1, <1>2, <2>1, <2>3 DEF RotationDue, DeferralLeft
  <2> QED BY <2>2, <2>3
<1>3. CASE SendRotation \/ BackoffEnds
  BY <1>3 DEF SendRotation, SendRotationNextIn, BackoffEnds, Commanded, lookupVars,
              DeferralOutlasts
<1>4. CASE SeeShutdown \/ TakeDied \/ DriverGone \/ SendRebuild \/ SendDisconnect \/ SendFails
  BY <1>1, <1>4
  DEF SeeShutdown, TakeDied, DriverGone, SendRebuild, SendDisconnect, SendFails, Commanded,
      lookupVars
<1>5. CASE Driver
  BY <1>1, <1>5
  DEF Driver, Built, BuiltWith, BuildFails, BuildFailsInto, Report, TakeRebuild, StrandLookup,
      TakeDisconnect, Disconnected, Stopped, TransportGone, TransportGoneIf, NoticeDeath,
      DeathNoticedAs, TakeFrame, SendDone, SendDoneWithMark, ProbeTick, Receive, supVars,
      lookupVars
<1>6. CASE LookupStarts \/ LookupAnswered \/ LookupOver
  BY <1>0, <1>6 DEF LookupStarts, LookupAnswered, LookupOver, supVars, DeferralOutlasts
<1>7. CASE Signal \/ ClientFails \/ Emit \/ TransportEnds \/ SubmitQueued \/ LookupAccepted
  BY <1>1, <1>7
  DEF Signal, ClientFails, Emit, TransportEnds, SubmitQueued, LookupAccepted, supVars,
      lookupVars
<1>8. CASE Tick
  <2>1. deferLeft' = Down(deferLeft) /\ left' = Down(left) /\ early' = early
    BY <1>8 DEF Tick
  <2>2. left' <= left /\ left' \in Nat
    BY <1>0, <2>1 DEF Down
  <2>3. deferLeft' # Off => deferLeft # Off
    BY <1>0, <2>1 DEF Down
  <2>4. early' /\ deferLeft' # Off => left' <= deferLeft'
    BY <1>0, <2>1, <2>3, DownKeeps DEF DeferralOutlasts
  <2>5. left' <= LookupTimeout
    BY <1>0, <2>2
  <2> QED BY <2>4, <2>5 DEF DeferralOutlasts
<1>9. CASE UNCHANGED vars
  BY <1>1, <1>9 DEF vars, supVars, lookupVars
<1> QED
  BY <1>2, <1>3, <1>4, <1>5, <1>6, <1>7, <1>8, <1>9 DEF Next, Supervisor, Environment

(* The deferral is long enough for every lookup it is meant for, whatever    *)
(* budget is in force: none that was registered when the rotation came due  *)
(* is cut off inside its budget (nym.rs:457-479; main.rs:330-347).           *)
THEOREM DeferralCovers == Spec => DeferralCoversLookup
<1>1. Init => DeferralOutlasts
  BY TimerTypes DEF Init, DeferralOutlasts
<1>2. TypeOK /\ DeferralOutlasts /\ [Next]_vars
        => [supervisor = "select" /\ supervisor' = "rotate" => ~(early /\ ~Idle /\ left > 0)]_vars
  <2> SUFFICES ASSUME TypeOK, DeferralOutlasts, Next, supervisor = "select",
                      supervisor' = "rotate", early, ~Idle
               PROVE  ~(left > 0)
    BY DEF vars
  <2>1. RotationDue
    BY DEF Next, Supervisor, SeeShutdown, TakeDied, DriverGone, SendRebuild,
           SendRotation, SendRotationNextIn, SendDisconnect, SendFails, BackoffEnds,
           Commanded, supVars, Driver, Built, BuiltWith, BuildFails, BuildFailsInto,
           Report, TakeRebuild, TakeDisconnect, Disconnected, Stopped,
           TransportGone, TransportGoneIf, NoticeDeath, DeathNoticedAs, TakeFrame,
           SendDone, SendDoneWithMark, ProbeTick, Receive, Environment, Signal, ClientFails,
           Emit, TransportEnds, SubmitQueued, LookupStarts, LookupAccepted, LookupAnswered,
           LookupOver, Tick
  <2>2. DeferralLeft = 0
    BY <2>1 DEF RotationDue
  <2>3. left \in Nat /\ left <= LookupTimeout /\ LookupTimeout \in Nat /\ RequestTimeout \in Nat
    BY LifecycleAssumption DEF TypeOK, DeferralOutlasts
  <2>4. CASE deferLeft = Off
    BY <2>2, <2>3, <2>4 DEF DeferralLeft, EffectiveDeferLimit, Larger
  <2>5. CASE deferLeft # Off
    BY <2>2, <2>3, <2>5 DEF DeferralLeft, DeferralOutlasts
  <2> QED BY <2>4, <2>5
<1> QED BY <1>1, <1>2, TypeCorrect, DeferralStep, PTL DEF Spec, DeferralCoversLookup
=============================================================================
