------------------------------- MODULE Server -------------------------------
(***************************************************************************)
(* The wallet-facing listener of the shim: the accept loop of              *)
(* serve_with_shutdown (zeronym/shim/src/proxy.rs), its slots, its drain,   *)
(* and the TLS acceptor with the ACME client beside it (tls.rs).  What a    *)
(* served connection asks for is module Proxy.                             *)
(*                                                                         *)
(* A peer is a slot of the environment: it comes as a wallet, as the        *)
(* certificate authority validating an order, or as a stray that never      *)
(* completes a handshake, leaves, and may come back as another.  The        *)
(* drain's deadline and the pause are events, at any time.                  *)
(***************************************************************************)
EXTENDS Integers, FiniteSets

CONSTANTS
    Peers,     \* peers at the listener, over and over
    Limit,     \* MAX_INFLIGHT_CONNECTIONS
    Troubles   \* bound on the environment: "descriptors" run out, the "listener"
               \* breaks, the certificate comes to its "expiry"

ASSUME ServerAssumption ==
    /\ IsFiniteSet(Peers)
    /\ Limit \in Nat
    /\ Troubles \subseteq {"descriptors", "listener", "expiry"}

VARIABLES
    tls,         \* --tls-domain is set: handshakes, and an ACME client
    listener,    \* accepting, pausing, draining, or how it returned
    peer,        \* where each peer is: away, queued, handshake, serving, refused
    kind,        \* what each peer came as, none while it is away
    permits,     \* free permits of the semaphore `inflight`
    live,        \* senders of `live_tx` the connection tasks hold
    certificate, \* the resolver has a certificate that is valid
    order,       \* an ACME order awaits its validation
    shutdown     \* SIGTERM or ctrl-c has arrived

connectionVars == <<peer, kind, permits, live>>
acmeVars       == <<certificate, order>>
serverVars     == <<tls, listener, connectionVars, acmeVars, shutdown>>

Returned == {"drained", "timed out", "failed"}
Running  == listener \notin Returned
Tasks    == {p \in Peers : peer[p] \in {"handshake", "serving"}}

Moved(p, place) == peer' = [peer EXCEPT ![p] = place]
Gone(p) == Moved(p, "away") /\ kind' = [kind EXCEPT ![p] = "none"]

-----------------------------------------------------------------------------
(* The accept loop                                                         *)

(* The select is biased: a signal that has arrived is seen before another   *)
(* connection is.                                                          *)
Polled == listener = "accepting" /\ ~shutdown

SeeSignal ==
    /\ listener = "accepting" /\ shutdown
    /\ listener' = "draining"
    /\ UNCHANGED <<connectionVars, acmeVars, tls, shutdown>>

(* A connection takes a permit and a sender for its whole task, or is        *)
(* closed at once.                                                         *)
FirstPlace == IF tls THEN "handshake" ELSE "serving"
AdmittedHolding(p, permit, sender) ==
    /\ permits > 0
    /\ permits' = permits - permit /\ live' = live + sender
    /\ Moved(p, FirstPlace)
AdmittedForNothing(p) == AdmittedHolding(p, 0, 1)
AdmittedUntracked(p)  == AdmittedHolding(p, 1, 0)
Admitted(p) == AdmittedHolding(p, 1, 1)

RefusedWithPermit(p) ==
    /\ permits = 0
    /\ Moved(p, "refused")
    /\ permits' = permits - 1 /\ UNCHANGED live
Refused(p) ==
    /\ permits = 0
    /\ Moved(p, "refused")
    /\ UNCHANGED <<permits, live>>

AcceptWhen(ready, p) ==
    /\ ready /\ peer[p] = "queued"
    /\ Admitted(p) \/ Refused(p)
    /\ UNCHANGED <<listener, kind, acmeVars, tls, shutdown>>
AcceptOnceCertified(p) == AcceptWhen(Polled /\ (tls => certificate), p)
Accept(p) == AcceptWhen(Polled, p)

(* EMFILE or ENFILE: the loop sleeps inside its arm, deaf to the signal.    *)
DescriptorsRunOut ==
    /\ "descriptors" \in Troubles
    /\ Polled /\ \E p \in Peers : peer[p] = "queued"
    /\ listener' = "pausing"
    /\ UNCHANGED <<connectionVars, acmeVars, tls, shutdown>>

PauseEnds ==
    /\ listener = "pausing"
    /\ listener' = "accepting"
    /\ UNCHANGED <<connectionVars, acmeVars, tls, shutdown>>

(* Any other accept error is fatal, and nothing is drained.                 *)
ListenerBreaks ==
    /\ "listener" \in Troubles
    /\ Polled
    /\ listener' = "failed"
    /\ UNCHANGED <<connectionVars, acmeVars, tls, shutdown>>

(* The loop's own sender is dropped when the loop ends, so the channel is    *)
(* closed once the last task has dropped its own.                           *)
Drained ==
    /\ listener = "draining" /\ live = 0
    /\ listener' = "drained"
    /\ UNCHANGED <<connectionVars, acmeVars, tls, shutdown>>

DrainEndsIf(condition) ==
    /\ listener = "draining" /\ condition
    /\ listener' = "timed out"
    /\ UNCHANGED <<connectionVars, acmeVars, tls, shutdown>>
DrainWaits    == DrainEndsIf(live = 0)
DrainTimesOut == DrainEndsIf(TRUE)

-----------------------------------------------------------------------------
(* One connection's task                                                   *)

TaskOverKeepingPermit(p) ==
    /\ Gone(p)
    /\ live' = live - 1
    /\ UNCHANGED <<listener, permits, tls, shutdown>>
TaskOver(p) ==
    /\ Gone(p)
    /\ permits' = permits + 1 /\ live' = live - 1
    /\ UNCHANGED <<listener, tls, shutdown>>

(* The handshake of a wallet needs a certificate to present.                *)
Secured(p) ==
    /\ Running /\ peer[p] = "handshake"
    /\ kind[p] = "wallet" /\ certificate
    /\ Moved(p, "serving")
    /\ UNCHANGED <<listener, kind, permits, live, acmeVars, tls, shutdown>>

(* A handshake that cannot be completed ends the task: no retry in the clear *)
ServedInTheClear(p) ==
    /\ Running /\ peer[p] = "handshake" /\ kind[p] # "validation"
    /\ Moved(p, "serving")
    /\ UNCHANGED <<listener, kind, permits, live, acmeVars, tls, shutdown>>
HandshakeFails(p) ==
    /\ Running /\ peer[p] = "handshake" /\ kind[p] # "validation"
    /\ TaskOver(p)
    /\ UNCHANGED acmeVars

(* A TLS-ALPN-01 validation is answered in the handshake and closed; it      *)
(* needs no certificate, and brings one.                                    *)
Validated(p) ==
    /\ Running /\ peer[p] = "handshake" /\ kind[p] = "validation"
    /\ TaskOver(p)
    /\ certificate' = TRUE /\ order' = FALSE

(* serve_connection returns when the peer is done; a drain tells it nothing. *)
ConnectionEnds(p) ==
    /\ Running /\ peer[p] = "serving"
    /\ TaskOver(p)
    /\ UNCHANGED acmeVars

-----------------------------------------------------------------------------
(* The environment: peers, the certificate authority, the signal            *)

(* Until the function returns the kernel queues connections, the drain      *)
(* included; a validation comes for an order, one at a time.                *)
Arrives(p) ==
    /\ Running /\ peer[p] = "away"
    /\ Moved(p, "queued")
    /\ \E k \in {"wallet"} \cup (IF tls THEN {"stray"} ELSE {})
                \cup (IF order THEN {"validation"} ELSE {}) :
         /\ k = "validation" => \A q \in Peers : kind[q] # "validation"
         /\ kind' = [kind EXCEPT ![p] = k]
    /\ UNCHANGED <<listener, permits, live, acmeVars, tls, shutdown>>

(* A wallet or a stray that left while queued is a transient accept error;   *)
(* a peer that was refused is gone.                                         *)
Leaves(p) ==
    /\ Running
    /\ \/ peer[p] = "queued" /\ kind[p] # "validation"
       \/ peer[p] = "refused"
    /\ Gone(p)
    /\ UNCHANGED <<listener, permits, live, acmeVars, tls, shutdown>>

(* The ACME task orders a certificate at start, and again when the one it    *)
(* has runs out; an order whose validation was refused is tried again.      *)
Orders ==
    /\ tls /\ Running /\ ~order /\ ~certificate
    /\ order' = TRUE
    /\ UNCHANGED <<listener, connectionVars, certificate, tls, shutdown>>

Expires ==
    /\ "expiry" \in Troubles
    /\ Running /\ certificate
    /\ certificate' = FALSE
    /\ UNCHANGED <<listener, connectionVars, order, tls, shutdown>>

Signal ==
    /\ Running /\ ~shutdown
    /\ shutdown' = TRUE
    /\ UNCHANGED <<tls, listener, connectionVars, acmeVars>>

-----------------------------------------------------------------------------
Init ==
    /\ tls \in BOOLEAN
    /\ listener = "accepting"
    /\ peer = [p \in Peers |-> "away"] /\ kind = [p \in Peers |-> "none"]
    /\ permits = Limit /\ live = 0
    /\ certificate = FALSE /\ order = FALSE
    /\ shutdown = FALSE

Loop == \/ SeeSignal \/ DescriptorsRunOut \/ PauseEnds \/ ListenerBreaks
        \/ Drained \/ DrainTimesOut
        \/ \E p \in Peers : Accept(p)

Connection(p) == \/ Secured(p) \/ HandshakeFails(p) \/ Validated(p) \/ ConnectionEnds(p)

Outside == Orders \/ Expires \/ \E p \in Peers : Arrives(p) \/ Leaves(p)

Next == Loop \/ (\E p \in Peers : Connection(p)) \/ Outside \/ Signal

Spec == Init /\ [][Next]_serverVars


-----------------------------------------------------------------------------
(* Properties                                                              *)

(* Every variable stays in its range; the semaphore never goes below zero.  *)
TypeOK ==
    /\ listener \in {"accepting", "pausing", "draining"} \cup Returned
    /\ peer \in [Peers -> {"away", "queued", "handshake", "serving", "refused"}]
    /\ kind \in [Peers -> {"none", "wallet", "validation", "stray"}]
    /\ permits \in 0 .. Limit
    /\ live \in Nat
    /\ {tls, certificate, order, shutdown} \subseteq BOOLEAN

(* A connection is refused only while every slot is held by a task that is   *)
(* alive: no way a connection can end leaks a slot, or the shim would shrink *)
(* until it refused everybody (MAX_INFLIGHT_CONNECTIONS, proxy.rs:548-558).  *)
RefusedOnlyWhenFull ==
    [][\A p \in Peers :
          peer[p] # "refused" /\ peer'[p] = "refused" => Cardinality(Tasks) = Limit
      ]_serverVars

(* And no more than the limit are ever alive at once.                       *)
WithinLimit == Cardinality(Tasks) <= Limit

(* "drained, exiting" is said only when no connection is left: the sender    *)
(* each task holds is the only count there is (proxy.rs:505-510, 594-603).   *)
DrainIsHonest == listener = "drained" => Tasks = {}

(* With TLS on, what is served is a wallet that completed a handshake: not   *)
(* the validation the acceptor absorbs, and never a failed handshake again   *)
(* in the clear (tls.rs:172-188, proxy.rs:568-589, 486-489).                 *)
NeverInTheClear ==
    [][\A p \in Peers : tls /\ peer[p] # "serving" /\ peer'[p] = "serving"
                          => kind[p] = "wallet" /\ certificate]_serverVars

(* A shim with no valid certificate gets one, although the listener itself   *)
(* must answer the challenge (tls.rs:86-91): unless it stops, or every      *)
(* validation finds the shim full.                                         *)
Beset == listener \notin {"accepting", "pausing"} \/ shutdown
Crowded == \E p \in Peers : kind[p] = "validation" /\ peer[p] = "refused"
CertificateArrives ==
    (tls /\ ~certificate) ~> (certificate \/ Beset \/ Crowded)

(* A signal ends the process, whatever the peers do (proxy.rs:513-516, 594).  *)
SignalEnds == shutdown ~> listener \in Returned
=============================================================================
