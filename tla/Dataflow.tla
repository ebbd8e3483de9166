------------------------------- MODULE Dataflow -------------------------------
(***************************************************************************)
(* What becomes of the bytes of one transaction, from the wallet's          *)
(* SendTransaction to the answer of a lookup: classify.rs decides on them,  *)
(* wire.rs frames them, hub.rs carries them and intercept.rs checks what    *)
(* comes back.  The hub runs the same codec; it may refuse, fail, serve the *)
(* wrong transaction, and frames of another origin arrive too.              *)
(***************************************************************************)
EXTENDS Wire, Classifier

CONSTANTS
    Bodies,   \* what the wallet may send: bytes, in the sense of Wire
    Chain,    \* what the hub's indexer knows
    Strays,   \* reply frames the shim may receive from elsewhere
    Nonces    \* the nonces it draws, each once

(* Written bytes, of which none hold no transaction, and what may arrive.    *)
Written ==
    {b \in [of : Seq(AllTransactions), size : Nat] : b.size = 0 <=> b.of = <<>>}
Arriving ==
    [length : Nat, magic : {"ZNA", "ZNR"}, nonce : Nonces, disp : 0 .. 255,
     refusal : 0 .. 255, height : Nat, declared : Nat, payload : Written]

ASSUME DataflowAssumption ==
    Bodies \cup Chain \subseteq Written /\ Strays \subseteq Arriving

VARIABLES
    transport,  \* HubTransport: http or nym
    body,       \* what the wallet sends, once
    told,       \* what it is told of it: nothing, forwarded, accepted, rejected,
                \* invalid, exhausted or unavailable
    operator,   \* history: what the operator's indexer was shown
    queue,      \* what the hub holds
    toHub,      \* frames under way to the hub
    toShim,     \* frames under way to the shim
    pending,    \* the waiter of each nonce: none, ack or lookup
    used,       \* the nonces drawn
    asked,      \* the transaction looked up, as a sequence of one
    answer      \* what the wallet is answered: none, waiting, or a reply

frames  == <<toHub, toShim, pending, used>>
sending == <<body, told, operator>>
looking == <<asked, answer>>
vars == <<transport, sending, queue, frames, looking>>

None    == [is |-> "none"]
Waiting == [is |-> "waiting"]

-----------------------------------------------------------------------------
(* What the shim makes of bytes                                            *)

(* local_txid: a transaction stands for its id; no id without one.          *)
LocalTxid(b) == IF Parses(b) THEN <<Head(b.of)>> ELSE <<>>

LookupIsForQuery(b, hash) == Parses(b) /\ hash = <<Head(b.of)>>

(* get_transaction, once the hub's reply is there.                          *)
AnswerTo(reply) ==
    IF reply.is = "found" /\ ~LookupIsForQuery(reply.tx, asked)
    THEN NotFound
    ELSE reply

(* A nonce is drawn for a frame that goes to the hub.                       *)
Dispatch(n, frame, waiter) ==
    /\ n \notin used /\ used' = used \cup {n}
    /\ toHub' = toHub \cup {frame}
    /\ pending' = [pending EXCEPT ![n] = waiter]
    /\ UNCHANGED toShim

-----------------------------------------------------------------------------
(* SendTransaction                                                         *)

Sends(b) == body' = b

Forward(b) ==
    /\ Sends(b) /\ ~Diverts(b)
    /\ told' = "forwarded" /\ operator' = operator \cup {b}
    /\ UNCHANGED <<transport, queue, frames, looking>>

(* divert, with nothing handed over: no bytes, more than a frame holds, or    *)
(* no transport to hand it to.                                             *)
Decline(b) ==
    /\ Sends(b) /\ Diverts(b)
    /\ \/ b.size = 0 /\ told' = "invalid"
       \/ b.size # 0 /\ told' = "unavailable"
       \/ b.size # 0 /\ \E n \in Nonces : ~EncodeSubmit(n, b).ok
                     /\ told' = "exhausted"
    /\ UNCHANGED <<transport, operator, queue, frames, looking>>

(* Over the mixnet a frame handed over is the wallet's success.             *)
Divert(b, n) ==
    /\ transport = "nym" /\ Sends(b) /\ Diverts(b) /\ b.size # 0
    /\ EncodeSubmit(n, b).ok
    /\ Dispatch(n, EncodeSubmit(n, b).frame, "ack")
    /\ told' = "accepted"
    /\ UNCHANGED <<transport, operator, queue, looking>>

(* Over HTTP the hub's verdict, which may be lost with the connection.      *)
Post(b, n) ==
    /\ transport = "http" /\ Sends(b) /\ Diverts(b) /\ b.size # 0
    /\ EncodeSubmit(n, b).ok
    /\ LET read == DecodeSubmit(EncodeSubmit(n, b).frame)
       IN  \/ /\ read.ok /\ queue' = queue \cup {read.tx}
              /\ told' \in {"accepted", "unavailable"}
           \/ told' \in {"rejected", "exhausted", "unavailable"} /\ UNCHANGED queue
    /\ UNCHANGED <<transport, operator, frames, looking>>

-----------------------------------------------------------------------------
(* GetTransaction                                                          *)

Hash(id) == [of |-> id, size |-> 32]

(* What the hub can find: held, with height 0 for the mempool, or mined.     *)
Findable == {Found(0, b) : b \in queue} \cup {Found(1, b) : b \in Chain}

Asks(id) == answer.is # "waiting" /\ asked' = id

Ask(id, n) ==
    /\ transport = "nym" /\ Asks(id) /\ EncodeLookup(n, Hash(id)).ok
    /\ Dispatch(n, EncodeLookup(n, Hash(id)).frame, "lookup")
    /\ answer' = Waiting
    /\ UNCHANGED <<transport, sending, queue>>

Get(id) ==
    /\ transport = "http" /\ Asks(id) /\ answer' = Waiting
    /\ UNCHANGED <<transport, sending, queue, frames>>

(* The 200, the 404, and everything else.                                   *)
HttpAnswers ==
    /\ transport = "http" /\ answer = Waiting
    /\ \E reply \in {NotFound, NoAnswer} \cup Findable :
            answer' = AnswerTo(reply)
    /\ UNCHANGED <<transport, sending, queue, frames, asked>>

(* LOOKUP_TIMEOUT, or the end of the transport, over the mixnet.            *)
GiveUp ==
    /\ transport = "nym" /\ answer = Waiting /\ answer' = NoAnswer
    /\ pending' = [n \in Nonces |-> IF pending[n] = "lookup" THEN "none" ELSE pending[n]]
    /\ UNCHANGED <<transport, sending, queue, toHub, toShim, used, asked>>

(* The purge of waiters nobody waits on: a submission's from the start.     *)
Purge(n) ==
    /\ pending[n] = "ack" /\ pending' = [pending EXCEPT ![n] = "none"]
    /\ UNCHANGED <<transport, sending, queue, toHub, toShim, used, looking>>

-----------------------------------------------------------------------------
(* The hub, and the mixnet                                                 *)

Takes(f) == f \in toHub /\ toHub' = toHub \ {f}
HubSays(frame) == toShim' = toShim \cup {frame}

(* One reason stands for all: nobody reads the acknowledgement.              *)
HubAdmits(f) ==
    /\ Takes(f) /\ DecodeSubmit(f).ok
    /\ \/ queue' = queue \cup {DecodeSubmit(f).tx} /\ HubSays(EncodeAck(f.nonce, Accepted))
       \/ HubSays(EncodeAck(f.nonce, Refused(4))) /\ UNCHANGED queue
    /\ UNCHANGED <<transport, sending, pending, used, looking>>

HubLooks(f) ==
    /\ Takes(f) /\ DecodeLookup(f).ok
    /\ LET reply(r) == EncodeReply(f.nonce, r)
       IN  \E r \in {NotFound, NoAnswer} \cup Findable :
                HubSays(IF reply(r).ok THEN reply(r).frame ELSE reply(NoAnswer).frame)
    /\ UNCHANGED <<transport, sending, queue, pending, used, looking>>

Lose(f) ==
    /\ Takes(f)
    /\ UNCHANGED <<transport, sending, queue, toShim, pending, used, looking>>

(* It carries a nonce in use; at most one is under way, a bound.            *)
Stray(f) ==
    /\ transport = "nym" /\ f.nonce \in used /\ toShim \cap Strays = {}
    /\ toShim' = toShim \cup {f}
    /\ UNCHANGED <<transport, sending, queue, toHub, pending, used, looking>>

-----------------------------------------------------------------------------
(* deliver                                                                 *)

SettlesAck(f) ==
    f.length = AckBytes /\ DecodeAck(f).ok /\ pending[f.nonce] = "ack"
SettlesLookup(f) ==
    f.length = FrameBytes /\ DecodeReply(f).ok /\ pending[f.nonce] = "lookup"

Deliver(f) ==
    /\ f \in toShim /\ toShim' = toShim \ {f}
    /\ pending' = IF SettlesAck(f) \/ SettlesLookup(f)
                  THEN [pending EXCEPT ![f.nonce] = "none"]
                  ELSE pending
    /\ answer' = IF SettlesLookup(f) THEN AnswerTo(DecodeReply(f).reply) ELSE answer
    /\ UNCHANGED <<transport, sending, queue, toHub, used, asked>>

-----------------------------------------------------------------------------
Init ==
    /\ transport \in {"http", "nym"}
    /\ body = Padding /\ told = "nothing" /\ operator = {}
    /\ queue = {} /\ toHub = {} /\ toShim = {}
    /\ pending = [n \in Nonces |-> "none"] /\ used = {}
    /\ asked = <<>> /\ answer = None

(* What a wallet looks up afterwards: what it sent, or what is on chain.     *)
Ids ==
    IF told = "nothing" THEN {} ELSE {LocalTxid(b) : b \in {body} \cup Chain} \ {<<>>}

SendTransaction ==
    /\ told = "nothing"
    /\ \E b \in Bodies :
            Forward(b) \/ Decline(b) \/ \E n \in Nonces : Divert(b, n) \/ Post(b, n)

Wallet ==
    \/ SendTransaction
    \/ \E id \in Ids : Get(id) \/ \E n \in Nonces : Ask(id, n)

Shim == HttpAnswers \/ GiveUp \/ (\E n \in Nonces : Purge(n)) \/ \E f \in toShim : Deliver(f)

World ==
    \/ \E f \in toHub : HubAdmits(f) \/ HubLooks(f) \/ Lose(f)
    \/ \E f \in Strays : Stray(f)

Next == Wallet \/ Shim \/ World

Spec == Init /\ [][Next]_vars

-----------------------------------------------------------------------------
(* Properties                                                              *)

(* classify.rs decides on the first transaction it reads, and the operator's *)
(* indexer is handed every byte: whatever a body holds, the operator is      *)
(* shown none of which a part was not understood, or has Orchard actions.    *)
OperatorSeesOnlyUnderstood ==
    \A b \in operator : \A i \in DOMAIN b.of : Reads(b.of[i]) /\ ~HasOrchard(b.of[i])

(* What the hub holds can be served back: framed as a reply, read back byte  *)
(* for byte, and accepted by the shim under the id the wallet was given.     *)
(* Budgets, headers and ids on the two ways are set far apart (wire.rs:130). *)
HeldIsServable ==
    \A b \in queue : \A n \in Nonces :
        LET reply == EncodeReply(n, Found(0, b))
        IN  /\ reply.ok
            /\ DecodeReply(reply.frame) = [ok |-> TRUE, nonce |-> n, reply |-> Found(0, b)]
            /\ LocalTxid(b) # <<>> => LookupIsForQuery(b, LocalTxid(b))

(* Only a frame the hub's codec can have made settles a waiter: one that      *)
(* contradicts itself, of the wrong size, or of the wrong kind for its nonce *)
(* leaves the wallet waiting for the real one (nym.rs:1040).  The bytes      *)
(* behind what the header declares are never read.                           *)
Genuine(f) ==
    \/ /\ pending[f.nonce] = "ack"
       /\ \E kind \in {Accepted} \cup {Refused(c) : c \in Refusals} :
            EncodeAck(f.nonce, kind) =
                Frame(f.length, f.magic, f.nonce, f.disp, f.refusal, 0, 0, Padding)
    \/ /\ pending[f.nonce] = "lookup"
       /\ \E r \in {NotFound, NoAnswer, Found(f.height, Region(f, f.declared))} :
            EncodeReply(f.nonce, r) =
                [ok |-> TRUE,
                 frame |-> Frame(f.length, f.magic, f.nonce, f.disp, 0, f.height, f.declared,
                                 Region(f, f.declared))]

OnlyGenuineFramesSettle ==
    [][\A f \in toShim : (Deliver(f) /\ pending' # pending) => Genuine(f)]_vars
=============================================================================
