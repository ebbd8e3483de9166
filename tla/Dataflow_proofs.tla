--------------------------- MODULE Dataflow_proofs ---------------------------
(***************************************************************************)
(* Proofs about Dataflow, for frames, bodies and nonces of any number and   *)
(* size: what is framed reads back as it was, the verdict covers every byte *)
(* the operator is handed, what the hub holds fits a reply, and only a      *)
(* frame the codec can have made settles a waiter.                          *)
(***************************************************************************)
EXTENDS Dataflow, TLAPS

-----------------------------------------------------------------------------
(* The codec                                                               *)

(* A submission that fits reads back as the nonce and bytes it was made of. *)
LEMMA SubmitReadsBack ==
    ASSUME NEW n, NEW b \in Written, EncodeSubmit(n, b).ok
    PROVE  DecodeSubmit(EncodeSubmit(n, b).frame) = [ok |-> TRUE, nonce |-> n, tx |-> b]
<1> DEFINE f == EncodeSubmit(n, b).frame
<1>0. b.size \in Nat /\ MaxNymTx \in Int
  BY WireAssumption DEF Written, MaxNymTx, ReplyHeader
<1>1. b.size <= MaxNymTx
  <2>1. ~(b.size > MaxNymTx)
    BY DEF EncodeSubmit, Fails
  <2> QED BY <1>0, <2>1
<1>2. f = Frame(FrameBytes, "ZNS", n, 0, 0, 0, b.size, b)
  <2>1. ~(b.size > MaxNymTx)
    BY <1>0, <1>1
  <2> QED BY <2>1 DEF EncodeSubmit
<1>3. /\ f.length = FrameBytes /\ f.magic = "ZNS" /\ f.nonce = n
      /\ f.declared = b.size /\ f.payload = b
  BY <1>2 DEF Frame
<1> HIDE DEF f
<1>4. DecodeSubmit(f) = [ok |-> TRUE, nonce |-> n, tx |-> b]
  BY <1>1, <1>3 DEF DecodeSubmit, Is, Region
<1> QED BY <1>4 DEF f

(* So does a found reply.                                                   *)
LEMMA FoundReadsBack ==
    ASSUME NEW n, NEW h, NEW b \in Written, b.size <= MaxReplyTx
    PROVE  /\ EncodeReply(n, Found(h, b)).ok
           /\ DecodeReply(EncodeReply(n, Found(h, b)).frame)
                = [ok |-> TRUE, nonce |-> n, reply |-> Found(h, b)]
<1> DEFINE f == EncodeReply(n, Found(h, b)).frame
<1>1. Found(h, b).is = "found" /\ Found(h, b).height = h /\ Found(h, b).tx = b
  BY DEF Found
<1>2. /\ EncodeReply(n, Found(h, b)).ok
      /\ f = Frame(FrameBytes, "ZNR", n, 0, 0, h, b.size, b)
  <2>1. b.size \in Nat /\ MaxReplyTx \in Int
    BY WireAssumption DEF Written, MaxReplyTx, ReplyHeader
  <2> QED BY <1>1, <2>1 DEF EncodeReply
<1>3. /\ f.length = FrameBytes /\ f.magic = "ZNR" /\ f.nonce = n /\ f.disp = 0
      /\ f.height = h /\ f.declared = b.size /\ f.payload = b
  BY <1>2 DEF Frame
<1> HIDE DEF f
<1>4. DecodeReply(f) = [ok |-> TRUE, nonce |-> n, reply |-> Found(h, b)]
  BY <1>3 DEF DecodeReply, Is, Region
<1> QED BY <1>2, <1>4 DEF f

(* A lookup is not mistaken for a submission.                               *)
LEMMA LookupIsNoSubmission ==
    ASSUME NEW n, NEW hash, EncodeLookup(n, hash).ok
    PROVE  ~DecodeSubmit(EncodeLookup(n, hash).frame).ok
<1>1. EncodeLookup(n, hash).frame.magic = "ZNL"
  BY DEF EncodeLookup, Fails, Frame
<1> QED BY <1>1 DEF DecodeSubmit, Is, Fails

-----------------------------------------------------------------------------
(* The operator                                                            *)

(* The operator's indexer is shown a body only when every transaction in it  *)
(* was read, and none has Orchard actions (classify_with_evidence).          *)
THEOREM OperatorUnderstood == Spec => []OperatorSeesOnlyUnderstood
<1>1. Init => OperatorSeesOnlyUnderstood
  BY DEF Init, OperatorSeesOnlyUnderstood
<1>2. OperatorSeesOnlyUnderstood /\ [Next]_vars => OperatorSeesOnlyUnderstood'
  <2> SUFFICES ASSUME OperatorSeesOnlyUnderstood, [Next]_vars
               PROVE  OperatorSeesOnlyUnderstood'
    OBVIOUS
  <2>1. ASSUME NEW b \in Bodies, Forward(b)
        PROVE  OperatorSeesOnlyUnderstood'
    <3>1. b.of \in Seq(AllTransactions)
      BY DataflowAssumption DEF Written
    <3>2. Class(b) = "pass_through"
      BY <2>1 DEF Forward, Diverts, Class
    <3>3. Parses(b) /\ ~(Len(b.of) > 1) /\ ~HasOrchard(Head(b.of))
      BY <3>2 DEF Class
    <3>4. b.of # <<>> /\ Reads(Head(b.of))
      BY <3>3 DEF Parses
    <3>5. Len(b.of) = 1 /\ DOMAIN b.of = {1} /\ Head(b.of) = b.of[1]
      <4> SUFFICES ASSUME NEW txs \in Seq(AllTransactions), txs # <<>>, ~(Len(txs) > 1)
                   PROVE  Len(txs) = 1 /\ DOMAIN txs = {1} /\ Head(txs) = txs[1]
        BY <3>1, <3>3, <3>4
      <4>1. Len(txs) \in Nat /\ Len(txs) # 0
        OBVIOUS
      <4>2. Len(txs) = 1
        <5>1. \A k \in Nat : k # 0 /\ ~(k > 1) => k = 1
          OBVIOUS
        <5> QED BY <4>1, <5>1, Zenon
      <4>3. DOMAIN txs = 1 .. 1
        BY <4>2
      <4>4. 1 .. 1 = {1}
        OBVIOUS
      <4> QED BY <4>2, <4>3, <4>4
    <3>6. \A i \in DOMAIN b.of : Reads(b.of[i]) /\ ~HasOrchard(b.of[i])
      BY <3>3, <3>4, <3>5
    <3> QED BY <2>1, <3>6 DEF Forward, OperatorSeesOnlyUnderstood
  <2>2. ASSUME UNCHANGED operator
        PROVE  OperatorSeesOnlyUnderstood'
    BY <2>2 DEF OperatorSeesOnlyUnderstood
  <2>3. UNCHANGED operator \/ \E b \in Bodies : Forward(b)
    BY DEF Next, Wallet, Shim, World, SendTransaction, Decline, Divert, Post, Ask, Get,
           HttpAnswers, GiveUp, Purge, HubAdmits, HubLooks, Lose, Stray, Deliver,
           vars, sending
  <2> QED BY <2>1, <2>2, <2>3
<1> QED BY <1>1, <1>2, PTL DEF Spec

-----------------------------------------------------------------------------
(* The hub                                                                 *)

Fitting == {b \in Bodies : b.size <= MaxNymTx}

(* What the hub holds, or a frame under way to it carries, fitted a frame.   *)
HubInv ==
    /\ queue \subseteq Fitting
    /\ \A f \in toHub : DecodeSubmit(f).ok => DecodeSubmit(f).tx \in Fitting

LEMMA EncodedFits ==
    ASSUME NEW n, NEW b \in Bodies, EncodeSubmit(n, b).ok
    PROVE  b \in Fitting /\ DecodeSubmit(EncodeSubmit(n, b).frame).tx = b
<1>1. b \in Written
  BY DataflowAssumption
<1>2. b.size \in Nat /\ MaxNymTx \in Int
  BY <1>1, WireAssumption DEF Written, MaxNymTx, ReplyHeader
<1>3. ~(b.size > MaxNymTx)
  BY DEF EncodeSubmit, Fails
<1>4. b.size <= MaxNymTx
  BY <1>2, <1>3
<1>5. b \in Fitting
  BY <1>4 DEF Fitting
<1>6. DecodeSubmit(EncodeSubmit(n, b).frame) = [ok |-> TRUE, nonce |-> n, tx |-> b]
  BY <1>1, SubmitReadsBack
<1> QED BY <1>5, <1>6

LEMMA HubInductive == HubInv /\ [Next]_vars => HubInv'
<1> SUFFICES ASSUME HubInv, [Next]_vars PROVE HubInv'
  OBVIOUS
<1> USE DEF HubInv
<1>1. ASSUME NEW b \in Bodies, NEW n \in Nonces, Divert(b, n) PROVE HubInv'
  BY <1>1, EncodedFits DEF Divert, Dispatch
<1>2. ASSUME NEW b \in Bodies, NEW n \in Nonces, Post(b, n) PROVE HubInv'
  BY <1>2, EncodedFits DEF Post, frames
<1>3. ASSUME NEW id, NEW n \in Nonces, Ask(id, n) PROVE HubInv'
  BY <1>3, LookupIsNoSubmission DEF Ask, Dispatch
<1>4. ASSUME NEW f \in toHub, HubAdmits(f) PROVE HubInv'
  BY <1>4 DEF HubAdmits, Takes
<1>5. ASSUME queue' = queue, toHub' \subseteq toHub PROVE HubInv'
  BY <1>5
<1>6. \/ queue' = queue /\ toHub' \subseteq toHub
      \/ \E b \in Bodies, n \in Nonces : Divert(b, n) \/ Post(b, n)
      \/ \E id \in Ids, n \in Nonces : Ask(id, n)
      \/ \E f \in toHub : HubAdmits(f)
  BY DEF Next, Wallet, Shim, World, SendTransaction, Forward, Decline, Get, HttpAnswers,
         GiveUp, Purge, HubLooks, Lose, Stray, Deliver, Takes, vars, frames
<1> QED BY <1>1, <1>2, <1>3, <1>4, <1>5, <1>6

(* Whatever the hub holds can be framed as a reply, is read back as it was,  *)
(* and is accepted under the id the wallet was given.                        *)
THEOREM HeldServable == Spec => []HeldIsServable
<1>1. Init => HubInv
  BY DEF Init, HubInv
<1>2. HubInv => HeldIsServable
  <2> SUFFICES ASSUME HubInv, NEW b \in queue, NEW n \in Nonces
               PROVE  /\ EncodeReply(n, Found(0, b)).ok
                      /\ DecodeReply(EncodeReply(n, Found(0, b)).frame)
                            = [ok |-> TRUE, nonce |-> n, reply |-> Found(0, b)]
                      /\ LocalTxid(b) # <<>> => LookupIsForQuery(b, LocalTxid(b))
    BY DEF HeldIsServable
  <2>1. b \in Bodies /\ b.size <= MaxReplyTx
    BY DEF HubInv, Fitting, MaxNymTx, MaxReplyTx
  <2>2. b \in Written
    BY <2>1, DataflowAssumption
  <2>3. LocalTxid(b) # <<>> => LookupIsForQuery(b, LocalTxid(b))
    BY DEF LocalTxid, LookupIsForQuery
  <2> QED BY <2>1, <2>2, <2>3, FoundReadsBack
<1> QED BY <1>1, <1>2, HubInductive, PTL DEF Spec

-----------------------------------------------------------------------------
(* The waiters                                                             *)

LEMMA AckArrives ==
    ASSUME NEW n \in Nonces, NEW code \in {0, 4}, NEW taken \in BOOLEAN
    PROVE  EncodeAck(n, [accepted |-> taken, refusal |-> code]) \in Arriving
<1> DEFINE f == EncodeAck(n, [accepted |-> taken, refusal |-> code])
<1>1. f = [length |-> AckBytes, magic |-> "ZNA", nonce |-> n,
           disp |-> IF taken THEN 0 ELSE 1, refusal |-> code, height |-> 0,
           declared |-> 0, payload |-> Padding]
  BY DEF EncodeAck, Frame
<1>2. AckBytes \in Nat
  BY WireAssumption
<1>3. Padding \in Written
  BY DEF Padding, Bytes, Written
<1>4. (IF taken THEN 0 ELSE 1) \in 0 .. 255 /\ code \in 0 .. 255
  OBVIOUS
<1> HIDE DEF f
<1>5. f \in Arriving
  BY <1>1, <1>2, <1>3, <1>4 DEF Arriving
<1> QED BY <1>5 DEF f

(* NotFound, NoAnswer and Found are the replies there are.                  *)
LEMMA ReplyArrives ==
    ASSUME NEW n \in Nonces, NEW r,
           \/ r \in {NotFound, NoAnswer}
           \/ \E h \in {0, 1}, b \in Written : r = Found(h, b),
           EncodeReply(n, r).ok
    PROVE  EncodeReply(n, r).frame \in Arriving
<1> DEFINE f == EncodeReply(n, r).frame
           d == CASE r.is = "found" -> 0 [] r.is = "not_found" -> 1 [] OTHER -> 2
<1>1. Padding \in Written
  BY DEF Padding, Bytes, Written
<1>2. r.height \in Nat /\ r.tx \in Written
  BY <1>1 DEF NotFound, NoAnswer, Found
<1>3. ~(r.is = "found" /\ r.tx.size > MaxReplyTx)
  BY DEF EncodeReply, Fails
<1>4. f = [length |-> FrameBytes, magic |-> "ZNR", nonce |-> n, disp |-> d, refusal |-> 0,
           height |-> r.height, declared |-> r.tx.size, payload |-> r.tx]
  BY <1>3 DEF EncodeReply, Frame
<1>5. d \in 0 .. 255
  OBVIOUS
<1>6. FrameBytes \in Nat /\ r.tx.size \in Nat
  BY <1>2, WireAssumption DEF Written
<1> HIDE DEF f, d
<1>7. f \in Arriving
  BY <1>2, <1>4, <1>5, <1>6 DEF Arriving
<1> QED BY <1>7 DEF f

ShimInv ==
    /\ HubInv
    /\ toShim \subseteq Arriving
    /\ \A f \in toHub : f.nonce \in Nonces

LEMMA ShimInductive == ShimInv /\ [Next]_vars => ShimInv'
<1> SUFFICES ASSUME ShimInv, [Next]_vars
             PROVE  toShim' \subseteq Arriving /\ \A f \in toHub' : f.nonce \in Nonces
  BY HubInductive DEF ShimInv
<1> DEFINE Goal == toShim' \subseteq Arriving /\ \A f \in toHub' : f.nonce \in Nonces
<1> USE DEF ShimInv
<1>1. ASSUME NEW b \in Bodies, NEW n \in Nonces, Divert(b, n) PROVE Goal
  <2>1. EncodeSubmit(n, b).frame.nonce = n
    BY <1>1 DEF Divert, EncodeSubmit, Frame, Fails
  <2> QED BY <1>1, <2>1 DEF Divert, Dispatch
<1>2. ASSUME NEW id, NEW n \in Nonces, Ask(id, n) PROVE Goal
  <2>1. EncodeLookup(n, Hash(id)).frame.nonce = n
    BY <1>2 DEF Ask, EncodeLookup, Frame, Fails
  <2> QED BY <1>2, <2>1 DEF Ask, Dispatch
<1>3. ASSUME NEW f \in toHub, HubAdmits(f) PROVE Goal
  <2>1. EncodeAck(f.nonce, Accepted) \in Arriving /\ EncodeAck(f.nonce, Refused(4)) \in Arriving
    BY AckArrives DEF Accepted, Refused
  <2> QED BY <1>3, <2>1 DEF HubAdmits, Takes, HubSays
<1>4. ASSUME NEW f \in toHub, HubLooks(f) PROVE Goal
  <2>1. PICK r \in {NotFound, NoAnswer} \cup Findable :
            HubSays(IF EncodeReply(f.nonce, r).ok THEN EncodeReply(f.nonce, r).frame
                    ELSE EncodeReply(f.nonce, NoAnswer).frame)
    BY <1>4 DEF HubLooks
  <2>2. queue \cup Chain \subseteq Written
    BY DataflowAssumption DEF HubInv, Fitting
  <2>3. \/ r \in {NotFound, NoAnswer}
        \/ \E h \in {0, 1}, b \in Written : r = Found(h, b)
    BY <2>2 DEF Findable
  <2>4. EncodeReply(f.nonce, NoAnswer).ok
    BY DEF EncodeReply, NoAnswer
  <2>5. EncodeReply(f.nonce, NoAnswer).frame \in Arriving
    BY <2>4, ReplyArrives
  <2>6. EncodeReply(f.nonce, r).ok => EncodeReply(f.nonce, r).frame \in Arriving
    BY <2>3, ReplyArrives
  <2> QED BY <1>4, <2>1, <2>5, <2>6 DEF HubLooks, Takes, HubSays
<1>5. ASSUME NEW f \in Strays, Stray(f) PROVE Goal
  BY <1>5, DataflowAssumption DEF Stray
<1>6. ASSUME toShim' \subseteq toShim, toHub' \subseteq toHub PROVE Goal
  BY <1>6
<1>7. \/ toShim' \subseteq toShim /\ toHub' \subseteq toHub
      \/ \E b \in Bodies, n \in Nonces : Divert(b, n)
      \/ \E id \in Ids, n \in Nonces : Ask(id, n)
      \/ \E f \in toHub : HubAdmits(f) \/ HubLooks(f)
      \/ \E f \in Strays : Stray(f)
  BY DEF Next, Wallet, Shim, World, SendTransaction, Forward, Decline, Post, Get, HttpAnswers,
         GiveUp, Purge, Lose, Deliver, Takes, vars, frames
<1> QED BY <1>1, <1>2, <1>3, <1>4, <1>5, <1>6, <1>7

(* What settles a waiter reads as the codec writes it, field for field.     *)
LEMMA SettledIsGenuine ==
    ASSUME NEW f \in Arriving, Deliver(f), pending' # pending
    PROVE  Genuine(f)
<1>1. SettlesAck(f) \/ SettlesLookup(f)
  BY DEF Deliver
<1>2. CASE SettlesAck(f)
  <2> DEFINE g == Frame(f.length, f.magic, f.nonce, f.disp, f.refusal, 0, 0, Padding)
  <2>1. /\ pending[f.nonce] = "ack" /\ f.length = AckBytes /\ f.magic = "ZNA"
        /\ \/ f.disp = 0 /\ f.refusal = 0
           \/ f.disp = 1 /\ f.refusal \in Refusals
    BY <1>2 DEF SettlesAck, DecodeAck, Is, Fails
  <2>2. g = Frame(AckBytes, "ZNA", f.nonce, f.disp, f.refusal, 0, 0, Padding)
    BY <2>1
  <2> HIDE DEF g
  <2>3. CASE f.disp = 0 /\ f.refusal = 0
    <3>1. EncodeAck(f.nonce, Accepted) = g
      BY <2>2, <2>1, <2>3 DEF EncodeAck, Accepted
    <3> QED BY <2>1, <3>1 DEF Genuine, g
  <2>4. CASE f.disp = 1 /\ f.refusal \in Refusals
    <3>1. EncodeAck(f.nonce, Refused(f.refusal)) = g
      BY <2>2, <2>1, <2>4 DEF EncodeAck, Refused
    <3> QED BY <2>1, <2>4, <3>1 DEF Genuine, g
  <2> QED BY <2>1, <2>3, <2>4
<1>3. CASE SettlesLookup(f)
  <2> DEFINE p == Region(f, f.declared)
             g == Frame(f.length, f.magic, f.nonce, f.disp, 0, f.height, f.declared, p)
  <2>1. /\ pending[f.nonce] = "lookup" /\ f.length = FrameBytes /\ f.magic = "ZNR"
        /\ \/ f.disp = 0 /\ f.declared <= MaxReplyTx
           \/ f.disp \in {1, 2} /\ f.height = 0 /\ f.declared = 0
    BY <1>3 DEF SettlesLookup, DecodeReply, Is, Fails
  <2>2. g = Frame(FrameBytes, "ZNR", f.nonce, f.disp, 0, f.height, f.declared, p)
    BY <2>1
  <2>3. p.size = f.declared
    BY DEF Region, Bytes
  <2> HIDE DEF g
  <2>4. CASE f.disp = 0 /\ f.declared <= MaxReplyTx
    <3>1. f.declared \in Nat /\ MaxReplyTx \in Int
      BY WireAssumption DEF Arriving, MaxReplyTx, ReplyHeader
    <3> DEFINE r == Found(f.height, p)
    <3>2. r.is = "found" /\ r.height = f.height /\ r.tx = p
      BY DEF Found
    <3>3. ~(r.is = "found" /\ r.tx.size > MaxReplyTx)
      BY <2>3, <2>4, <3>1, <3>2
    <3>4. EncodeReply(f.nonce, r) = [ok |-> TRUE, frame |-> g]
      <4> HIDE DEF r, p
      <4> QED BY <2>2, <2>3, <2>4, <3>2, <3>3 DEF EncodeReply, Frame
    <3> QED BY <2>1, <3>4 DEF Genuine, g
  <2>5. CASE f.disp \in {1, 2} /\ f.height = 0 /\ f.declared = 0
    <3>1. p = Padding
      <4>1. f.payload \in Written
        BY DEF Arriving
      <4>2. f.payload.size = 0 => f.payload = [of |-> <<>>, size |-> 0]
        BY <4>1 DEF Written
      <4> QED BY <2>5, <4>2 DEF Region, Padding, Bytes
    <3>2. CASE f.disp = 1
      <4>1. EncodeReply(f.nonce, NotFound) = [ok |-> TRUE, frame |-> g]
        BY <2>2, <2>5, <3>1, <3>2 DEF EncodeReply, NotFound, Frame, Padding, Bytes
      <4> QED BY <2>1, <4>1 DEF Genuine, g
    <3>3. CASE f.disp = 2
      <4>1. EncodeReply(f.nonce, NoAnswer) = [ok |-> TRUE, frame |-> g]
        BY <2>2, <2>5, <3>1, <3>3 DEF EncodeReply, NoAnswer, Frame, Padding, Bytes
      <4> QED BY <2>1, <4>1 DEF Genuine, g
    <3> QED BY <2>5, <3>2, <3>3
  <2> QED BY <2>1, <2>4, <2>5
<1> QED BY <1>1, <1>2, <1>3

(* deliver settles a waiter only with a frame the hub's codec can have made. *)
THEOREM WaitersSettledGenuinely == Spec => OnlyGenuineFramesSettle
<1>1. Init => ShimInv
  BY DEF Init, ShimInv, HubInv
<1>2. ShimInv /\ [Next]_vars =>
        [\A f \in toShim : (Deliver(f) /\ pending' # pending) => Genuine(f)]_vars
  BY SettledIsGenuine DEF ShimInv
<1> QED BY <1>1, <1>2, ShimInductive, PTL DEF Spec, OnlyGenuineFramesSettle
=============================================================================
