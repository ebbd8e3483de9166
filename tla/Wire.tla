--------------------------------- MODULE Wire ---------------------------------
(***************************************************************************)
(* The fixed-size frames of zeronym/shim/src/wire.rs.  A frame is a record  *)
(* of its header's fields, and its payload stands for the bytes after the   *)
(* header: reading fewer or more bytes of it than were written yields other *)
(* bytes.  A codec returns [ok |-> FALSE] where the code returns an error.  *)
(***************************************************************************)
EXTENDS Integers, Sequences

CONSTANTS FrameBytes, AckBytes, LookupBytes   \* the sizes of the frames

SubmitHeader == 24
LookupHeader == 21
ReplyHeader  == 33

(* A frame is told from an ack by its size, and a hash's length is a byte.  *)
ASSUME WireAssumption ==
    /\ FrameBytes \in Nat /\ FrameBytes >= ReplyHeader
    /\ AckBytes \in 22 .. FrameBytes - 1
    /\ LookupBytes \in LookupHeader + 32 .. LookupHeader + 255

MaxNymTxUnderSubmitHeader == FrameBytes - SubmitHeader
MaxNymTx   == FrameBytes - ReplyHeader
MaxReplyTx == FrameBytes - ReplyHeader
MaxHash    == LookupBytes - LookupHeader

(* Bytes stand for the transactions written into them; these hold none.      *)
Bytes(n) == [of |-> <<>>, size |-> n]
Padding  == Bytes(0)

(* The n bytes after the header.                                           *)
Region(frame, n) ==
    IF frame.payload.size = n THEN frame.payload ELSE Bytes(n)

Fails == [ok |-> FALSE]

(* A frame is blank past the fields its kind has.                           *)
Frame(length, magic, nonce, disp, refusal, height, declared, payload) ==
    [length |-> length, magic |-> magic, nonce |-> nonce, disp |-> disp,
     refusal |-> refusal, height |-> height, declared |-> declared, payload |-> payload]

Is(frame, length, magic) == frame.length = length /\ frame.magic = magic

-----------------------------------------------------------------------------
(* A submission and its acknowledgement                                    *)

EncodeSubmit(nonce, tx) ==
    IF tx.size > MaxNymTx
    THEN Fails
    ELSE [ok |-> TRUE,
          frame |-> Frame(FrameBytes, "ZNS", nonce, 0, 0, 0, tx.size, tx)]

DecodeSubmit(frame) ==
    IF Is(frame, FrameBytes, "ZNS") /\ frame.declared <= MaxNymTx
    THEN [ok |-> TRUE, nonce |-> frame.nonce, tx |-> Region(frame, frame.declared)]
    ELSE Fails

Refusals == 1 .. 5       \* AckRefusal::code: expiry, too large, full, stale, bad frame
Accepted == [accepted |-> TRUE, refusal |-> 0]
Refused(code) == [accepted |-> FALSE, refusal |-> code]

EncodeAck(nonce, kind) ==
    Frame(AckBytes, "ZNA", nonce, IF kind.accepted THEN 0 ELSE 1, kind.refusal, 0, 0, Padding)

DecodeAck(frame) ==
    IF ~Is(frame, AckBytes, "ZNA") THEN Fails
    ELSE CASE frame.disp = 0 /\ frame.refusal = 0 ->
                    [ok |-> TRUE, nonce |-> frame.nonce, kind |-> Accepted]
           [] frame.disp = 1 /\ frame.refusal \in Refusals ->
                    [ok |-> TRUE, nonce |-> frame.nonce, kind |-> Refused(frame.refusal)]
           [] OTHER -> Fails

-----------------------------------------------------------------------------
(* A lookup and its reply                                                  *)

EncodeLookup(nonce, hash) ==
    IF hash.size > MaxHash
    THEN Fails
    ELSE [ok |-> TRUE,
          frame |-> Frame(LookupBytes, "ZNL", nonce, 0, 0, 0, hash.size % 256, hash)]

DecodeLookup(frame) ==
    IF Is(frame, LookupBytes, "ZNL") /\ frame.declared <= MaxHash
    THEN [ok |-> TRUE, nonce |-> frame.nonce, hash |-> Region(frame, frame.declared)]
    ELSE Fails

Found(height, tx) == [is |-> "found", height |-> height, tx |-> tx]
NotFound  == [is |-> "not_found", height |-> 0, tx |-> Padding]
NoAnswer  == [is |-> "error", height |-> 0, tx |-> Padding]

EncodeReply(nonce, reply) ==
    IF reply.is = "found" /\ reply.tx.size > MaxReplyTx
    THEN Fails
    ELSE [ok |-> TRUE,
          frame |-> Frame(FrameBytes, "ZNR", nonce,
                          CASE reply.is = "found" -> 0
                            [] reply.is = "not_found" -> 1
                            [] OTHER -> 2,
                          0, reply.height, reply.tx.size, reply.tx)]

DecodeReplyWithStray(frame) ==
    IF ~Is(frame, FrameBytes, "ZNR") THEN Fails
    ELSE CASE frame.disp = 0 /\ frame.declared <= MaxReplyTx ->
                    [ok |-> TRUE, nonce |-> frame.nonce,
                     reply |-> Found(frame.height, Region(frame, frame.declared))]
           [] frame.disp \in {1, 2} ->
                    [ok |-> TRUE, nonce |-> frame.nonce,
                     reply |-> IF frame.disp = 1 THEN NotFound ELSE NoAnswer]
           [] OTHER -> Fails

DecodeReply(frame) ==
    IF ~Is(frame, FrameBytes, "ZNR") THEN Fails
    ELSE CASE frame.disp = 0 /\ frame.declared <= MaxReplyTx ->
                    [ok |-> TRUE, nonce |-> frame.nonce,
                     reply |-> Found(frame.height, Region(frame, frame.declared))]
           [] frame.disp \in {1, 2} /\ frame.height = 0 /\ frame.declared = 0 ->
                    [ok |-> TRUE, nonce |-> frame.nonce,
                     reply |-> IF frame.disp = 1 THEN NotFound ELSE NoAnswer]
           [] OTHER -> Fails
=============================================================================
