----------------------------- MODULE MCDataflow -----------------------------
(* A small instance of Dataflow: transactions that differ where the reader   *)
(* and the verdict look, sizes on both sides of every budget, and reply      *)
(* frames that are almost right.                                             *)
EXTENDS Dataflow, TLC

CONSTANTS n1, n2

Plain(version) ==
    [version |-> version, overwintered |-> version > 2,
     group |-> CASE version = 3 -> "overwinter" [] version = 4 -> "sapling"
                 [] version = 5 -> "v5" [] version = 6 -> "v6" [] OTHER -> "none",
     branch |-> "nu6_3", coinbase |-> FALSE, spends |-> FALSE, outputs |-> FALSE,
     balanced |-> TRUE, orchard |-> 0, orchardFlags |-> {}, ironwood |-> 0,
     ironwoodFlags |-> {}, agrees |-> TRUE, complete |-> TRUE]

Headers ==
    {[Plain(v) EXCEPT !.overwintered = o] : v \in 0 .. 7, o \in BOOLEAN}
        \cup {[Plain(v) EXCEPT !.group = g] : v \in 3 .. 6, g \in Groups}
        \cup {[Plain(v) EXCEPT !.complete = FALSE] : v \in {1, 6}}

Saplings ==
    {[Plain(4) EXCEPT !.coinbase = c, !.spends = s, !.outputs = o, !.balanced = b] :
        c \in BOOLEAN, s \in BOOLEAN, o \in BOOLEAN, b \in BOOLEAN}
        \cup {[Plain(6) EXCEPT !.coinbase = c, !.spends = TRUE] : c \in BOOLEAN}

Actions(t) == [t EXCEPT !.orchard = 1, !.orchardFlags = {0, 1}]
Orchard == Actions(Plain(6))

Shielded ==
    LET upgraded == {[Plain(v) EXCEPT !.branch = u] :
                        v \in {5, 6}, u \in {"unknown", "canopy", "nu5", "nu6_3"}}
    IN  upgraded \cup {Actions(t) : t \in upgraded}
            \cup {[t EXCEPT !.agrees = FALSE] : t \in {Plain(5), Orchard}}
            \cup {[Actions(Plain(v)) EXCEPT !.orchardFlags = {2}] : v \in {5, 6}}
            \cup {[t EXCEPT !.ironwood = 1, !.ironwoodFlags = f] :
                    t \in {Plain(6), Orchard}, f \in {{0, 2}, {3}}}

Small(txs) == [of |-> txs, size |-> 2000]

EveryBody ==
    {Padding}
        \cup {Small(<<t>>) : t \in Headers \cup Saplings \cup Shielded}
        \cup {Small(<<t, u>>) : t, u \in {Plain(1), Plain(6), Orchard}}
        \cup [of : {<<Orchard>>, <<Plain(0)>>},
              size : {MaxNymTx, MaxNymTx + 1, FrameBytes - SubmitHeader,
                      FrameBytes - SubmitHeader + 1}]

Mined == {Small(<<Plain(1), Plain(0)>>)}

(* Replies of another version or origin, wrong in one field.                *)
AlmostRight ==
    UNION {{[EncodeReply(n, NotFound).frame EXCEPT !.height = 1],
            [EncodeReply(n, NoAnswer).frame EXCEPT !.declared = 40],
            [EncodeReply(n, NotFound).frame EXCEPT !.disp = 3],
            [EncodeReply(n, Found(1, Small(<<Plain(5)>>))).frame EXCEPT !.declared = 40],
            [EncodeReply(n, Found(1, Small(<<Plain(5)>>))).frame EXCEPT !.declared = MaxReplyTx + 1],
            [EncodeAck(n, Accepted) EXCEPT !.refusal = 1],
            [EncodeAck(n, Accepted) EXCEPT !.disp = 1],
            [EncodeAck(n, Accepted) EXCEPT !.length = FrameBytes]} : n \in {n1, n2}}

NonceSymmetry == Permutations({n1, n2})
=============================================================================
