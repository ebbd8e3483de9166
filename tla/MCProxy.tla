------------------------------- MODULE MCProxy -------------------------------
(* Small instances of Proxy: symmetric requests, and the queries of a run.   *)
EXTENDS Proxy, TLC

RequestSymmetry == Permutations(Requests)

(* One query of every kind of route, and of every body the code tells apart. *)
EveryQuery ==
    [path : {"SendTransaction"}, body : SendBodies]
        \cup {[path |-> "sendtransaction//", body |-> "orchard"]}
        \cup [path : {"GetTransaction"}, body : {"filter", "malformed"}]
        \cup [path : {"GetBlockRange", "health", "nym-diag", "attestation"}, body : {"any"}]

(* The image with everything off, and the one with everything on.            *)
Deployments ==
    {[hub |-> FALSE, caution |-> FALSE, diag |-> FALSE],
     [hub |-> TRUE, caution |-> TRUE, diag |-> TRUE]}

(* What the pool sees: a call that is passed through and one that is diverted. *)
FewQueries ==
    {[path |-> "GetBlockRange", body |-> "any"],
     [path |-> "SendTransaction", body |-> "orchard"]}
=============================================================================
