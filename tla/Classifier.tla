------------------------------ MODULE Classifier ------------------------------
(***************************************************************************)
(* The verdict of zeronym/shim/src/classify.rs on the bytes of a body, and  *)
(* the transaction reader it rests on (the vendored zebra_chain's           *)
(* transaction/serialize.rs).  A body is what was written into it, one      *)
(* transaction after another; the reader stops behind the first.  Of a      *)
(* transaction only what can make the reader fail, or the verdict turn, is  *)
(* kept.                                                                    *)
(***************************************************************************)
EXTENDS Integers, Sequences

Upgrades  == <<"overwinter", "sapling", "blossom", "heartwood", "canopy",
               "nu5", "nu6", "nu6_1", "nu6_2", "nu6_3">>
Groups    == {"none", "overwinter", "sapling", "v5", "v6"}

(* What is written of a transaction.  The counts of Sapling spends and       *)
(* outputs matter only as to whether there are any; flags are the bits set   *)
(* of a bundle's flag byte; agrees says whether librustzcash reads the same  *)
(* bytes as the same transaction, and complete whether nothing is cut off or *)
(* badly encoded.                                                            *)
AllTransactions ==
    [version : 0 .. 7, overwintered : BOOLEAN, group : Groups,
     branch : {Upgrades[i] : i \in DOMAIN Upgrades} \cup {"unknown"},
     coinbase : BOOLEAN, spends : BOOLEAN, outputs : BOOLEAN, balanced : BOOLEAN,
     orchard : Nat, orchardFlags : SUBSET (0 .. 7),
     ironwood : Nat, ironwoodFlags : SUBSET (0 .. 7),
     agrees : BOOLEAN, complete : BOOLEAN]

-----------------------------------------------------------------------------
(* Transaction::zcash_deserialize                                          *)

(* NetworkUpgrade::try_from(branch id), and its order.                     *)
Known(branch) == \E i \in DOMAIN Upgrades : Upgrades[i] = branch
NotBefore(branch, first) ==
    \E i, j \in DOMAIN Upgrades : Upgrades[i] = first /\ Upgrades[j] = branch /\ i <= j

(* Flags::from_byte under the two masks: only Ironwood may set bit 2.       *)
OrchardBundleReads(t)  == t.orchard > 0 => t.orchardFlags \subseteq 0 .. 1
IronwoodBundleReads(t) == t.ironwood > 0 => t.ironwoodFlags \subseteq 0 .. 2

SaplingReads(t) == ~(t.coinbase /\ t.spends)
SaplingV4Reads(t) ==
    /\ SaplingReads(t)
    /\ ~t.spends /\ ~t.outputs => t.balanced

V5Reads(t) ==
    /\ t.group = "v5"
    /\ Known(t.branch) /\ NotBefore(t.branch, "nu5")
    /\ SaplingReads(t) /\ OrchardBundleReads(t)
    /\ t.agrees

V6Reads(t) ==
    /\ t.group = "v6"
    /\ Known(t.branch) /\ NotBefore(t.branch, "nu6_3")
    /\ SaplingReads(t) /\ OrchardBundleReads(t) /\ IronwoodBundleReads(t)
    /\ t.agrees

Reads(t) ==
    /\ t.complete
    /\ \/ t.version \in {1, 2} /\ ~t.overwintered
       \/ t.version = 3 /\ t.overwintered /\ t.group = "overwinter"
       \/ t.version = 4 /\ t.overwintered /\ t.group = "sapling" /\ SaplingV4Reads(t)
       \/ t.version = 5 /\ t.overwintered /\ V5Reads(t)
       \/ t.version = 6 /\ t.overwintered /\ V6Reads(t)

(* Transaction::orchard_shielded_data: V1 to V4 have no Orchard bundle.     *)
HasOrchard(t) == t.version \in {5, 6} /\ t.orchard > 0

-----------------------------------------------------------------------------
(* classify_with_evidence, and the fail-safe of treat_as_migration         *)

Parses(body) == body.of # <<>> /\ Reads(Head(body.of))

ClassOfPrefix(body) ==
    CASE ~Parses(body)              -> "unparseable"
      [] HasOrchard(Head(body.of)) -> "migration"
      [] OTHER                      -> "pass_through"

Class(body) ==
    CASE ~Parses(body)              -> "unparseable"
      [] Len(body.of) > 1          -> "unparseable"
      [] HasOrchard(Head(body.of)) -> "migration"
      [] OTHER                      -> "pass_through"

Diverts(body) == Class(body) \in {"migration", "unparseable"}
=============================================================================
