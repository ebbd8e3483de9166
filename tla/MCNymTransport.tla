--------------------------- MODULE MCNymTransport ---------------------------
(* Small instances of NymTransport: symmetric lookups, and bounds on what   *)
(* the hubs may repeat.                                                     *)
EXTENDS NymTransport, TLC

LookupSymmetry == Permutations(Lookups)
=============================================================================
