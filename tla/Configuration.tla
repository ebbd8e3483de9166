---------------------------- MODULE Configuration ----------------------------
(***************************************************************************)
(* What a configuration makes of the shim: hub_selection                   *)
(* (zeronym/shim/src/config.rs) and what main.rs builds from it, as          *)
(* operators on a configuration, which is a record:                        *)
(*   hub       --hub is given                                              *)
(*   nym       the entries of --hub-nym: "blank", "garbled" (not of the      *)
(*             form identity.encryption@gateway), "unparsed" (of the form,  *)
(*             refused by the SDK), or a hub's address                      *)
(*   required  --require-diversion                                          *)
(*   carried   the binary carries the mixnet driver                         *)
(*   tls       --tls-domain is given                                        *)
(***************************************************************************)
LOCAL INSTANCE Integers

(* Blank entries are dropped, not diagnosed: a variable templated in as      *)
(* empty reaches the list as one of them.  What is left of the list is kept   *)
(* here as the set of its places.                                          *)
AddressesUnfiltered(c) == DOMAIN c.nym
Addresses(c) == {i \in DOMAIN c.nym : c.nym[i] # "blank"}

Garbled(c)  == \E i \in Addresses(c) : c.nym[i] = "garbled"
Unparsed(c) == \E i \in Addresses(c) : c.nym[i] = "unparsed"
Repeated(c) == \E i, j \in Addresses(c) : i < j /\ c.nym[i] = c.nym[j]

(* The HubSelection, or the ConfigError, of which the two that name an       *)
(* entry are one here.                                                      *)
Selected(c, whenNoHub) ==
    LET asked == Addresses(c) # {} IN
    CASE c.hub /\ asked   -> "BothTransports"
      [] c.hub /\ ~asked  -> "Http"
      [] ~c.hub /\ ~asked -> whenNoHub
      [] ~c.hub /\ asked  -> IF Garbled(c) \/ Repeated(c) THEN "BadAddress" ELSE "Nym"
HubSelectionUnrequired(c) == Selected(c, "ForwardOnly")
HubSelection(c) ==
    Selected(c, IF c.required THEN "DiversionRequired" ELSE "ForwardOnly")

(* main.rs: a mixnet hub needs the driver compiled in and addresses the SDK   *)
(* parses; whatever else was selected is built.                             *)
Starts(c) ==
    \/ HubSelection(c) \in {"Http", "ForwardOnly"}
    \/ /\ HubSelection(c) = "Nym"
       /\ c.carried /\ ~Unparsed(c)
=============================================================================
