------------------------------ MODULE MCProcess ------------------------------
(* Small instances of Process: the configurations it is started with.        *)
EXTENDS Process

CONSTANTS h1, h2, p1, p2

(* The lists of --hub-nym that hub_selection tells apart.                    *)
Lists ==
    {<<>>, <<"blank">>, <<h1>>, <<"blank", h1>>, <<h1, h2>>, <<h1, h1>>,
     <<"garbled">>, <<h1, "unparsed">>}

(* Over the mixnet in plaintext only: what the listener does with TLS it does *)
(* whatever the diversion, and is checked with the others.                   *)
EveryConfiguration ==
    {c \in [hub : BOOLEAN, nym : Lists, required : BOOLEAN, carried : BOOLEAN,
            tls : BOOLEAN] :
        Starts(c) /\ HubSelection(c) = "Nym" => ~c.tls}
=============================================================================
