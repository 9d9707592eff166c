------------------------------ MODULE MCStreamed ------------------------------
(* StreamedGateway for TLC: one streamed request and an operator.          *)
EXTENDS StreamedGateway, TLC

CONSTANTS r1, o1

MCSessions == Requests \cup Operators
MCPayloads ==
    [r \in Requests |-> [chars |-> 8, bytes |-> 8, items |-> 1, max_output |-> 10]]
MCIdempotencyKey == [r \in Requests |-> NoKey]
OnePrice == <<[input |-> 200000, output |-> 200000]>>
MCResponses ==
    {[estimated |-> e, input |-> 100, output |-> 5] : e \in BOOLEAN}

(* Two lines, the second without a line end; or then [DONE], with or       *)
(* without its own.                                                        *)
MCLines ==
    {<<>>, Done, <<"data:">>, <<"junk", "junk", "junk", "junk">>,
     <<"data:", "junk">>, <<"data:", "[DO">>}
      \cup {<<"data:", e, "}">> : e \in Events}
MCTexts ==
    {a \o <<NewLine>> \o b \o e :
        a, b \in MCLines,
        e \in {<<>>, <<NewLine>> \o Done, <<NewLine>> \o Done \o <<NewLine>>}}
=============================================================================
