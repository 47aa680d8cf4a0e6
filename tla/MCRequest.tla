------------------------------- MODULE MCRequest -------------------------------
(* Messages for Request: a request line, good or not, then any bytes.       *)
EXTENDS Request

CONSTANTS Free  \* number of unconstrained bytes

MCBytes == {"x", "sp", "colon", "nl", "cr", "nul"}

MCFirst == {<<"x", "sp", "sp", "nl">>, <<"sp", "x", "sp", "nl">>, <<"x", "sp", "nl", "nl">>}

MCMaxPos == 4 + Free

MCInputs == {p \o q : p \in MCFirst, q \in [1 .. Free -> MCBytes]}

================================================================================
