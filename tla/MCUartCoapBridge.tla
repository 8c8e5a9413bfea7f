-------------------------- MODULE MCUartCoapBridge --------------------------
(* Instances of UartCoapBridge for TLC.                                      *)
EXTENDS UartCoapBridge

\* any function of two bytes to a byte serves; it must not be symmetric
MCMarker(lo, hi) == (3 * lo + 5 * hi + 7) % 256

M(type, mid, token) ==
    [type |-> type, code |-> "request", mid |-> mid, token |-> token]

\* a token without room for tracking, whose first bytes look like the
\* tracking bytes of port 914
Lookalike == <<MCMarker(146, 3), 146, 3, 1, 2>>

\* one without room that does not
Long == <<1, 2, 3, 4, 5>>

MCTokens == {<<>>, Lookalike, Long}

\* the agent's requests and the clients' may use the same message ID
MCClientMessages ==
    {M("CON", 1, <<>>), M("NON", 1, Lookalike), M("CON", 1, Long)}
MCOwnMessages    == {M("CON", 1, <<>>)}

=============================================================================
