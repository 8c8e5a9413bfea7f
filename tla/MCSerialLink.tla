---------------------------- MODULE MCSerialLink ----------------------------
(* Instances of SerialLink for TLC.                                          *)
EXTENDS SerialLink

\* a message of four bytes when encoded, and one of five: both fit a buffer of
\* nine, and the second of two of five is accepted and cut
MCSends(t) == IF t = "io" THEN {<<1, 2>>} ELSE {<<ESC, 1>>}

\* a byte may become a delimiter or an escape
MCNoiseBytes == {END, ESC}

=============================================================================
