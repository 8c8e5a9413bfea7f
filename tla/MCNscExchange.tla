---------------------------- MODULE MCNscExchange ----------------------------
(* Instances of NscExchange for TLC: requests of coapSRCPro and of the tests.*)
EXTENDS NscExchange

\* segments and queries at the limits of the encoding, and no format
LongOnes ==
    [Post(FSODATA, NONE, <<Name(13), Name(255), Name(256)>>, <<255>>)
        EXCEPT !.queries = <<Name(268), Name(269)>>]

LongBytes ==
    [LongOnes EXCEPT !.segments = <<Name(12), Name(0), Name(255)>>,
                     !.queries = <<Name(255), Name(13)>>]

MCRequests ==
    {Observing(getCombinedJoystickKeypad, 0),
     Observing(getCombinedJoystickKeypad, 1),
     getSerialNumber, getSMCUSafetyDiagnostics, getDisplayMode,
     postDisplayMode, postVibrateBoth, LongOnes, LongBytes,
     postFsoData(Name(300)),
     postDisplayTextSegment(255, 255, Name(7)),
     postFirmwareFileMetadata(Name(11), 65535, 65536),
     postFirmwareFileMetadata(Name(11), 65536, 65536)}
    \cup {postDisplayTextRawLines(Name(m), Name(n), TRUE) :
            m, n \in {0, 17, 18, 19, 24}}

\* none; Observe; Observe and Content-Format; Max-Age 14; a long ETag, Size2 28
MCReplyOptions ==
    {<<>>,
     <<Option(Observe, <<1, 255>>)>>,
     <<Option(Observe, <<>>), Option(ContentFormat, <<42>>)>>,
     <<Option(4, Name(8)), Option(ContentFormat, <<42>>), Option(14, <<60>>)>>,
     <<Option(Observe, <<2>>), Option(28, <<3, 1>>)>>}

Ok(data) == [data |-> data, dataOK |-> TRUE]

MCReadings ==
    {[buttons |-> 128, axes |-> [k \in 1 .. 6 |-> Ok(0)]],
     [buttons |-> 0, axes |-> [k \in 1 .. 6 |->
         IF k = 1 THEN Ok(-2048) ELSE IF k = 2 THEN Ok(2047)
         ELSE [data |-> -1, dataOK |-> FALSE]]],
     [buttons |-> 2, axes |-> [k \in 1 .. 6 |-> Ok(-3)]],
     [buttons |-> 0, axes |-> [k \in 1 .. 6 |-> [data |-> 5, dataOK |-> FALSE]]]}

MCContents ==
    {<<>>, <<255, 7>>, [k \in 1 .. 18 |-> 0], [k \in 1 .. 17 |-> 0]}

\* one bit, and both or all bits of sixteen
MCBursts == {1, 32769, 65535}

=============================================================================
