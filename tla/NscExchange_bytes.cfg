SPECIFICATION Spec
CONSTANTS
    Requests <- MCRequests
    ReplyOptions <- MCReplyOptions
    Readings <- MCReadings
    Contents <- MCContents
    Bursts <- MCBursts
INVARIANT RequestUnderstood
INVARIANT PathReadBack
INVARIANT ReplyParsed
INVARIANT DamagedNeverPosted
INVARIANT PostedIsRead
INVARIANT DisplayReadBack
INVARIANT OnlyMetadataThrows
