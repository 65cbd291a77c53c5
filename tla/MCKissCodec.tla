---------------------------- MODULE MCKissCodec ----------------------------
EXTENDS KissCodec

\* The four control bytes and two header bytes: data on port 0, and the
\* NinoTNC's own port 0xE.
MCInput == {FEND, FESC, TFEND, TFESC, 0, 224}

\* No silence, the longest tolerated one, the shortest that resets, and the
\* longest the modular clock can tell.
MCGaps == {0, KISS_FEED_TIMEOUT_MS, KISS_FEED_TIMEOUT_MS + 1, ClockRange - 1}
==========================================================================
