------------------------------ MODULE MCTncRx ------------------------------
EXTENDS TncRx

\* A data frame, one whose payload needs both escapes, one whose header does,
\* and the TNC's answer to the firmware query (port 0xE).
MCContents == {<<0, 1>>, <<0, FEND, FESC>>, <<FEND>>, <<224, 2>>}
==========================================================================
