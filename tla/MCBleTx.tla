------------------------------ MODULE MCBleTx ------------------------------
EXTENDS BleTx

\* A plain frame, and one whose payload needs an escape.
MCContents == {<<0, 1, 2>>, <<16, FESC>>}
==========================================================================
