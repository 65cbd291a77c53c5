----------------------------- MODULE MCBridge -----------------------------
EXTENDS Bridge

\* The alarm that a Test TX frame sets may come at any time later, or not at
\* all in a prefix, so a plain frame of the TNC adds nothing to it.
MCKinds == [tnc |-> {"test", "version"}, ble |-> {"plain"}, spp |-> {"plain"}]
==========================================================================
