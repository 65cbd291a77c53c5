----------------------------- MODULE MCBtLink -----------------------------
EXTENDS BtLink

\* One client of either kind, or one of each: btstack_config.h allows two
\* connections and one RFCOMM channel.
MCClientSets == {{"ble"}, {"spp"}, {"ble", "spp"}}
MCBleOnly == {{"ble"}}

\* A position report, and a frame whose length a uint8_t cannot hold.
MCLens == {40, 256}
MCShort == {40}
==========================================================================
