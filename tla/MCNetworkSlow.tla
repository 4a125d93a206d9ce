--------------------------- MODULE MCNetworkSlow ---------------------------
EXTENDS NetworkProps

CONSTANTS network, home, away

TwoIPs      == {home, away}
OnlyNetwork == {network}
ItsConfig   == {{network}}
=============================================================================
