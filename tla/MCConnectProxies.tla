------------------------- MODULE MCConnectProxies -------------------------
EXTENDS ConnectProxies
=============================================================================
