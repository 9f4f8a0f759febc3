--------------------------- MODULE MCUdpAcceptor ---------------------------
EXTENDS UdpAcceptor
=============================================================================
