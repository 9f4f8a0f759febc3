------------------------- MODULE MCTransportProxy -------------------------
EXTENDS TransportProxy
=============================================================================
