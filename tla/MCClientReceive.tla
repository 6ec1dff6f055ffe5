--------------------------- MODULE MCClientReceive --------------------------
EXTENDS ClientReceive
=============================================================================
