---------------------------- MODULE MCDctcpWindow ----------------------------
EXTENDS DctcpWindow
=============================================================================
