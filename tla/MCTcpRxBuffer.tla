---------------------------- MODULE MCTcpRxBuffer ----------------------------
EXTENDS TcpRxBuffer
=============================================================================
