---------------------------- MODULE MCRecvWindow ----------------------------
EXTENDS RecvWindow
=============================================================================
