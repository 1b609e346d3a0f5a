---------------------------- MODULE MCSocketWrite ---------------------------
EXTENDS SocketWrite
=============================================================================
