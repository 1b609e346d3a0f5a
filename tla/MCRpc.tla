------------------------------- MODULE MCRpc --------------------------------
EXTENDS Rpc
=============================================================================
