---------------------------- MODULE MCContextLife ---------------------------
EXTENDS ContextLife
=============================================================================
