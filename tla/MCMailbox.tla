----------------------------- MODULE MCMailbox ------------------------------
EXTENDS Mailbox
=============================================================================
