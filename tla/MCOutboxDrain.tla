---------------------------- MODULE MCOutboxDrain ----------------------------
EXTENDS OutboxDrain
=============================================================================
