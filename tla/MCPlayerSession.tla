-------------------------- MODULE MCPlayerSession --------------------------
EXTENDS PlayerSession, TLC
=============================================================================
