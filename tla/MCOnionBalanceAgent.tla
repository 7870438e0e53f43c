------------------------ MODULE MCOnionBalanceAgent ------------------------
EXTENDS OnionBalanceAgent, TLC
=============================================================================
