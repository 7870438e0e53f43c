---------------------------- MODULE MCTorDaemon ----------------------------
EXTENDS TorDaemon, TLC
=============================================================================
