----------------------------- MODULE MCTorAgent -----------------------------
EXTENDS TorAgent, TLC
=============================================================================
