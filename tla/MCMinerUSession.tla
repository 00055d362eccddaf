--------------------------- MODULE MCMinerUSession ---------------------------
EXTENDS MinerUSession
CONSTANTS job, preload, server, flash
==============================================================================
