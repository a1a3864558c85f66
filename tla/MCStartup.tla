----------------------------- MODULE MCStartup -----------------------------
EXTENDS Startup

CONSTANTS w1, w2
=============================================================================
