---------------------------- MODULE MCDiscovery ----------------------------
EXTENDS Discovery

CONSTANTS ann, ben
=============================================================================
