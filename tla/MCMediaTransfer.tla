-------------------------- MODULE MCMediaTransfer --------------------------
EXTENDS MediaTransfer

CONSTANTS msg, g1, g2

\* One list is the order of the two gateways, the other only the second.
MCLists == {<<g1, g2>>, <<g2>>}
=============================================================================
